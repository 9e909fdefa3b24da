------------------------------- MODULE ShmFence -------------------------------
(***************************************************************************)
(* One chunk of the shared-memory ring on hardware memory.  ShmRing takes  *)
(* memory to be sequentially consistent; here the writer's stores wait in  *)
(* a store buffer until memory_fence() drains it, and the loads between    *)
(* two fences of a reader need not be made in program order.               *)
(*                                                                         *)
(* memory_fence is taken as the full barrier its docstring describes.      *)
(***************************************************************************)
EXTENDS Naturals, Sequences

CONSTANTS
  NReaders,   \* local readers
  MaxMsgs,    \* bound on the messages
  WeakStores, \* FALSE: stores become visible in order (x86); TRUE: only stores
              \* to the same byte do (ARM)
  WeakLoads   \* TRUE: loads need not be made in program order (ARM)

\* Assumed of the constants wherever the module is instantiated.
FenceAssumption ==
  /\ NReaders \in Nat \ {0} /\ MaxMsgs \in Nat
  /\ WeakStores \in BOOLEAN /\ WeakLoads \in BOOLEAN

Readers == 1..NReaders
Written == <<"written", 0>>
Half(h) == <<"data", h>>
Flag(r) == <<"flag", r>>
Bytes   == {Written} \cup {Half(h) : h \in 1..2} \cup {Flag(r) : r \in Readers}

VARIABLES
  mem,    \* the shared bytes
  buf,    \* the writer's stores that are not visible yet, in program order
  wpc,    \* the writer's place in acquire_write
  wi,     \* next read flag to reset
  sent,   \* messages committed
  seen,   \* seen[r]: what reader r has loaded since its last fence
  taken,  \* taken[r]: messages reader r accepted
  got     \* got[r]: the halves of the last one

vars == <<mem, buf, wpc, wi, sent, seen, taken, got>>

Init ==
  /\ mem = [b \in Bytes |-> 0]
  /\ buf = << >>
  /\ wpc = "check" /\ wi = 1 /\ sent = 0
  /\ seen = [r \in Readers |-> << >>]
  /\ taken = [r \in Readers |-> 0]
  /\ got = [r \in Readers |-> <<0, 0>>]

readerVars == <<seen, taken, got>>

-----------------------------------------------------------------------------
(* The writer.                                                             *)

Store(b, x) == buf' = Append(buf, [byte |-> b, val |-> x])

WCheck_SomeRead ==          \* one reader that is done frees the chunk
  /\ wpc = "check" /\ sent < MaxMsgs
  /\ mem[Written] = 0 \/ \E r \in Readers : mem[Flag(r)] = 1
  /\ wpc' = "mark"
  /\ UNCHANGED <<mem, buf, wi, sent, readerVars>>

WCheck ==
  /\ wpc = "check" /\ sent < MaxMsgs
  /\ mem[Written] = 0 \/ \A r \in Readers : mem[Flag(r)] = 1
  /\ wpc' = "mark"
  /\ UNCHANGED <<mem, buf, wi, sent, readerVars>>

WStore(from, to, b, x) ==
  /\ wpc = from /\ wpc' = to
  /\ Store(b, x)
  /\ UNCHANGED <<mem, wi, sent, readerVars>>

WReset_OneTooMany ==        \* the loop runs past the last reader
  /\ wpc = "reset"
  /\ Store(Flag(wi), 0)
  /\ IF wi > NReaders THEN wi' = 1 /\ wpc' = "fence" ELSE wi' = wi + 1 /\ wpc' = wpc
  /\ UNCHANGED <<mem, sent, readerVars>>

WReset ==
  /\ wpc = "reset"
  /\ Store(Flag(wi), 0)
  /\ IF wi = NReaders THEN wi' = 1 /\ wpc' = "fence" ELSE wi' = wi + 1 /\ wpc' = wpc
  /\ UNCHANGED <<mem, sent, readerVars>>

WFence(from, to) ==
  /\ wpc = from /\ wpc' = to
  /\ buf = << >>
  /\ sent' = IF to = "check" THEN sent + 1 ELSE sent
  /\ UNCHANGED <<mem, buf, wi, readerVars>>

WriterStep ==
  \/ WCheck
  \/ WStore("mark", "lo", Written, 0)
  \/ WStore("lo", "hi", Half(1), sent + 1)
  \/ WStore("hi", "reset", Half(2), sent + 1)
  \/ WReset
  \/ WFence("fence", "commit") \/ WStore("commit", "publish", Written, 1)
  \/ WFence("publish", "check")

\* A buffered store becomes visible: the oldest one, or with weak ordering any
\* one that has no older store to the same byte before it.
Drain(i) ==
  /\ i \in DOMAIN buf
  /\ IF WeakStores THEN \A j \in 1..(i - 1) : buf[j].byte # buf[i].byte ELSE i = 1
  /\ mem' = [mem EXCEPT ![buf[i].byte] = buf[i].val]
  /\ buf' = SubSeq(buf, 1, i - 1) \o SubSeq(buf, i + 1, Len(buf))
  /\ UNCHANGED <<wpc, wi, sent, readerVars>>

-----------------------------------------------------------------------------
(* A reader: check() is a fence, the read flag and the written flag; then  *)
(* the caller reads the chunk.  There is no fence in between.              *)

LoadOrder(r) == <<Flag(r), Written, Half(1), Half(2)>>

Load(r, k) ==
  LET b == LoadOrder(r)[k] IN
  /\ b \notin DOMAIN seen[r]
  /\ WeakLoads \/ \A j \in 1..(k - 1) : LoadOrder(r)[j] \in DOMAIN seen[r]
  /\ seen' = [seen EXCEPT ![r] = [x \in DOMAIN @ \cup {b} |-> IF x = b THEN mem[b] ELSE @[x]]]
  /\ UNCHANGED <<mem, buf, wpc, wi, sent, taken, got>>

Ready(r) == seen[r][Written] = 1 /\ seen[r][Flag(r)] = 0

Retry(r) ==
  /\ {Written, Flag(r)} \subseteq DOMAIN seen[r] /\ ~Ready(r)
  /\ seen' = [seen EXCEPT ![r] = << >>]
  /\ UNCHANGED <<mem, buf, wpc, wi, sent, taken, got>>

\* The read flag is stored and a fence makes it visible.
Accept(r) ==
  /\ DOMAIN seen[r] = {LoadOrder(r)[k] : k \in 1..4} /\ Ready(r)
  /\ got' = [got EXCEPT ![r] = <<seen[r][Half(1)], seen[r][Half(2)]>>]
  /\ taken' = [taken EXCEPT ![r] = @ + 1]
  /\ mem' = [mem EXCEPT ![Flag(r)] = 1]
  /\ seen' = [seen EXCEPT ![r] = << >>]
  /\ UNCHANGED <<buf, wpc, wi, sent>>

ReaderStep(r) == (\E k \in 1..4 : Load(r, k)) \/ Retry(r) \/ Accept(r)

Next ==
  \/ WriterStep
  \/ \E i \in 1..Len(buf) : Drain(i)
  \/ \E r \in Readers : ReaderStep(r)

Spec == Init /\ [][Next]_vars

-----------------------------------------------------------------------------
(* Properties.                                                             *)

TypeOK ==
  /\ mem \in [Bytes -> 0..MaxMsgs \cup {1}]
  /\ \A i \in DOMAIN buf : buf[i] \in [byte : Bytes, val : 0..MaxMsgs \cup {1}]
  /\ wpc \in {"check", "mark", "lo", "hi", "reset", "fence", "commit", "publish"}
  /\ sent \in 0..MaxMsgs
  /\ \A r \in Readers : DOMAIN seen[r] \subseteq Bytes
  /\ taken \in [Readers -> Nat]

\* "This guarantees that when metadata_buffer[0] = 1 is visible to readers, buf
\* can be completely ready": whatever a reader accepts is its next message whole.
AcceptedWhole == \A r \in Readers : got[r] = <<taken[r], taken[r]>>
=============================================================================
