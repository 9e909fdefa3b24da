-------------------------- MODULE MessageQueueProofs --------------------------
(***************************************************************************)
(* Proofs about MessageQueue, for every number of local and remote readers *)
(* and every capacity: what wait_until_ready gives the readers, what a     *)
(* remote reader is sent, and what a patient local reader receives over    *)
(* its two channels.                                                       *)
(***************************************************************************)
EXTENDS MessageQueue, FiniteSetTheorems, SequenceTheorems, TLAPS

WPlaces == {"subLocal", "subRemote", "idle", "acquire", "overflow", "notify", "remote"}
RPlaces == {"connect", "ready", "idle", "check", "woken", "poll", "recv", "stopped"}

\* The socket of this kind of reader has published READY.
Announced(r) == \/ r \in Local /\ wpc # "subLocal"
                \/ r \in Remote /\ wpc \notin {"subLocal", "subRemote"}

Types ==
  /\ wpc \in WPlaces /\ nsub \in Nat
  /\ subs \subseteq AllRd /\ log \in Seq([id : Nat, big : BOOLEAN])
  /\ wobj \in [id : Nat, big : BOOLEAN]
  /\ chan \in [AllRd -> Seq(Nat)] /\ rpc \in [AllRd -> RPlaces]

\* The writer has counted no more subscriptions than there are, of one kind and then
\* of the other, and publishes no object before it has counted all.
Counting ==
  /\ wpc = "subLocal"  => nsub <= Cardinality(subs \cap Local) /\ log = << >>
  /\ wpc = "subRemote" => nsub <= Cardinality(subs \cap Remote) /\ log = << >>
  /\ \A r \in AllRd : Announced(r) => r \in subs

\* A reader that waits for READY has it first in its socket, or nothing there yet.
Waiting ==
  \A r \in AllRd :
    /\ rpc[r] = "connect" => r \notin subs /\ chan[r] = << >>
    /\ rpc[r] = "ready" => /\ chan[r] = << >> \/ Head(chan[r]) = READY
                           /\ Announced(r) => chan[r] # << >>

IInv == Types /\ Counting /\ Waiting

-----------------------------------------------------------------------------
LEMMA StartsInvariant == Init => IInv
<1> SUFFICES ASSUME Init PROVE IInv
  OBVIOUS
<1>1. log = << >> /\ log \in Seq([id : Nat, big : BOOLEAN])
  BY DEF Init, Ring!BQInit
<1>2. << >> \in Seq(Nat)
  OBVIOUS
<1>3. Types
  BY <1>1, <1>2 DEF Init, Types, WPlaces, RPlaces
<1>4. Cardinality(subs \cap Local) = 0
  BY FS_EmptySet DEF Init
<1>5. Local \cap Remote = {} /\ \A r \in AllRd : ~Announced(r)
  BY QueueAssumption DEF Local, Remote, AllRd, Announced, Init
<1> QED
  BY <1>1, <1>3, <1>4, <1>5 DEF IInv, Counting, Waiting, Init

\* As many subscriptions as readers are those of all of them.
LEMMA AllSubscribed ==
  ASSUME NEW lo \in Nat, NEW n \in Nat, NEW s \in SUBSET ((lo + 1)..(lo + n)),
         n <= Cardinality(s)
  PROVE  s = (lo + 1)..(lo + n)
<1> DEFINE all == (lo + 1)..(lo + n)
<1>1. IsFiniteSet(all) /\ Cardinality(all) = n
  BY FS_Interval
<1>2. Cardinality(s) <= Cardinality(all) /\ (Cardinality(all) = Cardinality(s) => all = s)
  BY <1>1, FS_Subset
<1>3. Cardinality(s) \in Nat
  BY <1>1, FS_Subset, FS_CardinalityType
<1> QED
  BY <1>1, <1>2, <1>3

\* More subscriptions are no fewer of either kind.
LEMMA Counts ==
  ASSUME NEW rs \in {Local, Remote}, NEW more, NEW some \in SUBSET more
  PROVE  /\ Cardinality(some \cap rs) \in Nat /\ Cardinality(more \cap rs) \in Nat
         /\ Cardinality(some \cap rs) <= Cardinality(more \cap rs)
<1>1. IsFiniteSet(rs)
  BY QueueAssumption, FS_Interval DEF Local, Remote
<1>2. IsFiniteSet(more \cap rs)
  BY <1>1, FS_Subset
<1> QED
  BY <1>2, FS_Subset, FS_CardinalityType

\* Publishing appends, to those who listen.
LEMMA PublishAppends ==
  ASSUME Types, NEW rs \in SUBSET AllRd, NEW x \in Nat, Publish(rs, x)
  PROVE  /\ chan' \in [AllRd -> Seq(Nat)]
         /\ \A r \in AllRd :
              /\ r \in rs \cap subs => chan'[r] # << >>
              /\ chan[r] # << >> => chan'[r] # << >> /\ Head(chan'[r]) = Head(chan[r])
              /\ chan[r] = << >> => chan'[r] = << >> \/ Head(chan'[r]) = x
<1>1. chan' = [r \in AllRd |-> IF r \in rs \cap subs THEN Append(chan[r], x) ELSE chan[r]]
  BY DEF Publish
<1>2. \A r \in AllRd : chan[r] \in Seq(Nat)
  BY DEF Types
<1>3. ASSUME NEW s \in Seq(Nat)
      PROVE  /\ Append(s, x) \in Seq(Nat) /\ Append(s, x) # << >>
             /\ s # << >> => Head(Append(s, x)) = Head(s)
             /\ s = << >> => Head(Append(s, x)) = x
  BY AppendProperties, HeadTailAppend
<1> QED
  BY <1>1, <1>2, <1>3

-----------------------------------------------------------------------------
(* The handshake.                                                          *)

LEMMA SubscribeKeeps ==
  ASSUME IInv, NEW r \in AllRd, Subscribe(r)
  PROVE  IInv'
<1>1. /\ subs' = subs \cup {r} /\ rpc' = [rpc EXCEPT ![r] = "ready"] /\ rpc[r] = "connect"
      /\ UNCHANGED <<log, wpc, wobj, nsub, chan>>
  BY DEF Subscribe, RGoto, ringVars, wVars
<1>2. r \notin subs /\ ~Announced(r)
  BY <1>1 DEF IInv, Waiting, Counting
<1>3. Types'
  BY <1>1 DEF IInv, Types, RPlaces
<1>4. \A q \in AllRd : Announced(q)' <=> Announced(q)
  BY <1>1 DEF Announced
<1>5. Waiting'
  BY <1>1, <1>2, <1>4 DEF IInv, Types, Waiting
<1>6. ASSUME NEW rs \in {Local, Remote}
      PROVE  /\ Cardinality(subs \cap rs) \in Nat /\ Cardinality(subs' \cap rs) \in Nat
             /\ Cardinality(subs \cap rs) <= Cardinality(subs' \cap rs)
  BY <1>1, Counts DEF IInv, Types
<1>7. Counting'
  BY <1>1, <1>4, <1>6 DEF IInv, Types, Counting
<1> QED
  BY <1>3, <1>5, <1>7 DEF IInv

\* The writer waits for NLocal subscriptions of local readers, then for NRemote.
LEMMA CountSubKeeps ==
  ASSUME IInv, NEW rs \in {Local, Remote}, NEW from \in {"subLocal", "subRemote"}, NEW n,
         rs = (IF from = "subLocal" THEN Local ELSE Remote), CountSub(rs, from, n)
  PROVE  IInv'
<1>1. /\ wpc = from /\ nsub < Cardinality(subs \cap rs) /\ nsub' = nsub + 1
      /\ UNCHANGED <<log, wpc, wobj, subs, chan, rpc>>
  BY DEF CountSub, ringVars, rVars
<1>2. Cardinality(subs \cap rs) \in Nat
  BY Counts
<1>3. nsub' <= Cardinality(subs \cap rs)
  BY <1>1, <1>2 DEF IInv, Types
<1>4. Types' /\ Waiting'
  BY <1>1 DEF IInv, Types, Waiting, Announced
<1>5. Counting'
  BY <1>1, <1>3 DEF IInv, Counting, Announced
<1> QED
  BY <1>4, <1>5 DEF IInv

\* READY goes to all readers of a kind once all of them listen.
LEMMA AnnounceKeeps ==
  ASSUME IInv,
         \/ AnnounceReady(Local, "subLocal", "subRemote", NLocal)
         \/ AnnounceReady(Remote, "subRemote", "idle", NRemote)
  PROVE  IInv'
<1>1. PICK rs \in {Local, Remote}, n \in {NLocal, NRemote} :
        /\ \/ rs = Local /\ n = NLocal /\ wpc = "subLocal" /\ wpc' = "subRemote"
           \/ rs = Remote /\ n = NRemote /\ wpc = "subRemote" /\ wpc' = "idle"
        /\ nsub = n /\ nsub' = 0
        /\ IF n > 0 THEN Publish(rs, READY) ELSE UNCHANGED chan
        /\ UNCHANGED <<log, wobj, subs, rpc>>
  BY DEF AnnounceReady, ringVars, rVars
<1>2. /\ NLocal \in Nat /\ NRemote \in Nat /\ n \in Nat /\ READY \in Nat
      /\ rs \in SUBSET AllRd /\ Local \cap Remote = {}
  BY QueueAssumption DEF Local, Remote, AllRd, READY
<1>3. rs \subseteq subs
  <2>1. n <= Cardinality(subs \cap rs)
    BY <1>1 DEF IInv, Counting
  <2>2. subs \cap rs = rs
    <3>1. \E lo \in Nat : rs = (lo + 1)..(lo + n)
      <4>1. Local = (0 + 1)..(0 + NLocal) /\ 0 \in Nat
        BY <1>2 DEF Local
      <4> QED
        BY <1>1, <1>2, <4>1 DEF Remote
    <3> QED
      BY <1>2, <2>1, <3>1, AllSubscribed
  <2> QED
    BY <2>2
<1>4. \A r \in AllRd : Announced(r)' <=> Announced(r) \/ r \in rs
  BY <1>1, <1>2 DEF Announced, AllRd
<1>5. /\ chan' \in [AllRd -> Seq(Nat)]
      /\ \A r \in AllRd :
           /\ r \in rs \cap subs => chan'[r] # << >>
           /\ chan[r] # << >> => chan'[r] # << >> /\ Head(chan'[r]) = Head(chan[r])
           /\ chan[r] = << >> => chan'[r] = << >> \/ Head(chan'[r]) = READY
           /\ r \notin subs => chan'[r] = chan[r]
  <2>1. CASE n > 0
    <3>1. Publish(rs, READY)
      BY <1>1, <2>1
    <3>2. \A r \in AllRd : r \notin subs => chan'[r] = chan[r]
      BY <3>1 DEF Publish
    <3> QED
      BY <1>2, <3>1, <3>2, PublishAppends DEF IInv
  <2>2. CASE n = 0
    <3>1. rs = {}
      BY <1>1, <1>2, <2>2, QueueAssumption DEF Remote
    <3> QED
      BY <1>1, <2>2, <3>1 DEF IInv, Types
  <2> QED
    BY <1>2, <2>1, <2>2
<1>6. Types'
  BY <1>1, <1>5 DEF IInv, Types, WPlaces
<1>7. Waiting'
  BY <1>1, <1>3, <1>4, <1>5 DEF IInv, Waiting
<1>8. Counting'
  <2>1. Cardinality(subs' \cap Remote) \in Nat /\ nsub' = 0
    BY <1>1, Counts
  <2> QED
    BY <1>1, <1>3, <1>4, <2>1 DEF IInv, Counting
<1> QED
  BY <1>6, <1>7, <1>8 DEF IInv

\* What a reader finds first is READY.
LEMMA RecvReadyKeeps ==
  ASSUME IInv, NEW r \in AllRd, RecvReady(r)
  PROVE  IInv'
<1>1. /\ rpc[r] = "ready" /\ chan[r] # << >> /\ chan' = [chan EXCEPT ![r] = Tail(@)]
      /\ rpc' = [rpc EXCEPT ![r] = IF Head(chan[r]) = READY THEN "idle" ELSE "assertion"]
      /\ UNCHANGED <<log, wpc, wobj, nsub, subs>>
  BY DEF RecvReady, RGoto, ringVars, wVars
<1>2. rpc' = [rpc EXCEPT ![r] = "idle"]
  BY <1>1 DEF IInv, Waiting
<1>3. Tail(chan[r]) \in Seq(Nat)
  BY <1>1, HeadTailProperties DEF IInv, Types
<1>4. Types'
  BY <1>1, <1>2, <1>3 DEF IInv, Types, RPlaces
<1>5. Waiting' /\ Counting'
  BY <1>1, <1>2 DEF IInv, Types, Waiting, Counting, Announced
<1> QED
  BY <1>4, <1>5 DEF IInv

-----------------------------------------------------------------------------
(* Objects.                                                                *)

\* The writer goes from a place past the handshake to another, and may append to the
\* log or send an object.
LEMMA WriterGoes ==
  ASSUME IInv, wpc \notin {"subLocal", "subRemote"},
         wpc' \in WPlaces \ {"subLocal", "subRemote"},
         UNCHANGED <<nsub, subs, rpc>>,
         wobj' \in [id : Nat, big : BOOLEAN], log' \in Seq([id : Nat, big : BOOLEAN]),
         NEW rs \in SUBSET AllRd, UNCHANGED chan \/ Publish(rs, wobj.id)
  PROVE  IInv'
<1>1. \A r \in AllRd : Announced(r)' <=> Announced(r)
  BY DEF Announced
<1>2. \A r \in AllRd : Announced(r) /\ r \in subs
  BY DEF IInv, Counting, Announced, AllRd
<1>3. /\ chan' \in [AllRd -> Seq(Nat)]
      /\ \A r \in AllRd : chan[r] # << >> => chan'[r] # << >> /\ Head(chan'[r]) = Head(chan[r])
  <2>1. CASE UNCHANGED chan
    BY <2>1 DEF IInv, Types
  <2>2. CASE Publish(rs, wobj.id)
    BY <2>2, PublishAppends DEF IInv, Types
  <2> QED
    BY <2>1, <2>2
<1>4. Types'
  BY <1>3 DEF IInv, Types
<1>5. Waiting'
  BY <1>1, <1>2, <1>3 DEF IInv, Waiting
<1>6. Counting'
  BY <1>1, <1>2 DEF IInv, Counting
<1> QED
  BY <1>4, <1>5, <1>6 DEF IInv

LEMMA EnqueueKeeps ==
  ASSUME IInv, NEW big \in BOOLEAN, Enqueue(big)
  PROVE  IInv'
<1>1. Len(log) + 1 \in Nat
  BY LenProperties DEF IInv, Types
<1>2. [id |-> Len(log) + 1, big |-> big] \in [id : Nat, big : BOOLEAN]
  BY <1>1
<1>3. AllRd \in SUBSET AllRd
  OBVIOUS
<1>4. /\ wpc = "idle" /\ wpc' = "acquire" /\ wobj' = [id |-> Len(log) + 1, big |-> big]
      /\ UNCHANGED <<log, nsub, subs, chan, rpc>>
  BY DEF Enqueue, WGoto, ringVars, rVars
<1> QED
  BY <1>2, <1>3, <1>4, WriterGoes DEF IInv, Types, WPlaces

LEMMA WriteChunkKeeps ==
  ASSUME IInv, WriteChunk
  PROVE  IInv'
<1>1. /\ wpc = "acquire" /\ wpc' \in {"overflow", "notify"} /\ log' = Append(log, wobj)
      /\ UNCHANGED <<wobj, nsub, subs, chan, rpc>>
  BY DEF WriteChunk, WGoto, rVars, Ring!Publish
<1>2. log' \in Seq([id : Nat, big : BOOLEAN])
  BY <1>1, AppendProperties DEF IInv, Types
<1>3. AllRd \in SUBSET AllRd
  OBVIOUS
<1> QED
  BY <1>1, <1>2, <1>3, WriterGoes DEF IInv, Types, WPlaces

LEMMA SendKeeps ==
  ASSUME IInv, EnqueueTimeout \/ SendOverflow \/ Notify \/ SendRemote
  PROVE  IInv'
<1>1. PICK rs \in SUBSET AllRd :
        /\ wpc \in {"acquire", "overflow", "notify", "remote"}
        /\ wpc' \in {"idle", "notify", "remote"}
        /\ UNCHANGED chan \/ Publish(rs, wobj.id)
        /\ UNCHANGED <<log, wobj, nsub, subs, rpc>>
  <2>1. Local \in SUBSET AllRd /\ Remote \in SUBSET AllRd
    BY DEF AllRd
  <2> QED
    BY <2>1 DEF EnqueueTimeout, SendOverflow, Notify, SendRemote, WGoto, ringVars, rVars
<1> QED
  BY <1>1, WriterGoes DEF IInv, Types, WPlaces

-----------------------------------------------------------------------------
(* Readers past the handshake.                                             *)

Loop == RPlaces \ {"connect", "ready"}

\* A reader in its loop goes on, and may receive from its socket.
LEMMA ReaderGoes ==
  ASSUME IInv, NEW r \in AllRd, rpc[r] \in Loop, NEW to \in Loop,
         rpc' = [rpc EXCEPT ![r] = to],
         UNCHANGED chan \/ (chan[r] # << >> /\ chan' = [chan EXCEPT ![r] = Tail(@)]),
         UNCHANGED <<log, wpc, wobj, nsub, subs>>
  PROVE  IInv'
<1>1. chan' \in [AllRd -> Seq(Nat)] /\ \A q \in AllRd \ {r} : chan'[q] = chan[q]
  <2>1. CASE UNCHANGED chan
    BY <2>1 DEF IInv, Types
  <2>2. CASE chan[r] # << >> /\ chan' = [chan EXCEPT ![r] = Tail(@)]
    <3>1. Tail(chan[r]) \in Seq(Nat)
      BY <2>2, HeadTailProperties DEF IInv, Types
    <3> QED
      BY <2>2, <3>1 DEF IInv, Types
  <2> QED
    BY <2>1, <2>2
<1>2. Types'
  BY <1>1 DEF IInv, Types, Loop
<1>3. Waiting' /\ Counting'
  BY <1>1 DEF IInv, Types, Waiting, Counting, Announced, Loop
<1> QED
  BY <1>2, <1>3 DEF IInv

LEMMA ReaderStepKeeps ==
  ASSUME IInv, NEW r \in AllRd, ReaderStep(r)
  PROVE  IInv'
<1> DEFINE Goes ==
      /\ rpc[r] \in Loop /\ \E to \in Loop : rpc' = [rpc EXCEPT ![r] = to]
      /\ UNCHANGED chan \/ (chan[r] # << >> /\ chan' = [chan EXCEPT ![r] = Tail(@)])
      /\ UNCHANGED <<log, wpc, wobj, nsub, subs>>
<1>1. CASE Dequeue(r) \/ RecvTimeout(r)
  <2>1. Goes
    BY <1>1 DEF Dequeue, RecvTimeout, RGoto, ringVars, wVars, Loop, RPlaces
  <2> QED
    BY <2>1, ReaderGoes
<1>2. ASSUME NEW ok \in BOOLEAN, Recv(r, ok)
      PROVE  IInv'
  <2>1. Goes
    BY <1>2 DEF Recv, RGoto, ringVars, wVars, Loop, RPlaces
  <2> QED
    BY <2>1, ReaderGoes
<1>3. ASSUME NEW ok \in BOOLEAN, ReadChunk(r, ok)
      PROVE  IInv'
  <2>1. /\ rpc[r] = "check" /\ \E to \in {"recv", "idle"} : rpc' = [rpc EXCEPT ![r] = to]
        /\ UNCHANGED <<log, wpc, wobj, nsub, subs, chan>>
    BY <1>3 DEF ReadChunk, Ring!Take, Ring!Drop, wVars
  <2>2. Goes
    BY <2>1 DEF Loop, RPlaces
  <2> QED
    BY <2>2, ReaderGoes
<1>4. CASE DequeueTimeout(r) \/ Yield(r) \/ Park(r) \/ PollEvent(r) \/ PollExpires(r)
           \/ AfterWait(r)
  <2>1. Goes
    BY <1>4 DEF DequeueTimeout, Yield, Park, PollEvent, PollExpires, AfterWait, RGoto,
                ringVars, wVars, Loop, RPlaces
  <2> QED
    BY <2>1, ReaderGoes
<1> QED
  BY <1>1, <1>2, <1>3, <1>4, SubscribeKeeps, RecvReadyKeeps DEF ReaderStep, LocalStep

LEMMA NextKeeps ==
  ASSUME IInv, [Next]_vars
  PROVE  IInv'
<1>1. CASE WriterStep
  <2>1. Local \in {Local, Remote} /\ Remote \in {Local, Remote}
    OBVIOUS
  <2>2. ASSUME CountSub(Local, "subLocal", NLocal) PROVE IInv'
    BY <2>1, <2>2, CountSubKeeps
  <2>3. ASSUME CountSub(Remote, "subRemote", NRemote) PROVE IInv'
    BY <2>1, <2>3, CountSubKeeps
  <2> QED
    BY <1>1, <2>2, <2>3, AnnounceKeeps, WriteChunkKeeps, SendKeeps DEF WriterStep
<1>2. CASE \/ UNCHANGED vars
           \/ \E r \in Local : Cool(r)
           \/ \E r \in Stoppable : SetShuttingDown(r) \/ Cancel(r)
  <2>1. UNCHANGED <<log, wpc, wobj, nsub, subs, chan, rpc>>
    BY <1>2 DEF vars, Cool, SetShuttingDown, Cancel, ringVars, wVars, rVars
  <2> QED
    BY <2>1 DEF IInv, Types, Counting, Waiting, Announced
<1> QED
  BY <1>1, <1>2, EnqueueKeeps, ReaderStepKeeps DEF Next

-----------------------------------------------------------------------------
\* wait_until_ready, for every number of readers on either side: the first thing a
\* reader receives is READY, as its assertion wants, and no object is published
\* before every reader listens.
THEOREM HandshakeHolds == Spec => []ReadyFirst
<1>1. IInv => ReadyFirst
  <2> SUFFICES ASSUME IInv PROVE ReadyFirst
    OBVIOUS
  <2>1. \A r \in AllRd : rpc[r] # "assertion"
    BY DEF IInv, Types, RPlaces
  <2>2. log # << >> => wpc \notin {"subLocal", "subRemote"}
    BY DEF IInv, Counting
  <2>3. log # << >> => subs = AllRd
    BY <2>2 DEF IInv, Types, Counting, Announced, AllRd
  <2> QED
    BY <2>1, <2>3 DEF ReadyFirst
<1> QED
  BY <1>1, StartsInvariant, NextKeeps, PTL DEF Spec

-----------------------------------------------------------------------------
(* What readers on other nodes are sent.                                   *)

Sub  == {"subLocal", "subRemote"}
Here == {"overflow", "notify", "remote"}   \* in the ring, and not sent on yet

Sent(r) == (Ids(chan[r]) \ {READY}) \cup Ended(r)
Reached == IF wpc \in Here THEN Len(log) - 1 ELSE Len(log)

Numbered ==
  /\ wpc = "acquire" => wobj.id = Len(log) + 1
  /\ wpc \in Here => wobj.id = Len(log) /\ Len(log) # 0

\* READY is first in the socket, and only until the reader has it.
ReadyOnce(r) ==
  /\ wpc \in Sub => chan[r] = << >> /\ rpc[r] \in {"connect", "ready"}
  /\ rpc[r] = "ready" /\ chan[r] # << >> => READY \notin Ids(Tail(chan[r]))
  /\ rpc[r] \notin {"connect", "ready"} => READY \notin Ids(chan[r])

Steady(r) == got[r] \in Seq(Nat) /\ ReadyOnce(r) /\ Sent(r) = 1..Reached

SInv ==
  /\ DOMAIN got = AllRd /\ DOMAIN failed = AllRd
  /\ Numbered
  /\ \A r \in Remote : Steady(r)

LEMMA IdsEmpty == Ids(<< >>) = {}
BY DEF Ids

LEMMA IdsAppend ==
  ASSUME NEW s \in Seq(Nat), NEW x \in Nat
  PROVE  Ids(Append(s, x)) = Ids(s) \cup {x}
<1> DEFINE a == Append(s, x)
<1>1. /\ Len(s) \in Nat /\ DOMAIN s = 1..Len(s) /\ DOMAIN a = 1..(Len(s) + 1)
      /\ \A i \in 1..Len(s) : a[i] = s[i]
      /\ a[Len(s) + 1] = x
  BY AppendProperties, LenProperties
<1>2. DOMAIN a = DOMAIN s \cup {Len(s) + 1}
  BY <1>1
<1> QED
  <2> HIDE DEF a
  <2>1. \A i \in DOMAIN s : a[i] = s[i]
    BY <1>1
  <2>2. {a[i] : i \in DOMAIN a} = {s[i] : i \in DOMAIN s} \cup {x}
    BY <1>1, <1>2, <2>1
  <2> QED
    BY <2>2 DEF Ids, a

LEMMA IdsHead ==
  ASSUME NEW s \in Seq(Nat), s # << >>
  PROVE  Ids(s) = {Head(s)} \cup Ids(Tail(s))
<1> DEFINE t == Tail(s)
<1>1. /\ Len(s) \in Nat /\ Len(s) # 0 /\ DOMAIN s = 1..Len(s) /\ Head(s) = s[1]
      /\ DOMAIN t = 1..(Len(s) - 1) /\ \A i \in 1..(Len(s) - 1) : t[i] = s[i + 1]
  BY HeadTailProperties, LenProperties, EmptySeq
<1>2. ASSUME NEW i \in DOMAIN s
      PROVE  s[i] \in {Head(s)} \cup Ids(t)
  <2>1. i = 1 \/ (i - 1 \in DOMAIN t /\ t[i - 1] = s[i])
    BY <1>1
  <2> QED
    BY <1>1, <2>1 DEF Ids
<1>3. ASSUME NEW i \in DOMAIN t
      PROVE  t[i] \in Ids(s)
  <2>1. i + 1 \in DOMAIN s /\ t[i] = s[i + 1]
    BY <1>1
  <2> QED
    BY <2>1 DEF Ids
<1>4. Head(s) \in Ids(s)
  BY <1>1 DEF Ids
<1> QED
  <2> HIDE DEF t
  <2>1. Ids(t) \subseteq Ids(s)
    BY <1>3 DEF Ids
  <2>2. Ids(s) \subseteq {Head(s)} \cup Ids(t)
    BY <1>2 DEF Ids
  <2> QED
    BY <1>4, <2>1, <2>2 DEF t

LEMMA TailAppend ==
  ASSUME NEW s \in Seq(Nat), NEW x \in Nat, s # << >>
  PROVE  Tail(Append(s, x)) = Append(Tail(s), x)
BY HeadTailAppend

LEMMA RemoteIsNotLocal == Local \cap Remote = {} /\ Local \subseteq AllRd /\ Remote \subseteq AllRd
BY QueueAssumption DEF Local, Remote, AllRd

LEMMA StartsSteady == Init => SInv
<1> SUFFICES ASSUME Init PROVE SInv
  OBVIOUS
<1>1. log = << >> /\ Len(log) = 0 /\ << >> \in Seq(Nat)
  BY DEF Init, Ring!BQInit
<1>2. \A r \in AllRd : chan[r] = << >> /\ got[r] = << >> /\ failed[r] = {} /\ rpc[r] = "connect"
  BY DEF Init
<1>3. \A r \in AllRd : Sent(r) = {}
  BY <1>2, IdsEmpty DEF Sent, Ended
<1>4. Reached = 0 /\ Numbered
  BY <1>1 DEF Init, Reached, Numbered, Here
<1>5. 1..0 = {}
  OBVIOUS
<1>6. \A r \in Remote : Steady(r)
  BY <1>1, <1>2, <1>3, <1>4, <1>5, RemoteIsNotLocal DEF Steady, ReadyOnce
<1>7. DOMAIN got = AllRd /\ DOMAIN failed = AllRd
  BY DEF Init
<1> QED
  BY <1>4, <1>6, <1>7 DEF SInv

\* A step that sends and receives nothing.
LEMMA QuietKeeps ==
  ASSUME SInv, UNCHANGED <<log, wobj, wpc, chan, got, failed>>,
         \A r \in Remote : rpc'[r] = rpc[r] \/ {rpc[r], rpc'[r]} \subseteq Loop
  PROVE  SInv'
<1>1. UNCHANGED Reached /\ Numbered'
  BY DEF SInv, Reached, Numbered
<1>2. \A r \in Remote : UNCHANGED Sent(r)
  BY DEF Sent, Ended
<1>3. \A r \in Remote : ReadyOnce(r)'
  BY DEF SInv, Steady, ReadyOnce, Loop
<1> QED
  BY <1>1, <1>2, <1>3 DEF SInv, Steady

-----------------------------------------------------------------------------
(* Readers.                                                                *)

\* A step of a reader is looked at for that reader alone.
LEMMA OneReader ==
  ASSUME SInv, NEW r \in AllRd, UNCHANGED <<log, wobj, wpc>>,
         DOMAIN got' = AllRd, DOMAIN failed' = AllRd,
         \A q \in AllRd \ {r} : /\ chan'[q] = chan[q] /\ rpc'[q] = rpc[q]
                               /\ got'[q] = got[q] /\ failed'[q] = failed[q],
         r \in Remote => got'[r] \in Seq(Nat) /\ ReadyOnce(r)' /\ Sent(r)' = Sent(r)
  PROVE  SInv'
<1>1. UNCHANGED Reached /\ Numbered'
  BY DEF SInv, Reached, Numbered
<1>2. \A q \in Remote \ {r} : Sent(q)' = Sent(q) /\ ReadyOnce(q)'
  BY RemoteIsNotLocal DEF SInv, Steady, Sent, Ended, ReadyOnce
<1>3. ASSUME NEW q \in Remote PROVE Steady(q)'
  <2>1. Steady(q) /\ q \in AllRd
    BY RemoteIsNotLocal DEF SInv
  <2>2. CASE q = r
    BY <1>1, <2>1, <2>2 DEF Steady
  <2>3. CASE q # r
    BY <1>1, <1>2, <2>1, <2>3 DEF Steady
  <2> QED
    BY <2>2, <2>3
<1> QED
  BY <1>1, <1>3 DEF SInv

LEMMA SubscribeSteady ==
  ASSUME IInv, SInv, NEW r \in AllRd, Subscribe(r)
  PROVE  SInv'
<1>1. /\ rpc[r] = "connect" /\ rpc' = [rpc EXCEPT ![r] = "ready"]
      /\ UNCHANGED <<log, wobj, wpc, chan, got, failed>>
  BY DEF Subscribe, RGoto, ringVars, wVars
<1>2. chan[r] = << >>
  BY <1>1 DEF IInv, Waiting
<1>3. r \in Remote => got'[r] \in Seq(Nat) /\ ReadyOnce(r)' /\ Sent(r)' = Sent(r)
  BY <1>1, <1>2 DEF SInv, Steady, ReadyOnce, Sent, Ended, IInv, Types
<1>4. \A q \in AllRd \ {r} : rpc'[q] = rpc[q]
  BY <1>1 DEF IInv, Types
<1> QED
  BY <1>1, <1>3, <1>4, OneReader DEF SInv

LEMMA RecvReadySteady ==
  ASSUME IInv, SInv, NEW r \in AllRd, RecvReady(r)
  PROVE  SInv'
<1>1. /\ rpc[r] = "ready" /\ chan[r] # << >> /\ chan' = [chan EXCEPT ![r] = Tail(@)]
      /\ rpc' = [rpc EXCEPT ![r] = IF Head(chan[r]) = READY THEN "idle" ELSE "assertion"]
      /\ UNCHANGED <<log, wpc, wobj, got, failed>>
  BY DEF RecvReady, RGoto, ringVars, wVars
<1>2. Head(chan[r]) = READY
  BY <1>1 DEF IInv, Waiting
<1>3. /\ chan'[r] = Tail(chan[r]) /\ rpc'[r] = "idle"
      /\ \A q \in AllRd \ {r} : chan'[q] = chan[q] /\ rpc'[q] = rpc[q]
  BY <1>1, <1>2 DEF IInv, Types
<1>4. Ids(chan[r]) = {READY} \cup Ids(chan'[r])
  BY <1>1, <1>2, <1>3, IdsHead DEF IInv, Types
<1>5. ASSUME r \in Remote PROVE got'[r] \in Seq(Nat) /\ ReadyOnce(r)' /\ Sent(r)' = Sent(r)
  <2>1. wpc \notin Sub /\ READY \notin Ids(chan'[r]) /\ got'[r] \in Seq(Nat)
    BY <1>1, <1>3, <1>5 DEF SInv, Steady, ReadyOnce
  <2>2. ReadyOnce(r)'
    BY <1>1, <1>3, <2>1 DEF ReadyOnce
  <2>3. Sent(r)' = Sent(r)
    BY <1>1, <1>4 DEF Sent, Ended
  <2> QED
    BY <2>1, <2>2, <2>3
<1> QED
  BY <1>1, <1>3, <1>5, OneReader DEF SInv

\* What leaves the socket is returned, or lost to an exception.
LEMMA RecvSteady ==
  ASSUME IInv, SInv, NEW r \in AllRd, NEW ok \in BOOLEAN, Recv(r, ok)
  PROVE  SInv'
<1> DEFINE x == Head(chan[r])
<1>1. /\ rpc[r] = "recv" /\ chan[r] # << >> /\ chan' = [chan EXCEPT ![r] = Tail(@)]
      /\ rpc' = [rpc EXCEPT ![r] = "idle"]
      /\ got' = IF ok THEN [got EXCEPT ![r] = Append(@, x)] ELSE got
      /\ failed' = IF ok THEN failed ELSE [failed EXCEPT ![r] = @ \cup {x}]
      /\ UNCHANGED <<log, wpc, wobj>>
  BY DEF Recv, RGoto, ringVars, wVars
<1>2. x \in Nat /\ chan[r] \in Seq(Nat)
  BY <1>1, HeadTailProperties DEF IInv, Types
<1>3. /\ chan'[r] = Tail(chan[r]) /\ rpc'[r] = "idle"
      /\ \A q \in AllRd \ {r} : chan'[q] = chan[q] /\ rpc'[q] = rpc[q]
  BY <1>1 DEF IInv, Types
<1>4. Ids(chan[r]) = {x} \cup Ids(chan'[r])
  BY <1>1, <1>2, <1>3, IdsHead
<1>5. /\ DOMAIN got' = AllRd /\ DOMAIN failed' = AllRd
      /\ \A q \in AllRd \ {r} : got'[q] = got[q] /\ failed'[q] = failed[q]
  BY <1>1 DEF SInv
<1>6. ASSUME r \in Remote PROVE got'[r] \in Seq(Nat) /\ ReadyOnce(r)' /\ Sent(r)' = Sent(r)
  <2>1. wpc \notin Sub /\ READY \notin Ids(chan[r]) /\ got[r] \in Seq(Nat)
    BY <1>1, <1>6 DEF SInv, Steady, ReadyOnce
  <2>2. ReadyOnce(r)'
    BY <1>1, <1>3, <1>4, <2>1 DEF ReadyOnce
  <2>3. Append(got[r], x) \in Seq(Nat) /\ Ids(Append(got[r], x)) = Ids(got[r]) \cup {x}
    BY <1>2, <2>1, AppendProperties, IdsAppend
  <2>4. got'[r] \in Seq(Nat) /\ Ended(r)' = Ended(r) \cup {x}
    <3> HIDE DEF x
    <3>1. CASE ok
      BY <1>1, <2>3, <3>1 DEF SInv, Ended
    <3>2. CASE ~ok
      BY <1>1, <2>1, <3>2 DEF SInv, Ended
    <3> QED
      BY <3>1, <3>2
  <2>5. Sent(r)' = Sent(r)
    BY <1>4, <2>1, <2>4 DEF Sent
  <2> QED
    BY <2>2, <2>4, <2>5
<1> QED
  BY <1>1, <1>3, <1>5, <1>6, OneReader

\* A local reader takes a chunk.
LEMMA ReadChunkSteady ==
  ASSUME IInv, SInv, NEW r \in Local, NEW ok \in BOOLEAN, ReadChunk(r, ok)
  PROVE  SInv'
<1>1. /\ \A q \in AllRd \ {r} : got'[q] = got[q] /\ failed'[q] = failed[q] /\ rpc'[q] = rpc[q]
      /\ DOMAIN got' = AllRd /\ DOMAIN failed' = AllRd
      /\ UNCHANGED <<log, wobj, wpc, chan>>
  BY DEF ReadChunk, Ring!Take, Ring!Drop, wVars, SInv, IInv, Types
<1>2. r \in AllRd /\ r \notin Remote
  BY RemoteIsNotLocal
<1> QED
  BY <1>1, <1>2, OneReader

LEMMA ReaderStepSteady ==
  ASSUME IInv, SInv, NEW r \in AllRd, ReaderStep(r)
  PROVE  SInv'
<1> DEFINE Quiet == /\ UNCHANGED <<log, wobj, wpc, chan, got, failed>>
                    /\ {rpc[r], rpc'[r]} \subseteq Loop
                    /\ \A q \in AllRd \ {r} : rpc'[q] = rpc[q]
<1>1. Quiet => SInv'
  BY QuietKeeps, RemoteIsNotLocal
<1>2. CASE Dequeue(r) \/ RecvTimeout(r)
  <2>1. Quiet
    BY <1>2 DEF Dequeue, RecvTimeout, RGoto, ringVars, wVars, IInv, Types, Loop, RPlaces
  <2> QED
    BY <1>1, <2>1
<1>3. CASE DequeueTimeout(r) \/ Yield(r) \/ Park(r) \/ PollEvent(r) \/ PollExpires(r)
           \/ AfterWait(r)
  <2>1. Quiet
    BY <1>3 DEF DequeueTimeout, Yield, Park, PollEvent, PollExpires, AfterWait, RGoto,
                ringVars, wVars, IInv, Types, Loop, RPlaces
  <2> QED
    BY <1>1, <2>1
<1> QED
  BY <1>2, <1>3, SubscribeSteady, RecvReadySteady, RecvSteady, ReadChunkSteady
     DEF ReaderStep, LocalStep

-----------------------------------------------------------------------------
(* The writer.                                                             *)

\* A step of the writer that sends remote readers nothing.
LEMMA WriterQuiet ==
  ASSUME SInv, UNCHANGED <<got, failed, rpc>>, wpc \notin Sub, wpc' \notin Sub,
         \A r \in Remote : chan'[r] = chan[r],
         Reached' = Reached, Numbered'
  PROVE  SInv'
<1>1. \A r \in Remote : Sent(r)' = Sent(r) /\ ReadyOnce(r)'
  BY DEF SInv, Steady, Sent, Ended, ReadyOnce
<1> QED
  BY <1>1 DEF SInv, Steady

LEMMA PublishToOthers ==
  ASSUME NEW x, Publish(Local, x)
  PROVE  \A r \in Remote : chan'[r] = chan[r]
BY RemoteIsNotLocal DEF Publish

LEMMA AnnounceSteady ==
  ASSUME IInv, SInv,
         \/ AnnounceReady(Local, "subLocal", "subRemote", NLocal)
         \/ AnnounceReady(Remote, "subRemote", "idle", NRemote)
  PROVE  SInv'
<1>1. /\ wpc \in Sub /\ wpc' \in {"subRemote", "idle"}
      /\ UNCHANGED <<log, wobj, got, failed, rpc>>
      /\ Reached' = Reached /\ Numbered'
  BY DEF AnnounceReady, ringVars, rVars, Sub, Here, Reached, Numbered
<1>2. ASSUME NEW r \in Remote
      PROVE  /\ chan[r] = << >> /\ rpc[r] \in {"connect", "ready"}
             /\ Sent(r) = 1..Reached /\ got[r] \in Seq(Nat)
  BY <1>1 DEF SInv, Steady, ReadyOnce
<1>3. CASE AnnounceReady(Local, "subLocal", "subRemote", NLocal)
  <2>1. \A r \in Remote : chan'[r] = chan[r]
    BY <1>3, PublishToOthers DEF AnnounceReady
  <2>2. \A r \in Remote : ReadyOnce(r)' /\ Sent(r)' = Sent(r)
    BY <1>1, <1>2, <2>1 DEF ReadyOnce, Sent, Ended
  <2> QED
    BY <1>1, <1>2, <2>2 DEF SInv, Steady
<1>4. CASE AnnounceReady(Remote, "subRemote", "idle", NRemote)
  <2>1. \A r \in Remote : chan'[r] \in {<< >>, <<READY>>}
    <3>1. Append(<< >>, READY) = <<READY>>
      OBVIOUS
    <3>2. \A r \in Remote : chan'[r] \in {chan[r], Append(chan[r], READY)}
      BY <1>4, RemoteIsNotLocal DEF AnnounceReady, Publish
    <3> QED
      BY <1>2, <3>1, <3>2
  <2>2. Ids(<<READY>>) = {READY} /\ Tail(<<READY>>) = << >>
    BY DEF Ids
  <2>3. \A r \in Remote : ReadyOnce(r)'
    BY <1>1, <1>2, <1>4, <2>1, <2>2, IdsEmpty DEF ReadyOnce, AnnounceReady, Sub
  <2>4. \A r \in Remote : Sent(r)' = Sent(r)
    BY <1>1, <1>2, <2>1, <2>2, IdsEmpty DEF Sent, Ended
  <2> QED
    BY <1>1, <1>2, <2>3, <2>4 DEF SInv, Steady
<1> QED
  BY <1>3, <1>4

LEMMA EnqueueSteady ==
  ASSUME IInv, SInv, NEW big \in BOOLEAN, Enqueue(big)
  PROVE  SInv'
<1>1. /\ wpc = "idle" /\ wpc' = "acquire" /\ wobj' = [id |-> Len(log) + 1, big |-> big]
      /\ UNCHANGED <<log, chan, got, failed, rpc>>
  BY DEF Enqueue, WGoto, ringVars, rVars
<1> QED
  BY <1>1, WriterQuiet DEF Sub, Here, Reached, Numbered

LEMMA WriteChunkSteady ==
  ASSUME IInv, SInv, WriteChunk
  PROVE  SInv'
<1>1. /\ wpc = "acquire" /\ wpc' \in {"overflow", "notify"} /\ log' = Append(log, wobj)
      /\ UNCHANGED <<wobj, chan, got, failed, rpc>>
  BY DEF WriteChunk, WGoto, rVars, Ring!Publish
<1>2. Len(log) \in Nat /\ Len(log') = Len(log) + 1
  BY <1>1, AppendProperties, LenProperties DEF IInv, Types
<1>3. Reached' = Reached /\ Numbered'
  BY <1>1, <1>2 DEF SInv, Here, Reached, Numbered
<1> QED
  BY <1>1, <1>3, WriterQuiet DEF Sub

\* An enqueue that times out, the overflow of local readers, their wake-ups.
LEMMA LocalSendSteady ==
  ASSUME IInv, SInv, EnqueueTimeout \/ SendOverflow \/ Notify
  PROVE  SInv'
<1>1. /\ \/ wpc = "acquire" /\ wpc' = "idle"
         \/ wpc = "overflow" /\ wpc' = "notify"
         \/ wpc = "notify" /\ wpc' = "remote"
      /\ \A r \in Remote : chan'[r] = chan[r]
      /\ UNCHANGED <<log, wobj, got, failed, rpc>>
  BY PublishToOthers DEF EnqueueTimeout, SendOverflow, Notify, WGoto, ringVars, rVars
<1>2. Reached' = Reached /\ Numbered'
  BY <1>1 DEF SInv, Here, Reached, Numbered
<1> QED
  BY <1>1, <1>2, WriterQuiet DEF Sub

\* What the ring was given goes to every remote reader.
LEMMA SendRemoteSteady ==
  ASSUME IInv, SInv, SendRemote
  PROVE  SInv'
<1>1. /\ wpc = "remote" /\ wpc' = "idle" /\ Publish(Remote, wobj.id)
      /\ UNCHANGED <<log, wobj, got, failed, rpc, subs>>
  BY DEF SendRemote, WGoto, ringVars, rVars
<1>2. /\ Len(log) \in Nat /\ Len(log) # 0 /\ wobj.id = Len(log)
      /\ Reached = Len(log) - 1 /\ Reached' = Len(log) /\ Numbered'
  BY <1>1, LenProperties DEF IInv, Types, SInv, Numbered, Reached, Here
<1>3. Remote \subseteq subs
  BY <1>1, RemoteIsNotLocal DEF IInv, Counting, Announced
<1>4. ASSUME NEW r \in Remote
      PROVE  Steady(r)'
  <2>1. chan[r] \in Seq(Nat) /\ r \in AllRd
    BY RemoteIsNotLocal DEF IInv, Types
  <2>2. chan'[r] = Append(chan[r], Len(log))
    BY <1>1, <1>2, <1>3, <2>1 DEF Publish
  <2>3. Ids(chan'[r]) = Ids(chan[r]) \cup {Len(log)} /\ Len(log) # READY
    BY <1>2, <2>1, <2>2, IdsAppend DEF READY
  <2>4. Sent(r)' = 1..Reached'
    <3>1. Sent(r) = 1..(Len(log) - 1) /\ Sent(r)' = Sent(r) \cup {Len(log)}
      BY <1>1, <1>2, <2>3 DEF SInv, Steady, Sent, Ended
    <3>2. 1..(Len(log) - 1) \cup {Len(log)} = 1..Len(log)
      BY <1>2
    <3> QED
      BY <1>2, <3>1, <3>2
  <2>5. ReadyOnce(r)'
    <3>1. CASE rpc[r] = "ready"
      <4>1. chan[r] # << >>
        BY <1>1, <2>1, <3>1 DEF IInv, Waiting, Announced
      <4>2. Tail(chan[r]) \in Seq(Nat) /\ READY \notin Ids(Tail(chan[r]))
        BY <2>1, <3>1, <4>1, HeadTailProperties DEF SInv, Steady, ReadyOnce
      <4>3. READY \notin Ids(Tail(chan'[r]))
        <5>1. Tail(chan'[r]) = Append(Tail(chan[r]), Len(log))
          BY <1>2, <2>1, <2>2, <4>1, TailAppend
        <5>2. Ids(Tail(chan'[r])) = Ids(Tail(chan[r])) \cup {Len(log)}
          BY <1>2, <4>2, <5>1, IdsAppend
        <5> QED
          BY <2>3, <4>2, <5>2
      <4> QED
        BY <1>1, <3>1, <4>3 DEF ReadyOnce, Sub
    <3>2. CASE rpc[r] # "ready"
      BY <1>1, <2>3, <3>2 DEF SInv, Steady, ReadyOnce, Sub
    <3> QED
      BY <3>1, <3>2
  <2> QED
    BY <1>1, <2>4, <2>5 DEF SInv, Steady
<1> QED
  BY <1>1, <1>2, <1>4 DEF SInv

LEMMA NextSteady ==
  ASSUME IInv, SInv, [Next]_vars
  PROVE  SInv'
<1>1. CASE \/ UNCHANGED vars
           \/ CountSub(Local, "subLocal", NLocal) \/ CountSub(Remote, "subRemote", NRemote)
           \/ \E r \in Local : Cool(r)
           \/ \E r \in Stoppable : SetShuttingDown(r) \/ Cancel(r)
  <2>1. UNCHANGED <<log, wobj, wpc, chan, got, failed, rpc>>
    BY <1>1 DEF vars, CountSub, Cool, SetShuttingDown, Cancel, ringVars, wVars, rVars
  <2> QED
    BY <2>1, QuietKeeps
<1> QED
  BY <1>1, EnqueueSteady, ReaderStepSteady, AnnounceSteady, WriteChunkSteady,
     LocalSendSteady, SendRemoteSteady DEF Next, WriterStep

\* For every number of readers and every capacity, and whatever times out: a remote
\* reader is sent exactly what the ring was given, once the call of enqueue is over.
THEOREM RemoteSentAll == Spec => []RemoteInStep
<1>1. SInv => RemoteInStep
  BY DEF SInv, Steady, RemoteInStep, Sent, Reached, Here
<1> QED
  BY <1>1, StartsInvariant, NextKeeps, StartsSteady, NextSteady, PTL DEF Spec
-----------------------------------------------------------------------------
(* What local readers get: a chunk, or a chunk and then a message of the   *)
(* socket.                                                                 *)

Patient == Local \ Impatient

Rising(s) == \A i, j \in DOMAIN s : i < j => s[i] < s[j]

\* The overflow objects a reader has still to receive: those of the chunks ahead of
\* it, and the one whose chunk it took last; the last of the log may not be sent yet.
Ahead(r)  == {i \in (taken[r] + 1)..Len(log) : log[i].big}
Open(r)   == IF rpc[r] = "recv" THEN {taken[r]} ELSE {}
Unsent    == IF wpc = "overflow" THEN {Len(log)} ELSE {}
Coming(r) == (Ahead(r) \cup Open(r)) \ Unsent

\* Their ids are in its socket, in order; a marker without its payload in it is the
\* one the reader is at, or ahead of it.
Fed(r) ==
  /\ Rising(chan[r]) /\ Ids(chan[r]) \ {READY} = Coming(r)
  /\ wpc = "subLocal" => chan[r] = << >>
  /\ rpc[r] \notin {"connect", "ready"} => wpc # "subLocal" /\ READY \notin Ids(chan[r])
  /\ wpc = "overflow" /\ taken[r] = Len(log) => rpc[r] = "recv"

\* What it is done with is what it took, but for the object it is waiting for.
Had(r) ==
  /\ got[r] \in Seq(Nat) /\ Rising(got[r]) /\ Ids(got[r]) \cap failed[r] = {}
  /\ Ended(r) = 1..taken[r] \ Open(r)

Listed ==
  /\ \A i \in 1..Len(log) : log[i].id = i
  /\ wpc = "overflow" => wobj = log[Len(log)] /\ wobj.big

EInv ==
  /\ Listed
  /\ \A r \in Local : taken[r] \in 0..Len(log)
  /\ DOMAIN taken = Local
  /\ \A r \in Patient : Fed(r) /\ Had(r)

LEMMA PatientIsLocal == \A r \in Patient : r \in Local /\ r \in AllRd /\ r \notin Impatient
BY DEF Patient, AllRd

LEMMA RisingEmpty == Rising(<< >>)
BY DEF Rising

\* A rising sequence goes on with something larger, and starts with its least.
LEMMA RisingAppend ==
  ASSUME NEW s \in Seq(Nat), NEW x \in Nat, Rising(s), \A y \in Ids(s) : y < x
  PROVE  Rising(Append(s, x))
<1> DEFINE a == Append(s, x)
<1>1. /\ Len(s) \in Nat /\ DOMAIN s = 1..Len(s) /\ DOMAIN a = 1..(Len(s) + 1)
      /\ \A i \in 1..Len(s) : a[i] = s[i]
      /\ a[Len(s) + 1] = x
  BY AppendProperties, LenProperties
<1>2. \A i \in DOMAIN s : s[i] < x
  BY DEF Ids
<1>3. ASSUME NEW i \in DOMAIN a, NEW j \in DOMAIN a, i < j
      PROVE  a[i] < a[j]
  <2> HIDE DEF a
  <2>1. i \in DOMAIN s /\ a[i] = s[i]
    BY <1>1, <1>3
  <2>2. CASE j = Len(s) + 1
    BY <1>1, <1>2, <2>1, <2>2
  <2>3. CASE j \in DOMAIN s
    <3>1. a[j] = s[j]
      BY <1>1, <2>3
    <3> QED
      BY <1>3, <2>1, <2>3, <3>1 DEF Rising
  <2> QED
    BY <1>1, <2>2, <2>3
<1> QED
  BY <1>3 DEF Rising

LEMMA RisingTail ==
  ASSUME NEW s \in Seq(Nat), s # << >>, Rising(s)
  PROVE  /\ Rising(Tail(s)) /\ \A y \in Ids(Tail(s)) : Head(s) < y
         /\ Ids(Tail(s)) = Ids(s) \ {Head(s)}
<1> DEFINE t == Tail(s)
<1>1. /\ Len(s) \in Nat /\ Len(s) # 0 /\ DOMAIN s = 1..Len(s) /\ Head(s) = s[1]
      /\ DOMAIN t = 1..(Len(s) - 1) /\ \A i \in 1..(Len(s) - 1) : t[i] = s[i + 1]
  BY HeadTailProperties, LenProperties, EmptySeq
<1>2. \A i \in 1..Len(s) : s[i] \in Nat
  BY <1>1, ElementOfSeq
<1>3. ASSUME NEW i \in DOMAIN t
      PROVE  Head(s) < t[i]
  <2>1. 1 \in DOMAIN s /\ i + 1 \in DOMAIN s /\ 1 < i + 1 /\ t[i] = s[i + 1]
    BY <1>1
  <2> QED
    BY <1>1, <2>1 DEF Rising
<1>4. ASSUME NEW i \in DOMAIN t, NEW j \in DOMAIN t, i < j
      PROVE  t[i] < t[j]
  <2>1. /\ i + 1 \in DOMAIN s /\ j + 1 \in DOMAIN s /\ i + 1 < j + 1
        /\ t[i] = s[i + 1] /\ t[j] = s[j + 1]
    BY <1>1, <1>4
  <2> QED
    BY <2>1 DEF Rising
<1> QED
  <2> HIDE DEF t
  <2>1. \A y \in Ids(t) : Head(s) < y
    BY <1>3 DEF Ids
  <2>2. Head(s) \in Nat
    BY <1>1, <1>2
  <2>3. Head(s) \notin Ids(t)
    BY <2>1, <2>2
  <2>4. Ids(s) = {Head(s)} \cup Ids(t)
    BY IdsHead DEF t
  <2>5. Rising(t)
    BY <1>4 DEF Rising
  <2> QED
    BY <2>1, <2>3, <2>4, <2>5 DEF t

LEMMA StartsExact == Init => EInv
<1> SUFFICES ASSUME Init PROVE EInv
  OBVIOUS
<1>1. log = << >> /\ Len(log) = 0 /\ << >> \in Seq(Nat) /\ taken = [r \in Local |-> 0]
  BY DEF Init, Ring!BQInit, Local, Ring!Readers
<1>2. \A r \in AllRd : chan[r] = << >> /\ got[r] = << >> /\ failed[r] = {} /\ rpc[r] = "connect"
  BY DEF Init
<1>3. wpc = "subLocal" /\ Listed
  BY <1>1 DEF Init, Listed
<1>4. ASSUME NEW r \in Patient
      PROVE  Fed(r) /\ Had(r)
  <2>1. r \in AllRd /\ taken[r] = 0
    BY <1>1, PatientIsLocal
  <2>2. Coming(r) = {} /\ Open(r) = {} /\ 1..0 = {}
    BY <1>1, <1>2, <1>3, <2>1 DEF Coming, Ahead, Open, Unsent
  <2> QED
    BY <1>1, <1>2, <1>3, <2>1, <2>2, IdsEmpty, RisingEmpty DEF Fed, Had, Ended
<1> QED
  BY <1>1, <1>3, <1>4 DEF EInv

-----------------------------------------------------------------------------
(* Readers.                                                                *)

LEMMA OtherReaders ==
  ASSUME EInv, NEW r \in AllRd, UNCHANGED <<log, wobj, wpc>>,
         \A q \in AllRd \ {r} : /\ chan'[q] = chan[q] /\ rpc'[q] = rpc[q]
                               /\ got'[q] = got[q] /\ failed'[q] = failed[q],
         DOMAIN taken' = Local, \A q \in Local \ {r} : taken'[q] = taken[q],
         r \in Local => taken'[r] \in 0..Len(log),
         r \in Patient => Fed(r)' /\ Had(r)'
  PROVE  EInv'
<1>1. Listed' /\ \A q \in Local : taken'[q] \in 0..Len(log')
  BY DEF EInv, Listed
<1>2. ASSUME NEW q \in Patient, q # r
      PROVE  Fed(q)' /\ Had(q)'
  <2>1. Fed(q) /\ Had(q) /\ q \in AllRd /\ q \in Local
    BY PatientIsLocal DEF EInv
  <2>2. Coming(q)' = Coming(q) /\ Open(q)' = Open(q) /\ Ended(q)' = Ended(q)
    BY <1>2, <2>1 DEF Coming, Ahead, Open, Unsent, Ended
  <2>3. chan'[q] = chan[q] /\ rpc'[q] = rpc[q] /\ got'[q] = got[q] /\ failed'[q] = failed[q] /\ taken'[q] = taken[q]
    BY <1>2, <2>1
  <2> QED
    BY <2>1, <2>2, <2>3 DEF Fed, Had
<1> QED
  BY <1>1, <1>2 DEF EInv

\* A step within dequeue that reads nothing.
LEMMA IdleStepExact ==
  ASSUME EInv, NEW r \in AllRd, UNCHANGED <<log, wobj, wpc, taken, chan, got, failed>>,
         \A q \in AllRd \ {r} : rpc'[q] = rpc[q],
         r \in Patient => \/ {rpc[r], rpc'[r]} \subseteq Loop \ {"recv"}
                          \/ {rpc[r], rpc'[r]} \subseteq {"connect", "ready"}
  PROVE  EInv'
<1>1. ASSUME r \in Patient
      PROVE  Fed(r)' /\ Had(r)'
  <2>1. Fed(r) /\ Had(r) /\ rpc[r] # "recv" /\ rpc'[r] # "recv"
    BY <1>1 DEF EInv, Loop
  <2>2. Coming(r)' = Coming(r) /\ Open(r)' = Open(r) /\ Ended(r)' = Ended(r)
    BY <2>1 DEF Coming, Ahead, Open, Unsent, Ended
  <2> QED
    BY <1>1, <2>1, <2>2 DEF Fed, Had, Loop
<1> QED
  BY <1>1, OtherReaders DEF EInv

LEMMA RecvReadyExact ==
  ASSUME IInv, EInv, NEW r \in AllRd, RecvReady(r)
  PROVE  EInv'
<1>1. /\ rpc[r] = "ready" /\ chan[r] # << >> /\ chan' = [chan EXCEPT ![r] = Tail(@)]
      /\ rpc' = [rpc EXCEPT ![r] = IF Head(chan[r]) = READY THEN "idle" ELSE "assertion"]
      /\ UNCHANGED <<log, wpc, wobj, taken, got, failed>>
  BY DEF RecvReady, RGoto, ringVars, wVars
<1>2. Head(chan[r]) = READY
  BY <1>1 DEF IInv, Waiting
<1>3. /\ chan'[r] = Tail(chan[r]) /\ rpc'[r] = "idle"
      /\ \A q \in AllRd \ {r} : chan'[q] = chan[q] /\ rpc'[q] = rpc[q]
  BY <1>1, <1>2 DEF IInv, Types
<1>4. ASSUME r \in Patient
      PROVE  Fed(r)' /\ Had(r)'
  <2>1. Fed(r) /\ Had(r) /\ chan[r] \in Seq(Nat)
    BY <1>4 DEF EInv, IInv, Types
  <2>2. Rising(chan'[r]) /\ Ids(chan'[r]) = Ids(chan[r]) \ {READY}
    BY <1>1, <1>2, <1>3, <2>1, RisingTail DEF Fed
  <2>3. Coming(r)' = Coming(r) /\ Open(r)' = Open(r) /\ Ended(r)' = Ended(r)
    BY <1>1, <1>3 DEF Coming, Ahead, Open, Unsent, Ended
  <2>4. Fed(r)'
    BY <1>1, <1>3, <2>1, <2>2, <2>3 DEF Fed
  <2>5. Had(r)'
    BY <1>1, <2>1, <2>3 DEF Had
  <2> QED
    BY <2>4, <2>5
<1> QED
  BY <1>1, <1>3, <1>4, OtherReaders DEF EInv

\* The payload that comes is that of the chunk the reader took last.
LEMMA PayloadMatches ==
  ASSUME IInv, EInv, NEW r \in Patient, rpc[r] = "recv", chan[r] # << >>
  PROVE  /\ Head(chan[r]) = taken[r] /\ taken[r] \in Coming(r)
         /\ READY \notin Ids(chan[r]) /\ Ids(chan[r]) = Coming(r)
<1>1. Fed(r) /\ chan[r] \in Seq(Nat) /\ r \in Local
  BY PatientIsLocal DEF EInv, IInv, Types
<1>2. READY \notin Ids(chan[r]) /\ Ids(chan[r]) = Coming(r)
  BY <1>1 DEF Fed
<1>3. Ids(chan[r]) = {Head(chan[r])} \cup Ids(Tail(chan[r])) /\ \A y \in Ids(Tail(chan[r])) : Head(chan[r]) < y
  BY <1>1, IdsHead, RisingTail DEF Fed
<1>4. Head(chan[r]) \in Coming(r) /\ Head(chan[r]) \in Nat
  BY <1>1, <1>2, <1>3, HeadTailProperties
<1>5. taken[r] \in Nat /\ Len(log) \in Nat /\ taken[r] <= Len(log)
  BY <1>1, LenProperties DEF EInv, IInv, Types
<1>6. Coming(r) \subseteq {taken[r]} \cup (taken[r] + 1)..Len(log)
  BY DEF Coming, Ahead, Open
<1>7. taken[r] \in Coming(r)
  <2>1. CASE wpc = "overflow" /\ taken[r] = Len(log)
    <3>1. Ahead(r) = {}
      BY <1>5, <2>1 DEF Ahead
    <3>2. Coming(r) = {}
      BY <2>1, <3>1 DEF Coming, Open, Unsent
    <3> QED
      BY <1>4, <3>2
  <2>2. CASE ~(wpc = "overflow" /\ taken[r] = Len(log))
    BY <2>2 DEF Coming, Open, Unsent
  <2> QED
    BY <2>1, <2>2
<1>8. Head(chan[r]) = taken[r]
  <2>1. Head(chan[r]) <= taken[r]
    BY <1>2, <1>3, <1>4, <1>5, <1>7
  <2>2. Head(chan[r]) >= taken[r]
    BY <1>4, <1>5, <1>6
  <2> QED
    BY <1>4, <1>5, <2>1, <2>2
<1> QED
  BY <1>2, <1>7, <1>8

LEMMA RecvExact ==
  ASSUME IInv, SInv, EInv, NEW r \in AllRd, NEW ok \in BOOLEAN, Recv(r, ok)
  PROVE  EInv'
<1> DEFINE x == Head(chan[r])
<1>1. /\ rpc[r] = "recv" /\ chan[r] # << >> /\ chan' = [chan EXCEPT ![r] = Tail(@)]
      /\ rpc' = [rpc EXCEPT ![r] = "idle"]
      /\ got' = IF ok THEN [got EXCEPT ![r] = Append(@, x)] ELSE got
      /\ failed' = IF ok THEN failed ELSE [failed EXCEPT ![r] = @ \cup {x}]
      /\ UNCHANGED <<log, wpc, wobj, taken>>
  BY DEF Recv, RGoto, ringVars, wVars
<1>2. /\ chan'[r] = Tail(chan[r]) /\ rpc'[r] = "idle"
      /\ \A q \in AllRd \ {r} : chan'[q] = chan[q] /\ rpc'[q] = rpc[q]
  BY <1>1 DEF IInv, Types
<1>3. \A q \in AllRd \ {r} : got'[q] = got[q] /\ failed'[q] = failed[q]
  BY <1>1 DEF SInv
<1>4. ASSUME r \in Patient
      PROVE  Fed(r)' /\ Had(r)'
  <2>1. /\ Fed(r) /\ Had(r) /\ chan[r] \in Seq(Nat)
        /\ taken[r] \in Nat /\ Len(log) \in Nat /\ taken[r] <= Len(log)
    BY <1>4, PatientIsLocal, LenProperties DEF EInv, IInv, Types
  <2>2. x = taken[r] /\ x \in Coming(r) /\ READY \notin Ids(chan[r]) /\ Ids(chan[r]) = Coming(r)
    BY <1>1, <1>4, PayloadMatches
  <2>3. Rising(chan'[r]) /\ Ids(chan'[r]) = Coming(r) \ {taken[r]}
    BY <1>1, <1>2, <2>1, <2>2, RisingTail DEF Fed
  <2>4. Open(r) = {taken[r]} /\ Open(r)' = {}
    BY <1>1, <1>2 DEF Open
  <2>5. Coming(r)' = Coming(r) \ {taken[r]}
    <3>1. taken[r] \notin Ahead(r) /\ Ahead(r)' = Ahead(r) /\ Unsent' = Unsent
      BY <1>1, <2>1 DEF Ahead, Unsent
    <3> QED
      BY <2>4, <3>1 DEF Coming
  <2>6. Fed(r)'
    <3>1. ~(wpc = "overflow" /\ taken[r] = Len(log))
      BY <2>2 DEF Coming, Unsent
    <3>2. wpc # "subLocal"
      BY <1>1, <2>1 DEF Fed
    <3>3. READY \notin Ids(chan'[r]) /\ Ids(chan'[r]) \ {READY} = Coming(r)'
      BY <2>2, <2>3, <2>5
    <3> QED
      BY <1>1, <1>2, <2>3, <3>1, <3>2, <3>3 DEF Fed
  <2>7. Had(r)'
    <3>1. /\ got[r] \in Seq(Nat) /\ Rising(got[r]) /\ Ids(got[r]) \cap failed[r] = {}
          /\ Ids(got[r]) \cup failed[r] = 1..taken[r] \ {taken[r]}
      BY <2>1, <2>4 DEF Had, Ended
    <3>2. /\ Append(got[r], x) \in Seq(Nat) /\ Rising(Append(got[r], x))
          /\ Ids(Append(got[r], x)) = Ids(got[r]) \cup {x}
      BY <2>1, <2>2, <3>1, AppendProperties, IdsAppend, RisingAppend
    <3>3. 1 <= taken[r]
      <4>1. taken[r] # 0
        BY <2>2, <2>1 DEF READY
      <4> QED
        BY <2>1, <4>1
    <3>4. (1..taken[r] \ {taken[r]}) \cup {x} = 1..taken[r]
      BY <2>1, <2>2, <3>3
    <3>5. CASE ok
      <4>1. got'[r] = Append(got[r], x) /\ failed'[r] = failed[r]
        BY <1>1, <3>5 DEF SInv
      <4> QED
        BY <1>1, <2>2, <2>4, <3>1, <3>2, <3>4, <4>1 DEF Had, Ended
    <3>6. CASE ~ok
      <4>1. got'[r] = got[r] /\ failed'[r] = failed[r] \cup {x}
        BY <1>1, <3>6 DEF SInv
      <4> QED
        BY <1>1, <2>2, <2>4, <3>1, <3>4, <4>1 DEF Had, Ended
    <3> QED
      BY <3>5, <3>6
  <2> QED
    BY <2>6, <2>7
<1> QED
  BY <1>1, <1>2, <1>3, <1>4, OtherReaders DEF EInv

LEMMA ReadChunkExact ==
  ASSUME IInv, SInv, EInv, NEW r \in Local, NEW ok \in BOOLEAN, ReadChunk(r, ok)
  PROVE  EInv'
<1> DEFINE n == taken[r] + 1
           obj == log[n]
<1>1. /\ rpc[r] = "check" /\ taken[r] < Len(log) /\ taken' = [taken EXCEPT ![r] = @ + 1]
      /\ rpc' = [rpc EXCEPT ![r] = IF obj.big THEN "recv" ELSE "idle"]
      /\ got' = IF obj.big \/ ~ok THEN got ELSE [got EXCEPT ![r] = Append(@, obj.id)]
      /\ failed' = IF obj.big \/ ok THEN failed ELSE [failed EXCEPT ![r] = @ \cup {obj.id}]
      /\ UNCHANGED <<log, wpc, wobj, chan>>
  BY DEF ReadChunk, Ring!Take, Ring!Drop, Ring!Unread, wVars
<1>2. /\ r \in AllRd /\ taken[r] \in Nat /\ Len(log) \in Nat /\ n \in 1..Len(log)
      /\ taken'[r] = n /\ DOMAIN taken' = Local
      /\ \A q \in Local \ {r} : taken'[q] = taken[q]
  BY <1>1, RemoteIsNotLocal, LenProperties DEF EInv, IInv, Types
<1>3. obj.id = n
  BY <1>2 DEF EInv, Listed
<1>4. /\ \A q \in AllRd \ {r} : got'[q] = got[q] /\ failed'[q] = failed[q] /\ rpc'[q] = rpc[q]
      /\ rpc'[r] = IF obj.big THEN "recv" ELSE "idle"
  BY <1>1, <1>2 DEF SInv, IInv, Types
<1>5. ASSUME r \in Patient
      PROVE  Fed(r)' /\ Had(r)'
  <2>1. Fed(r) /\ Had(r) /\ Open(r) = {}
    BY <1>1, <1>5 DEF EInv, Open
  <2>2. (taken[r] + 1)..Len(log) = {n} \cup (n + 1)..Len(log)
    BY <1>2
  <2>3. Open(r)' = IF obj.big THEN {n} ELSE {}
    BY <1>2, <1>4 DEF Open
  <2>4. Coming(r)' = Coming(r)
    <3>1. Ahead(r)' = {i \in (n + 1)..Len(log) : log[i].big}
      BY <1>1, <1>2 DEF Ahead
    <3>2. Ahead(r) = Ahead(r)' \cup (IF obj.big THEN {n} ELSE {})
      BY <2>2, <3>1 DEF Ahead
    <3>3. Unsent' = Unsent
      BY <1>1 DEF Unsent
    <3> QED
      BY <2>1, <2>3, <3>2, <3>3 DEF Coming
  <2>5. Fed(r)'
    <3>1. wpc = "overflow" /\ n = Len(log) => obj.big
      BY DEF EInv, Listed
    <3> QED
      BY <1>1, <1>2, <1>4, <2>1, <2>4, <3>1 DEF Fed
  <2>6. Had(r)'
    <3>1. /\ got[r] \in Seq(Nat) /\ Rising(got[r]) /\ Ids(got[r]) \cap failed[r] = {}
          /\ Ids(got[r]) \cup failed[r] = 1..taken[r]
      BY <2>1 DEF Had, Ended
    <3>2. 1..n = 1..taken[r] \cup {n} /\ n \notin 1..taken[r] /\ \A y \in 1..taken[r] : y < n
      BY <1>2
    <3>3. /\ Append(got[r], n) \in Seq(Nat) /\ Rising(Append(got[r], n))
          /\ Ids(Append(got[r], n)) = Ids(got[r]) \cup {n}
      BY <1>2, <3>1, <3>2, AppendProperties, IdsAppend, RisingAppend
    <3>4. CASE obj.big
      <4>1. UNCHANGED <<got, failed>> /\ Open(r)' = {n}
        BY <1>1, <2>3, <3>4
      <4>2. 1..n \ {n} = 1..taken[r]
        BY <3>2
      <4> QED
        BY <1>2, <3>1, <4>1, <4>2 DEF Had, Ended
    <3>5. CASE ~obj.big /\ ok
      <4>1. got'[r] = Append(got[r], n) /\ failed'[r] = failed[r] /\ Open(r)' = {}
        BY <1>1, <1>2, <1>3, <2>3, <3>5 DEF SInv
      <4> QED
        BY <1>2, <3>1, <3>2, <3>3, <4>1 DEF Had, Ended
    <3>6. CASE ~obj.big /\ ~ok
      <4>1. got'[r] = got[r] /\ failed'[r] = failed[r] \cup {n} /\ Open(r)' = {}
        BY <1>1, <1>2, <1>3, <2>3, <3>6 DEF SInv
      <4> QED
        BY <1>2, <3>1, <3>2, <4>1 DEF Had, Ended
    <3> QED
      BY <3>4, <3>5, <3>6
  <2> QED
    BY <2>5, <2>6
<1> QED
  <2>1. taken'[r] \in 0..Len(log)
    BY <1>2
  <2> HIDE DEF n, obj
  <2> QED
    BY <1>1, <1>2, <1>4, <1>5, <2>1, OtherReaders

LEMMA ReaderStepExact ==
  ASSUME IInv, SInv, EInv, NEW r \in AllRd, ReaderStep(r)
  PROVE  EInv'
<1> DEFINE Moves(from, to) ==
      /\ rpc[r] = from /\ rpc' = [rpc EXCEPT ![r] = to]
      /\ UNCHANGED <<log, wobj, wpc, taken, chan, got, failed>>
<1>1. ASSUME NEW from \in Loop, NEW to \in Loop, Moves(from, to),
             r \in Patient => {from, to} \subseteq Loop \ {"recv"}
      PROVE  EInv'
  <2>1. rpc'[r] = to /\ \A q \in AllRd \ {r} : rpc'[q] = rpc[q]
    BY <1>1 DEF IInv, Types
  <2> QED
    BY <1>1, <2>1, IdleStepExact
<1>2. ASSUME Subscribe(r)
      PROVE  EInv'
  <2>1. Moves("connect", "ready")
    BY <1>2 DEF Subscribe, RGoto, ringVars, wVars
  <2>2. rpc'[r] = "ready" /\ \A q \in AllRd \ {r} : rpc'[q] = rpc[q]
    BY <2>1 DEF IInv, Types
  <2> QED
    BY <2>1, <2>2, IdleStepExact
<1>3. ASSUME Dequeue(r)
      PROVE  EInv'
  <2>1. Moves("idle", IF r \in Local THEN "check" ELSE "recv")
    BY <1>3 DEF Dequeue, RGoto, ringVars, wVars
  <2> QED
    BY <1>1, <2>1, PatientIsLocal DEF Loop, RPlaces
<1>4. ASSUME RecvTimeout(r)
      PROVE  EInv'
  <2>1. Moves("recv", "idle") /\ r \notin Patient
    BY <1>4 DEF RecvTimeout, RGoto, ringVars, wVars, Patient
  <2> QED
    BY <1>1, <2>1 DEF Loop, RPlaces
<1>5. ASSUME DequeueTimeout(r) \/ Yield(r) \/ Park(r) \/ PollEvent(r) \/ PollExpires(r)
             \/ AfterWait(r)
      PROVE  EInv'
  <2>1. \E from, to \in {"check", "idle", "woken", "poll", "stopped"} : Moves(from, to)
    BY <1>5 DEF DequeueTimeout, Yield, Park, PollEvent, PollExpires, AfterWait, RGoto,
                ringVars, wVars
  <2> QED
    BY <1>1, <2>1 DEF Loop, RPlaces
<1> QED
  BY <1>2, <1>3, <1>4, <1>5, RecvReadyExact, RecvExact, ReadChunkExact
     DEF ReaderStep, LocalStep

-----------------------------------------------------------------------------
(* The writer.                                                             *)

\* A step of the writer, looked at by its effect on the sockets.
LEMMA WriterExact ==
  ASSUME EInv, UNCHANGED <<taken, rpc, got, failed>>, Listed',
         Len(log) \in Nat, Len(log') \in Nat, Len(log) <= Len(log'),
         \A r \in Patient : Fed(r)'
  PROVE  EInv'
<1>1. \A r \in Local : taken'[r] \in 0..Len(log')
  BY DEF EInv
<1>2. \A r \in Patient : Had(r)'
  BY DEF EInv, Had, Open, Ended
<1> QED
  BY <1>1, <1>2 DEF EInv

\* A step that sends local readers nothing and does not touch the ring.
LEMMA WriterAside ==
  ASSUME IInv, EInv, UNCHANGED <<log, taken, rpc, got, failed>>, wpc' # "subLocal",
         wpc # "subLocal", wpc # "overflow", wpc' # "overflow",
         \A r \in Local : chan'[r] = chan[r]
  PROVE  EInv'
<1>1. Listed' /\ Len(log) \in Nat
  BY LenProperties DEF EInv, Listed, IInv, Types
<1>2. ASSUME NEW r \in Patient PROVE Fed(r)'
  <2>1. Coming(r)' = Coming(r) /\ chan'[r] = chan[r] /\ Fed(r)
    BY PatientIsLocal DEF EInv, Coming, Ahead, Open, Unsent
  <2> QED
    BY <2>1 DEF Fed
<1> QED
  BY <1>1, <1>2, WriterExact

LEMMA AnnounceExact ==
  ASSUME IInv, EInv, AnnounceReady(Local, "subLocal", "subRemote", NLocal)
  PROVE  EInv'
<1>1. /\ wpc = "subLocal" /\ wpc' = "subRemote"
      /\ UNCHANGED <<log, wobj, taken, got, failed, rpc>>
      /\ Publish(Local, READY) \/ UNCHANGED chan
  BY DEF AnnounceReady, ringVars, rVars
<1>2. Listed' /\ Len(log) \in Nat
  BY <1>1, LenProperties DEF EInv, Listed, IInv, Types
<1>3. ASSUME NEW r \in Patient PROVE Fed(r)'
  <2>1. Fed(r) /\ r \in AllRd /\ chan[r] = << >>
    BY <1>1, PatientIsLocal DEF EInv, Fed
  <2>2. chan'[r] \in {<< >>, <<READY>>}
    <3>1. Append(<< >>, READY) = <<READY>>
      OBVIOUS
    <3> QED
      BY <1>1, <2>1, <3>1 DEF Publish
  <2>3. Ids(<<READY>>) = {READY} /\ Rising(<<READY>>)
    BY DEF Ids, Rising
  <2>4. Rising(chan'[r]) /\ Ids(chan'[r]) \ {READY} = {}
    BY <2>2, <2>3, IdsEmpty, RisingEmpty
  <2>5. Coming(r)' = Coming(r) /\ Coming(r) = {}
    BY <1>1, <2>1, IdsEmpty DEF Fed, Coming, Ahead, Open, Unsent
  <2> QED
    BY <1>1, <2>1, <2>4, <2>5 DEF Fed
<1> QED
  BY <1>1, <1>2, <1>3, WriterExact

LEMMA WriteChunkExact ==
  ASSUME IInv, SInv, EInv, WriteChunk
  PROVE  EInv'
<1> DEFINE n == Len(log) + 1
<1>1. /\ wpc = "acquire" /\ wpc' = (IF wobj.big THEN "overflow" ELSE "notify")
      /\ log' = Append(log, wobj)
      /\ UNCHANGED <<wobj, taken, chan, got, failed, rpc>>
  BY DEF WriteChunk, WGoto, rVars, Ring!Publish
<1>2. /\ Len(log) \in Nat /\ Len(log') = n /\ log'[n] = wobj /\ wobj.id = n
      /\ \A i \in 1..Len(log) : log'[i] = log[i]
  BY <1>1, AppendProperties, LenProperties DEF IInv, Types, SInv, Numbered
<1>3. 1..n = 1..Len(log) \cup {n}
  BY <1>2
<1>4. Listed'
  BY <1>1, <1>2, <1>3 DEF EInv, Listed
<1>5. ASSUME NEW r \in Patient PROVE Fed(r)'
  <2>1. Fed(r) /\ taken[r] \in Nat /\ taken[r] <= Len(log)
    BY <1>2, PatientIsLocal DEF EInv
  <2>2. (taken[r] + 1)..n = (taken[r] + 1)..Len(log) \cup {n}
    BY <1>2, <2>1
  <2>3. Ahead(r)' = Ahead(r) \cup (IF wobj.big THEN {n} ELSE {})
    <3>1. Ahead(r)' = {i \in (taken[r] + 1)..n : log'[i].big}
      BY <1>1, <1>2 DEF Ahead
    <3>2. \A i \in (taken[r] + 1)..Len(log) : log'[i] = log[i]
      BY <1>2, <2>1
    <3> QED
      BY <1>2, <2>2, <3>1, <3>2 DEF Ahead
  <2>4. n \notin Ahead(r) \cup Open(r) /\ Open(r)' = Open(r)
    BY <1>1, <1>2, <2>1 DEF Ahead, Open
  <2>5. Unsent = {} /\ Unsent' = IF wobj.big THEN {n} ELSE {}
    BY <1>1, <1>2 DEF Unsent
  <2>6. Coming(r)' = Coming(r)
    BY <2>3, <2>4, <2>5 DEF Coming
  <2>7. taken[r] # n
    BY <1>2, <2>1
  <2> QED
    BY <1>1, <1>2, <2>1, <2>6, <2>7 DEF Fed
<1> QED
  BY <1>1, <1>2, <1>4, <1>5, WriterExact

LEMMA SendOverflowExact ==
  ASSUME IInv, SInv, EInv, SendOverflow
  PROVE  EInv'
<1> DEFINE n == Len(log)
<1>1. /\ wpc = "overflow" /\ wpc' = "notify" /\ Publish(Local, wobj.id)
      /\ UNCHANGED <<log, wobj, taken, got, failed, rpc>>
  BY DEF SendOverflow, WGoto, ringVars, rVars
<1>2. n \in Nat /\ n # 0 /\ wobj.id = n /\ log[n].big /\ Listed'
  BY <1>1, LenProperties DEF IInv, Types, SInv, Numbered, Here, EInv, Listed
<1>3. ASSUME NEW r \in Patient PROVE Fed(r)'
  <2>1. /\ Fed(r) /\ taken[r] \in Nat /\ taken[r] <= n /\ chan[r] \in Seq(Nat)
        /\ r \in Local /\ r \in AllRd /\ r \in subs
    BY <1>1, <1>2, PatientIsLocal DEF EInv, IInv, Types, Counting, Announced
  <2>2. chan'[r] = Append(chan[r], n)
    BY <1>1, <1>2, <2>1 DEF Publish
  <2>3. Ids(chan'[r]) = Ids(chan[r]) \cup {n} /\ n # READY
    BY <1>2, <2>1, <2>2, IdsAppend DEF READY
  <2>4. n \in Ahead(r) \cup Open(r)
    <3>1. CASE taken[r] = n
      BY <1>1, <2>1, <3>1 DEF Fed, Open
    <3>2. CASE taken[r] # n
      <4>1. n \in (taken[r] + 1)..Len(log)
        BY <1>2, <2>1, <3>2
      <4> QED
        BY <1>2, <4>1 DEF Ahead
    <3> QED
      BY <3>1, <3>2
  <2>5. Coming(r) = (Ahead(r) \cup Open(r)) \ {n} /\ Coming(r)' = Ahead(r) \cup Open(r)
    BY <1>1 DEF Coming, Ahead, Open, Unsent
  <2>6. Coming(r)' = Coming(r) \cup {n}
    BY <2>4, <2>5
  <2>7. Rising(chan'[r])
    <3>1. \A y \in Ahead(r) \cup Open(r) : y \in Nat /\ y <= n
      BY <1>2, <2>1 DEF Ahead, Open
    <3>2. \A y \in Coming(r) : y < n
      BY <1>2, <2>5, <3>1
    <3>3. \A y \in Ids(chan[r]) : y < n
      BY <1>2, <2>1, <3>2 DEF Fed, READY
    <3> QED
      BY <1>2, <2>1, <2>2, <3>3, RisingAppend DEF Fed
  <2> QED
    BY <1>1, <2>1, <2>3, <2>6, <2>7 DEF Fed
<1> QED
  BY <1>1, <1>2, <1>3, WriterExact

LEMMA NextExact ==
  ASSUME IInv, SInv, EInv, [Next]_vars
  PROVE  EInv'
<1>1. CASE \/ UNCHANGED vars
           \/ CountSub(Local, "subLocal", NLocal) \/ CountSub(Remote, "subRemote", NRemote)
           \/ \E r \in Local : Cool(r)
           \/ \E r \in Stoppable : SetShuttingDown(r) \/ Cancel(r)
  <2>1. UNCHANGED <<log, wobj, wpc, taken, chan, got, failed, rpc>>
    BY <1>1 DEF vars, CountSub, Cool, SetShuttingDown, Cancel, ringVars, wVars, rVars
  <2>2. Listed' /\ Len(log) \in Nat
    BY <2>1, LenProperties DEF EInv, Listed, IInv, Types
  <2>3. \A r \in Patient : Fed(r)'
    BY <2>1 DEF EInv, Fed, Coming, Ahead, Open, Unsent
  <2> QED
    BY <2>1, <2>2, <2>3, WriterExact
<1>2. CASE \/ AnnounceReady(Remote, "subRemote", "idle", NRemote)
           \/ EnqueueTimeout \/ Notify \/ SendRemote
           \/ \E big \in BOOLEAN : Enqueue(big)
  <2>1. /\ wpc \in {"subRemote", "idle", "acquire", "notify", "remote"}
        /\ wpc' \in {"idle", "acquire", "remote"}
        /\ UNCHANGED <<log, taken, rpc, got, failed>>
        /\ UNCHANGED chan \/ \E x : Publish(Remote, x)
    BY <1>2 DEF AnnounceReady, EnqueueTimeout, Notify, SendRemote, Enqueue, WGoto,
                ringVars, rVars
  <2>2. \A r \in Local : chan'[r] = chan[r]
    BY <2>1, RemoteIsNotLocal DEF Publish
  <2> QED
    BY <2>1, <2>2, WriterAside
<1> QED
  BY <1>1, <1>2, AnnounceExact, WriteChunkExact, SendOverflowExact, ReaderStepExact
     DEF Next, WriterStep

\* For every number of readers and every capacity: a local reader whose dequeues have
\* no timeout gets each object whose chunk it took once and in order, although chunks
\* and overflow payloads travel on different channels, whoever else times out.
THEOREM EachObjectOnce == Spec => []ExactlyOnce
<1>1. IInv /\ EInv => ExactlyOnce
  <2> SUFFICES ASSUME IInv, EInv, NEW r \in Local \ Impatient
               PROVE  /\ Rising(got[r]) /\ Ids(got[r]) \cap failed[r] = {}
                      /\ Ended(r) = 1..taken[r] \ Open(r)
    BY DEF ExactlyOnce, Rising, Open
  <2> QED
    BY DEF EInv, Had, Patient
<1> QED
  BY <1>1, StartsInvariant, NextKeeps, StartsSteady, NextSteady, StartsExact, NextExact,
     PTL DEF Spec
=============================================================================
