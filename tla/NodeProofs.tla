------------------------------ MODULE NodeProofs ------------------------------
(***************************************************************************)
(* Proofs about MCNode, for every value of its constants.  A step of the   *)
(* node is one of a part or leaves the part's variables alone, so what     *)
(* SelfTestProofs and McpProofs prove of a part on its own holds of it     *)
(* among the others.  Each of the other sections proves the properties of  *)
(* one part: its inductive invariant first, that the initial states have   *)
(* it, that every action keeps it, and what follows from it.  The last one *)
(* has the types of all.                                                   *)
(***************************************************************************)
EXTENDS MCNode, SequenceTheorems, FiniteSetTheorems, WellFoundedInduction, TLAPS

GateOf    == INSTANCE SelfTestProofs
McpOf     == INSTANCE McpProofs

-----------------------------------------------------------------------------
(* The self-test.                                                          *)

LEMMA GateAssumed ==
  ASSUME NodeAssumption
  PROVE  GateOf!TestAssumption
BY DEF NodeAssumption, Gate!TestAssumption, GateOf!TestAssumption

LEMMA GateStarts ==
  ASSUME NodeAssumption, Init
  PROVE  GateOf!IInv
<1>1. GateOf!Init
  BY DEF Init, Gate!Init, GateOf!Init, Gate!Checks, GateOf!Checks
<1> QED
  BY <1>1, GateAssumed, GateOf!StartsInvariant

LEMMA GateKeeps ==
  ASSUME NodeAssumption, GateOf!IInv, [Next]_vars
  PROVE  GateOf!IInv'
<1>1. Gate!Next \/ UNCHANGED gateVars
  BY DEF Next, GateNext, vars
<1>2. Gate!Next => GateOf!Next
  BY DEF Gate!Next, Gate!ApiUp, Gate!ApiDown, Gate!NeverBound, Gate!Exit, Gate!Answered,
         Gate!TimedOut, Gate!Ask, Gate!NextCheck, Gate!Acceptance,
         GateOf!Next, GateOf!ApiUp, GateOf!ApiDown, GateOf!NeverBound, GateOf!Exit,
         GateOf!Answered, GateOf!TimedOut, GateOf!Ask, GateOf!NextCheck, GateOf!Acceptance
<1>3. [GateOf!Next]_GateOf!vars
  BY <1>1, <1>2 DEF gateVars, GateOf!vars
<1> QED
  BY <1>3, GateAssumed, GateOf!NextKeeps

\* The exit status of self-test.py: 0 only when every answer was right at last.
THEOREM NodeGateHolds ==
  ASSUME NodeAssumption
  PROVE  Spec => []PassedMeansRight
<1>1. GateOf!IInv => PassedMeansRight
  BY DEF GateOf!IInv, PassedMeansRight, GateOf!PassedMeansRight, Gate!PassedMeansRight,
         GateOf!LastReply, Gate!LastReply, GateOf!Checks, Gate!Checks
<1> QED
  BY <1>1, GateStarts, GateKeeps, PTL DEF Spec

-----------------------------------------------------------------------------
(* The tool calls between pages.                                           *)

LEMMA McpAssumed ==
  ASSUME NodeAssumption
  PROVE  McpOf!McpAssumption
BY DEF NodeAssumption, Mcp!McpAssumption, McpOf!McpAssumption, Mcp!Self, McpOf!Self

LEMMA McpStarts ==
  ASSUME NodeAssumption, Init
  PROVE  McpOf!IInv
<1>1. McpOf!Init
  BY DEF Init, Mcp!Init, McpOf!Init, Mcp!NoCall, McpOf!NoCall
<1> QED
  BY <1>1, McpAssumed, McpOf!StartsInvariant

LEMMA McpKeeps ==
  ASSUME NodeAssumption, McpOf!IInv, [Next]_vars
  PROVE  McpOf!IInv'
<1>1. Mcp!Next \/ UNCHANGED mcpVars
  BY DEF Next, GateNext, vars
<1>2. Mcp!Next => McpOf!Next
  BY DEF Mcp!Next, Mcp!Poll, Mcp!Restart, Mcp!Call, Mcp!NoCall, Mcp!Tools, Mcp!Names,
         Mcp!Self, Mcp!Blank, Mcp!Local, Mcp!Unknown, Mcp!Forward, Mcp!Forwarded, Mcp!GiveUp,
         Mcp!Reply, Mcp!RunsHere, Mcp!IsSelf, Mcp!IsSelfRow, Mcp!NamesOf, Mcp!PeerAddrFor,
         McpOf!Next, McpOf!Poll, McpOf!Restart, McpOf!Call, McpOf!NoCall, McpOf!Tools,
         McpOf!Names, McpOf!Self, McpOf!Blank, McpOf!Local, McpOf!Unknown, McpOf!Forward,
         McpOf!Forwarded, McpOf!GiveUp, McpOf!Reply, McpOf!RunsHere, McpOf!IsSelf,
         McpOf!IsSelfRow, McpOf!NamesOf, McpOf!PeerAddrFor
<1>3. [McpOf!Next]_McpOf!vars
  BY <1>1, <1>2 DEF mcpVars, McpOf!vars
<1> QED
  BY <1>3, McpAssumed, McpOf!NextKeeps

\* mcp_handle and proxy_tool_call: one hop, and node_status runs where it was named.
THEOREM NodeRanWhereNamed ==
  ASSUME NodeAssumption
  PROVE  Spec => []AnsweredByNamed
<1>1. McpOf!IInv => McpOf!AnsweredByNamed
  BY McpOf!NamedAnswers
<1>2. McpOf!AnsweredByNamed => AnsweredByNamed
  BY DEF AnsweredByNamed, Mcp!AnsweredByNamed, McpOf!AnsweredByNamed,
         Mcp!NoCall, McpOf!NoCall, Mcp!Named, McpOf!Named, Mcp!Self, McpOf!Self,
         Mcp!Blank, McpOf!Blank
<1> QED
  BY <1>1, <1>2, McpStarts, McpKeeps, PTL DEF Spec

-----------------------------------------------------------------------------
(* The monitor of compilations.                                            *)

\* The counter is the number of wrapped calls in progress: every way out of a call
\* takes back what the way in added, whoever calls.
CallsCounted ==
  /\ compiles \in Nat
  /\ IsFiniteSet(open)
  /\ open \subseteq [thread : Threads, number : Nat, kernel : Kernels, level : Monitor!Levels]
  /\ \A c \in open : c.number < compiles
  /\ depth = Cardinality(open)

\* Who is silent about a kernel was told to be, or has warned of it.
Told(level, library, kernel) ==
  /\ level = "debug" => silent
  /\ level = "repeat" => <<library, kernel>> \in warned

CallsTold == \A c \in open : Told(c.level, "tilelang", c.kernel)

LogTyped ==
  log \subseteq [library : Monitor!Libraries, kernel : Kernels, reports : Seq(Monitor!Levels),
                 alone : BOOLEAN]

MonitorInv == CallsCounted /\ CallsTold /\ LogTyped /\ Monitor!ReportedOnce

LEMMA DepthZero ==
  ASSUME CallsCounted
  PROVE  /\ depth \in Nat
         /\ depth = 0 <=> open = {}
BY FS_CardinalityType, FS_EmptySet DEF CallsCounted

LEMMA MonitorStarts == Init => MonitorInv
BY FS_EmptySet DEF Init, Monitor!Init, MonitorInv, CallsCounted, CallsTold, LogTyped,
   Monitor!ReportedOnce

\* What the handler does with a report.
LEMMA LevelTold ==
  ASSUME NEW library, NEW kernel
  PROVE  /\ Monitor!Level(library, kernel) \in Monitor!Levels
         /\ Told(Monitor!Level(library, kernel), library, kernel)
BY DEF Monitor!Level, Monitor!Levels, Told

LEMMA HandleWarns ==
  ASSUME NEW library, NEW kernel, Monitor!Handle(library, kernel)
  PROVE  warned \subseteq warned'
BY DEF Monitor!Handle

\* What has been warned of stays so.
LEMMA ToldStays ==
  ASSUME warned \subseteq warned', silent' = silent, NEW level, NEW library, NEW kernel,
         Told(level, library, kernel)
  PROVE  Told(level, library, kernel)'
BY DEF Told

LEMMA ReportedStays ==
  ASSUME MonitorInv, warned \subseteq warned', UNCHANGED <<silent, log>>
  PROVE  LogTyped' /\ Monitor!ReportedOnce'
BY DEF MonitorInv, LogTyped, Monitor!ReportedOnce

LEMMA EnterKeeps ==
  ASSUME MonitorInv, NEW t \in Threads, NEW kernel \in Kernels, Monitor!Enter(t, kernel)
  PROVE  MonitorInv'
<1> DEFINE level == Monitor!Level("tilelang", kernel)
           entry == [thread |-> t, number |-> compiles, kernel |-> kernel, level |-> level]
<1>1. UNCHANGED <<silent, log>> /\ compiles' = compiles + 1
  BY DEF Monitor!Enter
<1>2. CASE UNCHANGED <<depth, open, warned>>
  <2>1. LogTyped' /\ Monitor!ReportedOnce'
    BY <1>1, <1>2, ReportedStays
  <2>2. CallsCounted'
    BY <1>1, <1>2 DEF MonitorInv, CallsCounted
  <2>3. CallsTold'
    BY <1>1, <1>2 DEF MonitorInv, CallsTold, Told
  <2> QED
    BY <2>1, <2>2, <2>3 DEF MonitorInv
<1>3. CASE /\ depth' = depth + 1 /\ open' = open \cup {entry}
           /\ Monitor!Handle("tilelang", kernel)
  <2>1. warned \subseteq warned'
    BY <1>3, HandleWarns
  <2>2. LogTyped' /\ Monitor!ReportedOnce'
    BY <1>1, <2>1, ReportedStays
  <2>3. level \in Monitor!Levels /\ Told(level, "tilelang", kernel)
    BY LevelTold
  <2> HIDE DEF level
  <2>4. /\ entry.number = compiles /\ entry.level = level /\ entry.kernel = kernel
        /\ compiles \in Nat
        /\ entry \in [thread : Threads, number : Nat, kernel : Kernels, level : Monitor!Levels]
    BY <2>3 DEF MonitorInv, CallsCounted
  <2> HIDE DEF entry
  <2>5. entry \notin open
    BY <2>4 DEF MonitorInv, CallsCounted
  <2>6. IsFiniteSet(open') /\ Cardinality(open') = Cardinality(open) + 1
    BY <1>3, <2>5, FS_AddElement DEF MonitorInv, CallsCounted
  <2>7. CallsCounted'
    BY <1>1, <1>3, <2>4, <2>6 DEF MonitorInv, CallsCounted
  <2>8. CallsTold'
    BY <1>1, <1>3, <2>1, <2>3, <2>4, ToldStays DEF MonitorInv, CallsTold
  <2> QED
    BY <2>2, <2>7, <2>8 DEF MonitorInv
<1> QED
  BY <1>2, <1>3 DEF Monitor!Enter

LEMMA LeaveKeeps ==
  ASSUME MonitorInv, NEW t \in Threads, Monitor!Leave(t)
  PROVE  MonitorInv'
<1>1. PICK c \in open : /\ open' = open \ {c} /\ depth' = depth - 1
                        /\ UNCHANGED <<silent, warned, compiles, log>>
  BY DEF Monitor!Leave
<1>2. IsFiniteSet(open') /\ Cardinality(open') = Cardinality(open) - 1
  BY <1>1, FS_RemoveElement DEF MonitorInv, CallsCounted
<1>3. CallsCounted'
  BY <1>1, <1>2 DEF MonitorInv, CallsCounted
<1>4. CallsTold'
  BY <1>1 DEF MonitorInv, CallsTold, Told
<1> QED
  BY <1>1, <1>3, <1>4, ReportedStays DEF MonitorInv

\* The reports a compilation by t should have.
Right(reports, t, library, kernel) ==
  /\ reports \in Seq(Monitor!Levels) /\ Len(reports) <= 1
  /\ (\A c \in open : c.thread = t) =>
       Len(reports) = 1 /\ Told(reports[1], library, kernel)

LEMMA OneRight ==
  ASSUME NEW level \in Monitor!Levels, NEW t, NEW library, NEW kernel,
         Told(level, library, kernel)
  PROVE  Right(<<level>>, t, library, kernel)
<1>1. <<level>> \in Seq(Monitor!Levels) /\ Len(<<level>>) = 1 /\ <<level>>[1] = level
  OBVIOUS
<1> QED
  BY <1>1 DEF Right

\* A compilation with the right reports keeps the log right.
LEMMA CompiledKeeps ==
  ASSUME MonitorInv, NEW t, NEW library \in Monitor!Libraries, NEW kernel \in Kernels,
         NEW reports, Right(reports, t, library, kernel),
         Monitor!Compiled(t, library, kernel, reports),
         UNCHANGED <<silent, depth, open, compiles>>, warned \subseteq warned'
  PROVE  MonitorInv'
<1> DEFINE alone == \A c \in open : c.thread = t
           entry == [library |-> library, kernel |-> kernel, reports |-> reports,
                     alone |-> alone]
<1>1. log' = {entry}
  BY DEF Monitor!Compiled
<1>2. /\ alone \in BOOLEAN /\ reports \in Seq(Monitor!Levels) /\ Len(reports) <= 1
      /\ alone => Len(reports) = 1 /\ Told(reports[1], library, kernel)'
  BY ToldStays DEF Right
<1> HIDE DEF alone
<1>3. entry \in [library : Monitor!Libraries, kernel : Kernels,
                 reports : Seq(Monitor!Levels), alone : BOOLEAN]
  BY <1>2
<1>4. LogTyped'
  BY <1>1, <1>3 DEF LogTyped
<1>5. Monitor!ReportedOnce'
  BY <1>1, <1>2 DEF Monitor!ReportedOnce, Told
<1>6. CallsCounted'
  BY DEF MonitorInv, CallsCounted
<1>7. CallsTold'
  BY ToldStays DEF MonitorInv, CallsTold
<1> QED
  BY <1>4, <1>5, <1>6, <1>7 DEF MonitorInv

\* The constructor knows by the counter alone that a call has reported for it.
LEMMA BuildInsideKeeps ==
  ASSUME MonitorInv, NEW t \in Threads, Monitor!BuildInside(t)
  PROVE  MonitorInv'
<1>1. depth # 0
  BY DepthZero DEF MonitorInv, Monitor!BuildInside
<1>2. PICK c \in open : /\ Monitor!Compiled(t, "tilelang", c.kernel, <<c.level>>)
                        /\ UNCHANGED warned
  BY <1>1 DEF Monitor!BuildInside
<1>3. c.kernel \in Kernels /\ c.level \in Monitor!Levels /\ Told(c.level, "tilelang", c.kernel)
  BY DEF MonitorInv, CallsCounted, CallsTold
<1>4. UNCHANGED <<silent, depth, open, compiles>> /\ "tilelang" \in Monitor!Libraries
  BY DEF Monitor!BuildInside, Monitor!Libraries
<1>5. Right(<<c.level>>, t, "tilelang", c.kernel)
  BY <1>3, OneRight
<1>6. warned \subseteq warned'
  BY <1>2
<1> QED
  BY <1>2, <1>3, <1>4, <1>5, <1>6, CompiledKeeps, Zenon

\* Outside of a call it reports unless another thread is inside one.
LEMMA BuildOutsideKeeps ==
  ASSUME MonitorInv, NEW t \in Threads, NEW kernel \in Kernels,
         Monitor!BuildOutside(t, kernel)
  PROVE  MonitorInv'
<1>1. UNCHANGED <<silent, depth, open, compiles>> /\ "tilelang" \in Monitor!Libraries
  BY DEF Monitor!BuildOutside, Monitor!Libraries
<1> DEFINE level == Monitor!Level("tilelang", kernel)
<1>2. level \in Monitor!Levels /\ Told(level, "tilelang", kernel)
  BY LevelTold
<1>3. CASE depth = 0
  <2>1. Monitor!Handle("tilelang", kernel) /\ Monitor!Compiled(t, "tilelang", kernel, <<level>>)
    BY <1>3 DEF Monitor!BuildOutside
  <2>2. warned \subseteq warned'
    BY <2>1, HandleWarns
  <2> HIDE DEF level
  <2>3. Right(<<level>>, t, "tilelang", kernel)
    BY <1>2, OneRight
  <2> QED
    BY <1>1, <2>1, <2>2, <2>3, CompiledKeeps, Zenon
<1>4. CASE depth # 0
  <2>1. Monitor!Compiled(t, "tilelang", kernel, << >>) /\ UNCHANGED warned
    BY <1>4 DEF Monitor!BuildOutside
  <2>2. ~ \A c \in open : c.thread = t
    BY <1>4, DepthZero DEF Monitor!BuildOutside, MonitorInv
  <2>3. << >> \in Seq(Monitor!Levels) /\ Len(<< >>) <= 1
    OBVIOUS
  <2>4. Right(<< >>, t, "tilelang", kernel) /\ warned \subseteq warned'
    BY <2>1, <2>2, <2>3 DEF Right
  <2> QED
    BY <1>1, <2>1, <2>4, CompiledKeeps, Zenon
<1> QED
  BY <1>3, <1>4

LEMMA HookedKeeps ==
  ASSUME MonitorInv, NEW t \in Threads, NEW library \in Monitor!Libraries,
         NEW kernel \in Kernels, Monitor!Hooked(t, library, kernel)
  PROVE  MonitorInv'
<1> DEFINE level == Monitor!Level(library, kernel)
<1>1. /\ Monitor!Compiled(t, library, kernel, <<level>>)
      /\ UNCHANGED <<silent, depth, open, compiles>>
  BY DEF Monitor!Hooked
<1>2. warned \subseteq warned'
  BY HandleWarns DEF Monitor!Hooked
<1>3. level \in Monitor!Levels /\ Told(level, library, kernel)
  BY LevelTold
<1> HIDE DEF level
<1>4. Right(<<level>>, t, library, kernel)
  BY <1>3, OneRight
<1> QED
  BY <1>1, <1>2, <1>4, CompiledKeeps, Zenon

LEMMA MonitorKeeps ==
  ASSUME MonitorInv, [Next]_vars
  PROVE  MonitorInv'
<1>1. CASE UNCHANGED monitorVars
  BY <1>1 DEF monitorVars, MonitorInv, CallsCounted, CallsTold, Told, LogTyped,
     Monitor!ReportedOnce
<1>2. ASSUME NEW mode \in {"warn", "error"}, NEW v \in BOOLEAN, Monitor!Activate(mode, v)
      PROVE  MonitorInv'
  BY <1>2 DEF Monitor!Activate, MonitorInv, CallsCounted, CallsTold, Told, LogTyped,
     Monitor!ReportedOnce
<1>3. Monitor!Next => MonitorInv'
  BY <1>2, EnterKeeps, LeaveKeeps, BuildInsideKeeps, BuildOutsideKeeps, HookedKeeps
     DEF Monitor!Next
<1>4. Monitor!Next \/ UNCHANGED monitorVars
  BY DEF Next, GateNext, vars
<1> QED
  BY <1>1, <1>3, <1>4

\* _handle_jit_event is reached once for a compilation, however wrapped calls nest, and it
\* keeps silent only about what it has warned of before, or when it was told to.
THEOREM NodeReportedOnce == Spec => []ReportedOnce
<1>1. MonitorInv => ReportedOnce
  BY DEF MonitorInv, ReportedOnce
<1> QED
  BY <1>1, MonitorStarts, MonitorKeeps, PTL DEF Spec

\* The counter never falls below zero and is back there when no call is in progress.
THEOREM NodeCounterReturns == Spec => [](depth \in Nat /\ (depth = 0 <=> open = {}))
<1>1. MonitorInv => depth \in Nat /\ (depth = 0 <=> open = {})
  BY DepthZero DEF MonitorInv
<1> QED
  BY <1>1, MonitorStarts, MonitorKeeps, PTL DEF Spec

-----------------------------------------------------------------------------
(* A chunk of the ring in the memory of an x86.                            *)

\* The stores that fill a chunk, in program order: the k-th of them.
Filled == 3 + NReaders
ByteOf(k) == IF k = 1 THEN Ring!Written ELSE IF k \in {2, 3} THEN Ring!Half(k - 1) ELSE Ring!Flag(k - 3)
ValOf(k)  == IF k \in {2, 3} THEN sent + 1 ELSE 0

\* While a chunk is filled: stores made, and those of them that are visible.
Filling == wpc \in {"mark", "lo", "hi", "reset", "fence"}
Made ==
  CASE wpc = "mark"  -> 0
    [] wpc = "lo"    -> 1
    [] wpc = "hi"    -> 2
    [] wpc = "reset" -> 2 + wi
    [] OTHER         -> Filled
Seen == Made - Len(buf)

\* The message published last.
Publishing == wpc = "commit" \/ (wpc = "publish" /\ buf # << >>)
Published  == IF wpc = "publish" /\ buf = << >> THEN sent + 1 ELSE sent

RingShapes ==
  /\ mem \in [Ring!Bytes -> Nat] /\ sent \in Nat
  /\ buf \in Seq([byte : Ring!Bytes, val : Nat])
  /\ wpc \in {"check", "mark", "lo", "hi", "reset", "fence", "commit", "publish"}
  /\ wi \in Ring!Readers /\ (wpc # "reset" => wi = 1)
  /\ loads = [r \in Ring!Readers |-> loads[r]]
  /\ taken \in [Ring!Readers -> Nat] /\ got \in [Ring!Readers -> Nat \X Nat]
  /\ mem[Ring!Written] \in {0, 1} /\ \A r \in Ring!Readers : mem[Ring!Flag(r)] \in {0, 1}

\* The store buffer holds the stores that are not visible, the others are.
BufferInv ==
  /\ Filling =>
       /\ Seen \in 0..Made
       /\ \A i \in 1..Len(buf) :
            buf[i] = [byte |-> ByteOf(Seen + i), val |-> ValOf(Seen + i)]
       /\ \A k \in 1..Seen : mem[ByteOf(k)] = ValOf(k)
  /\ wpc \in {"check", "commit"} => buf = << >>
  /\ wpc = "publish" => \/ buf = <<[byte |-> Ring!Written, val |-> 1]>>
                        \/ buf = << >> /\ mem[Ring!Written] = 1
  /\ Publishing => \A k \in 1..Filled : mem[ByteOf(k)] = ValOf(k)

\* A chunk marked as written holds the last message, and the read flags say who took
\* it; unmarked, or on its way to be, it is one that everybody is done with.
ChunkInv ==
  /\ mem[Ring!Written] = 1 =>
       /\ \A h \in 1..2 : mem[Ring!Half(h)] = Published
       /\ \A r \in Ring!Readers : taken[r] + 1 = Published + mem[Ring!Flag(r)]
  /\ mem[Ring!Written] = 0 \/ Filling \/ Publishing =>
       \A r \in Ring!Readers : taken[r] = sent

\* A reader that found its flag clear and the chunk written is one the writer waits
\* for, so what it loads after that is the message: in this order of the two loads.
Loaded(r, b, x) == b \in DOMAIN loads[r] /\ loads[r][b] = x

LoadsOf(r) ==
  /\ Ring!Written \in DOMAIN loads[r] => Ring!Flag(r) \in DOMAIN loads[r]
  /\ \A h \in 1..2 : Ring!Half(h) \in DOMAIN loads[r] => Ring!Written \in DOMAIN loads[r]
  /\ Loaded(r, Ring!Flag(r), 0) => mem[Ring!Flag(r)] = 0
  /\ Loaded(r, Ring!Flag(r), 0) /\ Loaded(r, Ring!Written, 1) =>
       /\ mem[Ring!Written] = 1
       /\ \A h \in 1..2 : Ring!Half(h) \in DOMAIN loads[r] =>
            Loaded(r, Ring!Half(h), Published)

LoadsInv == \A r \in Ring!Readers : LoadsOf(r)

RingInv == RingShapes /\ BufferInv /\ ChunkInv /\ LoadsInv /\ Ring!AcceptedWhole

LEMMA RingBytes ==
  ASSUME NodeAssumption
  PROVE  /\ NReaders \in Nat \ {0}
         /\ Ring!Written \in Ring!Bytes /\ 1 \in Ring!Readers
         /\ \A h \in 1..2 : Ring!Half(h) \in Ring!Bytes /\ Ring!Half(h) # Ring!Written
         /\ Ring!Half(1) # Ring!Half(2)
         /\ \A r \in Ring!Readers :
              /\ Ring!Flag(r) \in Ring!Bytes /\ Ring!Flag(r) # Ring!Written
              /\ \A h \in 1..2 : Ring!Flag(r) # Ring!Half(h)
              /\ \A s \in Ring!Readers : s # r => Ring!Flag(r) # Ring!Flag(s)
<1>1. NReaders \in Nat \ {0}
  BY DEF NodeAssumption, Ring!FenceAssumption
<1> QED
  BY <1>1 DEF Ring!Written, Ring!Bytes, Ring!Half, Ring!Flag, Ring!Readers

LEMMA StoresDiffer ==
  ASSUME NodeAssumption, NEW k \in 1..Filled
  PROVE  /\ ByteOf(k) \in Ring!Bytes
         /\ \A j \in 1..Filled : j # k => ByteOf(j) # ByteOf(k)
<1>1. k = 1 \/ k = 2 \/ k = 3 \/ (k - 3 \in Ring!Readers /\ k > 3)
  BY RingBytes DEF Filled, Ring!Readers
<1>2. \A j \in 1..Filled : j = 1 \/ j = 2 \/ j = 3 \/ (j - 3 \in Ring!Readers /\ j > 3)
  BY RingBytes DEF Filled, Ring!Readers
<1>3. Filled \in Nat
  BY RingBytes DEF Filled
<1> QED
  BY <1>1, <1>2, <1>3, RingBytes DEF ByteOf

LEMMA RingStarts ==
  ASSUME NodeAssumption, Init
  PROVE  RingInv
<1> USE RingBytes DEF Init, Ring!Init
<1>1. RingShapes
  BY DEF RingShapes
<1>2. BufferInv
  BY DEF BufferInv, Filling, Publishing
<1>3. ChunkInv
  BY DEF ChunkInv, Filling, Publishing
<1>4. LoadsInv
  BY DEF LoadsInv, LoadsOf, Loaded, Ring!LoadOrder
<1> QED
  BY <1>1, <1>2, <1>3, <1>4 DEF RingInv, Ring!AcceptedWhole

\* The writer makes the next store of a chunk.
LEMMA StoreMade ==
  ASSUME NodeAssumption, RingInv, Filling,
         Ring!Store(ByteOf(Made + 1), ValOf(Made + 1)), Made' = Made + 1,
         Made \in Nat, Made + 1 <= Filled, Filling',
         UNCHANGED <<mem, sent, loads, taken, got>>, wi' \in Ring!Readers,
         wpc' # "reset" => wi' = 1
  PROVE  RingInv'
<1> DEFINE k1 == Made + 1
<1>1. ByteOf(Made + 1) \in Ring!Bytes /\ ValOf(Made + 1) \in Nat
  <2>1. k1 \in 1..Filled
    BY DEF Filled
  <2> HIDE DEF k1
  <2>2. ByteOf(k1) \in Ring!Bytes
    BY <2>1, StoresDiffer
  <2>3. sent \in Nat
    BY DEF RingInv, RingShapes
  <2>4. ValOf(k1) \in Nat
    BY <2>3 DEF ValOf
  <2> QED BY <2>2, <2>4 DEF k1
<1>2. /\ buf' \in Seq([byte : Ring!Bytes, val : Nat])
      /\ Len(buf') = Len(buf) + 1
      /\ \A i \in 1..Len(buf) : buf'[i] = buf[i]
      /\ buf'[Len(buf) + 1] = [byte |-> ByteOf(Made + 1), val |-> ValOf(Made + 1)]
  BY <1>1 DEF Ring!Store, RingInv, RingShapes
<1>3. Seen' = Seen /\ Seen \in 0..Made /\ Len(buf) \in Nat
  <2>1. Len(buf) \in Nat
    BY DEF RingInv, RingShapes
  <2>2. Seen \in 0..Made
    BY DEF RingInv, BufferInv
  <2> QED BY <1>2, <2>1, <2>2 DEF Seen
<1>4. \A k : ByteOf(k)' = ByteOf(k) /\ ValOf(k)' = ValOf(k)
  BY DEF ByteOf, ValOf
<1>5. \A i \in 1..(Len(buf) + 1) :
        buf'[i] = [byte |-> ByteOf(Seen + i), val |-> ValOf(Seen + i)]
  <2>1. Seen + (Len(buf) + 1) = Made + 1
    BY <1>3 DEF Seen
  <2>2. \A i \in 1..Len(buf) :
          buf'[i] = [byte |-> ByteOf(Seen + i), val |-> ValOf(Seen + i)]
    BY <1>2 DEF RingInv, BufferInv
  <2>3. \A i \in 1..(Len(buf) + 1) : i \in 1..Len(buf) \/ i = Len(buf) + 1
    BY <1>3
  <2>4. buf'[Len(buf) + 1] =
          [byte |-> ByteOf(Seen + (Len(buf) + 1)), val |-> ValOf(Seen + (Len(buf) + 1))]
    BY <1>2, <2>1
  <2> QED BY <2>2, <2>3, <2>4
<1>6. BufferInv'
  <2>1. \A i \in 1..Len(buf') : i \in 1..(Len(buf) + 1)
    BY <1>2, <1>3
  <2>2. \A k \in 1..Seen : mem[ByteOf(k)] = ValOf(k)
    BY DEF RingInv, BufferInv
  <2> QED BY <1>2, <1>3, <1>4, <1>5, <2>1, <2>2 DEF BufferInv, Filling, Publishing
<1>7. RingShapes'
  BY <1>2 DEF RingInv, RingShapes, Filling
<1>8. Published' = Published
  BY DEF Published, Filling
<1>9. ChunkInv' /\ LoadsInv'
  BY <1>8 DEF RingInv, ChunkInv, LoadsInv, LoadsOf, Loaded, Filling, Publishing
<1> QED
  BY <1>6, <1>7, <1>9 DEF RingInv, Ring!AcceptedWhole

LEMMA WriterKeeps ==
  ASSUME NodeAssumption, RingInv, Ring!WriterStep
  PROVE  RingInv'
<1> USE RingBytes
<1>1. CASE Ring!WCheck
  <2>1. \A r \in Ring!Readers : taken[r] = sent
    BY <1>1 DEF Ring!WCheck, RingInv, ChunkInv, Published, RingShapes
  <2>2. Filling' /\ ~Publishing' /\ Made' = 0 /\ Published' = Published /\ Seen' = 0
    <3>1. buf = << >> /\ buf' = << >> /\ wpc' = "mark"
      BY <1>1 DEF Ring!WCheck, RingInv, BufferInv
    <3>2. Made' = 0 /\ Filling' /\ ~Publishing'
      BY <3>1 DEF Made, Filling, Publishing
    <3>3. Published' = Published
      BY <1>1, <3>1 DEF Ring!WCheck, Published
    <3>4. Len(buf') = 0
      BY <3>1
    <3> QED BY <3>2, <3>3, <3>4 DEF Seen
  <2>3. RingShapes' /\ BufferInv'
    BY <1>1, <2>2 DEF Ring!WCheck, RingInv, RingShapes, BufferInv, Ring!readerVars
  <2>4. ChunkInv' /\ LoadsInv'
    BY <1>1, <2>1, <2>2 DEF Ring!WCheck, RingInv, ChunkInv, LoadsInv, LoadsOf, Loaded, Ring!readerVars
  <2> QED
    BY <1>1, <2>3, <2>4 DEF RingInv, Ring!AcceptedWhole, Ring!WCheck, Ring!readerVars
<1>2. CASE Ring!WStore("mark", "lo", Ring!Written, 0)
  <2>1. Made = 0 /\ Made' = 1 /\ Filling /\ Filling'
    BY <1>2 DEF Ring!WStore, Made, Filling
  <2>2. Made + 1 = 1 /\ ByteOf(1) = Ring!Written /\ ValOf(1) = 0
    BY <2>1 DEF ByteOf, ValOf
  <2>3. Ring!Store(ByteOf(Made + 1), ValOf(Made + 1)) /\ Made' = Made + 1
    BY <1>2, <2>1, <2>2 DEF Ring!WStore
  <2>4. /\ UNCHANGED <<mem, sent, loads, taken, got>>
        /\ wi' \in Ring!Readers /\ (wpc' # "reset" => wi' = 1)
    BY <1>2 DEF Ring!WStore, Ring!readerVars, RingInv, RingShapes
  <2>5. Made \in Nat /\ Made + 1 <= Filled
    BY <2>1 DEF Filled
  <2> QED
    BY <2>1, <2>3, <2>4, <2>5, StoreMade
<1>3. CASE Ring!WStore("lo", "hi", Ring!Half(1), sent + 1)
  <2>1. Made = 1 /\ Made' = 2 /\ Filling /\ Filling'
    BY <1>3 DEF Ring!WStore, Made, Filling
  <2>2. Made + 1 = 2 /\ ByteOf(2) = Ring!Half(1) /\ ValOf(2) = sent + 1
    BY <2>1 DEF ByteOf, ValOf
  <2>3. Ring!Store(ByteOf(Made + 1), ValOf(Made + 1)) /\ Made' = Made + 1
    BY <1>3, <2>1, <2>2 DEF Ring!WStore
  <2>4. /\ UNCHANGED <<mem, sent, loads, taken, got>>
        /\ wi' \in Ring!Readers /\ (wpc' # "reset" => wi' = 1)
    BY <1>3 DEF Ring!WStore, Ring!readerVars, RingInv, RingShapes
  <2>5. Made \in Nat /\ Made + 1 <= Filled
    BY <2>1 DEF Filled
  <2> QED
    BY <2>1, <2>3, <2>4, <2>5, StoreMade
<1>4. CASE Ring!WStore("hi", "reset", Ring!Half(2), sent + 1)
  <2>1. Made = 2 /\ Made' = 3 /\ Filling /\ Filling'
    BY <1>4 DEF Ring!WStore, Made, Filling, RingInv, RingShapes
  <2>2. Made + 1 = 3 /\ ByteOf(3) = Ring!Half(2) /\ ValOf(3) = sent + 1
    BY <2>1 DEF ByteOf, ValOf
  <2>3. Ring!Store(ByteOf(Made + 1), ValOf(Made + 1)) /\ Made' = Made + 1
    BY <1>4, <2>1, <2>2 DEF Ring!WStore
  <2>4. /\ UNCHANGED <<mem, sent, loads, taken, got>>
        /\ wi' \in Ring!Readers /\ (wpc' # "reset" => wi' = 1)
    BY <1>4 DEF Ring!WStore, Ring!readerVars, RingInv, RingShapes
  <2>5. Made \in Nat /\ Made + 1 <= Filled
    BY <2>1 DEF Filled
  <2> QED
    BY <2>1, <2>3, <2>4, <2>5, StoreMade
<1>5. CASE Ring!WReset
  <2>1. wi \in 1..NReaders
    BY DEF RingInv, RingShapes, Ring!Readers
  <2>2. Made = 2 + wi /\ Made' = 3 + wi /\ Filling /\ Filling'
    BY <1>5, <2>1 DEF Ring!WReset, Made, Filling, Filled
  <2>3. ByteOf(3 + wi) = Ring!Flag(wi) /\ ValOf(3 + wi) = 0
    BY <2>1 DEF ByteOf, ValOf
  <2>4. wi' \in Ring!Readers /\ (wpc' # "reset" => wi' = 1)
    BY <1>5, <2>1 DEF Ring!WReset, Ring!Readers
  <2>5. Ring!Store(ByteOf(Made + 1), ValOf(Made + 1)) /\ Made' = Made + 1
    BY <1>5, <2>1, <2>2, <2>3 DEF Ring!WReset
  <2>6. Made \in Nat /\ Made + 1 <= Filled
    BY <2>1, <2>2 DEF Filled
  <2> QED
    BY <1>5, <2>2, <2>4, <2>5, <2>6, StoreMade DEF Ring!WReset, Ring!readerVars
<1>6. CASE Ring!WFence("fence", "commit")
  <2>1. Seen = Filled /\ Filling /\ ~Filling' /\ Publishing' /\ Published' = Published
    BY <1>6 DEF Ring!WFence, Seen, Made, Filling, Publishing, Published, Filled
  <2>2. \A k : ByteOf(k)' = ByteOf(k) /\ ValOf(k)' = ValOf(k)
    BY <1>6 DEF ByteOf, ValOf, Ring!WFence
  <2>3. RingShapes'
    BY <1>6, <2>1 DEF Ring!WFence, RingInv, RingShapes, Ring!readerVars
  <2>5. BufferInv'
    BY <1>6, <2>1, <2>2 DEF Ring!WFence, RingInv, BufferInv
  <2>4. ChunkInv' /\ LoadsInv'
    BY <1>6, <2>1 DEF Ring!WFence, RingInv, ChunkInv, LoadsInv, LoadsOf, Loaded, Ring!readerVars
  <2> QED
    BY <1>6, <2>3, <2>4, <2>5 DEF RingInv, Ring!AcceptedWhole, Ring!WFence, Ring!readerVars
<1>7. CASE Ring!WStore("commit", "publish", Ring!Written, 1)
  <2>1. buf = << >> /\ buf' = <<[byte |-> Ring!Written, val |-> 1]>>
    BY <1>7 DEF Ring!WStore, Ring!Store, RingInv, BufferInv
  <2>2. Publishing /\ Publishing' /\ ~Filling /\ ~Filling' /\ Published' = Published
    BY <1>7, <2>1 DEF Ring!WStore, Filling, Publishing, Published
  <2>3. \A k : ByteOf(k)' = ByteOf(k) /\ ValOf(k)' = ValOf(k)
    BY <1>7 DEF ByteOf, ValOf, Ring!WStore
  <2>4. RingShapes'
    BY <1>7, <2>1 DEF Ring!WStore, RingInv, RingShapes, Ring!readerVars
  <2>5. BufferInv'
    BY <1>7, <2>1, <2>2, <2>3 DEF Ring!WStore, RingInv, BufferInv, Filled
  <2>6. ChunkInv' /\ LoadsInv'
    BY <1>7, <2>2 DEF Ring!WStore, RingInv, ChunkInv, LoadsInv, LoadsOf, Loaded, Ring!readerVars
  <2> QED
    BY <1>7, <2>4, <2>5, <2>6 DEF RingInv, Ring!AcceptedWhole, Ring!WStore, Ring!readerVars
<1>8. CASE Ring!WFence("publish", "check")
  <2>1. Published = sent + 1 /\ Published' = sent + 1 /\ sent' = sent + 1
    BY <1>8 DEF Ring!WFence, Published
  <2>2. ~Filling' /\ ~Publishing' /\ buf' = << >> /\ wpc' = "check"
    BY <1>8 DEF Ring!WFence, Filling, Publishing
  <2>6. RingShapes'
    BY <1>8, <2>1, <2>2 DEF Ring!WFence, RingInv, RingShapes, Ring!readerVars
  <2>3. BufferInv'
    BY <1>8, <2>1, <2>2 DEF Ring!WFence, RingInv, RingShapes, BufferInv, Ring!readerVars
  <2>4. mem[Ring!Written] = 1 /\ mem[Ring!Written] # 0
    BY <1>8 DEF Ring!WFence, RingInv, BufferInv
  <2>5. ChunkInv' /\ LoadsInv'
    BY <1>8, <2>1, <2>2, <2>4 DEF Ring!WFence, RingInv, RingShapes, ChunkInv, LoadsInv,
       LoadsOf, Loaded, Ring!readerVars
  <2> QED
    BY <1>8, <2>3, <2>5, <2>6 DEF RingInv, Ring!AcceptedWhole, Ring!WFence, Ring!readerVars
<1> QED
  BY <1>1, <1>2, <1>3, <1>4, <1>5, <1>6, <1>7, <1>8 DEF Ring!WriterStep

\* A sequence without its first element, as Drain writes it.
LEMMA Oldest ==
  ASSUME NEW S, NEW q \in Seq(S), q # << >>,
         NEW t, t = SubSeq(q, 1, 0) \o SubSeq(q, 2, Len(q))
  PROVE  /\ Len(q) \in Nat \ {0} /\ q[1] \in S
         /\ t \in Seq(S) /\ Len(t) = Len(q) - 1
         /\ \A j \in 1..Len(t) : t[j] = q[j + 1]
<1>1. Len(q) \in Nat \ {0} /\ q[1] \in S
  OBVIOUS
<1>2. SubSeq(q, 1, 0) = << >>
  BY SubSeqEmpty
<1>3. SubSeq(q, 2, Len(q)) = Tail(q)
  BY TailIsSubSeq
<1>4. Tail(q) \in Seq(S) /\ t = Tail(q)
  BY <1>2, <1>3, HeadTailProperties
<1> QED BY <1>1, <1>4, HeadTailProperties

\* A clear flag and a written chunk are not loaded while the writer has the chunk.
LEMMA WritersChunk ==
  ASSUME RingInv, Filling \/ Publishing, NEW r \in Ring!Readers
  PROVE  ~(Loaded(r, Ring!Flag(r), 0) /\ Loaded(r, Ring!Written, 1))
<1> SUFFICES ASSUME Loaded(r, Ring!Flag(r), 0), Loaded(r, Ring!Written, 1)
             PROVE  FALSE
  OBVIOUS
<1>1. mem[Ring!Flag(r)] = 0 /\ mem[Ring!Written] = 1
  BY DEF RingInv, LoadsInv, LoadsOf
<1>2. taken[r] + 1 = Published + 0 /\ taken[r] = sent
  BY <1>1 DEF RingInv, ChunkInv
<1>3. taken[r] \in Nat /\ Published = sent
  BY DEF RingInv, RingShapes, Published, Filling, Publishing
<1> QED BY <1>2, <1>3

\* The oldest store of the buffer becomes visible.
LEMMA DrainKeeps ==
  ASSUME NodeAssumption, RingInv, NEW i \in 1..Len(buf), Ring!Drain(i)
  PROVE  RingInv'
<1> DEFINE S == [byte : Ring!Bytes, val : Nat]
<1>0. i = 1 /\ buf \in Seq(S) /\ buf # << >>
  BY DEF Ring!Drain, RingInv, RingShapes
<1>1. /\ mem' = [mem EXCEPT ![buf[1].byte] = buf[1].val]
      /\ buf' = SubSeq(buf, 1, 0) \o SubSeq(buf, 2, Len(buf))
      /\ UNCHANGED <<wpc, wi, sent, loads, taken, got>>
  BY <1>0 DEF Ring!Drain, Ring!readerVars
<1>2. /\ buf' \in Seq([byte : Ring!Bytes, val : Nat])
      /\ Len(buf) \in Nat \ {0} /\ Len(buf') = Len(buf) - 1
      /\ buf[1] \in [byte : Ring!Bytes, val : Nat]
      /\ \A j \in 1..Len(buf') : buf'[j] = buf[j + 1]
  <2> HIDE DEF S
  <2>1. /\ Len(buf) \in Nat \ {0} /\ buf[1] \in S
        /\ buf' \in Seq(S) /\ Len(buf') = Len(buf) - 1
        /\ \A j \in 1..Len(buf') : buf'[j] = buf[j + 1]
    BY <1>0, <1>1, Oldest
  <2> QED BY <2>1 DEF S
<1> HIDE DEF S
<1>3. mem \in [Ring!Bytes -> Nat] /\ mem' \in [Ring!Bytes -> Nat]
  BY <1>1, <1>2 DEF RingInv, RingShapes
<1>4. \A k : ByteOf(k)' = ByteOf(k) /\ ValOf(k)' = ValOf(k)
  BY <1>1 DEF ByteOf, ValOf
<1>5. CASE Filling
  <2> DEFINE k1 == Seen + 1
  <2>1. Made \in Nat /\ Made <= Filled /\ Made' = Made /\ Filled \in Nat
    <3>1. NReaders \in Nat \ {0} /\ wi \in 1..NReaders
      BY RingBytes DEF RingInv, RingShapes, Ring!Readers
    <3>2. Made' = Made
      BY <1>1 DEF Made, Filled
    <3> QED BY <3>1, <3>2 DEF Made, Filled
  <2>2. Seen \in Nat /\ Seen' = k1 /\ k1 \in 1..Made /\ k1 \in 1..Filled
    <3>1. Seen \in 0..Made
      BY <1>5 DEF RingInv, BufferInv
    <3> QED BY <1>2, <2>1, <3>1 DEF Seen
  <2>3. buf[1] = [byte |-> ByteOf(k1), val |-> ValOf(k1)]
    BY <1>2, <1>5 DEF RingInv, BufferInv
  <2>4. \A j \in 1..Len(buf') : buf'[j] = [byte |-> ByteOf(k1 + j), val |-> ValOf(k1 + j)]
    <3>1. \A j \in 1..Len(buf') : j + 1 \in 1..Len(buf) /\ Seen + (j + 1) = k1 + j
      BY <1>2, <2>2
    <3>2. \A j \in 1..Len(buf) :
            buf[j] = [byte |-> ByteOf(Seen + j), val |-> ValOf(Seen + j)]
      BY <1>5 DEF RingInv, BufferInv
    <3> HIDE DEF k1
    <3> QED BY <1>2, <3>1, <3>2
  <2>5. Filling' /\ ~Publishing /\ ~Publishing' /\ wpc' = wpc
    BY <1>1, <1>5 DEF Filling, Publishing
  <2>6. Published = sent /\ Published' = sent /\ \A r \in Ring!Readers : taken[r] = sent
    BY <1>1, <1>5 DEF Filling, Published, RingInv, ChunkInv
  <2>7. \A k \in 1..Seen : mem[ByteOf(k)] = ValOf(k)
    BY <1>5 DEF RingInv, BufferInv
  <2>8. k1 # 1 => mem[Ring!Written] = 0
    <3>1. ByteOf(1) = Ring!Written /\ ValOf(1) = 0
      BY DEF ByteOf, ValOf
    <3> QED BY <2>2, <2>7, <3>1
  <2> HIDE DEF k1
  <2>9. /\ mem'[ByteOf(k1)] = ValOf(k1)
        /\ \A b \in Ring!Bytes : b # ByteOf(k1) => mem'[b] = mem[b]
    BY <1>1, <1>3, <2>2, <2>3, StoresDiffer
  <2>10. \A k \in 1..k1 : mem'[ByteOf(k)] = ValOf(k)
    <3>1. \A k \in 1..k1 : k \in 1..Filled /\ (k \in 1..Seen \/ k = k1)
      BY <2>1, <2>2 DEF k1
    <3> QED BY <2>2, <2>7, <2>9, <3>1, StoresDiffer
  <2>11. BufferInv'
    <3>1. /\ Seen' \in 0..Made'
          /\ \A j \in 1..Len(buf') :
               buf'[j] = [byte |-> ByteOf(Seen' + j), val |-> ValOf(Seen' + j)]
          /\ \A k \in 1..Seen' : mem'[ByteOf(k)] = ValOf(k)
      BY <2>1, <2>2, <2>4, <2>10
    <3> QED BY <1>4, <2>5, <3>1 DEF BufferInv, Filling
  <2>12. /\ mem'[Ring!Written] = 0
         /\ \A r \in Ring!Readers : mem'[Ring!Flag(r)] \in {0, mem[Ring!Flag(r)]}
    <3>1. CASE k1 = 1
      BY <2>9, <3>1, RingBytes DEF ByteOf, ValOf
    <3>2. CASE k1 \in {2, 3}
      BY <2>8, <2>9, <3>2, RingBytes DEF ByteOf, ValOf
    <3>3. CASE k1 > 3
      <4>1. k1 - 3 \in Ring!Readers
        BY <2>2, <3>3, RingBytes DEF Filled, Ring!Readers
      <4>2. ByteOf(k1) = Ring!Flag(k1 - 3) /\ ValOf(k1) = 0
        BY <2>2, <3>3 DEF ByteOf, ValOf
      <4>3. ASSUME NEW r \in Ring!Readers PROVE mem'[Ring!Flag(r)] \in {0, mem[Ring!Flag(r)]}
        BY <2>9, <4>2, RingBytes
      <4>4. mem'[Ring!Written] = 0
        BY <2>2, <2>8, <2>9, <3>3, <4>1, <4>2, RingBytes
      <4> QED BY <4>3, <4>4
    <3> QED BY <2>2, <3>1, <3>2, <3>3
  <2>13. RingShapes'
    BY <1>1, <1>2, <1>3, <2>12 DEF RingInv, RingShapes
  <2>14. ChunkInv'
    BY <1>1, <2>6, <2>12 DEF ChunkInv
  <2>15. \A r \in Ring!Readers :
           ~(Loaded(r, Ring!Flag(r), 0) /\ Loaded(r, Ring!Written, 1))
    BY <1>5, WritersChunk
  <2>16. LoadsInv'
    BY <1>1, <2>12, <2>15 DEF RingInv, LoadsInv, LoadsOf, Loaded
  <2> QED
    BY <1>1, <2>11, <2>13, <2>14, <2>16 DEF RingInv, Ring!AcceptedWhole
<1>6. CASE ~Filling
  <2>1. wpc = "publish" /\ buf = <<[byte |-> Ring!Written, val |-> 1]>> /\ wpc' = "publish"
    BY <1>1, <1>6 DEF Filling, RingInv, RingShapes, BufferInv
  <2>2. Publishing /\ ~Publishing' /\ ~Filling' /\ buf' = << >>
    BY <1>2, <2>1 DEF Publishing, Filling
  <2>3. Published' = sent + 1 /\ \A r \in Ring!Readers : taken[r] = sent
    BY <1>1, <2>1, <2>2 DEF Published, RingInv, ChunkInv
  <2>4. /\ mem[Ring!Written] = 0
        /\ \A h \in 1..2 : mem[Ring!Half(h)] = sent + 1
        /\ \A r \in Ring!Readers : mem[Ring!Flag(r)] = 0
    <3>1. \A k \in 1..Filled : mem[ByteOf(k)] = ValOf(k)
      BY <2>2 DEF RingInv, BufferInv
    <3>2. \A r \in Ring!Readers : r + 3 \in 1..Filled /\ r + 3 > 3 /\ (r + 3) - 3 = r
      BY RingBytes DEF Filled, Ring!Readers
    <3>3. 1 \in 1..Filled /\ 2 \in 1..Filled /\ 3 \in 1..Filled
      BY RingBytes DEF Filled
    <3>4. mem[Ring!Written] = 0 /\ \A h \in 1..2 : mem[Ring!Half(h)] = sent + 1
      BY <3>1, <3>3 DEF ByteOf, ValOf
    <3>5. ASSUME NEW r \in Ring!Readers PROVE mem[Ring!Flag(r)] = 0
      <4>1. ByteOf(r + 3) = Ring!Flag(r) /\ ValOf(r + 3) = 0
        BY <3>2 DEF ByteOf, ValOf, Ring!Readers
      <4> QED BY <3>1, <3>2, <4>1
    <3> QED BY <3>4, <3>5
  <2>5. /\ mem'[Ring!Written] = 1
        /\ \A b \in Ring!Bytes : b # Ring!Written => mem'[b] = mem[b]
    BY <1>1, <1>3, <2>1, RingBytes
  <2>6. /\ \A h \in 1..2 : mem'[Ring!Half(h)] = sent + 1
        /\ \A r \in Ring!Readers : mem'[Ring!Flag(r)] = 0
    BY <2>4, <2>5, RingBytes
  <2>7. RingShapes'
    BY <1>1, <1>2, <1>3, <2>5, <2>6 DEF RingInv, RingShapes
  <2>8. BufferInv'
    BY <2>1, <2>2, <2>5 DEF BufferInv
  <2>9. ChunkInv'
    <3>1. sent' = sent /\ taken' = taken /\ sent \in Nat
      BY <1>1 DEF RingInv, RingShapes
    <3> QED BY <2>2, <2>3, <2>5, <2>6, <3>1 DEF ChunkInv
  <2>10. LoadsInv'
    BY <1>1, <2>4, <2>6 DEF RingInv, LoadsInv, LoadsOf, Loaded
  <2> QED
    BY <1>1, <2>7, <2>8, <2>9, <2>10 DEF RingInv, Ring!AcceptedWhole
<1> QED
  BY <1>5, <1>6

\* What a load or a retry of a reader does not touch.
LEMMA OthersKept ==
  ASSUME RingInv, UNCHANGED <<mem, buf, wpc, wi, sent, taken, got>>,
         loads' = [r \in Ring!Readers |-> loads'[r]]
  PROVE  RingShapes' /\ ChunkInv' /\ BufferInv' /\ Published' = Published
<1>1. RingShapes'
  BY DEF RingInv, RingShapes
<1>2. /\ Filling' = Filling /\ Publishing' = Publishing /\ Published' = Published
      /\ Seen' = Seen /\ Made' = Made
      /\ \A k : ByteOf(k)' = ByteOf(k) /\ ValOf(k)' = ValOf(k)
  BY DEF Filling, Publishing, Published, Seen, Made, ByteOf, ValOf, Filled
<1>3. ChunkInv' /\ BufferInv'
  BY <1>2 DEF RingInv, ChunkInv, BufferInv
<1> QED BY <1>1, <1>2, <1>3

LEMMA ReaderKeeps ==
  ASSUME NodeAssumption, RingInv, NEW r \in Ring!Readers, Ring!ReaderStep(r)
  PROVE  RingInv'
<1>1. ASSUME NEW k \in 1..4, Ring!Load(r, k) PROVE RingInv'
  <2> DEFINE b == Ring!LoadOrder(r)[k]
  <2>1. /\ b \notin DOMAIN loads[r]
        /\ \A j \in 1..(k - 1) : Ring!LoadOrder(r)[j] \in DOMAIN loads[r]
        /\ loads' = [loads EXCEPT ![r] =
             [x \in DOMAIN @ \cup {b} |-> IF x = b THEN mem[b] ELSE @[x]]]
        /\ UNCHANGED <<mem, buf, wpc, wi, sent, taken, got>>
    BY <1>1 DEF Ring!Load
  <2>2. /\ \A s \in Ring!Readers \ {r} : loads'[s] = loads[s]
        /\ DOMAIN loads'[r] = DOMAIN loads[r] \cup {b}
        /\ loads'[r][b] = mem[b]
        /\ \A x \in DOMAIN loads[r] : loads'[r][x] = loads[r][x]
        /\ loads' = [s \in Ring!Readers |-> loads'[s]]
    BY <2>1 DEF RingInv, RingShapes
  <2> HIDE DEF b
  <2>3. RingShapes' /\ ChunkInv' /\ BufferInv' /\ Published' = Published
    BY <2>1, <2>2, OthersKept
  <2>4. ASSUME NEW s \in Ring!Readers \ {r} PROVE LoadsOf(s)'
    BY <2>1, <2>2, <2>3 DEF RingInv, LoadsInv, LoadsOf, Loaded
  <2>5. ASSUME k = 1 PROVE LoadsOf(r)'
    <3>1. b = Ring!Flag(r) /\ \A x \in {Ring!Written, Ring!Half(1), Ring!Half(2)} :
                                x # b /\ x \notin DOMAIN loads[r]
      BY <2>1, <2>5, RingBytes DEF b, Ring!LoadOrder, RingInv, LoadsInv, LoadsOf
    <3>2. \A x \in {Ring!Written, Ring!Half(1), Ring!Half(2)} : x \notin DOMAIN loads'[r]
      BY <2>2, <3>1
    <3> QED BY <2>1, <2>2, <3>1, <3>2 DEF LoadsOf, Loaded
  <2>6. ASSUME k = 2 PROVE LoadsOf(r)'
    <3>1. /\ b = Ring!Written /\ b # Ring!Flag(r) /\ Ring!Flag(r) \in DOMAIN loads[r]
          /\ \A h \in 1..2 : Ring!Half(h) # b /\ Ring!Half(h) \notin DOMAIN loads[r]
      BY <2>1, <2>6, RingBytes DEF b, Ring!LoadOrder, RingInv, LoadsInv, LoadsOf
    <3>2. \A h \in 1..2 : Ring!Half(h) \notin DOMAIN loads'[r]
      BY <2>2, <3>1
    <3> QED BY <2>1, <2>2, <3>1, <3>2 DEF RingInv, LoadsInv, LoadsOf, Loaded
  <2>7. ASSUME k \in {3, 4} PROVE LoadsOf(r)'
    <3>1. PICK g \in 1..2 : b = Ring!Half(g)
      BY <2>7 DEF b, Ring!LoadOrder
    <3>2. /\ b # Ring!Flag(r) /\ b # Ring!Written
          /\ Ring!Flag(r) \in DOMAIN loads[r] /\ Ring!Written \in DOMAIN loads[r]
      BY <2>1, <2>7, <3>1, RingBytes DEF Ring!LoadOrder
    <3>3. mem[Ring!Written] = 1 => mem[b] = Published
      BY <3>1 DEF RingInv, ChunkInv
    <3>4. LoadsOf(r)
      BY DEF RingInv, LoadsInv
    <3> QED BY <2>1, <2>2, <2>3, <3>2, <3>3, <3>4 DEF LoadsOf, Loaded
  <2>10. LoadsInv'
    BY <2>4, <2>5, <2>6, <2>7 DEF LoadsInv
  <2> QED
    BY <2>1, <2>3, <2>10 DEF RingInv, Ring!AcceptedWhole
<1>2. CASE Ring!Retry(r)
  <2>1. /\ loads' = [loads EXCEPT ![r] = << >>]
        /\ UNCHANGED <<mem, buf, wpc, wi, sent, taken, got>>
    BY <1>2 DEF Ring!Retry
  <2>2. /\ \A s \in Ring!Readers \ {r} : loads'[s] = loads[s]
        /\ loads'[r] = << >>
        /\ loads' = [s \in Ring!Readers |-> loads'[s]]
    BY <2>1 DEF RingInv, RingShapes
  <2>3. RingShapes' /\ ChunkInv' /\ BufferInv' /\ Published' = Published
    BY <2>1, <2>2, OthersKept
  <2>4. ASSUME NEW s \in Ring!Readers PROVE LoadsOf(s)'
    BY <2>1, <2>2, <2>3 DEF RingInv, LoadsInv, LoadsOf, Loaded
  <2> QED
    BY <2>1, <2>3, <2>4 DEF RingInv, LoadsInv, Ring!AcceptedWhole
<1>3. CASE Ring!Accept(r)
  <2>1. /\ DOMAIN loads[r] = {Ring!LoadOrder(r)[k] : k \in 1..4} /\ Ring!Ready(r)
        /\ got' = [got EXCEPT ![r] = <<loads[r][Ring!Half(1)], loads[r][Ring!Half(2)]>>]
        /\ taken' = [taken EXCEPT ![r] = @ + 1]
        /\ mem' = [mem EXCEPT ![Ring!Flag(r)] = 1]
        /\ loads' = [loads EXCEPT ![r] = << >>]
        /\ UNCHANGED <<buf, wpc, wi, sent>>
    BY <1>3 DEF Ring!Accept
  <2>2. /\ Loaded(r, Ring!Flag(r), 0) /\ Loaded(r, Ring!Written, 1)
        /\ \A h \in 1..2 : Ring!Half(h) \in DOMAIN loads[r]
    <3>1. \A k \in 1..4 : Ring!LoadOrder(r)[k] \in DOMAIN loads[r]
      BY <2>1
    <3>2. /\ Ring!LoadOrder(r)[1] = Ring!Flag(r) /\ Ring!LoadOrder(r)[2] = Ring!Written
          /\ Ring!LoadOrder(r)[3] = Ring!Half(1) /\ Ring!LoadOrder(r)[4] = Ring!Half(2)
      BY DEF Ring!LoadOrder
    <3> QED BY <2>1, <3>1, <3>2 DEF Loaded, Ring!Ready
  <2>3. /\ mem[Ring!Flag(r)] = 0 /\ mem[Ring!Written] = 1
        /\ \A h \in 1..2 : loads[r][Ring!Half(h)] = Published
    BY <2>2 DEF RingInv, LoadsInv, LoadsOf, Loaded
  <2>4. taken[r] + 1 = Published /\ taken[r] \in Nat /\ Published \in Nat
    BY <2>3 DEF RingInv, ChunkInv, RingShapes, Published
  <2>5. /\ ~Filling /\ ~Publishing
        /\ wpc \in {"check", "publish"} /\ buf = << >>
    <3>1. ~Filling /\ ~Publishing
      BY <2>2, WritersChunk
    <3> QED BY <3>1 DEF Filling, Publishing, RingInv, RingShapes, BufferInv
  <2>6. /\ mem'[Ring!Flag(r)] = 1 /\ mem'[Ring!Written] = 1
        /\ \A h \in 1..2 : mem'[Ring!Half(h)] = mem[Ring!Half(h)]
        /\ \A s \in Ring!Readers \ {r} : mem'[Ring!Flag(s)] = mem[Ring!Flag(s)]
        /\ mem' \in [Ring!Bytes -> Nat]
    BY <2>1, <2>3, RingBytes DEF RingInv, RingShapes
  <2>7. /\ taken' \in [Ring!Readers -> Nat] /\ got' \in [Ring!Readers -> Nat \X Nat]
        /\ taken'[r] = Published /\ got'[r] = <<Published, Published>>
        /\ \A s \in Ring!Readers \ {r} : taken'[s] = taken[s] /\ got'[s] = got[s]
    BY <2>1, <2>3, <2>4 DEF RingInv, RingShapes
  <2>8. /\ loads' = [s \in Ring!Readers |-> loads'[s]] /\ loads'[r] = << >>
        /\ \A s \in Ring!Readers \ {r} : loads'[s] = loads[s]
    BY <2>1 DEF RingInv, RingShapes
  <2>9. Published' = Published /\ ~Filling' /\ ~Publishing'
    BY <2>1, <2>5 DEF Published, Filling, Publishing
  <2>10. RingShapes'
    BY <2>1, <2>6, <2>7, <2>8 DEF RingInv, RingShapes
  <2>11. BufferInv'
    BY <2>1, <2>5, <2>6, <2>9 DEF BufferInv
  <2>12. ChunkInv'
    BY <2>3, <2>4, <2>6, <2>7, <2>9 DEF RingInv, ChunkInv
  <2>13. ASSUME NEW s \in Ring!Readers PROVE LoadsOf(s)'
    BY <2>3, <2>6, <2>8, <2>9 DEF RingInv, LoadsInv, LoadsOf, Loaded
  <2> QED
    BY <2>7, <2>10, <2>11, <2>12, <2>13 DEF RingInv, LoadsInv, Ring!AcceptedWhole
<1> QED
  BY <1>1, <1>2, <1>3 DEF Ring!ReaderStep

LEMMA RingKeeps ==
  ASSUME NodeAssumption, RingInv, [Next]_vars
  PROVE  RingInv'
<1>1. Ring!Next \/ UNCHANGED ringVars
  BY DEF Next, GateNext, vars
<1>2. CASE UNCHANGED ringVars
  BY <1>2 DEF ringVars, RingInv, RingShapes, BufferInv, ChunkInv, LoadsInv, LoadsOf, Loaded,
     Filling, Publishing, Published, Seen, Made, ByteOf, ValOf, Ring!AcceptedWhole
<1> QED
  BY <1>1, <1>2, WriterKeeps, DrainKeeps, ReaderKeeps DEF Ring!Next

\* acquire_write and acquire_read on an x86, with the fences of memory_fence: a reader
\* accepts its next message, and both halves of it, for any number of readers.
THEOREM NodeAcceptedWhole ==
  ASSUME NodeAssumption
  PROVE  Spec => []AcceptedWhole
<1>1. RingInv => AcceptedWhole
  BY DEF RingInv, AcceptedWhole
<1> QED
  BY <1>1, RingStarts, RingKeeps, PTL DEF Spec

-----------------------------------------------------------------------------
(* Facts about numbers.                                                    *)

\* A set of natural numbers has a least element.
LEMMA Least ==
  ASSUME NEW T, T \subseteq Nat, T # {}
  PROVE  \E x \in T : \A y \in T : x <= y
<1> DEFINE R == {ss \in Nat \X Nat : ss[1] < ss[2]}
<1>1. IsWellFoundedOn(R, Nat)
  BY NatLessThanWellFounded DEF OpToRel
<1> HIDE DEF R
<1>2. PICK x \in T : \A y \in T : ~(<<y, x>> \in R)
  BY <1>1, WFMin
<1>3. \A y \in T : ~(y < x)
  BY <1>2 DEF R
<1> QED BY <1>3

\* A finite one has a greatest: else take the smallest that has none.
LEMMA Greatest ==
  ASSUME NEW S, S \subseteq Nat, IsFiniteSet(S), S # {}
  PROVE  \E x \in S : \A y \in S : x >= y
<1> DEFINE Bad(T) == /\ T \subseteq Nat /\ IsFiniteSet(T) /\ T # {}
                     /\ ~\E x \in T : \A y \in T : x >= y
           Sizes == {n \in Nat : \E T \in SUBSET S : Bad(T) /\ Cardinality(T) = n}
<1> SUFFICES ASSUME Bad(S) PROVE FALSE
  OBVIOUS
<1>1. Sizes # {} /\ Sizes \subseteq Nat
  BY FS_CardinalityType
<1>2. PICK n \in Sizes : \A m \in Sizes : n <= m
  BY <1>1, Least
<1>3. PICK T \in SUBSET S : Bad(T) /\ Cardinality(T) = n
  BY <1>2
<1>4. PICK x \in T : TRUE
  BY <1>3
<1> DEFINE U == T \ {x}
<1>5. /\ U \in SUBSET S /\ IsFiniteSet(U) /\ U \subseteq Nat
      /\ Cardinality(U) = n - 1 /\ Cardinality(U) \in Nat
  BY <1>3, <1>4, FS_RemoveElement, FS_CardinalityType
<1>6. CASE U = {}
  BY <1>3, <1>4, <1>6
<1>7. CASE U # {}
  <2>1. ASSUME Bad(U) PROVE FALSE
    <3> HIDE DEF Bad, U
    <3>1. Cardinality(U) \in Sizes
      BY <1>5, <2>1
    <3> QED BY <1>2, <1>5, <3>1
  <2>2. PICK u \in U : \A y \in U : u >= y
    BY <1>5, <1>7, <2>1
  <2>3. \A y \in T : (IF u >= x THEN u ELSE x) >= y
    BY <1>3, <1>4, <2>2
  <2> QED BY <1>3, <1>4, <2>2, <2>3
<1> QED BY <1>6, <1>7

-----------------------------------------------------------------------------
(* The percentiles of a tool call.                                         *)

Within(s, le) == Cardinality({i \in DOMAIN s : s[i] <= le})

LEMMA WithinOfSome ==
  ASSUME NEW s \in Seq(Nat)
  PROVE  /\ \A x \in Nat : IsFiniteSet({i \in DOMAIN s : s[i] <= x}) /\ Within(s, x) \in Nat
         /\ \A x, y \in Nat : x <= y => Within(s, x) <= Within(s, y)
         /\ \A x \in Nat : (\A i \in DOMAIN s : s[i] <= x) => Within(s, x) = Len(s)
<1>1. DOMAIN s = 1..Len(s) /\ Len(s) \in Nat /\ \A i \in DOMAIN s : s[i] \in Nat
  OBVIOUS
<1>2. IsFiniteSet(DOMAIN s) /\ Cardinality(DOMAIN s) = Len(s)
  <2>1. /\ IsFiniteSet(1..Len(s))
        /\ Cardinality(1..Len(s)) = IF 1 > Len(s) THEN 0 ELSE Len(s) - 1 + 1
    BY <1>1, FS_Interval
  <2> QED BY <1>1, <2>1
<1>3. ASSUME NEW x \in Nat
      PROVE  IsFiniteSet({i \in DOMAIN s : s[i] <= x}) /\ Within(s, x) \in Nat
  BY <1>2, FS_Subset, FS_CardinalityType DEF Within
<1>4. ASSUME NEW x \in Nat, NEW y \in Nat, x <= y PROVE Within(s, x) <= Within(s, y)
  <2>1. {i \in DOMAIN s : s[i] <= x} \in SUBSET {i \in DOMAIN s : s[i] <= y}
    BY <1>1, <1>4
  <2> QED BY <1>3, <2>1, FS_Subset DEF Within
<1>5. ASSUME NEW x \in Nat, \A i \in DOMAIN s : s[i] <= x PROVE Within(s, x) = Len(s)
  <2>1. {i \in DOMAIN s : s[i] <= x} = DOMAIN s
    BY <1>5
  <2> QED BY <1>2, <2>1 DEF Within
<1> QED BY <1>3, <1>4, <1>5

LEMMA WithinOfOneMore ==
  ASSUME NEW s \in Seq(Nat), NEW v \in Nat, NEW x \in Nat
  PROVE  Within(Append(s, v), x) = Within(s, x) + IF v <= x THEN 1 ELSE 0
<1> DEFINE s1 == Append(s, v)
           A == {i \in DOMAIN s : s[i] <= x}
           B == {i \in DOMAIN s1 : s1[i] <= x}
           n == Len(s) + 1
<1>1. /\ DOMAIN s = 1..Len(s) /\ Len(s) \in Nat /\ DOMAIN s1 = 1..n /\ s1[n] = v
      /\ \A i \in 1..Len(s) : s1[i] = s[i]
  OBVIOUS
<1> HIDE DEF s1
<1>2. IsFiniteSet(A) /\ n \notin A /\ Cardinality(A) \in Nat
  <2>1. IsFiniteSet(A) /\ Cardinality(A) \in Nat
    BY WithinOfSome DEF Within
  <2>2. n \notin A
    BY <1>1
  <2> QED BY <2>1, <2>2
<1>3. CASE v <= x
  <2>1. B = A \cup {n}
    BY <1>1, <1>3
  <2> QED BY <1>2, <1>3, <2>1, FS_AddElement DEF Within, s1
<1>4. CASE ~(v <= x)
  <2>1. B = A
    BY <1>1, <1>4
  <2>2. Cardinality(B) = Cardinality(A) + 0
    <3> HIDE DEF A, B
    <3> QED BY <1>2, <2>1
  <2> QED BY <1>4, <2>2 DEF Within, s1
<1> QED BY <1>3, <1>4

LEMMA WithinNothing == \A x : Within(<< >>, x) = 0
<1>1. \A x : {i \in DOMAIN << >> : << >>[i] <= x} = {}
  OBVIOUS
<1> QED BY <1>1, FS_EmptySet DEF Within

PctInv ==
  /\ hist \in [Les -> Nat] /\ seen \in Seq(Les)
  /\ before # Rates!None =>
       /\ before.hist \in [Les -> Nat]
       /\ \A le \in Les : hist[le] = before.hist[le] + Within(seen, le)
  /\ Rates!PercentileRight

LEMMA SeenAreNumbers ==
  ASSUME NEW S, S \subseteq Nat, NEW s \in Seq(S)
  PROVE  s \in Seq(Nat) /\ \A i \in DOMAIN s : s[i] \in S
BY SeqMonotonic, LenProperties, ElementOfSeq

LEMMA BoundsAssumed ==
  ASSUME NodeAssumption
  PROVE  /\ Les \subseteq Nat /\ Les # {}
         /\ Rates!Max(Les) \in Les /\ \A le \in Les : Rates!Max(Les) >= le
<1>1. Les \subseteq Nat /\ Les # {} /\ Rates!IsFiniteSet(Les)
  BY DEF NodeAssumption, Rates!ThroughputAssumption
<1>2. IsFiniteSet(Les)
  BY <1>1 DEF Rates!IsFiniteSet, IsFiniteSet
<1>3. \E x \in Les : \A y \in Les : x >= y
  BY <1>1, <1>2, Greatest
<1>4. Rates!Max(Les) = CHOOSE x \in Les : \A y \in Les : x >= y
  BY DEF Rates!Max
<1> QED BY <1>1, <1>3, <1>4

\* The percentile is the least bound that the share is within.
LEMMA QuantileIs ==
  ASSUME NodeAssumption, NEW s \in Seq(Les), NEW delta \in [Les -> Nat],
         \A le \in Les : delta[le] = Within(s, le),
         NEW q \in Rates!Shares, NEW le \in Les
  PROVE  (le >= Rates!Quantile(delta, q)) <=> (Within(s, le) * q[2] >= q[1] * Len(s))
<1> DEFINE top == Rates!Max(Les)
           Enough(x) == delta[x] * q[2] >= q[1] * delta[top]
           T == {x \in Les : Enough(x)} \cup {top}
<1>1. Les \subseteq Nat /\ top \in Les /\ \A x \in Les : top >= x
  BY BoundsAssumed
<1>2. s \in Seq(Nat) /\ \A i \in DOMAIN s : s[i] \in Les
  BY <1>1, SeenAreNumbers
<1>3. delta[top] = Len(s) /\ Len(s) \in Nat
  BY <1>1, <1>2, WithinOfSome
<1>4. \A x, y \in Les : x <= y => delta[x] <= delta[y]
  BY <1>1, <1>2, WithinOfSome
<1>5. q = <<1, 2>> \/ q = <<9, 10>> \/ q = <<99, 100>>
  BY DEF Rates!Shares
<1> HIDE DEF top
<1>6. \A x, y \in Les : Enough(x) /\ x <= y => Enough(y)
  BY <1>1, <1>3, <1>4, <1>5
<1>7. Enough(top)
  BY <1>1, <1>3, <1>5
<1> HIDE DEF Enough
<1>8. PICK m \in T : \A x \in T : m <= x
  BY <1>1, Least
<1>9. Rates!Quantile(delta, q) \in T /\ \A x \in T : Rates!Quantile(delta, q) <= x
  <2>1. Rates!Quantile(delta, q) = Rates!Min(T)
    BY DEF Rates!Quantile, Enough, top
  <2>2. Rates!Min(T) = CHOOSE x \in T : \A y \in T : x <= y
    BY DEF Rates!Min
  <2> HIDE DEF T
  <2> QED BY <1>8, <2>1, <2>2
<1>10. T = {x \in Les : Enough(x)}
  BY <1>1, <1>7
<1>11. (le >= Rates!Quantile(delta, q)) <=> Enough(le)
  BY <1>1, <1>6, <1>9, <1>10
<1> QED
  BY <1>3, <1>11 DEF Enough

LEMMA PctStarts ==
  ASSUME NodeAssumption, Init
  PROVE  PctInv
<1>1. Rates!Init
  BY DEF Init
<1>2. hist \in [Les -> Nat] /\ seen = << >> /\ seen \in Seq(Les)
  BY <1>1 DEF Rates!Init, Rates!Empty
<1>3. before = Rates!None /\ answer = Rates!None
  BY <1>1 DEF Rates!Init
<1> QED
  BY <1>2, <1>3 DEF PctInv, Rates!PercentileRight

LEMMA NoneStays == Rates!None' = Rates!None
BY DEF Rates!None

LEMMA PctKeep ==
  ASSUME NodeAssumption, PctInv, [Next]_vars
  PROVE  PctInv'
<1>1. Rates!Next \/ UNCHANGED ratesVars
  BY DEF Next, GateNext, vars
<1>2. ASSUME UNCHANGED <<hist, seen, before, answer>> PROVE PctInv'
  BY <1>2, NoneStays DEF PctInv, Rates!PercentileRight, Rates!Shares, Within
<1>3. ASSUME NEW v \in Les, Rates!LastChunk(v) PROVE PctInv'
  <2>1. /\ hist' = [le \in Les |-> hist[le] + IF v <= le THEN 1 ELSE 0]
        /\ seen' = IF before = Rates!None THEN seen ELSE Append(seen, v)
        /\ UNCHANGED <<before, answer>>
    BY <1>3 DEF Rates!LastChunk, Rates!Works, Rates!callVars
  <2>2. Les \subseteq Nat /\ v \in Nat /\ hist \in [Les -> Nat] /\ seen \in Seq(Nat)
        /\ seen \in Seq(Les)
    BY BoundsAssumed DEF PctInv
  <2>3. hist' \in [Les -> Nat] /\ seen' \in Seq(Les)
    BY <2>1, <2>2
  <2>4. Rates!PercentileRight'
    BY <2>1, NoneStays DEF PctInv, Rates!PercentileRight, Rates!Shares
  <2>5. ASSUME before # Rates!None, NEW le \in Les
        PROVE  hist'[le] = before.hist[le] + Within(seen', le)
    <3>1. seen' = Append(seen, v) /\ le \in Nat
      BY <2>1, <2>2, <2>5
    <3>2. /\ Within(seen', le) = Within(seen, le) + IF v <= le THEN 1 ELSE 0
          /\ Within(seen, le) \in Nat
      <4>1. Within(Append(seen, v), le) = Within(seen, le) + IF v <= le THEN 1 ELSE 0
        BY <2>2, <3>1, WithinOfOneMore
      <4>2. Within(seen, le) \in Nat
        BY <2>2, <3>1, WithinOfSome
      <4> QED BY <3>1, <4>1, <4>2
    <3>3. hist[le] = before.hist[le] + Within(seen, le) /\ before.hist[le] \in Nat
      BY <2>5 DEF PctInv
    <3>4. hist'[le] = hist[le] + IF v <= le THEN 1 ELSE 0
      BY <2>1
    <3> QED BY <3>2, <3>3, <3>4
  <2> QED BY <2>1, <2>3, <2>4, <2>5, NoneStays DEF PctInv
<1>4. CASE Rates!Ask
  <2>1. /\ before' = [t |-> clock, hist |-> hist] /\ seen' = << >> /\ answer' = Rates!None
        /\ hist' = hist
    BY <1>4 DEF Rates!Ask, Rates!engineVars
  <2>2. \A le \in Les : Within(seen', le) = 0
    BY <2>1, WithinNothing
  <2>3. Rates!PercentileRight'
    BY <2>1, NoneStays DEF Rates!PercentileRight
  <2> QED BY <2>1, <2>2, <2>3 DEF PctInv
<1>5. ASSUME NEW ok \in BOOLEAN, Rates!Answer(ok) PROVE PctInv'
  <2> DEFINE delta == Rates!Delta(before.hist)
             total == delta[Rates!Max(Les)]
             full  == [t |-> clock, total |-> total, obs |-> seen,
                       at |-> [q \in Rates!Shares |-> Rates!Quantile(delta, q)]]
  <2>1. /\ before # Rates!None /\ before' = Rates!None /\ UNCHANGED <<hist, seen>>
        /\ answer' = IF ~ok THEN [t |-> clock, total |-> -1]
                     ELSE IF total <= 0 THEN [t |-> clock, total |-> 0] ELSE full
    BY <1>5 DEF Rates!Answer, Rates!engineVars, Rates!historyVars
  <2>0. /\ Les \subseteq Nat /\ seen \in Seq(Les) /\ seen \in Seq(Nat)
        /\ \A i \in DOMAIN seen : seen[i] \in Les
    BY BoundsAssumed, SeenAreNumbers DEF PctInv
  <2>2. /\ delta \in [Les -> Nat] /\ \A le \in Les : delta[le] = Within(seen, le)
    <3>1. ASSUME NEW le \in Les
          PROVE  hist[le] - before.hist[le] = Within(seen, le) /\ Within(seen, le) \in Nat
      <4>1. hist[le] = before.hist[le] + Within(seen, le) /\ before.hist[le] \in Nat
        BY <2>1 DEF PctInv
      <4>2. Within(seen, le) \in Nat
        BY <2>0, WithinOfSome
      <4> QED BY <4>1, <4>2
    <3> QED BY <3>1 DEF Rates!Delta
  <2> HIDE DEF delta
  <2>3. total = Len(seen) /\ seen \in Seq(Les) /\ Rates!Max(Les) \in Les
    <3>1. Rates!Max(Les) \in Les /\ \A i \in DOMAIN seen : seen[i] <= Rates!Max(Les)
      BY <2>0, BoundsAssumed
    <3>2. Within(seen, Rates!Max(Les)) = Len(seen)
      BY <2>0, <3>1, WithinOfSome
    <3> QED BY <2>0, <2>2, <3>1, <3>2
  <2>4. ASSUME answer' = full PROVE Rates!PercentileRight'
    <3>1. \A q \in Rates!Shares, le \in Les :
            (le >= full.at[q]) <=> (Within(seen, le) * q[2] >= q[1] * Len(seen))
      BY <2>2, <2>3, QuantileIs
    <3>2. full.total = Len(full.obs) /\ full.obs = seen
      BY <2>3
    <3>3. Rates!Shares' = Rates!Shares
      BY DEF Rates!Shares
    <3>4. \A S : Rates!Cardinality(S) = Cardinality(S)
      BY DEF Rates!Cardinality, Cardinality
    <3>5. full.at = [q \in Rates!Shares |-> Rates!Quantile(delta, q)]
      OBVIOUS
    <3> HIDE DEF full
    <3>6. \A le : Rates!Cardinality({i \in DOMAIN answer'.obs : answer'.obs[i] <= le})
                  = Within(seen, le)
      BY <2>4, <3>2, <3>4 DEF Within
    <3>7. /\ answer'.total = Len(answer'.obs) /\ Len(answer'.obs) = Len(seen)
          /\ \A q \in Rates!Shares, le \in Les :
               (le >= answer'.at[q]) <=> (Within(seen, le) * q[2] >= q[1] * Len(seen))
      BY <2>4, <3>1, <3>2
    <3> QED BY <3>3, <3>6, <3>7 DEF Rates!PercentileRight
  <2>5. ASSUME answer'.total \in {0, -1} PROVE Rates!PercentileRight'
    BY <2>5 DEF Rates!PercentileRight
  <2>6. Rates!PercentileRight'
    BY <2>1, <2>4, <2>5
  <2> QED BY <2>1, <2>6, NoneStays DEF PctInv
<1>6. ASSUME Rates!Chunk \/ Rates!Free \/ (\E n \in Gains : Rates!Decode(n))
             \/ (\E d \in Ticks, ok \in BOOLEAN : Rates!Sample(d, ok)) \/ UNCHANGED ratesVars
      PROVE  UNCHANGED <<hist, seen, before, answer>>
  BY <1>6 DEF Rates!Chunk, Rates!Free, Rates!Decode, Rates!Works, Rates!Sample,
     Rates!engineVars, Rates!callVars, ratesVars
<1> QED
  BY <1>1, <1>2, <1>3, <1>4, <1>5, <1>6 DEF Rates!Next, Rates!Engine

\* _t_latency_percentiles: a percentile is the smallest bucket bound that its share of
\* the first tokens between the two scrapes took at most, for any buckets.
THEOREM NodePercentileRight ==
  ASSUME NodeAssumption
  PROVE  Spec => []PercentileRight
<1>1. PctInv => PercentileRight
  BY DEF PctInv, PercentileRight
<1> QED
  BY <1>1, PctStarts, PctKeep, PTL DEF Spec

-----------------------------------------------------------------------------
(* The windows of the status page.                                         *)

Readings == [t : Nat, gen : Nat, prompt : Nat, kv : Nat]
Windows ==
  [from : Readings, to : Readings, decode : Int, prefill : Int,
   uncounted : BOOLEAN, worked : BOOLEAN, freed : BOOLEAN]

RatesShapes ==
  /\ gen \in Nat /\ prompt \in Nat /\ done \in 0..(Chunks - 1) /\ decodes \in Nat
  /\ clock \in Nat /\ first \in Nat /\ told \in Nat /\ skipped \in Nat
  /\ worked \in BOOLEAN /\ freed \in BOOLEAN
  /\ prev = Rates!None \/ prev \in Readings
  /\ tp \in Seq(Windows) /\ Len(tp) <= Keep

\* What the windows, told or skipped, say of the counters up to the last reading.
TileInv ==
  /\ prev = Rates!None => told = 0 /\ skipped = 0 /\ tp = << >>
  /\ prev # Rates!None => told + skipped = prev.gen - first
  /\ tp # << >> => tp[Len(tp)].to.gen + skipped >= prev.gen
  /\ \A i \in 1..(Len(tp) - 1) : tp[i].to.gen + skipped >= tp[i + 1].from.gen

\* What the engine did since the last reading shows in the counters; only what it
\* frees can hide it.
BusyInv ==
  prev # Rates!None =>
    /\ prev.gen <= gen /\ prev.prompt <= prompt
    /\ ~freed => prev.kv <= Rates!Kv
    /\ worked /\ ~freed => \/ prev.kv < Rates!Kv
                           \/ prev.gen < gen \/ prev.prompt < prompt

\* What BusyShows says of a window.
Busy(w) ==
  w.worked /\ ~w.freed =>
    \/ w.decode > 0 \/ w.prefill > 0 \/ w.uncounted
    \/ /\ (w.to.gen - w.from.gen) + (w.to.prompt - w.from.prompt) > 0
       /\ 20 * ((w.to.gen - w.from.gen) + (w.to.prompt - w.from.prompt)) <
            2 * (w.to.t - w.from.t)

RatesInv == RatesShapes /\ TileInv /\ BusyInv /\ Rates!BusyShows

LEMMA RatesAssumed ==
  ASSUME NodeAssumption
  PROVE  /\ Keep \in Nat \ {0} /\ Chunks \in Nat \ {0} /\ PromptLen \in Nat \ {0}
         /\ Gains \subseteq Nat \ {0} /\ Ticks \subseteq Int
BY DEF NodeAssumption, Rates!ThroughputAssumption

LEMMA RatesStarts ==
  ASSUME NodeAssumption, Init
  PROVE  RatesInv
<1>1. Rates!Init
  BY DEF Init
<1>2. RatesShapes
  <2>1. 0 \in 0..(Chunks - 1)
    BY RatesAssumed
  <2>2. tp = << >> /\ tp \in Seq(Windows) /\ Len(tp) <= Keep
    BY <1>1, RatesAssumed DEF Rates!Init
  <2>3. prev = Rates!None
    BY <1>1 DEF Rates!Init
  <2> QED BY <1>1, <2>1, <2>2, <2>3 DEF Rates!Init, RatesShapes
<1>3. TileInv /\ BusyInv /\ Rates!BusyShows
  BY <1>1 DEF Rates!Init, TileInv, BusyInv, Rates!BusyShows
<1> QED
  BY <1>2, <1>3 DEF RatesInv

LEMMA NoneIsNone == \A r \in Readings : r # Rates!None
BY DEF Readings, Rates!None

\* The newest windows are a stretch of them.
LEMMA KeptIs ==
  ASSUME NodeAssumption, NEW s \in Seq(Windows), s # << >>
  PROVE  \E k \in 0..(Len(s) - 1) :
           /\ Rates!Kept(s) \in Seq(Windows) /\ Len(Rates!Kept(s)) = Len(s) - k
           /\ Len(Rates!Kept(s)) \in Nat \ {0} /\ Len(Rates!Kept(s)) <= Keep
           /\ \A i \in 1..Len(Rates!Kept(s)) : Rates!Kept(s)[i] = s[k + i]
<1> DEFINE m == Rates!Max({1, Len(s) - Keep + 1})
<1>1. Len(s) \in Nat \ {0} /\ Keep \in Nat \ {0}
  BY RatesAssumed
<1>2. m \in 1..Len(s) /\ m >= Len(s) - Keep + 1
  <2> DEFINE T == {1, Len(s) - Keep + 1}
  <2>1. \E x \in T : \A y \in T : x >= y
    <3>1. CASE Len(s) - Keep + 1 <= 1
      BY <1>1, <3>1
    <3>2. CASE Len(s) - Keep + 1 > 1
      BY <1>1, <3>2
    <3> QED BY <1>1, <3>1, <3>2
  <2>2. m \in T /\ \A y \in T : m >= y
    <3>1. m = CHOOSE x \in T : \A y \in T : x >= y
      BY DEF Rates!Max
    <3> HIDE DEF m, T
    <3> QED BY <2>1, <3>1
  <2> QED BY <1>1, <2>2
<1> HIDE DEF m
<1>3. Rates!Kept(s) = SubSeq(s, m, Len(s))
  BY DEF Rates!Kept, m
<1>4. /\ Rates!Kept(s) \in Seq(Windows) /\ Len(Rates!Kept(s)) = Len(s) - m + 1
      /\ \A i \in 1..(Len(s) - m + 1) : Rates!Kept(s)[i] = s[m + i - 1]
  <2>1. \A i \in m..Len(s) : s[i] \in Windows
    BY <1>1, <1>2
  <2>2. m \in Int /\ Len(s) \in Int /\ m <= Len(s)
    BY <1>1, <1>2
  <2> QED BY <1>3, <2>1, <2>2, SubSeqProperties
<1> DEFINE k == m - 1
<1>6. k \in 0..(Len(s) - 1) /\ Len(Rates!Kept(s)) = Len(s) - k
  BY <1>1, <1>2, <1>4
<1>7. \A i \in 1..Len(Rates!Kept(s)) : Rates!Kept(s)[i] = s[k + i]
  BY <1>1, <1>2, <1>4, <1>6
<1>8. Len(Rates!Kept(s)) \in Nat \ {0} /\ Len(Rates!Kept(s)) <= Keep
  BY <1>1, <1>2, <1>4, <1>6
<1> HIDE DEF k
<1> QED
  BY <1>4, <1>6, <1>7, <1>8

LEMMA EngineKeepsRates ==
  ASSUME NodeAssumption, RatesInv, Rates!Engine
  PROVE  RatesInv'
<1>1. UNCHANGED Rates!loopVars
  BY DEF Rates!Engine, Rates!Chunk, Rates!LastChunk, Rates!Decode, Rates!Free, Rates!Works
<1>2. TileInv' /\ Rates!BusyShows'
  BY <1>1 DEF RatesInv, TileInv, Rates!BusyShows, Rates!loopVars, Rates!None
<1>3. Chunks \in Nat /\ done \in Int /\ decodes \in Int /\ Rates!Kv \in Int
      /\ decodes * Chunks \in Int /\ (decodes + 1) * Chunks = decodes * Chunks + Chunks
  BY RatesAssumed DEF RatesInv, RatesShapes, Rates!Kv
<1>4. prev # Rates!None =>
        prev.gen \in Nat /\ prev.prompt \in Nat /\ prev.kv \in Nat
  BY DEF RatesInv, RatesShapes, Readings
<1>5. CASE Rates!Chunk
  <2>1. /\ done' = done + 1 /\ done < Chunks - 1 /\ worked' = TRUE
        /\ UNCHANGED <<gen, prompt, decodes, freed, prev>>
    BY <1>5 DEF Rates!Chunk, Rates!Works, Rates!loopVars
  <2>2. RatesShapes'
    BY <1>1, <1>3, <2>1 DEF RatesInv, RatesShapes, Rates!loopVars, Rates!None
  <2>3. Rates!Kv' = Rates!Kv + 1
    BY <1>3, <2>1 DEF Rates!Kv
  <2>4. BusyInv'
    BY <1>3, <1>4, <2>1, <2>3 DEF RatesInv, BusyInv, Rates!None
  <2> QED BY <1>2, <2>2, <2>4 DEF RatesInv
<1>6. ASSUME NEW v \in Les, Rates!LastChunk(v) PROVE RatesInv'
  <2>1. /\ done = Chunks - 1 /\ done' = 0 /\ decodes' = decodes + 1 /\ worked' = TRUE
        /\ prompt' = prompt + PromptLen /\ gen' = gen + 1
        /\ UNCHANGED <<freed, prev>>
    BY <1>6 DEF Rates!LastChunk, Rates!Works, Rates!loopVars
  <2>2. RatesShapes'
    BY <1>1, <1>3, <2>1, RatesAssumed
    DEF RatesInv, RatesShapes, Rates!loopVars, Rates!None
  <2>3. Rates!Kv' = Rates!Kv + 1
    BY <1>3, <2>1 DEF Rates!Kv
  <2>4. BusyInv'
    BY <1>3, <1>4, <2>1, <2>3, RatesAssumed
    DEF RatesInv, RatesShapes, BusyInv, Rates!None
  <2> QED BY <1>2, <2>2, <2>4 DEF RatesInv
<1>7. ASSUME NEW n \in Gains, Rates!Decode(n) PROVE RatesInv'
  <2>1. /\ gen' = gen + n /\ worked' = TRUE /\ n \in Nat \ {0}
        /\ UNCHANGED <<prompt, done, decodes, freed, prev>>
    BY <1>7, RatesAssumed DEF Rates!Decode, Rates!Works, Rates!loopVars
  <2>2. RatesShapes'
    BY <1>1, <1>3, <2>1 DEF RatesInv, RatesShapes, Rates!loopVars, Rates!None
  <2>3. Rates!Kv' = Rates!Kv
    BY <2>1 DEF Rates!Kv
  <2>4. BusyInv'
    BY <1>3, <1>4, <2>1, <2>3 DEF RatesInv, RatesShapes, BusyInv, Rates!None
  <2> QED BY <1>2, <2>2, <2>4 DEF RatesInv
<1>8. CASE Rates!Free
  <2>1. /\ freed' = TRUE /\ UNCHANGED <<gen, prompt, worked, prev>>
        /\ decodes' \in Nat /\ done' \in 0..(Chunks - 1)
    BY <1>8, RatesAssumed DEF Rates!Free, Rates!loopVars, RatesInv, RatesShapes
  <2>2. RatesShapes'
    BY <1>1, <2>1 DEF RatesInv, RatesShapes, Rates!loopVars, Rates!None
  <2>3. BusyInv'
    BY <2>1 DEF RatesInv, BusyInv, Rates!None
  <2> QED BY <1>2, <2>2, <2>3 DEF RatesInv
<1> QED
  BY <1>5, <1>6, <1>7, <1>8 DEF Rates!Engine

\* A window that shows no rate credited at most what rounds to nothing.
LEMMA RatesRound ==
  ASSUME NEW n \in Nat, NEW d \in Nat \ {0}, ~(Rates!Rate(n, d) > 0)
  PROVE  20 * n < d
<1>1. (20 * n + d) \div (2 * d) \in Int
  OBVIOUS
<1>2. (20 * n + d) \div (2 * d) <= 0
  BY <1>1 DEF Rates!Rate
<1> QED
  BY <1>2

LEMMA RateIsInt ==
  ASSUME NEW n \in Int, NEW d \in Nat \ {0}
  PROVE  Rates!Rate(n, d) \in Int
BY DEF Rates!Rate

\* A round of the loop that failed, or took no time, leaves the windows alone.
LEMMA SampleKeepsRates ==
  ASSUME NodeAssumption, RatesInv, NEW d \in Ticks, NEW ok \in BOOLEAN, Rates!Sample(d, ok)
  PROVE  RatesInv'
<1> DEFINE cur == Rates!Reading(clock + d)
<1>1. /\ clock' = clock + d /\ clock' >= 0 /\ cur = [t |-> clock + d, gen |-> gen,
           prompt |-> prompt, kv |-> Rates!Kv]
      /\ UNCHANGED <<gen, prompt, done, decodes>>
      /\ ok => prev' = cur /\ worked' = FALSE /\ freed' = FALSE
      /\ ~ok => UNCHANGED <<prev, tp, first, told, skipped, worked, freed>>
  BY DEF Rates!Sample, Rates!Reading, Rates!NextPrev, Rates!engineVars
<1>2. /\ cur \in Readings /\ cur # Rates!None /\ cur.gen = gen /\ cur.t = clock'
      /\ cur.prompt = prompt /\ cur.kv = Rates!Kv /\ Rates!Kv' = Rates!Kv
      /\ clock' \in Nat /\ Rates!None' = Rates!None
  <2>1. Rates!Kv \in Nat /\ clock + d \in Nat
    <3>1. clock \in Nat /\ d \in Int /\ decodes \in Nat /\ done \in 0..(Chunks - 1)
      BY RatesAssumed DEF RatesInv, RatesShapes
    <3>2. clock + d \in Nat
      BY <1>1, <3>1
    <3>3. decodes * Chunks \in Nat
      BY <3>1, RatesAssumed
    <3>4. done \in Nat
      BY <3>1, RatesAssumed
    <3>5. Rates!Kv \in Nat
      BY <3>3, <3>4 DEF Rates!Kv
    <3> QED BY <3>2, <3>5
  <2>2. cur \in Readings
    BY <1>1, <2>1 DEF RatesInv, RatesShapes, Readings
  <2> QED BY <1>1, <2>1, <2>2, NoneIsNone DEF Rates!Kv, Rates!None
<1> HIDE DEF cur
<1>3. CASE ~ok
  <2>1. Rates!Kv' = Rates!Kv /\ Rates!None' = Rates!None /\ clock' \in Nat
    BY <1>1, RatesAssumed DEF Rates!Kv, Rates!None, RatesInv, RatesShapes
  <2>2. RatesShapes' /\ TileInv' /\ Rates!BusyShows'
    BY <1>1, <1>3, <2>1 DEF RatesInv, RatesShapes, TileInv, Rates!BusyShows
  <2>3. BusyInv'
    BY <1>1, <1>3, <2>1 DEF RatesInv, BusyInv
  <2> QED BY <2>2, <2>3 DEF RatesInv
<1>4. CASE ok /\ prev = Rates!None
  <2>1. /\ prev' = cur /\ first' = gen /\ told' = told /\ skipped' = skipped
        /\ tp' = tp /\ tp = << >> /\ told = 0 /\ skipped = 0
        /\ worked' = FALSE /\ freed' = FALSE
    <3>1. told = 0 /\ skipped = 0 /\ tp = << >>
      BY <1>4 DEF RatesInv, TileInv
    <3>2. first' = gen /\ told' = told /\ skipped' = skipped + 0 /\ tp' = tp
      BY <1>4 DEF Rates!Sample
    <3> QED BY <1>1, <1>4, <3>1, <3>2
  <2>2. RatesShapes'
    BY <1>1, <1>2, <2>1 DEF RatesInv, RatesShapes
  <2>3. TileInv'
    BY <1>1, <1>2, <2>1 DEF RatesInv, RatesShapes, TileInv
  <2>4. BusyInv'
    BY <1>1, <1>2, <2>1 DEF RatesInv, RatesShapes, BusyInv, Readings
  <2>5. Rates!BusyShows'
    BY <2>1 DEF Rates!BusyShows
  <2> QED BY <2>2, <2>3, <2>4, <2>5 DEF RatesInv
<1>5. CASE ok /\ prev # Rates!None
  <2> DEFINE dt == cur.t - prev.t  delta == gen - prev.gen
  <2>1. /\ prev \in Readings /\ dt \in Int /\ delta \in Nat
        /\ prev' = cur /\ first' = first /\ worked' = FALSE /\ freed' = FALSE
        /\ told' = IF dt > 0 THEN told + delta ELSE told
        /\ skipped' = IF dt <= 0 THEN skipped + delta ELSE skipped
        /\ tp' = IF dt > 0 THEN Rates!Kept(Append(tp, Rates!Window(prev, cur))) ELSE tp
    <3>1. prev \in Readings /\ prev.gen <= gen
      BY <1>5 DEF RatesInv, RatesShapes, BusyInv
    <3>2. dt \in Int /\ delta \in Nat
      BY <1>2, <3>1 DEF Readings, RatesInv, RatesShapes
    <3>3. /\ told' = IF dt > 0 THEN told + delta ELSE told
          /\ skipped' = IF dt <= 0 THEN skipped + delta ELSE skipped
          /\ tp' = IF dt > 0 THEN Rates!Kept(Append(tp, Rates!Window(prev, cur))) ELSE tp
          /\ first' = first
      BY <1>5 DEF Rates!Sample, cur
    <3> QED BY <1>1, <1>5, <3>1, <3>2, <3>3
  <2>2. /\ told' \in Nat /\ skipped' \in Nat /\ skipped' >= skipped
        /\ told' + skipped' = cur.gen - first'
        /\ dt <= 0 => skipped' + prev.gen = skipped + cur.gen
    <3>1. told + skipped = prev.gen - first /\ told \in Nat /\ skipped \in Nat /\ first \in Nat
      BY <1>5 DEF RatesInv, TileInv, RatesShapes
    <3>2. prev.gen \in Nat /\ gen \in Nat
      BY <2>1 DEF Readings, RatesInv, RatesShapes
    <3> QED BY <1>2, <2>1, <3>1, <3>2
  <2>3. BusyInv'
    BY <1>1, <1>2, <2>1 DEF BusyInv, RatesInv, RatesShapes, Readings
  <2>4. CASE dt <= 0
    <3>1. tp' = tp
      BY <2>1, <2>4
    <3>2. RatesShapes'
      BY <1>1, <1>2, <2>1, <2>2, <3>1 DEF RatesInv, RatesShapes
    <3>3. TileInv'
      <4>1. ASSUME tp # << >> PROVE tp[Len(tp)].to.gen + skipped' >= cur.gen
        <5>1. tp[Len(tp)] \in Windows
          BY <1>5, <4>1 DEF RatesInv, RatesShapes
        <5>2. tp[Len(tp)].to.gen \in Nat /\ prev.gen \in Nat /\ cur.gen \in Nat
          BY <1>2, <2>1, <5>1 DEF Windows, Readings
        <5>3. tp[Len(tp)].to.gen + skipped >= prev.gen /\ skipped \in Nat
          BY <4>1 DEF RatesInv, TileInv, RatesShapes
        <5>4. skipped' + prev.gen = skipped + cur.gen /\ skipped' \in Nat
          BY <2>2, <2>4
        <5> QED BY <5>2, <5>3, <5>4
      <4>2. ASSUME NEW i \in 1..(Len(tp) - 1)
            PROVE  tp[i].to.gen + skipped' >= tp[i + 1].from.gen
        <5>1. tp[i] \in Windows /\ tp[i + 1] \in Windows
          BY DEF RatesInv, RatesShapes
        <5>2. tp[i].to.gen \in Nat /\ tp[i + 1].from.gen \in Nat
          BY <5>1 DEF Windows, Readings
        <5>3. tp[i].to.gen + skipped >= tp[i + 1].from.gen /\ skipped \in Nat
          BY DEF RatesInv, TileInv, RatesShapes
        <5>4. skipped' >= skipped /\ skipped' \in Nat
          BY <2>2
        <5> QED BY <5>2, <5>3, <5>4
      <4> QED BY <1>2, <2>1, <2>2, <3>1, <4>1, <4>2 DEF TileInv
    <3>4. Rates!BusyShows'
      BY <3>1 DEF RatesInv, Rates!BusyShows
    <3> QED BY <2>3, <3>2, <3>3, <3>4 DEF RatesInv
  <2>5. CASE dt > 0
    <3> DEFINE w == Rates!Window(prev, cur)
               all == Append(tp, w)
    <3>a. /\ w.from = prev /\ w.to = cur /\ w.worked = worked /\ w.freed = freed
          /\ w.decode = Rates!Rate(cur.gen - prev.gen, cur.t - prev.t)
          /\ w.prefill = Rates!Rate(cur.prompt - prev.prompt, cur.t - prev.t)
          /\ w.uncounted = Rates!Uncounted(prev, cur)
      BY DEF Rates!Window
    <3>b. /\ cur.gen - prev.gen \in Nat /\ cur.prompt - prev.prompt \in Nat
          /\ cur.t - prev.t \in Nat \ {0} /\ prev.kv \in Nat /\ cur.kv \in Nat
          /\ cur.gen \in Nat /\ prev.gen \in Nat /\ cur.prompt \in Nat /\ prev.prompt \in Nat
      <4>1. prev.gen <= gen /\ prev.prompt <= prompt
        BY <1>5 DEF RatesInv, BusyInv
      <4> QED BY <1>2, <2>1, <2>5, <4>1 DEF Readings
    <3> HIDE DEF w
    <3>1. w \in Windows /\ w.from = prev /\ w.to = cur
      <4>1. w.decode \in Int /\ w.prefill \in Int
        BY <3>a, <3>b, RateIsInt
      <4>2. w.uncounted \in BOOLEAN /\ worked \in BOOLEAN /\ freed \in BOOLEAN
        BY <3>a DEF Rates!Uncounted, RatesInv, RatesShapes
      <4> QED BY <1>2, <2>1, <3>a, <4>1, <4>2 DEF Windows, Rates!Window, w
    <3>2. Busy(w)
      <4> SUFFICES ASSUME worked, ~freed, ~(w.decode > 0), ~(w.prefill > 0), ~w.uncounted
                   PROVE  /\ (cur.gen - prev.gen) + (cur.prompt - prev.prompt) > 0
                          /\ 20 * ((cur.gen - prev.gen) + (cur.prompt - prev.prompt)) <
                               2 * (cur.t - prev.t)
        BY <3>a DEF Busy
      <4>1. 20 * (cur.gen - prev.gen) < cur.t - prev.t
        BY <3>a, <3>b, RatesRound
      <4>2. 20 * (cur.prompt - prev.prompt) < cur.t - prev.t
        BY <3>a, <3>b, RatesRound
      <4>3. prev.kv < cur.kv \/ prev.gen < cur.gen \/ prev.prompt < cur.prompt
        BY <1>2, <1>5 DEF RatesInv, BusyInv
      <4>4. ~Rates!Uncounted(prev, cur)
        BY <3>a
      <4>5. prev.gen # cur.gen \/ prev.prompt # cur.prompt
        BY <3>b, <4>3, <4>4 DEF Rates!Uncounted
      <4>6. \A a, b, c \in Nat : a + b # 0 /\ 20 * a < c /\ 20 * b < c =>
              a + b > 0 /\ 20 * (a + b) < 2 * c
        OBVIOUS
      <4>7. (cur.gen - prev.gen) + (cur.prompt - prev.prompt) # 0
        <5>1. \A x, y, u, v \in Nat :
                x - u \in Nat /\ y - v \in Nat /\ (u # x \/ v # y) => (x - u) + (y - v) # 0
          OBVIOUS
        <5> QED BY <3>b, <4>5, <5>1
      <4> HIDE DEF dt, delta
      <4> QED BY <3>b, <4>1, <4>2, <4>6, <4>7
    <3>3. /\ all \in Seq(Windows) /\ all # << >> /\ Len(all) = Len(tp) + 1 /\ Len(tp) \in Nat
          /\ all[Len(tp) + 1] = w /\ \A i \in 1..Len(tp) : all[i] = tp[i]
      BY <3>1 DEF RatesInv, RatesShapes
    <3> HIDE DEF all
    <3>4. PICK k \in 0..(Len(all) - 1) :
             /\ tp' \in Seq(Windows) /\ Len(tp') = Len(all) - k /\ Len(tp') \in Nat \ {0}
             /\ Len(tp') <= Keep
             /\ \A i \in 1..Len(tp') : tp'[i] = all[k + i]
      BY <2>1, <2>5, <3>3, KeptIs DEF all, w
    <3>5. skipped' = skipped
      BY <2>1, <2>5
    <3>6. RatesShapes'
      BY <1>1, <1>2, <2>1, <2>2, <3>4 DEF RatesInv, RatesShapes
    <3>7. ASSUME NEW i \in 1..(Len(all) - 1)
          PROVE  all[i].to.gen + skipped >= all[i + 1].from.gen
      <4>1. i \in 1..Len(tp) /\ all[i] = tp[i]
        BY <3>3
      <4>2. CASE i = Len(tp)
        BY <3>1, <3>3, <4>1, <4>2 DEF RatesInv, TileInv
      <4>3. CASE i # Len(tp)
        <5>1. i \in 1..(Len(tp) - 1) /\ i + 1 \in 1..Len(tp) /\ all[i + 1] = tp[i + 1]
          BY <3>3, <4>1, <4>3
        <5> QED BY <4>1, <5>1 DEF RatesInv, TileInv
      <4> QED BY <4>2, <4>3
    <3>8. TileInv'
      <4>1. tp'[Len(tp')] = w
        <5>1. Len(tp') \in 1..Len(tp') /\ k + Len(tp') = Len(tp) + 1
          BY <3>3, <3>4
        <5> QED BY <3>3, <3>4, <5>1
      <4>2. tp'[Len(tp')].to.gen + skipped' >= prev'.gen
        <5>1. skipped \in Nat /\ cur.gen \in Nat
          BY <3>b DEF RatesInv, RatesShapes
        <5>2. prev' = cur /\ tp'[Len(tp')].to.gen = cur.gen
          BY <2>1, <3>1, <4>1
        <5> QED BY <3>5, <5>1, <5>2
      <4>3. ASSUME NEW i \in 1..(Len(tp') - 1)
            PROVE  tp'[i].to.gen + skipped' >= tp'[i + 1].from.gen
        <5>1. /\ k + i \in 1..(Len(all) - 1) /\ i \in 1..Len(tp') /\ i + 1 \in 1..Len(tp')
              /\ k + (i + 1) = (k + i) + 1
          BY <3>3, <3>4
        <5>2. tp'[i] = all[k + i] /\ tp'[i + 1] = all[(k + i) + 1]
          BY <3>4, <5>1
        <5> QED BY <3>5, <3>7, <5>1, <5>2
      <4> QED BY <1>2, <2>1, <2>2, <4>2, <4>3 DEF TileInv
    <3>9. Rates!BusyShows'
      <4>1. \A i \in 1..Len(tp) : Busy(tp[i])
        BY DEF RatesInv, Rates!BusyShows, Busy
      <4>2. \A i \in 1..Len(all) : Busy(all[i])
        BY <3>2, <3>3, <4>1
      <4>3. \A i \in 1..Len(tp') : k + i \in 1..Len(all)
        BY <3>3, <3>4
      <4>4. \A i \in 1..Len(tp') : Busy(tp'[i])
        BY <3>4, <4>2, <4>3
      <4> QED BY <4>4 DEF Rates!BusyShows, Busy
    <3> QED BY <2>3, <3>6, <3>8, <3>9 DEF RatesInv
  <2> QED BY <2>1, <2>4, <2>5
<1> QED
  BY <1>3, <1>4, <1>5

LEMMA CallsKeepRates ==
  ASSUME RatesInv, Rates!Ask \/ (\E ok \in BOOLEAN : Rates!Answer(ok)) \/ UNCHANGED ratesVars
  PROVE  RatesInv'
<1>1. UNCHANGED <<gen, prompt, done, decodes, clock, prev, tp, first, told, skipped, worked, freed>>
  BY DEF Rates!Ask, Rates!Answer, Rates!engineVars, Rates!loopVars, Rates!historyVars, ratesVars
<1>2. Rates!None' = Rates!None /\ Rates!Kv' = Rates!Kv
  BY <1>1 DEF Rates!None, Rates!Kv
<1> QED
  BY <1>1, <1>2 DEF RatesInv, RatesShapes, TileInv, BusyInv, Rates!BusyShows

LEMMA RatesKeep ==
  ASSUME NodeAssumption, RatesInv, [Next]_vars
  PROVE  RatesInv'
<1>1. Rates!Next \/ UNCHANGED ratesVars
  BY DEF Next, GateNext, vars
<1> QED
  BY <1>1, EngineKeepsRates, SampleKeepsRates, CallsKeepRates DEF Rates!Next

\* throughput_loop: a token is reported in one window, whatever scrapes failed and
\* however the wall clock moved between them.
THEOREM NodeWindowsTile ==
  ASSUME NodeAssumption
  PROVE  Spec => []WindowsTile
<1>1. RatesInv => WindowsTile
  BY DEF RatesInv, RatesShapes, TileInv, WindowsTile, Rates!WindowsTile
<1> QED
  BY <1>1, RatesStarts, RatesKeep, PTL DEF Spec

\* throughput_loop and uncounted_prefill: a window in which the engine computed and
\* freed nothing shows a rate or uncounted prefill, for all chunk and prompt sizes.
THEOREM NodeBusyShows ==
  ASSUME NodeAssumption
  PROVE  Spec => []BusyShows
<1>1. RatesInv => BusyShows
  BY DEF RatesInv, BusyShows
<1> QED
  BY <1>1, RatesStarts, RatesKeep, PTL DEF Spec

-----------------------------------------------------------------------------
(* Loading a checkpoint.                                                   *)

\* The other half of a tensor that comes in two.
Mate(t) == [t EXCEPT !.part = IF @ = "weight" THEN "scale" ELSE "weight"]

Arrived == Weights!Checkpoint(fp8) \ todo

\* What its shard holds of a tensor of the checkpoint.
LoadedOf(t) ==
  IF Weights!Skipped(t) \/ t.expert \notin LocalExperts \cup {0} \/ t \in todo THEN << >>
  ELSE IF ~Weights!Halves(t) THEN <<Weights!Raw(t)>>
  ELSE IF t.part = "scale" \/ Mate(t) \in todo THEN << >>
  ELSE <<Weights!Dequantized(t, Mate(t))>>

WeightsInv ==
  /\ fp8 \in Stores /\ kept \in Keeps
  /\ todo \subseteq Weights!Checkpoint(fp8)
  /\ loaded = [s \in Weights!Shards |-> loaded[s]]
  /\ pending = {t \in Arrived : ~Weights!Skipped(t) /\ Weights!Halves(t) /\ Mate(t) \in todo}
  /\ \A t \in Weights!Checkpoint(fp8) : loaded[Weights!Shard(t)] = LoadedOf(t)
  /\ \A s \in Weights!Shards :
       (\A t \in Weights!Checkpoint(fp8) : Weights!Shard(t) # s) => loaded[s] = << >>

\* The names of the fused parameters.
Fused == {"gate_up_proj", "fused_qkv_a_proj", "wk_weights_proj", "in_proj_qkvbfg_a"}

LEMMA TensorsAre ==
  ASSUME NodeAssumption, NEW f, NEW t \in Weights!Checkpoint(f)
  PROVE  /\ t = [layer |-> t.layer, proj |-> t.proj, expert |-> t.expert, part |-> t.part]
         /\ t.part = "weight" \/ (t.part = "scale" /\ t.proj \in f)
         /\ t.proj \notin Fused
         /\ t.expert # 0 => t.proj \in {"gate_proj", "up_proj", "down_proj"}
         /\ t.proj \in f => Mate(t) \in Weights!Checkpoint(f)
<1>0. PICK l \in DOMAIN Holds : \E p \in Holds[l] : \E x \in Weights!PartsOf(f, p) :
         t = Weights!Tensor(l, p, x)
  BY DEF Weights!Checkpoint
<1>1. PICK p \in Holds[l] : \E x \in Weights!PartsOf(f, p) : t = Weights!Tensor(l, p, x)
  BY <1>0
<1>a. PICK part1 \in Weights!PartsOf(f, p) : t = Weights!Tensor(l, p, part1)
  BY <1>1
<1>b. p[1] \notin Fused /\ (p[2] # 0 => p[1] \in {"gate_proj", "up_proj", "down_proj"})
  BY DEF NodeAssumption, Weights!LoadAssumption, Fused
<1>2. /\ t = [layer |-> l, proj |-> p[1], expert |-> p[2], part |-> part1]
      /\ t.proj = p[1] /\ t.expert = p[2] /\ t.part = part1 /\ t.layer = l
  BY <1>a DEF Weights!Tensor
<1>3. part1 = "weight" \/ (part1 = "scale" /\ p[1] \in f)
  BY DEF Weights!PartsOf
<1>4. ASSUME t.proj \in f PROVE Mate(t) \in Weights!Checkpoint(f)
  <2> DEFINE other == IF part1 = "weight" THEN "scale" ELSE "weight"
  <2>1. other \in Weights!PartsOf(f, p)
    BY <1>2, <1>3, <1>4 DEF Weights!PartsOf
  <2>2. Mate(t) = Weights!Tensor(l, p, other)
    BY <1>2 DEF Mate, Weights!Tensor
  <2> QED BY <2>1, <2>2 DEF Weights!Checkpoint
<1> QED
  BY <1>b, <1>2, <1>3, <1>4

\* A shard is of one tensor.
LEMMA ShardsDiffer ==
  ASSUME NodeAssumption, NEW f, NEW t \in Weights!Checkpoint(f), NEW u \in Weights!Checkpoint(f),
         Weights!Shard(t) = Weights!Shard(u)
  PROVE  t = u
<1>1. t.layer = u.layer /\ t.expert = u.expert /\ t.part = u.part
      /\ Weights!Shard(t).at = Weights!Shard(u).at
  BY DEF Weights!Shard
<1> DEFINE at(p) == IF p \in DOMAIN Weights!Stacked THEN Weights!Stacked[p] ELSE <<p, 0>>
<1>2. ASSUME NEW p, NEW q, p \notin Fused, q \notin Fused, at(p) = at(q)
      PROVE  p = q
  <2>1. \A n \in DOMAIN Weights!Stacked : Weights!Stacked[n][1] \in Fused
    BY DEF Weights!Stacked, Fused
  <2>2. \A n, k \in DOMAIN Weights!Stacked : Weights!Stacked[n] = Weights!Stacked[k] => n = k
    BY DEF Weights!Stacked
  <2> QED BY <1>2, <2>1, <2>2
<1>3. t.proj = u.proj
  <2>1. CASE t.expert = 0
    <3>1. Weights!Shard(t).at = at(t.proj) /\ Weights!Shard(u).at = at(u.proj)
      BY <1>1, <2>1 DEF Weights!Shard
    <3> HIDE DEF at
    <3> QED BY <1>1, <1>2, <3>1, TensorsAre
  <2>2. CASE t.expert # 0
    <3>1. Weights!Shard(t).at = <<t.proj, 0>> /\ Weights!Shard(u).at = <<u.proj, 0>>
      BY <1>1, <2>2 DEF Weights!Shard
    <3> QED BY <1>1, <3>1
  <2> QED BY <2>1, <2>2
<1> QED
  BY <1>1, <1>3, TensorsAre

LEMMA MatesAre ==
  ASSUME NodeAssumption, NEW f, NEW t \in Weights!Checkpoint(f)
  PROVE  /\ Mate(t) # t /\ Mate(Mate(t)) = t /\ Mate(t).part # t.part
         /\ Mate(t).layer = t.layer /\ Mate(t).proj = t.proj /\ Mate(t).expert = t.expert
         /\ Mate(t).part = IF t.part = "weight" THEN "scale" ELSE "weight"
<1>1. t = [layer |-> t.layer, proj |-> t.proj, expert |-> t.expert, part |-> t.part]
      /\ t.part \in {"weight", "scale"}
  BY TensorsAre
<1>0. \A l, p, e, q :
        Mate([layer |-> l, proj |-> p, expert |-> e, part |-> q]) =
          [layer |-> l, proj |-> p, expert |-> e,
           part |-> IF q = "weight" THEN "scale" ELSE "weight"]
  BY DEF Mate
<1>2. Mate(t) = [layer |-> t.layer, proj |-> t.proj, expert |-> t.expert,
                 part |-> IF t.part = "weight" THEN "scale" ELSE "weight"]
  BY <1>0, <1>1
<1>3. Mate(Mate(t)) = [layer |-> t.layer, proj |-> t.proj, expert |-> t.expert,
                       part |-> t.part]
  BY <1>0, <1>1, <1>2
<1> QED
  BY <1>1, <1>2, <1>3

LEMMA WeightsStart ==
  ASSUME Init
  PROVE  WeightsInv
<1>1. /\ fp8 \in Stores /\ kept \in Keeps /\ todo = Weights!Checkpoint(fp8)
      /\ pending = {} /\ loaded = [s \in Weights!Shards |-> << >>]
  BY DEF Init, Weights!Init
<1>2. \A t \in Weights!Checkpoint(fp8) : Weights!Shard(t) \in Weights!Shards
  BY <1>1 DEF Weights!Shards
<1> QED
  BY <1>1, <1>2 DEF WeightsInv, Arrived, LoadedOf

\* The tensor that arrives changes what is loaded of itself, or of it and its mate.
LEMMA OneArrives ==
  ASSUME WeightsInv, NEW t \in todo, Weights!Arrives(t)
  PROVE  /\ t \in Weights!Checkpoint(fp8) /\ t \notin todo' /\ Arrived' = Arrived \cup {t}
         /\ fp8' = fp8 /\ kept' = kept /\ todo' = todo \ {t}
         /\ \A u : Weights!Skipped(u)' = Weights!Skipped(u) /\ Weights!Halves(u)' = Weights!Halves(u)
         /\ \A u \in Weights!Checkpoint(fp8) : u # t /\ Mate(u) # t => LoadedOf(u)' = LoadedOf(u)
         /\ \A u \in Weights!Checkpoint(fp8) : Weights!Shard(u) \in Weights!Shards
<1>1. /\ t \in Weights!Checkpoint(fp8) /\ fp8' = fp8 /\ kept' = kept /\ todo' = todo \ {t}
      /\ fp8 \in Stores /\ todo \subseteq Weights!Checkpoint(fp8)
  BY DEF WeightsInv, Weights!Arrives
<1>2. Arrived' = Arrived \cup {t}
  BY <1>1 DEF Arrived
<1>3. \A u : Weights!Skipped(u)' = Weights!Skipped(u) /\ Weights!Halves(u)' = Weights!Halves(u)
  BY <1>1 DEF Weights!Skipped, Weights!Halves
<1>4. ASSUME NEW u \in Weights!Checkpoint(fp8), u # t, Mate(u) # t
      PROVE  LoadedOf(u)' = LoadedOf(u)
  <2>1. (u \in todo' <=> u \in todo) /\ (Mate(u) \in todo' <=> Mate(u) \in todo)
    BY <1>1, <1>4
  <2> QED BY <1>3, <2>1 DEF LoadedOf, Weights!Raw, Weights!Dequantized, Mate
<1>5. \A u \in Weights!Checkpoint(fp8) : Weights!Shard(u) \in Weights!Shards
  BY <1>1 DEF Weights!Shards
<1> QED
  BY <1>1, <1>2, <1>3, <1>4, <1>5

\* One tensor arrives that is no half.
LEMMA WholeKeeps ==
  ASSUME NodeAssumption, WeightsInv, NEW t \in todo, Weights!Arrives(t), UNCHANGED pending,
         Weights!Skipped(t) \/ ~Weights!Halves(t),
         \/ loaded' = loaded /\ LoadedOf(t)' = << >>
         \/ /\ loaded' = [loaded EXCEPT ![Weights!Shard(t)] = Append(@, Weights!Raw(t))]
            /\ LoadedOf(t)' = <<Weights!Raw(t)>>
  PROVE  WeightsInv'
<1> DEFINE C == Weights!Checkpoint(fp8)
<1>1. /\ t \in C /\ t \notin todo' /\ Arrived' = Arrived \cup {t} /\ todo' = todo \ {t}
      /\ fp8' = fp8 /\ kept' = kept /\ t \in todo /\ t \notin Arrived
      /\ \A u : Weights!Skipped(u)' = Weights!Skipped(u) /\ Weights!Halves(u)' = Weights!Halves(u)
      /\ \A u \in C : Weights!Shard(u) \in Weights!Shards
      /\ todo \subseteq C
  BY OneArrives DEF WeightsInv, Arrived
<1>2. ASSUME NEW u \in C, Mate(u) = t
      PROVE  /\ Weights!Skipped(u) = Weights!Skipped(t) /\ Weights!Halves(u) = Weights!Halves(t)
             /\ u # t
  BY <1>2, MatesAre DEF Weights!Skipped, Weights!Halves
<1>3. ASSUME NEW u \in C, u # t PROVE LoadedOf(u)' = LoadedOf(u)
  <2>1. CASE Mate(u) # t
    BY <1>3, <2>1, OneArrives
  <2>2. CASE Mate(u) = t
    <3>1. Weights!Skipped(u) \/ ~Weights!Halves(u)
      BY <1>2, <2>2
    <3>2. u \in todo' <=> u \in todo
      BY <1>1, <1>3
    <3> QED BY <1>1, <3>1, <3>2 DEF LoadedOf, Weights!Raw
  <2> QED BY <2>1, <2>2
<1>4. loaded[Weights!Shard(t)] = << >>
  BY <1>1 DEF WeightsInv, LoadedOf
<1>5. /\ loaded' = [s \in Weights!Shards |-> loaded'[s]]
      /\ loaded'[Weights!Shard(t)] = LoadedOf(t)'
      /\ \A s \in Weights!Shards : s # Weights!Shard(t) => loaded'[s] = loaded[s]
  <2>1. loaded = [s \in Weights!Shards |-> loaded[s]] /\ Weights!Shard(t) \in Weights!Shards
    BY <1>1 DEF WeightsInv
  <2> QED BY <1>4, <2>1
<1>6. ASSUME NEW u \in C PROVE loaded'[Weights!Shard(u)] = LoadedOf(u)'
  <2>1. CASE u = t
    BY <1>5, <2>1
  <2>2. CASE u # t
    <3>1. Weights!Shard(u) # Weights!Shard(t) /\ Weights!Shard(u) \in Weights!Shards
      BY <1>1, <2>2, ShardsDiffer
    <3> QED BY <1>3, <1>5, <2>2, <3>1 DEF WeightsInv
  <2> QED BY <2>1, <2>2
<1>7. \A s \in Weights!Shards : (\A u \in C : Weights!Shard(u) # s) => loaded'[s] = << >>
  BY <1>1, <1>5 DEF WeightsInv
<1>8. pending' = {u \in Arrived' : /\ ~Weights!Skipped(u)' /\ Weights!Halves(u)'
                                  /\ Mate(u) \in todo'}
  <2>1. \A u \in Arrived' : u \in C /\ (u \in Arrived \/ u = t)
    BY <1>1 DEF Arrived
  <2>2. \A u \in Arrived' : ~Weights!Skipped(u) /\ Weights!Halves(u) =>
          u \in Arrived /\ (Mate(u) \in todo' <=> Mate(u) \in todo)
    BY <1>1, <1>2, <2>1
  <2>3. pending = {u \in Arrived : ~Weights!Skipped(u) /\ Weights!Halves(u) /\ Mate(u) \in todo}
    BY DEF WeightsInv
  <2> QED BY <1>1, <2>2, <2>3
<1>9. fp8' \in Stores /\ kept' \in Keeps /\ todo' \subseteq C
  BY <1>1 DEF WeightsInv
<1> QED
  BY <1>1, <1>5, <1>6, <1>7, <1>8, <1>9 DEF WeightsInv, Mate

LEMMA PairKeeps ==
  ASSUME NodeAssumption, WeightsInv, NEW t \in todo, Weights!Pair(t)
  PROVE  WeightsInv'
<1> DEFINE C == Weights!Checkpoint(fp8)
           m == Mate(t)
           mate == {u \in pending : Weights!Key(u) = Weights!Key(t) /\ u.part # t.part}
           w == CHOOSE u \in mate \cup {t} : u.part = "weight"
           s == CHOOSE u \in mate \cup {t} : u.part = "scale"
<1>1. /\ ~Weights!Skipped(t) /\ Weights!Halves(t) /\ Weights!Arrives(t)
      /\ IF mate = {}
         THEN pending' = pending \cup {t} /\ loaded' = loaded
         ELSE pending' = pending \ mate /\ Weights!Into(Weights!Shard(w), Weights!Dequantized(w, s))
  BY DEF Weights!Pair
<1>2. /\ t \in C /\ t \notin todo' /\ Arrived' = Arrived \cup {t} /\ todo' = todo \ {t}
      /\ fp8' = fp8 /\ kept' = kept /\ t \in todo /\ t \notin Arrived
      /\ \A u : Weights!Skipped(u)' = Weights!Skipped(u) /\ Weights!Halves(u)' = Weights!Halves(u)
      /\ \A u \in C : Weights!Shard(u) \in Weights!Shards
      /\ todo \subseteq C
      /\ \A u \in C : u # t /\ Mate(u) # t => LoadedOf(u)' = LoadedOf(u)
  BY <1>1, OneArrives DEF WeightsInv, Arrived
<1>3. /\ m \in C /\ m # t /\ Mate(m) = t /\ m.part # t.part
      /\ ~Weights!Skipped(m) /\ Weights!Halves(m) /\ Weights!Key(m) = Weights!Key(t)
  <2>1. t.proj \in fp8
    BY <1>1 DEF Weights!Halves
  <2> QED BY <1>1, <1>2, <2>1, TensorsAre, MatesAre
          DEF Weights!Skipped, Weights!Halves, Weights!Key
<1>4. \A u \in C : Mate(u) = t => u = m
  BY MatesAre
<1>5. pending = {u \in Arrived : ~Weights!Skipped(u) /\ Weights!Halves(u) /\ Mate(u) \in todo}
  BY DEF WeightsInv
<1>6. m \in pending <=> m \notin todo
  BY <1>2, <1>3, <1>5 DEF Arrived
<1>7. mate = IF m \in todo THEN {} ELSE {m}
  <2>1. ASSUME NEW u \in mate PROVE u = m
    <3>1. /\ u \in C /\ u.layer = t.layer /\ u.proj = t.proj /\ u.part # t.part
          /\ u.expert = 0 /\ t.expert = 0
      BY <1>1, <1>5 DEF Weights!Key, Weights!Halves, Arrived
    <3>2. u.part = m.part /\ m.layer = t.layer /\ m.proj = t.proj /\ m.expert = t.expert
      BY <1>2, <3>1, MatesAre, TensorsAre
    <3> QED BY <1>3, <3>1, <3>2, TensorsAre
  <2> QED BY <1>3, <1>6, <2>1
<1> HIDE DEF mate, m
<1>8. ASSUME NEW u \in C, u # t, u # m PROVE LoadedOf(u)' = LoadedOf(u)
  BY <1>2, <1>4, <1>8
<1>9. fp8' \in Stores /\ kept' \in Keeps /\ todo' \subseteq C
  BY <1>2 DEF WeightsInv
<1>10. /\ t.expert = 0 /\ m.expert = 0
       /\ t.part = "weight" => m.part = "scale"
       /\ t.part # "weight" => t.part = "scale" /\ m.part = "weight"
  BY <1>1, <1>2, <1>3, TensorsAre, MatesAre DEF Weights!Halves, m
<1>11. loaded[Weights!Shard(t)] = << >> /\ loaded[Weights!Shard(m)] = << >>
  BY <1>2, <1>3 DEF WeightsInv, LoadedOf
<1>12. loaded = [x \in Weights!Shards |-> loaded[x]]
  BY DEF WeightsInv
<1>13. CASE m \in todo
  <2>1. pending' = pending \cup {t} /\ loaded' = loaded
    BY <1>1, <1>7, <1>13
  <2>2. LoadedOf(t)' = << >> /\ LoadedOf(m)' = << >>
    <3>1. m \in todo'
      BY <1>2, <1>3, <1>13
    <3> QED BY <1>1, <1>2, <1>3, <3>1 DEF LoadedOf, m
  <2>3. ASSUME NEW u \in C PROVE loaded'[Weights!Shard(u)] = LoadedOf(u)'
    BY <1>8, <1>11, <2>1, <2>2 DEF WeightsInv
  <2>4. pending' = {u \in Arrived' : /\ ~Weights!Skipped(u)' /\ Weights!Halves(u)'
                                    /\ Mate(u) \in todo'}
    <3>1. \A u \in Arrived : Mate(u) # t
      BY <1>3, <1>4, <1>13 DEF Arrived
    <3>2. m \in todo'
      BY <1>2, <1>3, <1>13
    <3> QED BY <1>1, <1>2, <1>5, <2>1, <3>1, <3>2 DEF m
  <2> QED
    BY <1>2, <1>9, <1>12, <2>1, <2>3, <2>4 DEF WeightsInv, Mate
<1>14. CASE m \notin todo
  <2> DEFINE ww == IF t.part = "weight" THEN t ELSE m
             ss == IF t.part = "weight" THEN m ELSE t
  <2>1. pending' = pending \ {m} /\ w = ww /\ s = ss /\ Mate(ww) = ss /\ Mate(ss) = ww
        /\ ww \in C /\ ss \in C /\ ww # ss /\ ww.part = "weight" /\ ss.part = "scale"
    <3>1. pending' = pending \ {m} /\ mate = {m}
      BY <1>1, <1>7, <1>14
    <3>2. w = ww
      BY <1>10, <3>1
    <3>3. s = ss
      BY <1>10, <3>1
    <3> QED BY <1>2, <1>3, <1>10, <3>1, <3>2, <3>3 DEF m
  <2>2. LoadedOf(ww)' = <<Weights!Dequantized(ww, ss)>> /\ LoadedOf(ss)' = << >>
    <3>1. /\ ww \notin todo' /\ ss \notin todo' /\ ww.expert = 0 /\ ss.expert = 0
          /\ ~Weights!Skipped(ww)' /\ Weights!Halves(ww)'
          /\ ~Weights!Skipped(ss)' /\ Weights!Halves(ss)'
      BY <1>1, <1>2, <1>3, <1>10, <1>14
    <3> QED BY <2>1, <3>1 DEF LoadedOf, Weights!Dequantized, Weights!Padded
  <2>3. loaded' = [loaded EXCEPT ![Weights!Shard(ww)] = <<Weights!Dequantized(ww, ss)>>]
    <3>1. loaded[Weights!Shard(ww)] = << >>
      BY <1>11
    <3>2. mate # {} /\ w = ww /\ s = ss
      BY <1>7, <1>14, <2>1
    <3>3. Weights!Into(Weights!Shard(w), Weights!Dequantized(w, s))
      BY <1>1, <3>2
    <3> HIDE DEF w, s, ww, ss
    <3>4. Weights!Into(Weights!Shard(ww), Weights!Dequantized(ww, ss))
      BY <3>2, <3>3
    <3>5. \A v : Append(<< >>, v) = <<v>>
      OBVIOUS
    <3>6. \A x, v : loaded[x] = << >> /\ loaded' = [loaded EXCEPT ![x] = Append(@, v)] =>
                   loaded' = [loaded EXCEPT ![x] = <<v>>]
      BY <3>5
    <3> QED BY <3>1, <3>4, <3>6 DEF Weights!Into
  <2>4. \A u \in C : u # ww /\ u # ss => LoadedOf(u)' = LoadedOf(u)
    BY <1>8
  <2>5. loaded[Weights!Shard(ss)] = << >>
    BY <1>11
  <2> HIDE DEF ww, ss
  <2>6. /\ loaded' = [x \in Weights!Shards |-> loaded'[x]]
        /\ loaded'[Weights!Shard(ww)] = <<Weights!Dequantized(ww, ss)>>
        /\ \A x \in Weights!Shards : x # Weights!Shard(ww) => loaded'[x] = loaded[x]
    BY <1>2, <1>12, <2>1, <2>3
  <2>7. ASSUME NEW u \in C PROVE loaded'[Weights!Shard(u)] = LoadedOf(u)'
    <3>1. CASE u = ww
      BY <2>2, <2>6, <3>1
    <3>2. CASE u # ww
      <4>1. Weights!Shard(u) # Weights!Shard(ww) /\ Weights!Shard(u) \in Weights!Shards
        BY <1>2, <2>1, <3>2, ShardsDiffer
      <4>2. loaded'[Weights!Shard(u)] = loaded[Weights!Shard(u)]
        BY <2>6, <4>1
      <4>3. loaded[Weights!Shard(u)] = LoadedOf(u)
        BY DEF WeightsInv
      <4> QED BY <2>2, <2>4, <2>5, <3>2, <4>2, <4>3
    <3> QED BY <3>1, <3>2
  <2>8. \A x \in Weights!Shards : (\A u \in C : Weights!Shard(u) # x) => loaded'[x] = << >>
    BY <2>1, <2>6 DEF WeightsInv
  <2>9. pending' = {u \in Arrived' : /\ ~Weights!Skipped(u)' /\ Weights!Halves(u)'
                                    /\ Mate(u) \in todo'}
    <3>1. \A u \in Arrived : u \in C /\ (Mate(u) = t => u = m)
      BY <1>4 DEF Arrived
    <3>2. Mate(t) \notin todo' /\ Mate(m) \notin todo'
      BY <1>2, <1>3, <1>14 DEF m
    <3> QED BY <1>2, <1>5, <2>1, <3>1, <3>2
  <2> QED
    BY <1>2, <1>9, <2>6, <2>7, <2>8, <2>9 DEF WeightsInv, Mate
<1> QED
  BY <1>13, <1>14

LEMMA WeightsKeep ==
  ASSUME NodeAssumption, WeightsInv, [Next]_vars
  PROVE  WeightsInv'
<1>1. Weights!Next \/ UNCHANGED weightsVars
  BY DEF Next, GateNext, vars
<1>2. CASE UNCHANGED weightsVars
  BY <1>2 DEF WeightsInv, weightsVars, Arrived, LoadedOf, Weights!Skipped, Weights!Halves,
     Weights!Raw, Weights!Dequantized, Mate
<1>3. ASSUME NEW t \in todo, Weights!Skip(t) PROVE WeightsInv'
  <2>1. LoadedOf(t)' = << >>
    BY <1>3 DEF Weights!Skip, Weights!Skipped, LoadedOf
  <2> QED BY <1>3, <2>1, WholeKeeps DEF Weights!Skip
<1>4. ASSUME NEW t \in todo, Weights!Plain(t) PROVE WeightsInv'
  <2>1. LoadedOf(t)' = <<Weights!Raw(t)>>
    BY <1>4, OneArrives DEF Weights!Plain, LoadedOf, Weights!Raw
  <2> QED BY <1>4, <2>1, WholeKeeps DEF Weights!Plain, Weights!Into
<1>5. ASSUME NEW t \in todo, Weights!Expert(t) PROVE WeightsInv'
  <2>1. LoadedOf(t)' = IF t.expert \in LocalExperts THEN <<Weights!Raw(t)>> ELSE << >>
    BY <1>5, OneArrives DEF Weights!Expert, LoadedOf, Weights!Raw
  <2> QED BY <1>5, <2>1, WholeKeeps DEF Weights!Expert, Weights!Into
<1> QED
  BY <1>1, <1>2, <1>3, <1>4, <1>5, PairKeeps DEF Weights!Next

\* load_weights and the two buffers of FP8 halves: a shard is loaded once, from its own
\* tensor and its own scales, in any order of the tensors, for every set of local
\* experts, of projections stored as FP8 and of those the model keeps so.
THEOREM NodeLoadedOnce ==
  ASSUME NodeAssumption
  PROVE  Spec => []LoadedOnce
<1>1. ASSUME WeightsInv, NEW t \in Weights!Checkpoint(fp8)
      PROVE  LET other == [t EXCEPT !.part = IF @ = "weight" THEN "scale" ELSE "weight"]
                 here == t.layer \notin Mtp /\ (t.expert = 0 \/ t.expert \in LocalExperts)
                 whole == t.proj \in fp8 \ kept
             IN LoadedOf(t) =
                  IF ~here \/ t \in todo THEN << >>
                  ELSE IF ~whole
                  THEN <<[from |-> t, scale |-> Weights!NoScale,
                          padded |-> t.proj = "kv_a_proj"]>>
                  ELSE IF t.part = "scale" \/ other \in todo THEN << >>
                  ELSE <<[from |-> t, scale |-> other, padded |-> t.proj = "kv_a_proj"]>>
  <2>1. fp8 \subseteq {"q_a_proj", "kv_a_proj", "q_b_proj", "o_proj", "wk"}
    BY <1>1 DEF WeightsInv, NodeAssumption, Weights!LoadAssumption
  <2>2. t.expert # 0 => t.proj \notin fp8
    BY <1>1, <2>1, TensorsAre
  <2>3. Mate(t) = [t EXCEPT !.part = IF @ = "weight" THEN "scale" ELSE "weight"]
    BY DEF Mate
  <2> HIDE DEF Mate
  <2> QED
    BY <2>2, <2>3 DEF LoadedOf, Weights!Skipped, Weights!Halves, Weights!Raw,
       Weights!Dequantized, Weights!Padded
<1>2. ASSUME WeightsInv PROVE Weights!LoadedOnce
  <2> DEFINE parts(s) == {t \in Weights!Checkpoint(fp8) : Weights!Shard(t) = s}
             t(s) == CHOOSE u \in parts(s) : TRUE
  <2>1. ASSUME NEW s \in Weights!Shards, parts(s) = {} PROVE loaded[s] = << >>
    BY <1>2, <2>1 DEF WeightsInv
  <2>2. ASSUME NEW s \in Weights!Shards, parts(s) # {}
        PROVE  t(s) \in Weights!Checkpoint(fp8) /\ loaded[s] = LoadedOf(t(s))
    <3>1. t(s) \in parts(s)
      BY <2>2
    <3> HIDE DEF t
    <3> QED BY <1>2, <3>1 DEF WeightsInv
  <2>3. todo = {} => pending = {}
    BY <1>2 DEF WeightsInv
  <2> HIDE DEF parts
  <2>4. ASSUME NEW s \in Weights!Shards
        PROVE  LET other == [t(s) EXCEPT !.part = IF @ = "weight" THEN "scale" ELSE "weight"]
                   here == t(s).layer \notin Mtp
                           /\ (t(s).expert = 0 \/ t(s).expert \in LocalExperts)
                   whole == t(s).proj \in fp8 \ kept
               IN loaded[s] =
                    IF parts(s) = {} \/ ~here \/ t(s) \in todo THEN << >>
                    ELSE IF ~whole
                    THEN <<[from |-> t(s), scale |-> Weights!NoScale,
                            padded |-> t(s).proj = "kv_a_proj"]>>
                    ELSE IF t(s).part = "scale" \/ other \in todo THEN << >>
                    ELSE <<[from |-> t(s), scale |-> other,
                            padded |-> t(s).proj = "kv_a_proj"]>>
    <3> HIDE DEF t
    <3>1. CASE parts(s) = {}
      BY <2>1, <3>1
    <3>2. CASE parts(s) # {}
      <4>1. t(s) \in Weights!Checkpoint(fp8) /\ loaded[s] = LoadedOf(t(s))
        BY <2>2, <3>2
      <4> QED BY <1>1, <1>2, <3>2, <4>1
    <3> QED BY <3>1, <3>2
  <2> QED
    BY <2>3, <2>4 DEF Weights!LoadedOnce, parts
<1> QED
  BY <1>2, WeightsStart, WeightsKeep, PTL DEF Spec, LoadedOnce

-----------------------------------------------------------------------------
(* Warming up.                                                             *)

Models == {"model", "float32"}
Variants ==
  Nat \cup (Nat \X BOOLEAN) \cup (Models \X Models) \cup (BOOLEAN \X Models \X {0, 1})
Named == {"mhc", "pairs", "reject", "prepare", "pages", "tail"}
WarmPasses == [pass : Named, launches : Seq(Variants)]

\* A pass to come launches the variant.
Comes(v, ps) ==
  \E i \in 1..Len(ps) : /\ ps[i].pass = v[1]
                        /\ \E j \in 1..Len(ps[i].launches) : ps[i].launches[j] = v[2]

\* Requests need nothing but what is compiled, has failed, is yet to come or is not tried.
Accounted(v) ==
  v \in compiled \/ v[1] \in failed \/ Comes(v, passes) \/ Warm!Untried(v)

WarmInv ==
  /\ specConfig \in Specs
  /\ passes \in Seq(WarmPasses)
  /\ \A v \in Warm!Needed : v = <<v[1], v[2]>> /\ Accounted(v)
  /\ Warm!LateMeansFailed

LEMMA MinIs ==
  ASSUME NEW S, S \subseteq Int, NEW m \in S, \A y \in S : m <= y
  PROVE  Warm!Min(S) = m
<1>1. \A x \in S : (\A y \in S : x <= y) => x = m
  OBVIOUS
<1> QED
  BY <1>1 DEF Warm!Min

\* Every size that is selected is among those the mHC pass goes through, at its rank.
LEMMA SizesAll ==
  ASSUME NodeAssumption
  PROVE  /\ Warm!MhcSizes \in Seq(1..MaxTokens)
         /\ \A c \in Warm!Sizes :
              \E j \in 1..Len(Warm!MhcSizes) : Warm!MhcSizes[j] = c
<1>1. MaxTokens \in 1..16384 /\ Captures \subseteq Nat \ {0}
  BY DEF NodeAssumption, Warm!WarmUpAssumption
<1> DEFINE max == Warm!Min({MaxTokens, 16384})
           sizes == Warm!Sizes
           upto(s) == {t \in sizes : t <= s}
           n == Warm!Cardinality(sizes)
           at(i) == CHOOSE s \in sizes : Warm!Cardinality(upto(s)) = i
<1>2. max = MaxTokens
  <2>1. {MaxTokens, 16384} \subseteq Int /\ \A y \in {MaxTokens, 16384} : MaxTokens <= y
    BY <1>1
  <2> QED BY <2>1, MinIs
<1>2a. sizes = {s \in Warm!Candidates \cup Captures \cup {max} : 1 <= s /\ s <= max}
  BY DEF Warm!Sizes
<1> HIDE DEF max, sizes
<1>3. sizes \subseteq 1..MaxTokens /\ sizes \subseteq Nat
  <2>1. \A s \in Warm!Candidates \cup Captures \cup {max} : s \in Nat
    <3>1. Warm!Candidates \subseteq Nat
      BY DEF Warm!Candidates
    <3>2. max \in Nat /\ Captures \subseteq Nat
      BY <1>1, <1>2
    <3> QED BY <3>1, <3>2
  <2> QED BY <1>1, <1>2, <1>2a, <2>1
<1>4. IsFiniteSet(sizes) /\ n = Cardinality(sizes) /\ n \in Nat
  <2>1. IsFiniteSet(1..MaxTokens) /\ sizes \in SUBSET (1..MaxTokens)
    BY <1>1, <1>3, FS_Interval
  <2> HIDE DEF sizes
  <2>2. IsFiniteSet(sizes)
    BY <2>1, FS_Subset
  <2> QED BY <2>2, FS_CardinalityType DEF Warm!Cardinality, Cardinality
<1>5. \A s : Warm!Cardinality(upto(s)) = Cardinality(upto(s))
  BY DEF Warm!Cardinality, Cardinality
<1> HIDE DEF n
<1>7. ASSUME NEW s \in sizes
      PROVE  IsFiniteSet(upto(s)) /\ Cardinality(upto(s)) \in 1..n
  <2>1. upto(s) \subseteq sizes
    OBVIOUS
  <2>2. IsFiniteSet(upto(s)) /\ Cardinality(upto(s)) <= n /\ Cardinality(upto(s)) \in Nat
    BY <1>4, <2>1, FS_Subset, FS_CardinalityType
  <2>3. s \in upto(s)
    BY <1>3
  <2>4. Cardinality(upto(s)) # 0
    BY <2>2, <2>3, FS_EmptySet
  <2> HIDE DEF upto
  <2> QED BY <1>4, <2>2, <2>4
<1>8. ASSUME NEW s \in sizes, NEW t \in sizes, s < t
      PROVE  Cardinality(upto(s)) # Cardinality(upto(t))
  <2>1. upto(s) \subseteq upto(t) /\ t \in upto(t) /\ t \notin upto(s)
    <3>1. \A x \in sizes : x <= s => x <= t
      BY <1>3, <1>8
    <3>2. t <= t /\ ~(t <= s)
      BY <1>3, <1>8
    <3> QED BY <3>1, <3>2
  <2>2. IsFiniteSet(upto(t))
    BY <1>7
  <2> HIDE DEF upto
  <2> QED BY <2>1, <2>2, FS_Subset
<1>9. ASSUME NEW s \in sizes
      PROVE  /\ Cardinality(upto(s)) \in 1..n
             /\ at(Cardinality(upto(s))) = s
  <2>1. \A t \in sizes : Cardinality(upto(t)) = Cardinality(upto(s)) => t = s
    BY <1>3, <1>8
  <2> HIDE DEF upto
  <2> QED BY <1>5, <1>7, <2>1
<1>10. Warm!MhcSizes = [i \in 1..n |-> at(i)]
  BY DEF Warm!MhcSizes, sizes, n
<1>11. ASSUME NEW i \in 1..n PROVE at(i) \in sizes
  \* Every rank is one of a size: else two sizes would share one.
  <2> DEFINE rank == [s \in sizes |-> Cardinality(upto(s))]
  <2>1. /\ rank \in [sizes -> 1..n] /\ \A s, t \in sizes : rank[s] = rank[t] => s = t
        /\ \A s \in sizes : rank[s] = Cardinality(upto(s))
    <3>1. \A s \in sizes : rank[s] = Cardinality(upto(s)) /\ Cardinality(upto(s)) \in 1..n
      BY <1>7
    <3>2. \A s, t \in sizes : Cardinality(upto(s)) = Cardinality(upto(t)) => s = t
      BY <1>3, <1>8
    <3> HIDE DEF upto
    <3> QED BY <3>1, <3>2
  <2> HIDE DEF rank, upto
  <2>2. rank \in Injection(sizes, 1..n)
    BY <2>1 DEF Injection, IsInjective
  <2>3. IsFiniteSet(1..n) /\ Cardinality(1..n) = n
    BY <1>4, FS_Interval
  <2>4. rank \in Surjection(sizes, 1..n)
    BY <1>4, <2>2, <2>3, FS_Injection
  <2>5. PICK s \in sizes : rank[s] = i
    BY <2>4 DEF Surjection
  <2> QED BY <1>5, <2>1, <2>5
<1> HIDE DEF at, upto
<1>12. Warm!MhcSizes \in Seq(1..MaxTokens) /\ Len(Warm!MhcSizes) = n
  <2>1. \A i \in 1..n : at(i) \in 1..MaxTokens
    BY <1>3, <1>11
  <2> DEFINE f == [i \in 1..n |-> at(i)]
  <2>2. f \in [1..n -> 1..MaxTokens]
    BY <2>1
  <2> HIDE DEF f
  <2>3. \A S : \A g \in [1..n -> S] : g \in Seq(S) /\ Len(g) = n
    BY <1>4
  <2>4. f \in Seq(1..MaxTokens) /\ Len(f) = n
    BY <2>2, <2>3, Zenon
  <2> QED BY <1>10, <2>4 DEF f
<1>13. ASSUME NEW c \in sizes
       PROVE  \E j \in 1..Len(Warm!MhcSizes) : Warm!MhcSizes[j] = c
  BY <1>9, <1>10, <1>12
<1> QED
  BY <1>12, <1>13 DEF sizes

LEMMA KeyIs ==
  ASSUME NodeAssumption, NEW t \in 1..MaxTokens
  PROVE  Warm!MhcKey(t) \in Variants
<1> DEFINE few == t <= 16
<1>1. Splits[t] \in Nat
  BY DEF NodeAssumption, Warm!WarmUpAssumption
<1>2. few \in BOOLEAN
  OBVIOUS
<1>3. Warm!MhcKey(t) = <<Splits[t], few>>
  BY Zenon DEF Warm!MhcKey
<1> HIDE DEF few
<1>4. <<Splits[t], few>> \in Nat \X BOOLEAN
  BY <1>1, <1>2
<1> QED
  BY <1>3, <1>4, Zenon DEF Variants

\* What the mHC pass launches.
MhcLaunches == [i \in DOMAIN Warm!MhcSizes |-> Warm!MhcKey(Warm!MhcSizes[i])]

LEMMA KeysAll ==
  ASSUME NodeAssumption
  PROVE  /\ MhcLaunches \in Seq(Variants)
         /\ \A c \in Warm!Sizes :
              \E j \in 1..Len(MhcLaunches) : MhcLaunches[j] = Warm!MhcKey(c)
<1> DEFINE sz == Warm!MhcSizes
<1>1. /\ sz \in Seq(1..MaxTokens) /\ Len(sz) \in Nat /\ DOMAIN sz = 1..Len(sz)
      /\ \A i \in 1..Len(sz) : sz[i] \in 1..MaxTokens
  BY SizesAll, LenProperties, ElementOfSeq
<1>2. \A i \in 1..Len(sz) : Warm!MhcKey(sz[i]) \in Variants
  BY <1>1, KeyIs
<1>3. \A c \in Warm!Sizes : \E j \in 1..Len(sz) : sz[j] = c
  BY SizesAll
<1> HIDE DEF sz
<1>4. MhcLaunches = [i \in 1..Len(sz) |-> Warm!MhcKey(sz[i])]
  BY <1>1 DEF MhcLaunches, sz
<1>5. MhcLaunches \in [1..Len(sz) -> Variants]
  BY <1>2, <1>4
<1>6. MhcLaunches \in Seq(Variants) /\ Len(MhcLaunches) = Len(sz)
  BY <1>1, <1>5
<1>7. \A j \in 1..Len(sz) : MhcLaunches[j] = Warm!MhcKey(sz[j])
  BY <1>4
<1> QED
  BY <1>3, <1>6, <1>7

\* next_power_of_2, up to 256.
Block256(n) ==
  IF n <= 2 THEN 2 ELSE IF n <= 4 THEN 4 ELSE IF n <= 8 THEN 8 ELSE IF n <= 16 THEN 16
  ELSE IF n <= 32 THEN 32 ELSE IF n <= 64 THEN 64 ELSE IF n <= 128 THEN 128 ELSE 256

LEMMA BlockIs ==
  ASSUME specConfig.n \in 0..15, NEW s \in 1..300
  PROVE  Warm!Block(s) = Block256(s + specConfig.n + 1)
<1> DEFINE n == s + Warm!NumQuery
           pows == {2, 4, 8, 16, 32, 64, 128, 256, 512}
           cap == Warm!Min({n, 512})
           above == {b \in pows : b >= cap}
           min == Warm!Min(above)
<1>1. n = s + specConfig.n + 1 /\ n \in 2..316
  <2> DEFINE d == specConfig.n
  <2>1. d \in 0..15 /\ n = s + (d + 1)
    BY DEF Warm!NumQuery
  <2> HIDE DEF d, n
  <2>2. n = s + d + 1 /\ n \in 2..316
    BY <2>1
  <2> QED BY <2>2 DEF d
<1>2. cap = n
  BY <1>1 DEF Warm!Min
<1>3. ASSUME NEW m \in above, \A b \in above : m <= b PROVE min = m
  BY <1>3 DEF Warm!Min
<1>4. min = IF n > 256 THEN 512 ELSE Block256(n)
  <2> HIDE DEF n, cap, min
  <2> USE <1>1, <1>2, <1>3
  <2>1. CASE n <= 2
    BY <2>1 DEF Block256
  <2>2. CASE 2 < n /\ n <= 4
    BY <2>2 DEF Block256
  <2>3. CASE 4 < n /\ n <= 8
    BY <2>3 DEF Block256
  <2>4. CASE 8 < n /\ n <= 16
    BY <2>4 DEF Block256
  <2>5. CASE 16 < n /\ n <= 32
    BY <2>5 DEF Block256
  <2>6. CASE 32 < n /\ n <= 64
    BY <2>6 DEF Block256
  <2>7. CASE 64 < n /\ n <= 128
    BY <2>7 DEF Block256
  <2>8. CASE 128 < n /\ n <= 256
    BY <2>8 DEF Block256
  <2>9. CASE 256 < n
    BY <2>9 DEF Block256
  <2> QED BY <2>1, <2>2, <2>3, <2>4, <2>5, <2>6, <2>7, <2>8, <2>9
<1>5. Warm!Block(s) = Warm!Min({256, min})
  BY DEF Warm!Block
<1> HIDE DEF min, cap, n
<1>6. Warm!Min({256, min}) = IF min > 256 THEN 256 ELSE min
  BY <1>1, <1>4 DEF Warm!Min, Block256
<1> QED
  BY <1>1, <1>4, <1>5, <1>6 DEF Block256

\* The ladder goes over every block there is, but for those between its first two.
LEMMA LadderAll ==
  ASSUME specConfig.n \in 0..15, NEW s \in 1..300
  PROVE  \/ \E i \in 1..5 : Warm!Block(Warm!Ladder[i]) = Warm!Block(s)
         \/ Warm!Block(s) \in (Warm!Block(1) + 1)..(Warm!Block(16) - 1)
<1>1. /\ Warm!Ladder[1] = 1 /\ Warm!Ladder[2] = 16 /\ Warm!Ladder[3] = 32
      /\ Warm!Ladder[4] = 64 /\ Warm!Ladder[5] = 128
  BY DEF Warm!Ladder
<1>2. \A q \in 1..300 : Warm!Block(q) = Block256(q + specConfig.n + 1)
  BY BlockIs
<1> DEFINE m == specConfig.n
<1>3. /\ Warm!Block(1) = Block256(1 + m + 1) /\ Warm!Block(16) = Block256(16 + m + 1)
      /\ Warm!Block(32) = Block256(32 + m + 1) /\ Warm!Block(64) = Block256(64 + m + 1)
      /\ Warm!Block(128) = Block256(128 + m + 1) /\ Warm!Block(s) = Block256(s + m + 1)
  BY <1>2
<1>4. m \in 0..15
  OBVIOUS
<1> HIDE DEF m
<1>5. /\ Warm!Block(16) = 32 /\ Warm!Block(32) = 64 /\ Warm!Block(64) = 128
      /\ Warm!Block(128) = 256
  BY <1>3, <1>4 DEF Block256
<1>6. CASE s + m + 1 > 16
  BY <1>1, <1>3, <1>4, <1>5, <1>6 DEF Block256
<1>7. CASE s + m + 1 <= 16
  <2>1. /\ Block256(1 + m + 1) <= Block256(s + m + 1) /\ Block256(s + m + 1) <= 16
        /\ Block256(1 + m + 1) \in Nat /\ Block256(s + m + 1) \in Nat
    BY <1>4, <1>7 DEF Block256
  <2>2. Warm!Block(1) <= Warm!Block(s) /\ Warm!Block(s) <= 16
        /\ Warm!Block(1) \in Nat /\ Warm!Block(s) \in Nat
    BY <1>3, <2>1
  <2>3. CASE Warm!Block(1) = Warm!Block(s)
    BY <1>1, <2>3
  <2>4. CASE Warm!Block(1) # Warm!Block(s)
    BY <1>5, <2>2, <2>4
  <2> QED BY <2>3, <2>4
<1> QED
  BY <1>4, <1>6, <1>7

-----------------------------------------------------------------------------
\* What the passes launch covers what requests need.

LEMMA Concat ==
  ASSUME NEW S, NEW a \in Seq(S), NEW b \in Seq(S)
  PROVE  /\ a \o b \in Seq(S) /\ Len(a \o b) = Len(a) + Len(b)
         /\ \A i \in 1..Len(a) : (a \o b)[i] = a[i]
         /\ \A i \in 1..Len(b) : (a \o b)[Len(a) + i] = b[i]
<1>0. /\ a \o b \in Seq(S) /\ Len(a \o b) = Len(a) + Len(b)
      /\ \A i \in 1..(Len(a) + Len(b)) :
           (a \o b)[i] = IF i <= Len(a) THEN a[i] ELSE b[i - Len(a)]
  BY ConcatProperties, Zenon
<1>1. Len(a) \in Nat /\ Len(b) \in Nat
  BY LenProperties
<1>2. \A i \in 1..Len(b) : /\ Len(a) + i \in 1..(Len(a) + Len(b))
                           /\ ~(Len(a) + i <= Len(a)) /\ (Len(a) + i) - Len(a) = i
  BY <1>1
<1>3. \A i \in 1..Len(a) : i \in 1..(Len(a) + Len(b)) /\ i <= Len(a)
  BY <1>1
<1> QED
  BY <1>0, <1>2, <1>3

\* The four variants of a number of requests: of the number the compiler only sees whether
\* it is one.
LEMMA FourVariants ==
  ASSUME NEW S, NEW p \in S, NEW q \in S, NEW r \in S, NEW t \in S
  PROVE  /\ <<p, q>> \o <<r, t>> \in Seq(S) /\ Len(<<p, q>> \o <<r, t>>) = 4
         /\ (<<p, q>> \o <<r, t>>)[1] = p /\ (<<p, q>> \o <<r, t>>)[2] = q
         /\ (<<p, q>> \o <<r, t>>)[3] = r /\ (<<p, q>> \o <<r, t>>)[4] = t
<1>1. <<p, q>> \in Seq(S) /\ <<r, t>> \in Seq(S) /\ Len(<<p, q>>) = 2 /\ Len(<<r, t>>) = 2
  OBVIOUS
<1>2. 1 + 1 = 2 /\ 2 + 1 = 3 /\ 2 + 2 = 4 /\ 1 \in 1..2 /\ 2 \in 1..2
  OBVIOUS
<1>3. /\ (<<p, q>> \o <<r, t>>)[1] = <<p, q>>[1] /\ (<<p, q>> \o <<r, t>>)[2] = <<p, q>>[2]
      /\ (<<p, q>> \o <<r, t>>)[2 + 1] = <<r, t>>[1]
      /\ (<<p, q>> \o <<r, t>>)[2 + 2] = <<r, t>>[2]
      /\ <<p, q>> \o <<r, t>> \in Seq(S) /\ Len(<<p, q>> \o <<r, t>>) = 2 + 2
  BY <1>1, <1>2, Concat
<1> QED
  BY <1>2, <1>3

LEMMA VariantIs ==
  ASSUME NEW b \in BOOLEAN, NEW dt \in Models, NEW temp \in {0, 1}
  PROVE  <<b, dt, temp>> \in Variants
<1>1. <<b, dt, temp>> \in BOOLEAN \X Models \X {0, 1}
  BY Zenon
<1> QED
  BY <1>1, Zenon DEF Variants

\* What is launched for a number of requests.
FourOf(b) == << <<b, "model", 0>>, <<b, "model", 1>> >>
             \o << <<b, "float32", 0>>, <<b, "float32", 1>> >>

LEMMA FourAre ==
  ASSUME NEW b \in BOOLEAN
  PROVE  /\ FourOf(b) \in Seq(Variants) /\ Len(FourOf(b)) = 4
         /\ \A dt \in Models, temp \in {0, 1} : \E j \in 1..4 : FourOf(b)[j] = <<b, dt, temp>>
<1> DEFINE p == <<b, "model", 0>>
           q == <<b, "model", 1>>
           r == <<b, "float32", 0>>
           t == <<b, "float32", 1>>
<1>1. "model" \in Models /\ "float32" \in Models
  BY DEF Models
<1>2. p \in Variants /\ q \in Variants /\ r \in Variants /\ t \in Variants
  BY <1>1, VariantIs
<1>3. FourOf(b) = <<p, q>> \o <<r, t>>
  BY Zenon DEF FourOf
<1>4. /\ FourOf(b) \in Seq(Variants) /\ Len(FourOf(b)) = 4
      /\ FourOf(b)[1] = p /\ FourOf(b)[2] = q /\ FourOf(b)[3] = r /\ FourOf(b)[4] = t
  <2> HIDE DEF p, q, r, t
  <2> QED BY <1>2, <1>3, FourVariants
<1>5. 1 \in 1..4 /\ 2 \in 1..4 /\ 3 \in 1..4 /\ 4 \in 1..4
  OBVIOUS
<1>6. ASSUME NEW dt \in Models, NEW temp \in {0, 1}
      PROVE  \E j \in 1..4 : FourOf(b)[j] = <<b, dt, temp>>
  <2>0. (dt = "model" \/ dt = "float32") /\ (temp = 0 \/ temp = 1)
    BY DEF Models
  <2>1. CASE dt = "model" /\ temp = 0
    BY <1>4, <1>5, <2>1, Zenon
  <2>2. CASE dt = "model" /\ temp = 1
    BY <1>4, <1>5, <2>2, Zenon
  <2>3. CASE dt = "float32" /\ temp = 0
    BY <1>4, <1>5, <2>3, Zenon
  <2>4. CASE dt = "float32" /\ temp = 1
    BY <1>4, <1>5, <2>4, Zenon
  <2> QED BY <2>0, <2>1, <2>2, <2>3, <2>4, Zenon
<1> QED
  BY <1>4, <1>6, Zenon

LEMMA RejectionsAll ==
  ASSUME NodeAssumption
  PROVE  /\ Warm!Rejections \in Seq(Variants)
         /\ \A n \in 1..MaxSeqs, dt \in Models, temp \in {0, 1} :
              \E j \in 1..Len(Warm!Rejections) : Warm!Rejections[j] = <<n = 1, dt, temp>>
<1>1. MaxSeqs \in Nat \ {0}
  BY DEF NodeAssumption, Warm!WarmUpAssumption
<1> DEFINE ones == FourOf(1 = 1)
           rest == IF MaxSeqs = 1 THEN << >> ELSE FourOf(MaxSeqs = 1)
           more == IF MaxSeqs = 1 THEN 0 ELSE 4
<1>3. Warm!Rejections = ones \o rest
  BY Zenon DEF Warm!Rejections, FourOf
<1>4. /\ (1 = 1) \in BOOLEAN /\ (MaxSeqs = 1) \in BOOLEAN
      /\ \A n \in 1..MaxSeqs : (n = 1) = (1 = 1) \/ ((n = 1) = (MaxSeqs = 1) /\ MaxSeqs # 1)
  BY <1>1
<1>5. ones \in Seq(Variants) /\ Len(ones) = 4 /\ (MaxSeqs # 1 => rest = FourOf(MaxSeqs = 1))
  BY <1>4, FourAre, Zenon
<1>6. rest \in Seq(Variants) /\ Len(rest) = more
  <2>1. << >> \in Seq(Variants) /\ Len(<< >>) = 0
    OBVIOUS
  <2>2. FourOf(MaxSeqs = 1) \in Seq(Variants) /\ Len(FourOf(MaxSeqs = 1)) = 4
    BY <1>4, FourAre, Zenon
  <2>3. CASE MaxSeqs = 1
    BY <2>1, <2>3
  <2>4. CASE MaxSeqs # 1
    BY <2>2, <2>4, Zenon
  <2> QED BY <2>3, <2>4
<1> HIDE DEF ones, rest
<1>7. /\ Warm!Rejections \in Seq(Variants) /\ Len(Warm!Rejections) = 4 + more
      /\ \A i \in 1..4 : Warm!Rejections[i] = ones[i]
      /\ MaxSeqs # 1 => \A i \in 1..4 : Warm!Rejections[4 + i] = rest[i]
  <2>1. more \in Nat /\ 4 \in Nat /\ (MaxSeqs # 1 => more = 4)
    OBVIOUS
  <2> HIDE DEF more
  <2>2. /\ ones \o rest \in Seq(Variants) /\ Len(ones \o rest) = 4 + more
        /\ \A i \in 1..4 : (ones \o rest)[i] = ones[i]
        /\ \A i \in 1..more : (ones \o rest)[4 + i] = rest[i]
    <3>1. ones \in Seq(Variants) /\ rest \in Seq(Variants) /\ Len(ones) = 4 /\ Len(rest) = more
      BY <1>5, <1>6, Zenon
    <3>2. /\ ones \o rest \in Seq(Variants) /\ Len(ones \o rest) = Len(ones) + Len(rest)
          /\ \A i \in 1..Len(ones) : (ones \o rest)[i] = ones[i]
          /\ \A i \in 1..Len(rest) : (ones \o rest)[Len(ones) + i] = rest[i]
      <4>1. ones \in Seq(Variants) /\ rest \in Seq(Variants)
        BY <3>1
      <4> QED BY <4>1, Concat
    <3> QED BY <3>1, <3>2
  <2> QED BY <1>3, <2>1, <2>2, Zenon
<1>8. \A i \in 1..4 : i \in 1..(4 + more) /\ (MaxSeqs # 1 => 4 + i \in 1..(4 + more))
  OBVIOUS
<1>9. ASSUME NEW n \in 1..MaxSeqs, NEW dt \in Models, NEW temp \in {0, 1}
      PROVE  \E j \in 1..Len(Warm!Rejections) : Warm!Rejections[j] = <<n = 1, dt, temp>>
  <2>1. CASE (n = 1) = (1 = 1)
    <3>1. PICK j \in 1..4 : ones[j] = <<1 = 1, dt, temp>>
      BY <1>4, FourAre, Zenon DEF ones
    <3>2. Warm!Rejections[j] = <<n = 1, dt, temp>>
      BY <1>7, <2>1, <3>1, Zenon
    <3> QED BY <1>7, <1>8, <3>2, Zenon
  <2>2. CASE (n = 1) = (MaxSeqs = 1) /\ MaxSeqs # 1
    <3>0. \E j \in 1..4 : FourOf(MaxSeqs = 1)[j] = <<MaxSeqs = 1, dt, temp>>
      BY <1>4, FourAre, Zenon
    <3>1. PICK j \in 1..4 : rest[j] = <<MaxSeqs = 1, dt, temp>>
      BY <1>5, <2>2, <3>0, Zenon
    <3>2. Warm!Rejections[4 + j] = <<n = 1, dt, temp>>
      BY <1>7, <2>2, <3>1, Zenon
    <3> QED BY <1>7, <1>8, <2>2, <3>2, Zenon
  <2> QED BY <1>4, <2>1, <2>2, Zenon
<1> QED
  BY <1>7, <1>9, Zenon

LEMMA PassIs ==
  ASSUME NEW name \in Named, NEW ls \in Seq(Variants)
  PROVE  /\ Warm!Pass(name, ls) \in WarmPasses
         /\ Warm!Pass(name, ls).pass = name /\ Warm!Pass(name, ls).launches = ls
BY DEF Warm!Pass, WarmPasses

\* A pass comes that launches the variant j-th.
LEMMA ComesIn ==
  ASSUME NEW ps \in Seq(WarmPasses), NEW i \in 1..Len(ps), NEW name \in Named,
         NEW ls \in Seq(Variants), ps[i] = Warm!Pass(name, ls), NEW j \in 1..Len(ls), NEW x,
         ls[j] = x
  PROVE  Comes(<<name, x>>, ps)
<1>1. ps[i].pass = name /\ ps[i].launches = ls
  BY PassIs
<1>2. <<name, x>>[1] = name /\ <<name, x>>[2] = x
  OBVIOUS
<1> QED
  BY <1>1, <1>2 DEF Comes

LEMMA SequencesOf ==
  ASSUME NEW S, NEW a \in S, NEW b \in S, NEW c \in S, NEW d \in S, NEW e \in S, NEW f \in S
  PROVE  /\ <<a, b, c>> \in Seq(S) /\ Len(<<a, b, c>>) = 3
         /\ <<a, b, c, d>> \in Seq(S) /\ Len(<<a, b, c, d>>) = 4
         /\ <<a>> \in Seq(S) /\ Len(<<a>>) = 1
         /\ <<a, b, c, d, e, f>> \in Seq(S) /\ Len(<<a, b, c, d, e, f>>) = 6
OBVIOUS

LEMMA LaunchesAre ==
  ASSUME NodeAssumption, specConfig.n \in 0..15
  PROVE  /\ [i \in DOMAIN Warm!Ladder |-> Warm!Block(Warm!Ladder[i])] \in Seq(Variants)
         /\ Len([i \in DOMAIN Warm!Ladder |-> Warm!Block(Warm!Ladder[i])]) = 5
         /\ [t \in 1..NumTables |-> t] \in Seq(Variants)
         /\ Len([t \in 1..NumTables |-> t]) = NumTables
         /\ Warm!Pairs \in Seq(Variants) /\ <<4, 8, 16>> \in Seq(Variants)
<1>0. Nat \subseteq Variants /\ Models \X Models \subseteq Variants
  BY DEF Variants
<1>1. DOMAIN Warm!Ladder = 1..5 /\ \A i \in 1..5 : Warm!Ladder[i] \in 1..300
  BY DEF Warm!Ladder
<1>2. \A i \in 1..5 : Warm!Block(Warm!Ladder[i]) \in Nat
  <2>1. ASSUME NEW i \in 1..5 PROVE Warm!Block(Warm!Ladder[i]) \in Nat
    <3>1. Warm!Block(Warm!Ladder[i]) = Block256(Warm!Ladder[i] + specConfig.n + 1)
      BY <1>1, BlockIs
    <3> QED BY <3>1 DEF Block256
  <2> QED BY <2>1
<1>3. NumTables \in Nat
  BY DEF NodeAssumption, Warm!WarmUpAssumption
<1> DEFINE blocks == [i \in 1..5 |-> Warm!Block(Warm!Ladder[i])]
           pages == [t \in 1..NumTables |-> t]
<1>4. blocks \in [1..5 -> Nat] /\ pages \in [1..NumTables -> Nat]
  BY <1>2, <1>3
<1>5. blocks = [i \in DOMAIN Warm!Ladder |-> Warm!Block(Warm!Ladder[i])]
  BY <1>1
<1> HIDE DEF blocks, pages
<1>6. blocks \in Seq(Nat) /\ Len(blocks) = 5 /\ pages \in Seq(Nat) /\ Len(pages) = NumTables
  <2>1. \A f, n : n \in Nat /\ f \in [1..n -> Nat] => f \in Seq(Nat) /\ Len(f) = n
    OBVIOUS
  <2> QED BY <1>3, <1>4, <2>1
<1>7. blocks \in Seq(Variants) /\ pages \in Seq(Variants)
  BY <1>0, <1>6, SeqMonotonic
<1>8. Warm!Pairs \in Seq(Variants)
  <2>1. /\ <<"model", "model">> \in Models \X Models /\ <<"float32", "float32">> \in Models \X Models
        /\ <<"float32", "model">> \in Models \X Models
        /\ <<"model", "float32">> \in Models \X Models
    BY DEF Models
  <2>2. \A a, b, c, d \in Variants : <<a, b, c, d>> \in Seq(Variants)
    BY SequencesOf
  <2> QED BY <1>0, <2>1, <2>2 DEF Warm!Pairs
<1>9. <<4, 8, 16>> \in Seq(Variants)
  <2>1. 4 \in Variants /\ 8 \in Variants /\ 16 \in Variants
    BY <1>0
  <2> QED BY <2>1, SequencesOf
<1> QED
  BY <1>5, <1>6, <1>7, <1>8, <1>9 DEF pages

\* The passes of a start, and where those are that requests depend on.
LEMMA PassesAre ==
  ASSUME NodeAssumption, specConfig.n \in 0..15
  PROVE  /\ Warm!Passes \in Seq(WarmPasses) /\ 1 \in 1..Len(Warm!Passes)
         /\ Warm!Passes[1] = Warm!MhcPass
         /\ specConfig.method # "none" /\ specConfig.n = 0 =>
              /\ Len(Warm!Passes) = 3
              /\ Warm!Passes[2] = Warm!PreparePass /\ Warm!Passes[3] = Warm!TailPass
         /\ specConfig.method # "none" /\ specConfig.n # 0 =>
              /\ Len(Warm!Passes) = 6
              /\ Warm!Passes[3] = Warm!Pass("reject", Warm!Rejections)
              /\ Warm!Passes[4] = Warm!PreparePass
              /\ Warm!Passes[5] = Warm!PagesPass
              /\ Warm!Passes[6] = Warm!TailPass
<1> DEFINE a == Warm!MhcPass
           b == Warm!Pass("pairs", Warm!Pairs)
           c == Warm!Pass("reject", Warm!Rejections)
           d == Warm!PreparePass
           e == Warm!PagesPass
           f == Warm!TailPass
<1>1. /\ a \in WarmPasses /\ b \in WarmPasses /\ c \in WarmPasses
      /\ d \in WarmPasses /\ e \in WarmPasses /\ f \in WarmPasses
  <2>1. /\ "mhc" \in Named /\ "pairs" \in Named /\ "reject" \in Named /\ "prepare" \in Named
        /\ "pages" \in Named /\ "tail" \in Named
    BY DEF Named
  <2>2. MhcLaunches \in Seq(Variants) /\ Warm!Rejections \in Seq(Variants)
    BY KeysAll, RejectionsAll
  <2>3. a \in WarmPasses
    <3>1. a = Warm!Pass("mhc", MhcLaunches)
      BY DEF Warm!MhcPass, MhcLaunches
    <3> QED BY <2>1, <2>2, <3>1, PassIs
  <2>3a. b \in WarmPasses /\ c \in WarmPasses
    BY <2>1, <2>2, LaunchesAre, PassIs
  <2>4. d \in WarmPasses
    <3>1. CASE specConfig.method # "dflash"
      <4>1. << >> \in Seq(Variants)
        OBVIOUS
      <4>2. d = Warm!Pass("prepare", << >>)
        BY <3>1 DEF Warm!PreparePass
      <4> QED BY <2>1, <4>1, <4>2, PassIs
    <3>2. CASE specConfig.method = "dflash"
      BY <2>1, <3>2, LaunchesAre, PassIs DEF Warm!PreparePass
    <3> QED BY <3>1, <3>2
  <2>5. e \in WarmPasses
    BY <2>1, LaunchesAre, PassIs DEF Warm!PagesPass
  <2>6. f \in WarmPasses
    <3> DEFINE ls == <<4, 8, 16>>
    <3>1. ls \in Seq(Variants) /\ f = Warm!Pass("tail", ls)
      BY LaunchesAre DEF Warm!TailPass
    <3> HIDE DEF ls, f
    <3> QED BY <2>1, <3>1, PassIs
  <2> QED BY <2>3, <2>3a, <2>4, <2>5, <2>6
<1>2. /\ specConfig.method = "none" => Warm!Passes = <<a>>
      /\ specConfig.method # "none" /\ specConfig.n = 0 => Warm!Passes = <<a, d, f>>
      /\ specConfig.method # "none" /\ specConfig.n # 0 => Warm!Passes = <<a, b, c, d, e, f>>
  <2> HIDE DEF a, b, c, d, e, f
  <2>1. Warm!Passes = CASE specConfig.method = "none" -> <<a>>
                        [] specConfig.method # "none" /\ specConfig.n = 0 -> <<a, d, f>>
                        [] OTHER -> <<a, b, c, d, e, f>>
    BY DEF Warm!Passes, a, b, c, d, e, f
  <2> QED BY <2>1
<1> HIDE DEF a, b, c, d, e, f
<1>3. /\ <<a>> \in Seq(WarmPasses) /\ Len(<<a>>) = 1
      /\ <<a, d, f>> \in Seq(WarmPasses) /\ Len(<<a, d, f>>) = 3
      /\ <<a, b, c, d, e, f>> \in Seq(WarmPasses) /\ Len(<<a, b, c, d, e, f>>) = 6
  BY <1>1, SequencesOf
<1>4. /\ <<a>>[1] = a /\ <<a, d, f>>[1] = a /\ <<a, d, f>>[2] = d /\ <<a, d, f>>[3] = f
      /\ <<a, b, c, d, e, f>>[1] = a /\ <<a, b, c, d, e, f>>[3] = c
      /\ <<a, b, c, d, e, f>>[4] = d /\ <<a, b, c, d, e, f>>[5] = e
      /\ <<a, b, c, d, e, f>>[6] = f
  OBVIOUS
<1>5. /\ Warm!Passes \in Seq(WarmPasses) /\ 1 \in 1..Len(Warm!Passes) /\ Warm!Passes[1] = a
  <2>1. CASE Warm!Passes = <<a>>
    BY <1>3, <1>4, <2>1
  <2>2. CASE Warm!Passes = <<a, d, f>>
    BY <1>3, <1>4, <2>2
  <2>3. CASE Warm!Passes = <<a, b, c, d, e, f>>
    BY <1>3, <1>4, <2>3
  <2> QED BY <1>2, <2>1, <2>2, <2>3, Zenon
<1> QED
  BY <1>2, <1>3, <1>4, <1>5 DEF a, c, d, e, f

\* Whatever requests may need is launched by the pass it is named for, or not tried.
LEMMA PassesCover ==
  ASSUME NodeAssumption, specConfig.n \in 0..15, NEW v \in Warm!Needed
  PROVE  v = <<v[1], v[2]>> /\ (Comes(v, Warm!Passes) \/ Warm!Untried(v))
<1> DEFINE ps == Warm!Passes
           last == IF specConfig.n = 0 THEN 3 ELSE 6
           some == specConfig.method # "none"
<1>0. /\ ps \in Seq(WarmPasses) /\ 1 \in 1..Len(ps)
      /\ some => Len(ps) = last /\ last \in 1..last
  BY PassesAre
<1>n. /\ "mhc" \in Named /\ "pairs" \in Named /\ "reject" \in Named /\ "prepare" \in Named
      /\ "pages" \in Named /\ "tail" \in Named
  BY DEF Named
<1>1. ASSUME NEW t \in 1..MaxTokens, v = <<"mhc", Warm!MhcKey(t)>>
      PROVE  v = <<v[1], v[2]>> /\ (Comes(v, Warm!Passes) \/ Warm!Untried(v))
  <2>1. ps[1] = Warm!Pass("mhc", MhcLaunches)
    BY PassesAre DEF Warm!MhcPass, MhcLaunches
  <2>2. v[1] = "mhc" /\ v[2] = Warm!MhcKey(t) /\ v = <<v[1], v[2]>>
    BY <1>1
  <2>3. CASE \E c \in Warm!Sizes : Warm!MhcKey(t) = Warm!MhcKey(c)
    <3>1. PICK j \in 1..Len(MhcLaunches) : MhcLaunches[j] = Warm!MhcKey(t)
      BY <2>3, KeysAll
    <3>2. MhcLaunches \in Seq(Variants)
      BY KeysAll
    <3> HIDE DEF ps, last, some
    <3>3. Comes(<<"mhc", Warm!MhcKey(t)>>, ps)
      BY <1>0, <1>n, <2>1, <3>1, <3>2, ComesIn
    <3> QED BY <1>1, <2>2, <3>3 DEF ps
  <2>4. CASE \A c \in Warm!Sizes : Warm!MhcKey(t) # Warm!MhcKey(c)
    <3>1. Warm!Untried(v)
      BY <2>2, <2>4 DEF Warm!Untried
    <3> QED BY <2>2, <3>1
  <2> QED BY <2>3, <2>4
<1>2. ASSUME NEW k \in {4, 8, 16}, v = <<"tail", k>>
      PROVE  v = <<v[1], v[2]>> /\ (Comes(v, Warm!Passes) \/ Warm!Untried(v))
  <2>0. CASE ~some
    BY <1>2, <2>0 DEF Warm!Untried
  <2>a. CASE some
    <3>1. ps[last] = Warm!Pass("tail", <<4, 8, 16>>)
      BY <2>a, PassesAre DEF Warm!TailPass
    <3>2. PICK j \in 1..Len(<<4, 8, 16>>) : <<4, 8, 16>>[j] = k
      <4>1. Len(<<4, 8, 16>>) = 3 /\ <<4, 8, 16>>[1] = 4 /\ <<4, 8, 16>>[2] = 8
            /\ <<4, 8, 16>>[3] = 16
        OBVIOUS
      <4> QED BY <4>1
    <3>3. <<4, 8, 16>> \in Seq(Variants)
      BY LaunchesAre
    <3> DEFINE ls == <<4, 8, 16>>
    <3>4. /\ ls \in Seq(Variants) /\ j \in 1..Len(ls) /\ ls[j] = k
          /\ ps[last] = Warm!Pass("tail", ls)
      BY <3>1, <3>2, <3>3
    <3> HIDE DEF ps, last, ls, some
    <3>5. Comes(<<"tail", k>>, ps)
      BY <1>0, <1>n, <2>a, <3>4, ComesIn
    <3> QED BY <1>2, <3>5 DEF ps
  <2> QED BY <2>0, <2>a
<1>3. ASSUME specConfig.method = "dflash", NEW s \in 1..Warm!Min({MaxTokens, 300}),
             v = <<"prepare", Warm!Block(s)>>
      PROVE  v = <<v[1], v[2]>> /\ (Comes(v, Warm!Passes) \/ Warm!Untried(v))
  <2> DEFINE ls == [i \in DOMAIN Warm!Ladder |-> Warm!Block(Warm!Ladder[i])]
             at == IF specConfig.n = 0 THEN 2 ELSE 4
  <2>0. s \in 1..300
    <3>1. MaxTokens \in 1..16384
      BY DEF NodeAssumption, Warm!WarmUpAssumption
    <3>2. Warm!Min({MaxTokens, 300}) = IF MaxTokens <= 300 THEN MaxTokens ELSE 300
      BY <3>1, MinIs
    <3> QED BY <3>1, <3>2
  <2>1. ps[at] = Warm!Pass("prepare", ls) /\ at \in 1..Len(ps)
    BY <1>3, PassesAre DEF Warm!PreparePass
  <2>2. CASE \E j \in 1..5 : Warm!Block(Warm!Ladder[j]) = Warm!Block(s)
    <3>1. PICK j \in 1..5 : Warm!Block(Warm!Ladder[j]) = Warm!Block(s)
      BY <2>2
    <3>2. ls \in Seq(Variants) /\ Len(ls) = 5 /\ ls[j] = Warm!Block(s)
      <4>1. DOMAIN Warm!Ladder = 1..5
        BY DEF Warm!Ladder
      <4> QED BY <3>1, <4>1, LaunchesAre
    <3> HIDE DEF ps, last, ls, some, at
    <3>3. Comes(<<"prepare", Warm!Block(s)>>, ps)
      BY <1>0, <1>n, <2>1, <3>2, ComesIn
    <3> QED BY <1>3, <3>3 DEF ps
  <2>3. CASE Warm!Block(s) \in (Warm!Block(1) + 1)..(Warm!Block(16) - 1)
    BY <1>3, <2>3 DEF Warm!Untried
  <2> QED BY <2>0, <2>2, <2>3, LadderAll
<1>4. ASSUME some, specConfig.n # 0, NEW m \in 1..MaxSeqs, NEW dt \in Models, NEW temp \in {0, 1},
             v = <<"reject", <<m = 1, dt, temp>>>>
      PROVE  v = <<v[1], v[2]>> /\ (Comes(v, Warm!Passes) \/ Warm!Untried(v))
  <2> DEFINE x == <<m = 1, dt, temp>>
  <2>1. ps[3] = Warm!Pass("reject", Warm!Rejections) /\ 3 \in 1..Len(ps)
    BY <1>4, PassesAre
  <2>2. PICK j \in 1..Len(Warm!Rejections) : Warm!Rejections[j] = x
    BY RejectionsAll, Zenon
  <2>3. Warm!Rejections \in Seq(Variants)
    BY RejectionsAll, Zenon
  <2>5. v = <<"reject", x>>
    BY <1>4, Zenon
  <2> HIDE DEF ps, last, x, some
  <2>4. Comes(<<"reject", x>>, ps)
    BY <1>0, <1>n, <2>1, <2>2, <2>3, ComesIn
  <2> QED BY <2>4, <2>5 DEF ps
<1>5. ASSUME some, specConfig.n # 0, NEW t \in 1..NumTables, v = <<"pages", t>>
      PROVE  v = <<v[1], v[2]>> /\ (Comes(v, Warm!Passes) \/ Warm!Untried(v))
  <2> DEFINE ls == [k \in 1..NumTables |-> k]
  <2>1. ps[5] = Warm!Pass("pages", ls) /\ 5 \in 1..Len(ps)
    BY <1>5, PassesAre DEF Warm!PagesPass
  <2>3. ls \in Seq(Variants) /\ Len(ls) = NumTables /\ ls[t] = t
    <3>1. ls[t] = t
      OBVIOUS
    <3>2. NumTables \in Nat
      BY DEF NodeAssumption, Warm!WarmUpAssumption
    <3> QED BY <3>1, <3>2, LaunchesAre
  <2> HIDE DEF ps, last, ls, some
  <2>4. Comes(<<"pages", t>>, ps)
    BY <1>0, <1>n, <2>1, <2>3, ComesIn
  <2> QED BY <1>5, <2>4 DEF ps
<1> DEFINE Mhc == {<<"mhc", Warm!MhcKey(t)>> : t \in 1..MaxTokens}
           Tails == {<<"tail", k>> : k \in {4, 8, 16}}
           Prepares == {<<"prepare", Warm!Block(s)>> : s \in 1..Warm!Min({MaxTokens, 300})}
           Rejects == {<<"reject", x>> :
                       x \in {n = 1 : n \in 1..MaxSeqs} \X {"model", "float32"} \X {0, 1}}
           Pages == {<<"pages", t>> : t \in 1..NumTables}
<1>6. \/ v \in Mhc \/ v \in Tails
      \/ specConfig.method = "dflash" /\ v \in Prepares
      \/ some /\ specConfig.n # 0 /\ (v \in Rejects \/ v \in Pages)
  <2>1. Warm!Needed = Mhc \cup Tails
                      \cup (IF specConfig.method # "dflash" THEN {} ELSE Prepares)
                      \cup IF specConfig.method = "none" \/ specConfig.n = 0 THEN {}
                           ELSE Rejects \cup Pages
    BY DEF Warm!Needed
  <2> HIDE DEF Mhc, Tails, Prepares, Rejects, Pages
  <2> QED BY <2>1
<1>7. /\ v \in Mhc => \E t \in 1..MaxTokens : v = <<"mhc", Warm!MhcKey(t)>>
      /\ v \in Tails => \E k \in {4, 8, 16} : v = <<"tail", k>>
      /\ v \in Prepares =>
           \E s \in 1..Warm!Min({MaxTokens, 300}) : v = <<"prepare", Warm!Block(s)>>
      /\ v \in Pages => \E t \in 1..NumTables : v = <<"pages", t>>
  OBVIOUS
<1>8. v \in Rejects => \E m \in 1..MaxSeqs, dt \in Models, temp \in {0, 1} :
                         v = <<"reject", <<m = 1, dt, temp>>>>
  BY DEF Models
<1> HIDE DEF Mhc, Tails, Prepares, Rejects, Pages, some
<1> QED
  BY <1>1, <1>2, <1>3, <1>4, <1>5, <1>6, <1>7, <1>8, Zenon

-----------------------------------------------------------------------------
LEMMA WarmStart ==
  ASSUME NodeAssumption, Init
  PROVE  WarmInv
<1>1. /\ specConfig \in Specs /\ passes = Warm!Passes /\ failed = {} /\ compiled = {}
      /\ late = {}
  BY DEF Init, Warm!Init
<1>2. specConfig.n \in 0..15
  BY <1>1 DEF NodeAssumption, Warm!WarmUpAssumption
<1>3. \A v \in Warm!Needed : v = <<v[1], v[2]>> /\ Accounted(v)
  BY <1>1, <1>2, PassesCover DEF Accounted
<1> QED
  BY <1>1, <1>2, <1>3, PassesAre DEF WarmInv, Warm!LateMeansFailed

\* What a step does to the passes to come: a pass that is through is taken off, a launch
\* that is made is taken off its pass.
LEMMA TakenOff ==
  ASSUME NEW ps \in Seq(WarmPasses), ps # << >>, NEW v, Comes(v, ps)
  PROVE  /\ Tail(ps) \in Seq(WarmPasses)
         /\ Comes(v, Tail(ps)) \/ (/\ Head(ps).pass = v[1]
                                   /\ \E j \in 1..Len(Head(ps).launches) :
                                        Head(ps).launches[j] = v[2])
<1>1. PICK i \in 1..Len(ps) : /\ ps[i].pass = v[1]
                              /\ \E j \in 1..Len(ps[i].launches) : ps[i].launches[j] = v[2]
  BY DEF Comes
<1>2. /\ Tail(ps) \in Seq(WarmPasses) /\ Len(Tail(ps)) = Len(ps) - 1 /\ Len(ps) \in Nat
      /\ \A k \in 1..Len(Tail(ps)) : Tail(ps)[k] = ps[k + 1]
      /\ Head(ps) = ps[1]
  BY HeadTailProperties, LenProperties
<1>3. CASE i = 1
  BY <1>1, <1>2, <1>3
<1>4. CASE i # 1
  <2>1. i - 1 \in 1..Len(Tail(ps)) /\ Tail(ps)[i - 1] = ps[i]
    BY <1>2, <1>4
  <2> QED BY <1>1, <1>2, <2>1 DEF Comes
<1> QED
  BY <1>3, <1>4

LEMMA LaunchMade ==
  ASSUME NEW ps \in Seq(WarmPasses), ps # << >>, Head(ps).launches # << >>, NEW v,
         Comes(v, ps), v = <<v[1], v[2]>>
  PROVE  /\ [ps EXCEPT ![1].launches = Tail(@)] \in Seq(WarmPasses)
         /\ \/ Comes(v, [ps EXCEPT ![1].launches = Tail(@)])
            \/ v = <<Head(ps).pass, Head(Head(ps).launches)>>
<1> DEFINE p == ps[1]
           ls == p.launches
           one == [p EXCEPT !.launches = Tail(ls)]
           qs == [ps EXCEPT ![1] = one]
<1>1. /\ Len(ps) \in Nat /\ 1 \in 1..Len(ps) /\ p \in WarmPasses /\ Head(ps) = p
      /\ ls \in Seq(Variants) /\ ls # << >>
      /\ ps = [i \in 1..Len(ps) |-> ps[i]]
  <2>1. Head(ps) = ps[1] /\ Len(ps) \in Nat /\ Len(ps) # 0
    BY LenProperties, EmptySeq
  <2>2. p \in WarmPasses
    BY <2>1, ElementOfSeq
  <2> QED BY <2>1, <2>2, LenProperties DEF WarmPasses
<1>2. one \in WarmPasses /\ one.pass = p.pass /\ one.launches = Tail(ls)
  <2>1. Tail(ls) \in Seq(Variants)
    BY <1>1, HeadTailProperties
  <2> QED BY <1>1, <2>1 DEF WarmPasses
<1>3. qs = [ps EXCEPT ![1].launches = Tail(@)]
  OBVIOUS
<1>4. /\ qs \in Seq(WarmPasses) /\ Len(qs) = Len(ps)
      /\ \A i \in 1..Len(ps) : qs[i] = IF i = 1 THEN one ELSE ps[i]
  <2> HIDE DEF one, p
  <2> QED BY <1>1, <1>2, ExceptSeq
<1> HIDE DEF qs
<1> SUFFICES Comes(v, qs) \/ v = <<Head(ps).pass, Head(Head(ps).launches)>>
  BY <1>3, <1>4
<1>5. PICK i \in 1..Len(ps) : /\ ps[i].pass = v[1]
                              /\ \E j \in 1..Len(ps[i].launches) : ps[i].launches[j] = v[2]
  BY DEF Comes
<1>6. CASE i # 1
  <2>1. qs[i] = ps[i]
    BY <1>4, <1>6
  <2> QED BY <1>4, <1>5, <2>1 DEF Comes
<1>7. CASE i = 1
  <2>1. PICK j \in 1..Len(ls) : ls[j] = v[2]
    BY <1>5, <1>7
  <2>2. /\ Len(Tail(ls)) = Len(ls) - 1 /\ Len(ls) \in Nat /\ Head(ls) = ls[1]
        /\ \A k \in 1..Len(Tail(ls)) : Tail(ls)[k] = ls[k + 1]
    BY <1>1, HeadTailProperties, LenProperties
  <2>3. CASE j = 1
    BY <1>1, <1>5, <1>7, <2>1, <2>2, <2>3
  <2>4. CASE j # 1
    <3>1. j - 1 \in 1..Len(Tail(ls)) /\ Tail(ls)[j - 1] = v[2]
      BY <2>1, <2>2, <2>4
    <3>2. qs[1] = one /\ 1 \in 1..Len(qs)
      BY <1>1, <1>4
    <3>3. one.pass = v[1] /\ one.launches = Tail(ls)
      BY <1>2, <1>5, <1>7
    <3> HIDE DEF one, ls
    <3>4. qs[1].pass = v[1] /\ \E k \in 1..Len(qs[1].launches) : qs[1].launches[k] = v[2]
      BY <3>1, <3>2, <3>3
    <3> QED BY <3>2, <3>4 DEF Comes
  <2> QED BY <2>3, <2>4
<1> QED
  BY <1>6, <1>7

\* A launch or an exception leaves passes to come.
LEMMA PassesStay ==
  ASSUME passes \in Seq(WarmPasses), [Next]_vars
  PROVE  passes' \in Seq(WarmPasses)
<1>1. Warm!Next \/ UNCHANGED warmVars
  BY DEF Next, GateNext, vars
<1>2. \/ passes' = passes
      \/ passes # << >> /\ passes' = Tail(passes)
      \/ /\ passes # << >> /\ Head(passes).launches # << >>
         /\ passes' = [passes EXCEPT ![1].launches = Tail(@)]
  BY <1>1 DEF Warm!Next, Warm!Launch, Warm!Raise, Warm!Escape, Warm!Serve, warmVars
<1>3. CASE passes # << >> /\ passes' = Tail(passes)
  BY <1>3, HeadTailProperties
<1>4. CASE /\ passes # << >> /\ Head(passes).launches # << >>
           /\ passes' = [passes EXCEPT ![1].launches = Tail(@)]
  <2>1. 1 \in 1..Len(passes) /\ passes[1] \in WarmPasses /\ Head(passes) = passes[1]
    BY <1>4, LenProperties, EmptySeq, ElementOfSeq
  <2> DEFINE one == [passes[1] EXCEPT !.launches = Tail(@)]
             qs  == [passes EXCEPT ![1].launches = Tail(@)]
  <2>2. one \in WarmPasses
    <3>1. passes[1].launches \in Seq(Variants) /\ passes[1].launches # << >>
      BY <1>4, <2>1 DEF WarmPasses
    <3>2. Tail(passes[1].launches) \in Seq(Variants)
      BY <3>1, HeadTailProperties
    <3> QED BY <2>1, <3>2 DEF WarmPasses
  <2>3. qs = [passes EXCEPT ![1] = one]
    OBVIOUS
  <2> HIDE DEF one, qs
  <2>4. qs \in Seq(WarmPasses)
    BY <2>1, <2>2, <2>3, ExceptSeq
  <2> QED BY <1>4, <2>4 DEF qs
<1> QED
  BY <1>2, <1>3, <1>4

\* What requests need, and what is not tried, are fixed by the config.
LEMMA ConfigFixes ==
  ASSUME specConfig' = specConfig
  PROVE  Warm!Needed' = Warm!Needed /\ \A v : Warm!Untried(v)' = Warm!Untried(v)
<1>1. \A q : Warm!Block(q)' = Warm!Block(q)
  BY DEF Warm!Block, Warm!NumQuery
<1> QED
  BY <1>1 DEF Warm!Needed, Warm!Untried, Warm!Block, Warm!NumQuery

\* A step that serves nothing keeps the rest if it keeps what is accounted for.
LEMMA WarmSame ==
  ASSUME WarmInv, specConfig' = specConfig, late' = late, failed \subseteq failed',
         passes' \in Seq(WarmPasses),
         \A v \in Warm!Needed : Accounted(v) /\ v = <<v[1], v[2]>> => Accounted(v)'
  PROVE  WarmInv'
<1>1. Warm!Needed' = Warm!Needed /\ \A v : Warm!Untried(v)' = Warm!Untried(v)
  BY ConfigFixes
<1>2. Warm!LateMeansFailed'
  BY <1>1 DEF WarmInv, Warm!LateMeansFailed
<1>3. \A v \in Warm!Needed' : v = <<v[1], v[2]>> /\ Accounted(v)'
  BY <1>1 DEF WarmInv
<1> QED
  BY <1>2, <1>3 DEF WarmInv

LEMMA WarmKeep ==
  ASSUME WarmInv, [Next]_vars
  PROVE  WarmInv'
<1>1. Warm!Next \/ UNCHANGED warmVars
  BY DEF Next, GateNext, vars
<1>0. specConfig' = specConfig => \A v : Warm!Untried(v)' = Warm!Untried(v)
  BY ConfigFixes
<1>2. CASE UNCHANGED <<specConfig, passes, failed, compiled, late>>
  BY <1>0, <1>2, WarmSame DEF WarmInv, Accounted
<1>3. CASE Warm!Launch
  <2>1. /\ specConfig' = specConfig /\ failed' = failed /\ late' = late /\ passes # << >>
        /\ passes \in Seq(WarmPasses)
    BY <1>3 DEF Warm!Launch, WarmInv
  <2>2. CASE Head(passes).launches = << >>
    <3>1. passes' = Tail(passes) /\ compiled' = compiled
      BY <1>3, <2>2 DEF Warm!Launch
    <3>2. Tail(passes) \in Seq(WarmPasses)
      BY <2>1, HeadTailProperties
    <3>3. ASSUME NEW v \in Warm!Needed, Comes(v, passes) PROVE Comes(v, Tail(passes))
      <4>1. ~\E j \in 1..Len(Head(passes).launches) : Head(passes).launches[j] = v[2]
        BY <2>2
      <4> QED BY <2>1, <3>3, <4>1, TakenOff
    <3>4. \A v \in Warm!Needed : Accounted(v) => Accounted(v)'
      BY <1>0, <2>1, <3>1, <3>3 DEF Accounted
    <3> QED BY <2>1, <3>1, <3>2, <3>4, WarmSame
  <2>3. CASE Head(passes).launches # << >>
    <3> DEFINE qs == [passes EXCEPT ![1].launches = Tail(@)]
               x == <<Head(passes).pass, Head(Head(passes).launches)>>
    <3>1. passes' = qs /\ compiled' = compiled \cup {x}
      BY <1>3, <2>3 DEF Warm!Launch
    <3>2. qs \in Seq(WarmPasses)
      BY <2>1, <3>1, PassesStay
    <3>3. ASSUME NEW v \in Warm!Needed, Comes(v, passes), v = <<v[1], v[2]>>
          PROVE  Comes(v, qs) \/ v = x
      BY <2>1, <2>3, <3>3, LaunchMade
    <3> HIDE DEF qs, x
    <3>4. \A v \in Warm!Needed : Accounted(v) /\ v = <<v[1], v[2]>> => Accounted(v)'
      BY <1>0, <2>1, <3>1, <3>3 DEF Accounted
    <3> QED BY <2>1, <3>1, <3>2, <3>4, WarmSame
  <2> QED BY <2>2, <2>3
<1>4. CASE Warm!Raise
  <2>1. /\ specConfig' = specConfig /\ compiled' = compiled /\ late' = late
        /\ passes # << >> /\ passes \in Seq(WarmPasses) /\ passes' = Tail(passes)
        /\ failed' = failed \cup {Head(passes).pass}
    BY <1>4 DEF Warm!Raise, WarmInv
  <2>2. Tail(passes) \in Seq(WarmPasses)
    BY <2>1, HeadTailProperties
  <2>3. \A v \in Warm!Needed : Accounted(v) => Accounted(v)'
    BY <1>0, <2>1, TakenOff DEF Accounted
  <2> QED BY <2>1, <2>2, <2>3, WarmSame
<1>5. CASE Warm!Escape
  BY <1>2, <1>5 DEF Warm!Escape
<1>6. CASE Warm!Serve
  <2>1. PICK v \in Warm!Needed \ compiled :
          compiled' = compiled \cup {v} /\ late' = late \cup {v}
    BY <1>6 DEF Warm!Serve
  <2>2. /\ specConfig' = specConfig /\ failed' = failed /\ passes' = passes
        /\ passes = << >>
    BY <1>6 DEF Warm!Serve
  <2>3. v[1] \in failed \/ Warm!Untried(v)
    <3>1. ~Comes(v, passes)
      BY <2>2 DEF Comes
    <3> QED BY <2>1, <3>1 DEF WarmInv, Accounted
  <2>4. Warm!Needed' = Warm!Needed /\ \A w : Warm!Untried(w)' = Warm!Untried(w)
    BY <2>2, ConfigFixes
  <2>5. Warm!LateMeansFailed'
    BY <2>1, <2>2, <2>3, <2>4 DEF WarmInv, Warm!LateMeansFailed
  <2>6. \A w \in Warm!Needed : Accounted(w) => Accounted(w)'
    BY <2>1, <2>2, <2>4 DEF Accounted
  <2> QED BY <2>2, <2>4, <2>5, <2>6 DEF WarmInv
<1> QED
  BY <1>1, <1>2, <1>3, <1>4, <1>5, <1>6 DEF Warm!Next, warmVars

\* The warm-up passes: a kernel is compiled during a request only if the pass raised that
\* is there to compile it, or if no pass tries it: for any speculative config, any number of
\* requests and tokens, any captured sizes and any splits.
THEOREM NodeLateMeansFailed ==
  ASSUME NodeAssumption
  PROVE  Spec => []LateMeansFailed
<1>1. WarmInv => LateMeansFailed
  BY DEF WarmInv, LateMeansFailed
<1> QED
  BY <1>1, WarmStart, WarmKeep, PTL DEF Spec

-----------------------------------------------------------------------------
(* The patches of the image.                                               *)

\* The file of a region, and what its hunk leaves in it.
FileTab ==
  [list |-> "cuda", capability |-> "sm90", wrapper |-> "sm90", gate |-> "sm90",
   pdl |-> "cuda", prefill |-> "kpool", decode |-> "kpool", clamp |-> "compress",
   tile |-> "mla", major |-> "core", topk |-> "indexer", topk_kpool |-> "kpool",
   cap |-> "worker", guard |-> "sampler"]
News(r) == IF r = "list" THEN {"sm90", "plugin"}
           ELSE IF r \in {"cap", "guard"} THEN {"kept"} ELSE {"new"}

\* The hunks of a region that is not "list" are alike; that one has two, of two scripts.
HunkOK(s, h) ==
  /\ h.region \in DOMAIN FileTab /\ h.file = FileTab[h.region] /\ h.new \in News(h.region)
  /\ h.region # "list" => h.old = "stock" /\ h.by = IF h.new = "kept" THEN "new" ELSE "counts"
  /\ h.region = "list" =>
       \/ h.old = "stock" /\ h.new = "sm90" /\ h.by = "counts"
       \/ h.old = "sm90" /\ h.new = "plugin" /\ h.by = "new" /\ s = 3

LEMMA HunkIs ==
  ASSUME NEW f, NEW r, NEW o, NEW n, NEW b
  PROVE  LET h == Patches!Hunk(f, r, o, n, b)
         IN  h.file = f /\ h.region = r /\ h.old = o /\ h.new = n /\ h.by = b
BY DEF Patches!Hunk

LEMMA ScriptsAre ==
  /\ Len(Patches!Scripts) = 5 /\ DOMAIN Patches!Scripts = 1..5
  /\ Patches!Scripts[1] = Patches!SM90 /\ Patches!Scripts[2] = Patches!TopkFallback
  /\ Patches!Scripts[3] = Patches!PluginBackend
  /\ Patches!Scripts[4] = Patches!MemoryCap /\ Patches!Scripts[5] = Patches!BudgetGuard
  /\ DOMAIN Patches!SM90 = 1..10 /\ Len(Patches!SM90) = 10
  /\ DOMAIN Patches!TopkFallback = 1..2 /\ Len(Patches!TopkFallback) = 2
  /\ DOMAIN Patches!PluginBackend = 1..1 /\ Len(Patches!PluginBackend) = 1
  /\ DOMAIN Patches!MemoryCap = 1..1 /\ Len(Patches!MemoryCap) = 1
  /\ DOMAIN Patches!BudgetGuard = 1..1 /\ Len(Patches!BudgetGuard) = 1
<1>1. \A a, b, c, d, e : LET s == <<a, b, c, d, e>> IN
        Len(s) = 5 /\ DOMAIN s = 1..5 /\ s[1] = a /\ s[2] = b /\ s[3] = c /\ s[4] = d /\ s[5] = e
  OBVIOUS
<1>2. \A a, b, c, d, e, f, g, h, i, j : LET s == <<a, b, c, d, e, f, g, h, i, j>> IN
        Len(s) = 10 /\ DOMAIN s = 1..10
  OBVIOUS
<1>3. \A a, b : Len(<<a, b>>) = 2 /\ DOMAIN <<a, b>> = 1..2
  OBVIOUS
<1>4. \A a : Len(<<a>>) = 1 /\ DOMAIN <<a>> = 1..1
  OBVIOUS
<1>5. DOMAIN Patches!SM90 = 1..10 /\ Len(Patches!SM90) = 10
  BY <1>2 DEF Patches!SM90
<1> QED
  BY <1>1, <1>3, <1>4, <1>5 DEF Patches!Scripts, Patches!TopkFallback,
     Patches!PluginBackend, Patches!MemoryCap, Patches!BudgetGuard

LEMMA HunksAre ==
  ASSUME NEW s \in 1..5, NEW i \in DOMAIN Patches!Scripts[s]
  PROVE  /\ HunkOK(s, Patches!Scripts[s][i])
         /\ DOMAIN Patches!Scripts[s] = 1..Len(Patches!Scripts[s])
         /\ Len(Patches!Scripts[s]) \in 1..10
<1>1. DOMAIN Patches!Scripts[s] = 1..Len(Patches!Scripts[s]) /\ Len(Patches!Scripts[s]) \in 1..10
  <2>1. s = 1 \/ s = 2 \/ s = 3 \/ s = 4 \/ s = 5
    OBVIOUS
  <2> QED BY <2>1, ScriptsAre
<1>2. CASE s = 1
  <2>1. /\ Patches!SM90[1] = Patches!Hunk("cuda", "list", "stock", "sm90", "counts")
        /\ Patches!SM90[2] = Patches!Hunk("sm90", "capability", "stock", "new", "counts")
        /\ Patches!SM90[3] = Patches!Hunk("sm90", "wrapper", "stock", "new", "counts")
        /\ Patches!SM90[4] = Patches!Hunk("sm90", "gate", "stock", "new", "counts")
        /\ Patches!SM90[5] = Patches!Hunk("cuda", "pdl", "stock", "new", "counts")
        /\ Patches!SM90[6] = Patches!Hunk("kpool", "prefill", "stock", "new", "counts")
        /\ Patches!SM90[7] = Patches!Hunk("kpool", "decode", "stock", "new", "counts")
        /\ Patches!SM90[8] = Patches!Hunk("compress", "clamp", "stock", "new", "counts")
        /\ Patches!SM90[9] = Patches!Hunk("mla", "tile", "stock", "new", "counts")
        /\ Patches!SM90[10] = Patches!Hunk("core", "major", "stock", "new", "counts")
    BY DEF Patches!SM90
  <2>2. i \in 1..10 /\ Patches!Scripts[s] = Patches!SM90
    BY <1>2, ScriptsAre
  <2>3. i = 1 \/ i = 2 \/ i = 3 \/ i = 4 \/ i = 5 \/ i = 6 \/ i = 7 \/ i = 8 \/ i = 9 \/ i = 10
    BY <2>2
  <2>4. \A f, r, n : r \in {"capability", "wrapper", "gate", "pdl", "prefill", "decode",
                            "clamp", "tile", "major"} /\ f = FileTab[r] /\ n = "new" =>
          HunkOK(s, Patches!Hunk(f, r, "stock", n, "counts"))
    BY HunkIs DEF HunkOK, News, FileTab
  <2>5. HunkOK(s, Patches!Hunk("cuda", "list", "stock", "sm90", "counts"))
    BY HunkIs DEF HunkOK, News, FileTab
  <2>6. /\ FileTab["capability"] = "sm90" /\ FileTab["wrapper"] = "sm90"
        /\ FileTab["gate"] = "sm90" /\ FileTab["pdl"] = "cuda" /\ FileTab["prefill"] = "kpool"
        /\ FileTab["decode"] = "kpool" /\ FileTab["clamp"] = "compress"
        /\ FileTab["tile"] = "mla" /\ FileTab["major"] = "core"
    BY DEF FileTab
  <2> HIDE DEF HunkOK
  <2>7. /\ HunkOK(s, Patches!SM90[2]) /\ HunkOK(s, Patches!SM90[3]) /\ HunkOK(s, Patches!SM90[4])
    BY <2>1, <2>4, <2>6
  <2>8. /\ HunkOK(s, Patches!SM90[5]) /\ HunkOK(s, Patches!SM90[6]) /\ HunkOK(s, Patches!SM90[7])
    BY <2>1, <2>4, <2>6
  <2>9. /\ HunkOK(s, Patches!SM90[8]) /\ HunkOK(s, Patches!SM90[9]) /\ HunkOK(s, Patches!SM90[10])
        /\ HunkOK(s, Patches!SM90[1])
    BY <2>1, <2>4, <2>5, <2>6
  <2> QED BY <1>1, <2>2, <2>3, <2>7, <2>8, <2>9
<1>3. CASE s = 2
  <2>1. /\ Patches!TopkFallback[1] = Patches!Hunk("indexer", "topk", "stock", "new", "counts")
        /\ Patches!TopkFallback[2] = Patches!Hunk("kpool", "topk_kpool", "stock", "new", "counts")
    BY DEF Patches!TopkFallback
  <2>2. (i = 1 \/ i = 2) /\ Patches!Scripts[s] = Patches!TopkFallback
    BY <1>3, ScriptsAre
  <2>3. /\ HunkOK(s, Patches!Hunk("indexer", "topk", "stock", "new", "counts"))
        /\ HunkOK(s, Patches!Hunk("kpool", "topk_kpool", "stock", "new", "counts"))
    BY HunkIs DEF HunkOK, News, FileTab
  <2> QED BY <1>1, <2>1, <2>2, <2>3
<1>4. CASE s = 3
  <2>1. Patches!PluginBackend[1] = Patches!Hunk("cuda", "list", "sm90", "plugin", "new")
    BY DEF Patches!PluginBackend
  <2>2. i = 1 /\ Patches!Scripts[s] = Patches!PluginBackend
    BY <1>4, ScriptsAre
  <2>3. HunkOK(s, Patches!Hunk("cuda", "list", "sm90", "plugin", "new"))
    BY <1>4, HunkIs DEF HunkOK, News, FileTab
  <2> QED BY <1>1, <2>1, <2>2, <2>3
<1>5. CASE s = 4
  <2>1. Patches!MemoryCap[1] = Patches!Hunk("worker", "cap", "stock", "kept", "new")
    BY DEF Patches!MemoryCap
  <2>2. i = 1 /\ Patches!Scripts[s] = Patches!MemoryCap
    BY <1>5, ScriptsAre
  <2>3. HunkOK(s, Patches!Hunk("worker", "cap", "stock", "kept", "new"))
    BY HunkIs DEF HunkOK, News, FileTab
  <2> QED BY <1>1, <2>1, <2>2, <2>3
<1>6. CASE s = 5
  <2>1. Patches!BudgetGuard[1] = Patches!Hunk("sampler", "guard", "stock", "kept", "new")
    BY DEF Patches!BudgetGuard
  <2>2. i = 1 /\ Patches!Scripts[s] = Patches!BudgetGuard
    BY <1>6, ScriptsAre
  <2>3. HunkOK(s, Patches!Hunk("sampler", "guard", "stock", "kept", "new"))
    BY HunkIs DEF HunkOK, News, FileTab
  <2> QED BY <1>1, <2>1, <2>2, <2>3
<1> QED
  BY <1>2, <1>3, <1>4, <1>5, <1>6

LEMMA LensAre ==
  \A s \in 1..5 : /\ DOMAIN Patches!Scripts[s] = 1..Len(Patches!Scripts[s])
                  /\ Len(Patches!Scripts[s]) \in 1..10
<1>1. \A s \in 1..5 : s = 1 \/ s = 2 \/ s = 3 \/ s = 4 \/ s = 5
  OBVIOUS
<1> QED
  BY <1>1, ScriptsAre

LEMMA HunksIn ==
  /\ \A h \in Patches!Hunks : \E s \in 1..5 :
       HunkOK(s, h) /\ \E i \in DOMAIN Patches!Scripts[s] : h = Patches!Scripts[s][i]
  /\ \A s \in 1..5 : \A i \in DOMAIN Patches!Scripts[s] :
       /\ Patches!Scripts[s][i] \in Patches!Hunks
       /\ Patches!Scripts[s][i].region \in Patches!Regions
<1>1. \A s \in 1..5 : \A i \in DOMAIN Patches!Scripts[s] : Patches!Scripts[s][i] \in Patches!Hunks
  BY ScriptsAre DEF Patches!Hunks
<1>2. ASSUME NEW h \in Patches!Hunks
      PROVE  \E s \in 1..5 : \E i \in DOMAIN Patches!Scripts[s] : h = Patches!Scripts[s][i]
  BY ScriptsAre DEF Patches!Hunks
<1> QED
  BY <1>1, <1>2, HunksAre DEF Patches!Regions

LEMMA RegionsAre ==
  ASSUME NEW r \in Patches!Regions
  PROVE  /\ Patches!FileOf(r) = FileTab[r]
         /\ \A h \in Patches!Hunks : h.region = r => h.new \in News(r)
         /\ \E h \in Patches!Hunks : h.region = r
<1>1. \E h \in Patches!Hunks : h.region = r
  BY DEF Patches!Regions
<1>2. \A h \in Patches!Hunks : h.file = FileTab[h.region] /\ h.new \in News(h.region)
  BY HunksIn DEF HunkOK
<1> DEFINE g == CHOOSE h \in Patches!Hunks : h.region = r
<1>3. g \in Patches!Hunks /\ g.region = r
  BY <1>1
<1>4. Patches!FileOf(r) = g.file
  BY DEF Patches!FileOf
<1> HIDE DEF g
<1> QED
  BY <1>1, <1>2, <1>3, <1>4

-----------------------------------------------------------------------------
\* What a region may hold: stock, what its hunks leave, what was cut short, and what the
\* base image had that moved there.
Fits(r, x) ==
  /\ x \in {"stock", "cut"} \cup News(r)
          \cup (IF r \notin base THEN {} ELSE {"other"} \cup IF r = "guard" THEN {"upstream"} ELSE {})
  /\ x = "cut" => FileTab[r] \in cut

\* What a region holds that a hunk has gone over.
DoneVals(h) ==
  {h.new, "cut"} \cup (IF h.region = "list" THEN {"plugin"} ELSE {})
                 \cup (IF h.region = "guard" THEN {"upstream"} ELSE {})

\* The scripts before this one have gone over their regions, this one over the first n.
GoneOver(t, n) ==
  \A s \in 1..5 : \A i \in 1..Len(Patches!Scripts[s]) :
    s < script \/ (s = script /\ i <= n) =>
      t[Patches!Scripts[s][i].region] \in DoneVals(Patches!Scripts[s][i])

PatchInv ==
  /\ script \in 1..6 /\ hunk \in Nat /\ (hunk > 0 => script <= 5)
  /\ text = [r \in Patches!Regions |-> text[r]] /\ layers = [r \in Patches!Regions |-> layers[r]]
  /\ \A r \in Patches!Regions : Fits(r, text[r]) /\ Fits(r, layers[r])
  /\ GoneOver(text, hunk - 1)
  /\ hunk > 0 => GoneOver(layers, 0)
  /\ image # "building" => hunk = 0
  /\ Patches!PatchedOnce

LEMMA GoneBefore ==
  ASSUME PatchInv, NEW s \in 1..5, NEW i \in 1..Len(Patches!Scripts[s]), s < script
  PROVE  text[Patches!Scripts[s][i].region] \in DoneVals(Patches!Scripts[s][i])
BY DEF PatchInv, GoneOver

LEMMA PatchStart ==
  ASSUME Init
  PROVE  PatchInv
<1>1. PICK r \in Patches!Regions : \E t \in Patches!Moved(r) \cup {"stock"} :
         /\ base = IF t = "stock" THEN {} ELSE {r}
         /\ text = [q \in Patches!Regions |-> IF q = r THEN t ELSE "stock"]
  BY DEF Init, Patches!Init
<1>2. PICK t \in Patches!Moved(r) \cup {"stock"} :
         /\ base = IF t = "stock" THEN {} ELSE {r}
         /\ text = [q \in Patches!Regions |-> IF q = r THEN t ELSE "stock"]
  BY <1>1
<1>3. /\ layers = text /\ script = 1 /\ hunk = 0 /\ image = "building" /\ refused = {}
  BY DEF Init, Patches!Init
<1>4. t \in {"stock", "other"} \cup News(r) \cup IF r = "guard" THEN {"upstream"} ELSE {}
  BY RegionsAre DEF Patches!Moved
<1>5. News(r) \subseteq {"sm90", "plugin", "kept", "new"}
  BY DEF News
<1>6. \A q \in Patches!Regions : Fits(q, text[q]) /\ text[q] # "twice"
  BY <1>2, <1>4, <1>5 DEF Fits
<1>7. GoneOver(text, -1)
  BY <1>3 DEF GoneOver
<1> QED
  BY <1>2, <1>3, <1>6, <1>7 DEF PatchInv, Patches!PatchedOnce

\* What a hunk does that runs.
LEMMA OneHunk ==
  ASSUME PatchInv, hunk > 0, hunk \in 1..Len(Patches!Scripts[script])
  PROVE  LET h == Patches!Scripts[script][hunk]
         IN  /\ script \in 1..5 /\ hunk \in DOMAIN Patches!Scripts[script]
             /\ HunkOK(script, h) /\ h.region \in Patches!Regions /\ h \in Patches!Hunks
             /\ Fits(h.region, text[h.region])
             /\ Patches!FileOf(h.region) = h.file
<1>1. script \in 1..5
  BY DEF PatchInv
<1>2. DOMAIN Patches!Scripts[script] = 1..Len(Patches!Scripts[script])
  <2>1. script = 1 \/ script = 2 \/ script = 3 \/ script = 4 \/ script = 5
    BY <1>1
  <2> QED BY <2>1, ScriptsAre
<1> QED
  BY <1>1, <1>2, HunksAre, HunksIn, RegionsAre DEF PatchInv, HunkOK

\* It is skipped or written, and then its region holds what it leaves.
LEMMA SkipsOrWrites ==
  ASSUME NEW s, NEW h, HunkOK(s, h), h.region \in Patches!Regions, Fits(h.region, text[h.region]),
         ~Patches!Refuses(h), text = [r \in Patches!Regions |-> text[r]]
  PROVE  /\ Patches!Skips(h) => text[h.region] \in DoneVals(h)
         /\ ~Patches!Skips(h) =>
              /\ Patches!Written(h) = [text EXCEPT ![h.region] = h.new]
              /\ h.region = "list" => text[h.region] \in {"stock", "sm90"}
<1>1. CASE Patches!Skips(h)
  <2>1. text[h.region] = h.new \/ (h.region = "guard" /\ text[h.region] = "upstream")
    BY <1>1 DEF Patches!Skips, Patches!CountNew
  <2> QED BY <1>1, <2>1 DEF DoneVals
<1>2. CASE ~Patches!Skips(h)
  <2>1. Patches!CountOld(h) = 1
    BY <1>2 DEF Patches!Refuses
  <2>2. ~(h.new = "kept" /\ text[h.region] = "kept")
    <3>1. h.new = "kept" => h.by = "new"
      BY DEF HunkOK, News
    <3> QED BY <1>2, <3>1 DEF Patches!Skips, Patches!CountNew
  <2>3. h.new = "kept" => text[h.region] # "twice"
    BY DEF HunkOK, News, Fits
  <2>4. text[h.region] = h.old
    BY <2>1, <2>2, <2>3 DEF Patches!CountOld
  <2>5. Patches!Written(h) = [text EXCEPT ![h.region] = h.new]
    BY <2>2 DEF Patches!Written
  <2>6. h.region = "list" => h.old \in {"stock", "sm90"}
    BY DEF HunkOK
  <2> QED BY <1>2, <2>4, <2>5, <2>6
<1> QED
  BY <1>1, <1>2

\* A hunk leaves what the others have gone over as they left it.
LEMMA OthersStay ==
  ASSUME NEW s, NEW h, HunkOK(s, h), NEW u, NEW g, HunkOK(u, g), g.region = h.region,
         NEW x \in DoneVals(g), h.region = "list" => x \in {"stock", "sm90"}
  PROVE  h.new \in DoneVals(g)
BY DEF HunkOK, DoneVals, News

LEMMA PatchApply ==
  ASSUME PatchInv, hunk > 0, Patches!Apply
  PROVE  PatchInv'
<1> DEFINE h == Patches!Scripts[script][hunk]
<1>1. /\ hunk \in 1..Len(Patches!Scripts[script]) /\ ~Patches!Refuses(h)
      /\ text' = IF Patches!Skips(h) THEN text ELSE Patches!Written(h)
      /\ hunk' = hunk + 1
      /\ UNCHANGED <<base, layers, script, cut, image, refused>>
  BY DEF Patches!Apply
<1>2. /\ script \in 1..5 /\ hunk \in DOMAIN Patches!Scripts[script]
      /\ HunkOK(script, h) /\ h.region \in Patches!Regions /\ Fits(h.region, text[h.region])
  BY <1>1, OneHunk
<1>3. text = [r \in Patches!Regions |-> text[r]] /\ hunk \in Nat
  BY DEF PatchInv
<1> HIDE DEF h
<1>4. /\ text' = [r \in Patches!Regions |-> text'[r]]
      /\ text'[h.region] \in DoneVals(h)
      /\ \A r \in Patches!Regions : r # h.region => text'[r] = text[r]
      /\ text'[h.region] # text[h.region] =>
           text'[h.region] = h.new /\ (h.region = "list" => text[h.region] \in {"stock", "sm90"})
  <2>1. h.new \in DoneVals(h)
    BY DEF DoneVals
  <2> QED BY <1>1, <1>2, <1>3, <2>1, SkipsOrWrites
<1>5. \A r \in Patches!Regions : Fits(r, text'[r])
  <2>1. h.new \in News(h.region) /\ h.new # "cut"
    BY <1>2 DEF HunkOK, News
  <2>2. Fits(h.region, h.new)
    BY <2>1 DEF Fits
  <2> QED BY <1>2, <1>4, <2>2 DEF PatchInv
<1>6. ASSUME NEW s \in 1..5, NEW i \in 1..Len(Patches!Scripts[s]),
             s < script \/ (s = script /\ i <= hunk)
      PROVE  text'[Patches!Scripts[s][i].region] \in DoneVals(Patches!Scripts[s][i])
  <2> DEFINE g == Patches!Scripts[s][i]
  <2>0. HunkOK(s, g) /\ g.region \in Patches!Regions
    BY HunksAre, HunksIn, LensAre
  <2>1. CASE s = script /\ i = hunk
    <3>1. g = h
      BY <2>1 DEF h
    <3> HIDE DEF g
    <3> QED BY <1>4, <3>1 DEF g
  <2>2. CASE ~(s = script /\ i = hunk)
    <3>0. s < script \/ (s = script /\ i <= hunk - 1)
      BY <1>3, <1>6, <2>2
    <3>1. text[g.region] \in DoneVals(g)
      BY <3>0 DEF PatchInv, GoneOver
    <3> HIDE DEF g
    <3> SUFFICES text'[g.region] \in DoneVals(g)
      BY DEF g
    <3>2. CASE g.region # h.region
      BY <1>4, <2>0, <3>1, <3>2
    <3>3. CASE g.region = h.region
      BY <1>2, <1>4, <2>0, <3>1, <3>3, OthersStay
    <3> QED BY <3>2, <3>3
  <2> QED BY <2>1, <2>2
<1>7. GoneOver(text', hunk)
  BY <1>6 DEF GoneOver
<1>8. Patches!PatchedOnce'
  <2>1. image' # "built"
    BY <1>1 DEF PatchInv
  <2>2. \A r \in Patches!Regions : text'[r] # "twice"
    BY <1>5 DEF Fits, News
  <2>3. \A x \in refused : \/ x[1].region \in base \/ x[2] = "cut"
                           \/ (x[1].region = "list" /\ x[2] = "plugin")
    BY DEF PatchInv, Patches!PatchedOnce
  <2> QED BY <1>1, <2>1, <2>2, <2>3 DEF Patches!PatchedOnce
<1>9. /\ script' \in 1..6 /\ hunk' \in Nat /\ (hunk' > 0 => script' <= 5) /\ hunk' - 1 = hunk
      /\ image' = "building"
  BY <1>1, <1>2, <1>3 DEF PatchInv
<1>10. layers' = [r \in Patches!Regions |-> layers'[r]]
       /\ \A r \in Patches!Regions : Fits(r, layers'[r])
       /\ GoneOver(layers', 0)
  BY <1>1 DEF PatchInv
<1>11. GoneOver(text, hunk - 1)'
  BY <1>1, <1>7, <1>9 DEF GoneOver
<1>12. GoneOver(layers, 0)'
  <2>1. GoneOver(layers, 0) /\ layers' = layers /\ script' = script
    BY <1>1 DEF PatchInv
  <2> QED BY <2>1 DEF GoneOver
<1>13. \A r \in Patches!Regions : Fits(r, text[r])' /\ Fits(r, layers[r])'
  BY <1>1, <1>5, <1>10 DEF Fits
<1> QED
  BY <1>4, <1>8, <1>9, <1>10, <1>11, <1>12, <1>13 DEF PatchInv

\* The script ends: what it wrote is kept, or lost with the files of its step.
LEMMA Ended ==
  ASSUME PatchInv, hunk > 0, hunk' = 0, text' \in {text, layers},
         UNCHANGED <<base, layers, script, cut, image>>
  PROVE  /\ text' = [r \in Patches!Regions |-> text'[r]]
         /\ layers' = [r \in Patches!Regions |-> layers'[r]]
         /\ \A r \in Patches!Regions : Fits(r, text[r])' /\ Fits(r, layers[r])'
         /\ GoneOver(text, hunk - 1)'
<1>1. \A r \in Patches!Regions : Fits(r, text[r])' /\ Fits(r, layers[r])'
  BY DEF PatchInv, Fits
<1>2. GoneOver(text, 0)
  BY DEF PatchInv, GoneOver
<1>3. GoneOver(text', 0)
  BY <1>2 DEF PatchInv
<1>4. GoneOver(text, hunk - 1)'
  <2>1. hunk' - 1 = -1
    OBVIOUS
  <2> QED BY <1>3, <2>1 DEF GoneOver
<1> QED
  BY <1>1, <1>4 DEF PatchInv

LEMMA PatchRefuse ==
  ASSUME PatchInv, hunk > 0, Patches!Refuse
  PROVE  PatchInv'
<1> DEFINE h == Patches!Scripts[script][hunk]
           x == text[h.region]
<1>1. /\ hunk \in 1..Len(Patches!Scripts[script]) /\ Patches!Refuses(h)
      /\ refused' = refused \cup {<<h, x>>} /\ hunk' = 0 /\ text' \in {text, layers}
      /\ UNCHANGED <<base, layers, script, cut, image>>
  BY DEF Patches!Refuse, Patches!Ends
<1>2. /\ script \in 1..5 /\ HunkOK(script, h) /\ h.region \in Patches!Regions
      /\ Fits(h.region, x)
  BY <1>1, OneHunk
<1>3. h.region \in base \/ x = "cut" \/ (h.region = "list" /\ x = "plugin")
  <2> SUFFICES ASSUME h.region \notin base, x # "cut" PROVE h.region = "list" /\ x = "plugin"
    OBVIOUS
  <2>1. x = "stock" \/ x \in News(h.region)
    BY <1>2 DEF Fits
  <2>2. ~Patches!Skips(h) /\ Patches!CountOld(h) # 1
    BY <1>1 DEF Patches!Refuses
  <2>3. h.region = "list" /\ h.old = "sm90" => x # "stock"
    <3> SUFFICES ASSUME h.region = "list", h.old = "sm90" PROVE x # "stock"
      OBVIOUS
    <3>1. script = 3
      BY <1>2 DEF HunkOK
    <3> DEFINE g == Patches!Scripts[1][1]
    <3>2. g = Patches!Hunk("cuda", "list", "stock", "sm90", "counts")
          /\ 1 \in 1..Len(Patches!Scripts[1]) /\ 1 \in 1..5
      BY ScriptsAre DEF Patches!SM90
    <3>3. text[g.region] \in DoneVals(g)
      <4>1. 1 < script
        BY <3>1
      <4> HIDE DEF g
      <4>2. text[Patches!Scripts[1][1].region] \in DoneVals(Patches!Scripts[1][1])
        BY <3>2, <4>1, GoneBefore, Zenon
      <4> QED BY <4>2 DEF g
    <3>4. g.region = "list" /\ g.new = "sm90"
      BY <3>2, HunkIs
    <3> HIDE DEF g
    <3> QED BY <3>3, <3>4 DEF DoneVals
  <2> HIDE DEF h, x
  <2>4. x # h.old /\ ~(h.new = "kept" /\ x = "kept")
    BY <2>2 DEF Patches!CountOld, x
  <2>5. h.by = "new" => x # h.new
    BY <2>2 DEF Patches!Skips, Patches!CountNew, x
  <2>6. h.by = "counts" => x # h.new \/ Patches!CountOld(h) # 0
    BY <2>2 DEF Patches!Skips, Patches!CountNew, x
  <2>7. h.by = "counts" => Patches!CountOld(h) = 0
    BY <1>2, <2>4 DEF Patches!CountOld, HunkOK, News, x
  <2> QED BY <1>2, <2>1, <2>3, <2>4, <2>5, <2>6, <2>7 DEF HunkOK, News
<1> HIDE DEF h, x
<1>4. \A y \in refused' : \/ y[1].region \in base \/ y[2] = "cut"
                          \/ (y[1].region = "list" /\ y[2] = "plugin")
  <2>1. <<h, x>>[1] = h /\ <<h, x>>[2] = x
    OBVIOUS
  <2> QED BY <1>1, <1>3, <2>1 DEF PatchInv, Patches!PatchedOnce
<1>5. Patches!PatchedOnce'
  <2>1. image' # "built"
    BY <1>1 DEF PatchInv
  <2>2. \A r \in Patches!Regions : text'[r] # "twice"
    BY <1>1 DEF PatchInv, Fits, News
  <2> QED BY <1>1, <1>4, <2>1, <2>2 DEF Patches!PatchedOnce
<1>6. script' \in 1..6 /\ hunk' \in Nat
  BY <1>1 DEF PatchInv
<1> QED
  BY <1>1, <1>5, <1>6, Ended DEF PatchInv

LEMMA PatchCutShort ==
  ASSUME PatchInv, hunk > 0, Patches!CutShort
  PROVE  PatchInv'
<1> DEFINE h == Patches!Scripts[script][hunk]
<1>1. /\ hunk \in 1..Len(Patches!Scripts[script]) /\ ~Patches!Refuses(h) /\ ~Patches!Skips(h)
      /\ cut' = cut \cup {h.file} /\ hunk' = 0
      /\ UNCHANGED <<base, layers, script, image, refused>>
  BY DEF Patches!CutShort, Patches!Ends
<1>2. PICK lost \in SUBSET {r \in Patches!Regions : Patches!FileOf(r) = h.file} :
        text' = [r \in Patches!Regions |-> IF r \in lost THEN "cut" ELSE Patches!Written(h)[r]]
  BY DEF Patches!CutShort
<1>3. /\ script \in 1..5 /\ HunkOK(script, h) /\ h.region \in Patches!Regions
      /\ Fits(h.region, text[h.region])
  BY <1>1, OneHunk
<1>4. /\ text = [r \in Patches!Regions |-> text[r]] /\ hunk \in Nat
      /\ layers = [r \in Patches!Regions |-> layers[r]]
  BY DEF PatchInv
<1> HIDE DEF h
<1>5. /\ Patches!Written(h) = [text EXCEPT ![h.region] = h.new]
      /\ h.region = "list" => text[h.region] \in {"stock", "sm90"}
  BY <1>1, <1>3, <1>4, SkipsOrWrites
<1>6. /\ text' = [r \in Patches!Regions |-> text'[r]]
      /\ \A r \in Patches!Regions : \/ text'[r] = "cut" /\ FileTab[r] = h.file
                                    \/ text'[r] = text[r] /\ r # h.region
                                    \/ text'[r] = h.new /\ r = h.region
  <2>1. \A r \in lost : FileTab[r] = h.file
    BY RegionsAre
  <2> QED BY <1>2, <1>3, <1>4, <1>5, <2>1
<1>7. \A r \in Patches!Regions : Fits(r, text[r])'
  <2>1. h.new \in News(h.region) /\ h.new # "cut"
    BY <1>3 DEF HunkOK, News
  <2>2. \A r \in Patches!Regions : Fits(r, text[r])
    BY DEF PatchInv
  <2> QED BY <1>1, <1>6, <2>1, <2>2 DEF Fits
<1>8. \A r \in Patches!Regions : Fits(r, layers[r])'
  BY <1>1 DEF PatchInv, Fits
<1>9. GoneOver(text, 0)'
  <2> SUFFICES ASSUME NEW s \in 1..5, NEW i \in 1..Len(Patches!Scripts[s]), s < script
               PROVE  text'[Patches!Scripts[s][i].region] \in DoneVals(Patches!Scripts[s][i])
    BY <1>1, <1>3 DEF GoneOver
  <2> DEFINE g == Patches!Scripts[s][i]
  <2>1. HunkOK(s, g) /\ g.region \in Patches!Regions
    BY HunksAre, HunksIn, LensAre
  <2>2. text[g.region] \in DoneVals(g)
    BY DEF PatchInv, GoneOver
  <2> HIDE DEF g
  <2> SUFFICES text'[g.region] \in DoneVals(g)
    BY DEF g
  <2>3. "cut" \in DoneVals(g)
    BY DEF DoneVals
  <2>4. CASE text'[g.region] = h.new /\ g.region = h.region
    BY <1>3, <1>5, <2>1, <2>2, <2>4, OthersStay
  <2> QED BY <1>6, <2>1, <2>2, <2>3, <2>4
<1>10. GoneOver(text, hunk - 1)'
  <2>1. hunk' - 1 = -1
    BY <1>1
  <2> QED BY <1>9, <2>1 DEF GoneOver
<1>11. Patches!PatchedOnce'
  <2>1. image' # "built"
    BY <1>1 DEF PatchInv
  <2>2. \A r \in Patches!Regions : text'[r] # "twice"
    BY <1>7 DEF Fits, News
  <2>3. \A x \in refused : \/ x[1].region \in base \/ x[2] = "cut"
                           \/ (x[1].region = "list" /\ x[2] = "plugin")
    BY DEF PatchInv, Patches!PatchedOnce
  <2> QED BY <1>1, <2>1, <2>2, <2>3 DEF Patches!PatchedOnce
<1> QED
  BY <1>1, <1>3, <1>4, <1>6, <1>7, <1>8, <1>10, <1>11 DEF PatchInv

LEMMA PatchVerify ==
  ASSUME PatchInv, Patches!Verify
  PROVE  PatchInv'
<1>1. /\ hunk = 0 /\ image = "building" /\ script > Len(Patches!Scripts)
      /\ UNCHANGED <<base, text, layers, script, hunk, cut, refused>>
  BY DEF Patches!Verify
<1>2. script = 6
  BY <1>1, ScriptsAre DEF PatchInv
<1>3. ASSUME NEW r \in Patches!Regions, Patches!FileOf(r) \notin cut
      PROVE  text[r] \in (IF r = "list" THEN {"plugin"}
                          ELSE {h.new : h \in {g \in Patches!Hunks : g.region = r}}
                               \cup IF r = "guard" THEN {"upstream"} ELSE {})
  <2>1. text[r] # "cut"
    BY <1>3, RegionsAre DEF PatchInv, Fits
  <2>2. CASE r = "list"
    <3> DEFINE g == Patches!Scripts[3][1]
    <3>1. g = Patches!Hunk("cuda", "list", "sm90", "plugin", "new")
          /\ 1 \in 1..Len(Patches!Scripts[3]) /\ 3 \in 1..5
      BY ScriptsAre DEF Patches!PluginBackend
    <3>2. text[g.region] \in DoneVals(g)
      <4>1. 3 < script
        BY <1>2
      <4> HIDE DEF g
      <4>2. text[Patches!Scripts[3][1].region] \in DoneVals(Patches!Scripts[3][1])
        BY <3>1, <4>1, GoneBefore, Zenon
      <4> QED BY <4>2 DEF g
    <3>3. g.region = "list" /\ g.new = "plugin"
      BY <3>1, HunkIs
    <3> HIDE DEF g
    <3> QED BY <2>1, <2>2, <3>2, <3>3 DEF DoneVals
  <2>3. CASE r # "list"
    <3>1. PICK h \in Patches!Hunks : h.region = r
      BY RegionsAre
    <3>2. PICK s \in 1..5 : \E i \in DOMAIN Patches!Scripts[s] : h = Patches!Scripts[s][i]
      BY HunksIn
    <3>3. PICK i \in 1..Len(Patches!Scripts[s]) : h = Patches!Scripts[s][i]
      BY <3>2, LensAre
    <3>4. text[h.region] \in DoneVals(h)
      BY <1>2, <3>3 DEF PatchInv, GoneOver
    <3> QED BY <2>1, <2>3, <3>1, <3>4 DEF DoneVals
  <2> QED BY <2>2, <2>3
<1>4. Patches!PatchedOnce'
  BY <1>1, <1>3 DEF PatchInv, Patches!PatchedOnce
<1>5. \A r \in Patches!Regions : Fits(r, text[r])' /\ Fits(r, layers[r])'
  BY <1>1 DEF PatchInv, Fits
<1>6. GoneOver(text, hunk - 1)'
  BY <1>1 DEF PatchInv, GoneOver
<1> QED
  BY <1>1, <1>4, <1>5, <1>6 DEF PatchInv

LEMMA PatchKeep ==
  ASSUME PatchInv, [Next]_vars
  PROVE  PatchInv'
<1>1. Patches!Next \/ UNCHANGED patchesVars
  BY DEF Next, GateNext, vars
<1>2. CASE UNCHANGED patchesVars
  BY <1>2 DEF PatchInv, patchesVars, Fits, GoneOver, Patches!PatchedOnce
<1>3. CASE Patches!Start
  <2>1. /\ hunk = 0 /\ hunk' = 1 /\ layers' = text /\ image = "building" /\ script <= 5
        /\ UNCHANGED <<base, text, script, cut, image, refused>>
    BY <1>3, ScriptsAre DEF Patches!Start
  <2>2. \A r \in Patches!Regions : Fits(r, text[r])' /\ Fits(r, layers[r])'
    BY <2>1 DEF PatchInv, Fits
  <2>3. GoneOver(text, 0) /\ hunk' - 1 = 0
    BY <2>1 DEF PatchInv, GoneOver
  <2>4. GoneOver(text, hunk - 1)' /\ GoneOver(layers, 0)'
    BY <2>1, <2>3 DEF GoneOver
  <2> QED
    BY <2>1, <2>2, <2>4 DEF PatchInv, Patches!PatchedOnce
<1>4. CASE Patches!Rerun
  <2>1. /\ hunk = 0 /\ hunk' = 0 /\ image = "building" /\ script \in 1..6
        /\ script' \in 1..(script - 1)
        /\ UNCHANGED <<base, text, layers, cut, image, refused>>
    BY <1>4 DEF Patches!Rerun, PatchInv
  <2>2. \A r \in Patches!Regions : Fits(r, text[r])' /\ Fits(r, layers[r])'
    BY <2>1 DEF PatchInv, Fits
  <2>3. GoneOver(text, hunk - 1)'
    <3> SUFFICES ASSUME NEW s \in 1..5, NEW i \in 1..Len(Patches!Scripts[s]), s < script'
                 PROVE  text[Patches!Scripts[s][i].region] \in DoneVals(Patches!Scripts[s][i])
      BY <2>1 DEF GoneOver
    <3>1. s < script
      BY <2>1
    <3> QED BY <3>1, GoneBefore
  <2> QED
    BY <2>1, <2>2, <2>3 DEF PatchInv, Patches!PatchedOnce
<1>5. CASE hunk > 0 /\ Patches!Interrupted
  <2>1. /\ hunk > 0 /\ hunk' = 0 /\ text' \in {text, layers}
        /\ UNCHANGED <<base, layers, script, cut, image, refused>>
    BY <1>5 DEF Patches!Interrupted, Patches!Ends
  <2>2. Patches!PatchedOnce'
    <3>1. image' # "built"
      BY <2>1 DEF PatchInv
    <3>2. \A r \in Patches!Regions : text'[r] # "twice"
      BY <2>1 DEF PatchInv, Fits, News
    <3> QED BY <2>1, <3>1, <3>2 DEF PatchInv, Patches!PatchedOnce
  <2>3. script' \in 1..6 /\ hunk' \in Nat
    BY <2>1 DEF PatchInv
  <2> QED
    BY <2>1, <2>2, <2>3, Ended DEF PatchInv
<1>6. CASE hunk > 0 /\ Patches!Done
  <2>1. /\ hunk > Len(Patches!Scripts[script]) /\ hunk' = 0 /\ script' = script + 1
        /\ script \in 1..5 /\ hunk \in Nat /\ image = "building"
        /\ UNCHANGED <<base, text, layers, cut, image, refused>>
    BY <1>6 DEF Patches!Done, PatchInv
  <2>2. \A r \in Patches!Regions : Fits(r, text[r])' /\ Fits(r, layers[r])'
    BY <2>1 DEF PatchInv, Fits
  <2>3. Len(Patches!Scripts[script]) <= hunk - 1 /\ Len(Patches!Scripts[script]) \in Nat
    BY <2>1, LensAre
  <2>4. GoneOver(text, hunk - 1)'
    <3> SUFFICES ASSUME NEW s \in 1..5, NEW i \in 1..Len(Patches!Scripts[s]), s < script + 1
                 PROVE  text[Patches!Scripts[s][i].region] \in DoneVals(Patches!Scripts[s][i])
      BY <2>1 DEF GoneOver
    <3>1. s < script \/ (s = script /\ i <= hunk - 1)
      BY <2>1, <2>3
    <3> QED BY <3>1 DEF PatchInv, GoneOver
  <2> QED
    BY <2>1, <2>2, <2>4 DEF PatchInv, Patches!PatchedOnce
<1> QED
  BY <1>1, <1>2, <1>3, <1>4, <1>5, <1>6, PatchApply, PatchRefuse, PatchCutShort, PatchVerify
     DEF Patches!Next

\* The patches of the Dockerfile: however often scripts are interrupted, lose or keep their
\* files and are run again, an image that is built has every hunk once, but in files that
\* were cut short and kept; no hunk is there twice; and a script refuses only what the base
\* image moved, what was cut, or what a later script has rewritten.
THEOREM NodePatchedOnce ==
  Spec => []PatchedOnce
<1>1. PatchInv => PatchedOnce
  BY DEF PatchInv, PatchedOnce
<1> QED
  BY <1>1, PatchStart, PatchKeep, PTL DEF Spec

-----------------------------------------------------------------------------
(* The overlay.                                                            *)

\* The texts a file may have, and what may be written for it.
Marks(f) == {{}, Over!Hunks(f)} \cup IF f = "model" THEN {{"quant"}} ELSE {}
Texts(f) == [has : Marks(f), anchors : BOOLEAN, cut : BOOLEAN]

OverShapes ==
  /\ tag \in Images
  /\ given \in {"none", "stock", "moved", "whole"}
  /\ step \in {"idle", "extract", "patch", "write", "verify"}
  /\ copies = [f \in Over!Files |-> copies[f]]
  /\ made = [f \in Over!Files |-> made[f]]
  /\ outs = [f \in Over!Files |-> outs[f]]
  /\ \A f \in Over!Files : /\ copies[f] \in Texts(f) \cup {Over!None}
                           /\ made[f] \in Texts(f) \cup {Over!None}
                           /\ outs[f] \in Texts(f) \cup {Over!None}

\* Copies are there before a file is patched, and what is patched is cut where its copy is.
CopiesInv ==
  /\ step \in {"patch", "write", "verify"} => \A f \in Over!Files : copies[f] # Over!None
  /\ step \in {"write", "verify"} =>
       \A f \in Over!Files : made[f] # Over!None /\ (made[f].cut => copies[f].cut)

\* The outputs are those the run found, and then those it made.
OutsInv ==
  /\ step # "idle" => ended = "none"
  /\ step \in {"extract", "patch", "write"} => outs = prior
  /\ step = "verify" => outs = made

OverInv == OverShapes /\ CopiesInv /\ OutsInv /\ Over!OverlayWhole

LEMMA FilesAre ==
  /\ Over!Files = {"sm120", "sparse", "cuda", "indexer", "model", "mtp"}
  /\ \A i \in 1..6 : Over!FILES[i] \in Over!Files
  /\ DOMAIN Over!FILES = 1..6 /\ Len(Over!FILES) = 6
<1>1. Over!FILES = <<"sm120", "sparse", "cuda", "indexer", "model", "mtp">>
  BY DEF Over!FILES
<1>2. DOMAIN Over!FILES = 1..6 /\ Len(Over!FILES) = 6
  BY <1>1
<1>3. Over!FILES[1] = "sm120" /\ Over!FILES[2] = "sparse" /\ Over!FILES[3] = "cuda"
      /\ Over!FILES[4] = "indexer" /\ Over!FILES[5] = "model" /\ Over!FILES[6] = "mtp"
  BY <1>1
<1>4. \A i \in 1..6 : i = 1 \/ i = 2 \/ i = 3 \/ i = 4 \/ i = 5 \/ i = 6
  OBVIOUS
<1>5. Over!Files = {Over!FILES[i] : i \in 1..6}
  BY <1>2 DEF Over!Files
<1> QED
  BY <1>2, <1>3, <1>4, <1>5

\* The hunks of a file: some beside the two verify does not look for, and what it looks
\* for is only there when all are.
LEMMA HunksTell ==
  ASSUME NEW f \in Over!Files
  PROVE  /\ Over!Hunks(f) # {} /\ Over!Hunks(f) # {"nothing"}
         /\ \A has \in Marks(f) :
              Over!Hunks(f) \ {"import", "logger"} \subseteq has => has = Over!Hunks(f)
<1>1. f \in {"sm120", "sparse", "cuda", "indexer", "model", "mtp"}
  BY FilesAre
<1>2. CASE f = "sm120"
  BY <1>2 DEF Over!Hunks, Marks
<1>3. CASE f = "sparse"
  BY <1>3 DEF Over!Hunks, Marks
<1>4. CASE f = "cuda"
  BY <1>4 DEF Over!Hunks, Marks
<1>5. CASE f = "indexer"
  BY <1>5 DEF Over!Hunks, Marks
<1>6. CASE f = "model"
  BY <1>6 DEF Over!Hunks, Marks
<1>7. CASE f = "mtp"
  BY <1>7 DEF Over!Hunks, Marks
<1> QED
  BY <1>1, <1>2, <1>3, <1>4, <1>5, <1>6, <1>7

LEMMA TextsAre ==
  ASSUME NEW f \in Over!Files, NEW t \in Texts(f)
  PROVE  /\ t # Over!None /\ t.has \in Marks(f) /\ t.cut \in BOOLEAN /\ t.anchors \in BOOLEAN
         /\ t = [has |-> t.has, anchors |-> t.anchors, cut |-> t.cut]
<1>1. t.has \in Marks(f)
  BY DEF Texts
<1>2. t.has # {"nothing"}
  BY <1>1, HunksTell DEF Marks
<1> QED
  BY <1>1, <1>2 DEF Texts, Over!None

LEMMA KindsAreTexts ==
  ASSUME NEW f \in Over!Files, NEW k \in {"stock", "moved", "whole", "quant"},
         k = "quant" => f = "model"
  PROVE  Over!Kind(f, k) \in Texts(f) /\ ~Over!Kind(f, k).cut
<1>1. k = "quant" => {"quant"} \in Marks(f)
  BY DEF Marks
<1>2. Over!Hunks(f) \in Marks(f) /\ {} \in Marks(f)
  BY DEF Marks
<1> HIDE DEF Marks
<1> QED
  BY <1>1, <1>2 DEF Over!Kind, Over!Text, Texts

LEMMA ImageTexts ==
  ASSUME NodeAssumption, NEW f \in Over!Files, tag \in Images
  PROVE  Over!InImage(f) \in Texts(f) \ {Over!None}
<1>1. f # "none"
  BY FilesAre
<1>2. LET k == IF f = tag[1] THEN tag[2] ELSE "stock"
      IN  k \in {"stock", "moved", "whole", "quant"} /\ (k = "quant" => f = "model")
  <2>1. tag \in {<<"none", "stock">>, <<"model", "quant">>}
                 \cup {"sm120", "sparse", "cuda", "indexer", "model", "mtp"} \X {"moved", "whole"}
    BY DEF NodeAssumption, Over!OverlaysAssumption
  <2> QED BY <1>1, <2>1
<1> QED
  BY <1>2, KindsAreTexts, TextsAre DEF Over!InImage

LEMMA CutTexts ==
  ASSUME NEW f \in Over!Files, NEW t \in Texts(f), NEW u \in Over!CutShort(t)
  PROVE  u \in Texts(f)
BY TextsAre DEF Over!CutShort, Texts, Marks

LEMMA PatchedTexts ==
  ASSUME NEW f \in Over!Files, NEW t \in Texts(f)
  PROVE  Over!Patched(f, t) \in Texts(f) /\ Over!Patched(f, t).cut = t.cut
<1>1. CASE f = "model"
  <2>1. t.has \in {{}, {"quant"}, {"width", "quant"}}
    BY <1>1, TextsAre DEF Marks, Over!Hunks
  <2>2. t.has \cup (IF t.has = {} THEN {"width"} ELSE {}) \cup {"quant"} \in Marks(f)
    BY <1>1, <2>1 DEF Marks, Over!Hunks
  <2> QED
    BY <1>1, <2>2, TextsAre DEF Over!Patched, Texts
<1>2. CASE f # "model"
  BY <1>2, TextsAre DEF Over!Patched, Texts, Marks
<1> QED
  BY <1>1, <1>2

\* What a step that goes through the files leaves: old, new, or the new one cut short.
LEMMA StoppedTexts ==
  ASSUME NEW n \in 0..5, NEW fs, NEW old, NEW new, NEW r \in Over!StoppedAt(n, fs, old, new),
         \A f \in Over!Files : old[f] \in Texts(f) \cup {Over!None},
         \A f \in Over!Files : new[f] \in Texts(f)
  PROVE  /\ r = [f \in Over!Files |-> r[f]]
         /\ \A f \in Over!Files : r[f] \in Texts(f) \cup {Over!None}
<1> DEFINE past == Over!UpTo(n, old, new)
           g == Over!FILES[n + 1]
<1>1. /\ past = [f \in Over!Files |-> past[f]]
      /\ \A f \in Over!Files : past[f] \in Texts(f) \cup {Over!None}
  BY DEF Over!UpTo
<1>2. g \in Over!Files
  BY FilesAre
<1>3. r = past \/ \E t \in Over!CutShort(new[g]) : r = [past EXCEPT ![g] = t]
  BY DEF Over!StoppedAt
<1> HIDE DEF past, g
<1> QED
  BY <1>1, <1>2, <1>3, CutTexts

LEMMA OverStart ==
  ASSUME Init
  PROVE  OverInv
BY FilesAre DEF Init, Over!Init, OverInv, OverShapes, CopiesInv, OutsInv, Over!OverlayWhole

\* Steps that leave the files alone.
LEMMA OverExtract ==
  ASSUME NodeAssumption, OverInv, Over!Extract
  PROVE  OverInv'
<1> DEFINE todo1 == {f \in Over!Files : copies[f] = Over!None}
           now == [f \in Over!Files |-> IF f \in todo1 THEN Over!InImage(f) ELSE copies[f]]
<1>1. /\ step = "extract" /\ UNCHANGED <<tag, made, outs, prior>>
      /\ \/ copies' = now /\ Over!Goes("patch")
         \/ \E n \in 0..5 : copies' \in Over!StoppedAt(n, todo1, copies, now) /\ Over!Ends("stopped")
  BY FilesAre DEF Over!Extract
<1>2. \A f \in Over!Files : now[f] \in Texts(f) /\ now[f] # Over!None
  BY ImageTexts, TextsAre DEF OverInv, OverShapes
<1>3. now = [f \in Over!Files |-> now[f]]
  OBVIOUS
<1> HIDE DEF now
<1>4. CASE copies' = now /\ Over!Goes("patch")
  BY <1>1, <1>2, <1>3, <1>4
     DEF Over!Goes, OverInv, OverShapes, CopiesInv, OutsInv, Over!OverlayWhole
<1>5. ASSUME NEW n \in 0..5, copies' \in Over!StoppedAt(n, todo1, copies, now), Over!Ends("stopped")
      PROVE  OverInv'
  <2>1. /\ copies' = [f \in Over!Files |-> copies'[f]]
        /\ \A f \in Over!Files : copies'[f] \in Texts(f) \cup {Over!None}
    BY <1>2, <1>5, StoppedTexts DEF OverInv, OverShapes
  <2> QED
    BY <1>1, <1>5, <2>1
       DEF Over!Ends, OverInv, OverShapes, CopiesInv, OutsInv, Over!OverlayWhole
<1> QED
  BY <1>1, <1>4, <1>5

LEMMA OverPatch ==
  ASSUME OverInv, Over!Patch
  PROVE  OverInv'
<1> DEFINE now == [f \in Over!Files |-> Over!Patched(f, Over!Source(f))]
<1>1. /\ step = "patch" /\ UNCHANGED <<tag, copies, outs, prior>>
      /\ \/ made' = now /\ Over!Goes("write")
         \/ \E n \in 1..6 : made' = Over!UpTo(n - 1, made, now) /\ Over!Ends("anchor")
  BY FilesAre DEF Over!Patch
<1>2. ASSUME NEW f \in Over!Files
      PROVE  Over!Source(f) \in Texts(f) /\ (Over!Source(f).cut => copies[f].cut)
  <2>1. copies[f] \in Texts(f)
    BY <1>1 DEF OverInv, OverShapes, CopiesInv
  <2>2. given # "none" => given \in {"stock", "moved", "whole"}
    BY DEF OverInv, OverShapes
  <2> QED
    BY <2>1, <2>2, KindsAreTexts DEF Over!Source
<1>3. \A f \in Over!Files :
        now[f] \in Texts(f) /\ now[f] # Over!None /\ (now[f].cut => copies[f].cut)
  BY <1>2, PatchedTexts, TextsAre
<1>4. now = [f \in Over!Files |-> now[f]]
  OBVIOUS
<1> HIDE DEF now
<1>5. CASE made' = now /\ Over!Goes("write")
  BY <1>1, <1>3, <1>4, <1>5
     DEF Over!Goes, OverInv, OverShapes, CopiesInv, OutsInv, Over!OverlayWhole
<1>6. ASSUME NEW n \in 1..6, made' = Over!UpTo(n - 1, made, now), Over!Ends("anchor")
      PROVE  OverInv'
  <2>1. /\ made' = [f \in Over!Files |-> made'[f]]
        /\ \A f \in Over!Files : made'[f] \in Texts(f) \cup {Over!None}
    BY <1>3, <1>6 DEF Over!UpTo, OverInv, OverShapes
  <2> QED
    BY <1>1, <1>6, <2>1
       DEF Over!Ends, OverInv, OverShapes, CopiesInv, OutsInv, Over!OverlayWhole
<1> QED
  BY <1>1, <1>5, <1>6

LEMMA OverWrite ==
  ASSUME OverInv, Over!Write
  PROVE  OverInv'
<1>1. /\ step = "write" /\ UNCHANGED <<tag, copies, made, prior>>
      /\ \/ outs' = made /\ Over!Goes("verify")
         \/ \E n \in 0..5 : outs' \in Over!StoppedAt(n, Over!Files, outs, made)
                            /\ Over!Ends("stopped")
  BY FilesAre DEF Over!Write
<1>2. CASE outs' = made /\ Over!Goes("verify")
  BY <1>1, <1>2 DEF Over!Goes, OverInv, OverShapes, CopiesInv, OutsInv, Over!OverlayWhole
<1>3. ASSUME NEW n \in 0..5, outs' \in Over!StoppedAt(n, Over!Files, outs, made),
             Over!Ends("stopped")
      PROVE  OverInv'
  <2>1. \A f \in Over!Files : made[f] \in Texts(f)
    BY <1>1 DEF OverInv, OverShapes, CopiesInv
  <2>2. /\ outs' = [f \in Over!Files |-> outs'[f]]
        /\ \A f \in Over!Files : outs'[f] \in Texts(f) \cup {Over!None}
    BY <1>3, <2>1, StoppedTexts DEF OverInv, OverShapes
  <2> QED
    BY <1>1, <1>3, <2>2
       DEF Over!Ends, OverInv, OverShapes, CopiesInv, OutsInv, Over!OverlayWhole
<1> QED
  BY <1>1, <1>2, <1>3

\* What verify accepts has every hunk.
LEMMA AcceptedHasAll ==
  ASSUME OverShapes, Over!Accepts
  PROVE  \A f \in Over!Files : outs[f].has = Over!Hunks(f)
<1> SUFFICES ASSUME NEW f \in Over!Files PROVE outs[f].has = Over!Hunks(f)
  OBVIOUS
<1>1. outs[f] \in Texts(f) /\ Over!Hunks(f) \ {"import", "logger"} \subseteq outs[f].has
  BY DEF OverShapes, Over!Accepts
<1> QED
  BY <1>1, TextsAre, HunksTell

LEMMA OverKeep ==
  ASSUME NodeAssumption, OverInv, [Next]_vars
  PROVE  OverInv'
<1>1. Over!Next \/ UNCHANGED overVars
  BY DEF Next, GateNext, vars
<1>2. CASE UNCHANGED overVars
  BY <1>2 DEF overVars, OverInv, OverShapes, CopiesInv, OutsInv, Over!OverlayWhole
<1>3. CASE Over!Begin
  <2>1. \A f \in Over!Files : made'[f] = Over!None
    BY <1>3 DEF Over!Begin
  <2> QED
    BY <1>3, <2>1
       DEF Over!Begin, OverInv, OverShapes, CopiesInv, OutsInv, Over!OverlayWhole
<1>4. CASE Over!Verify
  <2>1. /\ step = "verify" /\ step' = "idle" /\ given' = "none"
        /\ UNCHANGED <<tag, copies, made, outs, prior>>
        /\ ended' \in {"stopped", "mounted", "verify"}
        /\ ended' = "mounted" => Over!Accepts
    BY <1>4 DEF Over!Verify, Over!Ends
  <2>2. Over!OverlayWhole'
    BY <2>1, AcceptedHasAll
       DEF Over!OverlayWhole, OverInv, OutsInv, CopiesInv
  <2> QED
    BY <2>1, <2>2 DEF OverInv, OverShapes, CopiesInv, OutsInv
<1>5. CASE Over!VerifyOnly
  <2>1. Over!OverlayWhole'
    BY <1>5, AcceptedHasAll DEF Over!VerifyOnly, Over!OverlayWhole, OverInv
  <2> QED
    BY <1>5, <2>1 DEF Over!VerifyOnly, OverInv, OverShapes, CopiesInv, OutsInv
<1>6. CASE Over!NewImage
  BY <1>6 DEF Over!NewImage, OverInv, OverShapes, CopiesInv, OutsInv, Over!OverlayWhole
<1> QED
  BY <1>1, <1>2, <1>3, <1>4, <1>5, <1>6, OverExtract, OverPatch, OverWrite DEF Over!Next

\* patch_sm121_mla.py: an anchor that is not there once leaves the outputs as the run found
\* them; what verify accepts has every hunk; a launch mounts what its own run made, with an
\* end missing only where its copy of the image had lost it: for any stock and moved image,
\* and any number of runs, each stopped anywhere.
THEOREM NodeOverlayWhole ==
  ASSUME NodeAssumption
  PROVE  Spec => []OverlayWhole
<1>1. Init => OverInv
  BY OverStart
<1>2. OverInv /\ [Next]_vars => OverInv'
  BY OverKeep
<1>3. OverInv => OverlayWhole
  BY DEF OverInv, OverlayWhole
<1> QED
  BY <1>1, <1>2, <1>3, PTL DEF Spec

-----------------------------------------------------------------------------
(* Types.                                                                  *)

\* What the type of the number of messages rests on.
Begun == wpc # "check" => sent < MaxMsgs

LEMMA MonitorTypes ==
  ASSUME NodeAssumption, MonitorInv', Monitor!TypeOK, Monitor!Next
  PROVE  Monitor!TypeOK'
<1>1. depth' \in Nat
  <2>1. IsFiniteSet(open') /\ depth' = Cardinality(open')
    BY DEF MonitorInv, CallsCounted
  <2> QED BY <2>1, FS_CardinalityType
<1>2. LogTyped'
  BY DEF MonitorInv
<1>3. MaxCompiles \in Nat
  BY DEF NodeAssumption, Monitor!MonitorAssumption
<1>4. silent' = silent
  BY DEF Monitor!Next, Monitor!Activate, Monitor!Enter, Monitor!Leave, Monitor!BuildInside,
     Monitor!BuildOutside, Monitor!Hooked
<1>5. /\ active' \in BOOLEAN /\ verbose' \in BOOLEAN /\ onCompile' \in {"warn", "error"}
      /\ hooked' \subseteq Monitor!Libraries
  BY DEF Monitor!TypeOK, Monitor!Next, Monitor!Activate, Monitor!Enter, Monitor!Leave,
     Monitor!BuildInside, Monitor!BuildOutside, Monitor!Hooked
<1>6. warned' \subseteq Monitor!Libraries \X Kernels
  <2>1. \/ UNCHANGED warned
        \/ \E l \in Monitor!Libraries, k \in Kernels : Monitor!Handle(l, k)
    <3>1. ASSUME NEW t \in Threads, Monitor!BuildInside(t)
          PROVE  UNCHANGED warned
      <4>1. depth # 0
        <5>1. UNCHANGED <<depth, open>> /\ open # {}
          BY <3>1 DEF Monitor!BuildInside
        <5>2. depth' = 0 <=> open' = {}
          BY FS_CardinalityType, FS_EmptySet DEF MonitorInv, CallsCounted
        <5> QED BY <5>1, <5>2
      <4> QED BY <3>1, <4>1 DEF Monitor!BuildInside
    <3>2. "tilelang" \in Monitor!Libraries
      BY DEF Monitor!Libraries
    <3> QED
      BY <3>1, <3>2 DEF Monitor!Next, Monitor!Activate, Monitor!Enter, Monitor!Leave,
         Monitor!BuildOutside, Monitor!Hooked
  <2> QED
    BY <2>1 DEF Monitor!Handle, Monitor!TypeOK
<1>7. compiles' \in 0..MaxCompiles
  <2>1. \/ UNCHANGED compiles
        \/ compiles < MaxCompiles /\ compiles' = compiles + 1
    BY DEF Monitor!Next, Monitor!Activate, Monitor!Enter, Monitor!Leave,
       Monitor!BuildInside, Monitor!BuildOutside, Monitor!Hooked
  <2>2. compiles \in 0..MaxCompiles
    BY DEF Monitor!TypeOK
  <2> QED BY <1>3, <2>1, <2>2
<1>8. open' \subseteq [thread : Threads, number : 0..MaxCompiles, kernel : Kernels,
                       level : Monitor!Levels]
  <2>1. ASSUME NEW c \in open'
        PROVE  c \in [thread : Threads, number : 0..MaxCompiles, kernel : Kernels,
                      level : Monitor!Levels]
    <3>1. /\ c \in [thread : Threads, number : Nat, kernel : Kernels, level : Monitor!Levels]
          /\ c.number < compiles'
      BY <2>1 DEF MonitorInv, CallsCounted
    <3>2. c.number \in 0..MaxCompiles
      BY <1>3, <1>7, <3>1
    <3> QED BY <3>1, <3>2
  <2> QED BY <2>1
<1> QED
  BY <1>1, <1>2, <1>4, <1>5, <1>6, <1>7, <1>8 DEF Monitor!TypeOK, LogTyped

\* The scripts refuse, end and start over within their bounds.
LEMMA PatchTypes ==
  ASSUME NodeAssumption, PatchInv, PatchInv', Patches!TypeOK, Patches!Next
  PROVE  Patches!TypeOK'
<1>1. MaxFails \in Nat /\ MaxReruns \in Nat
  BY DEF NodeAssumption, Patches!PatchesAssumption
<1>2. DOMAIN text' = Patches!Regions /\ script' \in 1..(Len(Patches!Scripts) + 1)
  BY ScriptsAre DEF PatchInv
<1>3. hunk' \in 0..(Len(Patches!SM90) + 1)
  <2>1. CASE hunk' = 0
    BY <2>1, ScriptsAre
  <2>2. CASE Patches!Start
    BY <2>2, ScriptsAre DEF Patches!Start
  <2>3. CASE hunk' = hunk
    BY <2>3 DEF Patches!TypeOK
  <2>4. CASE Patches!Apply /\ hunk > 0
    <3>1. script \in 1..5
      BY <2>4 DEF PatchInv
    <3>2. Len(Patches!Scripts[script]) \in 1..10
      BY <3>1, LensAre
    <3>3. hunk \in 1..Len(Patches!Scripts[script]) /\ hunk' = hunk + 1
      BY <2>4 DEF Patches!Apply
    <3>4. \A n \in 1..10 : \A i \in 1..n : i + 1 \in 0..(10 + 1)
      OBVIOUS
    <3>5. hunk' \in 0..(10 + 1)
      BY <3>2, <3>3, <3>4
    <3> QED BY <3>5, ScriptsAre
  <2> QED
    BY <2>1, <2>2, <2>3, <2>4 DEF Patches!Next, Patches!Rerun, Patches!Refuse,
       Patches!Interrupted, Patches!CutShort, Patches!Ends, Patches!Done, Patches!Verify
<1>4. cut' \subseteq {h.file : h \in Patches!Hunks}
  <2>1. CASE cut' = cut
    BY <2>1 DEF Patches!TypeOK
  <2>2. CASE Patches!CutShort /\ hunk > 0
    <3>1. Patches!Scripts[script][hunk] \in Patches!Hunks
      BY <2>2, OneHunk DEF Patches!CutShort
    <3> QED BY <2>2, <3>1 DEF Patches!CutShort, Patches!TypeOK
  <2> QED
    BY <2>1, <2>2 DEF Patches!Next, Patches!Start, Patches!Rerun, Patches!Apply,
       Patches!Refuse, Patches!Interrupted, Patches!Done, Patches!Verify
<1>5. fails' \in 0..MaxFails /\ reruns' \in 0..MaxReruns
  <2>1. \/ UNCHANGED fails
        \/ fails < MaxFails /\ fails' = fails + 1
    BY DEF Patches!Next, Patches!Start, Patches!Rerun, Patches!Apply, Patches!Ends,
       Patches!Refuse, Patches!Interrupted, Patches!CutShort, Patches!Done, Patches!Verify
  <2>2. \/ UNCHANGED reruns
        \/ reruns < MaxReruns /\ reruns' = reruns + 1
    BY DEF Patches!Next, Patches!Start, Patches!Rerun, Patches!Apply, Patches!Ends,
       Patches!Refuse, Patches!Interrupted, Patches!CutShort, Patches!Done, Patches!Verify
  <2> QED BY <1>1, <2>1, <2>2 DEF Patches!TypeOK
<1>6. base' = base /\ (image' = image \/ image' \in {"built", "failed"})
  BY DEF Patches!Next, Patches!Start, Patches!Rerun, Patches!Apply, Patches!Ends,
     Patches!Refuse, Patches!Interrupted, Patches!CutShort, Patches!Done, Patches!Verify
<1> QED
  BY <1>2, <1>3, <1>4, <1>5, <1>6 DEF Patches!TypeOK

LEMMA WarmTypes ==
  ASSUME passes \in Seq(WarmPasses), Warm!TypeOK, Warm!Next
  PROVE  Warm!TypeOK'
<1>1. CASE Warm!Launch
  BY <1>1 DEF Warm!Launch, Warm!TypeOK
<1>2. CASE Warm!Raise
  <2>1. passes # << >> /\ Head(passes) \in WarmPasses
    BY <1>2 DEF Warm!Raise
  <2>2. Head(passes).pass \in Named
    BY <2>1 DEF WarmPasses
  <2> QED BY <1>2, <2>2 DEF Warm!Raise, Warm!TypeOK, Named
<1>3. CASE Warm!Escape
  BY <1>3 DEF Warm!Escape, Warm!TypeOK
<1>4. CASE Warm!Serve
  BY <1>4 DEF Warm!Serve, Warm!TypeOK
<1> QED
  BY <1>1, <1>2, <1>3, <1>4 DEF Warm!Next

LEMMA OverTypes ==
  ASSUME NodeAssumption, OverInv', Over!TypeOK, Over!Next
  PROVE  Over!TypeOK'
<1>1. MaxTries \in Nat /\ MaxMoves \in Nat
  BY DEF NodeAssumption, Over!OverlaysAssumption
<1>2. /\ tag' \in Images /\ step' \in {"idle", "extract", "patch", "write", "verify"}
      /\ DOMAIN copies' = Over!Files /\ DOMAIN outs' = Over!Files
  BY DEF OverInv, OverShapes
<1>3. ended' \in {ended, "none", "stopped", "anchor", "verify", "mounted", "accepted"}
  BY DEF Over!Next, Over!Begin, Over!Extract, Over!Patch, Over!Write, Over!Verify,
     Over!VerifyOnly, Over!NewImage, Over!Ends, Over!Goes
<1>4. \/ UNCHANGED tries
      \/ tries < MaxTries /\ tries' = tries + 1
  BY DEF Over!Next, Over!Begin, Over!Extract, Over!Patch, Over!Write, Over!Verify,
     Over!VerifyOnly, Over!NewImage
<1>5. \/ UNCHANGED moves
      \/ moves < MaxMoves /\ moves' = moves + 1
  BY DEF Over!Next, Over!Begin, Over!Extract, Over!Patch, Over!Write, Over!Verify,
     Over!VerifyOnly, Over!NewImage
<1> QED
  BY <1>1, <1>2, <1>3, <1>4, <1>5 DEF Over!TypeOK

LEMMA RingTypes ==
  ASSUME NodeAssumption, RingInv, RingInv', Ring!TypeOK, Begun, Ring!Next
  PROVE  Ring!TypeOK' /\ Begun'
<1>1. MaxMsgs \in Nat /\ sent \in 0..MaxMsgs
  BY DEF NodeAssumption, Ring!FenceAssumption, Ring!TypeOK
<1>2. sent' \in 0..MaxMsgs /\ Begun'
  <2>1. CASE Ring!WCheck
    BY <1>1, <2>1 DEF Ring!WCheck, Begun
  <2>2. CASE Ring!WriterStep /\ ~Ring!WCheck
    <3>1. wpc # "check" /\ sent < MaxMsgs
      BY <2>2 DEF Ring!WriterStep, Ring!WStore, Ring!WReset, Ring!WFence, Begun
    <3>2. sent' = sent \/ (sent' = sent + 1 /\ wpc' = "check")
      BY <2>2 DEF Ring!WriterStep, Ring!WStore, Ring!WReset, Ring!WFence
    <3> QED BY <1>1, <3>1, <3>2 DEF Begun
  <2>3. CASE ~Ring!WriterStep
    <3>1. UNCHANGED <<sent, wpc>>
      BY <2>3 DEF Ring!Next, Ring!Drain, Ring!ReaderStep, Ring!Load, Ring!Retry, Ring!Accept
    <3> QED BY <1>1, <3>1 DEF Begun
  <2> QED BY <2>1, <2>2, <2>3
<1>3. \A r \in Ring!Readers : DOMAIN loads'[r] \subseteq Ring!Bytes
  <2>1. CASE UNCHANGED loads
    BY <2>1 DEF Ring!TypeOK
  <2>2. ASSUME NEW r \in Ring!Readers, NEW k \in 1..4, Ring!Load(r, k)
        PROVE  <1>3!:
    <3>1. Ring!LoadOrder(r)[k] \in Ring!Bytes
      BY RingBytes, <2>2 DEF Ring!LoadOrder
    <3> DEFINE b == Ring!LoadOrder(r)[k]
    <3>2. /\ loads' = [loads EXCEPT ![r] = [x \in DOMAIN @ \cup {b} |->
                                            IF x = b THEN mem[b] ELSE @[x]]]
          /\ loads = [q \in Ring!Readers |-> loads[q]]
          /\ \A q \in Ring!Readers : DOMAIN loads[q] \subseteq Ring!Bytes
      BY <2>2 DEF Ring!Load, Ring!TypeOK, RingInv, RingShapes
    <3> HIDE DEF b
    <3>3. DOMAIN loads'[r] = DOMAIN loads[r] \cup {b}
      BY <3>2
    <3>4. \A q \in Ring!Readers : q # r => loads'[q] = loads[q]
      BY <3>2
    <3>5. b \in Ring!Bytes
      BY <3>1 DEF b
    <3> QED BY <3>2, <3>3, <3>4, <3>5
  <2>3. ASSUME NEW r \in Ring!Readers, Ring!Retry(r) \/ Ring!Accept(r)
        PROVE  <1>3!:
    <3>1. /\ loads' = [loads EXCEPT ![r] = << >>]
          /\ loads = [q \in Ring!Readers |-> loads[q]]
          /\ \A q \in Ring!Readers : DOMAIN loads[q] \subseteq Ring!Bytes
      BY <2>3 DEF Ring!Retry, Ring!Accept, Ring!TypeOK, RingInv, RingShapes
    <3>2. DOMAIN << >> = {}
      OBVIOUS
    <3>3. \A q \in Ring!Readers : loads'[q] = IF q = r THEN << >> ELSE loads[q]
      BY <3>1
    <3>4. ASSUME NEW q \in Ring!Readers
          PROVE  DOMAIN loads'[q] \subseteq Ring!Bytes
      <4>1. CASE q = r
        BY <3>2, <3>3, <4>1
      <4>2. CASE q # r
        BY <3>1, <3>3, <4>2
      <4> QED BY <4>1, <4>2
    <3> QED BY <3>4
  <2> QED
    BY <2>1, <2>2, <2>3 DEF Ring!Next, Ring!ReaderStep, Ring!Drain, Ring!WriterStep,
       Ring!WCheck, Ring!WStore, Ring!WReset, Ring!WFence, Ring!readerVars
<1>4. \A i \in DOMAIN buf' : buf'[i] \in [byte : Ring!Bytes, val : 0..MaxMsgs \cup {1}]
  <2>a. buf' \in Seq([byte : Ring!Bytes, val : Nat])
    BY DEF RingInv, RingShapes
  <2>b. \A S, s : s \in Seq(S) => DOMAIN s = 1..Len(s) /\ \A i \in 1..Len(s) : s[i] \in S
    OBVIOUS
  <2>1. /\ DOMAIN buf' = 1..Len(buf')
        /\ \A i \in 1..Len(buf') : buf'[i] \in [byte : Ring!Bytes, val : Nat]
    BY <2>a, <2>b
  <2>2. ASSUME NEW i \in 1..Len(buf')
        PROVE  buf'[i].val \in 0..MaxMsgs \cup {1}
    <3>1. CASE Filling'
      <4>1. wpc' # "check"
        BY <3>1 DEF Filling
      <4>2. sent' < MaxMsgs
        BY <1>2, <4>1 DEF Begun
      <4>3. BufferInv'
        BY DEF RingInv
      <4>4. buf'[i].val \in {0, sent' + 1}
        <5>1. Filling' => \A j \in 1..Len(buf') :
                buf'[j] = [byte |-> ByteOf(Seen + j)', val |-> ValOf(Seen + j)']
          BY <4>3, Zenon DEF BufferInv
        <5>2. buf'[i] = [byte |-> ByteOf(Seen + i)', val |-> ValOf(Seen + i)']
          BY <3>1, <5>1, Zenon
        <5>3. ValOf(Seen + i)' \in {0, sent' + 1}
          BY DEF ValOf
        <5>4. \A b, v : [byte |-> b, val |-> v].val = v
          OBVIOUS
        <5>5. buf'[i].val = ValOf(Seen + i)'
          BY <5>2, <5>4, Zenon
        <5> QED BY <5>3, <5>5, Zenon
      <4> QED BY <1>1, <1>2, <4>2, <4>4
    <3>2. CASE wpc' \in {"check", "commit"}
      BY <3>2 DEF RingInv, BufferInv
    <3>3. CASE wpc' = "publish"
      BY <3>3 DEF RingInv, BufferInv
    <3> QED BY <3>1, <3>2, <3>3 DEF RingInv, RingShapes, Filling
  <2>3. ASSUME NEW e \in [byte : Ring!Bytes, val : Nat], e.val \in 0..MaxMsgs \cup {1}
        PROVE  e \in [byte : Ring!Bytes, val : 0..MaxMsgs \cup {1}]
    BY <2>3
  <2> QED BY <2>1, <2>2, <2>3
<1>6. mem' \in [Ring!Bytes -> 0..MaxMsgs \cup {1}]
  <2>1. CASE UNCHANGED mem
    BY <2>1 DEF Ring!TypeOK
  <2>2. ASSUME NEW r \in Ring!Readers, Ring!Accept(r)
        PROVE  mem' \in [Ring!Bytes -> 0..MaxMsgs \cup {1}]
    BY <2>2 DEF Ring!Accept, Ring!TypeOK
  <2>3. ASSUME NEW i \in 1..Len(buf), Ring!Drain(i)
        PROVE  mem' \in [Ring!Bytes -> 0..MaxMsgs \cup {1}]
    BY <2>3 DEF Ring!Drain, Ring!TypeOK
  <2> QED
    BY <2>1, <2>2, <2>3 DEF Ring!Next, Ring!ReaderStep, Ring!WriterStep, Ring!Load, Ring!Retry,
       Ring!WCheck, Ring!WStore, Ring!WReset, Ring!WFence
<1>5. /\ wpc' \in {"check", "mark", "lo", "hi", "reset", "fence", "commit", "publish"}
      /\ taken' \in [Ring!Readers -> Nat]
  BY DEF RingInv, RingShapes
<1> QED
  BY <1>2, <1>3, <1>4, <1>5, <1>6 DEF Ring!TypeOK

\* The types that are not part of another invariant.
NodeTypes ==
  /\ Monitor!TypeOK /\ Patches!TypeOK /\ Over!TypeOK
  /\ Warm!TypeOK /\ passes \in Seq(WarmPasses)
  /\ Ring!TypeOK /\ Begun

\* The invariants of the parts that the types rest on.
PartsInv ==
  /\ GateOf!IInv /\ McpOf!IInv /\ MonitorInv /\ RingInv
  /\ RatesInv /\ PctInv /\ WeightsInv /\ PatchInv /\ OverInv

LEMMA PartsKeep ==
  ASSUME NodeAssumption
  PROVE  /\ Init => PartsInv
         /\ PartsInv /\ [Next]_vars => PartsInv'
<1>1. Init => PartsInv
  BY GateStarts, McpStarts, MonitorStarts, RingStarts, RatesStarts, PctStarts, WeightsStart,
     PatchStart, OverStart DEF PartsInv
<1>2. PartsInv /\ [Next]_vars => PartsInv'
  BY GateKeeps, McpKeeps, MonitorKeeps, RingKeeps, RatesKeep, PctKeep, WeightsKeep,
     PatchKeep, OverKeep DEF PartsInv
<1> QED
  BY <1>1, <1>2

LEMMA TypesStart ==
  ASSUME NodeAssumption, Init
  PROVE  NodeTypes
<1>1. Monitor!TypeOK
  <2>1. MaxCompiles \in Nat
    BY DEF NodeAssumption, Monitor!MonitorAssumption
  <2>2. Monitor!Init
    BY DEF Init
  <2>3. active \in BOOLEAN /\ verbose \in BOOLEAN /\ silent \in BOOLEAN
        /\ onCompile \in {"warn", "error"}
    BY <2>2 DEF Monitor!Init
  <2>4. /\ hooked = {} /\ warned = {} /\ depth = 0 /\ open = {} /\ compiles = 0
        /\ log = {}
    BY <2>2 DEF Monitor!Init
  <2>5. depth \in Nat /\ compiles \in 0..MaxCompiles
    BY <2>1, <2>4
  <2> QED BY <2>3, <2>4, <2>5, Zenon DEF Monitor!TypeOK
<1>2. Patches!TypeOK
  <2>1. MaxFails \in Nat /\ MaxReruns \in Nat
    BY DEF NodeAssumption, Patches!PatchesAssumption
  <2> QED BY <2>1, ScriptsAre DEF Init, Patches!Init, Patches!TypeOK
<1>3. Over!TypeOK
  BY DEF Init, Over!Init, Over!TypeOK, NodeAssumption, Over!OverlaysAssumption
<1>4. Warm!TypeOK
  BY DEF Init, Warm!Init, Warm!TypeOK
<1>5. passes \in Seq(WarmPasses)
  <2>1. specConfig.n \in 0..15 /\ passes = Warm!Passes
    BY DEF Init, Warm!Init, NodeAssumption, Warm!WarmUpAssumption
  <2> QED BY <2>1, PassesAre
<1>6. Ring!TypeOK /\ Begun
  <2>1. MaxMsgs \in Nat
    BY DEF NodeAssumption, Ring!FenceAssumption
  <2>2. /\ mem = [b \in Ring!Bytes |-> 0] /\ buf = << >> /\ wpc = "check" /\ sent = 0
        /\ loads = [r \in Ring!Readers |-> << >>] /\ taken = [r \in Ring!Readers |-> 0]
    BY DEF Init, Ring!Init
  <2>3. DOMAIN << >> = {}
    OBVIOUS
  <2>4. \A r \in Ring!Readers : DOMAIN loads[r] \subseteq Ring!Bytes
    BY <2>2, <2>3
  <2> QED BY <2>1, <2>2, <2>3, <2>4 DEF Ring!TypeOK, Begun
<1> QED
  BY <1>1, <1>2, <1>3, <1>4, <1>5, <1>6 DEF NodeTypes

LEMMA TypesKeep ==
  ASSUME NodeAssumption, PartsInv, PartsInv', NodeTypes, [Next]_vars
  PROVE  NodeTypes'
<1>1. Monitor!TypeOK'
  <2>1. CASE UNCHANGED monitorVars
    BY <2>1 DEF monitorVars, NodeTypes, Monitor!TypeOK
  <2> QED BY <2>1, MonitorTypes DEF Next, GateNext, vars, PartsInv, NodeTypes
<1>2. Patches!TypeOK'
  <2>1. CASE UNCHANGED patchesVars
    BY <2>1 DEF patchesVars, NodeTypes, Patches!TypeOK
  <2> QED BY <2>1, PatchTypes DEF Next, GateNext, vars, PartsInv, NodeTypes
<1>3. Over!TypeOK'
  <2>1. CASE UNCHANGED overVars
    BY <2>1 DEF overVars, NodeTypes, Over!TypeOK
  <2> QED BY <2>1, OverTypes DEF Next, GateNext, vars, PartsInv, NodeTypes
<1>4. Warm!TypeOK'
  <2>1. CASE UNCHANGED warmVars
    BY <2>1 DEF warmVars, NodeTypes, Warm!TypeOK
  <2> QED BY <2>1, WarmTypes DEF Next, GateNext, vars, NodeTypes
<1>5. passes' \in Seq(WarmPasses)
  BY PassesStay DEF NodeTypes
<1>6. Ring!TypeOK' /\ Begun'
  <2>1. CASE UNCHANGED ringVars
    BY <2>1 DEF ringVars, NodeTypes, Ring!TypeOK, Begun
  <2> QED BY <2>1, RingTypes DEF Next, GateNext, vars, PartsInv, NodeTypes
<1> QED
  BY <1>1, <1>2, <1>3, <1>4, <1>5, <1>6 DEF NodeTypes

\* The variables of every part keep to their types, the one that moves included: the
\* bounds of the sequences and counters are those the code or the model sets.
THEOREM NodeTypeOK ==
  ASSUME NodeAssumption
  PROVE  Spec => []TypeOK
<1>1. PartsInv /\ NodeTypes => TypeOK
  <2> SUFFICES ASSUME PartsInv, NodeTypes PROVE TypeOK
    OBVIOUS
  <2>1. Gate!TypeOK
    BY DEF PartsInv, GateOf!IInv, GateOf!Shapes, Gate!TypeOK, GateOf!Checks, Gate!Checks
  <2>2. Rates!TypeOK
    BY DEF PartsInv, RatesInv, RatesShapes, PctInv, Rates!TypeOK
  <2>3. Mcp!TypeOK
    <3>1. call.state \in {"none", "handled", "broken", "lost", "done", "dropped"}
      <4>1. CASE call = McpOf!NoCall
        BY <4>1 DEF McpOf!NoCall
      <4>2. CASE call \in McpOf!CallType
        BY <4>2 DEF McpOf!CallType
      <4> QED BY <4>1, <4>2 DEF PartsInv, McpOf!IInv, McpOf!Followed
    <3> QED BY <3>1 DEF PartsInv, McpOf!IInv, McpOf!RowsTell, Mcp!TypeOK
  <2>4. Weights!TypeOK
    BY DEF PartsInv, WeightsInv, Weights!TypeOK, Arrived
  <2> QED BY <2>1, <2>2, <2>3, <2>4 DEF NodeTypes, TypeOK
<1>2. PartsInv /\ NodeTypes /\ [Next]_vars => PartsInv' /\ NodeTypes'
  BY PartsKeep, TypesKeep
<1>3. Init => PartsInv /\ NodeTypes
  BY PartsKeep, TypesStart
<1> QED
  BY <1>1, <1>2, <1>3, PTL DEF Spec
=============================================================================
