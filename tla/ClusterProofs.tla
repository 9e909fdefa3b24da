----------------------------- MODULE ClusterProofs -----------------------------
(***************************************************************************)
(* Proofs about ClusterStatus, for every list of peers and every bound.    *)
(***************************************************************************)
EXTENDS ClusterStatus, TLAPS

\* The types of what the boot writes.
Shapes ==
  /\ pc \in [Nodes -> {"off", "starting", "dist", "ray-start", "raylet", "gpus", "load",
                       "watch", "serve"}]
  /\ stages \in [Nodes -> Seq(StageNames)]
  /\ watcher \in [Nodes -> {"none", "ray", "test", "curl", "passed", "failed", "done"}]
  /\ api \in BOOLEAN /\ right \in BOOLEAN /\ gate \in BOOLEAN

\* What the script's place, the watcher and the stage file of the head say of
\* one another: the watcher lives beside vLLM only, and who wrote "serving" had
\* seen the API or a test that passed.
HeadInv ==
  /\ api => pc["head"] = "serve"
  /\ watcher["head"] \notin {"none", "ray"} => pc["head"] = "serve"
  /\ watcher["head"] # "ray"
  /\ watcher["head"] = "curl" => ~gate
  /\ watcher["head"] = "passed" => api /\ right
  /\ Up("head") /\ Stage("head") = "serving" =>
       watcher["head"] = "done" /\ api /\ (gate => right)

\* The same for the worker, which is healthy with ray only.
WorkerInv ==
  /\ watcher["worker"] = "ray" => pc["worker"] \in {"ray-start", "raylet"}
  /\ pc["worker"] \in {"ray-start", "raylet"} => watcher["worker"] \in {"ray", "done"}
  /\ Up("worker") /\ Stage("worker") = "worker-ready" =>
       watcher["worker"] = "done" /\ pc["worker"] \in {"ray-start", "raylet"}

IInv == Shapes /\ HeadInv /\ WorkerInv

-----------------------------------------------------------------------------
(* The stage a page reads after a line was written, or none was.           *)

LEMMA StageWritten ==
  ASSUME Shapes, NEW n \in Nodes, NEW s \in StageNames, Append1(n, s)
  PROVE  /\ Stage(n)' = s
         /\ \A k \in Nodes \ {n} : Stage(k)' = Stage(k)
         /\ stages' \in [Nodes -> Seq(StageNames)]
<1>1. stages[n] \in Seq(StageNames)
  BY DEF Shapes
<1>2. Append(stages[n], s) \in Seq(StageNames)
  BY <1>1
<1>3. stages'[n] = Append(stages[n], s) /\ \A k \in Nodes \ {n} : stages'[k] = stages[k]
  BY DEF Append1, Shapes
<1>4. Append(stages[n], s) # << >>
      /\ Append(stages[n], s)[Len(Append(stages[n], s))] = s
  BY <1>1
<1>5. Stage(n)' = s
  BY <1>3, <1>4 DEF Stage
<1>6. stages' \in [Nodes -> Seq(StageNames)]
  BY <1>2 DEF Append1, Shapes
<1> QED
  BY <1>3, <1>5, <1>6 DEF Stage

LEMMA StageKept ==
  ASSUME UNCHANGED stages
  PROVE  \A k \in Nodes : Stage(k)' = Stage(k)
BY DEF Stage

LEMMA StartsInvariant == Init => IInv
<1> SUFFICES ASSUME Init PROVE IInv
  OBVIOUS
<1>1. << >> \in Seq(StageNames)
  OBVIOUS
<1>2. Shapes
  BY <1>1, ClusterAssumption DEF Init, Shapes
<1> QED
  BY <1>2 DEF Init, IInv, HeadInv, WorkerInv, Up, Nodes

-----------------------------------------------------------------------------
(* The entrypoint.                                                         *)

LEMMA StartKeeps ==
  ASSUME IInv, NEW n \in Nodes, Start(n)
  PROVE  IInv'
<1>1. Shapes'
  <2>1. << >> \in Seq(StageNames)
    OBVIOUS
  <2> QED BY <2>1 DEF IInv, Shapes, Start, Goto
<1>2. Stage(n)' = "starting" /\ \A k \in Nodes \ {n} : Stage(k)' = Stage(k)
  BY DEF Start, Stage, IInv, Shapes
<1> QED
  BY <1>1, <1>2 DEF IInv, Shapes, HeadInv, WorkerInv, Up, Start, Goto, Nodes

\* Steps of the script that write a line.
LEMMA WritingKeeps ==
  ASSUME IInv, NEW n \in Nodes,
         Starting(n) \/ JoinRay(n) \/ StartRayHead(n) \/ DistMp(n) \/ Loading(n)
  PROVE  IInv'
<1>1. PICK s \in StageNames :
        Append1(n, s) /\ s \notin {"serving", "worker-ready"}
  BY DEF Starting, JoinRay, StartRayHead, DistMp, Loading, StageNames
<1>2. /\ Stage(n)' = s
      /\ \A k \in Nodes \ {n} : Stage(k)' = Stage(k)
      /\ stages' \in [Nodes -> Seq(StageNames)]
  BY <1>1, StageWritten DEF IInv
<1>3. Shapes'
  BY <1>2 DEF IInv, Shapes, Starting, JoinRay, StartRayHead, DistMp, Loading, Goto, Watch
<1>4. CASE JoinRay(n)
  BY <1>1, <1>2, <1>3, <1>4
  DEF IInv, Shapes, HeadInv, WorkerInv, Up, JoinRay, Goto, Watch, Nodes
<1>5. CASE Starting(n) \/ StartRayHead(n) \/ DistMp(n) \/ Loading(n)
  BY <1>1, <1>2, <1>3, <1>5
  DEF IInv, Shapes, HeadInv, WorkerInv, Up, Starting, StartRayHead, DistMp, Loading, Goto, Nodes
<1> QED
  BY <1>4, <1>5

\* Steps of the script that do not.
LEMMA MovingKeeps ==
  ASSUME IInv, NEW n \in Nodes,
         RayletUp(n) \/ GpusThere(n) \/ StartWatcher(n) \/ Fatal(n) \/ Stop(n)
  PROVE  IInv'
<1>1. \A k \in Nodes : Stage(k)' = Stage(k)
  BY StageKept DEF RayletUp, GpusThere, StartWatcher, Fatal, Stop, Stopped
<1>2. Shapes'
  BY DEF IInv, Shapes, RayletUp, GpusThere, StartWatcher, Fatal, Stop, Stopped, Goto, Watch
<1>3. CASE RayletUp(n) \/ GpusThere(n)
  BY <1>1, <1>2, <1>3 DEF IInv, Shapes, HeadInv, WorkerInv, Up, RayletUp, GpusThere, Goto, Nodes
<1>4. CASE StartWatcher(n)
  BY <1>1, <1>2, <1>4 DEF IInv, Shapes, HeadInv, WorkerInv, Up, StartWatcher, Goto, Watch, Nodes
<1>5. CASE Fatal(n) \/ Stop(n)
  BY <1>1, <1>2, <1>5 DEF IInv, Shapes, HeadInv, WorkerInv, Up, Fatal, Stop, Stopped, Nodes
<1> QED
  BY <1>3, <1>4, <1>5

-----------------------------------------------------------------------------
(* The watcher.                                                            *)

LEMMA TestKeeps ==
  ASSUME IInv, NEW n \in Nodes,
         (\E passed \in BOOLEAN : TestExits(n, passed)) \/ LoopFails(n)
  PROVE  IInv'
<1>1. \A k \in Nodes : Stage(k)' = Stage(k)
  BY StageKept DEF TestExits, LoopFails
<1>2. Shapes'
  BY DEF IInv, Shapes, TestExits, LoopFails, Became
<1>3. CASE \E passed \in BOOLEAN : TestExits(n, passed)
  BY <1>1, <1>2, <1>3
  DEF IInv, Shapes, HeadInv, WorkerInv, Up, TestExits, Became, OwnApi, Nodes
<1>4. CASE LoopFails(n)
  BY <1>1, <1>2, <1>4
  DEF IInv, Shapes, HeadInv, WorkerInv, Up, LoopFails, Nodes
<1> QED
  BY <1>3, <1>4

LEMMA VerdictKeeps ==
  ASSUME IInv, NEW n \in Nodes, Verdict(n)
  PROVE  IInv'
<1>0. \/ watcher[n] = "passed" /\ Append1(n, "serving")
      \/ watcher[n] = "failed" /\ Append1(n, "self-test-failed")
  BY DEF Verdict, Became
<1>1. PICK s \in StageNames :
        /\ Append1(n, s)
        /\ \/ s = "serving" /\ watcher[n] = "passed"
           \/ s = "self-test-failed" /\ watcher[n] = "failed"
  BY <1>0 DEF StageNames
<1>2. /\ Stage(n)' = s
      /\ \A k \in Nodes \ {n} : Stage(k)' = Stage(k)
      /\ stages' \in [Nodes -> Seq(StageNames)]
  BY <1>1, StageWritten DEF IInv
<1>3. Shapes'
  BY <1>2 DEF IInv, Shapes, Verdict, Became
<1> QED
  BY <1>1, <1>2, <1>3 DEF IInv, Shapes, HeadInv, WorkerInv, Up, Verdict, Became, Nodes

LEMMA LoopKeeps ==
  ASSUME IInv, NEW n \in Nodes, LoopSucceeds(n)
  PROVE  IInv'
<1>1. PICK s \in StageNames :
        /\ Append1(n, s)
        /\ \/ s = "serving" /\ watcher[n] = "curl" /\ OwnApi(n)
           \/ s = "worker-ready" /\ watcher[n] = "ray"
  BY DEF LoopSucceeds, Became, StageNames
<1>2. /\ Stage(n)' = s
      /\ \A k \in Nodes \ {n} : Stage(k)' = Stage(k)
      /\ stages' \in [Nodes -> Seq(StageNames)]
  BY <1>1, StageWritten DEF IInv
<1>3. Shapes'
  BY <1>2 DEF IInv, Shapes, LoopSucceeds, Became
<1> QED
  BY <1>1, <1>2, <1>3
  DEF IInv, Shapes, HeadInv, WorkerInv, Up, LoopSucceeds, Became, OwnApi, Nodes

-----------------------------------------------------------------------------
(* Everything else leaves the boot alone, but for the binding of the API.  *)

LEMMA RestKeeps ==
  ASSUME IInv,
         \/ BindApi \/ NetChanges \/ UNCHANGED vars
         \/ \E n \in Nodes : PeerLoop(n)
  PROVE  IInv'
<1>1. UNCHANGED <<pc, stages, watcher, gate>>
      /\ (UNCHANGED <<api, right>> \/ BindApi)
  BY DEF BindApi, NetChanges, vars, bootVars, PeerLoop, PollAnswered, PollFails, PollStore,
         Answer, Stored
<1>2. \A k \in Nodes : Stage(k)' = Stage(k)
  BY <1>1, StageKept
<1>3. CASE UNCHANGED <<api, right>>
  BY <1>1, <1>2, <1>3 DEF IInv, Shapes, HeadInv, WorkerInv, Up, Nodes
<1>4. CASE BindApi
  BY <1>1, <1>2, <1>4 DEF IInv, Shapes, HeadInv, WorkerInv, Up, Nodes, BindApi
<1> QED
  BY <1>1, <1>3, <1>4

LEMMA StepInvariant == IInv /\ [Next]_vars => IInv'
<1> SUFFICES ASSUME IInv, [Next]_vars PROVE IInv'
  OBVIOUS
<1>1. CASE BindApi \/ NetChanges \/ UNCHANGED vars
  BY <1>1, RestKeeps
<1>2. ASSUME NEW n \in Nodes,
             Start(n) \/ Entrypoint(n) \/ Fatal(n) \/ Stop(n) \/ Watcher(n) \/ PeerLoop(n)
      PROVE  IInv'
  BY <1>2, StartKeeps, WritingKeeps, MovingKeeps, TestKeeps, VerdictKeeps, LoopKeeps, RestKeeps
  DEF Entrypoint, Watcher
<1> QED
  BY <1>1, <1>2 DEF Next

LEMMA Invariance == Spec => []IInv
BY StartsInvariant, StepInvariant, PTL DEF Spec

-----------------------------------------------------------------------------
(* The theorems.                                                           *)

\* A head that reports itself healthy has its API bound in this boot and, with
\* the self-test on, a model that answers right.
THEOREM HealthyMeansServing == Spec => []HealthyServes
<1>1. IInv => HealthyServes
  BY DEF IInv, HeadInv, HealthyServes, Healthy
<1> QED
  BY <1>1, Invariance, PTL

\* Within a boot no step of either writer of the stage file, and no other step,
\* takes the health of a node back.
LEMMA HealthKept ==
  ASSUME IInv, Next, NEW n \in Nodes, Healthy(n), Up(n)'
  PROVE  Healthy(n)'
<1>1. /\ watcher[n] = "done"
      /\ pc[n] = "serve" \/ pc[n] \in {"ray-start", "raylet"}
  BY DEF IInv, HeadInv, WorkerInv, Healthy, Nodes
<1>2. SUFFICES Stage(n)' = Stage(n)
  BY DEF Healthy
<1>3. SUFFICES stages'[n] = stages[n]
  BY DEF Stage
<1>4. ASSUME NEW k \in Nodes, Start(k) \/ Entrypoint(k) \/ Fatal(k) \/ Stop(k)
      PROVE  stages'[n] = stages[n]
  BY <1>1, <1>4 DEF IInv, Shapes, Start, Entrypoint, Fatal, Stop, Stopped, Starting, JoinRay,
         RayletUp, StartRayHead, GpusThere, DistMp, Loading, StartWatcher, Goto, Append1
<1>5. ASSUME NEW k \in Nodes, Watcher(k) \/ PeerLoop(k)
      PROVE  stages'[n] = stages[n]
  BY <1>1, <1>5 DEF IInv, Shapes, Watcher, TestExits, Verdict, LoopSucceeds, LoopFails, Became,
         Append1, PeerLoop, PollAnswered, PollFails, PollStore, Answer, Stored, bootVars
<1>6. CASE BindApi \/ NetChanges
  BY <1>6 DEF BindApi, NetChanges, bootVars
<1> QED
  BY <1>4, <1>5, <1>6 DEF Next

THEOREM HealthStays == Spec => HealthyStays
<1>1. IInv /\ [Next]_vars => [\A n \in Nodes : Healthy(n) /\ Up(n)' => Healthy(n)']_vars
  BY HealthKept
<1> QED
  BY <1>1, Invariance, PTL DEF Spec, HealthyStays

-----------------------------------------------------------------------------
(* The rows of the page.                                                   *)

Row == [reach : {"unknown", "yes", "no"}, who : Nodes \cup {"nobody"},
        boot : Nat, healthy : BOOLEAN]

PageShapes ==
  /\ boot \in [Nodes -> Nat]
  /\ snap \in [Nodes -> [Addresses -> Row]]
  /\ poll \in [Nodes -> [next : 1..Len(Peers), row : Row]]

\* A row that says healthy is about the node at its address and no later boot of it
\* than the current one; of the current one it is still right.
TrueRow(row, a) ==
  row.healthy =>
    /\ row.who \in Nodes /\ row.who = Resolves[a]
    /\ row.boot <= boot[row.who]
    /\ Up(row.who) /\ row.boot = boot[row.who] => Healthy(row.who)

RowsInv ==
  \A n \in Nodes : /\ \A a \in Addresses : TrueRow(snap[n][a], a)
                   /\ TrueRow(poll[n].row, Peers[poll[n].next])

PageInv == PageShapes /\ RowsInv

LEMMA NoRowTrue ==
  /\ NoRow \in Row /\ Lost \in Row
  /\ ~NoRow.healthy /\ ~Lost.healthy
BY DEF NoRow, Lost, Row

LEMMA PeersNotEmpty ==
  /\ Len(Peers) \in Nat \ {0}
  /\ \A i \in 1..Len(Peers) : Peers[i] \in Addresses /\ (i % Len(Peers)) + 1 \in 1..Len(Peers)
<1>1. Len(Peers) \in Nat \ {0}
  BY ClusterAssumption
<1>2. ASSUME NEW i \in Nat PROVE (i % Len(Peers)) + 1 \in 1..Len(Peers)
  BY <1>1
<1>3. \A i \in 1..Len(Peers) : i \in Nat /\ Peers[i] \in Addresses
  BY <1>1 DEF Addresses
<1> QED
  BY <1>1, <1>2, <1>3

\* Only a start changes a number of boots, and it makes rows about the old one old.
LEMMA BootsGrow ==
  ASSUME PageShapes, IInv, [Next]_vars
  PROVE  /\ boot' \in [Nodes -> Nat]
         /\ \A n \in Nodes : boot[n] <= boot'[n]
         /\ \A n \in Nodes : ~Up(n) /\ Up(n)' => boot[n] < boot'[n]
<1>1. ASSUME NEW k \in Nodes, Start(k)
      PROVE  /\ boot' \in [Nodes -> Nat]
             /\ \A n \in Nodes : IF n = k THEN boot'[n] = boot[n] + 1
                                 ELSE boot'[n] = boot[n] /\ pc'[n] = pc[n]
  BY <1>1 DEF PageShapes, IInv, Shapes, Start, Goto
<1>2. ASSUME NEW k \in Nodes, Entrypoint(k) \/ Fatal(k) \/ Stop(k)
      PROVE  UNCHANGED boot /\ \A n \in Nodes : Up(n)' => Up(n)
  BY <1>2 DEF IInv, Shapes, Entrypoint, Fatal, Stop, Stopped, Starting, JoinRay,
         RayletUp, StartRayHead, GpusThere, DistMp, Loading, StartWatcher, Goto, Up
<1>3. ASSUME NEW k \in Nodes, Watcher(k) \/ PeerLoop(k)
      PROVE  UNCHANGED <<boot, pc>>
  BY <1>3 DEF Watcher, TestExits, Verdict, LoopSucceeds, LoopFails, PeerLoop, PollAnswered,
         PollFails, PollStore, Answer, Stored, bootVars
<1>4. CASE BindApi \/ NetChanges \/ UNCHANGED vars
  BY <1>4 DEF BindApi, NetChanges, bootVars, vars, PageShapes, Up
<1>5. \A n \in Nodes : boot[n] \in Nat
  BY DEF PageShapes
<1>6. CASE \E k \in Nodes : Start(k)
  BY <1>1, <1>5, <1>6 DEF Up
<1>7. CASE UNCHANGED boot /\ \A n \in Nodes : Up(n)' => Up(n)
  BY <1>5, <1>7 DEF PageShapes
<1> QED
  BY <1>2, <1>3, <1>4, <1>6, <1>7 DEF Next, Up

\* No step makes a row untrue that stays where it is.
LEMMA TrueStays ==
  ASSUME PageShapes, IInv, [Next]_vars, NEW row \in Row, NEW a, TrueRow(row, a)
  PROVE  TrueRow(row, a)'
<1> SUFFICES ASSUME row.healthy PROVE TrueRow(row, a)'
  BY DEF TrueRow
<1> DEFINE w == row.who
<1>1. w \in Nodes /\ w = Resolves[a] /\ row.boot \in Nat /\ row.boot <= boot[w]
  BY DEF TrueRow, Row
<1>2. boot[w] \in Nat /\ boot'[w] \in Nat /\ boot[w] <= boot'[w]
  BY <1>1, BootsGrow DEF PageShapes
<1>3. ASSUME Up(w)', row.boot = boot'[w] PROVE Healthy(w)'
  <2>1. row.boot = boot[w] /\ Up(w)
    BY <1>1, <1>2, <1>3, BootsGrow
  <2>2. Healthy(w)
    BY <2>1 DEF TrueRow
  <2>3. CASE Next
    BY <1>1, <1>3, <2>2, <2>3, HealthKept
  <2>4. CASE UNCHANGED vars
    BY <2>2, <2>4 DEF vars, Healthy, Up, Stage
  <2> QED BY <2>3, <2>4
<1> QED
  BY <1>1, <1>2, <1>3 DEF TrueRow

LEMMA RowsStart == Init => PageInv
<1> SUFFICES ASSUME Init PROVE PageInv
  OBVIOUS
<1>1. PageShapes
  BY NoRowTrue, PeersNotEmpty DEF Init, PageShapes, NoPoll
<1> QED
  BY <1>1, NoRowTrue DEF Init, PageInv, RowsInv, TrueRow, NoPoll

\* The rows a page has after a step were there before, are not healthy, or are what
\* the polled node says of itself now.
LEMMA RowsKept ==
  ASSUME PageInv, IInv, [Next]_vars,
         snap' \in [Nodes -> [Addresses -> Row]],
         poll' \in [Nodes -> [next : 1..Len(Peers), row : Row]],
         \A n \in Nodes : \A a \in Addresses :
           \/ snap'[n][a] = snap[n][a]
           \/ a = Peers[poll[n].next] /\ snap'[n][a] = poll[n].row
           \/ ~snap'[n][a].healthy,
         \A n \in Nodes :
           poll'[n] = poll[n] \/ TrueRow(poll[n].row, Peers[poll[n].next])'
  PROVE  PageInv'
<1>1. PageShapes'
  BY BootsGrow DEF PageInv, PageShapes
<1>2. \A row \in Row : \A a : TrueRow(row, a) => TrueRow(row, a)'
  BY TrueStays DEF PageInv
<1>3. ASSUME NEW n \in Nodes
      PROVE  TrueRow(poll[n].row, Peers[poll[n].next])'
  <2>1. PICK row \in Row, i \in 1..Len(Peers) : row = poll[n].row /\ i = poll[n].next
    BY DEF PageInv, PageShapes
  <2>2. TrueRow(row, Peers[i])'
    BY <1>2, <2>1 DEF PageInv, RowsInv
  <2> QED
    BY <2>1, <2>2
<1>4. ASSUME NEW n \in Nodes, NEW a \in Addresses
      PROVE  TrueRow(snap[n][a], a)'
  <2>1. PICK row \in Row : row = snap[n][a]
    BY DEF PageInv, PageShapes
  <2>2. PICK next \in Row : next = poll[n].row
    BY DEF PageInv, PageShapes
  <2>3. TrueRow(row, a)' /\ (a = Peers[poll[n].next] => TrueRow(next, a)')
    BY <1>2, <2>1, <2>2 DEF PageInv, RowsInv
  <2>4. \/ snap'[n][a] = row
        \/ a = Peers[poll[n].next] /\ snap'[n][a] = next
        \/ ~snap'[n][a].healthy
    BY <2>1, <2>2
  <2> QED
    BY <2>3, <2>4 DEF TrueRow
<1> QED
  BY <1>1, <1>3, <1>4 DEF PageInv, RowsInv

LEMMA PageStarts ==
  ASSUME PageInv, IInv, NEW k \in Nodes, Start(k)
  PROVE  PageInv'
<1>1. /\ snap' = [snap EXCEPT ![k] = [a \in Addresses |-> NoRow]]
      /\ poll' = [poll EXCEPT ![k] = NoPoll]
      /\ [Next]_vars
  BY DEF Start, Next
<1>2. NoPoll \in [next : 1..Len(Peers), row : Row] /\ ~NoPoll.row.healthy
  BY NoRowTrue, PeersNotEmpty DEF NoPoll
<1>3. /\ snap' \in [Nodes -> [Addresses -> Row]]
      /\ poll' \in [Nodes -> [next : 1..Len(Peers), row : Row]]
  BY <1>1, <1>2, NoRowTrue DEF PageInv, PageShapes
<1>4. ASSUME NEW n \in Nodes
      PROVE  /\ \A a \in Addresses : snap'[n][a] = snap[n][a] \/ ~snap'[n][a].healthy
             /\ poll'[n] = poll[n] \/ ~poll'[n].row.healthy
  BY <1>1, <1>2, NoRowTrue DEF PageInv, PageShapes
<1>5. \A n \in Nodes : poll'[n] = poll[n] \/ TrueRow(poll[n].row, Peers[poll[n].next])'
  BY <1>4 DEF TrueRow
<1> QED
  BY <1>1, <1>3, <1>4, <1>5, RowsKept

LEMMA AnswersKept ==
  ASSUME PageInv, IInv, NEW k \in Nodes, PollAnswered(k) \/ PollFails(k)
  PROVE  PageInv'
<1>1. PICK row \in Row : Answer(k, row) /\ TrueRow(row, Peers[poll[k].next])
  <2>1. CASE PollAnswered(k)
    <3> DEFINE p == Target(k)
               row == [reach |-> "yes", who |-> p, boot |-> boot[p], healthy |-> Healthy(p)]
    <3>1. p \in Nodes /\ Answer(k, row)
      BY <2>1 DEF PollAnswered
    <3>2. row \in Row
      BY <3>1 DEF PageInv, PageShapes, Row, Healthy, Up
    <3>3. TrueRow(row, Peers[poll[k].next])
      BY <3>1 DEF TrueRow, Target, PageInv, PageShapes
    <3> QED BY <3>1, <3>2, <3>3
  <2>2. CASE PollFails(k)
    BY <2>2, NoRowTrue DEF PollFails, TrueRow
  <2> QED BY <2>1, <2>2
<1>2. /\ poll' = [poll EXCEPT ![k].row = row]
      /\ UNCHANGED snap
  BY <1>1 DEF Answer
<1>3. [Next]_vars
  BY DEF Next, PeerLoop
<1>4. PICK i \in 1..Len(Peers) : i = poll[k].next
  BY DEF PageInv, PageShapes
<1>5. TrueRow(row, Peers[i])'
  BY <1>1, <1>3, <1>4, TrueStays DEF PageInv
<1>6. poll'[k] = [next |-> i, row |-> row] /\ \A n \in Nodes \ {k} : poll'[n] = poll[n]
  BY <1>2, <1>4 DEF PageInv, PageShapes
<1>7. /\ snap' \in [Nodes -> [Addresses -> Row]]
      /\ poll' \in [Nodes -> [next : 1..Len(Peers), row : Row]]
  BY <1>2, <1>4 DEF PageInv, PageShapes
<1>8. \A n \in Nodes : poll'[n] = poll[n] \/ TrueRow(poll[n].row, Peers[poll[n].next])'
  BY <1>5, <1>6
<1> QED
  BY <1>2, <1>3, <1>7, <1>8, RowsKept

LEMMA StoreKept ==
  ASSUME PageInv, IInv, NEW k \in Nodes, PollStore(k)
  PROVE  PageInv'
<1>1. PICK i \in 1..Len(Peers), row \in Row : i = poll[k].next /\ row = poll[k].row
  BY DEF PageInv, PageShapes
<1>2. /\ snap' = [snap EXCEPT ![k][Peers[i]] = row]
      /\ poll' = [poll EXCEPT ![k] = [next |-> (i % Len(Peers)) + 1, row |-> NoRow]]
      /\ [Next]_vars
  BY <1>1 DEF PollStore, Stored, Next, PeerLoop
<1>3. Peers[i] \in Addresses /\ (i % Len(Peers)) + 1 \in 1..Len(Peers)
  BY PeersNotEmpty
<1>4. /\ snap' \in [Nodes -> [Addresses -> Row]]
      /\ poll' \in [Nodes -> [next : 1..Len(Peers), row : Row]]
  BY <1>2, <1>3, NoRowTrue DEF PageInv, PageShapes
<1>5. \A n \in Nodes : \A a \in Addresses :
        snap'[n][a] = snap[n][a] \/ (a = Peers[poll[n].next] /\ snap'[n][a] = poll[n].row)
  BY <1>1, <1>2, <1>3 DEF PageInv, PageShapes
<1>6. \A n \in Nodes : poll'[n] = poll[n] \/ ~poll'[n].row.healthy
  BY <1>2, NoRowTrue DEF PageInv, PageShapes
<1>7. \A n \in Nodes : poll'[n] = poll[n] \/ TrueRow(poll[n].row, Peers[poll[n].next])'
  BY <1>6 DEF TrueRow
<1> QED
  BY <1>2, <1>4, <1>5, <1>7, RowsKept

LEMMA PageStep ==
  ASSUME PageInv, IInv, [Next]_vars
  PROVE  PageInv'
<1>1. CASE UNCHANGED pageVars
  BY <1>1, RowsKept DEF pageVars, PageInv, PageShapes
<1>2. ASSUME NEW n \in Nodes, Entrypoint(n) \/ Fatal(n) \/ Stop(n) \/ Watcher(n)
      PROVE  UNCHANGED pageVars
  BY <1>2 DEF Entrypoint, Fatal, Stop, Stopped, Starting, JoinRay, RayletUp, StartRayHead,
         GpusThere, DistMp, Loading, StartWatcher, Watcher, TestExits, Verdict,
         LoopSucceeds, LoopFails, pageVars
<1>3. CASE BindApi \/ NetChanges \/ UNCHANGED vars
  <2>1. UNCHANGED pageVars
    BY <1>3 DEF BindApi, NetChanges, vars, pageVars
  <2> QED BY <1>1, <2>1
<1> QED
  BY <1>1, <1>2, <1>3, PageStarts, AnswersKept, StoreKept DEF Next, PeerLoop

LEMMA PageHolds == Spec => []PageInv
<1>1. PageInv /\ IInv /\ [Next]_vars => PageInv'
  BY PageStep
<1> QED
  BY RowsStart, <1>1, Invariance, PTL DEF Spec

\* A row of a page, or an answer on its way to one, that says healthy is about the
\* node at that address, and still right unless the node went down since: whatever
\* the addresses resolve to, the order of the polls, the restarts and the lost answers.
THEOREM RowsAreTrue == Spec => []RowsTrue
<1>1. ASSUME PageInv, NEW n \in Nodes, NEW i \in 1..Len(Peers),
             NEW row \in {snap[n][Peers[i]]} \cup
                         (IF poll[n].next = i THEN {poll[n].row} ELSE {})
      PROVE  TrueRow(row, Peers[i])
  <2>1. Peers[i] \in Addresses
    BY DEF Addresses
  <2>2. row = snap[n][Peers[i]] \/ (poll[n].next = i /\ row = poll[n].row)
    OBVIOUS
  <2> QED
    BY <1>1, <2>1, <2>2 DEF PageInv, RowsInv
<1>2. PageInv => RowsTrue
  BY <1>1 DEF RowsTrue, TrueRow
<1> QED
  BY <1>2, PageHolds, PTL

=============================================================================
