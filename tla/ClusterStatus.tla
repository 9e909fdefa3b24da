----------------------------- MODULE ClusterStatus -----------------------------
(***************************************************************************)
(* The boot of the two containers (image/entrypoint.sh) and the status     *)
(* page each of them serves (image/status-server.py): the stage file and   *)
(* its two writers, the main script and its background watcher; the        *)
(* health a page reports; the polling of the peers' pages and the cluster  *)
(* health derived from it; containers that die or are restarted anywhere.  *)
(*                                                                         *)
(* External: vLLM binds its API on the head once every rank is there, with *)
(* a model that answers right or not; ray status answers once the head has *)
(* started ray.  SelfTest shows that the self-test passes a right model    *)
(* only.                                                                   *)
(***************************************************************************)
EXTENDS Naturals, Sequences

CONSTANTS
  Setups,      \* the values of DIST_BACKEND, "mp" or "ray", and SELF_TEST = 1
  Peers,       \* PEERS, a sequence of addresses
  Resolves,    \* Resolves[a]: the node at address a, or "nobody"
  WorkerWait,  \* TRUE: WORKER_WAIT_S > 0
  Tries,       \* attempts of a background loop (480 on the API, 120 on ray)
  MaxBoots     \* bound on the starts of the two containers together

Nodes == {"head", "worker"}

ASSUME ClusterAssumption ==
  /\ Setups \subseteq {"mp", "ray"} \X BOOLEAN /\ WorkerWait \in BOOLEAN
  /\ Peers \in Seq(DOMAIN Resolves) /\ Peers # << >>
  /\ \A i \in 1..Len(Peers) : Resolves[Peers[i]] \in Nodes \cup {"nobody"}
  /\ Tries \in Nat \ {0} /\ MaxBoots \in Nat \ {0}

VARIABLES
  dist,     \* DIST_BACKEND, the same on both nodes and at every start
  gate,     \* SELF_TEST = 1
  boot,     \* boot[n]: starts of n's container
  pc,       \* pc[n]: where n's entrypoint is; "off" when there is no container
  stages,   \* stages[n]: the lines of n's STAGE_FILE
  watcher,  \* watcher[n]: n's background subshell
  tries,    \* tries[n]: attempts of its loop
  api,      \* the API on the head is bound
  right,    \* the loaded model answers right
  net,      \* pages answer one another within PEER_TIMEOUT_S
  snap,     \* snap[n][a]: n's row _peers[a]
  poll      \* poll[n]: the poll of n's peer_loop: address number and answer

bootVars == <<dist, gate, boot, pc, stages, watcher, tries, api, right>>
pageVars == <<snap, poll>>
vars     == <<dist, gate, boot, pc, stages, watcher, tries, api, right, net, snap, poll>>

Addresses == {Peers[i] : i \in 1..Len(Peers)}
NoRow     == [reach |-> "unknown", who |-> "nobody", boot |-> 0, healthy |-> FALSE]
Lost      == [NoRow EXCEPT !.reach = "no"]
NoPoll    == [next |-> 1, row |-> NoRow]

Init ==
  /\ \E setup \in Setups : dist = setup[1] /\ gate = setup[2]
  /\ boot = [n \in Nodes |-> 0] /\ pc = [n \in Nodes |-> "off"]
  /\ stages = [n \in Nodes |-> << >>]
  /\ watcher = [n \in Nodes |-> "none"] /\ tries = [n \in Nodes |-> 0]
  /\ api = FALSE /\ right = FALSE /\ net = TRUE
  /\ snap = [n \in Nodes |-> [a \in Addresses |-> NoRow]]
  /\ poll = [n \in Nodes |-> NoPoll]

-----------------------------------------------------------------------------
(* What a page reports about its own node.                                 *)

Up(n) == pc[n] # "off"

\* read_stage: the last line, "starting" while there is none.
Stage(n) == IF stages[n] = << >> THEN "starting" ELSE stages[n][Len(stages[n])]

Healthy(n) == Up(n) /\ Stage(n) = IF n = "worker" THEN "worker-ready" ELSE "serving"

\* local_status: the API is bound and the entrypoint has not declared it serving.
Shown(n) == IF n # "worker" /\ Stage(n) = "loading" /\ api THEN "self-test" ELSE Stage(n)

-----------------------------------------------------------------------------
(* The entrypoint.                                                         *)

Goto(n, from, to) == pc[n] = from /\ pc' = [pc EXCEPT ![n] = to]
Append1(n, s)     == stages' = [stages EXCEPT ![n] = Append(@, s)]
Watch(n, what)    == watcher' = [watcher EXCEPT ![n] = what] /\ tries' = [tries EXCEPT ![n] = 0]

Start_KeepsStages(n) ==     \* the stage file of the last boot is appended to
  /\ boot["head"] + boot["worker"] < MaxBoots
  /\ Goto(n, "off", "starting")
  /\ boot' = [boot EXCEPT ![n] = @ + 1]
  /\ snap' = [snap EXCEPT ![n] = [a \in Addresses |-> NoRow]]
  /\ poll' = [poll EXCEPT ![n] = NoPoll]
  /\ UNCHANGED <<dist, gate, stages, watcher, tries, api, right, net>>

\* The network checks passed; the stage file is emptied before the page starts.
Start(n) ==
  /\ boot["head"] + boot["worker"] < MaxBoots
  /\ Goto(n, "off", "starting")
  /\ boot' = [boot EXCEPT ![n] = @ + 1]
  /\ stages' = [stages EXCEPT ![n] = << >>]
  /\ snap' = [snap EXCEPT ![n] = [a \in Addresses |-> NoRow]]
  /\ poll' = [poll EXCEPT ![n] = NoPoll]
  /\ UNCHANGED <<dist, gate, watcher, tries, api, right, net>>

Starting(n) ==
  /\ Goto(n, "starting", "dist")
  /\ Append1(n, "starting")
  /\ UNCHANGED <<dist, gate, boot, watcher, tries, api, right, net, pageVars>>

JoinRay_PollFirst(n) ==     \* the poller starts before joining is written
  /\ dist = "ray" /\ n = "worker"
  /\ \/ /\ watcher[n] = "none" /\ Goto(n, "dist", "dist") /\ Watch(n, "ray")
        /\ UNCHANGED stages
     \/ /\ watcher[n] # "none" /\ Goto(n, "dist", "ray-start") /\ Append1(n, "joining")
        /\ UNCHANGED <<watcher, tries>>
  /\ UNCHANGED <<dist, gate, boot, api, right, net, pageVars>>

\* ray, worker: the poller goes to the background and ray start takes over.
JoinRay(n) ==
  /\ dist = "ray" /\ n = "worker"
  /\ Goto(n, "dist", "ray-start")
  /\ Append1(n, "joining") /\ Watch(n, "ray")
  /\ UNCHANGED <<dist, gate, boot, api, right, net, pageVars>>

HeadRay == pc["head"] \in {"gpus", "load", "watch", "serve"}

RayletUp(n) ==
  /\ HeadRay /\ Goto(n, "ray-start", "raylet")
  /\ UNCHANGED <<dist, gate, boot, stages, watcher, tries, api, right, net, pageVars>>

StartRayHead(n) ==
  /\ dist = "ray" /\ n = "head"
  /\ Goto(n, "dist", "gpus")
  /\ Append1(n, "waiting-workers")
  /\ UNCHANGED <<dist, gate, boot, watcher, tries, api, right, net, pageVars>>

GpusThere(n) ==
  /\ pc["worker"] = "raylet"
  /\ Goto(n, "gpus", "load")
  /\ UNCHANGED <<dist, gate, boot, stages, watcher, tries, api, right, net, pageVars>>

\* mp waits for nobody: both ranks go on to vllm serve.
DistMp(n) ==
  /\ dist = "mp"
  /\ Goto(n, "dist", "load")
  /\ Append1(n, IF n = "worker" THEN "joining" ELSE "waiting-workers")
  /\ UNCHANGED <<dist, gate, boot, watcher, tries, api, right, net, pageVars>>

Loading(n) ==
  /\ Goto(n, "load", "watch")
  /\ Append1(n, "loading")
  /\ UNCHANGED <<dist, gate, boot, watcher, tries, api, right, net, pageVars>>

StartWatcher(n) ==
  /\ Goto(n, "watch", "serve")
  /\ Watch(n, IF gate THEN "test" ELSE "curl")
  /\ UNCHANGED <<dist, gate, boot, stages, api, right, net, pageVars>>

Stopped(n) ==
  /\ pc' = [pc EXCEPT ![n] = "off"]
  /\ watcher' = [watcher EXCEPT ![n] = "none"]
  /\ api' = (api /\ n # "head")
  /\ UNCHANGED <<dist, gate, boot, stages, tries, right, net, pageVars>>

\* A FATAL of the script: too few GPUs after WORKER_WAIT_S, or no config.json.
Fatal(n) ==
  /\ \/ pc[n] = "gpus" /\ WorkerWait
     \/ pc[n] = "dist"
  /\ Stopped(n)

\* vLLM, ray or the operator ends the container: exec made them its process 1.
Stop(n) == Up(n) /\ Stopped(n)

Entrypoint(n) ==
  \/ Starting(n) \/ JoinRay(n) \/ RayletUp(n) \/ StartRayHead(n) \/ GpusThere(n)
  \/ DistMp(n) \/ Loading(n) \/ StartWatcher(n)

\* vLLM binds the API of the head once every rank is up.
BindApi ==
  /\ pc["head"] = "serve" /\ ~api
  /\ pc["worker"] = IF dist = "ray" THEN "raylet" ELSE "serve"
  /\ api' = TRUE
  /\ right' \in BOOLEAN
  /\ UNCHANGED <<dist, gate, boot, pc, stages, watcher, tries, net, pageVars>>

-----------------------------------------------------------------------------
(* The background subshell.  A node reaches its own API only.              *)

OwnApi(n) == n = "head" /\ api

Became(n, from, to) ==
  /\ watcher[n] = from
  /\ watcher' = [watcher EXCEPT ![n] = to]

\* self-test.py exits; it passes only a model that answers right.
TestExits(n, passed) ==
  /\ passed => OwnApi(n) /\ right
  /\ Became(n, "test", IF passed THEN "passed" ELSE "failed")
  /\ UNCHANGED <<dist, gate, boot, pc, stages, tries, api, right, net, pageVars>>

Verdict_OnlyGood(n) ==      \* a failed test writes no stage
  /\ \/ Became(n, "passed", "done") /\ Append1(n, "serving")
     \/ Became(n, "failed", "done") /\ UNCHANGED stages
  /\ UNCHANGED <<dist, gate, boot, pc, tries, api, right, net, pageVars>>

Verdict(n) ==
  /\ \/ Became(n, "passed", "done") /\ Append1(n, "serving")
     \/ Became(n, "failed", "done") /\ Append1(n, "self-test-failed")
  /\ UNCHANGED <<dist, gate, boot, pc, tries, api, right, net, pageVars>>

\* The loops on the API (SELF_TEST = 0) and on ray status (worker of ray).
LoopSucceeds(n) ==
  /\ \/ OwnApi(n) /\ Became(n, "curl", "done") /\ Append1(n, "serving")
     \/ HeadRay /\ Became(n, "ray", "done") /\ Append1(n, "worker-ready")
  /\ UNCHANGED <<dist, gate, boot, pc, tries, api, right, net, pageVars>>

LoopFails(n) ==
  /\ \/ watcher[n] = "curl" /\ ~OwnApi(n)
     \/ watcher[n] = "ray" /\ ~HeadRay
  /\ tries' = [tries EXCEPT ![n] = @ + 1]
  /\ watcher' = [watcher EXCEPT ![n] = IF tries'[n] = Tries THEN "done" ELSE @]
  /\ UNCHANGED <<dist, gate, boot, pc, stages, api, right, net, pageVars>>

Watcher(n) ==
  \/ \E passed \in BOOLEAN : TestExits(n, passed)
  \/ Verdict(n) \/ LoopSucceeds(n) \/ LoopFails(n)

-----------------------------------------------------------------------------
(* peer_loop: one address after the other; the row is stored when the      *)
(* answer is there, and the peer may have moved on by then.                *)

Target(n) == Resolves[Peers[poll[n].next]]

Answer(n, row) ==
  /\ Up(n) /\ poll[n].row = NoRow
  /\ poll' = [poll EXCEPT ![n].row = row]
  /\ UNCHANGED <<bootVars, net, snap>>

\* 200 or 503, the body of /status.json is the answer.
PollAnswered(n) ==
  LET p == Target(n) IN
  /\ p \in Nodes /\ (net \/ p = n)
  /\ Up(p)
  /\ Answer(n, [reach |-> "yes", who |-> p, boot |-> boot[p], healthy |-> Healthy(p)])

\* Refused, unresolved or timed out.
PollFails(n) ==
  LET p == Target(n) IN
  /\ p \in Nodes => ~Up(p) \/ ~(net \/ p = n)
  /\ Answer(n, Lost)

Stored(n, i, row) ==
  /\ Up(n) /\ poll[n].row # NoRow
  /\ snap' = [snap EXCEPT ![n][Peers[i]] = row]
  /\ poll' = [poll EXCEPT ![n] = [next |-> (poll[n].next % Len(Peers)) + 1, row |-> NoRow]]
  /\ UNCHANGED <<bootVars, net>>

PollStore_NextRow(n) ==     \* stored under the address after the one polled
  Stored(n, (poll[n].next % Len(Peers)) + 1, poll[n].row)

PollStore_KeepsGood(n) ==   \* a failed poll leaves the row as it was
  Stored(n, poll[n].next,
         IF poll[n].row = Lost THEN snap[n][Peers[poll[n].next]] ELSE poll[n].row)

PollStore_Once(n) ==        \* setdefault
  Stored(n, poll[n].next,
         IF snap[n][Peers[poll[n].next]] = NoRow THEN poll[n].row
         ELSE snap[n][Peers[poll[n].next]])

PollStore(n) == Stored(n, poll[n].next, poll[n].row)

PeerLoop(n) == PollAnswered(n) \/ PollFails(n) \/ PollStore(n)

\* cluster_rows: a row per peer, and one for this node when no row is its own.
ClusterHealthy(n) ==
  /\ Up(n)
  /\ \A a \in Addresses : snap[n][a].healthy
  /\ (\A a \in Addresses : snap[n][a].who # n) => Healthy(n)

NetChanges ==
  /\ net' = ~net
  /\ UNCHANGED <<bootVars, pageVars>>

Next ==
  \/ \E n \in Nodes : \/ Start(n) \/ Entrypoint(n) \/ Fatal(n) \/ Stop(n)
                      \/ Watcher(n) \/ PeerLoop(n)
  \/ BindApi \/ NetChanges

Spec == Init /\ [][Next]_vars

\* Processes of a running container run; vLLM comes up once its ranks are there.
\* Nothing obliges a container to start, to stop, or the network to change.
FairSpec ==
  /\ Spec
  /\ \A n \in Nodes : /\ WF_vars(Entrypoint(n)) /\ WF_vars(Watcher(n))
                      /\ WF_vars(PeerLoop(n))
  /\ WF_vars(BindApi)

-----------------------------------------------------------------------------
(* Properties.                                                             *)

StageNames == {"starting", "joining", "worker-ready", "waiting-workers", "loading",
               "serving", "self-test-failed"}

\* A head that reports itself healthy has its API bound in this very boot and,
\* with the self-test on, a model that answers right.
HealthyServes == Healthy("head") => api /\ (gate => right)

\* Two processes append to the stage file; within a boot nothing is written
\* after the stage that means healthy.
HealthyStays ==
  [][\A n \in Nodes : Healthy(n) /\ Up(n)' => Healthy(n)']_vars

\* A row, or an answer on its way to one, that says healthy is about the node at
\* that address, and only outdated when that node went down since.
RowsTrue ==
  \A n \in Nodes : \A i \in 1..Len(Peers) :
    \A row \in {snap[n][Peers[i]]} \cup (IF poll[n].next = i THEN {poll[n].row} ELSE {}) :
      row.healthy =>
        /\ row.who = Resolves[Peers[i]]
        /\ Up(row.who) /\ row.boot = boot[row.who] => Healthy(row.who)

\* A node that stays away turns the cluster unhealthy on every page.
DeadPeerNoticed ==
  \A n, p \in Nodes : <>[](Up(n) /\ ~Up(p)) => <>[]~ClusterHealthy(n)

\* When both nodes are healthy and reach one another, both pages come to say so.
ClusterSeenHealthy ==
  <>[](net /\ \A n \in Nodes : Healthy(n)) => <>[](\A n \in Nodes : ClusterHealthy(n))

\* The gate always ends in a verdict: a head that started the engine becomes
\* serving or failed, or its container is gone.
VerdictReached ==
  gate /\ pc["head"] = "serve" ~> Stage("head") \in {"serving", "self-test-failed"} \/ ~Up("head")

\* "The worker ... needs its own vocabulary -- otherwise it sits forever on a
\* head-oriented stage and looks stuck when it is healthy".
WorkerBecomesHealthy == <>[](api /\ Up("worker")) => <>Healthy("worker")
=============================================================================
