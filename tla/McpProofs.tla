------------------------------- MODULE McpProofs -------------------------------
(***************************************************************************)
(* Proofs about McpCalls, for every set of nodes and every list of peers.  *)
(***************************************************************************)
EXTENDS McpCalls, TLAPS

\* A row that has a name has the one of the node at its address.
RowsTell == snap \in [Nodes -> [Peers -> Nodes \cup {"?"}]]
         /\ \A n \in Nodes, a \in Peers : snap[n][a] \in {"?", HostAt[a]}

CallType ==
  [state : {"handled", "broken", "lost", "done", "dropped"}, at : Nodes, tool : Tools,
   name : Names, arg : Names, entry : Nodes, by : Nodes \cup {"?"}, error : BOOLEAN,
   hops : 0..1]

\* A call is still where the client left it, with the name it came with, or has been
\* forwarded without a name to a node that goes by it.
Followed(c) ==
  /\ c \in CallType
  /\ c.hops = 0 => c.at = c.entry /\ c.arg = c.name
  /\ c.hops = 1 => c.arg = "" /\ c.at \in Named(c)
  /\ c.state = "done" /\ ~c.error /\ c.tool = "node_status" => c.by \in Named(c)

IInv ==
  /\ up \in [Nodes -> BOOLEAN] /\ boots \in 0..MaxBoots /\ calls \in 0..MaxCalls
  /\ RowsTell
  /\ call = NoCall \/ Followed(call)

-----------------------------------------------------------------------------
LEMMA StartsInvariant ==
  ASSUME McpAssumption, Init
  PROVE  IInv
BY DEF McpAssumption, Init, IInv, RowsTell

\* Whatever changes of a call but its route and its name keeps it followed.
LEMMA SameRoute ==
  ASSUME NEW c, Followed(c), NEW d \in CallType,
         d.at = c.at, d.arg = c.arg, d.name = c.name, d.entry = c.entry, d.hops = c.hops,
         d.state = "done" => d.error \/ d.tool # "node_status" \/ d.by \in Named(c)
  PROVE  Followed(d)
BY DEF Followed, Named

\* Every call there is, is followed.
LEMMA Live ==
  ASSUME IInv, call.state # "none"
  PROVE  Followed(call) /\ call \in CallType
<1>1. NoCall.state = "none"
  BY DEF NoCall
<1> QED
  BY <1>1 DEF IInv, Followed

\* A call a node runs itself is one for it.
LEMMA RunsAtNamed ==
  ASSUME McpAssumption, Followed(call), RunsHere(call.at), call.tool = "node_status"
  PROVE  call.at \in Named(call)
<1>1. call.hops \in 0..1 /\ call.at \in Nodes
  BY DEF Followed, CallType
<1>2. CASE call.hops = 1
  BY <1>2 DEF Followed
<1>3. CASE call.hops = 0
  <2>1. call.at = call.entry /\ call.arg = call.name
    BY <1>3 DEF Followed
  <2>2. call.name = "" \/ call.name = Self \/ call.name = call.at
    BY <2>1 DEF RunsHere, IsSelf
  <2>3. call.at \notin Peers
    BY <1>1 DEF McpAssumption
  <2> QED
    BY <1>1, <2>1, <2>2, <2>3 DEF Named
<1> QED
  BY <1>1, <1>2, <1>3

\* A name is resolved to a node that goes by it.
LEMMA ResolvesToNamed ==
  ASSUME McpAssumption, RowsTell, Followed(call), call.hops = 0, ~RunsHere(call.at),
         NEW a \in PeerAddrFor(call.at, call.arg)
  PROVE  a \in Peers /\ HostAt[a] \in Nodes /\ HostAt[a] \in Named(call)
<1>1. a \in Peers /\ HostAt[a] \in Nodes /\ HostAt[a] \notin Peers
  BY DEF PeerAddrFor, McpAssumption
<1>2. call.at \in Nodes /\ call.arg = call.name
  BY DEF Followed, CallType
<1>3. call.name # "" /\ call.name # Self
  BY <1>2 DEF RunsHere, IsSelf
<1>4. call.name = a \/ call.name = Blank \/ (call.name = snap[call.at][a] /\ snap[call.at][a] # "?")
  BY <1>2 DEF PeerAddrFor, NamesOf
<1>5. call.name = a \/ call.name = Blank \/ call.name = HostAt[a]
  BY <1>1, <1>2, <1>4 DEF RowsTell
<1> QED
  BY <1>1, <1>3, <1>5 DEF Named

-----------------------------------------------------------------------------
LEMMA ReplyKeeps ==
  ASSUME Followed(call), NEW by \in Nodes, NEW error \in BOOLEAN, Reply(by, error),
         error \/ call.tool # "node_status" \/ by \in Named(call)
  PROVE  Followed(call')
<1> DEFINE d == [call EXCEPT !.state = "done", !.by = by, !.error = error]
<1>1. call \in CallType
  BY DEF Followed
<1>2. /\ d \in CallType
      /\ d.at = call.at /\ d.arg = call.arg /\ d.name = call.name /\ d.entry = call.entry
      /\ d.hops = call.hops /\ d.tool = call.tool /\ d.by = by /\ d.error = error
  BY <1>1 DEF CallType
<1>3. call' = d
  BY DEF Reply
<1> QED
  <2> HIDE DEF d
  <2> QED
    BY <1>2, <1>3, SameRoute

LEMMA CallKeeps ==
  ASSUME McpAssumption, IInv, NEW n \in Nodes, NEW tool \in Tools, NEW name \in Names, Call(n, tool, name)
  PROVE  IInv'
<1>1. call' = NoCall \/ Followed(call')
  <2>1. CASE up[n]
    BY <2>1 DEF Call, Followed, CallType
  <2>2. CASE ~up[n]
    BY <2>2 DEF Call
  <2> QED
    BY <2>1, <2>2
<1>2. calls' \in 0..MaxCalls
  BY DEF Call, IInv, McpAssumption
<1> QED
  BY <1>1, <1>2 DEF Call, IInv, RowsTell

LEMMA RestartKeeps ==
  ASSUME McpAssumption, IInv, NEW n \in Nodes, Restart(n)
  PROVE  IInv'
<1>1. /\ up' \in [Nodes -> BOOLEAN] /\ boots' \in 0..MaxBoots /\ calls' \in 0..MaxCalls
  BY DEF Restart, IInv, McpAssumption
<1>2. RowsTell'
  BY DEF Restart, IInv, RowsTell
<1>3. CASE call = NoCall
  BY <1>1, <1>2, <1>3 DEF Restart, IInv, NoCall
<1>4. CASE Followed(call)
  <2>1. call \in CallType
    BY <1>4 DEF Followed
  <2>2. \/ call' = call
        \/ call' = [call EXCEPT !.state = "lost"]
        \/ call' = [call EXCEPT !.state = "broken"]
    BY DEF Restart
  <2>3. Followed(call')
    BY <1>4, <2>1, <2>2 DEF Followed, CallType, Named
  <2> QED
    BY <1>1, <1>2, <2>3 DEF IInv
<1> QED
  BY <1>3, <1>4 DEF IInv

LEMMA PollKeeps ==
  ASSUME McpAssumption, IInv, NEW n \in Nodes, NEW a \in Peers, Poll(n, a)
  PROVE  IInv'
<1>1. PICK got \in {"?", HostAt[a]} : snap' = [snap EXCEPT ![n][a] = got]
  BY DEF Poll
<1>2. RowsTell'
  BY <1>1 DEF IInv, RowsTell, McpAssumption
<1> QED
  BY <1>2 DEF Poll, IInv

LEMMA OneHop ==
  ASSUME NEW c, c.hops = 1
  PROVE  c.hops # 0
OBVIOUS

LEMMA ForwardedOnce ==
  ASSUME NEW c \in CallType, c.state = "handled", c.hops = 1, c.arg = "", c.at \in Named(c)
  PROVE  Followed(c)
<1>1. c.state # "done"
  OBVIOUS
<1>2. c.hops # 0
  BY OneHop
<1> QED
  BY <1>1, <1>2 DEF Followed

LEMMA ForwardKeeps ==
  ASSUME McpAssumption, IInv, Forward
  PROVE  IInv'
<1>1. Followed(call) /\ call \in CallType /\ ~RunsHere(call.at)
  BY Live DEF Forward
<1>2. call.hops = 0
  <2>1. call.hops \in 0..1
    BY <1>1 DEF CallType
  <2>2. call.hops # 1
    BY <1>1 DEF RunsHere, Followed
  <2> QED
    BY <2>1, <2>2
<1>3. PICK a \in PeerAddrFor(call.at, call.arg) :
        \/ Reply(call.at, TRUE)
        \/ call' = [call EXCEPT !.at = HostAt[a], !.arg = "", !.hops = @ + 1]
  BY DEF Forward, Forwarded
<1>4. HostAt[a] \in Nodes /\ HostAt[a] \in Named(call)
  BY <1>1, <1>2, ResolvesToNamed DEF IInv
<1>5. CASE Reply(call.at, TRUE)
  <2>1. Followed(call')
    BY <1>1, <1>5, ReplyKeeps DEF CallType
  <2> QED
    BY <2>1 DEF Forward, IInv, RowsTell
<1>6. CASE call' = [call EXCEPT !.at = HostAt[a], !.arg = "", !.hops = @ + 1]
  <2>1. call.state = "handled"
    BY DEF Forward
  <2>2. /\ call.hops + 1 = 1 /\ 1 \in 0..1 /\ "" \in Names
    BY <1>2 DEF Names
  <2>3. call' = [call EXCEPT !.at = HostAt[a], !.arg = "", !.hops = 1]
    BY <1>6, <2>2
  <2>4. /\ call'.state = "handled" /\ call'.hops = 1 /\ call'.arg = ""
        /\ call'.at = HostAt[a] /\ call'.name = call.name /\ call'.entry = call.entry
        /\ call' \in CallType
    BY <1>1, <1>4, <2>1, <2>2, <2>3 DEF CallType
  <2>5. Named(call') = Named(call)
    BY <2>4 DEF Named
  <2>6. Followed(call')
    BY <1>4, <2>4, <2>5, ForwardedOnce
  <2> QED
    BY <2>6 DEF Forward, IInv, RowsTell
<1> QED
  BY <1>3, <1>5, <1>6

LEMMA NextKeeps ==
  ASSUME McpAssumption, IInv, [Next]_vars
  PROVE  IInv'
<1>1. CASE Local
  <2>1. Followed(call) /\ call.at \in Nodes /\ RunsHere(call.at)
    BY <1>1, Live DEF Local, CallType
  <2>2. PICK error \in BOOLEAN : Reply(call.at, error)
    BY <1>1 DEF Local
  <2>3. Followed(call')
    BY <2>1, <2>2, ReplyKeeps, RunsAtNamed
  <2> QED
    BY <1>1, <2>3 DEF Local, IInv, RowsTell
<1>2. CASE Unknown
  <2>1. Followed(call) /\ call \in CallType
    BY <1>2, Live DEF Unknown
  <2>2. CASE Reply(call.at, TRUE)
    BY <1>2, <2>1, <2>2, ReplyKeeps DEF Unknown, IInv, RowsTell, CallType
  <2>3. CASE call' = [call EXCEPT !.state = "dropped"]
    <3>1. Followed(call')
      BY <2>1, <2>3 DEF Followed, CallType, Named
    <3> QED
      BY <1>2, <3>1 DEF Unknown, IInv, RowsTell
  <2> QED
    BY <1>2, <2>2, <2>3 DEF Unknown
<1>3. CASE GiveUp
  <2>1. Followed(call) /\ call.entry \in Nodes
    BY <1>3, Live DEF GiveUp, CallType
  <2>2. Followed(call')
    BY <1>3, <2>1, ReplyKeeps DEF GiveUp
  <2> QED
    BY <1>3, <2>2 DEF GiveUp, IInv, RowsTell
<1>4. CASE UNCHANGED vars
  BY <1>4 DEF vars, IInv, RowsTell
<1> QED
  BY <1>1, <1>2, <1>3, <1>4, PollKeeps, RestartKeeps, CallKeeps, ForwardKeeps DEF Next

-----------------------------------------------------------------------------
LEMMA NamedAnswers ==
  ASSUME IInv
  PROVE  AnsweredByNamed
<1>1. CASE call.state = "none"
  BY <1>1 DEF IInv, Followed, CallType, AnsweredByNamed
<1>2. CASE call.state # "none"
  <2>1. Followed(call) /\ call.hops \in 0..1
    BY <1>2, Live DEF CallType
  <2>2. call.hops <= 1
    BY <2>1
  <2> QED
    BY <2>1, <2>2 DEF Followed, AnsweredByNamed
<1> QED
  BY <1>1, <1>2

\* "the peer answers locally and cannot bounce it onward", for every number of nodes
\* and rows: a call is forwarded at most once, and node_status ran on the node that
\* was named, however pages restarted and rows changed in between.
THEOREM RanWhereNamed ==
  ASSUME McpAssumption
  PROVE  Spec => []AnsweredByNamed
<1> QED
  BY NamedAnswers, StartsInvariant, NextKeeps, PTL DEF Spec
=============================================================================
