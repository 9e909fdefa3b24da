------------------------------- MODULE McpCalls -------------------------------
(***************************************************************************)
(* Tool calls to the status page (image/status-server.py, mcp_handle): a   *)
(* client calls a tool at some node and may name the node to answer for;   *)
(* that page resolves the name among the rows of its polls and forwards    *)
(* the call, without the name, to the address of the row.  Pages come and  *)
(* go, polls and forwarded calls fail.                                     *)
(*                                                                         *)
(* External: the network, and the addresses, which stay with their nodes.  *)
(* What a tool returns is the node that ran it.                            *)
(***************************************************************************)
EXTENDS Naturals, FiniteSets

CONSTANTS
  Nodes,     \* HOSTNAMEs
  Peers,     \* PEERS, a set of addresses, the same on every node
  HostAt,    \* HostAt[a]: the node at address a
  MaxCalls,  \* bound on the calls of the client
  MaxBoots   \* bound on the restarts of a page

\* Assumed of the constants wherever the module is instantiated.
McpAssumption ==
  /\ HostAt \in [Peers -> Nodes] /\ Nodes \cap Peers = {}
  /\ MaxCalls \in Nat /\ MaxBoots \in Nat

VARIABLES
  up,     \* up[n]: n's page answers
  boots,  \* restarts so far
  snap,   \* snap[n][a]: the host name of n's row for a, or "?" without one
  calls,  \* calls so far
  call    \* the client's call and what became of it

vars == <<up, boots, snap, calls, call>>

Tools == {"node_status", "throughput", "none"}   \* one of NODE_LOCAL, one that is
                                                 \* not, and one that is unknown
Self  == "self"
Blank == " "
Names == Nodes \cup Peers \cup {Self, "", Blank, "typo"}

NoCall == [state |-> "none"]

Init ==
  /\ up = [n \in Nodes |-> TRUE] /\ boots = 0
  /\ snap = [n \in Nodes |-> [a \in Peers |-> "?"]]
  /\ calls = 0 /\ call = NoCall

-----------------------------------------------------------------------------
(* Pages.                                                                  *)

\* poll_peer and peer_loop: a failed poll forgets the name.
Poll(n, a) ==
  /\ up[n]
  /\ \E got \in {"?"} \cup IF up[HostAt[a]] THEN {HostAt[a]} ELSE {} :
       snap' = [snap EXCEPT ![n][a] = got]
  /\ UNCHANGED <<up, boots, calls, call>>

\* A page is killed with its container, and started again: a call it took from the
\* client is lost, one it was forwarded is broken off.
Restart(n) ==
  /\ boots < MaxBoots /\ boots' = boots + 1
  /\ up' = [up EXCEPT ![n] = ~@]
  /\ snap' = [snap EXCEPT ![n] = [a \in Peers |-> "?"]]
  /\ call' = IF call.state = "handled" /\ n \in {call.at, call.entry}
             THEN [call EXCEPT !.state = IF n = call.entry THEN "lost" ELSE "broken"]
             ELSE call
  /\ UNCHANGED calls

-----------------------------------------------------------------------------
(* One call.                                                               *)

\* cluster_rows: the row of this node is the one whose poll told its own name.
IsSelfRow(n, a) == snap[n][a] = n

\* The names a row goes by: the host it told, and its address; a row has no "host", and what
\* stands for it is what a blank name is stripped to.
NamesOf(n, a) == {a, Blank} \cup IF snap[n][a] = "?" THEN {} ELSE {snap[n][a]}

PeerAddrFor_First(n, name) == {a \in Peers : ~IsSelfRow(n, a)}   \* any other row

\* _peer_addr_for: the rows of other nodes that go by this name.
PeerAddrFor(n, name) == {a \in Peers : ~IsSelfRow(n, a) /\ name \in NamesOf(n, a)}

\* _is_self.
IsSelf(n, name) == name \in {n, Self}

\* A client calls tool at n, for the node it names, or "" for none.
Call(n, tool, name) ==
  /\ call.state \in {"none", "done", "lost", "dropped"} /\ calls < MaxCalls
  /\ calls' = calls + 1
  /\ call' = IF up[n]
             THEN [state |-> "handled", at |-> n, tool |-> tool, name |-> name,
                   arg |-> name, entry |-> n, by |-> "?", error |-> FALSE, hops |-> 0]
             ELSE NoCall
  /\ UNCHANGED <<up, boots, snap>>

Reply(by, error) == call' = [call EXCEPT !.state = "done", !.by = by, !.error = error]

\* mcp_handle at the node that has the call.
RunsHere(n) == call.tool # "node_status" \/ call.arg = "" \/ IsSelf(n, call.arg)

\* A tool of this node, which may raise; an unknown tool is an error in the result.
Local ==
  /\ call.state = "handled" /\ RunsHere(call.at)
  /\ \E error \in {call.tool = "none"} \cup {TRUE} : Reply(call.at, error)
  /\ UNCHANGED <<up, boots, snap, calls>>

\* proxy_tool_call for a name no other row goes by.  The list of known names reads
\* a key that rows do not have: with any other row the request has no answer.
Unknown ==
  /\ call.state = "handled" /\ ~RunsHere(call.at)
  /\ PeerAddrFor(call.at, call.arg) = {}
  /\ IF \E a \in Peers : ~IsSelfRow(call.at, a)
     THEN call' = [call EXCEPT !.state = "dropped"]
     ELSE Reply(call.at, TRUE)
  /\ UNCHANGED <<up, boots, snap, calls>>

Forwarded_WithNode(arg) == arg

\* The forwarded call carries no node.
Forwarded(arg) == ""

\* The peer has 30 seconds to answer.
Forward ==
  /\ call.state = "handled" /\ ~RunsHere(call.at)
  /\ \E a \in PeerAddrFor(call.at, call.arg) :
       \/ Reply(call.at, TRUE)
       \/ /\ up[HostAt[a]]
          /\ call' = [call EXCEPT !.at = HostAt[a], !.arg = Forwarded(@), !.hops = @ + 1]
  /\ UNCHANGED <<up, boots, snap, calls>>

\* The page that forwarded the call gives up on it, or finds it broken off.
GiveUp ==
  /\ call.state \in {"handled", "broken"} /\ call.hops = 1
  /\ Reply(call.entry, TRUE)
  /\ UNCHANGED <<up, boots, snap, calls>>

Next ==
  \/ \E n \in Nodes, a \in Peers : Poll(n, a)
  \/ \E n \in Nodes : Restart(n)
  \/ \E n \in Nodes, t \in Tools, m \in Names : Call(n, t, m)
  \/ Local \/ Unknown \/ Forward \/ GiveUp

Spec == Init /\ [][Next]_vars

-----------------------------------------------------------------------------
(* Properties.                                                             *)

TypeOK ==
  /\ up \in [Nodes -> BOOLEAN] /\ boots \in 0..MaxBoots /\ calls \in 0..MaxCalls
  /\ snap \in [Nodes -> [Peers -> Nodes \cup {"?"}]]
  /\ call.state \in {"none", "handled", "broken", "lost", "done", "dropped"}

\* The node a caller means, by host name, by address, as "self", or not at all; a blank
\* name, which means nobody, may get any.
Named(c) == IF c.name \in {"", Self} THEN {c.entry}
            ELSE IF c.name = Blank THEN Nodes
            ELSE IF c.name \in Peers THEN {HostAt[c.name]} ELSE {c.name}

\* "the peer answers locally and cannot bounce it onward": a call is forwarded at
\* most once, and a tool whose answer is a property of one machine ran on the one
\* that was named, whatever the rows were when the name was resolved.
AnsweredByNamed ==
  /\ call # NoCall => call.hops <= 1
  /\ call.state = "done" /\ ~call.error /\ call.tool = "node_status" =>
       call.by \in Named(call)

\* "A tool error is reported in the RESULT, not as a protocol error, so the model
\* can see it and recover": no call ends without a result.
CallAnswered == call.state # "dropped"
=============================================================================
