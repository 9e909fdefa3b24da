------------------------------- MODULE SelfTest -------------------------------
(***************************************************************************)
(* image/self-test.py: the gate between a loaded model and the stage       *)
(* "serving".  It waits for the API, asks a list of questions, retrying    *)
(* only timeouts, and looks at the acceptance length of speculation.  The  *)
(* server is external: each request may come back right, wrong, with an    *)
(* error, or not before its timeout.                                       *)
(***************************************************************************)
EXTENDS Naturals, Sequences, FiniteSets

CONSTANTS
  NChecks,   \* len(CHECKS)
  Retries,   \* RETRIES
  Waits      \* attempts on the API before the deadline of wait_for_api

\* Assumed of the constants wherever the module is instantiated.
TestAssumption == NChecks \in Nat /\ Retries \in Nat \ {0} /\ Waits \in Nat

Checks == 1..NChecks

VARIABLES
  pc,        \* where main is; "exit" ends it, "crashed" by an exception
  waited,    \* attempts on the API so far
  check,     \* the question being asked
  attempt,   \* its attempt, from 1
  replies,   \* replies[c]: how the attempts at check c went, the latest first
  failures,  \* what was appended to failures
  metrics,   \* what acceptance() found
  code       \* the exit status

vars == <<pc, waited, check, attempt, replies, failures, metrics, code>>

Replies == {"right", "wrong", "error", "timeout"}

Init ==
  /\ pc = "wait" /\ waited = 0
  /\ check = 1 /\ attempt = 1
  /\ replies = [c \in Checks |-> << >>]
  /\ failures = {} /\ metrics = "unread" /\ code = 2

Exit(status) == pc' = "exit" /\ code' = status

\* wait_for_api polls until the deadline.
ApiUp ==
  /\ pc = "wait" /\ waited < Waits
  /\ pc' = IF NChecks = 0 THEN "acceptance" ELSE "ask"
  /\ UNCHANGED <<waited, check, attempt, replies, failures, metrics, code>>

ApiDown_DeadlineMoves ==     \* the deadline is computed anew for every attempt
  /\ pc = "wait" /\ waited < Waits
  /\ waited' = (waited + 1) % Waits
  /\ UNCHANGED <<pc, check, attempt, replies, failures, metrics, code>>

ApiDown ==
  /\ pc = "wait" /\ waited < Waits
  /\ waited' = waited + 1
  /\ UNCHANGED <<pc, check, attempt, replies, failures, metrics, code>>

NeverBound ==
  /\ pc = "wait" /\ waited = Waits
  /\ Exit(1)
  /\ UNCHANGED <<waited, check, attempt, replies, failures, metrics>>

NextCheck ==
  /\ check' = check + 1 /\ attempt' = 1
  /\ pc' = IF check = NChecks THEN "acceptance" ELSE "ask"

Ask(reply) ==
  /\ pc = "ask"
  /\ replies' = [replies EXCEPT ![check] = <<reply>> \o @]
  /\ UNCHANGED <<waited, metrics, code>>

Answered ==
  \E reply \in {"right", "wrong", "error"} :
    /\ Ask(reply)
    /\ failures' = IF reply = "right" THEN failures ELSE failures \cup {check}
    /\ NextCheck

TimedOut_OneMore ==          \* the attempts are counted from 0
  /\ Ask("timeout")
  /\ IF attempt <= Retries
     THEN attempt' = attempt + 1 /\ UNCHANGED <<pc, check, failures>>
     ELSE failures' = failures \cup {check} /\ NextCheck

TimedOut_Unrecorded ==       \* the last timeout only ends the loop
  /\ Ask("timeout")
  /\ UNCHANGED failures
  /\ IF attempt < Retries
     THEN attempt' = attempt + 1 /\ UNCHANGED <<pc, check>>
     ELSE NextCheck

TimedOut ==
  /\ Ask("timeout")
  /\ IF attempt < Retries
     THEN attempt' = attempt + 1 /\ UNCHANGED <<pc, check, failures>>
     ELSE failures' = failures \cup {check} /\ NextCheck

\* A metrics page that cannot be read returns a bare None, which main cannot
\* unpack; "unused" and "fine" add nothing, "low" is a failure.
Acceptance ==
  /\ pc = "acceptance"
  /\ \/ metrics' = "unreadable" /\ pc' = "crashed" /\ code' = 1
     \/ metrics' = "low" /\ Exit(1)
     \/ metrics' \in {"unused", "fine"} /\ Exit(IF failures = {} THEN 0 ELSE 1)
  /\ UNCHANGED <<waited, check, attempt, replies, failures>>

Next == ApiUp \/ ApiDown \/ NeverBound \/ Answered \/ TimedOut \/ Acceptance

\* The process runs, and every request of it has a timeout.
Spec == Init /\ [][Next]_vars /\ WF_vars(Next)

-----------------------------------------------------------------------------
(* Properties.                                                             *)

TypeOK ==
  /\ pc \in {"wait", "ask", "acceptance", "exit", "crashed"}
  /\ waited \in 0..Waits /\ check \in 1..(NChecks + 1) /\ attempt \in 1..Retries
  /\ DOMAIN replies = Checks
  /\ failures \subseteq Checks /\ code \in 0..2

LastReply(c) == IF replies[c] = << >> THEN "none" ELSE replies[c][1]

\* "refuses to advertise itself until they come back right": exit status 0 means
\* that every question was asked and its last attempt came back right, and that
\* drafts, if there are any, are accepted.
PassedMeansRight ==
  code = 0 => /\ \A c \in Checks : LastReply(c) = "right"
              /\ metrics \in {"unused", "fine"}

\* The gate ends, whatever the server does.
GateEnds == <>(pc \in {"exit", "crashed"})

\* acceptance returns "(per-token rate, acceptance length, k) or (None, None,
\* None)": main can unpack whatever it found.
MetricsUnpacked == pc # "crashed"
=============================================================================
