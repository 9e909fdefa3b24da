---------------------------- MODULE SelfTestProofs ----------------------------
(***************************************************************************)
(* Proofs about SelfTest, for every number of questions, tries and waits.  *)
(***************************************************************************)
EXTENDS SelfTest, TLAPS

Shapes ==
  /\ pc \in {"wait", "ask", "acceptance", "exit", "crashed"}
  /\ replies \in [Checks -> Seq(Replies)]
  /\ check \in 1..(NChecks + 1) /\ attempt \in 1..Retries /\ waited \in 0..Waits
  /\ failures \subseteq Checks /\ code \in 0..2

\* No exit status before the end; every question behind came back right at last or is
\* a failure.
Judged ==
  /\ pc \in {"wait", "ask", "acceptance"} => code = 2
  /\ pc = "wait" => check = 1
  /\ pc = "ask" => check \in Checks
  /\ pc = "acceptance" => check = NChecks + 1
  /\ \A c \in Checks : c < check => LastReply(c) = "right" \/ c \in failures

IInv == Shapes /\ Judged /\ PassedMeansRight

-----------------------------------------------------------------------------
LEMMA StartsInvariant ==
  ASSUME TestAssumption, Init
  PROVE  IInv
<1>1. << >> \in Seq(Replies)
  OBVIOUS
<1>2. Shapes
  BY <1>1 DEF TestAssumption, Init, Shapes, Checks
<1>3. Judged /\ PassedMeansRight
  BY DEF TestAssumption, Init, Judged, PassedMeansRight, Checks
<1> QED
  BY <1>2, <1>3 DEF IInv

\* A reply is the last one of its question, and leaves the other questions alone.
LEMMA AskLast ==
  ASSUME Shapes, NEW reply \in Replies, Ask(reply), check \in Checks
  PROVE  /\ replies' \in [Checks -> Seq(Replies)]
         /\ replies'[check] # << >> /\ replies'[check][1] = reply
         /\ \A c \in Checks \ {check} : replies'[c] = replies[c]
<1> DEFINE more == <<reply>> \o replies[check]
<1>1. replies[check] \in Seq(Replies)
  BY DEF Shapes
<1>2. more \in Seq(Replies) /\ more # << >> /\ more[1] = reply
  BY <1>1
<1>3. replies' = [replies EXCEPT ![check] = more]
  BY DEF Ask
<1> QED
  <2> HIDE DEF more
  <2> QED
    BY <1>2, <1>3 DEF Shapes

\* The next question may be asked once this one came back right or is a failure.
LEMMA NextCheckKeeps ==
  ASSUME TestAssumption, IInv, NEW reply \in Replies, Ask(reply), NextCheck,
         failures' = IF reply = "right" THEN failures ELSE failures \cup {check}
  PROVE  IInv'
<1>1. pc = "ask" /\ check \in Checks /\ check \in 1..NChecks
  BY DEF Ask, IInv, Judged, Checks
<1>2. /\ replies' \in [Checks -> Seq(Replies)]
      /\ replies'[check] # << >> /\ replies'[check][1] = reply
      /\ \A c \in Checks \ {check} : replies'[c] = replies[c]
  BY <1>1, AskLast DEF IInv
<1>3. Shapes'
  BY <1>1, <1>2 DEF TestAssumption, IInv, Shapes, NextCheck, Ask, Checks
<1>4. \A c \in Checks : c < check' => LastReply(c)' = "right" \/ c \in failures'
  <2> SUFFICES ASSUME NEW c \in Checks, c < check'
               PROVE  LastReply(c)' = "right" \/ c \in failures'
    OBVIOUS
  <2>1. CASE c = check
    BY <1>2, <2>1 DEF LastReply
  <2>2. CASE c # check
    <3>1. c < check
      BY <1>1, <2>2 DEF NextCheck, Checks, TestAssumption
    <3>2. replies'[c] = replies[c] /\ failures \subseteq failures'
      BY <1>2, <2>2
    <3> QED
      BY <3>1, <3>2 DEF IInv, Judged, LastReply
  <2> QED
    BY <2>1, <2>2
<1>5. code' = 2 /\ pc' \in {"ask", "acceptance"}
  BY <1>1 DEF NextCheck, Ask, IInv, Judged
<1>6. Judged'
  BY <1>1, <1>4, <1>5 DEF NextCheck, Judged, Checks, TestAssumption
<1> QED
  BY <1>3, <1>5, <1>6 DEF IInv, PassedMeansRight

-----------------------------------------------------------------------------
LEMMA TimedOutKeeps ==
  ASSUME TestAssumption, IInv, TimedOut
  PROVE  IInv'
<1>1. "timeout" \in Replies /\ Ask("timeout")
  BY DEF TimedOut, Replies
<1>2. CASE attempt < Retries
  <2>1. UNCHANGED <<pc, check, failures>> /\ attempt' = attempt + 1
    BY <1>2 DEF TimedOut
  <2>2. pc = "ask" /\ check \in Checks /\ code' = 2
    BY <1>1 DEF Ask, IInv, Judged
  <2>3. /\ replies' \in [Checks -> Seq(Replies)]
        /\ \A c \in Checks \ {check} : replies'[c] = replies[c]
    BY <1>1, <2>2, AskLast DEF IInv
  <2>4. Shapes'
    BY <1>1, <1>2, <2>1, <2>2, <2>3 DEF TestAssumption, IInv, Shapes, Ask
  <2>5. \A c \in Checks : c < check => LastReply(c)' = LastReply(c)
    BY <2>2, <2>3 DEF LastReply, Checks, TestAssumption
  <2>6. Judged'
    BY <2>1, <2>2, <2>5 DEF IInv, Judged
  <2> QED
    BY <2>2, <2>4, <2>6 DEF IInv, PassedMeansRight
<1>3. CASE ~(attempt < Retries)
  <2>1. NextCheck /\ failures' = failures \cup {check}
    BY <1>3 DEF TimedOut
  <2> QED
    BY <1>1, <2>1, NextCheckKeeps
<1> QED
  BY <1>2, <1>3

LEMMA AnsweredKeeps ==
  ASSUME TestAssumption, IInv, Answered
  PROVE  IInv'
<1>1. PICK reply \in {"right", "wrong", "error"} :
        /\ Ask(reply) /\ NextCheck
        /\ failures' = IF reply = "right" THEN failures ELSE failures \cup {check}
  BY DEF Answered
<1>2. reply \in Replies
  BY DEF Replies
<1> QED
  BY <1>1, <1>2, NextCheckKeeps

\* Nothing was wrong when the exit status is 0.
LEMMA AcceptanceKeeps ==
  ASSUME TestAssumption, IInv, Acceptance
  PROVE  IInv'
<1>1. \A c \in Checks : LastReply(c) = "right" \/ c \in failures
  BY DEF Acceptance, IInv, Judged, Checks, TestAssumption
<1>2. \A c \in Checks : LastReply(c)' = LastReply(c)
  BY DEF Acceptance, LastReply
<1>3. pc' \in {"exit", "crashed"} /\ code' \in 0..1
  BY DEF Acceptance, Exit
<1>4. code' = 0 => failures = {} /\ metrics' \in {"unused", "fine"}
  BY DEF Acceptance, Exit
<1>5. Shapes'
  BY <1>3 DEF Acceptance, IInv, Shapes
<1>6. Judged'
  BY <1>1, <1>2, <1>3 DEF Acceptance, Judged
<1> QED
  BY <1>1, <1>2, <1>4, <1>5, <1>6 DEF IInv, PassedMeansRight

LEMMA NextKeeps ==
  ASSUME TestAssumption, IInv, [Next]_vars
  PROVE  IInv'
<1>1. CASE ApiUp
  <2>1. Shapes'
    BY <1>1 DEF ApiUp, IInv, Shapes
  <2>2. Judged'
    BY <1>1 DEF ApiUp, IInv, Shapes, Judged, LastReply, Checks, TestAssumption
  <2> QED
    BY <1>1, <2>1, <2>2 DEF ApiUp, IInv, PassedMeansRight, LastReply
<1>2. CASE ApiDown
  BY <1>2 DEF ApiDown, IInv, Shapes, Judged, PassedMeansRight, LastReply, TestAssumption
<1>3. CASE NeverBound
  BY <1>3 DEF NeverBound, Exit, IInv, Shapes, Judged, PassedMeansRight, LastReply
<1>4. CASE UNCHANGED vars
  BY <1>4 DEF vars, IInv, Shapes, Judged, PassedMeansRight, LastReply
<1> QED
  BY <1>1, <1>2, <1>3, <1>4, AnsweredKeeps, TimedOutKeeps, AcceptanceKeeps DEF Next

-----------------------------------------------------------------------------
\* "refuses to advertise itself until they come back right", for every number of
\* questions and attempts: an exit status of 0 means that every question's last
\* attempt came back right, and that drafts, if there are any, are accepted.
THEOREM GateHolds ==
  ASSUME TestAssumption
  PROVE  Spec => []PassedMeansRight
<1>1. IInv => PassedMeansRight
  BY DEF IInv
<1> QED
  BY <1>1, StartsInvariant, NextKeeps, PTL DEF Spec

\* The type invariant of the gate.
THEOREM GateTypes ==
  ASSUME TestAssumption
  PROVE  Spec => []TypeOK
<1>1. IInv => TypeOK
  BY DEF IInv, Shapes, TypeOK
<1> QED
  BY <1>1, StartsInvariant, NextKeeps, PTL DEF Spec
=============================================================================
