--------------------------- MODULE BroadcastQueue ---------------------------
(***************************************************************************)
(* What a shared-memory broadcast ring promises: one producer appends to a *)
(* log, every reader goes through the whole log in order at its own pace,  *)
(* and the producer is never more than MaxChunks messages ahead of the     *)
(* slowest reader.  ShmRing (the flag protocol) is shown to implement this *)
(* specification, and MessageQueue uses it in the place of the ring.       *)
(***************************************************************************)
EXTENDS Naturals, Sequences

CONSTANTS
  NReaders,   \* number of readers, each with an index in 1..NReaders
  MaxChunks,  \* capacity of the ring
  Msgs        \* messages that can be published

VARIABLES
  log,        \* every message published so far, in order
  taken,      \* taken[r]: how many of them reader r is done with
  out         \* out[r]: the content reader r was last given, <<>> at first

bqVars == <<log, taken, out>>

Readers == 1..NReaders

\* A chunk is copied in two halves; a chunk that is whole has two equal halves.
Whole(m) == <<m, m>>

BQInit ==
  /\ log   = << >>
  /\ taken = [r \in Readers |-> 0]
  /\ out   = [r \in Readers |-> << >>]

HasRoom   == \A r \in Readers : Len(log) - taken[r] < MaxChunks
Unread(r) == taken[r] < Len(log)

Publish(m) ==
  /\ HasRoom
  /\ log' = Append(log, m)
  /\ UNCHANGED <<taken, out>>

\* The reader is done with its next message: it was given the whole of it, or
\* its handling of it failed and the message is gone for this reader.
Take(r) ==
  /\ Unread(r)
  /\ taken' = [taken EXCEPT ![r] = @ + 1]
  /\ out'   = [out EXCEPT ![r] = Whole(log[taken[r] + 1])]
  /\ UNCHANGED log

Drop(r) ==
  /\ Unread(r)
  /\ taken' = [taken EXCEPT ![r] = @ + 1]
  /\ UNCHANGED <<log, out>>

BQNext ==
  \/ \E m \in Msgs : Publish(m)
  \/ \E r \in Readers : Take(r) \/ Drop(r)

BQSpec == BQInit /\ [][BQNext]_bqVars
=============================================================================
