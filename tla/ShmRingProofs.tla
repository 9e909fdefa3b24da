---------------------------- MODULE ShmRingProofs ----------------------------
(***************************************************************************)
(* Proofs about ShmRing, for every number of readers, every ring size and  *)
(* every set of messages.                                                  *)
(***************************************************************************)
EXTENDS ShmRing, Integers, TLAPS

-----------------------------------------------------------------------------
(* Positions taken modulo the size of a ring.                              *)

\* Quotient and remainder of a natural number.
LEMMA ModDivision ==
  ASSUME NEW n \in Nat, NEW m \in Nat \ {0}
  PROVE  /\ n = m * (n \div m) + (n % m)
         /\ n % m \in 0..(m - 1)
         /\ n \div m \in Nat
OBVIOUS

\* A decomposition with a remainder in range gives the remainder.
LEMMA ModUnique ==
  ASSUME NEW n \in Nat, NEW m \in Nat \ {0},
         NEW q \in Int, NEW r \in 0..(m - 1), n = m * q + r
  PROVE  n % m = r
OBVIOUS

\* A cursor advanced modulo the ring follows the position it stands for.
LEMMA ModNext ==
  ASSUME NEW n \in Nat, NEW m \in Nat \ {0}
  PROVE  ((n % m) + 1) % m = (n + 1) % m
<1> DEFINE q == n \div m  r == n % m
<1>1. n = m * q + r /\ r \in 0..(m - 1) /\ q \in Nat
  BY ModDivision
<1>2. CASE r + 1 < m
  <2>1. n + 1 = m * q + (r + 1) /\ r + 1 \in 0..(m - 1)
    BY <1>1, <1>2
  <2>2. (n + 1) % m = r + 1
    <3> HIDE DEF q, r
    <3> QED BY <2>1, <1>1, ModUnique
  <2>3. (r + 1) % m = r + 1
    <3> HIDE DEF q, r
    <3>1. r + 1 = m * 0 + (r + 1)
      BY <1>1
    <3> QED BY <3>1, <2>1, <1>1, ModUnique
  <2> QED BY <2>2, <2>3
<1>3. CASE r + 1 = m
  <2>1. n + 1 = m * (q + 1) + 0 /\ r + 1 = m * 1 + 0 /\ 0 \in 0..(m - 1)
    <3> HIDE DEF q, r
    <3> QED BY <1>1, <1>3
  <2>2. (n + 1) % m = 0
    <3> HIDE DEF q, r
    <3> QED BY <2>1, <1>1, ModUnique
  <2>3. (r + 1) % m = 0
    <3> HIDE DEF q, r
    <3> QED BY <2>1, <1>1, ModUnique
  <2> QED BY <2>2, <2>3
<1> QED
  <2> HIDE DEF q
  <2> QED BY <1>1, <1>2, <1>3

\* One lap later a position is in the same chunk.
LEMMA ModShift ==
  ASSUME NEW n \in Nat, NEW m \in Nat \ {0}
  PROVE  (n + m) % m = n % m
<1> DEFINE q == n \div m  r == n % m
<1>1. n = m * q + r /\ r \in 0..(m - 1) /\ q \in Nat
  BY ModDivision
<1> HIDE DEF q, r
<1>2. n + m = m * (q + 1) + r
  BY <1>1
<1>3. (n + m) % m = r
  BY <1>1, <1>2, ModUnique
<1> QED BY <1>3 DEF r

\* Two positions less than one lap apart are in different chunks.
LEMMA ModInjective ==
  ASSUME NEW i \in Nat, NEW j \in Nat, NEW m \in Nat \ {0},
         i < j, j < i + m
  PROVE  i % m # j % m
<1> SUFFICES ASSUME i % m = j % m PROVE FALSE
  OBVIOUS
<1> DEFINE q == i \div m  p == j \div m  r == i % m
<1>1. i = m * q + r /\ q \in Nat /\ r \in 0..(m - 1)
  BY ModDivision
<1>2. j = m * p + (j % m) /\ p \in Nat
  BY ModDivision
<1>3. j = m * p + r
  BY <1>2
<1> HIDE DEF q, p, r
<1>4. j - i = m * (p - q)
  BY <1>1, <1>2, <1>3
<1>5. p - q >= 1
  <2>1. CASE p - q <= 0
    BY <1>1, <1>2, <1>4, <2>1
  <2> QED BY <2>1, <1>1, <1>2
<1>6. m * (p - q) >= m
  BY <1>1, <1>2, <1>5
<1> QED BY <1>4, <1>6

\* In the first lap a position is its own chunk.
LEMMA ModSmall ==
  ASSUME NEW n \in Nat, NEW m \in Nat \ {0}, n < m
  PROVE  n % m = n
<1>1. n = m * 0 + n /\ n \in 0..(m - 1)
  OBVIOUS
<1> QED BY <1>1, ModUnique

-----------------------------------------------------------------------------
(* The inductive invariant.                                                *)

\* Cursors are positions in the log, modulo the ring.
CursorInv ==
  /\ widx = Len(log) % MaxChunks
  /\ \A r \in Readers :
       /\ ridx[r] = taken[r] % MaxChunks
       /\ taken[r] <= Len(log)
       /\ Len(log) <= taken[r] + MaxChunks

\* The last MaxChunks messages are the ones in the ring.
Stored == {n \in 1..Len(log) : Len(log) < n + MaxChunks}

\* A chunk marked as written holds its message whole, and its read flags say
\* which readers are done with it.  Only the writer's own chunk can be unmarked,
\* and then every reader is done with what it held.
SlotInv ==
  /\ \A n \in Stored :
       /\ Slot(n) # widx => written[Slot(n)]
       /\ written[Slot(n)] =>
            /\ data[Slot(n)] = <<log[n], log[n]>>
            /\ \A r \in Readers : flag[Slot(n)][r] <=> n <= taken[r]
  /\ \A s \in Slots : Len(log) <= s => ~written[s]
  /\ ~written[widx] => \A r \in Readers : Len(log) < taken[r] + MaxChunks

\* What the writer knows at each of its steps.
WriterInv ==
  /\ wpc \in {"written", "mark", "lo", "hi"} => wi = 1
  /\ wpc = "flags" /\ wall => \A i \in Readers : i < wi => flag[widx][i]
  /\ wpc = "written" /\ wall => \A i \in Readers : flag[widx][i]
  /\ wpc = "mark" /\ written[widx] => \A i \in Readers : flag[widx][i]
  /\ wpc \in {"lo", "hi", "reset", "commit"} => ~written[widx]
  /\ wpc = "hi" => data[widx][1] = wmsg
  /\ wpc \in {"reset", "commit"} => data[widx] = <<wmsg, wmsg>>
  /\ wpc = "reset" => \A i \in Readers : i < wi => ~flag[widx][i]
  /\ wpc = "commit" => \A i \in Readers : ~flag[widx][i]

\* What a reader knows at each of its steps.  A read flag seen at 0 means that a
\* message waits, or that the chunk is the writer's and not marked as written:
\* that is why the read flag has to be loaded before the written flag.
ReaderInv ==
  \A r \in Readers :
    /\ rpc[r] = "written" /\ ~rsaw[r] => taken[r] < Len(log) \/ ~written[widx]
    /\ rpc[r] \in {"lo", "hi", "done"} => taken[r] < Len(log)
    /\ rpc[r] \in {"hi", "done"} => rbuf[r][1] = log[taken[r] + 1]
    /\ rpc[r] = "done" => rbuf[r][2] = log[taken[r] + 1]

IInv ==
  /\ TypeOK
  /\ CursorInv
  /\ SlotInv
  /\ WriterInv
  /\ ReaderInv

-----------------------------------------------------------------------------
(* Type correctness.                                                       *)

\* Advancing a cursor stays in the ring.
LEMMA Next1Type ==
  ASSUME NEW s \in Slots
  PROVE  Next1(s) \in Slots
<1>1. s + 1 \in Nat /\ MaxChunks \in Nat \ {0}
  BY RingAssumption DEF Slots
<1> QED BY <1>1, ModDivision DEF Next1, Slots

\* Writing one half of a pair gives a pair.
LEMMA PairExcept ==
  ASSUME NEW p \in Pairs, NEW c \in Content, NEW half \in {1, 2}
  PROVE  /\ [p EXCEPT ![half] = c] \in Pairs
         /\ p[half] \in Content
BY DEF Pairs

LEMMA InitTypeOK == Init => TypeOK
BY RingAssumption DEF Init, TypeOK, Queue!BQInit, Queue!Readers, Readers, Slots, Pairs,
   Content, WriterPcs, ReaderPcs

\* Every step keeps the types.
LEMMA NextTypeOK == TypeOK /\ [Next]_vars => TypeOK'
<1> SUFFICES ASSUME TypeOK, [Next]_vars PROVE TypeOK'
  OBVIOUS
<1> USE RingAssumption DEF TypeOK, shared, writer, readers, history, WriterPcs,
    ReaderPcs, Content
<1>1. ASSUME NEW m \in Msgs, Enqueue(m) PROVE TypeOK'
  BY <1>1 DEF Enqueue, WGoto, Readers
<1>2. CASE WLoadFlag
  <2>1. flag[widx][wi] \in BOOLEAN
    OBVIOUS
  <2>2. wall' \in BOOLEAN
    BY <1>2, <2>1 DEF WLoadFlag
  <2>3. wi' \in Readers /\ wpc' \in WriterPcs /\ (wpc' # "idle" => wmsg' \in Msgs)
    BY <1>2 DEF WLoadFlag, Readers
  <2>4. UNCHANGED <<widx, wmsg, shared, readers, history>>
    BY <1>2 DEF WLoadFlag
  <2> QED BY <2>2, <2>3, <2>4
<1>3. CASE WLoadWritten
  BY <1>3 DEF WLoadWritten, WGoto
<1>4. CASE WRetry
  BY <1>4 DEF WRetry, WGoto
<1>5. CASE WTimeout
  BY <1>5 DEF WTimeout, WGoto
<1>6. CASE WMark
  BY <1>6 DEF WMark, WGoto
<1>7. ASSUME NEW half \in {1, 2}, NEW from \in {"lo", "hi"}, NEW to \in {"hi", "reset"},
             WFill(half, from, to)
      PROVE  TypeOK'
  <2>1. [data[widx] EXCEPT ![half] = wmsg] \in Pairs
    BY PairExcept
  <2>2. data' \in [Slots -> Pairs]
    BY <1>7, <2>1 DEF WFill
  <2> QED BY <1>7, <2>2 DEF WFill, WGoto
<1>8. CASE WRaise
  BY <1>8 DEF WRaise
<1>9. CASE WReset
  BY <1>9 DEF WReset, Readers
<1>10. CASE WCommit
  <2>1. Next1(widx) \in Slots
    BY Next1Type
  <2> QED BY <1>10, <2>1 DEF WCommit, WGoto
<1>11. ASSUME NEW r \in Readers, Dequeue(r) PROVE TypeOK'
  BY <1>11 DEF Dequeue, RGoto
<1>12. ASSUME NEW r \in Readers, RLoadFlag(r) PROVE TypeOK'
  BY <1>12 DEF RLoadFlag, RGoto
<1>13. ASSUME NEW r \in Readers, RLoadWritten(r) PROVE TypeOK'
  BY <1>13 DEF RLoadWritten, RGoto
<1>14. ASSUME NEW r \in Readers, RRetry(r) PROVE TypeOK'
  BY <1>14 DEF RRetry, RGoto
<1>15. ASSUME NEW r \in Readers, RGiveUp(r) PROVE TypeOK'
  BY <1>15 DEF RGiveUp, RGoto
<1>16. ASSUME NEW r \in Readers, NEW half \in {1, 2}, NEW from \in {"lo", "hi"},
              NEW to \in {"hi", "done"}, RCopy(r, half, from, to)
       PROVE  TypeOK'
  <2>1. data[ridx[r]][half] \in Content
    BY PairExcept
  <2>2. [rbuf[r] EXCEPT ![half] = data[ridx[r]][half]] \in Pairs
    BY <2>1, PairExcept
  <2>3. rbuf' \in [Readers -> Pairs]
    BY <1>16, <2>2 DEF RCopy
  <2> QED BY <1>16, <2>3 DEF RCopy, RGoto
<1>17. ASSUME NEW r \in Readers, NEW ok \in BOOLEAN, RDone(r, ok) PROVE TypeOK'
  <2>1. Next1(ridx[r]) \in Slots
    BY Next1Type
  <2> QED BY <1>17, <2>1 DEF RDone, RGoto
<1>18. CASE UNCHANGED vars
  BY <1>18 DEF vars
<1> QED
  BY <1>1, <1>2, <1>3, <1>4, <1>5, <1>6, <1>7, <1>8, <1>9, <1>10, <1>11, <1>12,
     <1>13, <1>14, <1>15, <1>16, <1>17, <1>18 DEF Next, WriterStep, ReaderStep

\* Every variable of the ring keeps its type, and every current_idx stays the
\* index of a chunk, whatever the numbers of readers and chunks.
THEOREM TypeCorrect == Spec => []TypeOK
<1> QED BY InitTypeOK, NextTypeOK, PTL DEF Spec

-----------------------------------------------------------------------------
(* Where the messages of the ring are.                                     *)

\* Every position has a chunk, one lap apart twice the same one.
LEMMA SlotRange ==
  ASSUME NEW n \in Nat \ {0}
  PROVE  Slot(n) \in Slots
BY RingAssumption, ModDivision DEF Slot, Slots

\* The message in the writer's chunk is the oldest one stored.
LEMMA StoredAtWidx ==
  ASSUME TypeOK, CursorInv, NEW n \in Stored
  PROVE  Slot(n) = widx <=> n + MaxChunks = Len(log) + 1
<1> DEFINE L == Len(log)
<1>1. /\ L \in Nat /\ n \in Nat /\ n - 1 \in Nat /\ MaxChunks \in Nat \ {0}
      /\ n - 1 < L /\ L < n + MaxChunks
  BY RingAssumption DEF TypeOK, Stored
<1>2. widx = L % MaxChunks
  BY DEF CursorInv
<1> HIDE DEF L
<1>3. CASE n + MaxChunks = L + 1
  <2>1. L = (n - 1) + MaxChunks
    BY <1>1, <1>3
  <2>2. ((n - 1) + MaxChunks) % MaxChunks = (n - 1) % MaxChunks
    BY <1>1, ModShift
  <2> QED BY <1>2, <1>3, <2>1, <2>2 DEF Slot, L
<1>4. CASE n + MaxChunks # L + 1
  <2>1. L < (n - 1) + MaxChunks
    BY <1>1, <1>4
  <2>2. (n - 1) % MaxChunks # L % MaxChunks
    BY <1>1, <2>1, ModInjective
  <2> QED BY <1>2, <1>4, <2>2 DEF Slot, L
<1> QED BY <1>3, <1>4

\* No two stored messages share a chunk.
LEMMA StoredApart ==
  ASSUME TypeOK, NEW n \in Stored, NEW k \in Stored, n < k
  PROVE  Slot(n) # Slot(k)
<1>1. /\ n - 1 \in Nat /\ k - 1 \in Nat /\ MaxChunks \in Nat \ {0}
      /\ n - 1 < k - 1 /\ k - 1 < (n - 1) + MaxChunks
  BY RingAssumption DEF TypeOK, Stored
<1> QED BY <1>1, ModInjective DEF Slot

\* In the first lap the writer's chunk was never written.
LEMMA FirstLap ==
  ASSUME TypeOK, CursorInv, SlotInv, Len(log) < MaxChunks
  PROVE  widx = Len(log) /\ ~written[widx]
<1>1. Len(log) \in Nat
  BY DEF TypeOK
<1>2. widx = Len(log)
  BY <1>1, RingAssumption, ModSmall DEF CursorInv
<1>3. widx \in Slots /\ Len(log) <= widx
  BY <1>1, <1>2 DEF TypeOK
<1> QED BY <1>2, <1>3 DEF SlotInv

\* After the first lap it holds the oldest stored message.
LEMMA LaterLap ==
  ASSUME TypeOK, CursorInv, MaxChunks <= Len(log)
  PROVE  /\ Len(log) + 1 - MaxChunks \in Stored
         /\ Slot(Len(log) + 1 - MaxChunks) = widx
<1>1. Len(log) + 1 - MaxChunks \in Stored
  BY RingAssumption DEF TypeOK, Stored
<1>2. (Len(log) + 1 - MaxChunks) + MaxChunks = Len(log) + 1
  BY RingAssumption DEF TypeOK
<1> QED BY <1>1, <1>2, StoredAtWidx

\* A reader that is behind stands on the chunk of its next message, whole and
\* marked as written, whatever the writer is doing.
LEMMA NextMessage ==
  ASSUME TypeOK, CursorInv, SlotInv, NEW r \in Readers, taken[r] < Len(log)
  PROVE  /\ taken[r] + 1 \in Stored
         /\ ridx[r] = Slot(taken[r] + 1)
         /\ written[ridx[r]]
         /\ data[ridx[r]] = <<log[taken[r] + 1], log[taken[r] + 1]>>
<1> DEFINE n == taken[r] + 1
<1>1. taken[r] \in Nat /\ Len(log) \in Nat /\ MaxChunks \in Nat \ {0}
  BY RingAssumption DEF TypeOK
<1>2. n \in Stored
  BY <1>1 DEF CursorInv, Stored
<1>3. ridx[r] = Slot(n)
  BY <1>1 DEF CursorInv, Slot
<1>4. written[Slot(n)]
  <2>1. CASE Slot(n) = widx
    <3>1. n + MaxChunks = Len(log) + 1
      BY <1>2, <2>1, StoredAtWidx
    <3>2. ~(Len(log) < taken[r] + MaxChunks)
      BY <1>1, <3>1
    <3> QED BY <2>1, <3>2 DEF SlotInv
  <2>2. CASE Slot(n) # widx
    BY <1>2, <2>2 DEF SlotInv
  <2> QED BY <2>1, <2>2
<1>5. data[Slot(n)] = <<log[n], log[n]>>
  BY <1>2, <1>4 DEF SlotInv
<1> QED BY <1>2, <1>3, <1>4, <1>5

-----------------------------------------------------------------------------
(* The invariant is inductive.                                             *)

LEMMA InitIInv == Init => IInv
<1> SUFFICES ASSUME Init PROVE IInv
  OBVIOUS
<1>1. TypeOK
  BY InitTypeOK
<1>2. Len(log) = 0 /\ \A r \in Readers : taken[r] = 0 /\ ridx[r] = 0
  BY DEF Init, Queue!BQInit, Queue!Readers, Readers
<1>3. 0 % MaxChunks = 0
  BY RingAssumption, ModSmall
<1>4. CursorInv
  BY <1>2, <1>3, RingAssumption DEF Init, CursorInv
<1>5. SlotInv
  BY <1>2, RingAssumption DEF Init, SlotInv, Stored, Slots
<1>6. WriterInv /\ ReaderInv
  BY DEF Init, WriterInv, ReaderInv
<1> QED BY <1>1, <1>4, <1>5, <1>6 DEF IInv

\* The flags and the cursors are all that the first two parts speak of ...
LEMMA RingUnchanged ==
  ASSUME CursorInv, SlotInv, UNCHANGED <<shared, widx, ridx, log, taken>>
  PROVE  CursorInv' /\ SlotInv'
BY DEF CursorInv, SlotInv, Stored, Slot, shared

\* ... and a step of one process leaves what the other one knows alone as long
\* as it writes no shared memory.
LEMMA WriterUnchanged ==
  ASSUME WriterInv, UNCHANGED <<shared, writer>>
  PROVE  WriterInv'
BY DEF WriterInv, shared, writer

LEMMA ReadersUnchanged ==
  ASSUME ReaderInv, UNCHANGED <<readers, log, taken>>,
         ~written[widx] => ~written'[widx'] 
  PROVE  ReaderInv'
BY DEF ReaderInv, readers

\* The steps of acquire_write.
LEMMA WriterStepIInv ==
  ASSUME IInv, TypeOK', (\E m \in Msgs : Enqueue(m)) \/ WriterStep
  PROVE  IInv'
<1> USE DEF IInv, shared, readers, history
<1> DEFINE Calm == UNCHANGED <<shared, widx, ridx, log, taken>>
<1>1. ASSUME Calm, UNCHANGED readers, WriterInv' PROVE IInv'
  BY <1>1, RingUnchanged, ReadersUnchanged
<1>2. ASSUME NEW m \in Msgs, Enqueue(m) PROVE IInv'
  BY <1>1, <1>2, RingAssumption DEF Enqueue, WGoto, WriterInv, Readers
<1>3. CASE WLoadFlag
  <2>1. /\ wpc = "flags" /\ wall' = (wall /\ flag[widx][wi])
        /\ IF wi = NReaders THEN wi' = 1 /\ wpc' = "written"
                            ELSE wi' = wi + 1 /\ wpc' = wpc
        /\ UNCHANGED <<widx, wmsg, shared, readers, history>>
    BY <1>3 DEF WLoadFlag
  <2>2. wall' => wall /\ flag[widx][wi]
    BY <2>1
  <2>3. wall' => \A i \in Readers : i < wi + 1 => flag[widx][i]
    BY <2>1, <2>2 DEF WriterInv, Readers, TypeOK
  <2>4. WriterInv'
    BY <2>1, <2>3 DEF WriterInv, Readers, TypeOK
  <2> QED BY <1>1, <2>1, <2>4
<1>4. CASE WLoadWritten
  BY <1>1, <1>4 DEF WLoadWritten, WGoto, WriterInv, WriterBlocked
<1>5. CASE WRetry
  <2>1. WriterInv'
    BY <1>5, RingAssumption DEF WRetry, WGoto, WriterInv, Readers
  <2> QED BY <1>1, <1>5, <2>1 DEF WRetry
<1>6. CASE WTimeout
  BY <1>1, <1>6 DEF WTimeout, WGoto, WriterInv
<1>7. CASE WMark
  <2>1. /\ wpc = "mark" /\ wpc' = "lo"
        /\ written' = [written EXCEPT ![widx] = FALSE]
        /\ UNCHANGED <<flag, data, widx, wi, readers, history>>
    BY <1>7 DEF WMark, WGoto
  <2>2. CursorInv'
    BY <2>1 DEF CursorInv
  <2>3. WriterInv'
    BY <2>1 DEF WriterInv, TypeOK
  <2>4. ReaderInv'
    BY <2>1, ReadersUnchanged DEF TypeOK
  <2>5. \A r \in Readers : Len(log) < taken[r] + MaxChunks
    <3>1. CASE ~written[widx]
      BY <3>1 DEF SlotInv
    <3>2. CASE written[widx]
      <4>1. MaxChunks <= Len(log)
        BY <3>2, FirstLap, RingAssumption DEF TypeOK
      <4> DEFINE n == Len(log) + 1 - MaxChunks
      <4>2. n \in Stored /\ Slot(n) = widx
        BY <4>1, LaterLap
      <4>3. \A r \in Readers : n <= taken[r]
        BY <2>1, <3>2, <4>2 DEF SlotInv, WriterInv
      <4> QED BY <4>3, RingAssumption DEF TypeOK
    <3> QED BY <3>1, <3>2
  <2>6. SlotInv'
    BY <2>1, <2>5 DEF SlotInv, Stored, Slot, TypeOK
  <2> QED BY <2>2, <2>3, <2>4, <2>6
<1>8. ASSUME NEW half \in {1, 2}, NEW from \in {"lo", "hi"}, NEW to \in {"hi", "reset"},
             WFill(half, from, to), half = 1 => from = "lo" /\ to = "hi",
             half = 2 => from = "hi" /\ to = "reset"
      PROVE  IInv'
  <2>1. /\ wpc = from /\ wpc' = to
        /\ data' = [data EXCEPT ![widx][half] = wmsg]
        /\ UNCHANGED <<written, flag, widx, wi, wall, wmsg, readers, history>>
    BY <1>8 DEF WFill, WGoto
  <2>2. ~written[widx]
    BY <2>1 DEF WriterInv
  <2>3. CursorInv'
    BY <2>1 DEF CursorInv
  <2>4. ReaderInv'
    BY <2>1, ReadersUnchanged
  <2>5. SlotInv'
    <3>1. \A n \in Stored : written[Slot(n)] => data'[Slot(n)] = data[Slot(n)]
      BY <2>1, <2>2 DEF TypeOK
    <3> QED BY <2>1, <2>2, <3>1 DEF SlotInv, Stored, Slot
  <2>6. WriterInv'
    <3>1. data[widx] \in Pairs /\ data'[widx] = [data[widx] EXCEPT ![half] = wmsg]
      BY <2>1 DEF TypeOK
    <3>2. CASE half = 1
      <4>1. data'[widx][1] = wmsg
        BY <3>1, <3>2 DEF Pairs
      <4> QED BY <1>8, <2>1, <2>2, <3>2, <4>1 DEF WriterInv
    <3>3. CASE half = 2
      <4>1. data[widx][1] = wmsg
        BY <1>8, <2>1, <3>3 DEF WriterInv
      <4>2. data'[widx] = <<wmsg, wmsg>>
        BY <3>1, <3>3, <4>1 DEF Pairs
      <4> QED BY <1>8, <2>1, <2>2, <3>3, <4>2, RingAssumption DEF WriterInv, Readers
    <3> QED BY <3>2, <3>3
  <2> QED BY <2>3, <2>4, <2>5, <2>6
<1>9. CASE WRaise
  BY <1>1, <1>9 DEF WRaise, WriterInv
<1>10. CASE WReset
  <2>1. /\ wpc = "reset" /\ flag' = [flag EXCEPT ![widx][wi] = FALSE]
        /\ IF wi = NReaders THEN wi' = 1 /\ wpc' = "commit"
                            ELSE wi' = wi + 1 /\ wpc' = wpc
        /\ UNCHANGED <<written, data, widx, wall, wmsg, readers, history>>
    BY <1>10 DEF WReset
  <2>2. ~written[widx] /\ data[widx] = <<wmsg, wmsg>>
    BY <2>1 DEF WriterInv
  <2>3. CursorInv'
    BY <2>1 DEF CursorInv
  <2>4. ReaderInv'
    BY <2>1, ReadersUnchanged
  <2>5. SlotInv'
    <3>1. \A n \in Stored : written[Slot(n)] => flag'[Slot(n)] = flag[Slot(n)]
      BY <2>1, <2>2 DEF TypeOK
    <3> QED BY <2>1, <2>2, <3>1 DEF SlotInv, Stored, Slot
  <2>6. \A i \in Readers : i < wi => ~flag[widx][i]
    BY <2>1 DEF WriterInv
  <2>7. \A i \in Readers : i < wi + 1 => ~flag'[widx][i]
    BY <2>1, <2>6 DEF TypeOK, Readers
  <2>8. WriterInv'
    BY <2>1, <2>2, <2>7 DEF WriterInv, Readers, TypeOK
  <2> QED BY <2>3, <2>4, <2>5, <2>8
<1>11. CASE WCommit
  <2> DEFINE L == Len(log)
  <2>1. /\ wpc = "commit" /\ wpc' = "idle"
        /\ written' = [written EXCEPT ![widx] = TRUE]
        /\ widx' = Next1(widx)
        /\ log' = Append(log, wmsg)
        /\ UNCHANGED <<flag, data, readers, taken, out>>
    BY <1>11 DEF WCommit, WGoto
  <2>2. /\ ~written[widx] /\ data[widx] = <<wmsg, wmsg>>
        /\ \A r \in Readers : ~flag[widx][r]
    BY <2>1 DEF WriterInv
  <2>3. \A r \in Readers : L < taken[r] + MaxChunks
    BY <2>2 DEF SlotInv
  <2>4. /\ L \in Nat /\ MaxChunks \in Nat \ {0} /\ taken \in [Readers -> Nat]
        /\ wmsg \in Msgs /\ log \in Seq(Msgs)
    BY <2>1, RingAssumption DEF TypeOK
  <2>5. /\ Len(log') = L + 1 /\ log'[L + 1] = wmsg
        /\ \A i \in 1..L : log'[i] = log[i]
    BY <2>1, <2>4
  <2>6. widx = L % MaxChunks /\ widx' = (L + 1) % MaxChunks
    BY <2>1, <2>4, ModNext DEF CursorInv, Next1
  <2>7. \A r \in Readers : ridx[r] = taken[r] % MaxChunks /\ taken[r] <= L
    BY DEF CursorInv
  <2>8. CursorInv'
    BY <2>1, <2>3, <2>4, <2>5, <2>6, <2>7 DEF CursorInv
  <2>9. Slot(L + 1) = widx
    BY <2>4, <2>6 DEF Slot
  <2>10. ASSUME NEW n \in Stored', n # L + 1
         PROVE  n \in Stored /\ Slot(n) # widx
    <3>1. n \in Stored /\ n + MaxChunks # L + 1
      BY <2>4, <2>5, <2>10 DEF Stored
    <3> QED BY <3>1, StoredAtWidx
  <2>11. ASSUME NEW n \in Stored'
         PROVE  /\ written'[Slot(n)]
                /\ data'[Slot(n)] = <<log'[n], log'[n]>>
                /\ \A r \in Readers : flag'[Slot(n)][r] <=> n <= taken'[r]
    <3>1. CASE n = L + 1
      <4>1. \A r \in Readers : ~(n <= taken[r])
        BY <2>4, <2>7, <3>1
      <4> QED BY <2>1, <2>2, <2>5, <2>9, <3>1, <4>1 DEF TypeOK
    <3>2. CASE n # L + 1
      <4>1. n \in Stored /\ Slot(n) # widx
        BY <2>10, <3>2
      <4>2. written[Slot(n)] /\ log'[n] = log[n]
        BY <2>5, <4>1 DEF SlotInv, Stored
      <4>3. written'[Slot(n)]
        BY <2>1, <4>1, <4>2
      <4> QED BY <2>1, <4>1, <4>2, <4>3 DEF SlotInv
    <3> QED BY <3>1, <3>2
  <2>12. ASSUME NEW s \in Slots, L + 1 <= s
         PROVE  ~written'[s]
    <3>1. L < MaxChunks /\ L <= s /\ s # L
      BY <2>4, <2>12 DEF Slots
    <3>2. widx = L /\ ~written[s]
      BY <3>1, FirstLap DEF SlotInv
    <3> QED BY <2>1, <3>1, <3>2 DEF TypeOK
  <2>13. ASSUME ~written'[widx'], NEW r \in Readers
         PROVE  L + 1 < taken[r] + MaxChunks
    <3>1. SUFFICES ASSUME L + 1 = taken[r] + MaxChunks PROVE FALSE
      BY <2>3, <2>4
    <3>2. taken[r] + 1 \in Stored'
      BY <2>4, <2>5, <3>1 DEF Stored
    <3>3. (taken[r] + MaxChunks) % MaxChunks = taken[r] % MaxChunks
      BY <2>4, ModShift
    <3>4. Slot(taken[r] + 1) = widx'
      BY <2>4, <2>6, <3>1, <3>3 DEF Slot
    <3> QED BY <2>11, <2>13, <3>2, <3>4
  <2>14. SlotInv'
    BY <2>1, <2>5, <2>11, <2>12, <2>13 DEF SlotInv, Slot, Slots, Readers
  <2>15. WriterInv'
    BY <2>1 DEF WriterInv
  <2>16. ReaderInv'
    <3> SUFFICES ASSUME NEW r \in Readers PROVE ReaderInv!(r)'
      BY DEF ReaderInv
    <3>1. taken[r] < Len(log')
      BY <2>4, <2>5, <2>7
    <3>2. taken[r] < L => log'[taken[r] + 1] = log[taken[r] + 1]
      BY <2>4, <2>5
    <3> QED BY <2>1, <3>1, <3>2 DEF ReaderInv
  <2> QED BY <2>8, <2>14, <2>15, <2>16
<1> QED
  BY <1>2, <1>3, <1>4, <1>5, <1>6, <1>7, <1>8, <1>9, <1>10, <1>11 DEF WriterStep

\* The steps of acquire_read.
LEMMA ReaderStepIInv ==
  ASSUME IInv, TypeOK', NEW r \in Readers, Dequeue(r) \/ ReaderStep(r)
  PROVE  IInv'
<1> USE DEF IInv, shared, writer, history
<1> DEFINE Quiet == UNCHANGED <<shared, writer, ridx, log, taken>>
<1>1. ASSUME Quiet, ReaderInv' PROVE IInv'
  BY <1>1, RingUnchanged, WriterUnchanged
<1>2. CASE Dequeue(r)
  BY <1>1, <1>2 DEF Dequeue, RGoto, ReaderInv, TypeOK
<1>3. CASE RLoadFlag(r)
  <2>1. /\ rpc' = [rpc EXCEPT ![r] = "written"]
        /\ rsaw' = [rsaw EXCEPT ![r] = flag[ridx[r]][r]]
        /\ UNCHANGED <<ridx, rbuf, shared, writer, history>>
    BY <1>3 DEF RLoadFlag, RGoto
  <2>2. ASSUME taken[r] = Len(log), written[widx] PROVE flag[ridx[r]][r]
    <3>1. MaxChunks <= Len(log)
      BY <2>2, FirstLap, RingAssumption DEF TypeOK
    <3> DEFINE n == Len(log) + 1 - MaxChunks
    <3>2. n \in Stored /\ Slot(n) = widx
      BY <3>1, LaterLap
    <3>3. n <= taken[r]
      BY <2>2, RingAssumption DEF TypeOK
    <3>4. ridx[r] = widx
      BY <2>2 DEF CursorInv
    <3> QED BY <2>2, <3>2, <3>3, <3>4 DEF SlotInv
  <2>3. ~rsaw'[r] => taken[r] < Len(log) \/ ~written[widx]
    <3>1. rsaw'[r] = flag[ridx[r]][r]
      BY <2>1 DEF TypeOK
    <3>2. taken[r] # Len(log) => taken[r] < Len(log)
      BY DEF CursorInv, TypeOK
    <3> QED BY <2>2, <3>1, <3>2
  <2>4. ReaderInv'
    BY <2>1, <2>3 DEF ReaderInv, TypeOK
  <2> QED BY <1>1, <2>1, <2>4
<1>4. CASE RLoadWritten(r)
  <2>1. /\ rpc[r] = "written" /\ rpc' = [rpc EXCEPT ![r] = "lo"]
        /\ written[ridx[r]] /\ ~rsaw[r]
        /\ UNCHANGED <<ridx, rsaw, rbuf, shared, writer, history>>
    BY <1>4 DEF RLoadWritten, RGoto, Readable
  <2>2. taken[r] < Len(log)
    <3>1. SUFFICES ASSUME taken[r] = Len(log) PROVE written[widx] /\ FALSE
      BY DEF CursorInv, TypeOK
    <3>2. ridx[r] = widx
      BY <3>1 DEF CursorInv
    <3>3. taken[r] < Len(log) \/ ~written[widx]
      BY <2>1 DEF ReaderInv
    <3> QED BY <2>1, <3>1, <3>2, <3>3 DEF TypeOK
  <2>3. ReaderInv'
    BY <2>1, <2>2 DEF ReaderInv, TypeOK
  <2> QED BY <1>1, <2>1, <2>3
<1>5. CASE RRetry(r)
  BY <1>1, <1>5 DEF RRetry, RGoto, ReaderInv, TypeOK
<1>6. CASE RGiveUp(r)
  BY <1>1, <1>6 DEF RGiveUp, RGoto, ReaderInv, TypeOK
<1>7. ASSUME NEW half \in {1, 2}, NEW from \in {"lo", "hi"}, NEW to \in {"hi", "done"},
             RCopy(r, half, from, to), half = 1 => from = "lo" /\ to = "hi",
             half = 2 => from = "hi" /\ to = "done"
      PROVE  IInv'
  <2>1. /\ rpc[r] = from /\ rpc' = [rpc EXCEPT ![r] = to]
        /\ rbuf' = [rbuf EXCEPT ![r][half] = data[ridx[r]][half]]
        /\ UNCHANGED <<ridx, rsaw, shared, writer, history>>
    BY <1>7 DEF RCopy, RGoto
  <2>2. taken[r] < Len(log)
    BY <2>1 DEF ReaderInv
  <2>3. data[ridx[r]][half] = log[taken[r] + 1]
    <3>1. data[ridx[r]] = <<log[taken[r] + 1], log[taken[r] + 1]>>
      BY <2>2, NextMessage
    <3>2. CASE half = 1
      BY <3>1, <3>2
    <3>3. CASE half = 2
      BY <3>1, <3>3
    <3> QED BY <3>2, <3>3
  <2>4. rbuf[r] \in Pairs /\ rbuf'[r] = [rbuf[r] EXCEPT ![half] = log[taken[r] + 1]]
    BY <2>1, <2>3 DEF TypeOK
  <2>5. rbuf'[r][half] = log[taken[r] + 1] /\ (half = 2 => rbuf'[r][1] = rbuf[r][1])
    BY <2>4 DEF Pairs
  <2>6. half = 2 => rbuf[r][1] = log[taken[r] + 1]
    BY <1>7, <2>1 DEF ReaderInv
  <2>7. \A q \in Readers : q # r => rbuf'[q] = rbuf[q] /\ rpc'[q] = rpc[q]
    BY <2>1 DEF TypeOK
  <2>8. ReaderInv'
    <3>1. rpc'[r] = to
      BY <2>1 DEF TypeOK
    <3>2. ASSUME NEW q \in Readers PROVE ReaderInv!(q)'
      <4>1. CASE q = r
        BY <1>7, <2>1, <2>2, <2>5, <2>6, <3>1, <4>1
      <4>2. CASE q # r
        BY <2>1, <2>7, <4>2 DEF ReaderInv
      <4> QED BY <4>1, <4>2
    <3> QED BY <3>2 DEF ReaderInv
  <2> QED BY <1>1, <2>1, <2>8
<1>8. ASSUME NEW ok \in BOOLEAN, RDone(r, ok) PROVE IInv'
  <2> DEFINE k == taken[r] + 1
  <2>1. /\ rpc[r] = "done" /\ rpc' = [rpc EXCEPT ![r] = "idle"]
        /\ flag' = [flag EXCEPT ![ridx[r]][r] = TRUE]
        /\ ridx' = [ridx EXCEPT ![r] = Next1(@)]
        /\ taken' = [taken EXCEPT ![r] = @ + 1]
        /\ UNCHANGED <<written, data, rsaw, rbuf, writer, log>>
    BY <1>8 DEF RDone, RGoto
  <2>2. taken[r] < Len(log)
    BY <2>1 DEF ReaderInv
  <2>3. k \in Stored /\ ridx[r] = Slot(k) /\ written[Slot(k)]
    BY <2>2, NextMessage
  <2>4. taken \in [Readers -> Nat] /\ Len(log) \in Nat /\ MaxChunks \in Nat \ {0}
    BY RingAssumption DEF TypeOK
  <2>5. /\ taken'[r] = k
        /\ \A q \in Readers : q # r => taken'[q] = taken[q] /\ ridx'[q] = ridx[q]
    BY <2>1, <2>4 DEF TypeOK
  <2>6. CursorInv'
    <3>1. ridx'[r] = k % MaxChunks
      BY <2>1, <2>4, ModNext DEF CursorInv, Next1, TypeOK
    <3> QED BY <2>1, <2>2, <2>4, <2>5, <3>1 DEF CursorInv
  <2>7. ASSUME NEW n \in Stored, written[Slot(n)], NEW q \in Readers
        PROVE  flag'[Slot(n)][q] <=> n <= taken'[q]
    <3>1. flag[Slot(n)][q] <=> n <= taken[q]
      BY <2>7 DEF SlotInv
    <3>2. n \in Nat \ {0} /\ Slot(n) \in Slots
      BY SlotRange DEF Stored
    <3>3. CASE q # r
      BY <2>1, <2>5, <3>1, <3>2, <3>3 DEF TypeOK
    <3>4. CASE q = r /\ n = k
      BY <2>1, <2>3, <2>5, <3>2, <3>4 DEF TypeOK
    <3>5. CASE q = r /\ n # k
      <4>1. n < k \/ k < n
        BY <2>4, <3>2, <3>5
      <4>2. Slot(n) # ridx[r]
        BY <2>3, <4>1, StoredApart
      <4>3. flag'[Slot(n)] = flag[Slot(n)]
        BY <2>1, <3>2, <4>2 DEF TypeOK
      <4>4. n <= taken'[r] <=> n <= taken[r]
        BY <2>4, <2>5, <3>2, <3>5
      <4> QED BY <3>1, <3>5, <4>3, <4>4
    <3> QED BY <3>3, <3>4, <3>5
  <2>8. ASSUME ~written[widx], NEW q \in Readers
        PROVE  Len(log) < taken'[q] + MaxChunks
    <3>1. Len(log) < taken[q] + MaxChunks
      BY <2>8 DEF SlotInv
    <3> QED BY <2>4, <2>5, <3>1
  <2>9. SlotInv'
    BY <2>1, <2>7, <2>8 DEF SlotInv, Stored, Slot
  <2>10. WriterInv'
    <3>1. \A i \in Readers : flag[widx][i] => flag'[widx][i]
      BY <2>1 DEF TypeOK
    <3>2. ~written[widx] => flag'[widx] = flag[widx]
      BY <2>1, <2>3 DEF TypeOK
    <3> QED BY <2>1, <3>1, <3>2 DEF WriterInv
  <2>11. ReaderInv'
    <3>1. rpc'[r] = "idle"
      BY <2>1 DEF TypeOK
    <3>2. ASSUME NEW q \in Readers PROVE ReaderInv!(q)'
      <4>1. CASE q = r
        BY <3>1, <4>1
      <4>2. CASE q # r
        BY <2>1, <2>5, <4>2 DEF ReaderInv, TypeOK
      <4> QED BY <4>1, <4>2
    <3> QED BY <3>2 DEF ReaderInv
  <2> QED BY <2>6, <2>9, <2>10, <2>11
<1> QED
  BY <1>2, <1>3, <1>4, <1>5, <1>6, <1>7, <1>8 DEF ReaderStep

LEMMA NextIInv == IInv /\ [Next]_vars => IInv'
<1> SUFFICES ASSUME IInv, [Next]_vars PROVE IInv'
  OBVIOUS
<1>1. TypeOK'
  BY NextTypeOK DEF IInv
<1>2. CASE UNCHANGED vars
  BY <1>2, <1>1, RingUnchanged, WriterUnchanged, ReadersUnchanged
  DEF vars, IInv, shared, writer, readers
<1>3. CASE (\E m \in Msgs : Enqueue(m)) \/ WriterStep
  BY <1>1, <1>3, WriterStepIInv
<1>4. CASE \E r \in Readers : Dequeue(r) \/ ReaderStep(r)
  BY <1>1, <1>4, ReaderStepIInv
<1> QED BY <1>2, <1>3, <1>4 DEF Next

\* The inductive invariant holds throughout.
THEOREM Invariance == Spec => []IInv
<1> QED BY InitIInv, NextIInv, PTL DEF Spec

-----------------------------------------------------------------------------
(* What the invariant gives.                                               *)

\* No chunk is reused before every reader is done with it: acquire_write waits
\* for all read flags, and a message stays whole until then.
THEOREM UnreadMessagesIntact == Spec => []UnreadIntact
<1>1. IInv => UnreadIntact
  <2> SUFFICES ASSUME IInv, NEW r \in Readers, NEW n \in (taken[r] + 1)..Len(log)
               PROVE  data[Slot(n)] = Queue!Whole(log[n])
    BY DEF UnreadIntact
  <2>1. /\ taken[r] \in Nat /\ Len(log) \in Nat /\ MaxChunks \in Nat \ {0}
        /\ Len(log) <= taken[r] + MaxChunks /\ n \in Nat
    BY RingAssumption DEF IInv, TypeOK, CursorInv
  <2>2. n \in Stored
    BY <2>1 DEF Stored
  <2>3. written[Slot(n)]
    <3>1. CASE Slot(n) = widx
      <4>1. n + MaxChunks = Len(log) + 1
        BY <2>2, <3>1, StoredAtWidx DEF IInv
      <4>2. ~(Len(log) < taken[r] + MaxChunks)
        BY <2>1, <4>1
      <4> QED BY <3>1, <4>2 DEF IInv, SlotInv
    <3>2. CASE Slot(n) # widx
      BY <2>2, <3>2 DEF IInv, SlotInv
    <3> QED BY <3>1, <3>2
  <2> QED BY <2>2, <2>3 DEF IInv, SlotInv, Queue!Whole
<1> QED BY <1>1, Invariance, PTL

\* A read is never torn and never stale: the two-load check of acquire_read
\* lets a reader in only on its own next message.
THEOREM ReadsNotTorn == Spec => []NoTornRead
<1>1. IInv => NoTornRead
  BY DEF IInv, ReaderInv, NoTornRead
<1> QED BY <1>1, Invariance, PTL

\* Read flags are cleared only by the writer, inside its critical section.
THEOREM FlagsCleared == Spec => FlagDiscipline
<1> DEFINE A == \A s \in Slots, r \in Readers :
                  flag[s][r] /\ ~flag'[s][r] => ~written[s] /\ ~written'[s]
<1>1. IInv /\ [Next]_vars => [A]_vars
  <2> SUFFICES ASSUME IInv, Next, NEW s \in Slots, NEW r \in Readers,
                      flag[s][r], ~flag'[s][r]
               PROVE  ~written[s] /\ ~written'[s]
    OBVIOUS
  <2> USE DEF shared, writer, readers, history
  <2>1. CASE WReset
    <3>1. /\ wpc = "reset" /\ flag' = [flag EXCEPT ![widx][wi] = FALSE] /\ written' = written
      BY <2>1 DEF WReset
    <3>2. ~written[widx] /\ flag \in [Slots -> [Readers -> BOOLEAN]]
      BY <3>1 DEF IInv, WriterInv, TypeOK
    <3> QED BY <3>1, <3>2
  <2>2. ASSUME NEW q \in Readers, NEW ok \in BOOLEAN, RDone(q, ok) PROVE FALSE
    <3>1. flag' = [flag EXCEPT ![ridx[q]][q] = TRUE]
      BY <2>2 DEF RDone
    <3>2. flag \in [Slots -> [Readers -> BOOLEAN]]
      BY DEF IInv, TypeOK
    <3> QED BY <3>1, <3>2
  <2>3. ASSUME flag' = flag PROVE FALSE
    BY <2>3
  <2> QED
    BY <2>1, <2>2, <2>3 DEF Next, WriterStep, ReaderStep, Enqueue, WLoadFlag, WLoadWritten,
       WRetry, WTimeout, WMark, WFill, WRaise, WCommit, Dequeue, RLoadFlag, RLoadWritten,
       RRetry, RGiveUp, RCopy
<1> QED BY <1>1, Invariance, PTL DEF Spec, FlagDiscipline

\* The flag protocol is a correct broadcast queue of MaxChunks messages.
THEOREM Refinement == Spec => ImplementsQueue
<1>1. Init => Queue!BQInit
  BY DEF Init
<1>2. IInv /\ [Next]_vars => [Queue!BQNext]_<<log, taken, out>>
  <2> SUFFICES ASSUME IInv, Next, ~UNCHANGED <<log, taken, out>>
               PROVE  Queue!BQNext
    BY DEF vars
  <2> USE DEF shared, writer, readers, history
  <2>1. CASE WCommit
    <3>1. wpc = "commit" /\ log' = Append(log, wmsg) /\ UNCHANGED <<taken, out>>
      BY <2>1 DEF WCommit, WGoto
    <3>2. wmsg \in Msgs /\ ~written[widx]
      BY <3>1 DEF IInv, TypeOK, WriterInv
    <3>3. \A r \in Readers : Len(log) < taken[r] + MaxChunks
      BY <3>2 DEF IInv, SlotInv
    <3>4. Queue!HasRoom
      BY <3>3, RingAssumption DEF Queue!HasRoom, Queue!Readers, Readers, IInv, TypeOK
    <3> QED BY <3>1, <3>2, <3>4 DEF Queue!BQNext, Queue!Publish
  <2>2. ASSUME NEW r \in Readers, NEW ok \in BOOLEAN, RDone(r, ok)
        PROVE  Queue!BQNext
    <3>1. /\ rpc[r] = "done" /\ taken' = [taken EXCEPT ![r] = @ + 1] /\ log' = log
          /\ out' = IF ok THEN [out EXCEPT ![r] = rbuf[r]] ELSE out
      BY <2>2 DEF RDone, RGoto
    <3>2. /\ taken[r] < Len(log)
          /\ rbuf[r][1] = log[taken[r] + 1] /\ rbuf[r][2] = log[taken[r] + 1]
      BY <3>1 DEF IInv, ReaderInv
    <3>3. rbuf[r] = Queue!Whole(log[taken[r] + 1])
      BY <3>2 DEF IInv, TypeOK, Pairs, Queue!Whole
    <3>4. r \in Queue!Readers
      BY DEF Queue!Readers, Readers
    <3> QED BY <3>1, <3>2, <3>3, <3>4
            DEF Queue!BQNext, Queue!Take, Queue!Drop, Queue!Unread
  <2> QED
    BY <2>1, <2>2 DEF Next, WriterStep, ReaderStep, Enqueue, WLoadFlag, WLoadWritten,
       WRetry, WTimeout, WMark, WFill, WRaise, WReset, Dequeue, RLoadFlag, RLoadWritten,
       RRetry, RGiveUp, RCopy
<1> QED BY <1>1, <1>2, Invariance, PTL DEF Spec, ImplementsQueue, Queue!BQSpec, Queue!bqVars
=============================================================================
