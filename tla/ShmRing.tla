------------------------------- MODULE ShmRing -------------------------------
(***************************************************************************)
(* The shared-memory ring of runtime/spinwait/shm_broadcast.pristine.py:   *)
(* one writer and NReaders local readers, MaxChunks chunks, each with a    *)
(* written flag and one read flag per reader, and no lock.                 *)
(*                                                                         *)
(* One step makes at most one access to shared memory, so every            *)
(* interleaving of the flag loads, flag stores and copies of the processes *)
(* is a behaviour.  Memory is sequentially consistent here.                *)
(***************************************************************************)
EXTENDS Naturals, Sequences

CONSTANTS
  NReaders,    \* n_reader: local readers of the ring
  MaxChunks,   \* max_chunks
  Msgs,        \* contents a chunk can be given
  MaxMsgs,     \* bound on the messages committed, for model checking
  EnqTimeout,  \* TRUE: enqueue is called with a timeout
  DeqTimeout   \* TRUE: dequeue is called with a timeout, or shutdown may happen

ASSUME RingAssumption ==
  /\ NReaders \in Nat \ {0}
  /\ MaxChunks \in Nat \ {0}
  /\ MaxMsgs \in Nat
  /\ EnqTimeout \in BOOLEAN
  /\ DeqTimeout \in BOOLEAN
  /\ << >> \notin Msgs

Readers == 1..NReaders
Slots   == 0..(MaxChunks - 1)

VARIABLES
  \* shared memory
  written,  \* written[s]: metadata byte 0 of chunk s
  flag,     \* flag[s][r]: metadata byte r of chunk s
  data,     \* data[s]: the two halves of chunk s
  \* the writer process
  wpc,      \* where acquire_write stands
  widx,     \* its current_idx
  wi,       \* next read flag it loads or resets
  wall,     \* every read flag loaded by this check() was 1
  wmsg,     \* the message of this enqueue
  \* the reader processes
  rpc,      \* where acquire_read stands, per reader
  ridx,     \* current_idx, per reader
  rsaw,     \* the read flag loaded by this check()
  rbuf,     \* the halves copied so far
  \* history
  log, taken, out

shared  == <<written, flag, data>>
writer  == <<wpc, widx, wi, wall, wmsg>>
readers == <<rpc, ridx, rsaw, rbuf>>
history == <<log, taken, out>>
vars    == <<written, flag, data, wpc, widx, wi, wall, wmsg,
             rpc, ridx, rsaw, rbuf, log, taken, out>>

\* The history variables are the state of the abstract queue.
Queue == INSTANCE BroadcastQueue

\* Operators whose names end in a reason after "_" are deliberately wrong
\* variants of the operator below them; nothing but a sensitivity run uses them.
Next1_NoWrap(idx) == idx + 1

Next1(idx) == (idx + 1) % MaxChunks

Init ==
  /\ written = [s \in Slots |-> FALSE]
  /\ flag    = [s \in Slots |-> [r \in Readers |-> FALSE]]
  /\ data    = [s \in Slots |-> << << >>, << >> >>]
  /\ wpc = "idle" /\ widx = 0 /\ wi = 1 /\ wall = TRUE /\ wmsg = << >>
  /\ rpc  = [r \in Readers |-> "idle"]
  /\ ridx = [r \in Readers |-> 0]
  /\ rsaw = [r \in Readers |-> FALSE]
  /\ rbuf = [r \in Readers |-> << << >>, << >> >>]
  /\ Queue!BQInit

-----------------------------------------------------------------------------
(* The writer: acquire_write and the body enqueue runs in it.              *)

WGoto(from, to) == wpc = from /\ wpc' = to

Enqueue(m) ==
  /\ Len(log) < MaxMsgs
  /\ WGoto("idle", "flags")
  /\ wmsg' = m /\ wi' = 1 /\ wall' = TRUE
  /\ UNCHANGED <<widx, shared, readers, history>>

WLoadFlag_LastOnly ==    \* the count is overwritten instead of summed
  /\ wpc = "flags"
  /\ wall' = flag[widx][wi]
  /\ IF wi = NReaders THEN wi' = 1 /\ wpc' = "written"
                      ELSE wi' = wi + 1 /\ wpc' = wpc
  /\ UNCHANGED <<widx, wmsg, shared, readers, history>>

\* check(): sum(metadata_buffer[1:]), one byte after the other ...
WLoadFlag ==
  /\ wpc = "flags"
  /\ wall' = (wall /\ flag[widx][wi])
  /\ IF wi = NReaders THEN wi' = 1 /\ wpc' = "written"
                      ELSE wi' = wi + 1 /\ wpc' = wpc
  /\ UNCHANGED <<widx, wmsg, shared, readers, history>>

\* ... and then metadata_buffer[0].
WriterBlocked == written[widx] /\ ~wall

WLoadWritten ==
  /\ ~WriterBlocked
  /\ WGoto("written", "mark")
  /\ UNCHANGED <<widx, wi, wall, wmsg, shared, readers, history>>

WRetry ==
  /\ WriterBlocked
  /\ WGoto("written", "flags")
  /\ wall' = TRUE
  /\ UNCHANGED <<widx, wi, wmsg, shared, readers, history>>

WTimeout ==
  /\ EnqTimeout
  /\ WriterBlocked
  /\ WGoto("written", "idle")
  /\ UNCHANGED <<widx, wi, wall, wmsg, shared, readers, history>>

WMark_StillWritten ==    \* the written flag is left at 1 while the caller writes
  /\ WGoto("mark", "lo")
  /\ UNCHANGED <<widx, wi, wall, wmsg, shared, readers, history>>

WMark ==
  /\ WGoto("mark", "lo")
  /\ written' = [written EXCEPT ![widx] = FALSE]
  /\ UNCHANGED <<flag, data, widx, wi, wall, wmsg, readers, history>>

WFill(half, from, to) ==
  /\ WGoto(from, to)
  /\ data' = [data EXCEPT ![widx][half] = wmsg]
  /\ UNCHANGED <<written, flag, widx, wi, wall, wmsg, readers, history>>

WRaise_Advances ==       \* current_idx moves on although nothing was committed
  /\ wpc \in {"lo", "hi"}
  /\ wpc' = "idle"
  /\ widx' = Next1(widx)
  /\ UNCHANGED <<wi, wall, wmsg, shared, readers, history>>

\* The body raises: the exception leaves the generator at its yield, the chunk
\* stays marked as not written and current_idx where it was.
WRaise ==
  /\ wpc \in {"lo", "hi"}
  /\ wpc' = "idle"
  /\ UNCHANGED <<widx, wi, wall, wmsg, shared, readers, history>>

WReset ==
  /\ wpc = "reset"
  /\ flag' = [flag EXCEPT ![widx][wi] = FALSE]
  /\ IF wi = NReaders THEN wi' = 1 /\ wpc' = "commit"
                      ELSE wi' = wi + 1 /\ wpc' = wpc
  /\ UNCHANGED <<written, data, widx, wall, wmsg, readers, history>>

WCommit ==
  /\ WGoto("commit", "idle")
  /\ written' = [written EXCEPT ![widx] = TRUE]
  /\ widx' = Next1(widx)
  /\ log' = Append(log, wmsg)
  /\ UNCHANGED <<flag, data, wi, wall, wmsg, readers, taken, out>>

WriterStep ==
  \/ WLoadFlag \/ WLoadWritten \/ WRetry \/ WTimeout
  \/ WMark \/ WFill(1, "lo", "hi") \/ WFill(2, "hi", "reset") \/ WRaise
  \/ WReset \/ WCommit

-----------------------------------------------------------------------------
(* A reader: acquire_read and the body dequeue runs in it.                 *)

RGoto(r, from, to) == rpc[r] = from /\ rpc' = [rpc EXCEPT ![r] = to]

Dequeue(r) ==
  /\ RGoto(r, "idle", "flag")
  /\ UNCHANGED <<ridx, rsaw, rbuf, shared, writer, history>>

\* check(): first its own read flag ...
RLoadFlag(r) ==
  /\ RGoto(r, "flag", "written")
  /\ rsaw' = [rsaw EXCEPT ![r] = flag[ridx[r]][r]]
  /\ UNCHANGED <<ridx, rbuf, shared, writer, history>>

\* ... then the written flag.
Readable(r) == written[ridx[r]] /\ ~rsaw[r]

RLoadWritten(r) ==
  /\ Readable(r)
  /\ RGoto(r, "written", "lo")
  /\ UNCHANGED <<ridx, rsaw, rbuf, shared, writer, history>>

RRetry(r) ==
  /\ ~Readable(r)
  /\ RGoto(r, "written", "flag")
  /\ UNCHANGED <<ridx, rsaw, rbuf, shared, writer, history>>

\* TimeoutError past the deadline, or RuntimeError("cancelled").
RGiveUp(r) ==
  /\ DeqTimeout
  /\ ~Readable(r)
  /\ RGoto(r, "written", "idle")
  /\ UNCHANGED <<ridx, rsaw, rbuf, shared, writer, history>>

RCopy(r, half, from, to) ==
  /\ RGoto(r, from, to)
  /\ rbuf' = [rbuf EXCEPT ![r][half] = data[ridx[r]][half]]
  /\ UNCHANGED <<ridx, rsaw, shared, writer, history>>

RDone_NoFinally(r, ok) ==   \* the flag is only set when the body succeeded
  /\ RGoto(r, "done", "idle")
  /\ flag'  = [flag EXCEPT ![ridx[r]][r] = ok]
  /\ ridx'  = [ridx EXCEPT ![r] = Next1(@)]
  /\ taken' = [taken EXCEPT ![r] = @ + 1]
  /\ out'   = IF ok THEN [out EXCEPT ![r] = rbuf[r]] ELSE out
  /\ UNCHANGED <<written, data, rsaw, rbuf, writer, log>>

\* The finally clause: it runs whether the body succeeded or raised (a pickle
\* that does not load); only in the first case the caller gets the object.
RDone(r, ok) ==
  /\ RGoto(r, "done", "idle")
  /\ flag'  = [flag EXCEPT ![ridx[r]][r] = TRUE]
  /\ ridx'  = [ridx EXCEPT ![r] = Next1(@)]
  /\ taken' = [taken EXCEPT ![r] = @ + 1]
  /\ out'   = IF ok THEN [out EXCEPT ![r] = rbuf[r]] ELSE out
  /\ UNCHANGED <<written, data, rsaw, rbuf, writer, log>>

ReaderStep_WrittenFirst(r) ==   \* check() loads the written flag first
  \/ /\ RGoto(r, "flag", "written")
     /\ rsaw' = [rsaw EXCEPT ![r] = ~written[ridx[r]]]
     /\ UNCHANGED <<ridx, rbuf, shared, writer, history>>
  \/ /\ RGoto(r, "written", IF rsaw[r] \/ flag[ridx[r]][r] THEN "flag" ELSE "lo")
     /\ UNCHANGED <<ridx, rsaw, rbuf, shared, writer, history>>
  \/ RCopy(r, 1, "lo", "hi") \/ RCopy(r, 2, "hi", "done")
  \/ \E ok \in BOOLEAN : RDone(r, ok)

ReaderStep(r) ==
  \/ RLoadFlag(r) \/ RLoadWritten(r) \/ RRetry(r) \/ RGiveUp(r)
  \/ RCopy(r, 1, "lo", "hi") \/ RCopy(r, 2, "hi", "done")
  \/ \E ok \in BOOLEAN : RDone(r, ok)

-----------------------------------------------------------------------------
Next ==
  \/ \E m \in Msgs : Enqueue(m)
  \/ WriterStep
  \/ \E r \in Readers : Dequeue(r) \/ ReaderStep(r)

Spec == Init /\ [][Next]_vars

\* A process that entered a call keeps running (the OS schedules it: every wait
\* is a sched_yield or a bounded poll) and a worker calls dequeue in a loop.
\* Nothing obliges the writer to enqueue.
Fairness ==
  /\ WF_vars(WriterStep)
  /\ \A r \in Readers : WF_vars(Dequeue(r) \/ ReaderStep(r))

FairSpec == Spec /\ Fairness

-----------------------------------------------------------------------------
(* Properties.                                                             *)

WriterPcs == {"idle", "flags", "written", "mark", "lo", "hi", "reset", "commit"}
ReaderPcs == {"idle", "flag", "written", "lo", "hi", "done"}
Content   == Msgs \cup {<< >>}
Pairs     == Content \X Content

\* Types of all variables; current_idx always names a chunk of the ring
\* (the modulo in acquire_write and acquire_read).
TypeOK ==
  /\ written \in [Slots -> BOOLEAN]
  /\ flag \in [Slots -> [Readers -> BOOLEAN]]
  /\ data \in [Slots -> Pairs]
  /\ wpc \in WriterPcs
  /\ widx \in Slots
  /\ wi \in Readers
  /\ wall \in BOOLEAN
  /\ wmsg \in Content
  /\ wpc # "idle" => wmsg \in Msgs
  /\ rpc \in [Readers -> ReaderPcs]
  /\ ridx \in [Readers -> Slots]
  /\ rsaw \in [Readers -> BOOLEAN]
  /\ rbuf \in [Readers -> Pairs]
  /\ log \in Seq(Msgs)
  /\ taken \in [Readers -> Nat]
  /\ out \in [Readers -> Pairs \cup {<< >>}]

Slot(n) == (n - 1) % MaxChunks      \* the chunk of message number n

\* Every message some reader has still to take is whole in its chunk, from the
\* commit to the last read flag, whatever the writer and the other readers do:
\* acquire_write never reuses a chunk one of its readers has not read.
UnreadIntact ==
  \A r \in Readers : \A n \in (taken[r] + 1)..Len(log) :
    data[Slot(n)] = Queue!Whole(log[n])

\* A reader that found a chunk readable copies both halves of its own next
\* message; it never mixes two messages and never re-reads an older one.  The
\* docstring of ShmRingBuffer rests this on the order of the flag stores.
NoTornRead ==
  \A r \in Readers :
    /\ rpc[r] \in {"lo", "hi", "done"} => taken[r] < Len(log)
    /\ rpc[r] \in {"hi", "done"} => rbuf[r][1] = log[taken[r] + 1]
    /\ rpc[r] = "done" => rbuf[r][2] = log[taken[r] + 1]

\* "Readers only mark the block as read (from 0 to 1)", and a flag goes back to
\* 0 only while its chunk is marked as not written (case 1 of the docstring).
FlagDiscipline ==
  [][\A s \in Slots, r \in Readers :
        flag[s][r] /\ ~flag'[s][r] => ~written[s] /\ ~written'[s]]_vars

\* The flag protocol implements the broadcast queue: commits are publications,
\* a finished read takes the next message whole, and no reader is overrun.
ImplementsQueue == Queue!BQSpec

\* Whatever is committed reaches every reader, also when its calls time out and
\* it fails on some messages.
EveryReaderCatchesUp ==
  \A r \in Readers : \A k \in 1..MaxMsgs : Len(log) >= k ~> taken[r] >= k

\* A call of enqueue returns, without timeout too, as long as the readers run.
EnqueueReturns == (wpc # "idle") ~> (wpc = "idle")
=============================================================================
