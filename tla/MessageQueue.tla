----------------------------- MODULE MessageQueue -----------------------------
(***************************************************************************)
(* MessageQueue of runtime/spinwait/shm_broadcast.pristine.py: enqueue and *)
(* dequeue over the shared-memory ring, the socket for messages that do    *)
(* not fit a chunk (overflow), the sockets of readers on other nodes, the  *)
(* wake-up of idle readers, timeouts, and shutdown.                        *)
(*                                                                         *)
(* The ring is the abstract queue that ShmRing is proved to implement, so  *)
(* writing or reading a chunk is one step here.  ZeroMQ is external: a     *)
(* PUB/SUB channel is a FIFO per connected subscriber that loses what is   *)
(* published before the subscription; a wake-up may be lost at any time.   *)
(***************************************************************************)
EXTENDS Naturals, Sequences, FiniteSets

CONSTANTS
  NLocal,      \* n_local_reader
  NRemote,     \* n_remote_reader
  MaxChunks,   \* max_chunks
  MaxMsgs,     \* bound on the objects enqueued
  EnqTimeout,  \* TRUE: enqueue has a timeout
  Impatient,   \* readers whose dequeue has a timeout
  Stoppable    \* readers whose process may call shutdown

ASSUME QueueAssumption ==
  /\ NLocal \in Nat \ {0} /\ NRemote \in Nat /\ MaxChunks \in Nat \ {0}
  /\ MaxMsgs \in Nat /\ EnqTimeout \in BOOLEAN
  /\ Impatient \subseteq 1..(NLocal + NRemote)
  /\ Stoppable \subseteq 1..(NLocal + NRemote)

Local   == 1..NLocal
Remote  == (NLocal + 1)..(NLocal + NRemote)
AllRd   == Local \cup Remote

\* Objects are numbered in the order of their enqueue; big ones overflow.
Objects == [id : 1..MaxMsgs, big : BOOLEAN]
READY   == 0

VARIABLES
  log, taken, out,  \* the ring
  wpc,     \* the writer's place in wait_until_ready or enqueue
  wobj,    \* the object being enqueued
  nsub,    \* subscription messages the writer has received
  subs,    \* readers connected to the publishing socket of their kind
  chan,    \* chan[r]: sent to reader r and not received (ids, READY)
  note,    \* note[r]: a wake-up is pending (CONFLATE keeps at most one)
  rpc,     \* a reader's place in wait_until_ready or dequeue
  hot,     \* hot[r]: less than busy_loop_s since the last read
  stop,    \* stop[r]: how far shutdown() of r's process has come
  got,     \* got[r]: ids of the objects dequeue returned, in order
  failed   \* failed[r]: ids whose dequeue raised instead

ringVars == <<log, taken, out>>
wVars    == <<wpc, wobj, nsub>>
rVars    == <<rpc, hot, got, failed>>
vars     == <<log, taken, out, wpc, wobj, nsub, subs, chan, note, rpc, hot, stop, got, failed>>

Ring == INSTANCE BroadcastQueue WITH NReaders <- NLocal, Msgs <- Objects

Init ==
  /\ Ring!BQInit
  /\ wpc = "subLocal" /\ wobj = [id |-> 0, big |-> FALSE] /\ nsub = 0
  /\ subs = {}
  /\ chan = [r \in AllRd |-> << >>]
  /\ note = [r \in Local |-> FALSE]
  /\ rpc  = [r \in AllRd |-> "connect"]
  /\ hot  = [r \in Local |-> TRUE]
  /\ stop = [r \in AllRd |-> "no"]
  /\ got  = [r \in AllRd |-> << >>]
  /\ failed = [r \in AllRd |-> {}]

\* Publishing reaches the subscribers of the moment.
Publish(rs, x) ==
  chan' = [r \in AllRd |-> IF r \in rs \cap subs THEN Append(chan[r], x) ELSE chan[r]]

-----------------------------------------------------------------------------
(* wait_until_ready: a collective operation before the first message.      *)

RGoto(r, from, to) == rpc[r] = from /\ rpc' = [rpc EXCEPT ![r] = to]

\* create_from_handle connects and subscribes; the reader then blocks in recv.
Subscribe(r) ==
  /\ RGoto(r, "connect", "ready")
  /\ subs' = subs \cup {r}
  /\ UNCHANGED <<ringVars, wVars, chan, note, hot, stop, got, failed>>

\* The writer counts one subscription message per expected reader, local
\* readers first, and then publishes READY to that socket.
CountSub(rs, from, n) ==
  /\ wpc = from /\ nsub < n
  /\ nsub < Cardinality(subs \cap rs)
  /\ nsub' = nsub + 1
  /\ UNCHANGED <<ringVars, wpc, wobj, subs, chan, note, rVars, stop>>

AnnounceReady_OneShort(rs, from, to, n) ==    \* one subscription fewer is awaited
  /\ wpc = from /\ nsub + 1 >= n
  /\ wpc' = to /\ nsub' = 0
  /\ IF n > 0 THEN Publish(rs, READY) ELSE UNCHANGED chan
  /\ UNCHANGED <<ringVars, wobj, subs, note, rVars, stop>>

AnnounceReady(rs, from, to, n) ==
  /\ wpc = from /\ nsub = n
  /\ wpc' = to /\ nsub' = 0
  /\ IF n > 0 THEN Publish(rs, READY) ELSE UNCHANGED chan
  /\ UNCHANGED <<ringVars, wobj, subs, note, rVars, stop>>

RecvReady_Peek(r) ==        \* READY stays in the socket
  /\ chan[r] # << >>
  /\ RGoto(r, "ready", IF Head(chan[r]) = READY THEN "idle" ELSE "assertion")
  /\ UNCHANGED <<ringVars, wVars, subs, chan, note, hot, stop, got, failed>>

RecvReady(r) ==
  /\ chan[r] # << >>
  /\ RGoto(r, "ready", IF Head(chan[r]) = READY THEN "idle" ELSE "assertion")
  /\ chan' = [chan EXCEPT ![r] = Tail(@)]
  /\ UNCHANGED <<ringVars, wVars, subs, note, hot, stop, got, failed>>

-----------------------------------------------------------------------------
(* enqueue                                                                 *)

WGoto(from, to) == wpc = from /\ wpc' = to

Enqueue(big) ==
  /\ Len(log) < MaxMsgs
  /\ WGoto("idle", "acquire")
  /\ wobj' = [id |-> Len(log) + 1, big |-> big]
  /\ UNCHANGED <<ringVars, nsub, subs, chan, note, rVars, stop>>

\* acquire_write, the body, and the flags: the chunk is readable afterwards.
WriteChunk ==
  /\ WGoto("acquire", IF wobj.big THEN "overflow" ELSE "notify")
  /\ Ring!Publish(wobj)
  /\ UNCHANGED <<wobj, nsub, subs, chan, note, rVars, stop>>

EnqueueTimeout_SendsOn ==     \* the timeout of the ring does not stop the call
  /\ EnqTimeout /\ ~Ring!HasRoom
  /\ WGoto("acquire", "remote")
  /\ UNCHANGED <<ringVars, wobj, nsub, subs, chan, note, rVars, stop>>

EnqueueTimeout ==
  /\ EnqTimeout /\ ~Ring!HasRoom
  /\ WGoto("acquire", "idle")
  /\ UNCHANGED <<ringVars, wobj, nsub, subs, chan, note, rVars, stop>>

SendOverflow ==
  /\ WGoto("overflow", "notify")
  /\ Publish(Local, wobj.id)
  /\ UNCHANGED <<ringVars, wobj, nsub, subs, note, rVars, stop>>

\* SNDHWM is 1 and there is no handshake on this socket: any subset is woken.
Notify ==
  /\ WGoto("notify", "remote")
  /\ \E woken \in SUBSET Local : note' = [r \in Local |-> note[r] \/ r \in woken]
  /\ UNCHANGED <<ringVars, wobj, nsub, subs, chan, rVars, stop>>

SendRemote ==
  /\ WGoto("remote", "idle")
  /\ Publish(Remote, wobj.id)
  /\ UNCHANGED <<ringVars, wobj, nsub, subs, note, rVars, stop>>

WriterStep ==
  \/ CountSub(Local, "subLocal", NLocal) \/ AnnounceReady(Local, "subLocal", "subRemote", NLocal)
  \/ CountSub(Remote, "subRemote", NRemote) \/ AnnounceReady(Remote, "subRemote", "idle", NRemote)
  \/ WriteChunk \/ EnqueueTimeout \/ SendOverflow \/ Notify \/ SendRemote

-----------------------------------------------------------------------------
(* dequeue                                                                 *)

Dequeue(r) ==
  /\ RGoto(r, "idle", IF r \in Local THEN "check" ELSE "recv")
  /\ UNCHANGED <<ringVars, wVars, subs, chan, note, hot, stop, got, failed>>

\* The chunk is read and marked as read; an inline object is returned, or its
\* unpickling raises; for an overflow marker the object is still to come.
ReadChunk(r, ok) ==
  LET obj == log[taken[r] + 1] IN
  /\ rpc[r] = "check" /\ Ring!Unread(r)
  /\ IF ok \/ obj.big THEN Ring!Take(r) ELSE Ring!Drop(r)
  /\ rpc' = [rpc EXCEPT ![r] = IF obj.big THEN "recv" ELSE "idle"]
  /\ got' = IF obj.big \/ ~ok THEN got ELSE [got EXCEPT ![r] = Append(@, obj.id)]
  /\ failed' = IF obj.big \/ ok THEN failed ELSE [failed EXCEPT ![r] = @ \cup {obj.id}]
  /\ hot' = [hot EXCEPT ![r] = TRUE]
  /\ UNCHANGED <<wVars, subs, chan, note, stop>>

\* Nothing to read: past the deadline timeout_ms raises TimeoutError.
DequeueTimeout(r) ==
  /\ r \in Impatient /\ ~Ring!Unread(r)
  /\ RGoto(r, "check", "idle")
  /\ UNCHANGED <<ringVars, wVars, subs, chan, note, hot, stop, got, failed>>

\* Otherwise SpinCondition.wait: a yield while reads are frequent ...
Yield(r) ==
  /\ hot[r] /\ ~Ring!Unread(r)
  /\ RGoto(r, "check", "woken")
  /\ UNCHANGED <<ringVars, wVars, subs, chan, note, hot, stop, got, failed>>

Cool(r) ==
  /\ hot[r] /\ hot' = [hot EXCEPT ![r] = FALSE]
  /\ UNCHANGED <<ringVars, wVars, subs, chan, note, rpc, stop, got, failed>>

\* ... and a poll of the cancel and the wake-up socket after busy_loop_s.
Park(r) ==
  /\ ~hot[r] /\ ~Ring!Unread(r)
  /\ RGoto(r, "check", "poll")
  /\ UNCHANGED <<ringVars, wVars, subs, chan, note, hot, stop, got, failed>>

\* The cancel ping stays in its socket; a wake-up is consumed.
PollEvent(r) ==
  /\ stop[r] = "sent" \/ note[r]
  /\ RGoto(r, "poll", "woken")
  /\ note' = [note EXCEPT ![r] = @ /\ stop[r] = "sent"]
  /\ UNCHANGED <<ringVars, wVars, subs, chan, hot, stop, got, failed>>

PollExpires_Never(r) ==     \* an idle reader parks without a bound
  /\ FALSE
  /\ UNCHANGED vars

\* timeout_ms never exceeds SHM_READER_RECHECK_INTERVAL_MS.
PollExpires(r) ==
  /\ ~(stop[r] = "sent" \/ note[r])
  /\ RGoto(r, "poll", "woken")
  /\ UNCHANGED <<ringVars, wVars, subs, chan, note, hot, stop, got, failed>>

AfterWait_NoCheck(r) ==     \* shutting_down is not looked at after the wait
  /\ RGoto(r, "woken", "check")
  /\ UNCHANGED <<ringVars, wVars, subs, chan, note, hot, stop, got, failed>>

\* shutting_down is read after each wait; RuntimeError("cancelled") ends the loop.
AfterWait(r) ==
  /\ RGoto(r, "woken", IF stop[r] = "no" THEN "check" ELSE "stopped")
  /\ UNCHANGED <<ringVars, wVars, subs, chan, note, hot, stop, got, failed>>

Recv_Peek(r, ok) ==         \* the received message is left in the socket
  /\ chan[r] # << >>
  /\ RGoto(r, "recv", "idle")
  /\ got' = IF ok THEN [got EXCEPT ![r] = Append(@, Head(chan[r]))] ELSE got
  /\ failed' = IF ok THEN failed ELSE [failed EXCEPT ![r] = @ \cup {Head(chan[r])}]
  /\ UNCHANGED <<ringVars, wVars, subs, chan, note, hot, stop>>

\* recv: an overflow object, or any object of a remote reader.
Recv(r, ok) ==
  /\ chan[r] # << >>
  /\ RGoto(r, "recv", "idle")
  /\ chan' = [chan EXCEPT ![r] = Tail(@)]
  /\ got' = IF ok THEN [got EXCEPT ![r] = Append(@, Head(chan[r]))] ELSE got
  /\ failed' = IF ok THEN failed ELSE [failed EXCEPT ![r] = @ \cup {Head(chan[r])}]
  /\ UNCHANGED <<ringVars, wVars, subs, note, hot, stop>>

RecvTimeout(r) ==
  /\ r \in Impatient /\ chan[r] = << >>
  /\ RGoto(r, "recv", "idle")
  /\ UNCHANGED <<ringVars, wVars, subs, chan, note, hot, stop, got, failed>>

LocalStep(r) ==
  \/ \E ok \in BOOLEAN : ReadChunk(r, ok)
  \/ DequeueTimeout(r) \/ Yield(r) \/ Park(r) \/ PollEvent(r) \/ PollExpires(r) \/ AfterWait(r)

ReaderStep(r) ==
  \/ Subscribe(r) \/ RecvReady(r) \/ Dequeue(r)
  \/ \E ok \in BOOLEAN : Recv(r, ok)
  \/ RecvTimeout(r)
  \/ r \in Local /\ LocalStep(r)

-----------------------------------------------------------------------------
(* shutdown, called by another thread of the reader's process.             *)

SetShuttingDown(r) ==
  /\ stop[r] = "no" /\ rpc[r] \notin {"connect", "ready"}
  /\ stop' = [stop EXCEPT ![r] = "flagged"]
  /\ UNCHANGED <<ringVars, wVars, subs, chan, note, rVars>>

\* A remote reader has no spin condition: nothing is sent.
Cancel(r) ==
  /\ stop[r] = "flagged"
  /\ stop' = [stop EXCEPT ![r] = "sent"]
  /\ UNCHANGED <<ringVars, wVars, subs, chan, note, rVars>>

Next ==
  \/ \E big \in BOOLEAN : Enqueue(big)
  \/ WriterStep
  \/ \E r \in AllRd : ReaderStep(r)
  \/ \E r \in Local : Cool(r)
  \/ \E r \in Stoppable : SetShuttingDown(r) \/ Cancel(r)

Spec == Init /\ [][Next]_vars

\* Processes that run keep running; time passes; a shutdown that was begun is
\* completed.  Nothing obliges anyone to enqueue or to shut down.
FairSpec ==
  /\ Spec
  /\ WF_vars(WriterStep)
  /\ \A r \in AllRd : WF_vars(ReaderStep(r))
  /\ \A r \in Local : WF_vars(Cool(r))
  /\ \A r \in Stoppable : WF_vars(Cancel(r))

-----------------------------------------------------------------------------
(* Properties.                                                             *)

TypeOK ==
  /\ log \in Seq(Objects)
  /\ taken \in [Local -> 0..MaxMsgs]
  /\ wpc \in {"subLocal", "subRemote", "idle", "acquire", "overflow", "notify", "remote"}
  /\ wobj \in [id : 0..MaxMsgs, big : BOOLEAN]
  /\ nsub \in 0..(NLocal + NRemote)
  /\ subs \subseteq AllRd
  /\ chan \in [AllRd -> Seq(0..MaxMsgs)]
  /\ note \in [Local -> BOOLEAN]
  /\ rpc \in [AllRd -> {"connect", "ready", "assertion", "idle", "check", "woken", "poll",
                        "recv", "stopped"}]
  /\ hot \in [Local -> BOOLEAN]
  /\ stop \in [AllRd -> {"no", "flagged", "sent"}]
  /\ got \in [AllRd -> Seq(1..MaxMsgs)]
  /\ failed \in [AllRd -> SUBSET (1..MaxMsgs)]

Ids(seq) == {seq[i] : i \in DOMAIN seq}
Ended(r) == Ids(got[r]) \cup failed[r]

\* wait_until_ready: the first thing a reader receives is READY (its assertion),
\* and no object is published before every reader listens.
ReadyFirst ==
  /\ \A r \in AllRd : rpc[r] # "assertion"
  /\ log # << >> => subs = AllRd

\* The objects a reader gets are in the order of their enqueue: "it is a queue".
DeliveredInOrder ==
  \A r \in AllRd : \A i, j \in DOMAIN got[r] : i < j => got[r][i] < got[r][j]

\* A local reader whose calls have no timeout has had every object whose chunk
\* it took, exactly once and in order, but for the overflow object it is waiting
\* for: chunks and overflow payloads travel on different channels, and the calls
\* of the other readers may time out anywhere.
ExactlyOnce ==
  \A r \in Local \ Impatient :
       /\ \A i, j \in DOMAIN got[r] : i < j => got[r][i] < got[r][j]
       /\ Ids(got[r]) \cap failed[r] = {}
       /\ Ended(r) = 1..taken[r] \ (IF rpc[r] = "recv" THEN {taken[r]} ELSE {})

\* A remote reader is sent exactly what the ring was given, once the call of
\* enqueue is over: an enqueue that timed out on the ring reached no node.
RemoteInStep ==
  \A r \in Remote :
    wpc \in {"idle", "acquire"} =>
      (Ids(chan[r]) \ {READY}) \cup Ended(r) = 1..Len(log)

\* Every object reaches every reader that was not shut down, also when all its
\* wake-ups are lost: an idle reader re-reads the flag after at most 5 s.  (A
\* local reader whose call timed out inside dequeue may be one object behind.)
EveryObjectReturned ==
  \A r \in AllRd \ (Local \cap Impatient) : \A n \in 1..MaxMsgs :
    Len(log) >= n ~> n \in Ended(r) \/ rpc[r] = "stopped"

\* "If this is an idle reader, wakes it up so it can clean up and shut down":
\* after shutdown() the reader's loop ends.
ShutdownReturns ==
  \A r \in Stoppable : stop[r] = "sent" ~> rpc[r] = "stopped"
=============================================================================
