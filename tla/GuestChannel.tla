----------------------------- MODULE GuestChannel -----------------------------
(***************************************************************************)
(* The guest's end of the Control Plane stream, iapetusd/src/channel.rs:   *)
(* run_forever around run_session, with its concurrent parts - the read    *)
(* loop, the heartbeats, the action worker and the blocking pool that      *)
(* executes - and connect in main.rs, which SIGTERM ends.                  *)
(*                                                                         *)
(* The Control Plane and the network are the environment: they put frames  *)
(* on the wire, end the stream cleanly or break it, and stop taking what   *)
(* the guest sends. Requests are numbered in the order they are sent and   *)
(* never sent twice. Heartbeats that carry no ts change nothing here;      *)
(* back-off delays are time that merely passes.                            *)
(***************************************************************************)
EXTENDS Naturals, Sequences, SequencesExt

CONSTANTS MaxRequest,   (* bound on the requests the Control Plane sends    *)
          EmptyRequest, (* those that carry no action                       *)
          Timed,        (* those with deadline_ms > 0                       *)
          Command,      (* those whose driver call need not return          *)
          Depth,        (* IN_FLIGHT_DEPTH, the capacity of the queue       *)
          MaxWire,      (* bound on the frames under way to the guest       *)
          MaxSessions   (* bound on the connections made                    *)

Request == 1..MaxRequest

ASSUME RequestAssumption == MaxRequest \in Nat
ASSUME KindAssumption == EmptyRequest \subseteq Request /\ Timed \subseteq Request \ EmptyRequest
ASSUME CommandAssumption == Command \subseteq Request \ EmptyRequest
ASSUME BoundAssumption == Depth \in Nat \ {0} /\ MaxWire \in Nat /\ MaxSessions \in Nat

NoRequest == 0

VARIABLES phase,     (* where run_forever and run_session are               *)
          session,   (* connections made                                    *)
          base,      (* the last request sent before this connection        *)
          link, wire, sent, (* the stream from the Control Plane            *)
          outOpen,   (* is the outbound stream still being read?            *)
          waiting,   (* the request whose queue_tx.send is pending          *)
          queue,     (* queue_rx                                            *)
          worker, current,  (* the worker task, and the Pending it is on    *)
          gated,     (* the worker still has to pass the clock gate         *)
          resynced,  (* ~clock_pending, which is also what the gate shows   *)
          beating,   (* does the heartbeat task run?                        *)
          running,   (* actions executing in spawn_blocking                 *)
          late,      (* requests whose deadline has passed                  *)
          started, answered (* what was executed and what was answered      *)

netVars == <<link, wire, sent, outOpen>>
readerVars == <<phase, session, base, waiting, resynced, beating>>
workerVars == <<queue, worker, current, gated>>
historyVars == <<late, started, answered>>
vars == <<netVars, readerVars, workerVars, running, historyVars>>

Signal == {"ack", "ack_resync", "ack_unknown", "heartbeat", "shutdown"}
Frame == [type: Signal \cup {"request"}, id: Request \cup {NoRequest}]

TypeOK ==
  /\ phase \in {"starting", "backoff", "handshake", "reading", "closing", "stopping",
                "terminated", "stopped", "exited"}
  /\ session \in 0..MaxSessions /\ base \in 0..sent /\ sent \in Request \cup {0}
  /\ link \in {"down", "up", "closed", "broken"}
  /\ wire \in Seq(Frame) /\ Len(wire) <= MaxWire
  /\ queue \in Seq(Request) /\ Len(queue) <= Depth
  /\ worker \in {"none", "idle", "gate", "running", "answering", "ended"}
  /\ waiting \in Request \cup {NoRequest} /\ current \in Request \cup {NoRequest}
  /\ {outOpen, gated, resynced, beating} \subseteq BOOLEAN
  /\ running \subseteq Request /\ late \subseteq Timed
  /\ started \in Seq(Request) /\ answered \in Seq(Request)

Init ==
  /\ phase = "starting" /\ session = 0 /\ base = 0 /\ beating = FALSE
  /\ link = "down" /\ wire = <<>> /\ sent = 0 /\ outOpen = FALSE
  /\ waiting = NoRequest /\ queue = <<>>
  /\ worker = "none" /\ current = NoRequest /\ gated = FALSE /\ resynced = FALSE
  /\ running = {} /\ late = {} /\ started = <<>> /\ answered = <<>>

-----------------------------------------------------------------------------
(* The Control Plane and the network                                        *)
SendSignal(type) ==
  /\ link = "up" /\ Len(wire) < MaxWire
  /\ \A i \in 1..Len(wire) : wire[i].type # type
  /\ wire' = Append(wire, [type |-> type, id |-> NoRequest])
  /\ UNCHANGED <<link, sent, outOpen, readerVars, workerVars, running, historyVars>>

SendRequest ==
  /\ link = "up" /\ Len(wire) < MaxWire /\ sent + 1 \in Request
  /\ sent' = sent + 1
  /\ wire' = Append(wire, [type |-> "request", id |-> sent + 1])
  /\ UNCHANGED <<link, outOpen, readerVars, workerVars, running, historyVars>>

(* A clean end delivers what is on the wire; a broken one loses a suffix.   *)
LinkEnds ==
  /\ link = "up"
  /\ \/ link' = "closed" /\ wire' = wire
     \/ link' = "broken" /\ \E n \in 0..Len(wire) : wire' = SubSeq(wire, 1, n)
  /\ UNCHANGED <<sent, outOpen, readerVars, workerVars, running, historyVars>>

OutCloses ==
  /\ outOpen /\ outOpen' = FALSE
  /\ UNCHANGED <<link, wire, sent, readerVars, workerVars, running, historyVars>>

-----------------------------------------------------------------------------
(* connect, run_forever, connect_and_run and the handshake                  *)
StartAs(next) ==
  /\ phase = "starting" /\ phase' = next
  /\ UNCHANGED <<netVars, session, base, waiting, resynced, beating, workerVars, running, historyVars>>

Configure == StartAs("backoff")

(* What no amount of retrying can fix is refused once, here.                *)
Misconfigured == StartAs("exited")

Dial ==
  /\ phase = "backoff" /\ session < MaxSessions
  /\ phase' = "handshake" /\ session' = session + 1 /\ base' = sent
  /\ link' = "up" /\ wire' = <<>> /\ outOpen' = TRUE
  /\ UNCHANGED <<sent, waiting, resynced, beating, workerVars, running, historyVars>>

HangUp(next) ==
  /\ phase' = next /\ beating' = FALSE
  /\ link' = "down" /\ wire' = <<>> /\ outOpen' = FALSE
  /\ UNCHANGED <<sent, session, base, resynced>>

StartReading(resync) ==
  /\ phase' = "reading" /\ wire' = Tail(wire)
  /\ resynced' = ~resync /\ gated' = resync /\ worker' = "idle" /\ beating' = TRUE
  /\ UNCHANGED <<session, base, waiting, link, sent, outOpen, queue, current>>

EndOfStream == wire = <<>> /\ link # "up"
Incoming(type) == wire # <<>> /\ Head(wire).type = type

(* negotiate: has the Control Plane chosen a version this build speaks?     *)
Acks == {"ack", "ack_resync", "ack_unknown"}
Negotiated(type) == type \in {"ack", "ack_resync"}

Handshake ==
  /\ phase = "handshake"
  /\ \/ \E type \in Acks :
          Incoming(type) /\ Negotiated(type) /\ StartReading(type = "ack_resync")
     \/ /\ Incoming("heartbeat") /\ wire' = Tail(wire)
        /\ UNCHANGED <<link, sent, outOpen, readerVars, workerVars>>
     \/ /\ \/ \E type \in Acks : Incoming(type) /\ ~Negotiated(type)
           \/ Incoming("request") \/ EndOfStream
        /\ HangUp("backoff") /\ UNCHANGED <<waiting, workerVars>>
     \/ Incoming("shutdown") /\ HangUp("stopped") /\ UNCHANGED <<waiting, workerVars>>
  /\ UNCHANGED <<running, historyVars>>

HandshakeTimesOut ==
  /\ phase = "handshake"
  /\ HangUp("backoff")
  /\ UNCHANGED <<waiting, workerVars, running, historyVars>>
-----------------------------------------------------------------------------
(* The read loop. `send` on a full queue waits, and nothing is read until   *)
(* it is done. break leads to the orderly end below.                        *)
BreakBeating(next) == phase' = next /\ UNCHANGED <<beating, session, base, resynced>>
Break(next) == phase' = next /\ beating' = FALSE /\ UNCHANGED <<session, base, resynced>>
Stay == UNCHANGED <<phase, session, base, beating>>

ReadRequest ==
  /\ phase = "reading" /\ waiting = NoRequest
  /\ Incoming("request") /\ Head(wire).id \notin EmptyRequest
  /\ waiting' = Head(wire).id /\ wire' = Tail(wire)
  /\ Stay /\ UNCHANGED <<resynced, link, sent, outOpen>>
  /\ UNCHANGED <<workerVars, running, historyVars>>

Hand(room, newQueue) ==
  /\ phase = "reading" /\ waiting # NoRequest /\ waiting' = NoRequest
  /\ \/ /\ worker # "ended" /\ room /\ queue' = newQueue
        /\ Stay /\ UNCHANGED resynced
     \/ worker = "ended" /\ Break("closing") /\ UNCHANGED queue
  /\ UNCHANGED <<netVars, worker, current, gated, running, historyVars>>

EnqueueUnbounded == Hand(TRUE, Append(queue, waiting))
EnqueueFirst == Hand(Len(queue) < Depth, <<waiting>> \o queue)
Enqueue == Hand(Len(queue) < Depth, Append(queue, waiting))

(* A request without an action is refused at once, past whatever is queued. *)
ReadEmptyRequest ==
  /\ phase = "reading" /\ waiting = NoRequest
  /\ Incoming("request") /\ Head(wire).id \in EmptyRequest
  /\ wire' = Tail(wire)
  /\ \/ /\ outOpen /\ answered' = Append(answered, Head(wire).id)
        /\ Stay /\ UNCHANGED resynced
     \/ ~outOpen /\ Break("closing") /\ UNCHANGED answered
  /\ UNCHANGED <<link, sent, outOpen, waiting, workerVars, running, late, started>>

ReadHeartbeat ==
  /\ phase = "reading" /\ waiting = NoRequest /\ Incoming("heartbeat")
  /\ wire' = Tail(wire) /\ resynced' = TRUE
  /\ Stay /\ UNCHANGED <<waiting, link, sent, outOpen>>
  /\ UNCHANGED <<workerVars, running, historyVars>>

ReadEnd ==
  /\ phase = "reading" /\ waiting = NoRequest
  /\ \/ Incoming("shutdown") /\ wire' = Tail(wire) /\ Break("stopping")
     \/ wire = <<>> /\ link = "closed" /\ Break("closing") /\ UNCHANGED wire
  /\ UNCHANGED <<link, sent, outOpen, waiting, workerVars, running, historyVars>>

(* A stream error or a second HelloAck aborts the worker where it stands;   *)
(* what it had handed to spawn_blocking goes on running.                    *)
StreamFails ==
  /\ phase = "reading" /\ waiting = NoRequest
  /\ (wire = <<>> /\ link = "broken") \/ \E type \in Acks : Incoming(type)
  /\ HangUp("backoff")

DropWorker ==
  /\ worker' = "none" /\ current' = NoRequest /\ queue' = <<>>
  /\ UNCHANGED <<waiting, gated, running, historyVars>>

AbortReaderOnly == StreamFails /\ UNCHANGED <<waiting, workerVars, running, historyVars>>
Abort == StreamFails /\ DropWorker

(* The orderly end: the gate and the queue are dropped, the worker awaited. *)
Closing == phase \in {"closing", "stopping", "terminated"}

LeaveSession ==
  /\ phase \in {"closing", "stopping"} /\ HangUp(IF phase = "stopping" THEN "stopped" ELSE "backoff")
  /\ DropWorker
JoinWorker == worker = "ended" /\ LeaveSession

(* The task ends by itself when nobody takes what it sends.                 *)
HeartbeatsEnd ==
  /\ beating /\ ~outOpen /\ beating' = FALSE
  /\ UNCHANGED <<netVars, phase, session, base, waiting, resynced, workerVars, running, historyVars>>

(* SIGTERM drops run_forever where it stands, and with it the inbound       *)
(* stream, the gate and the queue. Its worker and its heartbeats are        *)
(* detached: they go on, and send for as long as they are read, until the   *)
(* runtime goes. The process then waits for what executes and exits.        *)
Terminate ==
  /\ phase \in {"backoff", "handshake", "reading", "closing", "stopping"}
  /\ phase' = "terminated" /\ link' = "down" /\ wire' = <<>> /\ waiting' = NoRequest
  /\ UNCHANGED <<sent, outOpen, session, base, resynced, beating>>
  /\ UNCHANGED <<workerVars, running, historyVars>>

DropRuntime == phase = "terminated" /\ HangUp("stopped") /\ DropWorker

Exit ==
  /\ phase = "stopped" /\ running = {} /\ phase' = "exited"
  /\ UNCHANGED <<netVars, session, base, waiting, resynced, beating, workerVars, running, historyVars>>

-----------------------------------------------------------------------------
(* The worker: one request at a time, in queue order                        *)
Become(w, r) == worker' = w /\ current' = r

Begin(r) ==
  Become("running", r) /\ running' = running \cup {r} /\ started' = Append(started, r)

Execute(r) ==
  \/ r \in late /\ Become("idle", NoRequest) /\ UNCHANGED <<running, started>>
  \/ r \notin late /\ Begin(r)

TakeNext ==
  /\ worker = "idle" /\ queue # <<>> /\ queue' = Tail(queue)
  /\ \/ gated /\ Become("gate", Head(queue)) /\ UNCHANGED <<running, started>>
     \/ ~gated /\ Execute(Head(queue))
  /\ UNCHANGED <<netVars, readerVars, gated, late, answered>>

LeaveGate(open) ==
  /\ worker = "gate" /\ open /\ gated' = FALSE
  /\ UNCHANGED <<netVars, readerVars, queue, late, answered>>

PassGateDropped == LeaveGate(resynced \/ Closing) /\ Execute(current)
PassGateUnchecked == LeaveGate(resynced) /\ Begin(current)
PassGate == LeaveGate(resynced) /\ Execute(current)

(* The worker ends; dropping queue_rx drops what is still in the queue.     *)
WorkerEndsIf(over) ==
  /\ over /\ Become("ended", NoRequest) /\ queue' = <<>>
  /\ UNCHANGED <<netVars, readerVars, gated, running, historyVars>>

Drained == worker = "idle" /\ queue = <<>> /\ Closing
HeldForGood == worker = "gate" /\ ~resynced /\ Closing
NobodyReads == worker = "answering" /\ ~outOpen

WorkerWaitsForResync == WorkerEndsIf(Drained \/ NobodyReads)
WorkerEnds == WorkerEndsIf(Drained \/ HeldForGood \/ NobodyReads)

ExecutionEnds(r) ==
  /\ r \in running /\ running' = running \ {r}
  /\ UNCHANGED <<netVars, readerVars, workerVars, historyVars>>

FinishTo(w) ==
  /\ worker = "running" /\ current \notin running
  /\ Become(w, IF w = "idle" THEN NoRequest ELSE current)
  /\ UNCHANGED <<netVars, readerVars, queue, gated, running, historyVars>>

FinishAnyway == FinishTo("answering")
Finish == FinishTo(IF current \in late THEN "idle" ELSE "answering")

Answer ==
  /\ worker = "answering" /\ outOpen
  /\ answered' = Append(answered, current) /\ Become("idle", NoRequest)
  /\ UNCHANGED <<netVars, readerVars, queue, gated, running, late, started>>

(* A deadline runs from the moment the request was read off the wire.       *)
Received == ({waiting, current} \ {NoRequest}) \cup ToSet(queue)

DeadlinePasses ==
  /\ \E r \in (Received \cap Timed) \ late : late' = late \cup {r}
  /\ UNCHANGED <<netVars, readerVars, workerVars, running, started, answered>>

-----------------------------------------------------------------------------
Environment ==
  (\E type \in Signal : SendSignal(type)) \/ SendRequest \/ LinkEnds \/ OutCloses

Reader ==
  \/ Handshake
  \/ ReadRequest \/ Enqueue \/ ReadEmptyRequest \/ ReadHeartbeat \/ ReadEnd
  \/ Abort \/ JoinWorker \/ DropRuntime \/ Exit

Worker == TakeNext \/ PassGate \/ WorkerEnds \/ Finish \/ Answer

Next ==
  \/ Environment \/ Reader \/ Worker
  \/ Configure \/ Misconfigured \/ Dial \/ HandshakeTimesOut \/ HeartbeatsEnd \/ DeadlinePasses \/ Terminate
  \/ \E r \in Request : ExecutionEnds(r)

Spec == Init /\ [][Next]_vars

(* The runtime polls every task that can go on, a handshake is timed out,   *)
(* and every driver call returns but for commands, which run joins without  *)
(* a deadline (ShellRun.CallsReturn). Nothing is assumed of the Control     *)
(* Plane.                                                                   *)
FairSpec ==
  /\ Spec
  /\ WF_vars(Reader) /\ WF_vars(Worker) /\ WF_vars(HandshakeTimesOut)
  /\ \A r \in Request \ Command : WF_vars(ExecutionEnds(r))

-----------------------------------------------------------------------------
Increasing(seq) == \A i, j \in 1..Len(seq) : i < j => seq[i] < seq[j]

(* Refusals overtake, so refusals and answers are ordered each by themselves.*)
InTurn(seq) ==
  \A i, j \in 1..Len(seq) :
    i < j /\ (seq[i] \in EmptyRequest <=> seq[j] \in EmptyRequest) => seq[i] < seq[j]

(* Actions are executed in the order the Control Plane sent them, each at   *)
(* most once, over all the connections made and all the errors between them *)
(* - and answered in that order, each at most once, after it was executed;  *)
(* those without an action are refused in theirs.                           *)
ArrivalOrder ==
  /\ Increasing(started)
  /\ InTurn(answered)
  /\ ToSet(answered) \subseteq ToSet(started) \cup EmptyRequest

(* Nothing crosses a reconnect: what is executed or answered was sent on    *)
(* the present connection.                                                  *)
NothingCrossesReconnect ==
  [][ /\ started' # started => Last(started') > base
      /\ answered' # answered => Last(answered') > base ]_vars

(* After a restore nothing executes before the clock offset is known, even  *)
(* when the session ends while the worker is held at the gate.              *)
HeldUntilResync ==
  (phase = "reading" \/ Closing) /\ ~resynced =>
    worker \in {"none", "idle", "gate", "ended"}

(* Once a request is late it is not begun if it has not been, though it     *)
(* waits in the queue or at the gate by then; nor answered, unless its      *)
(* answer is on its way: no later step of any part revives it, since the    *)
(* Control Plane has said ACTION_TIMEOUT.                                   *)
Owed(r) == worker = "answering" /\ current = r
TooLateToRun(r) == r \in late /\ r \notin ToSet(started)
TooLateToAnswer(r) == r \in late /\ r \notin ToSet(answered) /\ ~Owed(r)

LateIsDropped ==
  [][\A r \in Timed :
       /\ TooLateToRun(r) => TooLateToRun(r)'
       /\ TooLateToAnswer(r) => TooLateToAnswer(r)']_vars

(* An execution is orphaned - left running with no worker to wait for it -  *)
(* by a stream error or a duplicate HelloAck only, or when the daemon is    *)
(* terminated, never by an orderly end; so as long as none happened one     *)
(* action executes at a time. Nor do heartbeats outlive their connection:   *)
(* those SIGTERM detaches are gone with the runtime.                        *)
Orphans == running \ (IF worker = "running" THEN {current} ELSE {})

OrphanedByAbortOnly ==
  [][ /\ Orphans' \subseteq Orphans \/ Abort \/ DropRuntime
      /\ beating' => phase' \in {"reading", "terminated"} ]_vars

(* The gate jam: the worker is held for a resync, the queue behind it is    *)
(* full, and the reader - which alone would read the resync heartbeat, or   *)
(* the end of the stream - waits for room in it.                            *)
GateJam == worker = "gate" /\ ~resynced /\ waiting # NoRequest /\ Len(queue) = Depth

(* The guest leaves a stream that has ended, and is free to dial again,     *)
(* unless it is caught in the gate jam or behind a command that never       *)
(* returns; and when it is told to stop, by the Control Plane or by         *)
(* SIGTERM, the process exits - unless it waits for such a command.         *)
Left == phase \in {"backoff", "terminated", "stopped", "exited"}
BehindCommand == worker = "running" /\ current \in running \cap Command

EndedStreamIsLeft ==
  /\ link \in {"closed", "broken"} ~> Left \/ GateJam \/ []BehindCommand
  /\ phase \in {"terminated", "stopped"} ~>
       phase = "exited" \/ []((running \cap Command) # {})

(* "A session that closed before the first Control Plane heartbeat would    *)
(* wait on the worker forever and never reconnect" is what dropping the     *)
(* gate is there to prevent: an ended stream is left, come what may.        *)
NeverStuckAtGate == link \in {"closed", "broken"} ~> Left
=============================================================================
