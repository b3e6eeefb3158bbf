-------------------------- MODULE GuestChannel_proofs --------------------------
(***************************************************************************)
(* Proofs about GuestChannel, for any number of requests and connections,  *)
(* any capacity of the queue and any of the requests without an action or  *)
(* with a deadline.                                                        *)
(*                                                                         *)
(* Order is proved of the sets of requests that are in each place - on the *)
(* wire, waiting for room, in the queue, with the worker, executed,        *)
(* answered - of which every member of one is before every member of the   *)
(* next.                                                                   *)
(***************************************************************************)
EXTENDS GuestChannel, TLAPS

Away == {"starting", "backoff", "handshake", "stopped", "exited"}
Busy == {"gate", "running", "answering"}

(* Between connections there is no worker; it has a request while it is     *)
(* busy; only a reader has a request that waits for room.                   *)
Placed ==
  /\ phase \in Away => worker = "none" /\ queue = <<>>
  /\ phase \in Away \ {"handshake"} => wire = <<>> /\ link = "down"
  /\ phase # "reading" => waiting = NoRequest
  /\ beating => phase \in {"reading", "terminated"}
  /\ worker \in Busy <=> current # NoRequest

(* Until the clock offset is known the worker has no way past the gate.     *)
GateShut ==
  (phase = "reading" \/ Closing) /\ ~resynced =>
    worker \in {"none", "ended"} \/ (gated /\ worker \in {"idle", "gate"})

(* The requests in each place, first to last in the line: on the wire,      *)
(* waiting, queued, with the worker, begun; told are those answered.        *)
Elements(seq) == {seq[i] : i \in 1..Len(seq)}
Requests(w) == {i \in 1..Len(w) : w[i].type = "request"}
Ids(w) == {w[i].id : i \in Requests(w)}

Begun == Elements(started)
Told == Elements(answered)
Queued == Elements(queue)
Current == {current} \ {NoRequest}
Wait == {waiting} \ {NoRequest}
Wired == Ids(wire)

Below(A, B) == \A a \in A, b \in B : a < b

(* Whom the worker is on has begun, unless it is held at the gate.          *)
Done == {r \in Begun : worker = "gate" \/ r # current}

(* The line.                                                                *)
InLine ==
  /\ Below(Begun, Queued \cup Wait \cup Wired)
  /\ Below(Done, Current) /\ Below(Told \ EmptyRequest, Current)
  /\ Below(Current, Queued \cup Wait \cup Wired)
  /\ Below(Queued, Wait \cup Wired)
  /\ Below(Wait, Wired)
  /\ Below(Told \cap EmptyRequest, Wired)

(* All who may still be executed were sent since the connection was made.   *)
OfThisConnection ==
  /\ \A r \in Wired \cup Wait \cup Queued \cup Current : base < r
  /\ \A r \in Begun \cup Told \cup Wired \cup Wait \cup Queued \cup Current : r <= sent
  /\ \A r \in Begun \cup Wait \cup Queued \cup Current : r \notin EmptyRequest
  /\ Told \subseteq Begun \cup EmptyRequest
  /\ worker \in {"running", "answering"} => current \in Begun

SortedWire(w) == \A i, j \in Requests(w) : i < j => w[i].id < w[j].id

Sorted ==
  /\ SortedWire(wire) /\ Increasing(queue)
  /\ Increasing(started) /\ InTurn(answered)

-----------------------------------------------------------------------------
(* Sequences: what appending, taking the head and cutting off a suffix do   *)
(* to the elements, to their order and to the requests among frames.        *)
LEMMA Appended ==
  ASSUME NEW S, NEW seq \in Seq(S), NEW e \in S
  PROVE  Elements(Append(seq, e)) = Elements(seq) \cup {e}
<1> DEFINE new == Append(seq, e)
<1>1. /\ Len(new) = Len(seq) + 1 /\ Len(seq) \in Nat
      /\ \A i \in 1..Len(seq) : new[i] = seq[i]
      /\ new[Len(seq) + 1] = e
  OBVIOUS
<1> HIDE DEF new
<1>2. 1..Len(new) = 1..Len(seq) \cup {Len(seq) + 1}
  BY <1>1
<1>3. QED
  BY <1>1, <1>2 DEF Elements, new

LEMMA Taken ==
  ASSUME NEW S, NEW seq \in Seq(S), seq # <<>>
  PROVE  Elements(seq) = {Head(seq)} \cup Elements(Tail(seq))
<1> DEFINE rest == Tail(seq)
<1>1. /\ Len(seq) = Len(rest) + 1 /\ Len(rest) \in Nat
      /\ \A i \in 1..Len(rest) : rest[i] = seq[i + 1]
      /\ seq[1] = Head(seq)
  OBVIOUS
<1> HIDE DEF rest
<1>2. \A i \in 1..Len(seq) : i = 1 \/ (i - 1 \in 1..Len(rest) /\ rest[i - 1] = seq[i])
  BY <1>1
<1>3. \A i \in 1..Len(rest) : i + 1 \in 1..Len(seq) /\ seq[i + 1] = rest[i]
  BY <1>1
<1>4. 1 \in 1..Len(seq)
  BY <1>1
<1>5. QED
  BY <1>1, <1>2, <1>3, <1>4 DEF Elements, rest

LEMMA AppendedOrder ==
  ASSUME NEW S \in SUBSET Nat, NEW seq \in Seq(S), NEW e \in S, Increasing(seq),
         \A r \in Elements(seq) : r < e
  PROVE  Increasing(Append(seq, e))
BY DEF Increasing, Elements

LEMMA TakenOrder ==
  ASSUME NEW S \in SUBSET Nat, NEW seq \in Seq(S), seq # <<>>, Increasing(seq)
  PROVE  Increasing(Tail(seq)) /\ \A r \in Elements(Tail(seq)) : Head(seq) < r
BY DEF Increasing, Elements

LEMMA AppendedTurn ==
  ASSUME NEW seq \in Seq(Request), NEW e \in Request, InTurn(seq),
         \A r \in Elements(seq) : (r \in EmptyRequest <=> e \in EmptyRequest) => r < e
  PROVE  InTurn(Append(seq, e))
BY DEF InTurn, Elements

LEMMA FrameAppended ==
  ASSUME NEW w \in Seq(Frame), NEW f \in Frame, SortedWire(w)
  PROVE  /\ f.type # "request" => Ids(Append(w, f)) = Ids(w) /\ SortedWire(Append(w, f))
         /\ f.type = "request" /\ (\A r \in Ids(w) : r < f.id) =>
              Ids(Append(w, f)) = Ids(w) \cup {f.id} /\ SortedWire(Append(w, f))
<1> DEFINE new == Append(w, f)
<1>1. /\ Len(new) = Len(w) + 1 /\ Len(w) \in Nat
      /\ \A i \in 1..Len(w) : new[i] = w[i]
      /\ new[Len(w) + 1] = f
  OBVIOUS
<1> HIDE DEF new
<1>2. 1..Len(new) = 1..Len(w) \cup {Len(w) + 1}
  BY <1>1
<1>3. Requests(new) = Requests(w) \cup {i \in {Len(w) + 1} : f.type = "request"}
  BY <1>1, <1>2 DEF Requests
<1>4. Requests(w) \subseteq 1..Len(w) /\ \A i \in Requests(w) : new[i] = w[i]
  BY <1>1 DEF Requests
<1>5. Ids(new) = Ids(w) \cup {r \in {f.id} : f.type = "request"}
  BY <1>1, <1>3, <1>4 DEF Ids
<1>6. CASE f.type # "request"
  BY <1>3, <1>4, <1>5, <1>6 DEF SortedWire, new
<1>7. ASSUME f.type = "request", \A r \in Ids(w) : r < f.id  PROVE SortedWire(new)
  <2>1. ASSUME NEW i \in Requests(new), NEW j \in Requests(new), i < j
        PROVE  new[i].id < new[j].id
    <3>1. i \in Requests(w)
      BY <1>1, <1>2, <1>3, <2>1 DEF Requests
    <3>2. CASE j \in Requests(w)
      BY <1>4, <2>1, <3>1, <3>2 DEF SortedWire
    <3>3. CASE j = Len(w) + 1
      BY <1>1, <1>4, <1>7, <3>1, <3>3 DEF Ids
    <3>4. QED
      BY <1>3, <3>2, <3>3
  <2>2. QED
    BY <2>1 DEF SortedWire
<1>8. QED
  BY <1>5, <1>6, <1>7 DEF new

LEMMA FrameTaken ==
  ASSUME NEW w \in Seq(Frame), w # <<>>, SortedWire(w)
  PROVE  /\ SortedWire(Tail(w)) /\ Ids(Tail(w)) \subseteq Ids(w)
         /\ Head(w).type = "request" =>
              /\ Ids(w) = {Head(w).id} \cup Ids(Tail(w))
              /\ \A r \in Ids(Tail(w)) : Head(w).id < r
<1> DEFINE rest == Tail(w)
<1>1. /\ Len(w) = Len(rest) + 1 /\ Len(rest) \in Nat
      /\ \A i \in 1..Len(rest) : rest[i] = w[i + 1]
      /\ w[1] = Head(w)
  OBVIOUS
<1> HIDE DEF rest
<1>2. \A i \in 1..Len(rest) : i + 1 \in 1..Len(w)
  BY <1>1
<1>3. \A i \in Requests(rest) : i \in Nat /\ i > 0 /\ i + 1 \in Requests(w) /\ rest[i] = w[i + 1]
  BY <1>1, <1>2 DEF Requests
<1>4. \A i \in Requests(w) : i = 1 \/ (i - 1 \in Requests(rest) /\ rest[i - 1] = w[i])
  <2>1. \A i \in 1..Len(w) : i = 1 \/ (i - 1 \in 1..Len(rest) /\ rest[i - 1] = w[i])
    BY <1>1
  <2>2. QED
    BY <2>1 DEF Requests
<1>5. SortedWire(rest)
  <2>1. ASSUME NEW i \in Requests(rest), NEW j \in Requests(rest), i < j
        PROVE  rest[i].id < rest[j].id
    <3>1. i + 1 \in Requests(w) /\ j + 1 \in Requests(w) /\ i + 1 < j + 1
      BY <1>3, <2>1
    <3>2. w[i + 1].id < w[j + 1].id
      BY <3>1 DEF SortedWire
    <3>3. QED
      BY <1>3, <3>2
  <2>2. QED
    BY <2>1 DEF SortedWire
<1>6. Ids(rest) \subseteq Ids(w)
  BY <1>3 DEF Ids
<1>7. ASSUME Head(w).type = "request"
      PROVE  Ids(w) = {Head(w).id} \cup Ids(rest) /\ \A r \in Ids(rest) : Head(w).id < r
  <2>1. 1 \in Requests(w)
    BY <1>1, <1>7 DEF Requests
  <2>2. Ids(w) \subseteq {Head(w).id} \cup Ids(rest)
    BY <1>1, <1>4 DEF Ids
  <2>3. Head(w).id \in Ids(w)
    BY <1>1, <2>1 DEF Ids
  <2>4. ASSUME NEW i \in Requests(rest)  PROVE Head(w).id < rest[i].id
    <3>1. i + 1 \in Requests(w) /\ 1 < i + 1
      BY <1>3
    <3>2. w[1].id < w[i + 1].id
      BY <2>1, <3>1 DEF SortedWire
    <3>3. QED
      BY <1>1, <1>3, <3>2
  <2>5. QED
    BY <1>6, <2>2, <2>3, <2>4 DEF Ids
<1>8. QED
  BY <1>5, <1>6, <1>7 DEF rest

LEMMA FramesCut ==
  ASSUME NEW w \in Seq(Frame), NEW n \in 0..Len(w), SortedWire(w)
  PROVE  /\ SubSeq(w, 1, n) \in Seq(Frame) /\ Len(SubSeq(w, 1, n)) = n
         /\ SortedWire(SubSeq(w, 1, n)) /\ Ids(SubSeq(w, 1, n)) \subseteq Ids(w)
<1> DEFINE cut == SubSeq(w, 1, n)
<1>1. /\ cut \in Seq(Frame) /\ Len(cut) = n /\ Len(w) \in Nat
      /\ \A i \in 1..n : cut[i] = w[i]
  OBVIOUS
<1> HIDE DEF cut
<1>2. \A i \in Requests(cut) : i \in Requests(w) /\ cut[i] = w[i]
  BY <1>1 DEF Requests
<1>3. SortedWire(cut) /\ Ids(cut) \subseteq Ids(w)
  BY <1>2 DEF SortedWire, Ids
<1>4. QED
  BY <1>1, <1>3 DEF cut

LEMMA NothingIn == Elements(<<>>) = {} /\ Ids(<<>>) = {} /\ SortedWire(<<>>) /\ Increasing(<<>>)
BY DEF Elements, Ids, Requests, SortedWire, Increasing

-----------------------------------------------------------------------------
(* Every state is well formed, and the worker is where its request says.    *)
PlacesTyped ==
  /\ phase \in Away \cup {"reading", "closing", "stopping", "terminated"}
  /\ session \in 0..MaxSessions /\ base \in 0..sent /\ sent \in Request \cup {0}
  /\ link \in {"down", "up", "closed", "broken"}
  /\ worker \in {"none", "idle", "ended"} \cup Busy
  /\ waiting \in Request \cup {NoRequest} /\ current \in Request \cup {NoRequest}
FlagsTyped == {outOpen, gated, resynced, beating} \subseteq BOOLEAN
WireTyped == wire \in Seq(Frame) /\ Len(wire) <= MaxWire
QueueTyped == queue \in Seq(Request) /\ Len(queue) <= Depth
SetsTyped == running \subseteq Request /\ late \subseteq Timed
HistoryTyped == started \in Seq(Request) /\ answered \in Seq(Request)
Parts == PlacesTyped /\ FlagsTyped /\ WireTyped /\ QueueTyped /\ SetsTyped /\ HistoryTyped

LEMMA TypeInParts == TypeOK <=> Parts
BY DEF TypeOK, Parts, PlacesTyped, FlagsTyped, WireTyped, QueueTyped, SetsTyped, HistoryTyped,
       Away, Busy

LEMMA HeadsTyped ==
  ASSUME Parts
  PROVE  /\ queue # <<>> => Head(queue) \in Request /\ Tail(queue) \in Seq(Request)
         /\ wire # <<>> =>
              /\ Tail(wire) \in Seq(Frame) /\ Len(Tail(wire)) <= MaxWire
              /\ Head(wire) \in Frame /\ Head(wire).id \in Request \cup {NoRequest}
<1>1. queue \in Seq(Request) /\ wire \in Seq(Frame) /\ Len(wire) <= MaxWire /\ MaxWire \in Nat
  BY BoundAssumption DEF Parts, QueueTyped, WireTyped
<1>2. queue # <<>> => Head(queue) \in Request /\ Tail(queue) \in Seq(Request)
  BY <1>1
<1>3. wire # <<>> => /\ Head(wire) \in Frame /\ Tail(wire) \in Seq(Frame)
                     /\ Len(Tail(wire)) <= MaxWire
  BY <1>1
<1>4. QED
  BY <1>2, <1>3 DEF Frame

LEMMA PlacedInductive ==
  ASSUME Parts, Placed, [Next]_vars
  PROVE  Placed'
<1> USE
    DEF netVars, readerVars, workerVars, historyVars, Placed, Parts, PlacesTyped, QueueTyped,
        Away, Busy, NoRequest, Request
<1>1. CASE SendRequest \/ LinkEnds \/ OutCloses
  BY <1>1 DEF SendRequest, LinkEnds, OutCloses
<1>2. CASE Configure \/ Misconfigured
  BY <1>2 DEF Configure, Misconfigured, StartAs
<1>3. CASE HeartbeatsEnd \/ Exit \/ DeadlinePasses
  BY <1>3 DEF HeartbeatsEnd, Exit, DeadlinePasses
<1>4. CASE \E r \in Request : ExecutionEnds(r)
  BY <1>4 DEF ExecutionEnds
<1>5. CASE \E type \in Signal : SendSignal(type)
  BY <1>5 DEF SendSignal
<1>6. CASE Dial
  BY <1>6 DEF Dial
<1>7. CASE Handshake
  BY <1>7 DEF Handshake, StartReading, HangUp, EndOfStream
<1>8. CASE HandshakeTimesOut
  BY <1>8 DEF HandshakeTimesOut, HangUp
<1>9. CASE ReadRequest
  BY <1>9 DEF ReadRequest, Incoming, Stay
<1>10. CASE Enqueue
  BY <1>10 DEF Enqueue, Hand, Stay, Break
<1>11. CASE ReadEmptyRequest
  BY <1>11 DEF ReadEmptyRequest, Incoming, Stay, Break
<1>12. CASE ReadHeartbeat \/ ReadEnd
  BY <1>12 DEF ReadHeartbeat, Incoming, Stay, ReadEnd, Break
<1>13. CASE Abort
  BY <1>13 DEF Abort, StreamFails, DropWorker, HangUp
<1>14. CASE JoinWorker \/ DropRuntime
  BY <1>14 DEF JoinWorker, LeaveSession, DropWorker, HangUp, DropRuntime
<1>15. CASE Terminate
  BY <1>15 DEF Terminate
<1>16. CASE TakeNext
  BY <1>16, HeadsTyped DEF TakeNext, Execute, Begin, Become
<1>17. CASE PassGate
  BY <1>17 DEF PassGate, LeaveGate, Execute, Begin, Become
<1>18. CASE WorkerEnds
  BY <1>18 DEF WorkerEnds, WorkerEndsIf, Become, Drained, HeldForGood, NobodyReads, Closing
<1>19. CASE Finish
  BY <1>19 DEF Finish, FinishTo, Become
<1>20. CASE Answer
  BY <1>20 DEF Answer, Become
<1>21. CASE UNCHANGED vars
  BY <1>21 DEF vars
<1>22. QED
  BY <1>1, <1>2, <1>3, <1>4, <1>5, <1>6, <1>7, <1>8, <1>9, <1>10, <1>11, <1>12, <1>13, <1>14,
     <1>15, <1>16, <1>17, <1>18, <1>19, <1>20, <1>21 DEF Next, Environment, Reader, Worker

LEMMA PlacesInductive ==
  ASSUME Parts, Placed, [Next]_vars
  PROVE  PlacesTyped'
<1> USE RequestAssumption, BoundAssumption
    DEF netVars, readerVars, workerVars, historyVars, Placed, Parts, PlacesTyped, Request,
        NoRequest, Away, Busy
<1>1. CASE SendRequest
  BY <1>1 DEF SendRequest
<1>2. CASE LinkEnds
  BY <1>2 DEF LinkEnds
<1>3. CASE Dial
  BY <1>3 DEF Dial
<1>4. CASE Handshake
  BY <1>4 DEF Handshake, StartReading, HangUp
<1>5. CASE HandshakeTimesOut
  BY <1>5 DEF HandshakeTimesOut, HangUp
<1>6. CASE ReadRequest
  BY <1>6, HeadsTyped DEF ReadRequest, Incoming, Stay
<1>7. CASE Enqueue
  BY <1>7 DEF Enqueue, Hand, Stay, Break
<1>8. CASE ReadEmptyRequest
  BY <1>8 DEF ReadEmptyRequest, Incoming, Stay, Break
<1>9. CASE ReadEnd
  BY <1>9 DEF ReadEnd, Incoming, Break
<1>10. CASE Abort
  BY <1>10 DEF Abort, StreamFails, DropWorker, HangUp
<1>11. CASE JoinWorker \/ DropRuntime
  BY <1>11 DEF JoinWorker, LeaveSession, DropWorker, HangUp, DropRuntime
<1>12. CASE Terminate
  BY <1>12 DEF Terminate
<1>13. CASE TakeNext
  BY <1>13, HeadsTyped DEF TakeNext, Execute, Begin, Become
<1>14. CASE PassGate
  BY <1>14 DEF PassGate, LeaveGate, Execute, Begin, Become
<1>15. CASE WorkerEnds
  BY <1>15 DEF WorkerEnds, WorkerEndsIf, Become
<1>16. CASE Finish
  BY <1>16 DEF Finish, FinishTo, Become
<1>17. CASE Answer
  BY <1>17 DEF Answer, Become
<1>18. CASE \/ OutCloses \/ Configure \/ Misconfigured \/ ReadHeartbeat
            \/ HeartbeatsEnd \/ Exit \/ DeadlinePasses \/ UNCHANGED vars
            \/ \E type \in Signal : SendSignal(type)
            \/ \E r \in Request : ExecutionEnds(r)
  BY <1>18 DEF SendSignal, OutCloses, Configure, Misconfigured, StartAs, ReadHeartbeat,
      Incoming, Stay, HeartbeatsEnd, Exit, DeadlinePasses, ExecutionEnds, vars
<1>19. QED
  BY <1>1, <1>2, <1>3, <1>4, <1>5, <1>6, <1>7, <1>8, <1>9, <1>10, <1>11, <1>12, <1>13, <1>14,
     <1>15, <1>16, <1>17, <1>18 DEF Next, Environment, Reader, Worker

LEMMA FlagsInductive ==
  ASSUME Parts, Placed, [Next]_vars
  PROVE  FlagsTyped'
<1> USE DEF netVars, readerVars, workerVars, historyVars, Parts, FlagsTyped
<1>1. CASE Configure \/ Misconfigured \/ Dial
  BY <1>1 DEF Configure, Misconfigured, StartAs, Dial
<1>2. CASE Handshake
  BY <1>2 DEF Handshake, StartReading, HangUp
<1>3. CASE ReadRequest \/ ReadEmptyRequest
  BY <1>3 DEF ReadRequest, Incoming, Stay, ReadEmptyRequest, Break
<1>4. CASE ReadHeartbeat \/ ReadEnd
  BY <1>4 DEF ReadHeartbeat, Incoming, Stay, ReadEnd, Break
<1>5. CASE Enqueue
  BY <1>5 DEF Enqueue, Hand, Stay, Break
<1>6. CASE Abort \/ JoinWorker \/ DropRuntime
  BY <1>6 DEF Abort, StreamFails, DropWorker, HangUp, JoinWorker, LeaveSession, DropRuntime
<1>7. CASE TakeNext \/ PassGate
  BY <1>7 DEF TakeNext, Execute, Begin, Become, PassGate, LeaveGate
<1>8. CASE WorkerEnds \/ Finish \/ Answer
  BY <1>8 DEF WorkerEnds, WorkerEndsIf, Become, Finish, FinishTo, Answer
<1>9. CASE \/ SendRequest \/ LinkEnds \/ OutCloses \/ HandshakeTimesOut
           \/ HeartbeatsEnd \/ Exit \/ DeadlinePasses \/ Terminate \/ UNCHANGED vars
           \/ \E type \in Signal : SendSignal(type)
           \/ \E r \in Request : ExecutionEnds(r)
  BY <1>9 DEF SendSignal, SendRequest, LinkEnds, OutCloses, HandshakeTimesOut, HangUp,
      HeartbeatsEnd, Exit, DeadlinePasses, ExecutionEnds, Terminate, vars
<1>10. QED
  BY <1>1, <1>2, <1>3, <1>4, <1>5, <1>6, <1>7, <1>8, <1>9 DEF Next, Environment, Reader, Worker

LEMMA WireInductive ==
  ASSUME Parts, Placed, [Next]_vars
  PROVE  WireTyped'
<1> USE BoundAssumption DEF netVars, readerVars, workerVars, historyVars, Parts, WireTyped
<1>1. <<>> \in Seq(Frame) /\ Len(<<>>) = 0 /\ 0 <= MaxWire
  OBVIOUS
<1>2. CASE \E type \in Signal : SendSignal(type)
  BY <1>2 DEF SendSignal, Signal, Frame
<1>3. CASE SendRequest
  BY <1>3 DEF SendRequest, PlacesTyped, Request, Frame
<1>4. CASE LinkEnds
  BY <1>4 DEF LinkEnds
<1>5. CASE Dial \/ HandshakeTimesOut
  BY <1>5, <1>1 DEF Dial, HandshakeTimesOut, HangUp
<1>6. CASE Handshake
  BY <1>6, <1>1, HeadsTyped DEF Handshake, StartReading, HangUp, Incoming
<1>7. CASE ReadRequest \/ ReadEmptyRequest
  BY <1>7, HeadsTyped DEF ReadRequest, Incoming, Stay, ReadEmptyRequest, Break
<1>8. CASE ReadHeartbeat \/ ReadEnd
  BY <1>8, HeadsTyped DEF ReadHeartbeat, Incoming, Stay, ReadEnd, Break
<1>9. CASE Abort
  BY <1>9, <1>1 DEF Abort, StreamFails, DropWorker, HangUp
<1>10. CASE JoinWorker \/ DropRuntime
  BY <1>10, <1>1 DEF JoinWorker, LeaveSession, DropWorker, HangUp, DropRuntime
<1>11. CASE Terminate
  BY <1>11, <1>1 DEF Terminate
<1>12. CASE \/ OutCloses \/ Configure \/ Misconfigured \/ Enqueue
            \/ HeartbeatsEnd \/ Exit \/ DeadlinePasses \/ TakeNext \/ PassGate \/ WorkerEnds
            \/ Finish \/ Answer \/ UNCHANGED vars
            \/ \E r \in Request : ExecutionEnds(r)
  BY <1>12 DEF OutCloses, Configure, Misconfigured, StartAs, Enqueue, Hand, Stay, Break,
      HeartbeatsEnd, Exit, DeadlinePasses, ExecutionEnds, TakeNext, Execute, Begin, Become, PassGate,
      LeaveGate, WorkerEnds, WorkerEndsIf, Finish, FinishTo, Answer, vars
<1>13. QED
  BY <1>2, <1>3, <1>4, <1>5, <1>6, <1>7, <1>8, <1>9, <1>10, <1>11, <1>12
     DEF Next, Environment, Reader, Worker

LEMMA QueueInductive ==
  ASSUME Parts, Placed, [Next]_vars
  PROVE  QueueTyped'
<1> USE BoundAssumption
    DEF netVars, readerVars, workerVars, historyVars, Parts, PlacesTyped, QueueTyped
<1>1. <<>> \in Seq(Request) /\ Len(<<>>) = 0 /\ 0 <= Depth
  OBVIOUS
<1>2. CASE Enqueue
  BY <1>2 DEF Enqueue, Hand, Stay, Break
<1>3. CASE TakeNext
  BY <1>3 DEF TakeNext, Execute, Begin, Become
<1>4. CASE Abort
  BY <1>4, <1>1 DEF Abort, StreamFails, DropWorker, HangUp
<1>5. CASE JoinWorker \/ DropRuntime
  BY <1>5, <1>1 DEF JoinWorker, LeaveSession, DropWorker, HangUp, DropRuntime
<1>6. CASE WorkerEnds
  BY <1>6, <1>1 DEF WorkerEnds, WorkerEndsIf, Become
<1>7. CASE Handshake
  BY <1>7 DEF Handshake, StartReading, HangUp
<1>8. CASE Terminate
  BY <1>8 DEF Terminate
<1>9. CASE ReadEnd \/ ReadEmptyRequest \/ ReadHeartbeat
  BY <1>9 DEF ReadEnd, Incoming, Break, ReadEmptyRequest, Stay, ReadHeartbeat
<1>10. CASE PassGate
  BY <1>10 DEF PassGate, LeaveGate, Execute, Begin, Become
<1>11. CASE \/ SendRequest \/ LinkEnds \/ OutCloses \/ Configure \/ Misconfigured \/ Dial
            \/ HandshakeTimesOut \/ ReadRequest \/ HeartbeatsEnd \/ Exit \/ DeadlinePasses
            \/ Finish \/ Answer \/ UNCHANGED vars
            \/ \E type \in Signal : SendSignal(type)
            \/ \E r \in Request : ExecutionEnds(r)
  BY <1>11 DEF SendSignal, SendRequest, LinkEnds, OutCloses, Configure, Misconfigured, StartAs,
      Dial, HandshakeTimesOut, HangUp, ReadRequest, Incoming, Stay, HeartbeatsEnd, Exit,
      DeadlinePasses, ExecutionEnds, Finish, FinishTo, Become, Answer, vars
<1>12. QED
  BY <1>2, <1>3, <1>4, <1>5, <1>6, <1>7, <1>8, <1>9, <1>10, <1>11
     DEF Next, Environment, Reader, Worker

LEMMA SetsInductive ==
  ASSUME Parts, Placed, [Next]_vars
  PROVE  SetsTyped'
<1> USE
    DEF netVars, readerVars, workerVars, historyVars, Parts, Placed, PlacesTyped, SetsTyped,
        Busy, NoRequest
<1>1. CASE TakeNext
  BY <1>1, HeadsTyped DEF TakeNext, Execute, Begin, Become
<1>2. CASE PassGate
  BY <1>2 DEF PassGate, LeaveGate, Execute, Begin, Become
<1>3. CASE \/ SendRequest \/ LinkEnds \/ OutCloses \/ Configure \/ Misconfigured \/ Dial
           \/ Handshake \/ HandshakeTimesOut \/ ReadRequest \/ Enqueue \/ ReadEmptyRequest
           \/ ReadHeartbeat \/ ReadEnd \/ Abort \/ JoinWorker \/ DropRuntime
           \/ HeartbeatsEnd \/ Exit \/ DeadlinePasses \/ Terminate \/ WorkerEnds \/ Finish
           \/ Answer \/ UNCHANGED vars
           \/ \E type \in Signal : SendSignal(type)
           \/ \E r \in Request : ExecutionEnds(r)
  BY <1>3 DEF SendSignal, SendRequest, LinkEnds, OutCloses, Configure, Misconfigured, StartAs,
      Dial, Handshake, StartReading, HangUp, HandshakeTimesOut, ReadRequest, Incoming, Stay,
      Enqueue, Hand, Break, ReadEmptyRequest, ReadHeartbeat, ReadEnd, Abort, StreamFails,
      DropWorker, JoinWorker, LeaveSession, DropRuntime, HeartbeatsEnd, Exit, DeadlinePasses,
      ExecutionEnds, Terminate, WorkerEnds, WorkerEndsIf, Become, Finish, FinishTo, Answer, vars
<1>4. QED
  BY <1>1, <1>2, <1>3 DEF Next, Environment, Reader, Worker

LEMMA HistoryInductive ==
  ASSUME Parts, Placed, [Next]_vars
  PROVE  HistoryTyped'
<1> USE
    DEF netVars, readerVars, workerVars, historyVars, Parts, Placed, PlacesTyped, HistoryTyped,
        Busy, NoRequest
<1>1. CASE ReadEmptyRequest
  <2>1. Head(wire).id \in Request
    BY <1>1, KindAssumption DEF ReadEmptyRequest
  <2>2. answered' \in {answered, Append(answered, Head(wire).id)}
    BY <1>1 DEF ReadEmptyRequest
  <2>3. QED
    BY <1>1, <2>1, <2>2 DEF ReadEmptyRequest
<1>2. CASE TakeNext
  BY <1>2, HeadsTyped DEF TakeNext, Execute, Begin, Become
<1>3. CASE PassGate
  BY <1>3 DEF PassGate, LeaveGate, Execute, Begin, Become
<1>4. CASE Answer
  BY <1>4 DEF Answer, Become
<1>5. CASE \/ SendRequest \/ LinkEnds \/ OutCloses \/ Configure \/ Misconfigured \/ Dial
           \/ Handshake \/ HandshakeTimesOut \/ ReadRequest \/ Enqueue \/ ReadHeartbeat
           \/ ReadEnd \/ Abort \/ JoinWorker \/ DropRuntime
           \/ HeartbeatsEnd \/ Exit \/ DeadlinePasses \/ Terminate \/ WorkerEnds \/ Finish
           \/ UNCHANGED vars
           \/ \E type \in Signal : SendSignal(type)
           \/ \E r \in Request : ExecutionEnds(r)
  BY <1>5 DEF SendSignal, SendRequest, LinkEnds, OutCloses, Configure, Misconfigured, StartAs,
      Dial, Handshake, StartReading, HangUp, HandshakeTimesOut, ReadRequest, Incoming, Stay,
      Enqueue, Hand, Break, ReadHeartbeat, ReadEnd, Abort, StreamFails, DropWorker, JoinWorker,
      LeaveSession, DropRuntime, HeartbeatsEnd, Exit, DeadlinePasses, ExecutionEnds, Terminate,
      WorkerEnds, WorkerEndsIf, Become, Finish, FinishTo, vars
<1>6. QED
  BY <1>1, <1>2, <1>3, <1>4, <1>5 DEF Next, Environment, Reader, Worker

LEMMA GateInductive ==
  ASSUME Parts, Placed, GateShut, [Next]_vars
  PROVE  GateShut'
<1> USE
    DEF netVars, readerVars, workerVars, historyVars, Parts, PlacesTyped, Placed, GateShut,
        Closing, Away, Busy
<1>1. CASE Configure \/ Misconfigured
  BY <1>1 DEF Configure, Misconfigured, StartAs
<1>2. CASE Dial
  BY <1>2 DEF Dial
<1>3. CASE Handshake
  BY <1>3 DEF Handshake, StartReading, HangUp
<1>4. CASE HandshakeTimesOut
  BY <1>4 DEF HandshakeTimesOut, HangUp
<1>5. CASE Enqueue
  BY <1>5 DEF Enqueue, Hand, Stay, Break
<1>6. CASE ReadEmptyRequest
  BY <1>6 DEF ReadEmptyRequest, Incoming, Stay, Break
<1>7. CASE ReadHeartbeat
  BY <1>7 DEF ReadHeartbeat, Incoming, Stay
<1>8. CASE ReadEnd
  BY <1>8 DEF ReadEnd, Incoming, Break
<1>9. CASE Abort
  BY <1>9 DEF Abort, StreamFails, DropWorker, HangUp
<1>10. CASE JoinWorker \/ DropRuntime
  BY <1>10 DEF JoinWorker, LeaveSession, DropWorker, HangUp, DropRuntime
<1>11. CASE Terminate
  BY <1>11 DEF Terminate
<1>12. CASE HeartbeatsEnd \/ Exit \/ DeadlinePasses
  BY <1>12 DEF HeartbeatsEnd, Exit, DeadlinePasses
<1>13. CASE TakeNext
  BY <1>13 DEF TakeNext, Execute, Begin, Become
<1>14. CASE PassGate
  BY <1>14 DEF PassGate, LeaveGate, Execute, Begin, Become
<1>15. CASE WorkerEnds
  BY <1>15 DEF WorkerEnds, WorkerEndsIf, Become
<1>16. CASE Finish \/ Answer
  BY <1>16 DEF Finish, FinishTo, Become, Answer
<1>17. CASE \/ SendRequest \/ LinkEnds \/ OutCloses \/ ReadRequest \/ UNCHANGED vars
            \/ \E type \in Signal : SendSignal(type)
            \/ \E r \in Request : ExecutionEnds(r)
  BY <1>17 DEF SendSignal, SendRequest, LinkEnds, OutCloses, ReadRequest, Incoming, Stay,
      ExecutionEnds, vars
<1>18. QED
  BY <1>1, <1>2, <1>3, <1>4, <1>5, <1>6, <1>7, <1>8, <1>9, <1>10, <1>11, <1>12, <1>13, <1>14,
     <1>15, <1>16, <1>17 DEF Next, Environment, Reader, Worker

-----------------------------------------------------------------------------
LEMMA TypeAtFirst == Init => Parts /\ Placed /\ GateShut
<1> SUFFICES ASSUME Init  PROVE Parts /\ Placed /\ GateShut
  OBVIOUS
<1> USE BoundAssumption DEF Init, NoRequest, Away, Busy
<1>1. PlacesTyped
  BY DEF PlacesTyped
<1>2. FlagsTyped
  BY DEF FlagsTyped
<1>3. WireTyped /\ QueueTyped /\ SetsTyped /\ HistoryTyped
  BY DEF WireTyped, QueueTyped, SetsTyped, HistoryTyped
<1>4. Placed /\ GateShut
  BY DEF Placed, GateShut, Closing
<1>5. QED
  BY <1>1, <1>2, <1>3, <1>4 DEF Parts

LEMMA TypeAndPlace == Spec => [](Parts /\ Placed /\ GateShut)
<1>1. Init => Parts /\ Placed /\ GateShut
  BY TypeAtFirst
<1>2. Parts /\ Placed /\ GateShut /\ [Next]_vars => (Parts /\ Placed /\ GateShut)'
  <2> SUFFICES ASSUME Parts, Placed, GateShut, [Next]_vars  PROVE (Parts /\ Placed /\ GateShut)'
    OBVIOUS
  <2>1. Parts'
    BY PlacesInductive, FlagsInductive, WireInductive, QueueInductive, SetsInductive,
       HistoryInductive DEF Parts
  <2>2. QED
    BY <2>1, PlacedInductive, GateInductive
<1>3. QED
  BY <1>1, <1>2, PTL DEF Spec

(* Every reachable state is well formed.                                    *)
THEOREM TypeCorrect == Spec => []TypeOK
<1>1. Parts /\ Placed /\ GateShut => TypeOK
  BY TypeInParts
<1>2. QED
  BY <1>1, TypeAndPlace, PTL

(* Whatever ends a session, and whenever: nothing executes while the clock  *)
(* offset is not known.                                                     *)
THEOREM HeldUntilResyncHolds == Spec => []HeldUntilResync
<1>1. Parts /\ Placed /\ GateShut => HeldUntilResync
  BY DEF GateShut, HeldUntilResync
<1>2. QED
  BY <1>1, TypeAndPlace, PTL

-----------------------------------------------------------------------------
(* Action properties that need no more than this.                           *)
LEMMA SetsOfElements ==
  ASSUME NEW S, NEW seq \in Seq(S)
  PROVE  ToSet(seq) = Elements(seq)
BY DEF ToSet, Elements

(* What the steps of the worker and the reader may add to the histories.    *)
LEMMA LateGainsNothing ==
  ASSUME Parts, Placed, [Next]_vars, NEW r \in Timed, r \in late
  PROVE  /\ r \in late'
         /\ r \notin Elements(started) => r \notin Elements(started')
         /\ r \notin Elements(answered) /\ ~Owed(r) =>
              r \notin Elements(answered') /\ ~Owed(r)'
<1> USE DEF netVars, readerVars, workerVars, historyVars, Owed
<1>0. /\ started \in Seq(Request) /\ answered \in Seq(Request)
      /\ r \in Request /\ r \notin EmptyRequest /\ r # NoRequest
  BY KindAssumption DEF Parts, HistoryTyped, Request, NoRequest
<1>1. ASSUME NEW e \in Request, Execute(e), UNCHANGED <<late, answered>>
      PROVE  /\ r \in late' /\ (r \notin Elements(started) => r \notin Elements(started'))
             /\ Elements(answered') = Elements(answered) /\ ~Owed(r)'
  <2>1. CASE e \in late /\ Become("idle", NoRequest) /\ UNCHANGED <<running, started>>
    BY <1>1, <2>1 DEF Become
  <2>2. CASE e \notin late /\ Begin(e)
    <3>1. Elements(started') = Elements(started) \cup {e} /\ e # r
      BY <1>0, <2>2, Appended DEF Begin
    <3>2. QED
      BY <1>1, <2>2, <3>1 DEF Begin, Become
  <2>3. QED
    BY <1>1, <2>1, <2>2 DEF Execute
<1>2. CASE TakeNext
  <2>1. CASE gated
    BY <1>2, <2>1, HeadsTyped DEF TakeNext, Become, Execute, Begin
  <2>2. CASE ~gated
    BY <1>1, <1>2, <2>2, HeadsTyped DEF TakeNext
  <2>3. QED
    BY <2>1, <2>2
<1>3. CASE PassGate
  <2>1. current \in Request
    BY <1>3 DEF PassGate, LeaveGate, Placed, Busy, Parts, PlacesTyped
  <2>2. QED
    BY <1>1, <1>3, <2>1 DEF PassGate, LeaveGate
<1>4. CASE Finish
  BY <1>4 DEF Finish, FinishTo, Become
<1>5. CASE Answer
  <2>1. current \in Request
    BY <1>5 DEF Answer, Placed, Busy, Parts, PlacesTyped
  <2>2. Elements(answered') = Elements(answered) \cup {current}
    BY <1>0, <1>5, <2>1, Appended DEF Answer
  <2>3. QED
    BY <1>5, <2>2 DEF Answer, Become
<1>6. CASE ReadEmptyRequest
  <2>1. CASE UNCHANGED answered
    BY <1>6, <2>1 DEF ReadEmptyRequest, Incoming
  <2>2. CASE answered' = Append(answered, Head(wire).id)
    <3>1. Head(wire).id \in EmptyRequest
      BY <1>6 DEF ReadEmptyRequest
    <3>2. Elements(answered') = Elements(answered) \cup {Head(wire).id}
      BY <1>0, <2>2, <3>1, KindAssumption, Appended
    <3>3. QED
      BY <1>0, <1>6, <3>1, <3>2 DEF ReadEmptyRequest
  <2>3. QED
    BY <1>6, <2>1, <2>2 DEF ReadEmptyRequest
<1>7. CASE WorkerEnds
  BY <1>7 DEF WorkerEnds, WorkerEndsIf, Become
<1>8. CASE Abort \/ JoinWorker \/ DropRuntime
  BY <1>8 DEF Abort, StreamFails, DropWorker, HangUp, JoinWorker, LeaveSession, DropRuntime
<1>9. CASE Handshake
  BY <1>9 DEF Handshake, StartReading, HangUp
<1>10. CASE DeadlinePasses
  BY <1>10 DEF DeadlinePasses
<1>11. CASE \/ SendRequest \/ LinkEnds \/ OutCloses \/ Configure \/ Misconfigured \/ Dial
            \/ HandshakeTimesOut \/ ReadRequest \/ Enqueue \/ ReadHeartbeat
            \/ ReadEnd \/ HeartbeatsEnd \/ Exit \/ Terminate \/ UNCHANGED vars
            \/ (\E type \in Signal : SendSignal(type))
            \/ (\E e \in Request : ExecutionEnds(e))
  BY <1>11 DEF SendSignal, SendRequest, LinkEnds, OutCloses, Configure, Misconfigured, StartAs,
      Dial, HandshakeTimesOut, HangUp, ReadRequest, Incoming, Stay, Enqueue, Hand, Break,
      ReadHeartbeat, ReadEnd, HeartbeatsEnd, Exit, ExecutionEnds, Terminate, vars
<1>12. QED
  BY <1>2, <1>3, <1>4, <1>5, <1>6, <1>7, <1>8, <1>9, <1>10, <1>11
     DEF Next, Environment, Reader, Worker

(* What is late before it runs never runs, and what is late before its      *)
(* answer is on its way is never answered: over queue, gate and reconnects. *)
THEOREM LateIsDroppedHolds == Spec => LateIsDropped
<1>1. Parts /\ Placed /\ GateShut /\ (Parts /\ Placed /\ GateShut)' /\ [Next]_vars =>
        [\A r \in Timed : /\ TooLateToRun(r) => TooLateToRun(r)'
                          /\ TooLateToAnswer(r) => TooLateToAnswer(r)']_vars
  <2> SUFFICES ASSUME Parts, Placed, Parts', [Next]_vars, NEW r \in Timed
               PROVE  /\ TooLateToRun(r) => TooLateToRun(r)'
                      /\ TooLateToAnswer(r) => TooLateToAnswer(r)'
    OBVIOUS
  <2>1. /\ ToSet(started) = Elements(started) /\ ToSet(answered) = Elements(answered)
        /\ ToSet(started') = Elements(started') /\ ToSet(answered') = Elements(answered')
    BY SetsOfElements DEF Parts, HistoryTyped
  <2>2. QED
    BY <2>1, LateGainsNothing DEF TooLateToRun, TooLateToAnswer
<1>2. QED
  BY <1>1, TypeAndPlace, PTL DEF Spec, LateIsDropped

LEMMA StepsOrphan ==
  ASSUME Parts, Placed, [Next]_vars
  PROVE  /\ Orphans' \subseteq Orphans \/ Abort \/ DropRuntime
         /\ beating' => phase' \in {"reading", "terminated"}
<1> USE
    DEF netVars, readerVars, workerVars, historyVars, Orphans, Placed, Parts, PlacesTyped, Away,
        Busy, NoRequest
<1>1. CASE Handshake
  BY <1>1 DEF Handshake, StartReading, HangUp
<1>2. CASE TakeNext
  BY <1>2 DEF TakeNext, Execute, Begin, Become
<1>3. CASE PassGate
  BY <1>3 DEF PassGate, LeaveGate, Execute, Begin, Become
<1>4. CASE Finish
  BY <1>4 DEF Finish, FinishTo, Become
<1>5. CASE Abort
  BY <1>5 DEF Abort, StreamFails, DropWorker, HangUp
<1>6. CASE DropRuntime
  BY <1>6 DEF DropRuntime, DropWorker, HangUp
<1>7. CASE WorkerEnds
  BY <1>7 DEF WorkerEnds, WorkerEndsIf, Become, Drained, HeldForGood, NobodyReads
<1>8. CASE Answer
  BY <1>8 DEF Answer, Become
<1>9. CASE JoinWorker
  BY <1>9 DEF JoinWorker, LeaveSession, DropWorker, HangUp
<1>10. CASE Configure \/ Misconfigured
  BY <1>10 DEF Configure, Misconfigured, StartAs
<1>11. CASE HeartbeatsEnd \/ Exit \/ DeadlinePasses
  BY <1>11 DEF HeartbeatsEnd, Exit, DeadlinePasses
<1>12. CASE \E r \in Request : ExecutionEnds(r)
  BY <1>12 DEF ExecutionEnds
<1>13. CASE \E type \in Signal : SendSignal(type)
  BY <1>13 DEF SendSignal
<1>14. CASE \/ SendRequest \/ LinkEnds \/ OutCloses \/ Dial \/ HandshakeTimesOut \/ ReadRequest
            \/ Enqueue \/ ReadEmptyRequest \/ ReadHeartbeat \/ ReadEnd \/ Terminate
            \/ UNCHANGED vars
  BY <1>14 DEF SendRequest, LinkEnds, OutCloses, Dial, HandshakeTimesOut, HangUp, ReadRequest,
      Incoming, Stay, Enqueue, Hand, Break, ReadEmptyRequest, ReadHeartbeat, ReadEnd, Terminate,
      vars
<1>15. QED
  BY <1>1, <1>2, <1>3, <1>4, <1>5, <1>6, <1>7, <1>8, <1>9, <1>10, <1>11, <1>12, <1>13, <1>14
     DEF Next, Environment, Reader, Worker

(* An action is left running alone by an abort or the end of the process    *)
(* only; no heartbeats outlive their connection but those SIGTERM detaches, *)
(* and these not the runtime.                                               *)
THEOREM OrphanedByAbortOnlyHolds == Spec => OrphanedByAbortOnly
<1>1. Parts /\ Placed /\ GateShut /\ [Next]_vars =>
        [ /\ Orphans' \subseteq Orphans \/ Abort \/ DropRuntime
          /\ beating' => phase' \in {"reading", "terminated"} ]_vars
  BY StepsOrphan
<1>2. QED
  BY <1>1, TypeAndPlace, PTL DEF Spec, OrphanedByAbortOnly

-----------------------------------------------------------------------------
(* The order of arrival. Most steps take requests out of the line and put   *)
(* none in.                                                                 *)
Line == Parts /\ Placed /\ InLine /\ OfThisConnection /\ Sorted

Loses ==
  /\ Wired' \subseteq Wired /\ Wait' \subseteq Wait /\ Queued' \subseteq Queued
  /\ Current' \subseteq Current
  /\ Current' # {} => (worker' = "gate" <=> worker = "gate")
  /\ Begun' = Begun /\ Told' = Told /\ base' = base /\ sent' = sent

LEMMA LosingKeepsTheLine ==
  ASSUME Line, Placed', Loses
  PROVE  InLine' /\ OfThisConnection'
<1> USE DEF Line, Loses
<1>1. current' = NoRequest \/ (current' = current /\ Current' = Current /\ Current # {})
  BY DEF Current
<1>2. Current' # {} => Done' \subseteq Done
  BY <1>1 DEF Done, Current
<1>3. InLine'
  BY <1>2 DEF InLine, Below
<1>4. worker' \in {"running", "answering"} => current' \in Begun'
  BY <1>1 DEF Placed, Busy, Current, OfThisConnection, Parts, PlacesTyped
<1>5. OfThisConnection'
  BY <1>4 DEF OfThisConnection
<1>6. QED
  BY <1>3, <1>5

LEMMA SameSequence ==
  /\ wire' = wire => Wired' = Wired /\ (SortedWire(wire) => SortedWire(wire'))
  /\ queue' = queue => Queued' = Queued /\ (Increasing(queue) => Increasing(queue'))
  /\ started' = started => Begun' = Begun /\ (Increasing(started) => Increasing(started'))
  /\ answered' = answered => Told' = Told /\ (InTurn(answered) => InTurn(answered'))
  /\ waiting' = waiting => Wait' = Wait
  /\ current' = current => Current' = Current
BY DEF Wired, Queued, Begun, Told, Wait, Current

LEMMA EmptySequence ==
  /\ wire' = <<>> => Wired' = {} /\ SortedWire(wire')
  /\ queue' = <<>> => Queued' = {} /\ Increasing(queue')
  /\ waiting' = NoRequest => Wait' = {}
  /\ current' = NoRequest => Current' = {}
BY NothingIn DEF Wired, Queued, Wait, Current

LEMMA WireTaken ==
  ASSUME Line, wire # <<>>, wire' = Tail(wire)
  PROVE  /\ SortedWire(wire') /\ Wired' \subseteq Wired
         /\ Head(wire).type = "request" =>
              Wired = {Head(wire).id} \cup Wired' /\ \A r \in Wired' : Head(wire).id < r
<1>1. wire \in Seq(Frame) /\ SortedWire(wire)
  BY DEF Line, Parts, WireTyped, Sorted
<1>2. QED
  BY <1>1, FrameTaken DEF Wired

LEMMA QueueTaken ==
  ASSUME Line, queue # <<>>, queue' = Tail(queue)
  PROVE  /\ Increasing(queue') /\ Queued = {Head(queue)} \cup Queued'
         /\ \A r \in Queued' : Head(queue) < r
<1>1. queue \in Seq(Request) /\ Increasing(queue) /\ Request \in SUBSET Nat
  BY DEF Line, Parts, QueueTyped, Sorted, Request
<1>2. QED
  BY <1>1, Taken, TakenOrder DEF Queued

LosingStep ==
  \/ Handshake \/ HandshakeTimesOut \/ ReadHeartbeat \/ ReadEnd \/ Abort \/ JoinWorker
  \/ DropRuntime \/ Terminate \/ LinkEnds \/ OutCloses \/ Configure \/ Misconfigured
  \/ HeartbeatsEnd \/ Exit \/ DeadlinePasses \/ WorkerEnds \/ Finish \/ UNCHANGED vars
  \/ (\E type \in Signal : SendSignal(type)) \/ (\E r \in Request : ExecutionEnds(r))

LEMMA LosingSteps ==
  ASSUME Line, LosingStep
  PROVE  Loses /\ Sorted' /\ UNCHANGED <<started, answered>>
<1> USE SameSequence, EmptySequence
    DEF Loses, Line, Sorted, netVars, readerVars, workerVars, historyVars
<1>1. CASE \E type \in Signal : SendSignal(type)
  <2>1. PICK type \in Signal : SendSignal(type)
    BY <1>1
  <2>2. /\ [type |-> type, id |-> NoRequest] \in Frame /\ type # "request"
        /\ wire \in Seq(Frame)
    BY DEF Signal, Frame, Parts, WireTyped
  <2>3. Wired' = Wired /\ SortedWire(wire')
    BY <2>1, <2>2, FrameAppended DEF SendSignal, Wired
  <2>4. QED
    BY <2>1, <2>3 DEF SendSignal
<1>2. CASE LinkEnds
  <2>1. wire \in Seq(Frame)
    BY DEF Parts, WireTyped
  <2>2. Wired' \subseteq Wired /\ SortedWire(wire')
    BY <1>2, <2>1, FramesCut DEF LinkEnds, Wired
  <2>3. QED
    BY <1>2, <2>2 DEF LinkEnds
<1>3. CASE Handshake
  <2>1. wire' = <<>> \/ (wire # <<>> /\ wire' = Tail(wire))
    BY <1>3 DEF Handshake, StartReading, HangUp, Incoming
  <2>2. Wired' \subseteq Wired /\ SortedWire(wire')
    BY <2>1, WireTaken
  <2>3. worker' # "gate" /\ worker = "none" /\ UNCHANGED <<queue, current, waiting>>
    BY <1>3 DEF Handshake, StartReading, HangUp, Placed, Away
  <2>4. UNCHANGED <<base, sent, started, answered>>
    BY <1>3 DEF Handshake, StartReading, HangUp
  <2>5. QED
    BY <2>2, <2>3, <2>4
<1>4. CASE ReadHeartbeat \/ ReadEnd
  <2>1. wire' = wire \/ (wire # <<>> /\ wire' = Tail(wire))
    BY <1>4 DEF ReadHeartbeat, ReadEnd, Incoming
  <2>2. Wired' \subseteq Wired /\ SortedWire(wire')
    BY <2>1, WireTaken
  <2>3. QED
    BY <1>4, <2>2 DEF ReadHeartbeat, ReadEnd, Stay, Break
<1>5. CASE HandshakeTimesOut \/ Terminate
  BY <1>5 DEF HandshakeTimesOut, Terminate, HangUp
<1>6. CASE Abort \/ JoinWorker \/ DropRuntime
  BY <1>6 DEF Abort, StreamFails, JoinWorker, LeaveSession, DropRuntime, DropWorker, HangUp
<1>7. CASE OutCloses \/ Configure \/ Misconfigured \/ HeartbeatsEnd \/ Exit \/ DeadlinePasses
  BY <1>7 DEF OutCloses, Configure, Misconfigured, StartAs, HeartbeatsEnd, Exit, DeadlinePasses
<1>8. CASE WorkerEnds \/ Finish
  BY <1>8 DEF WorkerEnds, WorkerEndsIf, Finish, FinishTo, Become
<1>9. CASE UNCHANGED vars \/ \E r \in Request : ExecutionEnds(r)
  BY <1>9 DEF ExecutionEnds, vars
<1>10. QED
  BY <1>1, <1>2, <1>3, <1>4, <1>5, <1>6, <1>7, <1>8, <1>9 DEF LosingStep

-----------------------------------------------------------------------------
(* The steps that put a request at a further place in the line              *)
LEMMA PlacesAreNumbers ==
  ASSUME Parts
  PROVE  /\ Wired \subseteq Nat /\ Queued \subseteq Request /\ Wait \subseteq Request
         /\ Current \subseteq Request /\ Begun \subseteq Request /\ Told \subseteq Request
         /\ Request \subseteq Nat /\ sent \in Nat /\ base \in Nat /\ base <= sent
<1>1. Wired \subseteq Request \cup {NoRequest}
  <2>1. \A i \in 1..Len(wire) : wire[i] \in Frame
    BY DEF Parts, WireTyped
  <2>2. \A fr \in Frame : fr.id \in Request \cup {NoRequest}
    BY DEF Frame
  <2>3. QED
    BY <2>1, <2>2 DEF Wired, Ids, Requests
<1>2. Queued \subseteq Request /\ Begun \subseteq Request /\ Told \subseteq Request
  BY DEF Parts, QueueTyped, HistoryTyped, Queued, Begun, Told, Elements
<1>3. /\ Wait \subseteq Request /\ Current \subseteq Request /\ sent \in Request \cup {0}
      /\ base \in 0..sent
  BY DEF Parts, PlacesTyped, Wait, Current
<1>4. QED
  BY <1>1, <1>2, <1>3 DEF Request, NoRequest

LEMMA DialKeepsTheLine ==
  ASSUME Line, Dial
  PROVE  InLine' /\ OfThisConnection' /\ Sorted'
<1> USE SameSequence, EmptySequence
    DEF Line, netVars, readerVars, workerVars, historyVars
<1>1. Wired' = {} /\ UNCHANGED <<sent, worker, waiting, queue, current, started, answered>>
  BY DEF Dial
<1>2. queue = <<>> /\ waiting = NoRequest /\ current = NoRequest /\ worker = "none" /\ base' = sent
  BY DEF Dial, Placed, Away, Busy
<1>3. Wired' = {} /\ Queued' = {} /\ Wait' = {} /\ Current' = {} /\ Begun' = Begun /\ Told' = Told
  BY <1>1, <1>2
<1>4. InLine'
  BY <1>3 DEF InLine, Below
<1>5. OfThisConnection'
  BY <1>1, <1>2, <1>3 DEF OfThisConnection
<1>6. Sorted'
  BY <1>1 DEF Sorted, Dial
<1>7. QED
  BY <1>4, <1>5, <1>6

LEMMA SendRequestKeepsTheLine ==
  ASSUME Line, SendRequest
  PROVE  InLine' /\ OfThisConnection' /\ Sorted'
<1> USE SameSequence DEF Line, netVars, readerVars, workerVars, historyVars
<1> DEFINE r == sent + 1
<1>1. /\ [type |-> "request", id |-> r] \in Frame /\ wire \in Seq(Frame)
      /\ sent \in Nat /\ base \in Nat /\ base <= sent /\ r \in Nat /\ sent < r
  BY DEF SendRequest, Frame, Parts, WireTyped, PlacesTyped, Request
<1>2. \A q \in Wired \cup Begun \cup Told \cup Queued \cup Wait \cup Current : q \in Nat /\ q < r
  BY <1>1, PlacesAreNumbers DEF OfThisConnection
<1>3. Wired' = Wired \cup {r} /\ SortedWire(wire')
  BY <1>1, <1>2, FrameAppended DEF SendRequest, Wired, Sorted
<1>4. /\ Queued' = Queued /\ Wait' = Wait /\ Current' = Current /\ Begun' = Begun /\ Told' = Told
      /\ Done' = Done /\ sent' = r /\ base' = base /\ worker' = worker /\ current' = current
  BY DEF SendRequest, Done
<1>5. InLine'
  BY <1>2, <1>3, <1>4 DEF InLine, Below, Done
<1>6. OfThisConnection'
  <2>1. r \notin Begun /\ r \notin Told /\ base < r
    BY <1>1, <1>2
  <2>2. QED
    BY <1>1, <1>2, <1>3, <1>4, <2>1 DEF OfThisConnection
<1>7. Sorted'
  BY <1>3 DEF SendRequest, Sorted
<1>8. QED
  BY <1>5, <1>6, <1>7

LEMMA ReadRequestKeepsTheLine ==
  ASSUME Line, ReadRequest
  PROVE  InLine' /\ OfThisConnection' /\ Sorted'
<1> USE SameSequence DEF Line, netVars, readerVars, workerVars, historyVars
<1> DEFINE r == Head(wire).id
<1>1. /\ SortedWire(wire') /\ Wired = {r} \cup Wired' /\ \A q \in Wired' : r < q
      /\ Wait' \subseteq {r} /\ Wait = {} /\ r \notin EmptyRequest
  BY WireTaken DEF ReadRequest, Incoming, Wait
<1> HIDE DEF r
<1>2. /\ Queued' = Queued /\ Current' = Current /\ Begun' = Begun /\ Told' = Told
      /\ UNCHANGED <<sent, base, worker, current, queue, started, answered>>
  BY DEF ReadRequest, Stay
<1>3. Done' = Done
  BY <1>2 DEF Done
<1>4. InLine'
  BY <1>1, <1>2, <1>3 DEF InLine, Below
<1>5. OfThisConnection'
  BY <1>1, <1>2 DEF OfThisConnection
<1>6. Sorted'
  BY <1>1, <1>2 DEF Sorted
<1>7. QED
  BY <1>4, <1>5, <1>6

LEMMA EnqueueKeepsTheLine ==
  ASSUME Line, Enqueue
  PROVE  InLine' /\ OfThisConnection' /\ Sorted'
<1> USE SameSequence DEF Line, netVars, readerVars, workerVars, historyVars
<1>1. /\ queue \in Seq(Request) /\ waiting \in Request /\ Request \in SUBSET Nat
      /\ Wait = {waiting}
  BY DEF Parts, QueueTyped, PlacesTyped, Enqueue, Hand, Wait, Request
<1>2. /\ Current' = Current /\ Begun' = Begun /\ Told' = Told /\ Wired' = Wired /\ Wait' = {}
      /\ UNCHANGED <<sent, base, worker, current, wire, started, answered>>
  BY EmptySequence DEF Enqueue, Hand, Stay, Break
<1>3. Queued' \subseteq Queued \cup {waiting} /\ Increasing(queue')
  <2>1. CASE queue' = queue
    BY <2>1 DEF Sorted
  <2>2. CASE queue' = Append(queue, waiting)
    <3>1. \A q \in Elements(queue) : q < waiting
      BY <1>1 DEF InLine, Below, Queued
    <3>2. QED
      BY <1>1, <2>2, <3>1, Appended, AppendedOrder DEF Queued, Sorted
  <2>3. QED
    BY <2>1, <2>2 DEF Enqueue, Hand
<1>4. Done' = Done
  BY <1>2 DEF Done
<1>5. InLine'
  BY <1>1, <1>2, <1>3, <1>4 DEF InLine, Below
<1>6. OfThisConnection'
  BY <1>1, <1>2, <1>3 DEF OfThisConnection
<1>7. Sorted'
  BY <1>2, <1>3 DEF Sorted
<1>8. QED
  BY <1>5, <1>6, <1>7

LEMMA ReadEmptyRequestKeepsTheLine ==
  ASSUME Line, ReadEmptyRequest
  PROVE  InLine' /\ OfThisConnection' /\ Sorted'
<1> USE SameSequence DEF Line, netVars, readerVars, workerVars, historyVars
<1> DEFINE r == Head(wire).id
<1>1. /\ SortedWire(wire') /\ Wired = {r} \cup Wired' /\ \A q \in Wired' : r < q
      /\ r \in EmptyRequest /\ r \in Request
  BY WireTaken, KindAssumption DEF ReadEmptyRequest, Incoming
<1>2. answered' = answered \/ answered' = Append(answered, r)
  BY DEF ReadEmptyRequest
<1> HIDE DEF r
<1>3. /\ Queued' = Queued /\ Current' = Current /\ Begun' = Begun /\ Wait' = Wait
      /\ UNCHANGED <<sent, base, worker, current, queue, started>>
  BY DEF ReadEmptyRequest, Stay, Break
<1>4. Told' \subseteq Told \cup {r} /\ InTurn(answered')
  <2>1. answered \in Seq(Request) /\ \A q \in Elements(answered) : q \in EmptyRequest => q < r
    BY <1>1 DEF Parts, HistoryTyped, InLine, Below, Told
  <2>2. CASE answered' = Append(answered, r)
    BY <1>1, <2>1, <2>2, Appended, AppendedTurn DEF Told, Sorted
  <2>3. QED
    BY <1>2, <2>2 DEF Sorted
<1>5. Done' = Done
  BY <1>3 DEF Done
<1>6. InLine'
  BY <1>1, <1>3, <1>4, <1>5 DEF InLine, Below
<1>7. OfThisConnection'
  BY <1>1, <1>3, <1>4 DEF OfThisConnection
<1>8. Sorted'
  BY <1>1, <1>3, <1>4 DEF Sorted
<1>9. QED
  BY <1>6, <1>7, <1>8

(* A request reaches the worker: it is held at the gate, dropped as late or *)
(* begun. Either way everything begun before it came before it.             *)
LEMMA ReachingWorkerKeepsTheLine ==
  ASSUME Line, NEW r \in Request,
         \A q \in Begun : q < r,
         \A q \in Queued' \cup Wait' \cup Wired' : r < q,
         r \notin EmptyRequest, base < r, r <= sent,
         Queued' \subseteq Queued, Increasing(queue'),
         UNCHANGED <<wire, waiting, base, sent, answered>>,
         \/ worker' = "gate" /\ current' = r /\ started' = started
         \/ worker' = "idle" /\ current' = NoRequest /\ started' = started
         \/ worker' = "running" /\ current' = r /\ started' = Append(started, r)
  PROVE  InLine' /\ OfThisConnection' /\ Sorted'
<1> USE SameSequence DEF Line
<1>1. /\ started \in Seq(Request) /\ Request \in SUBSET Nat /\ Begun \subseteq Request
      /\ Told \subseteq Begun \cup EmptyRequest
  BY PlacesAreNumbers DEF Parts, HistoryTyped, Request, OfThisConnection
<1>2. /\ Wired' = Wired /\ Wait' = Wait /\ Told' = Told /\ Current' \subseteq {r}
  BY DEF Current
<1>3. /\ Increasing(started')
      /\ Begun' = Begun \/ (Begun' = Begun \cup {r} /\ worker' = "running" /\ current' = r)
  <2>1. CASE started' = started
    BY <2>1 DEF Sorted
  <2>2. CASE started' = Append(started, r) /\ worker' = "running" /\ current' = r
    BY <1>1, <2>2, Appended, AppendedOrder DEF Begun, Sorted
  <2>3. QED
    BY <2>1, <2>2
<1>4. Current' = {} \/ Done' \subseteq Begun
  BY <1>3 DEF Done, Current
<1>5. InLine'
  BY <1>1, <1>2, <1>3, <1>4 DEF InLine, Below
<1>6. worker' \in {"running", "answering"} => current' \in Begun'
  <2>1. started' = Append(started, r) => Begun' = Begun \cup {r}
    BY <1>1, Appended DEF Begun
  <2>2. QED
    BY <2>1
<1>7. OfThisConnection'
  BY <1>1, <1>2, <1>3, <1>6 DEF OfThisConnection
<1>8. Sorted'
  BY <1>3 DEF Sorted
<1>9. QED
  BY <1>5, <1>7, <1>8

LEMMA TakeNextKeepsTheLine ==
  ASSUME Line, TakeNext
  PROVE  InLine' /\ OfThisConnection' /\ Sorted'
<1> USE SameSequence DEF Line, netVars, readerVars, workerVars, historyVars
<1> DEFINE r == Head(queue)
<1>1. /\ r \in Request /\ Increasing(queue') /\ Queued = {r} \cup Queued'
      /\ \A q \in Queued' : r < q
  BY QueueTaken, HeadsTyped DEF TakeNext
<1>2. /\ UNCHANGED <<wire, waiting, base, sent, answered>>
      /\ \/ worker' = "gate" /\ current' = r /\ started' = started
         \/ worker' = "idle" /\ current' = NoRequest /\ started' = started
         \/ worker' = "running" /\ current' = r /\ started' = Append(started, r)
  BY DEF TakeNext, Execute, Begin, Become
<1> HIDE DEF r
<1>3. /\ \A q \in Begun : q < r
      /\ \A q \in Queued' \cup Wait' \cup Wired' : r < q
      /\ r \notin EmptyRequest /\ base < r /\ r <= sent
  BY <1>1, <1>2 DEF InLine, Below, OfThisConnection
<1>4. QED
  BY <1>1, <1>2, <1>3, ReachingWorkerKeepsTheLine

LEMMA PassGateKeepsTheLine ==
  ASSUME Line, PassGate
  PROVE  InLine' /\ OfThisConnection' /\ Sorted'
<1> USE SameSequence DEF Line, netVars, readerVars, workerVars, historyVars
<1>1. worker = "gate" /\ current \in Request /\ Current = {current} /\ Done = Begun
  BY DEF PassGate, LeaveGate, Placed, Busy, Parts, PlacesTyped, Current, Done
<1>2. /\ UNCHANGED <<wire, waiting, base, sent, answered, queue>>
      /\ \/ worker' = "idle" /\ current' = NoRequest /\ started' = started
         \/ worker' = "running" /\ current' = current /\ started' = Append(started, current)
  BY DEF PassGate, LeaveGate, Execute, Begin, Become
<1>3. /\ \A q \in Begun : q < current
      /\ \A q \in Queued' \cup Wait' \cup Wired' : current < q
      /\ current \notin EmptyRequest /\ base < current /\ current <= sent
      /\ Queued' \subseteq Queued /\ Increasing(queue')
  BY <1>1, <1>2 DEF InLine, Below, OfThisConnection, Sorted
<1>4. QED
  BY <1>1, <1>2, <1>3, ReachingWorkerKeepsTheLine

LEMMA AnswerKeepsTheLine ==
  ASSUME Line, Answer
  PROVE  InLine' /\ OfThisConnection' /\ Sorted'
<1> USE SameSequence DEF Line, netVars, readerVars, workerVars, historyVars
<1>1. /\ worker = "answering" /\ current \in Request /\ Current = {current} /\ current \in Begun
      /\ answered \in Seq(Request)
  BY DEF Answer, Placed, Busy, Parts, PlacesTyped, HistoryTyped, Current, OfThisConnection
<1>2. /\ UNCHANGED <<wire, waiting, base, sent, started, queue>>
      /\ worker' = "idle" /\ Current' = {} /\ answered' = Append(answered, current)
  BY EmptySequence DEF Answer, Become
<1>3. current \notin EmptyRequest /\ \A q \in Told : q \notin EmptyRequest => q < current
  BY <1>1 DEF InLine, Below, OfThisConnection
<1>4. Told' = Told \cup {current} /\ InTurn(answered')
  BY <1>1, <1>2, <1>3, Appended, AppendedTurn DEF Told, Sorted
<1>5. InLine'
  BY <1>1, <1>2, <1>3, <1>4 DEF InLine, Below
<1>6. OfThisConnection'
  BY <1>1, <1>2, <1>4 DEF OfThisConnection
<1>7. Sorted'
  BY <1>2, <1>4 DEF Sorted
<1>8. QED
  BY <1>5, <1>6, <1>7

LEMMA LineInductive ==
  ASSUME Line, [Next]_vars
  PROVE  Line'
<1>1. Parts' /\ Placed'
  BY PlacesInductive, FlagsInductive, WireInductive, QueueInductive, SetsInductive,
     HistoryInductive, PlacedInductive DEF Line, Parts
<1>2. CASE LosingStep
  BY <1>1, <1>2, LosingSteps, LosingKeepsTheLine DEF Line
<1>3. CASE Dial \/ SendRequest \/ ReadRequest \/ Enqueue \/ ReadEmptyRequest
  BY <1>1, <1>3, DialKeepsTheLine, SendRequestKeepsTheLine, ReadRequestKeepsTheLine,
     EnqueueKeepsTheLine, ReadEmptyRequestKeepsTheLine DEF Line
<1>4. CASE TakeNext \/ PassGate \/ Answer
  BY <1>1, <1>4, TakeNextKeepsTheLine, PassGateKeepsTheLine, AnswerKeepsTheLine DEF Line
<1>5. QED
  BY <1>2, <1>3, <1>4 DEF Next, Environment, Reader, Worker, LosingStep

LEMMA Invariance == Spec => []Line
<1>1. Init => Line
  <2> SUFFICES ASSUME Init  PROVE Line
    OBVIOUS
  <2>1. /\ wire = <<>> /\ queue = <<>> /\ started = <<>> /\ answered = <<>>
        /\ waiting = NoRequest /\ current = NoRequest /\ worker = "none"
    BY DEF Init
  <2>2. /\ Wired = {} /\ Queued = {} /\ Begun = {} /\ Told = {} /\ Wait = {} /\ Current = {}
        /\ Sorted
    BY <2>1, NothingIn DEF Wired, Queued, Begun, Told, Wait, Current, Sorted, InTurn
  <2>3. InLine /\ OfThisConnection
    BY <2>1, <2>2 DEF InLine, Below, OfThisConnection
  <2>4. QED
    BY <2>2, <2>3, TypeAtFirst DEF Line
<1>2. Line /\ [Next]_vars => Line'
  BY LineInductive
<1>3. QED
  BY <1>1, <1>2, PTL DEF Spec

(* Actions are executed in the order they were sent, at most once, over all *)
(* connections and errors, and answered in that order after that.           *)
THEOREM ArrivalOrderHolds == Spec => []ArrivalOrder
<1>1. Line => ArrivalOrder
  <2> SUFFICES ASSUME Line  PROVE ArrivalOrder
    OBVIOUS
  <2>1. ToSet(answered) = Told /\ ToSet(started) = Begun
    BY DEF ToSet, Told, Begun, Elements, Line, Parts, HistoryTyped
  <2>2. QED
    BY <2>1 DEF Line, Sorted, OfThisConnection, ArrivalOrder
<1>2. QED
  BY <1>1, Invariance, PTL

LEMMA LastAppended ==
  ASSUME NEW seq \in Seq(Request), NEW e \in Request
  PROVE  Last(Append(seq, e)) = e
BY DEF Last

LEMMA BelongsToConnection ==
  ASSUME Line, [Next]_vars
  PROVE  /\ started' # started => Last(started') > base
         /\ answered' # answered => Last(answered') > base
<1> USE DEF Line, netVars, readerVars, workerVars, historyVars
<1>1. /\ started \in Seq(Request) /\ answered \in Seq(Request) /\ Request \subseteq Nat
      /\ base \in Nat
  BY PlacesAreNumbers DEF Parts, HistoryTyped
<1>2. \A r \in Request : base < r => r > base
  BY <1>1
<1>3. CASE TakeNext
  <2>1. Head(queue) \in Request /\ base < Head(queue)
    BY <1>3, HeadsTyped, QueueTaken DEF TakeNext, OfThisConnection
  <2>2. answered' = answered /\ started' \in {started, Append(started, Head(queue))}
    BY <1>3 DEF TakeNext, Execute, Begin
  <2>3. QED
    BY <1>1, <1>2, <2>1, <2>2, LastAppended
<1>4. CASE PassGate \/ Answer
  <2>1. current \in Request /\ base < current
    BY <1>4
       DEF PassGate, LeaveGate, Answer, Placed, Busy, Parts, PlacesTyped,
           OfThisConnection, Current
  <2>2. /\ started' \in {started, Append(started, current)}
        /\ answered' \in {answered, Append(answered, current)}
    BY <1>4 DEF PassGate, LeaveGate, Execute, Begin, Answer
  <2>3. QED
    BY <1>1, <1>2, <2>1, <2>2, LastAppended
<1>5. CASE ReadEmptyRequest
  <2>1. Head(wire).id \in Request /\ base < Head(wire).id
    BY <1>5, KindAssumption, WireTaken DEF ReadEmptyRequest, Incoming, OfThisConnection
  <2>2. started' = started /\ answered' \in {answered, Append(answered, Head(wire).id)}
    BY <1>5 DEF ReadEmptyRequest
  <2>3. QED
    BY <1>1, <1>2, <2>1, <2>2, LastAppended
<1>6. CASE LosingStep
  BY <1>6, LosingSteps
<1>7. CASE Dial \/ SendRequest \/ ReadRequest \/ Enqueue
  BY <1>7 DEF Dial, SendRequest, ReadRequest, Enqueue, Hand
<1>8. QED
  BY <1>3, <1>4, <1>5, <1>6, <1>7 DEF Next, Environment, Reader, Worker, LosingStep

(* What is executed or answered was sent on the connection that is open.    *)
THEOREM NothingCrossesReconnectHolds == Spec => NothingCrossesReconnect
<1>1. Line /\ [Next]_vars =>
        [ /\ started' # started => Last(started') > base
          /\ answered' # answered => Last(answered') > base ]_vars
  BY BelongsToConnection
<1>2. QED
  BY <1>1, Invariance, PTL DEF Spec, NothingCrossesReconnect
=============================================================================
