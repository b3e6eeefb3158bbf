------------------------ MODULE GatewayActions_proofs ------------------------
(***************************************************************************)
(* Proofs about an agent's actions through the gateway, for any number of  *)
(* requests, of dials and any capacity of the reply channel.               *)
(***************************************************************************)
EXTENDS GatewayActions, FiniteSetTheorems, TLAPS

(* Requests are finite, so the next turn is a number.                       *)
LEMMA TurnIsNat == Cardinality({q \in Request : via[q] # NoConn}) \in Nat
<1>1. {q \in Request : via[q] # NoConn} \subseteq Request
  OBVIOUS
<1>2. QED
  BY <1>1, FS_Subset, FS_CardinalityType, ActionsAssumption

(* The state is well typed, and a pump only ever writes to the connection   *)
(* that is attached.                                                        *)
THEOREM TypeCorrect == Spec => []TypeOK
<1> USE DEF Stage, Place, Conn, NoConn
<1>1. Init => TypeOK
  BY DEF Init, TypeOK
<1>2. TypeOK /\ [Next]_vars => TypeOK'
  <2> SUFFICES ASSUME TypeOK, [Next]_vars PROVE TypeOK'
    OBVIOUS
  <2> USE DEF TypeOK, handlerVars, gatewayVars, wayVars, guestVars
  <2>1. ASSUME NEW r \in Request, Handler(r) \/ ClientLeaves(r) PROVE TypeOK'
    <3>1. CASE Stamp(r)
      <4>1. Without(nextAction) \cup {<<nextAction, r>>} \subseteq Nat \X Request
        BY DEF Without
      <4>2. QED
        BY <3>1, <4>1 DEF Stamp, StampWith, Goto
    <3>2. CASE SendAction(r)
      BY <3>2, TurnIsNat, ActionsAssumption DEF SendAction, Goto, Move
    <3>3. CASE Reject(r) \/ Expire(r) \/ ClientLeaves(r)
      <4>1. CASE Reject(r)
        BY <4>1 DEF Reject, Goto
      <4>2. CASE Expire(r) \/ ClientLeaves(r)
        BY <4>2 DEF Expire, ClientLeaves, Goto
      <4>3. QED
        BY <3>3, <4>1, <4>2
    <3>4. CASE Unsent(r) \/ CleanUp(r)
      <4>1. pending' \subseteq pending
        BY <3>4 DEF Unsent, CleanUp, Without
      <4>2. QED
        BY <3>4, <4>1 DEF Unsent, CleanUp, Goto
    <3>5. QED
      BY <2>1, <3>1, <3>2, <3>3, <3>4 DEF Handler
  <2>2. ASSUME NEW r \in Request, Deliver(r) PROVE TypeOK'
    <3>1. pending' \subseteq Nat \X Request /\ place' \in [Request -> Place]
      BY <2>2 DEF Deliver, HandTo, Move
    <3>2. stage' \in [Request -> Stage] /\ results' \in [Request -> SUBSET Request]
      BY <2>2 DEF Deliver, HandTo
    <3>3. QED
      BY <2>2, <3>1, <3>2 DEF Deliver
  <2>3. CASE Detach
    BY <2>3 DEF Detach, Hangup
  <2>4. CASE PumpEnds
    BY <2>4 DEF PumpEnds, Lose
  <2>5. ASSUME NEW c \in Conn, Attach(c) PROVE TypeOK'
    BY <2>5 DEF Attach
  <2>6. ASSUME NEW c \in Conn, LinkBreaks(c) \/ Drain(c) \/ LoopEnds(c) PROVE TypeOK'
    <3>1. CASE LinkBreaks(c)
      BY <3>1 DEF LinkBreaks, Lose
    <3>2. CASE Drain(c)
      BY <3>2 DEF Drain
    <3>3. CASE LoopEnds(c)
      BY <3>3 DEF LoopEnds
    <3>4. QED
      BY <2>6, <3>1, <3>2, <3>3
  <2>7. ASSUME NEW c \in Conn, GuestTask(c) PROVE TypeOK'
    <3>1. CASE TaskEnds(c)
      BY <3>1 DEF TaskEnds
    <3>2. ASSUME NEW r \in Request, TakeAction(c, r) PROVE TypeOK'
      BY <3>2 DEF TakeAction, ToAction, Answer, Move
    <3>3. ASSUME NEW r \in Request, Finish(c, r) PROVE TypeOK'
      BY <3>3 DEF Finish, Answer, Move
    <3>4. ASSUME NEW r \in Request, QueueReply(c, r) PROVE TypeOK'
      BY <3>4 DEF QueueReply, QueueReplyIf, Move
    <3>5. QED
      BY <2>7, <3>1, <3>2, <3>3, <3>4 DEF GuestTask
  <2>8. CASE UNCHANGED vars
    BY <2>8 DEF vars
  <2>9. QED
    BY <2>1, <2>2, <2>3, <2>4, <2>5, <2>6, <2>7, <2>8 DEF Next, Gateway
<1>3. QED
  BY <1>1, <1>2, PTL DEF Spec

-----------------------------------------------------------------------------
(* The strengthening: ids are never shared, an entry of pending is its      *)
(* request's own, and where a request is on its way says whether the guest  *)
(* has taken it up.                                                         *)
IdsAreOwn ==
  /\ nextAction > 0
  /\ \A r \in Request : id[r] < nextAction /\ (stage[r] = "new" => id[r] = 0)
  /\ \A r, q \in Request : id[r] = id[q] /\ id[r] # 0 => r = q

EntriesAreOwn ==
  \A w \in pending :
    /\ id[w[2]] = w[1] /\ w[1] # 0
    /\ stage[w[2]] \in {"parked", "waiting", "expired", "left"}
    /\ place[w[2]] # "told"

Placed ==
  \A r \in Request :
    /\ place[r] = "nowhere" <=> stage[r] \in {"new", "parked", "refused"}
    /\ place[r] \in {"nowhere", "down"} => r \notin handled
    /\ place[r] \in {"running", "answer", "reply", "up", "told"} => r \in handled
    /\ stage[r] # "answered" => results[r] = {}

IInv == TypeOK /\ IdsAreOwn /\ EntriesAreOwn /\ Placed

(* The steps of the link and of the guest: they leave the handlers and what *)
(* they wait on alone, and they never count a request as told.              *)
LinkStep ==
  \/ Detach \/ PumpEnds
  \/ \E c \in Conn : Attach(c) \/ LinkBreaks(c) \/ GuestTask(c) \/ Drain(c) \/ LoopEnds(c)

LEMMA LinkStepsLeaveHandlers ==
  ASSUME TypeOK, LinkStep
  PROVE  /\ UNCHANGED handlerVars
         /\ \A r \in Request : place'[r] = "told" => place[r] = "told"
<1> USE DEF TypeOK, handlerVars, wayVars
<1>1. CASE Detach
  BY <1>1 DEF Detach, Hangup
<1>2. CASE PumpEnds
  BY <1>2 DEF PumpEnds, Lose
<1>3. ASSUME NEW c \in Conn, Attach(c) \/ LinkBreaks(c) \/ Drain(c) \/ LoopEnds(c)
      PROVE  /\ UNCHANGED handlerVars
             /\ \A r \in Request : place'[r] = "told" => place[r] = "told"
  <2>1. CASE Attach(c)
    BY <2>1 DEF Attach
  <2>2. CASE LinkBreaks(c)
    BY <2>2 DEF LinkBreaks, Lose
  <2>3. CASE Drain(c)
    BY <2>3 DEF Drain
  <2>4. CASE LoopEnds(c)
    BY <2>4 DEF LoopEnds
  <2>5. QED
    BY <1>3, <2>1, <2>2, <2>3, <2>4
<1>4. ASSUME NEW c \in Conn, GuestTask(c)
      PROVE  /\ UNCHANGED handlerVars
             /\ \A r \in Request : place'[r] = "told" => place[r] = "told"
  <2>1. CASE TaskEnds(c)
    BY <2>1 DEF TaskEnds
  <2>2. ASSUME NEW q \in Request, TakeAction(c, q) \/ Finish(c, q) \/ QueueReply(c, q)
        PROVE  /\ UNCHANGED handlerVars
               /\ \A r \in Request : place'[r] = "told" => place[r] = "told"
    <3>1. CASE TakeAction(c, q)
      BY <3>1 DEF TakeAction, ToAction, Answer, Move
    <3>2. CASE Finish(c, q)
      BY <3>2 DEF Finish, Answer, Move
    <3>3. CASE QueueReply(c, q)
      BY <3>3 DEF QueueReply, QueueReplyIf, Move
    <3>4. QED
      BY <2>2, <3>1, <3>2, <3>3
  <2>3. QED
    BY <1>4, <2>1, <2>2 DEF GuestTask
<1>5. QED
  BY <1>1, <1>2, <1>3, <1>4 DEF LinkStep

(* A reply finds the entry of its own request, or none.                     *)
LEMMA WaiterIsOwn ==
  ASSUME IInv, NEW r \in Request, NEW w \in Waiters(r)
  PROVE  w[2] = r /\ w = <<id[r], r>>
<1>1. w[1] \in Nat /\ w[2] \in Request /\ w = <<w[1], w[2]>>
  BY DEF IInv, TypeOK, Waiters
<1>2. id[w[2]] = id[r] /\ id[r] # 0
  BY DEF IInv, EntriesAreOwn, Waiters
<1>3. QED
  BY <1>1, <1>2 DEF IInv, IdsAreOwn, Waiters

(* So what a reply tells is its own handler or nobody.                      *)
LEMMA ReplyTellsItsOwn ==
  ASSUME IInv, NEW r \in Request, Deliver(r)
  PROVE  \/ UNCHANGED <<stage, results>>
         \/ /\ stage[r] = "waiting" /\ stage' = [stage EXCEPT ![r] = "answered"]
            /\ results' = [results EXCEPT ![r] = {r}]
<1> DEFINE told == {w[2] : w \in Waiters(r)} \cap {q \in Request : stage[q] = "waiting"}
<1>1. told \subseteq {r} /\ \A q \in told : stage[q] = "waiting"
  BY WaiterIsOwn
<1>2. /\ stage' = [q \in Request |-> IF q \in told THEN "answered" ELSE stage[q]]
      /\ results' = [q \in Request |-> IF q \in told THEN results[q] \cup {r} ELSE results[q]]
  BY DEF Deliver, HandTo
<1> HIDE DEF told
<1>3. stage \in [Request -> Stage] /\ results \in [Request -> SUBSET Request]
  BY DEF IInv, TypeOK
<1>4. CASE told = {}
  BY <1>2, <1>3, <1>4
<1>5. CASE told = {r}
  <2>1. stage[r] = "waiting" /\ results[r] = {}
    BY <1>1, <1>5 DEF IInv, Placed
  <2>2. results' = [results EXCEPT ![r] = {r}]
    BY <1>2, <1>3, <1>5, <2>1
  <2>3. stage' = [stage EXCEPT ![r] = "answered"]
    BY <1>2, <1>3, <1>5
  <2>4. QED
    BY <2>1, <2>2, <2>3
<1>6. QED
  BY <1>1, <1>4, <1>5

LEMMA IdsAreOwnInductive ==
  ASSUME IInv, [Next]_vars
  PROVE  IdsAreOwn'
<1> USE DEF IInv, TypeOK, IdsAreOwn, handlerVars
<1>1. CASE LinkStep
  BY <1>1, LinkStepsLeaveHandlers
<1>2. ASSUME NEW r \in Request, Deliver(r) PROVE IdsAreOwn'
  <2>1. \A q \in Request : stage'[q] = "new" => stage[q] = "new"
    BY <1>2, ReplyTellsItsOwn
  <2>2. QED
    BY <1>2, <2>1 DEF Deliver
<1>3. ASSUME NEW r \in Request, Handler(r) \/ ClientLeaves(r) PROVE IdsAreOwn'
  <2>1. CASE Stamp(r)
    BY <2>1 DEF Stamp, StampWith, Goto
  <2>2. CASE Reject(r)
    BY <2>2 DEF Reject, Goto
  <2>3. CASE SendAction(r) \/ Unsent(r)
    BY <2>3 DEF SendAction, Unsent, Goto
  <2>4. CASE Expire(r) \/ CleanUp(r) \/ ClientLeaves(r)
    BY <2>4 DEF Expire, CleanUp, ClientLeaves, Goto
  <2>5. QED
    BY <1>3, <2>1, <2>2, <2>3, <2>4 DEF Handler
<1>4. CASE UNCHANGED vars
  BY <1>4 DEF vars
<1>5. QED
  BY <1>1, <1>2, <1>3, <1>4 DEF Next, Gateway, LinkStep

LEMMA EntriesAreOwnInductive ==
  ASSUME IInv, TypeOK', [Next]_vars
  PROVE  EntriesAreOwn'
<1> USE DEF IInv, TypeOK, EntriesAreOwn, handlerVars
<1>0. \A w \in pending : w[1] \in Nat /\ w[2] \in Request /\ w = <<w[1], w[2]>>
  OBVIOUS
<1>1. CASE LinkStep
  BY <1>0, <1>1, LinkStepsLeaveHandlers
<1>2. ASSUME NEW r \in Request, Deliver(r) PROVE EntriesAreOwn'
  <2>1. /\ pending' = pending \ Waiters(r) /\ UNCHANGED id
        /\ place' = [place EXCEPT ![r] = "told"]
    BY <1>2 DEF Deliver, HandTo, Move
  <2>2. \A w \in pending' : w[2] # r
    BY <1>0, <2>1 DEF Waiters
  <2>3. \A q \in Request : q # r => stage'[q] = stage[q]
    BY <1>2, ReplyTellsItsOwn
  <2>4. QED
    BY <1>0, <2>1, <2>2, <2>3
<1>3. ASSUME NEW r \in Request, Handler(r) \/ ClientLeaves(r) PROVE EntriesAreOwn'
  <2>1. CASE Stamp(r)
    <3>1. /\ pending' = Without(nextAction) \cup {<<nextAction, r>>}
          /\ id' = [id EXCEPT ![r] = nextAction] /\ stage' = [stage EXCEPT ![r] = "parked"]
          /\ UNCHANGED place
      BY <2>1 DEF Stamp, StampWith, Goto, wayVars
    <3>2. stage[r] = "new" /\ place[r] = "nowhere" /\ nextAction # 0
      BY <2>1 DEF Stamp, StampWith, Placed, IdsAreOwn
    <3>3. ASSUME NEW w \in pending' PROVE (w \in pending /\ w[2] # r) \/ w = <<nextAction, r>>
      BY <1>0, <3>1, <3>2 DEF Without
    <3>4. QED
      BY <1>0, <3>1, <3>2, <3>3
  <2>2. CASE Reject(r)
    BY <1>0, <2>2 DEF Reject, Goto, wayVars
  <2>3. CASE SendAction(r)
    BY <1>0, <2>3 DEF SendAction, Goto, Move
  <2>4. CASE Unsent(r) \/ CleanUp(r)
    <3>1. /\ pending' = Without(id[r]) /\ UNCHANGED <<id, place>>
          /\ \A q \in Request : q # r => stage'[q] = stage[q]
      BY <2>4 DEF Unsent, CleanUp, Goto, wayVars
    <3>2. \A w \in pending' : w \in pending /\ w[2] # r
      BY <1>0, <3>1 DEF Without
    <3>3. QED
      BY <1>0, <3>1, <3>2
  <2>5. CASE Expire(r) \/ ClientLeaves(r)
    BY <1>0, <2>5 DEF Expire, ClientLeaves, Goto, wayVars
  <2>6. QED
    BY <1>3, <2>1, <2>2, <2>3, <2>4, <2>5 DEF Handler
<1>4. CASE UNCHANGED vars
  BY <1>4 DEF vars, wayVars
<1>5. QED
  BY <1>1, <1>2, <1>3, <1>4 DEF Next, Gateway, LinkStep

LEMMA PlacedInductive ==
  ASSUME IInv, [Next]_vars
  PROVE  Placed'
<1> USE DEF IInv, TypeOK, Placed, handlerVars, wayVars, guestVars
<1>1. ASSUME NEW r \in Request, Deliver(r) PROVE Placed'
  <2>1. place[r] = "up" /\ place' = [place EXCEPT ![r] = "told"] /\ UNCHANGED handled
    BY <1>1 DEF Deliver, IsFirst, At, Move
  <2>2. QED
    BY <1>1, <2>1, ReplyTellsItsOwn
<1>2. ASSUME NEW r \in Request, Handler(r) \/ ClientLeaves(r) PROVE Placed'
  <2>1. CASE Stamp(r)
    BY <2>1 DEF Stamp, StampWith, Goto
  <2>2. CASE Reject(r) \/ Unsent(r)
    BY <2>2 DEF Reject, Unsent, Goto
  <2>3. CASE SendAction(r)
    BY <2>3 DEF SendAction, Goto, Move
  <2>4. CASE Expire(r) \/ CleanUp(r) \/ ClientLeaves(r)
    BY <2>4 DEF Expire, CleanUp, ClientLeaves, Goto
  <2>5. QED
    BY <1>2, <2>1, <2>2, <2>3, <2>4 DEF Handler
<1>3. CASE Detach
  BY <1>3 DEF Detach, Hangup
<1>4. CASE PumpEnds
  BY <1>4 DEF PumpEnds, Lose, At
<1>5. ASSUME NEW c \in Conn, Attach(c) \/ LinkBreaks(c) \/ Drain(c) \/ LoopEnds(c) PROVE Placed'
  <2>1. CASE Attach(c)
    BY <2>1 DEF Attach
  <2>2. CASE LinkBreaks(c)
    BY <2>2 DEF LinkBreaks, Lose
  <2>3. CASE Drain(c)
    BY <2>3 DEF Drain, At
  <2>4. CASE LoopEnds(c)
    BY <2>4 DEF LoopEnds, At
  <2>5. QED
    BY <1>5, <2>1, <2>2, <2>3, <2>4
<1>6. ASSUME NEW c \in Conn, GuestTask(c) PROVE Placed'
  <2>1. CASE TaskEnds(c)
    BY <2>1 DEF TaskEnds
  <2>2. ASSUME NEW r \in Request, TakeAction(c, r) PROVE Placed'
    BY <2>2 DEF TakeAction, ToAction, Answer, IsFirst, At, Move
  <2>3. ASSUME NEW r \in Request, Finish(c, r) PROVE Placed'
    BY <2>3 DEF Finish, Answer, At, Move
  <2>4. ASSUME NEW r \in Request, QueueReply(c, r) PROVE Placed'
    BY <2>4 DEF QueueReply, QueueReplyIf, At, Move
  <2>5. QED
    BY <1>6, <2>1, <2>2, <2>3, <2>4 DEF GuestTask
<1>7. CASE UNCHANGED vars
  BY <1>7 DEF vars
<1>8. QED
  BY <1>1, <1>2, <1>3, <1>4, <1>5, <1>6, <1>7 DEF Next, Gateway

LEMMA Invariance == Spec => []IInv
<1>1. Init => IdsAreOwn /\ EntriesAreOwn /\ Placed
  BY DEF Init, IdsAreOwn, EntriesAreOwn, Placed
<1>2. TypeOK' /\ IInv /\ [Next]_vars => IInv'
  BY IdsAreOwnInductive, EntriesAreOwnInductive, PlacedInductive DEF IInv
<1>3. Init /\ TypeOK => IInv
  BY <1>1 DEF IInv
<1>4. QED
  BY <1>2, <1>3, TypeCorrect, PTL DEF Spec

(* An entry of pending never outlives its request, but for a client that    *)
(* has left and whose answer has not come.                                  *)
THEOREM NothingLeftBehindHolds == Spec => []NothingLeftBehind
<1>1. IInv => NothingLeftBehind
  BY DEF IInv, EntriesAreOwn, NothingLeftBehind
<1>2. QED
  BY <1>1, Invariance, PTL

-----------------------------------------------------------------------------
(* The service as the handlers and the guest carry it out                   *)
LEMMA LinkStepsTakeUp ==
  ASSUME IInv, LinkStep
  PROVE  (\E r \in Request : Service!TakeUp(r)) \/ UNCHANGED Service!vars
<1> USE DEF Service!vars, handlerVars, guestVars
<1>1. UNCHANGED <<stage, results>>
  BY LinkStepsLeaveHandlers DEF IInv
<1>2. ASSUME NEW c \in Conn, NEW r \in Request, TakeAction(c, r) PROVE Service!TakeUp(r)
  <2>1. place[r] = "down" /\ handled' = handled \cup {r}
    BY <1>2 DEF TakeAction, ToAction, Answer, IsFirst, At
  <2>2. stage[r] \notin {"new", "parked", "refused"} /\ r \notin handled /\ stage[r] \in Stage
    BY <2>1 DEF IInv, TypeOK, Placed
  <2>3. QED
    BY <1>1, <2>1, <2>2 DEF Service!TakeUp, Status, Stage
<1>3. CASE ~\E c \in Conn, r \in Request : TakeAction(c, r)
  <2>1. UNCHANGED handled
    BY <1>3 DEF LinkStep, Detach, Hangup, PumpEnds, Attach, LinkBreaks, Drain, LoopEnds,
                GuestTask, TaskEnds, Finish, Answer, QueueReply, QueueReplyIf
  <2>2. QED
    BY <1>1, <2>1
<1>4. QED
  BY <1>2, <1>3

LEMMA HandlersServe ==
  ASSUME IInv, NEW r \in Request, Handler(r) \/ ClientLeaves(r)
  PROVE  Service!Ask(r) \/ Service!Refuse(r) \/ Service!Resolve(r) \/ UNCHANGED Service!vars
<1> DEFINE bar(f) == [q \in Request |-> Status(f[q])]
<1> USE DEF Service!vars, guestVars
<1>0. stage \in [Request -> Stage]
  BY DEF IInv, TypeOK
<1>1. ASSUME NEW s \in Stage, stage' = [stage EXCEPT ![r] = s]
      PROVE  bar(stage') = [bar(stage) EXCEPT ![r] = Status(s)]
  BY <1>0, <1>1
<1>2. CASE Stamp(r)
  <2>1. bar(stage)[r] = "new" /\ bar(stage') = [bar(stage) EXCEPT ![r] = "waiting"]
    BY <1>1, <1>2 DEF Stamp, StampWith, Goto, Stage, Status
  <2>2. QED
    BY <1>2, <2>1 DEF Stamp, Service!Ask, Service!Become
<1>3. CASE Reject(r)
  <2>1. bar(stage)[r] = "new" /\ bar(stage') = [bar(stage) EXCEPT ![r] = "refused"]
    BY <1>1, <1>3 DEF Reject, Goto, Stage, Status
  <2>2. r \notin handled
    BY <1>3 DEF Reject, IInv, Placed
  <2>3. QED
    BY <1>3, <2>1, <2>2 DEF Reject, Service!Refuse, Service!Become
<1>4. CASE Unsent(r)
  <2>1. bar(stage)[r] = "waiting" /\ bar(stage') = [bar(stage) EXCEPT ![r] = "refused"]
    BY <1>1, <1>4 DEF Unsent, Goto, Stage, Status
  <2>2. r \notin handled
    BY <1>4 DEF Unsent, IInv, Placed
  <2>3. QED
    BY <1>4, <2>1, <2>2 DEF Unsent, Service!Refuse, Service!Become
<1>5. CASE SendAction(r) \/ Expire(r)
  <2>1. \E s \in {"waiting", "expired"} : stage' = [stage EXCEPT ![r] = s]
    BY <1>5 DEF SendAction, Expire, Goto
  <2>2. bar(stage)[r] = "waiting" /\ bar(stage') = [bar(stage) EXCEPT ![r] = "waiting"]
    BY <1>1, <1>5, <2>1 DEF SendAction, Expire, Stage, Status
  <2>3. bar(stage') = bar(stage)
    BY <2>2
  <2>4. QED
    BY <1>5, <2>3 DEF SendAction, Expire
<1>6. CASE CleanUp(r) \/ ClientLeaves(r)
  <2>1. /\ bar(stage)[r] = "waiting"
        /\ \/ bar(stage') = [bar(stage) EXCEPT ![r] = "timeout"]
           \/ bar(stage') = [bar(stage) EXCEPT ![r] = "left"]
    BY <1>1, <1>6 DEF CleanUp, ClientLeaves, Goto, Stage, Status
  <2>2. QED
    BY <1>6, <2>1
       DEF CleanUp, ClientLeaves, Service!Resolve, Service!GiveUp, Service!Leave, Service!Become
<1>7. QED
  BY <1>2, <1>3, <1>4, <1>5, <1>6 DEF Handler

LEMMA RepliesServe ==
  ASSUME IInv, NEW r \in Request, Deliver(r)
  PROVE  Service!Resolve(r) \/ UNCHANGED Service!vars
<1>1. r \in handled /\ UNCHANGED handled
  BY DEF Deliver, IsFirst, At, IInv, Placed, guestVars
<1>2. CASE UNCHANGED <<stage, results>>
  BY <1>1, <1>2 DEF Service!vars
<1>3. CASE ~UNCHANGED <<stage, results>>
  <2>1. /\ stage[r] = "waiting" /\ stage' = [stage EXCEPT ![r] = "answered"]
        /\ results' = [results EXCEPT ![r] = {r}] /\ stage \in [Request -> Stage]
    BY <1>3, ReplyTellsItsOwn DEF IInv, TypeOK
  <2>2. [q \in Request |-> Status(stage'[q])]
          = [[q \in Request |-> Status(stage[q])] EXCEPT ![r] = "result"]
    BY <2>1 DEF Status
  <2>3. QED
    BY <1>1, <2>1, <2>2 DEF Service!Resolve, Service!Answer, Service!Become, Status
<1>4. QED
  BY <1>2, <1>3

(* Every step of handlers, gateway and guest is a step of the service or    *)
(* none: at most one outcome, one's own result, nothing done after a 503.   *)
THEOREM ImplementsServiceSafety == Spec => Service!Init /\ [][Service!Next]_(Service!vars)
<1>1. Init => Service!Init
  BY DEF Init, Service!Init, Status
<1>2. IInv /\ [Next]_vars => [Service!Next]_(Service!vars)
  <2> SUFFICES ASSUME IInv, [Next]_vars PROVE Service!Next \/ UNCHANGED Service!vars
    BY DEF Service!vars
  <2>1. CASE LinkStep
    BY <2>1, LinkStepsTakeUp DEF Service!Next
  <2>2. ASSUME NEW r \in Request, Deliver(r) PROVE Service!Next \/ UNCHANGED Service!vars
    BY <2>2, RepliesServe DEF Service!Next
  <2>3. ASSUME NEW r \in Request, Handler(r) \/ ClientLeaves(r)
        PROVE  Service!Next \/ UNCHANGED Service!vars
    BY <2>3, HandlersServe DEF Service!Next
  <2>4. CASE UNCHANGED vars
    BY <2>4 DEF vars, handlerVars, guestVars, Service!vars
  <2>5. QED
    BY <2>1, <2>2, <2>3, <2>4 DEF Next, Gateway, LinkStep
<1>3. QED
  BY <1>1, <1>2, Invariance, PTL DEF Spec
=============================================================================
