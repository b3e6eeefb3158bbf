---------------------------- MODULE GatewayActions ----------------------------
(***************************************************************************)
(* An agent's actions through the gateway: POST /v1/action in              *)
(* iapetus-gateway/src/main.rs parks a request on a oneshot in `pending`   *)
(* and sends the action down to the guest; viewer_link.rs there takes one  *)
(* message at a time, executes it, and queues the reply, which its capture *)
(* loop sends back after the next capture; guest_socket matches the reply  *)
(* to the waiting request by its id.                                       *)
(*                                                                         *)
(* Each request is somewhere on its way (place), on one connection of the  *)
(* guest (via). Queues are first in first out by `turn`, the order the     *)
(* gateway sent in, which the guest keeps. Viewers' input shares the way   *)
(* down and is left out, as is what an action does and what a result says. *)
(***************************************************************************)
EXTENDS FiniteSets, Naturals

CONSTANTS Request,      (* requests that reach the handler                    *)
          Dials,        (* bound: connections the guest makes                 *)
          ReplyCap      (* capacity of the guest's reply channel              *)

ASSUME ActionsAssumption ==
  /\ IsFiniteSet(Request)
  /\ Dials \in Nat /\ ReplyCap \in Nat \ {0}

Conn == 1..Dials
NoConn == 0

VARIABLES stage,       (* where each request's handler is                     *)
          id, nextAction,  (* the id it was stamped with; App.next_action       *)
          pending,     (* App.pending: pairs of an id and who waits on it     *)
          results,     (* whose results a handler received: history           *)
          attached,    (* the connection guest_socket reads                   *)
          pump,        (* the connection its pump still writes to             *)
          place, via, turn,
          open,        (* connections whose socket still carries messages     *)
          loop,        (* the guest's capture loop for a connection           *)
          task,        (* its input task                                      *)
          handled      (* requests the guest has taken up: history            *)

handlerVars == <<stage, id, nextAction, pending, results>>
gatewayVars == <<attached, pump>>
wayVars == <<place, via, turn>>
guestVars == <<open, loop, task, handled>>
vars == <<handlerVars, gatewayVars, wayVars, guestVars>>

Stage == {"new", "parked", "waiting", "expired", "answered", "refused", "timeout", "left"}
Place == {"nowhere", "down", "running", "answer", "reply", "up", "told", "lost"}

TypeOK ==
  /\ stage \in [Request -> Stage]
  /\ id \in [Request -> Nat] /\ nextAction \in Nat
  /\ pending \subseteq Nat \X Request
  /\ results \in [Request -> SUBSET Request]
  /\ attached \in Conn \cup {NoConn} /\ pump \in {attached, NoConn}
  /\ place \in [Request -> Place]
  /\ via \in [Request -> Conn \cup {NoConn}]
  /\ turn \in [Request -> Nat]
  /\ open \subseteq Conn
  /\ loop \in [Conn -> {"unused", "runs", "ended"}]
  /\ task \in [Conn -> {"idle", "busy", "answering", "ended"}]
  /\ handled \subseteq Request

Init ==
  /\ stage = [r \in Request |-> "new"]
  /\ id = [r \in Request |-> 0] /\ nextAction = 1
  /\ pending = {}
  /\ results = [r \in Request |-> {}]
  /\ attached = NoConn /\ pump = NoConn
  /\ place = [r \in Request |-> "nowhere"]
  /\ via = [r \in Request |-> NoConn]
  /\ turn = [r \in Request |-> 0]
  /\ open = {}
  /\ loop = [c \in Conn |-> "unused"]
  /\ task = [c \in Conn |-> "ended"]
  /\ handled = {}

Goto(r, s) == stage' = [stage EXCEPT ![r] = s]
Move(r, p) == place' = [place EXCEPT ![r] = p]
At(c, p) == {r \in Request : place[r] = p /\ via[r] = c}
IsFirst(r, c, p) == r \in At(c, p) /\ \A q \in At(c, p) : turn[r] <= turn[q]
Without(i) == {w \in pending : w[1] # i}

-----------------------------------------------------------------------------
(* action: the handler of POST /v1/action. The body decides what becomes of *)
(* a request here and at the guest; any request may have any body.          *)
Reject(r) ==
  /\ stage[r] = "new" /\ Goto(r, "refused")
  /\ nextAction' = nextAction + 1
  /\ UNCHANGED <<id, pending, results, gatewayVars, wayVars, guestVars>>

(* The id is taken before the entry is made; nobody else knows it yet.      *)
StampWith(r, i) ==
  /\ stage[r] = "new" /\ Goto(r, "parked")
  /\ id' = [id EXCEPT ![r] = i]
  /\ pending' = Without(i) \cup {<<i, r>>}

Stamp(r) ==
  /\ StampWith(r, nextAction) /\ nextAction' = nextAction + 1
  /\ UNCHANGED <<results, gatewayVars, wayVars, guestVars>>

(* to_guest.send fails when no pump is subscribed. What is handed to a pump *)
(* whose socket has just broken is lost.                                    *)
SendAction(r) ==
  /\ stage[r] = "parked" /\ pump # NoConn /\ Goto(r, "waiting")
  /\ Move(r, IF pump \in open THEN "down" ELSE "lost")
  /\ via' = [via EXCEPT ![r] = pump]
  /\ turn' = [turn EXCEPT ![r] = Cardinality({q \in Request : via[q] # NoConn})]
  /\ UNCHANGED <<id, nextAction, pending, results, gatewayVars, guestVars>>

Unsent(r) ==
  /\ stage[r] = "parked" /\ pump = NoConn /\ Goto(r, "refused")
  /\ pending' = Without(id[r])
  /\ UNCHANGED <<id, nextAction, results, gatewayVars, wayVars, guestVars>>

(* ACTION_TIMEOUT: the oneshot's receiver is gone, the entry not yet.       *)
Expire(r) ==
  /\ stage[r] = "waiting" /\ Goto(r, "expired")
  /\ UNCHANGED <<id, nextAction, pending, results, gatewayVars, wayVars, guestVars>>

CleanUpLeaving(r) ==
  /\ stage[r] = "expired" /\ Goto(r, "timeout")
  /\ UNCHANGED <<id, nextAction, pending, results, gatewayVars, wayVars, guestVars>>

CleanUp(r) ==
  /\ stage[r] = "expired" /\ Goto(r, "timeout")
  /\ pending' = Without(id[r])
  /\ UNCHANGED <<id, nextAction, results, gatewayVars, wayVars, guestVars>>

(* The HTTP client hangs up: the handler is dropped where it awaits, and    *)
(* nothing removes its entry.                                               *)
ClientLeaves(r) ==
  /\ stage[r] = "waiting" /\ Goto(r, "left")
  /\ UNCHANGED <<id, nextAction, pending, results, gatewayVars, wayVars, guestVars>>

Handler(r) == Stamp(r) \/ Reject(r) \/ SendAction(r) \/ Unsent(r) \/ Expire(r) \/ CleanUp(r)

-----------------------------------------------------------------------------
(* guest_socket, as far as actions are concerned                            *)
Attach(c) ==
  /\ attached = NoConn /\ loop[c] = "unused"
  /\ \A d \in Conn : loop[d] # "runs" /\ (d < c => loop[d] # "unused")
  /\ attached' = c /\ pump' = c
  /\ open' = open \cup {c}
  /\ loop' = [loop EXCEPT ![c] = "runs"]
  /\ task' = [task EXCEPT ![c] = "idle"]
  /\ UNCHANGED <<handlerVars, wayVars, handled>>

(* A reply: its waiter is taken out of pending and, if its handler is still *)
(* there, handed the result. A reply nobody waits for is dropped.           *)
HandTo(r, waiters) ==
  /\ pending' = pending \ waiters
  /\ LET told == {w[2] : w \in waiters} \cap {q \in Request : stage[q] = "waiting"} IN
       /\ stage' = [q \in Request |-> IF q \in told THEN "answered" ELSE stage[q]]
       /\ results' = [q \in Request |-> IF q \in told THEN results[q] \cup {r} ELSE results[q]]

WaitersLongest(r) == {w \in pending : \A v \in pending : w[1] <= v[1]}
Waiters(r) == {w \in pending : w[1] = id[r]}

Deliver(r) ==
  /\ IsFirst(r, attached, "up") /\ Move(r, "told")
  /\ HandTo(r, Waiters(r))
  /\ UNCHANGED <<id, nextAction, gatewayVars, via, turn, guestVars>>

(* The pump gives up on a failed write or when its receiver lagged; what it *)
(* had not written is lost. Nothing fails the requests that wait.           *)
Lose(c, last) ==
  place' = [r \in Request |->
    IF via[r] = c /\ place[r] \in {"down", "up"} /\ r \in last THEN "lost" ELSE place[r]]

Later(c, n) == {r \in Request : via[r] = c /\ turn[r] >= n}

PumpEnds ==
  /\ pump # NoConn /\ pump' = NoConn
  /\ \E n \in 0..Cardinality(Request) : Lose(pump, Later(pump, n) \cap At(pump, "down"))
  /\ UNCHANGED <<handlerVars, attached, via, turn, guestVars>>

Hangup ==
  /\ attached # NoConn /\ attached \notin open /\ At(attached, "up") = {}
  /\ attached' = NoConn
  /\ UNCHANGED <<handlerVars, wayVars, guestVars>>

DetachPumping == Hangup /\ UNCHANGED pump
Detach == Hangup /\ pump' = NoConn

(* The socket dies: of what was under way each side still gets a prefix.    *)
LinkBreaks(c) ==
  /\ c \in open /\ open' = open \ {c}
  /\ \E n, m \in 0..Cardinality(Request) :
       Lose(c, (Later(c, n) \cap At(c, "down")) \cup (Later(c, m) \cap At(c, "up")))
  /\ UNCHANGED <<handlerVars, gatewayVars, via, turn, loop, task, handled>>

-----------------------------------------------------------------------------
(* viewer_link::run's input task: one message at a time. An action is       *)
(* executed; one that cannot be read is answered at once; a release_all or  *)
(* a keyframe request with an id is obeyed and not answered.                *)
ToAction(c, r) == task' = [task EXCEPT ![c] = "busy"] /\ Move(r, "running")

(* A result or an error, with the request's id, which the task will queue.  *)
Answer(c, r) == task' = [task EXCEPT ![c] = "answering"] /\ Move(r, "answer")

TakeAction(c, r) ==
  /\ task[c] = "idle" /\ IsFirst(r, c, "down")
  /\ handled' = handled \cup {r}
  /\ ToAction(c, r) \/ Answer(c, r) \/ (UNCHANGED task /\ Move(r, "lost"))
  /\ UNCHANGED <<handlerVars, gatewayVars, via, turn, open, loop>>

(* The driver call returns; an aborted task is no longer there to answer.   *)
Finish(c, r) ==
  /\ r \in At(c, "running")
  /\ IF task[c] = "busy"
       THEN Answer(c, r)
       ELSE UNCHANGED task /\ Move(r, "lost")
  /\ UNCHANGED <<handlerVars, gatewayVars, via, turn, open, loop, handled>>

(* resp_tx.send waits for room and fails once the loop has dropped its end. *)
HasRoom(c) == loop[c] = "runs" /\ Cardinality(At(c, "reply")) < ReplyCap

QueueReplyIf(c, r, dropped) ==
  /\ task[c] = "answering" /\ r \in At(c, "answer")
  /\ (HasRoom(c) /\ Move(r, "reply")) \/ (dropped /\ Move(r, "lost"))
  /\ task' = [task EXCEPT ![c] = "idle"]
  /\ UNCHANGED <<handlerVars, gatewayVars, via, turn, open, loop, handled>>

QueueReplyOrDrop(c, r) == QueueReplyIf(c, r, ~HasRoom(c))
QueueReply(c, r) == QueueReplyIf(c, r, loop[c] = "ended")

TaskEnds(c) ==
  /\ task[c] = "idle" /\ c \notin open /\ At(c, "down") = {}
  /\ task' = [task EXCEPT ![c] = "ended"]
  /\ UNCHANGED <<handlerVars, gatewayVars, wayVars, open, loop, handled>>

-----------------------------------------------------------------------------
(* viewer_link::run's capture loop. Each capture, of a change or of the two *)
(* second resync, is followed by draining the replies.                      *)
Drain(c) ==
  /\ loop[c] = "runs" /\ c \in open /\ At(c, "reply") # {}
  /\ place' = [r \in Request |-> IF r \in At(c, "reply") THEN "up" ELSE place[r]]
  /\ UNCHANGED <<handlerVars, gatewayVars, via, turn, guestVars>>

(* The loop ends: with the input task aborted where an update could not be  *)
(* sent, past the abort where a reply could not or a capture failed.        *)
LoopEnds(c) ==
  /\ loop[c] = "runs" /\ loop' = [loop EXCEPT ![c] = "ended"]
  /\ \/ c \notin open /\ task' = [task EXCEPT ![c] = "ended"]
     \/ UNCHANGED task
  /\ place' = [r \in Request |->
       IF r \in At(c, "reply") \/ (r \in At(c, "answer") /\ task'[c] = "ended")
         THEN "lost" ELSE place[r]]
  /\ UNCHANGED <<handlerVars, gatewayVars, via, turn, open, handled>>

GuestTask(c) == TaskEnds(c) \/ \E r \in Request : TakeAction(c, r) \/ Finish(c, r) \/ QueueReply(c, r)

Gateway == (\E r \in Request : Deliver(r)) \/ Detach

Next ==
  \/ \E r \in Request : Handler(r) \/ ClientLeaves(r)
  \/ Gateway \/ PumpEnds
  \/ \E c \in Conn : Attach(c) \/ LinkBreaks(c) \/ GuestTask(c) \/ Drain(c) \/ LoopEnds(c)

Spec == Init /\ [][Next]_vars

(* Handlers, the guest's tasks and the gateway's read loop run; a capture   *)
(* is never more than two seconds away; driver calls return. Clients,       *)
(* guests and the network are free.                                         *)
FairSpec ==
  /\ Spec
  /\ \A r \in Request : WF_vars(SendAction(r) \/ Unsent(r)) /\ WF_vars(Expire(r) \/ CleanUp(r))
  /\ WF_vars(Gateway)
  /\ \A c \in Conn : WF_vars(GuestTask(c)) /\ WF_vars(Drain(c))

-----------------------------------------------------------------------------
Status(s) ==
  CASE s \in {"parked", "waiting", "expired"} -> "waiting" [] s = "answered" -> "result" [] OTHER -> s

Service == INSTANCE ActionService WITH status <- [r \in Request |-> Status(stage[r])]

(* Whatever timeouts, disconnects, redials and late replies do, a request   *)
(* is acted on at most once and never when it got a 503, gets one outcome,  *)
(* never another request's result, and always gets one.                     *)
ImplementsService == Service!Spec

(* An entry of pending belongs to the one request that has its id and is    *)
(* still waiting - or whose client has left, and then only until the guest  *)
(* answers: entries do not outlive their requests otherwise.                *)
NothingLeftBehind ==
  \A w \in pending :
    /\ id[w[2]] = w[1]
    /\ \/ stage[w[2]] \in {"parked", "waiting", "expired"}
       \/ stage[w[2]] = "left" /\ place[w[2]] # "told"

(* What the guest has done is reported: once an action runs, its reply      *)
(* leaves the guest however full the reply channel is and however still the *)
(* screen, unless the connection's loop or task ends first.                 *)
RepliesLeave ==
  \A r \in Request, c \in Conn :
    via[r] = c /\ place[r] \in {"running", "answer", "reply"} ~>
      place[r] \in {"up", "told"} \/ c \notin open \/ loop[c] = "ended"
=============================================================================
