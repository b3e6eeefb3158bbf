---------------------------- MODULE ActionService ----------------------------
(***************************************************************************)
(* What POST /v1/action promises its caller, without ids, sockets or       *)
(* guests: a request is taken up by the desktop at most once, one that was *)
(* refused never; it is told one outcome, and a result is the result of    *)
(* its own action. A request that timed out, or whose client left, may     *)
(* still be taken up: a timeout does not say that nothing happened.        *)
(***************************************************************************)
CONSTANT Request

VARIABLES status,    (* what the client of each request knows               *)
          results,   (* the actions whose results it was handed             *)
          handled    (* requests the desktop has taken up                    *)

vars == <<status, results, handled>>

Status == {"new", "waiting", "result", "refused", "timeout", "left"}

Init ==
  /\ status = [r \in Request |-> "new"]
  /\ results = [r \in Request |-> {}]
  /\ handled = {}

Become(r, from, to) == status[r] = from /\ status' = [status EXCEPT ![r] = to]

Ask(r) == Become(r, "new", "waiting") /\ UNCHANGED <<results, handled>>

TakeUp(r) ==
  /\ status[r] \notin {"new", "refused"} /\ r \notin handled
  /\ handled' = handled \cup {r}
  /\ UNCHANGED <<status, results>>

Answer(r) ==
  /\ r \in handled /\ Become(r, "waiting", "result")
  /\ results' = [results EXCEPT ![r] = {r}]
  /\ UNCHANGED handled

(* 400 before anything was asked, 503 when no desktop is attached           *)
Refuse(r) ==
  /\ r \notin handled
  /\ Become(r, "new", "refused") \/ Become(r, "waiting", "refused")
  /\ UNCHANGED <<results, handled>>

GiveUp(r) == Become(r, "waiting", "timeout") /\ UNCHANGED <<results, handled>>
Leave(r) == Become(r, "waiting", "left") /\ UNCHANGED <<results, handled>>

Resolve(r) == Answer(r) \/ GiveUp(r) \/ Leave(r) \/ (status[r] = "waiting" /\ Refuse(r))

Next == \E r \in Request : Ask(r) \/ TakeUp(r) \/ Refuse(r) \/ Resolve(r)

(* Nobody waits for ever.                                                   *)
Spec == Init /\ [][Next]_vars /\ \A r \in Request : WF_vars(Resolve(r))
=============================================================================
