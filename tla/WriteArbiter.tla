----------------------------- MODULE WriteArbiter -----------------------------
(***************************************************************************)
(* What the control lease promises, without clocks: at most one session    *)
(* holds WRITE, a writer that is live loses it only by releasing it or, if *)
(* it is an agent, to a human, and a writer that has lapsed (gone silent   *)
(* or idle for too long) may be replaced by anyone.                        *)
(*                                                                         *)
(* ControlLease.tla is the state machine of iapetus-proto/src/lease.rs and *)
(* implements this specification; the gateway modules use these actions    *)
(* wherever the gateway calls the lease.                                   *)
(***************************************************************************)
CONSTANTS Session,     (* the session ids that may ask for the lease        *)
          NoSession    (* the absence of a session                          *)

VARIABLES writer,      (* the session holding WRITE, or NoSession           *)
          kind,        (* the type of the actor behind it                   *)
          lapsed       (* has the writer been silent or idle for too long?  *)

arbiterVars == <<writer, kind, lapsed>>

Kind == {"agent", "human"}

TypeOK ==
  /\ writer \in Session \cup {NoSession}
  /\ kind \in Kind \cup {"none"}
  /\ lapsed \in BOOLEAN

Init == writer = NoSession /\ kind = "none" /\ lapsed = FALSE

Become(s, k) == writer' = s /\ kind' = k /\ lapsed' = FALSE

-----------------------------------------------------------------------------
(* The four outcomes of asking for the lease.                               *)

Grant(s, k) ==
  /\ writer = NoSession \/ lapsed
  /\ Become(s, k)

KeepOwn(s) ==
  /\ writer = s /\ ~lapsed
  /\ UNCHANGED arbiterVars

Preempt(s) ==
  /\ writer \notin {NoSession, s} /\ ~lapsed
  /\ kind = "agent"
  /\ Become(s, "human")

Refuse(s, k) ==
  /\ writer \notin {NoSession, s} /\ ~lapsed
  /\ ~(kind = "agent" /\ k = "human")
  /\ UNCHANGED arbiterVars

-----------------------------------------------------------------------------
Release(s) == writer = s /\ Become(NoSession, "none")

Reclaim == writer # NoSession /\ lapsed /\ Become(NoSession, "none")

Renew(s) == writer = s /\ lapsed' = FALSE /\ UNCHANGED <<writer, kind>>

Lapse == writer # NoSession /\ ~lapsed /\ lapsed' = TRUE /\ UNCHANGED <<writer, kind>>

Next ==
  \/ \E s \in Session, k \in Kind : Grant(s, k) \/ Refuse(s, k)
  \/ \E s \in Session : KeepOwn(s) \/ Preempt(s) \/ Release(s) \/ Renew(s)
  \/ Reclaim
  \/ Lapse

Safety == Init /\ [][Next]_arbiterVars

(* The fairness is the one-second reaper's: a lapsed writer nobody contends *)
(* with is reclaimed all the same.                                          *)
Spec == Safety /\ WF_arbiterVars(Reclaim)
=============================================================================
