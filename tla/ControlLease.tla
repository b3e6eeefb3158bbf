----------------------------- MODULE ControlLease -----------------------------
(***************************************************************************)
(* The control lease, iapetus-proto/src/lease.rs: one holder of WRITE, the *)
(* arbitration of acquire, renewal by input and by heartbeats, release,    *)
(* and reaping. The code is handed `now` by its caller; here now is a      *)
(* variable that Tick advances, in units of one heartbeat interval step    *)
(* chosen by the configuration (the code counts milliseconds; only         *)
(* differences are ever compared).                                         *)
(*                                                                         *)
(* An actor is its type: the id is carried along but decides nothing.      *)
(* Calls that change nothing and answer nothing (release, mark_input and   *)
(* heartbeat by a session that does not hold the lease, reap of a live     *)
(* holder) are stuttering steps and have no action.                        *)
(***************************************************************************)
EXTENDS Naturals

CONSTANTS Session,            (* session ids                                *)
          NoSession,          (* no session: a free lease                   *)
          Interval,           (* heartbeat intervals callers pass to acquire *)
          MissedIntervals,    (* limits.rs LEASE_MISSED_INTERVALS           *)
          HumanIdle,          (* limits.rs HUMAN_IDLE_HANDOVER_SEC          *)
          MaxTime             (* bound on the clock                         *)

ASSUME SessionAssumption == NoSession \notin Session
ASSUME IntervalAssumption == Interval \subseteq Nat \ {0}
ASSUME LimitsAssumption == MissedIntervals \in Nat \ {0} /\ HumanIdle \in Nat \ {0}
ASSUME MaxTimeAssumption == MaxTime \in Nat

VARIABLES now,        (* the caller's monotonic clock                       *)
          holder,     (* ControlLease.holder: a Holder, or NoHolder         *)
          reply       (* what the last call returned to its caller          *)

vars == <<now, holder, reply>>

Kind == {"agent", "human"}

Holder == [session: Session, kind: Kind, since: Nat, last_input: Nat,
           last_heartbeat: Nat, heartbeat_interval: Interval]

NoHolder == [session |-> NoSession, kind |-> "none", since |-> 0, last_input |-> 0,
             last_heartbeat |-> 0, heartbeat_interval |-> 0]

Outcome == {"None", "Granted", "AlreadyHeld", "Preempted", "Held", "LeaseExpired", "Released"}

(* revoked is the session of the Revoked the caller is handed, if any.      *)
Reply == [outcome: Outcome, revoked: Session \cup {NoSession}]

Answer(o, s) == [outcome |-> o, revoked |-> s]

TypeOK ==
  /\ now \in Nat
  /\ holder \in Holder \cup {NoHolder}
  /\ reply \in Reply

-----------------------------------------------------------------------------
(* u64::saturating_sub                                                      *)
Elapsed(t) == IF now >= t THEN now - t ELSE 0

Expired(h) == Elapsed(h.last_heartbeat) >= h.heartbeat_interval * MissedIntervals

IdledOutAnyKind(h) == Elapsed(h.last_input) >= HumanIdle
IdledOut(h) == h.kind = "human" /\ Elapsed(h.last_input) >= HumanIdle

Lapsed(h) == h # NoHolder /\ (Expired(h) \/ IdledOut(h))

NewHolderUnsetInterval(s, k, hb) ==
  [session |-> s, kind |-> k, since |-> now, last_input |-> now,
   last_heartbeat |-> now, heartbeat_interval |-> 0]
NewHolder(s, k, hb) ==
  [session |-> s, kind |-> k, since |-> now, last_input |-> now,
   last_heartbeat |-> now, heartbeat_interval |-> hb]

WithInputOnly(h) == [h EXCEPT !.last_input = now]
WithInput(h) == [h EXCEPT !.last_input = now, !.last_heartbeat = now]

WithHeartbeat(h) == [h EXCEPT !.last_heartbeat = now]

(* acquire and the timer clear a lapsed holder before anything else; acquire *)
(* throws the Revoked away.                                                  *)
LiveHolder == IF Lapsed(holder) THEN NoHolder ELSE holder

-----------------------------------------------------------------------------
Init == now = 0 /\ holder = NoHolder /\ reply = Answer("None", NoSession)

Tick ==
  /\ now < MaxTime
  /\ now' = now + 1
  /\ UNCHANGED <<holder, reply>>

AcquireFree(s, k, hb) ==
  /\ LiveHolder = NoHolder
  /\ holder' = NewHolder(s, k, hb)
  /\ reply' = Answer("Granted", NoSession)
  /\ UNCHANGED now

AcquireOwn(s) ==
  /\ LiveHolder.session = s
  /\ holder' = WithInput(holder)
  /\ reply' = Answer("AlreadyHeld", NoSession)
  /\ UNCHANGED now

MayPreemptAlways(k) == k = "human"
MayPreempt(k) == holder.kind = "agent" /\ k = "human"

AcquirePreemptingSilently(s, k, hb) ==
  /\ LiveHolder.session \notin {s, NoSession}
  /\ MayPreempt(k)
  /\ holder' = NewHolder(s, k, hb)
  /\ reply' = Answer("Granted", NoSession)
  /\ UNCHANGED now

AcquirePreempting(s, k, hb) ==
  /\ LiveHolder.session \notin {s, NoSession}
  /\ MayPreempt(k)
  /\ holder' = NewHolder(s, k, hb)
  /\ reply' = Answer("Preempted", holder.session)
  /\ UNCHANGED now

AcquireRefused(s, k) ==
  /\ LiveHolder.session \notin {s, NoSession}
  /\ ~MayPreempt(k)
  /\ reply' = Answer("Held", NoSession)
  /\ UNCHANGED <<now, holder>>

MarkInput(s) ==
  /\ holder.session = s
  /\ holder' = WithInput(holder)
  /\ reply' = Answer("None", NoSession)
  /\ UNCHANGED now

Heartbeat(s) ==
  /\ holder.session = s
  /\ holder' = WithHeartbeat(holder)
  /\ reply' = Answer("None", NoSession)
  /\ UNCHANGED now

Release(s) ==
  /\ holder.session = s
  /\ holder' = NoHolder
  /\ reply' = Answer("Released", s)
  /\ UNCHANGED now

ReapHumansOnly ==
  /\ holder # NoHolder /\ IdledOut(holder)
  /\ holder' = NoHolder
  /\ reply' = Answer("Released", holder.session)
  /\ UNCHANGED now

Reap ==
  /\ Lapsed(holder)
  /\ holder' = NoHolder
  /\ reply' = Answer(IF Expired(holder) THEN "LeaseExpired" ELSE "Released", holder.session)
  /\ UNCHANGED now

Call(s) ==
  \/ \E k \in Kind, hb \in Interval :
       AcquireFree(s, k, hb) \/ AcquirePreempting(s, k, hb)
  \/ \E k \in Kind : AcquireRefused(s, k)
  \/ AcquireOwn(s)
  \/ MarkInput(s) \/ Heartbeat(s) \/ Release(s)

Next == Tick \/ Reap \/ \E s \in Session : Call(s)

Spec == Init /\ [][Next]_vars

(* The gateway reaps on a one-second timer that no request can hold up.     *)
FairSpec == Spec /\ WF_vars(Reap)

-----------------------------------------------------------------------------
(* The holder's timestamps are ordered: nothing is recorded before the      *)
(* lease was taken, and input always counts as a heartbeat (mark_input sets *)
(* both), so a holder that keeps typing can never be reclaimed as silent.   *)
ClockOrder ==
  holder # NoHolder =>
    /\ holder.since <= holder.last_input
    /\ holder.last_input <= holder.last_heartbeat
    /\ holder.last_heartbeat <= now

(* A live holder is displaced in one way only: an agent, by a human. A live *)
(* human's lease never passes straight to anyone, and an agent's never      *)
(* passes straight to another agent (the arbitration table of acquire).     *)
OneWayPreemption ==
  [][ (holder # NoHolder /\ ~Lapsed(holder)
        /\ holder'.session \notin {holder.session, NoSession})
      => holder.kind = "agent" /\ holder'.kind = "human" ]_vars

(* A session that loses a live lease is named to the caller that took it    *)
(* away (Preempted.previous, or the Revoked of release), which is all the   *)
(* gateway has to revoke it and to release its keys.                        *)
LossIsReported ==
  [][ (holder # NoHolder /\ ~Lapsed(holder) /\ holder'.session # holder.session)
      => reply'.revoked = holder.session ]_vars

(* An agent that keeps beating keeps the lease however long it sends no     *)
(* input: it is taken from it only by a human, by itself, or after silence. *)
AgentNeverIdlesOut ==
  [][ (holder.kind = "agent" /\ ~Expired(holder) /\ holder'.session # holder.session)
      => holder'.kind = "human" \/ Release(holder.session) ]_vars

(* The arbitration the code implements, with the clock reduced to whether   *)
(* the holder has lapsed.                                                   *)
Arbiter == INSTANCE WriteArbiter WITH
             writer <- holder.session, kind <- holder.kind, lapsed <- Lapsed(holder)

ImplementsArbiter == Arbiter!Spec
=============================================================================
