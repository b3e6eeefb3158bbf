-------------------------- MODULE ControlLease_proofs --------------------------
(***************************************************************************)
(* Proofs about the control lease, for every set of sessions, every set of *)
(* heartbeat intervals and every clock bound.                              *)
(***************************************************************************)
EXTENDS ControlLease, TLAPS

(* The fields of a holder, and of the holder a call installs.               *)
LEMMA HolderFields ==
  ASSUME TypeOK, holder # NoHolder
  PROVE  /\ holder \in Holder
         /\ holder.session \in Session /\ holder.kind \in Kind
         /\ holder.since \in Nat /\ holder.last_input \in Nat
         /\ holder.last_heartbeat \in Nat /\ holder.heartbeat_interval \in Interval
  BY DEF TypeOK, Holder

LEMMA NewHolderType ==
  ASSUME now \in Nat, NEW s \in Session, NEW k \in Kind, NEW hb \in Interval
  PROVE  NewHolder(s, k, hb) \in Holder
  BY DEF NewHolder, Holder

(* Free and held are told apart by the session alone.                       *)
LEMMA FreeIffNoSession ==
  ASSUME TypeOK
  PROVE  holder = NoHolder <=> holder.session = NoSession
  BY HolderFields, SessionAssumption DEF TypeOK, NoHolder

(* The lease is always either free or held by a well-formed holder.         *)
THEOREM TypeCorrect == Spec => []TypeOK
<1>1. Init => TypeOK
  BY DEF Init, TypeOK, Answer, Reply, Outcome
<1>2. TypeOK /\ [Next]_vars => TypeOK'
  <2> SUFFICES ASSUME TypeOK, [Next]_vars PROVE TypeOK'
    OBVIOUS
  <2> USE DEF Answer, Reply, Outcome
  <2>1. CASE Tick
    BY <2>1 DEF Tick, TypeOK
  <2>2. CASE Reap
    <3>1. holder.session \in Session
      BY <2>2, HolderFields DEF Reap, Lapsed
    <3>2. QED
      BY <2>2, <3>1 DEF Reap, TypeOK
  <2>3. ASSUME NEW s \in Session, Call(s) PROVE TypeOK'
    <3>1. ASSUME NEW k \in Kind, NEW hb \in Interval, AcquireFree(s, k, hb) PROVE TypeOK'
      BY <3>1, NewHolderType DEF AcquireFree, TypeOK
    <3>2. ASSUME NEW k \in Kind, NEW hb \in Interval, AcquirePreempting(s, k, hb)
          PROVE TypeOK'
      <4>1. holder.session \in Session
        BY <3>2, HolderFields, SessionAssumption
           DEF AcquirePreempting, LiveHolder, NoHolder
      <4>2. QED
        BY <3>2, <4>1, NewHolderType DEF AcquirePreempting, TypeOK
    <3>3. ASSUME NEW k \in Kind, AcquireRefused(s, k) PROVE TypeOK'
      BY <3>3 DEF AcquireRefused, TypeOK
    <3>4. CASE AcquireOwn(s)
      <4>1. holder # NoHolder
        BY <3>4, SessionAssumption DEF AcquireOwn, LiveHolder, NoHolder
      <4>2. WithInput(holder) \in Holder
        BY <4>1, HolderFields DEF WithInput, Holder, TypeOK
      <4>3. QED
        BY <3>4, <4>2 DEF AcquireOwn, TypeOK
    <3>5. CASE MarkInput(s)
      <4>1. holder # NoHolder
        BY <3>5, SessionAssumption DEF MarkInput, NoHolder
      <4>2. WithInput(holder) \in Holder
        BY <4>1, HolderFields DEF WithInput, Holder, TypeOK
      <4>3. QED
        BY <3>5, <4>2 DEF MarkInput, TypeOK
    <3>6. CASE Heartbeat(s)
      <4>1. holder # NoHolder
        BY <3>6, SessionAssumption DEF Heartbeat, NoHolder
      <4>2. WithHeartbeat(holder) \in Holder
        BY <4>1, HolderFields DEF WithHeartbeat, Holder, TypeOK
      <4>3. QED
        BY <3>6, <4>2 DEF Heartbeat, TypeOK
    <3>7. CASE Release(s)
      BY <3>7 DEF Release, TypeOK
    <3>8. QED
      BY <2>3, <3>1, <3>2, <3>3, <3>4, <3>5, <3>6, <3>7 DEF Call
  <2>4. CASE UNCHANGED vars
    BY <2>4 DEF vars, TypeOK
  <2>5. QED
    BY <2>1, <2>2, <2>3, <2>4 DEF Next
<1>3. QED
  BY <1>1, <1>2, PTL DEF Spec

-----------------------------------------------------------------------------
(* A holder's timestamps never run ahead of the clock nor of one another:   *)
(* input counts as a heartbeat, so steady input alone keeps a lease alive.  *)
(* With TypeOK, ClockOrder is inductive as it stands.                       *)
THEOREM ClockOrderHolds == Spec => []ClockOrder
<1>1. Init => ClockOrder
  BY DEF Init, ClockOrder
<1>2. TypeOK /\ ClockOrder /\ [Next]_vars => ClockOrder'
  <2> SUFFICES ASSUME TypeOK, ClockOrder, [Next]_vars PROVE ClockOrder'
    OBVIOUS
  <2>1. CASE Tick
    BY <2>1, HolderFields DEF Tick, ClockOrder, TypeOK
  <2>2. CASE Reap
    BY <2>2 DEF Reap, ClockOrder
  <2>3. ASSUME NEW s \in Session, Call(s) PROVE ClockOrder'
    <3>1. ASSUME NEW k \in Kind, NEW hb \in Interval,
                 AcquireFree(s, k, hb) \/ AcquirePreempting(s, k, hb)
          PROVE ClockOrder'
      BY <3>1 DEF AcquireFree, AcquirePreempting, NewHolder, ClockOrder, TypeOK
    <3>2. ASSUME NEW k \in Kind, AcquireRefused(s, k) PROVE ClockOrder'
      BY <3>2 DEF AcquireRefused, ClockOrder
    <3>3. CASE AcquireOwn(s) \/ MarkInput(s)
      <4>1. holder # NoHolder
        BY <3>3, SessionAssumption DEF AcquireOwn, MarkInput, LiveHolder, NoHolder
      <4>2. /\ holder'.since = holder.since
            /\ holder'.last_input = now /\ holder'.last_heartbeat = now /\ now' = now
        BY <3>3, <4>1, HolderFields DEF AcquireOwn, MarkInput, WithInput, Holder
      <4>3. QED
        BY <4>1, <4>2, HolderFields DEF ClockOrder, TypeOK
    <3>4. CASE Heartbeat(s)
      <4>1. holder # NoHolder
        BY <3>4, SessionAssumption DEF Heartbeat, NoHolder
      <4>2. /\ holder'.since = holder.since /\ holder'.last_input = holder.last_input
            /\ holder'.last_heartbeat = now /\ now' = now
        BY <3>4, <4>1, HolderFields DEF Heartbeat, WithHeartbeat, Holder
      <4>3. QED
        BY <4>1, <4>2, HolderFields DEF ClockOrder, TypeOK
    <3>5. CASE Release(s)
      BY <3>5 DEF Release, ClockOrder
    <3>6. QED
      BY <2>3, <3>1, <3>2, <3>3, <3>4, <3>5 DEF Call
  <2>4. CASE UNCHANGED vars
    BY <2>4 DEF vars, ClockOrder
  <2>5. QED
    BY <2>1, <2>2, <2>3, <2>4 DEF Next
<1>3. QED
  BY <1>1, <1>2, TypeCorrect, PTL DEF Spec

-----------------------------------------------------------------------------
(* The silence after which a holder expires is a positive number.           *)
LEMMA LifetimeIsPositive ==
  ASSUME NEW hb \in Interval
  PROVE  hb * MissedIntervals \in Nat /\ hb * MissedIntervals > 0
<1>1. hb \in Nat /\ hb > 0
  BY IntervalAssumption
<1>2. QED
  BY <1>1, LimitsAssumption

(* A lease is never granted already lapsed: every grant leaves its holder   *)
(* time to live, whatever the intervals and the limits are.                 *)
LEMMA FreshHolderIsLive ==
  ASSUME now \in Nat, now' = now, NEW s \in Session, NEW k \in Kind, NEW hb \in Interval,
         holder' = NewHolder(s, k, hb)
  PROVE  Lapsed(holder)' = FALSE
<1>2. hb * MissedIntervals \in Nat /\ hb * MissedIntervals > 0
  BY LifetimeIsPositive
<1>3. /\ holder'.last_input = now /\ holder'.last_heartbeat = now
      /\ holder'.heartbeat_interval = hb
  BY DEF NewHolder
<1>4. Elapsed(holder.last_heartbeat)' = 0 /\ Elapsed(holder.last_input)' = 0
  BY <1>3 DEF Elapsed
<1>5. ~Expired(holder)' /\ ~IdledOut(holder)'
  BY <1>2, <1>3, <1>4, LimitsAssumption DEF Expired, IdledOut
<1>6. QED
  BY <1>5 DEF Lapsed

(* Input makes a holder live again: both of its clocks restart.             *)
LEMMA InputMakesLive ==
  ASSUME TypeOK, holder # NoHolder, now' = now, holder' = WithInput(holder)
  PROVE  /\ Lapsed(holder)' = FALSE
         /\ holder'.session = holder.session /\ holder'.kind = holder.kind
<1>1. holder.heartbeat_interval \in Interval
  BY HolderFields
<1>2. /\ holder.heartbeat_interval * MissedIntervals \in Nat
      /\ holder.heartbeat_interval * MissedIntervals > 0
  BY <1>1, LifetimeIsPositive
<1>3. /\ holder'.last_input = now /\ holder'.last_heartbeat = now
      /\ holder'.heartbeat_interval = holder.heartbeat_interval
      /\ holder'.session = holder.session /\ holder'.kind = holder.kind
  BY HolderFields DEF WithInput, Holder
<1>4. Elapsed(holder.last_heartbeat)' = 0 /\ Elapsed(holder.last_input)' = 0
  BY <1>3 DEF Elapsed, TypeOK
<1>5. ~Expired(holder)' /\ ~IdledOut(holder)'
  BY <1>2, <1>3, <1>4, LimitsAssumption DEF Expired, IdledOut
<1>6. QED
  BY <1>3, <1>5 DEF Lapsed

(* Time only makes a lease lapse: a lapsed holder stays so until a call.    *)
LEMMA TickKeepsLapsed ==
  ASSUME TypeOK, Tick, Lapsed(holder)
  PROVE  Lapsed(holder)'
<1>1. /\ holder \in Holder /\ holder' = holder /\ now' = now + 1 /\ now \in Nat
      /\ holder.last_input \in Nat /\ holder.last_heartbeat \in Nat
      /\ holder.heartbeat_interval \in Nat
  BY HolderFields, IntervalAssumption DEF Lapsed, Tick, TypeOK
<1>2. holder.heartbeat_interval * MissedIntervals \in Nat
  BY <1>1, LimitsAssumption
<1>3. /\ Elapsed(holder.last_input)' >= Elapsed(holder.last_input)
      /\ Elapsed(holder.last_heartbeat)' >= Elapsed(holder.last_heartbeat)
      /\ Elapsed(holder.last_input) \in Nat /\ Elapsed(holder.last_input)' \in Nat
      /\ Elapsed(holder.last_heartbeat) \in Nat /\ Elapsed(holder.last_heartbeat)' \in Nat
  BY <1>1 DEF Elapsed
<1>4. Expired(holder) => Expired(holder)'
  BY <1>1, <1>2, <1>3 DEF Expired
<1>5. IdledOut(holder) => IdledOut(holder)'
  BY <1>1, <1>3, LimitsAssumption DEF IdledOut
<1>6. QED
  BY <1>1, <1>4, <1>5 DEF Lapsed

(* Every step of the lease is a step of the clockless arbiter or a stutter  *)
(* of it: the clock matters only through whether the holder has lapsed.     *)
THEOREM ImplementsArbiterSafety == Spec => Arbiter!Safety
<1> USE DEF Arbiter!Kind, Kind
<1>1. Init => Arbiter!Init
  BY DEF Init, NoHolder, Lapsed, Arbiter!Init
<1>2. TypeOK /\ [Next]_vars => [Arbiter!Next]_Arbiter!arbiterVars
  <2> SUFFICES ASSUME TypeOK, [Next]_vars
               PROVE  [Arbiter!Next]_Arbiter!arbiterVars
    OBVIOUS
  <2> USE DEF Arbiter!Next
  <2>1. CASE Tick
    <3>1. holder' = holder
      BY <2>1 DEF Tick
    <3>2. CASE Lapsed(holder)
      <4>1. Lapsed(holder)' /\ (Lapsed(holder)' <=> Lapsed(holder))
        BY <2>1, <3>2, TickKeepsLapsed
      <4>2. Lapsed(holder)' = Lapsed(holder)
        BY <4>1 DEF Lapsed
      <4>3. QED
        BY <3>1, <4>2 DEF Arbiter!arbiterVars
    <3>3. CASE ~Lapsed(holder) /\ ~Lapsed(holder)'
      <4>1. Lapsed(holder)' = Lapsed(holder)
        BY <3>3 DEF Lapsed
      <4>2. QED
        BY <3>1, <4>1 DEF Arbiter!arbiterVars
    <3>4. CASE ~Lapsed(holder) /\ Lapsed(holder)'
      <4>1. Lapsed(holder)' = TRUE
        BY <3>4 DEF Lapsed
      <4>2. holder.session # NoSession
        BY <3>1, <3>4, FreeIffNoSession DEF Lapsed
      <4>3. Arbiter!Lapse
        BY <3>1, <3>4, <4>1, <4>2 DEF Arbiter!Lapse
      <4>4. QED
        BY <4>3
    <3>5. QED
      BY <3>2, <3>3, <3>4
  <2>2. CASE Reap
    <3>1. holder.session # NoSession /\ holder'.session = NoSession /\ holder'.kind = "none"
      BY <2>2, FreeIffNoSession DEF Reap, Lapsed, NoHolder
    <3>2. Lapsed(holder)' = FALSE
      BY <2>2 DEF Reap, Lapsed
    <3>3. Arbiter!Reclaim
      BY <2>2, <3>1, <3>2 DEF Reap, Arbiter!Reclaim, Arbiter!Become
    <3>4. QED
      BY <3>3
  <2>3. ASSUME NEW s \in Session, Call(s) PROVE [Arbiter!Next]_Arbiter!arbiterVars
    <3>1. ASSUME NEW k \in Kind, NEW hb \in Interval, AcquireFree(s, k, hb)
          PROVE  Arbiter!Grant(s, k)
      <4>1. holder' = NewHolder(s, k, hb) /\ now' = now
        BY <3>1 DEF AcquireFree
      <4>2. Lapsed(holder)' = FALSE
        BY <4>1, FreshHolderIsLive DEF TypeOK
      <4>3. holder'.session = s /\ holder'.kind = k
        BY <4>1 DEF NewHolder
      <4>4. holder.session = NoSession \/ Lapsed(holder)
        BY <3>1, FreeIffNoSession DEF AcquireFree, LiveHolder
      <4>5. QED
        BY <4>2, <4>3, <4>4 DEF Arbiter!Grant, Arbiter!Become
    <3>2. ASSUME NEW k \in Kind, NEW hb \in Interval, AcquirePreempting(s, k, hb)
          PROVE  Arbiter!Preempt(s)
      <4>1. /\ holder' = NewHolder(s, k, hb) /\ now' = now
            /\ holder.kind = "agent" /\ k = "human"
        BY <3>2 DEF AcquirePreempting, MayPreempt
      <4>2. Lapsed(holder)' = FALSE
        BY <4>1, FreshHolderIsLive DEF TypeOK
      <4>3. holder'.session = s /\ holder'.kind = "human"
        BY <4>1 DEF NewHolder
      <4>4. holder.session \notin {NoSession, s} /\ ~Lapsed(holder)
        BY <3>2 DEF AcquirePreempting, LiveHolder, NoHolder
      <4>5. QED
        BY <4>1, <4>2, <4>3, <4>4 DEF Arbiter!Preempt, Arbiter!Become
    <3>3. ASSUME NEW k \in Kind, AcquireRefused(s, k)
          PROVE  UNCHANGED Arbiter!arbiterVars
      <4>1. holder' = holder /\ now' = now
        BY <3>3 DEF AcquireRefused
      <4>2. Lapsed(holder)' = Lapsed(holder)
        BY <4>1 DEF Lapsed, Expired, IdledOut, Elapsed
      <4>3. QED
        BY <4>1, <4>2 DEF Arbiter!arbiterVars
    <3>4. CASE AcquireOwn(s) \/ MarkInput(s)
      <4>1. /\ holder # NoHolder /\ holder.session = s
            /\ holder' = WithInput(holder) /\ now' = now
        BY <3>4, SessionAssumption DEF AcquireOwn, MarkInput, LiveHolder, NoHolder
      <4>2. Arbiter!Renew(s)
        BY <4>1, InputMakesLive DEF Arbiter!Renew
      <4>3. QED
        BY <4>2
    <3>5. CASE Heartbeat(s)
      <4>1. holder # NoHolder /\ holder.session = s /\ now' = now
        BY <3>5, SessionAssumption DEF Heartbeat, NoHolder
      <4>2. /\ holder'.session = holder.session /\ holder'.kind = holder.kind
            /\ holder'.last_input = holder.last_input
            /\ holder'.last_heartbeat = now
            /\ holder'.heartbeat_interval = holder.heartbeat_interval
        BY <3>5, <4>1, HolderFields DEF Heartbeat, WithHeartbeat, Holder
      <4>3. IdledOut(holder)' = IdledOut(holder)
        BY <4>1, <4>2 DEF IdledOut, Elapsed
      <4>4. ~Expired(holder)'
        <5>1. holder.heartbeat_interval \in Interval
          BY <4>1, HolderFields
        <5>2. /\ holder.heartbeat_interval * MissedIntervals \in Nat
              /\ holder.heartbeat_interval * MissedIntervals > 0
          BY <5>1, LifetimeIsPositive
        <5>3. Elapsed(holder.last_heartbeat)' = 0
          BY <4>1, <4>2 DEF Elapsed, TypeOK
        <5>4. QED
          BY <4>2, <5>2, <5>3, LimitsAssumption DEF Expired
      <4>5. CASE Lapsed(holder)'
        <5>1. Lapsed(holder) /\ Lapsed(holder)' = TRUE
          BY <4>1, <4>3, <4>4, <4>5 DEF Lapsed
        <5>2. Lapsed(holder)' = Lapsed(holder)
          BY <5>1 DEF Lapsed
        <5>3. QED
          BY <4>2, <5>2 DEF Arbiter!arbiterVars
      <4>6. CASE ~Lapsed(holder)'
        <5>1. Lapsed(holder)' = FALSE
          BY <4>6 DEF Lapsed
        <5>2. Arbiter!Renew(s)
          BY <4>1, <4>2, <5>1 DEF Arbiter!Renew
        <5>3. QED
          BY <5>2
      <4>7. QED
        BY <4>5, <4>6
    <3>6. CASE Release(s)
      <4>1. holder.session = s /\ holder' = NoHolder
        BY <3>6 DEF Release
      <4>2. Lapsed(holder)' = FALSE
        BY <4>1 DEF Lapsed
      <4>3. Arbiter!Release(s)
        BY <4>1, <4>2 DEF Arbiter!Release, Arbiter!Become, NoHolder
      <4>4. QED
        BY <4>3
    <3>7. QED
      BY <2>3, <3>1, <3>2, <3>3, <3>4, <3>5, <3>6 DEF Call
  <2>4. CASE UNCHANGED vars
    <3>1. Lapsed(holder)' = Lapsed(holder)
      BY <2>4 DEF vars, Lapsed, Expired, IdledOut, Elapsed
    <3>2. QED
      BY <2>4, <3>1 DEF vars, Arbiter!arbiterVars
  <2>5. QED
    BY <2>1, <2>2, <2>3, <2>4 DEF Next
<1>3. QED
  BY <1>1, <1>2, TypeCorrect, PTL DEF Spec, Arbiter!Safety

-----------------------------------------------------------------------------
(* What takes a live lease from its holder: its own release, or a human's   *)
(* preemption of an agent. The other calls keep or refuse.                  *)
LEMMA LossOfALiveLease ==
  ASSUME TypeOK, [Next]_vars, holder # NoHolder, ~Lapsed(holder),
         holder'.session # holder.session
  PROVE  \/ Release(holder.session)
         \/ \E s \in Session, k \in Kind, hb \in Interval : AcquirePreempting(s, k, hb)
<1>1. ~Tick /\ ~Reap /\ ~UNCHANGED vars
  BY DEF Tick, Reap, vars
<1>2. PICK s \in Session : Call(s)
  BY <1>1 DEF Next
<1>3. holder.session # NoSession /\ LiveHolder = holder
  BY FreeIffNoSession DEF LiveHolder
<1>4. ~AcquireOwn(s) /\ ~MarkInput(s) /\ ~Heartbeat(s)
  <2>1. /\ WithInput(holder).session = holder.session
        /\ WithHeartbeat(holder).session = holder.session
    BY HolderFields DEF WithInput, WithHeartbeat, Holder
  <2>2. QED
    BY <2>1 DEF AcquireOwn, MarkInput, Heartbeat
<1>5. \A k \in Kind : ~AcquireRefused(s, k)
  BY DEF AcquireRefused
<1>6. \A k \in Kind, hb \in Interval : ~AcquireFree(s, k, hb)
  BY <1>3 DEF AcquireFree
<1>7. CASE Release(s)
  BY <1>7 DEF Release
<1>8. QED
  BY <1>2, <1>4, <1>5, <1>6, <1>7 DEF Call

(* No live human ever loses the lease to anyone but itself, and an agent    *)
(* loses it to another session only if that session acts for a human.       *)
THEOREM OneWayPreemptionHolds == Spec => OneWayPreemption
<1> DEFINE Displaced == /\ holder # NoHolder /\ ~Lapsed(holder)
                        /\ holder'.session \notin {holder.session, NoSession}
           Lawful == Displaced => holder.kind = "agent" /\ holder'.kind = "human"
<1>1. TypeOK /\ [Next]_vars => [Lawful]_vars
  <2> SUFFICES ASSUME TypeOK, [Next]_vars, Displaced
               PROVE  holder.kind = "agent" /\ holder'.kind = "human"
    BY DEF vars
  <2>1. ~Release(holder.session)
    BY DEF Release, NoHolder
  <2>2. PICK s \in Session, k \in Kind, hb \in Interval : AcquirePreempting(s, k, hb)
    BY <2>1, LossOfALiveLease
  <2>3. QED
    BY <2>2 DEF AcquirePreempting, MayPreempt, NewHolder
<1>2. QED
  BY <1>1, TypeCorrect, PTL DEF Spec, OneWayPreemption

(* Whoever takes a live lease away is told whose it was.                    *)
THEOREM LossIsReportedHolds == Spec => LossIsReported
<1> DEFINE Lost == holder # NoHolder /\ ~Lapsed(holder) /\ holder'.session # holder.session
<1>1. TypeOK /\ [Next]_vars => [Lost => reply'.revoked = holder.session]_vars
  <2> SUFFICES ASSUME TypeOK, [Next]_vars, Lost PROVE reply'.revoked = holder.session
    BY DEF vars
  <2>1. CASE Release(holder.session)
    BY <2>1 DEF Release, Answer
  <2>2. CASE \E s \in Session, k \in Kind, hb \in Interval : AcquirePreempting(s, k, hb)
    BY <2>2 DEF AcquirePreempting, Answer
  <2>3. QED
    BY <2>1, <2>2, LossOfALiveLease
<1>2. QED
  BY <1>1, TypeCorrect, PTL DEF Spec, LossIsReported

(* Silence aside, only a human or itself ends an agent's lease.             *)
THEOREM AgentNeverIdlesOutHolds == Spec => AgentNeverIdlesOut
<1> DEFINE Lost == holder.kind = "agent" /\ ~Expired(holder) /\ holder'.session # holder.session
           Lawful == Lost => holder'.kind = "human" \/ Release(holder.session)
<1>1. TypeOK /\ [Next]_vars => [Lawful]_vars
  <2> SUFFICES ASSUME TypeOK, [Next]_vars, Lost, ~Release(holder.session)
               PROVE  holder'.kind = "human"
    BY DEF vars
  <2>1. holder # NoHolder /\ ~Lapsed(holder)
    BY DEF NoHolder, Lapsed, IdledOut
  <2>2. PICK s \in Session, k \in Kind, hb \in Interval : AcquirePreempting(s, k, hb)
    BY <2>1, LossOfALiveLease
  <2>3. QED
    BY <2>2 DEF AcquirePreempting, MayPreempt, NewHolder
<1>2. QED
  BY <1>1, TypeCorrect, PTL DEF Spec, AgentNeverIdlesOut
=============================================================================
