------------------------ MODULE GatewayControl_proofs ------------------------
(***************************************************************************)
(* Proofs about GatewayControl for any number of viewers and of guest      *)
(* connections. The four safety invariants of the gateway's control plane  *)
(* follow from one inductive invariant, IInv: none of them is inductive    *)
(* alone, since each depends on which stages a viewer, a guest connection  *)
(* or the reaper can be in at all, and on where a closing task stands.     *)
(***************************************************************************)
EXTENDS GatewayControl, TLAPS

ViewerStage == {"new", "idle", "checked", "marked", "clear", "tell", "gone"}
GuestStage == {"out", "upgrading", "subscribed", "tell", "idle", "leaving", "unslot"}

(* The part of TypeOK the rest of the argument needs.                       *)
Typed ==
  /\ stage \in [Task -> Stage]
  /\ stray \in [Viewer -> 0..2]
  /\ closing \subseteq Viewer \cup Guest
  /\ writer \in Session \cup {NoSession}

(* Where a task can be, and where it can be once its socket has ended.      *)
Stages ==
  /\ \A v \in Viewer : stage[v] \in ViewerStage
  /\ \A g \in Guest : stage[g] \in GuestStage
  /\ \A v \in Viewer : v \in closing => stage[v] \in {"tell", "gone"}
  /\ \A v \in Viewer : stage[v] = "gone" => v \in closing
  /\ \A g \in Guest : g \in closing => stage[g] \in {"tell", "leaving", "unslot"}
  /\ \A g \in Guest : stage[g] \in {"leaving", "unslot"} => g \in closing

(* Only a viewer with a WRITE token is ever past the lease check.           *)
PastTheCheck == \A v \in Viewer : stage[v] \in {"checked", "marked"} => v \in Writers

(* The guest session's lease belongs to a connection still to detach.       *)
GuestPresent ==
  writer = GuestSession =>
    \E g \in Guest : \/ stage[g] \in {"tell", "idle"} /\ g \notin closing
                     \/ stage[g] = "leaving"

ViewersPresent ==
  \A v \in Viewer : writer = v => stage[v] \notin {"new", "gone"} /\ v \notin closing

(* A viewer that got an input through after losing the lease is past its    *)
(* handler, and gets there again only after acquiring, which clears it.     *)
StrayBehind ==
  \A v \in Viewer :
    /\ stray[v] <= 1
    /\ stray[v] = 1 => writer # v /\ stage[v] \notin {"checked", "marked"}

IInv ==
  /\ Typed /\ Stages
  /\ OneGuest /\ GuestPresent /\ ViewersPresent
  /\ ReadersNeverDrive /\ PastTheCheck
  /\ StrayBehind

USE TaskAssumption DEF Task, Session

(* Every variable keeps to its type (TypeOK).                               *)
THEOREM TypeCorrect == Spec => []TypeOK
<1> USE DEF Stage, Lease!Kind
<1>1. ASSUME Init PROVE TypeOK
  <2>1. Lease!TypeOK
    BY <1>1 DEF Init, Lease!Init, Lease!TypeOK
  <2>2. stage \in [Task -> Stage]
    BY <1>1 DEF Init
  <2>3. stray \in [Viewer -> 0..2] /\ held \subseteq Viewer
    BY <1>1 DEF Init
  <2>4. QED
    BY <1>1, <2>1, <2>2, <2>3 DEF Init, TypeOK
<1>2. TypeOK /\ [Next]_vars => TypeOK'
  <2> SUFFICES ASSUME TypeOK, [Next]_vars PROVE TypeOK'
    OBVIOUS
  <2> USE DEF TypeOK, Lease!TypeOK, Goto, leaseVars, taskVars, channelVars
  <2>1. ASSUME NEW v \in Viewer, OpenViewer(v) PROVE TypeOK'
    BY <2>1 DEF OpenViewer
  <2>2. ASSUME NEW v \in Viewer, Acquire(v) PROVE TypeOK'
    <3>1. Lease!TypeOK'
      BY <2>2 DEF Acquire, AcquireAnyLevel, Lease!Preempt, Lease!Grant, Lease!KeepOwn, Lease!Become,
                  Lease!arbiterVars
    <3>2. stage' \in [Task -> Stage]
      BY <2>2 DEF Acquire, AcquireAnyLevel
    <3>3. stray' \in [Viewer -> 0..2]
      BY <2>2 DEF Acquire, AcquireAnyLevel
    <3>4. QED
      BY <2>2, <3>1, <3>2, <3>3 DEF Acquire, AcquireAnyLevel
  <2>3. ASSUME NEW v \in Viewer, Relinquish(v) PROVE TypeOK'
    BY <2>3 DEF Relinquish, Lease!Release, Lease!Become
  <2>4. ASSUME NEW v \in Viewer, CloseViewer(v) PROVE TypeOK'
    BY <2>4 DEF CloseViewer, Lease!Release, Lease!Become, QueueReleaseAll
  <2>5. ASSUME NEW v \in Viewer, CheckInput(v) PROVE TypeOK'
    BY <2>5 DEF CheckInput, Pass
  <2>6. ASSUME NEW v \in Viewer, MarkInput(v) PROVE TypeOK'
    BY <2>6 DEF MarkInput, Lease!Renew
  <2>7. ASSUME NEW v \in Viewer, SendInput(v) PROVE TypeOK'
    BY <2>7 DEF SendInput, Forward
  <2>8. ASSUME NEW g \in Guest, ClaimSlot(g) PROVE TypeOK'
    BY <2>8 DEF ClaimSlot, TryClaimGuest
  <2>9. ASSUME NEW g \in Guest, Subscribe(g) PROVE TypeOK'
    BY <2>9 DEF Subscribe
  <2>10. ASSUME NEW g \in Guest, AttachGuest(g) PROVE TypeOK'
    BY <2>10 DEF AttachGuest, Lease!Grant, Lease!KeepOwn, Lease!Refuse, Lease!Become,
               Lease!arbiterVars
  <2>11. ASSUME NEW g \in Guest, GuestHangsUp(g) PROVE TypeOK'
    BY <2>11 DEF GuestHangsUp
  <2>12. ASSUME NEW g \in Guest, DetachGuest(g) PROVE TypeOK'
    BY <2>12 DEF DetachGuest, LeaveLease, Lease!Release, Lease!Become
  <2>13. ASSUME NEW g \in Guest, FreeSlot(g) PROVE TypeOK'
    BY <2>13 DEF FreeSlot, ReleaseGuest
  <2>14. ASSUME NEW t \in Task, SendReleaseAll(t) PROVE TypeOK'
    BY <2>14 DEF SendReleaseAll, QueueReleaseAll
  <2>15. ASSUME NEW t \in Task, Tell(t) PROVE TypeOK'
    BY <2>15 DEF Tell, AfterBroadcast
  <2>16. CASE PumpEnds
    BY <2>16 DEF PumpEnds
  <2>17. CASE Reap
    BY <2>17 DEF Reap, Lease!Reclaim, Lease!Become
  <2>18. CASE LapseWriter
    BY <2>18 DEF LapseWriter, Lease!Lapse
  <2>19. CASE UNCHANGED vars
    BY <2>19 DEF vars
  <2>20. QED
    BY <2>1, <2>2, <2>3, <2>4, <2>5, <2>6, <2>7, <2>8, <2>9, <2>10, <2>11,
       <2>12, <2>13, <2>14, <2>15, <2>16, <2>17, <2>18, <2>19
    DEF Next, ViewerStep, GuestStep, Broadcast
<1>3. QED
  BY <1>1, <1>2, PTL DEF Spec

LEMMA Initially == Init => IInv
<1> USE DEF IInv, Typed, Stage, Stages, ViewerStage, GuestStage,
           OneGuest, GuestPresent, ViewersPresent, ReadersNeverDrive, PastTheCheck, StrayBehind
<1>1. QED
  BY DEF Init, Lease!Init

(* No step breaks the invariant.                                            *)
LEMMA Inductive == IInv /\ [Next]_vars => IInv'
<1> SUFFICES ASSUME IInv, [Next]_vars PROVE IInv'
  OBVIOUS
<1> USE DEF IInv, Typed, Stage, Stages, ViewerStage, GuestStage,
           OneGuest, GuestPresent, ViewersPresent, ReadersNeverDrive, PastTheCheck, StrayBehind,
           Goto, leaseVars, taskVars, channelVars
<1>1. ASSUME NEW v \in Viewer, OpenViewer(v) PROVE IInv'
  BY <1>1 DEF OpenViewer
<1>2. ASSUME NEW v \in Viewer, Acquire(v) PROVE IInv'
  BY <1>2 DEF Acquire, AcquireAnyLevel, Lease!Preempt, Lease!Grant, Lease!KeepOwn, Lease!Become,
             Lease!arbiterVars
<1>3. ASSUME NEW v \in Viewer, Relinquish(v) PROVE IInv'
  BY <1>3 DEF Relinquish, Lease!Release, Lease!Become
<1>4. ASSUME NEW v \in Viewer, CloseViewer(v) PROVE IInv'
  BY <1>4 DEF CloseViewer, Lease!Release, Lease!Become, QueueReleaseAll
<1>5. ASSUME NEW v \in Viewer, CheckInput(v) PROVE IInv'
  BY <1>5 DEF CheckInput, Pass
<1>6. ASSUME NEW v \in Viewer, MarkInput(v) PROVE IInv'
  BY <1>6 DEF MarkInput, Lease!Renew
<1>7. ASSUME NEW v \in Viewer, SendInput(v) PROVE IInv'
  (* An input sent after the lease is gone raises the count from 0: the      *)
  (* count was 0 because StrayBehind forbids 1 at stage "marked".            *)
  BY <1>7 DEF SendInput, Forward
<1>8. ASSUME NEW g \in Guest, ClaimSlot(g) PROVE IInv'
  BY <1>8 DEF ClaimSlot, TryClaimGuest
<1>9. ASSUME NEW g \in Guest, Subscribe(g) PROVE IInv'
  BY <1>9 DEF Subscribe
<1>10. ASSUME NEW g \in Guest, AttachGuest(g) PROVE IInv'
  BY <1>10 DEF AttachGuest, Lease!Grant, Lease!KeepOwn, Lease!Refuse, Lease!Become,
             Lease!arbiterVars
<1>11. ASSUME NEW g \in Guest, GuestHangsUp(g) PROVE IInv'
  BY <1>11 DEF GuestHangsUp
<1>12. ASSUME NEW g \in Guest, DetachGuest(g) PROVE IInv'
  (* OneGuest: no other connection is attached whose lease this would free. *)
  BY <1>12 DEF DetachGuest, LeaveLease, Lease!Release, Lease!Become
<1>13. ASSUME NEW g \in Guest, FreeSlot(g) PROVE IInv'
  BY <1>13 DEF FreeSlot, ReleaseGuest
<1>14. ASSUME NEW t \in Task, SendReleaseAll(t) PROVE IInv'
  BY <1>14 DEF SendReleaseAll, QueueReleaseAll
<1>15. ASSUME NEW t \in Task, Tell(t) PROVE IInv'
  BY <1>15 DEF Tell, AfterBroadcast
<1>16. CASE PumpEnds
  BY <1>16 DEF PumpEnds
<1>17. CASE Reap
  BY <1>17 DEF Reap, Lease!Reclaim, Lease!Become
<1>18. CASE LapseWriter
  BY <1>18 DEF LapseWriter, Lease!Lapse
<1>19. CASE UNCHANGED vars
  BY <1>19 DEF vars
<1>20. QED
  BY <1>1, <1>2, <1>3, <1>4, <1>5, <1>6, <1>7, <1>8, <1>9, <1>10, <1>11,
     <1>12, <1>13, <1>14, <1>15, <1>16, <1>17, <1>18, <1>19
  DEF Next, ViewerStep, GuestStep, Broadcast

LEMMA Invariance == Spec => []IInv
  BY Initially, Inductive, PTL DEF Spec

-----------------------------------------------------------------------------
(* Whatever teardown interleaves with which acquire, the lease is never     *)
(* left with a viewer or a guest connection that has gone.                  *)
THEOREM HolderIsPresentHolds == Spec => []HolderIsPresent
<1>1. IInv => HolderIsPresent
  BY DEF IInv, HolderIsPresent, GuestPresent, ViewersPresent
<1>2. QED
  BY <1>1, Invariance, PTL

(* The ingest slot admits one guest connection, from the claim to the very  *)
(* end of its teardown.                                                     *)
THEOREM OneGuestHolds == Spec => []OneGuest
<1>1. IInv => OneGuest
  BY DEF IInv
<1>2. QED
  BY <1>1, Invariance, PTL

(* A read-only token never becomes the writer and never drives the Desktop. *)
THEOREM ReadersNeverDriveHolds == Spec => []ReadersNeverDrive
<1>1. IInv => ReadersNeverDrive
  BY DEF IInv
<1>2. QED
  BY <1>1, Invariance, PTL

(* A viewer that lost the lease gets one input through at most.             *)
THEOREM OneStrayInputHolds == Spec => []OneStrayInput
<1>1. IInv => OneStrayInput
  BY DEF IInv, OneStrayInput, StrayBehind
<1>2. QED
  BY <1>1, Invariance, PTL
=============================================================================
