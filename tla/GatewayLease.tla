----------------------------- MODULE GatewayLease -----------------------------
(***************************************************************************)
(* The control lease as iapetus-gateway/src/main.rs drives it: every call  *)
(* the gateway makes on ControlLease, with the clock. Viewers acquire as   *)
(* humans, the guest as an agent; input renews, release and teardown free, *)
(* the timer reaps. Neither the viewer page nor the gateway ever sends a   *)
(* heartbeat, so ControlLease!Heartbeat has no caller here.                *)
(***************************************************************************)
EXTENDS ControlLease

CONSTANTS GuestSession,     (* GUEST_SESSION                                *)
          HEARTBEAT         (* the interval the gateway passes to acquire   *)

Acquire(s, k) ==
  \/ AcquireFree(s, k, HEARTBEAT) \/ AcquirePreempting(s, k, HEARTBEAT)
  \/ AcquireOwn(s) \/ AcquireRefused(s, k)

(* viewer_socket: input passes only while the viewer holds the lease.       *)
ViewerCall(s) == Acquire(s, "human") \/ MarkInput(s) \/ Release(s)

(* guest_socket: on attaching and on detaching                              *)
GuestCall == Acquire(GuestSession, "agent") \/ Release(GuestSession)

GatewayNext == Tick \/ Reap \/ GuestCall \/ \E s \in Session \ {GuestSession} : ViewerCall(s)

GatewaySpec == Init /\ [][GatewayNext]_vars

(* "An idle human is still connected": a human loses the lease against its  *)
(* will only after the full idle gap without input, not for silence.        *)
HumanKeepsLeaseUntilIdle ==
  [][ holder.kind = "human" /\ ~IdledOut(holder) /\ holder'.session # holder.session
      => Release(holder.session) ]_vars
=============================================================================
