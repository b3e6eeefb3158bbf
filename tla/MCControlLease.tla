---------------------------- MODULE MCControlLease ----------------------------
(* Sessions that may each act for an agent or a human, and two heartbeat     *)
(* intervals on either side of the idle gap: with interval 1 a silent holder *)
(* expires before a human idles out, with interval 2 after it.               *)
EXTENDS ControlLease

MCInterval == {1, 2}
=============================================================================
