------------------------------- MODULE MCTokens -------------------------------
(* Tokens for TLC. is_revoked asks neither who signed a token nor what time  *)
(* the gateway has, and no cap asks what was revoked: once something has     *)
(* been, the clock is followed less far and the service keeps its key.       *)
EXTENDS Tokens

CONSTANT MaxTimeRevoking  (* bound on the clocks once a token was revoked *)

OneKey == key = GatewayKey /\ \A t \in tokens : t.key = GatewayKey

CapsOrRevocations ==
  revocations # {} => OneKey /\ now <= MaxTimeRevoking /\ gatewayNow <= MaxTimeRevoking
=============================================================================
