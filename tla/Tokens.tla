-------------------------------- MODULE Tokens --------------------------------
(***************************************************************************)
(* Access tokens: the Control Plane (iapetus-controlplane/src/lib.rs)      *)
(* issues, refreshes and revokes them, the gateway verifies them           *)
(* (iapetus-auth/src/lib.rs), each by its own wall clock. A token is its   *)
(* claims and the key it is signed with; a signature verifies under that   *)
(* key alone. Claims nobody decides on (names, desktops) are left out, and *)
(* the scopes nobody asks for.                                             *)
(*                                                                         *)
(* The Control Plane may be restarted, with another signing key or not; it *)
(* keeps its list of revocations and its jti counter in memory only.       *)
(***************************************************************************)
EXTENDS FiniteSets, Integers

CONSTANTS Key, GatewayKey,       (* signing keys; the one in the gateway's JWKS *)
          AgentCap, ViewerCap,   (* total lifetimes                            *)
          AgentTtl, ViewerTtl,   (* of a refreshed token                       *)
          RevocationTtl,
          IssueTtl,              (* lifetimes callers ask for when issuing     *)
          Drift,                 (* bound: how far the two clocks are apart    *)
          MaxTime, MaxTokens, MaxRuns, MaxRevocations     (* bounds             *)

ASSUME TokensAssumption ==
  /\ GatewayKey \in Key
  /\ {AgentCap, ViewerCap, AgentTtl, ViewerTtl, RevocationTtl} \subseteq Nat \ {0}
  /\ IssueTtl \subseteq Int
  /\ Drift \in Nat /\ MaxTime \in Nat /\ MaxTokens \in Nat /\ MaxRuns \in Nat
  /\ MaxRevocations \in Nat

Actor == {"agent", "human"}
Level == {"read", "write"}
Audience == {"iapetus", "iapetus-guest"}
Kind == {"agent", "viewer"}

Control == "desktop:control"
HumanMandatory == {"desktop:owners:manage", "desktop:audit:read"}
Scope == {Control}

(* What a body asks for. Whatever it says of control but "write" is "read". *)
IssueRequest ==
  [kind : Kind, actor : Actor, scopes : SUBSET Scope, control : Level, ttl : IssueTtl]

(* origin is not a claim: it remembers what was issued first, and when.     *)
Token == [jti : Nat, run : Nat, key : Key, aud : Audience, actor : Actor, scopes : SUBSET Scope,
          iat : Nat, exp : Int, orig_iat : Nat,
          origin : [at : Nat, actor : Actor, level : Level]]

(* A call of revoke: the jti, the run its token is of, the run that was     *)
(* called, and when.                                                        *)
Revocation == [jti : Nat, of : Nat, during : Nat, at : Nat]

VARIABLES now, gatewayNow,   (* the wall clocks                                *)
          tokens,            (* every token handed out                         *)
          key, run,          (* of the Control Plane since it was started      *)
          counter,           (* TokenService.counter                           *)
          revoked,           (* TokenService.revoked: jti and when it is dropped *)
          revocations        (* history: when each token was last revoked in each run *)

clocks == <<now, gatewayNow>>
service == <<key, run, counter, revoked, revocations>>
vars == <<clocks, tokens, service>>

TypeOK ==
  /\ now \in Nat /\ gatewayNow \in Nat
  /\ tokens \subseteq Token
  /\ key \in Key /\ run \in Nat /\ counter \in Nat
  /\ revoked \subseteq Nat \X Nat
  /\ revocations \subseteq Revocation

Init ==
  /\ now = 0 /\ gatewayNow = 0
  /\ tokens = {}
  /\ key = GatewayKey /\ run = 0 /\ counter = 0
  /\ revoked = {} /\ revocations = {}

-----------------------------------------------------------------------------
(* auth::verify. What a malformed token is refused for is left out. Every   *)
(* token names the same kid, so a JWKS has at most one key for it.          *)
KnownKey(t, k) == t.key = k
InTime(t, at) == t.iat <= at /\ at < t.exp
WithinCap(t, at, cap) == at - t.orig_iat < cap

(* A policy has at most one cap.                                            *)
Policy(audience, caps) == [audience |-> audience, caps |-> caps]

Verify(t, k, policy, at) ==
  /\ KnownKey(t, k) /\ t.aud = policy.audience /\ InTime(t, at)
  /\ \A cap \in policy.caps : WithinCap(t, at, cap)

EffectiveScopes(t) == t.scopes \cup (IF t.actor = "human" THEN HumanMandatory ELSE {})

(* The gateway, App::control_for: one cap for all, whoever they act for;    *)
(* and App::ingest_ok, for guests.                                          *)
ViewerPolicy == Policy("iapetus", {ViewerCap})
Admits(t, at) == Verify(t, GatewayKey, ViewerPolicy, at)
ControlFor(t) == IF Control \in EffectiveScopes(t) THEN "write" ELSE "read"

IngestOk(t, at) == Verify(t, GatewayKey, Policy("iapetus-guest", {}), at)

(* The Control Plane.                                                       *)
RefreshPolicy == Policy("iapetus", {})
Cap(t) == IF t.actor = "agent" THEN AgentCap ELSE ViewerCap
Ttl(t) == IF t.actor = "agent" THEN AgentTtl ELSE ViewerTtl

-----------------------------------------------------------------------------
Tick ==
  /\ \/ now' = now + 1 /\ now < MaxTime /\ UNCHANGED gatewayNow
     \/ gatewayNow' = gatewayNow + 1 /\ gatewayNow < MaxTime /\ UNCHANGED now
  /\ now' - gatewayNow' \in (-Drift)..Drift
  /\ UNCHANGED <<tokens, service>>

(* next_jti is one atomic step, signing needs nothing else.                 *)
Hand(t) == tokens' = tokens \cup {t}

NextJti == counter' = counter + 1 /\ Cardinality(tokens) < MaxTokens

(* A viewer's scopes come from its control level, an agent's are what it    *)
(* asks for; of the lifetime, given or by default, nothing is checked.      *)
ScopesFor(req) ==
  IF req.kind = "agent" THEN req.scopes ELSE IF req.control = "write" THEN {Control} ELSE {}

Signed(req) ==
  [jti |-> counter, run |-> run, key |-> key, aud |-> "iapetus",
   actor |-> req.actor, scopes |-> ScopesFor(req),
   iat |-> now, exp |-> now + req.ttl, orig_iat |-> now,
   origin |-> [at |-> now, actor |-> req.actor,
               level |-> IF Control \in ScopesFor(req) THEN "write" ELSE "read"]]

IssueToken(req) == Hand(Signed(req)) /\ NextJti

(* A caller that has not got the Project Key is refused here and in Revoke. *)
Issue(req) ==
  /\ IssueToken(req)
  /\ UNCHANGED <<clocks, key, run, revoked, revocations>>

Renewed(t) ==
  [t EXCEPT !.jti = counter, !.run = run, !.key = key, !.iat = now, !.exp = now + Ttl(t)]
RenewedAnew(t) == [Renewed(t) EXCEPT !.orig_iat = now]

(* Verified without a cap, which then depends on the kind of actor.         *)
RefreshTo(t, renewed) ==
  /\ Verify(t, key, RefreshPolicy, now) /\ WithinCap(t, now, Cap(t))
  /\ Hand(renewed) /\ NextJti
  /\ UNCHANGED <<clocks, key, run, revoked, revocations>>

RefreshAnew(t) == RefreshTo(t, RenewedAnew(t))
Refresh(t) == RefreshTo(t, Renewed(t))

(* revoke: expired entries go, the new one replaces one for the same jti.   *)
LiveAt(at) == {r \in revoked : r[2] > at}
KeptStale(j) == {r \in revoked : r[2] <= now /\ r[1] # j}
Kept(j) == {r \in LiveAt(now) : r[1] # j}

DropAtBackdated == now - RevocationTtl
DropAt == now + RevocationTtl

Enlist(j) == revoked' = Kept(j) \cup {<<j, DropAt>>}

Revoke(t) ==
  /\ Enlist(t.jti)
  /\ revocations' = {r \in revocations : ~(r.jti = t.jti /\ r.of = t.run /\ r.during = run)}
                      \cup {[jti |-> t.jti, of |-> t.run, during |-> run, at |-> now]}
  /\ Cardinality(revocations') <= MaxRevocations
  /\ UNCHANGED <<clocks, tokens, key, run, counter>>

IsRevoked(j) == \E r \in revoked : r[1] = j /\ r[2] > now

(* The Control Plane starts again; what it has revoked stays on record here. *)
Restart ==
  /\ run < MaxRuns /\ run' = run + 1
  /\ key' \in Key
  /\ counter' = 0
  /\ revoked' = {}
  /\ UNCHANGED <<clocks, tokens, revocations>>

Next ==
  \/ Tick \/ Restart
  \/ \E req \in IssueRequest : Issue(req)
  \/ \E t \in tokens : Refresh(t) \/ Revoke(t)

Spec == Init /\ [][Next]_vars

-----------------------------------------------------------------------------
(* However often it is refreshed, a token gives no more than the first one  *)
(* of its chain did: the same level, to the same kind of actor; the Control *)
(* Plane renews it for less than its cap after that, and the gateway, by    *)
(* its own clock, admits it for less than eight hours - and never as a      *)
(* guest that may push a screen.                                            *)
NothingOutlivesItsCap ==
  \A t \in tokens :
    /\ t.actor = t.origin.actor /\ ControlFor(t) = t.origin.level
    /\ t.iat - t.origin.at < Cap(t)
    /\ Admits(t, gatewayNow) => gatewayNow - t.origin.at < ViewerCap
    /\ ~IngestOk(t, gatewayNow)

(* A jti names one token of a run. And what is_revoked answers of a token   *)
(* is, of all that was ever revoked, what the service was asked to revoke   *)
(* since it started and no longer than a window ago: the token itself, or   *)
(* a namesake that another run has given the same jti. So a restart takes   *)
(* back what was revoked, and can have one token pulled with another.       *)
Standing == {r \in revocations : r.during = run /\ now < r.at + RevocationTtl}
RevokedItself(t) == \E r \in Standing : r.jti = t.jti /\ r.of = t.run
NamesakeRevoked(t) == \E r \in Standing : r.jti = t.jti /\ r.of # t.run

RevocationIsExact ==
  /\ \A s, t \in tokens : s.jti = t.jti /\ s.run = t.run => s = t
  /\ \A t \in tokens : IsRevoked(t.jti) <=> RevokedItself(t) \/ NamesakeRevoked(t)
=============================================================================
