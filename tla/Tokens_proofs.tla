----------------------------- MODULE Tokens_proofs -----------------------------
(***************************************************************************)
(* Proofs about access tokens, for any keys, caps, lifetimes, drift of the *)
(* clocks, and number of tokens and restarts.                              *)
(***************************************************************************)
EXTENDS Tokens, TLAPS

(* What the two ways of handing out a token make.                           *)
LEMMA SignedIsToken ==
  ASSUME TypeOK, NEW req \in IssueRequest
  PROVE  /\ Signed(req) \in Token
         /\ Signed(req).jti = counter /\ Signed(req).run = run
         /\ Signed(req).iat = now /\ Signed(req).orig_iat = now
         /\ Signed(req).origin.at = now /\ Signed(req).origin.actor = Signed(req).actor
         /\ Signed(req).aud = "iapetus"
         /\ ControlFor(Signed(req)) = Signed(req).origin.level
<1> DEFINE scopes == ScopesFor(req)
           level == IF Control \in scopes THEN "write" ELSE "read"
<1>1. /\ req.kind \in Kind /\ req.actor \in Actor /\ req.scopes \in SUBSET Scope
      /\ req.ttl \in Int
  BY TokensAssumption DEF IssueRequest
<1>2. scopes \in SUBSET Scope /\ level \in Level
  BY <1>1 DEF ScopesFor, Scope, Level
<1>3. now + req.ttl \in Int
  BY <1>1 DEF TypeOK
<1>4. /\ Signed(req).jti = counter /\ Signed(req).run = run
      /\ Signed(req).iat = now /\ Signed(req).orig_iat = now
      /\ Signed(req).origin.at = now /\ Signed(req).origin.actor = Signed(req).actor
      /\ Signed(req).aud = "iapetus"
      /\ Signed(req).scopes = scopes /\ Signed(req).origin.level = level
  BY DEF Signed
<1>5. Control \in EffectiveScopes(Signed(req)) <=> Control \in scopes
  BY <1>4 DEF EffectiveScopes, HumanMandatory, Control
<1> HIDE DEF scopes, level
<1>6. Signed(req) \in Token
  <2>1. Signed(req) =
          [jti |-> counter, run |-> run, key |-> key, aud |-> "iapetus",
           actor |-> req.actor, scopes |-> scopes,
           iat |-> now, exp |-> now + req.ttl, orig_iat |-> now,
           origin |-> [at |-> now, actor |-> req.actor, level |-> level]]
    BY DEF Signed, scopes, level
  <2>2. "iapetus" \in Audience
    BY DEF Audience
  <2>3. QED
    BY <1>1, <1>2, <1>3, <2>1, <2>2 DEF TypeOK, Token
<1>7. ControlFor(Signed(req)) = Signed(req).origin.level
  BY <1>4, <1>5 DEF ControlFor, level
<1>8. QED
  BY <1>4, <1>6, <1>7

LEMMA RenewedIsToken ==
  ASSUME TypeOK, NEW t \in tokens
  PROVE  /\ Renewed(t) \in Token
         /\ Renewed(t).jti = counter /\ Renewed(t).run = run /\ Renewed(t).iat = now
         /\ Renewed(t).orig_iat = t.orig_iat /\ Renewed(t).origin = t.origin
         /\ Renewed(t).actor = t.actor /\ Renewed(t).scopes = t.scopes /\ Renewed(t).aud = t.aud
<1>1. t \in Token /\ Ttl(t) \in Nat
  BY TokensAssumption DEF TypeOK, Ttl
<1>2. now + Ttl(t) \in Int
  BY <1>1 DEF TypeOK
<1>3. QED
  BY <1>1, <1>2 DEF TypeOK, Token, Renewed

(* Claims, clocks and lists are well typed.                                 *)
THEOREM TypeCorrect == Spec => []TypeOK
<1>1. Init => TypeOK
  BY TokensAssumption DEF Init, TypeOK
<1>2. TypeOK /\ [Next]_vars => TypeOK'
  <2> SUFFICES ASSUME TypeOK, [Next]_vars PROVE TypeOK'
    OBVIOUS
  <2> USE DEF TypeOK, clocks, service
  <2>1. CASE Tick
    BY <2>1 DEF Tick
  <2>2. CASE Restart
    BY <2>2 DEF Restart
  <2>3. ASSUME NEW req \in IssueRequest, Issue(req) PROVE TypeOK'
    <3>1. Signed(req) \in Token
      BY SignedIsToken
    <3>2. QED
      BY <2>3, <3>1 DEF Issue, IssueToken, Hand, NextJti
  <2>4. ASSUME NEW t \in tokens, Refresh(t) PROVE TypeOK'
    BY <2>4, RenewedIsToken DEF Refresh, RefreshTo, Hand, NextJti
  <2>5. ASSUME NEW t \in tokens, Revoke(t) PROVE TypeOK'
    <3>1. t.jti \in Nat /\ t.run \in Nat /\ DropAt \in Nat
      BY TokensAssumption DEF Token, DropAt
    <3>2. Kept(t.jti) \subseteq revoked
      BY DEF Kept, LiveAt
    <3>3. revoked' \subseteq Nat \X Nat
      BY <2>5, <3>1, <3>2 DEF Revoke, Enlist
    <3>4. [jti |-> t.jti, of |-> t.run, during |-> run, at |-> now] \in Revocation
      BY <3>1 DEF Revocation
    <3>5. revocations' \subseteq Revocation
      BY <2>5, <3>4 DEF Revoke
    <3>6. QED
      BY <2>5, <3>3, <3>5 DEF Revoke
  <2>6. CASE UNCHANGED vars
    BY <2>6 DEF vars
  <2>7. QED
    BY <2>1, <2>2, <2>3, <2>4, <2>5, <2>6 DEF Next
<1>3. QED
  BY <1>1, <1>2, PTL DEF Spec

-----------------------------------------------------------------------------
(* What a chain of refreshes carries along                                  *)
Rooted ==
  \A t \in tokens :
    /\ t.orig_iat = t.origin.at /\ t.actor = t.origin.actor
    /\ ControlFor(t) = t.origin.level /\ t.aud = "iapetus"
    /\ t.iat - t.orig_iat < Cap(t)

LEMMA RootedInductive ==
  ASSUME TypeOK, Rooted, [Next]_vars
  PROVE  Rooted'
<1> USE DEF TypeOK, Rooted, clocks, service
<1>1. ASSUME NEW req \in IssueRequest, Issue(req) PROVE Rooted'
  <2> DEFINE new == Signed(req)
  <2>1. /\ new.orig_iat = new.origin.at /\ new.actor = new.origin.actor
        /\ ControlFor(new) = new.origin.level /\ new.aud = "iapetus"
        /\ new.iat - new.orig_iat = 0
    BY SignedIsToken
  <2>2. Cap(new) \in Nat \ {0}
    BY TokensAssumption DEF Cap
  <2>3. tokens' = tokens \cup {new}
    BY <1>1 DEF Issue, IssueToken, Hand
  <2> HIDE DEF new
  <2>4. QED
    BY <2>1, <2>2, <2>3 DEF Cap, ControlFor, EffectiveScopes
<1>2. ASSUME NEW t \in tokens, Refresh(t) PROVE Rooted'
  <2>1. tokens' = tokens \cup {Renewed(t)}
    BY <1>2 DEF Refresh, RefreshTo, Hand
  <2>2. now - t.orig_iat < Cap(t) /\ Cap(Renewed(t)) = Cap(t)
    BY <1>2, RenewedIsToken DEF Refresh, RefreshTo, WithinCap, Cap
  <2>3. ControlFor(Renewed(t)) = ControlFor(t)
    BY RenewedIsToken DEF ControlFor, EffectiveScopes
  <2>4. QED
    BY <2>1, <2>2, <2>3, RenewedIsToken DEF Cap, ControlFor, EffectiveScopes
<1>3. CASE Tick \/ Restart \/ (\E t \in tokens : Revoke(t)) \/ UNCHANGED vars
  BY <1>3 DEF Tick, Restart, Revoke, vars, Cap, ControlFor, EffectiveScopes
<1>4. QED
  BY <1>1, <1>2, <1>3 DEF Next

(* No chain of refreshes outlives its cap or gains anything on the way.     *)
THEOREM NothingOutlivesItsCapHolds == Spec => []NothingOutlivesItsCap
<1>1. Init => Rooted
  BY DEF Init, Rooted
<1>2. TypeOK /\ Rooted => NothingOutlivesItsCap
  BY DEF TypeOK, Rooted, NothingOutlivesItsCap, Admits, IngestOk, Verify, ViewerPolicy, Policy,
         WithinCap, Token
<1>3. QED
  BY <1>1, <1>2, RootedInductive, TypeCorrect, PTL DEF Spec

-----------------------------------------------------------------------------
(* The list holds, for each jti revoked since the service was started, the  *)
(* end of the window of the last time, if that is still to come - whichever *)
(* tokens the jti is of.                                                    *)
JtisAreOwn ==
  /\ \A t \in tokens : t.run <= run /\ (t.run = run => t.jti < counter)
  /\ \A s, t \in tokens : s.jti = t.jti /\ s.run = t.run => s = t

Asked(j, at) == \E q \in revocations : q.jti = j /\ q.during = run /\ q.at = at

ListIsExact ==
  /\ \A q \in revocations : q.during <= run /\ q.at <= now
  /\ \A r \in revoked : Asked(r[1], r[2] - RevocationTtl)
  /\ \A q \in revocations : q.during = run /\ now < q.at + RevocationTtl =>
       \E r \in revoked : r[1] = q.jti /\ r[2] >= q.at + RevocationTtl

LEMMA JtisInductive ==
  ASSUME TypeOK, JtisAreOwn, [Next]_vars
  PROVE  JtisAreOwn'
<1> USE DEF TypeOK, JtisAreOwn, Token, clocks, service
<1>1. ASSUME NEW new, new.jti = counter, new.run = run, tokens' = tokens \cup {new},
             counter' = counter + 1, UNCHANGED run
      PROVE  JtisAreOwn'
  <2>1. \A t \in tokens : t.jti \in Nat /\ t.run \in Nat
    OBVIOUS
  <2>2. \A t \in tokens : ~(t.jti = new.jti /\ t.run = new.run)
    BY <1>1, <2>1
  <2>3. \A t \in tokens' : t.run <= run /\ (t.run = run => t.jti < counter + 1)
    BY <1>1, <2>1
  <2>4. QED
    BY <1>1, <2>2, <2>3
<1>2. ASSUME NEW req \in IssueRequest, Issue(req)
      PROVE  JtisAreOwn'
  BY <1>1, <1>2, SignedIsToken DEF Issue, IssueToken, Hand, NextJti
<1>3. ASSUME NEW t \in tokens, Refresh(t) PROVE JtisAreOwn'
  BY <1>1, <1>3, RenewedIsToken DEF Refresh, RefreshTo, Hand, NextJti
<1>4. CASE Restart
  <2>1. \A t \in tokens : t.run \in Nat /\ t.run < run'
    BY <1>4 DEF Restart
  <2>2. UNCHANGED tokens /\ run' \in Nat
    BY <1>4 DEF Restart
  <2>3. QED
    BY <2>1, <2>2
<1>5. CASE Tick \/ (\E t \in tokens : Revoke(t)) \/ UNCHANGED vars
  BY <1>5 DEF Tick, Revoke, vars
<1>6. QED
  BY <1>2, <1>3, <1>4, <1>5 DEF Next

LEMMA ListInductive ==
  ASSUME TypeOK, ListIsExact, [Next]_vars
  PROVE  ListIsExact'
<1> USE DEF TypeOK, ListIsExact, clocks, service
<1>0. /\ \A r \in revoked : r[1] \in Nat /\ r[2] \in Nat /\ r = <<r[1], r[2]>>
      /\ \A q \in revocations : q.jti \in Nat /\ q.during \in Nat /\ q.at \in Nat
      /\ RevocationTtl \in Nat \ {0}
  BY TokensAssumption DEF Revocation
<1>1. ASSUME NEW t \in tokens, Revoke(t) PROVE ListIsExact'
  <2> DEFINE j == t.jti
             new == [jti |-> j, of |-> t.run, during |-> run, at |-> now]
             own(q) == q.jti = j /\ q.of = t.run /\ q.during = run
  <2>1. /\ revoked' = Kept(j) \cup {<<j, now + RevocationTtl>>}
        /\ revocations' = {q \in revocations : ~own(q)} \cup {new}
        /\ UNCHANGED <<now, run>>
    BY <1>1 DEF Revoke, Enlist, DropAt
  <2>2. new \in revocations' /\ new.jti = j /\ new.during = run /\ new.at = now
    BY <2>1
  <2>3. \A q \in revocations' : q = new \/ (q \in revocations /\ ~own(q))
    BY <2>1
  <2>4. \A q \in revocations' : q.during <= run' /\ q.at <= now'
    BY <1>0, <2>1, <2>2, <2>3
  <2>5. ASSUME NEW r \in revoked' PROVE Asked(r[1], r[2] - RevocationTtl)'
    <3>1. CASE r = <<j, now + RevocationTtl>>
      <4>1. r[1] = j /\ r[2] - RevocationTtl = now
        BY <1>0, <3>1
      <4>2. QED
        BY <2>1, <2>2, <4>1 DEF Asked
    <3>2. CASE r \in Kept(j)
      <4>1. r \in revoked /\ r[1] # j
        BY <3>2 DEF Kept, LiveAt
      <4>2. PICK q \in revocations :
              q.jti = r[1] /\ q.during = run /\ q.at = r[2] - RevocationTtl
        BY <4>1 DEF Asked
      <4>3. q \in revocations'
        BY <2>1, <4>1, <4>2
      <4>4. QED
        BY <2>1, <4>2, <4>3 DEF Asked
    <3>3. QED
      BY <2>1, <3>1, <3>2
  <2>6. ASSUME NEW q \in revocations', q.during = run', now' < q.at + RevocationTtl
        PROVE  \E r \in revoked' : r[1] = q.jti /\ r[2] >= q.at + RevocationTtl
    <3>0. q.at <= now /\ q.at \in Nat
      BY <1>0, <2>1, <2>2, <2>3, <2>4
    <3>1. CASE q.jti = j
      <4>1. <<j, now + RevocationTtl>> \in revoked'
        BY <2>1
      <4>2. now + RevocationTtl >= q.at + RevocationTtl
        BY <1>0, <3>0
      <4>3. <<j, now + RevocationTtl>>[1] = q.jti
            /\ <<j, now + RevocationTtl>>[2] >= q.at + RevocationTtl
        BY <3>1, <4>2
      <4>4. QED
        BY <4>1, <4>3
    <3>2. CASE q.jti # j
      <4>1. q \in revocations /\ q.during = run /\ now < q.at + RevocationTtl
        BY <2>1, <2>2, <2>3, <2>6, <3>2
      <4>2. PICK r \in revoked : r[1] = q.jti /\ r[2] >= q.at + RevocationTtl
        BY <4>1
      <4>3. r[2] > now
        BY <1>0, <3>0, <4>1, <4>2
      <4>4. r \in Kept(j)
        BY <3>2, <4>2, <4>3 DEF Kept, LiveAt
      <4>5. QED
        BY <2>1, <4>2, <4>4
    <3>3. QED
      BY <3>1, <3>2
  <2>7. QED
    BY <2>4, <2>5, <2>6
<1>2. CASE Tick
  <2>1. now' >= now /\ now' \in Nat /\ UNCHANGED <<revoked, revocations, run>>
    BY <1>2 DEF Tick
  <2>2. \A q \in revocations :
          /\ q.at <= now'
          /\ now' < q.at + RevocationTtl => now < q.at + RevocationTtl
    BY <1>0, <2>1
  <2>3. QED
    BY <2>1, <2>2 DEF Asked
<1>3. CASE Restart
  <2>1. revoked' = {} /\ run' = run + 1 /\ UNCHANGED <<now, revocations>>
    BY <1>3 DEF Restart
  <2>2. \A q \in revocations : q.during <= run' /\ q.during # run'
    BY <1>0, <2>1
  <2>3. QED
    BY <2>1, <2>2
<1>4. CASE \E req \in IssueRequest : Issue(req)
  BY <1>4 DEF Issue, IssueToken, Asked
<1>5. CASE \E t \in tokens : Refresh(t)
  BY <1>5 DEF Refresh, RefreshTo, Asked
<1>6. CASE UNCHANGED vars
  BY <1>6 DEF vars, Asked
<1>7. QED
  BY <1>1, <1>2, <1>3, <1>4, <1>5, <1>6 DEF Next

(* A jti is one token's within a run; and of all that was ever revoked,     *)
(* is_revoked reports what this run was asked for in the last window, for   *)
(* whichever token has the jti: nothing an earlier run was asked for.       *)
THEOREM RevocationIsExactHolds == Spec => []RevocationIsExact
<1>1. Init => JtisAreOwn /\ ListIsExact
  BY DEF Init, JtisAreOwn, ListIsExact
<1>2. TypeOK /\ JtisAreOwn /\ ListIsExact => RevocationIsExact
  <2> SUFFICES ASSUME TypeOK, JtisAreOwn, ListIsExact, NEW t \in tokens
               PROVE  IsRevoked(t.jti) <=>
                        \E q \in revocations :
                          q.jti = t.jti /\ q.during = run /\ now < q.at + RevocationTtl
    BY DEF RevocationIsExact, JtisAreOwn, Standing, RevokedItself, NamesakeRevoked
  <2>0. /\ now \in Nat /\ RevocationTtl \in Nat
        /\ \A r \in revoked : r[2] \in Nat
        /\ \A q \in revocations : q.at \in Nat
    BY TokensAssumption DEF TypeOK, Revocation
  <2>1. ASSUME IsRevoked(t.jti)
        PROVE  \E q \in revocations :
                 q.jti = t.jti /\ q.during = run /\ now < q.at + RevocationTtl
    <3>1. PICK r \in revoked : r[1] = t.jti /\ r[2] > now
      BY <2>1 DEF IsRevoked
    <3>2. PICK q \in revocations :
            q.jti = r[1] /\ q.during = run /\ q.at = r[2] - RevocationTtl
      BY <3>1 DEF ListIsExact, Asked
    <3>3. now < q.at + RevocationTtl
      BY <2>0, <3>1, <3>2
    <3>4. QED
      BY <3>1, <3>2, <3>3
  <2>2. ASSUME NEW q \in revocations,
               q.jti = t.jti, q.during = run, now < q.at + RevocationTtl
        PROVE  IsRevoked(t.jti)
    <3>1. PICK r \in revoked : r[1] = q.jti /\ r[2] >= q.at + RevocationTtl
      BY <2>2 DEF ListIsExact
    <3>2. r[2] > now
      BY <2>0, <2>2, <3>1
    <3>3. QED
      BY <2>2, <3>1, <3>2 DEF IsRevoked
  <2>3. QED
    BY <2>1, <2>2
<1>3. TypeOK /\ JtisAreOwn /\ ListIsExact /\ [Next]_vars => JtisAreOwn' /\ ListIsExact'
  BY JtisInductive, ListInductive
<1>4. QED
  BY <1>1, <1>2, <1>3, TypeCorrect, PTL DEF Spec
=============================================================================
