-------------------------- MODULE AttestationProofs --------------------------
(***************************************************************************)
(* Consent is to one action, recent, and judged alike by the two places    *)
(* that judge it, for any actions, clock and time limits.                  *)
(***************************************************************************)
EXTENDS Attestation, TLAPS

(***************************************************************************)
(* Whole seconds                                                           *)
(***************************************************************************)
\* A second has a whole number of ticks, and later seconds begin later.
LEMMA TicksGrow ==
  ASSUME NEW a \in Int, NEW b \in Int
  PROVE  /\ Ticks(a) \in Int
         /\ a <= b => Ticks(a) <= Ticks(b)
         /\ a < b => Ticks(a) + TicksPerSecond <= Ticks(b)
         /\ Ticks(a + b) = Ticks(a) + Ticks(b)
         /\ Ticks(a - b) = Ticks(a) - Ticks(b)
  BY TicksAssumption DEF Ticks

\* The whole second of a time has begun, and is not over (int(time.time())).
LEMMA WholeSecondBounds ==
  ASSUME NEW t \in Nat
  PROVE  /\ WholeSecond(t) \in Int
         /\ Ticks(WholeSecond(t)) <= t
         /\ t < Ticks(WholeSecond(t)) + TicksPerSecond
  BY TicksAssumption DEF Ticks, WholeSecond

\* Going by whole seconds, an age of at most MaxAge may be a fraction more, and
\* what has not been issued or has expired is told exactly.
LEMMA WholeSecondsTell ==
  ASSUME NEW t \in Nat, NEW iat \in Int, NEW exp \in Int
  PROVE  /\ iat <= WholeSecond(t) <=> Ticks(iat) <= t
         /\ WholeSecond(t) < exp <=> t < Ticks(exp)
         /\ WholeSecond(t) - iat <= MaxAge => t - Ticks(iat) < Ticks(MaxAge + 1)
         /\ t - Ticks(iat) <= Ticks(MaxAge) => WholeSecond(t) - iat <= MaxAge
<1> DEFINE s == WholeSecond(t)
<1>1. s \in Int /\ Ticks(s) <= t /\ t < Ticks(s) + TicksPerSecond
  BY WholeSecondBounds
<1>2. /\ TicksPerSecond \in Nat /\ TicksPerSecond > 0 /\ MaxAge \in Int
      /\ \A a \in Int : Ticks(a) \in Int
  BY TicksAssumption, TimesAssumption, TicksGrow
<1> HIDE DEF s
<1>3. iat <= s <=> Ticks(iat) <= t
  <2>1. /\ Ticks(iat) \in Int
        /\ iat <= s => Ticks(iat) <= Ticks(s)
        /\ s < iat => Ticks(s) + TicksPerSecond <= Ticks(iat)
    BY <1>1, TicksGrow
  <2> QED BY <1>1, <1>2, <2>1
<1>4. s < exp <=> t < Ticks(exp)
  <2>1. /\ Ticks(exp) \in Int
        /\ exp <= s => Ticks(exp) <= Ticks(s)
        /\ s < exp => Ticks(s) + TicksPerSecond <= Ticks(exp)
    BY <1>1, TicksGrow
  <2> QED BY <1>1, <1>2, <2>1
<1>5. s - iat <= MaxAge => t - Ticks(iat) < Ticks(MaxAge + 1)
  <2>1. ASSUME s - iat <= MaxAge PROVE Ticks(s) + TicksPerSecond <= Ticks(MaxAge + 1) + Ticks(iat)
    <3>1. s < MaxAge + 1 + iat /\ MaxAge + 1 \in Int
      BY <1>1, <1>2, <2>1
    <3>2. Ticks(MaxAge + 1 + iat) = Ticks(MaxAge + 1) + Ticks(iat)
      BY <3>1, TicksGrow
    <3>3. MaxAge + 1 + iat \in Int
      BY <3>1
    <3>4. Ticks(s) + TicksPerSecond <= Ticks(MaxAge + 1 + iat)
      BY <1>1, <3>1, <3>3, TicksGrow
    <3> QED BY <3>2, <3>4
  <2>2. MaxAge + 1 \in Int
    BY <1>2
  <2>3. Ticks(iat) \in Int /\ Ticks(MaxAge + 1) \in Int /\ Ticks(s) \in Int
    BY <1>1, <1>2, <2>2
  <2> QED BY <1>1, <1>2, <2>1, <2>3
<1>6. t - Ticks(iat) <= Ticks(MaxAge) => s - iat <= MaxAge
  <2>1. ASSUME s - iat > MaxAge PROVE Ticks(MaxAge) + Ticks(iat) + TicksPerSecond <= Ticks(s)
    <3>1. MaxAge + iat < s /\ MaxAge + iat \in Int
      BY <1>1, <1>2, <2>1
    <3>2. Ticks(MaxAge + iat) = Ticks(MaxAge) + Ticks(iat)
      BY <1>2, TicksGrow
    <3> QED BY <1>1, <3>1, <3>2, TicksGrow
  <2>2. Ticks(iat) \in Int /\ Ticks(MaxAge) \in Int /\ Ticks(s) \in Int
    BY <1>1, <1>2
  <2> QED BY <1>1, <1>2, <2>1, <2>2
<1> QED BY <1>3, <1>4, <1>5, <1>6 DEF s

(***************************************************************************)
(* The invariant                                                           *)
(***************************************************************************)
\* Every action that was begun was judged by both when it was, and begun once.
ConsentInv ==
  /\ now \in Nat
  /\ \A c \in consent :
       /\ c.action \in Actions /\ c.token \in Tokens /\ c.at \in Nat
       /\ c = [action |-> c.action, token |-> c.token, at |-> c.at]
       /\ Verified(c.token, c.action, c.at)
       /\ IsCancellation(c.action) => Storable(c.token, c.action, c.at)
  /\ \A c, d \in consent : c.action = d.action => c = d

\* The digest leaves no part of an action out (canonical_action_digest).
LEMMA DigestTells ==
  ASSUME NEW a \in Actions \cup Shown, NEW b \in Actions \cup Shown, Digest(a) = Digest(b)
  PROVE  a = b
<1>1. /\ a.owner = b.owner /\ a.resolution = b.resolution /\ a.action = b.action
      /\ a.item = b.item /\ a.terms = b.terms
  BY DEF Digest
<1>2. Described(a) /\ Described(b)
  BY DescriptionAssumption
<1> QED BY <1>1, <1>2, Zenon DEF Described

\* The invariant holds of every reachable state, whatever tokens are presented.
THEOREM Consented == Spec => []ConsentInv
<1>1. Init => ConsentInv
  BY DEF Init, ConsentInv
<1>2. ConsentInv /\ [Next]_vars => ConsentInv'
  <2> SUFFICES ASSUME ConsentInv, [Next]_vars PROVE ConsentInv'
    OBVIOUS
  <2>1. CASE Tick \/ UNCHANGED vars
    BY <2>1 DEF Tick, vars, ConsentInv, Storable
  <2>2. ASSUME NEW a \in Actions, NEW token \in Tokens, Confirm(a, token)
        PROVE  ConsentInv'
    <3> DEFINE new == [action |-> a, token |-> token, at |-> now]
    <3>1. /\ consent' = consent \cup {new} /\ UNCHANGED <<now, issuerFits>>
          /\ \A c \in consent : c.action # a
          /\ Verified(token, a, now)
          /\ IsCancellation(a) => Storable(token, a, now)
      BY <2>2 DEF Confirm
    <3>2. /\ new.action = a /\ new.token = token /\ new.at = now
          /\ new = [action |-> new.action, token |-> new.token, at |-> new.at]
      OBVIOUS
    <3> HIDE DEF new
    <3> QED BY <3>1, <3>2 DEF ConsentInv, Storable
  <2> QED BY <2>1, <2>2 DEF Next
<1> QED BY <1>1, <1>2, PTL DEF Spec

(***************************************************************************)
(* The theorems                                                            *)
(***************************************************************************)
\* What was begun is what the customer agreed to.
LEMMA ConsentGiven == ConsentInv => ConsentIsToThisAction
<1> SUFFICES ASSUME ConsentInv, NEW c \in consent
             PROVE  c.token.shown = c.action /\ c.token.agreed
  BY DEF ConsentIsToThisAction
<1>1. /\ c.action \in Actions /\ c.token \in Tokens
      /\ Verified(c.token, c.action, c.at)
  BY DEF ConsentInv
<1>2. c.token.shown \in Shown
  BY <1>1 DEF Tokens
<1>3. Digest(c.token.shown) = Digest(c.action) /\ c.token.agreed
  BY <1>1 DEF Verified, Affirmed
<1> QED BY <1>1, <1>2, <1>3, DigestTells

\* An action is begun only on a yes to this very action (verify,
\* canonical_action_digest).
THEOREM ConsentToThis == Spec => []ConsentIsToThisAction
  BY Consented, ConsentGiven, PTL

\* No consent begins two actions (verify, confirm_resolution_action,
\* confirm_recovery_action).
THEOREM ConsentForOne == Spec => []OneActionPerConsent
<1>1. ConsentInv => OneActionPerConsent
  BY ConsentGiven DEF ConsentInv, ConsentIsToThisAction, OneActionPerConsent
<1> QED BY <1>1, Consented, PTL

\* No action is begun before its consent was given, when it has expired or when
\* it is too old (verify, _validate_evidence_stage).
THEOREM ConsentRecent == Spec => []ConsentIsRecent
<1>1. ConsentInv => ConsentIsRecent
  <2> SUFFICES ASSUME ConsentInv, NEW c \in consent
               PROVE  LET age == c.at - Ticks(c.token.iat)
                      IN  /\ age >= 0 /\ c.at < Ticks(c.token.exp)
                          /\ IF IsCancellation(c.action) THEN age <= Ticks(MaxAge)
                             ELSE age < Ticks(MaxAge + 1)
    BY DEF ConsentIsRecent
  <2>1. /\ c.at \in Nat /\ c.token \in Tokens
        /\ Verified(c.token, c.action, c.at)
        /\ IsCancellation(c.action) => Storable(c.token, c.action, c.at)
    BY DEF ConsentInv
  <2>2. c.token.iat \in Int /\ c.token.exp \in Int
    BY <2>1, TimesAssumption DEF Tokens
  <2>3. Current(c.token, WholeSecond(c.at))
    BY <2>1 DEF Verified
  <2>4. Ticks(c.token.iat) \in Int
    BY <2>2, TicksGrow
  <2>5. /\ Ticks(c.token.iat) <= c.at /\ c.at < Ticks(c.token.exp)
        /\ c.at - Ticks(c.token.iat) < Ticks(MaxAge + 1)
    BY <2>1, <2>2, <2>3, WholeSecondsTell DEF Current
  <2> QED BY <2>1, <2>4, <2>5 DEF Storable
<1> QED BY <1>1, Consented, PTL

\* What the verifier lets through the record contract stores, up to the fraction
\* of a second, a blank identifier and an issuer's name that is too long, for
\* every token and every issuer.
THEOREM JudgedAlike == Spec => []JudgementsAgree
<1>1. ConsentInv => JudgementsAgree
  <2> SUFFICES ASSUME ConsentInv, NEW a \in Actions, NEW token \in Tokens,
                      Verified(token, a, now)
               PROVE  Storable(token, a, now) <=>
                        /\ now - Ticks(token.iat) <= Ticks(MaxAge)
                        /\ token.named /\ issuerFits
    BY DEF JudgementsAgree
  <2>1. now \in Nat /\ token.iat \in Int /\ token.exp \in Int
    BY TimesAssumption DEF ConsentInv, Tokens
  <2>2. Current(token, WholeSecond(now)) /\ Digest(token.shown) = Digest(a)
    BY DEF Verified
  <2>3. Ticks(token.iat) <= now /\ now < Ticks(token.exp)
    BY <2>1, <2>2, WholeSecondsTell DEF Current
  <2> QED BY <2>2, <2>3 DEF Storable, Current
<1> QED BY <1>1, Consented, PTL
=============================================================================
