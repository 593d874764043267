----------------------------- MODULE Attestation -----------------------------
(***************************************************************************)
(* Consent (src/src/closeloop/confirmation.py).  A consequential action    *)
(* needs an attestation: a token in which a trusted authority says what it *)
(* showed to the customer, whether the customer agreed, and when.  The     *)
(* token is judged twice: by the verifier, before the action, and, for a   *)
(* cancellation, by the record contract when the claim of EXECUTING is     *)
(* stored.  The first reads the clock in whole seconds, the second as it   *)
(* is, and the second also looks at the names it is to store.              *)
(*                                                                         *)
(* Nothing is assumed of the authority's clock, nor that it showed what    *)
(* the record says.  What happens when two calls confirm the same action   *)
(* at once is in ResolutionService.                                        *)
(***************************************************************************)
EXTENDS Integers

CONSTANTS
  Actions,         \* what the stored records propose
  Shown,           \* what the authority may have shown
  TicksPerSecond,  \* the clock's resolution
  MaxAge,          \* MAX_CONFIRMATION_AGE_SECONDS
  MaxLifetime,     \* MAX_ATTESTATION_LIFETIME_SECONDS
  MaxSecond        \* bound on time

ASSUME TicksAssumption == TicksPerSecond \in Nat \ {0}
ASSUME TimesAssumption == MaxAge \in Nat /\ MaxLifetime \in Nat /\ MaxSecond \in Nat

\* An action as its digest describes it: a cancellation, or a follow-up with an
\* identifier of its own; "terms" is everything else that is described
\* (intent, provider, target; reason, expiry).
Cancel == "cancel_subscription"
IsCancellation(a) == a.action = Cancel

\* What an action is described by (the canonical action digest is over these).
Described(a) ==
  a = [owner |-> a.owner, resolution |-> a.resolution, action |-> a.action,
       item |-> a.item, terms |-> a.terms]
ASSUME DescriptionAssumption == \A a \in Actions \cup Shown : Described(a)

VARIABLES
  now,        \* the clock, in ticks
  consent,    \* the actions that were begun, each with its token and the time
  issuerFits  \* whether the configured issuer's name is short enough to store

vars == <<now, consent, issuerFits>>

\* A token that the secret, the issuer and the audience vouch for and that is
\* well formed is "genuine"; `named' says whether its identifier (jti) is more
\* than white space.
Tokens == [shown: Shown, agreed: BOOLEAN, genuine: BOOLEAN, named: BOOLEAN,
           iat: 0..MaxSecond, exp: 0..MaxSecond + MaxLifetime + 1]

\* The verifier is configured with an issuer of any length.
Init == now = 0 /\ consent = {} /\ issuerFits \in BOOLEAN

Tick ==
  /\ now < MaxSecond * TicksPerSecond /\ now' = now + 1
  /\ UNCHANGED <<consent, issuerFits>>

\* Slip: the follow-up's own identifier is not part of what is agreed to.
DigestWithoutItem(a) == <<a.owner, a.resolution, a.action, a.terms>>

\* Slip: the terms are not part of what is agreed to.
DigestWithoutTerms(a) == <<a.owner, a.resolution, a.action, a.item>>

Digest(a) == <<a.owner, a.resolution, a.action, a.item, a.terms>>

\* Slip: the second that has begun counts as over.
NextSecond(t) == (t + TicksPerSecond - 1) \div TicksPerSecond

WholeSecond(t) == t \div TicksPerSecond
Ticks(s) == s * TicksPerSecond

Current(token, second) ==
  /\ token.iat <= second /\ second < token.exp
  /\ token.iat < token.exp /\ token.exp - token.iat <= MaxLifetime
  /\ second - token.iat <= MaxAge

\* Slip: an answer of no is an answer.
AgreedOrNot(token) == token.genuine

Affirmed(token) == token.genuine /\ token.agreed

\* verify, asked for action a at time t.
Verified(token, a, t) ==
  /\ Affirmed(token)
  /\ Current(token, WholeSecond(t))
  /\ token.shown.owner = a.owner /\ token.shown.resolution = a.resolution
  /\ token.shown.action = a.action
  /\ Digest(token.shown) = Digest(a)

\* Slip: the contract relies on the verifier for the time.
StorableWhenever(token, a, t) == Digest(token.shown) = Digest(a)

\* What the record contract asks of the attestation of a cancellation.  Of a
\* genuine token it asks more than the verifier: an identifier that is not blank
\* and an issuer's name of a bounded length.
Storable(token, a, t) ==
  /\ issuerFits /\ token.named
  /\ Digest(token.shown) = Digest(a)
  /\ Ticks(token.iat) <= t /\ t < Ticks(token.exp)
  /\ token.exp - token.iat <= MaxLifetime
  /\ t - Ticks(token.iat) <= Ticks(MaxAge)

\* A call confirms action a with a token.  One that is refused changes nothing.
Confirm(a, token) ==
  /\ \A c \in consent : c.action # a
  /\ Verified(token, a, now)
  /\ IsCancellation(a) => Storable(token, a, now)
  /\ consent' = consent \cup {[action |-> a, token |-> token, at |-> now]}
  /\ UNCHANGED <<now, issuerFits>>

Next == Tick \/ \E a \in Actions, token \in Tokens : Confirm(a, token)

Spec == Init /\ [][Next]_vars

(***************************************************************************)
(* Properties                                                              *)
(***************************************************************************)
\* An action is begun only on a yes that was given to this very action, as the
\* record describes it (docs/trust-model.md, "Signed claims bind the
\* bearer-derived owner key, exact resolution, canonical action digest,
\* affirmative decision").
ConsentIsToThisAction ==
  \A c \in consent : c.token.shown = c.action /\ c.token.agreed

\* No consent begins two actions, of whatever kinds (docs/trust-model.md, "the
\* same compact token cannot authorize another principal, resolution, or
\* action").
OneActionPerConsent ==
  \A c, d \in consent : c.token = d.token => c = d

\* A cancellation is begun on a consent that was given at most MaxAge before,
\* to the fraction of a second; a follow-up, which the record contract does not
\* judge again, within the same second (MAX_CONFIRMATION_AGE_SECONDS).  Neither
\* is begun before the consent was given or when it has expired.
ConsentIsRecent ==
  \A c \in consent :
    LET age == c.at - Ticks(c.token.iat)
    IN  /\ age >= 0 /\ c.at < Ticks(c.token.exp)
        /\ IF IsCancellation(c.action) THEN age <= Ticks(MaxAge) ELSE age < Ticks(MaxAge + 1)

\* The two judgements of the consent to a cancellation differ in three things
\* and in nothing else: what the verifier lets through is stored unless it is in
\* the fraction of the last second of its age, its identifier is blank, or the
\* issuer's name is too long to be stored
\* (HmacJwtConfirmationAttestationVerifier.verify, _validate_evidence_stage).
JudgementsAgree ==
  \A a \in Actions, token \in Tokens :
    IsCancellation(a) /\ Verified(token, a, now) =>
      (Storable(token, a, now) <=>
         /\ now - Ticks(token.iat) <= Ticks(MaxAge)
         /\ token.named /\ issuerFits)
=============================================================================
