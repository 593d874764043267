----------------------- MODULE ResolutionRecordProofs ------------------------
(***************************************************************************)
(* What a stored record tells: to the record contract that reads it, and   *)
(* to the customer.                                                        *)
(*                                                                         *)
(* StorageInv is inductive relative to the invariants before it: every     *)
(* recorded attempt evaluates to its verdict again, the record's times     *)
(* follow each other, and an answer of a provider that is prepared on an   *)
(* up-to-date copy can be stored.                                          *)
(*                                                                         *)
(* ToldInv is inductive relative to the same invariants: notices, history  *)
(* and claim of the stored record and of every copy fit its state.  That   *)
(* the card tells the outcome, that progress is true, that answers agree   *)
(* and that a receipt is backed follow.                                    *)
(***************************************************************************)
EXTENDS ResolutionLedgerProofs, CustomerView, SequenceTheorems

(***************************************************************************)
(* Records that differ in what does not matter                             *)
(***************************************************************************)
\* What an attempt evaluates to depends on four fields of the record.
LEMMA SameReading ==
  ASSUME NEW a, NEW b, ReadsBack(a),
         b.attempts = a.attempts, b.claim = a.claim, b.charges = a.charges,
         b.deadline = a.deadline
  PROVE  ReadsBack(b)
<1>1. \A id : ChargeById(b, id) = ChargeById(a, id)
  BY DEF ChargeById
<1>2. \A i : AttemptTimely(a, i) => AttemptTimely(b, i)
  BY DEF AttemptTimely
<1>3. \A i : AttemptReproduces(a, i) => AttemptReproduces(b, i)
  BY <1>1 DEF AttemptReproduces
<1> QED BY <1>2, <1>3 DEF ReadsBack, ReadBackUpTo

\* What a notice leaves alone, besides the pace of the record (attention_candidate).
LEMMA NotifyLeaves ==
  ASSUME NEW rec \in Record, NEW reason \in Notices \cup {None}, NEW seen, NEW at \in Int,
         NEW proposing, NEW after, after = Notify(rec, reason, seen, at, proposing)
  PROVE  /\ after.moves = rec.moves /\ after.movedAt = rec.movedAt
         /\ after.updatedAt = rec.updatedAt /\ after.attested = rec.attested
         /\ after.deadline = rec.deadline /\ after.resolvedAt = rec.resolvedAt
<1> DEFINE noted == [rec EXCEPT !.attention = @ \cup {reason}]
<1>1. /\ noted.moves = rec.moves /\ noted.movedAt = rec.movedAt
      /\ noted.updatedAt = rec.updatedAt /\ noted.attested = rec.attested
      /\ noted.deadline = rec.deadline /\ noted.resolvedAt = rec.resolvedAt
      /\ DOMAIN noted = DOMAIN rec
  BY DEF Record
<1>2. \/ after = rec
      \/ after = noted
      \/ after = Propose(noted, reason, at)
  BY DEF Notify
<1>3. DOMAIN rec = DOMAIN Unborn
  BY ValuesTyped DEF Record, Unborn
<1> HIDE DEF noted
<1>4. LET proposed == Propose(noted, reason, at) IN
      /\ proposed.moves = noted.moves /\ proposed.movedAt = noted.movedAt
      /\ proposed.updatedAt = noted.updatedAt /\ proposed.attested = noted.attested
      /\ proposed.deadline = noted.deadline /\ proposed.resolvedAt = noted.resolvedAt
  BY <1>1, <1>3 DEF Propose, Unborn
<1> QED BY <1>1, <1>2, <1>4 DEF noted

\* The charge that was weighed is the one its name stands for, if it was reported
\* once and under a name (_record_verification, validate_target_record).
LEMMA WeighedIsFound ==
  ASSUME NEW rec \in Record, NEW at \in Int, NEW time, ChargesKnown(rec, time),
         ReportedOnce(rec, ChargeToWeigh(rec, at).id)
  PROVE  ChargeWeighed(rec, ChargeToWeigh(rec, at).id) = ChargeToWeigh(rec, at)
<1> DEFINE charges == rec.charges
           known   == {i \in DOMAIN charges : charges[i].at <= at}
           latest  == {i \in known : \A j \in known : j <= i}
           charge  == ChargeToWeigh(rec, at)
           named   == {i \in DOMAIN charges : charges[i].id = charge.id}
           first   == {i \in named : \A j \in named : i <= j}
<1>1. charge = IF latest = {} THEN NoCharge ELSE charges[CHOOSE i \in latest : TRUE]
  BY DEF ChargeToWeigh, LatestCharge
<1>2. ChargeWeighed(rec, charge.id) =
        IF first = {} THEN NoCharge ELSE charges[CHOOSE i \in first : TRUE]
  BY DEF ReportedOnce, ChargeWeighed, ChargeById
<1>3. CASE latest = {}
  <2>1. charge = NoCharge /\ charge.id = None
    BY <1>1, <1>3 DEF NoCharge
  <2>2. named = {}
    BY <2>1 DEF ChargesKnown
  <2> QED BY <1>2, <2>1, <2>2
<1>4. CASE latest # {}
  <2>1. PICK i \in DOMAIN charges : charge = charges[i]
    BY <1>1, <1>4
  <2>2. named = {i}
    BY <2>1 DEF ReportedOnce
  <2>3. i \in Int
    BY DEF Record
  <2>4. first = {i}
    BY <2>2, <2>3
  <2> QED BY <1>2, <2>1, <2>4
<1> QED BY <1>3, <1>4

\* A judgement rests on a charge exactly when one was weighed (verify_cancellation).
LEMMA ChargeDecides ==
  ASSUME NEW receipt, NEW evidence, NEW final, NEW expected, NEW charge, NEW deadline, NEW time
  PROVE  Verify(receipt, evidence, final, expected, charge, deadline, time)
           \in {"charge_observed", "charge_uncorrelated"} <=> charge # NoCharge
  BY DEF Verify

\* A verdict that passes the record contract evaluates to itself again: the
\* charge the contract judged by is the one that is found on reading
\* (validate_target_record, record_from_mapping).
LEMMA VerdictReads ==
  ASSUME NEW rec \in Record, ValidRecord(rec), Paced(rec), rec.judged,
         ReadBackUpTo(rec, Len(rec.attempts) - 1),
         LastAttempt(rec).charge # None =>
           LastAttempt(rec).reason \in {"charge_observed", "charge_uncorrelated"}
  PROVE  ReadsBack(rec)
<1> DEFINE last  == LastAttempt(rec)
           n     == Len(rec.attempts)
           final == last.eligible /\ last.count >= MaxChecks
<1>1. /\ rec.attempts \in Seq(Attempt) /\ n \in Nat /\ DOMAIN rec.attempts = 1..n
      /\ last = rec.attempts[n]
  BY DEF Record, LastAttempt
<1>2. last.count = rec.checks
  BY DEF Paced
<1>3. last.reason = Verify(rec.claim, last.evidence, final, Target,
                          ChargeWeighed(rec, last.charge), rec.deadline, last.at)
  BY <1>2 DEF ValidRecord, VerdictReproduces
<1>4. last.charge # None => ChargeWeighed(rec, last.charge) # NoCharge
  BY <1>3, ChargeDecides
<1>5. ChargeWeighed(rec, last.charge) = ChargeById(rec, last.charge)
  BY <1>4 DEF ChargeWeighed, None, Empty
<1>6. rec.claim.digest = Target => AttemptReproduces(rec, n)
  BY <1>1, <1>3, <1>4, <1>5 DEF AttemptReproduces
<1>7. \A i \in 1..n : i <= n - 1 \/ i = n
  BY <1>1
<1> QED BY <1>1, <1>6, <1>7 DEF ReadsBack, ReadBackUpTo

\* A charge that is added to the list displaces none that is referred to
\* (record_outcome_violation).
LEMMA FirstStays ==
  ASSUME NEW a, NEW b, NEW charge, NEW id, a.charges \in Seq(Charge), charge \in Charge,
         b.charges = Append(a.charges, charge),
         ChargeById(a, id) # NoCharge \/ ~\E i \in DOMAIN b.charges : b.charges[i].id = id
  PROVE  ChargeById(b, id) = ChargeById(a, id)
<1> DEFINE n == Len(a.charges)
           Named(charges) == {i \in DOMAIN charges : charges[i].id = id}
           First(charges) == {i \in Named(charges) : \A j \in Named(charges) : i <= j}
<1>1. /\ n \in Nat /\ DOMAIN a.charges = 1..n /\ DOMAIN b.charges = 1..n + 1
      /\ \A i \in 1..n : b.charges[i] = a.charges[i]
  OBVIOUS
<1>2. /\ ChargeById(a, id) = IF First(a.charges) = {} THEN NoCharge
                             ELSE a.charges[CHOOSE i \in First(a.charges) : TRUE]
      /\ ChargeById(b, id) = IF First(b.charges) = {} THEN NoCharge
                             ELSE b.charges[CHOOSE i \in First(b.charges) : TRUE]
  BY DEF ChargeById
<1>3. Named(a.charges) \subseteq Named(b.charges) /\ Named(a.charges) \subseteq 1..n
  BY <1>1
<1>4. \A i \in Named(b.charges) : i \in Named(a.charges) \/ i = n + 1
  BY <1>1
<1>5. CASE Named(b.charges) = {}
  BY <1>2, <1>3, <1>5
<1>6. CASE First(a.charges) # {}
  <2>1. PICK k \in First(a.charges) : TRUE
    BY <1>6
  <2>2. k \in Named(a.charges) /\ k \in 1..n /\ \A j \in Named(a.charges) : k <= j
    BY <1>3, <2>1
  <2>3. First(b.charges) = First(a.charges)
    <3>1. ASSUME NEW i \in First(a.charges) PROVE i \in First(b.charges)
      BY <1>1, <1>3, <1>4, <3>1
    <3>2. ASSUME NEW i \in First(b.charges) PROVE i \in First(a.charges)
      <4>1. i <= k /\ i \in Named(b.charges)
        BY <1>3, <2>2, <3>2
      <4>2. i \in Named(a.charges)
        BY <1>1, <1>4, <2>2, <4>1
      <4> QED BY <1>3, <3>2, <4>2
    <3> QED BY <3>1, <3>2
  <2>4. (CHOOSE i \in First(a.charges) : TRUE) \in 1..n
    BY <1>3, <1>6
  <2> QED BY <1>1, <1>2, <1>6, <2>3, <2>4
<1>7. Named(b.charges) = {} \/ First(a.charges) # {}
  BY <1>2
<1> QED BY <1>5, <1>6, <1>7

(***************************************************************************)
(* A judgement                                                             *)
(***************************************************************************)
\* What a judgement decides, and the attempt it records.
Reason(rec, evidence, eligible, at) ==
  Verify(rec.claim, evidence, eligible /\ rec.checks >= MaxChecks, Target,
         ChargeToWeigh(rec, at), rec.deadline, at)
Recorded(rec, evidence, eligible, at) ==
  [at |-> at, count |-> rec.checks, eligible |-> eligible,
   charge |-> ChargeToWeigh(rec, at).id, evidence |-> evidence,
   reason |-> Reason(rec, evidence, eligible, at)]

\* What a judgement writes, field by field (_record_verification).
LEMMA JudgementWrites ==
  ASSUME NEW rec \in Record, NEW evidence \in Evidence, NEW eligible \in BOOLEAN, NEW at \in Int
  PROVE  LET reason  == Reason(rec, evidence, eligible, at)
             attempt == Recorded(rec, evidence, eligible, at)
             judged  == RecordVerification(rec, evidence, eligible, at)
         IN /\ judged.attempts = Append(rec.attempts, attempt)
            /\ judged.state = StateFor(reason) /\ judged.judged
            /\ judged.version = rec.version /\ judged.moves = rec.moves + 1
            /\ judged.movedAt = at /\ judged.updatedAt = at
            /\ judged.nextCheck = Judge(rec, attempt).nextCheck
            /\ judged.resolvedAt = Judge(rec, attempt).resolvedAt
            /\ judged.checks = rec.checks /\ judged.charges = rec.charges
            /\ judged.claim = rec.claim /\ judged.deadline = rec.deadline
            /\ judged.attested = rec.attested
<1> DEFINE charge  == ChargeToWeigh(rec, at)
           reason  == Reason(rec, evidence, eligible, at)
           attempt == Recorded(rec, evidence, eligible, at)
           looked  == Judge(rec, attempt)
           moved   == Transition(looked, StateFor(reason), at)
           settling == [f \in FollowUps |-> Settle(rec.recovery[f], VerdictOf(reason))]
           settled == [moved EXCEPT !.recovery = settling]
           judged  == RecordVerification(rec, evidence, eligible, at)
<1>1. attempt \in Attempt /\ attempt.at = at /\ attempt.reason = reason
  <2>1. charge.id \in ChargeIds \cup {None}
    BY ChargeToWeighTyped DEF Charge
  <2>2. reason \in Reasons
    BY VerifyTyped DEF Reason
  <2>3. rec.checks \in Nat
    BY DEF Record
  <2> QED BY <2>1, <2>2, <2>3 DEF Attempt, Recorded
<1>2. judged = Notify(settled, Notice(settled, evidence, at), evidence, at,
                      settled.state \notin Terminal)
  BY DEF RecordVerification, Recorded, Reason
<1>3. StateFor(reason) \in States
  BY StateForTyped DEF States, Terminal
<1> HIDE DEF attempt, judged, reason
<1>4. /\ looked.attempts = Append(rec.attempts, attempt) /\ looked.judged = TRUE
      /\ looked.version = rec.version /\ looked.moves = rec.moves
      /\ looked.checks = rec.checks /\ looked.charges = rec.charges
      /\ looked.claim = rec.claim /\ looked.deadline = rec.deadline
      /\ looked.attested = rec.attested
      /\ looked \in Record
  <2>1. looked \in Record
    BY <1>1, JudgeTyped
  <2> QED BY <1>1, <2>1, ZenonT(30) DEF Judge, Record
<1> HIDE DEF looked
<1>5. /\ moved \in Record /\ moved.state = StateFor(reason)
      /\ moved.moves = looked.moves + 1 /\ moved.movedAt = at /\ moved.updatedAt = at
      /\ moved.attempts = looked.attempts /\ moved.judged = looked.judged
      /\ moved.nextCheck = looked.nextCheck /\ moved.resolvedAt = looked.resolvedAt
      /\ moved.version = looked.version
      /\ moved.checks = looked.checks /\ moved.charges = looked.charges
      /\ moved.claim = looked.claim /\ moved.deadline = looked.deadline
      /\ moved.attested = looked.attested
  <2>1. moved \in Record
    BY <1>3, <1>4, TransitionTyped
  <2> QED BY <1>4, <2>1 DEF Transition, Record
<1> HIDE DEF moved
<1>6. settling \in [FollowUps -> FollowUp]
  BY SettleTyped DEF Record
<1> HIDE DEF settling
<1>7. /\ settled \in Record /\ settled.state = moved.state
      /\ settled.moves = moved.moves /\ settled.movedAt = moved.movedAt
      /\ settled.updatedAt = moved.updatedAt
      /\ settled.attempts = moved.attempts /\ settled.judged = moved.judged
      /\ settled.nextCheck = moved.nextCheck /\ settled.resolvedAt = moved.resolvedAt
      /\ settled.version = moved.version
      /\ settled.checks = moved.checks /\ settled.charges = moved.charges
      /\ settled.claim = moved.claim /\ settled.deadline = moved.deadline
      /\ settled.attested = moved.attested
  BY <1>5, <1>6 DEF Record
<1> HIDE DEF settled
<1> DEFINE notice    == Notice(settled, evidence, at)
           proposing == settled.state \notin Terminal
<1>8. judged = Notify(settled, notice, evidence, at, proposing) /\ notice \in Notices \cup {None}
  BY <1>2, NoticeTyped
<1> HIDE DEF notice, proposing
<1>9. settled \in Record
  BY <1>7
<1>10. /\ judged.state = settled.state /\ judged.judged = settled.judged
      /\ judged.checks = settled.checks /\ judged.nextCheck = settled.nextCheck
  BY <1>8, <1>9, NotifyKeepsPace, SMTT(30)
<1>11. /\ judged.version = settled.version /\ judged.claim = settled.claim
       /\ judged.attempts = settled.attempts /\ judged.charges = settled.charges
  BY <1>8, <1>9, NotifyKeeps, SMTT(30)
<1>12. /\ judged.moves = settled.moves /\ judged.movedAt = settled.movedAt
       /\ judged.updatedAt = settled.updatedAt /\ judged.attested = settled.attested
       /\ judged.deadline = settled.deadline /\ judged.resolvedAt = settled.resolvedAt
  BY <1>8, <1>9, NotifyLeaves, SMTT(30)
<1> QED BY <1>4, <1>5, <1>7, <1>10, <1>11, <1>12
        DEF attempt, judged, reason, looked

\* Everything before a judgement can be evaluated again, and the judgement rests on
\* a charge if it names one (record_from_mapping).
LEMMA JudgementReads ==
  ASSUME NEW rec \in Record, NEW evidence \in Evidence, NEW eligible \in BOOLEAN, NEW at \in Int,
         ReadsBack(rec), rec.claim.valid, Len(rec.attempts) < rec.checks, rec.checks <= MaxChecks,
         eligible => /\ rec.checks >= MaxChecks /\ rec.attempts # <<>>
                     /\ at >= DueAfter(LastAttempt(rec))
  PROVE  LET judged == RecordVerification(rec, evidence, eligible, at) IN
         /\ ReadBackUpTo(judged, Len(judged.attempts) - 1)
         /\ judged.judged
         /\ LastAttempt(judged).charge # None =>
              LastAttempt(judged).reason \in {"charge_observed", "charge_uncorrelated"}
<1> DEFINE charge  == ChargeToWeigh(rec, at)
           reason  == Reason(rec, evidence, eligible, at)
           attempt == Recorded(rec, evidence, eligible, at)
           judged  == RecordVerification(rec, evidence, eligible, at)
<1>1. /\ judged.attempts = Append(rec.attempts, attempt) /\ judged.claim = rec.claim
      /\ judged.charges = rec.charges /\ judged.deadline = rec.deadline
      /\ judged.judged
  BY JudgementWrites
<1>2. charge.id # None => charge # NoCharge
  BY DEF NoCharge
<1>3. /\ rec.attempts \in Seq(Attempt) /\ rec.checks \in Nat
      /\ Len(rec.attempts) \in Nat /\ DOMAIN rec.attempts = 1..Len(rec.attempts)
  BY DEF Record
<1> HIDE DEF charge, judged
<1>4. /\ attempt.at = at /\ attempt.count = rec.checks /\ attempt.eligible = eligible
      /\ attempt.charge = charge.id /\ attempt.evidence = evidence /\ attempt.reason = reason
  BY DEF Recorded, charge
<1>5. charge # NoCharge => reason \in {"charge_observed", "charge_uncorrelated"}
  BY ChargeDecides DEF Reason, charge
<1> HIDE DEF attempt, reason
<1>6. /\ DOMAIN judged.attempts = 1..Len(rec.attempts) + 1
      /\ judged.attempts[Len(rec.attempts) + 1] = attempt
      /\ \A i \in DOMAIN rec.attempts : judged.attempts[i] = rec.attempts[i]
  BY <1>1, <1>3
<1>7. \A id : ChargeById(judged, id) = ChargeById(rec, id)
  BY <1>1 DEF ChargeById
<1>8. ASSUME NEW i \in DOMAIN judged.attempts PROVE AttemptTimely(judged, i)
  <2>1. CASE i \in DOMAIN rec.attempts
    <3>1. AttemptTimely(rec, i)
      BY <2>1 DEF ReadsBack, ReadBackUpTo
    <3>2. judged.attempts[i] = rec.attempts[i]
      BY <1>6, <2>1
    <3>3. i > 1 => judged.attempts[i - 1] = rec.attempts[i - 1]
      BY <1>3, <1>6, <2>1
    <3> QED BY <3>1, <3>2, <3>3 DEF AttemptTimely
  <2>2. CASE i = Len(rec.attempts) + 1
    <3>1. judged.attempts[i] = attempt
      BY <1>6, <2>2
    <3>2. i <= attempt.count /\ attempt.count <= MaxChecks
      BY <1>3, <1>4, <2>2, MaxChecksAssumption
    <3>3. attempt.eligible =>
            /\ attempt.count >= MaxChecks /\ i > 1
            /\ judged.attempts[i - 1].at + Interval * judged.attempts[i - 1].count <= attempt.at
      <4> SUFFICES ASSUME eligible
                   PROVE  /\ rec.checks >= MaxChecks /\ i > 1
                          /\ judged.attempts[i - 1].at
                               + Interval * judged.attempts[i - 1].count <= at
        BY <1>4
      <4>1. Len(rec.attempts) > 0 /\ i - 1 = Len(rec.attempts)
        BY <1>3, <2>2
      <4>2. judged.attempts[i - 1] = LastAttempt(rec)
        BY <1>3, <1>6, <4>1 DEF LastAttempt
      <4>3. LastAttempt(rec) \in Attempt
        BY <1>3, <4>1 DEF LastAttempt
      <4>4. DueAfter(LastAttempt(rec)) \in Int
        BY <4>3, IntervalAssumption DEF DueAfter, Attempt
      <4>5. DueAfter(LastAttempt(rec)) <= at
        BY <4>4
      <4> QED BY <4>1, <4>2, <4>5, <2>2, <1>3 DEF DueAfter
    <3> QED BY <3>1, <3>2, <3>3 DEF AttemptTimely
  <2> QED BY <1>3, <1>6, <1>8, <2>1, <2>2
<1>9. ASSUME rec.claim.digest = Target, NEW i \in DOMAIN rec.attempts
      PROVE  AttemptReproduces(judged, i)
  <2>1. AttemptReproduces(rec, i)
    BY <1>3, <1>9 DEF ReadsBack, ReadBackUpTo
  <2>2. judged.attempts[i] = rec.attempts[i]
    BY <1>6
  <2> QED BY <1>1, <1>7, <2>1, <2>2 DEF AttemptReproduces
<1>10. ReadBackUpTo(judged, Len(judged.attempts) - 1)
  <2>1. /\ Len(judged.attempts) - 1 = Len(rec.attempts)
        /\ \A i \in DOMAIN judged.attempts : i <= Len(rec.attempts) => i \in DOMAIN rec.attempts
    BY <1>1, <1>3, <1>6
  <2> QED BY <1>1, <1>8, <1>9, <2>1 DEF ReadBackUpTo
<1>11. LastAttempt(judged) = attempt
  BY <1>1, <1>3, <1>6 DEF LastAttempt
<1> QED BY <1>1, <1>2, <1>4, <1>5, <1>10, <1>11 DEF judged

\* A judgement passes the record contract (validate_target_record).
LEMMA JudgementIsValid ==
  ASSUME NEW rec \in Record, NEW evidence \in Evidence, NEW eligible \in BOOLEAN, NEW at \in Int,
         NEW time, at \in Nat, ChargesKnown(rec, time),
         ReportedOnce(rec, ChargeToWeigh(rec, at).id),
         rec.attested, rec.claim.valid, AttemptsOrdered(rec),
         Len(rec.attempts) < rec.checks, rec.checks <= MaxChecks,
         \A i \in DOMAIN rec.attempts : rec.attempts[i].count < rec.checks,
         rec.attempts # <<>> => LastAttempt(rec).at <= at
  PROVE  ValidRecord(RecordVerification(rec, evidence, eligible, at))
<1> DEFINE charge  == ChargeToWeigh(rec, at)
           reason  == Reason(rec, evidence, eligible, at)
           attempt == Recorded(rec, evidence, eligible, at)
           open    == VerdictOf(reason) = "INCONCLUSIVE"
           judged  == RecordVerification(rec, evidence, eligible, at)
<1>1. /\ judged.attempts = Append(rec.attempts, attempt)
      /\ judged.state = StateFor(reason) /\ judged.judged
      /\ judged.movedAt = at /\ judged.updatedAt = at
      /\ judged.nextCheck = Judge(rec, attempt).nextCheck
      /\ judged.resolvedAt = Judge(rec, attempt).resolvedAt
      /\ judged.checks = rec.checks /\ judged.charges = rec.charges
      /\ judged.claim = rec.claim /\ judged.deadline = rec.deadline
      /\ judged.attested = rec.attested
  <2>1. /\ judged.attempts = Append(rec.attempts, attempt)
        /\ judged.state = StateFor(reason) /\ judged.judged
    BY JudgementWrites
  <2>2. judged.movedAt = at /\ judged.updatedAt = at /\ judged.attested = rec.attested
    BY JudgementWrites, ZenonT(30)
  <2>3. /\ judged.checks = rec.checks /\ judged.charges = rec.charges
        /\ judged.claim = rec.claim /\ judged.deadline = rec.deadline
    BY JudgementWrites
  <2>4. /\ judged.nextCheck = Judge(rec, attempt).nextCheck
        /\ judged.resolvedAt = Judge(rec, attempt).resolvedAt
    BY JudgementWrites
  <2> QED BY <2>1, <2>2, <2>3, <2>4
<1>2. ChargeWeighed(judged, charge.id) = charge
  <2>1. ChargeWeighed(rec, charge.id) = charge
    BY WeighedIsFound
  <2> QED BY <1>1, <2>1 DEF ChargeWeighed, ChargeById
<1>3. /\ rec.attempts \in Seq(Attempt) /\ rec.checks \in Nat
      /\ Len(rec.attempts) \in Nat /\ DOMAIN rec.attempts = 1..Len(rec.attempts)
  BY DEF Record
<1>4. reason \in Reasons
  BY VerifyTyped DEF Reason
<1>5. /\ attempt.at = at /\ attempt.count = rec.checks /\ attempt.eligible = eligible
      /\ attempt.charge = charge.id /\ attempt.evidence = evidence /\ attempt.reason = reason
  BY DEF Recorded
<1>6. reason = Verify(rec.claim, evidence, eligible /\ rec.checks >= MaxChecks, Target,
                      charge, rec.deadline, at)
  BY DEF Reason
<1> HIDE DEF charge, reason, attempt, judged
<1>7. /\ DOMAIN judged.attempts = 1..Len(rec.attempts) + 1
      /\ Len(judged.attempts) = Len(rec.attempts) + 1
      /\ judged.attempts[Len(rec.attempts) + 1] = attempt
      /\ LastAttempt(judged) = attempt
      /\ \A i \in DOMAIN rec.attempts : judged.attempts[i] = rec.attempts[i]
  BY <1>1, <1>3 DEF LastAttempt
<1>8. /\ StateFor(reason) \in {"VERIFIED", "NOT_COMPLETED", "AWAITING_PROOF"}
      /\ StateFor(reason) = "AWAITING_PROOF" <=> open
  BY <1>4, StateForTyped DEF StateFor, Terminal, VerdictOf
<1>9. BudgetValid(judged)
  BY <1>1, <1>3, <1>7, MaxChecksAssumption DEF BudgetValid
<1>10. ScheduleValid(judged)
  <2>1. at + Interval * rec.checks \in Nat
    BY <1>3, IntervalAssumption
  <2>2. at # Never /\ at + Interval * rec.checks # Never
    BY <2>1 DEF Never
  <2>3. /\ judged.nextCheck = IF open /\ rec.checks < MaxChecks
                              THEN at + Interval * rec.checks ELSE Never
        /\ judged.resolvedAt = IF open THEN Never ELSE at
    BY <1>1, <1>5 DEF Judge, Record
  <2> DEFINE due == at + Interval * rec.checks
  <2> HIDE DEF due, open
  <2>4. due # Never
    BY <2>2 DEF due
  <2>5. /\ judged.nextCheck = IF open /\ rec.checks < MaxChecks THEN due ELSE Never
    BY <2>3 DEF due
  <2> QED BY <1>1, <1>3, <1>5, <1>7, <1>8, <2>2, <2>3, <2>4, <2>5, MaxChecksAssumption
          DEF ScheduleValid, Terminal, open
<1>11. AttemptsOrdered(judged)
  <2> SUFFICES ASSUME NEW i \in DOMAIN judged.attempts
               PROVE  /\ judged.attempts[i].count <= judged.checks
                      /\ IF i = 1 THEN judged.attempts[i].count > 0
                         ELSE /\ judged.attempts[i - 1].count < judged.attempts[i].count
                              /\ judged.attempts[i - 1].at <= judged.attempts[i].at
    BY DEF AttemptsOrdered
  <2>1. CASE i \in DOMAIN rec.attempts
    <3>1. judged.attempts[i] = rec.attempts[i]
      BY <1>7, <2>1
    <3>2. i # 1 => i - 1 \in DOMAIN rec.attempts
      BY <1>3, <2>1
    <3>3. i # 1 => judged.attempts[i - 1] = rec.attempts[i - 1]
      BY <1>7, <3>2
    <3> QED BY <1>1, <2>1, <3>1, <3>3 DEF AttemptsOrdered
  <2>2. CASE i = Len(rec.attempts) + 1
    <3>1. judged.attempts[i] = attempt
      BY <1>7, <2>2
    <3>2. i # 1 =>
            /\ judged.attempts[i - 1] = LastAttempt(rec) /\ rec.attempts # <<>>
            /\ LastAttempt(rec).count < rec.checks
      BY <1>3, <1>7, <2>2 DEF LastAttempt
    <3> QED BY <1>1, <1>3, <1>5, <3>1, <3>2
  <2> QED BY <1>3, <1>7, <2>1, <2>2
<1>12. TimesValid(judged)
  BY <1>1, <1>5, <1>7 DEF TimesValid
<1>13. EvidenceValid(judged)
  <2>1. judged.state \in Terminal \cup {"AWAITING_PROOF"}
    BY <1>1, <1>8 DEF Terminal
  <2>2. judged.attested /\ judged.claim.valid /\ judged.judged
    BY <1>1
  <2> QED BY <2>1, <2>2 DEF EvidenceValid, Terminal
<1>14. VerdictReproduces(judged)
  BY <1>1, <1>2, <1>5, <1>6, <1>7 DEF VerdictReproduces
<1> QED BY <1>9, <1>10, <1>11, <1>12, <1>13, <1>14 DEF ValidRecord, judged

(***************************************************************************)
(* The order of times                                                      *)
(***************************************************************************)
LEMMA LastTyped ==
  ASSUME NEW rec \in Record, rec.attempts # <<>>
  PROVE  LastAttempt(rec) \in Attempt /\ LastAttempt(rec).at \in Int
<1>1. rec.attempts \in Seq(Attempt)
  BY DEF Record
<1>2. LastAttempt(rec) \in Attempt
  BY <1>1 DEF LastAttempt
<1> QED BY <1>2 DEF Attempt

LEMMA SameOrder ==
  ASSUME NEW a, NEW b, NEW time, InOrder(a, time),
         b.attempts = a.attempts, b.movedAt = a.movedAt
  PROVE  InOrder(b, time)
  BY DEF InOrder, LastAttempt

\* A record that moves now, or is looked at later, stays in order.
LEMMA MovedInOrder ==
  ASSUME NEW a \in Record, NEW b, NEW s \in Int, NEW t \in Int, s <= t, InOrder(a, s),
         b.attempts = a.attempts, b.movedAt \in {a.movedAt, t}
  PROVE  InOrder(b, t)
<1>1. LastAttempt(b) = LastAttempt(a) /\ a.movedAt \in Int
  BY DEF LastAttempt, Record
<1>2. a.attempts # <<>> => LastAttempt(a).at \in Int
  BY LastTyped
<1> QED BY <1>1, <1>2 DEF InOrder

\* What a change of state and of a follow-up leave alone (_transition).
LEMMA TransitionWrites ==
  ASSUME NEW rec \in Record, NEW next, NEW at
  PROVE  LET moved == Transition(rec, next, at) IN
         /\ moved.state = next /\ moved.movedAt = at /\ moved.updatedAt = at
         /\ moved.moves = rec.moves + 1
         /\ moved.version = rec.version /\ moved.checks = rec.checks
         /\ moved.attempts = rec.attempts /\ moved.charges = rec.charges
         /\ moved.claim = rec.claim /\ moved.deadline = rec.deadline
         /\ moved.attested = rec.attested /\ moved.judged = rec.judged
  BY DEF Transition, Record

LEMMA SetFollowUpLeaves ==
  ASSUME NEW rec \in Record, NEW f, NEW state, NEW at
  PROVE  LET after == SetFollowUp(rec, f, state, at) IN
         /\ after.updatedAt = at /\ after.movedAt = rec.movedAt /\ after.moves = rec.moves
         /\ after.state = rec.state /\ after.version = rec.version
         /\ after.checks = rec.checks /\ after.nextCheck = rec.nextCheck
         /\ after.attempts = rec.attempts /\ after.charges = rec.charges
         /\ after.claim = rec.claim /\ after.deadline = rec.deadline
         /\ after.attested = rec.attested /\ after.judged = rec.judged
         /\ after.resolvedAt = rec.resolvedAt
  BY DEF SetFollowUp, Record

(***************************************************************************)
(* Steps that store nothing                                                *)
(***************************************************************************)
LEMMA IdleFits ==
  ASSUME TypeOK
  PROVE  Fits(NoJob) /\ (UNCHANGED now => Fits(NoJob)')
<1>1. /\ NoJob.pc = "idle" /\ NoJob.rec = Unborn
      /\ Unborn.attempts = <<>> /\ Unborn.charges = <<>> /\ Unborn.movedAt = 0
  BY DEF NoJob, Unborn
<1>2. ReadsBack(Unborn)
  BY <1>1 DEF ReadsBack, ReadBackUpTo
<1>3. InOrder(Unborn, now)
  BY <1>1, TimeAssumption DEF InOrder, TypeOK
<1> QED BY <1>1, <1>2, <1>3 DEF Fits, CopyReadsBack, LookIsNew, BeforeVerdict, FollowUpIsInTime, IsAnswer

LEMMA StepKeepsStorage ==
  ASSUME StorageInv, NEW w \in Sessions, UNCHANGED <<row, now>>,
         \A x \in Sessions \ {w} : job'[x] = job[x],
         Fits(job'[w])
  PROVE  StorageInv'
<1>1. ReadsBack(row') /\ InOrder(row', now')
  BY DEF StorageInv
<1>2. ASSUME NEW x \in Sessions PROVE Fits(job[x])'
  <2>1. Fits(job'[x])
    BY DEF StorageInv
  <2> QED BY <2>1 DEF Fits, FollowUpIsInTime, CanSave, Open, SameVersion, ContinuesHistory
<1> QED BY <1>1, <1>2 DEF StorageInv

\* A call that ends leaves everything storable.
LEMMA DropKeepsStorage ==
  ASSUME TypeOK, StorageInv, NEW w \in Sessions, job' = [job EXCEPT ![w] = NoJob],
         UNCHANGED <<row, now>>
  PROVE  StorageInv'
<1>1. job'[w] = NoJob /\ \A x \in Sessions \ {w} : job'[x] = job[x]
  BY DEF TypeOK
<1> QED BY <1>1, IdleFits, StepKeepsStorage

\* Preparing the claim of the cancellation (confirm_resolution_action).
LEMMA LoadConfirmKeepsStorage ==
  ASSUME TypeOK, StorageInv, NEW w \in Sessions, LoadConfirm(w)
  PROVE  StorageInv'
<1> DEFINE attested == [row EXCEPT !.attested = TRUE]
           moved    == Transition(attested, "EXECUTING", now)
           begun    == [NoJob EXCEPT !.pc = "claim_execution", !.rec = moved, !.at = Never]
<1>1. row \in Record /\ now \in Int /\ UNCHANGED <<row, now>>
  BY TimeAssumption DEF TypeOK, LoadConfirm
<1>2. job' = [job EXCEPT ![w] = begun]
  BY DEF LoadConfirm, Begin
<1>3. /\ attested \in Record
      /\ attested.attempts = row.attempts /\ attested.charges = row.charges
      /\ attested.claim = row.claim /\ attested.deadline = row.deadline
  BY <1>1 DEF Record
<1> HIDE DEF attested
<1>4. /\ moved.movedAt = now
      /\ moved.attempts = row.attempts /\ moved.charges = row.charges
      /\ moved.claim = row.claim /\ moved.deadline = row.deadline
  BY <1>3, TransitionWrites
<1> HIDE DEF moved
<1>5. /\ begun.pc = "claim_execution" /\ begun.rec = moved
      /\ begun.at = Never /\ ~begun.eligible
  BY DEF NoJob
<1> HIDE DEF begun
<1>6. ReadsBack(moved) /\ InOrder(moved, now)
  BY <1>1, <1>4, SameReading, MovedInOrder DEF StorageInv
<1>7. Fits(begun)
  BY <1>5, <1>6 DEF Fits, CopyReadsBack, LookIsNew, FollowUpIsInTime, IsAnswer
<1>8. job'[w] = begun /\ \A x \in Sessions \ {w} : job'[x] = job[x]
  BY <1>2 DEF TypeOK
<1> QED BY <1>1, <1>7, <1>8, StepKeepsStorage

\* A look that is prepared has a new count (recheck_resolution).
LEMMA LoadRecheckKeepsStorage ==
  ASSUME TypeOK, OutcomeInv, StorageInv, NEW w \in Sessions, LoadRecheck(w)
  PROVE  StorageInv'
<1> DEFINE checks  == row.checks + 1
           claimed == [row EXCEPT !.checks = checks]
           cleared == IF row.state = "AWAITING_PROOF"
                      THEN [claimed EXCEPT !.nextCheck = Never, !.judged = FALSE]
                      ELSE claimed
           moved   == Transition(cleared, "VERIFYING", now)
           begun   == [NoJob EXCEPT !.pc = "claim_check", !.at = now,
                                    !.eligible = MayCloseWindow, !.rec = moved]
<1>1. job' = [job EXCEPT ![w] = begun]
  BY DEF LoadRecheck
<1>2. /\ row \in Record /\ checks \in Nat /\ now \in Nat /\ UNCHANGED <<row, now>>
      /\ row.checks \in Nat /\ checks = row.checks + 1 /\ row.state # "REQUESTED"
  <2>1. now \in Nat
    BY TimeAssumption DEF TypeOK
  <2>2. row \in Record /\ row.checks \in Nat
    BY DEF TypeOK, Record
  <2>3. UNCHANGED <<row, now>> /\ row.state # "REQUESTED"
    BY DEF LoadRecheck, Loadable
  <2> QED BY <2>1, <2>2, <2>3
<1>3. ValidRecord(row)
  BY <1>2 DEF OutcomeInv, StoreIsSound
<1>4. MayCloseWindow => checks >= MaxChecks
  BY DEF MayCloseWindow
<1> HIDE DEF checks
<1>5. /\ claimed \in Record /\ claimed.checks = checks
      /\ claimed.attempts = row.attempts /\ claimed.charges = row.charges
      /\ claimed.claim = row.claim /\ claimed.deadline = row.deadline
  BY <1>2 DEF Record
<1> HIDE DEF claimed
<1>6. /\ cleared \in Record /\ cleared.checks = checks
      /\ cleared.attempts = row.attempts /\ cleared.charges = row.charges
      /\ cleared.claim = row.claim /\ cleared.deadline = row.deadline
  BY <1>5, ValuesTyped DEF Record
<1> HIDE DEF cleared
<1>7. /\ moved.movedAt = now /\ moved.checks = checks
      /\ moved.attempts = row.attempts /\ moved.charges = row.charges
      /\ moved.claim = row.claim /\ moved.deadline = row.deadline
  BY <1>6, TransitionWrites
<1> HIDE DEF moved
<1>8. /\ begun.pc = "claim_check" /\ begun.rec = moved
      /\ begun.at = now /\ begun.eligible = MayCloseWindow
  BY DEF NoJob
<1> HIDE DEF begun
<1>9. ReadsBack(moved) /\ InOrder(moved, now)
  BY <1>2, <1>7, SameReading, MovedInOrder DEF StorageInv
<1>10. \A i \in DOMAIN moved.attempts : moved.attempts[i].count < checks
  <2>1. \A i \in DOMAIN row.attempts :
          row.attempts[i].count \in Nat /\ row.attempts[i].count <= row.checks
    <3>1. row.attempts \in Seq(Attempt)
      BY <1>2 DEF Record
    <3>2. \A i \in DOMAIN row.attempts : row.attempts[i] \in Attempt
      BY <3>1
    <3> QED BY <1>3, <3>2 DEF ValidRecord, AttemptsOrdered, Attempt
  <2> QED BY <1>2, <1>7, <2>1
<1>11. LookIsNew(begun)
  BY <1>2, <1>4, <1>7, <1>8, <1>10 DEF LookIsNew
<1>12. Fits(begun)
  BY <1>8, <1>9, <1>11 DEF Fits, CopyReadsBack, FollowUpIsInTime, IsAnswer
<1>13. job'[w] = begun /\ \A x \in Sessions \ {w} : job'[x] = job[x]
  BY <1>1 DEF TypeOK
<1> QED BY <1>2, <1>12, <1>13, StepKeepsStorage

\* A change of one follow-up of the stored record (confirm_recovery_action).
LEMMA FollowUpChangeReads ==
  ASSUME TypeOK, StorageInv, NEW f, NEW state, NEW at
  PROVE  LET after == SetFollowUp(row, f, state, at) IN
         ReadsBack(after) /\ InOrder(after, now)
<1> DEFINE after == SetFollowUp(row, f, state, at)
<1>1. /\ after.movedAt = row.movedAt
      /\ after.attempts = row.attempts /\ after.charges = row.charges
      /\ after.claim = row.claim /\ after.deadline = row.deadline
  BY SetFollowUpLeaves DEF TypeOK
<1> HIDE DEF after
<1>2. ReadsBack(after) /\ InOrder(after, now)
  BY <1>1, SameReading, SameOrder DEF StorageInv
<1> QED BY <1>2 DEF after

\* Preparing to close a proposal, expired or declined.
LEMMA AnswerKeepsStorage ==
  ASSUME TypeOK, StorageInv, NEW w \in Sessions, NEW f \in FollowUps, NEW at \in RecentTimes,
         NEW state, LoadRecovery(w, f, at), Begin(w, "finish", SetFollowUp(row, f, state, at), Never)
  PROVE  StorageInv'
<1> DEFINE after == SetFollowUp(row, f, state, at)
           begun == [NoJob EXCEPT !.pc = "finish", !.rec = after, !.at = Never]
<1>1. job' = [job EXCEPT ![w] = begun]
  BY DEF Begin
<1>2. ReadsBack(after) /\ InOrder(after, now) /\ after.movedAt = row.movedAt
  BY FollowUpChangeReads, SetFollowUpLeaves DEF TypeOK
<1> HIDE DEF after
<1>3. begun.pc = "finish" /\ begun.rec = after /\ begun.item = None
  BY DEF NoJob
<1> HIDE DEF begun
<1>4. None \notin Support
  BY DEF None, Support, FollowUps
<1>5. Fits(begun)
  BY <1>2, <1>3, <1>4
     DEF Fits, CopyReadsBack, LookIsNew, BeforeVerdict, FollowUpIsInTime, IsAnswer
<1>6. job'[w] = begun /\ \A x \in Sessions \ {w} : job'[x] = job[x]
  BY <1>1 DEF TypeOK
<1>7. UNCHANGED <<row, now>>
  BY DEF LoadRecovery
<1> QED BY <1>5, <1>6, <1>7, StepKeepsStorage

\* Preparing the claim of a follow-up.
LEMMA AcceptRecoveryKeepsStorage ==
  ASSUME TypeOK, StorageInv, NEW w \in Sessions, AcceptRecovery(w)
  PROVE  StorageInv'
<1>1. PICK f \in FollowUps, at \in RecentTimes :
        /\ LoadRecovery(w, f, at)
        /\ job' = [job EXCEPT ![w] =
                     [NoJob EXCEPT !.pc = "claim_recovery", !.at = at, !.item = f,
                                   !.rec = SetFollowUp(row, f, "EXECUTING", at)]]
  BY DEF AcceptRecovery
<1> DEFINE after == SetFollowUp(row, f, "EXECUTING", at)
           begun == [NoJob EXCEPT !.pc = "claim_recovery", !.at = at, !.item = f, !.rec = after]
<1>2. job' = [job EXCEPT ![w] = begun]
  BY <1>1
<1>3. /\ ReadsBack(after) /\ InOrder(after, now)
      /\ after.movedAt = row.movedAt /\ after.updatedAt = at
  BY FollowUpChangeReads, SetFollowUpLeaves DEF TypeOK
<1> HIDE DEF after
<1>4. begun.pc = "claim_recovery" /\ begun.rec = after /\ begun.at = at
  BY DEF NoJob
<1> HIDE DEF begun
<1>5. Fits(begun)
  BY <1>3, <1>4
     DEF Fits, CopyReadsBack, LookIsNew, BeforeVerdict, FollowUpIsInTime, IsAnswer
<1>6. job'[w] = begun /\ \A x \in Sessions \ {w} : job'[x] = job[x]
  BY <1>2 DEF TypeOK
<1>7. UNCHANGED <<row, now>>
  BY <1>1 DEF LoadRecovery
<1> QED BY <1>5, <1>6, <1>7, StepKeepsStorage

\* An observed charge is added to the list, and no attempt refers to it then
\* (record_outcome_violation).
LEMMA LoadChargeKeepsStorage ==
  ASSUME TypeOK, OutcomeInv, StorageInv, NEW w \in Sessions, LoadCharge(w)
  PROVE  StorageInv'
<1>1. PICK charge \in Charges, at \in RecentTimes :
        LET noted == [row EXCEPT !.charges = Append(@, charge), !.updatedAt = at]
        IN Begin(w, "finish",
                 Notify(noted, Notice(noted, Unreadable, at), Unreadable, at, TRUE), Never)
  BY DEF LoadCharge
<1> DEFINE charges == Append(row.charges, charge)
           noted   == [row EXCEPT !.charges = charges, !.updatedAt = at]
           notice  == Notice(noted, Unreadable, at)
           noticed == Notify(noted, notice, Unreadable, at, TRUE)
           begun   == [NoJob EXCEPT !.pc = "finish", !.rec = noticed, !.at = Never]
<1>2. charge \in Charge /\ at \in Int /\ row \in Record /\ row.charges \in Seq(Charge)
  <2>1. row \in Record /\ now \in Int
    BY TimeAssumption DEF TypeOK
  <2>2. row.charges \in Seq(Charge)
    BY <2>1 DEF Record
  <2>3. charge \in Charge
    BY <2>1 DEF Charges, Charge, Digests
  <2>4. at \in Int
    BY <2>1 DEF RecentTimes
  <2> QED BY <2>1, <2>2, <2>3, <2>4
<1>3. /\ charges \in Seq(Charge) /\ charges = Append(row.charges, charge)
      /\ \A i \in DOMAIN charges : i \in DOMAIN row.charges \/ charges[i] = charge
      /\ \A i \in DOMAIN row.charges : charges[i] = row.charges[i]
  BY <1>2
<1>4. job' = [job EXCEPT ![w] = begun]
  BY <1>1 DEF Begin
<1> HIDE DEF charges
<1>5. /\ noted \in Record /\ noted.charges = charges /\ noted.movedAt = row.movedAt
      /\ noted.attempts = row.attempts /\ noted.claim = row.claim
      /\ noted.deadline = row.deadline
  BY <1>2, <1>3 DEF Record
<1> HIDE DEF noted
<1>6. notice \in Notices \cup {None}
  BY NoticeTyped
<1> DEFINE proposing == TRUE
<1>7. noticed = Notify(noted, notice, Unreadable, at, proposing)
  OBVIOUS
<1> HIDE DEF notice, noticed, proposing
<1>8. /\ noticed.claim = noted.claim
      /\ noticed.attempts = noted.attempts /\ noticed.charges = noted.charges
  <2>1. noted \in Record /\ at \in Int
    BY <1>2, <1>5
  <2> QED BY <1>6, <1>7, <2>1, NotifyKeeps, SMTT(30)
<1>9. noticed.movedAt = noted.movedAt /\ noticed.deadline = noted.deadline
  <2>1. noted \in Record
    BY <1>5
  <2>2. at \in Int
    BY <1>2
  <2> QED BY <1>6, <1>7, <2>1, <2>2, NotifyLeaves, SMTT(30)
<1>10. ReadsBack(row) /\ InOrder(row, now)
  BY DEF StorageInv
<1>11. charge.id # None /\ noticed.charges = charges
  BY <1>5, <1>8, ChargeIdsAssumption DEF Charges
<1>12. ASSUME row.claim.digest = Target, NEW i \in DOMAIN row.attempts
       PROVE  AttemptReproduces(noticed, i)
  <2> DEFINE id == row.attempts[i].charge
  <2>1. AttemptReproduces(row, i)
    BY <1>2, <1>10, <1>12 DEF ReadsBack, ReadBackUpTo, Record
  <2>2. id # None => ChargeById(row, id) # NoCharge
    BY <2>1 DEF AttemptReproduces
  <2>3. id = None => ~\E j \in DOMAIN charges : charges[j].id = id
    BY <1>3, <1>11 DEF OutcomeInv, StoreIsSound, ChargesKnown
  <2> HIDE DEF id
  <2>4. ChargeById(noticed, id) = ChargeById(row, id)
    <3>1. noticed.charges = Append(row.charges, charge)
      BY <1>3, <1>11
    <3>2. \/ ChargeById(row, id) # NoCharge
          \/ ~\E j \in DOMAIN noticed.charges : noticed.charges[j].id = id
      BY <1>11, <2>2, <2>3
    <3> QED BY <1>2, <3>1, <3>2, FirstStays
  <2> QED BY <1>5, <1>8, <1>9, <2>1, <2>4 DEF AttemptReproduces, id
<1>13. ASSUME NEW i \in DOMAIN row.attempts PROVE AttemptTimely(noticed, i)
  <2>1. AttemptTimely(row, i)
    BY <1>10 DEF ReadsBack, ReadBackUpTo
  <2> QED BY <1>5, <1>8, <2>1 DEF AttemptTimely
<1>14. ReadsBack(noticed)
  BY <1>5, <1>8, <1>10, <1>12, <1>13 DEF ReadsBack, ReadBackUpTo
<1>15. InOrder(noticed, now)
  BY <1>5, <1>8, <1>9, <1>10, SameOrder
<1>16. begun.pc = "finish" /\ begun.rec = noticed /\ begun.item = None
  BY DEF NoJob
<1> HIDE DEF begun
<1>17. None \notin Support
  BY DEF None, Support, FollowUps
<1>18. Fits(begun)
  BY <1>5, <1>9, <1>14, <1>15, <1>16, <1>17
     DEF Fits, CopyReadsBack, LookIsNew, BeforeVerdict, FollowUpIsInTime, IsAnswer
<1>19. job'[w] = begun /\ \A x \in Sessions \ {w} : job'[x] = job[x]
  BY <1>4 DEF TypeOK
<1>20. UNCHANGED <<row, now>>
  BY DEF LoadCharge
<1> QED BY <1>18, <1>19, <1>20, StepKeepsStorage

\* The provider's answer to the cancellation can be stored, as long as nobody else
\* has saved (confirm_resolution_action).
LEMMA ExecuteKeepsStorage ==
  ASSUME TypeOK, OwnershipInv, OutcomeInv, StagesInv, StorageInv, NEW w \in Sessions, Execute(w)
  PROVE  StorageInv'
<1>1. /\ job[w] \in Job /\ job[w].rec \in Record /\ job[w].rec.checks \in Nat
      /\ job[w].pc = "execute" /\ UNCHANGED <<row, now>>
      /\ row \in Record /\ now \in Int
  <2>1. now \in Int
    BY TimeAssumption DEF TypeOK
  <2>2. job[w].rec \in Record /\ job[w] \in Job /\ row \in Record
    BY DEF TypeOK, Job
  <2> QED BY <2>1, <2>2 DEF Execute, Record
<1>2. PICK receipt \in ProviderReceipts :
        job' = [job EXCEPT
                  ![w].pc  = "record_claim",
                  ![w].rec = Transition([job[w].rec EXCEPT !.claim = Accepted(receipt),
                                                           !.checks = @ + 1],
                                        "VERIFYING", now)]
  BY DEF Execute
<1> DEFINE rec      == job[w].rec
           accepted == Accepted(receipt)
           checks   == rec.checks + 1
           claimed  == [rec EXCEPT !.claim = accepted, !.checks = checks]
           moved    == Transition(claimed, "VERIFYING", now)
<1>3. accepted \in Receipt /\ accepted.valid /\ checks \in Nat /\ checks = rec.checks + 1
  <2>1. accepted.valid
    BY DEF Accepted
  <2> QED BY <1>1, <2>1, AcceptedTyped, ProviderAssumption
<1>4. job' = [job EXCEPT ![w].pc = "record_claim", ![w].rec = moved]
  BY <1>2
<1> HIDE DEF accepted, checks
<1>5. /\ claimed \in Record /\ claimed.version = rec.version /\ claimed.moves = rec.moves
      /\ claimed.claim = accepted /\ claimed.checks = checks
      /\ claimed.attempts = rec.attempts /\ claimed.charges = rec.charges
      /\ claimed.attested = rec.attested /\ claimed.judged = rec.judged
  BY <1>1, <1>3 DEF Record
<1> HIDE DEF claimed
<1>6. /\ moved.state = "VERIFYING" /\ moved.movedAt = now /\ moved.updatedAt = now
      /\ moved.version = rec.version /\ moved.moves = rec.moves + 1
      /\ moved.claim = accepted /\ moved.checks = checks
      /\ moved.attempts = rec.attempts /\ moved.charges = rec.charges
      /\ moved.attested = rec.attested /\ moved.judged = rec.judged
  BY <1>5, TransitionWrites
<1> HIDE DEF moved
<1>7. /\ job'[w].pc = "record_claim" /\ job'[w].rec = moved
      /\ job'[w].at = job[w].at /\ job'[w].eligible = job[w].eligible
      /\ \A x \in Sessions \ {w} : job'[x] = job[x]
  BY <1>1, <1>4 DEF TypeOK, Job
<1>8. Fits(job[w]) /\ InOrder(row, now)
  BY DEF StorageInv
<1>9. moved.attempts = <<>>
  <2>1. ~rec.claim.valid
    BY <1>1 DEF OwnershipInv, ExecutionIsClaimed
  <2> QED BY <1>1, <1>6, <1>8, <2>1 DEF Fits, CopyReadsBack, ReadsBack, ReadBackUpTo
<1>10. ReadsBack(moved)
  BY <1>9 DEF ReadsBack, ReadBackUpTo
<1>11. InOrder(moved, now)
  BY <1>1, <1>6, <1>9 DEF InOrder
<1>12. LookIsNew(job'[w])
  BY <1>1, <1>3, <1>6, <1>7, <1>8, <1>9, MaxChecksAssumption DEF Fits, LookIsNew, BeforeVerdict
<1>13. ASSUME moved.version = row.version
       PROVE  CanSave(moved)
  <2>1. rec = row /\ row.state = "EXECUTING"
    BY <1>1, <1>6, <1>13 DEF OwnershipInv, CopiesFollowTheStore, StagesInv, Current, SavePoints
  <2>2. ValidRecord(row)
    BY <2>1 DEF OutcomeInv, StoreIsSound
  <2>3. row.attested /\ ~row.claim.valid /\ ~row.judged
    BY <2>1, <2>2 DEF ValidRecord, EvidenceValid, Terminal
  <2>4. row.checks = 0
    BY <2>3 DEF StagesInv
  <2>5. Open /\ SameVersion(moved)
    BY <1>13, <2>1 DEF Open, SameVersion, Terminal
  <2>6. ContinuesHistory(moved)
    BY <1>6, <1>8, <2>1
       DEF ContinuesHistory, InOrder, AllowedPrevious, AllowedNext, States, Terminal
  <2>7. BudgetValid(moved) /\ AttemptsOrdered(moved)
    BY <1>3, <1>6, <1>9, <2>1, <2>4, MaxChecksAssumption DEF BudgetValid, AttemptsOrdered
  <2>8. ScheduleValid(moved) /\ VerdictReproduces(moved)
    BY <1>6, <2>1, <2>3 DEF ScheduleValid, VerdictReproduces, Terminal
  <2>9. TimesValid(moved)
    BY <1>1, <1>6, <2>1, <2>3 DEF TimesValid
  <2>10. EvidenceValid(moved)
    BY <1>3, <1>6, <2>1, <2>3 DEF EvidenceValid, Terminal
  <2> QED BY <2>5, <2>6, <2>7, <2>8, <2>9, <2>10 DEF CanSave, ValidRecord
<1>14. Fits(job'[w])
  BY <1>7, <1>10, <1>11, <1>12, <1>13 DEF Fits, CopyReadsBack, FollowUpIsInTime
<1> QED BY <1>1, <1>7, <1>14, StepKeepsStorage

\* A verdict can be stored, as long as nobody else has saved and the charge it
\* rests on, if any, was reported once (_record_verification).
LEMMA ReadBackKeepsStorage ==
  ASSUME TypeOK, OwnershipInv, OutcomeInv, StagesInv, StorageInv, NEW w \in Sessions, ReadBack(w)
  PROVE  StorageInv'
<1>1. /\ job[w] \in Job /\ job[w].rec \in Record
      /\ job[w].at \in Int /\ job[w].eligible \in BOOLEAN
      /\ job[w].pc = "read_back" /\ UNCHANGED <<row, now>>
      /\ row \in Record /\ now \in Nat
  BY TimeAssumption DEF TypeOK, Job, ReadBack
<1> DEFINE at  == IF job[w].at = Never THEN now ELSE job[w].at
           rec == job[w].rec
           eligible == job[w].eligible
<1>2. PICK evidence \in ProviderEvidence :
        job' = [job EXCEPT
                  ![w].pc  = "conclude",
                  ![w].rec = RecordVerification(job[w].rec, Collected(evidence),
                                                job[w].eligible, at)]
  BY DEF ReadBack
<1>3. CopyIsSound(job[w], now) /\ Fits(job[w]) /\ InOrder(row, now)
  BY DEF OutcomeInv, StorageInv
<1>4. /\ at \in Nat /\ at <= now /\ rec.movedAt <= at
      /\ eligible => rec.attempts # <<>> /\ at >= DueAfter(LastAttempt(rec))
  BY <1>1, <1>3 DEF CopyIsSound, BeforeVerdict, Fits, LookIsNew, InOrder
<1>5. /\ ReadsBack(rec) /\ ChargesKnown(rec, now) /\ rec.claim.valid
      /\ Len(rec.attempts) < rec.checks /\ rec.checks <= MaxChecks
      /\ \A i \in DOMAIN rec.attempts : rec.attempts[i].count < rec.checks
      /\ eligible => rec.checks >= MaxChecks
  BY <1>1, <1>3 DEF CopyIsSound, Fits, CopyReadsBack, LookIsNew, BeforeVerdict
<1> DEFINE seen == Collected(evidence)
<1>6. seen \in Evidence
  BY CollectedTyped, ProviderAssumption
<1> HIDE DEF at, seen
<1> DEFINE judged == RecordVerification(rec, seen, eligible, at)
<1>7. job' = [job EXCEPT ![w].pc = "conclude", ![w].rec = judged]
  BY <1>2 DEF seen
<1>8. at \in Int
  BY <1>4
<1>9. rec.attempts # <<>> => LastAttempt(rec).at <= at
  <2>1. rec.movedAt \in Int /\ (rec.attempts # <<>> => LastAttempt(rec).at \in Int)
    BY <1>1, LastTyped DEF Record
  <2> QED BY <1>3, <1>4, <1>8, <2>1 DEF Fits, InOrder
<1>10. /\ ReadBackUpTo(judged, Len(judged.attempts) - 1)
       /\ judged.judged
       /\ LastAttempt(judged).charge # None =>
            LastAttempt(judged).reason \in {"charge_observed", "charge_uncorrelated"}
  BY <1>1, <1>4, <1>5, <1>6, <1>8, JudgementReads
<1>11. /\ judged.movedAt = at /\ judged.version = rec.version /\ judged.moves = rec.moves + 1
  BY <1>1, <1>6, <1>8, JudgementWrites
<1>12. /\ LastAttempt(judged).at <= judged.movedAt
       /\ LastAttempt(judged).charge = ChargeToWeigh(rec, at).id
       /\ judged.charges = rec.charges
  <2>1. judged.attempts = Append(rec.attempts, Recorded(rec, seen, eligible, at))
    BY <1>1, <1>6, <1>8, JudgementWrites, SMTT(30)
  <2>2. rec.attempts \in Seq(Attempt)
    BY <1>1 DEF Record
  <2>3. LastAttempt(judged) = Recorded(rec, seen, eligible, at)
    BY <2>1, <2>2, SMTT(30) DEF LastAttempt
  <2>4. LastAttempt(judged).at = at /\ LastAttempt(judged).charge = ChargeToWeigh(rec, at).id
    BY <2>3 DEF Recorded
  <2>5. judged.charges = rec.charges
    BY <1>1, <1>6, <1>8, JudgementWrites, SMTT(30)
  <2> QED BY <1>8, <1>11, <2>4, <2>5
<1>13. judged.state \in Terminal \cup {"AWAITING_PROOF"}
  BY <1>1, <1>3, <1>4, <1>6, <1>8, JudgementIsSound DEF CopyIsSound, BeforeVerdict, at
<1>14. ASSUME judged.version = row.version, ReportedOnce(judged, LastAttempt(judged).charge)
       PROVE  CanSave(judged)
  <2>1. rec = row /\ row.state = "VERIFYING"
    BY <1>1, <1>11, <1>14 DEF OwnershipInv, CopiesFollowTheStore, StagesInv, Current, SavePoints
  <2>2. ValidRecord(row)
    BY <2>1 DEF OutcomeInv, StoreIsSound
  <2>3. rec.attested /\ AttemptsOrdered(rec)
    BY <2>1, <2>2 DEF ValidRecord, EvidenceValid, Terminal
  <2>4. ValidRecord(judged)
    <3>1. ReportedOnce(rec, ChargeToWeigh(rec, at).id)
      BY <1>12, <1>14 DEF ReportedOnce
    <3> QED BY <1>1, <1>4, <1>5, <1>6, <1>8, <1>9, <2>3, <3>1, JudgementIsValid
  <2>5. Open /\ SameVersion(judged)
    BY <1>14, <2>1 DEF Open, SameVersion, Terminal
  <2>6. row.state \in AllowedPrevious(judged.state)
    BY <1>13, <2>1 DEF AllowedPrevious, AllowedNext, States, Terminal
  <2>7. ContinuesHistory(judged)
    BY <1>4, <1>11, <2>1, <2>6 DEF ContinuesHistory
  <2> QED BY <2>4, <2>5, <2>7 DEF CanSave
<1> HIDE DEF judged
<1>15. /\ job'[w].pc = "conclude" /\ job'[w].rec = judged
       /\ \A x \in Sessions \ {w} : job'[x] = job[x]
  BY <1>1, <1>7 DEF TypeOK, Job
<1>16. InOrder(judged, now)
  BY <1>4, <1>11, <1>12 DEF InOrder
<1>17. Fits(job'[w])
  <2>1. CopyReadsBack(job'[w])
    BY <1>10, <1>15 DEF CopyReadsBack
  <2>2. (IsAnswer(job'[w]) /\ job'[w].rec.version = row.version) => CanSave(job'[w].rec)
    BY <1>14, <1>15 DEF IsAnswer
  <2> QED BY <1>15, <1>16, <2>1, <2>2 DEF Fits, LookIsNew, BeforeVerdict, FollowUpIsInTime
<1> QED BY <1>1, <1>15, <1>17, StepKeepsStorage

\* The provider of a follow-up is called; nothing else changes (confirm_recovery_action).
LEMMA CallRecoveryKeepsStorage ==
  ASSUME TypeOK, OwnershipInv, OutcomeInv, StorageInv, NEW w \in Sessions, CallRecovery(w)
  PROVE  StorageInv'
<1>1. job[w] \in Job /\ job[w].pc = "call_recovery" /\ UNCHANGED <<row, now>>
  BY DEF TypeOK, CallRecovery
<1>2. PICK succeeded \in BOOLEAN :
        job' = [job EXCEPT ![w].pc = "reload", ![w].succeeded = succeeded]
  BY DEF CallRecovery
<1>3. /\ job'[w].pc = "reload" /\ job'[w].rec = job[w].rec
      /\ job'[w].item = job[w].item /\ job'[w].at = job[w].at
      /\ \A x \in Sessions \ {w} : job'[x] = job[x]
  BY <1>1, <1>2 DEF TypeOK, Job
<1>4. Fits(job[w])
  BY DEF StorageInv
<1>5. Fits(job'[w])
  BY <1>1, <1>3, <1>4
     DEF Fits, CopyReadsBack, LookIsNew, BeforeVerdict, FollowUpIsInTime, IsAnswer
<1> QED BY <1>1, <1>3, <1>5, StepKeepsStorage

\* The result of a support follow-up can be stored, as long as nobody else has
\* saved: the record did not move while the follow-up was being executed
\* (confirm_recovery_action).
LEMMA ReloadRecoveryKeepsStorage ==
  ASSUME TypeOK, OwnershipInv, OutcomeInv, StorageInv, NEW w \in Sessions, ReloadRecovery(w)
  PROVE  StorageInv'
<1> DEFINE f      == job[w].item
           at     == job[w].at
           result == IF ~job[w].succeeded THEN "FAILED"
                     ELSE IF IsRefund(job[w].rec, f) THEN "COMPLETED" ELSE "VERIFYING"
           after  == SetFollowUp(row, f, result, at)
<1>1. /\ job[w] \in Job /\ job[w].pc = "reload" /\ UNCHANGED <<row, now>>
      /\ row \in Record /\ at \in Int
  BY DEF TypeOK, Job, ReloadRecovery
<1>2. CASE job' = [job EXCEPT ![w] = NoJob]
  BY <1>1, <1>2, DropKeepsStorage
<1>3. CASE Loadable /\ job' = [job EXCEPT ![w].pc = "finish", ![w].rec = after]
  <2>1. /\ after.updatedAt = at /\ after.movedAt = row.movedAt /\ after.moves = row.moves
        /\ after.state = row.state /\ after.version = row.version
        /\ after.checks = row.checks /\ after.nextCheck = row.nextCheck
        /\ after.attempts = row.attempts /\ after.charges = row.charges
        /\ after.claim = row.claim /\ after.deadline = row.deadline
        /\ after.attested = row.attested /\ after.judged = row.judged
        /\ after.resolvedAt = row.resolvedAt
    <3> HIDE DEF result, f, at
    <3> QED BY <1>1, SetFollowUpLeaves
  <2>2. ReadsBack(after) /\ InOrder(after, now)
    <3> HIDE DEF result, f, at
    <3> QED BY FollowUpChangeReads
  <2>3. job' = [job EXCEPT ![w].pc = "finish", ![w].rec = after]
    BY <1>3
  <2> HIDE DEF after
  <2>4. /\ job'[w].pc = "finish" /\ job'[w].rec = after /\ job'[w].item = f
        /\ \A x \in Sessions \ {w} : job'[x] = job[x]
    BY <1>1, <2>3 DEF TypeOK, Job
  <2>5. ASSUME f \in Support PROVE CanSave(after)
    <3>1. row.recovery[f].state = "EXECUTING" /\ f \in FollowUps
      BY <1>1, <2>5 DEF OwnershipInv, FollowUpIsClaimed, Holds, Support
    <3>2. row.state = "AWAITING_PROOF"
      BY <2>5, <3>1 DEF OutcomeInv, StoreIsSound, HasSupport
    <3>3. ValidRecord(row)
      BY <3>2 DEF OutcomeInv, StoreIsSound
    <3>4. row.movedAt <= at
      BY <1>1, <2>5 DEF StorageInv, Fits, FollowUpIsInTime
    <3>5. Open /\ SameVersion(after) /\ ContinuesHistory(after)
      BY <2>1, <3>2 DEF Open, SameVersion, ContinuesHistory, Terminal
    <3>6. BudgetValid(after) /\ ScheduleValid(after) /\ AttemptsOrdered(after)
      BY <2>1, <3>3 DEF ValidRecord, BudgetValid, ScheduleValid, AttemptsOrdered, LastAttempt
    <3>7. TimesValid(after) /\ EvidenceValid(after)
      BY <2>1, <3>3, <3>4 DEF ValidRecord, TimesValid, EvidenceValid, LastAttempt
    <3>8. VerdictReproduces(after)
      <4>1. \A id : ChargeById(after, id) = ChargeById(row, id)
        BY <2>1 DEF ChargeById
      <4> QED BY <2>1, <3>3, <4>1 DEF ValidRecord, VerdictReproduces, ChargeWeighed, LastAttempt
    <3> QED BY <3>5, <3>6, <3>7, <3>8 DEF CanSave, ValidRecord
  <2>6. Fits(job'[w])
    BY <2>1, <2>2, <2>4, <2>5
       DEF Fits, CopyReadsBack, LookIsNew, BeforeVerdict, FollowUpIsInTime, IsAnswer
  <2> QED BY <1>1, <2>4, <2>6, StepKeepsStorage
<1> QED BY <1>2, <1>3 DEF ReloadRecovery

(***************************************************************************)
(* Saves                                                                   *)
(***************************************************************************)
\* While a support follow-up is being executed no save moves the record
\* (recheck_resolution begins no look meanwhile).
LEMMA SaveDoesNotMove ==
  ASSUME TypeOK, OwnershipInv, OutcomeInv, LooksArePaid, StagesInv, StorageInv,
         NEW w \in Sessions, NEW from \in SavePoints, NEW to, Save(w, from, to),
         NEW x \in Sessions \ {w}, NEW f \in Support, Holds(x, f)
  PROVE  row'.movedAt = row.movedAt
<1>1. job[w].pc = from /\ job[w].rec \in Record /\ row' = Saved(job[w].rec)
  BY DEF Save, TypeOK, Job
<1>2. row'.movedAt = job[w].rec.movedAt /\ Current(w)
  BY <1>1, SavedFields DEF Save, CanSave, SameVersion, Current
<1>3. row.recovery[f].state = "EXECUTING" /\ f \in FollowUps
  BY DEF OwnershipInv, FollowUpIsClaimed, Support
<1>4. row.state = "AWAITING_PROOF"
  BY <1>3 DEF OutcomeInv, StoreIsSound, HasSupport
<1>5. from \notin {"claim_execution", "record_claim", "conclude"}
  BY <1>4, SaveStages
<1>6. from # "claim_check"
  <2> SUFFICES ASSUME from = "claim_check" PROVE FALSE
    OBVIOUS
  <2>1. job[w].rec.recovery[f].state = "EXECUTING" \/ Holds(w, f)
    BY <1>1, <1>2, <1>3 DEF OwnershipInv, FollowUpIsClaimed
  <2>2. ~Holds(w, f)
    BY <1>1 DEF Holds
  <2>3. HasSupport(job[w].rec, {"EXECUTING"})
    BY <2>1, <2>2 DEF HasSupport
  <2> QED BY <1>1, <2>3 DEF OutcomeInv, CopyIsSound, BeforeVerdict
<1>7. from \in {"claim_recovery", "finish"}
  BY <1>5, <1>6 DEF SavePoints
<1>8. job[w].rec.movedAt = row.movedAt
  BY <1>1, <1>2, <1>7 DEF StorageInv, Fits, FollowUpIsInTime, Current
<1> QED BY <1>2, <1>8

\* A save keeps everything storable; the copies of the others are out of date.
LEMMA SaveKeepsStorage ==
  ASSUME TypeOK, OwnershipInv, OutcomeInv, LooksArePaid, StagesInv, StorageInv,
         NEW w \in Sessions,
         NEW from \in SavePoints, NEW to \in {"idle", "execute", "read_back", "call_recovery"},
         from = "claim_execution" <=> to = "execute",
         from = "claim_recovery" <=> to = "call_recovery",
         from \in {"record_claim", "claim_check"} <=> to = "read_back",
         Save(w, from, to)
  PROVE  StorageInv'
<1> DEFINE rec   == job[w].rec
           saved == Saved(rec)
<1>1. /\ job[w] \in Job /\ rec \in Record /\ row \in Record /\ job[w].pc = from
      /\ row' = saved /\ ValidRecord(rec) /\ UNCHANGED now
      /\ job' = [job EXCEPT ![w] = IF to = "idle" THEN NoJob
                                   ELSE [job[w] EXCEPT !.pc = to, !.rec = saved]]
  BY DEF TypeOK, Job, Save, CanSave
<1>2. /\ saved.movedAt = rec.movedAt /\ saved.updatedAt = rec.updatedAt
      /\ saved.checks = rec.checks /\ saved.attempts = rec.attempts
      /\ saved.charges = rec.charges /\ saved.claim = rec.claim
      /\ saved.deadline = rec.deadline
  BY <1>1, SavedFields
<1>3. /\ row'.version = row.version + 1 /\ row.version \in Nat
      /\ ValidRecord(row')
      /\ to = "read_back" => row'.state = "VERIFYING"
  BY <1>1, SaveStages DEF Record
<1> HIDE DEF saved
<1>4. /\ \A x \in Sessions \ {w} : job'[x] = job[x]
      /\ IF to = "idle" THEN job'[w] = NoJob
         ELSE /\ job'[w].pc = to /\ job'[w].rec = saved /\ job'[w].at = job[w].at
              /\ job'[w].eligible = job[w].eligible /\ job'[w].item = job[w].item
  BY <1>1 DEF TypeOK, Job
<1>5. Fits(job[w]) /\ CopyIsSound(job[w], now)
  BY DEF StorageInv, OutcomeInv
<1>6. ReadsBack(saved) /\ InOrder(saved, now)
  <2>1. CopyReadsBack(job[w]) /\ Paced(rec)
    BY <1>5 DEF Fits, CopyIsSound
  <2>2. ReadsBack(rec)
    <3>1. CASE from = "conclude"
      <4>1. /\ ReadBackUpTo(rec, Len(rec.attempts) - 1) /\ rec.judged
            /\ LastAttempt(rec).charge # None =>
                 LastAttempt(rec).reason \in {"charge_observed", "charge_uncorrelated"}
        BY <1>1, <2>1, <3>1 DEF CopyReadsBack
      <4> QED BY <1>1, <2>1, <4>1, VerdictReads
    <3>2. CASE from # "conclude"
      BY <1>1, <2>1, <3>2 DEF CopyReadsBack
    <3> QED BY <3>1, <3>2
  <2>3. InOrder(rec, now)
    BY <1>5 DEF Fits
  <2> QED BY <1>2, <2>2, <2>3, SameReading, SameOrder
<1>7. ASSUME NEW x \in Sessions \ {w} PROVE Fits(job[x])'
  <2>1. Fits(job[x])
    BY DEF StorageInv
  <2>2. job[x].pc # "idle" => job[x].rec.version # row'.version
    <3>1. job[x].pc # "idle" => job[x].rec.version <= row.version
      BY DEF OwnershipInv, CopiesFollowTheStore
    <3>2. job[x].rec.version \in Nat
      BY DEF TypeOK, Job, Record
    <3>3. row'.version = row.version + 1 /\ row.version \in Nat
      BY <1>3
    <3> QED BY <3>1, <3>2, <3>3
  <2>3. (job[x].pc \in {"call_recovery", "reload"} /\ job[x].item \in Support)
          => row'.movedAt = row.movedAt
    BY SaveDoesNotMove DEF Holds
  <2>4. FollowUpIsInTime(job[x])'
    BY <1>4, <2>1, <2>2, <2>3 DEF Fits, FollowUpIsInTime
  <2>5. ~IsAnswer(job'[x]) \/ job'[x].rec.version # row'.version
    BY <1>4, <2>2 DEF IsAnswer
  <2> QED BY <1>1, <1>4, <2>1, <2>4, <2>5 DEF Fits
<1>8. Fits(job[w])'
  <2>1. CASE to = "idle"
    <3>1. Fits(NoJob)' /\ job'[w] = NoJob
      BY <1>1, <1>4, <2>1, IdleFits
    <3> QED BY <3>1 DEF Fits, FollowUpIsInTime
  <2>2. CASE to # "idle"
    <3>1. LookIsNew(job'[w])
      <4>1. CASE to = "read_back"
        <5>1. saved.claim.valid
          <6>1. row'.claim.valid
            BY <1>3, <4>1, ClaimByState
          <6> QED BY <1>1, <6>1
        <5>2. saved.checks <= MaxChecks
          <6>1. rec.checks <= MaxChecks
            BY <1>1 DEF ValidRecord, BudgetValid
          <6> QED BY <1>2, <6>1
        <5>3. Len(saved.attempts) < saved.checks
          <6>1. Len(rec.attempts) <= reads /\ reads + Cardinality(Looking) <= row.checks
            BY DEF LooksArePaid
          <6>2. rec.checks = row.checks + 1
            BY <1>1, <4>1 DEF LooksArePaid, Current, Save, CanSave, SameVersion
          <6>3. Cardinality(Looking) \in Nat /\ reads \in Nat /\ row.checks \in Nat
            BY LookingFinite DEF TypeOK, Record
          <6>4. rec.attempts \in Seq(Attempt)
            BY <1>1 DEF Record
          <6> QED BY <1>2, <6>1, <6>2, <6>3, <6>4
        <5> QED BY <1>1, <1>2, <1>4, <1>5, <2>2, <4>1, <5>1, <5>2, <5>3
                DEF Fits, LookIsNew, BeforeVerdict
      <4>2. CASE to # "read_back"
        BY <1>1, <1>2, <1>4, <1>5, <2>2, <4>2 DEF Fits, LookIsNew, BeforeVerdict
      <4> QED BY <4>1, <4>2
    <3>2. FollowUpIsInTime(job[w])'
      <4>1. to = "call_recovery" => saved.movedAt <= job[w].at
        BY <1>1, <1>2, <1>5 DEF Fits, FollowUpIsInTime, ValidRecord, TimesValid
      <4> QED BY <1>1, <1>4, <2>2, <4>1 DEF FollowUpIsInTime
    <3>3. ~IsAnswer(job'[w])
      BY <1>4, <2>2 DEF IsAnswer
    <3> QED BY <1>1, <1>4, <1>6, <2>2, <3>1, <3>2, <3>3 DEF Fits, CopyReadsBack
  <2> QED BY <2>1, <2>2
<1> QED BY <1>1, <1>6, <1>7, <1>8 DEF StorageInv

(***************************************************************************)
(* The beginning, time, and every step                                     *)
(***************************************************************************)
\* A resolution that begins has neither attempts nor charges (start_resolution).
LEMMA StartKeepsStorage ==
  ASSUME TypeOK, OwnershipInv, Start
  PROVE  StorageInv'
<1>1. /\ row = Unborn /\ UNCHANGED <<job, now>> /\ \A w \in Sessions : job[w] = NoJob
  BY DEF Start, OwnershipInv, NothingBeforeStart
<1>2. row'.attempts = <<>> /\ row'.charges = <<>> /\ row'.movedAt = now
  BY <1>1 DEF Start, Transition, Unborn
<1>3. now \in Int
  BY TimeAssumption DEF TypeOK
<1>4. ReadsBack(row') /\ InOrder(row', now)
  BY <1>2, <1>3 DEF ReadsBack, ReadBackUpTo, InOrder
<1>5. Fits(NoJob)'
  BY <1>1, IdleFits
<1>6. ASSUME NEW w \in Sessions PROVE Fits(job[w])'
  <2>1. job'[w] = NoJob
    BY <1>1
  <2> QED BY <1>5, <2>1 DEF Fits, FollowUpIsInTime
<1> QED BY <1>1, <1>4, <1>6 DEF StorageInv

\* Time that passes puts nothing out of order.
LEMMA TickKeepsStorage ==
  ASSUME TypeOK, StorageInv, UNCHANGED <<row, job>>, now' = now \/ now' = now + 1
  PROVE  StorageInv'
<1>1. now \in Int /\ now' \in Int /\ now <= now'
  BY TimeAssumption DEF TypeOK
<1>2. row \in Record /\ \A w \in Sessions : job[w].rec \in Record
  BY DEF TypeOK, Job
<1>3. ReadsBack(row) /\ InOrder(row, now')
  BY <1>1, <1>2, MovedInOrder DEF StorageInv
<1>4. ASSUME NEW w \in Sessions PROVE Fits(job[w])'
  <2>1. Fits(job[w])
    BY DEF StorageInv
  <2>2. InOrder(job[w].rec, now')
    BY <1>1, <1>2, <2>1, MovedInOrder DEF Fits
  <2> QED BY <2>1, <2>2 DEF Fits, FollowUpIsInTime, CanSave, Open, SameVersion, ContinuesHistory
<1> QED BY <1>3, <1>4 DEF StorageInv

LEMMA InitStorage == Init => StorageInv
<1> SUFFICES ASSUME Init PROVE StorageInv
  OBVIOUS
<1>1. TypeOK
  BY InitTyped
<1>2. /\ row = Unborn /\ \A w \in Sessions : job[w] = NoJob
  BY DEF Init
<1>3. Fits(NoJob) /\ NoJob.rec = Unborn /\ NoJob.pc = "idle"
  BY <1>1, IdleFits DEF NoJob
<1>4. ReadsBack(Unborn) /\ InOrder(Unborn, now)
  BY <1>3 DEF Fits, CopyReadsBack
<1> QED BY <1>2, <1>3, <1>4 DEF StorageInv

\* A call that is asked for prepares something that fits.
LEMMA AskKeepsStorage ==
  ASSUME TypeOK, OutcomeInv, StorageInv, NEW w \in Sessions, Ask(w)
  PROVE  StorageInv'
<1>1. CASE LoadConfirm(w) \/ LoadRecheck(w) \/ LoadCharge(w)
  BY <1>1, LoadConfirmKeepsStorage, LoadRecheckKeepsStorage, LoadChargeKeepsStorage
<1>2. CASE ExpireRecovery(w) \/ DeclineRecovery(w)
  BY <1>2, AnswerKeepsStorage DEF ExpireRecovery, DeclineRecovery
<1>3. CASE AcceptRecovery(w)
  BY <1>3, AcceptRecoveryKeepsStorage
<1> QED BY <1>1, <1>2, <1>3 DEF Ask

\* The induction step, for every action of the specification.
LEMMA NextKeepsStorage ==
  ASSUME TypeOK, OwnershipInv, OutcomeInv, LooksArePaid, StagesInv, StorageInv, [Next]_vars
  PROVE  StorageInv'
<1>1. CASE Start
  BY <1>1, StartKeepsStorage
<1>2. ASSUME NEW w \in Sessions, Ask(w) PROVE StorageInv'
  BY <1>2, AskKeepsStorage
<1>3. ASSUME NEW w \in Sessions, Proceed(w) PROVE StorageInv'
  <2>1. CASE RecordClaim(w)
    BY <2>1, SaveKeepsStorage DEF RecordClaim, SavePoints
  <2>2. CASE ClaimCheck(w)
    BY <2>2, SaveKeepsStorage DEF ClaimCheck, SavePoints
  <2>3. CASE ClaimExecution(w)
    BY <2>3, SaveKeepsStorage DEF ClaimExecution, SavePoints
  <2>4. CASE ClaimRecovery(w)
    BY <2>4, SaveKeepsStorage DEF ClaimRecovery, SavePoints
  <2>5. CASE Conclude(w)
    BY <2>5, SaveKeepsStorage DEF Conclude, SavePoints
  <2>6. CASE Finish(w)
    BY <2>6, SaveKeepsStorage DEF Finish, SavePoints
  <2>7. CASE SaveRefused(w)
    BY <2>7, DropKeepsStorage DEF SaveRefused
  <2>8. CASE Execute(w) \/ ReadBack(w) \/ CallRecovery(w) \/ ReloadRecovery(w)
    BY <2>8, ExecuteKeepsStorage, ReadBackKeepsStorage, CallRecoveryKeepsStorage,
       ReloadRecoveryKeepsStorage
  <2> QED BY <1>3, <2>1, <2>2, <2>3, <2>4, <2>5, <2>6, <2>7, <2>8 DEF Proceed
<1>4. CASE \E w \in Sessions : CallLost(w)
  BY <1>4, DropKeepsStorage DEF CallLost
<1>5. CASE Tick \/ UNCHANGED vars
  BY <1>5, TickKeepsStorage DEF Tick, vars
<1> QED BY <1>1, <1>2, <1>3, <1>4, <1>5 DEF Next

(***************************************************************************)
(* The theorems                                                            *)
(***************************************************************************)
\* What is stored reads back, and what was answered can be stored: the induction
\* that the two theorems below rest on.
THEOREM StorageSound == Spec => []StorageInv
<1>1. /\ TypeOK /\ OwnershipInv /\ OutcomeInv /\ LooksArePaid /\ StagesInv /\ StorageInv
      /\ [Next]_vars
      => StorageInv'
  BY NextKeepsStorage
<1> QED BY <1>1, InitStorage, TypeCorrect, Ownership, OutcomeSound, LooksPaid, StagesKept, PTL
        DEF Spec

\* What a provider answered is not refused by the record contract, unless
\* somebody else has saved in the meantime, or the charge a verdict rests on was
\* reported more than once or under an empty name (save_owned, validate_record).
THEOREM AnswersStorable == Spec => []AnswersAreStorable
<1>1. StorageInv => AnswersAreStorable
  BY DEF StorageInv, Fits, IsAnswer, Support, AnswersAreStorable, SupportResult, Verdict
<1> QED BY <1>1, StorageSound, PTL

\* A record whose claim is about the target can be read by every later session,
\* however many charges were reported and under whatever names (get_owned).
THEOREM CorrelatedReadable == Spec => []CorrelatedRecordReadable
<1>1. TypeOK /\ OutcomeInv /\ StorageInv => CorrelatedRecordReadable
  <2> SUFFICES ASSUME TypeOK, OutcomeInv, StorageInv, row.state # "REQUESTED",
                      row.claim.valid, row.claim.digest = Target
               PROVE  Decodes(row)
    BY DEF CorrelatedRecordReadable
  <2>1. ValidRecord(row)
    BY DEF OutcomeInv, StoreIsSound
  <2>2. \A i \in DOMAIN row.attempts : AttemptDecodes(row, i)
    <3>1. DOMAIN row.attempts = 1..Len(row.attempts)
      BY DEF TypeOK, Record
    <3> QED BY <3>1 DEF StorageInv, ReadsBack, ReadBackUpTo, AttemptDecodes
  <2> QED BY <2>1, <2>2 DEF Decodes
<1> QED BY <1>1, TypeCorrect, OutcomeSound, StorageSound, PTL

(***************************************************************************)
(* What was executed is on record, where nobody else writes                *)
(***************************************************************************)
\* Whose claim is on record when (validate_target_record).
LEMMA ClaimStays ==
  ASSUME TypeOK, OwnershipInv, OutcomeInv, LooksArePaid, StagesInv, NEW w \in Sessions,
         NEW from \in SavePoints, NEW to, Save(w, from, to)
  PROVE  /\ row.claim.valid \/ from = "record_claim" => row'.claim.valid
         /\ row'.state = "EXECUTING" /\ from \notin {"claim_recovery", "finish"}
              => from = "claim_execution"
         /\ row.state = "EXECUTING" /\ from \notin {"claim_recovery", "finish"}
              => from = "record_claim"
         /\ from = "claim_execution" => row.state # "EXECUTING" /\ row'.state = "EXECUTING"
<1>1. /\ row.claim.valid => row.state \notin {"AWAITING_CONFIRMATION", "EXECUTING"}
      /\ row'.state \notin {"AWAITING_CONFIRMATION", "EXECUTING"} => row'.claim.valid
  BY SaveStages, ClaimByState
<1>2. CASE from \in {"claim_recovery", "finish"}
  BY <1>1, <1>2, SaveStages
<1>3. CASE from \in {"claim_execution", "record_claim", "claim_check", "conclude"}
  BY <1>1, <1>3, SaveStages DEF Terminal
<1> QED BY <1>2, <1>3 DEF SavePoints

\* A step that saves nothing, of a session that is not executing afterwards.
LEMMA AsideKeepsExecution ==
  ASSUME ExecutionInv, NEW w \in Sessions, UNCHANGED <<row, cancels>>,
         \A x \in Sessions \ {w} : job'[x] = job[x],
         job[w].pc # "record_claim",
         job'[w].pc \notin {"claim_recovery", "call_recovery", "reload", "finish",
                            "execute", "record_claim"},
         row.state = "EXECUTING" => job'[w].pc = "idle" \/ job'[w].rec.version # row.version
  PROVE  ExecutionInv'
<1>1. \A x \in Sessions : Executing(x)' => x # w /\ Executing(x)
  BY DEF Executing
<1>2. \A x \in Sessions : x # w => job'[x] = job[x]
  OBVIOUS
<1>3. row'.state = "EXECUTING" =>
        \A x \in Sessions : (job[x].pc # "idle" /\ Current(x))' => Executing(x)'
  BY <1>2 DEF ExecutionInv, Executing, Current
<1>4. \A x \in Sessions : job[x].pc = "record_claim" => job'[x].pc = "record_claim"
  BY <1>2
<1>5. cancels' = 1 => row'.claim.valid \/ \E x \in Sessions : job'[x].pc = "record_claim"
  BY <1>4 DEF ExecutionInv
<1>6. \A x \in Sessions :
        job'[x].pc \notin {"claim_recovery", "call_recovery", "reload", "finish"}
  BY <1>2 DEF ExecutionInv
<1>7. \A x \in Sessions : Executing(x)' => (Current(x) /\ row.state = "EXECUTING")'
  BY <1>1, <1>2 DEF ExecutionInv, Current
<1>8. \A x, y \in Sessions : Executing(x)' /\ Executing(y)' => x = y
  BY <1>1 DEF ExecutionInv
<1> QED BY <1>3, <1>5, <1>6, <1>7, <1>8 DEF ExecutionInv

\* No save comes between the claim of the cancellation and that of its answer.
LEMMA SaveKeepsExecution ==
  ASSUME TypeOK, OwnershipInv, OutcomeInv, LooksArePaid, StagesInv, ExecutionInv,
         NEW w \in Sessions,
         NEW from \in {"claim_execution", "record_claim", "claim_check", "conclude"},
         NEW to \in {"idle", "execute", "read_back"},
         from = "claim_execution" <=> to = "execute",
         Save(w, from, to)
  PROVE  ExecutionInv'
<1>1. /\ job[w] \in Job /\ job[w].pc = from /\ UNCHANGED cancels /\ row.version \in Nat
      /\ job' = [job EXCEPT ![w] = IF to = "idle" THEN NoJob
                                   ELSE [job[w] EXCEPT !.pc = to, !.rec = Saved(job[w].rec)]]
      /\ row' = Saved(job[w].rec)
  BY DEF TypeOK, Job, Record, Save
<1>2. /\ row'.version = row.version + 1
      /\ row.claim.valid \/ from = "record_claim" => row'.claim.valid
      /\ row'.state = "EXECUTING" => from = "claim_execution"
      /\ row.state = "EXECUTING" => from = "record_claim"
      /\ from = "claim_execution" => row.state # "EXECUTING" /\ row'.state = "EXECUTING"
  BY SaveStages, ClaimStays DEF SavePoints
<1>3. /\ \A x \in Sessions \ {w} : job'[x] = job[x]
      /\ IF to = "idle" THEN job'[w].pc = "idle"
         ELSE job'[w].pc = to /\ job'[w].rec = row'
  BY <1>1 DEF TypeOK, Job, NoJob
<1>4. \A x \in Sessions \ {w} : job[x].pc # "idle" => ~Current(x)'
  <2> TAKE x \in Sessions \ {w}
  <2>1. job[x].pc # "idle" => job[x].rec.version <= row.version
    BY DEF OwnershipInv, CopiesFollowTheStore
  <2>2. job[x].rec.version \in Nat
    BY DEF TypeOK, Job, Record
  <2> QED BY <1>1, <1>2, <1>3, <2>1, <2>2 DEF Current
<1>5. \A x \in Sessions \ {w} : ~Executing(x)
  <2>1. row.state = "EXECUTING" => Executing(w)
    BY <1>1, <1>2 DEF Executing
  <2> QED BY <2>1 DEF ExecutionInv
<1>6. \A x \in Sessions \ {w} : ~Executing(x)' /\ job'[x].pc # "record_claim"
  BY <1>3, <1>5 DEF Executing
<1>7. Executing(w)' => to = "execute" /\ Current(w)' /\ row'.state = "EXECUTING"
  BY <1>2, <1>3 DEF Executing, Current
<1>8. row'.state = "EXECUTING" =>
        \A x \in Sessions : job'[x].pc # "idle" /\ Current(x)' => Executing(x)'
  BY <1>2, <1>3, <1>4 DEF Executing
<1>9. \A x \in Sessions :
        job'[x].pc \notin {"claim_recovery", "call_recovery", "reload", "finish"}
  BY <1>3 DEF ExecutionInv
<1>10. cancels' = 1 => row'.claim.valid
  <2>1. cancels = 1 => row.claim.valid \/ from = "record_claim"
    BY <1>1, <1>5 DEF ExecutionInv, Executing
  <2> QED BY <1>1, <1>2, <2>1
<1> QED BY <1>6, <1>7, <1>8, <1>9, <1>10 DEF ExecutionInv

\* The answer of the provider is waiting to be recorded (confirm_resolution_action).
LEMMA ExecuteKeepsExecution ==
  ASSUME TypeOK, ExecutionInv, NEW w \in Sessions, Execute(w)
  PROVE  ExecutionInv'
<1>1. PICK receipt \in ProviderReceipts :
        job' = [job EXCEPT
                  ![w].pc  = "record_claim",
                  ![w].rec = Transition([job[w].rec EXCEPT !.claim = Accepted(receipt),
                                                           !.checks = @ + 1],
                                        "VERIFYING", now)]
  BY DEF Execute
<1>2. /\ job[w] \in Job /\ job[w].rec \in Record /\ job[w].pc = "execute"
      /\ UNCHANGED row
  BY DEF TypeOK, Job, Execute
<1>3. /\ job'[w].pc = "record_claim" /\ job'[w].rec.version = job[w].rec.version
      /\ \A x \in Sessions \ {w} : job'[x] = job[x]
  BY <1>1, <1>2 DEF TypeOK, Job, Record, Transition
<1>4. \A x \in Sessions :
        /\ job'[x].pc \notin {"claim_recovery", "call_recovery", "reload", "finish"}
        /\ job'[x].pc = "idle" <=> job[x].pc = "idle"
        /\ Executing(x)' <=> Executing(x)
        /\ Current(x)' <=> Current(x)
  BY <1>2, <1>3 DEF ExecutionInv, Executing, Current
<1>5. \E x \in Sessions : job'[x].pc = "record_claim"
  BY <1>3
<1> QED BY <1>2, <1>4, <1>5 DEF ExecutionInv

\* The induction step, where calls are carried on and nobody else writes.
LEMMA NextKeepsExecution ==
  ASSUME TypeOK, OwnershipInv, OutcomeInv, LooksArePaid, StagesInv, StorageInv, ExecutionInv,
         Undisturbed, ~CallsMayBeLost, [Next]_vars
  PROVE  ExecutionInv'
<1>1. CASE Start
  <2>1. row = Unborn /\ UNCHANGED <<job, cancels>> /\ \A w \in Sessions : job[w] = NoJob
    BY <1>1 DEF Start, OwnershipInv, NothingBeforeStart
  <2>2. row'.state = "AWAITING_CONFIRMATION" /\ row'.claim = row.claim
    BY <1>1, StartKeepsStages
  <2>3. NoJob.pc = "idle"
    BY DEF NoJob
  <2> QED BY <2>1, <2>2, <2>3 DEF ExecutionInv, Executing
<1>2. ASSUME NEW w \in Sessions, Ask(w) PROVE ExecutionInv'
  <2>1. Charges = {}
    BY SMTT(30) DEF Undisturbed, Charges
  <2>2. LoadConfirm(w) \/ LoadRecheck(w)
    BY <1>2, <2>1 DEF Ask, Undisturbed, LoadCharge, ExpireRecovery, DeclineRecovery,
                      AcceptRecovery, LoadRecovery
  <2>3. /\ job[w].pc = "idle" /\ UNCHANGED <<row, cancels>> /\ row.state # "EXECUTING"
        /\ job'[w].pc \in {"claim_execution", "claim_check"}
        /\ \A x \in Sessions \ {w} : job'[x] = job[x]
    BY <2>2, ZenonT(30) DEF LoadConfirm, LoadRecheck, MayRecheck, Begin, NoJob, TypeOK
  <2> QED BY <2>3, AsideKeepsExecution
<1>3. ASSUME NEW w \in Sessions, Proceed(w) PROVE ExecutionInv'
  <2>1. CASE ClaimExecution(w)
    BY <2>1, SaveKeepsExecution DEF ClaimExecution
  <2>2. CASE RecordClaim(w)
    BY <2>2, SaveKeepsExecution DEF RecordClaim
  <2>3. CASE ClaimCheck(w)
    BY <2>3, SaveKeepsExecution DEF ClaimCheck
  <2>4. CASE Conclude(w)
    BY <2>4, SaveKeepsExecution DEF Conclude
  <2>5. CASE Execute(w)
    BY <2>5, ExecuteKeepsExecution
  <2>6. CASE ReadBack(w)
    <3>1. /\ job[w].pc = "read_back" /\ UNCHANGED <<row, cancels>>
          /\ job'[w].pc = "conclude" /\ \A x \in Sessions \ {w} : job'[x] = job[x]
      BY <2>6 DEF ReadBack, TypeOK, Job
    <3>2. StagesInv'
      BY <2>6, NextKeepsStages DEF Next, Proceed
    <3>3. row.state = "EXECUTING" => job'[w].rec.version # row.version
      BY <3>1, <3>2 DEF StagesInv, Current
    <3> QED BY <3>1, <3>3, AsideKeepsExecution
  <2>7. CASE SaveRefused(w)
    <3>1. /\ ~CanSave(job[w].rec) /\ UNCHANGED <<row, cancels>>
          /\ job'[w].pc = "idle" /\ \A x \in Sessions \ {w} : job'[x] = job[x]
      BY <2>7 DEF SaveRefused, TypeOK, NoJob
    <3>2. job[w].pc # "record_claim"
      BY <3>1 DEF StorageInv, Fits, IsAnswer, ExecutionInv, Executing, Current
    <3> QED BY <3>1, <3>2, AsideKeepsExecution
  <2>8. ~ClaimRecovery(w) /\ ~CallRecovery(w) /\ ~ReloadRecovery(w) /\ ~Finish(w)
    BY DEF ExecutionInv, ClaimRecovery, CallRecovery, ReloadRecovery, Finish, Save
  <2> QED BY <1>3, <2>1, <2>2, <2>3, <2>4, <2>5, <2>6, <2>7, <2>8 DEF Proceed
<1>4. CASE \E w \in Sessions : CallLost(w)
  BY <1>4 DEF CallLost
<1>5. CASE Tick \/ UNCHANGED vars
  <2>1. UNCHANGED <<row, job, cancels>>
    BY <1>5 DEF Tick, vars
  <2> QED BY <2>1 DEF ExecutionInv, Executing, Current
<1> QED BY <1>1, <1>2, <1>3, <1>4, <1>5 DEF Next

\* Where no process stops, no charge is observed and no follow-up is executed, the
\* answer to an executed cancellation is on record once its call has recorded it:
\* exactly what run lost_action shows to fail otherwise (confirm_resolution_action).
THEOREM ExecutedRecorded ==
  ASSUME Undisturbed, ~CallsMayBeLost
  PROVE  Spec => []ExecutedActionIsOnRecord
<1>1. Init => ExecutionInv
  <2>1. NoJob.pc = "idle"
    BY DEF NoJob
  <2> QED BY <2>1 DEF Init, ExecutionInv, Executing, Unborn
<1>2. /\ TypeOK /\ OwnershipInv /\ OutcomeInv /\ LooksArePaid /\ StagesInv /\ StorageInv
      /\ ExecutionInv /\ [Next]_vars
      => ExecutionInv'
  BY NextKeepsExecution
<1>3. ExecutionInv => ExecutedActionIsOnRecord
  BY DEF ExecutionInv, ExecutedActionIsOnRecord
<1> QED BY <1>1, <1>2, <1>3, TypeCorrect, Ownership, OutcomeSound, LooksPaid, StagesKept,
           StorageSound, PTL DEF Spec

(***************************************************************************)
(* Records of which the same is told                                       *)
(***************************************************************************)
\* What is told of a record depends on six of its fields.
LEMMA SameIsTold ==
  ASSUME NEW a, NEW b,
         b.state = a.state, b.moves = a.moves, b.attempts = a.attempts,
         b.attention = a.attention, b.charges = a.charges, b.claim = a.claim
  PROVE  /\ NoticesFit(b) <=> NoticesFit(a)
         /\ HistoryFits(b) <=> HistoryFits(a)
         /\ ClaimFits(b) <=> ClaimFits(a)
BY DEF NoticesFit, HistoryFits, ClaimFits

\* Storing a record changes nothing that is told (save_owned).
LEMMA SavedIsTold ==
  ASSUME NEW rec \in Record
  PROVE  /\ NoticesFit(Saved(rec)) <=> NoticesFit(rec)
         /\ HistoryFits(Saved(rec)) <=> HistoryFits(rec)
         /\ ClaimFits(Saved(rec)) <=> ClaimFits(rec)
<1> DEFINE saved == Saved(rec)
<1>1. /\ saved.state = rec.state /\ saved.moves = rec.moves /\ saved.attempts = rec.attempts
      /\ saved.attention = rec.attention /\ saved.charges = rec.charges
      /\ saved.claim = rec.claim
  BY DEF Saved, Record
<1> HIDE DEF saved
<1>2. /\ NoticesFit(saved) <=> NoticesFit(rec)
      /\ HistoryFits(saved) <=> HistoryFits(rec)
      /\ ClaimFits(saved) <=> ClaimFits(rec)
  BY <1>1, SameIsTold
<1> QED BY <1>2 DEF saved

\* A changed follow-up changes nothing that is told of outcomes.
LEMMA FollowUpIsTold ==
  ASSUME NEW rec \in Record, NEW f, NEW state, NEW at
  PROVE  LET after == SetFollowUp(rec, f, state, at) IN
         /\ after.state = rec.state
         /\ NoticesFit(after) <=> NoticesFit(rec)
         /\ HistoryFits(after) <=> HistoryFits(rec)
         /\ ClaimFits(after) <=> ClaimFits(rec)
<1> DEFINE after == SetFollowUp(rec, f, state, at)
<1>1. /\ after.state = rec.state /\ after.moves = rec.moves /\ after.attempts = rec.attempts
      /\ after.attention = rec.attention /\ after.charges = rec.charges
      /\ after.claim = rec.claim
  BY DEF SetFollowUp, Record
<1> HIDE DEF after
<1>2. /\ NoticesFit(after) <=> NoticesFit(rec)
      /\ HistoryFits(after) <=> HistoryFits(rec)
      /\ ClaimFits(after) <=> ClaimFits(rec)
  BY <1>1, SameIsTold
<1> QED BY <1>1, <1>2 DEF after

\* A change of state is one more step of the history (_transition).
LEMMA TransitionMoves ==
  ASSUME NEW rec \in Record, NEW next, NEW at
  PROVE  Transition(rec, next, at).moves = rec.moves + 1
BY DEF Transition, Record

\* A notice that was not given before is added, and only that one
\* (attention_candidate, _create_recovery_proposal).
LEMMA NotifyTells ==
  ASSUME NEW rec \in Record, NEW reason \in Notices \cup {None}, NEW seen, NEW at \in Int,
         NEW proposing
  PROVE  LET noted == Notify(rec, reason, seen, at, proposing) IN
         /\ noted.attention = rec.attention \cup ({reason} \ {None})
         /\ noted.moves = rec.moves
<1> DEFINE noted == [rec EXCEPT !.attention = @ \cup {reason}]
           after == Notify(rec, reason, seen, at, proposing)
<1>1. /\ noted.attention = rec.attention \cup {reason} /\ noted.moves = rec.moves
      /\ DOMAIN noted = DOMAIN rec
  BY DEF Record
<1>2. DOMAIN rec = DOMAIN Unborn
  BY ValuesTyped DEF Record, Unborn
<1> HIDE DEF noted
<1>3. LET proposed == Propose(noted, reason, at) IN
      proposed.attention = noted.attention /\ proposed.moves = noted.moves
  BY <1>1, <1>2 DEF Propose, Unborn
<1>4. IF reason = None \/ reason \in rec.attention THEN after = rec
      ELSE after \in {noted, Propose(noted, reason, at)}
  BY DEF Notify, noted
<1> HIDE DEF after
<1>5. CASE reason = None \/ reason \in rec.attention
  BY <1>4, <1>5 DEF after
<1>6. CASE ~(reason = None \/ reason \in rec.attention)
  BY <1>1, <1>3, <1>4, <1>6 DEF after
<1> QED BY <1>5, <1>6

\* What an outcome is told by: a charge, or its own notice (attention_candidate).
LEMMA NoticeOfOutcome ==
  ASSUME NEW rec, NEW seen, NEW at
  PROVE  LET notice == Notice(rec, seen, at) IN
         /\ rec.charges # <<>> => notice = "outcome_violation"
         /\ rec.charges = <<>> =>
              /\ notice # "outcome_violation"
              /\ notice = "verified" <=> rec.state = "VERIFIED"
              /\ notice = "not_completed" <=> rec.state = "NOT_COMPLETED"
BY DEF Notice, None

\* A judgement ends in the notice of its outcome, and adds a look and its end to
\* the history (_record_verification).
LEMMA JudgementTells ==
  ASSUME NEW rec \in Record, NEW evidence \in Evidence, NEW eligible \in BOOLEAN, NEW at \in Int,
         ChargesKnown(rec, at), rec.state = "VERIFYING",
         NoticesFit(rec), HistoryFits(rec), ClaimFits(rec)
  PROVE  LET judged == RecordVerification(rec, evidence, eligible, at) IN
         NoticesFit(judged) /\ HistoryFits(judged) /\ ClaimFits(judged)
<1> DEFINE charge  == ChargeToWeigh(rec, at)
           reason  == Verify(rec.claim, evidence, eligible /\ rec.checks >= MaxChecks, Target,
                             charge, rec.deadline, at)
           attempt == [at |-> at, count |-> rec.checks, eligible |-> eligible,
                       charge |-> charge.id, evidence |-> evidence, reason |-> reason]
           looked  == Judge(rec, attempt)
           moved   == Transition(looked, StateFor(reason), at)
           settling == [f \in FollowUps |-> Settle(rec.recovery[f], VerdictOf(reason))]
           settled == [moved EXCEPT !.recovery = settling]
           judged  == RecordVerification(rec, evidence, eligible, at)
<1>1. attempt \in Attempt
  <2>1. charge.id \in ChargeIds \cup {None}
    BY ChargeToWeighTyped DEF Charge
  <2>2. reason \in Reasons
    BY VerifyTyped
  <2>3. rec.checks \in Nat
    BY DEF Record
  <2> HIDE DEF charge, reason
  <2> QED BY <2>1, <2>2, <2>3 DEF Attempt
<1>2. judged = Notify(settled, Notice(settled, evidence, at), evidence, at,
                      settled.state \notin Terminal)
  BY DEF RecordVerification
<1>3. StateFor(reason) = "VERIFIED" => rec.charges = <<>>
  BY ChargesAreWeighed
<1> HIDE DEF attempt, judged, reason
<1>4. /\ looked.claim = rec.claim /\ looked.moves = rec.moves
      /\ looked.attempts = Append(rec.attempts, attempt) /\ looked.charges = rec.charges
      /\ looked.attention = rec.attention
  BY DEF Judge, Record
<1>5. looked \in Record
  BY <1>1, JudgeTyped
<1> HIDE DEF looked
<1>6. StateFor(reason) \in States
  BY StateForTyped DEF States, Terminal
<1>7. moved \in Record
  BY <1>5, <1>6, TransitionTyped
<1>8. /\ moved.state = StateFor(reason) /\ moved.claim = rec.claim
      /\ moved.moves = rec.moves + 1
      /\ moved.attempts = Append(rec.attempts, attempt) /\ moved.charges = rec.charges
      /\ moved.attention = rec.attention
  BY <1>4, <1>5, TransitionKeeps, TransitionMoves
<1> HIDE DEF moved
<1>9. settling \in [FollowUps -> FollowUp]
  BY SettleTyped DEF Record
<1> HIDE DEF settling
<1>10. /\ settled \in Record
       /\ settled.state = moved.state /\ settled.claim = moved.claim
       /\ settled.moves = moved.moves /\ settled.attempts = moved.attempts
       /\ settled.charges = moved.charges /\ settled.attention = moved.attention
  BY <1>7, <1>9 DEF Record
<1> HIDE DEF settled
<1> DEFINE notice == Notice(settled, evidence, at)
           open   == settled.state \notin Terminal
<1>11. judged = Notify(settled, notice, evidence, at, open) /\ notice \in Notices \cup {None}
  BY <1>2, NoticeTyped
<1>12. /\ settled.charges # <<>> => notice = "outcome_violation"
       /\ settled.charges = <<>> =>
            /\ notice # "outcome_violation"
            /\ notice = "verified" <=> settled.state = "VERIFIED"
            /\ notice = "not_completed" <=> settled.state = "NOT_COMPLETED"
  BY NoticeOfOutcome
<1> HIDE DEF notice, open
<1>13. /\ judged.attention = settled.attention \cup ({notice} \ {None})
       /\ judged.moves = settled.moves
  <2>1. settled \in Record
    BY <1>10
  <2>2. judged = Notify(settled, notice, evidence, at, open)
    BY <1>11
  <2>3. notice \in Notices \cup {None}
    BY <1>11
  <2> HIDE DEF charge
  <2>4. judged.moves = settled.moves
    BY <2>1, <2>2, <2>3, NotifyTells, SMTT(30)
  <2>5. judged.attention = settled.attention \cup ({notice} \ {None})
    BY <2>1, <2>2, <2>3, NotifyTells, SMTT(30)
  <2> QED BY <2>4, <2>5
<1>14. judged.state = settled.state
  BY <1>10, <1>11, NotifyKeepsPace, SMTT(30)
<1>15. /\ judged.attempts = settled.attempts /\ judged.charges = settled.charges
       /\ judged.claim = settled.claim
  BY <1>10, <1>11, NotifyKeeps, SMTT(30)
<1>16. ClaimFits(judged)
  BY <1>8, <1>10, <1>15 DEF ClaimFits
<1>17. judged.state \in Terminal \cup {"AWAITING_PROOF"}
  BY <1>8, <1>10, <1>14, StateForTyped
<1>18. HistoryFits(judged)
  <2>1. Len(judged.attempts) = Len(rec.attempts) + 1 /\ Len(rec.attempts) \in Nat
    BY <1>1, <1>8, <1>10, <1>15 DEF Record
  <2>2. judged.moves = rec.moves + 1 /\ rec.moves \in Nat /\ rec.moves >= 4 + 2 * Len(rec.attempts)
    BY <1>8, <1>10, <1>13 DEF HistoryFits, Record
  <2>3. judged.moves >= 3 + 2 * Len(judged.attempts)
    BY <2>1, <2>2
  <2> QED BY <1>17, <2>3 DEF HistoryFits, Terminal
<1>19. NoticesFit(judged)
  <2>1. judged.charges = rec.charges /\ settled.charges = rec.charges
        /\ settled.attention = rec.attention /\ judged.state = StateFor(reason)
        /\ settled.state = judged.state
    BY <1>8, <1>10, <1>14, <1>15
  <2>2. /\ "outcome_violation" \in rec.attention <=> rec.charges # <<>>
        /\ "verified" \notin rec.attention /\ "not_completed" \notin rec.attention
    BY DEF NoticesFit
  <2>3. \A n \in {"outcome_violation", "verified", "not_completed"} :
          n \in judged.attention <=> n \in rec.attention \/ n = notice
    BY <1>13, <2>1 DEF None
  <2>4. CASE rec.charges = <<>>
    BY <1>12, <2>1, <2>2, <2>3, <2>4 DEF NoticesFit
  <2>5. CASE rec.charges # <<>>
    BY <1>3, <1>12, <2>1, <2>2, <2>3, <2>5 DEF NoticesFit
  <2> QED BY <2>4, <2>5
<1> QED BY <1>16, <1>18, <1>19 DEF judged

(***************************************************************************)
(* Steps that store nothing                                                *)
(***************************************************************************)
\* Of a record that was not started there is nothing to tell.
LEMMA IdleIsTold ==
  /\ NoticesFit(Unborn) /\ HistoryFits(Unborn) /\ ClaimFits(Unborn)
  /\ CopyFits(NoJob)
<1>1. /\ NoJob.pc = "idle" /\ NoJob.rec = Unborn
      /\ Unborn.state = "REQUESTED" /\ Unborn.attempts = <<>> /\ Unborn.charges = <<>>
      /\ Unborn.attention = {} /\ Unborn.claim = NoReceipt
  BY DEF NoJob, Unborn
<1>2. NoticesFit(Unborn) /\ HistoryFits(Unborn) /\ ClaimFits(Unborn)
  BY <1>1 DEF NoticesFit, HistoryFits, ClaimFits, Terminal
<1> QED BY <1>1, <1>2 DEF CopyFits

\* A session with a new copy that fits leaves the rest as it is.
LEMMA StepKeepsTold ==
  ASSUME ToldInv, NEW w \in Sessions, UNCHANGED row,
         \A x \in Sessions \ {w} : job'[x] = job[x],
         CopyFits(job'[w])
  PROVE  ToldInv'
BY DEF ToldInv

\* A call that ends leaves the rest as it is.
LEMMA DropKeepsTold ==
  ASSUME TypeOK, ToldInv, NEW w \in Sessions, job' = [job EXCEPT ![w] = NoJob], UNCHANGED row
  PROVE  ToldInv'
<1>1. job'[w] = NoJob /\ \A x \in Sessions \ {w} : job'[x] = job[x]
  BY DEF TypeOK
<1> QED BY <1>1, IdleIsTold, StepKeepsTold

\* The claim of the cancellation is the third step of the history
\* (confirm_resolution_action).
LEMMA LoadConfirmKeepsTold ==
  ASSUME TypeOK, ToldInv, NEW w \in Sessions, LoadConfirm(w)
  PROVE  ToldInv'
<1> DEFINE attested == [row EXCEPT !.attested = TRUE]
           moved    == Transition(attested, "EXECUTING", now)
           begun    == [NoJob EXCEPT !.pc = "claim_execution", !.rec = moved, !.at = Never]
<1>1. /\ row \in Record /\ row.state = "AWAITING_CONFIRMATION" /\ UNCHANGED row
  BY DEF TypeOK, LoadConfirm
<1>2. /\ attested \in Record
      /\ attested.attempts = row.attempts /\ attested.charges = row.charges
      /\ attested.moves = row.moves /\ attested.attention = row.attention
      /\ attested.claim = row.claim
  BY <1>1 DEF Record
<1>3. job' = [job EXCEPT ![w] = begun]
  BY DEF LoadConfirm, Begin
<1> HIDE DEF attested
<1>4. /\ moved.state = "EXECUTING" /\ moved.moves = row.moves + 1
      /\ moved.attempts = row.attempts /\ moved.charges = row.charges
      /\ moved.attention = row.attention /\ moved.claim = row.claim
  BY <1>2, TransitionKeeps, TransitionMoves
<1> HIDE DEF moved
<1>5. begun.pc = "claim_execution" /\ begun.rec = moved
  BY DEF NoJob
<1> HIDE DEF begun
<1>6. NoticesFit(row) /\ HistoryFits(row) /\ ClaimFits(row)
  BY DEF ToldInv
<1>7. NoticesFit(moved) /\ HistoryFits(moved) /\ ClaimFits(moved)
  BY <1>1, <1>4, <1>6 DEF NoticesFit, HistoryFits, ClaimFits, Terminal
<1>8. CopyFits(begun)
  BY <1>5, <1>7 DEF CopyFits
<1>9. job'[w] = begun /\ \A x \in Sessions \ {w} : job'[x] = job[x]
  BY <1>3 DEF TypeOK
<1> QED BY <1>1, <1>8, <1>9, StepKeepsTold

\* The claim of a look is one more step of the history (recheck_resolution).
LEMMA LoadRecheckKeepsTold ==
  ASSUME TypeOK, ToldInv, NEW w \in Sessions, LoadRecheck(w)
  PROVE  ToldInv'
<1> DEFINE checks  == row.checks + 1
           claimed == [row EXCEPT !.checks = checks]
           cleared == IF row.state = "AWAITING_PROOF"
                      THEN [claimed EXCEPT !.nextCheck = Never, !.judged = FALSE]
                      ELSE claimed
           moved   == Transition(cleared, "VERIFYING", now)
           begun   == [NoJob EXCEPT !.pc = "claim_check", !.at = now,
                                    !.eligible = MayCloseWindow, !.rec = moved]
<1>1. job' = [job EXCEPT ![w] = begun]
  BY DEF LoadRecheck
<1>2. /\ row \in Record /\ checks \in Nat
      /\ UNCHANGED row /\ row.state \in {"VERIFYING", "AWAITING_PROOF"}
  <2>1. row \in Record /\ row.checks \in Nat
    BY DEF TypeOK, Record
  <2>2. UNCHANGED row /\ row.state \in {"VERIFYING", "AWAITING_PROOF"}
    BY DEF LoadRecheck, MayRecheck
  <2> QED BY <2>1, <2>2
<1> HIDE DEF checks
<1>3. /\ claimed \in Record
      /\ claimed.attempts = row.attempts /\ claimed.charges = row.charges
      /\ claimed.moves = row.moves /\ claimed.attention = row.attention
      /\ claimed.claim = row.claim
  BY <1>2 DEF Record
<1> HIDE DEF claimed
<1>4. /\ cleared \in Record
      /\ cleared.attempts = row.attempts /\ cleared.charges = row.charges
      /\ cleared.moves = row.moves /\ cleared.attention = row.attention
      /\ cleared.claim = row.claim
  BY <1>3, ValuesTyped DEF Record
<1> HIDE DEF cleared
<1>5. /\ moved.state = "VERIFYING" /\ moved.moves = row.moves + 1
      /\ moved.attempts = row.attempts /\ moved.charges = row.charges
      /\ moved.attention = row.attention /\ moved.claim = row.claim
  BY <1>4, TransitionKeeps, TransitionMoves
<1> HIDE DEF moved
<1>6. begun.pc = "claim_check" /\ begun.rec = moved
  BY DEF NoJob
<1> HIDE DEF begun
<1>7. NoticesFit(row) /\ HistoryFits(row) /\ ClaimFits(row)
  BY DEF ToldInv
<1>8. row.moves \in Nat /\ Len(row.attempts) \in Nat
  BY <1>2 DEF Record
<1>9. NoticesFit(moved) /\ HistoryFits(moved) /\ ClaimFits(moved)
  BY <1>2, <1>5, <1>7, <1>8 DEF NoticesFit, HistoryFits, ClaimFits, Terminal
<1>10. CopyFits(begun)
  BY <1>6, <1>9 DEF CopyFits
<1>11. job'[w] = begun /\ \A x \in Sessions \ {w} : job'[x] = job[x]
  BY <1>1 DEF TypeOK
<1> QED BY <1>2, <1>10, <1>11, StepKeepsTold

\* A changed follow-up is prepared on the record as it is stored
\* (confirm_recovery_action).
LEMMA FollowUpChangeFits ==
  ASSUME TypeOK, ToldInv, NEW f, NEW state, NEW at, NEW j,
         j.rec = SetFollowUp(row, f, state, at), j.pc \in {"claim_recovery", "finish"}
  PROVE  CopyFits(j)
<1>1. row \in Record /\ NoticesFit(row) /\ HistoryFits(row) /\ ClaimFits(row)
  BY DEF TypeOK, ToldInv
<1> DEFINE after == SetFollowUp(row, f, state, at)
<1>2. NoticesFit(after) /\ HistoryFits(after) /\ ClaimFits(after)
  BY <1>1, FollowUpIsTold
<1>3. j.rec = after
  OBVIOUS
<1> HIDE DEF after
<1> QED BY <1>2, <1>3 DEF CopyFits

\* Preparing to close a proposal, expired or declined (confirm_recovery_action).
LEMMA AnswerKeepsTold ==
  ASSUME TypeOK, ToldInv, NEW w \in Sessions, NEW f \in FollowUps, NEW at, NEW state,
         LoadRecovery(w, f, at), Begin(w, "finish", SetFollowUp(row, f, state, at), Never)
  PROVE  ToldInv'
<1> DEFINE after == SetFollowUp(row, f, state, at)
           begun == [NoJob EXCEPT !.pc = "finish", !.rec = after, !.at = Never]
<1>1. job' = [job EXCEPT ![w] = begun]
  BY DEF Begin
<1>2. begun.pc = "finish" /\ begun.rec = SetFollowUp(row, f, state, at)
  BY DEF NoJob
<1> HIDE DEF begun
<1>3. CopyFits(begun)
  BY <1>2, FollowUpChangeFits
<1>4. job'[w] = begun /\ \A x \in Sessions \ {w} : job'[x] = job[x]
  BY <1>1 DEF TypeOK
<1>5. UNCHANGED row
  BY DEF LoadRecovery
<1> QED BY <1>3, <1>4, <1>5, StepKeepsTold

\* Preparing the claim of a follow-up (confirm_recovery_action).
LEMMA AcceptRecoveryKeepsTold ==
  ASSUME TypeOK, ToldInv, NEW w \in Sessions, AcceptRecovery(w)
  PROVE  ToldInv'
<1>1. PICK f \in FollowUps, at \in RecentTimes :
        /\ LoadRecovery(w, f, at)
        /\ job' = [job EXCEPT ![w] =
                     [NoJob EXCEPT !.pc = "claim_recovery", !.at = at, !.item = f,
                                   !.rec = SetFollowUp(row, f, "EXECUTING", at)]]
  BY DEF AcceptRecovery
<1> DEFINE after == SetFollowUp(row, f, "EXECUTING", at)
           begun == [NoJob EXCEPT !.pc = "claim_recovery", !.at = at, !.item = f, !.rec = after]
<1>2. job' = [job EXCEPT ![w] = begun]
  BY <1>1
<1>3. begun.pc = "claim_recovery" /\ begun.rec = SetFollowUp(row, f, "EXECUTING", at)
  BY DEF NoJob
<1> HIDE DEF begun
<1>4. CopyFits(begun)
  BY <1>3, FollowUpChangeFits
<1>5. job'[w] = begun /\ \A x \in Sessions \ {w} : job'[x] = job[x]
  BY <1>2 DEF TypeOK
<1>6. UNCHANGED row
  BY <1>1 DEF LoadRecovery
<1> QED BY <1>4, <1>5, <1>6, StepKeepsTold

\* The result of a follow-up is prepared on a fresh copy (confirm_recovery_action).
LEMMA ReloadRecoveryKeepsTold ==
  ASSUME TypeOK, ToldInv, NEW w \in Sessions, ReloadRecovery(w)
  PROVE  ToldInv'
<1> DEFINE f      == job[w].item
           result == IF ~job[w].succeeded THEN "FAILED"
                     ELSE IF IsRefund(job[w].rec, f) THEN "COMPLETED" ELSE "VERIFYING"
           after  == SetFollowUp(row, f, result, job[w].at)
<1>1. \/ job' = [job EXCEPT ![w] = NoJob]
      \/ job' = [job EXCEPT ![w].pc = "finish", ![w].rec = after]
  BY DEF ReloadRecovery
<1>2. UNCHANGED row
  BY DEF ReloadRecovery
<1>3. CASE job' = [job EXCEPT ![w] = NoJob]
  BY <1>2, <1>3, DropKeepsTold
<1>4. CASE job' = [job EXCEPT ![w].pc = "finish", ![w].rec = after]
  <2> HIDE DEF result
  <2>1. /\ job'[w].pc = "finish" /\ job'[w].rec = after
        /\ \A x \in Sessions \ {w} : job'[x] = job[x]
    BY <1>4 DEF TypeOK, Job
  <2> DEFINE j == job'[w]
  <2>2. j.rec = SetFollowUp(row, f, result, job[w].at) /\ j.pc \in {"claim_recovery", "finish"}
    BY <2>1
  <2> HIDE DEF j, f
  <2>3. CopyFits(j)
    BY <2>2, FollowUpChangeFits
  <2> QED BY <1>2, <2>1, <2>3, StepKeepsTold DEF j
<1> QED BY <1>1, <1>3, <1>4

\* An observed charge gives its notice with it, whatever else is known
\* (record_outcome_violation, attention_candidate).
LEMMA LoadChargeKeepsTold ==
  ASSUME TypeOK, ToldInv, NEW w \in Sessions, LoadCharge(w)
  PROVE  ToldInv'
<1>1. PICK charge \in Charges, at \in RecentTimes :
        LET noted == [row EXCEPT !.charges = Append(@, charge), !.updatedAt = at]
        IN Begin(w, "finish",
                 Notify(noted, Notice(noted, Unreadable, at), Unreadable, at, TRUE), Never)
  BY DEF LoadCharge
<1> DEFINE charges == Append(row.charges, charge)
           noted   == [row EXCEPT !.charges = charges, !.updatedAt = at]
           notice  == Notice(noted, Unreadable, at)
           noticed == Notify(noted, notice, Unreadable, at, TRUE)
           begun   == [NoJob EXCEPT !.pc = "finish", !.rec = noticed, !.at = Never]
<1>2. charge \in Charge
  BY TimeAssumption, ChargeIdsAssumption DEF Charges, Charge, Digests, TypeOK
<1>3. at \in Int /\ row \in Record /\ row.charges \in Seq(Charge)
  BY RecentTimesTyped DEF TypeOK, Record
<1>4. charges \in Seq(Charge) /\ charges # <<>>
  BY <1>2, <1>3
<1>5. job' = [job EXCEPT ![w] = begun]
  BY <1>1 DEF Begin
<1> HIDE DEF charges
<1>6. /\ noted \in Record /\ noted.charges = charges
      /\ noted.state = row.state /\ noted.moves = row.moves
      /\ noted.attempts = row.attempts /\ noted.attention = row.attention
      /\ noted.claim = row.claim
  BY <1>3, <1>4 DEF Record
<1> HIDE DEF noted
<1>7. notice = "outcome_violation" /\ notice \in Notices \cup {None} /\ notice # None
  <2>1. notice = "outcome_violation"
    BY <1>4, <1>6, NoticeOfOutcome
  <2> QED BY <2>1 DEF Notices, FollowUps, None
<1> DEFINE proposing == TRUE
<1>8. noticed = Notify(noted, notice, Unreadable, at, proposing)
  OBVIOUS
<1> HIDE DEF notice, noticed, proposing
<1>9. noticed.state = noted.state
  BY <1>3, <1>6, <1>7, <1>8, NotifyKeepsPace, SMTT(30)
<1>10. /\ noticed.attempts = noted.attempts /\ noticed.charges = noted.charges
       /\ noticed.claim = noted.claim
  <2>1. noted \in Record /\ at \in Int
    BY <1>3, <1>6
  <2> QED BY <1>7, <1>8, <2>1, NotifyKeeps, SMTT(30)
<1>11. noticed.attention = noted.attention \cup {notice} /\ noticed.moves = noted.moves
  <2>1. noted \in Record /\ at \in Int
    BY <1>3, <1>6
  <2> QED BY <1>7, <1>8, <2>1, NotifyTells, SMTT(30)
<1>12. NoticesFit(row) /\ HistoryFits(row) /\ ClaimFits(row)
  BY DEF ToldInv
<1>13. HistoryFits(noticed) /\ ClaimFits(noticed)
  BY <1>6, <1>9, <1>10, <1>11, <1>12 DEF HistoryFits, ClaimFits
<1>14. noticed.state \notin Terminal => NoticesFit(noticed)
  BY <1>4, <1>6, <1>7, <1>9, <1>10, <1>11, <1>12 DEF NoticesFit, Terminal
<1>15. begun.pc = "finish" /\ begun.rec = noticed
  BY DEF NoJob
<1> HIDE DEF begun
<1>16. CopyFits(begun)
  BY <1>13, <1>14, <1>15 DEF CopyFits
<1>17. job'[w] = begun /\ \A x \in Sessions \ {w} : job'[x] = job[x]
  BY <1>5 DEF TypeOK
<1>18. UNCHANGED row
  BY DEF LoadCharge
<1> QED BY <1>16, <1>17, <1>18, StepKeepsTold

\* The provider's answer is the first look's step of the history, and a claim
\* (confirm_resolution_action).
LEMMA ExecuteKeepsTold ==
  ASSUME TypeOK, OutcomeInv, ToldInv, NEW w \in Sessions, Execute(w)
  PROVE  ToldInv'
<1>1. /\ job[w] \in Job /\ job[w].rec \in Record /\ job[w].rec.checks \in Nat
      /\ job[w].pc = "execute" /\ UNCHANGED row
  BY DEF TypeOK, Job, Execute, Record
<1>2. PICK receipt \in ProviderReceipts :
        job' = [job EXCEPT
                  ![w].pc  = "record_claim",
                  ![w].rec = Transition([job[w].rec EXCEPT !.claim = Accepted(receipt),
                                                           !.checks = @ + 1],
                                        "VERIFYING", now)]
  BY DEF Execute
<1> DEFINE rec      == job[w].rec
           accepted == Accepted(receipt)
           checks   == rec.checks + 1
           claimed  == [rec EXCEPT !.claim = accepted, !.checks = checks]
           moved    == Transition(claimed, "VERIFYING", now)
<1>3. accepted \in Receipt /\ accepted.valid
  BY AcceptedTyped, ProviderAssumption DEF Accepted
<1>4. job' = [job EXCEPT ![w].pc = "record_claim", ![w].rec = moved]
  BY <1>2
<1>5. checks \in Nat
  BY <1>1
<1> HIDE DEF accepted, checks
<1>6. /\ claimed \in Record /\ claimed.claim = accepted
      /\ claimed.attempts = rec.attempts /\ claimed.charges = rec.charges
      /\ claimed.moves = rec.moves /\ claimed.attention = rec.attention
  BY <1>1, <1>3, <1>5 DEF Record
<1> HIDE DEF claimed
<1>7. /\ moved.state = "VERIFYING" /\ moved.claim = accepted
      /\ moved.moves = rec.moves + 1
      /\ moved.attempts = rec.attempts /\ moved.charges = rec.charges
      /\ moved.attention = rec.attention
  BY <1>6, TransitionKeeps, TransitionMoves
<1> HIDE DEF moved
<1>8. /\ job'[w].pc = "record_claim" /\ job'[w].rec = moved
      /\ \A x \in Sessions \ {w} : job'[x] = job[x]
  BY <1>1, <1>4 DEF TypeOK, Job
<1>9. /\ rec.state = "EXECUTING"
      /\ NoticesFit(rec) /\ HistoryFits(rec)
  BY <1>1 DEF OutcomeInv, CopyIsSound, ToldInv, CopyFits, Terminal
<1> HIDE DEF rec
<1>10. rec.moves = 3 /\ rec.attempts = <<>>
  BY <1>9 DEF HistoryFits
<1>11. NoticesFit(moved) /\ HistoryFits(moved) /\ ClaimFits(moved)
  BY <1>3, <1>7, <1>9, <1>10 DEF NoticesFit, HistoryFits, ClaimFits, Terminal
<1>12. CopyFits(job'[w])
  BY <1>8, <1>11 DEF CopyFits
<1> QED BY <1>1, <1>8, <1>12, StepKeepsTold

\* A look ends in the notice of its outcome (_record_verification).
LEMMA ReadBackKeepsTold ==
  ASSUME TypeOK, OutcomeInv, ToldInv, NEW w \in Sessions, ReadBack(w)
  PROVE  ToldInv'
<1>1. /\ job[w] \in Job /\ job[w].rec \in Record
      /\ job[w].at \in Int /\ job[w].eligible \in BOOLEAN
      /\ job[w].pc = "read_back" /\ UNCHANGED row
  BY DEF TypeOK, Job, ReadBack
<1> DEFINE at  == IF job[w].at = Never THEN now ELSE job[w].at
           rec == job[w].rec
<1>2. PICK evidence \in ProviderEvidence :
        job' = [job EXCEPT
                  ![w].pc  = "conclude",
                  ![w].rec = RecordVerification(job[w].rec, Collected(evidence),
                                                job[w].eligible, at)]
  BY DEF ReadBack
<1>3. at \in Int
  BY <1>1, TimeAssumption DEF TypeOK
<1>4. Collected(evidence) \in Evidence
  BY CollectedTyped, ProviderAssumption
<1>5. CopyIsSound(job[w], now)
  BY DEF OutcomeInv
<1>6. ChargesKnown(rec, at)
  BY <1>1, <1>5 DEF CopyIsSound, BeforeVerdict
<1>7. rec.state = "VERIFYING" /\ NoticesFit(rec) /\ HistoryFits(rec) /\ ClaimFits(rec)
  BY <1>1 DEF ToldInv, CopyFits, Terminal
<1> HIDE DEF at
<1> DEFINE judged == RecordVerification(rec, Collected(evidence), job[w].eligible, at)
<1>8. job' = [job EXCEPT ![w].pc = "conclude", ![w].rec = judged]
  BY <1>2
<1>9. NoticesFit(judged) /\ HistoryFits(judged) /\ ClaimFits(judged)
  BY <1>1, <1>3, <1>4, <1>6, <1>7, JudgementTells
<1> HIDE DEF judged
<1>10. /\ job'[w].pc = "conclude" /\ job'[w].rec = judged
       /\ \A x \in Sessions \ {w} : job'[x] = job[x]
  BY <1>1, <1>8 DEF TypeOK, Job
<1>11. CopyFits(job'[w])
  BY <1>9, <1>10 DEF CopyFits
<1> QED BY <1>1, <1>10, <1>11, StepKeepsTold

\* The call of the recovery provider changes no record.
LEMMA CallRecoveryKeepsTold ==
  ASSUME TypeOK, ToldInv, NEW w \in Sessions, CallRecovery(w)
  PROVE  ToldInv'
<1>1. job[w] \in Job /\ job[w].pc = "call_recovery" /\ UNCHANGED row
  BY DEF TypeOK, CallRecovery
<1>2. PICK succeeded \in BOOLEAN :
        job' = [job EXCEPT ![w].pc = "reload", ![w].succeeded = succeeded]
  BY DEF CallRecovery
<1>3. /\ job'[w].pc = "reload" /\ job'[w].rec = job[w].rec
      /\ \A x \in Sessions \ {w} : job'[x] = job[x]
  BY <1>1, <1>2 DEF TypeOK, Job
<1>4. CopyFits(job[w])
  BY DEF ToldInv
<1>5. CopyFits(job'[w])
  BY <1>1, <1>3, <1>4 DEF CopyFits
<1> QED BY <1>1, <1>3, <1>5, StepKeepsTold

(***************************************************************************)
(* The other steps                                                         *)
(***************************************************************************)
\* What is stored is told as the copy was: a verdict with its notice, any other
\* change of an open record without one (save_owned).
LEMMA SaveKeepsTold ==
  ASSUME TypeOK, OutcomeInv, ToldInv, NEW w \in Sessions,
         NEW from \in SavePoints, NEW to \in {"idle", "execute", "read_back", "call_recovery"},
         from \in {"record_claim", "claim_check"} <=> to = "read_back",
         Save(w, from, to)
  PROVE  ToldInv'
<1> DEFINE rec   == job[w].rec
           saved == Saved(rec)
<1>1. /\ job[w] \in Job /\ rec \in Record /\ job[w].pc = from
      /\ row \in Record /\ row' = saved
  BY DEF TypeOK, Job, Save
<1>2. row.state \notin Terminal /\ rec.version = row.version
  BY DEF Save, CanSave, Open, SameVersion
<1>3. saved.state = rec.state
  BY <1>1, SavedFields
<1>4. from # "conclude" => rec.state \notin Terminal
  <2>1. CopyIsSound(job[w], now)
    BY DEF OutcomeInv
  <2>2. from \in {"claim_recovery", "finish"} => rec.state = row.state
    BY <1>1, <1>2 DEF OutcomeInv, FollowUpsKeepTheState, Current
  <2>3. from = "claim_execution" => rec.state = "EXECUTING"
    BY <1>1, <2>1 DEF CopyIsSound
  <2>4. from \in {"record_claim", "claim_check"} => rec.state = "VERIFYING"
    BY <1>1, <2>1 DEF CopyIsSound
  <2> QED BY <1>2, <2>2, <2>3, <2>4 DEF SavePoints, Terminal
<1>5. NoticesFit(rec) /\ HistoryFits(rec) /\ ClaimFits(rec)
  BY <1>1, <1>4 DEF ToldInv, CopyFits
<1>6. NoticesFit(saved) /\ HistoryFits(saved) /\ ClaimFits(saved)
  BY <1>1, <1>5, SavedIsTold
<1>7. to = "read_back" => rec.state = "VERIFYING"
  BY <1>1 DEF OutcomeInv, CopyIsSound
<1> HIDE DEF saved, rec
<1>8. /\ \A x \in Sessions \ {w} : job'[x] = job[x]
      /\ IF to = "idle" THEN job'[w] = NoJob ELSE job'[w].pc = to /\ job'[w].rec = saved
  BY <1>1 DEF TypeOK, Job, Save, rec, saved
<1>9. CopyFits(job'[w])
  <2>1. CASE to = "idle"
    BY <1>8, <2>1, IdleIsTold
  <2>2. CASE to # "idle"
    BY <1>3, <1>6, <1>7, <1>8, <2>2 DEF CopyFits
  <2> QED BY <2>1, <2>2
<1> QED BY <1>1, <1>6, <1>8, <1>9 DEF ToldInv

\* A record that was just created is asked about and nothing else
\* (start_resolution).
LEMMA StartKeepsTold ==
  ASSUME ToldInv, Start
  PROVE  ToldInv'
<1>1. PICK contract \in Contracts :
        row' = Transition([Unborn EXCEPT !.deadline = contract.deadline,
                                         !.tracksCharges = contract.tracksCharges],
                          "AWAITING_CONFIRMATION", now)
  BY DEF Start
<1>2. /\ row'.state = "AWAITING_CONFIRMATION" /\ row'.moves = 2 /\ row'.attempts = <<>>
      /\ row'.attention = {} /\ row'.charges = <<>> /\ row'.claim = NoReceipt
      /\ UNCHANGED job
  BY <1>1 DEF Transition, Unborn, Start
<1>3. NoticesFit(row') /\ HistoryFits(row') /\ ClaimFits(row')
  BY <1>2 DEF NoticesFit, HistoryFits, ClaimFits, Terminal
<1> QED BY <1>2, <1>3 DEF ToldInv

\* Beginning any call keeps what is told.
LEMMA AskKeepsTold ==
  ASSUME TypeOK, ToldInv, NEW w \in Sessions, Ask(w)
  PROVE  ToldInv'
<1>1. CASE ExpireRecovery(w) \/ DeclineRecovery(w)
  <2>1. PICK f \in FollowUps, at \in RecentTimes, state \in {"EXPIRED", "DECLINED"} :
          LoadRecovery(w, f, at) /\ Begin(w, "finish", SetFollowUp(row, f, state, at), Never)
    BY <1>1 DEF ExpireRecovery, DeclineRecovery
  <2> QED BY <2>1, AnswerKeepsTold
<1>2. CASE LoadConfirm(w) \/ LoadRecheck(w) \/ LoadCharge(w) \/ AcceptRecovery(w)
  BY <1>2, LoadConfirmKeepsTold, LoadRecheckKeepsTold, LoadChargeKeepsTold,
     AcceptRecoveryKeepsTold
<1> QED BY <1>1, <1>2 DEF Ask

\* So does carrying it on.
LEMMA ProceedKeepsTold ==
  ASSUME TypeOK, OutcomeInv, ToldInv, NEW w \in Sessions, Proceed(w)
  PROVE  ToldInv'
<1>1. CASE RecordClaim(w) \/ ClaimCheck(w)
  BY <1>1, SaveKeepsTold DEF RecordClaim, ClaimCheck, SavePoints
<1>2. CASE ClaimExecution(w) \/ ClaimRecovery(w)
  BY <1>2, SaveKeepsTold DEF ClaimExecution, ClaimRecovery, SavePoints
<1>3. CASE Conclude(w) \/ Finish(w)
  BY <1>3, SaveKeepsTold DEF Conclude, Finish, SavePoints
<1>4. CASE SaveRefused(w)
  BY <1>4, DropKeepsTold DEF SaveRefused
<1>5. CASE Execute(w) \/ ReadBack(w) \/ CallRecovery(w) \/ ReloadRecovery(w)
  BY <1>5, ExecuteKeepsTold, ReadBackKeepsTold, CallRecoveryKeepsTold, ReloadRecoveryKeepsTold
<1> QED BY <1>1, <1>2, <1>3, <1>4, <1>5 DEF Proceed

\* The induction step, for every action of the specification.
LEMMA NextKeepsTold ==
  ASSUME TypeOK, OutcomeInv, ToldInv, [Next]_vars
  PROVE  ToldInv'
<1>1. CASE Start
  BY <1>1, StartKeepsTold
<1>2. CASE \E w \in Sessions : Ask(w)
  BY <1>2, AskKeepsTold
<1>3. CASE \E w \in Sessions : Proceed(w)
  BY <1>3, ProceedKeepsTold
<1>4. CASE \E w \in Sessions : CallLost(w)
  BY <1>4, DropKeepsTold DEF CallLost
<1>5. CASE Tick \/ UNCHANGED vars
  BY <1>5 DEF Tick, vars, ToldInv
<1> QED BY <1>1, <1>2, <1>3, <1>4, <1>5 DEF Next

\* What is told of a record follows what happened to it: the induction the
\* theorems about views and cards rest on.
THEOREM ToldAsItWas == Spec => []ToldInv
<1>1. Init => ToldInv
  BY IdleIsTold DEF Init, ToldInv
<1>2. TypeOK /\ OutcomeInv /\ ToldInv /\ [Next]_vars => ToldInv'
  BY NextKeepsTold
<1> QED BY <1>1, <1>2, TypeCorrect, OutcomeSound, PTL DEF Spec

(***************************************************************************)
(* What the record knows when it says something                            *)
(***************************************************************************)
\* Consent, claim and verdict of a record that can be stored
\* (_validate_evidence_stage, validate_target_record).
LEMMA KnownByState ==
  ASSUME TypeOK, OutcomeInv, ToldInv, Started
  PROVE  /\ row.state \in States \ {"REQUESTED"}
         /\ row.state = "AWAITING_CONFIRMATION" => ~row.judged /\ row.claim = NoReceipt
         /\ row.state = "EXECUTING" => row.attested /\ ~row.judged /\ row.claim = NoReceipt
         /\ row.state = "VERIFYING" => row.attested /\ row.claim.valid /\ ~row.judged
         /\ row.state \in Terminal \cup {"AWAITING_PROOF"} =>
              /\ row.attested /\ row.claim.valid /\ row.judged /\ row.attempts # <<>>
              /\ row.state = StateFor(LastAttempt(row).reason)
<1>1. /\ EvidenceValid(row) /\ VerdictReproduces(row) /\ Paced(row)
      /\ row \in Record /\ row.state # "REQUESTED" /\ ClaimFits(row)
  BY DEF OutcomeInv, StoreIsSound, ValidRecord, TypeOK, ToldInv, Started
<1>2. row.state \in States \ {"REQUESTED"}
  BY <1>1 DEF Record
<1>3. CASE row.state = "AWAITING_CONFIRMATION"
  BY <1>1, <1>2, <1>3 DEF EvidenceValid, ClaimFits, Terminal
<1>4. CASE row.state = "EXECUTING"
  BY <1>1, <1>2, <1>4 DEF EvidenceValid, ClaimFits, Terminal
<1>5. CASE row.state = "VERIFYING"
  BY <1>1, <1>2, <1>5 DEF EvidenceValid, Terminal
<1>6. CASE row.state \in Terminal \cup {"AWAITING_PROOF"}
  <2>1. row.attested /\ row.claim.valid /\ row.judged
    BY <1>1, <1>6 DEF EvidenceValid, Terminal
  <2> QED BY <1>1, <1>2, <1>6, <2>1 DEF VerdictReproduces, Paced, Terminal
<1> QED BY <1>2, <1>3, <1>4, <1>5, <1>6 DEF States, Terminal

\* What an outcome without a charge rests on (verify_cancellation).
LEMMA KnownOfOutcome ==
  ASSUME TypeOK, OutcomeInv, ToldInv, row.state \in Terminal, row.charges = <<>>
  PROVE  LET last == LastAttempt(row) IN
         /\ row.claim.valid /\ row.claim.success
         /\ last.evidence.valid /\ last.evidence.readable
         /\ last.evidence.freshness = "within30"
         /\ row.state = "VERIFIED" => last.evidence.autoRenew = "off" /\ last.evidence.endDate
         /\ row.state = "NOT_COMPLETED" => last.evidence.autoRenew = "on"
<1> DEFINE last == LastAttempt(row)
<1>1. /\ VerdictReproduces(row) /\ row.judged
      /\ row.state = StateFor(last.reason)
  BY KnownByState DEF OutcomeInv, StoreIsSound, ValidRecord, Started, Terminal
<1>2. ChargeWeighed(row, last.charge) = NoCharge
  BY DEF ChargeWeighed, ChargeById
<1>3. last.reason = Verify(row.claim, last.evidence, last.eligible /\ row.checks >= MaxChecks,
                           Target, NoCharge, row.deadline, last.at)
  BY <1>1, <1>2 DEF VerdictReproduces
<1> HIDE DEF last
<1>4. CASE row.state = "VERIFIED"
  <2>1. last.reason = "cancelled"
    BY <1>1, <1>4 DEF StateFor, VerdictOf
  <2> QED BY <1>3, <1>4, <2>1 DEF Verify, last
<1>5. CASE row.state = "NOT_COMPLETED"
  <2>1. last.reason \in {"charge_observed", "window_ended"}
    BY <1>1, <1>5 DEF StateFor, VerdictOf
  <2> QED BY <1>3, <1>5, <2>1 DEF Verify, last
<1> QED BY <1>4, <1>5 DEF Terminal

\* A verdict says of the record what its state says (_terminal_state_for).
LEMMA VerdictIsTheState ==
  ASSUME TypeOK, OutcomeInv, ToldInv, Started
  PROVE  /\ VerdictIn(row) = "PASS" <=> row.state = "VERIFIED"
         /\ VerdictIn(row) = "FAIL" <=> row.state = "NOT_COMPLETED"
         /\ VerdictIn(row) = "INCONCLUSIVE" <=> row.state = "AWAITING_PROOF"
         /\ VerdictIn(row) \in Verdicts <=> row.judged
         /\ ~row.judged <=> VerdictIn(row) = None
         /\ row.judged <=> row.state \in Terminal \cup {"AWAITING_PROOF"}
<1> DEFINE verdict == VerdictOf(LastAttempt(row).reason)
<1>1. verdict \in Verdicts
  BY DEF VerdictOf, Verdicts
<1>2. row.judged \in BOOLEAN /\ row.state \in States
  BY DEF TypeOK, Record
<1>3. row.judged <=> row.state \in Terminal \cup {"AWAITING_PROOF"}
  BY <1>2, KnownByState DEF States, Terminal
<1>4. row.judged =>
        row.state = CASE verdict = "PASS" -> "VERIFIED"
                      [] verdict = "FAIL" -> "NOT_COMPLETED"
                      [] OTHER            -> "AWAITING_PROOF"
  BY <1>3, KnownByState DEF StateFor
<1>5. VerdictIn(row) = IF row.judged THEN verdict ELSE None
  BY DEF VerdictIn
<1> HIDE DEF verdict
<1> QED BY <1>1, <1>2, <1>3, <1>4, <1>5 DEF Verdicts, Terminal, None

\* The latest of some notices: the ones an outcome gives come last (_status_view).
LEMMA LatestNotice ==
  ASSUME NEW notices \in SUBSET Notices
  PROVE  /\ "not_completed" \in notices => LatestOf(notices) = "not_completed"
         /\ ("not_completed" \notin notices /\ "verified" \in notices) =>
              LatestOf(notices) = "verified"
         /\ ("not_completed" \notin notices /\ "verified" \notin notices
               /\ "outcome_violation" \in notices) => LatestOf(notices) = "outcome_violation"
         /\ LatestOf(notices) \in notices \cup {None}
<1> DEFINE Latest(i) == /\ NoticeOrder[i] \in notices
                        /\ \A j \in DOMAIN NoticeOrder : NoticeOrder[j] \in notices => j <= i
           chosen == CHOOSE i \in DOMAIN NoticeOrder : Latest(i)
<1>1. /\ DOMAIN NoticeOrder = 1..5
      /\ NoticeOrder[1] = "deadline_approaching" /\ NoticeOrder[2] = "deadline_passed"
      /\ NoticeOrder[3] = "outcome_violation" /\ NoticeOrder[4] = "verified"
      /\ NoticeOrder[5] = "not_completed"
  BY DEF NoticeOrder
<1>2. LatestOf(notices) = IF notices = {} THEN None ELSE NoticeOrder[chosen]
  BY DEF LatestOf
<1>3. notices # {} => \E i \in DOMAIN NoticeOrder : Latest(i)
  <2>1. CASE "not_completed" \in notices
    <3>1. Latest(5)
      BY <1>1, <2>1
    <3> QED BY <1>1, <3>1
  <2>2. CASE "not_completed" \notin notices /\ "verified" \in notices
    <3>1. Latest(4)
      BY <1>1, <2>2
    <3> QED BY <1>1, <3>1
  <2>3. CASE /\ notices \cap {"not_completed", "verified"} = {}
             /\ "outcome_violation" \in notices
    <3>1. Latest(3)
      BY <1>1, <2>3
    <3> QED BY <1>1, <3>1
  <2>4. CASE /\ notices \cap {"not_completed", "verified", "outcome_violation"} = {}
             /\ "deadline_passed" \in notices
    <3>1. Latest(2)
      BY <1>1, <2>4
    <3> QED BY <1>1, <3>1
  <2>5. CASE notices = {"deadline_approaching"}
    <3>1. Latest(1)
      BY <1>1, <2>5
    <3> QED BY <1>1, <3>1
  <2> QED BY <2>1, <2>2, <2>3, <2>4, <2>5 DEF Notices, FollowUps
<1>4. notices # {} => chosen \in 1..5 /\ Latest(chosen)
  BY <1>1, <1>3
<1> HIDE DEF chosen
<1>5. CASE "not_completed" \in notices
  <2>1. chosen = 5
    BY <1>1, <1>4, <1>5
  <2> QED BY <1>1, <1>2, <1>5, <2>1
<1>6. CASE "not_completed" \notin notices /\ "verified" \in notices
  <2>1. chosen = 4
    BY <1>1, <1>4, <1>6
  <2> QED BY <1>1, <1>2, <1>6, <2>1
<1>7. CASE notices \cap {"not_completed", "verified"} = {} /\ "outcome_violation" \in notices
  <2>1. chosen = 3
    BY <1>1, <1>4, <1>7
  <2> QED BY <1>1, <1>2, <1>7, <2>1
<1>8. LatestOf(notices) \in notices \cup {None}
  BY <1>2, <1>4
<1> QED BY <1>5, <1>6, <1>7, <1>8

\* Which notice is the latest tells charge, success and failure apart.
LEMMA AttentionIsTheOutcome ==
  ASSUME TypeOK, OutcomeInv, ToldInv
  PROVE  /\ Attention(row) = "verified" <=> row.state = "VERIFIED"
         /\ Attention(row) = "outcome_violation" <=> row.charges # <<>>
         /\ row.state = "NOT_COMPLETED" => Attention(row) \in {"not_completed", "outcome_violation"}
<1>1. row.attention \in SUBSET Notices /\ NoticesFit(row)
  BY DEF TypeOK, Record, ToldInv
<1>2. row.state = "VERIFIED" => row.charges = <<>>
  BY DEF OutcomeInv, StoreIsSound, NoVerifiedWithCharge
<1> DEFINE notices == row.attention
<1>3. Attention(row) = LatestOf(notices)
  BY DEF Attention
<1>4. /\ "outcome_violation" \in notices <=> row.charges # <<>>
      /\ "verified" \in notices <=> row.state = "VERIFIED"
      /\ "not_completed" \in notices <=> (row.state = "NOT_COMPLETED" /\ row.charges = <<>>)
  BY <1>1 DEF NoticesFit
<1>5. /\ "not_completed" \in notices => LatestOf(notices) = "not_completed"
      /\ ("not_completed" \notin notices /\ "verified" \in notices) =>
           LatestOf(notices) = "verified"
      /\ ("not_completed" \notin notices /\ "verified" \notin notices
            /\ "outcome_violation" \in notices) => LatestOf(notices) = "outcome_violation"
      /\ LatestOf(notices) \in notices \cup {None}
  BY <1>1, LatestNotice
<1> HIDE DEF notices
<1> QED BY <1>2, <1>3, <1>4, <1>5 DEF None

(***************************************************************************)
(* The answers in words                                                    *)
(***************************************************************************)
\* What is said of an outcome is what its verdict says (_consumer_summary).
LEMMA SummaryOfOutcome ==
  ASSUME TypeOK, OutcomeInv
  PROVE  /\ ConsumerSummary(row) = "canceled" <=> row.state = "VERIFIED"
         /\ (row.state = "NOT_COMPLETED" /\ row.charges = <<>>) =>
              ConsumerSummary(row) = "not_completed"
         /\ (row.state = "NOT_COMPLETED" /\ row.charges # <<>>) =>
              ConsumerSummary(row) \in {"charged", "charged_and_draft_ready"}
BY DEF ConsumerSummary

\* Whichever answer the assistant reads out, the customer hears the same
\* (_consumer_summary, _conversation_view, attention_candidate).
LEMMA ToldAlike ==
  ASSUME TypeOK, OutcomeInv, ToldInv
  PROVE  AnswersAgree
<1> SUFFICES ASSUME Started PROVE AnswersAgree
  BY DEF AnswersAgree
<1> DEFINE verdict == VerdictIn(row)
<1>1. /\ verdict = "PASS" <=> row.state = "VERIFIED"
      /\ verdict = "FAIL" <=> row.state = "NOT_COMPLETED"
      /\ verdict = "INCONCLUSIVE" <=> row.state = "AWAITING_PROOF"
  BY VerdictIsTheState
<1>2. /\ NextStep(row) = "nothing_to_do" <=> row.state = "VERIFIED"
      /\ NextStep(row) = "report_not_done" <=> row.state = "NOT_COMPLETED"
      /\ NextStep(row) = "offer_to_check_later" <=> row.state = "AWAITING_PROOF"
  <2>1. NextStep(row) = CASE verdict = "PASS"         -> "nothing_to_do"
                          [] verdict = "FAIL"         -> "report_not_done"
                          [] verdict = "INCONCLUSIVE" -> "offer_to_check_later"
                          [] row.state = "VERIFYING"  -> "look_for_result"
                          [] row.state = "EXECUTING"  -> "look_before_reporting"
                          [] OTHER                    -> "obtain_confirmation"
    BY DEF NextStep
  <2> HIDE DEF verdict
  <2> QED BY <1>1, <2>1
<1> HIDE DEF verdict
<1>3. /\ Attention(row) = "verified" <=> row.state = "VERIFIED"
      /\ Attention(row) = "outcome_violation" <=> row.charges # <<>>
      /\ row.state = "NOT_COMPLETED" => Attention(row) \in {"not_completed", "outcome_violation"}
  BY AttentionIsTheOutcome
<1>4. row.state = "VERIFIED" =>
        row.charges = <<>> /\ row.claim.success /\ EvidenceIn(row).autoRenew = "off"
  <2> SUFFICES ASSUME row.state = "VERIFIED"
               PROVE  row.charges = <<>> /\ row.claim.success /\ EvidenceIn(row).autoRenew = "off"
    OBVIOUS
  <2>1. row.charges = <<>> /\ row.judged
    BY KnownByState DEF OutcomeInv, StoreIsSound, NoVerifiedWithCharge, Terminal
  <2>2. row.claim.success /\ LastAttempt(row).evidence.autoRenew = "off"
    BY <2>1, KnownOfOutcome DEF Terminal
  <2> QED BY <2>1, <2>2 DEF EvidenceIn
<1>5. row.state = "AWAITING_PROOF" => ReceiptView(row) = NoReceiptView
  BY DEF ReceiptView, Terminal
<1> QED BY <1>2, <1>3, <1>4, <1>5, SummaryOfOutcome DEF AnswersAgree

\* A receipt says what the outcome rests on (_receipt_view).
LEMMA ReceiptsAreBacked ==
  ASSUME TypeOK, OutcomeInv, ToldInv
  PROVE  ReceiptIsBacked
<1> SUFFICES ASSUME row.state \in Terminal, row.judged PROVE ReceiptIsBacked
  BY DEF ReceiptIsBacked, ReceiptView
<1> DEFINE receipt == ReceiptView(row)
           last    == LastAttempt(row)
<1>1. /\ receipt.outcome = IF row.state = "VERIFIED" THEN "Canceled" ELSE "Not completed"
      /\ receipt.summary = ConsumerSummary(row)
      /\ receipt.autoRenew = last.evidence.autoRenew
  BY DEF ReceiptView, EvidenceIn
<1> HIDE DEF receipt, last
<1>2. CASE row.state = "VERIFIED"
  <2>1. row.charges = <<>>
    BY <1>2 DEF OutcomeInv, StoreIsSound, NoVerifiedWithCharge
  <2>2. last.evidence.autoRenew = "off"
    BY <1>2, <2>1, KnownOfOutcome DEF last
  <2> QED BY <1>1, <1>2, <2>2, SummaryOfOutcome DEF ReceiptIsBacked, receipt
<1>3. CASE row.state = "NOT_COMPLETED"
  <2>1. row.charges = <<>> => last.evidence.autoRenew = "on"
    BY <1>3, KnownOfOutcome DEF last
  <2> QED BY <1>1, <1>3, <2>1, SummaryOfOutcome DEF ReceiptIsBacked, receipt
<1> QED BY <1>2, <1>3 DEF Terminal

(***************************************************************************)
(* The card                                                                *)
(***************************************************************************)
\* The title of a status is the one that is true of its record (_status_view,
\* deriveView).
LEMMA StatusTitle ==
  ASSUME TypeOK, OutcomeInv, ToldInv, Started
  PROVE  CardTitle(StatusView(row)) = TrueTitle(row.state)
<1> DEFINE view == StatusView(row)
           verdict == VerdictIn(row)
<1>1. /\ view.keys = StatusKeys /\ view.lifecycle = row.state
      /\ view.execution = ExecutionStatus(row) /\ view.checked = VerificationStatus(row)
      /\ view.consumer = ConsumerStateIn(row) /\ view.verdict = verdict
      /\ view.isTerminal = (row.state \in Terminal)
      /\ view.confirmation = (row.state = "AWAITING_CONFIRMATION")
      /\ view.claim = NoReceipt /\ view.readBack = NoEvidence
      /\ view.verification = NoVerification
  BY DEF StatusView, Common
<1>2. /\ verdict = "PASS" <=> row.state = "VERIFIED"
      /\ verdict = "FAIL" <=> row.state = "NOT_COMPLETED"
      /\ verdict = "INCONCLUSIVE" <=> row.state = "AWAITING_PROOF"
      /\ ~row.judged <=> verdict = None
      /\ row.judged <=> row.state \in Terminal \cup {"AWAITING_PROOF"}
  BY VerdictIsTheState
<1>3. /\ row.judged => VerificationStatus(row) = verdict
      /\ (~row.judged /\ row.state = "VERIFYING") => VerificationStatus(row) = "in_progress"
      /\ (~row.judged /\ row.state # "VERIFYING") => VerificationStatus(row) = "not_started"
      /\ row.judged => ConsumerStateIn(row) = ConsumerState(verdict)
      /\ ~row.judged => ConsumerStateIn(row) = None
  <2>1. row.judged \in BOOLEAN
    BY DEF TypeOK, Record
  <2>2. CASE row.judged
    BY <1>2, <2>2 DEF VerificationStatus, ConsumerStateIn, Terminal
  <2>3. CASE ~row.judged
    BY <2>3 DEF VerificationStatus, ConsumerStateIn
  <2> QED BY <2>1, <2>2, <2>3
<1>4. row.state \in States \ {"REQUESTED"}
  BY KnownByState
<1> HIDE DEF view, verdict
<1>5. /\ StatusShape(view) /\ ~EvidenceShape(view) /\ OneShape(view)
  BY <1>1 DEF StatusShape, EvidenceShape, OneShape, StatusKeys, EvidenceKeys
<1>6. /\ Coherent(view)
      /\ ShownVerdict(view) = verdict /\ ShownConsumer(view) = ConsumerStateIn(row)
  BY <1>1, <1>5 DEF Coherent, Consistent, NoVerification, ShownVerdict, ShownConsumer, Either
<1>7. ~view.verification.given
  BY <1>1 DEF NoVerification
<1>8. CASE row.state \in Terminal
  <2>1. /\ ClaimsOutcome(view) /\ verdict \in Verdicts
        /\ row.state = Rule(verdict).lifecycle
        /\ ConsumerState(verdict) = Rule(verdict).consumer
        /\ Rule(verdict).consumer = TrueTitle(row.state)
    BY <1>1, <1>2, <1>8 DEF ClaimsOutcome, Verdicts, Rule, ConsumerState, TrueTitle, Terminal
  <2>2. ExecutionStatus(row) = "completed"
    BY <1>8 DEF ExecutionStatus, Terminal
  <2>3. OutcomeHolds(view)
    BY <1>1, <1>2, <1>3, <1>5, <1>6, <1>8, <2>1, <2>2 DEF OutcomeHolds, Terminal
  <2> QED BY <1>6, <2>1, <2>3 DEF CardTitle, view
<1>9. CASE row.state \notin Terminal
  <2>1. ~ClaimsOutcome(view) /\ ~view.isTerminal
    BY <1>1, <1>2, <1>6, <1>9 DEF ClaimsOutcome, Terminal
  <2>2. CardTitle(view) =
          CASE view.lifecycle = "AWAITING_PROOF" /\ AwaitingProofHolds(view)
                 -> "Awaiting proof"
            [] view.lifecycle = "AWAITING_CONFIRMATION" /\ ConfirmationHolds(view)
                 -> "Confirmation required"
            [] view.lifecycle = "EXECUTING" /\ ExecutingHolds(view) -> "Action in progress"
            [] view.lifecycle = "VERIFYING" /\ VerifyingHolds(view) -> "Checking the result"
            [] OTHER -> Unavailable
    BY <1>6, <1>7, <2>1 DEF CardTitle
  <2>3. CASE row.state = "AWAITING_PROOF"
    <3>1. AwaitingProofHolds(view)
      BY <1>1, <1>2, <1>3, <1>5, <1>6, <2>3
         DEF AwaitingProofHolds, ConsumerState, ExecutionStatus, Terminal
    <3> QED BY <1>1, <2>2, <2>3, <3>1 DEF TrueTitle, view
  <2>4. CASE row.state = "AWAITING_CONFIRMATION"
    <3>1. ConfirmationHolds(view)
      BY <1>1, <1>2, <1>3, <2>4 DEF ConfirmationHolds, ExecutionStatus, Terminal
    <3> QED BY <1>1, <2>2, <2>4, <3>1 DEF TrueTitle, view
  <2>5. CASE row.state = "EXECUTING"
    <3>1. ExecutingHolds(view)
      BY <1>1, <1>2, <1>3, <2>5 DEF ExecutingHolds, ExecutionStatus, Terminal
    <3> QED BY <1>1, <2>2, <2>5, <3>1 DEF TrueTitle, view
  <2>6. CASE row.state = "VERIFYING"
    <3>1. VerifyingHolds(view)
      BY <1>1, <1>2, <1>3, <2>6 DEF VerifyingHolds, ExecutionStatus, Terminal
    <3> QED BY <1>1, <2>2, <2>6, <3>1 DEF TrueTitle, view
  <2> QED BY <1>4, <1>9, <2>3, <2>4, <2>5, <2>6 DEF States, Terminal
<1> QED BY <1>8, <1>9

\* An outcome that took one look and no charge has the shortest history, and
\* evidence from which the card derives the same verdict (validTerminalHistory,
\* derivedEvidenceVerdict).
LEMMA FirstLookIsShown ==
  ASSUME TypeOK, OutcomeInv, ToldInv, row.state \in Terminal,
         row.moves <= 5, row.charges = <<>>
  PROVE  /\ History(row) = Append(Opening, row.state)
         /\ DerivedVerdict(row.claim, LastAttempt(row).evidence) = VerdictIn(row)
<1>1. Started
  BY DEF Started, Terminal
<1>2. row.judged /\ row.attempts # <<>> /\ row.attempts \in Seq(Attempt) /\ row.moves \in Nat
  BY <1>1, KnownByState DEF TypeOK, Record
<1>3. row.moves >= 3 + 2 * Len(row.attempts)
  BY DEF ToldInv, HistoryFits
<1>4. Len(row.attempts) = 1 /\ row.moves = 5
  <2> DEFINE looks == Len(row.attempts)
             moves == row.moves
  <2>1. looks \in Nat /\ looks # 0 /\ moves \in Nat
    BY <1>2
  <2>2. moves >= 3 + 2 * looks /\ moves <= 5
    BY <1>3
  <2> HIDE DEF looks, moves
  <2>3. looks = 1 /\ moves = 5
    BY <2>1, <2>2
  <2> QED BY <2>3 DEF looks, moves
<1>5. History(row) = Append(Opening, row.state)
  <2> DEFINE body == [i \in 1..1 |-> IF i > 0 + 1 /\ (i - 0) % 2 = 0
                                     THEN "AWAITING_PROOF" ELSE "VERIFYING"]
             opening == SubSeq(<<"REQUESTED", "AWAITING_CONFIRMATION", "EXECUTING">>, 1, 3)
  <2>1. History(row) = opening \o body \o <<row.state>>
    BY <1>2, <1>4 DEF History
  <2>2. body = [i \in 1..1 |-> "VERIFYING"]
    OBVIOUS
  <2>3. /\ opening \in Seq(States) /\ Len(opening) = 3
        /\ opening[1] = "REQUESTED" /\ opening[2] = "AWAITING_CONFIRMATION"
        /\ opening[3] = "EXECUTING"
    BY DEF States
  <2>4. body \in Seq(States) /\ Len(body) = 1 /\ body[1] = "VERIFYING"
    <3>1. body \in [1..1 -> States]
      BY <2>2 DEF States
    <3>2. Len(body) = 1 /\ body \in Seq(States)
      BY <3>1, <2>2
    <3> QED BY <2>2, <3>2
  <2> DEFINE start == opening \o body
  <2> HIDE DEF body, opening
  <2>5. /\ start \in Seq(States) /\ Len(start) = 4
        /\ start[1] = "REQUESTED" /\ start[2] = "AWAITING_CONFIRMATION"
        /\ start[3] = "EXECUTING" /\ start[4] = "VERIFYING"
    <3>1. /\ start \in Seq(States) /\ Len(start) = Len(opening) + Len(body)
          /\ \A i \in 1..Len(opening) + Len(body) :
               start[i] = IF i <= Len(opening) THEN opening[i] ELSE body[i - Len(opening)]
      BY <2>3, <2>4, ConcatProperties
    <3> HIDE DEF start
    <3> QED BY <2>3, <2>4, <3>1
  <2> HIDE DEF start
  <2>6. /\ Opening \in Seq(States) /\ Len(Opening) = 4
        /\ Opening[1] = "REQUESTED" /\ Opening[2] = "AWAITING_CONFIRMATION"
        /\ Opening[3] = "EXECUTING" /\ Opening[4] = "VERIFYING"
    BY DEF Opening, States
  <2>7. start = Opening
    <3>1. \A i \in 1..4 : i \in {1, 2, 3, 4}
      OBVIOUS
    <3>2. \A i \in 1..4 : start[i] = Opening[i]
      BY <2>5, <2>6, <3>1
    <3> QED BY <2>5, <2>6, <3>2
  <2>8. start \o <<row.state>> = Append(start, row.state)
    <3>1. row.state \in States
      BY DEF Terminal, States
    <3> QED BY <2>5, <3>1
  <2> QED BY <2>1, <2>7, <2>8 DEF start
<1>6. DerivedVerdict(row.claim, LastAttempt(row).evidence) = VerdictIn(row)
  <2> DEFINE evidence == LastAttempt(row).evidence
  <2>1. /\ row.claim.valid /\ row.claim.success
        /\ evidence.valid /\ evidence.readable /\ evidence.freshness = "within30"
        /\ row.state = "VERIFIED" => evidence.autoRenew = "off" /\ evidence.endDate
        /\ row.state = "NOT_COMPLETED" => evidence.autoRenew = "on"
    BY KnownOfOutcome
  <2>2. /\ VerdictIn(row) = "PASS" <=> row.state = "VERIFIED"
        /\ VerdictIn(row) = "FAIL" <=> row.state = "NOT_COMPLETED"
    BY <1>1, VerdictIsTheState
  <2> HIDE DEF evidence
  <2>3. DerivedVerdict(row.claim, evidence) = VerdictIn(row)
    BY <2>1, <2>2 DEF DerivedVerdict, Terminal
  <2> QED BY <2>3 DEF evidence
<1> QED BY <1>5, <1>6

\* Of evidence the card shows the title that is true of its record, or admits
\* that it cannot (_evidence_view, deriveView).
LEMMA EvidenceTitle ==
  ASSUME TypeOK, OutcomeInv, ToldInv, Started
  PROVE  LET title == CardTitle(EvidenceView(row)) IN
         /\ title \in {TrueTitle(row.state), Unavailable}
         /\ title = Unavailable =>
              \/ row.state = "AWAITING_PROOF"
              \/ row.state \in Terminal /\ (row.moves > 5 \/ row.charges # <<>>)
<1> DEFINE view == EvidenceView(row)
           verdict == VerdictIn(row)
<1>1. /\ view.keys = EvidenceKeys /\ view.lifecycle = row.state
      /\ view.execution = ExecutionStatus(row) /\ view.checked = VerificationStatus(row)
      /\ view.consumer = ConsumerStateIn(row) /\ view.verdict = None
      /\ view.isTerminal = FALSE /\ view.confirmation = FALSE
      /\ view.claim = row.claim /\ view.readBack = EvidenceIn(row)
      /\ view.verification = IF row.judged
                             THEN [given |-> TRUE, formed |-> TRUE, verdict |-> verdict,
                                   consumer |-> ConsumerStateIn(row)]
                             ELSE NoVerification
      /\ view.history = History(row) /\ view.ordered = TRUE
  BY DEF EvidenceView, Common
<1>2. /\ verdict = "PASS" <=> row.state = "VERIFIED"
      /\ verdict = "FAIL" <=> row.state = "NOT_COMPLETED"
      /\ verdict = "INCONCLUSIVE" <=> row.state = "AWAITING_PROOF"
      /\ ~row.judged <=> verdict = None
      /\ row.judged <=> row.state \in Terminal \cup {"AWAITING_PROOF"}
  BY VerdictIsTheState
<1>3. /\ row.judged => VerificationStatus(row) = verdict
      /\ (~row.judged /\ row.state = "VERIFYING") => VerificationStatus(row) = "in_progress"
      /\ (~row.judged /\ row.state # "VERIFYING") => VerificationStatus(row) = "not_started"
      /\ row.judged => ConsumerStateIn(row) = ConsumerState(verdict)
      /\ ~row.judged => ConsumerStateIn(row) = None
      /\ ~row.judged => EvidenceIn(row) = NoEvidence
      /\ row.judged => EvidenceIn(row) = LastAttempt(row).evidence
  <2>1. row.judged \in BOOLEAN
    BY DEF TypeOK, Record
  <2>2. CASE row.judged
    BY <1>2, <2>2 DEF VerificationStatus, ConsumerStateIn, EvidenceIn, Terminal
  <2>3. CASE ~row.judged
    BY <2>3 DEF VerificationStatus, ConsumerStateIn, EvidenceIn
  <2> QED BY <2>1, <2>2, <2>3
<1>4. /\ row.state \in States \ {"REQUESTED"}
      /\ row.state \in {"AWAITING_CONFIRMATION", "EXECUTING"} => row.claim = NoReceipt
  BY KnownByState
<1> HIDE DEF view, verdict
<1>5. /\ ~StatusShape(view) /\ EvidenceShape(view) /\ OneShape(view)
  BY <1>1 DEF StatusShape, EvidenceShape, OneShape, StatusKeys, EvidenceKeys
<1>6. /\ view.verification.given <=> row.judged
      /\ row.judged => view.verification.formed
      /\ view.verification.verdict = verdict
      /\ view.verification.consumer = ConsumerStateIn(row)
  <2>1. row.judged \in BOOLEAN
    BY DEF TypeOK, Record
  <2>2. CASE row.judged
    BY <1>1, <2>2
  <2>3. CASE ~row.judged
    BY <1>1, <1>2, <1>3, <2>1, <2>3 DEF NoVerification
  <2> QED BY <2>2, <2>3
<1>7. /\ Coherent(view)
      /\ ShownVerdict(view) = verdict /\ ShownConsumer(view) = ConsumerStateIn(row)
  BY <1>1, <1>5, <1>6 DEF Coherent, Consistent, ShownVerdict, ShownConsumer, Either
<1>8. CASE row.state \in Terminal
  <2>1. /\ ClaimsOutcome(view) /\ verdict \in Verdicts
        /\ row.state = Rule(verdict).lifecycle
        /\ ConsumerState(verdict) = Rule(verdict).consumer
        /\ Rule(verdict).consumer = TrueTitle(row.state)
    BY <1>1, <1>2, <1>8 DEF ClaimsOutcome, Verdicts, Rule, ConsumerState, TrueTitle, Terminal
  <2>2. ExecutionStatus(row) = "completed"
    BY <1>8 DEF ExecutionStatus, Terminal
  <2>3. CardTitle(view) = IF OutcomeHolds(view) THEN TrueTitle(row.state) ELSE Unavailable
    BY <1>7, <2>1 DEF CardTitle
  <2>4. ASSUME row.moves <= 5, row.charges = <<>> PROVE OutcomeHolds(view)
    <3>1. TerminalHistory(view)
      BY <1>1, <1>8, <2>4, FirstLookIsShown DEF TerminalHistory
    <3>2. DerivedVerdict(view.claim, view.readBack) = verdict
      BY <1>1, <1>2, <1>3, <1>8, <2>4, FirstLookIsShown DEF verdict
    <3>3. TerminalEvidence(view, verdict)
      BY <1>2, <1>6, <1>8, <3>1, <3>2 DEF TerminalEvidence
    <3> QED BY <1>1, <1>2, <1>3, <1>5, <1>7, <1>8, <2>1, <2>2, <3>3 DEF OutcomeHolds
  <2>5. row.moves \in Nat
    BY DEF TypeOK, Record
  <2>6. TrueTitle(row.state) # Unavailable
    BY <1>8 DEF TrueTitle, Unavailable, Terminal
  <2> QED BY <1>8, <2>3, <2>4, <2>5, <2>6 DEF view
<1>9. CASE row.state = "AWAITING_PROOF"
  <2>1. ~ClaimsOutcome(view) /\ view.verification.given
    BY <1>1, <1>2, <1>6, <1>7, <1>9 DEF ClaimsOutcome, Terminal
  <2>2. CardTitle(view) = Unavailable
    BY <1>7, <2>1 DEF CardTitle
  <2> QED BY <1>9, <2>2 DEF view
<1>10. CASE row.state \notin Terminal \cup {"AWAITING_PROOF"}
  <2>1. ~ClaimsOutcome(view) /\ ~view.isTerminal /\ ~view.verification.given
    BY <1>1, <1>2, <1>6, <1>7, <1>10 DEF ClaimsOutcome, Terminal
  <2>2. CardTitle(view) =
          CASE view.lifecycle = "AWAITING_PROOF" /\ AwaitingProofHolds(view)
                 -> "Awaiting proof"
            [] view.lifecycle = "AWAITING_CONFIRMATION" /\ ConfirmationHolds(view)
                 -> "Confirmation required"
            [] view.lifecycle = "EXECUTING" /\ ExecutingHolds(view) -> "Action in progress"
            [] view.lifecycle = "VERIFYING" /\ VerifyingHolds(view) -> "Checking the result"
            [] OTHER -> Unavailable
    BY <1>7, <2>1 DEF CardTitle
  <2>3. CASE row.state = "AWAITING_CONFIRMATION"
    <3>1. ConfirmationHolds(view)
      BY <1>1, <1>2, <1>3, <1>4, <1>5, <2>3 DEF ConfirmationHolds, ExecutionStatus, Terminal
    <3> QED BY <1>1, <2>2, <2>3, <3>1 DEF TrueTitle, Unavailable, view
  <2>4. CASE row.state = "EXECUTING"
    <3>1. ExecutingHolds(view)
      BY <1>1, <1>2, <1>3, <1>4, <2>4 DEF ExecutingHolds, ExecutionStatus, Terminal
    <3> QED BY <1>1, <2>2, <2>4, <3>1 DEF TrueTitle, Unavailable, view
  <2>5. CASE row.state = "VERIFYING"
    <3>1. VerifyingHolds(view)
      BY <1>1, <1>2, <1>3, <2>5 DEF VerifyingHolds, ExecutionStatus, Terminal
    <3> QED BY <1>1, <2>2, <2>5, <3>1 DEF TrueTitle, Unavailable, view
  <2> QED BY <1>4, <1>10, <2>3, <2>4, <2>5 DEF States, Terminal
<1> QED BY <1>8, <1>9, <1>10

\* No step is shown as complete that was not done (renderProgress).
LEMMA ProgressWasMade ==
  ASSUME TypeOK, OutcomeInv, StagesInv, ToldInv
  PROVE  ProgressIsTrue
<1> SUFFICES ASSUME Started, NEW view \in {StatusView(row), EvidenceView(row)}
             PROVE  LET done == StepsComplete(CardTitle(view)) IN
                    /\ done >= 2 => row.attested
                    /\ done >= 3 => cancels = 1 /\ row.claim.valid
                    /\ done = 4  => row.state \in Terminal
  BY DEF ProgressIsTrue
<1> DEFINE title == CardTitle(view)
<1>1. title \in {TrueTitle(row.state), Unavailable}
  BY StatusTitle, EvidenceTitle
<1>2. row.state \in States \ {"REQUESTED"}
  BY KnownByState
<1>3. row.state \notin {"REQUESTED", "AWAITING_CONFIRMATION"} => row.attested
  BY <1>2, KnownByState DEF States, Terminal
<1>4. row.state \in Terminal \cup {"AWAITING_PROOF", "VERIFYING"} => cancels = 1 /\ row.claim.valid
  BY KnownByState DEF StagesInv
<1> DEFINE done == StepsComplete(title)
<1> HIDE DEF title
<1>5. /\ title \in {"Proof unavailable", "Confirmation required"} => done = 1
      /\ title = "Action in progress" => done = 2
      /\ title \in {"Awaiting proof", "Checking the result"} => done = 3
      /\ title \in {"Verified", "Not completed"} => done = 4
  BY DEF StepsComplete
<1> HIDE DEF done
<1>6. /\ done >= 2 => row.attested
      /\ done >= 3 => cancels = 1 /\ row.claim.valid
      /\ done = 4  => row.state \in Terminal
  <2>1. CASE title = Unavailable
    <3>1. done = 1
      BY <1>5, <2>1 DEF Unavailable
    <3> QED BY <3>1
  <2>2. CASE title = TrueTitle(row.state)
    <3>1. CASE row.state = "AWAITING_CONFIRMATION"
      <4>1. done = 1
        BY <1>5, <2>2, <3>1 DEF TrueTitle
      <4> QED BY <4>1
    <3>2. CASE row.state = "EXECUTING"
      <4>1. done = 2
        BY <1>5, <2>2, <3>2 DEF TrueTitle
      <4> QED BY <1>3, <3>2, <4>1
    <3>3. CASE row.state \in {"AWAITING_PROOF", "VERIFYING"}
      <4>1. done = 3
        BY <1>5, <2>2, <3>3 DEF TrueTitle
      <4> QED BY <1>3, <1>4, <3>3, <4>1
    <3>4. CASE row.state \in Terminal
      BY <1>3, <1>4, <3>4 DEF Terminal
    <3> QED BY <1>2, <3>1, <3>2, <3>3, <3>4 DEF States, Terminal
  <2> QED BY <1>1, <2>1, <2>2
<1> QED BY <1>6 DEF done, title

(***************************************************************************)
(* The theorems                                                            *)
(***************************************************************************)
\* Summary, next step and latest notice never contradict one another, and say
\* that the renewal is canceled only on a trusted read-back
\* (_consumer_summary, _conversation_view, attention_candidate).
THEOREM AnswersAlike == Spec => []AnswersAgree
<1>1. TypeOK /\ OutcomeInv /\ ToldInv => AnswersAgree
  BY ToldAlike
<1> QED BY <1>1, TypeCorrect, OutcomeSound, ToldAsItWas, PTL

\* Every receipt has the evidence that it says the outcome rests on
\* (_receipt_view).
THEOREM ReceiptBacked == Spec => []ReceiptIsBacked
<1>1. TypeOK /\ OutcomeInv /\ ToldInv => ReceiptIsBacked
  BY ReceiptsAreBacked
<1> QED BY <1>1, TypeCorrect, OutcomeSound, ToldAsItWas, PTL

\* The card never shows a title that is not true of the record, and shows the
\* true one wherever its own rules can derive it (mcp_app.py, deriveView).
THEOREM CardTrue == Spec => []CardTellsTheOutcome
<1>1. TypeOK /\ OutcomeInv /\ ToldInv => CardTellsTheOutcome
  BY StatusTitle, EvidenceTitle DEF CardTellsTheOutcome
<1> QED BY <1>1, TypeCorrect, OutcomeSound, ToldAsItWas, PTL

\* The card never shows a step as complete that was not done (mcp_app.py,
\* renderProgress).
THEOREM ProgressTrue == Spec => []ProgressIsTrue
<1>1. TypeOK /\ OutcomeInv /\ StagesInv /\ ToldInv => ProgressIsTrue
  BY ProgressWasMade
<1> QED BY <1>1, TypeCorrect, OutcomeSound, StagesKept, ToldAsItWas, PTL
=============================================================================
