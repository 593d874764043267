----------------------- MODULE ResolutionLedgerProofs ------------------------
(***************************************************************************)
(* What an outcome rests on, and the ledger of promises.                   *)
(*                                                                         *)
(* OutcomeInv is inductive relative to TypeOK and OwnershipInv: the stored *)
(* record and every copy are sound, and a copy that changes a follow-up or *)
(* adds a charge is, when it is stored, in the state of the store.  That   *)
(* outcomes are proven, that none is VERIFIED over a charge and that none  *)
(* leaves a follow-up pending follow.                                      *)
(*                                                                         *)
(* The service implements the ledger: every step of every session is a     *)
(* step of the ledger, or none.  LooksArePaid is inductive relative to the *)
(* invariants before: a session that is reading back has claimed its look  *)
(* in the store, a claim pays for exactly one look, and every recorded     *)
(* attempt stands for a read-back.  StagesInv says between which stored    *)
(* states a copy stands, so that a save can be told for what it is in the  *)
(* ledger.                                                                 *)
(***************************************************************************)
EXTENDS ResolutionOwnershipProofs, FiniteSetTheorems

(***************************************************************************)
(* Records that differ in what does not matter                             *)
(***************************************************************************)
\* Whether a record is paced depends on four of its fields.
LEMMA SamePace ==
  ASSUME NEW a, NEW b, Paced(a),
         b.judged = a.judged, b.checks = a.checks, b.attempts = a.attempts,
         b.nextCheck = a.nextCheck
  PROVE  Paced(b)
  BY DEF Paced, LastAttempt

\* A charge that was known stays known (the clock does not go back).
LEMMA KnownLater ==
  ASSUME NEW rec \in Record, NEW s \in Int, NEW t \in Int, s <= t, ChargesKnown(rec, s)
  PROVE  ChargesKnown(rec, t)
<1>1. rec.charges \in Seq(Charge)
  BY DEF Record
<1>2. \A i \in DOMAIN rec.charges : rec.charges[i] \in Charge
  BY <1>1
<1>3. \A i \in DOMAIN rec.charges : rec.charges[i].at \in Int
  BY <1>2 DEF Charge
<1> QED BY <1>3 DEF ChargesKnown

\* Storing a record changes nothing but its version (save_owned).
LEMMA SavedFields ==
  ASSUME NEW rec \in Record
  PROVE  /\ Saved(rec).state = rec.state /\ Saved(rec).judged = rec.judged
         /\ Saved(rec).checks = rec.checks /\ Saved(rec).attempts = rec.attempts
         /\ Saved(rec).nextCheck = rec.nextCheck /\ Saved(rec).charges = rec.charges
         /\ Saved(rec).recovery = rec.recovery /\ Saved(rec).claim = rec.claim
         /\ Saved(rec).attested = rec.attested /\ Saved(rec).deadline = rec.deadline
         /\ Saved(rec).movedAt = rec.movedAt /\ Saved(rec).updatedAt = rec.updatedAt
         /\ Saved(rec).resolvedAt = rec.resolvedAt
  BY DEF Saved, Record

\* What could be stored is valid as it is stored (validate_target_record).
LEMMA SavedIsValid ==
  ASSUME NEW rec \in Record, ValidRecord(rec)
  PROVE  ValidRecord(Saved(rec))
<1> DEFINE saved == Saved(rec)
<1>1. /\ saved.state = rec.state /\ saved.judged = rec.judged
      /\ saved.checks = rec.checks /\ saved.attempts = rec.attempts
      /\ saved.nextCheck = rec.nextCheck /\ saved.charges = rec.charges
      /\ saved.claim = rec.claim
      /\ saved.attested = rec.attested /\ saved.deadline = rec.deadline
      /\ saved.movedAt = rec.movedAt /\ saved.updatedAt = rec.updatedAt
      /\ saved.resolvedAt = rec.resolvedAt
  BY SavedFields
<1> HIDE DEF saved
<1>2. BudgetValid(saved)
  BY <1>1 DEF ValidRecord, BudgetValid
<1>3. ScheduleValid(saved)
  BY <1>1 DEF ValidRecord, ScheduleValid, LastAttempt
<1>4. AttemptsOrdered(saved)
  BY <1>1 DEF ValidRecord, AttemptsOrdered
<1>5. TimesValid(saved)
  BY <1>1 DEF ValidRecord, TimesValid, LastAttempt
<1>6. EvidenceValid(saved)
  BY <1>1 DEF ValidRecord, EvidenceValid
<1>7. VerdictReproduces(saved)
  <2>1. \A id : ChargeById(saved, id) = ChargeById(rec, id)
    BY <1>1 DEF ChargeById
  <2> QED BY <1>1, <2>1 DEF ValidRecord, VerdictReproduces, ChargeWeighed, LastAttempt
<1> QED BY <1>2, <1>3, <1>4, <1>5, <1>6, <1>7 DEF ValidRecord, saved

\* A notice leaves the state and the pace of the record alone.
LEMMA NotifyKeepsPace ==
  ASSUME NEW rec \in Record, NEW reason \in Notices \cup {None}, NEW seen, NEW at \in Int,
         NEW proposing
  PROVE  LET noted == Notify(rec, reason, seen, at, proposing) IN
         /\ noted.state = rec.state /\ noted.judged = rec.judged
         /\ noted.checks = rec.checks /\ noted.nextCheck = rec.nextCheck
<1> DEFINE noted == [rec EXCEPT !.attention = @ \cup {reason}]
           after == Notify(rec, reason, seen, at, proposing)
<1>1. /\ noted.state = rec.state /\ noted.judged = rec.judged
      /\ noted.checks = rec.checks /\ noted.nextCheck = rec.nextCheck
      /\ DOMAIN noted = DOMAIN rec
  BY DEF Record
<1>2. \/ after = rec
      \/ after = noted
      \/ after = Propose(noted, reason, at)
  BY DEF Notify
<1>3. DOMAIN rec = DOMAIN Unborn
  BY ValuesTyped DEF Record, Unborn
<1> HIDE DEF noted
<1>4. LET proposed == Propose(noted, reason, at) IN
      /\ proposed.state = noted.state /\ proposed.judged = noted.judged
      /\ proposed.checks = noted.checks /\ proposed.nextCheck = noted.nextCheck
  BY <1>1, <1>3 DEF Propose, Unborn
<1> QED BY <1>1, <1>2, <1>4 DEF noted

(***************************************************************************)
(* A judgement                                                             *)
(***************************************************************************)
\* A judgement that knows of a charge never verifies (_record_verification,
\* verify_cancellation).
LEMMA ChargesAreWeighed ==
  ASSUME NEW rec \in Record, NEW at \in Int, ChargesKnown(rec, at), rec.charges # <<>>,
         NEW receipt, NEW evidence, NEW final
  PROVE  StateFor(Verify(receipt, evidence, final, Target, ChargeToWeigh(rec, at),
                         rec.deadline, at)) # "VERIFIED"
<1> DEFINE charges == rec.charges
           known   == {i \in DOMAIN charges : charges[i].at <= at}
           latest  == {i \in known : \A j \in known : j <= i}
           charge  == ChargeToWeigh(rec, at)
<1>1. charges \in Seq(Charge) /\ charges # <<>>
  BY DEF Record
<1>2. known = DOMAIN charges
  BY DEF ChargesKnown
<1>3. charge = IF latest = {} THEN NoCharge ELSE charges[CHOOSE i \in latest : TRUE]
  BY DEF ChargeToWeigh, LatestCharge
<1> HIDE DEF charge
<1>4. Len(charges) \in latest
  <2> HIDE DEF charges
  <2> QED BY <1>1, <1>2
<1>5. (CHOOSE i \in latest : TRUE) \in DOMAIN charges
  BY <1>2, <1>4
<1>6. charge.id # None
  BY <1>3, <1>4, <1>5 DEF ChargesKnown
<1>7. charge # NoCharge
  BY <1>6 DEF NoCharge
<1>8. Verify(receipt, evidence, final, Target, charge, rec.deadline, at)
        \in {"charge_observed", "charge_uncorrelated"}
  BY <1>7 DEF Verify
<1> QED BY <1>8 DEF StateFor, VerdictOf, charge

\* What a judgement leaves in the record is sound (_record_verification).
LEMMA JudgementIsSound ==
  ASSUME NEW rec \in Record, NEW evidence \in Evidence, NEW eligible \in BOOLEAN, NEW at \in Int,
         ChargesKnown(rec, at), ~HasSupport(rec, {"EXECUTING"}),
         eligible => rec.attempts # <<>> /\ at >= DueAfter(LastAttempt(rec))
  PROVE  LET judged == RecordVerification(rec, evidence, eligible, at) IN
         /\ Paced(judged) /\ judged.charges = rec.charges /\ judged.checks = rec.checks
         /\ Len(judged.attempts) = Len(rec.attempts) + 1
         /\ judged.state \in Terminal \cup {"AWAITING_PROOF"}
         /\ ~HasSupport(judged, {"EXECUTING"})
         /\ judged.state \in Terminal => ~HasSupport(judged, {"VERIFYING"})
         /\ judged.state = "VERIFIED" => judged.charges = <<>>
<1> DEFINE charge  == ChargeToWeigh(rec, at)
           reason  == Verify(rec.claim, evidence, eligible /\ rec.checks >= MaxChecks, Target,
                             charge, rec.deadline, at)
           attempt == [at |-> at, count |-> rec.checks, eligible |-> eligible,
                       charge |-> charge.id, evidence |-> evidence, reason |-> reason]
           looked  == Judge(rec, attempt)
           moved   == Transition(looked, StateFor(reason), at)
           settling == [f \in FollowUps |-> Settle(rec.recovery[f], VerdictOf(reason))]
           settled == [moved EXCEPT !.recovery = settling]
           judged  == RecordVerification(rec, evidence, eligible, at)
<1>1. /\ attempt \in Attempt /\ attempt.at = at /\ attempt.count = rec.checks
      /\ attempt.eligible = eligible /\ attempt.reason = reason
  <2>1. charge.id \in ChargeIds \cup {None}
    BY ChargeToWeighTyped DEF Charge
  <2>2. reason \in Reasons
    BY VerifyTyped
  <2>3. rec.checks \in Nat
    BY DEF Record
  <2> HIDE DEF charge, reason
  <2> QED BY <2>1, <2>2, <2>3 DEF Attempt
<1>2. judged = Notify(settled, Notice(settled, evidence, at), evidence, at,
                      settled.state \notin Terminal)
  BY DEF RecordVerification
<1>3. StateFor(reason) = "VERIFIED" => rec.charges = <<>>
  BY ChargesAreWeighed
<1>4. StateFor(reason) \in Terminal => VerdictOf(reason) \in {"PASS", "FAIL"}
  BY DEF StateFor, Terminal
<1> HIDE DEF attempt, judged, reason
<1>5. /\ looked.attempts = Append(rec.attempts, attempt) /\ looked.charges = rec.charges
      /\ looked.judged = TRUE /\ looked.checks = rec.checks
      /\ looked.nextCheck \in {Never, at + Interval * rec.checks}
      /\ looked \in Record
  <2>1. /\ looked.attempts = Append(rec.attempts, attempt) /\ looked.charges = rec.charges
        /\ looked.judged = TRUE /\ looked.checks = rec.checks
        /\ looked.nextCheck \in {Never, attempt.at + Interval * rec.checks}
    BY DEF Judge, Record
  <2> QED BY <1>1, <2>1, JudgeTyped
<1> HIDE DEF looked
<1>6. /\ moved \in Record /\ moved.state = StateFor(reason)
      /\ moved.attempts = looked.attempts /\ moved.charges = looked.charges
      /\ moved.judged = looked.judged /\ moved.checks = looked.checks
      /\ moved.nextCheck = looked.nextCheck
  <2>1. StateFor(reason) \in States
    BY StateForTyped DEF States, Terminal
  <2>2. moved \in Record
    BY <1>5, <2>1, TransitionTyped
  <2> QED BY <1>5, <2>2 DEF Transition, Record
<1> HIDE DEF moved
<1>7. settling \in [FollowUps -> FollowUp]
  BY SettleTyped DEF Record
<1>8. \A f \in FollowUps : settling[f] = Settle(rec.recovery[f], VerdictOf(reason))
  OBVIOUS
<1> HIDE DEF settling
<1>9. /\ settled \in Record /\ settled.state = moved.state /\ settled.recovery = settling
      /\ settled.attempts = moved.attempts /\ settled.charges = moved.charges
      /\ settled.judged = moved.judged /\ settled.checks = moved.checks
      /\ settled.nextCheck = moved.nextCheck
  BY <1>6, <1>7 DEF Record
<1> HIDE DEF settled
<1>10. /\ judged.state = settled.state /\ judged.judged = settled.judged
       /\ judged.checks = settled.checks /\ judged.nextCheck = settled.nextCheck
       /\ judged.attempts = settled.attempts /\ judged.charges = settled.charges
       /\ \A f \in FollowUps :
            \/ judged.recovery[f] = settled.recovery[f]
            \/ /\ settled.recovery[f].state = "none"
               /\ judged.recovery[f].state = "AWAITING_CONFIRMATION"
  <2> DEFINE notice == Notice(settled, evidence, at)
             open   == settled.state \notin Terminal
  <2>1. judged = Notify(settled, notice, evidence, at, open) /\ notice \in Notices \cup {None}
    BY <1>2, NoticeTyped
  <2> HIDE DEF notice, open
  <2>2. settled \in Record
    BY <1>9
  <2>3. /\ judged.state = settled.state /\ judged.judged = settled.judged
        /\ judged.checks = settled.checks /\ judged.nextCheck = settled.nextCheck
    BY <2>1, <2>2, NotifyKeepsPace, SMTT(30)
  <2>4. /\ judged.attempts = settled.attempts /\ judged.charges = settled.charges
        /\ \A f \in FollowUps :
             \/ judged.recovery[f] = settled.recovery[f]
             \/ /\ settled.recovery[f].state = "none"
                /\ judged.recovery[f].state = "AWAITING_CONFIRMATION"
    BY <2>1, <2>2, NotifyKeeps, SMTT(30)
  <2> QED BY <2>3, <2>4
<1>11. /\ rec.attempts \in Seq(Attempt)
       /\ judged.attempts = Append(rec.attempts, attempt)
  BY <1>5, <1>6, <1>9, <1>10 DEF Record
<1>12. /\ Len(judged.attempts) = Len(rec.attempts) + 1 /\ judged.attempts # <<>>
       /\ LastAttempt(judged) = attempt
       /\ rec.attempts # <<>> =>
            Len(rec.attempts) > 0
              /\ judged.attempts[Len(judged.attempts) - 1] = LastAttempt(rec)
  BY <1>1, <1>11 DEF LastAttempt
<1>13. Paced(judged)
  <2>1. judged.judged /\ judged.checks = rec.checks
        /\ judged.nextCheck \in {Never, at + Interval * rec.checks}
    BY <1>5, <1>6, <1>9, <1>10
  <2>2. DueAfter(LastAttempt(judged)) = at + Interval * rec.checks
    BY <1>1, <1>12 DEF DueAfter
  <2>3. LastAttempt(judged).count = rec.checks
    BY <1>1, <1>12
  <2>4. LastAttempt(judged).eligible =>
          /\ Len(judged.attempts) > 1
          /\ LastAttempt(judged).at >= DueAfter(judged.attempts[Len(judged.attempts) - 1])
    <3>1. Len(rec.attempts) \in Nat
      BY <1>11
    <3> QED BY <1>1, <1>12, <3>1
  <2> QED BY <1>12, <2>1, <2>2, <2>3, <2>4 DEF Paced
<1>14. \A f \in FollowUps :
         /\ rec.recovery[f].state # "EXECUTING" => judged.recovery[f].state # "EXECUTING"
         /\ (rec.recovery[f].state # "EXECUTING" /\ StateFor(reason) \in Terminal) =>
              judged.recovery[f].state # "VERIFYING"
  <2> SUFFICES ASSUME NEW f \in FollowUps, rec.recovery[f].state # "EXECUTING"
               PROVE  /\ judged.recovery[f].state # "EXECUTING"
                      /\ StateFor(reason) \in Terminal => judged.recovery[f].state # "VERIFYING"
    OBVIOUS
  <2>1. rec.recovery[f] \in FollowUp
    BY DEF Record
  <2>2. /\ settling[f].state # "EXECUTING"
        /\ StateFor(reason) \in Terminal => settling[f].state # "VERIFYING"
    BY <1>4, <1>8, <2>1 DEF Settle, FollowUp
  <2> QED BY <1>9, <1>10, <2>2
<1>15. judged.state = StateFor(reason) /\ judged.charges = rec.charges
       /\ judged.checks = rec.checks
  BY <1>5, <1>6, <1>9, <1>10
<1>16. ~HasSupport(judged, {"EXECUTING"})
  BY <1>14 DEF HasSupport, Support
<1>17. judged.state \in Terminal => ~HasSupport(judged, {"VERIFYING"})
  BY <1>14, <1>15 DEF HasSupport, Support
<1>18. judged.state \in Terminal \cup {"AWAITING_PROOF"}
  BY <1>15, StateForTyped
<1> QED BY <1>3, <1>12, <1>13, <1>15, <1>16, <1>17, <1>18 DEF judged

(***************************************************************************)
(* Steps that store nothing                                                *)
(***************************************************************************)
\* A session that serves no call has a sound copy.
LEMMA IdleIsSound ==
  ASSUME NEW time
  PROVE  CopyIsSound(NoJob, time)
<1>1. /\ NoJob.pc = "idle" /\ NoJob.rec = Unborn
      /\ ~Unborn.judged /\ Unborn.nextCheck = Never /\ Unborn.charges = <<>>
  BY DEF NoJob, Unborn
<1>2. Paced(Unborn)
  BY <1>1 DEF Paced
<1>3. ChargesKnown(Unborn, time)
  BY <1>1 DEF ChargesKnown
<1> QED BY <1>1, <1>2, <1>3 DEF CopyIsSound, BeforeVerdict

\* A session whose new copy is sound, and in the state of the store where that
\* matters, leaves the others and the store as they are.
LEMMA StepKeepsOutcome ==
  ASSUME TypeOK, OutcomeInv, NEW w \in Sessions, UNCHANGED <<row, now>>,
         \A x \in Sessions \ {w} : job'[x] = job[x],
         CopyIsSound(job'[w], now),
         (job'[w].pc \in {"claim_recovery", "finish"} /\ job'[w].rec.version = row.version)
           => job'[w].rec.state = row.state
  PROVE  OutcomeInv'
<1>1. StoreIsSound'
  BY DEF OutcomeInv, StoreIsSound, SupportIsSettled, NoVerifiedWithCharge
<1>2. \A x \in Sessions : CopyIsSound(job'[x], now')
  BY DEF OutcomeInv
<1>3. FollowUpsKeepTheState'
  BY DEF OutcomeInv, FollowUpsKeepTheState, Current
<1> QED BY <1>1, <1>2, <1>3 DEF OutcomeInv

\* A call that ends leaves everything sound.
LEMMA DropKeepsOutcome ==
  ASSUME TypeOK, OutcomeInv, NEW w \in Sessions, job' = [job EXCEPT ![w] = NoJob],
         UNCHANGED <<row, now>>
  PROVE  OutcomeInv'
<1>1. job'[w] = NoJob /\ \A x \in Sessions \ {w} : job'[x] = job[x]
  BY DEF TypeOK
<1>2. NoJob.pc = "idle"
  BY DEF NoJob
<1> QED BY <1>1, <1>2, IdleIsSound, StepKeepsOutcome

\* A change of state leaves the pace of a record alone (_transition).
LEMMA TransitionKeepsPace ==
  ASSUME NEW rec \in Record, NEW next, NEW at
  PROVE  LET moved == Transition(rec, next, at) IN
         /\ moved.judged = rec.judged /\ moved.checks = rec.checks
         /\ moved.nextCheck = rec.nextCheck
  BY DEF Transition, Record

\* Which evidence the store has in which state (validate_target_record).
LEMMA EvidenceByState ==
  ASSUME StoreIsSound
  PROVE  /\ row.state \in {"AWAITING_CONFIRMATION", "VERIFYING"} => ~row.judged
         /\ row.state \in Terminal => row.attested /\ row.claim.valid /\ row.judged
<1>1. row.state # "REQUESTED" => EvidenceValid(row)
  BY DEF StoreIsSound, ValidRecord
<1>2. CASE row.state \in {"AWAITING_CONFIRMATION", "VERIFYING"}
  BY <1>1, <1>2 DEF EvidenceValid, Terminal
<1>3. CASE row.state \in Terminal
  BY <1>1, <1>3 DEF EvidenceValid, Terminal
<1> QED BY <1>2, <1>3 DEF Terminal

\* The claim of the cancellation is prepared on a record without a verdict
\* (confirm_resolution_action).
LEMMA LoadConfirmKeepsOutcome ==
  ASSUME TypeOK, OutcomeInv, NEW w \in Sessions, LoadConfirm(w)
  PROVE  OutcomeInv'
<1> DEFINE attested == [row EXCEPT !.attested = TRUE]
           moved    == Transition(attested, "EXECUTING", now)
           begun    == [NoJob EXCEPT !.pc = "claim_execution", !.rec = moved, !.at = Never]
<1>1. /\ row \in Record /\ row.state = "AWAITING_CONFIRMATION" /\ UNCHANGED <<row, now>>
  BY DEF TypeOK, LoadConfirm
<1>2. /\ attested \in Record
      /\ attested.attempts = row.attempts /\ attested.charges = row.charges
      /\ attested.recovery = row.recovery /\ attested.judged = row.judged
      /\ attested.checks = row.checks /\ attested.nextCheck = row.nextCheck
  BY <1>1 DEF Record
<1>3. job' = [job EXCEPT ![w] = begun]
  BY DEF LoadConfirm, Begin
<1> HIDE DEF attested
<1>4. /\ moved.state = "EXECUTING"
      /\ moved.attempts = row.attempts /\ moved.charges = row.charges
      /\ moved.recovery = row.recovery /\ moved.judged = row.judged
      /\ moved.checks = row.checks /\ moved.nextCheck = row.nextCheck
  BY <1>2, TransitionKeeps, TransitionKeepsPace
<1> HIDE DEF moved
<1>5. /\ begun.pc = "claim_execution" /\ begun.rec = moved
      /\ begun.at = Never /\ begun.eligible = FALSE
  BY DEF NoJob
<1> HIDE DEF begun
<1>6. /\ Paced(row) /\ ChargesKnown(row, now) /\ ~HasSupport(row, {"EXECUTING"})
      /\ ~row.judged
  BY <1>1, EvidenceByState DEF OutcomeInv, StoreIsSound
<1>7. Paced(moved) /\ ChargesKnown(moved, now) /\ ~HasSupport(moved, {"EXECUTING"})
  BY <1>4, <1>6, SamePace DEF ChargesKnown, HasSupport
<1>8. CopyIsSound(begun, now)
  BY <1>4, <1>5, <1>6, <1>7 DEF CopyIsSound
<1>9. job'[w] = begun /\ \A x \in Sessions \ {w} : job'[x] = job[x]
  BY <1>3 DEF TypeOK
<1> QED BY <1>1, <1>5, <1>8, <1>9, StepKeepsOutcome

\* The claim of a look is prepared while no follow-up is being executed; it may
\* close the window only when it is due (recheck_resolution).
LEMMA LoadRecheckKeepsOutcome ==
  ASSUME TypeOK, OutcomeInv, NEW w \in Sessions, LoadRecheck(w)
  PROVE  OutcomeInv'
<1> DEFINE checks  == row.checks + 1
           claimed == [row EXCEPT !.checks = checks]
           cleared == IF row.state = "AWAITING_PROOF"
                      THEN [claimed EXCEPT !.nextCheck = Never, !.judged = FALSE]
                      ELSE claimed
           moved   == Transition(cleared, "VERIFYING", now)
           begun   == [NoJob EXCEPT !.pc = "claim_check", !.at = now,
                                    !.eligible = MayCloseWindow, !.rec = moved]
<1>1. job' = [job EXCEPT ![w] = begun]
  BY DEF LoadRecheck
<1>2. /\ row \in Record /\ checks \in Nat /\ now \in Int /\ now # Never
      /\ UNCHANGED <<row, now>> /\ row.state \in {"VERIFYING", "AWAITING_PROOF"}
      /\ \A f \in FollowUps : row.recovery[f].state # "EXECUTING"
  <2>1. now \in Int /\ now # Never
    BY TimeAssumption DEF TypeOK, Never
  <2>2. row \in Record /\ row.checks \in Nat
    BY DEF TypeOK, Record
  <2>3. /\ UNCHANGED <<row, now>> /\ row.state \in {"VERIFYING", "AWAITING_PROOF"}
        /\ \A f \in FollowUps : row.recovery[f].state # "EXECUTING"
    BY DEF LoadRecheck, MayRecheck
  <2> QED BY <2>1, <2>2, <2>3
<1> HIDE DEF checks
<1>3. /\ claimed \in Record
      /\ claimed.attempts = row.attempts /\ claimed.charges = row.charges
      /\ claimed.recovery = row.recovery /\ claimed.judged = row.judged
      /\ claimed.nextCheck = row.nextCheck
  BY <1>2 DEF Record
<1> HIDE DEF claimed
<1>4. Paced(row) /\ ChargesKnown(row, now)
  BY DEF OutcomeInv, StoreIsSound
<1>5. row.state = "VERIFYING" => ~row.judged /\ row.nextCheck = Never
  BY <1>4, EvidenceByState DEF OutcomeInv, Paced
<1>6. /\ cleared \in Record
      /\ cleared.attempts = row.attempts /\ cleared.charges = row.charges
      /\ cleared.recovery = row.recovery /\ ~cleared.judged
      /\ cleared.nextCheck = Never
  BY <1>2, <1>3, <1>5, ValuesTyped DEF Record
<1> HIDE DEF cleared
<1>7. /\ moved.state = "VERIFYING"
      /\ moved.attempts = row.attempts /\ moved.charges = row.charges
      /\ moved.recovery = row.recovery /\ ~moved.judged
      /\ moved.nextCheck = Never
  BY <1>6, TransitionKeeps, TransitionKeepsPace
<1> HIDE DEF moved
<1>8. /\ begun.pc = "claim_check" /\ begun.rec = moved
      /\ begun.at = now /\ begun.eligible = MayCloseWindow
  BY DEF NoJob
<1> HIDE DEF begun
<1>9. /\ Paced(moved) /\ ChargesKnown(moved, now) /\ ~HasSupport(moved, {"EXECUTING"})
  BY <1>2, <1>4, <1>7 DEF Paced, ChargesKnown, HasSupport, Support
<1>10. MayCloseWindow => row.attempts # <<>> /\ now >= DueAfter(LastAttempt(row))
  BY <1>4 DEF MayCloseWindow, Paced
<1>11. LastAttempt(moved) = LastAttempt(row)
  BY <1>7 DEF LastAttempt
<1>12. CopyIsSound(begun, now)
  BY <1>2, <1>7, <1>8, <1>9, <1>10, <1>11 DEF CopyIsSound
<1>13. job'[w] = begun /\ \A x \in Sessions \ {w} : job'[x] = job[x]
  BY <1>1 DEF TypeOK
<1> QED BY <1>2, <1>8, <1>12, <1>13, StepKeepsOutcome

\* A change of one follow-up leaves the pace, the charges and the state alone.
LEMMA SetFollowUpKeepsPace ==
  ASSUME NEW rec \in Record, NEW f, NEW state, NEW at
  PROVE  LET after == SetFollowUp(rec, f, state, at) IN
         /\ after.state = rec.state /\ after.version = rec.version
         /\ after.judged = rec.judged /\ after.checks = rec.checks
         /\ after.attempts = rec.attempts /\ after.nextCheck = rec.nextCheck
         /\ after.charges = rec.charges
         /\ \A g \in FollowUps :
              \/ after.recovery[g].state = rec.recovery[g].state
              \/ g = f /\ after.recovery[g].state = state
  BY DEF SetFollowUp, Record, FollowUp

\* A changed follow-up is prepared on the record as it is stored; only a support
\* follow-up of a record that awaits proof is claimed (confirm_recovery_action).
LEMMA FollowUpChangeIsSound ==
  ASSUME TypeOK, OutcomeInv, NEW f, NEW state \in FollowUpStates, NEW at, NEW j,
         j.rec = SetFollowUp(row, f, state, at), j.pc \in {"claim_recovery", "finish"},
         (state = "EXECUTING" /\ f \in Support) => row.state = "AWAITING_PROOF"
  PROVE  CopyIsSound(j, now) /\ j.rec.state = row.state
<1> DEFINE after == SetFollowUp(row, f, state, at)
<1>1. row \in Record
  BY DEF TypeOK
<1>2. /\ after.state = row.state
      /\ after.judged = row.judged /\ after.checks = row.checks
      /\ after.attempts = row.attempts /\ after.nextCheck = row.nextCheck
      /\ after.charges = row.charges
      /\ \A g \in FollowUps :
           \/ after.recovery[g].state = row.recovery[g].state
           \/ g = f /\ after.recovery[g].state = state
  BY <1>1, SetFollowUpKeepsPace
<1>3. j.rec = after
  OBVIOUS
<1> HIDE DEF after
<1>4. /\ Paced(row) /\ ChargesKnown(row, now)
      /\ HasSupport(row, {"EXECUTING"}) => row.state = "AWAITING_PROOF"
  BY DEF OutcomeInv, StoreIsSound
<1>5. Paced(after) /\ ChargesKnown(after, now)
  BY <1>2, <1>4, SamePace DEF ChargesKnown
<1>6. HasSupport(after, {"EXECUTING"}) => row.state = "AWAITING_PROOF"
  BY <1>2, <1>4 DEF HasSupport, Support
<1> QED BY <1>2, <1>3, <1>5, <1>6 DEF CopyIsSound, BeforeVerdict

\* Preparing to close a proposal, expired or declined (confirm_recovery_action).
LEMMA AnswerKeepsOutcome ==
  ASSUME TypeOK, OutcomeInv, NEW w \in Sessions, NEW f \in FollowUps, NEW at \in RecentTimes,
         NEW state \in {"EXPIRED", "DECLINED"},
         LoadRecovery(w, f, at), Begin(w, "finish", SetFollowUp(row, f, state, at), Never)
  PROVE  OutcomeInv'
<1> DEFINE after == SetFollowUp(row, f, state, at)
           begun == [NoJob EXCEPT !.pc = "finish", !.rec = after, !.at = Never]
<1>1. job' = [job EXCEPT ![w] = begun]
  BY DEF Begin
<1>2. begun.pc = "finish" /\ begun.rec = SetFollowUp(row, f, state, at)
  BY DEF NoJob
<1> HIDE DEF begun
<1>3. CopyIsSound(begun, now) /\ begun.rec.state = row.state
  BY <1>2, FollowUpChangeIsSound, ZenonT(30) DEF FollowUpStates
<1>4. job'[w] = begun /\ \A x \in Sessions \ {w} : job'[x] = job[x]
  BY <1>1 DEF TypeOK
<1>5. UNCHANGED <<row, now>>
  BY DEF LoadRecovery
<1> QED BY <1>3, <1>4, <1>5, StepKeepsOutcome

\* Preparing the claim of a follow-up (confirm_recovery_action).
LEMMA AcceptRecoveryKeepsOutcome ==
  ASSUME TypeOK, OutcomeInv, NEW w \in Sessions, AcceptRecovery(w)
  PROVE  OutcomeInv'
<1>1. PICK f \in FollowUps, at \in RecentTimes :
        /\ LoadRecovery(w, f, at) /\ MayFollowUp(row, f)
        /\ job' = [job EXCEPT ![w] =
                     [NoJob EXCEPT !.pc = "claim_recovery", !.at = at, !.item = f,
                                   !.rec = SetFollowUp(row, f, "EXECUTING", at)]]
  BY DEF AcceptRecovery
<1> DEFINE after == SetFollowUp(row, f, "EXECUTING", at)
           begun == [NoJob EXCEPT !.pc = "claim_recovery", !.at = at, !.item = f, !.rec = after]
<1>2. job' = [job EXCEPT ![w] = begun]
  BY <1>1
<1>3. begun.pc = "claim_recovery" /\ begun.rec = SetFollowUp(row, f, "EXECUTING", at)
  BY DEF NoJob
<1> HIDE DEF begun
<1>4. f \in Support => row.state = "AWAITING_PROOF"
  BY <1>1 DEF MayFollowUp, IsRefund, Support
<1>5. CopyIsSound(begun, now) /\ begun.rec.state = row.state
  BY <1>3, <1>4, FollowUpChangeIsSound DEF FollowUpStates
<1>6. job'[w] = begun /\ \A x \in Sessions \ {w} : job'[x] = job[x]
  BY <1>2 DEF TypeOK
<1>7. UNCHANGED <<row, now>>
  BY <1>1 DEF LoadRecovery
<1> QED BY <1>5, <1>6, <1>7, StepKeepsOutcome

\* The result of a follow-up is prepared on a fresh copy (confirm_recovery_action).
LEMMA ReloadRecoveryKeepsOutcome ==
  ASSUME TypeOK, OutcomeInv, NEW w \in Sessions, ReloadRecovery(w)
  PROVE  OutcomeInv'
<1> DEFINE f      == job[w].item
           result == IF ~job[w].succeeded THEN "FAILED"
                     ELSE IF IsRefund(job[w].rec, f) THEN "COMPLETED" ELSE "VERIFYING"
           after  == SetFollowUp(row, f, result, job[w].at)
<1>1. \/ job' = [job EXCEPT ![w] = NoJob]
      \/ job' = [job EXCEPT ![w].pc = "finish", ![w].rec = after]
  BY DEF ReloadRecovery
<1>2. UNCHANGED <<row, now>>
  BY DEF ReloadRecovery
<1>3. CASE job' = [job EXCEPT ![w] = NoJob]
  BY <1>2, <1>3, DropKeepsOutcome
<1>4. CASE job' = [job EXCEPT ![w].pc = "finish", ![w].rec = after]
  <2>1. result \in FollowUpStates /\ result # "EXECUTING"
    BY DEF FollowUpStates
  <2> HIDE DEF result
  <2>2. /\ job'[w].pc = "finish" /\ job'[w].rec = after
        /\ \A x \in Sessions \ {w} : job'[x] = job[x]
    BY <1>4 DEF TypeOK, Job
  <2>3. CopyIsSound(job'[w], now) /\ job'[w].rec.state = row.state
    <3> DEFINE j == job'[w]
    <3>1. j.rec = SetFollowUp(row, f, result, job[w].at) /\ j.pc \in {"claim_recovery", "finish"}
      BY <2>2
    <3> HIDE DEF j, f
    <3>2. CopyIsSound(j, now) /\ j.rec.state = row.state
      BY <2>1, <3>1, FollowUpChangeIsSound, ZenonT(30)
    <3> QED BY <3>2 DEF j
  <2> QED BY <1>2, <2>2, <2>3, StepKeepsOutcome
<1> QED BY <1>1, <1>3, <1>4

\* An observed charge is prepared on the record as it is stored; it has an
\* identifier, and is not from the future (record_outcome_violation).
LEMMA LoadChargeKeepsOutcome ==
  ASSUME TypeOK, OutcomeInv, NEW w \in Sessions, LoadCharge(w)
  PROVE  OutcomeInv'
<1>1. PICK charge \in Charges, at \in RecentTimes :
        LET noted == [row EXCEPT !.charges = Append(@, charge), !.updatedAt = at]
        IN Begin(w, "finish",
                 Notify(noted, Notice(noted, Unreadable, at), Unreadable, at, TRUE), Never)
  BY DEF LoadCharge
<1> DEFINE charges == Append(row.charges, charge)
           noted   == [row EXCEPT !.charges = charges, !.updatedAt = at]
           notice  == Notice(noted, Unreadable, at)
           noticed == Notify(noted, notice, Unreadable, at, TRUE)
           begun   == [NoJob EXCEPT !.pc = "finish", !.rec = noticed, !.at = Never]
<1>2. charge \in Charge /\ charge.at <= now /\ charge.id # None
  BY TimeAssumption, ChargeIdsAssumption DEF Charges, Charge, Digests, TypeOK
<1>3. at \in Int /\ row \in Record /\ row.charges \in Seq(Charge)
  BY RecentTimesTyped DEF TypeOK, Record
<1>4. /\ Paced(row) /\ ChargesKnown(row, now)
      /\ HasSupport(row, {"EXECUTING"}) => row.state = "AWAITING_PROOF"
  BY DEF OutcomeInv, StoreIsSound
<1>5. /\ charges \in Seq(Charge)
      /\ \A i \in DOMAIN charges : charges[i].id # None /\ charges[i].at <= now
  BY <1>2, <1>3, <1>4 DEF ChargesKnown
<1>6. job' = [job EXCEPT ![w] = begun]
  BY <1>1 DEF Begin
<1> HIDE DEF charges
<1>7. /\ noted \in Record /\ noted.charges = charges /\ noted.recovery = row.recovery
      /\ noted.state = row.state /\ noted.judged = row.judged
      /\ noted.checks = row.checks /\ noted.nextCheck = row.nextCheck
      /\ noted.attempts = row.attempts
  BY <1>3, <1>5 DEF Record
<1> HIDE DEF noted
<1>8. notice \in Notices \cup {None}
  BY NoticeTyped
<1> DEFINE proposing == TRUE
<1>9. noticed = Notify(noted, notice, Unreadable, at, proposing)
  OBVIOUS
<1> HIDE DEF notice, noticed, proposing
<1>10. /\ noticed.state = noted.state /\ noticed.judged = noted.judged
       /\ noticed.checks = noted.checks /\ noticed.nextCheck = noted.nextCheck
  BY <1>3, <1>7, <1>8, <1>9, NotifyKeepsPace, SMTT(30)
<1>11. /\ noticed.attempts = noted.attempts /\ noticed.charges = noted.charges
       /\ \A f \in FollowUps :
            \/ noticed.recovery[f] = noted.recovery[f]
            \/ /\ noted.recovery[f].state = "none"
               /\ noticed.recovery[f].state = "AWAITING_CONFIRMATION"
  <2>1. noted \in Record /\ at \in Int
    BY <1>3, <1>7
  <2>2. noticed = Notify(noted, notice, Unreadable, at, proposing)
    BY <1>9
  <2>3. notice \in Notices \cup {None}
    BY <1>8
  <2> QED BY <2>1, <2>2, <2>3, NotifyKeeps, SMTT(30)
<1>12. Paced(noticed)
  BY <1>4, <1>7, <1>10, <1>11, SamePace
<1>13. ChargesKnown(noticed, now)
  BY <1>5, <1>7, <1>11 DEF ChargesKnown
<1>14. HasSupport(noticed, {"EXECUTING"}) => HasSupport(row, {"EXECUTING"})
  BY <1>7, <1>11 DEF HasSupport, Support
<1>15. begun.pc = "finish" /\ begun.rec = noticed
  BY DEF NoJob
<1> HIDE DEF begun
<1>16. CopyIsSound(begun, now) /\ begun.rec.state = row.state
  BY <1>4, <1>7, <1>10, <1>12, <1>13, <1>14, <1>15 DEF CopyIsSound, BeforeVerdict
<1>17. job'[w] = begun /\ \A x \in Sessions \ {w} : job'[x] = job[x]
  BY <1>6 DEF TypeOK
<1>18. UNCHANGED <<row, now>>
  BY DEF LoadCharge
<1> QED BY <1>16, <1>17, <1>18, StepKeepsOutcome

\* The provider's answer is noted on the copy whose claim was saved; it has no
\* verdict yet (confirm_resolution_action).
LEMMA ExecuteKeepsOutcome ==
  ASSUME TypeOK, OutcomeInv, NEW w \in Sessions, Execute(w)
  PROVE  OutcomeInv'
<1>1. /\ job[w] \in Job /\ job[w].rec \in Record /\ job[w].rec.checks \in Nat
      /\ job[w].pc = "execute" /\ UNCHANGED <<row, now>>
  BY DEF TypeOK, Job, Execute, Record
<1>2. PICK receipt \in ProviderReceipts :
        job' = [job EXCEPT
                  ![w].pc  = "record_claim",
                  ![w].rec = Transition([job[w].rec EXCEPT !.claim = Accepted(receipt),
                                                           !.checks = @ + 1],
                                        "VERIFYING", now)]
  BY DEF Execute
<1> DEFINE rec      == job[w].rec
           accepted == Accepted(receipt)
           checks   == rec.checks + 1
           claimed  == [rec EXCEPT !.claim = accepted, !.checks = checks]
           moved    == Transition(claimed, "VERIFYING", now)
<1>3. accepted \in Receipt
  BY AcceptedTyped, ProviderAssumption
<1>4. job' = [job EXCEPT ![w].pc = "record_claim", ![w].rec = moved]
  BY <1>2
<1>5. checks \in Nat
  BY <1>1
<1> HIDE DEF accepted, checks
<1>6. /\ claimed \in Record
      /\ claimed.attempts = rec.attempts /\ claimed.charges = rec.charges
      /\ claimed.recovery = rec.recovery /\ claimed.judged = rec.judged
      /\ claimed.nextCheck = rec.nextCheck
  BY <1>1, <1>3, <1>5 DEF Record
<1> HIDE DEF claimed
<1>7. /\ moved.state = "VERIFYING"
      /\ moved.attempts = rec.attempts /\ moved.charges = rec.charges
      /\ moved.recovery = rec.recovery /\ moved.judged = rec.judged
      /\ moved.nextCheck = rec.nextCheck
  BY <1>6, TransitionKeeps, TransitionKeepsPace
<1> HIDE DEF moved
<1>8. /\ job'[w].pc = "record_claim" /\ job'[w].rec = moved
      /\ job'[w].at = job[w].at /\ job'[w].eligible = job[w].eligible
      /\ \A x \in Sessions \ {w} : job'[x] = job[x]
  BY <1>1, <1>4 DEF TypeOK, Job
<1> DEFINE j == job[w]
           k == job'[w]
<1>9. CopyIsSound(j, now) /\ j.pc = "execute"
  BY <1>1 DEF OutcomeInv
<1>10. /\ k.pc = "record_claim" /\ k.rec = moved /\ k.at = j.at /\ k.eligible = j.eligible
       /\ moved.attempts = j.rec.attempts /\ moved.charges = j.rec.charges
       /\ moved.recovery = j.rec.recovery /\ moved.judged = j.rec.judged
       /\ moved.nextCheck = j.rec.nextCheck
  BY <1>7, <1>8
<1> HIDE DEF j, k, rec
<1>11. CopyIsSound(k, now)
  <2>1. Paced(moved) /\ ~moved.judged
    BY <1>9, <1>10 DEF CopyIsSound, Paced
  <2>2. \A time : ChargesKnown(j.rec, time) => ChargesKnown(moved, time)
    BY <1>10 DEF ChargesKnown
  <2>3. \A states : HasSupport(moved, states) => HasSupport(j.rec, states)
    BY <1>10 DEF HasSupport
  <2>4. LastAttempt(moved) = LastAttempt(j.rec)
    BY <1>10 DEF LastAttempt
  <2> QED BY <1>7, <1>9, <1>10, <2>1, <2>2, <2>3, <2>4 DEF CopyIsSound, BeforeVerdict
<1> QED BY <1>1, <1>8, <1>11, StepKeepsOutcome DEF k

\* A look and its judgement leave a sound copy (_collect_independent_evidence,
\* _record_verification).
LEMMA ReadBackKeepsOutcome ==
  ASSUME TypeOK, OutcomeInv, NEW w \in Sessions, ReadBack(w)
  PROVE  OutcomeInv'
<1>1. /\ job[w] \in Job /\ job[w].rec \in Record
      /\ job[w].at \in Int /\ job[w].eligible \in BOOLEAN
      /\ job[w].pc = "read_back" /\ UNCHANGED <<row, now>>
  BY DEF TypeOK, Job, ReadBack
<1> DEFINE at  == IF job[w].at = Never THEN now ELSE job[w].at
           rec == job[w].rec
<1>2. PICK evidence \in ProviderEvidence :
        job' = [job EXCEPT
                  ![w].pc  = "conclude",
                  ![w].rec = RecordVerification(job[w].rec, Collected(evidence),
                                                job[w].eligible, at)]
  BY DEF ReadBack
<1>3. at \in Int
  BY <1>1, TimeAssumption DEF TypeOK
<1>4. Collected(evidence) \in Evidence
  BY CollectedTyped, ProviderAssumption
<1>5. CopyIsSound(job[w], now)
  BY DEF OutcomeInv
<1>6. /\ ChargesKnown(rec, at) /\ ~HasSupport(rec, {"EXECUTING"})
      /\ job[w].eligible => rec.attempts # <<>> /\ at >= DueAfter(LastAttempt(rec))
      /\ ChargesKnown(rec, now)
  BY <1>1, <1>5 DEF CopyIsSound, BeforeVerdict
<1> HIDE DEF at
<1> DEFINE judged == RecordVerification(rec, Collected(evidence), job[w].eligible, at)
<1>7. job' = [job EXCEPT ![w].pc = "conclude", ![w].rec = judged]
  BY <1>2
<1>8. /\ Paced(judged) /\ judged.charges = rec.charges
      /\ ~HasSupport(judged, {"EXECUTING"})
      /\ judged.state \in Terminal => ~HasSupport(judged, {"VERIFYING"})
      /\ judged.state = "VERIFIED" => judged.charges = <<>>
  BY <1>1, <1>3, <1>4, <1>6, JudgementIsSound
<1> HIDE DEF judged
<1>9. /\ job'[w].pc = "conclude" /\ job'[w].rec = judged
      /\ \A x \in Sessions \ {w} : job'[x] = job[x]
  BY <1>1, <1>7 DEF TypeOK, Job
<1>10. ChargesKnown(judged, now)
  BY <1>6, <1>8 DEF ChargesKnown
<1>11. CopyIsSound(job'[w], now)
  <2> DEFINE k == job'[w]
  <2>1. k.pc = "conclude" /\ k.rec = judged
    BY <1>9
  <2> HIDE DEF k
  <2>2. CopyIsSound(k, now)
    BY <1>8, <1>10, <2>1 DEF CopyIsSound, BeforeVerdict
  <2> QED BY <2>2 DEF k
<1> QED BY <1>1, <1>9, <1>11, StepKeepsOutcome

\* The call of the recovery provider changes no record.
LEMMA CallRecoveryKeepsOutcome ==
  ASSUME TypeOK, OutcomeInv, NEW w \in Sessions, CallRecovery(w)
  PROVE  OutcomeInv'
<1>1. job[w] \in Job /\ UNCHANGED <<row, now>>
  BY DEF TypeOK, CallRecovery
<1>2. PICK succeeded \in BOOLEAN :
        job' = [job EXCEPT ![w].pc = "reload", ![w].succeeded = succeeded]
  BY DEF CallRecovery
<1>3. /\ job'[w].pc = "reload" /\ job'[w].rec = job[w].rec
      /\ \A x \in Sessions \ {w} : job'[x] = job[x]
  BY <1>1, <1>2 DEF TypeOK, Job
<1>4. Paced(job[w].rec) /\ ChargesKnown(job[w].rec, now)
  BY DEF OutcomeInv, CopyIsSound
<1>5. CopyIsSound(job'[w], now)
  BY <1>3, <1>4 DEF CopyIsSound, BeforeVerdict
<1> QED BY <1>1, <1>3, <1>5, StepKeepsOutcome

(***************************************************************************)
(* Saving                                                                  *)
(***************************************************************************)
\* A save that goes through stores a sound record: a verdict is what its look
\* left, and any other change is made to an open record (save_owned).
LEMMA SaveKeepsOutcome ==
  ASSUME TypeOK, OwnershipInv, OutcomeInv, NEW w \in Sessions,
         NEW from \in SavePoints, NEW to \in {"idle", "execute", "read_back", "call_recovery"},
         from = "claim_execution" <=> to = "execute",
         from = "claim_recovery" <=> to = "call_recovery",
         from \in {"record_claim", "claim_check"} <=> to = "read_back",
         Save(w, from, to)
  PROVE  OutcomeInv'
<1> DEFINE rec   == job[w].rec
           saved == Saved(rec)
<1>1. /\ job[w] \in Job /\ rec \in Record /\ job[w].pc = from
      /\ row \in Record /\ UNCHANGED now /\ row' = saved
  BY DEF TypeOK, Job, Save
<1>2. /\ row.state \notin Terminal /\ rec.version = row.version /\ ValidRecord(rec)
  BY DEF Save, CanSave, Open, SameVersion
<1>3. /\ saved.version = rec.version + 1 /\ rec.version \in Nat
      /\ saved.state = rec.state /\ saved.judged = rec.judged
      /\ saved.checks = rec.checks /\ saved.attempts = rec.attempts
      /\ saved.nextCheck = rec.nextCheck /\ saved.charges = rec.charges
      /\ saved.recovery = rec.recovery
  BY <1>1, SavedFields, SavedKeeps DEF Record
<1>4. ValidRecord(saved)
  BY <1>1, <1>2, SavedIsValid
<1>5. CopyIsSound(job[w], now)
  BY DEF OutcomeInv
<1>6. from \in {"claim_recovery", "finish"} => rec.state = row.state
  BY <1>1, <1>2 DEF OutcomeInv, FollowUpsKeepTheState, Current
<1> HIDE DEF rec, saved
<1>7. /\ \A time : ChargesKnown(rec, time) => ChargesKnown(saved, time)
      /\ \A states : HasSupport(saved, states) <=> HasSupport(rec, states)
      /\ LastAttempt(saved) = LastAttempt(rec)
  BY <1>3 DEF ChargesKnown, HasSupport, LastAttempt
<1>8. Paced(saved) /\ ChargesKnown(saved, now)
  <2>1. Paced(rec) /\ ChargesKnown(rec, now)
    BY <1>5 DEF CopyIsSound, rec
  <2> QED BY <1>3, <1>7, <2>1, SamePace
<1>9. /\ HasSupport(rec, {"EXECUTING"}) => rec.state = "AWAITING_PROOF"
      /\ rec.state \in Terminal => ~HasSupport(rec, {"VERIFYING"})
      /\ rec.state = "VERIFIED" => rec.charges = <<>>
  <2>1. CASE from \in {"claim_recovery", "finish"}
    BY <1>1, <1>2, <1>5, <1>6, <2>1 DEF CopyIsSound, rec, Terminal
  <2>2. CASE from = "conclude"
    BY <1>1, <1>5, <2>2 DEF CopyIsSound, rec
  <2>3. CASE from \in {"claim_execution", "record_claim", "claim_check"}
    BY <1>1, <1>5, <2>3 DEF CopyIsSound, rec, Terminal, BeforeVerdict
  <2> QED BY <2>1, <2>2, <2>3 DEF SavePoints
<1>10. StoreIsSound'
  <2>1. SupportIsSettled'
    <3>1. saved.state \in Terminal =>
            ~HasSupport(saved, {"EXECUTING"}) /\ ~HasSupport(saved, {"VERIFYING"})
      BY <1>3, <1>7, <1>9 DEF Terminal
    <3> QED BY <1>1, <3>1 DEF SupportIsSettled, HasSupport, Support
  <2>2. NoVerifiedWithCharge'
    BY <1>1, <1>3, <1>9 DEF NoVerifiedWithCharge
  <2> QED BY <1>1, <1>3, <1>4, <1>7, <1>8, <1>9, <2>1, <2>2 DEF StoreIsSound
<1>11. /\ \A x \in Sessions \ {w} : job'[x] = job[x]
       /\ IF to = "idle" THEN job'[w] = NoJob
          ELSE /\ job'[w].pc = to /\ job'[w].rec = saved
               /\ job'[w].at = job[w].at /\ job'[w].eligible = job[w].eligible
  BY <1>1 DEF TypeOK, Job, Save, rec, saved
<1>12. CopyIsSound(job'[w], now)
  <2>1. CASE to = "idle"
    BY <1>11, <2>1, IdleIsSound
  <2>2. CASE to # "idle"
    <3> DEFINE j == job[w]
               k == job'[w]
    <3>1. /\ k.pc = to /\ k.rec = saved /\ k.at = j.at /\ k.eligible = j.eligible
          /\ j.pc = from /\ j.rec = rec /\ CopyIsSound(j, now)
      BY <1>1, <1>5, <1>11, <2>2 DEF rec
    <3> HIDE DEF j, k
    <3>2. Paced(k.rec) /\ ChargesKnown(k.rec, now)
      BY <1>8, <3>1
    <3>3. ASSUME to \in {"execute", "read_back"} PROVE CopyIsSound(k, now)
      <4>1. /\ j.pc \in BeforeVerdict /\ k.pc \in BeforeVerdict
            /\ j.pc = "claim_execution" <=> k.pc = "execute"
        BY <3>1, <3>3 DEF BeforeVerdict
      <4>2. k.pc = "execute" => k.rec.state = "EXECUTING" /\ ~k.rec.judged
        BY <1>3, <3>1, <4>1 DEF CopyIsSound
      <4>3. /\ ~HasSupport(k.rec, {"EXECUTING"})
            /\ k.at # Never => ChargesKnown(k.rec, k.at)
            /\ k.eligible => /\ k.at # Never /\ k.rec.attempts # <<>>
                             /\ k.at >= DueAfter(LastAttempt(k.rec))
        BY <1>3, <1>7, <3>1, <4>1 DEF CopyIsSound
      <4> QED BY <3>1, <3>2, <3>3, <4>2, <4>3 DEF CopyIsSound
    <3>4. ASSUME to = "call_recovery" PROVE CopyIsSound(k, now)
      BY <3>1, <3>2, <3>4 DEF CopyIsSound, BeforeVerdict
    <3>5. CopyIsSound(k, now)
      BY <2>2, <3>3, <3>4
    <3> QED BY <3>5 DEF k
  <2> QED BY <2>1, <2>2
<1>13. FollowUpsKeepTheState'
  <2>1. \A x \in Sessions \ {w} : job[x].pc # "idle" => job[x].rec.version <= row.version
    BY DEF OwnershipInv, CopiesFollowTheStore
  <2>2. \A x \in Sessions \ {w} : job[x].rec.version \in Nat
    BY DEF TypeOK, Job, Record
  <2>3. job'[w].pc \notin {"claim_recovery", "finish"}
    BY <1>11 DEF NoJob
  <2>4. \A x \in Sessions \ {w} :
          job[x].pc \in {"claim_recovery", "finish"} => job[x].rec.version # row'.version
    BY <1>1, <1>2, <1>3, <2>1, <2>2
  <2> QED BY <1>11, <2>3, <2>4 DEF FollowUpsKeepTheState, Current
<1> QED BY <1>1, <1>10, <1>11, <1>12, <1>13 DEF OutcomeInv

(***************************************************************************)
(* The other steps                                                         *)
(***************************************************************************)
\* A record that was just created is sound (start_resolution).
LEMMA StartKeepsOutcome ==
  ASSUME TypeOK, OwnershipInv, OutcomeInv, Start
  PROVE  OutcomeInv'
<1>1. PICK contract \in Contracts :
        row' = Transition([Unborn EXCEPT !.deadline = contract.deadline,
                                         !.tracksCharges = contract.tracksCharges],
                          "AWAITING_CONFIRMATION", now)
  BY DEF Start
<1>2. /\ row.state = "REQUESTED" /\ UNCHANGED <<job, now>>
      /\ \A w \in Sessions : job[w] = NoJob
  BY DEF Start, OwnershipInv, NothingBeforeStart
<1>3. /\ row'.state = "AWAITING_CONFIRMATION" /\ row'.movedAt = now /\ row'.updatedAt = now
      /\ ~row'.attested /\ row'.claim = NoReceipt /\ ~row'.judged
      /\ row'.checks = 0 /\ row'.nextCheck = Never /\ row'.attempts = <<>>
      /\ row'.charges = <<>>
      /\ \A f \in FollowUps : row'.recovery[f].state = "none"
  BY <1>1 DEF Transition, Unborn
<1>4. ValidRecord(row')
  <2>1. BudgetValid(row')
    BY <1>3, MaxChecksAssumption DEF BudgetValid
  <2>2. ScheduleValid(row') /\ AttemptsOrdered(row') /\ VerdictReproduces(row')
    BY <1>3 DEF ScheduleValid, AttemptsOrdered, VerdictReproduces, Terminal
  <2>3. TimesValid(row')
    BY <1>3 DEF TimesValid, TypeOK
  <2>4. EvidenceValid(row')
    BY <1>3 DEF EvidenceValid, NoReceipt, Terminal
  <2> QED BY <2>1, <2>2, <2>3, <2>4 DEF ValidRecord
<1>5. Paced(row') /\ ChargesKnown(row', now')
  BY <1>3 DEF Paced, ChargesKnown
<1>6. StoreIsSound'
  BY <1>3, <1>4, <1>5
     DEF StoreIsSound, SupportIsSettled, NoVerifiedWithCharge, HasSupport, Support, Terminal
<1>7. NoJob.pc = "idle"
  BY DEF NoJob
<1> QED BY <1>2, <1>6, <1>7, IdleIsSound DEF OutcomeInv, FollowUpsKeepTheState

\* Nothing becomes unsound as time passes.
LEMMA TickKeepsOutcome ==
  ASSUME TypeOK, OutcomeInv, UNCHANGED <<row, job>>, now' = now \/ now' = now + 1
  PROVE  OutcomeInv'
<1>1. now \in Int /\ now' \in Int /\ now <= now'
  BY TimeAssumption DEF TypeOK
<1>2. row \in Record /\ \A w \in Sessions : job[w].rec \in Record
  BY DEF TypeOK, Job
<1>3. StoreIsSound'
  <2>1. ChargesKnown(row, now')
    BY <1>1, <1>2, KnownLater DEF OutcomeInv, StoreIsSound
  <2> QED BY <2>1 DEF OutcomeInv, StoreIsSound, SupportIsSettled, NoVerifiedWithCharge
<1>4. \A w \in Sessions : CopyIsSound(job'[w], now')
  <2> TAKE w \in Sessions
  <2>1. CopyIsSound(job[w], now)
    BY DEF OutcomeInv
  <2>2. ChargesKnown(job[w].rec, now')
    BY <1>1, <1>2, <2>1, KnownLater DEF CopyIsSound
  <2> QED BY <2>1, <2>2 DEF CopyIsSound
<1> QED BY <1>3, <1>4 DEF OutcomeInv, FollowUpsKeepTheState, Current

\* Before anything was started all is sound.
LEMMA InitOutcome == Init => OutcomeInv
<1> SUFFICES ASSUME Init PROVE OutcomeInv
  OBVIOUS
<1>1. row = Unborn /\ \A w \in Sessions : job[w] = NoJob
  BY DEF Init
<1>2. NoJob.pc = "idle" /\ NoJob.rec = Unborn
  BY DEF NoJob
<1>3. Paced(row) /\ ChargesKnown(row, now)
  BY <1>1, <1>2, IdleIsSound DEF CopyIsSound
<1>4. StoreIsSound
  BY <1>1, <1>3
     DEF StoreIsSound, Unborn, SupportIsSettled, NoVerifiedWithCharge, HasSupport, Support, Terminal
<1> QED BY <1>1, <1>2, <1>4, IdleIsSound DEF OutcomeInv, FollowUpsKeepTheState

\* Beginning any call keeps what is stored and copied sound.
LEMMA AskKeepsOutcome ==
  ASSUME TypeOK, OutcomeInv, NEW w \in Sessions, Ask(w)
  PROVE  OutcomeInv'
<1>1. CASE ExpireRecovery(w) \/ DeclineRecovery(w)
  <2>1. PICK f \in FollowUps, at \in RecentTimes, state \in {"EXPIRED", "DECLINED"} :
          LoadRecovery(w, f, at) /\ Begin(w, "finish", SetFollowUp(row, f, state, at), Never)
    BY <1>1 DEF ExpireRecovery, DeclineRecovery
  <2> QED BY <2>1, AnswerKeepsOutcome
<1>2. CASE LoadConfirm(w) \/ LoadRecheck(w) \/ LoadCharge(w) \/ AcceptRecovery(w)
  BY <1>2, LoadConfirmKeepsOutcome, LoadRecheckKeepsOutcome, LoadChargeKeepsOutcome,
     AcceptRecoveryKeepsOutcome
<1> QED BY <1>1, <1>2 DEF Ask

\* So does carrying it on.
LEMMA ProceedKeepsOutcome ==
  ASSUME TypeOK, OwnershipInv, OutcomeInv, NEW w \in Sessions, Proceed(w)
  PROVE  OutcomeInv'
<1>1. CASE ClaimExecution(w)
  BY <1>1, SaveKeepsOutcome DEF ClaimExecution, SavePoints
<1>2. CASE RecordClaim(w) \/ ClaimCheck(w)
  BY <1>2, SaveKeepsOutcome DEF RecordClaim, ClaimCheck, SavePoints
<1>3. CASE ClaimRecovery(w)
  BY <1>3, SaveKeepsOutcome DEF ClaimRecovery, SavePoints
<1>4. CASE Conclude(w) \/ Finish(w)
  BY <1>4, SaveKeepsOutcome DEF Conclude, Finish, SavePoints
<1>5. CASE SaveRefused(w)
  BY <1>5, DropKeepsOutcome DEF SaveRefused
<1>6. CASE Execute(w) \/ ReadBack(w) \/ CallRecovery(w) \/ ReloadRecovery(w)
  BY <1>6, ExecuteKeepsOutcome, ReadBackKeepsOutcome, CallRecoveryKeepsOutcome,
     ReloadRecoveryKeepsOutcome
<1> QED BY <1>1, <1>2, <1>3, <1>4, <1>5, <1>6 DEF Proceed

\* The induction step, for every action of the specification.
LEMMA NextKeepsOutcome ==
  ASSUME TypeOK, OwnershipInv, OutcomeInv, [Next]_vars
  PROVE  OutcomeInv'
<1>1. CASE Start
  BY <1>1, StartKeepsOutcome
<1>2. CASE \E w \in Sessions : Ask(w)
  BY <1>2, AskKeepsOutcome
<1>3. CASE \E w \in Sessions : Proceed(w)
  BY <1>3, ProceedKeepsOutcome
<1>4. CASE \E w \in Sessions : CallLost(w)
  BY <1>4, DropKeepsOutcome DEF CallLost
<1>5. CASE Tick \/ UNCHANGED vars
  BY <1>5, TickKeepsOutcome DEF Tick, vars
<1> QED BY <1>1, <1>2, <1>3, <1>4, <1>5 DEF Next

(***************************************************************************)
(* The theorems                                                            *)
(***************************************************************************)
\* What the store and every copy say is sound: the induction that the theorems
\* below rest on.
THEOREM OutcomeSound == Spec => []OutcomeInv
<1>1. TypeOK /\ OwnershipInv /\ OutcomeInv /\ [Next]_vars => OutcomeInv'
  BY NextKeepsOutcome
<1> QED BY <1>1, InitOutcome, TypeCorrect, Ownership, PTL DEF Spec

\* A final outcome leaves no support follow-up pending (recheck_resolution,
\* _record_verification, confirm_recovery_action).
THEOREM SupportSettled == Spec => []SupportIsSettled
<1>1. OutcomeInv => SupportIsSettled
  BY DEF OutcomeInv, StoreIsSound
<1> QED BY <1>1, OutcomeSound, PTL

\* No resolution is verified while a charge against it is on record
\* (_record_verification, record_outcome_violation).
THEOREM ChargeNeverVerified == Spec => []NoVerifiedWithCharge
<1>1. OutcomeInv => NoVerifiedWithCharge
  BY DEF OutcomeInv, StoreIsSound
<1> QED BY <1>1, OutcomeSound, PTL

\* What a final record in the store rests on (validate_target_record,
\* verify_cancellation).
LEMMA FinalIsProven ==
  ASSUME TypeOK, OutcomeInv
  PROVE  OutcomeIsProven
<1> SUFFICES ASSUME row.state \in Terminal PROVE OutcomeIsProven
  BY DEF OutcomeIsProven
<1> DEFINE last   == LastAttempt(row)
           charge == ChargeWeighed(row, last.charge)
           final  == last.eligible /\ row.checks >= MaxChecks
           reason == Verify(row.claim, last.evidence, final, Target, charge, row.deadline, last.at)
           trusted == /\ row.attested
                      /\ row.claim.success /\ row.claim.digest = Target
                      /\ last.evidence.readable /\ last.evidence.freshness = "within30"
                      /\ last.evidence.digest = Target /\ last.evidence.bound
<1>1. /\ ValidRecord(row) /\ Paced(row) /\ row.judged /\ row.attested
  BY EvidenceByState DEF OutcomeInv, StoreIsSound, Terminal
<1>2. row.state = StateFor(last.reason) /\ last.reason = reason
  BY <1>1 DEF ValidRecord, VerdictReproduces
<1>3. /\ row.attempts \in Seq(Attempt) /\ row.attempts # <<>>
      /\ last.count = row.checks /\ row.checks \in Nat /\ row.checks <= MaxChecks
  BY <1>1 DEF Paced, ValidRecord, BudgetValid, TypeOK, Record
<1>4. Correlated(row.claim, last.evidence, Target) =>
        row.claim.digest = Target /\ last.evidence.digest = Target /\ last.evidence.bound
  BY DEF Correlated, Target, None
<1>5. CASE row.state = "VERIFIED"
  <2>1. reason = "cancelled"
    BY <1>2, <1>5 DEF StateFor, VerdictOf
  <2>2. trusted /\ last.evidence.autoRenew = "off"
    BY <1>1, <1>4, <2>1 DEF Verify
  <2> QED BY <1>3, <1>5, <2>2 DEF OutcomeIsProven
<1>6. CASE row.state = "NOT_COMPLETED"
  <2>1. reason \in {"charge_observed", "window_ended"}
    BY <1>2, <1>6 DEF StateFor, VerdictOf
  <2>2. charge = NoCharge =>
          trusted /\ last.evidence.autoRenew = "on" /\ final
    BY <1>1, <1>4, <2>1 DEF Verify
  <2>3. charge # NoCharge => ChargeById(row, last.charge) # NoCharge
    BY DEF ChargeWeighed
  <2>4. final => ClosesWindow(Len(row.attempts))
    <3>1. final => last.count = MaxChecks
      BY <1>3, MaxChecksAssumption
    <3> QED BY <1>1, <1>3, <3>1 DEF Paced, ClosesWindow, DueAfter, LastAttempt
  <2> QED BY <1>3, <1>6, <2>2, <2>4, <2>3 DEF OutcomeIsProven
<1> QED BY <1>5, <1>6 DEF Terminal

\* Every final outcome rests on consent, an accepted claim and the last look,
\* and one that is against the customer's wish on a charge or on a look that was
\* due (_record_verification, docs/trust-model.md).
THEOREM OutcomeProven == Spec => []OutcomeIsProven
<1>1. TypeOK /\ OutcomeInv => OutcomeIsProven
  BY FinalIsProven
<1> QED BY <1>1, OutcomeSound, TypeCorrect, PTL

(***************************************************************************)
(* Looks                                                                   *)
(***************************************************************************)
\* The sessions that are reading back are finitely many.
LEMMA LookingFinite ==
  /\ IsFiniteSet(Looking) /\ Cardinality(Looking) \in Nat
<1>1. Looking \in SUBSET Sessions
  BY DEF Looking
<1> QED BY <1>1, SessionsAssumption, FS_Subset, FS_CardinalityType

\* A session that does not begin a look, and does not end one or reads back
\* once, leaves all looks paid for.
LEMMA StepKeepsLooks ==
  ASSUME TypeOK, LooksArePaid, NEW w \in Sessions, UNCHANGED row,
         \A x \in Sessions \ {w} : job'[x] = job[x],
         job'[w].pc # "read_back",
         \/ reads' = reads
         \/ reads' = reads + 1 /\ job[w].pc = "read_back",
         Len(job'[w].rec.attempts) <= reads',
         (job'[w].pc \in SavePoints /\ job'[w].rec.version = row.version) =>
           job'[w].rec.checks = IF job'[w].pc \in {"record_claim", "claim_check"}
                                THEN row.checks + 1 ELSE row.checks
  PROVE  LooksArePaid'
<1>1. /\ reads \in Nat /\ row.checks \in Nat /\ Len(row.attempts) \in Nat
      /\ \A x \in Sessions : Len(job[x].rec.attempts) \in Nat
  <2>1. reads \in Nat /\ row.checks \in Nat /\ row.attempts \in Seq(Attempt)
    BY DEF TypeOK, Record
  <2>2. \A x \in Sessions : job[x].rec.attempts \in Seq(Attempt)
    BY DEF TypeOK, Record, Job
  <2> QED BY <2>1, <2>2
<1>2. Looking' = Looking \ {w}
  BY DEF Looking
<1>3. Cardinality(Looking') = IF w \in Looking THEN Cardinality(Looking) - 1
                                              ELSE Cardinality(Looking)
  BY <1>2, LookingFinite, FS_RemoveElement
<1>4. w \in Looking <=> job[w].pc = "read_back"
  BY DEF Looking
<1>5. reads' + Cardinality(Looking') <= row.checks
  BY <1>1, <1>3, <1>4, LookingFinite DEF LooksArePaid
<1>6. \A x \in Sessions : Len(job'[x].rec.attempts) <= reads'
  BY <1>1 DEF LooksArePaid
<1>7. Len(row.attempts) <= reads'
  BY <1>1 DEF LooksArePaid
<1>8. \A x \in Sessions : (job'[x].pc \in SavePoints /\ job'[x].rec.version = row.version) =>
        job'[x].rec.checks = IF job'[x].pc \in {"record_claim", "claim_check"}
                             THEN row.checks + 1 ELSE row.checks
  BY DEF LooksArePaid, Current
<1> QED BY <1>5, <1>6, <1>7, <1>8 DEF LooksArePaid, Current

\* A call that ends takes no look with it.
LEMMA DropKeepsLooks ==
  ASSUME TypeOK, LooksArePaid, NEW w \in Sessions, job' = [job EXCEPT ![w] = NoJob],
         UNCHANGED <<row, reads>>
  PROVE  LooksArePaid'
<1>1. job'[w] = NoJob /\ \A x \in Sessions \ {w} : job'[x] = job[x]
  BY DEF TypeOK
<1>2. NoJob.pc = "idle" /\ NoJob.rec.attempts = <<>>
  BY DEF NoJob, Unborn
<1>3. Len(<<>>) = 0 /\ reads \in Nat
  BY DEF TypeOK
<1>4. "idle" \notin SavePoints
  BY DEF SavePoints
<1> QED BY <1>1, <1>2, <1>3, <1>4, StepKeepsLooks

\* A call that is about to save what it loaded, at the price of at most one look.
LEMMA BeginKeepsLooks ==
  ASSUME TypeOK, LooksArePaid, NEW w \in Sessions, NEW begun,
         job' = [job EXCEPT ![w] = begun], UNCHANGED <<row, reads>>,
         begun.pc \in SavePoints, begun.rec.attempts = row.attempts,
         begun.rec.checks = IF begun.pc \in {"record_claim", "claim_check"}
                            THEN row.checks + 1 ELSE row.checks
  PROVE  LooksArePaid'
<1>1. job'[w] = begun /\ \A x \in Sessions \ {w} : job'[x] = job[x]
  BY DEF TypeOK
<1>2. Len(begun.rec.attempts) <= reads'
  BY DEF LooksArePaid
<1>3. begun.pc # "read_back"
  BY DEF SavePoints
<1> QED BY <1>1, <1>2, <1>3, StepKeepsLooks

\* The claim of the cancellation costs no look (confirm_resolution_action).
LEMMA LoadConfirmKeepsLooks ==
  ASSUME TypeOK, LooksArePaid, NEW w \in Sessions, LoadConfirm(w)
  PROVE  LooksArePaid'
<1> DEFINE attested == [row EXCEPT !.attested = TRUE]
           moved    == Transition(attested, "EXECUTING", now)
           begun    == [NoJob EXCEPT !.pc = "claim_execution", !.rec = moved, !.at = Never]
<1>1. job' = [job EXCEPT ![w] = begun] /\ UNCHANGED <<row, reads>>
  BY DEF LoadConfirm, Begin
<1>2. /\ attested \in Record /\ attested.attempts = row.attempts
      /\ attested.checks = row.checks
  BY DEF TypeOK, Record
<1> HIDE DEF attested
<1>3. moved.attempts = row.attempts /\ moved.checks = row.checks
  BY <1>2, TransitionKeeps, TransitionKeepsPace
<1> HIDE DEF moved
<1>4. begun.pc = "claim_execution" /\ begun.rec = moved
  BY DEF NoJob
<1> HIDE DEF begun
<1> QED BY <1>1, <1>3, <1>4, BeginKeepsLooks DEF SavePoints

\* The claim of a look is the price of one (recheck_resolution).
LEMMA LoadRecheckKeepsLooks ==
  ASSUME TypeOK, LooksArePaid, NEW w \in Sessions, LoadRecheck(w)
  PROVE  LooksArePaid'
<1> DEFINE checks  == row.checks + 1
           claimed == [row EXCEPT !.checks = checks]
           cleared == IF row.state = "AWAITING_PROOF"
                      THEN [claimed EXCEPT !.nextCheck = Never, !.judged = FALSE]
                      ELSE claimed
           moved   == Transition(cleared, "VERIFYING", now)
           begun   == [NoJob EXCEPT !.pc = "claim_check", !.at = now,
                                    !.eligible = MayCloseWindow, !.rec = moved]
<1>1. job' = [job EXCEPT ![w] = begun] /\ UNCHANGED <<row, reads>>
  BY DEF LoadRecheck
<1>2. row \in Record /\ checks \in Nat
  BY DEF TypeOK, Record
<1> HIDE DEF checks
<1>3. claimed \in Record /\ claimed.attempts = row.attempts /\ claimed.checks = checks
  BY <1>2 DEF Record
<1> HIDE DEF claimed
<1>4. cleared \in Record /\ cleared.attempts = row.attempts /\ cleared.checks = checks
  BY <1>3, ValuesTyped DEF Record
<1> HIDE DEF cleared
<1>5. moved.attempts = row.attempts /\ moved.checks = checks
  BY <1>4, TransitionKeeps, TransitionKeepsPace
<1> HIDE DEF moved
<1>6. begun.pc = "claim_check" /\ begun.rec = moved
  BY DEF NoJob
<1> HIDE DEF begun
<1> QED BY <1>1, <1>5, <1>6, BeginKeepsLooks DEF SavePoints, checks

\* Closing a proposal costs no look (confirm_recovery_action).
LEMMA AnswerKeepsLooks ==
  ASSUME TypeOK, LooksArePaid, NEW w \in Sessions, NEW f \in FollowUps, NEW at \in RecentTimes,
         NEW state, LoadRecovery(w, f, at),
         Begin(w, "finish", SetFollowUp(row, f, state, at), Never)
  PROVE  LooksArePaid'
<1> DEFINE begun == [NoJob EXCEPT !.pc = "finish", !.rec = SetFollowUp(row, f, state, at),
                                  !.at = Never]
<1>1. job' = [job EXCEPT ![w] = begun] /\ UNCHANGED <<row, reads>>
  BY DEF Begin, LoadRecovery
<1>2. begun.pc = "finish" /\ begun.rec = SetFollowUp(row, f, state, at)
  BY DEF NoJob
<1> HIDE DEF begun
<1>3. row \in Record
  BY DEF TypeOK
<1>4. begun.rec.attempts = row.attempts /\ begun.rec.checks = row.checks
  BY <1>2, <1>3, SetFollowUpKeepsPace
<1> QED BY <1>1, <1>2, <1>4, BeginKeepsLooks DEF SavePoints

\* Neither does claiming a follow-up (confirm_recovery_action).
LEMMA AcceptRecoveryKeepsLooks ==
  ASSUME TypeOK, LooksArePaid, NEW w \in Sessions, AcceptRecovery(w)
  PROVE  LooksArePaid'
<1>1. PICK f \in FollowUps, at \in RecentTimes :
        /\ LoadRecovery(w, f, at)
        /\ job' = [job EXCEPT ![w] =
                     [NoJob EXCEPT !.pc = "claim_recovery", !.at = at, !.item = f,
                                   !.rec = SetFollowUp(row, f, "EXECUTING", at)]]
  BY DEF AcceptRecovery
<1> DEFINE after == SetFollowUp(row, f, "EXECUTING", at)
           begun == [NoJob EXCEPT !.pc = "claim_recovery", !.at = at, !.item = f, !.rec = after]
<1>2. job' = [job EXCEPT ![w] = begun] /\ UNCHANGED <<row, reads>>
  BY <1>1 DEF LoadRecovery
<1>3. row \in Record
  BY DEF TypeOK
<1>4. after.attempts = row.attempts /\ after.checks = row.checks
  BY <1>3, SetFollowUpKeepsPace
<1>5. begun.pc = "claim_recovery" /\ begun.rec = after
  BY DEF NoJob
<1> HIDE DEF begun, after
<1> QED BY <1>2, <1>4, <1>5, BeginKeepsLooks DEF SavePoints

\* A notice leaves the attempts (record_outcome_violation).
LEMMA NotifyKeepsAttempts ==
  ASSUME NEW rec \in Record, NEW reason \in Notices \cup {None}, NEW seen, NEW at \in Int,
         NEW proposing
  PROVE  Notify(rec, reason, seen, at, proposing).attempts = rec.attempts
  BY NotifyKeeps

\* Nor noting a charge (record_outcome_violation).
LEMMA LoadChargeKeepsLooks ==
  ASSUME TypeOK, LooksArePaid, NEW w \in Sessions, LoadCharge(w)
  PROVE  LooksArePaid'
<1>1. PICK charge \in Charges, at \in RecentTimes :
        LET noted == [row EXCEPT !.charges = Append(@, charge), !.updatedAt = at]
        IN Begin(w, "finish",
                 Notify(noted, Notice(noted, Unreadable, at), Unreadable, at, TRUE), Never)
  BY DEF LoadCharge
<1> DEFINE charges == Append(row.charges, charge)
           noted   == [row EXCEPT !.charges = charges, !.updatedAt = at]
           notice  == Notice(noted, Unreadable, at)
           proposing == TRUE
           noticed == Notify(noted, notice, Unreadable, at, proposing)
           begun   == [NoJob EXCEPT !.pc = "finish", !.rec = noticed, !.at = Never]
<1>2. job' = [job EXCEPT ![w] = begun] /\ UNCHANGED <<row, reads>>
  BY <1>1 DEF Begin, LoadCharge
<1>3. at \in Int /\ row \in Record /\ charge \in Charge
  BY RecentTimesTyped, TimeAssumption DEF TypeOK, Charges, Charge, Digests
<1>4. charges \in Seq(Charge)
  BY <1>3 DEF Record
<1> HIDE DEF charges
<1>5. noted \in Record /\ noted.attempts = row.attempts /\ noted.checks = row.checks
  BY <1>3, <1>4 DEF Record
<1> HIDE DEF noted
<1>6. notice \in Notices \cup {None}
  BY NoticeTyped
<1> HIDE DEF notice, proposing
<1>7. noticed.attempts = noted.attempts
  BY <1>3, <1>5, <1>6, NotifyKeepsAttempts, SMTT(30)
<1>8. noticed.checks = noted.checks
  BY <1>3, <1>5, <1>6, NotifyKeepsPace, SMTT(30)
<1> HIDE DEF noticed
<1>9. begun.pc = "finish" /\ begun.rec = noticed
  BY DEF NoJob
<1> HIDE DEF begun
<1> QED BY <1>2, <1>5, <1>7, <1>8, <1>9, BeginKeepsLooks DEF SavePoints

\* The first look is paid for together with the claim (confirm_resolution_action).
LEMMA ExecuteKeepsLooks ==
  ASSUME TypeOK, OwnershipInv, LooksArePaid, NEW w \in Sessions, Execute(w)
  PROVE  LooksArePaid'
<1>1. /\ job[w] \in Job /\ job[w].rec \in Record /\ job[w].rec.checks \in Nat
      /\ job[w].pc = "execute" /\ UNCHANGED <<row, reads>>
  BY DEF TypeOK, Job, Execute, Record
<1>2. PICK receipt \in ProviderReceipts :
        job' = [job EXCEPT
                  ![w].pc  = "record_claim",
                  ![w].rec = Transition([job[w].rec EXCEPT !.claim = Accepted(receipt),
                                                           !.checks = @ + 1],
                                        "VERIFYING", now)]
  BY DEF Execute
<1> DEFINE rec      == job[w].rec
           accepted == Accepted(receipt)
           checks   == rec.checks + 1
           claimed  == [rec EXCEPT !.claim = accepted, !.checks = checks]
           moved    == Transition(claimed, "VERIFYING", now)
<1>3. accepted \in Receipt /\ checks \in Nat
  BY <1>1, AcceptedTyped, ProviderAssumption
<1>4. job' = [job EXCEPT ![w].pc = "record_claim", ![w].rec = moved]
  BY <1>2
<1> HIDE DEF accepted, checks
<1>5. /\ claimed \in Record /\ claimed.attempts = rec.attempts /\ claimed.checks = checks
      /\ claimed.version = rec.version
  BY <1>1, <1>3 DEF Record
<1> HIDE DEF claimed
<1>6. moved.attempts = rec.attempts /\ moved.checks = checks /\ moved.version = rec.version
  BY <1>5, TransitionKeeps, TransitionKeepsPace
<1> HIDE DEF moved
<1>7. /\ job'[w].pc = "record_claim" /\ job'[w].rec = moved
      /\ \A x \in Sessions \ {w} : job'[x] = job[x]
  BY <1>1, <1>4 DEF TypeOK, Job
<1>8. rec.version = row.version => rec = row
  BY <1>1 DEF OwnershipInv, CopiesFollowTheStore, Current, SavePoints
<1>9. Len(job'[w].rec.attempts) <= reads
  BY <1>6, <1>7 DEF LooksArePaid
<1> QED BY <1>1, <1>6, <1>7, <1>8, <1>9, StepKeepsLooks DEF checks

\* A look that was paid for is made once, and leaves one attempt
\* (_collect_independent_evidence, _record_verification).
LEMMA ReadBackKeepsLooks ==
  ASSUME TypeOK, OwnershipInv, OutcomeInv, LooksArePaid, NEW w \in Sessions, ReadBack(w)
  PROVE  LooksArePaid'
<1>1. /\ job[w] \in Job /\ job[w].rec \in Record
      /\ job[w].at \in Int /\ job[w].eligible \in BOOLEAN
      /\ job[w].pc = "read_back" /\ UNCHANGED row /\ reads' = reads + 1
  BY DEF TypeOK, Job, ReadBack
<1> DEFINE at  == IF job[w].at = Never THEN now ELSE job[w].at
           rec == job[w].rec
<1>2. PICK evidence \in ProviderEvidence :
        job' = [job EXCEPT
                  ![w].pc  = "conclude",
                  ![w].rec = RecordVerification(job[w].rec, Collected(evidence),
                                                job[w].eligible, at)]
  BY DEF ReadBack
<1>3. at \in Int
  BY <1>1, TimeAssumption DEF TypeOK
<1>4. Collected(evidence) \in Evidence
  BY CollectedTyped, ProviderAssumption
<1>5. CopyIsSound(job[w], now)
  BY DEF OutcomeInv
<1>6. /\ ChargesKnown(rec, at) /\ ~HasSupport(rec, {"EXECUTING"})
      /\ job[w].eligible => rec.attempts # <<>> /\ at >= DueAfter(LastAttempt(rec))
  BY <1>1, <1>5 DEF CopyIsSound, BeforeVerdict
<1> HIDE DEF at
<1> DEFINE judged == RecordVerification(rec, Collected(evidence), job[w].eligible, at)
<1>7. job' = [job EXCEPT ![w].pc = "conclude", ![w].rec = judged]
  BY <1>2
<1>8. /\ judged.checks = rec.checks /\ Len(judged.attempts) = Len(rec.attempts) + 1
  BY <1>1, <1>3, <1>4, <1>6, JudgementIsSound
<1>9. judged.version = rec.version
  BY <1>1, <1>3, <1>4, RecordVerificationExtends
<1> HIDE DEF judged
<1>10. /\ job'[w].pc = "conclude" /\ job'[w].rec = judged
       /\ \A x \in Sessions \ {w} : job'[x] = job[x]
  BY <1>1, <1>7 DEF TypeOK, Job
<1>11. rec.version = row.version => rec = row
  BY <1>1 DEF OwnershipInv, CopiesFollowTheStore, Current, SavePoints
<1>12. Len(judged.attempts) <= reads'
  <2>1. reads \in Nat /\ rec.attempts \in Seq(Attempt)
    BY <1>1 DEF TypeOK, Record
  <2> QED BY <1>1, <1>8, <2>1 DEF LooksArePaid
<1> QED BY <1>1, <1>8, <1>9, <1>10, <1>11, <1>12, StepKeepsLooks

\* The recovery provider makes no look.
LEMMA CallRecoveryKeepsLooks ==
  ASSUME TypeOK, LooksArePaid, NEW w \in Sessions, CallRecovery(w)
  PROVE  LooksArePaid'
<1>1. job[w] \in Job /\ UNCHANGED <<row, reads>>
  BY DEF TypeOK, CallRecovery
<1>2. PICK succeeded \in BOOLEAN :
        job' = [job EXCEPT ![w].pc = "reload", ![w].succeeded = succeeded]
  BY DEF CallRecovery
<1>3. /\ job'[w].pc = "reload" /\ job'[w].rec = job[w].rec
      /\ \A x \in Sessions \ {w} : job'[x] = job[x]
  BY <1>1, <1>2 DEF TypeOK, Job
<1>4. Len(job'[w].rec.attempts) <= reads
  BY <1>3 DEF LooksArePaid
<1> QED BY <1>1, <1>3, <1>4, StepKeepsLooks DEF SavePoints

\* The result of a follow-up costs no look (confirm_recovery_action).
LEMMA ReloadRecoveryKeepsLooks ==
  ASSUME TypeOK, LooksArePaid, NEW w \in Sessions, ReloadRecovery(w)
  PROVE  LooksArePaid'
<1> DEFINE f      == job[w].item
           result == IF ~job[w].succeeded THEN "FAILED"
                     ELSE IF IsRefund(job[w].rec, f) THEN "COMPLETED" ELSE "VERIFYING"
           after  == SetFollowUp(row, f, result, job[w].at)
<1>1. \/ job' = [job EXCEPT ![w] = NoJob]
      \/ job' = [job EXCEPT ![w].pc = "finish", ![w].rec = after]
  BY DEF ReloadRecovery
<1>2. UNCHANGED <<row, reads>> /\ row \in Record
  BY DEF ReloadRecovery, TypeOK
<1>3. CASE job' = [job EXCEPT ![w] = NoJob]
  BY <1>2, <1>3, DropKeepsLooks
<1>4. CASE job' = [job EXCEPT ![w].pc = "finish", ![w].rec = after]
  <2>1. after.attempts = row.attempts /\ after.checks = row.checks
    BY <1>2, SetFollowUpKeepsPace
  <2> HIDE DEF after
  <2>2. /\ job'[w].pc = "finish" /\ job'[w].rec = after
        /\ \A x \in Sessions \ {w} : job'[x] = job[x]
    BY <1>4 DEF TypeOK, Job
  <2>3. Len(job'[w].rec.attempts) <= reads
    BY <2>1, <2>2 DEF LooksArePaid
  <2> QED BY <1>2, <2>1, <2>2, <2>3, StepKeepsLooks
<1> QED BY <1>1, <1>3, <1>4

\* A save stores the price of a look exactly when the session goes on to read
\* back; a copy of any other session is out of date then (save_owned).
LEMMA SaveKeepsLooks ==
  ASSUME TypeOK, OwnershipInv, LooksArePaid, NEW w \in Sessions,
         NEW from \in SavePoints, NEW to \in {"idle", "execute", "read_back", "call_recovery"},
         from \in {"record_claim", "claim_check"} <=> to = "read_back",
         Save(w, from, to)
  PROVE  LooksArePaid'
<1> DEFINE rec   == job[w].rec
           saved == Saved(rec)
<1>1. /\ job[w] \in Job /\ rec \in Record /\ job[w].pc = from
      /\ row \in Record /\ row' = saved /\ UNCHANGED reads
      /\ rec.version \in Nat /\ row.checks \in Nat /\ rec.checks \in Nat
      /\ reads \in Nat
  BY DEF TypeOK, Job, Save, Record
<1>2. rec.version = row.version /\ rec.checks <= MaxChecks
  BY DEF Save, CanSave, SameVersion, ValidRecord, BudgetValid
<1>3. /\ saved.version = rec.version + 1
      /\ saved.checks = rec.checks /\ saved.attempts = rec.attempts
  BY <1>1, SavedFields, SavedKeeps
<1> HIDE DEF saved
<1>4. /\ \A x \in Sessions \ {w} : job'[x] = job[x]
      /\ IF to = "idle" THEN job'[w] = NoJob
         ELSE job'[w].pc = to /\ job'[w].rec = saved
  BY <1>1 DEF TypeOK, Job, Save, saved
<1>5. rec.checks = IF to = "read_back" THEN row.checks + 1 ELSE row.checks
  BY <1>1, <1>2 DEF LooksArePaid, Current
<1>6. reads + Cardinality(Looking') <= rec.checks
  <2>1. job[w].pc # "read_back"
    BY <1>1 DEF SavePoints
  <2>2. CASE to = "read_back"
    <3>1. Looking' = Looking \cup {w} /\ w \notin Looking
      BY <1>4, <2>1, <2>2 DEF Looking
    <3>2. Cardinality(Looking') = Cardinality(Looking) + 1
      BY <3>1, LookingFinite, FS_AddElement
    <3> QED BY <1>1, <1>5, <2>2, <3>2, LookingFinite DEF LooksArePaid
  <2>3. CASE to # "read_back"
    <3>1. job'[w].pc # "read_back"
      BY <1>4, <2>3 DEF NoJob
    <3>2. Looking' = Looking
      BY <1>4, <2>1, <3>1 DEF Looking
    <3> QED BY <1>5, <2>3, <3>2 DEF LooksArePaid
  <2> QED BY <2>2, <2>3
<1>7. Len(rec.attempts) <= reads
  BY DEF LooksArePaid
<1>8. \A x \in Sessions : Len(job'[x].rec.attempts) <= reads
  <2>1. Len(job'[w].rec.attempts) <= reads
    <3>1. Len(NoJob.rec.attempts) = 0
      BY DEF NoJob, Unborn
    <3> QED BY <1>1, <1>3, <1>4, <1>7, <3>1
  <2> QED BY <1>4, <2>1 DEF LooksArePaid
<1>9. \A x \in Sessions :
        ~(job'[x].pc \in SavePoints /\ job'[x].rec.version = row'.version)
  <2>1. job'[w].pc \notin SavePoints
    BY <1>4 DEF NoJob, SavePoints
  <2>2. \A x \in Sessions \ {w} : job[x].pc \in SavePoints => job[x].rec.version <= row.version
    BY DEF OwnershipInv, CopiesFollowTheStore, SavePoints
  <2>3. \A x \in Sessions \ {w} : job[x].rec.version \in Nat
    BY DEF TypeOK, Job, Record
  <2> QED BY <1>1, <1>2, <1>3, <1>4, <2>1, <2>2, <2>3
<1> QED BY <1>1, <1>2, <1>3, <1>6, <1>7, <1>8, <1>9 DEF LooksArePaid, Current

\* Nothing was looked at before the record is first stored (start_resolution).
LEMMA StartKeepsLooks ==
  ASSUME TypeOK, OwnershipInv, LooksArePaid, Start
  PROVE  LooksArePaid'
<1>1. row = Unborn /\ UNCHANGED <<job, reads>> /\ \A w \in Sessions : job[w] = NoJob
  BY DEF Start, OwnershipInv, NothingBeforeStart
<1>2. row'.attempts = row.attempts /\ row'.checks = row.checks
  BY <1>1 DEF Start, Transition, Unborn
<1>3. NoJob.pc \notin SavePoints
  BY DEF NoJob, SavePoints
<1>4. Looking' = Looking
  BY <1>1 DEF Looking
<1> QED BY <1>1, <1>2, <1>3, <1>4 DEF LooksArePaid, Current

\* Initially there are no looks.
LEMMA InitLooks == Init => LooksArePaid
<1> SUFFICES ASSUME Init PROVE LooksArePaid
  OBVIOUS
<1>1. row = Unborn /\ reads = 0 /\ \A w \in Sessions : job[w] = NoJob
  BY DEF Init
<1>2. /\ NoJob.pc = "idle" /\ NoJob.rec = Unborn
      /\ Unborn.attempts = <<>> /\ Unborn.checks = 0
  BY DEF NoJob, Unborn
<1>3. Looking = {}
  BY <1>1, <1>2 DEF Looking
<1>4. Cardinality(Looking) = 0
  BY <1>3, FS_EmptySet
<1> QED BY <1>1, <1>2, <1>4, MaxChecksAssumption DEF LooksArePaid, SavePoints

\* The induction step, for every action of the specification.
LEMMA NextKeepsLooks ==
  ASSUME TypeOK, OwnershipInv, OutcomeInv, LooksArePaid, [Next]_vars
  PROVE  LooksArePaid'
<1>1. CASE Start
  BY <1>1, StartKeepsLooks
<1>2. ASSUME NEW w \in Sessions, Ask(w) PROVE LooksArePaid'
  <2>1. CASE ExpireRecovery(w)
    BY <2>1, AnswerKeepsLooks DEF ExpireRecovery
  <2>2. CASE DeclineRecovery(w)
    BY <2>2, AnswerKeepsLooks DEF DeclineRecovery
  <2>3. CASE LoadConfirm(w) \/ LoadRecheck(w) \/ LoadCharge(w) \/ AcceptRecovery(w)
    BY <2>3, LoadConfirmKeepsLooks, LoadRecheckKeepsLooks, LoadChargeKeepsLooks,
       AcceptRecoveryKeepsLooks
  <2> QED BY <1>2, <2>1, <2>2, <2>3 DEF Ask
<1>3. ASSUME NEW w \in Sessions, Proceed(w) PROVE LooksArePaid'
  <2>1. CASE RecordClaim(w) \/ ClaimCheck(w)
    BY <2>1, SaveKeepsLooks DEF RecordClaim, ClaimCheck, SavePoints
  <2>2. CASE ClaimExecution(w) \/ ClaimRecovery(w)
    BY <2>2, SaveKeepsLooks DEF ClaimExecution, ClaimRecovery, SavePoints
  <2>3. CASE Conclude(w) \/ Finish(w)
    BY <2>3, SaveKeepsLooks DEF Conclude, Finish, SavePoints
  <2>4. CASE SaveRefused(w)
    BY <2>4, DropKeepsLooks DEF SaveRefused
  <2>5. CASE Execute(w) \/ ReadBack(w) \/ CallRecovery(w) \/ ReloadRecovery(w)
    BY <2>5, ExecuteKeepsLooks, ReadBackKeepsLooks, CallRecoveryKeepsLooks,
       ReloadRecoveryKeepsLooks
  <2> QED BY <1>3, <2>1, <2>2, <2>3, <2>4, <2>5 DEF Proceed
<1>4. CASE \E w \in Sessions : CallLost(w)
  BY <1>4, DropKeepsLooks DEF CallLost
<1>5. CASE Tick \/ UNCHANGED vars
  <2>1. UNCHANGED <<row, job, reads>>
    BY <1>5 DEF Tick, vars
  <2>2. Looking' = Looking
    BY <2>1 DEF Looking
  <2> QED BY <2>1, <2>2 DEF LooksArePaid, Current
<1> QED BY <1>1, <1>2, <1>3, <1>4, <1>5 DEF Next

\* Every look is paid for before it is made: the induction the theorem below
\* rests on.
THEOREM LooksPaid == Spec => []LooksArePaid
<1>1. TypeOK /\ OwnershipInv /\ OutcomeInv /\ LooksArePaid /\ [Next]_vars => LooksArePaid'
  BY NextKeepsLooks
<1> QED BY <1>1, InitLooks, TypeCorrect, Ownership, OutcomeSound, PTL DEF Spec

\* However many sessions look, take over or stop, no more looks are made than
\* the budget has, and no attempt is recorded that was not a look
\* (recheck_resolution, MAX_VERIFICATION_CHECKS).
THEOREM LooksBudgeted == Spec => []LooksAreBudgeted
<1>1. TypeOK /\ LooksArePaid => LooksAreBudgeted
  <2> SUFFICES ASSUME TypeOK, LooksArePaid PROVE LooksAreBudgeted
    OBVIOUS
  <2>1. reads \in Nat /\ row.checks \in Nat
    BY DEF TypeOK, Record
  <2> QED BY <2>1, LookingFinite DEF LooksArePaid, LooksAreBudgeted
<1> QED BY <1>1, LooksPaid, TypeCorrect, PTL

(***************************************************************************)
(* Stages                                                                  *)
(***************************************************************************)
\* In which states a valid record has a claim (_validate_evidence_stage).
LEMMA ClaimByState ==
  ASSUME NEW rec, ValidRecord(rec)
  PROVE  /\ rec.claim.valid \/ ~rec.claim.valid
         /\ rec.state \in {"AWAITING_CONFIRMATION", "EXECUTING"} => ~rec.claim.valid
         /\ rec.state \notin {"AWAITING_CONFIRMATION", "EXECUTING"} => rec.claim.valid
<1>1. EvidenceValid(rec)
  BY DEF ValidRecord
<1> QED BY <1>1 DEF EvidenceValid, Terminal

\* What a save finds stored and what it stores, by the place it is made from.
LEMMA SaveStages ==
  ASSUME TypeOK, OwnershipInv, OutcomeInv, LooksArePaid, StagesInv, NEW w \in Sessions,
         NEW from \in SavePoints, NEW to, Save(w, from, to)
  PROVE  /\ row.version = job[w].rec.version
         /\ row'.state = job[w].rec.state /\ row'.checks = job[w].rec.checks
         /\ row'.claim = job[w].rec.claim /\ row'.version = row.version + 1
         /\ ValidRecord(row) /\ ValidRecord(row') /\ row.state \notin Terminal
         /\ from = "claim_execution" =>
              /\ row.state = "AWAITING_CONFIRMATION" /\ row'.state = "EXECUTING"
              /\ row'.checks = row.checks
         /\ from = "record_claim" =>
              /\ row.state = "EXECUTING" /\ row'.state = "VERIFYING"
              /\ row'.checks = row.checks + 1
         /\ from = "claim_check" =>
              /\ row.state \in {"VERIFYING", "AWAITING_PROOF"} /\ row'.state = "VERIFYING"
              /\ row'.checks = row.checks + 1
         /\ from = "conclude" =>
              /\ row.state = "VERIFYING" /\ row'.state \in Terminal \cup {"AWAITING_PROOF"}
              /\ row'.checks = row.checks
         /\ from \in {"claim_recovery", "finish"} =>
              /\ row'.state = row.state /\ row'.checks = row.checks
<1> DEFINE rec == job[w].rec
<1>1. /\ rec \in Record /\ row \in Record /\ job[w].pc = from /\ row' = Saved(rec)
      /\ row.state \notin Terminal /\ rec.version = row.version /\ ValidRecord(rec)
  BY DEF TypeOK, Job, Save, CanSave, Open, SameVersion
<1>2. /\ row'.state = rec.state /\ row'.checks = rec.checks /\ row'.claim = rec.claim
      /\ row'.version = row.version + 1 /\ ValidRecord(row')
  BY <1>1, SavedFields, SavedKeeps, SavedIsValid
<1>3. Current(w) /\ CopyIsSound(job[w], now)
  BY <1>1 DEF Current, OutcomeInv
<1>4. row.state # "REQUESTED"
  <2>1. ASSUME row.state = "REQUESTED" PROVE job[w].pc = "idle"
    BY <2>1 DEF OwnershipInv, NothingBeforeStart, NoJob
  <2> QED BY <1>1, <2>1 DEF SavePoints
<1>5. ValidRecord(row)
  BY <1>4 DEF OutcomeInv, StoreIsSound
<1>6. rec.checks = IF from \in {"record_claim", "claim_check"} THEN row.checks + 1 ELSE row.checks
  BY <1>1, <1>3 DEF LooksArePaid
<1>7. CASE from = "claim_execution"
  <2>1. row.state = "AWAITING_CONFIRMATION" /\ rec.state = "EXECUTING"
    BY <1>1, <1>3, <1>7 DEF OwnershipInv, ExecutionIsClaimed
  <2> QED BY <1>1, <1>2, <1>5, <1>6, <1>7, <2>1
<1>8. CASE from \in {"record_claim", "claim_check"}
  <2>1. rec.state = "VERIFYING"
    BY <1>1, <1>3, <1>8 DEF CopyIsSound
  <2>2. /\ from = "record_claim" => row.state = "EXECUTING"
        /\ from = "claim_check" => row.state \in {"VERIFYING", "AWAITING_PROOF"}
    BY <1>1, <1>3 DEF StagesInv
  <2> QED BY <1>1, <1>2, <1>5, <1>6, <1>8, <2>1, <2>2
<1>9. CASE from = "conclude"
  <2>1. row.state = "VERIFYING" /\ rec.state \in Terminal \cup {"AWAITING_PROOF"}
    BY <1>1, <1>3, <1>9 DEF StagesInv
  <2> QED BY <1>1, <1>2, <1>5, <1>6, <1>9, <2>1
<1>10. CASE from \in {"claim_recovery", "finish"}
  <2>1. rec.state = row.state
    BY <1>1, <1>3, <1>10 DEF OutcomeInv, FollowUpsKeepTheState
  <2> QED BY <1>1, <1>2, <1>5, <1>6, <1>10, <2>1
<1> QED BY <1>7, <1>8, <1>9, <1>10 DEF SavePoints

(***************************************************************************)
(* The stages, step by step                                                *)
(***************************************************************************)
\* What a session may come to be doing while the store stays as it is.
InStage(j) ==
  /\ j.pc = "conclude" => j.rec.state \in Terminal \cup {"AWAITING_PROOF"}
  /\ j.rec.version = row.version =>
       /\ j.pc \in {"execute", "record_claim"} => row.state = "EXECUTING"
       /\ j.pc = "claim_check" => row.state \in {"VERIFYING", "AWAITING_PROOF"}
       /\ j.pc \in {"read_back", "conclude"} => row.state = "VERIFYING"

LEMMA StepKeepsStages ==
  ASSUME StagesInv, NEW w \in Sessions, UNCHANGED <<row, cancels>>,
         \A x \in Sessions \ {w} : job'[x] = job[x],
         job'[w].pc # "record_claim", InStage(job'[w])
  PROVE  StagesInv'
  BY DEF StagesInv, InStage, Current

\* A session that is about to save what it loaded, other than a look.
LEMMA AskKeepsStages ==
  ASSUME TypeOK, StagesInv, NEW w \in Sessions, Ask(w)
  PROVE  StagesInv'
<1> SUFFICES ASSUME NEW begun, job' = [job EXCEPT ![w] = begun],
                    UNCHANGED <<row, cancels>>,
                    begun.pc \in {"claim_execution", "claim_check", "claim_recovery", "finish"},
                    begun.pc = "claim_check" => row.state \in {"VERIFYING", "AWAITING_PROOF"}
             PROVE  StagesInv'
  <2>1. CASE LoadConfirm(w) \/ LoadCharge(w) \/ ExpireRecovery(w) \/ DeclineRecovery(w)
    <3>0. PICK rec : \E pc \in {"claim_execution", "finish"} : Begin(w, pc, rec, Never)
      BY <2>1 DEF LoadConfirm, LoadCharge, ExpireRecovery, DeclineRecovery
    <3>1. PICK pc \in {"claim_execution", "finish"} : Begin(w, pc, rec, Never)
      BY <3>0, SMTT(30)
    <3>2. UNCHANGED <<row, cancels>>
      BY <2>1 DEF LoadConfirm, LoadCharge, ExpireRecovery, DeclineRecovery, LoadRecovery
    <3>3. [NoJob EXCEPT !.pc = pc, !.rec = rec, !.at = Never].pc = pc
      BY DEF NoJob
    <3> QED BY <3>1, <3>2, <3>3 DEF Begin
  <2>2. CASE AcceptRecovery(w)
    <3>1. PICK f \in FollowUps, at \in RecentTimes :
            /\ LoadRecovery(w, f, at)
            /\ job' = [job EXCEPT ![w] =
                         [NoJob EXCEPT !.pc = "claim_recovery", !.at = at, !.item = f,
                                       !.rec = SetFollowUp(row, f, "EXECUTING", at)]]
      BY <2>2 DEF AcceptRecovery
    <3>2. [NoJob EXCEPT !.pc = "claim_recovery", !.at = at, !.item = f,
                        !.rec = SetFollowUp(row, f, "EXECUTING", at)].pc = "claim_recovery"
      BY DEF NoJob
    <3> QED BY <3>1, <3>2 DEF LoadRecovery
  <2>3. CASE LoadRecheck(w)
    <3>1. PICK rec :
            job' = [job EXCEPT ![w] = [NoJob EXCEPT !.pc = "claim_check", !.at = now,
                                                    !.eligible = MayCloseWindow, !.rec = rec]]
      BY <2>3 DEF LoadRecheck
    <3>2. [NoJob EXCEPT !.pc = "claim_check", !.at = now, !.eligible = MayCloseWindow,
                        !.rec = rec].pc = "claim_check"
      BY DEF NoJob
    <3>3. UNCHANGED <<row, cancels>> /\ row.state \in {"VERIFYING", "AWAITING_PROOF"}
      BY <2>3 DEF LoadRecheck, MayRecheck
    <3> QED BY <3>1, <3>2, <3>3
  <2> QED BY <2>1, <2>2, <2>3 DEF Ask
<1>1. job'[w] = begun /\ \A x \in Sessions \ {w} : job'[x] = job[x]
  BY DEF TypeOK
<1>2. InStage(begun) /\ begun.pc # "record_claim"
  BY DEF InStage
<1> QED BY <1>1, <1>2, StepKeepsStages

\* The end of a call changes no stage.
LEMMA DropKeepsStages ==
  ASSUME TypeOK, StagesInv, NEW w \in Sessions, job' = [job EXCEPT ![w] = NoJob],
         UNCHANGED <<row, cancels>>
  PROVE  StagesInv'
<1>1. job'[w] = NoJob /\ \A x \in Sessions \ {w} : job'[x] = job[x]
  BY DEF TypeOK
<1>2. InStage(NoJob) /\ NoJob.pc # "record_claim"
  BY DEF InStage, NoJob
<1> QED BY <1>1, <1>2, StepKeepsStages

\* The action is done once, and its claim is still to be stored
\* (confirm_resolution_action).
LEMMA ExecuteKeepsStages ==
  ASSUME TypeOK, OwnershipInv, StagesInv, NEW w \in Sessions, Execute(w)
  PROVE  /\ StagesInv'
         /\ cancels = 0 /\ cancels' = 1 /\ UNCHANGED row
         /\ row.state \notin {"REQUESTED", "AWAITING_CONFIRMATION"}
<1>1. /\ job[w] \in Job /\ job[w].rec \in Record /\ job[w].rec.checks \in Nat
      /\ job[w].pc = "execute" /\ UNCHANGED row /\ cancels' = cancels + 1
  BY DEF TypeOK, Job, Execute, Record
<1>2. PICK receipt \in ProviderReceipts :
        job' = [job EXCEPT
                  ![w].pc  = "record_claim",
                  ![w].rec = Transition([job[w].rec EXCEPT !.claim = Accepted(receipt),
                                                           !.checks = @ + 1],
                                        "VERIFYING", now)]
  BY DEF Execute
<1> DEFINE rec      == job[w].rec
           accepted == Accepted(receipt)
           checks   == rec.checks + 1
           claimed  == [rec EXCEPT !.claim = accepted, !.checks = checks]
           moved    == Transition(claimed, "VERIFYING", now)
<1>3. accepted \in Receipt /\ checks \in Nat
  BY <1>1, AcceptedTyped, ProviderAssumption
<1>4. job' = [job EXCEPT ![w].pc = "record_claim", ![w].rec = moved]
  BY <1>2
<1> HIDE DEF accepted, checks
<1>5. claimed \in Record /\ claimed.version = rec.version
  BY <1>1, <1>3 DEF Record
<1> HIDE DEF claimed
<1>6. moved.version = rec.version
  BY <1>5, TransitionKeeps
<1> HIDE DEF moved
<1>7. /\ job'[w].pc = "record_claim" /\ job'[w].rec = moved
      /\ \A x \in Sessions \ {w} : job'[x] = job[x]
  BY <1>1, <1>4 DEF TypeOK, Job
<1>8. cancels = 0 /\ cancels' = 1 /\ row.state \notin {"REQUESTED", "AWAITING_CONFIRMATION"}
  BY <1>1 DEF OwnershipInv, ExecutionIsClaimed
<1>9. rec.version = row.version => row.state = "EXECUTING"
  BY <1>1 DEF StagesInv, Current
<1>10. ~row.claim.valid
  BY <1>8 DEF StagesInv
<1>11. StagesInv'
  BY <1>1, <1>6, <1>7, <1>8, <1>9, <1>10 DEF StagesInv, Current
<1> QED BY <1>1, <1>8, <1>11

\* A judgement is of a look that is still in progress in the store
\* (_record_verification).
LEMMA ReadBackKeepsStages ==
  ASSUME TypeOK, OutcomeInv, StagesInv, NEW w \in Sessions, ReadBack(w)
  PROVE  StagesInv'
<1>1. /\ job[w] \in Job /\ job[w].rec \in Record
      /\ job[w].at \in Int /\ job[w].eligible \in BOOLEAN
      /\ job[w].pc = "read_back" /\ UNCHANGED <<row, cancels>>
  BY DEF TypeOK, Job, ReadBack
<1> DEFINE at  == IF job[w].at = Never THEN now ELSE job[w].at
           rec == job[w].rec
<1>2. PICK evidence \in ProviderEvidence :
        job' = [job EXCEPT
                  ![w].pc  = "conclude",
                  ![w].rec = RecordVerification(job[w].rec, Collected(evidence),
                                                job[w].eligible, at)]
  BY DEF ReadBack
<1>3. at \in Int
  BY <1>1, TimeAssumption DEF TypeOK
<1>4. Collected(evidence) \in Evidence
  BY CollectedTyped, ProviderAssumption
<1>5. CopyIsSound(job[w], now)
  BY DEF OutcomeInv
<1>6. /\ ChargesKnown(rec, at) /\ ~HasSupport(rec, {"EXECUTING"})
      /\ job[w].eligible => rec.attempts # <<>> /\ at >= DueAfter(LastAttempt(rec))
  BY <1>1, <1>5 DEF CopyIsSound, BeforeVerdict
<1> HIDE DEF at
<1> DEFINE judged == RecordVerification(rec, Collected(evidence), job[w].eligible, at)
<1>7. job' = [job EXCEPT ![w].pc = "conclude", ![w].rec = judged]
  BY <1>2
<1>8. judged.state \in Terminal \cup {"AWAITING_PROOF"}
  BY <1>1, <1>3, <1>4, <1>6, JudgementIsSound
<1>9. judged.version = rec.version
  BY <1>1, <1>3, <1>4, RecordVerificationExtends
<1> HIDE DEF judged
<1>10. /\ job'[w].pc = "conclude" /\ job'[w].rec = judged
       /\ \A x \in Sessions \ {w} : job'[x] = job[x]
  BY <1>1, <1>7 DEF TypeOK, Job
<1>11. rec.version = row.version => row.state = "VERIFYING"
  BY <1>1 DEF StagesInv, Current
<1>12. InStage(job'[w])
  BY <1>8, <1>9, <1>10, <1>11 DEF InStage
<1> QED BY <1>1, <1>10, <1>12, StepKeepsStages

\* A follow-up is at no stage of the ledger (confirm_recovery_action).
LEMMA RecoveryKeepsStages ==
  ASSUME TypeOK, StagesInv, NEW w \in Sessions, CallRecovery(w) \/ ReloadRecovery(w)
  PROVE  StagesInv'
<1>1. CASE job' = [job EXCEPT ![w] = NoJob] /\ UNCHANGED <<row, cancels>>
  BY <1>1, DropKeepsStages
<1>2. CASE /\ UNCHANGED <<row, cancels>>
           /\ \E rec, succeeded :
                \/ job' = [job EXCEPT ![w].pc = "reload", ![w].succeeded = succeeded]
                \/ job' = [job EXCEPT ![w].pc = "finish", ![w].rec = rec]
  <2>1. job'[w].pc \in {"reload", "finish"} /\ \A x \in Sessions \ {w} : job'[x] = job[x]
    BY <1>2 DEF TypeOK, Job
  <2>2. InStage(job'[w])
    BY <2>1 DEF InStage
  <2> QED BY <1>2, <2>1, <2>2, StepKeepsStages
<1> QED BY <1>1, <1>2 DEF CallRecovery, ReloadRecovery

\* A save moves the store to the stage its session goes on from; the copies of
\* the others are out of date (save_owned).
LEMMA SaveKeepsStages ==
  ASSUME TypeOK, OwnershipInv, OutcomeInv, LooksArePaid, StagesInv, NEW w \in Sessions,
         NEW from \in SavePoints, NEW to \in {"idle", "execute", "read_back", "call_recovery"},
         from = "claim_execution" <=> to = "execute",
         from \in {"record_claim", "claim_check"} <=> to = "read_back",
         Save(w, from, to)
  PROVE  StagesInv'
<1>1. /\ job[w] \in Job /\ job[w].pc = from /\ UNCHANGED cancels
      /\ row.version \in Nat /\ cancels \in Nat
  BY DEF TypeOK, Job, Save, Record
<1>2. /\ row'.version = row.version + 1 /\ ValidRecord(row) /\ ValidRecord(row')
      /\ to = "execute" => row'.state = "EXECUTING"
      /\ to = "read_back" => row'.state = "VERIFYING"
  BY SaveStages
<1>3. /\ \A x \in Sessions \ {w} : job'[x] = job[x]
      /\ job'[w].pc = to
  BY <1>1 DEF TypeOK, Job, Save, NoJob
<1>4. \A x \in Sessions \ {w} :
        job[x].pc # "idle" => job[x].rec.version # row'.version
  <2>1. \A x \in Sessions \ {w} : job[x].pc # "idle" => job[x].rec.version <= row.version
    BY DEF OwnershipInv, CopiesFollowTheStore
  <2>2. \A x \in Sessions \ {w} : job[x].rec.version \in Nat
    BY DEF TypeOK, Job, Record
  <2> QED BY <1>1, <1>2, <2>1, <2>2
<1>5. IF row'.claim.valid THEN cancels = 1 ELSE row'.checks = 0
  <2>1. CASE from = "claim_execution"
    <3>1. /\ row.state = "AWAITING_CONFIRMATION" /\ row'.state = "EXECUTING"
          /\ row'.checks = row.checks
      BY <2>1, SaveStages
    <3> QED BY <1>2, <3>1, ClaimByState DEF StagesInv
  <2>2. CASE from = "record_claim"
    <3>1. row'.state = "VERIFYING" /\ cancels = 1
      BY <1>1, <2>2, SaveStages DEF StagesInv
    <3> QED BY <1>2, <3>1, ClaimByState
  <2>3. CASE from \in {"claim_check", "conclude"}
    <3>1. /\ row.state \in {"VERIFYING", "AWAITING_PROOF"}
          /\ row'.state \notin {"AWAITING_CONFIRMATION", "EXECUTING"}
      BY <2>3, SaveStages DEF Terminal
    <3> QED BY <1>2, <3>1, ClaimByState DEF StagesInv
  <2>4. CASE from \in {"claim_recovery", "finish"}
    <3>1. row'.state = row.state /\ row'.checks = row.checks
      BY <2>4, SaveStages
    <3> QED BY <1>2, <3>1, ClaimByState DEF StagesInv
  <2> QED BY <2>1, <2>2, <2>3, <2>4 DEF SavePoints
<1>6. ASSUME NEW x \in Sessions
      PROVE  /\ job'[x].pc = "record_claim" => cancels = 1
             /\ job'[x].pc = "conclude" => job'[x].rec.state \in Terminal \cup {"AWAITING_PROOF"}
             /\ job'[x].rec.version = row'.version =>
                  /\ job'[x].pc \in {"execute", "record_claim"} => row'.state = "EXECUTING"
                  /\ job'[x].pc = "claim_check" => row'.state \in {"VERIFYING", "AWAITING_PROOF"}
                  /\ job'[x].pc \in {"read_back", "conclude"} => row'.state = "VERIFYING"
  <2>1. CASE x = w
    BY <1>2, <1>3, <2>1
  <2>2. CASE x # w
    BY <1>3, <1>4, <2>2 DEF StagesInv
  <2> QED BY <2>1, <2>2
<1> QED BY <1>1, <1>5, <1>6 DEF StagesInv, Current

\* Before the record is first stored there is no claim and no look.
LEMMA StartKeepsStages ==
  ASSUME TypeOK, OwnershipInv, StagesInv, Start
  PROVE  /\ StagesInv' /\ UNCHANGED cancels
         /\ row'.state = "AWAITING_CONFIRMATION" /\ row'.claim = row.claim
         /\ row'.checks = row.checks
<1>1. row = Unborn /\ UNCHANGED <<job, cancels>> /\ \A w \in Sessions : job[w] = NoJob
  BY DEF Start, OwnershipInv, NothingBeforeStart
<1>2. /\ row'.state = "AWAITING_CONFIRMATION" /\ row'.claim = row.claim
      /\ row'.checks = row.checks
  BY <1>1 DEF Start, Transition, Unborn
<1>3. NoJob.pc = "idle"
  BY DEF NoJob
<1> QED BY <1>1, <1>2, <1>3 DEF StagesInv

\* Initially all is at its first stage.
LEMMA InitStages == Init => StagesInv
<1> SUFFICES ASSUME Init PROVE StagesInv
  OBVIOUS
<1>1. row = Unborn /\ \A w \in Sessions : job[w] = NoJob
  BY DEF Init
<1>2. ~Unborn.claim.valid /\ Unborn.checks = 0 /\ NoJob.pc = "idle"
  BY DEF NoJob, Unborn, NoReceipt
<1> QED BY <1>1, <1>2 DEF StagesInv

\* The induction step, for every action of the specification.
LEMMA NextKeepsStages ==
  ASSUME TypeOK, OwnershipInv, OutcomeInv, LooksArePaid, StagesInv, [Next]_vars
  PROVE  StagesInv'
<1>1. CASE Start
  BY <1>1, StartKeepsStages
<1>2. ASSUME NEW w \in Sessions, Ask(w) PROVE StagesInv'
  BY <1>2, AskKeepsStages
<1>3. ASSUME NEW w \in Sessions, Proceed(w) PROVE StagesInv'
  <2>1. CASE RecordClaim(w) \/ ClaimCheck(w)
    BY <2>1, SaveKeepsStages DEF RecordClaim, ClaimCheck, SavePoints
  <2>2. CASE ClaimExecution(w) \/ ClaimRecovery(w)
    BY <2>2, SaveKeepsStages DEF ClaimExecution, ClaimRecovery, SavePoints
  <2>3. CASE Conclude(w) \/ Finish(w)
    BY <2>3, SaveKeepsStages DEF Conclude, Finish, SavePoints
  <2>4. CASE SaveRefused(w)
    BY <2>4, DropKeepsStages DEF SaveRefused
  <2>5. CASE Execute(w) \/ ReadBack(w) \/ CallRecovery(w) \/ ReloadRecovery(w)
    BY <2>5, ExecuteKeepsStages, ReadBackKeepsStages, RecoveryKeepsStages
  <2> QED BY <1>3, <2>1, <2>2, <2>3, <2>4, <2>5 DEF Proceed
<1>4. CASE \E w \in Sessions : CallLost(w)
  BY <1>4, DropKeepsStages DEF CallLost
<1>5. CASE Tick \/ UNCHANGED vars
  <2>1. UNCHANGED <<row, job, cancels>>
    BY <1>5 DEF Tick, vars
  <2> QED BY <2>1 DEF StagesInv, Current
<1> QED BY <1>1, <1>2, <1>3, <1>4, <1>5 DEF Next

\* The stages are kept to, whatever sessions do and wherever they stop.
THEOREM StagesKept == Spec => []StagesInv
<1>1. TypeOK /\ OwnershipInv /\ OutcomeInv /\ LooksArePaid /\ StagesInv /\ [Next]_vars
        => StagesInv'
  BY NextKeepsStages
<1> QED BY <1>1, InitStages, TypeCorrect, Ownership, OutcomeSound, LooksPaid, PTL DEF Spec

(***************************************************************************)
(* The refinement                                                          *)
(***************************************************************************)
\* The ledger does not see what changes neither state, looks nor claim.
LEMMA Unseen ==
  ASSUME row'.state = row.state, row'.checks = row.checks,
         row'.claim.valid = row.claim.valid, cancels' = cancels
  PROVE  UNCHANGED Ledger!ledger
BY DEF Ledger!ledger

\* Each save is one step of the ledger, or none (save_owned).
LEMMA SaveRefines ==
  ASSUME TypeOK, OwnershipInv, OutcomeInv, LooksArePaid, StagesInv, NEW w \in Sessions,
         NEW from \in SavePoints, NEW to, Save(w, from, to)
  PROVE  [Ledger!LedgerNext]_(Ledger!ledger)
<1>1. /\ job[w].pc = from /\ UNCHANGED cancels /\ job[w].rec \in Record
      /\ row.claim.valid \in BOOLEAN /\ row.checks \in Nat
  BY DEF Save, TypeOK, Job, Record, Receipt
<1>2. row'.claim.valid \in BOOLEAN /\ row'.checks <= MaxChecks
  BY <1>1, SaveStages DEF Record, Receipt, ValidRecord, BudgetValid
<1>3. CASE from = "claim_execution"
  <2>1. /\ row.state = "AWAITING_CONFIRMATION" /\ row'.state = "EXECUTING"
        /\ row'.checks = row.checks /\ ~row.claim.valid /\ ~row'.claim.valid
    BY <1>3, SaveStages, ClaimByState
  <2>2. Ledger!GiveConsent
    BY <1>1, <1>2, <2>1 DEF Ledger!GiveConsent
  <2> QED BY <2>2 DEF Ledger!LedgerNext
<1>4. CASE from = "record_claim"
  <2>1. /\ row.state = "EXECUTING" /\ row'.state = "VERIFYING"
        /\ row'.checks = row.checks + 1 /\ ~row.claim.valid /\ row'.claim.valid
    BY <1>4, SaveStages, ClaimByState
  <2>2. cancels = 1 /\ row.checks = 0
    BY <1>1, <1>4, <2>1 DEF StagesInv
  <2>3. Ledger!RecordTheClaim
    BY <1>1, <1>2, <2>1, <2>2 DEF Ledger!RecordTheClaim
  <2> QED BY <2>3 DEF Ledger!LedgerNext
<1>5. CASE from = "claim_check"
  <2>1. /\ row.state \in {"VERIFYING", "AWAITING_PROOF"} /\ row'.state = "VERIFYING"
        /\ row'.checks = row.checks + 1 /\ row.claim.valid /\ row'.claim.valid
    BY <1>5, SaveStages, ClaimByState
  <2>2. Ledger!Look
    BY <1>1, <1>2, <2>1, MaxChecksAssumption DEF Ledger!Look
  <2> QED BY <2>2 DEF Ledger!LedgerNext
<1>6. CASE from = "conclude"
  <2>1. /\ row.state = "VERIFYING" /\ row'.state \in {"VERIFIED", "NOT_COMPLETED", "AWAITING_PROOF"}
        /\ row'.checks = row.checks /\ row.claim.valid /\ row'.claim.valid
    BY <1>6, SaveStages, ClaimByState DEF Terminal
  <2>2. Ledger!Judge
    BY <1>1, <1>2, <2>1 DEF Ledger!Judge
  <2> QED BY <2>2 DEF Ledger!LedgerNext
<1>7. CASE from \in {"claim_recovery", "finish"}
  <2>1. row'.state = row.state /\ row'.checks = row.checks
    BY <1>7, SaveStages
  <2>2. row'.claim.valid = row.claim.valid
    BY <1>1, <1>2, <2>1, SaveStages, ClaimByState
  <2> QED BY <1>1, <2>1, <2>2, Unseen
<1> QED BY <1>3, <1>4, <1>5, <1>6, <1>7 DEF SavePoints

\* Asking, the cancellation itself, and every step of the service.
LEMMA NextRefines ==
  ASSUME TypeOK, OwnershipInv, OutcomeInv, LooksArePaid, StagesInv, [Next]_vars
  PROVE  [Ledger!LedgerNext]_(Ledger!ledger)
<1>1. CASE Start
  <2>1. row = Unborn
    BY <1>1 DEF Start, OwnershipInv, NothingBeforeStart
  <2>2. row.state = "REQUESTED"
    BY <2>1 DEF Unborn
  <2>3. Ledger!AskForConsent
    BY <1>1, <2>2, StartKeepsStages DEF Ledger!AskForConsent
  <2> QED BY <2>3 DEF Ledger!LedgerNext
<1>2. ASSUME NEW w \in Sessions, Execute(w) PROVE [Ledger!LedgerNext]_(Ledger!ledger)
  <2>1. /\ cancels = 0 /\ cancels' = 1 /\ UNCHANGED row
        /\ row.state \notin {"REQUESTED", "AWAITING_CONFIRMATION"}
    BY <1>2, ExecuteKeepsStages
  <2>2. Ledger!Act
    BY <2>1 DEF Ledger!Act
  <2> QED BY <2>2 DEF Ledger!LedgerNext
<1>3. ASSUME NEW w \in Sessions, Proceed(w) PROVE [Ledger!LedgerNext]_(Ledger!ledger)
  <2>1. CASE ClaimExecution(w) \/ RecordClaim(w)
    BY <2>1, SaveRefines DEF ClaimExecution, RecordClaim, SavePoints
  <2>2. CASE Conclude(w) \/ ClaimCheck(w)
    BY <2>2, SaveRefines DEF Conclude, ClaimCheck, SavePoints
  <2>3. CASE ClaimRecovery(w) \/ Finish(w)
    BY <2>3, SaveRefines DEF ClaimRecovery, Finish, SavePoints
  <2>4. CASE ReadBack(w) \/ CallRecovery(w) \/ ReloadRecovery(w) \/ SaveRefused(w)
    <3>1. UNCHANGED <<row, cancels>>
      BY <2>4 DEF ReadBack, CallRecovery, ReloadRecovery, SaveRefused
    <3> QED BY <3>1, Unseen
  <2> QED BY <1>2, <1>3, <2>1, <2>2, <2>3, <2>4 DEF Proceed
<1>4. CASE Tick \/ UNCHANGED vars \/ \E w \in Sessions : Ask(w) \/ CallLost(w)
  <2>1. UNCHANGED <<row, cancels>>
    BY <1>4 DEF Tick, vars, CallLost, Ask, LoadConfirm, LoadRecheck, LoadCharge,
                ExpireRecovery, DeclineRecovery, AcceptRecovery, LoadRecovery
  <2> QED BY <2>1, Unseen, SMTT(30)
<1> QED BY <1>1, <1>3, <1>4 DEF Next

\* The service implements the ledger: for every number of sessions, every budget
\* and every answer of the providers, the stored record goes through the ledger's
\* steps and no others (save_owned under confirm_resolution_action and
\* recheck_resolution).
THEOREM ImplementsLedger == Spec => RefinesLedger
<1>1. Init => Ledger!LedgerInit
  <2> SUFFICES ASSUME Init PROVE Ledger!LedgerInit
    OBVIOUS
  <2>1. row = Unborn /\ cancels = 0
    BY DEF Init
  <2>2. row.state = "REQUESTED" /\ ~row.claim.valid /\ row.checks = 0
    BY <2>1 DEF Unborn, NoReceipt
  <2> QED BY <2>1, <2>2 DEF Ledger!LedgerInit
<1>2. TypeOK /\ OwnershipInv /\ OutcomeInv /\ LooksArePaid /\ StagesInv /\ [Next]_vars
        => [Ledger!LedgerNext]_(Ledger!ledger)
  BY NextRefines
<1> QED BY <1>1, <1>2, TypeCorrect, Ownership, OutcomeSound, LooksPaid, StagesKept, PTL
        DEF Spec, RefinesLedger, Ledger!LedgerSpec
=============================================================================
