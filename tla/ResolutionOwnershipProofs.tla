---------------------- MODULE ResolutionOwnershipProofs ----------------------
(***************************************************************************)
(* Types, and who may save what.  Every operator that builds or changes a  *)
(* record returns a record, so every action keeps TypeOK.  OwnershipInv is *)
(* inductive relative to it: a current copy extends the store, and the     *)
(* cancellation and each follow-up belong to at most one session.  At most *)
(* once, and the memory of the record, follow.                             *)
(***************************************************************************)
EXTENDS ResolutionProperties, TLAPS

(***************************************************************************)
(* Values and the operators on records                                     *)
(***************************************************************************)

\* The fixed values belong to their types (models.py, lifecycle.py).
LEMMA ValuesTyped ==
  /\ NoReceipt \in Receipt
  /\ NoCharge \in Charge
  /\ Unreadable \in Evidence
  /\ Unborn \in Record
  /\ NoJob \in Job
  /\ Never \in Int
<1>1. NoReceipt \in Receipt
  BY DEF NoReceipt, Receipt, Digests
<1>2. NoCharge \in Charge
  BY DEF NoCharge, Charge, Digests, Never
<1>3. Unreadable \in Evidence
  BY DEF Unreadable, Evidence, Digests
<1>4. Unborn \in Record
  BY <1>1 DEF Unborn, Record, States, Never, Notices, FollowUps, FollowUp, FollowUpStates
<1>5. NoJob \in Job
  BY <1>4 DEF NoJob, Job, Places, SavePoints, Never
<1>6. Never \in Int
  BY DEF Never
<1> QED BY <1>1, <1>2, <1>3, <1>4, <1>5, <1>6

\* The verifier gives one of its reasons on every input (verify_cancellation).
LEMMA VerifyTyped ==
  ASSUME NEW receipt, NEW evidence, NEW final, NEW expected, NEW charge, NEW deadline, NEW time
  PROVE  Verify(receipt, evidence, final, expected, charge, deadline, time) \in Reasons
  BY DEF Verify, Reasons

\* A reason leads to an outcome or back to waiting (_terminal_state_for).
LEMMA StateForTyped ==
  ASSUME NEW reason
  PROVE  StateFor(reason) \in Terminal \cup {"AWAITING_PROOF"}
  BY DEF StateFor, Terminal

\* A change of state gives a record (_transition).
LEMMA TransitionTyped ==
  ASSUME NEW rec \in Record, NEW next \in States, NEW at \in Int
  PROVE  Transition(rec, next, at) \in Record
<1> DEFINE moves == rec.moves + 1
<1>1. moves \in Nat
  BY DEF Record
<1>2. Transition(rec, next, at)
        = [rec EXCEPT !.state = next, !.moves = moves, !.movedAt = at, !.updatedAt = at]
  BY DEF Transition
<1> HIDE DEF moves
<1> QED BY <1>1, <1>2, ZenonT(30) DEF Record

\* What is kept of the provider's answer is a receipt (_execute).
LEMMA AcceptedTyped ==
  ASSUME NEW receipt \in Receipt
  PROVE  Accepted(receipt) \in Receipt
  BY DEF Accepted, Receipt, Digests

\* What is kept of a read-back is evidence (_collect_independent_evidence).
LEMMA CollectedTyped ==
  ASSUME NEW evidence \in Evidence
  PROVE  Collected(evidence) \in Evidence
  BY ValuesTyped DEF Collected

\* The charge that is weighed is one of the record's, or none
\* (_record_verification).
LEMMA ChargeToWeighTyped ==
  ASSUME NEW rec \in Record, NEW at
  PROVE  ChargeToWeigh(rec, at) \in Charge
<1> DEFINE known  == {i \in DOMAIN rec.charges : rec.charges[i].at <= at}
           latest == {i \in known : \A j \in known : j <= i}
<1>1. \A i \in latest : rec.charges[i] \in Charge
  BY DEF Record
<1>2. ChargeToWeigh(rec, at)
        = IF latest = {} THEN NoCharge ELSE rec.charges[CHOOSE i \in latest : TRUE]
  BY DEF ChargeToWeigh, LatestCharge
<1> HIDE DEF latest
<1> QED BY <1>1, <1>2, ValuesTyped

\* Settling a follow-up gives a follow-up (_record_verification).
LEMMA SettleTyped ==
  ASSUME NEW followUp \in FollowUp, NEW verdict
  PROVE  Settle(followUp, verdict) \in FollowUp
  BY DEF Settle, FollowUp, FollowUpStates

\* Noting a judgement gives a record (_record_verification).
LEMMA JudgeTyped ==
  ASSUME NEW rec \in Record, NEW attempt \in Attempt
  PROVE  Judge(rec, attempt) \in Record
<1> DEFINE next     == Judge(rec, attempt).nextCheck
           resolved == Judge(rec, attempt).resolvedAt
           attempts == Append(rec.attempts, attempt)
<1>1. Judge(rec, attempt)
        = [rec EXCEPT !.judged = TRUE, !.attempts = attempts,
                      !.nextCheck = next, !.resolvedAt = resolved]
  BY DEF Judge, Record
<1>2. Interval * rec.checks \in Int
  BY IntervalAssumption DEF Record
<1>3. next \in Int /\ resolved \in Int
  BY <1>2 DEF Judge, Record, Attempt, Never
<1>4. attempts \in Seq(Attempt)
  BY DEF Record
<1> HIDE DEF next, resolved, attempts
<1> QED BY <1>1, <1>3, <1>4, ZenonT(30) DEF Record

\* Proposing a follow-up gives a record (_create_recovery_proposal).
LEMMA ProposeTyped ==
  ASSUME NEW rec \in Record, NEW reason \in FollowUps, NEW at \in Int
  PROVE  Propose(rec, reason, at) \in Record
<1> DEFINE proposal == [state |-> "AWAITING_CONFIRMATION", expires |-> at + ProposalTTL]
<1>1. proposal \in FollowUp
  BY TimeAssumption DEF FollowUp, FollowUpStates
<1> HIDE DEF proposal
<1>2. [rec EXCEPT !.recovery[reason] = proposal] \in Record
  BY <1>1 DEF Record
<1> QED BY <1>2 DEF Propose, proposal

\* Giving a notice gives a record (_record_verification).
LEMMA NotifyTyped ==
  ASSUME NEW rec \in Record, NEW reason \in Notices \cup {None}, NEW seen, NEW at \in Int,
         NEW proposing
  PROVE  Notify(rec, reason, seen, at, proposing) \in Record
<1> DEFINE noted == [rec EXCEPT !.attention = @ \cup {reason}]
<1>1. CASE reason = None \/ reason \in rec.attention
  BY <1>1 DEF Notify
<1>2. CASE ~(reason = None \/ reason \in rec.attention)
  <2>1. noted \in Record
    BY <1>2 DEF Record
  <2>2. MayPropose(rec, reason, seen) => Propose(noted, reason, at) \in Record
    BY <2>1, ProposeTyped DEF MayPropose
  <2> QED BY <1>2, <2>1, <2>2 DEF Notify
<1> QED BY <1>1, <1>2

\* A moment calls for one of the notices or for none (attention_candidate).
LEMMA NoticeTyped ==
  ASSUME NEW rec, NEW seen, NEW at
  PROVE  Notice(rec, seen, at) \in Notices \cup {None}
  BY DEF Notice, Notices, FollowUps

\* A judged record is a record (_record_verification).
LEMMA RecordVerificationTyped ==
  ASSUME NEW rec \in Record, NEW evidence \in Evidence, NEW eligible \in BOOLEAN, NEW at \in Int
  PROVE  RecordVerification(rec, evidence, eligible, at) \in Record
<1> DEFINE charge  == ChargeToWeigh(rec, at)
           reason  == Verify(rec.claim, evidence, eligible /\ rec.checks >= MaxChecks, Target,
                             charge, rec.deadline, at)
           attempt == [at |-> at, count |-> rec.checks, eligible |-> eligible,
                       charge |-> charge.id, evidence |-> evidence, reason |-> reason]
           moved   == Transition(Judge(rec, attempt), StateFor(reason), at)
           settled == [moved EXCEPT !.recovery =
                         [f \in FollowUps |-> Settle(rec.recovery[f], VerdictOf(reason))]]
<1>1. attempt \in Attempt
  <2>1. charge.id \in ChargeIds \cup {None}
    BY ChargeToWeighTyped DEF Charge
  <2>2. reason \in Reasons
    BY VerifyTyped
  <2>3. rec.checks \in Nat
    BY DEF Record
  <2> HIDE DEF charge, reason
  <2> QED BY <2>1, <2>2, <2>3 DEF Attempt
<1>2. StateFor(reason) \in States
  BY StateForTyped DEF States, Terminal
<1>3. moved \in Record
  BY <1>1, <1>2, JudgeTyped, TransitionTyped
<1>4. [f \in FollowUps |-> Settle(rec.recovery[f], VerdictOf(reason))] \in [FollowUps -> FollowUp]
  BY SettleTyped DEF Record
<1>5. settled \in Record
  <2> HIDE DEF moved, reason
  <2> QED BY <1>3, <1>4 DEF Record
<1>6. RecordVerification(rec, evidence, eligible, at)
        = Notify(settled, Notice(settled, evidence, at), evidence, at, settled.state \notin Terminal)
  BY DEF RecordVerification
<1> HIDE DEF settled
<1> QED BY <1>5, <1>6, NoticeTyped, NotifyTyped

\* Moving a follow-up gives a record (confirm_recovery_action).
LEMMA SetFollowUpTyped ==
  ASSUME NEW rec \in Record, NEW f \in FollowUps, NEW state \in FollowUpStates, NEW at \in Int
  PROVE  SetFollowUp(rec, f, state, at) \in Record
  BY ZenonT(30) DEF SetFollowUp, Record, FollowUp

\* A stored record is a record (save_owned).
LEMMA SavedTyped ==
  ASSUME NEW rec \in Record
  PROVE  Saved(rec) \in Record
<1> DEFINE version == rec.version + 1
<1>1. version \in Nat
  BY DEF Record
<1>2. Saved(rec) = [rec EXCEPT !.version = version]
  BY DEF Saved
<1> HIDE DEF version
<1> QED BY <1>1, <1>2 DEF Record

(***************************************************************************)
(* Actions                                                                 *)
(***************************************************************************)
\* The initial state has the right types.
LEMMA InitTyped == Init => TypeOK
  BY ValuesTyped, TimeAssumption DEF Init, TypeOK

\* start_resolution keeps the types.
LEMMA StartTyped == TypeOK /\ Start => TypeOK'
<1> SUFFICES ASSUME TypeOK, Start PROVE TypeOK'
  OBVIOUS
<1>1. PICK contract \in Contracts :
        row' = Transition([Unborn EXCEPT !.deadline = contract.deadline,
                                         !.tracksCharges = contract.tracksCharges],
                          "AWAITING_CONFIRMATION", now)
  BY DEF Start
<1> DEFINE asked == [Unborn EXCEPT !.deadline = contract.deadline,
                                   !.tracksCharges = contract.tracksCharges]
<1>2. contract.deadline \in Int /\ contract.tracksCharges \in BOOLEAN
  BY TimeAssumption DEF Never
<1>3. asked \in Record
  BY <1>2, ValuesTyped DEF Record
<1>4. "AWAITING_CONFIRMATION" \in States /\ now \in Int
  BY TimeAssumption DEF States, TypeOK
<1> HIDE DEF asked
<1>5. row' \in Record
  BY <1>1, <1>3, <1>4, TransitionTyped DEF asked
<1> QED BY <1>5 DEF Start, TypeOK

\* A session that begins a call is in a place of the code, with a record.
LEMMA BeginTyped ==
  ASSUME TypeOK, NEW w \in Sessions, NEW pc \in Places, NEW rec \in Record, NEW at \in Int,
         Begin(w, pc, rec, at)
  PROVE  job' \in [Sessions -> Job]
<1> DEFINE begun == [NoJob EXCEPT !.pc = pc, !.rec = rec, !.at = at]
<1>1. begun \in Job
  BY ValuesTyped DEF Job
<1>2. job' = [job EXCEPT ![w] = begun]
  BY DEF Begin
<1> HIDE DEF begun
<1> QED BY <1>1, <1>2 DEF TypeOK

\* Every save that goes through keeps the types (save_owned).
LEMMA SaveTyped ==
  ASSUME TypeOK, NEW w \in Sessions, NEW from, NEW to \in Places, Save(w, from, to)
  PROVE  TypeOK'
<1>1. job[w] \in Job /\ job[w].rec \in Record
  BY DEF TypeOK, Job
<1>2. Saved(job[w].rec) \in Record
  BY <1>1, SavedTyped
<1> DEFINE copy == Saved(job[w].rec)
           saved == [job[w] EXCEPT !.pc = to, !.rec = copy]
<1> HIDE DEF copy
<1>3. saved \in Job
  BY <1>1, <1>2 DEF Job, copy
<1>4. job' = [job EXCEPT ![w] = IF to = "idle" THEN NoJob ELSE saved]
  BY DEF Save, copy, TypeOK
<1> HIDE DEF saved
<1>5. job' \in [Sessions -> Job]
  BY <1>3, <1>4, ValuesTyped DEF TypeOK
<1>6. row' \in Record
  BY <1>2 DEF Save
<1> QED BY <1>5, <1>6 DEF Save, TypeOK

\* Beginning a confirmation keeps the types (confirm_resolution_action).
LEMMA LoadConfirmTyped ==
  ASSUME TypeOK, NEW w \in Sessions, LoadConfirm(w)
  PROVE  TypeOK'
<1> DEFINE attested == [row EXCEPT !.attested = TRUE]
<1>1. attested \in Record
  BY DEF TypeOK, Record
<1>2. now \in Int /\ "EXECUTING" \in States
  BY TimeAssumption DEF TypeOK, States
<1> HIDE DEF attested
<1>3. Transition(attested, "EXECUTING", now) \in Record
  BY <1>1, <1>2, TransitionTyped
<1>4. "claim_execution" \in Places /\ Never \in Int
  BY DEF Places, SavePoints, Never
<1>5. job' \in [Sessions -> Job]
  BY <1>3, <1>4, BeginTyped DEF LoadConfirm, attested
<1> QED BY <1>5 DEF LoadConfirm, TypeOK

\* Asking the provider to cancel keeps the types (_execute).
LEMMA ExecuteTyped ==
  ASSUME TypeOK, NEW w \in Sessions, Execute(w)
  PROVE  TypeOK'
<1>1. job[w] \in Job /\ job[w].rec \in Record
  BY DEF TypeOK, Job
<1>2. PICK receipt \in ProviderReceipts :
        job' = [job EXCEPT
                  ![w].pc  = "record_claim",
                  ![w].rec = Transition([job[w].rec EXCEPT !.claim = Accepted(receipt),
                                                           !.checks = @ + 1],
                                        "VERIFYING", now)]
  BY DEF Execute
<1> DEFINE accepted == Accepted(receipt)
           checks   == job[w].rec.checks + 1
           claimed  == [job[w].rec EXCEPT !.claim = accepted, !.checks = checks]
           moved    == Transition(claimed, "VERIFYING", now)
<1>3. accepted \in Receipt
  BY AcceptedTyped, ProviderAssumption
<1>4. checks \in Nat
  <2>1. job[w].rec.checks \in Nat
    BY <1>1 DEF Record
  <2> QED BY <2>1
<1>5. job' = [job EXCEPT ![w].pc = "record_claim", ![w].rec = moved]
  BY <1>2
<1> HIDE DEF accepted, checks
<1>6. claimed \in Record
  BY <1>1, <1>3, <1>4 DEF Record
<1> HIDE DEF claimed
<1>7. now \in Int /\ "VERIFYING" \in States
  BY TimeAssumption DEF TypeOK, States
<1>8. moved \in Record
  BY <1>6, <1>7, TransitionTyped
<1> HIDE DEF moved
<1>9. job' \in [Sessions -> Job]
  BY <1>5, <1>8, ZenonT(30) DEF TypeOK, Job, Places, SavePoints
<1> QED BY <1>9 DEF Execute, TypeOK

\* Looking at the provider and judging keeps the types (_record_verification).
LEMMA ReadBackTyped ==
  ASSUME TypeOK, NEW w \in Sessions, ReadBack(w)
  PROVE  TypeOK'
<1>1. job[w] \in Job /\ job[w].rec \in Record /\ job[w].at \in Int /\ job[w].eligible \in BOOLEAN
  BY DEF TypeOK, Job
<1> DEFINE at == IF job[w].at = Never THEN now ELSE job[w].at
<1>2. PICK evidence \in ProviderEvidence :
        job' = [job EXCEPT
                  ![w].pc  = "conclude",
                  ![w].rec = RecordVerification(job[w].rec, Collected(evidence),
                                                job[w].eligible, at)]
  BY DEF ReadBack
<1>3. at \in Int
  BY <1>1, TimeAssumption DEF TypeOK
<1>4. Collected(evidence) \in Evidence
  BY CollectedTyped, ProviderAssumption
<1> HIDE DEF at
<1> DEFINE judged == RecordVerification(job[w].rec, Collected(evidence), job[w].eligible, at)
<1>5. judged \in Record
  BY <1>1, <1>3, <1>4, RecordVerificationTyped
<1>6. job' = [job EXCEPT ![w].pc = "conclude", ![w].rec = judged]
  BY <1>2
<1> HIDE DEF judged
<1>7. job' \in [Sessions -> Job]
  BY <1>5, <1>6, ZenonT(30) DEF TypeOK, Job, Places, SavePoints
<1> QED BY <1>7 DEF ReadBack, TypeOK

\* Beginning a look keeps the types (recheck_resolution).
LEMMA LoadRecheckTyped ==
  ASSUME TypeOK, NEW w \in Sessions, LoadRecheck(w)
  PROVE  TypeOK'
<1> DEFINE checks  == row.checks + 1
           claimed == [row EXCEPT !.checks = checks]
           cleared == IF row.state = "AWAITING_PROOF"
                      THEN [claimed EXCEPT !.nextCheck = Never, !.judged = FALSE]
                      ELSE claimed
           moved   == Transition(cleared, "VERIFYING", now)
           begun   == [NoJob EXCEPT !.pc = "claim_check", !.at = now,
                                    !.eligible = MayCloseWindow, !.rec = moved]
<1>1. job' = [job EXCEPT ![w] = begun]
  BY DEF LoadRecheck
<1>2. checks \in Nat
  BY DEF TypeOK, Record
<1> HIDE DEF checks
<1>3. claimed \in Record
  BY <1>2 DEF TypeOK, Record
<1> HIDE DEF claimed
<1>4. cleared \in Record
  <2>1. [claimed EXCEPT !.nextCheck = Never, !.judged = FALSE] \in Record
    <3>1. Never \in Int
      BY DEF Never
    <3> QED BY <1>3, <3>1 DEF Record
  <2> QED BY <1>3, <2>1
<1> HIDE DEF cleared
<1>5. now \in Int /\ "VERIFYING" \in States
  BY TimeAssumption DEF TypeOK, States
<1>6. moved \in Record
  BY <1>4, <1>5, TransitionTyped
<1> HIDE DEF moved
<1>7. MayCloseWindow \in BOOLEAN
  BY DEF MayCloseWindow
<1>8. begun \in Job
  BY <1>5, <1>6, <1>7, ValuesTyped DEF Job, Places, SavePoints
<1> HIDE DEF begun
<1>9. job' \in [Sessions -> Job]
  BY <1>1, <1>8 DEF TypeOK
<1> QED BY <1>9 DEF LoadRecheck, TypeOK

\* The times a call may go by are times.
LEMMA RecentTimesTyped ==
  ASSUME TypeOK
  PROVE  RecentTimes \subseteq Int
  BY TimeAssumption DEF TypeOK, RecentTimes

\* Closing an expired proposal keeps the types (confirm_recovery_action).
LEMMA ExpireRecoveryTyped ==
  ASSUME TypeOK, NEW w \in Sessions, ExpireRecovery(w)
  PROVE  TypeOK'
<1>1. PICK f \in FollowUps, at \in RecentTimes :
        /\ LoadRecovery(w, f, at)
        /\ Begin(w, "finish", SetFollowUp(row, f, "EXPIRED", at), Never)
  BY DEF ExpireRecovery
<1>2. SetFollowUp(row, f, "EXPIRED", at) \in Record
  BY SetFollowUpTyped, RecentTimesTyped DEF TypeOK, FollowUpStates
<1>3. "finish" \in Places /\ Never \in Int
  BY DEF Places, SavePoints, Never
<1>4. job' \in [Sessions -> Job]
  BY <1>1, <1>2, <1>3, BeginTyped
<1> QED BY <1>1, <1>4 DEF LoadRecovery, TypeOK

\* Closing a declined proposal keeps the types (confirm_recovery_action).
LEMMA DeclineRecoveryTyped ==
  ASSUME TypeOK, NEW w \in Sessions, DeclineRecovery(w)
  PROVE  TypeOK'
<1>1. PICK f \in FollowUps, at \in RecentTimes :
        /\ LoadRecovery(w, f, at)
        /\ Begin(w, "finish", SetFollowUp(row, f, "DECLINED", at), Never)
  BY DEF DeclineRecovery
<1>2. SetFollowUp(row, f, "DECLINED", at) \in Record
  BY SetFollowUpTyped, RecentTimesTyped DEF TypeOK, FollowUpStates
<1>3. "finish" \in Places /\ Never \in Int
  BY DEF Places, SavePoints, Never
<1>4. job' \in [Sessions -> Job]
  BY <1>1, <1>2, <1>3, BeginTyped
<1> QED BY <1>1, <1>4 DEF LoadRecovery, TypeOK

\* Accepting a proposal keeps the types (confirm_recovery_action).
LEMMA AcceptRecoveryTyped ==
  ASSUME TypeOK, NEW w \in Sessions, AcceptRecovery(w)
  PROVE  TypeOK'
<1>1. PICK f \in FollowUps, at \in RecentTimes :
        /\ LoadRecovery(w, f, at)
        /\ job' = [job EXCEPT ![w] =
                     [NoJob EXCEPT !.pc = "claim_recovery", !.at = at, !.item = f,
                                   !.rec = SetFollowUp(row, f, "EXECUTING", at)]]
  BY DEF AcceptRecovery
<1> DEFINE accepted == SetFollowUp(row, f, "EXECUTING", at)
           begun    == [NoJob EXCEPT !.pc = "claim_recovery", !.at = at, !.item = f,
                                     !.rec = accepted]
<1>2. accepted \in Record /\ at \in Int
  BY SetFollowUpTyped, RecentTimesTyped DEF TypeOK, FollowUpStates
<1>3. job' = [job EXCEPT ![w] = begun]
  BY <1>1
<1> HIDE DEF accepted
<1>4. begun \in Job
  BY <1>2, ValuesTyped DEF Job, Places, SavePoints
<1> HIDE DEF begun
<1>5. job' \in [Sessions -> Job]
  BY <1>3, <1>4 DEF TypeOK
<1> QED BY <1>1, <1>5 DEF LoadRecovery, TypeOK

\* Asking for the follow-up keeps the types (confirm_recovery_action).
LEMMA CallRecoveryTyped ==
  ASSUME TypeOK, NEW w \in Sessions, CallRecovery(w)
  PROVE  TypeOK'
<1>1. job' \in [Sessions -> Job]
  <2>1. PICK succeeded \in BOOLEAN :
          job' = [job EXCEPT ![w].pc = "reload", ![w].succeeded = succeeded]
    BY DEF CallRecovery
  <2> DEFINE begun == [job[w] EXCEPT !.pc = "reload", !.succeeded = succeeded]
  <2>2. begun \in Job
    BY DEF TypeOK, Job, Places, SavePoints
  <2>3. job' = [job EXCEPT ![w] = begun]
    BY <2>1 DEF TypeOK
  <2> HIDE DEF begun
  <2> QED BY <2>2, <2>3 DEF TypeOK
<1>2. followUpCalls' \in [FollowUps -> Nat]
  <2> DEFINE f     == job[w].item
             calls == followUpCalls[f] + 1
  <2>1. f \in FollowUps => calls \in Nat
    BY DEF TypeOK
  <2>2. followUpCalls' = [followUpCalls EXCEPT ![f] = calls]
    BY DEF CallRecovery
  <2> HIDE DEF f, calls
  <2> QED BY <2>1, <2>2 DEF TypeOK
<1> QED BY <1>1, <1>2 DEF CallRecovery, TypeOK

\* Preparing the follow-up's result keeps the types (confirm_recovery_action).
LEMMA ReloadRecoveryTyped ==
  ASSUME TypeOK, NEW w \in Sessions, ReloadRecovery(w)
  PROVE  TypeOK'
<1> DEFINE f      == job[w].item
           result == IF ~job[w].succeeded THEN "FAILED"
                     ELSE IF IsRefund(job[w].rec, f) THEN "COMPLETED" ELSE "VERIFYING"
           after  == SetFollowUp(row, f, result, job[w].at)
<1>1. job[w].at \in Int /\ f \in FollowUps \cup {None}
  BY DEF TypeOK, Job
<1>2. result \in FollowUpStates
  BY DEF FollowUpStates
<1>3. after \in Record
  <2>1. CASE f \in FollowUps
    BY <1>1, <1>2, <2>1, SetFollowUpTyped DEF TypeOK
  <2>2. CASE f \notin FollowUps
    <3>1. after = [row EXCEPT !.recovery[f].state = result, !.updatedAt = job[w].at]
      BY DEF SetFollowUp
    <3> HIDE DEF result, after
    <3> QED BY <1>1, <2>2, <3>1 DEF TypeOK, Record
  <2> QED BY <2>1, <2>2
<1>4. \/ job' = [job EXCEPT ![w].pc = "finish", ![w].rec = after]
      \/ job' = [job EXCEPT ![w] = NoJob]
  BY DEF ReloadRecovery
<1> HIDE DEF after
<1>5. [job[w] EXCEPT !.pc = "finish", !.rec = after] \in Job
  BY <1>3 DEF TypeOK, Job, Places, SavePoints
<1>6. job' \in [Sessions -> Job]
  BY <1>4, <1>5, ValuesTyped DEF TypeOK
<1> QED BY <1>6 DEF ReloadRecovery, TypeOK

\* Beginning to store a charge keeps the types (record_outcome_violation).
LEMMA LoadChargeTyped ==
  ASSUME TypeOK, NEW w \in Sessions, LoadCharge(w)
  PROVE  TypeOK'
<1>1. PICK charge \in Charges, at \in RecentTimes :
        LET noted == [row EXCEPT !.charges = Append(@, charge), !.updatedAt = at]
        IN Begin(w, "finish",
                 Notify(noted, Notice(noted, Unreadable, at), Unreadable, at, TRUE), Never)
  BY DEF LoadCharge
<1> DEFINE charges == Append(row.charges, charge)
           noted   == [row EXCEPT !.charges = charges, !.updatedAt = at]
           noticed == Notify(noted, Notice(noted, Unreadable, at), Unreadable, at, TRUE)
<1>2. charge \in Charge
  BY TimeAssumption DEF Charges, Charge, Digests, TypeOK
<1>3. at \in Int
  BY RecentTimesTyped
<1>4. charges \in Seq(Charge)
  BY <1>2 DEF TypeOK, Record
<1>5. Begin(w, "finish", noticed, Never)
  BY <1>1
<1> HIDE DEF charges
<1>6. noted \in Record
  BY <1>3, <1>4 DEF TypeOK, Record
<1> HIDE DEF noted
<1>7. noticed \in Record
  BY <1>3, <1>6, NoticeTyped, NotifyTyped
<1> HIDE DEF noticed
<1>8. "finish" \in Places /\ Never \in Int
  BY DEF Places, SavePoints, Never
<1>9. job' \in [Sessions -> Job]
  BY <1>5, <1>7, <1>8, BeginTyped
<1> QED BY <1>9 DEF LoadCharge, TypeOK

\* Beginning any call keeps the types.
LEMMA AskTyped ==
  ASSUME TypeOK, NEW w \in Sessions, Ask(w)
  PROVE  TypeOK'
  BY LoadConfirmTyped, LoadRecheckTyped, LoadChargeTyped,
     ExpireRecoveryTyped, DeclineRecoveryTyped, AcceptRecoveryTyped DEF Ask

\* Carrying any call on keeps the types.
LEMMA ProceedTyped ==
  ASSUME TypeOK, NEW w \in Sessions, Proceed(w)
  PROVE  TypeOK'
<1>1. {"idle", "execute", "read_back", "call_recovery"} \subseteq Places
  BY DEF Places
<1>2. CASE \/ ClaimExecution(w) \/ RecordClaim(w) \/ Conclude(w) \/ ClaimCheck(w)
           \/ ClaimRecovery(w) \/ Finish(w)
  <2> SUFFICES ASSUME NEW from, NEW to \in Places, Save(w, from, to) PROVE TypeOK'
    BY <1>1, <1>2, Zenon DEF ClaimExecution, RecordClaim, Conclude, ClaimCheck, ClaimRecovery, Finish
  <2> QED BY SaveTyped
<1>3. CASE SaveRefused(w)
  BY <1>3, ValuesTyped DEF SaveRefused, TypeOK
<1> QED BY <1>2, <1>3, ExecuteTyped, ReadBackTyped, CallRecoveryTyped, ReloadRecoveryTyped
        DEF Proceed

\* The induction step, for every action of the specification.
LEMMA NextTyped == TypeOK /\ [Next]_vars => TypeOK'
<1> SUFFICES ASSUME TypeOK, [Next]_vars PROVE TypeOK'
  OBVIOUS
<1>1. CASE Start
  BY <1>1, StartTyped
<1>2. CASE Tick
  BY <1>2, TimeAssumption DEF Tick, TypeOK
<1>3. CASE \E w \in Sessions : Ask(w)
  BY <1>3, AskTyped
<1>4. CASE \E w \in Sessions : Proceed(w)
  BY <1>4, ProceedTyped
<1>5. CASE \E w \in Sessions : CallLost(w)
  BY <1>5, ValuesTyped DEF CallLost, TypeOK
<1>6. CASE UNCHANGED vars
  BY <1>6 DEF vars, TypeOK
<1> QED BY <1>1, <1>2, <1>3, <1>4, <1>5, <1>6 DEF Next

\* The record in the store and every session's copy of it keep the types of
\* the code's dataclasses, for any sessions, times, providers and charges.
THEOREM TypeCorrect == Spec => []TypeOK
  BY InitTyped, NextTyped, PTL DEF Spec

(***************************************************************************)
(* What the operators on records keep                                      *)
(***************************************************************************)
\* A list begins with itself.
LEMMA PrefixOfItself ==
  ASSUME NEW S, NEW s \in Seq(S)
  PROVE  IsPrefix(s, s)
  BY DEF IsPrefix

\* A list begins what it becomes by one more entry (attempts and charges).
LEMMA PrefixOfAppended ==
  ASSUME NEW S, NEW s \in Seq(S), NEW e \in S
  PROVE  IsPrefix(s, Append(s, e))
  BY DEF IsPrefix

\* A record says everything it says itself (a save that changes nothing).
LEMMA ExtendsItself ==
  ASSUME NEW rec \in Record
  PROVE  Extends(rec, rec)
<1>1. IsPrefix(rec.attempts, rec.attempts) /\ IsPrefix(rec.charges, rec.charges)
  BY PrefixOfItself DEF Record
<1> QED BY <1>1 DEF Extends, FollowUpAdvances

\* Storing a record changes its version and nothing else (save_owned).
LEMMA SavedKeeps ==
  ASSUME NEW rec \in Record
  PROVE  /\ Saved(rec).version = rec.version + 1
         /\ Saved(rec).state = rec.state
         /\ Saved(rec).recovery = rec.recovery
         /\ \A from : Extends(from, rec) => Extends(from, Saved(rec))
<1>1. /\ Saved(rec).version = rec.version + 1
      /\ Saved(rec).state = rec.state
      /\ Saved(rec).recovery = rec.recovery
      /\ Saved(rec).attempts = rec.attempts /\ Saved(rec).charges = rec.charges
      /\ Saved(rec).attention = rec.attention /\ Saved(rec).claim = rec.claim
  BY DEF Saved, Record
<1> QED BY <1>1 DEF Extends

(***************************************************************************)
(* Saving                                                                  *)
(***************************************************************************)
\* A save never takes a resolution back to before its confirmation
\* (expected_previous_history).
LEMMA HistoryGoesForward ==
  ASSUME NEW rec, ContinuesHistory(rec)
  PROVE  /\ row.state # "REQUESTED" => rec.state # "REQUESTED"
         /\ row.state \notin {"REQUESTED", "AWAITING_CONFIRMATION"} =>
              rec.state # "AWAITING_CONFIRMATION"
  BY DEF ContinuesHistory, AllowedPrevious, AllowedNext, Terminal, States

\* A save that goes through keeps the ownership of everything it does not
\* itself claim, and only adds to the stored record (save_owned).
LEMMA SaveKeepsOwnership ==
  ASSUME TypeOK, OwnershipInv, NEW w \in Sessions,
         NEW from \in SavePoints, NEW to \in {"idle", "execute", "read_back", "call_recovery"},
         from = "claim_execution" <=> to = "execute",
         from = "claim_recovery" <=> to = "call_recovery",
         Save(w, from, to)
  PROVE  OwnershipInv' /\ row.state \notin Terminal /\ Extends(row, row')
<1> DEFINE rec  == job[w].rec
           copy == Saved(rec)
<1>1. rec \in Record /\ row \in Record /\ row.version \in Nat /\ rec.version = row.version
  BY DEF TypeOK, Job, Save, CanSave, SameVersion, Record
<1>2. /\ row' = copy
      /\ job[w].pc = from
      /\ job' = [job EXCEPT ![w] = IF to = "idle" THEN NoJob
                                   ELSE [job[w] EXCEPT !.pc = to, !.rec = copy]]
      /\ UNCHANGED <<cancels, followUpCalls>>
  BY DEF Save, TypeOK
<1>3. /\ \A x \in Sessions \ {w} : job'[x] = job[x]
      /\ job'[w].pc = to
      /\ to # "idle" => job'[w].rec = copy /\ job'[w].item = job[w].item
      /\ to = "idle" => job'[w].item = None
  BY <1>2 DEF TypeOK, Job, NoJob
<1>4. /\ copy.version = row.version + 1
      /\ copy.state = rec.state
      /\ copy.recovery = rec.recovery
      /\ Extends(row, rec) => Extends(row, copy)
  BY <1>1, SavedKeeps
<1>5. Extends(row, rec)
  BY <1>1, <1>2 DEF OwnershipInv, CopiesFollowTheStore, SavePoints, Current
<1>6. Extends(row, row')
  BY <1>2, <1>4, <1>5
<1>7. /\ row.state # "REQUESTED"
      /\ row'.state # "REQUESTED"
      /\ row'.state = "AWAITING_CONFIRMATION" => row.state = "AWAITING_CONFIRMATION"
  <2>1. job[w] # NoJob
    BY <1>2 DEF NoJob, SavePoints
  <2>2. row.state # "REQUESTED"
    BY <2>1 DEF OwnershipInv, NothingBeforeStart
  <2>3. ContinuesHistory(rec)
    BY DEF Save, CanSave
  <2> QED BY <1>2, <1>4, <2>2, <2>3, HistoryGoesForward
<1> HIDE DEF copy, rec
<1>8. NothingBeforeStart'
  BY <1>7 DEF NothingBeforeStart
<1>9. CopiesFollowTheStore'
  <2> SUFFICES ASSUME NEW x \in Sessions, job'[x].pc # "idle"
               PROVE  /\ job'[x].rec.version <= row'.version
                      /\ job'[x].rec.version = row'.version =>
                           IF job'[x].pc \in SavePoints THEN Extends(row', job'[x].rec)
                                                        ELSE job'[x].rec = row'
    BY DEF CopiesFollowTheStore, Current
  <2>1. CASE x = w
    BY <1>2, <1>3, <1>1, <1>4, <2>1 DEF SavePoints
  <2>2. CASE x # w
    <3>1. job[x].rec.version <= row.version /\ job[x].rec.version \in Nat
      BY <1>3, <2>2 DEF OwnershipInv, CopiesFollowTheStore, TypeOK, Job, Record
    <3> QED BY <1>1, <1>2, <1>3, <1>4, <2>2, <3>1
  <2> QED BY <2>1, <2>2
<1>10. \A x \in Sessions \ {w} : job'[x].pc # "idle" => job'[x].rec.version # row'.version
  <2> SUFFICES ASSUME NEW x \in Sessions \ {w}, job'[x].pc # "idle"
               PROVE  job'[x].rec.version # row'.version
    OBVIOUS
  <2>1. job[x].rec.version <= row.version /\ job[x].rec.version \in Nat
    BY <1>3 DEF OwnershipInv, CopiesFollowTheStore, TypeOK, Job, Record
  <2> QED BY <1>1, <1>2, <1>3, <1>4, <2>1
<1>11. ExecutionIsClaimed'
  <2>1. CASE from = "claim_execution"
    <3>1. row.state = "AWAITING_CONFIRMATION" /\ rec.state = "EXECUTING"
      BY <1>1, <1>2, <2>1 DEF OwnershipInv, ExecutionIsClaimed, Current, rec
    <3>2. cancels = 0 /\ \A x \in Sessions : job[x].pc # "execute"
      BY <3>1 DEF OwnershipInv, ExecutionIsClaimed
    <3>3. row'.state = "EXECUTING"
      BY <1>2, <1>4, <3>1
    <3>4. ~copy.claim.valid
      <4>1. ~rec.claim.valid
        <5>1. EvidenceValid(rec)
          BY DEF Save, CanSave, ValidRecord, rec
        <5> QED BY <3>1, <5>1 DEF EvidenceValid, Terminal
      <4> QED BY <1>1, <4>1 DEF copy, Saved, Record
    <3> QED BY <1>2, <1>3, <1>10, <2>1, <3>2, <3>3, <3>4
            DEF OwnershipInv, ExecutionIsClaimed, Current
  <2>2. CASE from # "claim_execution"
    <3>1. \A x \in Sessions : job'[x].pc = "execute" => x # w /\ job[x].pc = "execute"
      BY <1>3, <2>2
    <3>2. \A x \in Sessions : job'[x].pc = "claim_execution" =>
            x # w /\ job[x].pc = "claim_execution" /\ job'[x] = job[x]
      BY <1>3
    <3>3. row'.state \in {"REQUESTED", "AWAITING_CONFIRMATION"} =>
            row.state = "AWAITING_CONFIRMATION"
      BY <1>7
    <3> QED BY <1>2, <1>10, <3>1, <3>2, <3>3 DEF OwnershipInv, ExecutionIsClaimed, Current
  <2> QED BY <2>1, <2>2
<1>12. FollowUpIsClaimed'
  <2> SUFFICES ASSUME NEW f \in FollowUps
               PROVE
                 /\ followUpCalls'[f] <= 1
                 /\ row'.recovery[f].state \in {"none", "AWAITING_CONFIRMATION"} =>
                      followUpCalls'[f] = 0
                 /\ \A x \in Sessions : Holds(x, f)' =>
                      /\ row'.recovery[f].state = "EXECUTING"
                      /\ \A y \in Sessions : Holds(y, f)' => y = x
                      /\ job'[x].pc = "call_recovery" => followUpCalls'[f] = 0
                 /\ \A x \in Sessions : (job'[x].pc = "claim_recovery" /\ job'[x].item = f) =>
                      /\ job'[x].rec.recovery[f].state = "EXECUTING"
                      /\ Current(x)' => row'.recovery[f].state = "AWAITING_CONFIRMATION"
                 /\ \A x \in Sessions :
                      (job'[x].pc \in SavePoints /\ Current(x)'
                         /\ row'.recovery[f].state = "EXECUTING")
                        => job'[x].rec.recovery[f].state = "EXECUTING" \/ Holds(x, f)'
    BY DEF FollowUpIsClaimed
  <2>1. row'.recovery[f].state = rec.recovery[f].state
    BY <1>2, <1>4
  <2>2. FollowUpAdvances(row.recovery[f].state, row'.recovery[f].state)
    BY <1>6 DEF Extends
  <2>3. /\ followUpCalls'[f] <= 1
        /\ row'.recovery[f].state \in {"none", "AWAITING_CONFIRMATION"} => followUpCalls'[f] = 0
    BY <1>2, <2>2 DEF OwnershipInv, FollowUpIsClaimed, FollowUpAdvances
  <2>4. \A x \in Sessions : (job'[x].pc = "claim_recovery" /\ job'[x].item = f) =>
                      /\ job'[x].rec.recovery[f].state = "EXECUTING"
                      /\ Current(x)' => row'.recovery[f].state = "AWAITING_CONFIRMATION"
    BY <1>3, <1>10 DEF OwnershipInv, FollowUpIsClaimed, Current
  <2>5. \A x \in Sessions :
                      (job'[x].pc \in SavePoints /\ Current(x)'
                         /\ row'.recovery[f].state = "EXECUTING")
                        => job'[x].rec.recovery[f].state = "EXECUTING" \/ Holds(x, f)'
    BY <1>3, <1>10 DEF Current, SavePoints
  <2>6. CASE from = "claim_recovery" /\ job[w].item = f
    <3>1. row.recovery[f].state = "AWAITING_CONFIRMATION" /\ rec.recovery[f].state = "EXECUTING"
      BY <1>1, <1>2, <2>6 DEF OwnershipInv, FollowUpIsClaimed, Current, rec
    <3>2. followUpCalls[f] = 0 /\ \A x \in Sessions : ~Holds(x, f)
      BY <3>1 DEF OwnershipInv, FollowUpIsClaimed
    <3>3. \A x \in Sessions : Holds(x, f)' => x = w
      BY <1>3, <3>2 DEF Holds
    <3> QED BY <1>2, <2>1, <2>3, <2>4, <2>5, <3>1, <3>2, <3>3
  <2>7. CASE ~(from = "claim_recovery" /\ job[w].item = f)
    <3>1. \A x \in Sessions : Holds(x, f)' => x # w /\ Holds(x, f) /\ job'[x] = job[x]
      BY <1>2, <1>3, <2>7 DEF Holds, None, FollowUps
    <3>2. ASSUME NEW x \in Sessions, Holds(x, f)'
          PROVE  row'.recovery[f].state = "EXECUTING"
      <4>1. Holds(x, f) /\ x # w /\ row.recovery[f].state = "EXECUTING"
        BY <3>1, <3>2 DEF OwnershipInv, FollowUpIsClaimed
      <4>2. ~Holds(w, f)
        BY <4>1 DEF OwnershipInv, FollowUpIsClaimed
      <4> QED BY <1>1, <1>2, <2>1, <4>1, <4>2 DEF OwnershipInv, FollowUpIsClaimed, Current, rec
    <3>3. \A x \in Sessions : Holds(x, f)' =>
            /\ \A y \in Sessions : Holds(y, f)' => y = x
            /\ job'[x].pc = "call_recovery" => followUpCalls'[f] = 0
      BY <1>2, <3>1 DEF OwnershipInv, FollowUpIsClaimed
    <3> QED BY <2>3, <2>4, <2>5, <3>2, <3>3
  <2> QED BY <2>6, <2>7
<1>13. row.state \notin Terminal
  BY DEF Save, CanSave, Open
<1> QED BY <1>6, <1>8, <1>9, <1>11, <1>12, <1>13 DEF OwnershipInv

(***************************************************************************)
(* Dropping a copy and loading one                                         *)
(***************************************************************************)
\* A call that ends, refused or cut off, gives up what it owned
\* (ConcurrentUpdateError, or the end of the process).
LEMMA DropKeepsOwnership ==
  ASSUME TypeOK, OwnershipInv, NEW w \in Sessions, job' = [job EXCEPT ![w] = NoJob],
         UNCHANGED <<row, cancels, followUpCalls>>
  PROVE  OwnershipInv'
<1>1. /\ \A x \in Sessions \ {w} : job'[x] = job[x]
      /\ job'[w] = NoJob
  BY DEF TypeOK
<1>2. NoJob.pc = "idle" /\ NoJob.item = None
  BY DEF NoJob
<1>3. NothingBeforeStart'
  BY <1>1 DEF OwnershipInv, NothingBeforeStart
<1>4. ExecutionIsClaimed'
  BY <1>1, <1>2 DEF OwnershipInv, ExecutionIsClaimed, Current
<1>5. CopiesFollowTheStore'
  BY <1>1, <1>2 DEF OwnershipInv, CopiesFollowTheStore, Current
<1>6. \A x \in Sessions, f \in FollowUps : Holds(x, f)' => x # w /\ Holds(x, f)
  BY <1>1, <1>2 DEF Holds
<1>7. FollowUpIsClaimed'
  BY <1>1, <1>2, <1>6 DEF OwnershipInv, FollowUpIsClaimed, Current, SavePoints, Holds
<1> QED BY <1>3, <1>4, <1>5, <1>7 DEF OwnershipInv

\* A call that loads the record and prepares a save owns nothing yet, provided
\* it prepares a claim only where nobody has one (get_owned).
LEMMA LoadKeepsOwnership ==
  ASSUME TypeOK, OwnershipInv, NEW w \in Sessions, NEW begun \in Job,
         job' = [job EXCEPT ![w] = begun], UNCHANGED <<row, cancels, followUpCalls>>,
         row.state # "REQUESTED",
         begun.pc \in SavePoints, begun.rec.version = row.version, Extends(row, begun.rec),
         begun.pc = "claim_execution" =>
           begun.rec.state = "EXECUTING" /\ row.state = "AWAITING_CONFIRMATION",
         begun.item # None =>
           /\ begun.pc = "claim_recovery"
           /\ begun.rec.recovery[begun.item].state = "EXECUTING"
           /\ row.recovery[begun.item].state = "AWAITING_CONFIRMATION",
         \A f \in FollowUps : row.recovery[f].state = "EXECUTING" =>
                               begun.rec.recovery[f].state = "EXECUTING"
  PROVE  OwnershipInv'
<1>1. /\ \A x \in Sessions \ {w} : job'[x] = job[x]
      /\ job'[w] = begun
  BY DEF TypeOK
<1>2. row.version \in Nat /\ begun.pc \notin {"idle", "execute", "call_recovery", "reload"}
  BY DEF TypeOK, Record, SavePoints
<1>3. NothingBeforeStart'
  BY DEF NothingBeforeStart
<1>4. ExecutionIsClaimed'
  BY <1>1, <1>2 DEF OwnershipInv, ExecutionIsClaimed, Current
<1>5. CopiesFollowTheStore'
  BY <1>1, <1>2 DEF OwnershipInv, CopiesFollowTheStore, Current
<1>6. \A x \in Sessions, f \in FollowUps : Holds(x, f)' => x # w /\ Holds(x, f)
  BY <1>1, <1>2 DEF Holds, None, FollowUps
<1>7. FollowUpIsClaimed'
  <2> SUFFICES ASSUME NEW f \in FollowUps
               PROVE
                 /\ \A x \in Sessions : Holds(x, f)' =>
                      /\ row.recovery[f].state = "EXECUTING"
                      /\ \A y \in Sessions : Holds(y, f)' => y = x
                      /\ job'[x].pc = "call_recovery" => followUpCalls[f] = 0
                 /\ \A x \in Sessions : (job'[x].pc = "claim_recovery" /\ job'[x].item = f) =>
                      /\ job'[x].rec.recovery[f].state = "EXECUTING"
                      /\ Current(x)' => row.recovery[f].state = "AWAITING_CONFIRMATION"
                 /\ \A x \in Sessions :
                      (job'[x].pc \in SavePoints /\ Current(x)'
                         /\ row.recovery[f].state = "EXECUTING")
                        => job'[x].rec.recovery[f].state = "EXECUTING" \/ Holds(x, f)'
    BY DEF OwnershipInv, FollowUpIsClaimed
  <2>1. f # None
    BY DEF FollowUps, None
  <2>2. \A x \in Sessions : Holds(x, f)' =>
          /\ row.recovery[f].state = "EXECUTING"
          /\ \A y \in Sessions : Holds(y, f)' => y = x
          /\ job'[x].pc = "call_recovery" => followUpCalls[f] = 0
    BY <1>1, <1>6 DEF OwnershipInv, FollowUpIsClaimed
  <2>3. \A x \in Sessions : (job'[x].pc = "claim_recovery" /\ job'[x].item = f) =>
          /\ job'[x].rec.recovery[f].state = "EXECUTING"
          /\ Current(x)' => row.recovery[f].state = "AWAITING_CONFIRMATION"
    BY <1>1, <2>1 DEF OwnershipInv, FollowUpIsClaimed, Current
  <2>4. \A x \in Sessions :
          (job'[x].pc \in SavePoints /\ Current(x)' /\ row.recovery[f].state = "EXECUTING")
            => job'[x].rec.recovery[f].state = "EXECUTING" \/ Holds(x, f)'
    BY <1>1 DEF OwnershipInv, FollowUpIsClaimed, Current, Holds
  <2> QED BY <2>2, <2>3, <2>4
<1> QED BY <1>3, <1>4, <1>5, <1>7 DEF OwnershipInv

\* Storing the new record is the first thing that happens (start_resolution).
LEMMA StartKeepsOwnership ==
  ASSUME TypeOK, OwnershipInv, Start
  PROVE  OwnershipInv' /\ row.state \notin Terminal /\ Extends(row, row')
<1>1. PICK contract \in Contracts :
        row' = Transition([Unborn EXCEPT !.deadline = contract.deadline,
                                         !.tracksCharges = contract.tracksCharges],
                          "AWAITING_CONFIRMATION", now)
  BY DEF Start
<1>2. row = Unborn /\ \A w \in Sessions : job[w] = NoJob
  BY DEF Start, OwnershipInv, NothingBeforeStart
<1>3. /\ row'.state = "AWAITING_CONFIRMATION"
      /\ row'.recovery = Unborn.recovery
      /\ row'.attempts = Unborn.attempts /\ row'.charges = Unborn.charges
      /\ row'.attention = Unborn.attention /\ row'.claim = Unborn.claim
  BY <1>1 DEF Transition, Unborn
<1>4. UNCHANGED <<job, cancels, followUpCalls>>
  BY DEF Start
<1>5. Extends(row, row')
  <2>1. Extends(Unborn, Unborn)
    BY ValuesTyped, ExtendsItself
  <2> QED BY <1>2, <1>3, <2>1 DEF Extends
<1>6. NoJob.pc = "idle" /\ NoJob.item = None
  BY DEF NoJob
<1>7. NothingBeforeStart'
  BY <1>3 DEF NothingBeforeStart
<1>8. cancels = 0
  BY DEF Start, OwnershipInv, ExecutionIsClaimed
<1>9. ExecutionIsClaimed'
  BY <1>2, <1>4, <1>6, <1>8 DEF ExecutionIsClaimed
<1>10. CopiesFollowTheStore'
  BY <1>2, <1>4, <1>6 DEF CopiesFollowTheStore
<1>11. \A f \in FollowUps : row.recovery[f].state = "none"
  BY <1>2 DEF Unborn
<1>12. \A f \in FollowUps : followUpCalls[f] = 0
  BY <1>11 DEF OwnershipInv, FollowUpIsClaimed
<1>13. FollowUpIsClaimed'
  BY <1>2, <1>4, <1>6, <1>12 DEF FollowUpIsClaimed, Holds, SavePoints
<1>14. row.state \notin Terminal
  BY DEF Start, Terminal
<1> QED BY <1>5, <1>7, <1>9, <1>10, <1>13, <1>14 DEF OwnershipInv

(***************************************************************************)
(* Calls that load the record                                              *)
(***************************************************************************)
\* A change of state touches the state and the times only (_transition).
LEMMA TransitionKeeps ==
  ASSUME NEW rec \in Record, NEW next, NEW at
  PROVE  LET moved == Transition(rec, next, at) IN
         /\ moved.state = next /\ moved.version = rec.version
         /\ moved.attempts = rec.attempts /\ moved.charges = rec.charges
         /\ moved.attention = rec.attention /\ moved.claim = rec.claim
         /\ moved.recovery = rec.recovery
  BY DEF Transition, Record

\* Preparing the claim of the cancellation (confirm_resolution_action).
LEMMA LoadConfirmKeepsOwnership ==
  ASSUME TypeOK, OwnershipInv, NEW w \in Sessions, LoadConfirm(w)
  PROVE  OwnershipInv'
<1> DEFINE attested == [row EXCEPT !.attested = TRUE]
           moved    == Transition(attested, "EXECUTING", now)
           begun    == [NoJob EXCEPT !.pc = "claim_execution", !.rec = moved, !.at = Never]
<1>1. /\ row \in Record /\ now \in Int /\ "EXECUTING" \in States
      /\ row.state = "AWAITING_CONFIRMATION"
  BY TimeAssumption DEF TypeOK, States, LoadConfirm
<1>2. /\ attested \in Record /\ attested.version = row.version
      /\ attested.attempts = row.attempts /\ attested.charges = row.charges
      /\ attested.attention = row.attention /\ attested.claim = row.claim
      /\ attested.recovery = row.recovery
  BY <1>1 DEF Record
<1>3. job' = [job EXCEPT ![w] = begun]
  BY DEF LoadConfirm, Begin
<1> HIDE DEF attested
<1>4. moved \in Record
  BY <1>1, <1>2, TransitionTyped
<1>5. /\ moved.state = "EXECUTING" /\ moved.version = row.version
      /\ moved.recovery = row.recovery /\ Extends(row, moved)
  BY <1>1, <1>2, TransitionKeeps, ExtendsItself DEF Extends
<1> HIDE DEF moved
<1>6. begun \in Job
  BY <1>4, ValuesTyped DEF Job, Places, SavePoints
<1>7. begun.pc = "claim_execution" /\ begun.rec = moved /\ begun.item = None
  BY DEF NoJob
<1> HIDE DEF begun
<1>8. UNCHANGED <<row, cancels, followUpCalls>>
  BY DEF LoadConfirm
<1> QED BY <1>1, <1>3, <1>5, <1>6, <1>7, <1>8, LoadKeepsOwnership DEF SavePoints

\* Preparing the claim of a look (recheck_resolution).
LEMMA LoadRecheckKeepsOwnership ==
  ASSUME TypeOK, OwnershipInv, NEW w \in Sessions, LoadRecheck(w)
  PROVE  OwnershipInv'
<1> DEFINE checks  == row.checks + 1
           claimed == [row EXCEPT !.checks = checks]
           cleared == IF row.state = "AWAITING_PROOF"
                      THEN [claimed EXCEPT !.nextCheck = Never, !.judged = FALSE]
                      ELSE claimed
           moved   == Transition(cleared, "VERIFYING", now)
           begun   == [NoJob EXCEPT !.pc = "claim_check", !.at = now,
                                    !.eligible = MayCloseWindow, !.rec = moved]
<1>1. job' = [job EXCEPT ![w] = begun]
  BY DEF LoadRecheck
<1>2. row \in Record /\ checks \in Nat /\ now \in Int /\ "VERIFYING" \in States
  BY TimeAssumption DEF TypeOK, Record, States
<1> HIDE DEF checks
<1>3. /\ claimed \in Record /\ claimed.version = row.version
      /\ claimed.attempts = row.attempts /\ claimed.charges = row.charges
      /\ claimed.attention = row.attention /\ claimed.claim = row.claim
      /\ claimed.recovery = row.recovery
  BY <1>2 DEF Record
<1> HIDE DEF claimed
<1>4. /\ cleared \in Record /\ cleared.version = row.version
      /\ cleared.attempts = row.attempts /\ cleared.charges = row.charges
      /\ cleared.attention = row.attention /\ cleared.claim = row.claim
      /\ cleared.recovery = row.recovery
  BY <1>3, ValuesTyped DEF Record
<1> HIDE DEF cleared
<1>5. moved \in Record
  BY <1>2, <1>4, TransitionTyped
<1>6. /\ moved.version = row.version /\ moved.recovery = row.recovery /\ Extends(row, moved)
  BY <1>2, <1>4, TransitionKeeps, ExtendsItself DEF Extends
<1> HIDE DEF moved
<1>7. MayCloseWindow \in BOOLEAN
  BY DEF MayCloseWindow
<1>8. begun \in Job
  BY <1>2, <1>5, <1>7, ValuesTyped DEF Job, Places, SavePoints
<1>9. begun.pc = "claim_check" /\ begun.rec = moved /\ begun.item = None
  BY DEF NoJob
<1> HIDE DEF begun
<1>10. UNCHANGED <<row, cancels, followUpCalls>> /\ row.state # "REQUESTED"
  BY DEF LoadRecheck, Loadable
<1> QED BY <1>1, <1>6, <1>8, <1>9, <1>10, LoadKeepsOwnership DEF SavePoints

\* Moving one follow-up forward leaves the others, and the rest, alone.
LEMMA SetFollowUpKeeps ==
  ASSUME NEW rec \in Record, NEW f \in FollowUps, NEW state, NEW at,
         FollowUpAdvances(rec.recovery[f].state, state)
  PROVE  LET after == SetFollowUp(rec, f, state, at) IN
         /\ after.version = rec.version
         /\ after.recovery[f].state = state
         /\ \A g \in FollowUps \ {f} : after.recovery[g] = rec.recovery[g]
         /\ Extends(rec, after)
<1> DEFINE after == SetFollowUp(rec, f, state, at)
<1>1. /\ after.version = rec.version
      /\ after.recovery[f].state = state
      /\ \A g \in FollowUps \ {f} : after.recovery[g] = rec.recovery[g]
      /\ after.attempts = rec.attempts /\ after.charges = rec.charges
      /\ after.attention = rec.attention /\ after.claim = rec.claim
  BY DEF SetFollowUp, Record, FollowUp
<1> HIDE DEF after
<1>2. Extends(rec, rec)
  BY ExtendsItself
<1>3. \A g \in FollowUps : FollowUpAdvances(rec.recovery[g].state, after.recovery[g].state)
  BY <1>1 DEF FollowUpAdvances
<1>4. Extends(rec, after)
  BY <1>1, <1>2, <1>3 DEF Extends
<1> QED BY <1>1, <1>4 DEF after

\* Preparing to close a proposal, expired or declined (confirm_recovery_action).
LEMMA AnswerKeepsOwnership ==
  ASSUME TypeOK, OwnershipInv, NEW w \in Sessions, NEW f \in FollowUps, NEW at \in RecentTimes,
         NEW state \in {"EXPIRED", "DECLINED"},
         LoadRecovery(w, f, at), Begin(w, "finish", SetFollowUp(row, f, state, at), Never)
  PROVE  OwnershipInv'
<1> DEFINE after == SetFollowUp(row, f, state, at)
           begun == [NoJob EXCEPT !.pc = "finish", !.rec = after, !.at = Never]
<1>1. /\ row \in Record /\ row.state # "REQUESTED"
      /\ row.recovery[f].state = "AWAITING_CONFIRMATION"
      /\ UNCHANGED <<row, cancels, followUpCalls>>
  BY DEF TypeOK, LoadRecovery, Loadable
<1>2. after \in Record
  BY <1>1, SetFollowUpTyped, RecentTimesTyped DEF FollowUpStates
<1>3. FollowUpAdvances(row.recovery[f].state, state)
  BY <1>1 DEF FollowUpAdvances
<1>4. /\ after.version = row.version
      /\ \A g \in FollowUps \ {f} : after.recovery[g] = row.recovery[g]
      /\ Extends(row, after)
  BY <1>1, <1>3, SetFollowUpKeeps
<1>5. job' = [job EXCEPT ![w] = begun]
  BY DEF Begin
<1> HIDE DEF after
<1>6. begun \in Job
  BY <1>2, ValuesTyped DEF Job, Places, SavePoints
<1>7. begun.pc = "finish" /\ begun.rec = after /\ begun.item = None
  BY DEF NoJob
<1> HIDE DEF begun
<1>8. \A g \in FollowUps : row.recovery[g].state = "EXECUTING" =>
                           begun.rec.recovery[g].state = "EXECUTING"
  BY <1>1, <1>4, <1>7
<1> QED BY <1>1, <1>4, <1>5, <1>6, <1>7, <1>8, LoadKeepsOwnership DEF SavePoints

\* Preparing the claim of a follow-up (confirm_recovery_action).
LEMMA AcceptRecoveryKeepsOwnership ==
  ASSUME TypeOK, OwnershipInv, NEW w \in Sessions, AcceptRecovery(w)
  PROVE  OwnershipInv'
<1>1. PICK f \in FollowUps, at \in RecentTimes :
        /\ LoadRecovery(w, f, at)
        /\ job' = [job EXCEPT ![w] =
                     [NoJob EXCEPT !.pc = "claim_recovery", !.at = at, !.item = f,
                                   !.rec = SetFollowUp(row, f, "EXECUTING", at)]]
  BY DEF AcceptRecovery
<1> DEFINE after == SetFollowUp(row, f, "EXECUTING", at)
           begun == [NoJob EXCEPT !.pc = "claim_recovery", !.at = at, !.item = f, !.rec = after]
<1>2. /\ row \in Record /\ row.state # "REQUESTED"
      /\ row.recovery[f].state = "AWAITING_CONFIRMATION"
      /\ UNCHANGED <<row, cancels, followUpCalls>>
  BY <1>1 DEF TypeOK, LoadRecovery, Loadable
<1>3. after \in Record /\ at \in Int
  BY <1>2, SetFollowUpTyped, RecentTimesTyped DEF FollowUpStates
<1>4. FollowUpAdvances(row.recovery[f].state, "EXECUTING")
  BY <1>2 DEF FollowUpAdvances
<1>5. /\ after.version = row.version
      /\ after.recovery[f].state = "EXECUTING"
      /\ \A g \in FollowUps \ {f} : after.recovery[g] = row.recovery[g]
      /\ Extends(row, after)
  BY <1>2, <1>4, SetFollowUpKeeps
<1>6. job' = [job EXCEPT ![w] = begun]
  BY <1>1
<1> HIDE DEF after
<1>7. begun \in Job
  BY <1>3, ValuesTyped DEF Job, Places, SavePoints
<1>8. begun.pc = "claim_recovery" /\ begun.rec = after /\ begun.item = f
  BY DEF NoJob
<1> HIDE DEF begun
<1>9. \A g \in FollowUps : row.recovery[g].state = "EXECUTING" =>
                           begun.rec.recovery[g].state = "EXECUTING"
  BY <1>5, <1>8
<1> QED BY <1>2, <1>5, <1>6, <1>7, <1>8, <1>9, LoadKeepsOwnership DEF SavePoints

\* A notice adds itself and at most one proposal (attention_candidate,
\* _create_recovery_proposal).
LEMMA NotifyKeeps ==
  ASSUME NEW rec \in Record, NEW reason \in Notices \cup {None}, NEW seen, NEW at \in Int,
         NEW proposing
  PROVE  LET noted == Notify(rec, reason, seen, at, proposing) IN
         /\ noted.version = rec.version /\ noted.claim = rec.claim
         /\ noted.attempts = rec.attempts /\ noted.charges = rec.charges
         /\ rec.attention \subseteq noted.attention
         /\ \A f \in FollowUps :
              \/ noted.recovery[f] = rec.recovery[f]
              \/ /\ rec.recovery[f].state = "none"
                 /\ noted.recovery[f].state = "AWAITING_CONFIRMATION"
<1> DEFINE noted == [rec EXCEPT !.attention = @ \cup {reason}]
           after == Notify(rec, reason, seen, at, proposing)
<1>1. /\ noted.version = rec.version /\ noted.claim = rec.claim
      /\ noted.attempts = rec.attempts /\ noted.charges = rec.charges
      /\ rec.attention \subseteq noted.attention /\ noted.recovery = rec.recovery
      /\ DOMAIN noted = DOMAIN rec
  BY DEF Record
<1>2. \/ after = rec
      \/ after = noted
      \/ MayPropose(rec, reason, seen) /\ after = Propose(noted, reason, at)
  BY DEF Notify
<1> HIDE DEF after
<1>3. CASE after = rec
  BY <1>3 DEF after
<1>4. CASE after = noted
  BY <1>1, <1>4 DEF after
<1>5. CASE MayPropose(rec, reason, seen) /\ after = Propose(noted, reason, at)
  <2>1. reason \in FollowUps /\ rec.recovery[reason].state = "none"
    BY <1>5 DEF MayPropose
  <2>2. noted \in Record
    BY <2>1 DEF Record, Notices
  <2> HIDE DEF noted
  <2> DEFINE proposal == [state |-> "AWAITING_CONFIRMATION", expires |-> at + ProposalTTL]
  <2>3. after = [noted EXCEPT !.recovery[reason] = proposal]
    BY <1>5 DEF Propose
  <2>4. proposal.state = "AWAITING_CONFIRMATION"
    OBVIOUS
  <2> HIDE DEF proposal
  <2>5. /\ after.version = noted.version /\ after.claim = noted.claim
        /\ after.attempts = noted.attempts /\ after.charges = noted.charges
        /\ after.attention = noted.attention
        /\ after.recovery[reason] = proposal
        /\ \A f \in FollowUps \ {reason} : after.recovery[f] = noted.recovery[f]
    BY <2>1, <2>2, <2>3 DEF Record
  <2>6. \A f \in FollowUps :
          \/ after.recovery[f] = rec.recovery[f]
          \/ /\ rec.recovery[f].state = "none"
             /\ after.recovery[f].state = "AWAITING_CONFIRMATION"
    BY <1>1, <2>1, <2>4, <2>5
  <2> QED BY <1>1, <2>5, <2>6 DEF after
<1> QED BY <1>2, <1>3, <1>4, <1>5

\* A judgement adds an attempt and settles follow-ups that waited for it; it
\* takes nothing back (_record_verification).
LEMMA RecordVerificationExtends ==
  ASSUME NEW rec \in Record, NEW evidence \in Evidence, NEW eligible \in BOOLEAN, NEW at \in Int
  PROVE  LET judged == RecordVerification(rec, evidence, eligible, at) IN
         /\ judged.version = rec.version
         /\ Extends(rec, judged)
         /\ \A f \in FollowUps : rec.recovery[f].state = "EXECUTING" =>
                                 judged.recovery[f].state = "EXECUTING"
<1> DEFINE charge  == ChargeToWeigh(rec, at)
           reason  == Verify(rec.claim, evidence, eligible /\ rec.checks >= MaxChecks, Target,
                             charge, rec.deadline, at)
           attempt == [at |-> at, count |-> rec.checks, eligible |-> eligible,
                       charge |-> charge.id, evidence |-> evidence, reason |-> reason]
           looked  == Judge(rec, attempt)
           moved   == Transition(looked, StateFor(reason), at)
           settling == [f \in FollowUps |-> Settle(rec.recovery[f], VerdictOf(reason))]
           settled == [moved EXCEPT !.recovery = settling]
           judged  == RecordVerification(rec, evidence, eligible, at)
<1>1. attempt \in Attempt
  <2>1. charge.id \in ChargeIds \cup {None}
    BY ChargeToWeighTyped DEF Charge
  <2>2. reason \in Reasons
    BY VerifyTyped
  <2>3. rec.checks \in Nat
    BY DEF Record
  <2> HIDE DEF charge, reason
  <2> QED BY <2>1, <2>2, <2>3 DEF Attempt
<1>2. judged = Notify(settled, Notice(settled, evidence, at), evidence, at,
                      settled.state \notin Terminal)
  BY DEF RecordVerification
<1> HIDE DEF attempt, judged
<1>3. /\ looked.version = rec.version /\ looked.claim = rec.claim
      /\ looked.attempts = Append(rec.attempts, attempt) /\ looked.charges = rec.charges
      /\ looked.attention = rec.attention
  BY DEF Judge, Record
<1>4. looked \in Record
  BY <1>1, JudgeTyped
<1> HIDE DEF looked
<1>5. StateFor(reason) \in States
  BY StateForTyped DEF States, Terminal
<1>6. moved \in Record
  BY <1>4, <1>5, TransitionTyped
<1>7. /\ moved.version = rec.version /\ moved.claim = rec.claim
      /\ moved.attempts = Append(rec.attempts, attempt) /\ moved.charges = rec.charges
      /\ moved.attention = rec.attention
  BY <1>3, <1>4, TransitionKeeps
<1> HIDE DEF moved
<1>8. settling \in [FollowUps -> FollowUp]
  BY SettleTyped DEF Record
<1>9. \A f \in FollowUps : settling[f] = Settle(rec.recovery[f], VerdictOf(reason))
  OBVIOUS
<1> HIDE DEF settling, reason
<1>10. settled \in Record
  BY <1>6, <1>8 DEF Record
<1>11. /\ settled.version = rec.version /\ settled.claim = rec.claim
       /\ settled.attempts = Append(rec.attempts, attempt) /\ settled.charges = rec.charges
       /\ settled.attention = rec.attention /\ settled.recovery = settling
  BY <1>6, <1>7 DEF Record
<1> HIDE DEF settled
<1>12. Notice(settled, evidence, at) \in Notices \cup {None}
  BY NoticeTyped
<1>13. /\ judged.version = rec.version /\ judged.claim = rec.claim
       /\ judged.attempts = Append(rec.attempts, attempt) /\ judged.charges = rec.charges
       /\ rec.attention \subseteq judged.attention
       /\ \A f \in FollowUps :
            \/ judged.recovery[f] = settling[f]
            \/ /\ settling[f].state = "none"
               /\ judged.recovery[f].state = "AWAITING_CONFIRMATION"
  <2> DEFINE notice == Notice(settled, evidence, at)
             open   == settled.state \notin Terminal
  <2>1. judged = Notify(settled, notice, evidence, at, open) /\ notice \in Notices \cup {None}
    BY <1>2, <1>12
  <2> HIDE DEF notice, open
  <2>2. /\ judged.version = settled.version /\ judged.claim = settled.claim
        /\ judged.attempts = settled.attempts /\ judged.charges = settled.charges
        /\ settled.attention \subseteq judged.attention
        /\ \A f \in FollowUps :
             \/ judged.recovery[f] = settled.recovery[f]
             \/ /\ settled.recovery[f].state = "none"
                /\ judged.recovery[f].state = "AWAITING_CONFIRMATION"
    <3>1. settled \in Record
      BY <1>10
    <3>2. judged = Notify(settled, notice, evidence, at, open)
      BY <2>1
    <3>3. notice \in Notices \cup {None}
      BY <2>1
    <3>4. judged.version = settled.version
      BY <3>1, <3>2, <3>3, NotifyKeeps
    <3>5. judged.claim = settled.claim
      BY <3>1, <3>2, <3>3, NotifyKeeps
    <3>6. judged.attempts = settled.attempts /\ judged.charges = settled.charges
      BY <3>1, <3>2, <3>3, NotifyKeeps
    <3>7. settled.attention \subseteq judged.attention
      BY <3>1, <3>2, <3>3, NotifyKeeps
    <3>8. ASSUME NEW f \in FollowUps
          PROVE  \/ judged.recovery[f] = settled.recovery[f]
                 \/ /\ settled.recovery[f].state = "none"
                    /\ judged.recovery[f].state = "AWAITING_CONFIRMATION"
      BY <3>1, <3>2, <3>3, NotifyKeeps
    <3> QED BY <3>4, <3>5, <3>6, <3>7, <3>8
  <2> QED BY <1>11, <2>2
<1>14. ASSUME NEW f \in FollowUps
       PROVE  /\ FollowUpAdvances(rec.recovery[f].state, judged.recovery[f].state)
              /\ rec.recovery[f].state = "EXECUTING" => judged.recovery[f].state = "EXECUTING"
  <2>1. rec.recovery[f] \in FollowUp
    BY DEF Record
  <2>2. \/ settling[f] = rec.recovery[f]
        \/ /\ rec.recovery[f].state = "VERIFYING"
           /\ settling[f].state \in {"COMPLETED", "FAILED"}
    BY <1>9, <2>1 DEF Settle, FollowUp
  <2> QED BY <1>13, <2>2 DEF FollowUpAdvances
<1>15. IsPrefix(rec.attempts, judged.attempts) /\ IsPrefix(rec.charges, judged.charges)
  BY <1>1, <1>13, PrefixOfAppended, PrefixOfItself DEF Record
<1>16. Extends(rec, judged)
  BY <1>13, <1>14, <1>15 DEF Extends
<1> QED BY <1>13, <1>14, <1>16 DEF judged

\* Preparing to store an observed charge (record_outcome_violation).
LEMMA LoadChargeKeepsOwnership ==
  ASSUME TypeOK, OwnershipInv, NEW w \in Sessions, LoadCharge(w)
  PROVE  OwnershipInv'
<1>1. PICK charge \in Charges, at \in RecentTimes :
        LET noted == [row EXCEPT !.charges = Append(@, charge), !.updatedAt = at]
        IN Begin(w, "finish",
                 Notify(noted, Notice(noted, Unreadable, at), Unreadable, at, TRUE), Never)
  BY DEF LoadCharge
<1> DEFINE charges == Append(row.charges, charge)
           noted   == [row EXCEPT !.charges = charges, !.updatedAt = at]
           notice  == Notice(noted, Unreadable, at)
           noticed == Notify(noted, notice, Unreadable, at, TRUE)
           begun   == [NoJob EXCEPT !.pc = "finish", !.rec = noticed, !.at = Never]
<1>2. charge \in Charge
  BY TimeAssumption DEF Charges, Charge, Digests, TypeOK
<1>3. at \in Int /\ row \in Record
  BY RecentTimesTyped DEF TypeOK
<1>4. charges \in Seq(Charge) /\ IsPrefix(row.charges, charges)
      /\ IsPrefix(row.attempts, row.attempts)
  BY <1>2, <1>3, PrefixOfAppended, PrefixOfItself DEF Record
<1>5. job' = [job EXCEPT ![w] = begun]
  BY <1>1 DEF Begin
<1> HIDE DEF charges
<1>6. noted \in Record
  BY <1>3, <1>4 DEF Record
<1>7. /\ noted.version = row.version /\ noted.claim = row.claim
      /\ noted.attempts = row.attempts /\ noted.charges = charges
      /\ noted.attention = row.attention /\ noted.recovery = row.recovery
  BY <1>3 DEF Record
<1> HIDE DEF noted
<1>8. notice \in Notices \cup {None}
  BY NoticeTyped
<1> HIDE DEF notice
<1>9. noticed \in Record
  BY <1>3, <1>6, <1>8, NotifyTyped
<1>10. /\ noticed.version = row.version /\ noticed.claim = row.claim
       /\ noticed.attempts = row.attempts /\ noticed.charges = charges
       /\ row.attention \subseteq noticed.attention
       /\ \A f \in FollowUps :
            \/ noticed.recovery[f] = row.recovery[f]
            \/ /\ row.recovery[f].state = "none"
               /\ noticed.recovery[f].state = "AWAITING_CONFIRMATION"
  <2> DEFINE proposing == TRUE
  <2>1. noticed = Notify(noted, notice, Unreadable, at, proposing)
    OBVIOUS
  <2> HIDE DEF proposing, noticed
  <2>2. /\ noticed.version = noted.version /\ noticed.claim = noted.claim
        /\ noticed.attempts = noted.attempts /\ noticed.charges = noted.charges
        /\ noted.attention \subseteq noticed.attention
        /\ \A f \in FollowUps :
             \/ noticed.recovery[f] = noted.recovery[f]
             \/ /\ noted.recovery[f].state = "none"
                /\ noticed.recovery[f].state = "AWAITING_CONFIRMATION"
    BY <1>3, <1>6, <1>8, <2>1, NotifyKeeps, SMTT(30)
  <2> QED BY <1>7, <2>2
<1> HIDE DEF noticed
<1>11. Extends(row, noticed)
  BY <1>4, <1>10 DEF Extends, FollowUpAdvances
<1>12. begun \in Job
  BY <1>9, ValuesTyped DEF Job, Places, SavePoints
<1>13. begun.pc = "finish" /\ begun.rec = noticed /\ begun.item = None
  BY DEF NoJob
<1> HIDE DEF begun
<1>14. \A f \in FollowUps : row.recovery[f].state = "EXECUTING" =>
                            begun.rec.recovery[f].state = "EXECUTING"
  BY <1>10, <1>13
<1>15. UNCHANGED <<row, cancels, followUpCalls>> /\ row.state # "REQUESTED"
  BY DEF LoadCharge, Loadable
<1> QED BY <1>5, <1>10, <1>11, <1>12, <1>13, <1>14, <1>15, LoadKeepsOwnership DEF SavePoints

(***************************************************************************)
(* Calls of the providers                                                  *)
(***************************************************************************)
\* A provider's answer moves a session on without giving it anything that is
\* not its own.
LEMMA ProgressKeepsOwnership ==
  ASSUME TypeOK, OwnershipInv, NEW w \in Sessions, UNCHANGED row,
         \A x \in Sessions \ {w} : job'[x] = job[x],
         job'[w].item = job[w].item,
         \/ job[w].pc = "execute" /\ job'[w].pc = "record_claim"
         \/ job[w].pc = "read_back" /\ job'[w].pc = "conclude"
         \/ job[w].pc = "call_recovery" /\ job'[w].pc = "reload"
         \/ job[w].pc = "reload" /\ job'[w].pc = "finish",
         job'[w].rec.version <= row.version,
         job'[w].rec.version = row.version =>
           /\ IF job'[w].pc \in SavePoints THEN Extends(row, job'[w].rec) ELSE job'[w].rec = row
           /\ \A f \in FollowUps : row.recovery[f].state = "EXECUTING" =>
                                   \/ job'[w].rec.recovery[f].state = "EXECUTING"
                                   \/ job[w].item = f /\ job'[w].pc = "finish",
         cancels' = IF job[w].pc = "execute" THEN cancels + 1 ELSE cancels,
         \A f \in FollowUps :
           followUpCalls'[f] = IF job[w].pc = "call_recovery" /\ job[w].item = f
                               THEN followUpCalls[f] + 1 ELSE followUpCalls[f]
  PROVE  OwnershipInv'
<1>1. row.state # "REQUESTED"
  BY DEF OwnershipInv, NothingBeforeStart, NoJob
<1>2. NothingBeforeStart'
  BY <1>1 DEF NothingBeforeStart
<1>3. CopiesFollowTheStore'
  BY DEF OwnershipInv, CopiesFollowTheStore, Current
<1>4. ExecutionIsClaimed'
  <2>1. \A x \in Sessions : job'[x].pc \in {"execute", "claim_execution"} =>
          x # w /\ job'[x] = job[x]
    OBVIOUS
  <2>2. CASE job[w].pc = "execute"
    <3>1. cancels = 0 /\ \A x \in Sessions \ {w} : job[x].pc # "execute"
      BY <2>2 DEF OwnershipInv, ExecutionIsClaimed
    <3>2. row.state \notin {"REQUESTED", "AWAITING_CONFIRMATION"}
      BY <2>2 DEF OwnershipInv, ExecutionIsClaimed
    <3> QED BY <2>1, <2>2, <3>1, <3>2 DEF OwnershipInv, ExecutionIsClaimed, Current
  <2>3. CASE job[w].pc # "execute"
    BY <2>1, <2>3 DEF OwnershipInv, ExecutionIsClaimed, Current
  <2> QED BY <2>2, <2>3
<1>5. FollowUpIsClaimed'
  <2> SUFFICES ASSUME NEW f \in FollowUps
               PROVE
                 /\ followUpCalls'[f] <= 1
                 /\ row'.recovery[f].state \in {"none", "AWAITING_CONFIRMATION"} =>
                      followUpCalls'[f] = 0
                 /\ \A x \in Sessions : Holds(x, f)' =>
                      /\ row'.recovery[f].state = "EXECUTING"
                      /\ \A y \in Sessions : Holds(y, f)' => y = x
                      /\ job'[x].pc = "call_recovery" => followUpCalls'[f] = 0
                 /\ \A x \in Sessions : (job'[x].pc = "claim_recovery" /\ job'[x].item = f) =>
                      /\ job'[x].rec.recovery[f].state = "EXECUTING"
                      /\ Current(x)' => row'.recovery[f].state = "AWAITING_CONFIRMATION"
                 /\ \A x \in Sessions :
                      (job'[x].pc \in SavePoints /\ Current(x)'
                         /\ row'.recovery[f].state = "EXECUTING")
                        => job'[x].rec.recovery[f].state = "EXECUTING" \/ Holds(x, f)'
    BY DEF FollowUpIsClaimed
  <2>1. \A x \in Sessions : Holds(x, f)' => Holds(x, f)
    BY DEF Holds
  <2>2. CASE job[w].pc = "call_recovery" /\ job[w].item = f
    <3>1. /\ followUpCalls[f] = 0 /\ row.recovery[f].state = "EXECUTING"
          /\ \A x \in Sessions : Holds(x, f) => x = w
      BY <2>2 DEF OwnershipInv, FollowUpIsClaimed, Holds
    <3>2. followUpCalls'[f] = 1
      BY <2>2, <3>1
    <3> QED BY <2>1, <3>1, <3>2 DEF OwnershipInv, FollowUpIsClaimed, Current, Holds
  <2>3. CASE ~(job[w].pc = "call_recovery" /\ job[w].item = f)
    <3>1. followUpCalls'[f] = followUpCalls[f]
      BY <2>3
    <3>2. \A x \in Sessions : Holds(x, f)' =>
            /\ row.recovery[f].state = "EXECUTING"
            /\ \A y \in Sessions : Holds(y, f)' => y = x
            /\ job'[x].pc = "call_recovery" => followUpCalls[f] = 0
      BY <2>1 DEF OwnershipInv, FollowUpIsClaimed
    <3>3. \A x \in Sessions :
            (job'[x].pc \in SavePoints /\ Current(x)' /\ row.recovery[f].state = "EXECUTING")
              => job'[x].rec.recovery[f].state = "EXECUTING" \/ Holds(x, f)'
      BY DEF OwnershipInv, FollowUpIsClaimed, Current, Holds
    <3>4. \A x \in Sessions : (job'[x].pc = "claim_recovery" /\ job'[x].item = f) =>
            /\ job'[x].rec.recovery[f].state = "EXECUTING"
            /\ Current(x)' => row'.recovery[f].state = "AWAITING_CONFIRMATION"
      BY DEF OwnershipInv, FollowUpIsClaimed, Current
    <3> QED BY <3>1, <3>2, <3>3, <3>4 DEF OwnershipInv, FollowUpIsClaimed
  <2> QED BY <2>2, <2>3
<1> QED BY <1>2, <1>3, <1>4, <1>5 DEF OwnershipInv

\* The cancellation is asked for by its owner, for the first time (_execute).
LEMMA ExecuteKeepsOwnership ==
  ASSUME TypeOK, OwnershipInv, NEW w \in Sessions, Execute(w)
  PROVE  OwnershipInv'
<1>1. /\ job[w] \in Job /\ job[w].rec \in Record /\ row \in Record
      /\ job[w].pc = "execute" /\ now \in Int /\ "VERIFYING" \in States
      /\ cancels' = cancels + 1 /\ UNCHANGED <<row, followUpCalls>>
  BY TimeAssumption DEF TypeOK, Job, Execute, States
<1>2. PICK receipt \in ProviderReceipts :
        job' = [job EXCEPT
                  ![w].pc  = "record_claim",
                  ![w].rec = Transition([job[w].rec EXCEPT !.claim = Accepted(receipt),
                                                           !.checks = @ + 1],
                                        "VERIFYING", now)]
  BY DEF Execute
<1> DEFINE rec      == job[w].rec
           accepted == Accepted(receipt)
           checks   == rec.checks + 1
           claimed  == [rec EXCEPT !.claim = accepted, !.checks = checks]
           moved    == Transition(claimed, "VERIFYING", now)
<1>3. accepted \in Receipt
  BY AcceptedTyped, ProviderAssumption
<1>4. job' = [job EXCEPT ![w].pc = "record_claim", ![w].rec = moved]
  BY <1>2
<1>5. checks \in Nat
  <2>1. job[w].rec.checks \in Nat
    BY <1>1 DEF Record
  <2> QED BY <2>1
<1> HIDE DEF accepted, checks
<1>6. /\ claimed \in Record /\ claimed.version = rec.version
      /\ claimed.attempts = rec.attempts /\ claimed.charges = rec.charges
      /\ claimed.attention = rec.attention /\ claimed.recovery = rec.recovery
  BY <1>1, <1>3, <1>5 DEF Record
<1> HIDE DEF claimed
<1>7. /\ moved \in Record /\ moved.version = rec.version
      /\ moved.attempts = rec.attempts /\ moved.charges = rec.charges
      /\ moved.attention = rec.attention /\ moved.recovery = rec.recovery
  BY <1>1, <1>6, TransitionTyped, TransitionKeeps
<1> HIDE DEF moved
<1>8. /\ ~rec.claim.valid /\ rec.version <= row.version
      /\ rec.version = row.version => rec = row
  BY <1>1 DEF OwnershipInv, ExecutionIsClaimed, CopiesFollowTheStore, Current, SavePoints
<1>9. rec.version = row.version => Extends(row, moved)
  BY <1>1, <1>7, <1>8, ExtendsItself DEF Extends
<1>10. /\ job'[w].pc = "record_claim" /\ job'[w].rec = moved /\ job'[w].item = job[w].item
       /\ \A x \in Sessions \ {w} : job'[x] = job[x]
  BY <1>1, <1>4 DEF TypeOK, Job
<1>11. "record_claim" \in SavePoints
  BY DEF SavePoints
<1> HIDE DEF rec
<1>13. /\ job'[w].rec.version <= row.version
       /\ job'[w].rec.version = row.version =>
            /\ IF job'[w].pc \in SavePoints THEN Extends(row, job'[w].rec) ELSE job'[w].rec = row
            /\ \A f \in FollowUps : row.recovery[f].state = "EXECUTING" =>
                                    \/ job'[w].rec.recovery[f].state = "EXECUTING"
                                    \/ job[w].item = f /\ job'[w].pc = "finish"
  BY <1>7, <1>8, <1>9, <1>10, <1>11
<1> QED BY <1>1, <1>10, <1>13, ProgressKeepsOwnership

\* A look at the provider leaves the ownership as it is
\* (_collect_independent_evidence).
LEMMA ReadBackKeepsOwnership ==
  ASSUME TypeOK, OwnershipInv, NEW w \in Sessions, ReadBack(w)
  PROVE  OwnershipInv'
<1>1. /\ job[w] \in Job /\ job[w].rec \in Record /\ row \in Record
      /\ job[w].at \in Int /\ job[w].eligible \in BOOLEAN
      /\ job[w].pc = "read_back" /\ UNCHANGED <<row, cancels, followUpCalls>>
  BY DEF TypeOK, Job, ReadBack
<1> DEFINE at  == IF job[w].at = Never THEN now ELSE job[w].at
           rec == job[w].rec
<1>2. PICK evidence \in ProviderEvidence :
        job' = [job EXCEPT
                  ![w].pc  = "conclude",
                  ![w].rec = RecordVerification(job[w].rec, Collected(evidence),
                                                job[w].eligible, at)]
  BY DEF ReadBack
<1>3. at \in Int
  BY <1>1, TimeAssumption DEF TypeOK
<1>4. Collected(evidence) \in Evidence
  BY CollectedTyped, ProviderAssumption
<1> HIDE DEF at
<1> DEFINE judged == RecordVerification(rec, Collected(evidence), job[w].eligible, at)
<1>5. job' = [job EXCEPT ![w].pc = "conclude", ![w].rec = judged]
  BY <1>2
<1>6. /\ judged \in Record /\ judged.version = rec.version
      /\ Extends(rec, judged)
      /\ \A f \in FollowUps : rec.recovery[f].state = "EXECUTING" =>
                              judged.recovery[f].state = "EXECUTING"
  BY <1>1, <1>3, <1>4, RecordVerificationTyped, RecordVerificationExtends
<1> HIDE DEF judged
<1>7. /\ rec.version <= row.version
      /\ rec.version = row.version => rec = row
  BY <1>1 DEF OwnershipInv, CopiesFollowTheStore, Current, SavePoints
<1>8. /\ job'[w].pc = "conclude" /\ job'[w].rec = judged /\ job'[w].item = job[w].item
      /\ \A x \in Sessions \ {w} : job'[x] = job[x]
  BY <1>1, <1>5 DEF TypeOK, Job
<1>9. "conclude" \in SavePoints
  BY DEF SavePoints
<1> HIDE DEF rec
<1>11. /\ job'[w].rec.version <= row.version
       /\ job'[w].rec.version = row.version =>
            /\ IF job'[w].pc \in SavePoints THEN Extends(row, job'[w].rec) ELSE job'[w].rec = row
            /\ \A f \in FollowUps : row.recovery[f].state = "EXECUTING" =>
                                    \/ job'[w].rec.recovery[f].state = "EXECUTING"
                                    \/ job[w].item = f /\ job'[w].pc = "finish"
  BY <1>6, <1>7, <1>8, <1>9
<1> QED BY <1>1, <1>8, <1>11, ProgressKeepsOwnership

\* The follow-up is asked for by its owner, for the first time
\* (confirm_recovery_action).
LEMMA CallRecoveryKeepsOwnership ==
  ASSUME TypeOK, OwnershipInv, NEW w \in Sessions, CallRecovery(w)
  PROVE  OwnershipInv'
<1>1. /\ job[w] \in Job /\ job[w].rec \in Record /\ row \in Record
      /\ job[w].pc = "call_recovery" /\ UNCHANGED <<row, cancels>>
      /\ followUpCalls \in [FollowUps -> Nat]
  BY DEF TypeOK, Job, CallRecovery
<1>2. PICK succeeded \in BOOLEAN :
        job' = [job EXCEPT ![w].pc = "reload", ![w].succeeded = succeeded]
  BY DEF CallRecovery
<1> DEFINE rec == job[w].rec
<1>3. /\ job'[w].pc = "reload" /\ job'[w].rec = rec /\ job'[w].item = job[w].item
      /\ \A x \in Sessions \ {w} : job'[x] = job[x]
  BY <1>1, <1>2 DEF TypeOK, Job
<1>4. followUpCalls' = [followUpCalls EXCEPT ![job[w].item] = @ + 1]
  BY DEF CallRecovery
<1>5. \A f \in FollowUps :
        followUpCalls'[f] = IF job[w].item = f THEN followUpCalls[f] + 1 ELSE followUpCalls[f]
  BY <1>1, <1>4
<1>6. /\ rec.version <= row.version
      /\ rec.version = row.version => rec = row
  BY <1>1 DEF OwnershipInv, CopiesFollowTheStore, Current, SavePoints
<1>7. "reload" \notin SavePoints
  BY DEF SavePoints
<1> HIDE DEF rec
<1>9. /\ job'[w].rec.version <= row.version
      /\ job'[w].rec.version = row.version =>
           /\ IF job'[w].pc \in SavePoints THEN Extends(row, job'[w].rec) ELSE job'[w].rec = row
           /\ \A f \in FollowUps : row.recovery[f].state = "EXECUTING" =>
                                   \/ job'[w].rec.recovery[f].state = "EXECUTING"
                                   \/ job[w].item = f /\ job'[w].pc = "finish"
  BY <1>3, <1>6, <1>7
<1> QED BY <1>1, <1>3, <1>5, <1>9, ProgressKeepsOwnership

\* The owner of a follow-up is the one who prepares its result
\* (confirm_recovery_action, the second load).
LEMMA ReloadRecoveryKeepsOwnership ==
  ASSUME TypeOK, OwnershipInv, NEW w \in Sessions, ReloadRecovery(w)
  PROVE  OwnershipInv'
<1> DEFINE f      == job[w].item
           result == IF ~job[w].succeeded THEN "FAILED"
                     ELSE IF IsRefund(job[w].rec, f) THEN "COMPLETED" ELSE "VERIFYING"
           after  == SetFollowUp(row, f, result, job[w].at)
<1>1. /\ job[w] \in Job /\ row \in Record /\ job[w].at \in Int /\ job[w].pc = "reload"
      /\ UNCHANGED <<row, cancels, followUpCalls>>
  BY DEF TypeOK, Job, ReloadRecovery
<1>2. \/ job' = [job EXCEPT ![w].pc = "finish", ![w].rec = after]
      \/ job' = [job EXCEPT ![w] = NoJob]
  BY DEF ReloadRecovery
<1>3. CASE job' = [job EXCEPT ![w] = NoJob]
  BY <1>1, <1>3, DropKeepsOwnership
<1>4. CASE job' = [job EXCEPT ![w].pc = "finish", ![w].rec = after]
  <2>1. result \in {"FAILED", "COMPLETED", "VERIFYING"}
    OBVIOUS
  <2> HIDE DEF result
  <2>2. /\ after.version = row.version
        /\ \A g \in FollowUps \ {f} : after.recovery[g] = row.recovery[g]
        /\ Extends(row, after)
    <3>1. CASE f \in FollowUps
      <4>1. row.recovery[f].state = "EXECUTING"
        BY <1>1, <3>1 DEF OwnershipInv, FollowUpIsClaimed, Holds
      <4>2. FollowUpAdvances(row.recovery[f].state, result)
        BY <2>1, <4>1 DEF FollowUpAdvances
      <4> QED BY <1>1, <3>1, <4>2, SetFollowUpKeeps
    <3>2. CASE f \notin FollowUps
      <4>1. /\ after.version = row.version /\ after.recovery = row.recovery
            /\ after.attempts = row.attempts /\ after.charges = row.charges
            /\ after.attention = row.attention /\ after.claim = row.claim
        BY <1>1, <3>2 DEF SetFollowUp, Record
      <4> HIDE DEF after
      <4> QED BY <1>1, <4>1, ExtendsItself DEF Extends
    <3> QED BY <3>1, <3>2
  <2> HIDE DEF after
  <2>3. /\ job'[w].pc = "finish" /\ job'[w].rec = after /\ job'[w].item = f
        /\ \A x \in Sessions \ {w} : job'[x] = job[x]
    BY <1>1, <1>4 DEF TypeOK, Job
  <2>4. "finish" \in SavePoints /\ row.version \in Nat
    BY <1>1 DEF SavePoints, Record
  <2>5. /\ job'[w].rec.version <= row.version
        /\ job'[w].rec.version = row.version =>
             /\ IF job'[w].pc \in SavePoints THEN Extends(row, job'[w].rec) ELSE job'[w].rec = row
             /\ \A g \in FollowUps : row.recovery[g].state = "EXECUTING" =>
                                     \/ job'[w].rec.recovery[g].state = "EXECUTING"
                                     \/ job[w].item = g /\ job'[w].pc = "finish"
    BY <2>2, <2>3, <2>4
  <2> QED BY <1>1, <2>3, <2>5, ProgressKeepsOwnership
<1> QED BY <1>2, <1>3, <1>4

(***************************************************************************)
(* The theorems                                                            *)
(***************************************************************************)
\* Nothing is owned before the record exists.
LEMMA InitOwnership == Init => OwnershipInv
<1> SUFFICES ASSUME Init PROVE OwnershipInv
  OBVIOUS
<1>1. /\ row = Unborn /\ job = [w \in Sessions |-> NoJob] /\ cancels = 0
      /\ followUpCalls = [f \in FollowUps |-> 0]
  BY DEF Init
<1>2. NoJob.pc = "idle" /\ NoJob.item = None
  BY DEF NoJob
<1>3. NothingBeforeStart /\ ExecutionIsClaimed /\ CopiesFollowTheStore
  BY <1>1, <1>2 DEF NothingBeforeStart, ExecutionIsClaimed, CopiesFollowTheStore
<1>4. FollowUpIsClaimed
  BY <1>1, <1>2 DEF FollowUpIsClaimed, Holds, SavePoints
<1> QED BY <1>3, <1>4 DEF OwnershipInv

\* Beginning a call stores nothing and keeps the ownership.
LEMMA AskKeepsOwnership ==
  ASSUME TypeOK, OwnershipInv, NEW w \in Sessions, Ask(w)
  PROVE  OwnershipInv' /\ UNCHANGED row
<1>1. CASE ExpireRecovery(w) \/ DeclineRecovery(w)
  <2>1. PICK f \in FollowUps, at \in RecentTimes, state \in {"EXPIRED", "DECLINED"} :
          LoadRecovery(w, f, at) /\ Begin(w, "finish", SetFollowUp(row, f, state, at), Never)
    BY <1>1 DEF ExpireRecovery, DeclineRecovery
  <2> QED BY <2>1, AnswerKeepsOwnership DEF LoadRecovery
<1>2. CASE AcceptRecovery(w)
  <2>1. UNCHANGED row
    BY <1>2 DEF AcceptRecovery, LoadRecovery
  <2> QED BY <1>2, <2>1, AcceptRecoveryKeepsOwnership
<1>3. CASE LoadConfirm(w)
  BY <1>3, LoadConfirmKeepsOwnership DEF LoadConfirm
<1>4. CASE LoadRecheck(w)
  BY <1>4, LoadRecheckKeepsOwnership DEF LoadRecheck
<1>5. CASE LoadCharge(w)
  BY <1>5, LoadChargeKeepsOwnership DEF LoadCharge
<1> QED BY <1>1, <1>2, <1>3, <1>4, <1>5 DEF Ask

\* Carrying a call on keeps the ownership, and stores only what adds to an
\* open record.
LEMMA ProceedKeepsOwnership ==
  ASSUME TypeOK, OwnershipInv, NEW w \in Sessions, Proceed(w)
  PROVE  /\ OwnershipInv'
         /\ row' # row => row.state \notin Terminal /\ Extends(row, row')
<1>1. CASE ClaimExecution(w)
  BY <1>1, SaveKeepsOwnership DEF ClaimExecution, SavePoints
<1>2. CASE RecordClaim(w) \/ ClaimCheck(w)
  BY <1>2, SaveKeepsOwnership DEF RecordClaim, ClaimCheck, SavePoints
<1>3. CASE ClaimRecovery(w)
  BY <1>3, SaveKeepsOwnership DEF ClaimRecovery, SavePoints
<1>4. CASE Conclude(w) \/ Finish(w)
  BY <1>4, SaveKeepsOwnership DEF Conclude, Finish, SavePoints
<1>5. CASE SaveRefused(w)
  BY <1>5, DropKeepsOwnership DEF SaveRefused
<1>6. CASE Execute(w)
  BY <1>6, ExecuteKeepsOwnership DEF Execute
<1>7. CASE ReadBack(w)
  BY <1>7, ReadBackKeepsOwnership DEF ReadBack
<1>8. CASE CallRecovery(w)
  BY <1>8, CallRecoveryKeepsOwnership DEF CallRecovery
<1>9. CASE ReloadRecovery(w)
  BY <1>9, ReloadRecoveryKeepsOwnership DEF ReloadRecovery
<1> QED BY <1>1, <1>2, <1>3, <1>4, <1>5, <1>6, <1>7, <1>8, <1>9 DEF Proceed

\* The induction step, for every action of the specification.
LEMMA NextKeepsOwnership ==
  ASSUME TypeOK, OwnershipInv, [Next]_vars
  PROVE  /\ OwnershipInv'
         /\ [row.state \notin Terminal /\ Extends(row, row')]_row
<1>1. CASE Start
  BY <1>1, StartKeepsOwnership
<1>2. CASE \E w \in Sessions : Ask(w)
  BY <1>2, AskKeepsOwnership
<1>3. CASE \E w \in Sessions : Proceed(w)
  BY <1>3, ProceedKeepsOwnership
<1>4. CASE \E w \in Sessions : CallLost(w)
  BY <1>4, DropKeepsOwnership DEF CallLost
<1>5. CASE Tick \/ UNCHANGED vars
  <2>1. UNCHANGED <<row, job, cancels, followUpCalls>>
    BY <1>5 DEF Tick, vars
  <2>2. NothingBeforeStart' /\ ExecutionIsClaimed' /\ CopiesFollowTheStore'
    BY <2>1 DEF OwnershipInv, NothingBeforeStart, ExecutionIsClaimed, CopiesFollowTheStore, Current
  <2>3. FollowUpIsClaimed'
    BY <2>1 DEF OwnershipInv, FollowUpIsClaimed, Holds, Current
  <2> QED BY <2>1, <2>2, <2>3 DEF OwnershipInv
<1> QED BY <1>1, <1>2, <1>3, <1>4, <1>5 DEF Next

\* Who may save what: the induction that the three theorems below rest on.
THEOREM Ownership == Spec => []OwnershipInv
<1>1. TypeOK /\ OwnershipInv /\ [Next]_vars => OwnershipInv'
  BY NextKeepsOwnership
<1> QED BY <1>1, InitOwnership, TypeCorrect, PTL DEF Spec

\* Whatever number of confirmations race and wherever their processes stop,
\* the provider is asked to cancel at most once (confirm_resolution_action).
THEOREM CancelledOnce == Spec => []CancelAtMostOnce
<1>1. OwnershipInv => CancelAtMostOnce
  BY DEF OwnershipInv, ExecutionIsClaimed, CancelAtMostOnce
<1> QED BY <1>1, Ownership, PTL

\* Every follow-up's provider is called at most once (confirm_recovery_action).
THEOREM FollowedUpOnce == Spec => []FollowUpAtMostOnce
<1>1. OwnershipInv => FollowUpAtMostOnce
  BY DEF OwnershipInv, FollowUpIsClaimed, FollowUpAtMostOnce
<1> QED BY <1>1, Ownership, PTL

\* No save takes back what another session recorded, and a final record is
\* never saved again (save_owned).
THEOREM Remembered == Spec => NothingIsForgotten
<1>1. TypeOK /\ OwnershipInv /\ [Next]_vars
        => [row.state \notin Terminal /\ Extends(row, row')]_row
  BY NextKeepsOwnership
<1> QED BY <1>1, Ownership, TypeCorrect, PTL DEF Spec, NothingIsForgotten
=============================================================================
