-------------------------- MODULE PublicDemoProofs ---------------------------
(***************************************************************************)
(* The public demonstration, for any number of requests and slots and      *)
(* whenever in the week it begins.                                         *)
(*                                                                         *)
(* The slots of the demonstration are accounted for. The count of slots is *)
(* inductive only together with OneKeeper: a slot may be given back        *)
(* because whoever does so is its only keeper, and the request it belongs  *)
(* to is still admitted. The public demonstration implements admission:    *)
(* whatever its thread does is a step of admission or none, so that the    *)
(* slots are accounted for there too.                                      *)
(*                                                                         *)
(* A demonstration shows what it says. The invariant is the journey of     *)
(* DemoJourney. It is kept because of what each operation of the service   *)
(* makes of a record at its stage: those are the lemmas on records, which  *)
(* come first. Then there is one lemma for every action of the thread.     *)
(* What the invariant implies comes last: no save is refused, every step   *)
(* of a script can be taken, and what is shown at the end is true.         *)
(***************************************************************************)
EXTENDS DemoJourney, FiniteSetTheorems, SequenceTheorems, TLAPS

\* Where a request stands, and who keeps which slot.
TypeOK ==
  /\ waiting \subseteq Requests /\ callbacks \subseteq Requests
  /\ task \in [Requests -> {"none", "running"} \cup Endings]

AdmissionInv == TypeOK /\ OneKeeper /\ SlotsAccounted

\* The admitted requests are finitely many (run_public_demo).
LEMMA AdmittedFinite ==
  /\ IsFiniteSet(Admitted) /\ Cardinality(Admitted) \in Nat
  /\ IsFiniteSet(Running) /\ Cardinality(Running) \in Nat
  /\ Cardinality(Running) <= Cardinality(Admitted)
<1>1. Admitted \in SUBSET Requests /\ Running \in SUBSET Admitted
  BY DEF Admitted, Running
<1>2. IsFiniteSet(Admitted)
  BY <1>1, RequestsAssumption, FS_Subset
<1>3. IsFiniteSet(Running) /\ Cardinality(Running) <= Cardinality(Admitted)
  BY <1>1, <1>2, FS_Subset
<1> QED BY <1>2, <1>3, FS_CardinalityType

\* Giving back the slot of an admitted request leaves the others admitted and
\* the count right (admission.release).
LEMMA ReleaseCounts ==
  ASSUME AdmissionInv, NEW r \in Requests, task[r] # "none", Release(r)
  PROVE  /\ task' \in [Requests -> {"none", "running"} \cup Endings]
         /\ Admitted' = Admitted \ {r}
         /\ SlotsAccounted'
<1>1. task' \in [Requests -> {"none", "running"} \cup Endings]
  BY DEF AdmissionInv, TypeOK, Release
<1>2. Admitted' = Admitted \ {r}
  BY DEF AdmissionInv, TypeOK, Release, Admitted
<1>3. r \in Admitted
  BY DEF Admitted
<1>4. Cardinality(Admitted \ {r}) = Cardinality(Admitted) - 1
  BY <1>3, AdmittedFinite, FS_RemoveElement
<1>5. slots' = slots + 1 /\ slots \in Nat
  BY DEF AdmissionInv, SlotsAccounted, Release
<1>6. SlotsAccounted'
  BY <1>2, <1>4, <1>5, AdmittedFinite DEF AdmissionInv, SlotsAccounted
<1> QED BY <1>1, <1>2, <1>6

\* Steps that keep every task admitted or not keep the count.
LEMMA SameCount ==
  ASSUME AdmissionInv, Admitted' = Admitted, slots' = slots
  PROVE  SlotsAccounted'
  BY DEF AdmissionInv, SlotsAccounted

\* Admission takes a slot and starts a task (run_public_demo).
LEMMA AdmitCounts ==
  ASSUME AdmissionInv, NEW r \in Requests, Admit(r)
  PROVE  AdmissionInv'
<1>1. TypeOK'
  BY DEF AdmissionInv, TypeOK, Admit
<1>2. Admitted' = Admitted \cup {r} /\ r \notin Admitted
  BY DEF AdmissionInv, TypeOK, Admit, Admitted
<1>3. OneKeeper'
  BY <1>2 DEF AdmissionInv, OneKeeper, Admit
<1>4. Cardinality(Admitted \cup {r}) = Cardinality(Admitted) + 1
  BY <1>2, AdmittedFinite, FS_AddElement
<1>5. slots' = slots - 1 /\ slots > 0 /\ slots \in Nat
  BY DEF AdmissionInv, SlotsAccounted, Admit
<1>6. SlotsAccounted'
  BY <1>2, <1>4, <1>5, AdmittedFinite DEF AdmissionInv, SlotsAccounted
<1> QED BY <1>1, <1>3, <1>6 DEF AdmissionInv

\* The induction step, for every action of the specification.
LEMMA NextCounts == AdmissionInv /\ [Next]_vars => AdmissionInv'
<1> SUFFICES ASSUME AdmissionInv, [Next]_vars PROVE AdmissionInv'
  OBVIOUS
<1>1. ASSUME NEW r \in Requests, End(r) PROVE AdmissionInv'
  <2>1. TypeOK'
    BY <1>1 DEF AdmissionInv, TypeOK, End
  <2>2. Admitted' = Admitted
    BY <1>1 DEF AdmissionInv, TypeOK, End, Admitted, Endings
  <2>3. OneKeeper' /\ SlotsAccounted'
    BY <1>1, <2>2, SameCount DEF AdmissionInv, OneKeeper, End
  <2> QED BY <2>1, <2>3 DEF AdmissionInv
<1>2. ASSUME NEW r \in Requests, Return(r) PROVE AdmissionInv'
  <2>1. task[r] # "none" /\ Release(r)
    BY <1>2 DEF Return, Done, Endings
  <2>2. TypeOK' /\ OneKeeper'
    BY <1>2, <2>1, ReleaseCounts DEF AdmissionInv, TypeOK, OneKeeper, Return
  <2> QED BY <2>1, <2>2, ReleaseCounts DEF AdmissionInv
<1>3. ASSUME NEW r \in Requests, TimeOut(r) PROVE AdmissionInv'
  <2>1. TypeOK' /\ Admitted' = Admitted
    BY <1>3 DEF AdmissionInv, TypeOK, TimeOut, Admitted
  <2>2. OneKeeper' /\ SlotsAccounted'
    BY <1>3, <2>1, SameCount DEF AdmissionInv, OneKeeper, TimeOut
  <2> QED BY <2>1, <2>2 DEF AdmissionInv
<1>4. ASSUME NEW r \in Requests, Disconnect(r) PROVE AdmissionInv'
  <2>1. CASE Done(r)
    <3>1. task[r] # "none" /\ Release(r)
      BY <1>4, <2>1 DEF Disconnect, Done, Endings
    <3>2. TypeOK' /\ OneKeeper'
      BY <1>4, <2>1, <3>1, ReleaseCounts DEF AdmissionInv, TypeOK, OneKeeper, Disconnect
    <3> QED BY <3>1, <3>2, ReleaseCounts DEF AdmissionInv
  <2>2. CASE ~Done(r)
    <3>1. TypeOK' /\ Admitted' = Admitted
      BY <1>4, <2>2 DEF AdmissionInv, TypeOK, Disconnect, Admitted
    <3>2. OneKeeper' /\ SlotsAccounted'
      BY <1>4, <2>2, <3>1, SameCount DEF AdmissionInv, OneKeeper, Disconnect
    <3> QED BY <3>1, <3>2 DEF AdmissionInv
  <2> QED BY <2>1, <2>2
<1>5. ASSUME NEW r \in Requests, CallBack(r) PROVE AdmissionInv'
  <2>1. task[r] # "none" /\ Release(r)
    BY <1>5 DEF CallBack, Done, Endings
  <2>2. TypeOK' /\ OneKeeper'
    BY <1>5, <2>1, ReleaseCounts DEF AdmissionInv, TypeOK, OneKeeper, CallBack
  <2> QED BY <2>1, <2>2, ReleaseCounts DEF AdmissionInv
<1>6. CASE UNCHANGED vars
  <2>1. TypeOK' /\ Admitted' = Admitted /\ slots' = slots
    BY <1>6 DEF vars, AdmissionInv, TypeOK, Admitted
  <2>2. OneKeeper' /\ SlotsAccounted'
    BY <1>6, <2>1, SameCount DEF vars, AdmissionInv, OneKeeper
  <2> QED BY <2>1, <2>2 DEF AdmissionInv
<1> QED BY <1>1, <1>2, <1>3, <1>4, <1>5, <1>6, AdmitCounts DEF Next

\* Every admitted request has one keeper of its slot and no slot is lost or
\* given back twice, for any number of requests and slots (run_public_demo,
\* _release_after_completion).
THEOREM Accounted == Spec => []AdmissionInv
<1>1. Init => AdmissionInv
  <2> SUFFICES ASSUME Init PROVE AdmissionInv
    OBVIOUS
  <2>1. TypeOK /\ Admitted = {}
    BY DEF Init, TypeOK, Admitted
  <2>2. OneKeeper
    BY <2>1 DEF Init, OneKeeper
  <2>3. SlotsAccounted
    BY <2>1, FS_EmptySet, MaxConcurrencyAssumption DEF Init, SlotsAccounted
  <2> QED BY <2>1, <2>2, <2>3 DEF AdmissionInv
<1> QED BY <1>1, NextCounts, PTL DEF Spec

\* Every admitted request has one keeper of its slot.
THEOREM KeptByOne == Spec => []OneKeeper
<1>1. AdmissionInv => OneKeeper
  BY DEF AdmissionInv
<1> QED BY <1>1, Accounted, PTL

\* No slot is lost and none is given back twice.
THEOREM SlotsAreAccounted == Spec => []SlotsAccounted
<1>1. AdmissionInv => SlotsAccounted
  BY DEF AdmissionInv
<1> QED BY <1>1, Accounted, PTL

\* There are never more demonstrations running than slots.
THEOREM ThreadsBounded == Spec => []ThreadsAreBounded
<1>1. AdmissionInv => ThreadsAreBounded
  BY AdmittedFinite, MaxConcurrencyAssumption
     DEF AdmissionInv, SlotsAccounted, ThreadsAreBounded
<1> QED BY <1>1, Accounted, PTL

(***************************************************************************)
(* The demonstration with its thread                                       *)
(***************************************************************************)
\* A step of the whole is a step of admission or leaves it alone: the thread
\* ends in one of the ways admission knows of.
LEMMA StepAdmits == [PublicNext]_all => [Next]_vars
<1> SUFFICES ASSUME [PublicNext]_all PROVE [Next]_vars
  OBVIOUS
<1>1. CASE AdmitShown
  BY <1>1, ShownAssumption DEF AdmitShown, Next
<1>2. CASE Run
  BY <1>2 DEF Run
<1>3. CASE EndShown
  <2>1. End(Shown)
    BY <1>3 DEF EndShown, End, Ending, Endings
  <2> QED BY <2>1, ShownAssumption DEF Next
<1>4. ASSUME NEW r \in Requests, Beside(r) PROVE Next
  BY <1>4 DEF Beside, Next, Others
<1>5. CASE UNCHANGED all
  BY <1>5 DEF all
<1> QED BY <1>1, <1>2, <1>3, <1>4, <1>5 DEF PublicNext

\* The public demonstration implements admission (run_public_demo with the
\* thread that runs PublicDemoRunner).
THEOREM ImplementsAdmission == PublicSpec => Spec
<1>1. PublicInit => Init
  BY DEF PublicInit
<1> QED BY <1>1, StepAdmits, PTL DEF PublicSpec, Spec

\* What admission promises holds of the public demonstration, for any number
\* of requests and slots and whatever the demonstrations do.
THEOREM PublicDemoAccounted ==
  PublicSpec => [](OneKeeper /\ SlotsAccounted /\ ThreadsAreBounded)
BY ImplementsAdmission, KeptByOne, SlotsAreAccounted, ThreadsBounded, PTL

(***************************************************************************)
(* The deadline of an intent                                               *)
(***************************************************************************)
\* A moment lies within its day, and a weekday is one of seven
\* (datetime.weekday).
LEMMA MomentInDay ==
  ASSUME NEW moment \in Nat
  PROVE  /\ moment \div Day \in Nat
         /\ (moment \div Day) * Day <= moment /\ moment < (moment \div Day + 1) * Day
         /\ Weekday(moment) \in 0..6
  BY DEF Day, Weekday

\* From one to seven days ahead, and then it is a Friday
\* (interpret_cancellation_request).
LEMMA FridayAhead ==
  ASSUME NEW moment \in Nat
  PROVE  /\ DaysToFriday(moment) \in 1..7
         /\ (moment \div Day + DaysToFriday(moment)) % 7 = Friday
<1> DEFINE day  == moment \div Day
           left == (4 - (day % 7)) % 7
<1>1. day \in Nat
  BY MomentInDay
<1>2. DaysToFriday(moment) = IF left = 0 THEN 7 ELSE left
  BY <1>1 DEF DaysToFriday, Weekday, Friday
<1> HIDE DEF day
<1>3. day % 7 \in 0..6
  BY <1>1
<1>4. left \in 0..6
  <2>1. PICK rest \in 0..6 : rest = day % 7
    BY <1>3
  <2>2. left = (4 - rest) % 7
    BY <1>1, <2>1
  <2> QED BY <2>2
<1>5. (day + left) % 7 = 4
  BY <1>1
<1> HIDE DEF left
<1>6. DaysToFriday(moment) \in 1..7
  BY <1>2, <1>4
<1>7. (day + DaysToFriday(moment)) % 7 = 4
  BY <1>1, <1>2, <1>4, <1>5
<1> QED BY <1>6, <1>7 DEF Friday, day

\* Whatever moment an intent comes at, the deadline read from it lies ahead,
\* at a midnight at most two weeks away, and a Friday is a Friday
\* (interpret_cancellation_request; start_resolution takes it as it is).
THEOREM DeadlineLiesAhead ==
  ASSUME NEW moment \in Nat, NEW wish \in Wishes \ {"none"}
  PROVE  LET end == moment + DeadlineRead(wish, moment) IN
         /\ DeadlineRead(wish, moment) \in 1..(14 * Day)
         /\ end % Day = 0
         /\ wish \in {"friday", "next_friday"} => Weekday(end) = Friday
<1> DEFINE day   == moment \div Day
           ahead == DaysAhead(wish, moment)
           end   == moment + DeadlineRead(wish, moment)
<1>1. day \in Nat /\ day * 2880 <= moment /\ moment < (day + 1) * 2880
  BY MomentInDay DEF Day
<1>2. /\ ahead \in 1..14
      /\ wish \in {"friday", "next_friday"} => (day + ahead) % 7 = Friday
  <2>1. CASE wish = "tomorrow"
    BY <2>1 DEF DaysAhead
  <2>2. CASE wish = "friday"
    <3>1. ahead = DaysToFriday(moment)
      BY <2>2 DEF DaysAhead
    <3> QED BY <2>2, <3>1, FridayAhead
  <2>3. CASE wish = "next_friday"
    <3>1. ahead = DaysToFriday(moment) + 7
      BY <2>3 DEF DaysAhead
    <3>2. (day + ahead) % 7 = (day + DaysToFriday(moment)) % 7
      BY <1>1, <3>1, FridayAhead
    <3> QED BY <2>3, <3>1, <3>2, FridayAhead
  <2> QED BY <2>1, <2>2, <2>3 DEF Wishes
<1>3. DeadlineRead(wish, moment) = (day + ahead) * 2880 - moment
  BY DEF DeadlineRead, Wishes, Day
<1> HIDE DEF day, ahead
<1>4. end = (day + ahead) * 2880
  BY <1>1, <1>2, <1>3
<1>5. DeadlineRead(wish, moment) \in 1..(14 * Day)
  <2>1. (day + ahead) * 2880 = day * 2880 + ahead * 2880
    BY <1>1, <1>2
  <2>2. DeadlineRead(wish, moment) = day * 2880 + ahead * 2880 - moment
    BY <1>1, <1>2, <1>3, <2>1
  <2>3. (day + 1) * 2880 = day * 2880 + 2880
    BY <1>1
  <2>4. PICK start \in Nat : start = day * 2880
    BY <1>1
  <2>5. PICK later \in 1..14 : later = ahead
    BY <1>2
  <2>6. DeadlineRead(wish, moment) = start + later * 2880 - moment
    BY <2>2, <2>4, <2>5
  <2>7. start <= moment /\ moment < start + 2880
    BY <1>1, <2>3, <2>4, SMTT(30)
  <2>8. PICK span \in 2880..40320 : span = later * 2880
    BY <2>5, SMTT(30)
  <2>9. DeadlineRead(wish, moment) = start + span - moment
    BY <2>6, <2>8, SMTT(30)
  <2>10. DeadlineRead(wish, moment) \in Int
    BY <2>4, <2>8, <2>9, SMTT(30)
  <2>11. 1 <= DeadlineRead(wish, moment) /\ DeadlineRead(wish, moment) <= 40320
    BY <2>4, <2>7, <2>8, <2>9, SMTT(30)
  <2>12. 14 * Day = 40320
    BY DEF Day
  <2> QED BY <2>10, <2>11, <2>12, SMTT(30)
<1>6. end % Day = 0 /\ end \div Day = day + ahead
  BY <1>1, <1>2, <1>4, SMTT(30) DEF Day
<1>7. Weekday(end) = (day + ahead) % 7
  BY <1>6 DEF Weekday
<1> HIDE DEF end
<1>8. /\ DeadlineRead(wish, moment) \in 1..(14 * Day)
      /\ end % Day = 0
      /\ wish \in {"friday", "next_friday"} => Weekday(end) = Friday
  BY <1>2, <1>5, <1>6, <1>7
<1> QED BY <1>8 DEF end

\* A demonstration may begin at any moment of the week: its resolution has a
\* deadline that the service takes (PublicDemoRunner.run, start_resolution).
THEOREM DemonstrationMayBegin ==
  ASSUME NEW moment \in Moments
  PROVE  /\ Contract(moment) \in [deadline: Nat, tracksCharges: BOOLEAN]
         /\ Contract(moment).deadline > 0
<1>1. moment \in Nat /\ "next_friday" \in Wishes \ {"none"}
  BY MomentsAssumption DEF Wishes
<1>2. DeadlineRead("next_friday", moment) \in 1..(14 * Day)
  BY <1>1, DeadlineLiesAhead, SMTT(30)
<1>3. DeadlineRead("next_friday", moment) \in Nat /\ DeadlineRead("next_friday", moment) > 0
  <2>1. \A n \in 1..(14 * Day) : n \in Nat /\ n > 0
    BY SMTT(30) DEF Day
  <2> QED BY <1>2, <2>1, SMTT(30)
<1> QED BY <1>3 DEF Contract

(***************************************************************************)
(* Records stay records                                                    *)
(***************************************************************************)
\* The fixed values belong to their types (models.py, lifecycle.py).
LEMMA ValuesTyped ==
  /\ S!NoReceipt \in S!Receipt
  /\ S!NoCharge \in S!Charge
  /\ S!Unreadable \in S!Evidence
  /\ S!Unborn \in S!Record
  /\ S!NoJob \in S!Job
  /\ S!Never \in Int
<1>1. S!NoReceipt \in S!Receipt
  BY DEF S!NoReceipt, S!Receipt, S!Digests
<1>2. S!NoCharge \in S!Charge
  BY DEF S!NoCharge, S!Charge, S!Digests, S!Never, S!None
<1>3. S!Unreadable \in S!Evidence
  BY DEF S!Unreadable, S!Evidence, S!Digests
<1>4. S!Unborn \in S!Record
  BY <1>1
     DEF S!Unborn, S!Record, S!States, S!Never, S!Notices, S!FollowUps, S!FollowUp, S!FollowUpStates
<1>5. S!NoJob \in S!Job
  BY <1>4 DEF S!NoJob, S!Job, S!Places, S!SavePoints, S!Never
<1>6. S!Never \in Int
  BY DEF S!Never
<1> QED BY <1>1, <1>2, <1>3, <1>4, <1>5, <1>6

\* The verifier gives one of its reasons on every input (verify_cancellation).
LEMMA VerifyTyped ==
  ASSUME NEW receipt, NEW evidence, NEW final, NEW expected, NEW charge, NEW deadline, NEW time
  PROVE  S!Verify(receipt, evidence, final, expected, charge, deadline, time) \in S!Reasons
  BY DEF S!Verify, S!Reasons

\* A reason leads to an outcome or back to waiting (_terminal_state_for).
LEMMA StateForTyped ==
  ASSUME NEW reason
  PROVE  S!StateFor(reason) \in S!Terminal \cup {"AWAITING_PROOF"}
  BY DEF S!StateFor, S!Terminal

\* A change of state gives a record (_transition).
LEMMA TransitionTyped ==
  ASSUME NEW rec \in S!Record, NEW next \in S!States, NEW at \in Int
  PROVE  S!Transition(rec, next, at) \in S!Record
<1> DEFINE moves == rec.moves + 1
<1>1. moves \in Nat
  BY DEF S!Record
<1>2. S!Transition(rec, next, at)
        = [rec EXCEPT !.state = next, !.moves = moves, !.movedAt = at, !.updatedAt = at]
  BY DEF S!Transition
<1> HIDE DEF moves
<1> QED BY <1>1, <1>2, ZenonT(30) DEF S!Record

\* What is kept of the provider's answer is a receipt (_execute).
LEMMA AcceptedTyped ==
  ASSUME NEW receipt \in S!Receipt
  PROVE  S!Accepted(receipt) \in S!Receipt
  BY DEF S!Accepted, S!Receipt, S!Digests

\* What is kept of a read-back is evidence (_collect_independent_evidence).
LEMMA CollectedTyped ==
  ASSUME NEW evidence \in S!Evidence
  PROVE  S!Collected(evidence) \in S!Evidence
  BY ValuesTyped DEF S!Collected

\* The charge that is weighed is one of the record's, or none
\* (_record_verification).
LEMMA ChargeToWeighTyped ==
  ASSUME NEW rec \in S!Record, NEW at
  PROVE  S!ChargeToWeigh(rec, at) \in S!Charge
<1> DEFINE known  == {i \in DOMAIN rec.charges : rec.charges[i].at <= at}
           latest == {i \in known : \A j \in known : j <= i}
<1>1. \A i \in latest : rec.charges[i] \in S!Charge
  BY DEF S!Record
<1>2. S!ChargeToWeigh(rec, at)
        = IF latest = {} THEN S!NoCharge ELSE rec.charges[CHOOSE i \in latest : TRUE]
  BY DEF S!ChargeToWeigh, S!LatestCharge
<1> HIDE DEF latest
<1> QED BY <1>1, <1>2, ValuesTyped

\* Settling a follow-up gives a follow-up (_record_verification).
LEMMA SettleTyped ==
  ASSUME NEW followUp \in S!FollowUp, NEW verdict
  PROVE  S!Settle(followUp, verdict) \in S!FollowUp
  BY DEF S!Settle, S!FollowUp, S!FollowUpStates

\* Noting a judgement gives a record (_record_verification).
LEMMA JudgeTyped ==
  ASSUME NEW rec \in S!Record, NEW attempt \in S!Attempt
  PROVE  S!Judge(rec, attempt) \in S!Record
<1> DEFINE next     == S!Judge(rec, attempt).nextCheck
           resolved == S!Judge(rec, attempt).resolvedAt
           attempts == Append(rec.attempts, attempt)
<1>1. S!Judge(rec, attempt)
        = [rec EXCEPT !.judged = TRUE, !.attempts = attempts,
                      !.nextCheck = next, !.resolvedAt = resolved]
  BY DEF S!Judge, S!Record
<1>2. 5 * Minute * rec.checks \in Int
  BY DEF Minute, S!Record
<1>3. next \in Int /\ resolved \in Int
  BY <1>2 DEF S!Judge, S!Record, S!Attempt, S!Never
<1>4. attempts \in Seq(S!Attempt)
  BY DEF S!Record
<1> HIDE DEF next, resolved, attempts
<1> QED BY <1>1, <1>3, <1>4, ZenonT(30) DEF S!Record

\* Proposing a follow-up gives a record (_create_recovery_proposal).
LEMMA ProposeTyped ==
  ASSUME NEW rec \in S!Record, NEW reason \in S!FollowUps, NEW at \in Int
  PROVE  S!Propose(rec, reason, at) \in S!Record
<1> DEFINE proposal == [state |-> "AWAITING_CONFIRMATION", expires |-> at + 5 * Minute]
<1>1. proposal \in S!FollowUp
  BY DEF Minute, S!FollowUp, S!FollowUpStates
<1> HIDE DEF proposal
<1>2. [rec EXCEPT !.recovery[reason] = proposal] \in S!Record
  BY <1>1 DEF S!Record
<1> QED BY <1>2 DEF S!Propose, proposal

\* Giving a notice gives a record (_record_verification).
LEMMA NotifyTyped ==
  ASSUME NEW rec \in S!Record, NEW reason \in S!Notices \cup {S!None}, NEW seen, NEW at \in Int,
         NEW proposing
  PROVE  S!Notify(rec, reason, seen, at, proposing) \in S!Record
<1> DEFINE noted == [rec EXCEPT !.attention = @ \cup {reason}]
<1>1. CASE reason = S!None \/ reason \in rec.attention
  BY <1>1 DEF S!Notify
<1>2. CASE ~(reason = S!None \/ reason \in rec.attention)
  <2>1. noted \in S!Record
    BY <1>2 DEF S!Record
  <2>2. S!MayPropose(rec, reason, seen) => S!Propose(noted, reason, at) \in S!Record
    BY <2>1, ProposeTyped DEF S!MayPropose
  <2> QED BY <1>2, <2>1, <2>2 DEF S!Notify
<1> QED BY <1>1, <1>2

\* A moment calls for one of the notices or for none (attention_candidate).
LEMMA NoticeTyped ==
  ASSUME NEW rec, NEW seen, NEW at
  PROVE  S!Notice(rec, seen, at) \in S!Notices \cup {S!None}
  BY DEF S!Notice, S!Notices, S!FollowUps

\* A judged record is a record (_record_verification).
LEMMA RecordVerificationTyped ==
  ASSUME NEW rec \in S!Record, NEW evidence \in S!Evidence, NEW eligible \in BOOLEAN,
         NEW at \in Int
  PROVE  S!RecordVerification(rec, evidence, eligible, at) \in S!Record
<1> DEFINE charge  == S!ChargeToWeigh(rec, at)
           reason  == S!Verify(rec.claim, evidence, eligible /\ rec.checks >= 4, S!Target,
                             charge, rec.deadline, at)
           attempt == [at |-> at, count |-> rec.checks, eligible |-> eligible,
                       charge |-> charge.id, evidence |-> evidence, reason |-> reason]
           moved   == S!Transition(S!Judge(rec, attempt), S!StateFor(reason), at)
           settled == [moved EXCEPT !.recovery =
                         [f \in S!FollowUps |-> S!Settle(rec.recovery[f], S!VerdictOf(reason))]]
<1>1. attempt \in S!Attempt
  <2>1. charge.id \in {Charged} \cup {S!None}
    BY ChargeToWeighTyped DEF S!Charge
  <2>2. reason \in S!Reasons
    BY VerifyTyped
  <2>3. rec.checks \in Nat
    BY DEF S!Record
  <2> HIDE DEF charge, reason
  <2> QED BY <2>1, <2>2, <2>3 DEF S!Attempt
<1>2. S!StateFor(reason) \in S!States
  BY StateForTyped DEF S!States, S!Terminal
<1>3. moved \in S!Record
  BY <1>1, <1>2, JudgeTyped, TransitionTyped
<1>4. [f \in S!FollowUps |-> S!Settle(rec.recovery[f], S!VerdictOf(reason))]
        \in [S!FollowUps -> S!FollowUp]
  BY SettleTyped DEF S!Record
<1>5. settled \in S!Record
  <2> HIDE DEF moved, reason
  <2> QED BY <1>3, <1>4 DEF S!Record
<1>6. S!RecordVerification(rec, evidence, eligible, at)
        = S!Notify(settled, S!Notice(settled, evidence, at), evidence, at,
                   settled.state \notin S!Terminal)
  BY DEF S!RecordVerification
<1> HIDE DEF settled
<1> QED BY <1>5, <1>6, NoticeTyped, NotifyTyped

\* Moving a follow-up gives a record (confirm_recovery_action).
LEMMA SetFollowUpTyped ==
  ASSUME NEW rec \in S!Record, NEW f \in S!FollowUps, NEW state \in S!FollowUpStates,
         NEW at \in Int
  PROVE  S!SetFollowUp(rec, f, state, at) \in S!Record
  BY ZenonT(30) DEF S!SetFollowUp, S!Record, S!FollowUp

\* A stored record is a record (save_owned).
LEMMA SavedTyped ==
  ASSUME NEW rec \in S!Record
  PROVE  S!Saved(rec) \in S!Record
<1> DEFINE version == rec.version + 1
<1>1. version \in Nat
  BY DEF S!Record
<1>2. S!Saved(rec) = [rec EXCEPT !.version = version]
  BY DEF S!Saved
<1> HIDE DEF version
<1> QED BY <1>1, <1>2 DEF S!Record

(***************************************************************************)
(* A judgement                                                             *)
(***************************************************************************)
\* Two records that differ in nothing but what the customer is told.
Alike(a, b) ==
  /\ a.state = b.state /\ a.version = b.version
  /\ a.moves = b.moves /\ a.movedAt = b.movedAt /\ a.updatedAt = b.updatedAt
  /\ a.attested = b.attested /\ a.claim = b.claim /\ a.judged = b.judged
  /\ a.checks = b.checks /\ a.nextCheck = b.nextCheck /\ a.resolvedAt = b.resolvedAt
  /\ a.attempts = b.attempts /\ a.charges = b.charges
  /\ a.deadline = b.deadline /\ a.tracksCharges = b.tracksCharges

\* The second was told something, and offered something or not.
Informed(a, b) ==
  /\ Alike(a, b)
  /\ \A f \in S!FollowUps :
       a.recovery[f] = b.recovery[f] \/ a.recovery[f].state = "AWAITING_CONFIRMATION"

\* What the customer was told with a notice more, and the follow-ups with a
\* proposal more.
ToldOf(rec, reason) == rec.attention \cup {reason}
Proposing(rec, reason, at) ==
  [rec.recovery EXCEPT ![reason] =
     [state |-> "AWAITING_CONFIRMATION", expires |-> at + 5 * Minute]]

\* A notice that is written down (_record_verification).
Noted(rec, reason) == [rec EXCEPT !.attention = @ \cup {reason}]

\* Noting a notice changes what the customer was told, and nothing else
\* (_record_verification).
LEMMA NotedWrites ==
  ASSUME NEW rec \in S!Record, NEW reason
  PROVE  /\ Alike(Noted(rec, reason), rec)
         /\ Noted(rec, reason).attention = ToldOf(rec, reason)
         /\ Noted(rec, reason).recovery = rec.recovery
         /\ DOMAIN Noted(rec, reason) = DOMAIN S!Unborn
<1>1. DOMAIN rec = DOMAIN S!Unborn
  BY ValuesTyped DEF S!Record, S!Unborn
<1>2. DOMAIN Noted(rec, reason) = DOMAIN rec
  BY DEF Noted
<1>3. /\ Alike(Noted(rec, reason), rec)
      /\ Noted(rec, reason).attention = ToldOf(rec, reason)
      /\ Noted(rec, reason).recovery = rec.recovery
  BY DEF Noted, Alike, ToldOf, S!Record
<1> QED BY <1>1, <1>2, <1>3

\* A follow-up that is proposed with it (_create_recovery_proposal).
LEMMA ProposeWrites ==
  ASSUME NEW rec \in S!Record, NEW reason, NEW at
  PROVE  /\ Alike(S!Propose(Noted(rec, reason), reason, at), rec)
         /\ S!Propose(Noted(rec, reason), reason, at).attention = ToldOf(rec, reason)
         /\ S!Propose(Noted(rec, reason), reason, at).recovery = Proposing(rec, reason, at)
<1> DEFINE noted    == Noted(rec, reason)
           proposal == [state |-> "AWAITING_CONFIRMATION", expires |-> at + 5 * Minute]
           offered  == [noted EXCEPT !.recovery[reason] = proposal]
<1>1. S!Propose(noted, reason, at) = offered
  BY DEF S!Propose
<1>2. /\ Alike(noted, rec) /\ noted.attention = ToldOf(rec, reason)
      /\ noted.recovery = rec.recovery /\ DOMAIN noted = DOMAIN S!Unborn
  BY NotedWrites
<1> HIDE DEF noted
<1>3. Alike(offered, noted) /\ offered.attention = noted.attention
  BY <1>2 DEF Alike, S!Unborn
<1>4. offered.recovery = [noted.recovery EXCEPT ![reason] = proposal]
  BY <1>2 DEF S!Unborn
<1> HIDE DEF offered
<1>5. Alike(offered, rec)
  BY <1>2, <1>3 DEF Alike
<1>6. offered.recovery = Proposing(rec, reason, at)
  BY <1>2, <1>4 DEF Proposing
<1> QED BY <1>1, <1>2, <1>3, <1>5, <1>6 DEF noted

\* A notice is told or it is not; nothing but what was told and proposed
\* changes (_record_verification, record_outcome_violation).
LEMMA NotifyTells ==
  ASSUME NEW rec \in S!Record, NEW reason \in S!Notices \cup {S!None}, NEW seen, NEW at \in Int,
         NEW proposing
  PROVE  /\ S!Notify(rec, reason, seen, at, proposing) \in S!Record
         /\ Informed(S!Notify(rec, reason, seen, at, proposing), rec)
<1> DEFINE after   == S!Notify(rec, reason, seen, at, proposing)
           offered == S!Propose(Noted(rec, reason), reason, at)
<1>1. after \in S!Record
  BY NotifyTyped
<1>2. after = rec \/ after = Noted(rec, reason) \/ after = offered
  BY DEF S!Notify, Noted
<1> HIDE DEF after
<1>3. ASSUME after = rec PROVE Informed(after, rec)
  BY <1>3 DEF Informed, Alike
<1>4. ASSUME after = Noted(rec, reason) PROVE Informed(after, rec)
  BY <1>4, NotedWrites DEF Informed
<1>5. ASSUME after = offered PROVE Informed(after, rec)
  <2>1. Alike(after, rec) /\ after.recovery = Proposing(rec, reason, at)
    BY <1>5, ProposeWrites
  <2>2. \A f \in S!FollowUps :
          \/ Proposing(rec, reason, at)[f] = rec.recovery[f]
          \/ Proposing(rec, reason, at)[f].state = "AWAITING_CONFIRMATION"
    BY DEF S!Record, Proposing
  <2> QED BY <2>1, <2>2 DEF Informed
<1>6. after \in S!Record /\ Informed(after, rec)
  BY <1>1, <1>2, <1>3, <1>4, <1>5 DEF after
<1> QED BY <1>6 DEF after

\* No notice, no change.
LEMMA NotifyIsSilent ==
  ASSUME NEW rec, NEW seen, NEW at, NEW proposing
  PROVE  S!Notify(rec, S!None, seen, at, proposing) = rec
  BY DEF S!Notify

\* A new notice is given, and its follow-up proposed.
LEMMA NotifyProposes ==
  ASSUME NEW rec \in S!Record, NEW reason \in S!FollowUps, NEW seen, NEW at,
         reason \notin rec.attention, S!MayPropose(rec, reason, seen)
  PROVE  /\ S!Notify(rec, reason, seen, at, TRUE).attention = ToldOf(rec, reason)
         /\ S!Notify(rec, reason, seen, at, TRUE).recovery = Proposing(rec, reason, at)
<1>1. reason # S!None
  BY DEF S!FollowUps, S!None
<1>2. S!Notify(rec, reason, seen, at, TRUE) = S!Propose(Noted(rec, reason), reason, at)
  BY <1>1 DEF S!Notify, Noted
<1> QED BY <1>2, ProposeWrites

\* What a judgement decides, and the attempt it records.
Reason(rec, evidence, eligible, at) ==
  S!Verify(rec.claim, evidence, eligible /\ rec.checks >= 4, S!Target,
           S!ChargeToWeigh(rec, at), rec.deadline, at)
Recorded(rec, evidence, eligible, at) ==
  [at |-> at, count |-> rec.checks, eligible |-> eligible,
   charge |-> S!ChargeToWeigh(rec, at).id, evidence |-> evidence,
   reason |-> Reason(rec, evidence, eligible, at)]

\* What a judgement writes: this attempt and what follows from it.
Written(after, rec, attempt) ==
  /\ after.attempts = Append(rec.attempts, attempt)
  /\ after.state = S!StateFor(attempt.reason) /\ after.judged = TRUE
  /\ after.version = rec.version /\ after.moves = rec.moves + 1
  /\ after.movedAt = attempt.at /\ after.updatedAt = attempt.at
  /\ after.nextCheck = S!Judge(rec, attempt).nextCheck
  /\ after.resolvedAt = S!Judge(rec, attempt).resolvedAt
  /\ after.checks = rec.checks /\ after.charges = rec.charges
  /\ after.claim = rec.claim /\ after.deadline = rec.deadline
  /\ after.attested = rec.attested /\ after.tracksCharges = rec.tracksCharges

\* The follow-ups that awaited this reason are settled by it.
Settling(rec, reason) ==
  [f \in S!FollowUps |-> S!Settle(rec.recovery[f], S!VerdictOf(reason))]

\* A judgement is written first, and then told (_record_verification).
LEMMA JudgedThenTold ==
  ASSUME NEW rec \in S!Record, NEW evidence \in S!Evidence, NEW eligible \in BOOLEAN,
         NEW at \in Int
  PROVE  \E settled \in S!Record :
         /\ S!RecordVerification(rec, evidence, eligible, at)
              = S!Notify(settled, S!Notice(settled, evidence, at), evidence, at,
                         settled.state \notin S!Terminal)
         /\ Written(settled, rec, Recorded(rec, evidence, eligible, at))
         /\ settled.attention = rec.attention
         /\ settled.recovery = Settling(rec, Reason(rec, evidence, eligible, at))
<1> DEFINE reason  == Reason(rec, evidence, eligible, at)
           attempt == Recorded(rec, evidence, eligible, at)
           charge  == S!ChargeToWeigh(rec, at)
           looked  == S!Judge(rec, attempt)
           moved   == S!Transition(looked, S!StateFor(reason), at)
           settling == Settling(rec, reason)
           settled == [moved EXCEPT !.recovery = settling]
<1>1. attempt \in S!Attempt /\ attempt.at = at /\ attempt.reason = reason
  <2>1. charge.id \in {Charged} \cup {S!None}
    BY ChargeToWeighTyped DEF S!Charge
  <2>2. reason \in S!Reasons
    BY VerifyTyped DEF Reason
  <2>3. rec.checks \in Nat
    BY DEF S!Record
  <2> QED BY <2>1, <2>2, <2>3 DEF S!Attempt, Recorded
<1>2. S!RecordVerification(rec, evidence, eligible, at)
        = S!Notify(settled, S!Notice(settled, evidence, at), evidence, at,
                   settled.state \notin S!Terminal)
  BY DEF S!RecordVerification, Recorded, Reason, Settling
<1>3. S!StateFor(reason) \in S!States
  BY StateForTyped DEF S!States, S!Terminal
<1> HIDE DEF reason
<1>4. /\ looked.attempts = Append(rec.attempts, attempt) /\ looked.judged = TRUE
      /\ looked.version = rec.version /\ looked.moves = rec.moves
      /\ looked.checks = rec.checks /\ looked.charges = rec.charges
      /\ looked.claim = rec.claim /\ looked.deadline = rec.deadline
      /\ looked.attested = rec.attested /\ looked.tracksCharges = rec.tracksCharges
      /\ looked.attention = rec.attention
      /\ looked \in S!Record
  <2>1. looked \in S!Record
    BY <1>1, JudgeTyped
  <2> QED BY <1>1, <2>1, ZenonT(30) DEF S!Judge, S!Record
<1> HIDE DEF looked
<1>5. /\ moved \in S!Record /\ moved.state = S!StateFor(reason)
      /\ moved.moves = looked.moves + 1 /\ moved.movedAt = at /\ moved.updatedAt = at
      /\ moved.attempts = looked.attempts /\ moved.judged = looked.judged
      /\ moved.nextCheck = looked.nextCheck /\ moved.resolvedAt = looked.resolvedAt
      /\ moved.version = looked.version
      /\ moved.checks = looked.checks /\ moved.charges = looked.charges
      /\ moved.claim = looked.claim /\ moved.deadline = looked.deadline
      /\ moved.attested = looked.attested /\ moved.tracksCharges = looked.tracksCharges
      /\ moved.attention = looked.attention
  <2>1. moved \in S!Record
    BY <1>3, <1>4, TransitionTyped
  <2> QED BY <1>4, <2>1 DEF S!Transition, S!Record
<1> HIDE DEF moved
<1>6. settling \in [S!FollowUps -> S!FollowUp]
  BY SettleTyped DEF S!Record, Settling
<1> HIDE DEF settling, attempt
<1>7. /\ settled \in S!Record /\ settled.state = moved.state
      /\ settled.moves = moved.moves /\ settled.movedAt = moved.movedAt
      /\ settled.updatedAt = moved.updatedAt
      /\ settled.attempts = moved.attempts /\ settled.judged = moved.judged
      /\ settled.nextCheck = moved.nextCheck /\ settled.resolvedAt = moved.resolvedAt
      /\ settled.version = moved.version
      /\ settled.checks = moved.checks /\ settled.charges = moved.charges
      /\ settled.claim = moved.claim /\ settled.deadline = moved.deadline
      /\ settled.attested = moved.attested /\ settled.tracksCharges = moved.tracksCharges
      /\ settled.attention = moved.attention /\ settled.recovery = settling
  BY <1>5, <1>6 DEF S!Record
<1> HIDE DEF settled
<1>8. Written(settled, rec, attempt)
  BY <1>1, <1>4, <1>5, <1>7 DEF Written, looked
<1>9. /\ settled.attention = rec.attention
      /\ settled.recovery = Settling(rec, reason)
  BY <1>4, <1>5, <1>7 DEF settling
<1>10. \E s \in S!Record :
         /\ S!RecordVerification(rec, evidence, eligible, at)
              = S!Notify(s, S!Notice(s, evidence, at), evidence, at, s.state \notin S!Terminal)
         /\ Written(s, rec, attempt)
         /\ s.attention = rec.attention
         /\ s.recovery = Settling(rec, reason)
  BY <1>2, <1>7, <1>8, <1>9
<1> QED BY <1>10 DEF attempt, reason

(***************************************************************************)
(* What the simulated providers answer                                     *)
(***************************************************************************)
\* The answers are receipts, evidence and charges like any others
\* (DemoProvider, PublicDemoProvider).
LEMMA AnswersTyped ==
  /\ Claim \in S!Receipt /\ S!Accepted(Claim) = Claim
  /\ \A e \in Answers :
       /\ e \in S!Evidence /\ S!Collected(e) = e
       /\ e.valid /\ e.digest = S!Target /\ e.bound
       /\ e.freshness \in {"within30", "null"}
  /\ \A end \in Int : Renewed(end) \in S!Charge /\ Renewed(end).id = Charged
  /\ \A end \in Int : Renewed(end) # S!NoCharge
<1>1. Claim \in S!Receipt /\ S!Accepted(Claim) = Claim
  BY DEF Claim, S!Receipt, S!Digests, S!Accepted, V!Target, S!Target
<1>2. ASSUME NEW e \in Answers
      PROVE  /\ e \in S!Evidence /\ S!Collected(e) = e
             /\ e.valid /\ e.digest = S!Target /\ e.bound
             /\ e.freshness \in {"within30", "null"}
  <2>1. CASE e = On
    BY <2>1 DEF On, S!Evidence, S!Digests, S!Collected, V!Target, S!Target
  <2>2. CASE e = OnAndPaid
    BY <2>2 DEF OnAndPaid, On, S!Evidence, S!Digests, S!Collected, V!Target, S!Target
  <2>3. CASE e = Off
    BY <2>3 DEF Off, OnAndPaid, On, S!Evidence, S!Digests, S!Collected, V!Target, S!Target
  <2>4. CASE e = Outage
    BY <2>4 DEF Outage, On, S!Evidence, S!Digests, S!Collected, V!Target, S!Target
  <2> QED BY <2>1, <2>2, <2>3, <2>4 DEF Answers
<1>3. ASSUME NEW end \in Int
      PROVE  /\ Renewed(end) \in S!Charge /\ Renewed(end).id = Charged
             /\ Renewed(end) # S!NoCharge
  <2>1. Renewed(end).id = "charge" /\ S!NoCharge.id = "none"
    BY DEF Renewed, Charged, S!NoCharge, S!None
  <2>2. Renewed(end) \in S!Charge
    BY DEF Renewed, S!Charge, Charged, Minute, S!Digests, V!Target, S!Target
  <2> QED BY <2>1, <2>2 DEF Charged
<1> QED BY <1>1, <1>2, <1>3

\* A renewal seen off is proof, one seen on is proof when the window is closed,
\* and an outage is no proof of anything (verify_cancellation).
LEMMA AnswerDecides ==
  ASSUME NEW e \in Answers, NEW final \in BOOLEAN, NEW end, NEW at
  PROVE  S!Verify(Claim, e, final, S!Target, S!NoCharge, end, at) =
           IF e = Off THEN "cancelled"
           ELSE IF e = Outage THEN "unavailable"
           ELSE IF final THEN "window_ended" ELSE "still_enabled"
<1> DEFINE reason == S!Verify(Claim, e, final, S!Target, S!NoCharge, end, at)
<1>1. /\ Claim.valid /\ Claim.success /\ S!Correlated(Claim, e, S!Target)
      /\ e.valid
  BY AnswersTyped DEF Claim, S!Correlated, V!Target, S!Target
<1>2. reason = IF ~e.readable THEN "unavailable"
               ELSE IF e.freshness # "within30" THEN "stale"
               ELSE IF e.autoRenew = "on" THEN IF final THEN "window_ended" ELSE "still_enabled"
               ELSE IF e.autoRenew = "off" /\ e.endDate THEN "cancelled" ELSE "insufficient"
  BY <1>1 DEF S!Verify
<1> HIDE DEF reason
<1>3. /\ e = Off => e.readable /\ e.freshness = "within30" /\ e.autoRenew = "off" /\ e.endDate
      /\ e = Outage => ~e.readable /\ e # Off
      /\ e \notin {Off, Outage} => e.readable /\ e.freshness = "within30" /\ e.autoRenew = "on"
  <2>1. Off.readable /\ Off.freshness = "within30" /\ Off.autoRenew = "off" /\ Off.endDate
    BY DEF Off, OnAndPaid, On
  <2>2. ~Outage.readable
    BY DEF Outage, On
  <2>3. /\ On.readable /\ On.freshness = "within30" /\ On.autoRenew = "on"
        /\ OnAndPaid.readable /\ OnAndPaid.freshness = "within30" /\ OnAndPaid.autoRenew = "on"
    BY DEF OnAndPaid, On
  <2> QED BY <2>1, <2>2, <2>3 DEF Answers
<1> QED BY <1>2, <1>3 DEF reason

\* The renewal charge is proof of a failure for a week (verify_cancellation).
LEMMA RenewalDecides ==
  ASSUME NEW e, NEW final, NEW end \in Nat, NEW at \in Nat,
         end + Minute <= at, at <= end + 7 * Day
  PROVE  S!Verify(Claim, e, final, S!Target, Renewed(end), end, at) = "charge_observed"
<1>1. Renewed(end) # S!NoCharge
  BY AnswersTyped
<1>2. S!ValidViolation(Renewed(end), S!Target, end, at)
  BY DEF S!ValidViolation, Renewed, S!Target, S!None, S!Never, V!Target, Minute, Day
<1> QED BY <1>1, <1>2 DEF S!Verify

\* Without a charge there is none to weigh, and none to be found.
LEMMA NothingToWeigh ==
  ASSUME NEW rec, rec.charges = <<>>, NEW at
  PROVE  /\ S!ChargeToWeigh(rec, at) = S!NoCharge
         /\ \A id : S!ChargeWeighed(rec, id) = S!NoCharge
<1>1. DOMAIN rec.charges = {}
  OBVIOUS
<1>2. {i \in {j \in DOMAIN rec.charges : rec.charges[j].at <= at} :
         \A j \in {k \in DOMAIN rec.charges : rec.charges[k].at <= at} : j <= i} = {}
  BY <1>1
<1>3. S!ChargeToWeigh(rec, at) = S!NoCharge
  BY <1>1, <1>2 DEF S!ChargeToWeigh, S!LatestCharge
<1> QED BY <1>1, <1>3 DEF S!ChargeWeighed, S!ChargeById

\* The charge that was reported is weighed, and found by its identifier.
LEMMA RenewalWeighed ==
  ASSUME NEW rec, NEW end \in Nat, rec.charges = <<Renewed(end)>>,
         NEW at \in Nat, end + Minute <= at
  PROVE  /\ S!ChargeToWeigh(rec, at) = Renewed(end)
         /\ S!ChargeWeighed(rec, Charged) = Renewed(end)
<1>1. DOMAIN rec.charges = {1} /\ rec.charges[1] = Renewed(end)
  OBVIOUS
<1>2. Renewed(end).at <= at /\ Renewed(end).id = Charged
  BY DEF Renewed
<1> DEFINE known  == {i \in DOMAIN rec.charges : rec.charges[i].at <= at}
           latest == {i \in known : \A j \in known : j <= i}
<1>3. known = {1}
  BY <1>1, <1>2
<1>4. latest = {1}
  BY <1>3
<1>5. S!ChargeToWeigh(rec, at)
        = IF latest = {} THEN S!NoCharge ELSE rec.charges[CHOOSE i \in latest : TRUE]
  BY DEF S!ChargeToWeigh, S!LatestCharge
<1>6. (CHOOSE i \in {1} : TRUE) = 1
  OBVIOUS
<1> HIDE DEF latest
<1>7. S!ChargeToWeigh(rec, at) = Renewed(end)
  BY <1>1, <1>4, <1>5, <1>6
<1> DEFINE named == {i \in DOMAIN rec.charges : rec.charges[i].id = Charged}
           first == {i \in named : \A j \in named : i <= j}
<1>8. named = {1}
  BY <1>1, <1>2
<1>9. first = {1}
  BY <1>8
<1>10. S!ChargeById(rec, Charged)
         = IF first = {} THEN S!NoCharge ELSE rec.charges[CHOOSE i \in first : TRUE]
  BY DEF S!ChargeById
<1> HIDE DEF first
<1>11. S!ChargeById(rec, Charged) = Renewed(end)
  BY <1>1, <1>6, <1>9, <1>10
<1>12. S!ChargeWeighed(rec, Charged) = Renewed(end)
  BY <1>11 DEF S!ChargeWeighed, S!Empty, Charged
<1> QED BY <1>7, <1>12

\* No charge is without an identifier.
LEMMA NoChargeFound ==
  ASSUME NEW rec, NEW end \in Int, rec.charges \in {<<>>, <<Renewed(end)>>}
  PROVE  S!ChargeById(rec, S!None) = S!NoCharge /\ S!ChargeWeighed(rec, S!None) = S!NoCharge
<1>1. \A i \in DOMAIN rec.charges : rec.charges[i] = Renewed(end)
  OBVIOUS
<1>2. \A i \in DOMAIN rec.charges : rec.charges[i].id # S!None
  BY <1>1, AnswersTyped DEF Charged, S!None
<1>3. S!ChargeById(rec, S!None) = S!NoCharge
  BY <1>2 DEF S!ChargeById
<1> QED BY <1>3 DEF S!ChargeWeighed

(***************************************************************************)
(* The records pass the contract                                           *)
(***************************************************************************)
\* One attempt for every look, in the order of time.
Counted(attempts) ==
  \A i \in 1..Len(attempts) :
    attempts[i].count = i /\ (i > 1 => attempts[i - 1].at <= attempts[i].at)

\* Such attempts are in the order the contract asks for
\* (validate_target_record).
LEMMA CountedIsOrdered ==
  ASSUME NEW rec \in S!Record, Counted(rec.attempts), Len(rec.attempts) <= rec.checks
  PROVE  S!AttemptsOrdered(rec)
<1>1. /\ DOMAIN rec.attempts = 1..Len(rec.attempts) /\ Len(rec.attempts) \in Nat
      /\ rec.checks \in Nat
  BY DEF S!Record
<1> SUFFICES ASSUME NEW i \in DOMAIN rec.attempts
             PROVE  /\ rec.attempts[i].count <= rec.checks
                    /\ IF i = 1 THEN rec.attempts[i].count > 0
                       ELSE /\ rec.attempts[i - 1].count < rec.attempts[i].count
                            /\ rec.attempts[i - 1].at <= rec.attempts[i].at
  BY DEF S!AttemptsOrdered
<1>2. i \in 1..Len(rec.attempts) /\ rec.attempts[i].count = i
  BY <1>1 DEF Counted
<1>3. i # 1 => /\ i - 1 \in 1..Len(rec.attempts) /\ rec.attempts[i - 1].count = i - 1
               /\ rec.attempts[i - 1].at <= rec.attempts[i].at
  BY <1>1, <1>2 DEF Counted
<1> QED BY <1>1, <1>2, <1>3

\* The attempt of the next look continues them (_record_verification).
LEMMA AppendCounted ==
  ASSUME NEW rec \in S!Record, NEW attempt, Counted(rec.attempts),
         attempt.count = Len(rec.attempts) + 1,
         rec.attempts # <<>> => S!LastAttempt(rec).at <= attempt.at,
         NEW after, after = Append(rec.attempts, attempt)
  PROVE  Counted(after)
<1>1. /\ Len(rec.attempts) \in Nat /\ Len(after) = Len(rec.attempts) + 1
      /\ \A i \in 1..Len(rec.attempts) : after[i] = rec.attempts[i]
      /\ after[Len(rec.attempts) + 1] = attempt
      /\ rec.attempts # <<>> => Len(rec.attempts) > 0
  BY DEF S!Record
<1> SUFFICES ASSUME NEW i \in 1..Len(after)
             PROVE  after[i].count = i /\ (i > 1 => after[i - 1].at <= after[i].at)
  BY DEF Counted
<1>2. CASE i \in 1..Len(rec.attempts)
  <2>1. i > 1 => i - 1 \in 1..Len(rec.attempts)
    BY <1>1, <1>2
  <2> QED BY <1>1, <1>2, <2>1 DEF Counted
<1>3. CASE i = Len(rec.attempts) + 1
  <2>1. i > 1 => i - 1 \in 1..Len(rec.attempts) /\ rec.attempts # <<>>
                 /\ rec.attempts[i - 1] = S!LastAttempt(rec)
    BY <1>1, <1>3 DEF S!LastAttempt
  <2> QED BY <1>1, <1>3, <2>1
<1> QED BY <1>1, <1>2, <1>3

\* The attempts of a demonstration are such attempts.
LEMMA FitIsCounted ==
  ASSUME NEW rec, NEW end, AttemptsFit(rec, end)
  PROVE  Counted(rec.attempts)
  BY DEF AttemptsFit, Counted

\* A record that waits can be loaded and stored (record_from_mapping,
\* validate_target_record).
LEMMA RestingDecodes ==
  ASSUME NEW end \in Nat, NEW time \in Nat, NEW rec, Resting(rec, end, time)
  PROVE  S!ValidRecord(rec) /\ S!Decodes(rec)
<1>1. /\ rec \in S!Record /\ rec.attempts \in Seq(S!Attempt)
      /\ DOMAIN rec.attempts = 1..Len(rec.attempts) /\ Len(rec.attempts) \in Nat
      /\ rec.checks \in 1..3 /\ Len(rec.attempts) = rec.checks
  BY DEF Resting, Claimed, S!Record
<1>2. /\ rec.state = "AWAITING_PROOF" /\ rec.judged /\ rec.claim = Claim /\ rec.attested
      /\ rec.deadline = end
      /\ rec.movedAt \in Nat /\ rec.movedAt <= rec.updatedAt
      /\ S!VerdictOf(S!LastAttempt(rec).reason) = "INCONCLUSIVE"
      /\ S!LastAttempt(rec).at = rec.movedAt /\ rec.resolvedAt = S!Never
      /\ rec.nextCheck = rec.movedAt + 5 * Minute * rec.checks
  BY DEF Resting, Claimed
<1>3. Counted(rec.attempts)
  BY FitIsCounted DEF Resting, Claimed
<1>4. S!ChargeById(rec, S!None) = S!NoCharge /\ S!ChargeWeighed(rec, S!None) = S!NoCharge
  BY NoChargeFound DEF Resting, Claimed
<1>5. ASSUME NEW i \in DOMAIN rec.attempts
      PROVE  /\ rec.attempts[i].count = i /\ rec.attempts[i].eligible = FALSE
             /\ rec.attempts[i].charge = S!None
             /\ rec.attempts[i].reason =
                  S!Verify(Claim, rec.attempts[i].evidence, FALSE, S!Target, S!NoCharge, end,
                           rec.attempts[i].at)
  <2>1. rec.attempts[i] \in S!Attempt /\ i \in 1..Len(rec.attempts)
    BY <1>1
  <2>2. rec.attempts[i].eligible \in BOOLEAN
    BY <2>1 DEF S!Attempt
  <2>3. AttemptsFit(rec, end)
    BY DEF Resting, Claimed
  <2> QED BY <2>1, <2>2, <2>3 DEF AttemptsFit
<1>6. S!LastAttempt(rec) = rec.attempts[rec.checks] /\ rec.checks \in DOMAIN rec.attempts
  BY <1>1 DEF S!LastAttempt
<1>7. S!BudgetValid(rec)
  BY <1>1 DEF S!BudgetValid
<1>8. S!ScheduleValid(rec)
  <2>1. rec.nextCheck \in Nat
    BY <1>1, <1>2 DEF Minute
  <2>2. rec.nextCheck # S!Never /\ rec.checks < 4
    BY <1>1, <2>1 DEF S!Never
  <2> QED BY <1>2, <2>2 DEF S!ScheduleValid, S!Terminal
<1>9. S!AttemptsOrdered(rec)
  BY <1>1, <1>3, CountedIsOrdered
<1>10. S!TimesValid(rec)
  BY <1>2 DEF S!TimesValid
<1>11. S!EvidenceValid(rec)
  BY <1>2 DEF S!EvidenceValid, S!Terminal, Claim
<1>12. S!VerdictReproduces(rec)
  <2>1. rec.state = S!StateFor(S!LastAttempt(rec).reason)
    BY <1>2 DEF S!StateFor
  <2> DEFINE last == S!LastAttempt(rec)
  <2>2. /\ last.charge = S!None /\ (last.eligible /\ rec.checks >= 4) = FALSE
        /\ last.reason =
             S!Verify(Claim, last.evidence, FALSE, S!Target, S!NoCharge, end, last.at)
    BY <1>5, <1>6
  <2> HIDE DEF last
  <2>3. last.reason = S!Verify(rec.claim, last.evidence, last.eligible /\ rec.checks >= 4,
                               S!Target, S!ChargeWeighed(rec, last.charge), rec.deadline, last.at)
    BY <1>2, <1>4, <2>2
  <2> QED BY <2>1, <2>3 DEF S!VerdictReproduces, last
<1>13. S!ValidRecord(rec)
  BY <1>7, <1>8, <1>9, <1>10, <1>11, <1>12 DEF S!ValidRecord
<1>14. ASSUME NEW i \in DOMAIN rec.attempts PROVE S!AttemptDecodes(rec, i)
  <2>1. i <= rec.attempts[i].count /\ rec.attempts[i].count <= 4
    <3>1. rec.attempts[i].count = i
      BY <1>5
    <3> QED BY <1>1, <3>1
  <2>2. rec.claim.digest = S!Target
    BY <1>2 DEF Claim, V!Target, S!Target
  <2>3. (rec.attempts[i].eligible /\ rec.attempts[i].count >= 4) = FALSE
    BY <1>5
  <2>4. S!AttemptTimely(rec, i)
    BY <1>5, <2>1 DEF S!AttemptTimely
  <2>5. S!AttemptReproduces(rec, i)
    <3> DEFINE a == rec.attempts[i]
    <3>1. a.charge = S!None /\ S!ChargeById(rec, a.charge) = S!NoCharge
      BY <1>4, <1>5
    <3>2. a.reason = S!Verify(Claim, a.evidence, FALSE, S!Target, S!NoCharge, end, a.at)
      BY <1>5
    <3>3. a.reason = S!Verify(rec.claim, a.evidence, a.eligible /\ a.count >= 4,
                              rec.claim.digest, S!ChargeById(rec, a.charge), rec.deadline, a.at)
      BY <1>2, <2>2, <2>3, <3>1, <3>2
    <3> HIDE DEF a
    <3> QED BY <3>1, <3>3 DEF S!AttemptReproduces, a
  <2> QED BY <2>4, <2>5 DEF S!AttemptDecodes
<1> QED BY <1>13, <1>14 DEF S!Decodes

\* A record that is looked at can be stored (validate_target_record).
LEMMA LookingIsValid ==
  ASSUME NEW end \in Nat, NEW time \in Nat, NEW rec, Looking(rec, end, time)
  PROVE  S!ValidRecord(rec)
<1>1. /\ rec \in S!Record /\ Len(rec.attempts) \in Nat
      /\ rec.checks \in 1..4 /\ Len(rec.attempts) = rec.checks - 1
      /\ rec.state = "VERIFYING" /\ ~rec.judged /\ rec.claim = Claim /\ rec.attested
      /\ rec.movedAt <= rec.updatedAt
  BY DEF Looking, Claimed, S!Record
<1>2. S!AttemptsOrdered(rec)
  BY <1>1, FitIsCounted, CountedIsOrdered DEF Looking, Claimed
<1>3. S!BudgetValid(rec) /\ S!ScheduleValid(rec) /\ S!TimesValid(rec) /\ S!VerdictReproduces(rec)
  BY <1>1 DEF S!BudgetValid, S!ScheduleValid, S!Terminal, S!TimesValid, S!VerdictReproduces
<1>4. S!EvidenceValid(rec)
  BY <1>1 DEF S!EvidenceValid, S!Terminal, Claim
<1> QED BY <1>2, <1>3, <1>4 DEF S!ValidRecord

(***************************************************************************)
(* What a look comes to                                                    *)
(***************************************************************************)
\* What a judgement writes, field by field (_record_verification).
LEMMA JudgementWrites ==
  ASSUME NEW rec \in S!Record, NEW evidence \in S!Evidence, NEW eligible \in BOOLEAN,
         NEW at \in Int
  PROVE  /\ S!RecordVerification(rec, evidence, eligible, at) \in S!Record
         /\ Written(S!RecordVerification(rec, evidence, eligible, at), rec,
                    Recorded(rec, evidence, eligible, at))
<1> DEFINE attempt == Recorded(rec, evidence, eligible, at)
<1>1. PICK settled \in S!Record :
         /\ S!RecordVerification(rec, evidence, eligible, at)
              = S!Notify(settled, S!Notice(settled, evidence, at), evidence, at,
                         settled.state \notin S!Terminal)
         /\ Written(settled, rec, attempt)
  BY JudgedThenTold
<1> DEFINE notice    == S!Notice(settled, evidence, at)
           proposing == settled.state \notin S!Terminal
           after     == S!Notify(settled, notice, evidence, at, proposing)
<1>2. S!RecordVerification(rec, evidence, eligible, at) = after
  BY <1>1
<1>3. notice \in S!Notices \cup {S!None}
  BY NoticeTyped
<1> HIDE DEF notice, proposing
<1>4. after \in S!Record /\ Alike(after, settled)
  BY <1>3, NotifyTells DEF Informed
<1> HIDE DEF after, attempt
<1>5. Written(after, rec, attempt)
  BY <1>1, <1>4 DEF Alike, Written
<1> QED BY <1>2, <1>4, <1>5 DEF attempt

\* What is read of a record that is looked at decides as it does of the claim
\* alone, until a charge is reported (_record_verification).
LEMMA LookDecides ==
  ASSUME NEW end \in Nat, NEW time \in Nat, NEW rec, Looking(rec, end, time),
         NEW e \in Answers, NEW eligible \in BOOLEAN, eligible <=> rec.checks = 4
  PROVE  /\ rec.charges = <<>> =>
              /\ S!ChargeToWeigh(rec, time) = S!NoCharge
              /\ Reason(rec, e, eligible, time) =
                   S!Verify(Claim, e, eligible, S!Target, S!NoCharge, end, time)
              /\ Reason(rec, e, eligible, time) =
                   IF e = Off THEN "cancelled" ELSE IF e = Outage THEN "unavailable"
                   ELSE IF rec.checks = 4 THEN "window_ended" ELSE "still_enabled"
         /\ rec.charges = <<Renewed(end)>> /\ end + Minute <= time /\ time <= end + 7 * Day =>
              /\ S!ChargeToWeigh(rec, time) = Renewed(end)
              /\ Reason(rec, e, eligible, time) = "charge_observed"
<1>1. /\ rec.claim = Claim /\ rec.deadline = end /\ rec.checks \in 1..4
  BY DEF Looking, Claimed
<1>2. (eligible /\ rec.checks >= 4) = eligible
  BY <1>1
<1>3. Reason(rec, e, eligible, time)
        = S!Verify(Claim, e, eligible, S!Target, S!ChargeToWeigh(rec, time), end, time)
  BY <1>1, <1>2 DEF Reason
<1>4. CASE rec.charges = <<>>
  <2>1. S!ChargeToWeigh(rec, time) = S!NoCharge
    BY <1>4, NothingToWeigh
  <2>2. Reason(rec, e, eligible, time)
          = S!Verify(Claim, e, eligible, S!Target, S!NoCharge, end, time)
    BY <1>3, <2>1
  <2>3. Reason(rec, e, eligible, time) =
          IF e = Off THEN "cancelled" ELSE IF e = Outage THEN "unavailable"
          ELSE IF eligible THEN "window_ended" ELSE "still_enabled"
    BY <2>2, AnswerDecides
  <2>4. rec.charges # <<Renewed(end)>>
    BY <1>4
  <2> QED BY <2>1, <2>2, <2>3, <2>4
<1>5. CASE rec.charges # <<>>
  <2> SUFFICES ASSUME rec.charges = <<Renewed(end)>>, end + Minute <= time, time <= end + 7 * Day
               PROVE  /\ S!ChargeToWeigh(rec, time) = Renewed(end)
                      /\ Reason(rec, e, eligible, time) = "charge_observed"
    BY <1>5
  <2>1. S!ChargeToWeigh(rec, time) = Renewed(end)
    BY RenewalWeighed
  <2> QED BY <1>3, <2>1, RenewalDecides
<1> QED BY <1>4, <1>5

\* An attempt more is the last one.
LEMMA Appended ==
  ASSUME NEW rec \in S!Record, NEW attempt
  PROVE  /\ Len(Append(rec.attempts, attempt)) = Len(rec.attempts) + 1
         /\ Append(rec.attempts, attempt)[Len(rec.attempts) + 1] = attempt
         /\ \A i \in 1..Len(rec.attempts) : Append(rec.attempts, attempt)[i] = rec.attempts[i]
<1>1. rec.attempts \in Seq(S!Attempt)
  BY DEF S!Record
<1> QED BY <1>1

\* One entry more in the history, and no other look or charge.
Moved(after, rec, time) ==
  /\ after.version = rec.version /\ after.moves = rec.moves + 1 /\ after.movedAt = time
  /\ after.checks = rec.checks /\ after.charges = rec.charges

\* A look that is not conclusive leaves a record that waits
\* (_record_verification).
LEMMA LookRests ==
  ASSUME NEW end \in Nat, NEW time \in Nat, NEW rec, Looking(rec, end, time),
         NEW e \in Answers, NEW eligible \in BOOLEAN, eligible <=> rec.checks = 4,
         rec.charges = <<>>, e # Off, rec.checks < 4
  PROVE  /\ Resting(S!RecordVerification(rec, e, eligible, time), end, time)
         /\ Moved(S!RecordVerification(rec, e, eligible, time), rec, time)
<1> DEFINE after   == S!RecordVerification(rec, e, eligible, time)
           reason  == Reason(rec, e, eligible, time)
           attempt == Recorded(rec, e, eligible, time)
<1>1. /\ rec \in S!Record /\ e \in S!Evidence /\ rec.checks \in 1..3
      /\ rec.attempts \in Seq(S!Attempt) /\ Len(rec.attempts) \in Nat
      /\ Len(rec.attempts) = rec.checks - 1 /\ rec.state = "VERIFYING"
      /\ rec.claim = Claim /\ rec.deadline = end /\ rec.attested /\ rec.tracksCharges
      /\ rec.attempts # <<>> => S!LastAttempt(rec).at <= time
      /\ AttemptsFit(rec, end)
  <2>1. rec \in S!Record /\ rec.checks \in 1..4 /\ Len(rec.attempts) = rec.checks - 1
    BY DEF Looking, Claimed
  <2>2. rec.attempts \in Seq(S!Attempt)
    BY <2>1 DEF S!Record
  <2>3. rec.attempts # <<>> => rec.checks > 1
    BY <2>1, <2>2
  <2> QED BY <2>1, <2>2, <2>3, AnswersTyped DEF Looking, Claimed
<1>2. /\ reason = S!Verify(Claim, e, eligible, S!Target, S!NoCharge, end, time)
      /\ reason \in {"unavailable", "still_enabled"}
      /\ S!ChargeToWeigh(rec, time) = S!NoCharge
  BY <1>1, LookDecides
<1>3. S!VerdictOf(reason) = "INCONCLUSIVE" /\ S!StateFor(reason) = "AWAITING_PROOF"
  BY <1>2 DEF S!VerdictOf, S!StateFor
<1>4. /\ attempt.at = time /\ attempt.count = rec.checks /\ attempt.eligible = eligible
      /\ attempt.charge = S!None /\ attempt.evidence = e /\ attempt.reason = reason
  BY <1>2 DEF Recorded, S!NoCharge
<1>5. eligible = FALSE
  BY <1>1
<1> HIDE DEF reason, attempt, after
<1>6. /\ after \in S!Record
      /\ after.attempts = Append(rec.attempts, attempt)
      /\ after.state = S!StateFor(reason) /\ after.judged = TRUE
      /\ after.version = rec.version /\ after.moves = rec.moves + 1
      /\ after.movedAt = time /\ after.updatedAt = time
      /\ after.nextCheck = S!Judge(rec, attempt).nextCheck
      /\ after.resolvedAt = S!Judge(rec, attempt).resolvedAt
      /\ after.checks = rec.checks /\ after.charges = rec.charges
      /\ after.claim = rec.claim /\ after.deadline = rec.deadline
      /\ after.attested = rec.attested /\ after.tracksCharges = rec.tracksCharges
  <2>1. after \in S!Record /\ Written(after, rec, attempt)
    BY <1>1, JudgementWrites DEF attempt, after
  <2> QED BY <1>4, <2>1 DEF Written
<1>7. /\ after.nextCheck = time + 5 * Minute * rec.checks
      /\ after.resolvedAt = S!Never
  BY <1>1, <1>3, <1>4, <1>6 DEF S!Judge, S!Record
<1>8. /\ Len(after.attempts) = rec.checks /\ S!LastAttempt(after) = attempt
      /\ \A i \in 1..Len(rec.attempts) : after.attempts[i] = rec.attempts[i]
      /\ after.attempts[rec.checks] = attempt
  <2>1. /\ Len(after.attempts) = Len(rec.attempts) + 1
        /\ after.attempts[Len(rec.attempts) + 1] = attempt
        /\ \A i \in 1..Len(rec.attempts) : after.attempts[i] = rec.attempts[i]
    BY <1>1, <1>6, Appended
  <2>2. Len(after.attempts) = rec.checks
    BY <1>1, <2>1
  <2> QED BY <2>1, <2>2 DEF S!LastAttempt
<1>9. Counted(after.attempts)
  <2>1. Counted(rec.attempts)
    BY <1>1, FitIsCounted
  <2>2. attempt.count = Len(rec.attempts) + 1 /\ attempt.at = time
    BY <1>1, <1>4
  <2>3. rec.attempts # <<>> => S!LastAttempt(rec).at <= attempt.at
    BY <1>1, <2>2
  <2> QED BY <1>1, <1>6, <2>1, <2>2, <2>3, AppendCounted
<1>10. AttemptsFit(after, end)
  <2> SUFFICES ASSUME NEW i \in 1..Len(after.attempts)
               PROVE  LET a == after.attempts[i] IN
                      /\ a.count = i /\ ~a.eligible /\ a.charge = S!None
                      /\ a.evidence \in Answers
                      /\ a.reason = S!Verify(Claim, a.evidence, FALSE, S!Target, S!NoCharge,
                                             end, a.at)
                      /\ i > 1 => after.attempts[i - 1].at <= a.at
    BY DEF AttemptsFit
  <2>1. /\ after.attempts[i].count = i
        /\ i > 1 => after.attempts[i - 1].at <= after.attempts[i].at
    BY <1>9 DEF Counted
  <2>2. CASE i \in 1..Len(rec.attempts)
    <3>1. after.attempts[i] = rec.attempts[i]
      BY <1>8, <2>2
    <3> QED BY <1>1, <2>1, <2>2, <3>1 DEF AttemptsFit
  <2>3. CASE i = rec.checks
    <3>1. after.attempts[i] = attempt
      BY <1>8, <2>3
    <3> QED BY <1>2, <1>4, <1>5, <2>1, <3>1
  <2>4. i \in 1..Len(rec.attempts) \/ i = rec.checks
    BY <1>1, <1>8
  <2> QED BY <2>2, <2>3, <2>4
<1>11. Claimed(after, end, time)
  BY <1>1, <1>6, <1>10 DEF Claimed, Looking
<1>12. Resting(after, end, time)
  BY <1>1, <1>3, <1>4, <1>6, <1>7, <1>8, <1>11 DEF Resting
<1>13. Moved(after, rec, time)
  BY <1>6 DEF Moved
<1> QED BY <1>12, <1>13 DEF after

\* A look that is conclusive leaves a final record that can be stored
\* (_record_verification, validate_target_record).
LEMMA LookEnds ==
  ASSUME NEW end \in Nat, NEW time \in Nat, NEW rec, Looking(rec, end, time),
         NEW e \in Answers, NEW eligible \in BOOLEAN, eligible <=> rec.checks = 4,
         \/ rec.charges = <<>> /\ (e = Off \/ (rec.checks = 4 /\ e # Outage))
         \/ rec.charges = <<Renewed(end)>> /\ end + Minute <= time /\ time <= end + 7 * Day
  PROVE  /\ Final(S!RecordVerification(rec, e, eligible, time))
         /\ Moved(S!RecordVerification(rec, e, eligible, time), rec, time)
         /\ S!RecordVerification(rec, e, eligible, time).state
              = IF rec.charges = <<>> /\ e = Off THEN "VERIFIED" ELSE "NOT_COMPLETED"
<1> DEFINE after   == S!RecordVerification(rec, e, eligible, time)
           reason  == Reason(rec, e, eligible, time)
           attempt == Recorded(rec, e, eligible, time)
           charge  == S!ChargeToWeigh(rec, time)
<1>1. /\ rec \in S!Record /\ e \in S!Evidence /\ rec.checks \in 1..4
      /\ rec.attempts \in Seq(S!Attempt) /\ Len(rec.attempts) \in Nat
      /\ Len(rec.attempts) = rec.checks - 1 /\ rec.state = "VERIFYING"
      /\ rec.claim = Claim /\ rec.deadline = end /\ rec.attested
      /\ rec.attempts # <<>> => S!LastAttempt(rec).at <= time
      /\ AttemptsFit(rec, end)
  <2>1. rec \in S!Record /\ rec.checks \in 1..4 /\ Len(rec.attempts) = rec.checks - 1
    BY DEF Looking, Claimed
  <2>2. rec.attempts \in Seq(S!Attempt)
    BY <2>1 DEF S!Record
  <2>3. rec.attempts # <<>> => rec.checks > 1
    BY <2>1, <2>2
  <2> QED BY <2>1, <2>2, <2>3, AnswersTyped DEF Looking, Claimed
<1>2. ASSUME rec.charges = <<>>
      PROVE  /\ reason = IF e = Off THEN "cancelled" ELSE "window_ended"
             /\ S!ChargeWeighed(rec, charge.id) = charge
  <2>1. /\ charge = S!NoCharge
        /\ reason = IF e = Off THEN "cancelled" ELSE "window_ended"
    <3>1. rec.charges # <<Renewed(end)>>
      BY <1>2
    <3>2. e = Off \/ (rec.checks = 4 /\ e # Outage)
      BY <1>2, <3>1
    <3>3. /\ charge = S!NoCharge
          /\ reason = IF e = Off THEN "cancelled" ELSE IF e = Outage THEN "unavailable"
                      ELSE IF rec.checks = 4 THEN "window_ended" ELSE "still_enabled"
      BY <1>2, LookDecides
    <3>4. Off # Outage
      BY DEF Off, OnAndPaid, On, Outage
    <3> QED BY <3>2, <3>3, <3>4
  <2>2. S!ChargeWeighed(rec, charge.id) = charge
    BY <1>2, <2>1, NothingToWeigh
  <2> QED BY <2>1, <2>2
<1>3. ASSUME rec.charges # <<>>
      PROVE  /\ reason = "charge_observed"
             /\ S!ChargeWeighed(rec, charge.id) = charge
  <2>1. rec.charges = <<Renewed(end)>> /\ end + Minute <= time /\ time <= end + 7 * Day
    BY <1>3
  <2>2. charge = Renewed(end) /\ reason = "charge_observed"
    BY <2>1, LookDecides
  <2>3. S!ChargeWeighed(rec, charge.id) = charge
    BY <2>1, <2>2, RenewalWeighed, AnswersTyped
  <2> QED BY <2>2, <2>3
<1>4. /\ reason = IF rec.charges # <<>> THEN "charge_observed"
                  ELSE IF e = Off THEN "cancelled" ELSE "window_ended"
      /\ S!ChargeWeighed(rec, charge.id) = charge
  BY <1>2, <1>3
<1>5. /\ S!StateFor(reason)
           = IF rec.charges = <<>> /\ e = Off THEN "VERIFIED" ELSE "NOT_COMPLETED"
      /\ S!VerdictOf(reason) # "INCONCLUSIVE"
  BY <1>4 DEF S!StateFor, S!VerdictOf
<1>6. /\ attempt.at = time /\ attempt.count = rec.checks /\ attempt.eligible = eligible
      /\ attempt.charge = charge.id /\ attempt.evidence = e /\ attempt.reason = reason
  BY DEF Recorded
<1>7. reason = S!Verify(Claim, e, eligible /\ rec.checks >= 4, S!Target, charge, end, time)
  BY <1>1 DEF Reason
<1> HIDE DEF reason, attempt, charge, after
<1>8. /\ after \in S!Record
      /\ after.attempts = Append(rec.attempts, attempt)
      /\ after.state = S!StateFor(reason) /\ after.judged = TRUE
      /\ after.version = rec.version /\ after.moves = rec.moves + 1
      /\ after.movedAt = time /\ after.updatedAt = time
      /\ after.nextCheck = S!Judge(rec, attempt).nextCheck
      /\ after.resolvedAt = S!Judge(rec, attempt).resolvedAt
      /\ after.checks = rec.checks /\ after.charges = rec.charges
      /\ after.claim = rec.claim /\ after.deadline = rec.deadline
      /\ after.attested = rec.attested
  <2>1. after \in S!Record /\ Written(after, rec, attempt)
    BY <1>1, JudgementWrites DEF attempt, after
  <2> QED BY <1>6, <2>1 DEF Written
<1>9. after.nextCheck = S!Never /\ after.resolvedAt = time
  BY <1>1, <1>5, <1>6, <1>8 DEF S!Judge, S!Record
<1>10. /\ Len(after.attempts) = rec.checks /\ S!LastAttempt(after) = attempt
       /\ after.attempts # <<>>
  <2>1. /\ Len(after.attempts) = Len(rec.attempts) + 1
        /\ after.attempts[Len(rec.attempts) + 1] = attempt
    BY <1>1, <1>8, Appended
  <2>2. Len(after.attempts) = rec.checks
    BY <1>1, <2>1
  <2>3. after.attempts # <<>>
    BY <1>1, <2>2
  <2> QED BY <2>1, <2>2, <2>3 DEF S!LastAttempt
<1>11. Counted(after.attempts)
  <2>1. Counted(rec.attempts)
    BY <1>1, FitIsCounted
  <2>2. attempt.count = Len(rec.attempts) + 1 /\ attempt.at = time
    BY <1>1, <1>6
  <2>3. rec.attempts # <<>> => S!LastAttempt(rec).at <= attempt.at
    BY <1>1, <2>2
  <2> QED BY <1>1, <1>8, <2>1, <2>2, <2>3, AppendCounted
<1>12. S!BudgetValid(after)
  BY <1>1, <1>8, <1>10 DEF S!BudgetValid
<1>13. S!AttemptsOrdered(after)
  <2>1. after \in S!Record /\ Len(after.attempts) <= after.checks
    BY <1>1, <1>8, <1>10
  <2> QED BY <1>11, <2>1, CountedIsOrdered
<1>14. S!ScheduleValid(after) /\ S!TimesValid(after)
  <2>1. time # S!Never
    BY DEF S!Never
  <2> QED BY <1>5, <1>6, <1>8, <1>9, <1>10, <2>1 DEF S!ScheduleValid, S!TimesValid, S!Terminal
<1>15. S!EvidenceValid(after)
  BY <1>1, <1>5, <1>8 DEF S!EvidenceValid, S!Terminal, Claim
<1>16. S!VerdictReproduces(after)
  <2>1. S!ChargeWeighed(after, charge.id) = charge
    BY <1>4, <1>8 DEF S!ChargeWeighed, S!ChargeById
  <2> QED BY <1>1, <1>6, <1>7, <1>8, <1>10, <2>1 DEF S!VerdictReproduces
<1>17. S!ValidRecord(after)
  BY <1>12, <1>13, <1>14, <1>15, <1>16 DEF S!ValidRecord
<1>18. Final(after)
  BY <1>1, <1>6, <1>8, <1>10, <1>5, <1>17 DEF Final, S!Terminal
<1>19. Moved(after, rec, time)
  BY <1>8 DEF Moved
<1> QED BY <1>5, <1>8, <1>18, <1>19 DEF after

\* What a look tells that is not conclusive: nothing long before the deadline,
\* and of a renewal that is still on a few hours before it, with a proposal
\* (_record_verification, attention_candidate).
LEMMA LookTells ==
  ASSUME NEW end \in Nat, NEW time \in Nat, NEW rec, Looking(rec, end, time),
         NEW e \in Answers, NEW eligible \in BOOLEAN, eligible <=> rec.checks = 4,
         rec.charges = <<>>, e # Off, rec.checks < 4
  PROVE  LET after == S!RecordVerification(rec, e, eligible, time) IN
         /\ NoneExecuting(rec) => NoneExecuting(after)
         /\ Quiet(rec) /\ time + 6 * Hour < end => Quiet(after)
         /\ Quiet(rec) /\ time = end - 5 * Hour /\ e = On
              => Offered(after, "deadline_approaching", end - 5 * Hour + 5 * Minute)
<1> DEFINE attempt == Recorded(rec, e, eligible, time)
           after   == S!RecordVerification(rec, e, eligible, time)
<1>1. /\ rec \in S!Record /\ e \in S!Evidence /\ rec.deadline = end
      /\ rec.checks \in 1..3
  BY AnswersTyped DEF Looking, Claimed
<1>2. Reason(rec, e, eligible, time) \in {"unavailable", "still_enabled"}
  BY <1>1, LookDecides
<1>3. PICK settled \in S!Record :
         /\ after = S!Notify(settled, S!Notice(settled, e, time), e, time,
                             settled.state \notin S!Terminal)
         /\ Written(settled, rec, attempt)
         /\ settled.attention = rec.attention
         /\ settled.recovery = Settling(rec, Reason(rec, e, eligible, time))
  BY <1>1, JudgedThenTold
<1>4. /\ attempt.reason = Reason(rec, e, eligible, time)
      /\ S!VerdictOf(Reason(rec, e, eligible, time)) = "INCONCLUSIVE"
      /\ S!StateFor(Reason(rec, e, eligible, time)) = "AWAITING_PROOF"
  BY <1>2 DEF S!VerdictOf, S!StateFor, Recorded
<1> HIDE DEF attempt, after
<1>5. /\ settled.state = "AWAITING_PROOF" /\ settled.charges = <<>> /\ settled.deadline = end
      /\ \A f \in S!FollowUps : settled.recovery[f] = rec.recovery[f]
  BY <1>1, <1>3, <1>4 DEF Written, Settling, S!Settle
<1> DEFINE notice == S!Notice(settled, e, time)
<1>6. notice = IF time >= end THEN "deadline_passed"
               ELSE IF end - time <= 6 * Hour /\ S!StillRenews(e) THEN "deadline_approaching"
               ELSE S!None
  <2>1. end # S!Never
    BY DEF S!Never
  <2> QED BY <1>5, <2>1 DEF S!Notice
<1>7. notice \in S!Notices \cup {S!None}
  BY NoticeTyped
<1>8. after = S!Notify(settled, notice, e, time, TRUE)
  <2>1. (settled.state \notin S!Terminal) = TRUE
    BY <1>5 DEF S!Terminal
  <2> QED BY <1>3, <2>1
<1> HIDE DEF notice
<1>9. Informed(after, settled)
  <2>1. time \in Int
    OBVIOUS
  <2> QED BY <1>7, <1>8, <2>1, NotifyTells, Zenon
<1>10. ASSUME NoneExecuting(rec) PROVE NoneExecuting(after)
  BY <1>5, <1>9, <1>10 DEF NoneExecuting, Informed
<1>11. ASSUME Quiet(rec), time + 6 * Hour < end PROVE Quiet(after)
  <2>1. notice = S!None
    BY <1>6, <1>11 DEF Hour, Minute
  <2>2. after = settled
    BY <1>8, <2>1, NotifyIsSilent
  <2> QED BY <1>3, <1>5, <1>11, <2>2 DEF Quiet, Uncharged, NothingProposed
<1>12. ASSUME Quiet(rec), time = end - 5 * Hour, e = On
       PROVE  Offered(after, "deadline_approaching", end - 5 * Hour + 5 * Minute)
  <2>1. S!StillRenews(e)
    BY <1>12 DEF S!StillRenews, On
  <2>2. notice = "deadline_approaching"
    BY <1>6, <1>12, <2>1 DEF Hour, Minute
  <2>3. notice \notin settled.attention /\ notice \in S!FollowUps /\ settled.attention = {}
    BY <1>3, <1>12, <2>2 DEF Quiet, S!FollowUps
  <2>4. S!MayPropose(settled, notice, e)
    BY <1>5, <1>12, <2>1, <2>2, <2>3 DEF S!MayPropose, S!Terminal, Quiet, NothingProposed
  <2>5. /\ after.attention = ToldOf(settled, notice)
        /\ after.recovery = Proposing(settled, notice, time)
    BY <1>8, <2>3, <2>4, NotifyProposes, ZenonT(40)
  <2>6. settled.recovery \in [S!FollowUps -> S!FollowUp]
    BY DEF S!Record
  <2>7. \A g \in S!FollowUps : settled.recovery[g].state = "none"
    BY <1>5, <1>12 DEF Quiet, NothingProposed
  <2> QED BY <1>12, <2>2, <2>3, <2>5, <2>6, <2>7 DEF Offered, ToldOf, Proposing
<1> QED BY <1>10, <1>11, <1>12 DEF after

(***************************************************************************)
(* Records are saved, and changed between two looks                        *)
(***************************************************************************)
\* Two records that differ in nothing but their version and what was told and
\* charged.
SamePace(a, b) ==
  /\ a.state = b.state /\ a.moves = b.moves /\ a.movedAt = b.movedAt
  /\ a.attested = b.attested /\ a.claim = b.claim /\ a.judged = b.judged
  /\ a.checks = b.checks /\ a.nextCheck = b.nextCheck /\ a.resolvedAt = b.resolvedAt
  /\ a.attempts = b.attempts
  /\ a.deadline = b.deadline /\ a.tracksCharges = b.tracksCharges

SameStory(a, b) ==
  /\ a.attention = b.attention /\ a.recovery = b.recovery /\ a.charges = b.charges

\* A save changes the version only (save_owned).
LEMMA SavedKeeps ==
  ASSUME NEW rec \in S!Record
  PROVE  /\ S!Saved(rec) \in S!Record
         /\ S!Saved(rec).version = rec.version + 1
         /\ S!Saved(rec).updatedAt = rec.updatedAt
         /\ SamePace(S!Saved(rec), rec) /\ SameStory(S!Saved(rec), rec)
<1>1. S!Saved(rec) \in S!Record
  BY SavedTyped
<1> QED BY <1>1 DEF S!Saved, S!Record, SamePace, SameStory

\* Waiting goes on when only what was told, charged or saved is different.
LEMMA RestingKept ==
  ASSUME NEW end, NEW time \in Nat, NEW rec, Resting(rec, end, time),
         NEW after \in S!Record, SamePace(after, rec),
         after.charges \in {<<>>, <<Renewed(end)>>},
         NEW later \in Nat,
         after.updatedAt <= later, rec.updatedAt <= after.updatedAt
  PROVE  Resting(after, end, later)
<1>1. /\ after.movedAt \in Nat /\ after.movedAt <= after.updatedAt
  BY DEF Resting, Claimed, SamePace, S!Record
<1>2. AttemptsFit(after, end)
  <2>1. AttemptsFit(rec, end) /\ after.attempts = rec.attempts
    BY DEF Resting, Claimed, SamePace
  <2> QED BY <2>1 DEF AttemptsFit
<1>3. Claimed(after, end, later)
  BY <1>1, <1>2 DEF Resting, Claimed, SamePace
<1> QED BY <1>3, SMTT(30) DEF Resting, SamePace, S!LastAttempt

\* Time passes for a record that waits.
LEMMA RestingLater ==
  ASSUME NEW end, NEW time \in Nat, NEW rec, Resting(rec, end, time),
         NEW later \in Nat, time <= later
  PROVE  Resting(rec, end, later)
<1>1. rec.updatedAt \in Int
  BY DEF Resting, Claimed, S!Record
<1> QED BY <1>1 DEF Resting, Claimed

\* A record that waits goes on waiting when it was saved (save_owned).
LEMMA SavedRests ==
  ASSUME NEW end, NEW time \in Nat, NEW rec, Resting(rec, end, time)
  PROVE  Resting(S!Saved(rec), end, time)
<1> DEFINE saved == S!Saved(rec)
<1>1. rec \in S!Record /\ rec.charges \in {<<>>, <<Renewed(end)>>} /\ rec.updatedAt <= time
  BY DEF Resting, Claimed
<1>2. /\ saved \in S!Record /\ saved.updatedAt = rec.updatedAt
      /\ SamePace(saved, rec) /\ saved.charges = rec.charges
  BY <1>1, SavedKeeps DEF SameStory
<1> HIDE DEF saved
<1>3. /\ saved.charges \in {<<>>, <<Renewed(end)>>}
      /\ saved.updatedAt <= time /\ rec.updatedAt <= saved.updatedAt
  BY <1>1, <1>2 DEF S!Record
<1>4. Resting(saved, end, time)
  BY <1>2, <1>3, RestingKept
<1> QED BY <1>4 DEF saved

\* A record that is looked at is looked at when it was saved (save_owned).
LEMMA SavedLooks ==
  ASSUME NEW end, NEW time \in Nat, NEW rec, Looking(rec, end, time)
  PROVE  Looking(S!Saved(rec), end, time)
<1> DEFINE saved == S!Saved(rec)
<1>1. /\ saved \in S!Record /\ saved.updatedAt = rec.updatedAt
      /\ SamePace(saved, rec) /\ saved.charges = rec.charges
  BY SavedKeeps DEF SameStory, Looking, Claimed
<1> HIDE DEF saved
<1>2. AttemptsFit(saved, end)
  <2>1. AttemptsFit(rec, end) /\ saved.attempts = rec.attempts
    BY <1>1 DEF Looking, Claimed, SamePace
  <2> QED BY <2>1 DEF AttemptsFit
<1>3. Claimed(saved, end, time)
  BY <1>1, <1>2 DEF Looking, Claimed, SamePace
<1>4. Looking(saved, end, time)
  BY <1>1, <1>3 DEF Looking, SamePace, S!LastAttempt
<1> QED BY <1>4 DEF saved

\* A final record is final when it was saved (save_owned).
LEMMA SavedIsFinal ==
  ASSUME NEW rec, Final(rec)
  PROVE  Final(S!Saved(rec)) /\ S!Saved(rec).state = rec.state
<1> DEFINE saved == S!Saved(rec)
<1>1. /\ saved \in S!Record /\ saved.updatedAt = rec.updatedAt
      /\ SamePace(saved, rec) /\ saved.charges = rec.charges
  BY SavedKeeps DEF SameStory, Final
<1> HIDE DEF saved
<1>2. S!ChargeWeighed(saved, S!LastAttempt(rec).charge)
        = S!ChargeWeighed(rec, S!LastAttempt(rec).charge)
  BY <1>1 DEF S!ChargeWeighed, S!ChargeById
<1>3. S!LastAttempt(saved) = S!LastAttempt(rec)
  BY <1>1 DEF SamePace, S!LastAttempt
<1>4. S!BudgetValid(saved) /\ S!ScheduleValid(saved) /\ S!TimesValid(saved)
  BY <1>1, <1>3 DEF Final, S!ValidRecord, SamePace, S!BudgetValid, S!ScheduleValid, S!TimesValid
<1>5. S!AttemptsOrdered(saved)
  BY <1>1 DEF Final, S!ValidRecord, SamePace, S!AttemptsOrdered
<1>6. S!EvidenceValid(saved)
  BY <1>1 DEF Final, S!ValidRecord, SamePace, S!EvidenceValid
<1>7. S!VerdictReproduces(saved)
  BY <1>1, <1>2, <1>3 DEF Final, S!ValidRecord, SamePace, S!VerdictReproduces
<1>8. S!ValidRecord(saved)
  BY <1>4, <1>5, <1>6, <1>7 DEF S!ValidRecord
<1>9. Final(saved) /\ saved.state = rec.state
  BY <1>1, <1>3, <1>8 DEF Final, SamePace
<1> QED BY <1>9 DEF saved

(***************************************************************************)
(* What a call writes before it asks the provider                          *)
(***************************************************************************)
\* A record that waited is looked at again (recheck_resolution).
Again(rec, time) ==
  S!Transition([[rec EXCEPT !.checks = @ + 1] EXCEPT !.nextCheck = S!Never, !.judged = FALSE],
               "VERIFYING", time)

\* It is looked at from this moment on, on the next count of its budget
\* (recheck_resolution).
LEMMA LookBegins ==
  ASSUME NEW end, NEW time \in Nat, NEW rec, Resting(rec, end, time)
  PROVE  /\ Looking(Again(rec, time), end, time)
         /\ Again(rec, time).checks = rec.checks + 1
         /\ Again(rec, time).version = rec.version /\ Again(rec, time).moves = rec.moves + 1
         /\ SameStory(Again(rec, time), rec)
<1> DEFINE checks  == rec.checks + 1
           counted == [rec EXCEPT !.checks = checks]
           cleared == [counted EXCEPT !.nextCheck = S!Never, !.judged = FALSE]
           after   == Again(rec, time)
<1>1. /\ rec \in S!Record /\ rec.checks \in 1..3 /\ Len(rec.attempts) = rec.checks
      /\ AttemptsFit(rec, end) /\ rec.movedAt <= time /\ S!LastAttempt(rec).at = rec.movedAt
  <2>1. /\ rec \in S!Record /\ rec.movedAt \in Nat
        /\ rec.movedAt <= rec.updatedAt /\ rec.updatedAt <= time
    BY DEF Resting, Claimed
  <2>2. rec.updatedAt \in Int
    BY <2>1 DEF S!Record
  <2> QED BY <2>1, <2>2 DEF Resting, Claimed
<1>2. /\ counted \in S!Record /\ counted.checks = rec.checks + 1
      /\ SameStory(counted, rec) /\ counted.version = rec.version /\ counted.moves = rec.moves
      /\ counted.attested = rec.attested /\ counted.claim = rec.claim
      /\ counted.attempts = rec.attempts
      /\ counted.deadline = rec.deadline /\ counted.tracksCharges = rec.tracksCharges
  <2>1. checks \in Nat
    BY <1>1
  <2> HIDE DEF checks
  <2>2. counted \in S!Record
    BY <1>1, <2>1 DEF S!Record
  <2>3. DOMAIN rec = DOMAIN S!Unborn
    BY <1>1 DEF S!Record, S!Unborn
  <2> QED BY <2>2, <2>3 DEF S!Unborn, SameStory, checks
<1> HIDE DEF counted
<1>3. /\ cleared \in S!Record /\ cleared.checks = counted.checks /\ cleared.judged = FALSE
      /\ SameStory(cleared, counted)
      /\ cleared.version = counted.version /\ cleared.moves = counted.moves
      /\ cleared.attested = counted.attested /\ cleared.claim = counted.claim
      /\ cleared.attempts = counted.attempts
      /\ cleared.deadline = counted.deadline /\ cleared.tracksCharges = counted.tracksCharges
  <2>1. cleared \in S!Record
    BY <1>2, ValuesTyped DEF S!Record
  <2>2. DOMAIN counted = DOMAIN S!Unborn
    BY <1>2 DEF S!Record, S!Unborn
  <2> QED BY <2>1, <2>2 DEF S!Unborn, SameStory
<1> HIDE DEF cleared
<1>4. after = S!Transition(cleared, "VERIFYING", time)
  BY DEF Again, cleared, counted
<1>5. /\ after \in S!Record /\ after.checks = cleared.checks /\ after.judged = FALSE
      /\ after.state = "VERIFYING" /\ after.movedAt = time /\ after.updatedAt = time
      /\ SameStory(after, cleared)
      /\ after.version = cleared.version /\ after.moves = cleared.moves + 1
      /\ after.attested = cleared.attested /\ after.claim = cleared.claim
      /\ after.attempts = cleared.attempts
      /\ after.deadline = cleared.deadline /\ after.tracksCharges = cleared.tracksCharges
  <2>1. after \in S!Record
    BY <1>3, <1>4, TransitionTyped DEF S!States
  <2> QED BY <1>3, <1>4, <2>1 DEF S!Transition, S!Record, SameStory
<1> HIDE DEF after
<1>6. AttemptsFit(after, end)
  <2>1. after.attempts = rec.attempts
    BY <1>2, <1>3, <1>5
  <2> QED BY <1>1, <2>1 DEF AttemptsFit
<1>7. SameStory(after, rec)
  BY <1>2, <1>3, <1>5 DEF SameStory
<1>8. Claimed(after, end, time)
  BY <1>2, <1>3, <1>5, <1>6, <1>7 DEF Resting, Claimed, SameStory
<1>9. S!LastAttempt(after).at <= time
  BY <1>1, <1>2, <1>3, <1>5 DEF S!LastAttempt
<1>10. after.checks = rec.checks + 1 /\ after.attempts = rec.attempts
  BY <1>2, <1>3, <1>5
<1>11. Looking(after, end, time)
  BY <1>1, <1>5, <1>8, <1>9, <1>10 DEF Looking
<1> QED BY <1>2, <1>3, <1>5, <1>7, <1>10, <1>11 DEF after

\* One follow-up stands differently, and nothing else.
FollowUpMoved(after, rec, f, state) ==
  /\ SamePace(after, rec) /\ after.version = rec.version /\ after.charges = rec.charges
  /\ after.recovery[f].state = state
  /\ \A g \in S!FollowUps \ {f} : after.recovery[g] = rec.recovery[g]

\* A follow-up moves on while the record waits (confirm_recovery_action).
LEMMA FollowUpMoves ==
  ASSUME NEW end, NEW time \in Nat, NEW rec, Resting(rec, end, time),
         NEW f \in S!FollowUps, NEW state \in S!FollowUpStates
  PROVE  /\ Resting(S!SetFollowUp(rec, f, state, time), end, time)
         /\ FollowUpMoved(S!SetFollowUp(rec, f, state, time), rec, f, state)
<1> DEFINE after    == S!SetFollowUp(rec, f, state, time)
           followUp == [rec.recovery[f] EXCEPT !.state = state]
           recovery == [rec.recovery EXCEPT ![f] = followUp]
<1>1. rec \in S!Record /\ rec.updatedAt <= time /\ rec.charges \in {<<>>, <<Renewed(end)>>}
  BY DEF Resting, Claimed
<1>2. after \in S!Record
  BY <1>1, SetFollowUpTyped
<1>3. followUp.state = state
  BY <1>1 DEF S!Record, S!FollowUp
<1>4. DOMAIN rec = DOMAIN S!Unborn /\ rec.recovery \in [S!FollowUps -> S!FollowUp]
  BY <1>1 DEF S!Record, S!Unborn
<1>5. after = [[rec EXCEPT !.recovery[f].state = state] EXCEPT !.updatedAt = time]
  BY DEF S!SetFollowUp
<1>6. /\ after.updatedAt = time /\ SamePace(after, rec)
      /\ after.version = rec.version /\ after.charges = rec.charges
      /\ after.recovery = recovery
  BY <1>4, <1>5 DEF SamePace, S!Unborn
<1> HIDE DEF after, followUp
<1>7. /\ recovery[f] = followUp
      /\ \A g \in S!FollowUps \ {f} : recovery[g] = rec.recovery[g]
  BY <1>4
<1> HIDE DEF recovery
<1>8. Resting(after, end, time)
  <2>1. /\ after.charges \in {<<>>, <<Renewed(end)>>}
        /\ after.updatedAt <= time /\ rec.updatedAt <= after.updatedAt
    BY <1>1, <1>6
  <2> QED BY <1>2, <1>6, <2>1, RestingKept
<1>9. FollowUpMoved(after, rec, f, state)
  BY <1>3, <1>6, <1>7 DEF FollowUpMoved
<1> QED BY <1>8, <1>9 DEF after

\* A charge that is put down, and then told with the proposal of a refund
\* request (record_outcome_violation).
WithCharge(rec, charge, time) ==
  [rec EXCEPT !.charges = Append(@, charge), !.updatedAt = time]
Reported(rec, charge, time) ==
  LET noted == WithCharge(rec, charge, time) IN
  S!Notify(noted, S!Notice(noted, S!Unreadable, time), S!Unreadable, time, TRUE)

\* A record that waits and was told nothing goes on waiting, with the charge
\* and the proposal (record_outcome_violation).
LEMMA ChargeIsTold ==
  ASSUME NEW end \in Nat, NEW time \in Nat, NEW rec, Resting(rec, end, time), Quiet(rec)
  PROVE  LET after == Reported(rec, Renewed(end), time) IN
         /\ Resting(after, end, time) /\ SamePace(after, rec) /\ after.version = rec.version
         /\ after.charges = <<Renewed(end)>>
         /\ Offered(after, "outcome_violation", time + 5 * Minute)
<1> DEFINE charge == Renewed(end)
           noted  == WithCharge(rec, charge, time)
           after  == Reported(rec, charge, time)
           reason == "outcome_violation"
<1>1. /\ rec \in S!Record /\ rec.updatedAt <= time /\ rec.charges = <<>>
      /\ rec.attention = {} /\ \A f \in S!FollowUps : rec.recovery[f].state = "none"
  BY DEF Resting, Claimed, Quiet, Uncharged, NothingProposed
<1>2. charge \in S!Charge /\ charge # S!NoCharge
  BY AnswersTyped
<1> HIDE DEF charge
<1>3. /\ noted \in S!Record /\ noted.charges = <<charge>> /\ noted.updatedAt = time
      /\ noted.attention = rec.attention /\ noted.recovery = rec.recovery
      /\ noted.version = rec.version /\ SamePace(noted, rec)
  <2> DEFINE charges == <<charge>>
  <2>1. Append(rec.charges, charge) = charges /\ charges \in Seq(S!Charge) /\ time \in Int
    BY <1>1, <1>2
  <2> HIDE DEF charges
  <2>2. noted = [rec EXCEPT !.charges = charges, !.updatedAt = time]
    BY <2>1 DEF WithCharge
  <2>3. noted \in S!Record
    BY <1>1, <2>1, <2>2, Zenon DEF S!Record
  <2>4. DOMAIN rec = DOMAIN S!Unborn
    BY <1>1 DEF S!Record, S!Unborn
  <2> QED BY <2>2, <2>3, <2>4 DEF S!Unborn, SamePace, charges
<1>4. after = S!Notify(noted, S!Notice(noted, S!Unreadable, time), S!Unreadable, time, TRUE)
  BY DEF Reported
<1> HIDE DEF noted, after
<1>5. S!Notice(noted, S!Unreadable, time) = reason
  <2>1. noted.charges # <<>>
    BY <1>3
  <2> QED BY <2>1 DEF S!Notice
<1>6. reason \in S!FollowUps /\ reason \notin noted.attention
  BY <1>1, <1>3 DEF S!FollowUps
<1>7. S!MayPropose(noted, reason, S!Unreadable)
  BY <1>1, <1>3, <1>6 DEF S!MayPropose
<1> HIDE DEF reason
<1>8. after = S!Notify(noted, reason, S!Unreadable, time, TRUE)
  BY <1>4, <1>5
<1>9. after.attention = ToldOf(noted, reason) /\ after.recovery = Proposing(noted, reason, time)
  <2> DEFINE seen == S!Unreadable
  <2> HIDE DEF seen
  <2>1. S!MayPropose(noted, reason, seen) /\ after = S!Notify(noted, reason, seen, time, TRUE)
    BY <1>7, <1>8 DEF seen
  <2>2. noted \in S!Record /\ reason \in S!FollowUps /\ reason \notin noted.attention
    BY <1>3, <1>6
  <2> QED BY <2>1, <2>2, NotifyProposes
<1>10. after \in S!Record /\ Alike(after, noted)
  <2>1. reason \in S!Notices \cup {S!None} /\ time \in Int
    BY <1>6 DEF S!Notices
  <2> QED BY <1>3, <1>8, <2>1, NotifyTells, Zenon DEF Informed
<1>11. /\ after.charges = <<charge>> /\ after.updatedAt = time /\ after.version = rec.version
       /\ SamePace(after, rec)
  BY <1>3, <1>10 DEF Alike, SamePace
<1>12. Resting(after, end, time)
  <2>1. /\ after.charges \in {<<>>, <<Renewed(end)>>}
        /\ after.updatedAt <= time /\ rec.updatedAt <= after.updatedAt
    BY <1>1, <1>11 DEF charge
  <2> QED BY <1>10, <1>11, <2>1, RestingKept
<1>13. Offered(after, reason, time + 5 * Minute)
  <2>1. noted.recovery \in [S!FollowUps -> S!FollowUp]
    BY <1>3 DEF S!Record
  <2> QED BY <1>1, <1>3, <1>6, <1>9, <2>1 DEF Offered, ToldOf, Proposing
<1> QED BY <1>11, <1>12, <1>13 DEF after, charge, reason

(***************************************************************************)
(* A confirmation                                                          *)
(***************************************************************************)
\* What is started can be loaded (start_resolution).
LEMMA BornDecodes ==
  ASSUME NEW end \in Nat
  PROVE  /\ Born(end) \in S!Record
         /\ Born(end).state = "AWAITING_CONFIRMATION" /\ Born(end).moves = 2
         /\ Born(end).movedAt = 0 /\ Born(end).version = 0
         /\ S!Decodes(Born(end))
<1> DEFINE new  == [S!Unborn EXCEPT !.deadline = end, !.tracksCharges = TRUE]
           born == Born(end)
<1>1. new \in S!Record
  <2>1. end \in Int /\ S!Unborn \in S!Record
    BY ValuesTyped
  <2> QED BY <2>1, Zenon DEF S!Record
<1>2. born \in S!Record
  BY <1>1, TransitionTyped DEF Born, S!States
<1>3. /\ born.state = "AWAITING_CONFIRMATION" /\ born.moves = 2
      /\ born.movedAt = 0 /\ born.updatedAt = 0 /\ born.version = 0
      /\ born.attested = FALSE /\ born.claim = S!NoReceipt /\ born.judged = FALSE
      /\ born.checks = 0 /\ born.attempts = <<>>
  BY DEF Born, S!Transition, S!Unborn
<1> HIDE DEF born
<1>4. DOMAIN born.attempts = {} /\ Len(born.attempts) = 0
  BY <1>3
<1>5. S!BudgetValid(born) /\ S!ScheduleValid(born) /\ S!AttemptsOrdered(born)
  BY <1>3, <1>4 DEF S!BudgetValid, S!ScheduleValid, S!Terminal, S!AttemptsOrdered
<1>6. S!TimesValid(born) /\ S!EvidenceValid(born) /\ S!VerdictReproduces(born)
  <2>1. born.claim.valid = FALSE
    BY <1>3 DEF S!NoReceipt
  <2>2. S!TimesValid(born) /\ S!VerdictReproduces(born)
    BY <1>3 DEF S!TimesValid, S!VerdictReproduces
  <2>3. S!EvidenceValid(born)
    BY <1>3, <2>1 DEF S!EvidenceValid, S!Terminal
  <2> QED BY <2>2, <2>3
<1>7. S!Decodes(born)
  BY <1>4, <1>5, <1>6 DEF S!Decodes, S!ValidRecord
<1> QED BY <1>2, <1>3, <1>7 DEF born

\* What the customer agreed to can be stored (confirm_resolution_action).
LEMMA AgreedIsValid ==
  ASSUME NEW end \in Nat
  PROVE  /\ Agreed(end) \in S!Record
         /\ Agreed(end).state = "EXECUTING" /\ Agreed(end).moves = 3
         /\ Agreed(end).movedAt = 0 /\ Agreed(end).version = 0
         /\ S!ValidRecord(Agreed(end))
<1> DEFINE attested == [Born(end) EXCEPT !.attested = TRUE]
           agreed   == Agreed(end)
<1>1. attested \in S!Record
  <2>1. Born(end) \in S!Record
    BY BornDecodes
  <2> QED BY <2>1, Zenon DEF S!Record
<1>2. agreed \in S!Record
  BY <1>1, TransitionTyped DEF Agreed, S!States
<1>3. /\ agreed.state = "EXECUTING" /\ agreed.moves = 3
      /\ agreed.movedAt = 0 /\ agreed.updatedAt = 0 /\ agreed.version = 0
      /\ agreed.attested = TRUE /\ agreed.claim = S!NoReceipt /\ agreed.judged = FALSE
      /\ agreed.checks = 0 /\ agreed.attempts = <<>>
  BY DEF Agreed, Born, S!Transition, S!Unborn
<1> HIDE DEF agreed
<1>4. DOMAIN agreed.attempts = {} /\ Len(agreed.attempts) = 0
  BY <1>3
<1>5. S!BudgetValid(agreed) /\ S!ScheduleValid(agreed) /\ S!AttemptsOrdered(agreed)
  BY <1>3, <1>4 DEF S!BudgetValid, S!ScheduleValid, S!Terminal, S!AttemptsOrdered
<1>6. S!TimesValid(agreed) /\ S!EvidenceValid(agreed) /\ S!VerdictReproduces(agreed)
  <2>1. agreed.claim.valid = FALSE
    BY <1>3 DEF S!NoReceipt
  <2>2. S!TimesValid(agreed) /\ S!VerdictReproduces(agreed)
    BY <1>3 DEF S!TimesValid, S!VerdictReproduces
  <2>3. S!EvidenceValid(agreed)
    BY <1>3, <2>1 DEF S!EvidenceValid, S!Terminal
  <2> QED BY <2>2, <2>3
<1>7. S!ValidRecord(agreed)
  BY <1>5, <1>6 DEF S!ValidRecord
<1> QED BY <1>2, <1>3, <1>7 DEF agreed

\* Once the provider was asked, the record is looked at, and nothing was told
\* yet (confirm_resolution_action).
LEMMA AskedIsLookedAt ==
  ASSUME NEW end \in Nat
  PROVE  /\ Looking(Asked(end), end, 0) /\ Quiet(Asked(end))
         /\ Asked(end).checks = 1 /\ Asked(end).moves = S!Saved(Agreed(end)).moves + 1
         /\ Asked(end).version = S!Saved(Agreed(end)).version
<1> DEFINE agreed  == S!Saved(Agreed(end))
           claimed == [agreed EXCEPT !.claim = S!Accepted(Claim), !.checks = @ + 1]
           asking  == Asked(end)
<1>1. agreed \in S!Record
  BY AgreedIsValid, SavedTyped
<1>2. /\ agreed.checks = 0 /\ agreed.attempts = <<>> /\ agreed.attested = TRUE
      /\ agreed.judged = FALSE /\ agreed.charges = <<>> /\ agreed.attention = {}
      /\ agreed.deadline = end /\ agreed.tracksCharges = TRUE
      /\ \A f \in S!FollowUps : agreed.recovery[f].state = "none"
  BY DEF S!Saved, Agreed, Born, S!Transition, S!Unborn
<1> HIDE DEF agreed
<1>3. claimed = [agreed EXCEPT !.claim = Claim, !.checks = 1]
  <2>1. S!Accepted(Claim) = Claim /\ agreed.checks + 1 = 1
    BY <1>2, AnswersTyped
  <2> QED BY <2>1
<1>4. claimed \in S!Record
  <2>1. Claim \in S!Receipt /\ 1 \in Nat
    BY AnswersTyped
  <2> QED BY <1>1, <1>3, <2>1, Zenon DEF S!Record
<1>5. asking = S!Transition(claimed, "VERIFYING", 0)
  BY DEF Asked, agreed
<1>6. asking \in S!Record
  BY <1>4, <1>5, TransitionTyped DEF S!States
<1>7. DOMAIN agreed = DOMAIN S!Unborn
  BY <1>1 DEF S!Record, S!Unborn
<1> HIDE DEF asking
<1>8. /\ asking.state = "VERIFYING" /\ asking.judged = FALSE /\ asking.checks = 1
      /\ asking.movedAt = 0 /\ asking.updatedAt = 0 /\ asking.moves = agreed.moves + 1
      /\ asking.version = agreed.version /\ asking.attested = TRUE /\ asking.claim = Claim
      /\ asking.attempts = <<>> /\ asking.charges = <<>> /\ asking.attention = {}
      /\ asking.deadline = end /\ asking.tracksCharges = TRUE
      /\ asking.recovery = agreed.recovery
  BY <1>2, <1>3, <1>5, <1>7 DEF S!Transition, S!Unborn
<1>9. AttemptsFit(asking, end)
  BY <1>8 DEF AttemptsFit
<1>10. Claimed(asking, end, 0)
  BY <1>6, <1>8, <1>9 DEF Claimed
<1>11. Looking(asking, end, 0)
  BY <1>8, <1>10 DEF Looking
<1>12. Quiet(asking)
  BY <1>2, <1>8 DEF Quiet, Uncharged, NothingProposed
<1> QED BY <1>8, <1>11, <1>12 DEF asking, agreed

(***************************************************************************)
(* Scripts and deadlines                                                   *)
(***************************************************************************)
\* The steps of all scripts.
Steps ==
  Times \cup {"start", "confirm", "look", "forced_look", "report_charge", "follow_up"}

\* What a thread has yet to do, once it began and once it confirmed
\* (PublicDemoRunner.run).
LEMMA ScriptBegins ==
  ASSUME NEW s \in Scenarios
  PROVE  /\ Script[s] # <<>> /\ Head(Script[s]) = "start"
         /\ Tail(Script[s]) = <<"confirm">> \o Rest(s)
         /\ <<"confirm">> \o Rest(s) # <<>> /\ Head(<<"confirm">> \o Rest(s)) = "confirm"
         /\ Tail(<<"confirm">> \o Rest(s)) = Rest(s)
<1> DEFINE rest == Rest(s)
<1>1. Script[s] = <<"start", "confirm">> \o rest
  BY DEF Script, Rest
<1>2. rest \in Seq(Steps)
  <2>1. s = "persistent_resolution" => rest = <<"due", "look">>
    BY DEF Rest
  <2>2. s = "recovery_loop" =>
          rest = <<"before_deadline", "forced_look", "soon", "follow_up", "due", "look">>
    BY DEF Rest
  <2>3. s = "outcome_violation" =>
          rest = <<"after_deadline", "report_charge", "later", "follow_up", "due", "look">>
    BY DEF Rest
  <2>4. s \notin {"persistent_resolution", "recovery_loop", "outcome_violation"} => rest = <<>>
    BY DEF Rest
  <2> HIDE DEF rest
  <2> DEFINE long   == <<"before_deadline", "forced_look", "soon", "follow_up", "due", "look">>
             longer == <<"after_deadline", "report_charge", "later", "follow_up", "due", "look">>
             short  == <<"due", "look">>
  <2>5. /\ long \in Seq(Steps) /\ longer \in Seq(Steps)
        /\ short \in Seq(Steps) /\ <<>> \in Seq(Steps)
    BY DEF Steps, Times
  <2> HIDE DEF long, longer, short
  <2>6. rest = long \/ rest = longer \/ rest = short \/ rest = <<>>
    BY <2>1, <2>2, <2>3, <2>4 DEF long, longer, short
  <2> QED BY <2>5, <2>6
<1> HIDE DEF rest
<1> DEFINE first  == <<"start", "confirm">>
           second == <<"confirm">>
<1>3. /\ first \in Seq(Steps) /\ Len(first) = 2 /\ first[1] = "start" /\ first[2] = "confirm"
      /\ second \in Seq(Steps) /\ Len(second) = 1 /\ second[1] = "confirm"
  BY DEF Steps
<1> HIDE DEF first, second
<1> DEFINE whole == first \o rest
           later == second \o rest
<1>4. /\ whole \in Seq(Steps) /\ Len(whole) = 2 + Len(rest)
      /\ \A i \in 1..2 + Len(rest) : whole[i] = IF i <= 2 THEN first[i] ELSE rest[i - 2]
  <2>1. /\ whole \in Seq(Steps) /\ Len(whole) = Len(first) + Len(rest)
        /\ \A i \in 1..Len(first) + Len(rest) :
             whole[i] = IF i <= Len(first) THEN first[i] ELSE rest[i - Len(first)]
    BY <1>2, <1>3, ConcatProperties
  <2> QED BY <1>3, <2>1
<1>5. /\ later \in Seq(Steps) /\ Len(later) = 1 + Len(rest)
      /\ \A i \in 1..1 + Len(rest) : later[i] = IF i <= 1 THEN second[i] ELSE rest[i - 1]
  <2>1. /\ later \in Seq(Steps) /\ Len(later) = Len(second) + Len(rest)
        /\ \A i \in 1..Len(second) + Len(rest) :
             later[i] = IF i <= Len(second) THEN second[i] ELSE rest[i - Len(second)]
    BY <1>2, <1>3, ConcatProperties
  <2> QED BY <1>3, <2>1
<1> HIDE DEF whole, later
<1>6. Len(rest) \in Nat /\ Len(<<>>) = 0
  BY <1>2
<1>7. whole # <<>> /\ Head(whole) = "start" /\ later # <<>> /\ Head(later) = "confirm"
  BY <1>3, <1>4, <1>5, <1>6
<1>8. Tail(whole) = later
  <2>1. /\ Tail(whole) \in Seq(Steps) /\ Len(Tail(whole)) = Len(later)
        /\ \A i \in 1..Len(later) : Tail(whole)[i] = whole[i + 1]
    BY <1>4, <1>5, <1>6, <1>7, HeadTailProperties
  <2>2. ASSUME NEW i \in 1..Len(later) PROVE Tail(whole)[i] = later[i]
    <3>1. /\ i + 1 \in 1..2 + Len(rest) /\ i \in 1..1 + Len(rest)
          /\ Tail(whole)[i] = whole[i + 1]
      BY <1>5, <1>6, <2>1
    <3>2. CASE i = 1
      BY <1>3, <1>4, <1>5, <3>1, <3>2
    <3>3. CASE i # 1
      <4>1. whole[i + 1] = rest[i + 1 - 2] /\ later[i] = rest[i - 1] /\ i + 1 - 2 = i - 1
        BY <1>4, <1>5, <1>6, <3>1, <3>3
      <4> QED BY <3>1, <4>1
    <3> QED BY <3>2, <3>3
  <2> QED BY <1>5, <2>1, <2>2, SeqEqual
<1>9. Tail(later) = rest
  <2>1. /\ Tail(later) \in Seq(Steps) /\ Len(Tail(later)) = Len(rest)
        /\ \A i \in 1..Len(rest) : Tail(later)[i] = later[i + 1]
    BY <1>5, <1>6, <1>7, HeadTailProperties
  <2>2. ASSUME NEW i \in 1..Len(rest) PROVE Tail(later)[i] = rest[i]
    BY <1>3, <1>5, <1>6, <2>1
  <2> QED BY <1>2, <2>1, <2>2, SeqEqual
<1> QED BY <1>1, <1>7, <1>8, <1>9 DEF whole, later, first, second, rest

\* The deadline of a demonstration is a week away or more, whenever it begins
\* (interpret_cancellation_request, PUBLIC_DEMO_INTENT).
LEMMA DeadlineIsAWeekAway ==
  ASSUME NEW moment \in Moments
  PROVE  /\ Contract(moment).deadline \in Nat
         /\ Contract(moment).deadline > 7 * Day
         /\ Contract(moment).tracksCharges = TRUE
<1> DEFINE day   == moment \div Day
           ahead == DaysToFriday(moment) + 7
<1>1. moment \in Nat
  BY MomentsAssumption
<1>2. day \in Nat /\ moment < (day + 1) * 2880
  BY <1>1, MomentInDay DEF Day
<1>3. Contract(moment).deadline = (day + ahead) * 2880 - moment
  BY <1>1 DEF Contract, DeadlineRead, DaysAhead, Day
<1>4. PICK k \in 1..7 : k = DaysToFriday(moment)
  BY <1>1, FridayAhead
<1>5. ahead = k + 7
  BY <1>4
<1> HIDE DEF day, ahead
<1>6. (day + ahead) * 2880 = day * 2880 + ahead * 2880 /\ (day + 1) * 2880 = day * 2880 + 2880
  BY <1>2, <1>4, <1>5
<1>7. PICK start \in Nat : start = day * 2880
  BY <1>2
<1>8. PICK span \in Nat : span = ahead * 2880 /\ span >= 23040
  BY <1>4, <1>5
<1>9. Contract(moment).deadline = start + span - moment /\ moment < start + 2880
  <2>1. Contract(moment).deadline = start + span - moment
    <3>1. (day + ahead) * 2880 = start + span
      BY <1>6, <1>7, <1>8
    <3>2. PICK whole : whole = (day + ahead) * 2880
      OBVIOUS
    <3>3. Contract(moment).deadline = whole - moment /\ whole = start + span
      BY <1>3, <3>1, <3>2
    <3> QED BY <1>1, <3>3
  <2>2. moment < start + 2880
    BY <1>2, <1>6, <1>7
  <2> QED BY <2>1, <2>2
<1>10. Contract(moment).deadline \in Nat /\ Contract(moment).deadline > 20160
  BY <1>1, <1>7, <1>8, <1>9
<1> QED BY <1>10 DEF Day, Contract

(***************************************************************************)
(* The service carries on a confirmation                                   *)
(***************************************************************************)
\* The deadline stays when the scenario's moment does.
LEMMA SameDeadline ==
  ASSUME asked' = asked
  PROVE  Deadline' = Deadline
  BY DEF Deadline, Contract

\* The deadline is more than a week away, in half minutes
\* (interpret_cancellation_request).
LEMMA DeadlineFar ==
  ASSUME DemonstrationTypeOK
  PROVE  Deadline \in Nat /\ Deadline > 20160
<1>1. asked \in Moments
  BY DEF DemonstrationTypeOK
<1>2. Deadline \in Nat /\ Deadline > 7 * Day
  BY <1>1, DeadlineIsAWeekAway DEF Deadline
<1> QED BY <1>2 DEF Day

\* A save in the middle of a call (save_owned).
LEMMA SaveWrites ==
  ASSUME DemonstrationTypeOK, NEW from, NEW to \in S!Places, to # "idle", S!Save(Thread, from, to)
  PROVE  /\ row' = S!Saved(Copy) /\ Copy' = S!Saved(Copy)
         /\ job'[Thread] = [job[Thread] EXCEPT !.pc = to, !.rec = S!Saved(Copy)]
         /\ row' \in S!Record /\ job' \in [{Thread} -> S!Job]
         /\ now' = now /\ reads' = reads /\ followUpCalls' = followUpCalls
<1> DEFINE saved == S!Saved(Copy)
           next  == [job[Thread] EXCEPT !.pc = to, !.rec = saved]
<1>1. row' = saved /\ job' = [job EXCEPT ![Thread] = next]
  BY DEF S!Save, Copy
<1>2. job \in [{Thread} -> S!Job] /\ job[Thread] \in S!Job /\ Copy \in S!Record
  BY DEF DemonstrationTypeOK, Copy, S!Job
<1>3. saved \in S!Record
  BY <1>2, SavedTyped
<1> HIDE DEF saved
<1>4. next \in S!Job /\ next.rec = saved
  BY <1>2, <1>3 DEF S!Job
<1> HIDE DEF next
<1>5. job'[Thread] = next /\ job' \in [{Thread} -> S!Job]
  BY <1>1, <1>2, <1>4
<1>6. Copy' = saved
  BY <1>4, <1>5 DEF Copy
<1>7. now' = now /\ reads' = reads /\ followUpCalls' = followUpCalls
  BY DEF S!Save
<1> QED BY <1>1, <1>3, <1>5, <1>6, <1>7 DEF saved, next

\* A save at the end of a call (save_owned).
LEMMA SaveEnds ==
  ASSUME DemonstrationTypeOK, NEW from, S!Save(Thread, from, "idle")
  PROVE  /\ row' = S!Saved(Copy) /\ job'[Thread] = S!NoJob
         /\ row' \in S!Record /\ job' \in [{Thread} -> S!Job]
         /\ now' = now /\ reads' = reads /\ followUpCalls' = followUpCalls
<1> DEFINE none == S!NoJob
<1>1. row' = S!Saved(Copy) /\ job' = [job EXCEPT ![Thread] = none]
  BY DEF S!Save, Copy
<1>2. job \in [{Thread} -> S!Job] /\ Copy \in S!Record
  BY DEF DemonstrationTypeOK, Copy, S!Job
<1>3. none \in S!Job /\ row' \in S!Record
  BY <1>1, <1>2, SavedTyped, ValuesTyped
<1> HIDE DEF none
<1>4. job'[Thread] = none /\ job' \in [{Thread} -> S!Job]
  BY <1>1, <1>2, <1>3
<1>5. now' = now /\ reads' = reads /\ followUpCalls' = followUpCalls
  BY DEF S!Save
<1> QED BY <1>1, <1>3, <1>4, <1>5 DEF none

\* What was agreed to is stored.
LEMMA ClaimExecutionKeeps ==
  ASSUME DemonstrationTypeOK, Underway, S!ClaimExecution(Thread),
         UNCHANGED <<scenario, asked, script>>
  PROVE  DemonstrationTypeOK' /\ Underway'
<1>1. job[Thread].pc = "claim_execution" /\ S!Save(Thread, "claim_execution", "execute")
  BY DEF S!ClaimExecution, S!Save
<1>2. Confirming("claim_execution")
  BY <1>1 DEF Underway
<1>3. "execute" \in S!Places
  BY DEF S!Places
<1>4. /\ row' = S!Saved(Copy) /\ Copy' = S!Saved(Copy)
      /\ job'[Thread] = [job[Thread] EXCEPT !.pc = "execute", !.rec = S!Saved(Copy)]
      /\ row' \in S!Record /\ job' \in [{Thread} -> S!Job]
      /\ now' = now /\ reads' = reads /\ followUpCalls' = followUpCalls
  BY <1>1, <1>3, SaveWrites
<1>5. job[Thread] \in S!Job
  BY DEF DemonstrationTypeOK
<1>6. /\ job'[Thread].pc = "execute" /\ job'[Thread].at = job[Thread].at
      /\ job'[Thread].eligible = job[Thread].eligible
  BY <1>4, <1>5 DEF S!Job
<1>7. DemonstrationTypeOK'
  BY <1>4 DEF DemonstrationTypeOK
<1>8. Deadline' = Deadline
  BY SameDeadline
<1>9. row' = S!Saved(Agreed(Deadline')) /\ Copy' = row'
  BY <1>2, <1>4, <1>8 DEF Confirming
<1>10. Untouched' /\ script' = Rest(scenario')
  BY <1>2, <1>4 DEF Confirming, Untouched, NotCalled
<1>11. Confirming("execute")'
  BY <1>2, <1>6, <1>9, <1>10 DEF Confirming
<1> QED BY <1>6, <1>7, <1>11 DEF Underway

\* The provider is asked to cancel, and claims that it did (_execute).
LEMMA ExecuteKeeps ==
  ASSUME DemonstrationTypeOK, Underway, S!Execute(Thread),
         UNCHANGED <<scenario, asked, script>>
  PROVE  DemonstrationTypeOK' /\ Underway'
<1>1. job[Thread].pc = "execute"
  BY DEF S!Execute
<1>2. Confirming("execute")
  BY <1>1 DEF Underway
<1>3. /\ row = S!Saved(Agreed(Deadline)) /\ Copy = row /\ now = 0
      /\ job[Thread].at = S!Never /\ ~job[Thread].eligible
  BY <1>2 DEF Confirming, Untouched
<1> DEFINE asking == S!Transition([Copy EXCEPT !.claim = S!Accepted(Claim), !.checks = @ + 1],
                                  "VERIFYING", now)
           next   == [job[Thread] EXCEPT !.pc = "record_claim", !.rec = asking]
<1>4. job' = [[job EXCEPT ![Thread].pc = "record_claim"] EXCEPT ![Thread].rec = asking]
  BY DEF S!Execute, Copy
<1>5. asking = Asked(Deadline)
  BY <1>3 DEF Asked
<1>6. Deadline \in Nat
  BY DeadlineFar
<1>7. asking \in S!Record
  BY <1>5, <1>6, AskedIsLookedAt DEF Looking, Claimed
<1> HIDE DEF asking
<1>8. job \in [{Thread} -> S!Job] /\ job[Thread] \in S!Job
  BY DEF DemonstrationTypeOK
<1>9. job' = [job EXCEPT ![Thread] = next]
  BY <1>4, <1>8
<1>10. /\ next \in S!Job /\ next.rec = asking /\ next.pc = "record_claim"
       /\ next.at = job[Thread].at /\ next.eligible = job[Thread].eligible
  BY <1>7, <1>8 DEF S!Job, S!Places, S!SavePoints
<1> HIDE DEF next
<1>11. job'[Thread] = next /\ job' \in [{Thread} -> S!Job]
  BY <1>8, <1>9, <1>10
<1>12. row' = row /\ now' = now /\ reads' = reads /\ followUpCalls' = followUpCalls
  BY DEF S!Execute
<1>13. DemonstrationTypeOK'
  BY <1>11, <1>12 DEF DemonstrationTypeOK
<1>14. Deadline' = Deadline
  BY SameDeadline
<1>15. row' = S!Saved(Agreed(Deadline')) /\ Copy' = Asked(Deadline')
  BY <1>3, <1>5, <1>10, <1>11, <1>12, <1>14 DEF Copy
<1>16. Untouched' /\ script' = Rest(scenario')
  BY <1>2, <1>12 DEF Confirming, Untouched, NotCalled
<1>17. Confirming("record_claim")'
  BY <1>3, <1>10, <1>11, <1>15, <1>16 DEF Confirming
<1> QED BY <1>10, <1>11, <1>13, <1>17 DEF Underway

\* The claim is stored.
LEMMA RecordClaimKeeps ==
  ASSUME DemonstrationTypeOK, Underway, S!RecordClaim(Thread),
         UNCHANGED <<scenario, asked, script>>
  PROVE  DemonstrationTypeOK' /\ Underway'
<1>1. job[Thread].pc = "record_claim" /\ S!Save(Thread, "record_claim", "read_back")
  BY DEF S!RecordClaim, S!Save
<1>2. Confirming("record_claim")
  BY <1>1 DEF Underway
<1>3. /\ Copy = Asked(Deadline) /\ now = 0 /\ Untouched /\ script = Rest(scenario)
      /\ job[Thread].at = S!Never /\ ~job[Thread].eligible
  BY <1>2 DEF Confirming, Untouched
<1>4. "read_back" \in S!Places
  BY DEF S!Places
<1>5. /\ row' = S!Saved(Copy) /\ Copy' = S!Saved(Copy)
      /\ job'[Thread] = [job[Thread] EXCEPT !.pc = "read_back", !.rec = S!Saved(Copy)]
      /\ row' \in S!Record /\ job' \in [{Thread} -> S!Job]
      /\ now' = now /\ reads' = reads /\ followUpCalls' = followUpCalls
  BY <1>1, <1>4, SaveWrites
<1>6. job[Thread] \in S!Job
  BY DEF DemonstrationTypeOK
<1>7. /\ job'[Thread].pc = "read_back" /\ job'[Thread].at = job[Thread].at
      /\ job'[Thread].eligible = job[Thread].eligible
  BY <1>5, <1>6 DEF S!Job
<1>8. DemonstrationTypeOK'
  BY <1>5 DEF DemonstrationTypeOK
<1>9. Deadline' = Deadline /\ Deadline \in Nat
  BY SameDeadline, DeadlineFar
<1> DEFINE saved == S!Saved(Copy)
<1>10. Looking(Copy, Deadline, 0) /\ Quiet(Copy) /\ Copy.checks = 1 /\ Copy \in S!Record
  BY <1>3, <1>9, AskedIsLookedAt DEF Looking, Claimed
<1>11. Looking(saved, Deadline, 0)
  BY <1>10, SavedLooks
<1>12. saved.checks = 1 /\ Quiet(saved)
  BY <1>10, SavedKeeps DEF SamePace, SameStory, Quiet, Uncharged, NothingProposed
<1> HIDE DEF saved
<1>13. Copy' = saved /\ row' = saved
  BY <1>5 DEF saved
<1>14. Untouched' /\ script' = Rest(scenario')
  BY <1>3, <1>5 DEF Untouched, NotCalled
<1>15. LookStory(Copy)'
  BY <1>12, <1>13, <1>14 DEF LookStory, FirstLook
<1>16. Looking(Copy, Deadline, now)'
  BY <1>3, <1>5, <1>9, <1>11, <1>13
<1>17. LookingAt("read_back")'
  BY <1>3, <1>7, <1>12, <1>13, <1>15, <1>16 DEF LookingAt
<1> QED BY <1>7, <1>8, <1>17 DEF Underway

(***************************************************************************)
(* The service looks                                                       *)
(***************************************************************************)
\* What the simulated provider shows is one of its answers (DemoProvider).
LEMMA ViewIsAnswer == View \in Answers
<1> DEFINE answers == {On, OnAndPaid, Off, Outage}
<1>1. View \in answers
  <2> DEFINE a == On
             b == OnAndPaid
             c == Off
             d == Outage
  <2>1. View = a \/ View = b \/ View = c \/ View = d
    BY DEF View
  <2> QED BY <2>1
<1> QED BY <1>1 DEF Answers

\* The copy is judged by what the view shows at this moment.
LEMMA ReadBackJudges ==
  ASSUME DemonstrationTypeOK, LookingAt("read_back"), S!ReadBack(Thread),
         V!LastAttempt(job'[Thread].rec).evidence = View
  PROVE  /\ Copy' = S!RecordVerification(Copy, View, job[Thread].eligible, now)
         /\ job'[Thread] = [job[Thread] EXCEPT !.pc = "conclude", !.rec = Copy']
         /\ row' = row /\ now' = now /\ reads' = reads + 1 /\ followUpCalls' = followUpCalls
         /\ job' \in [{Thread} -> S!Job]
<1> DEFINE eligible == job[Thread].eligible
           time     == IF job[Thread].at = S!Never THEN now ELSE job[Thread].at
<1>1. PICK e \in Answers :
         job' = [[job EXCEPT ![Thread].pc = "conclude"] EXCEPT ![Thread].rec =
                   S!RecordVerification(job[Thread].rec, S!Collected(e), eligible, time)]
  BY DEF S!ReadBack, Answers
<1>2. time = now
  BY DEF LookingAt
<1>3. e \in S!Evidence /\ S!Collected(e) = e
  BY AnswersTyped
<1> DEFINE after == S!RecordVerification(Copy, e, eligible, now)
           next  == [job[Thread] EXCEPT !.pc = "conclude", !.rec = after]
<1>4. /\ job \in [{Thread} -> S!Job] /\ job[Thread] \in S!Job
      /\ Copy \in S!Record /\ eligible \in BOOLEAN /\ now \in Int
  BY DEF DemonstrationTypeOK, S!Job, Copy
<1>5. after \in S!Record /\ Written(after, Copy, Recorded(Copy, e, eligible, now))
  BY <1>3, <1>4, JudgementWrites
<1>6. S!RecordVerification(job[Thread].rec, S!Collected(e), eligible, time) = after
  BY <1>2, <1>3 DEF Copy
<1> HIDE DEF time, eligible, after
<1>7. job' = [job EXCEPT ![Thread] = next]
  BY <1>1, <1>4, <1>6
<1>8. next \in S!Job /\ next.rec = after
  BY <1>4, <1>5 DEF S!Job, S!Places, S!SavePoints
<1>9. job'[Thread] = next /\ job' \in [{Thread} -> S!Job]
  <2> HIDE DEF next
  <2> QED BY <1>4, <1>7, <1>8
<1>10. Copy' = after
  <2> HIDE DEF next
  <2> QED BY <1>8, <1>9 DEF Copy
<1>11. e = View
  <2>1. after.attempts = Append(Copy.attempts, Recorded(Copy, e, eligible, now))
    BY <1>5 DEF Written
  <2>2. S!LastAttempt(after) = Recorded(Copy, e, eligible, now)
    <3> DEFINE attempt == Recorded(Copy, e, eligible, now)
    <3> HIDE DEF attempt
    <3>1. Len(after.attempts) = Len(Copy.attempts) + 1
          /\ after.attempts[Len(Copy.attempts) + 1] = attempt
      BY <1>4, <2>1, Appended DEF attempt
    <3> QED BY <3>1 DEF S!LastAttempt, attempt
  <2>3. V!LastAttempt(after) = S!LastAttempt(after)
    BY DEF V!LastAttempt, S!LastAttempt
  <2>4. S!LastAttempt(after).evidence = e
    BY <2>2 DEF Recorded
  <2>5. job'[Thread].rec = after
    BY <1>10 DEF Copy
  <2> QED BY <2>3, <2>4, <2>5
<1>12. row' = row /\ now' = now /\ reads' = reads + 1 /\ followUpCalls' = followUpCalls
  BY DEF S!ReadBack
<1>13. after = S!RecordVerification(Copy, View, eligible, now)
  BY <1>11 DEF after
<1> QED BY <1>9, <1>10, <1>12, <1>13 DEF eligible, next

\* The answers are told apart.
LEMMA AnswersDiffer ==
  On # Off /\ OnAndPaid # Off /\ Outage # Off /\ OnAndPaid # Outage /\ On # Outage
<1>1. On.autoRenew = "on" /\ On.readable
  BY DEF On
<1>2. OnAndPaid.autoRenew = "on" /\ OnAndPaid.readable
  BY DEF OnAndPaid, On
<1>3. Off.autoRenew = "off"
  BY DEF Off, OnAndPaid, On
<1>4. Outage.autoRenew = "null" /\ ~Outage.readable
  BY DEF Outage, On
<1> QED BY <1>1, <1>2, <1>3, <1>4

\* What a look at the account writes: either the outcome, or a record that
\* waits, which was told nothing long before the deadline.
LEMMA LookWrites ==
  ASSUME DemonstrationTypeOK, Looking(Copy, Deadline, now),
         job[Thread].eligible <=> Copy.checks = 4,
         Copy' = S!RecordVerification(Copy, View, job[Thread].eligible, now),
         asked' = asked, now' = now
  PROVE  /\ Moved(Copy', Copy, now)
         /\ Copy.charges = <<>> /\ View # Off /\ Copy.checks < 4 =>
              /\ Resting(Copy', Deadline', now')
              /\ NoneExecuting(Copy) => NoneExecuting(Copy')
              /\ Quiet(Copy) /\ now + 6 * Hour < Deadline => Quiet(Copy')
              /\ Quiet(Copy) /\ now = Deadline - 5 * Hour /\ View = On
                   => Offered(Copy', "deadline_approaching", Deadline - 5 * Hour + 5 * Minute)
         /\ (\/ Copy.charges = <<>> /\ (View = Off \/ (Copy.checks = 4 /\ View # Outage))
             \/ Copy.charges = <<Renewed(Deadline)>>
                /\ Deadline + Minute <= now /\ now <= Deadline + 7 * Day) =>
              /\ Final(Copy')
              /\ Copy'.state = IF Copy.charges = <<>> /\ View = Off THEN "VERIFIED"
                               ELSE "NOT_COMPLETED"
<1> DEFINE eligible == job[Thread].eligible
           after    == S!RecordVerification(Copy, View, eligible, now)
<1>1. /\ Deadline \in Nat /\ now \in Nat /\ View \in Answers /\ eligible \in BOOLEAN
      /\ Deadline' = Deadline /\ Copy' = after
  BY DeadlineFar, ViewIsAnswer, SameDeadline DEF DemonstrationTypeOK, S!Job
<1>2. Copy \in S!Record /\ View \in S!Evidence
  BY <1>1, AnswersTyped DEF Looking, Claimed
<1>3. Moved(after, Copy, now)
  <2>1. Written(after, Copy, Recorded(Copy, View, eligible, now))
    BY <1>1, <1>2, JudgementWrites
  <2> HIDE DEF after
  <2> QED BY <2>1 DEF Written, Moved, Recorded
<1>4. ASSUME Copy.charges = <<>>, View # Off, Copy.checks < 4
      PROVE  /\ Resting(after, Deadline, now)
             /\ NoneExecuting(Copy) => NoneExecuting(after)
             /\ Quiet(Copy) /\ now + 6 * Hour < Deadline => Quiet(after)
             /\ Quiet(Copy) /\ now = Deadline - 5 * Hour /\ View = On
                  => Offered(after, "deadline_approaching", Deadline - 5 * Hour + 5 * Minute)
  <2>1. Resting(after, Deadline, now)
    BY <1>1, <1>4, LookRests
  <2>2. /\ NoneExecuting(Copy) => NoneExecuting(after)
        /\ Quiet(Copy) /\ now + 6 * Hour < Deadline => Quiet(after)
        /\ Quiet(Copy) /\ now = Deadline - 5 * Hour /\ View = On
             => Offered(after, "deadline_approaching", Deadline - 5 * Hour + 5 * Minute)
    BY <1>1, <1>4, LookTells
  <2> QED BY <2>1, <2>2
<1>5. ASSUME \/ Copy.charges = <<>> /\ (View = Off \/ (Copy.checks = 4 /\ View # Outage))
             \/ Copy.charges = <<Renewed(Deadline)>>
                /\ Deadline + Minute <= now /\ now <= Deadline + 7 * Day
      PROVE  /\ Final(after)
             /\ after.state = IF Copy.charges = <<>> /\ View = Off THEN "VERIFIED"
                              ELSE "NOT_COMPLETED"
  BY <1>1, <1>5, LookEnds
<1> HIDE DEF after
<1> QED BY <1>1, <1>3, <1>4, <1>5

\* What the first look comes to.
LEMMA FirstLookComesTo ==
  ASSUME DemonstrationTypeOK, Looking(Copy, Deadline, now), FirstLook(Copy),
         job[Thread].eligible <=> Copy.checks = 4,
         Copy' = S!RecordVerification(Copy, View, job[Thread].eligible, now),
         UNCHANGED <<scenario, asked, script, now, followUpCalls>>, reads' = reads + 1
  PROVE  (Resting(Copy, Deadline, now) /\ Story(Copy))' \/ Ended(Copy)'
<1>1. /\ Copy.checks = 1 /\ now = 0 /\ reads = 0 /\ NotCalled /\ Quiet(Copy)
      /\ script = Rest(scenario) /\ Copy.charges = <<>> /\ NoneExecuting(Copy)
  BY DEF FirstLook, Untouched, Quiet, Uncharged, NothingProposed, NoneExecuting
<1>2. /\ Moved(Copy', Copy, now)
      /\ View # Off =>
           /\ Resting(Copy', Deadline', now')
           /\ NoneExecuting(Copy')
           /\ Quiet(Copy) /\ now + 6 * Hour < Deadline => Quiet(Copy')
      /\ View = Off => Final(Copy') /\ Copy'.state = "VERIFIED"
  <2>1. Copy.checks < 4 /\ (View = Off => Copy.charges = <<>> /\ View = Off)
    BY <1>1
  <2> QED BY <1>1, <2>1, LookWrites
<1>3. Quiet(Copy) /\ now + 6 * Hour < Deadline
  BY <1>1, DeadlineFar DEF Hour, Minute
<1>4. Copy'.checks = 1 /\ Copy'.charges = <<>> /\ reads' # 0 /\ NotCalled'
  BY <1>1, <1>2 DEF Moved, NotCalled
<1>5. scenario \in Scenarios /\ ~Recovered
  BY <1>1 DEF DemonstrationTypeOK, Recovered, NotCalled, S!FollowUps
<1>6. CASE scenario = "healthy"
  <2>1. View = Off /\ script = <<>>
    BY <1>1, <1>6 DEF View, Rest
  <2>2. Announced(scenario) = "VERIFIED"
    BY <1>6 DEF Announced
  <2> QED BY <1>2, <2>1, <2>2 DEF Ended
<1>7. CASE scenario \in {"false_success", "evidence_outage"}
  <2>1. View # Off /\ script = <<>>
    BY <1>1, <1>7, AnswersDiffer DEF View, Rest
  <2> QED BY <1>2, <1>7, <2>1 DEF Story
<1>8. CASE scenario = "persistent_resolution"
  <2>1. View # Off /\ script = <<"due", "look">>
    BY <1>1, <1>8, AnswersDiffer DEF View, Rest
  <2>2. StoryOfPersistence(Copy)'
    BY <1>2, <1>4, <2>1 DEF StoryOfPersistence, Uncharged
  <2> QED BY <1>2, <1>8, <2>1, <2>2 DEF Story
<1>9. CASE scenario = "terminal_failure"
  <2>1. View # Off /\ script = <<>>
    BY <1>1, <1>9, AnswersDiffer DEF View, Rest
  <2>2. StoryOfFailure(Copy)'
    BY <1>2, <1>4, <2>1 DEF StoryOfFailure, Uncharged
  <2> QED BY <1>2, <1>9, <2>1, <2>2 DEF Story
<1>10. CASE scenario = "recovery_loop"
  <2>1. View # Off
    BY <1>5, <1>10, AnswersDiffer DEF View
  <2>2. Quiet(Copy') /\ script' = Rest("recovery_loop") /\ now' = 0
    BY <1>1, <1>2, <1>3, <1>10, <2>1
  <2>3. StoryOfRecovery(Copy)'
    BY <1>4, <2>2 DEF StoryOfRecovery, Uncharged
  <2> QED BY <1>2, <1>10, <2>1, <2>3 DEF Story
<1>11. CASE scenario = "outcome_violation"
  <2>1. View # Off
    BY <1>5, <1>11, AnswersDiffer DEF View
  <2>2. Quiet(Copy') /\ script' = Rest("outcome_violation") /\ now' = 0
    BY <1>1, <1>2, <1>3, <1>11, <2>1
  <2>3. StoryOfCharge(Copy)'
    BY <1>4, <2>2 DEF StoryOfCharge
  <2> QED BY <1>2, <1>11, <2>1, <2>3 DEF Story
<1> QED BY <1>5, <1>6, <1>7, <1>8, <1>9, <1>10, <1>11 DEF Scenarios

\* What every further look comes to.
LEMMA NextLookComesTo ==
  ASSUME DemonstrationTypeOK, Looking(Copy, Deadline, now), NextLook(Copy),
         job[Thread].eligible <=> Copy.checks = 4,
         Copy' = S!RecordVerification(Copy, View, job[Thread].eligible, now),
         UNCHANGED <<scenario, asked, script, now, followUpCalls>>, reads' = reads + 1
  PROVE  (Resting(Copy, Deadline, now) /\ Story(Copy))' \/ Ended(Copy)'
<1>1. /\ Deadline \in Nat /\ now \in Nat /\ reads \in Nat /\ Deadline' = Deadline
      /\ Copy.checks \in 1..4
  BY DeadlineFar, SameDeadline DEF DemonstrationTypeOK, Looking
<1>2. CASE scenario = "persistent_resolution" /\ Uncharged(Copy) /\ reads # 0 /\ script = <<>>
  <2>1. View = Off /\ Copy.charges = <<>>
    BY <1>2 DEF View, Uncharged
  <2>2. Final(Copy') /\ Copy'.state = "VERIFIED"
    BY <2>1, LookWrites
  <2>3. Announced(scenario) = "VERIFIED"
    BY <1>2 DEF Announced
  <2> QED BY <1>2, <2>2, <2>3 DEF Ended
<1>3. CASE scenario = "terminal_failure" /\ Uncharged(Copy) /\ NoneExecuting(Copy) /\ script = <<>>
  <2>1. View # Off /\ View # Outage /\ Copy.charges = <<>>
    BY <1>3, AnswersDiffer DEF View, Uncharged
  <2>2. CASE Copy.checks < 4
    <3>1. /\ Resting(Copy', Deadline', now') /\ NoneExecuting(Copy') /\ Moved(Copy', Copy, now)
      BY <1>3, <2>1, <2>2, LookWrites
    <3>2. StoryOfFailure(Copy)'
      BY <1>3, <3>1 DEF StoryOfFailure, Uncharged, Moved
    <3> QED BY <1>3, <3>1, <3>2 DEF Story
  <2>3. CASE Copy.checks = 4
    <3>1. Final(Copy') /\ Copy'.state = "NOT_COMPLETED"
      BY <2>1, <2>3, LookWrites
    <3>2. Announced(scenario) = "NOT_COMPLETED"
      BY <1>3 DEF Announced
    <3> QED BY <1>3, <3>1, <3>2 DEF Ended
  <2> QED BY <1>1, <2>2, <2>3
<1>4. CASE /\ scenario = "recovery_loop" /\ Copy.checks = 2 /\ Quiet(Copy)
           /\ now = Deadline - 5 * Hour /\ NotCalled
           /\ script = <<"soon", "follow_up", "due", "look">>
  <2>1. View = On /\ View # Off /\ Copy.charges = <<>>
    BY <1>4, AnswersDiffer DEF View, Recovered, NotCalled, S!FollowUps, Quiet, Uncharged
  <2>2. /\ Resting(Copy', Deadline', now') /\ Moved(Copy', Copy, now)
        /\ Offered(Copy', "deadline_approaching", Deadline - 5 * Hour + 5 * Minute)
    BY <1>4, <2>1, LookWrites
  <2>3. StoryOfRecovery(Copy)'
    BY <1>1, <1>4, <2>1, <2>2 DEF StoryOfRecovery, Uncharged, Moved
  <2> QED BY <1>4, <2>2, <2>3 DEF Story
<1>5. CASE /\ scenario = "recovery_loop" /\ Uncharged(Copy) /\ Recovered /\ script = <<>>
  <2>1. View = Off /\ Copy.charges = <<>>
    BY <1>5 DEF View, Uncharged
  <2>2. Final(Copy') /\ Copy'.state = "VERIFIED"
    BY <2>1, LookWrites
  <2>3. Announced(scenario) = "VERIFIED"
    BY <1>5 DEF Announced
  <2> QED BY <1>5, <2>2, <2>3 DEF Ended
<1>6. CASE /\ scenario = "outcome_violation" /\ Copy.charges = <<Renewed(Deadline)>>
           /\ now \in Deadline + 3 * Minute .. Deadline + 8 * Minute /\ script = <<>>
  <2>1. Deadline + Minute <= now /\ now <= Deadline + 7 * Day
    BY <1>1, <1>6 DEF Minute, Day
  <2>2. Copy.charges # <<>>
    BY <1>6
  <2>3. Final(Copy') /\ Copy'.state = "NOT_COMPLETED"
    BY <1>6, <2>1, <2>2, LookWrites
  <2>4. Announced(scenario) = "NOT_COMPLETED"
    BY <1>6 DEF Announced
  <2> QED BY <1>6, <2>3, <2>4 DEF Ended
<1> QED BY <1>2, <1>3, <1>4, <1>5, <1>6 DEF NextLook

\* The read-back is judged (recheck_resolution, _record_verification).
LEMMA ReadBackKeeps ==
  ASSUME DemonstrationTypeOK, Underway, S!ReadBack(Thread),
         job[Thread].pc = "read_back" => V!LastAttempt(job'[Thread].rec).evidence = View,
         UNCHANGED <<scenario, asked, script>>
  PROVE  DemonstrationTypeOK' /\ Underway'
<1>1. job[Thread].pc = "read_back"
  BY DEF S!ReadBack
<1>2. LookingAt("read_back")
  BY <1>1 DEF Underway
<1>3. /\ Copy' = S!RecordVerification(Copy, View, job[Thread].eligible, now)
      /\ job'[Thread] = [job[Thread] EXCEPT !.pc = "conclude", !.rec = Copy']
      /\ row' = row /\ now' = now /\ reads' = reads + 1 /\ followUpCalls' = followUpCalls
      /\ job' \in [{Thread} -> S!Job]
  BY <1>1, <1>2, ReadBackJudges
<1>4. /\ Looking(Copy, Deadline, now) /\ LookStory(Copy) /\ Copy = row
      /\ job[Thread].eligible <=> Copy.checks = 4
      /\ job[Thread].at \in {S!Never, now}
  BY <1>2 DEF LookingAt
<1>5. DemonstrationTypeOK'
  BY <1>3 DEF DemonstrationTypeOK
<1>6. (Resting(Copy, Deadline, now) /\ Story(Copy))' \/ Ended(Copy)'
  <2>1. CASE FirstLook(Copy)
    BY <1>3, <1>4, <2>1, FirstLookComesTo
  <2>2. CASE NextLook(Copy)
    BY <1>3, <1>4, <2>2, NextLookComesTo
  <2> QED BY <1>4, <2>1, <2>2 DEF LookStory
<1>7. job[Thread] \in S!Job
  BY DEF DemonstrationTypeOK
<1>8. job'[Thread].pc = "conclude" /\ job'[Thread].at = job[Thread].at
  BY <1>3, <1>7 DEF S!Job
<1>9. Moved(Copy', Copy, now) /\ Deadline' = Deadline
  BY <1>3, <1>4, LookWrites, SameDeadline
<1>10. Looking(row, Deadline, now)'
  BY <1>3, <1>4, <1>9
<1>11. row'.movedAt <= Copy'.movedAt
  <2>1. Copy.movedAt = now /\ now \in Nat
    BY <1>4 DEF Looking, DemonstrationTypeOK
  <2> QED BY <1>3, <1>4, <1>9, <2>1 DEF Moved
<1>12. OneStepOn'
  BY <1>3, <1>4, <1>9 DEF OneStepOn, SameVersion, Moved
<1>13. LookingAt("conclude")'
  BY <1>3, <1>4, <1>6, <1>8, <1>10, <1>11, <1>12 DEF LookingAt
<1> QED BY <1>5, <1>8, <1>13 DEF Underway

(***************************************************************************)
(* The service stores what it found                                        *)
(***************************************************************************)
\* What was told, proposed and charged stays in a record that is saved.
LEMMA StoryStays ==
  ASSUME NEW a, NEW b, SameStory(a, b)
  PROVE  /\ Uncharged(a) <=> Uncharged(b)
         /\ Quiet(a) <=> Quiet(b)
         /\ NoneExecuting(a) <=> NoneExecuting(b)
         /\ \A f, expires : Offered(a, f, expires) <=> Offered(b, f, expires)
  BY DEF SameStory, Uncharged, Quiet, NothingProposed, NoneExecuting, Offered

\* The journey goes on from a copy that is saved.
LEMMA StorySaved ==
  ASSUME Story(Copy), SameStory(row', Copy),
         row'.checks = Copy.checks, row'.nextCheck = Copy.nextCheck,
         UNCHANGED <<scenario, asked, script, now, reads, followUpCalls>>
  PROVE  Story(row)'
<1>1. Deadline' = Deadline /\ (Recovered' <=> Recovered) /\ (NotCalled' <=> NotCalled)
  BY SameDeadline DEF Recovered, NotCalled
<1>2. /\ Uncharged(row') <=> Uncharged(Copy)
      /\ Quiet(row') <=> Quiet(Copy)
      /\ NoneExecuting(row') <=> NoneExecuting(Copy)
      /\ \A f, expires : Offered(row', f, expires) <=> Offered(Copy, f, expires)
      /\ row'.charges = Copy.charges
  BY StoryStays DEF SameStory
<1>3. CASE scenario \in {"false_success", "evidence_outage"}
  BY <1>3 DEF Story
<1>4. CASE scenario = "persistent_resolution"
  <2>1. StoryOfPersistence(Copy)
    BY <1>4 DEF Story
  <2>2. StoryOfPersistence(row)'
    BY <1>2, <2>1 DEF StoryOfPersistence
  <2> QED BY <1>4, <2>2 DEF Story
<1>5. CASE scenario = "terminal_failure"
  <2>1. StoryOfFailure(Copy)
    BY <1>5 DEF Story
  <2>2. StoryOfFailure(row)'
    BY <1>2, <2>1 DEF StoryOfFailure
  <2> QED BY <1>5, <2>2 DEF Story
<1>6. CASE scenario = "recovery_loop"
  <2>1. StoryOfRecovery(Copy)
    BY <1>6 DEF Story
  <2>2. StoryOfRecovery(row)'
    BY <1>1, <1>2, <2>1 DEF StoryOfRecovery
  <2> QED BY <1>6, <2>2 DEF Story
<1>7. CASE scenario = "outcome_violation"
  <2>1. StoryOfCharge(Copy)
    BY <1>7 DEF Story
  <2>2. StoryOfCharge(row)'
    BY <1>1, <1>2, <2>1 DEF StoryOfCharge
  <2> QED BY <1>7, <2>2 DEF Story
<1> QED BY <1>3, <1>4, <1>5, <1>6, <1>7 DEF Story

\* What a look came to is stored.
LEMMA ConcludeKeeps ==
  ASSUME DemonstrationTypeOK, Underway, S!Conclude(Thread),
         UNCHANGED <<scenario, asked, script>>
  PROVE  DemonstrationTypeOK' /\ Underway'
<1>1. job[Thread].pc = "conclude" /\ S!Save(Thread, "conclude", "idle")
  BY DEF S!Conclude, S!Save
<1>2. LookingAt("conclude")
  BY <1>1 DEF Underway
<1>3. /\ row' = S!Saved(Copy) /\ job'[Thread] = S!NoJob
      /\ row' \in S!Record /\ job' \in [{Thread} -> S!Job]
      /\ now' = now /\ reads' = reads /\ followUpCalls' = followUpCalls
  BY <1>1, SaveEnds
<1>4. DemonstrationTypeOK'
  BY <1>3 DEF DemonstrationTypeOK
<1>5. Deadline' = Deadline /\ now \in Nat /\ Copy \in S!Record
  BY SameDeadline DEF DemonstrationTypeOK, Copy, S!Job
<1>6. CASE Resting(Copy, Deadline, now) /\ Story(Copy)
  <2>1. Resting(row, Deadline, now)'
    <3>1. Resting(S!Saved(Copy), Deadline, now)
      BY <1>5, <1>6, SavedRests
    <3> QED BY <1>3, <1>5, <3>1
  <2>2. SamePace(row', Copy) /\ SameStory(row', Copy)
    BY <1>3, <1>5, SavedKeeps
  <2>3. Story(row)'
    BY <1>3, <1>6, <2>2, StorySaved DEF SamePace
  <2>4. BetweenCalls'
    BY <1>3, <2>1, <2>3 DEF BetweenCalls
  <2> QED BY <1>3, <1>4, <2>4 DEF Underway, S!NoJob
<1>7. CASE Ended(Copy)
  <2>1. Final(row') /\ row'.state = Copy.state
    BY <1>3, <1>7, SavedIsFinal DEF Ended
  <2>2. Ended(row)'
    BY <1>7, <2>1 DEF Ended, Announced
  <2>3. BetweenCalls'
    BY <1>3, <2>2 DEF BetweenCalls
  <2> QED BY <1>3, <1>4, <2>3 DEF Underway, S!NoJob
<1> QED BY <1>2, <1>6, <1>7 DEF LookingAt

\* A call that changed a record which waits ends.
LEMMA FinishKeeps ==
  ASSUME DemonstrationTypeOK, Underway, S!Finish(Thread),
         UNCHANGED <<scenario, asked, script>>
  PROVE  DemonstrationTypeOK' /\ Underway'
<1>1. job[Thread].pc = "finish" /\ S!Save(Thread, "finish", "idle")
  BY DEF S!Finish, S!Save
<1>2. Resting(Copy, Deadline, now) /\ Story(Copy)
  BY <1>1 DEF Underway, BothResting
<1>3. /\ row' = S!Saved(Copy) /\ job'[Thread] = S!NoJob
      /\ row' \in S!Record /\ job' \in [{Thread} -> S!Job]
      /\ now' = now /\ reads' = reads /\ followUpCalls' = followUpCalls
  BY <1>1, SaveEnds
<1>4. DemonstrationTypeOK'
  BY <1>3 DEF DemonstrationTypeOK
<1>5. Deadline' = Deadline /\ now \in Nat /\ Copy \in S!Record
  BY SameDeadline DEF DemonstrationTypeOK, Copy, S!Job
<1>6. Resting(row, Deadline, now)'
  <2>1. Resting(S!Saved(Copy), Deadline, now)
    BY <1>2, <1>5, SavedRests
  <2> QED BY <1>3, <1>5, <2>1
<1>7. SamePace(row', Copy) /\ SameStory(row', Copy)
  BY <1>3, <1>5, SavedKeeps
<1>8. Story(row)'
  BY <1>2, <1>3, <1>7, StorySaved DEF SamePace
<1>9. BetweenCalls'
  BY <1>3, <1>6, <1>8 DEF BetweenCalls
<1> QED BY <1>3, <1>4, <1>9 DEF Underway, S!NoJob

\* The claim of a further look is stored.
LEMMA ClaimCheckKeeps ==
  ASSUME DemonstrationTypeOK, Underway, S!ClaimCheck(Thread),
         UNCHANGED <<scenario, asked, script>>
  PROVE  DemonstrationTypeOK' /\ Underway'
<1>1. job[Thread].pc = "claim_check" /\ S!Save(Thread, "claim_check", "read_back")
  BY DEF S!ClaimCheck, S!Save
<1>2. LookingAt("claim_check")
  BY <1>1 DEF Underway
<1>3. "read_back" \in S!Places
  BY DEF S!Places
<1>4. /\ row' = S!Saved(Copy) /\ Copy' = S!Saved(Copy)
      /\ job'[Thread] = [job[Thread] EXCEPT !.pc = "read_back", !.rec = S!Saved(Copy)]
      /\ row' \in S!Record /\ job' \in [{Thread} -> S!Job]
      /\ now' = now /\ reads' = reads /\ followUpCalls' = followUpCalls
  BY <1>1, <1>3, SaveWrites
<1>5. job[Thread] \in S!Job
  BY DEF DemonstrationTypeOK
<1>6. /\ job'[Thread].pc = "read_back" /\ job'[Thread].at = job[Thread].at
      /\ job'[Thread].eligible = job[Thread].eligible
  BY <1>4, <1>5 DEF S!Job
<1>7. DemonstrationTypeOK'
  BY <1>4 DEF DemonstrationTypeOK
<1>8. /\ Looking(Copy, Deadline, now) /\ LookStory(Copy)
      /\ job[Thread].eligible <=> Copy.checks = 4
      /\ job[Thread].at \in {S!Never, now}
  BY <1>2 DEF LookingAt
<1>9. Deadline' = Deadline /\ now \in Nat /\ Copy \in S!Record
  BY <1>8, SameDeadline DEF DemonstrationTypeOK, Looking, Claimed
<1>10. Looking(Copy, Deadline, now)'
  <2>1. Looking(S!Saved(Copy), Deadline, now)
    BY <1>8, <1>9, SavedLooks
  <2> QED BY <1>4, <1>9, <2>1
<1>11. SamePace(Copy', Copy) /\ SameStory(Copy', Copy)
  BY <1>4, <1>9, SavedKeeps
<1>12. /\ Copy'.checks = Copy.checks /\ Copy'.charges = Copy.charges
       /\ Uncharged(Copy') <=> Uncharged(Copy)
       /\ Quiet(Copy') <=> Quiet(Copy)
       /\ NoneExecuting(Copy') <=> NoneExecuting(Copy)
  BY <1>11, StoryStays DEF SamePace, SameStory
<1>13. /\ Recovered' <=> Recovered
       /\ NotCalled' <=> NotCalled
       /\ Untouched' <=> Untouched
  BY <1>4 DEF Recovered, NotCalled, Untouched
<1>14. FirstLook(Copy) => FirstLook(Copy)'
  BY <1>12, <1>13 DEF FirstLook
<1>15. NextLook(Copy) => NextLook(Copy)'
  BY <1>4, <1>9, <1>12, <1>13 DEF NextLook
<1>16. LookStory(Copy)'
  BY <1>8, <1>14, <1>15 DEF LookStory
<1>17. LookingAt("read_back")'
  BY <1>4, <1>6, <1>8, <1>10, <1>12, <1>16 DEF LookingAt
<1> QED BY <1>6, <1>7, <1>17 DEF Underway

(***************************************************************************)
(* The service carries out a follow-up                                     *)
(***************************************************************************)
\* What is proposed is one of the follow-ups.
LEMMA ProposedTyped == Proposed \in S!FollowUps
  BY DEF Proposed, S!FollowUps

\* A saved record that was being followed up is being followed up.
LEMMA FollowUpSaved ==
  ASSUME NEW time \in Nat, NEW rec, Resting(rec, Deadline, time)
  PROVE  Resting(S!Saved(rec), Deadline, time) /\ SamePace(S!Saved(rec), rec)
         /\ SameStory(S!Saved(rec), rec)
<1>1. rec \in S!Record
  BY DEF Resting, Claimed
<1> QED BY <1>1, SavedRests, SavedKeeps

\* The acceptance of a follow-up is stored.
LEMMA ClaimRecoveryKeeps ==
  ASSUME DemonstrationTypeOK, Underway, S!ClaimRecovery(Thread),
         UNCHANGED <<scenario, asked, script>>
  PROVE  DemonstrationTypeOK' /\ Underway'
<1>1. job[Thread].pc = "claim_recovery" /\ S!Save(Thread, "claim_recovery", "call_recovery")
  BY DEF S!ClaimRecovery, S!Save
<1>2. FollowingUp("claim_recovery")
  BY <1>1 DEF Underway
<1>3. "call_recovery" \in S!Places
  BY DEF S!Places
<1>4. /\ row' = S!Saved(Copy) /\ Copy' = S!Saved(Copy)
      /\ job'[Thread] = [job[Thread] EXCEPT !.pc = "call_recovery", !.rec = S!Saved(Copy)]
      /\ row' \in S!Record /\ job' \in [{Thread} -> S!Job]
      /\ now' = now /\ reads' = reads /\ followUpCalls' = followUpCalls
  BY <1>1, <1>3, SaveWrites
<1>5. job[Thread] \in S!Job /\ now \in Nat
  BY DEF DemonstrationTypeOK
<1>6. /\ job'[Thread].pc = "call_recovery" /\ job'[Thread].at = job[Thread].at
      /\ job'[Thread].item = job[Thread].item
  BY <1>4, <1>5 DEF S!Job
<1>7. DemonstrationTypeOK'
  BY <1>4 DEF DemonstrationTypeOK
<1>8. /\ job[Thread].at = now /\ job[Thread].item = Proposed
      /\ Resting(Copy, Deadline, now) /\ FollowUpStory(Copy)
  BY <1>2 DEF FollowingUp, BothResting
<1>9. Deadline' = Deadline /\ Proposed' = Proposed
  BY SameDeadline DEF Proposed
<1>10. /\ Resting(S!Saved(Copy), Deadline, now)
       /\ SamePace(Copy', Copy) /\ SameStory(Copy', Copy)
  BY <1>4, <1>5, <1>8, FollowUpSaved
<1>11. BothResting'
  BY <1>4, <1>9, <1>10 DEF BothResting, StepAside, SameVersion
<1>12. /\ Copy'.checks = Copy.checks /\ Copy'.charges = Copy.charges
       /\ Copy'.recovery = Copy.recovery /\ (Uncharged(Copy') <=> Uncharged(Copy))
  BY <1>10, StoryStays DEF SamePace, SameStory
<1>13. FollowUpStory(Copy)'
  <2>1. scenario' = scenario /\ script' = script /\ now' = now
    BY <1>4
  <2> QED BY <1>8, <1>9, <1>12, <2>1 DEF FollowUpStory
<1>14. FollowingUp("call_recovery")'
  BY <1>4, <1>6, <1>8, <1>9, <1>11, <1>13 DEF FollowingUp
<1> QED BY <1>6, <1>7, <1>14 DEF Underway

\* The simulated provider answers, and updates the account when a support
\* follow-up was asked for (execute_recovery).
LEMMA CallRecoveryKeeps ==
  ASSUME DemonstrationTypeOK, Underway, S!CallRecovery(Thread),
         job[Thread].pc = "call_recovery" => job'[Thread].succeeded,
         UNCHANGED <<scenario, asked, script>>
  PROVE  DemonstrationTypeOK' /\ Underway'
<1>1. job[Thread].pc = "call_recovery"
  BY DEF S!CallRecovery
<1>2. FollowingUp("call_recovery")
  BY <1>1 DEF Underway
<1>3. /\ job[Thread].at = now /\ job[Thread].item = Proposed
      /\ BothResting /\ FollowUpStory(Copy) /\ Copy = row
  BY <1>2 DEF FollowingUp
<1>4. PICK succeeded \in BOOLEAN :
         job' = [[job EXCEPT ![Thread].pc = "reload"] EXCEPT ![Thread].succeeded = succeeded]
  BY DEF S!CallRecovery
<1> DEFINE next == [job[Thread] EXCEPT !.pc = "reload", !.succeeded = succeeded]
<1>5. job \in [{Thread} -> S!Job] /\ job[Thread] \in S!Job
  BY DEF DemonstrationTypeOK
<1>6. job' = [job EXCEPT ![Thread] = next]
  BY <1>4, <1>5
<1>7. /\ next \in S!Job /\ next.pc = "reload" /\ next.at = job[Thread].at
      /\ next.item = job[Thread].item /\ next.rec = job[Thread].rec
  BY <1>5 DEF S!Job, S!Places
<1> HIDE DEF next
<1>8. job'[Thread] = next /\ job' \in [{Thread} -> S!Job]
  BY <1>5, <1>6, <1>7
<1>9. Copy' = Copy
  BY <1>7, <1>8 DEF Copy
<1>10. /\ row' = row /\ now' = now /\ reads' = reads
       /\ followUpCalls' = [followUpCalls EXCEPT ![Proposed] = @ + 1]
  BY <1>3 DEF S!CallRecovery
<1>11. followUpCalls \in [S!FollowUps -> Nat]
  BY DEF DemonstrationTypeOK
<1>12. followUpCalls' \in [S!FollowUps -> Nat] /\ followUpCalls'[Proposed] > 0
  <2> DEFINE n == followUpCalls[Proposed] + 1
  <2>1. n \in Nat /\ n > 0
    BY <1>11, ProposedTyped
  <2>2. followUpCalls' = [followUpCalls EXCEPT ![Proposed] = n]
    BY <1>10
  <2> HIDE DEF n
  <2> QED BY <1>11, <2>1, <2>2, ProposedTyped
<1>13. DemonstrationTypeOK'
  BY <1>8, <1>10, <1>12 DEF DemonstrationTypeOK
<1>14. Deadline' = Deadline /\ Proposed' = Proposed
  BY SameDeadline DEF Proposed
<1>15. scenario = "recovery_loop" => Recovered'
  BY <1>12 DEF Proposed, Recovered
<1>16. BothResting' /\ FollowUpStory(Copy)'
  BY <1>3, <1>9, <1>10, <1>14 DEF BothResting, StepAside, SameVersion, FollowUpStory
<1>17. FollowingUp("reload")'
  BY <1>1, <1>3, <1>7, <1>8, <1>9, <1>10, <1>14, <1>15, <1>16 DEF FollowingUp
<1> QED BY <1>7, <1>8, <1>13, <1>17 DEF Underway

\* Its result is put down in the record that is loaded again
\* (confirm_recovery_action).
LEMMA ReloadRecoveryKeeps ==
  ASSUME DemonstrationTypeOK, Underway, S!ReloadRecovery(Thread),
         UNCHANGED <<scenario, asked, script>>
  PROVE  DemonstrationTypeOK' /\ Underway'
<1>1. job[Thread].pc = "reload"
  BY DEF S!ReloadRecovery
<1>2. FollowingUp("reload")
  BY <1>1 DEF Underway
<1>3. /\ job[Thread].at = now /\ job[Thread].item = Proposed
      /\ BothResting /\ FollowUpStory(Copy) /\ Copy = row /\ job[Thread].succeeded
      /\ scenario = "recovery_loop" => Recovered
  BY <1>2 DEF FollowingUp
<1>4. Resting(row, Deadline, now) /\ now \in Nat /\ Deadline \in Nat
  BY <1>3, DeadlineFar DEF BothResting, DemonstrationTypeOK
<1>5. S!Loadable
  <2>1. S!Decodes(row) /\ row.state # "REQUESTED"
    BY <1>4, RestingDecodes DEF Resting
  <2> QED BY <2>1 DEF S!Loadable
<1> DEFINE result == IF S!IsRefund(job[Thread].rec, Proposed) THEN "COMPLETED" ELSE "VERIFYING"
           after  == S!SetFollowUp(row, Proposed, result, now)
           next   == [job[Thread] EXCEPT !.pc = "finish", !.rec = after]
<1>6. /\ job \in [{Thread} -> S!Job] /\ job[Thread] \in S!Job
  BY DEF DemonstrationTypeOK
<1>7. job' = [[job EXCEPT ![Thread].pc = "finish"] EXCEPT ![Thread].rec = after]
  BY <1>3, <1>5 DEF S!ReloadRecovery
<1>8. result \in S!FollowUpStates /\ result # "EXECUTING"
  BY DEF S!FollowUpStates
<1> HIDE DEF result
<1>9. Resting(after, Deadline, now) /\ FollowUpMoved(after, row, Proposed, result)
  BY <1>4, <1>8, ProposedTyped, FollowUpMoves
<1> HIDE DEF after
<1>10. after \in S!Record
  BY <1>9 DEF Resting, Claimed
<1>11. job' = [job EXCEPT ![Thread] = next]
  BY <1>6, <1>7
<1>12. next \in S!Job /\ next.pc = "finish" /\ next.rec = after
  BY <1>6, <1>10 DEF S!Job, S!Places, S!SavePoints
<1> HIDE DEF next
<1>13. job'[Thread] = next /\ job' \in [{Thread} -> S!Job]
  BY <1>6, <1>11, <1>12
<1>14. Copy' = after
  BY <1>12, <1>13 DEF Copy
<1>15. row' = row /\ now' = now /\ reads' = reads /\ followUpCalls' = followUpCalls
  BY DEF S!ReloadRecovery
<1>16. DemonstrationTypeOK'
  BY <1>13, <1>15 DEF DemonstrationTypeOK
<1>17. Deadline' = Deadline /\ (Recovered' <=> Recovered)
  BY <1>15, SameDeadline DEF Recovered
<1>18. BothResting'
  BY <1>4, <1>9, <1>14, <1>15, <1>17
     DEF BothResting, StepAside, SameVersion, SamePace, FollowUpMoved
<1>19. NoneExecuting(after)
  BY <1>3, <1>8, <1>9 DEF NoneExecuting, FollowUpStory, FollowUpMoved
<1>20. after.checks = row.checks /\ (Uncharged(after) <=> Uncharged(row))
  BY <1>9 DEF SamePace, Uncharged, FollowUpMoved
<1>21. Story(Copy)'
  <2>1. CASE scenario = "recovery_loop"
    <3>1. StoryOfRecovery(Copy)'
      BY <1>3, <1>14, <1>17, <1>19, <1>20, <2>1 DEF StoryOfRecovery, FollowUpStory
    <3> QED BY <2>1, <3>1 DEF Story
  <2>2. CASE scenario = "outcome_violation"
    <3>1. StoryOfCharge(Copy)'
      BY <1>3, <1>9, <1>14, <1>15, <1>17, <1>19, <1>20, <2>2
         DEF StoryOfCharge, FollowUpStory, FollowUpMoved
    <3> QED BY <2>2, <3>1 DEF Story
  <2> QED BY <1>3, <2>1, <2>2 DEF FollowUpStory
<1> QED BY <1>12, <1>13, <1>16, <1>18, <1>21 DEF Underway

(***************************************************************************)
(* What the thread does next                                               *)
(***************************************************************************)
\* The first step of what is left of a script, and what is left after it.
LEMMA Heads ==
  /\ LET s == <<"look">> IN s # <<>> /\ Head(s) = "look" /\ Tail(s) = <<>>
  /\ LET s == <<"due", "look">> IN s # <<>> /\ Head(s) = "due" /\ Tail(s) = <<"look">>
  /\ LET s == <<"follow_up", "due", "look">> IN
     s # <<>> /\ Head(s) = "follow_up" /\ Tail(s) = <<"due", "look">>
  /\ LET s == <<"soon", "follow_up", "due", "look">> IN
     s # <<>> /\ Head(s) = "soon" /\ Tail(s) = <<"follow_up", "due", "look">>
  /\ LET s == <<"later", "follow_up", "due", "look">> IN
     s # <<>> /\ Head(s) = "later" /\ Tail(s) = <<"follow_up", "due", "look">>
  /\ LET s == <<"forced_look", "soon", "follow_up", "due", "look">> IN
     s # <<>> /\ Head(s) = "forced_look" /\ Tail(s) = <<"soon", "follow_up", "due", "look">>
  /\ LET s == <<"report_charge", "later", "follow_up", "due", "look">> IN
     s # <<>> /\ Head(s) = "report_charge" /\ Tail(s) = <<"later", "follow_up", "due", "look">>
  /\ LET s == Rest("recovery_loop") IN
     s # <<>> /\ Head(s) = "before_deadline"
     /\ Tail(s) = <<"forced_look", "soon", "follow_up", "due", "look">>
  /\ LET s == Rest("outcome_violation") IN
     s # <<>> /\ Head(s) = "after_deadline"
     /\ Tail(s) = <<"report_charge", "later", "follow_up", "due", "look">>
  BY DEF Rest

\* A look that is due, in four of the journeys (PublicDemoRunner.run).
LEMMA LookAwaited ==
  ASSUME Story(row), script # <<>>, Head(script) = "look"
  PROVE  /\ Tail(script) = <<>> /\ now >= row.nextCheck
         /\ NoneExecuting(row)
         /\ \/ /\ scenario = "persistent_resolution" /\ row.checks = 1 /\ reads # 0
               /\ Uncharged(row)
            \/ scenario = "terminal_failure" /\ Uncharged(row)
            \/ scenario = "recovery_loop" /\ row.checks = 2 /\ Uncharged(row) /\ Recovered
            \/ /\ scenario = "outcome_violation" /\ row.checks = 1
               /\ row.charges = <<Renewed(Deadline)>>
               /\ now \in Deadline + 3 * Minute .. Deadline + 8 * Minute
<1>1. CASE scenario = "persistent_resolution"
  BY <1>1, Heads DEF Story, StoryOfPersistence
<1>2. CASE scenario = "terminal_failure"
  BY <1>2, Heads DEF Story, StoryOfFailure
<1>3. CASE scenario = "recovery_loop"
  BY <1>3, Heads DEF Story, StoryOfRecovery
<1>4. CASE scenario = "outcome_violation"
  BY <1>4, Heads DEF Story, StoryOfCharge
<1> QED BY <1>1, <1>2, <1>3, <1>4 DEF Story

\* A look ahead of its time, a few hours before the deadline.
LEMMA ForcedLookAwaited ==
  ASSUME Story(row), script # <<>>, Head(script) = "forced_look"
  PROVE  /\ scenario = "recovery_loop" /\ row.checks = 1 /\ Quiet(row) /\ NotCalled
         /\ now = Deadline - 5 * Hour
         /\ Tail(script) = <<"soon", "follow_up", "due", "look">>
<1>1. CASE scenario = "persistent_resolution"
  BY <1>1, Heads DEF Story, StoryOfPersistence
<1>2. CASE scenario = "terminal_failure"
  BY <1>2, Heads DEF Story, StoryOfFailure
<1>3. CASE scenario = "recovery_loop"
  BY <1>3, Heads DEF Story, StoryOfRecovery
<1>4. CASE scenario = "outcome_violation"
  BY <1>4, Heads DEF Story, StoryOfCharge
<1> QED BY <1>1, <1>2, <1>3, <1>4 DEF Story

\* The report of the renewal charge, right after the deadline.
LEMMA ReportAwaited ==
  ASSUME Story(row), script # <<>>, Head(script) = "report_charge"
  PROVE  /\ scenario = "outcome_violation" /\ row.checks = 1 /\ Quiet(row)
         /\ now = Deadline + 2 * Minute
         /\ Tail(script) = <<"later", "follow_up", "due", "look">>
<1>1. CASE scenario = "persistent_resolution"
  BY <1>1, Heads DEF Story, StoryOfPersistence
<1>2. CASE scenario = "terminal_failure"
  BY <1>2, Heads DEF Story, StoryOfFailure
<1>3. CASE scenario = "recovery_loop"
  BY <1>3, Heads DEF Story, StoryOfRecovery
<1>4. CASE scenario = "outcome_violation"
  BY <1>4, Heads DEF Story, StoryOfCharge
<1> QED BY <1>1, <1>2, <1>3, <1>4 DEF Story

\* When the follow-up that is proposed expires.
Expiry == IF scenario = "recovery_loop" THEN Deadline - 5 * Hour + 5 * Minute
          ELSE Deadline + 7 * Minute

\* The customer's consent to the follow-up that is proposed, in good time.
LEMMA FollowUpAwaited ==
  ASSUME Deadline \in Nat, Story(row), script # <<>>, Head(script) = "follow_up"
  PROVE  /\ Offered(row, Proposed, Expiry) /\ now < Expiry
         /\ Tail(script) = <<"due", "look">>
         /\ \/ scenario = "recovery_loop" /\ row.checks = 2 /\ Uncharged(row)
            \/ /\ scenario = "outcome_violation" /\ row.checks = 1
               /\ row.charges = <<Renewed(Deadline)>> /\ now = Deadline + 3 * Minute
<1>1. CASE scenario = "persistent_resolution"
  BY <1>1, Heads DEF Story, StoryOfPersistence
<1>2. CASE scenario = "terminal_failure"
  BY <1>2, Heads DEF Story, StoryOfFailure
<1>3. CASE scenario = "recovery_loop"
  <2>1. /\ row.checks = 2 /\ Uncharged(row)
        /\ Offered(row, "deadline_approaching", Deadline - 5 * Hour + 5 * Minute)
        /\ script = <<"follow_up", "due", "look">> /\ now = Deadline - 5 * Hour + 1
    BY <1>3, Heads DEF Story, StoryOfRecovery
  <2>2. Expiry = Deadline - 5 * Hour + 5 * Minute /\ Proposed = "deadline_approaching"
    BY <1>3 DEF Expiry, Proposed
  <2>3. now < Expiry
    BY <2>1, <2>2 DEF Minute, Hour
  <2> QED BY <1>3, <2>1, <2>2, <2>3, Heads
<1>4. CASE scenario = "outcome_violation"
  <2>1. /\ row.checks = 1 /\ row.charges = <<Renewed(Deadline)>>
        /\ Offered(row, "outcome_violation", Deadline + 7 * Minute)
        /\ script = <<"follow_up", "due", "look">> /\ now = Deadline + 3 * Minute
    BY <1>4, Heads DEF Story, StoryOfCharge
  <2>2. Expiry = Deadline + 7 * Minute /\ Proposed = "outcome_violation"
    BY <1>4 DEF Expiry, Proposed
  <2>3. now < Expiry
    BY <2>1, <2>2 DEF Minute
  <2> QED BY <1>4, <2>1, <2>2, <2>3, Heads
<1> QED BY <1>1, <1>2, <1>3, <1>4 DEF Story

\* The time of the next check.
LEMMA DueAwaited ==
  ASSUME Story(row), script # <<>>, Head(script) = "due"
  PROVE  /\ Tail(script) = <<"look">> /\ NoneExecuting(row)
         /\ \/ /\ scenario = "persistent_resolution" /\ row.checks = 1 /\ reads # 0
               /\ Uncharged(row)
            \/ scenario = "terminal_failure" /\ Uncharged(row)
            \/ scenario = "recovery_loop" /\ row.checks = 2 /\ Uncharged(row) /\ Recovered
            \/ /\ scenario = "outcome_violation" /\ row.checks = 1
               /\ row.charges = <<Renewed(Deadline)>> /\ now = Deadline + 3 * Minute
<1>1. CASE scenario = "persistent_resolution"
  BY <1>1, Heads DEF Story, StoryOfPersistence
<1>2. CASE scenario = "terminal_failure"
  BY <1>2, Heads DEF Story, StoryOfFailure
<1>3. CASE scenario = "recovery_loop"
  BY <1>3, Heads DEF Story, StoryOfRecovery
<1>4. CASE scenario = "outcome_violation"
  BY <1>4, Heads DEF Story, StoryOfCharge
<1> QED BY <1>1, <1>2, <1>3, <1>4 DEF Story

\* The other times the two longer journeys pass to the service.
LEMMA TimeAwaited ==
  ASSUME Story(row), script # <<>>
  PROVE  /\ Head(script) = "before_deadline" =>
              /\ scenario = "recovery_loop" /\ row.checks = 1 /\ Quiet(row) /\ NotCalled
              /\ now = 0 /\ Tail(script) = <<"forced_look", "soon", "follow_up", "due", "look">>
         /\ Head(script) = "soon" =>
              /\ scenario = "recovery_loop" /\ row.checks = 2 /\ Uncharged(row)
              /\ Offered(row, "deadline_approaching", Deadline - 5 * Hour + 5 * Minute)
              /\ now = Deadline - 5 * Hour /\ Tail(script) = <<"follow_up", "due", "look">>
         /\ Head(script) = "after_deadline" =>
              /\ scenario = "outcome_violation" /\ row.checks = 1 /\ Quiet(row)
              /\ now = 0 /\ Tail(script) = <<"report_charge", "later", "follow_up", "due", "look">>
         /\ Head(script) = "later" =>
              /\ scenario = "outcome_violation" /\ row.checks = 1
              /\ row.charges = <<Renewed(Deadline)>>
              /\ Offered(row, "outcome_violation", Deadline + 7 * Minute)
              /\ now = Deadline + 2 * Minute /\ Tail(script) = <<"follow_up", "due", "look">>
<1>1. CASE scenario = "persistent_resolution"
  BY <1>1, Heads DEF Story, StoryOfPersistence
<1>2. CASE scenario = "terminal_failure"
  BY <1>2, Heads DEF Story, StoryOfFailure
<1>3. CASE scenario = "recovery_loop"
  BY <1>3, Heads DEF Story, StoryOfRecovery
<1>4. CASE scenario = "outcome_violation"
  BY <1>4, Heads DEF Story, StoryOfCharge
<1> QED BY <1>1, <1>2, <1>3, <1>4 DEF Story

\* Nothing else comes next while the outcome is awaited.
LEMMA StepAwaited ==
  ASSUME Story(row), script # <<>>
  PROVE  Head(script) \in Times \cup {"look", "forced_look", "report_charge", "follow_up"}
<1>1. CASE scenario = "persistent_resolution"
  BY <1>1, Heads DEF Story, StoryOfPersistence, Times
<1>2. CASE scenario = "terminal_failure"
  BY <1>2, Heads DEF Story, StoryOfFailure, Times
<1>3. CASE scenario = "recovery_loop"
  BY <1>3, Heads DEF Story, StoryOfRecovery, Times
<1>4. CASE scenario = "outcome_violation"
  BY <1>4, Heads DEF Story, StoryOfCharge, Times
<1> QED BY <1>1, <1>2, <1>3, <1>4 DEF Story

(***************************************************************************)
(* The thread makes its calls                                              *)
(***************************************************************************)
\* Where the record stands when a call comes next (PublicDemoRunner.run).
LEMMA CallAwaited ==
  ASSUME DemonstrationTypeOK, Underway, Between, script # <<>>
  PROVE  /\ job[Thread] = S!NoJob
         /\ \/ /\ Head(script) = "start" /\ Untouched /\ row = S!Unborn
               /\ Tail(script) = <<"confirm">> \o Rest(scenario)
            \/ /\ Head(script) = "confirm" /\ Untouched /\ row = Born(Deadline)
               /\ Tail(script) = Rest(scenario)
            \/ /\ Head(script) \in Times \cup {"look", "forced_look", "report_charge", "follow_up"}
               /\ Resting(row, Deadline, now) /\ Story(row)
<1>1. BetweenCalls
  BY DEF Underway, Between
<1>2. job[Thread] = S!NoJob
  BY <1>1 DEF BetweenCalls
<1>3. scenario \in Scenarios
  BY DEF DemonstrationTypeOK
<1>4. CASE script = Script[scenario] /\ Untouched /\ row = S!Unborn
  BY <1>2, <1>3, <1>4, ScriptBegins
<1>5. CASE script = <<"confirm">> \o Rest(scenario) /\ Untouched /\ row = Born(Deadline)
  BY <1>2, <1>3, <1>5, ScriptBegins
<1>6. CASE Resting(row, Deadline, now) /\ Story(row)
  BY <1>2, <1>6, StepAwaited
<1>7. CASE Ended(row)
  BY <1>7 DEF Ended
<1> QED BY <1>1, <1>4, <1>5, <1>6, <1>7 DEF BetweenCalls

\* The resolution is started (start_resolution).
LEMMA StartKeeps ==
  ASSUME DemonstrationTypeOK, Underway, Start
  PROVE  DemonstrationTypeOK' /\ Underway'
<1>1. /\ Between /\ script # <<>> /\ Head(script) = "start"
      /\ script' = Tail(script) /\ UNCHANGED <<scenario, asked>>
  BY DEF Start, Call, AtStep
<1>2. /\ job[Thread] = S!NoJob /\ Untouched /\ script' = <<"confirm">> \o Rest(scenario)
  BY <1>1, CallAwaited DEF Times
<1>3. UNCHANGED <<job, now, reads, followUpCalls>>
  BY DEF Start, S!Start
<1>4. PICK contract \in {Contract(moment) : moment \in Moments} :
        row' = S!Transition([S!Unborn EXCEPT !.deadline = contract.deadline,
                                             !.tracksCharges = contract.tracksCharges],
                            "AWAITING_CONFIRMATION", now)
  BY DEF Start, S!Start
<1>5. contract.tracksCharges = TRUE /\ contract.deadline \in Nat
  BY DeadlineIsAWeekAway
<1>6. row' = Born(contract.deadline)
  BY <1>2, <1>4, <1>5 DEF Born, Untouched
<1> DEFINE end == contract.deadline
<1>7. row'.deadline = end
  <2> DEFINE born == [S!Unborn EXCEPT !.deadline = end, !.tracksCharges = TRUE]
  <2>1. born.deadline = end /\ DOMAIN born = DOMAIN S!Unborn
    BY DEF S!Unborn
  <2>2. row' = S!Transition(born, "AWAITING_CONFIRMATION", 0)
    BY <1>6 DEF Born
  <2> HIDE DEF born
  <2> QED BY <2>1, <2>2 DEF S!Transition, S!Unborn
<1>8. row'.deadline = Deadline
  BY DEF Start, Deadline
<1>9. Deadline' = Deadline
  BY <1>1, SameDeadline
<1>10. row' = Born(Deadline') /\ row' \in S!Record
  BY <1>5, <1>6, <1>7, <1>8, <1>9, BornDecodes
<1>11. DemonstrationTypeOK'
  BY <1>1, <1>3, <1>10 DEF DemonstrationTypeOK
<1>12. Untouched'
  BY <1>2, <1>3 DEF Untouched, NotCalled
<1>13. BetweenCalls'
  BY <1>1, <1>2, <1>3, <1>10, <1>12 DEF BetweenCalls
<1>14. job'[Thread].pc = "idle"
  BY <1>2, <1>3 DEF S!NoJob
<1> QED BY <1>11, <1>13, <1>14 DEF Underway

\* A call begins with a copy of its own.
LEMMA CallBegins ==
  ASSUME DemonstrationTypeOK, NEW next \in S!Job, job' = [job EXCEPT ![Thread] = next]
  PROVE  job' \in [{Thread} -> S!Job] /\ job'[Thread] = next /\ Copy' = next.rec
<1>1. job \in [{Thread} -> S!Job]
  BY DEF DemonstrationTypeOK
<1> QED BY <1>1 DEF Copy

\* The customer confirms (confirm_resolution_action).
LEMMA ConfirmKeeps ==
  ASSUME DemonstrationTypeOK, Underway, Confirm
  PROVE  DemonstrationTypeOK' /\ Underway'
<1>1. /\ Between /\ script # <<>> /\ Head(script) = "confirm"
      /\ script' = Tail(script) /\ UNCHANGED <<scenario, asked>>
  BY DEF Confirm, Call, AtStep
<1>2. Untouched /\ row = Born(Deadline) /\ script' = Rest(scenario)
  BY <1>1, CallAwaited DEF Times
<1>3. UNCHANGED <<row, now, reads, followUpCalls>>
  BY DEF Confirm, S!LoadConfirm
<1> DEFINE agreed == Agreed(Deadline)
           next   == [S!NoJob EXCEPT !.pc = "claim_execution", !.rec = agreed, !.at = S!Never]
<1>4. agreed = S!Transition([row EXCEPT !.attested = TRUE], "EXECUTING", now)
  BY <1>2 DEF Agreed, Untouched
<1>5. agreed \in S!Record
  BY DeadlineFar, AgreedIsValid
<1> HIDE DEF agreed
<1>6. job' = [job EXCEPT ![Thread] = next]
  BY <1>4 DEF Confirm, S!LoadConfirm, S!Begin
<1>7. /\ next \in S!Job /\ next.pc = "claim_execution" /\ next.rec = agreed
      /\ next.at = S!Never /\ next.eligible = FALSE
  <2>1. S!NoJob \in S!Job /\ S!Never \in Int
    BY ValuesTyped
  <2>2. "claim_execution" \in S!Places
    BY DEF S!Places, S!SavePoints
  <2> QED BY <1>5, <2>1, <2>2 DEF S!Job, S!NoJob
<1> HIDE DEF next
<1>8. job' \in [{Thread} -> S!Job] /\ job'[Thread] = next /\ Copy' = agreed
  BY <1>6, <1>7, CallBegins
<1>9. Deadline' = Deadline
  BY <1>1, SameDeadline
<1>10. row' = Born(Deadline') /\ Copy' = Agreed(Deadline')
  BY <1>2, <1>3, <1>8, <1>9 DEF agreed
<1>11. DemonstrationTypeOK'
  BY <1>1, <1>3, <1>8 DEF DemonstrationTypeOK
<1>12. Untouched'
  BY <1>2, <1>3 DEF Untouched, NotCalled
<1>13. Confirming("claim_execution")'
  BY <1>1, <1>2, <1>7, <1>8, <1>10, <1>12 DEF Confirming
<1> QED BY <1>7, <1>8, <1>11, <1>13 DEF Underway

\* A look at the account begins (recheck_resolution).
LEMMA LookKeeps ==
  ASSUME DemonstrationTypeOK, Underway, Look
  PROVE  DemonstrationTypeOK' /\ Underway'
<1>1. /\ Between /\ script # <<>> /\ Head(script) \in {"look", "forced_look"}
      /\ script' = Tail(script) /\ UNCHANGED <<scenario, asked>>
  BY DEF Look, Call, AtStep
<1>2. Resting(row, Deadline, now) /\ Story(row)
  BY <1>1, CallAwaited
<1>3. UNCHANGED <<row, now, reads, followUpCalls>>
  BY DEF Look, S!LoadRecheck
<1>4. now \in Nat /\ Deadline \in Nat
  BY DeadlineFar DEF DemonstrationTypeOK
<1> DEFINE again == Again(row, now)
           close == S!MayCloseWindow
           next  == [S!NoJob EXCEPT !.pc = "claim_check", !.at = now, !.eligible = close,
                                    !.rec = again]
<1>5. row.state = "AWAITING_PROOF" /\ row.checks \in 1..3
  BY <1>2 DEF Resting
<1>6. /\ Looking(again, Deadline, now) /\ again.checks = row.checks + 1
      /\ again.version = row.version /\ again.moves = row.moves + 1
      /\ SameStory(again, row)
  BY <1>2, <1>4, LookBegins
<1>7. again \in S!Record
  BY <1>6 DEF Looking, Claimed
<1>8. job' = [job EXCEPT ![Thread] = next]
  BY <1>5 DEF Look, S!LoadRecheck, Again
<1>9. close <=> row.checks = 3 /\ now >= row.nextCheck
  <2>1. row.movedAt \in Nat /\ row.nextCheck = row.movedAt + 5 * Minute * row.checks
    BY <1>2 DEF Resting, Claimed
  <2>2. row.nextCheck # S!Never
    BY <1>5, <2>1 DEF S!Never, Minute
  <2> QED BY <1>5, <2>2 DEF S!MayCloseWindow
<1>10. close \in BOOLEAN
  BY DEF S!MayCloseWindow
<1> HIDE DEF again, close
<1>11. /\ next \in S!Job /\ next.pc = "claim_check" /\ next.rec = again
       /\ next.at = now /\ next.eligible = close
  <2>1. S!NoJob \in S!Job /\ now \in Int
    BY <1>4, ValuesTyped
  <2>2. "claim_check" \in S!Places
    BY DEF S!Places, S!SavePoints
  <2> QED BY <1>7, <1>10, <2>1, <2>2 DEF S!Job, S!NoJob
<1> HIDE DEF next
<1>12. job' \in [{Thread} -> S!Job] /\ job'[Thread] = next /\ Copy' = again
  BY <1>8, <1>11, CallBegins
<1>13. Deadline' = Deadline
  BY <1>1, SameDeadline
<1>14. DemonstrationTypeOK'
  BY <1>1, <1>3, <1>12 DEF DemonstrationTypeOK
<1>15. /\ again.charges = row.charges
       /\ Uncharged(again) <=> Uncharged(row)
       /\ Quiet(again) <=> Quiet(row)
       /\ NoneExecuting(again) <=> NoneExecuting(row)
  BY <1>6, StoryStays DEF SameStory
<1>16. close <=> again.checks = 4
  <2>1. CASE Head(script) = "look"
    <3>1. now >= row.nextCheck
      BY <1>1, <1>2, <2>1, LookAwaited
    <3> QED BY <1>5, <1>6, <1>9, <3>1
  <2>2. CASE Head(script) = "forced_look"
    <3>1. row.checks = 1
      BY <1>1, <1>2, <2>2, ForcedLookAwaited
    <3> QED BY <1>6, <1>9, <3>1
  <2> QED BY <1>1, <2>1, <2>2
<1>17. NextLook(Copy)'
  <2>1. /\ scenario' = scenario /\ now' = now /\ reads' = reads /\ (Recovered' <=> Recovered)
        /\ (NotCalled' <=> NotCalled)
    BY <1>1, <1>3 DEF Recovered, NotCalled
  <2>2. CASE Head(script) = "forced_look"
    <3>1. /\ scenario = "recovery_loop" /\ row.checks = 1 /\ Quiet(row) /\ NotCalled
          /\ now = Deadline - 5 * Hour /\ Tail(script) = <<"soon", "follow_up", "due", "look">>
      BY <1>1, <1>2, <2>2, ForcedLookAwaited
    <3>2. again.checks = 2 /\ Quiet(again)
      BY <1>6, <1>15, <3>1
    <3> QED BY <1>1, <1>12, <1>13, <2>1, <3>1, <3>2 DEF NextLook
  <2>3. CASE Head(script) = "look"
    <3>1. /\ script' = <<>> /\ NoneExecuting(again)
          /\ \/ /\ scenario = "persistent_resolution" /\ row.checks = 1 /\ reads # 0
                /\ Uncharged(row)
             \/ scenario = "terminal_failure" /\ Uncharged(row)
             \/ scenario = "recovery_loop" /\ row.checks = 2 /\ Uncharged(row) /\ Recovered
             \/ /\ scenario = "outcome_violation" /\ row.checks = 1
                /\ row.charges = <<Renewed(Deadline)>>
                /\ now \in Deadline + 3 * Minute .. Deadline + 8 * Minute
      BY <1>1, <1>2, <1>15, <2>3, LookAwaited
    <3>2. CASE scenario = "persistent_resolution"
      <4>1. again.checks = 2 /\ Uncharged(again) /\ reads # 0
        BY <1>6, <1>15, <3>1, <3>2
      <4> QED BY <1>12, <2>1, <3>1, <3>2, <4>1 DEF NextLook
    <3>3. CASE scenario = "terminal_failure"
      <4>1. Uncharged(again) /\ NoneExecuting(again)
        BY <1>15, <3>1, <3>3
      <4> QED BY <1>12, <2>1, <3>1, <3>3, <4>1 DEF NextLook
    <3>4. CASE scenario = "recovery_loop"
      <4>1. again.checks = 3 /\ Uncharged(again) /\ Recovered
        BY <1>6, <1>15, <3>1, <3>4
      <4> QED BY <1>12, <2>1, <3>1, <3>4, <4>1 DEF NextLook
    <3>5. CASE scenario = "outcome_violation"
      <4>1. /\ again.checks = 2 /\ again.charges = <<Renewed(Deadline)>>
            /\ now \in Deadline + 3 * Minute .. Deadline + 8 * Minute
        BY <1>6, <1>15, <3>1, <3>5
      <4> QED BY <1>12, <1>13, <2>1, <3>1, <3>5, <4>1 DEF NextLook
    <3> QED BY <3>1, <3>2, <3>3, <3>4, <3>5
  <2> QED BY <1>1, <2>2, <2>3
<1>18. (job[Thread].eligible <=> Copy.checks = 4)'
  BY <1>11, <1>12, <1>16
<1>19. (Looking(Copy, Deadline, now) /\ Resting(row, Deadline, now) /\ OneStepOn)'
  BY <1>2, <1>3, <1>6, <1>12, <1>13 DEF OneStepOn, SameVersion
<1>20. LookingAt("claim_check")'
  BY <1>3, <1>11, <1>12, <1>17, <1>18, <1>19 DEF LookingAt, LookStory
<1> QED BY <1>11, <1>12, <1>14, <1>20 DEF Underway

\* The customer consents to the follow-up that was proposed
\* (confirm_recovery_action).
LEMMA FollowUpKeeps ==
  ASSUME DemonstrationTypeOK, Underway, FollowUp
  PROVE  DemonstrationTypeOK' /\ Underway'
<1>1. /\ Between /\ script # <<>> /\ Head(script) = "follow_up"
      /\ script' = Tail(script) /\ UNCHANGED <<scenario, asked>>
  BY DEF FollowUp, Call, AtStep
<1>2. Resting(row, Deadline, now) /\ Story(row)
  BY <1>1, CallAwaited DEF Times
<1>3. now \in Nat /\ Deadline \in Nat
  BY DeadlineFar DEF DemonstrationTypeOK
<1>4. /\ Offered(row, Proposed, Expiry)
      /\ script' = <<"due", "look">>
      /\ \/ scenario = "recovery_loop" /\ row.checks = 2 /\ Uncharged(row)
         \/ /\ scenario = "outcome_violation" /\ row.checks = 1
            /\ row.charges = <<Renewed(Deadline)>> /\ now = Deadline + 3 * Minute
  BY <1>1, <1>2, <1>3, FollowUpAwaited
<1>5. PICK f \in S!FollowUps, at \in S!RecentTimes :
        /\ S!LoadRecovery(Thread, f, at)
        /\ job' = [job EXCEPT ![Thread] =
                     [S!NoJob EXCEPT !.pc = "claim_recovery", !.at = at, !.item = f,
                                     !.rec = S!SetFollowUp(row, f, "EXECUTING", at)]]
  BY DEF FollowUp, S!AcceptRecovery
<1>6. f = Proposed
  BY <1>4, <1>5 DEF Offered, S!LoadRecovery
<1>7. at = now
  BY <1>3 DEF S!RecentTimes
<1>8. UNCHANGED <<row, now, reads, followUpCalls>>
  BY <1>5 DEF S!LoadRecovery
<1> DEFINE after == S!SetFollowUp(row, Proposed, "EXECUTING", now)
           next  == [S!NoJob EXCEPT !.pc = "claim_recovery", !.at = now, !.item = Proposed,
                                    !.rec = after]
<1>9. Resting(after, Deadline, now) /\ FollowUpMoved(after, row, Proposed, "EXECUTING")
  <2>1. "EXECUTING" \in S!FollowUpStates
    BY DEF S!FollowUpStates
  <2> QED BY <1>2, <1>3, <2>1, ProposedTyped, FollowUpMoves
<1>10. after \in S!Record
  BY <1>9 DEF Resting, Claimed
<1>11. job' = [job EXCEPT ![Thread] = next]
  BY <1>5, <1>6, <1>7
<1> HIDE DEF after
<1>12. /\ next \in S!Job /\ next.pc = "claim_recovery" /\ next.rec = after
       /\ next.at = now /\ next.item = Proposed
  <2>1. S!NoJob \in S!Job /\ now \in Int
    BY <1>3, ValuesTyped
  <2>2. "claim_recovery" \in S!Places
    BY DEF S!Places, S!SavePoints
  <2> QED BY <1>10, <2>1, <2>2, ProposedTyped DEF S!Job, S!NoJob
<1> HIDE DEF next
<1>13. job' \in [{Thread} -> S!Job] /\ job'[Thread] = next /\ Copy' = after
  BY <1>11, <1>12, CallBegins
<1>14. Deadline' = Deadline /\ Proposed' = Proposed
  BY <1>1, SameDeadline DEF Proposed
<1>15. DemonstrationTypeOK'
  BY <1>1, <1>8, <1>13 DEF DemonstrationTypeOK
<1>16. BothResting'
  BY <1>2, <1>8, <1>9, <1>13, <1>14
     DEF BothResting, StepAside, SameVersion, SamePace, FollowUpMoved
<1>17. /\ after.recovery[Proposed].state = "EXECUTING"
       /\ \A g \in S!FollowUps \ {Proposed} : after.recovery[g].state = "none"
       /\ after.checks = row.checks /\ after.charges = row.charges
  BY <1>4, <1>9, ProposedTyped DEF Offered, FollowUpMoved, SamePace
<1>18. FollowUpStory(Copy)'
  BY <1>1, <1>4, <1>8, <1>13, <1>14, <1>17 DEF FollowUpStory, Uncharged
<1>19. FollowingUp("claim_recovery")'
  BY <1>8, <1>12, <1>13, <1>14, <1>16, <1>18 DEF FollowingUp
<1> QED BY <1>12, <1>13, <1>15, <1>19 DEF Underway

\* What is reported is what the record holds.
LEMMA ReportedCharge ==
  ASSUME NEW rec \in S!Record, rec.charges = <<>>, NEW charge \in S!Charge, NEW time \in Nat
  PROVE  /\ Reported(rec, charge, time) \in S!Record
         /\ Reported(rec, charge, time).charges = <<charge>>
<1> DEFINE charges == <<charge>>
           noted   == WithCharge(rec, charge, time)
<1>1. Append(rec.charges, charge) = charges /\ charges \in Seq(S!Charge) /\ time \in Int
  OBVIOUS
<1> HIDE DEF charges
<1>2. noted = [rec EXCEPT !.charges = charges, !.updatedAt = time]
  BY <1>1 DEF WithCharge
<1>3. noted \in S!Record
  BY <1>1, <1>2, Zenon DEF S!Record
<1>4. noted.charges = charges
  <2>1. DOMAIN rec = DOMAIN S!Unborn
    BY DEF S!Record, S!Unborn
  <2> QED BY <1>2, <2>1 DEF S!Unborn
<1> HIDE DEF noted
<1> DEFINE seen == S!Unreadable
           told == S!Notify(noted, S!Notice(noted, seen, time), seen, time, TRUE)
<1>5. told \in S!Record /\ Informed(told, noted)
  <2> HIDE DEF seen
  <2>1. S!Notice(noted, seen, time) \in S!Notices \cup {S!None}
    BY NoticeTyped
  <2> QED BY <1>1, <1>3, <2>1, NotifyTells
<1>6. Reported(rec, charge, time) = told
  BY DEF Reported, noted
<1> HIDE DEF told
<1> QED BY <1>4, <1>5, <1>6 DEF Informed, Alike, charges

\* The billing observer reports the renewal charge (record_outcome_violation).
LEMMA ReportKeeps ==
  ASSUME DemonstrationTypeOK, Underway, ReportCharge
  PROVE  DemonstrationTypeOK' /\ Underway'
<1>1. /\ Between /\ script # <<>> /\ Head(script) = "report_charge"
      /\ script' = Tail(script) /\ UNCHANGED <<scenario, asked>>
  BY DEF ReportCharge, Call, AtStep
<1>2. Resting(row, Deadline, now) /\ Story(row)
  BY <1>1, CallAwaited DEF Times
<1>3. now \in Nat /\ Deadline \in Nat
  BY DeadlineFar DEF DemonstrationTypeOK
<1>4. /\ scenario = "outcome_violation" /\ row.checks = 1 /\ Quiet(row)
      /\ now = Deadline + 2 * Minute
      /\ script' = <<"later", "follow_up", "due", "look">>
  BY <1>1, <1>2, ReportAwaited
<1>5. PICK charge \in S!Charges, at \in S!RecentTimes :
        LET noted == [row EXCEPT !.charges = Append(@, charge), !.updatedAt = at]
        IN S!Begin(Thread, "finish",
                   S!Notify(noted, S!Notice(noted, S!Unreadable, at), S!Unreadable, at, TRUE),
                   S!Never)
  BY DEF ReportCharge, S!LoadCharge
<1>6. UNCHANGED <<row, now, reads, followUpCalls>>
  BY DEF ReportCharge, S!LoadCharge
<1>7. at = now
  BY <1>3 DEF S!RecentTimes
<1> DEFINE begun == Reported(row, charge, now)
           next  == [S!NoJob EXCEPT !.pc = "finish", !.rec = begun, !.at = S!Never]
<1>8. job' = [job EXCEPT ![Thread] = next]
  BY <1>5, <1>7 DEF S!Begin, Reported, WithCharge
<1>9. charge \in S!Charge
  <2>1. row.deadline \in Nat
    BY <1>2, <1>3 DEF Resting, Claimed
  <2>2. charge.at \in Int
    BY <1>3, <2>1 DEF S!Charges
  <2> QED BY <2>2 DEF S!Charges, S!Charge, S!Digests
<1> HIDE DEF begun
<1>10. row \in S!Record /\ row.charges = <<>> /\ row.deadline = Deadline
  BY <1>2, <1>4 DEF Resting, Claimed, Quiet, Uncharged
<1>11. begun \in S!Record /\ begun.charges = <<charge>>
  BY <1>3, <1>9, <1>10, ReportedCharge DEF begun
<1>12. next \in S!Job /\ next.pc = "finish" /\ next.rec = begun
  <2>1. S!NoJob \in S!Job /\ S!Never \in Int
    BY ValuesTyped
  <2>2. "finish" \in S!Places
    BY DEF S!Places, S!SavePoints
  <2> QED BY <1>11, <2>1, <2>2 DEF S!Job, S!NoJob
<1> HIDE DEF next
<1>13. job' \in [{Thread} -> S!Job] /\ job'[Thread] = next /\ Copy' = begun
  BY <1>8, <1>12, CallBegins
<1>14. charge = Renewed(Deadline)
  <2>1. begun.charges = <<Renewal>>
    BY <1>12, <1>13 DEF ReportCharge
  <2>2. charge = Renewal
    BY <1>11, <2>1
  <2> QED BY <1>10, <2>2 DEF Renewal, Renewed
<1>15. /\ Resting(begun, Deadline, now) /\ SamePace(begun, row) /\ begun.version = row.version
       /\ begun.charges = <<Renewed(Deadline)>>
       /\ Offered(begun, "outcome_violation", now + 5 * Minute)
  BY <1>2, <1>3, <1>4, <1>14, ChargeIsTold DEF begun
<1>16. now + 5 * Minute = Deadline + 7 * Minute
  BY <1>3, <1>4 DEF Minute
<1>17. Deadline' = Deadline
  BY <1>1, SameDeadline
<1>18. DemonstrationTypeOK'
  BY <1>1, <1>6, <1>13 DEF DemonstrationTypeOK
<1>19. BothResting'
  BY <1>2, <1>6, <1>13, <1>15, <1>17 DEF BothResting, StepAside, SameVersion, SamePace
<1>20. StoryOfCharge(Copy)'
  <2>1. begun.checks = 1
    BY <1>4, <1>15 DEF SamePace
  <2> QED BY <1>4, <1>6, <1>13, <1>15, <1>16, <1>17, <2>1 DEF StoryOfCharge
<1>21. Story(Copy)'
  BY <1>1, <1>4, <1>20 DEF Story
<1> QED BY <1>12, <1>13, <1>18, <1>19, <1>21 DEF Underway

\* The time of the next call is reckoned (PublicDemoRunner.run).
LEMMA PassTimeKeeps ==
  ASSUME DemonstrationTypeOK, Underway, PassTime
  PROVE  DemonstrationTypeOK' /\ Underway'
<1>1. PICK step \in Times : AtStep(step) /\ now' = TimeOf(step)
  BY DEF PassTime
<1>2. /\ Between /\ script # <<>> /\ Head(script) = step /\ step \in Times
      /\ script' = Tail(script) /\ UNCHANGED <<scenario, asked>>
      /\ UNCHANGED <<row, job, reads, followUpCalls>>
  BY <1>1 DEF AtStep, PassTime
<1>3. Resting(row, Deadline, now) /\ Story(row) /\ job[Thread] = S!NoJob
  BY <1>2, CallAwaited DEF Times
<1>4. now \in Nat /\ Deadline \in Nat /\ Deadline > 20160
  BY DeadlineFar DEF DemonstrationTypeOK
<1>5. Deadline' = Deadline /\ (Recovered' <=> Recovered) /\ (NotCalled' <=> NotCalled)
  BY <1>2, SameDeadline DEF Recovered, NotCalled
<1>6. /\ row.deadline = Deadline /\ row.movedAt \in Nat /\ row.movedAt <= now
      /\ row.checks \in 1..3 /\ row.nextCheck = row.movedAt + 5 * Minute * row.checks
  <2>1. /\ row \in S!Record /\ row.deadline = Deadline /\ row.movedAt \in Nat
        /\ row.movedAt <= row.updatedAt /\ row.updatedAt <= now
        /\ row.checks \in 1..3 /\ row.nextCheck = row.movedAt + 5 * Minute * row.checks
    BY <1>3 DEF Resting, Claimed
  <2>2. row.updatedAt \in Int
    BY <2>1 DEF S!Record
  <2> QED BY <1>4, <2>1, <2>2
<1>7. row.nextCheck \in Nat /\ (row.checks = 1 => row.nextCheck <= now + 10)
  BY <1>4, <1>6 DEF Minute
<1>8. now' \in Nat /\ now <= now' /\ Story(row)'
  <2>1. CASE step = "due"
    <3>1. now' = IF now < row.nextCheck THEN row.nextCheck ELSE now
      BY <1>1, <2>1 DEF TimeOf, Later
    <3>2. now' \in Nat /\ now <= now' /\ now' >= row.nextCheck
      BY <1>4, <1>7, <3>1
    <3>3. /\ script' = <<"look">> /\ NoneExecuting(row)
          /\ \/ /\ scenario = "persistent_resolution" /\ row.checks = 1 /\ reads # 0
                /\ Uncharged(row)
             \/ scenario = "terminal_failure" /\ Uncharged(row)
             \/ scenario = "recovery_loop" /\ row.checks = 2 /\ Uncharged(row) /\ Recovered
             \/ /\ scenario = "outcome_violation" /\ row.checks = 1
                /\ row.charges = <<Renewed(Deadline)>> /\ now = Deadline + 3 * Minute
      BY <1>2, <1>3, <2>1, DueAwaited
    <3>4. CASE scenario = "persistent_resolution"
      <4>1. StoryOfPersistence(row)'
        BY <1>2, <3>2, <3>3, <3>4 DEF StoryOfPersistence, Uncharged, NoneExecuting
      <4> QED BY <1>2, <3>2, <3>4, <4>1 DEF Story
    <3>5. CASE scenario = "terminal_failure"
      <4>1. StoryOfFailure(row)'
        BY <1>2, <3>2, <3>3, <3>5 DEF StoryOfFailure, Uncharged, NoneExecuting
      <4> QED BY <1>2, <3>2, <3>5, <4>1 DEF Story
    <3>6. CASE scenario = "recovery_loop"
      <4>1. StoryOfRecovery(row)'
        BY <1>2, <1>5, <3>2, <3>3, <3>6 DEF StoryOfRecovery, Uncharged, NoneExecuting
      <4> QED BY <1>2, <3>2, <3>6, <4>1 DEF Story
    <3>7. CASE scenario = "outcome_violation"
      <4>1. row.checks = 1 /\ now = Deadline + 3 * Minute /\ row.charges = <<Renewed(Deadline)>>
        BY <3>3, <3>7
      <4>2. now' \in Deadline' + 3 * Minute .. Deadline' + 8 * Minute
        BY <1>4, <1>5, <1>7, <3>1, <4>1 DEF Minute
      <4>3. row'.charges = <<Renewed(Deadline')>>
        BY <1>2, <1>5, <4>1
      <4>4. StoryOfCharge(row)'
        BY <1>2, <3>2, <3>3, <4>1, <4>2, <4>3 DEF StoryOfCharge, NoneExecuting
      <4> QED BY <1>2, <3>2, <3>7, <4>4 DEF Story
    <3> QED BY <3>3, <3>4, <3>5, <3>6, <3>7
  <2>2. CASE step = "before_deadline"
    <3>1. /\ scenario = "recovery_loop" /\ row.checks = 1 /\ Quiet(row) /\ NotCalled
          /\ now = 0 /\ script' = <<"forced_look", "soon", "follow_up", "due", "look">>
      BY <1>2, <1>3, <2>2, TimeAwaited
    <3>2. now' = IF now + 10 * Minute < row.deadline - 5 * Hour THEN row.deadline - 5 * Hour
                 ELSE now + 10 * Minute
      BY <1>1, <2>2 DEF TimeOf, Later
    <3>3. now' = Deadline' - 5 * Hour /\ now' \in Nat
      BY <1>4, <1>5, <1>6, <3>1, <3>2 DEF Minute, Hour
    <3>4. StoryOfRecovery(row)'
      BY <1>2, <1>5, <3>1, <3>3 DEF StoryOfRecovery, Quiet, Uncharged, NothingProposed
    <3> QED BY <1>2, <3>1, <3>3, <3>4 DEF Story
  <2>3. CASE step = "after_deadline"
    <3>1. /\ scenario = "outcome_violation" /\ row.checks = 1 /\ Quiet(row)
          /\ now = 0 /\ script' = <<"report_charge", "later", "follow_up", "due", "look">>
      BY <1>2, <1>3, <2>3, TimeAwaited
    <3>2. now' = row.deadline + 2 * Minute
      BY <1>1, <2>3 DEF TimeOf
    <3>3. now' = Deadline' + 2 * Minute /\ now' \in Nat
      BY <1>4, <1>5, <1>6, <3>2 DEF Minute
    <3>4. StoryOfCharge(row)'
      BY <1>2, <3>1, <3>3 DEF StoryOfCharge, Quiet, Uncharged, NothingProposed
    <3> QED BY <1>2, <3>1, <3>3, <3>4 DEF Story
  <2>4. CASE step = "soon"
    <3>1. /\ scenario = "recovery_loop" /\ row.checks = 2 /\ Uncharged(row)
          /\ Offered(row, "deadline_approaching", Deadline - 5 * Hour + 5 * Minute)
          /\ now = Deadline - 5 * Hour /\ script' = <<"follow_up", "due", "look">>
      BY <1>2, <1>3, <2>4, TimeAwaited
    <3>2. now' = now + Minute \div 2
      BY <1>1, <2>4 DEF TimeOf
    <3>3. now' = Deadline' - 5 * Hour + 1 /\ now' \in Nat /\ now <= now'
      BY <1>4, <1>5, <3>1, <3>2 DEF Minute, Hour
    <3>4. Offered(row', "deadline_approaching", Deadline' - 5 * Hour + 5 * Minute)
      BY <1>2, <1>5, <3>1
    <3>5. StoryOfRecovery(row)'
      BY <1>2, <3>1, <3>3, <3>4 DEF StoryOfRecovery, Uncharged
    <3> QED BY <1>2, <3>1, <3>3, <3>5 DEF Story
  <2>5. CASE step = "later"
    <3>1. /\ scenario = "outcome_violation" /\ row.checks = 1
          /\ row.charges = <<Renewed(Deadline)>>
          /\ Offered(row, "outcome_violation", Deadline + 7 * Minute)
          /\ now = Deadline + 2 * Minute /\ script' = <<"follow_up", "due", "look">>
      BY <1>2, <1>3, <2>5, TimeAwaited
    <3>2. now' = now + Minute
      BY <1>1, <2>5 DEF TimeOf
    <3>3. now' = Deadline' + 3 * Minute /\ now' \in Nat /\ now <= now'
      BY <1>4, <1>5, <3>1, <3>2 DEF Minute
    <3>4. /\ Offered(row', "outcome_violation", Deadline' + 7 * Minute)
          /\ row'.charges = <<Renewed(Deadline')>> /\ row'.checks = 1
      BY <1>2, <1>5, <3>1
    <3>5. StoryOfCharge(row)'
      BY <3>1, <3>3, <3>4 DEF StoryOfCharge
    <3> QED BY <1>2, <3>1, <3>3, <3>5 DEF Story
  <2> QED BY <1>2, <2>1, <2>2, <2>3, <2>4, <2>5 DEF Times
<1>9. Resting(row, Deadline, now)'
  BY <1>2, <1>3, <1>4, <1>5, <1>8, RestingLater
<1>10. DemonstrationTypeOK'
  BY <1>2, <1>8 DEF DemonstrationTypeOK
<1>11. BetweenCalls'
  BY <1>2, <1>3, <1>8, <1>9 DEF BetweenCalls
<1>12. job'[Thread].pc = "idle"
  BY <1>2, <1>3 DEF S!NoJob
<1> QED BY <1>10, <1>11, <1>12 DEF Underway

\* One more look while the proof is awaited (PublicDemoRunner.run).
LEMMA LookAgainKeeps ==
  ASSUME DemonstrationTypeOK, Underway, LookAgain
  PROVE  DemonstrationTypeOK' /\ Underway'
<1>1. /\ Between /\ script = <<>> /\ scenario = "terminal_failure"
      /\ row.state = "AWAITING_PROOF" /\ script' = <<"due", "look">>
      /\ UNCHANGED <<scenario, asked, row, job, now, reads, followUpCalls>>
  BY DEF LookAgain, Unsettled, service
<1>2. BetweenCalls
  BY <1>1 DEF Underway, Between
<1>3. scenario \in Scenarios
  BY DEF DemonstrationTypeOK
<1>4. Resting(row, Deadline, now) /\ Story(row)
  <2>1. row # S!Unborn
    BY <1>1 DEF S!Unborn
  <2>2. row # Born(Deadline)
    BY <1>1, DeadlineFar, BornDecodes
  <2>3. ~Ended(row)
    BY <1>1 DEF Ended, Final, S!Terminal
  <2> QED BY <1>2, <2>1, <2>2, <2>3 DEF BetweenCalls
<1>5. NoneExecuting(row) /\ Uncharged(row)
  BY <1>1, <1>4 DEF Story, StoryOfFailure
<1>6. StoryOfFailure(row)'
  BY <1>1, <1>5 DEF StoryOfFailure, NoneExecuting, Uncharged
<1>7. Story(row)'
  BY <1>1, <1>6 DEF Story
<1>8. Deadline' = Deadline
  BY <1>1, SameDeadline
<1>9. BetweenCalls'
  BY <1>1, <1>2, <1>4, <1>7, <1>8 DEF BetweenCalls
<1>10. DemonstrationTypeOK'
  BY <1>1 DEF DemonstrationTypeOK
<1>11. job'[Thread].pc = "idle"
  BY <1>1 DEF Between
<1> QED BY <1>9, <1>10, <1>11 DEF Underway

\* The service carries on a call that it begun, and saves what it comes to.
LEMMA ServeKeeps ==
  ASSUME DemonstrationTypeOK, Underway, Serve
  PROVE  DemonstrationTypeOK' /\ Underway'
<1>1. UNCHANGED <<scenario, asked, script>>
  BY DEF Serve
<1>2. ~S!SaveRefused(Thread)
  BY DEF Serve, Refused, S!SaveRefused
<1>3. job[Thread].pc = "read_back" => V!LastAttempt(job'[Thread].rec).evidence = View
  BY DEF Serve
<1>4. job[Thread].pc = "call_recovery" => job'[Thread].succeeded
  BY DEF Serve
<1>5. \/ S!ClaimExecution(Thread) \/ S!Execute(Thread) \/ S!RecordClaim(Thread)
      \/ S!ReadBack(Thread) \/ S!Conclude(Thread) \/ S!ClaimCheck(Thread)
      \/ S!ClaimRecovery(Thread) \/ S!CallRecovery(Thread) \/ S!ReloadRecovery(Thread)
      \/ S!Finish(Thread)
  BY <1>2 DEF Serve, S!Proceed
<1>6. CASE S!ClaimExecution(Thread)
  BY <1>1, <1>6, ClaimExecutionKeeps
<1>7. CASE S!Execute(Thread)
  BY <1>1, <1>7, ExecuteKeeps
<1>8. CASE S!RecordClaim(Thread)
  BY <1>1, <1>8, RecordClaimKeeps
<1>9. CASE S!ReadBack(Thread)
  BY <1>1, <1>3, <1>9, ReadBackKeeps
<1>10. CASE S!Conclude(Thread)
  BY <1>1, <1>10, ConcludeKeeps
<1>11. CASE S!ClaimCheck(Thread)
  BY <1>1, <1>11, ClaimCheckKeeps
<1>12. CASE S!ClaimRecovery(Thread)
  BY <1>1, <1>12, ClaimRecoveryKeeps
<1>13. CASE S!CallRecovery(Thread)
  BY <1>1, <1>4, <1>13, CallRecoveryKeeps
<1>14. CASE S!ReloadRecovery(Thread)
  BY <1>1, <1>14, ReloadRecoveryKeeps
<1>15. CASE S!Finish(Thread)
  BY <1>1, <1>15, FinishKeeps
<1> QED BY <1>5, <1>6, <1>7, <1>8, <1>9, <1>10, <1>11, <1>12, <1>13, <1>14, <1>15

\* Whatever the thread does, a demonstration stays on its journey.
LEMMA StepKeeps ==
  ASSUME DemonstrationTypeOK, Underway, Step
  PROVE  DemonstrationTypeOK' /\ Underway'
BY StartKeeps, ConfirmKeeps, LookKeeps, FollowUpKeeps, ReportKeeps, PassTimeKeeps,
   LookAgainKeeps, ServeKeeps DEF Step

\* A demonstration begins with a store of its own (run_public_demo).
LEMMA EnterBegins ==
  ASSUME Idle, Enter
  PROVE  DemonstrationTypeOK' /\ Underway'
<1> DEFINE none  == S!NoJob
           birth == S!Unborn
<1>1. /\ row' = birth /\ job' = [w \in {Thread} |-> none] /\ now' = 0 /\ reads' = 0
      /\ followUpCalls' = [f \in S!FollowUps |-> 0]
  BY DEF Idle, Enter, service, S!Init
<1>2. scenario' \in Scenarios /\ asked' \in Moments /\ script' = Script[scenario']
  BY DEF Enter
<1>3. none \in S!Job /\ birth \in S!Record
  BY ValuesTyped
<1>4. none.pc = "idle"
  BY DEF S!NoJob
<1> HIDE DEF none, birth
<1>5. job' \in [{Thread} -> S!Job] /\ job'[Thread] = none
  BY <1>1, <1>3
<1>6. DemonstrationTypeOK'
  BY <1>1, <1>2, <1>3, <1>5 DEF DemonstrationTypeOK
<1>7. Untouched'
  BY <1>1 DEF Untouched, NotCalled
<1>8. BetweenCalls'
  BY <1>1, <1>2, <1>5, <1>7 DEF BetweenCalls, none, birth
<1> QED BY <1>4, <1>5, <1>6, <1>8 DEF Underway

\* Its store is deleted with it (run_public_demo).
LEMMA LeaveEnds ==
  ASSUME Leave
  PROVE  Idle'
  BY DEF Leave, Idle, S!Init, S!Unborn, V!Unborn, S!FollowUps, V!FollowUps,
         S!Never, V!Never, S!None, V!None, S!NoReceipt, V!NoReceipt

\* Between two of its steps nothing happens to a demonstration.
LEMMA OthersKeep ==
  ASSUME UNCHANGED demonstration
  PROVE  /\ DemonstrationTypeOK /\ Underway => (DemonstrationTypeOK /\ Underway)'
         /\ Idle => Idle'
<1>1. UNCHANGED <<scenario, asked, script, row, job, now, cancels, reads, followUpCalls>>
  BY DEF demonstration
<1>2. Deadline' = Deadline /\ Copy' = Copy /\ Proposed' = Proposed
  BY <1>1 DEF Deadline, Contract, Copy, Proposed
<1>3. DemonstrationTypeOK' <=> DemonstrationTypeOK
  BY <1>1 DEF DemonstrationTypeOK
<1>4. (Untouched' <=> Untouched) /\ (NotCalled' <=> NotCalled) /\ (Recovered' <=> Recovered)
  BY <1>1 DEF Untouched, NotCalled, Recovered
<1>5. /\ Story(row)' <=> Story(row)
      /\ Story(Copy)' <=> Story(Copy)
  BY <1>1, <1>2, <1>4
     DEF Story, StoryOfPersistence, StoryOfFailure, StoryOfRecovery, StoryOfCharge
<1>6. /\ LookStory(Copy)' <=> LookStory(Copy)
      /\ FollowUpStory(Copy)' <=> FollowUpStory(Copy)
  BY <1>1, <1>2, <1>4 DEF LookStory, FirstLook, NextLook, FollowUpStory
<1>7. /\ Ended(row)' <=> Ended(row)
      /\ Ended(Copy)' <=> Ended(Copy)
  BY <1>1, <1>2 DEF Ended
<1>8. (BothResting' <=> BothResting) /\ (OneStepOn' <=> OneStepOn)
  BY <1>1, <1>2 DEF BothResting, OneStepOn, StepAside, SameVersion
<1>9. BetweenCalls' <=> BetweenCalls
  BY <1>1, <1>2, <1>4, <1>5, <1>7 DEF BetweenCalls
<1>10. \A pc : Confirming(pc)' <=> Confirming(pc)
  BY <1>1, <1>2, <1>4 DEF Confirming
<1>11. \A pc : LookingAt(pc)' <=> LookingAt(pc)
  BY <1>1, <1>2, <1>5, <1>6, <1>7, <1>8 DEF LookingAt
<1>12. \A pc : FollowingUp(pc)' <=> FollowingUp(pc)
  BY <1>1, <1>2, <1>4, <1>6, <1>8 DEF FollowingUp
<1>13. Underway' <=> Underway
  BY <1>1, <1>5, <1>8, <1>9, <1>10, <1>11, <1>12 DEF Underway
<1>14. Idle => Idle'
  BY <1>1 DEF Idle, S!Init
<1> QED BY <1>3, <1>13, <1>14

(***************************************************************************)
(* The invariant of a demonstration                                        *)
(***************************************************************************)
\* Every step of the whole keeps the demonstration that is followed on its
\* journey, or leaves none (PublicDemoRunner.run, run_public_demo).
LEMMA DemonstrationKeeps ==
  ASSUME TypeOK, DemonstrationInv, [PublicNext]_all
  PROVE  DemonstrationInv'
<1>1. CASE AdmitShown
  <2>1. task[Shown] = "none" /\ task'[Shown] = "running"
    BY <1>1, ShownAssumption DEF AdmitShown, Admit, TypeOK
  <2>2. Idle /\ Enter
    BY <1>1, <2>1 DEF AdmitShown, DemonstrationInv
  <2> QED BY <2>1, <2>2, EnterBegins DEF DemonstrationInv
<1>2. CASE Run
  <2>1. task[Shown] = "running" /\ task'[Shown] = "running" /\ Step
    BY <1>2 DEF Run, vars
  <2> QED BY <2>1, StepKeeps DEF DemonstrationInv
<1>3. CASE EndShown
  <2>1. task'[Shown] # "running" /\ Leave
    BY <1>3, ShownAssumption DEF EndShown, Ending, TypeOK
  <2> QED BY <2>1, LeaveEnds DEF DemonstrationInv
<1>4. ASSUME NEW r \in Requests, Beside(r) PROVE DemonstrationInv'
  <2>1. UNCHANGED demonstration
    BY <1>4 DEF Beside
  <2>2. (task'[Shown] = "running") <=> (task[Shown] = "running")
    <3>1. CASE r \in Others /\ (Admit(r) \/ End(r))
      BY <3>1, ShownAssumption DEF Others, Admit, End, TypeOK
    <3>2. CASE Return(r)
      BY <3>2, ShownAssumption DEF Return, Release, Done, Endings, TypeOK
    <3>3. CASE TimeOut(r)
      BY <3>3 DEF TimeOut
    <3>4. CASE Disconnect(r)
      BY <3>4, ShownAssumption DEF Disconnect, Release, Done, Endings, TypeOK
    <3>5. CASE CallBack(r)
      BY <3>5, ShownAssumption DEF CallBack, Release, Done, Endings, TypeOK
    <3> QED BY <1>4, <3>1, <3>2, <3>3, <3>4, <3>5 DEF Beside
  <2> QED BY <2>1, <2>2, OthersKeep DEF DemonstrationInv
<1>5. CASE UNCHANGED all
  <2>1. UNCHANGED demonstration /\ task' = task
    BY <1>5 DEF all, vars
  <2> QED BY <2>1, OthersKeep DEF DemonstrationInv
<1> QED BY <1>1, <1>2, <1>3, <1>4, <1>5 DEF PublicNext

\* At any moment of its run a demonstration is at one of the stages of its
\* journey, with the record, the time and the rest of the script that belong to
\* it, whenever in the week it begins (PublicDemoRunner.run).
THEOREM DemonstrationOnItsWay == PublicSpec => []DemonstrationInv
<1>1. PublicInit => DemonstrationInv
  <2> SUFFICES ASSUME PublicInit PROVE DemonstrationInv
    OBVIOUS
  <2>1. task[Shown] = "none" /\ Idle
    BY ShownAssumption DEF PublicInit, Init
  <2> QED BY <2>1 DEF DemonstrationInv
<1>2. AdmissionInv /\ DemonstrationInv /\ [PublicNext]_all => DemonstrationInv'
  BY DemonstrationKeeps DEF AdmissionInv
<1> QED BY <1>1, <1>2, ImplementsAdmission, Accounted, PTL DEF PublicSpec

(***************************************************************************)
(* No save is refused                                                      *)
(***************************************************************************)
\* The store takes whatever the service comes to save (save_owned,
\* validate_target_record): nobody else writes, and every record it makes is
\* one that the contract accepts.
LEMMA NothingIsRefused ==
  ASSUME DemonstrationTypeOK, Underway
  PROVE  ~Refused
<1> SUFFICES ASSUME job[Thread].pc \in S!SavePoints PROVE S!CanSave(Copy)
  BY DEF Refused, Copy
<1>1. now \in Nat /\ Deadline \in Nat
  BY DeadlineFar DEF DemonstrationTypeOK
<1>2. ASSUME BothResting PROVE S!CanSave(Copy)
  <2>1. S!ValidRecord(Copy)
    BY <1>1, <1>2, RestingDecodes DEF BothResting
  <2>2. /\ row.state = "AWAITING_PROOF" /\ Copy.state = "AWAITING_PROOF"
        /\ Copy.version = row.version /\ Copy.moves = row.moves
    BY <1>2 DEF BothResting, Resting, StepAside, SameVersion
  <2> QED BY <2>1, <2>2 DEF S!CanSave, S!Open, S!SameVersion, S!ContinuesHistory, S!Terminal
<1>3. CASE job[Thread].pc = "claim_execution"
  <2>1. row = Born(Deadline) /\ Copy = Agreed(Deadline)
    BY <1>3 DEF Underway, Confirming
  <2>2. /\ row.state = "AWAITING_CONFIRMATION" /\ row.moves = 2 /\ row.movedAt = 0
        /\ row.version = 0
    BY <1>1, <2>1, BornDecodes
  <2>3. /\ Copy.state = "EXECUTING" /\ Copy.moves = 3 /\ Copy.movedAt = 0 /\ Copy.version = 0
        /\ S!ValidRecord(Copy)
    BY <1>1, <2>1, AgreedIsValid
  <2>4. row.state \in S!AllowedPrevious(Copy.state)
    BY <2>2, <2>3 DEF S!AllowedPrevious, S!AllowedNext, S!States
  <2> QED BY <2>2, <2>3, <2>4 DEF S!CanSave, S!Open, S!SameVersion, S!ContinuesHistory, S!Terminal
<1>4. CASE job[Thread].pc = "record_claim"
  <2>1. row = S!Saved(Agreed(Deadline)) /\ Copy = Asked(Deadline)
    BY <1>4 DEF Underway, Confirming
  <2>2. /\ Agreed(Deadline) \in S!Record
        /\ Agreed(Deadline).state = "EXECUTING" /\ Agreed(Deadline).movedAt = 0
    BY <1>1, AgreedIsValid
  <2>3. row.state = "EXECUTING" /\ row.movedAt = 0
    BY <2>1, <2>2, SavedKeeps DEF SamePace
  <2>4. Looking(Copy, Deadline, 0) /\ Copy.moves = row.moves + 1 /\ Copy.version = row.version
    BY <1>1, <2>1, AskedIsLookedAt
  <2>5. S!ValidRecord(Copy)
    BY <1>1, <2>4, LookingIsValid
  <2>6. Copy.state = "VERIFYING" /\ Copy.movedAt = 0
    BY <2>4 DEF Looking
  <2>7. row.state \in S!AllowedPrevious(Copy.state)
    BY <2>3, <2>6 DEF S!AllowedPrevious, S!AllowedNext, S!States
  <2> QED BY <2>3, <2>4, <2>5, <2>6, <2>7
          DEF S!CanSave, S!Open, S!SameVersion, S!ContinuesHistory, S!Terminal
<1>5. CASE job[Thread].pc = "claim_check"
  <2>1. LookingAt("claim_check")
    BY <1>5 DEF Underway
  <2>2. Resting(row, Deadline, now) /\ Looking(Copy, Deadline, now) /\ OneStepOn
    BY <2>1 DEF LookingAt
  <2>3. S!ValidRecord(Copy)
    BY <1>1, <2>2, LookingIsValid
  <2>4. /\ row.state = "AWAITING_PROOF" /\ row.movedAt \in Nat /\ row.updatedAt \in Int
        /\ row.movedAt <= row.updatedAt /\ row.updatedAt <= now
    <3>1. row \in S!Record
      BY DEF DemonstrationTypeOK
    <3>2. row.updatedAt \in Int
      BY <3>1 DEF S!Record
    <3> QED BY <2>2, <3>2 DEF Resting, Claimed
  <2>5. Copy.state = "VERIFYING" /\ row.movedAt <= Copy.movedAt
    BY <1>1, <2>2, <2>4 DEF Looking
  <2>6. row.state \in S!AllowedPrevious(Copy.state)
    BY <2>4, <2>5 DEF S!AllowedPrevious, S!AllowedNext, S!States
  <2>7. Copy.version = row.version /\ Copy.moves = row.moves + 1
    BY <2>2 DEF OneStepOn, SameVersion
  <2> QED BY <2>3, <2>4, <2>5, <2>6, <2>7
          DEF S!CanSave, S!Open, S!SameVersion, S!ContinuesHistory, S!Terminal
<1>6. CASE job[Thread].pc = "conclude"
  <2>1. LookingAt("conclude")
    BY <1>6 DEF Underway
  <2>2. /\ Looking(row, Deadline, now) /\ OneStepOn /\ row.movedAt <= Copy.movedAt
        /\ Resting(Copy, Deadline, now) \/ Final(Copy)
    BY <2>1 DEF LookingAt, Ended
  <2>3. S!ValidRecord(Copy) /\ Copy.state \in S!Terminal \cup {"AWAITING_PROOF"}
    <3>1. CASE Resting(Copy, Deadline, now)
      BY <1>1, <3>1, RestingDecodes DEF Resting
    <3>2. CASE Final(Copy)
      BY <3>2 DEF Final
    <3> QED BY <2>2, <3>1, <3>2
  <2>4. row.state = "VERIFYING"
    BY <2>2 DEF Looking
  <2>5. row.state \in S!AllowedPrevious(Copy.state)
    BY <2>3, <2>4 DEF S!AllowedPrevious, S!AllowedNext, S!States, S!Terminal
  <2>6. Copy.version = row.version /\ Copy.moves = row.moves + 1
    BY <2>2 DEF OneStepOn, SameVersion
  <2> QED BY <2>2, <2>3, <2>4, <2>5, <2>6
          DEF S!CanSave, S!Open, S!SameVersion, S!ContinuesHistory, S!Terminal
<1>7. CASE job[Thread].pc \in {"claim_recovery", "finish"}
  <2>1. BothResting
    BY <1>7 DEF Underway, FollowingUp
  <2> QED BY <1>2, <2>1
<1> QED BY <1>3, <1>4, <1>5, <1>6, <1>7 DEF S!SavePoints

(***************************************************************************)
(* Every step of a script can be taken                                     *)
(***************************************************************************)
\* The only notice or proposal there is is the latest.
LEMMA LatestOfOne ==
  ASSUME NEW f \in {"deadline_approaching", "outcome_violation"}
  PROVE  V!LatestOf({f}) = f
<1> DEFINE Latest(i) ==
      /\ V!NoticeOrder[i] \in {f}
      /\ \A j \in DOMAIN V!NoticeOrder : V!NoticeOrder[j] \in {f} => j <= i
<1>1. /\ DOMAIN V!NoticeOrder = 1..5
      /\ V!NoticeOrder[1] = "deadline_approaching" /\ V!NoticeOrder[2] = "deadline_passed"
      /\ V!NoticeOrder[3] = "outcome_violation" /\ V!NoticeOrder[4] = "verified"
      /\ V!NoticeOrder[5] = "not_completed"
  BY DEF V!NoticeOrder
<1>2. \E i \in DOMAIN V!NoticeOrder : Latest(i)
  <2>1. CASE f = "deadline_approaching"
    <3>1. Latest(1)
      BY <1>1, <2>1
    <3> QED BY <1>1, <3>1
  <2>2. CASE f = "outcome_violation"
    <3>1. Latest(3)
      BY <1>1, <2>2
    <3> QED BY <1>1, <3>1
  <2> QED BY <2>1, <2>2
<1> DEFINE last == CHOOSE i \in DOMAIN V!NoticeOrder : Latest(i)
<1>3. Latest(last)
  <2> HIDE DEF Latest
  <2> QED BY <1>2
<1>4. V!LatestOf({f}) = V!NoticeOrder[last]
  BY DEF V!LatestOf
<1> HIDE DEF last
<1> QED BY <1>3, <1>4

\* A follow-up that was offered is what is shown, with its notice
\* (PublicDemoRunner.run, _conversation_view).
LEMMA OfferIsShown ==
  ASSUME Offered(row, Proposed, Expiry)
  PROVE  V!Proposal(row) = Proposed /\ V!Attention(row) = Proposed
<1>1. Proposed \in {"deadline_approaching", "outcome_violation"}
  BY DEF Proposed
<1>2. row.attention = {Proposed}
  BY DEF Offered
<1>3. {f \in V!FollowUps : row.recovery[f].state = "AWAITING_CONFIRMATION"} = {Proposed}
  BY <1>1 DEF Offered, S!FollowUps, V!FollowUps
<1> QED BY <1>1, <1>2, <1>3, LatestOfOne DEF V!Proposal, V!Attention

\* A record that waits can be loaded, and has a next check (get_owned).
LEMMA RestingLoads ==
  ASSUME DemonstrationTypeOK, Resting(row, Deadline, now)
  PROVE  /\ S!Loadable /\ row.state = "AWAITING_PROOF" /\ row.checks \in 1..3
         /\ row.nextCheck # S!Never
<1>1. now \in Nat /\ Deadline \in Nat
  BY DeadlineFar DEF DemonstrationTypeOK
<1>2. S!Decodes(row)
  BY <1>1, RestingDecodes
<1>3. /\ row.state = "AWAITING_PROOF" /\ row.checks \in 1..3 /\ row.movedAt \in Nat
      /\ row.nextCheck = row.movedAt + 5 * Minute * row.checks
  BY DEF Resting, Claimed
<1>4. row.nextCheck # S!Never
  BY <1>3 DEF S!Never, Minute
<1> QED BY <1>2, <1>3, <1>4 DEF S!Loadable

\* The service is ready for every call when its turn comes, at the time that
\* was reckoned for it (PublicDemoRunner.run).
LEMMA EveryStepIsPossible ==
  ASSUME DemonstrationTypeOK, Underway, Between, script # <<>>
  PROVE  Possible(Head(script))
<1>1. now \in Nat /\ Deadline \in Nat /\ Deadline > 20160
  BY DeadlineFar DEF DemonstrationTypeOK
<1>2. CASE Head(script) = "start"
  <2>1. now = 0
    BY <1>2, CallAwaited DEF Times, Untouched
  <2>2. Deadline > now
    BY <1>1, <2>1
  <2>3. Contract(asked).deadline > now
    BY <2>2 DEF Deadline
  <2> QED BY <1>2, <2>3 DEF Possible
<1>3. CASE Head(script) = "confirm"
  <2>1. row = Born(Deadline)
    BY <1>3, CallAwaited DEF Times
  <2>2. row.state = "AWAITING_CONFIRMATION" /\ S!Decodes(row)
    BY <1>1, <2>1, BornDecodes
  <2> QED BY <1>3, <2>2 DEF Possible, S!Loadable
<1>4. ASSUME Head(script) \in Times \cup {"look", "forced_look", "report_charge", "follow_up"}
      PROVE  /\ Resting(row, Deadline, now) /\ Story(row)
             /\ S!Loadable /\ row.state = "AWAITING_PROOF" /\ row.checks \in 1..3
             /\ row.nextCheck # S!Never
  <2>1. Resting(row, Deadline, now) /\ Story(row)
    BY <1>4, CallAwaited DEF Times
  <2> QED BY <2>1, RestingLoads
<1>5. CASE Head(script) \in Times
  <2>1. row.nextCheck # V!Never
    BY <1>4, <1>5 DEF S!Never, V!Never
  <2> QED BY <1>5, <2>1 DEF Possible, Times
<1>6. CASE Head(script) = "look"
  <2>1. Story(row) /\ S!Loadable /\ row.state = "AWAITING_PROOF" /\ row.checks < 4
        /\ row.nextCheck # S!Never
    BY <1>4, <1>6
  <2>2. now >= row.nextCheck /\ NoneExecuting(row)
    BY <1>6, <2>1, LookAwaited
  <2>3. S!MayRecheck(row.nextCheck, FALSE)
    BY <2>1, <2>2 DEF S!MayRecheck, NoneExecuting
  <2> QED BY <1>6, <2>1, <2>3 DEF Possible
<1>7. CASE Head(script) = "forced_look"
  <2>1. Story(row) /\ S!Loadable /\ row.state = "AWAITING_PROOF" /\ row.checks < 4
    BY <1>4, <1>7
  <2>2. \A f \in S!FollowUps : row.recovery[f].state # "EXECUTING"
    BY <1>7, <2>1, ForcedLookAwaited DEF Quiet, NothingProposed
  <2>3. S!MayRecheck(V!Never, TRUE)
    BY <2>1, <2>2 DEF S!MayRecheck, S!Never, V!Never
  <2> QED BY <1>7, <2>1, <2>3 DEF Possible
<1>8. CASE Head(script) = "report_charge"
  <2>1. Resting(row, Deadline, now) /\ Story(row) /\ S!Loadable
    BY <1>4, <1>8
  <2>2. now = Deadline + 2 * Minute
    BY <1>8, <2>1, ReportAwaited
  <2>3. row.tracksCharges /\ row.deadline = Deadline
    BY <2>1 DEF Resting, Claimed
  <2>4. /\ Renewal.at = Deadline + Minute /\ Renewal.genuine /\ Renewal.digest = S!Target
    BY <2>3 DEF Renewal, S!Target, V!Target
  <2>5. /\ row.deadline # S!Never /\ Renewal.at >= row.deadline
        /\ Renewal.at <= now /\ now - Renewal.at <= 7 * Day
    BY <1>1, <2>2, <2>3, <2>4 DEF S!Never, Minute, Day
  <2>6. S!Admissible(Renewal, now)
    BY <2>3, <2>4, <2>5 DEF S!Admissible
  <2> QED BY <1>8, <2>1, <2>6 DEF Possible
<1>9. CASE Head(script) = "follow_up"
  <2>1. Story(row) /\ S!Loadable /\ row.state = "AWAITING_PROOF"
    BY <1>4, <1>9
  <2>2. /\ Offered(row, Proposed, Expiry) /\ now < Expiry
        /\ scenario \in {"recovery_loop", "outcome_violation"}
    BY <1>1, <1>9, <2>1, FollowUpAwaited
  <2>3. V!Proposal(row) = Proposed /\ V!Attention(row) = Proposed
    BY <2>2, OfferIsShown
  <2>4. Justified
    BY <2>2, <2>3 DEF Justified, Proposed, V!None
  <2>5. row.recovery[V!Proposal(row)].expires = Expiry
    BY <2>2, <2>3 DEF Offered
  <2>6. S!MayFollowUp(row, V!Proposal(row))
    BY <2>1 DEF S!MayFollowUp
  <2> QED BY <1>9, <2>1, <2>2, <2>4, <2>5, <2>6 DEF Possible
<1> QED BY <1>2, <1>3, <1>5, <1>6, <1>7, <1>8, <1>9, CallAwaited

(***************************************************************************)
(* What is shown is true                                                   *)
(***************************************************************************)
\* A record that waits or is final has all that a result is made of: the
\* claim, what was read, and a verdict that agrees with the state
\* (PublicDemoResult).
LEMMA IsPresentable ==
  ASSUME row \in S!Record, row.judged, row.claim = Claim, row.attempts # <<>>,
         S!LastAttempt(row).evidence \in Answers,
         row.state \in S!Terminal \cup {"AWAITING_PROOF"},
         row.state = S!StateFor(S!LastAttempt(row).reason)
  PROVE  Presentable
<1> DEFINE reason  == S!LastAttempt(row).reason
           verdict == S!VerdictOf(reason)
           shown   == V!EvidenceView(row)
<1>1. V!VerdictIn(row) = verdict
  BY DEF V!VerdictIn, S!LastAttempt, V!LastAttempt, S!VerdictOf, V!VerdictOf
<1>2. V!EvidenceIn(row) = S!LastAttempt(row).evidence
  BY DEF V!EvidenceIn, S!LastAttempt, V!LastAttempt
<1>3. V!ConsumerStateIn(row) = V!ConsumerState(verdict)
  BY <1>1 DEF V!ConsumerStateIn
<1>4. \/ verdict = "PASS" /\ row.state = "VERIFIED"
      \/ verdict = "FAIL" /\ row.state = "NOT_COMPLETED"
      \/ verdict = "INCONCLUSIVE" /\ row.state = "AWAITING_PROOF"
  <2>1. verdict \in {"PASS", "FAIL", "INCONCLUSIVE"}
    BY DEF S!VerdictOf
  <2> QED BY <2>1 DEF S!StateFor
<1>5. S!LastAttempt(row).evidence.freshness \in {"within30", "null"}
  BY AnswersTyped
<1> HIDE DEF verdict
<1> DEFINE word   == V!ConsumerStateIn(row)
           told   == [given |-> TRUE, formed |-> TRUE, verdict |-> verdict, consumer |-> word]
           past   == V!History(row)
           looks  == [i \in DOMAIN row.attempts |-> V!VerdictOf(row.attempts[i].reason)]
           claim  == row.claim
           seen   == V!EvidenceIn(row)
           common == V!Common(row)
<1>6. /\ told.given /\ told.verdict = verdict /\ told.consumer = word
  OBVIOUS
<1>7. /\ shown = [common EXCEPT !.keys = V!EvidenceKeys, !.claim = claim, !.readBack = seen,
                                !.verification = told, !.history = past, !.attempts = looks]
  BY <1>1 DEF V!EvidenceView
<1>8. /\ common.lifecycle = row.state
      /\ {"keys", "lifecycle", "claim", "readBack", "verification", "history", "attempts"}
           \subseteq DOMAIN common
  BY DEF V!Common
<1> HIDE DEF word, told, past, looks, claim, seen, common
<1>9. /\ shown.claim = claim /\ shown.readBack = seen /\ shown.verification = told
      /\ shown.lifecycle = row.state
  BY <1>7, <1>8
<1> HIDE DEF shown
<1>10. claim.valid
  BY DEF claim, Claim
<1>11. seen.freshness \in {"within30", "null"}
  BY <1>2, <1>5 DEF seen
<1>12. <<verdict, word, row.state>> \in
         {<<"PASS", "Verified", "VERIFIED">>, <<"FAIL", "Not completed", "NOT_COMPLETED">>,
          <<"INCONCLUSIVE", "Awaiting proof", "AWAITING_PROOF">>}
  <2>1. \/ verdict = "PASS" /\ word = "Verified" /\ row.state = "VERIFIED"
        \/ verdict = "FAIL" /\ word = "Not completed" /\ row.state = "NOT_COMPLETED"
        \/ verdict = "INCONCLUSIVE" /\ word = "Awaiting proof" /\ row.state = "AWAITING_PROOF"
    BY <1>3, <1>4, Zenon DEF word, V!ConsumerState
  <2> QED BY <2>1
<1> QED BY <1>6, <1>9, <1>10, <1>11, <1>12 DEF Presentable, shown

\* A demonstration that has run its script has come to the outcome it is there
\* to show, and shows it (PublicDemoRunner.run, PublicDemoResult).
LEMMA FinishedAsAnnounced ==
  ASSUME DemonstrationTypeOK, Underway, Finished
  PROVE  row.state = Announced(scenario) /\ Ending = "valid"
<1>1. Between /\ script = <<>> /\ ~Unsettled
  BY DEF Finished
<1>2. BetweenCalls
  BY <1>1 DEF Underway, Between
<1>3. scenario \in Scenarios /\ row \in S!Record
  BY DEF DemonstrationTypeOK
<1>4. script # Script[scenario] /\ script # <<"confirm">> \o Rest(scenario)
  BY <1>1, <1>3, ScriptBegins
<1>5. CASE Resting(row, Deadline, now) /\ Story(row)
  <2>1. row.state = "AWAITING_PROOF" /\ row.judged /\ row.claim = Claim
        /\ row.checks \in 1..3 /\ Len(row.attempts) = row.checks
        /\ S!VerdictOf(S!LastAttempt(row).reason) = "INCONCLUSIVE"
        /\ AttemptsFit(row, Deadline)
    BY <1>5 DEF Resting, Claimed
  <2>2. scenario \in {"false_success", "evidence_outage"}
    <3>1. scenario # "terminal_failure"
      BY <1>1, <2>1 DEF Unsettled
    <3>2. CASE scenario = "persistent_resolution"
      BY <1>1, <1>5, <3>2, Heads DEF Story, StoryOfPersistence
    <3>3. CASE scenario = "recovery_loop"
      BY <1>1, <1>5, <3>3, Heads DEF Story, StoryOfRecovery
    <3>4. CASE scenario = "outcome_violation"
      BY <1>1, <1>5, <3>4, Heads DEF Story, StoryOfCharge
    <3> QED BY <1>5, <3>1, <3>2, <3>3, <3>4 DEF Story
  <2>3. Announced(scenario) = "AWAITING_PROOF"
    BY <2>2 DEF Announced
  <2>4. row.attempts # <<>> /\ S!LastAttempt(row).evidence \in Answers
    <3> DEFINE n == Len(row.attempts)
    <3>1. n \in 1..n /\ row.attempts # <<>>
      BY <2>1
    <3>2. row.attempts[n].evidence \in Answers
      BY <2>1, <3>1 DEF AttemptsFit
    <3> QED BY <3>1, <3>2 DEF S!LastAttempt
  <2>5. row.state = S!StateFor(S!LastAttempt(row).reason)
    BY <2>1 DEF S!StateFor
  <2>6. Presentable
    BY <1>3, <2>1, <2>4, <2>5, IsPresentable
  <2> QED BY <2>1, <2>3, <2>6 DEF Ending
<1>6. CASE Ended(row)
  <2>1. Final(row) /\ row.state = Announced(scenario)
    BY <1>6 DEF Ended
  <2>2. Presentable
    BY <1>3, <2>1, IsPresentable DEF Final
  <2> QED BY <2>1, <2>2 DEF Ending
<1> QED BY <1>2, <1>4, <1>5, <1>6 DEF BetweenCalls

\* Whenever in the week it begins, and whatever other requests do, a
\* demonstration never raises and comes to the outcome it is there to show
\* (PublicDemoRunner.run).
THEOREM ShowsTheTruth == PublicSpec => []ShowsWhatItSays
<1>1. DemonstrationInv => ShowsWhatItSays
  <2> SUFFICES ASSUME DemonstrationInv, task[Shown] = "running"
               PROVE  ~Raises /\ (Finished => row.state = Announced(scenario) /\ Ending = "valid")
    BY DEF ShowsWhatItSays
  <2>1. DemonstrationTypeOK /\ Underway
    BY DEF DemonstrationInv
  <2>2. ~Raises
    BY <2>1, NothingIsRefused, EveryStepIsPossible DEF Raises
  <2> QED BY <2>1, <2>2, FinishedAsAnnounced
<1> QED BY <1>1, DemonstrationOnItsWay, PTL
==============================================================================
