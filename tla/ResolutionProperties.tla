------------------------ MODULE ResolutionProperties ------------------------
(***************************************************************************)
(* What makes the resolution service correct.                              *)
(***************************************************************************)
EXTENDS ResolutionService, SequencesExt

\* The variables range over what the code's types allow.
TypeOK ==
  /\ row \in Record
  /\ job \in [Sessions -> Job]
  /\ now \in 0..MaxTime
  /\ cancels \in Nat /\ reads \in Nat
  /\ followUpCalls \in [FollowUps -> Nat]

(***************************************************************************)
(* Side effects                                                            *)
(***************************************************************************)
\* However many confirmations race, and wherever a call stops, the provider
\* is asked to cancel at most once (confirm_resolution_action claims
\* EXECUTING before it calls; docs/trust-model.md, "must not blindly repeat
\* the consequential action").
CancelAtMostOnce == cancels <= 1

\* A follow-up's provider is called at most once, for every follow-up
\* (confirm_recovery_action claims EXECUTING before it calls).
FollowUpAtMostOnce == \A f \in FollowUps : followUpCalls[f] <= 1

\* Every read-back was paid for from the budget of looks before it was made,
\* and every recorded attempt stands for a read-back that was made: stale
\* sessions, takeovers and retries included.
LooksAreBudgeted ==
  /\ Len(row.attempts) <= reads
  /\ reads <= row.checks
  /\ row.checks <= MaxChecks

(***************************************************************************)
(* Outcomes                                                                *)
(***************************************************************************)
\* A resolution is never verified while a renewal charge against it is on
\* record, although charges arrive at any moment, also while the look that
\* proves the cancellation is in progress.
NoVerifiedWithCharge == row.state = "VERIFIED" => row.charges = <<>>

\* A look that may close the window came no earlier than its due time after
\* the look before it, on the last count of the budget.
ClosesWindow(i) ==
  /\ row.attempts[i].eligible /\ row.attempts[i].count = MaxChecks
  /\ i > 1
  /\ row.attempts[i].at >= row.attempts[i - 1].at + Interval * row.attempts[i - 1].count

\* A final outcome rests on consent, an accepted claim and the last look.
\* VERIFIED needs an accepted claim and a fresh, correlated view of a disabled
\* renewal; NOT_COMPLETED needs a recorded charge or such a view of an enabled
\* one on the look that closes the window (docs/trust-model.md, "Cancellation
\* FAIL requires ...").
OutcomeIsProven ==
  row.state \in Terminal =>
    LET last == LastAttempt(row)
        trusted == /\ row.attested
                   /\ row.claim.success /\ row.claim.digest = Target
                   /\ last.evidence.readable /\ last.evidence.freshness = "within30"
                   /\ last.evidence.digest = Target /\ last.evidence.bound
    IN /\ last.count = row.checks
       /\ IF row.state = "VERIFIED" THEN trusted /\ last.evidence.autoRenew = "off"
          ELSE \/ ChargeById(row, last.charge) # NoCharge
               \/ /\ trusted /\ last.evidence.autoRenew = "on"
                  /\ ClosesWindow(Len(row.attempts))

\* A support follow-up never outlives the resolution: once the outcome is
\* final none is being executed or waiting for a look that will not come.
SupportIsSettled ==
  row.state \in Terminal =>
    \A f \in FollowUps \ {"outcome_violation"} :
      row.recovery[f].state \notin {"EXECUTING", "VERIFYING"}

\* The stored record refines the ledger of promises.
Ledger ==
  INSTANCE OutcomeLedger WITH
    MaxLooks <- MaxChecks,
    consent  <- CASE row.state = "REQUESTED" -> "none"
                  [] row.state = "AWAITING_CONFIRMATION" -> "asked"
                  [] OTHER -> "given",
    actions  <- cancels,
    claimed  <- row.claim.valid,
    looks    <- row.checks,
    looking  <- row.state = "VERIFYING",
    outcome  <- CASE row.state = "VERIFIED" -> "verified"
                  [] row.state = "NOT_COMPLETED" -> "not_completed"
                  [] OTHER -> "open"

RefinesLedger == Ledger!LedgerSpec

(***************************************************************************)
(* Memory                                                                  *)
(***************************************************************************)
\* Whether a follow-up may go from one state to another.
FollowUpAdvances(from, to) ==
  \/ from = to
  \/ from = "none" /\ to = "AWAITING_CONFIRMATION"
  \/ from = "AWAITING_CONFIRMATION" /\ to \in {"EXECUTING", "DECLINED", "EXPIRED"}
  \/ from = "EXECUTING" /\ to \in {"VERIFYING", "COMPLETED", "FAILED"}
  \/ from = "VERIFYING" /\ to \in {"COMPLETED", "FAILED"}

\* Nothing that one record says is missing from the other, or was taken back.
Extends(from, to) ==
  /\ IsPrefix(from.attempts, to.attempts)
  /\ IsPrefix(from.charges, to.charges)
  /\ from.attention \subseteq to.attention
  /\ from.claim.valid => to.claim = from.claim
  /\ \A f \in FollowUps : FollowUpAdvances(from.recovery[f].state, to.recovery[f].state)

\* No save forgets what another session recorded: attempts, charges and
\* notices are only added, a claim is never replaced, no follow-up goes back
\* to a state it has left, and nothing at all changes once the outcome is
\* final.  Every session writes back a whole copy it read earlier.
NothingIsForgotten == [][row.state \notin Terminal /\ Extends(row, row')]_row

\* A record whose claim is about the target can always be read again, however
\* many charges were reported against it, and under whatever names: what a later
\* session evaluates from the stored fields is what was stored (README.md, "A
\* later session retrieves the same resolution").
CorrelatedRecordReadable ==
  (row.state # "REQUESTED" /\ row.claim.valid /\ row.claim.digest = Target) => Decodes(row)

\* The charge of that name was reported once, under a name that is not empty.
ReportedOnce(rec, id) ==
  /\ id # Empty
  /\ \A i, j \in DOMAIN rec.charges :
       rec.charges[i].id = id /\ rec.charges[j].id = id => i = j

\* What a provider answered is not refused by the record contract: as long as
\* nobody else has saved, the claim, the verdict and the result of a support
\* follow-up can be stored.  A verdict on a charge is excepted when the charge
\* was reported more than once, or under no name: the contract may then judge by
\* another report, or by none.  The result of a follow-up goes by a time
\* from before its call, and fits behind the record's history only because no
\* look begins while it is being executed (confirm_recovery_action,
\* recheck_resolution).
SupportResult(w) == job[w].pc = "finish" /\ job[w].item \in FollowUps \ {"outcome_violation"}
Verdict(w) == job[w].pc = "conclude" /\ ReportedOnce(job[w].rec, LastAttempt(job[w].rec).charge)

AnswersAreStorable ==
  \A w \in Sessions :
    /\ job[w].pc = "record_claim" \/ Verdict(w) \/ SupportResult(w)
    /\ job[w].rec.version = row.version
    => CanSave(job[w].rec)

(***************************************************************************)
(* What was done is on record (calls that are not cut short)               *)
(***************************************************************************)
\* Once the call that executed the cancellation is past recording its claim,
\* the claim is on record, and so are the looks that need it
\* (confirm_resolution_action; src/closeloop/mcp_server.py reports a refused
\* save as "changed before this action could be applied").
ExecutedActionIsOnRecord ==
  (cancels = 1 /\ \A w \in Sessions : job[w].pc # "record_claim") => row.claim.valid

\* Once the call that executed a follow-up is over, its result is on record
\* (confirm_recovery_action).
FollowUpResultIsOnRecord ==
  \A f \in FollowUps :
    (followUpCalls[f] = 1 /\ \A w \in Sessions : job[w].item # f)
      => row.recovery[f].state # "EXECUTING"

\* Whatever a provider was asked to do and answered is on record once the call
\* is over (docs/architecture.md, "The provider receipt is recorded as a claim").
WhatWasDoneIsOnRecord == ExecutedActionIsOnRecord /\ FollowUpResultIsOnRecord

\* A confirmed resolution does not stay in progress: as long as no process
\* stops and no charge is reported, every call that moved it to EXECUTING or
\* VERIFYING, or another one that took over, brings it to an outcome or back
\* to AWAITING_PROOF, where the next look may begin.
ConfirmedIsJudged ==
  row.state \in {"EXECUTING", "VERIFYING"} ~> row.state \in Terminal \cup {"AWAITING_PROOF"}

(***************************************************************************)
(* Why they hold: the inductive invariants                                 *)
(***************************************************************************)
Current(w) == job[w].rec.version = row.version

\* Nothing is in progress before the record is first stored.
NothingBeforeStart ==
  row.state = "REQUESTED" => row = Unborn /\ \A w \in Sessions : job[w] = NoJob

\* The cancellation belongs to the one session whose claim of EXECUTING was
\* saved: a copy that still waits to claim it either is out of date, and will
\* be refused, or nobody has claimed it (confirm_resolution_action).
ExecutionIsClaimed ==
  /\ cancels <= 1
  /\ row.state \in {"REQUESTED", "AWAITING_CONFIRMATION"} =>
       cancels = 0 /\ \A w \in Sessions : job[w].pc # "execute"
  /\ \A w \in Sessions : job[w].pc = "execute" =>
       /\ cancels = 0 /\ ~job[w].rec.claim.valid
       /\ \A x \in Sessions : job[x].pc = "execute" => x = w
  /\ \A w \in Sessions : job[w].pc = "claim_execution" =>
       /\ job[w].rec.state = "EXECUTING"
       /\ Current(w) => row.state = "AWAITING_CONFIRMATION"

\* A copy that is up to date with the store says at least what the store says
\* when it is about to be saved, and exactly that between two saves
\* (save_owned compares the version the copy came from).
CopiesFollowTheStore ==
  \A w \in Sessions : job[w].pc # "idle" =>
    /\ job[w].rec.version <= row.version
    /\ Current(w) => IF job[w].pc \in SavePoints THEN Extends(row, job[w].rec)
                                                 ELSE job[w].rec = row

\* The session that claimed a follow-up, until its result is saved.
Holds(w, f) == job[w].item = f /\ job[w].pc \in {"call_recovery", "reload", "finish"}

\* A follow-up that is being executed belongs to at most one session, and
\* nobody else's copy would settle it (confirm_recovery_action).
FollowUpIsClaimed ==
  \A f \in FollowUps :
    /\ followUpCalls[f] <= 1
    /\ row.recovery[f].state \in {"none", "AWAITING_CONFIRMATION"} => followUpCalls[f] = 0
    /\ \A w \in Sessions : Holds(w, f) =>
         /\ row.recovery[f].state = "EXECUTING"
         /\ \A x \in Sessions : Holds(x, f) => x = w
         /\ job[w].pc = "call_recovery" => followUpCalls[f] = 0
    /\ \A w \in Sessions : (job[w].pc = "claim_recovery" /\ job[w].item = f) =>
         /\ job[w].rec.recovery[f].state = "EXECUTING"
         /\ Current(w) => row.recovery[f].state = "AWAITING_CONFIRMATION"
    /\ \A w \in Sessions :
         (job[w].pc \in SavePoints /\ Current(w) /\ row.recovery[f].state = "EXECUTING")
           => job[w].rec.recovery[f].state = "EXECUTING" \/ Holds(w, f)

\* What the saves rely on, as one induction.
OwnershipInv ==
  NothingBeforeStart /\ ExecutionIsClaimed /\ CopiesFollowTheStore /\ FollowUpIsClaimed

(***************************************************************************)
(* Why outcomes are proven and follow-ups settled: a second induction      *)
(***************************************************************************)
Support == FollowUps \ {"outcome_violation"}
HasSupport(rec, states) == \E f \in Support : rec.recovery[f].state \in states

\* When the look after an attempt is due.
DueAfter(attempt) == attempt.at + Interval * attempt.count

\* A verdict is that of the last look, which could close the window only at its
\* due time; and a next look is scheduled from a verdict.
Paced(rec) ==
  /\ rec.judged => rec.attempts # <<>> /\ LastAttempt(rec).count = rec.checks
  /\ (rec.judged /\ LastAttempt(rec).eligible) =>
       /\ Len(rec.attempts) > 1
       /\ LastAttempt(rec).at >= DueAfter(rec.attempts[Len(rec.attempts) - 1])
  /\ rec.nextCheck # Never => rec.judged /\ rec.nextCheck = DueAfter(LastAttempt(rec))

\* Every charge on record was observed by a time, and can be referred to.
ChargesKnown(rec, time) ==
  \A i \in DOMAIN rec.charges : rec.charges[i].id # None /\ rec.charges[i].at <= time

\* What the store says.
StoreIsSound ==
  /\ row.state # "REQUESTED" => ValidRecord(row)
  /\ Paced(row) /\ ChargesKnown(row, now)
  /\ HasSupport(row, {"EXECUTING"}) => row.state = "AWAITING_PROOF"
  /\ SupportIsSettled /\ NoVerifiedWithCharge

\* The way to a verdict.
BeforeVerdict == {"claim_execution", "execute", "record_claim", "claim_check", "read_back"}

\* What a session's copy says.  On the way to a verdict no support follow-up is
\* being executed, the charges were known when the look began, and a look that
\* may close the window is due; a final verdict leaves nothing pending and is
\* not VERIFIED over a charge.
CopyIsSound(j, time) ==
  /\ Paced(j.rec) /\ ChargesKnown(j.rec, time)
  /\ j.pc \in {"claim_execution", "execute"} => j.rec.state = "EXECUTING" /\ ~j.rec.judged
  /\ j.pc \in {"record_claim", "claim_check"} => j.rec.state = "VERIFYING"
  /\ j.pc \in BeforeVerdict =>
       /\ ~HasSupport(j.rec, {"EXECUTING"})
       /\ j.at # Never => ChargesKnown(j.rec, j.at)
       /\ j.eligible =>
            /\ j.at # Never /\ j.rec.attempts # <<>>
            /\ j.at >= DueAfter(LastAttempt(j.rec))
  /\ j.pc = "conclude" =>
       /\ ~HasSupport(j.rec, {"EXECUTING"})
       /\ j.rec.state \in Terminal => ~HasSupport(j.rec, {"VERIFYING"})
       /\ j.rec.state = "VERIFIED" => j.rec.charges = <<>>
  /\ (j.pc \in {"claim_recovery", "finish"} /\ HasSupport(j.rec, {"EXECUTING"})) =>
       j.rec.state = "AWAITING_PROOF"

\* A copy that changes a follow-up or adds a charge is in the state it was
\* loaded in.
FollowUpsKeepTheState ==
  \A w \in Sessions :
    (job[w].pc \in {"claim_recovery", "finish"} /\ Current(w)) => job[w].rec.state = row.state

OutcomeInv ==
  StoreIsSound /\ (\A w \in Sessions : CopyIsSound(job[w], now)) /\ FollowUpsKeepTheState

\* Every look is paid for: a session that is reading back has claimed its look,
\* and one that claims a look pays for exactly one (claim_check, record_claim).
Looking == {w \in Sessions : job[w].pc = "read_back"}

LooksArePaid ==
  /\ Len(row.attempts) <= reads
  /\ \A w \in Sessions : Len(job[w].rec.attempts) <= reads
  /\ reads + Cardinality(Looking) <= row.checks
  /\ row.checks <= MaxChecks
  /\ \A w \in Sessions : (job[w].pc \in SavePoints /\ Current(w)) =>
       job[w].rec.checks = IF job[w].pc \in {"record_claim", "claim_check"}
                           THEN row.checks + 1 ELSE row.checks

\* Between which states a copy stands: what is stored while it is up to date, and
\* what it will store (confirm_resolution_action, recheck_resolution).
StagesInv ==
  /\ IF row.claim.valid THEN cancels = 1 ELSE row.checks = 0
  /\ \A w \in Sessions :
       /\ job[w].pc = "record_claim" => cancels = 1
       /\ job[w].pc = "conclude" => job[w].rec.state \in Terminal \cup {"AWAITING_PROOF"}
       /\ Current(w) =>
            /\ job[w].pc \in {"execute", "record_claim"} => row.state = "EXECUTING"
            /\ job[w].pc = "claim_check" => row.state \in {"VERIFYING", "AWAITING_PROOF"}
            /\ job[w].pc \in {"read_back", "conclude"} => row.state = "VERIFYING"

(***************************************************************************)
(* Why what was stored is readable, and answers storable: a third induction *)
(***************************************************************************)
\* The first n recorded attempts evaluate to their verdicts again.  The claim
\* they were evaluated with is the stored one.
ReadBackUpTo(rec, n) ==
  /\ rec.attempts # <<>> => rec.claim.valid
  /\ \A i \in DOMAIN rec.attempts : AttemptTimely(rec, i)
  /\ rec.claim.digest = Target =>
       \A i \in DOMAIN rec.attempts : i <= n => AttemptReproduces(rec, i)

ReadsBack(rec) == ReadBackUpTo(rec, Len(rec.attempts))

\* Of a verdict that is about to be stored this is known of the attempts before
\* it; its own attempt is evaluated again by the save.
CopyReadsBack(j) ==
  IF j.pc = "conclude"
  THEN /\ ReadBackUpTo(j.rec, Len(j.rec.attempts) - 1)
       /\ j.rec.judged
       /\ LET last == LastAttempt(j.rec) IN
          last.charge # None => last.reason \in {"charge_observed", "charge_uncorrelated"}
  ELSE ReadsBack(j.rec)

\* The record moved after its last attempt, and not in the future.
InOrder(rec, time) ==
  /\ rec.movedAt <= time
  /\ rec.attempts # <<>> => LastAttempt(rec).at <= rec.movedAt

\* A look has a count and a time of its own.
LookIsNew(j) ==
  /\ j.pc \in {"claim_execution", "execute", "record_claim"} => j.at = Never
  /\ (j.pc \in {"claim_check", "read_back"} /\ j.at # Never) =>
       j.at \in Nat /\ j.rec.movedAt = j.at
  /\ (j.pc \in BeforeVerdict /\ j.eligible) => j.rec.checks >= MaxChecks
  /\ j.pc \in {"record_claim", "claim_check", "read_back"} =>
       \A i \in DOMAIN j.rec.attempts : j.rec.attempts[i].count < j.rec.checks
  /\ j.pc = "read_back" =>
       j.rec.claim.valid /\ Len(j.rec.attempts) < j.rec.checks /\ j.rec.checks <= MaxChecks

\* The record does not move behind a support follow-up.
FollowUpIsInTime(j) ==
  /\ (j.pc \in {"claim_recovery", "finish"} /\ j.rec.version = row.version) =>
       j.rec.movedAt = row.movedAt
  /\ j.pc = "claim_recovery" => j.rec.updatedAt = j.at
  /\ (j.pc \in {"call_recovery", "reload"} /\ j.item \in Support) => row.movedAt <= j.at

IsAnswer(j) ==
  \/ j.pc = "record_claim"
  \/ j.pc = "conclude" /\ ReportedOnce(j.rec, LastAttempt(j.rec).charge)
  \/ j.pc = "finish" /\ j.item \in Support

Fits(j) ==
  /\ CopyReadsBack(j) /\ InOrder(j.rec, now) /\ LookIsNew(j) /\ FollowUpIsInTime(j)
  /\ (IsAnswer(j) /\ j.rec.version = row.version) => CanSave(j.rec)

StorageInv == ReadsBack(row) /\ InOrder(row, now) /\ \A w \in Sessions : Fits(job[w])

(***************************************************************************)
(* Why nothing executed is missing, where nobody else writes: a fourth     *)
(***************************************************************************)
\* The session that was let through to the provider, until it has recorded what
\* it was answered.
Executing(w) == job[w].pc \in {"execute", "record_claim"}

\* No charges are observed, and no follow-ups executed.
Undisturbed == ChargeIds = {} /\ ~HasRecoveryProvider

ExecutionInv ==
  /\ \A w \in Sessions : job[w].pc \notin {"claim_recovery", "call_recovery", "reload", "finish"}
  /\ \A w \in Sessions : Executing(w) => Current(w) /\ row.state = "EXECUTING"
  /\ \A w, x \in Sessions : Executing(w) /\ Executing(x) => w = x
  /\ row.state = "EXECUTING" =>
       \A w \in Sessions : job[w].pc # "idle" /\ Current(w) => Executing(w)
  /\ cancels = 1 => row.claim.valid \/ \E w \in Sessions : job[w].pc = "record_claim"

(***************************************************************************)
(* Statements of the documentation that the code does not keep             *)
(***************************************************************************)
\* Every stored record can be read again (README.md, "A later session
\* retrieves the same resolution and can recheck it.").
StoredRecordIsReadable == row.state # "REQUESTED" => Decodes(row)

\* When the budget is spent without an outcome the resolution awaits proof
\* (docs/adversarial-security.md, "A check failure or exhausted budget remains
\* open as AWAITING_PROOF.").
ExhaustedAwaitsProof ==
  (row.checks = MaxChecks /\ \A w \in Sessions : job[w].pc = "idle")
    => row.state \in Terminal \cup {"AWAITING_PROOF"}
=============================================================================
