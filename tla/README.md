# CloseLoop in TLA+

CloseLoop carries out a cancellation on a customer's behalf and then refuses to
believe it: a provider's "done" is stored as a claim, an independent read-back is
compared with it by a deterministic verifier, and the resolution stays open until
the read-back proves an outcome. This directory holds the TLA+ specification of
that system, the TLC runs that check it on small instances and the TLAPS proofs
of what holds for instances of any size. Paths below are the repository's.

## The system

| Part | State it keeps | Operations | Talks to |
|---|---|---|---|
| Verifier, `verifier.py`, `models.py` | none | `verify_cancellation` | called by the service for every look, and by the record contract for every save and load |
| Record contract, `repository_contract.py` | none | `validate_new_record`, `validate_target_record`, `record_to_mapping`, `record_from_mapping` | called by both repositories |
| Repositories, `repository.py`, `dynamodb_repository.py` | one row per resolution, with a version | `create`, `get_owned`, `save_owned`, two listings (one statement, or page by page), schema creation | the database; shared by every process |
| Resolution service, `lifecycle.py` | none between calls; each call works on a copy of the row | `start_resolution`, `confirm_resolution_action`, `recheck_resolution`, `confirm_recovery_action`, `record_outcome_violation`; status, evidence, summary and receipt as views of the row | repositories, cancellation provider, recovery provider, confirmation verifier |
| Outcome management, `outcomes.py` | none; types of the row | reading a deadline from an intent, the notice a moment calls for | the service |
| Confirmation attestation, `confirmation.py` | none | verification of a signed consent | the service |
| MCP server, `mcp_server.py`, `alexa_contracts.py` | none | eight tools, each one service call in a worker thread | the service |
| Proof card, `mcp_app.py` | none | derives a title and the steps done from a status or an evidence payload, by rules of its own in JavaScript | whatever tool the host shows it the answer of |
| Public demo API, `public_demo_api.py`, `http_app.py` | a semaphore of demonstration slots | one route: admit, run one of seven scripted demonstrations in a thread, time out, release | a service of its own with a temporary database and a simulated provider |
| Authentication, `auth.py` | none | bearer token to owner | MCP server |
| Demo provider, `demo_provider.py` | a simulated subscription | cancel, read back | the service |

Everything that has to survive is in one row per resolution, and everything that
can go wrong goes wrong between the moments at which a call touches it. A
confirmation saves three times (claim of EXECUTING, claim of the provider,
verdict) with two provider calls in between; a recheck saves twice around one; a
follow-up saves once, calls its provider, loads the row a second time and saves
again. Calls run in threads and in separate processes, any of them may stop
between two steps, and the only coordination is the condition of `save_owned`:
same version, same history, not final.

What makes each part correct:

- Verifier: PASS and FAIL come from exactly the proofs the documentation names
  (never from a claim alone, never from a budget running out).
- Record contract: what it lets be stored can be loaded again; what the service
  produces is never refused.
- Service: the provider is asked once; looks are within the budget and paid for
  before they are made; an outcome is earned, final, and reproducible from the
  row; a follow-up is executed once and does not outlive the resolution; no call
  takes back what another recorded; a confirmed resolution does not stay stuck.
- Repositories: both keep the same condition, atomically. A listing says what was
  so while it was made, overlooks nothing that stayed, and lets nothing fall
  between the open resolutions and the recent ones.
- Views and proof card: nobody is told of an outcome, a step or a receipt that is
  not there; card, summary, notice and receipt tell the same; a payload that was
  altered shows no other outcome.
- Confirmation: what is begun was agreed to, to this very action, once and
  recently; what the verifier lets through the record contract accepts.
- Schema: nobody works on a table that lacks a column; processes that migrate at
  the same time do not make each other fail, nor keep the lock.
- Intents: the deadline that is read is ahead, and on the day that was meant.
- Demo API: a slot is given back exactly once on each of its ways out; a
  demonstration comes to the outcome it is there to show on every day of the week.

## Modules

| Module | What it models |
|---|---|
| `Verifier` | `verify_cancellation` as a function of receipt, evidence, charge, deadline and time |
| `RecordContract` | the row (`Record`), the lifecycle graph, `validate_target_record` (`ValidRecord`), `record_from_mapping` (`Decodes`) |
| `ResolutionService` | the service over the repository: sessions, saves, provider calls, the clock |
| `OutcomeLedger` | abstract specification: what a resolution promises the customer |
| `ResolutionProperties` | properties of the service, the refinement mapping, the inductive invariants |
| `Views` | status, evidence, conversation, receipt: what a caller is shown of a row |
| `ProofCard` | `deriveView` and what it calls: the title and the steps the card shows of a payload |
| `CustomerView` | composes `ResolutionProperties` and `ProofCard`: what the customer is told against what the service did |
| `MCVerifier` | evaluation harness: one state per input of `Verify`, and the card of its judgement |
| `MCResolution` | provider answers and intents for the runs of the service |
| `Listing` | the two listings of both repositories over several rows that change |
| `Attestation`, `MCAttestation` | consent: tokens, and their judgement by the verifier and by the record contract |
| `SchemaCreation`, `MCSchema` | `_ensure_schema`: threads and processes that create and complete the table |
| `DemoAdmission` | the public demonstration's slots, threads, timeout and disconnection |
| `Intent` | the deadline an intent is read to ask for |
| `Demonstration` | one demonstration: a script of calls to `ResolutionService`, with the simulated providers and the code's own waiting times |
| `PublicDemo` | composes `DemoAdmission` and `Demonstration`: one request's thread step by step, the others beside it |
| `ResolutionOwnershipProofs`, `ResolutionLedgerProofs`, `ResolutionRecordProofs` | proofs about the service, each extending the one before: types and who may save what; outcomes, looks and the ledger; what is stored, read again and told |
| `ListingProofs`, `VerifierProofs` | proofs about the listings; about the verifier and the card |
| `AttestationProofs`, `SchemaProofs` | proofs about consent and the schema |
| `DemoJourney` | where the record, the copy, the clock and the script of a demonstration stand at every place of its thread: the inductive invariant of the public demonstration |
| `PublicDemoProofs` | proofs about the slots, the deadline of an intent, and the demonstrations |

Consent, schema creation and the demonstration are modules of their own because
they share no state with the row: `ResolutionService` begins where the schema
exists and takes a consent as verified (its `attested`), and a demonstration is a
service of its own over a temporary database, which `Demonstration` instantiates. A listing needs several rows but of
each only whether it is open, final or unreadable and its two times, so `Listing`
has a table of such rows instead of several copies of the service.

### How the model corresponds to the code

`row` is the stored record of one resolution (`REQUESTED` before `create`).
`job[w]` is a call being served: its place `pc`, its copy `rec`, and the local
variables that survive a save or a provider call (`at` is `current_time`,
`eligible` is `terminal_failure_eligible`, `item` the recovery identifier,
`succeeded` what the recovery provider's receipt amounts to). `now` is the
clock. `cancels`, `reads` and `followUpCalls` count what the providers were
asked for and are read by properties only.

A step of the model is what the code does without letting go: from a load to the
save it prepares, a provider call with everything computed from its answer, one
conditional save. Guards are the early returns and raised errors of the code; a
call that raises before it saves changes nothing and is no step.

| Code | Actions |
|---|---|
| `start_resolution` | `Start` |
| `confirm_resolution_action` | `LoadConfirm`, `ClaimExecution`, `Execute`, `RecordClaim`, `ReadBack`, `Conclude` |
| `recheck_resolution` | `LoadRecheck`, `ClaimCheck`, `ReadBack`, `Conclude` |
| `confirm_recovery_action` | `ExpireRecovery` or `DeclineRecovery`, then `Finish`; or `AcceptRecovery`, `ClaimRecovery`, `CallRecovery`, `ReloadRecovery`, `Finish` |
| `record_outcome_violation` | `LoadCharge`, `Finish` |
| `save_owned`, refused | `SaveRefused` |
| the end of a process, or an answer of the store that never arrives | `CallLost` |

`get_owned` refuses a row that does not decode (`Loadable`). `save_owned` of the
SQL repository checks in the order final, version, history, contract, inside one
transaction; the DynamoDB one checks the contract and puts the rest into one
conditional put. Both accept and refuse the same saves, so one `CanSave` stands
for both. A DynamoDB put that was stored but reported as a conflict by a client
retry is `Save` followed by `CallLost`.

Abstractions of data. A target digest is this target's, another's or absent. A
freshness is one of four ranges, because 30 and 300 seconds are all the code
compares it with. A reason is a name for the sentence that is stored. The
identifier of an attempt matters only through being the one the read-back was
asked for (`bound`). A charge has two names, as in the code: the `id` by which an
attempt refers to it (`violation_id`) and the `evidence` by which a repeated
report is refused (`evidence_id`); nothing makes the first unique, and it may be
empty. The order of the times of confirmation, claim and read-back, which the
record contract asks for, is left out of `EvidenceValid`: all are taken from the one
clock as the record moves. A recovery provider that answers with something that is
no mapping at all ends the call with an error after the side effect, which leaves
behind what `CallLost` does. The four verdict fields, which are written and cleared together, are
`judged` and the last attempt. The state history is its length and the time of
its last entry. A follow-up is identified by its reason, which is unique in a
record. The consent attestation is taken as verified and becomes `attested`. A
deadline is an input, which `Demonstration` takes from `Intent`. Times are ticks; `Lag` bounds how
long before its load a call of `confirm_recovery_action` or
`record_outcome_violation` may have read the clock.

`Attestation`: an action is described by owner, resolution, kind, identifier and
everything else its digest covers ("terms"); a token by what the authority showed,
whether the customer agreed, its times, whether it is "genuine" (signature,
issuer, audience, well-formed claims), and whether its identifier is more than white
space (`named`). Whether the configured issuer's name is short enough for the record
contract (`issuerFits`) is chosen at the beginning. The clock has `TicksPerSecond` ticks, because
the verifier cuts it to whole seconds (`WholeSecond`) and the record contract does
not. `Confirm` is the part of `confirm_resolution_action` and
`confirm_recovery_action` from the loaded record to the save of EXECUTING.

`SchemaCreation`: one step per statement (`FindTable`, `CreateTable`, `Inspect`,
`AddColumn`, `CheckColumn`), a lock and a flag per process. A write that fails may
have been done all the same. Columns are numbered in the order of the loop; the
indexes that come with the table are left out.

`Views` and `ProofCard` are functions of a row and of a payload. A payload has the
fields the card reads; JavaScript's `undefined` and `null` are the absent values
of `Views`, and a nested object that is not what it should be has `valid` FALSE.
Every sentence is the name of what it says. `CustomerView` applies them to the
row in every reachable state of the service.

`Listing`: `table` holds the owner's rows by identifier, which is the order in
which DynamoDB pages through them. The SQL listing is one step; the DynamoDB one
reads an item per step, because nothing isolates an item from the next, and sorts
and cuts at the end, where the code does. A row that does not decode fails a
listing that reads it. Records of equal times come in any order from SQL and in
that of their identifiers from DynamoDB (`Orders`). `Delay` is the time between reading the clock and the write
that uses it, so that rows are not stored in the order of their times.

`DemoAdmission`: `slots` is the semaphore, `waiting` the handlers that wait for
their task, `callbacks` the tasks that will give their slot back themselves.

`Intent`: a moment is counted in half minutes from a Monday, and of a sentence only
what it says of a deadline is kept. `Demonstration`: `script` is what the thread has
yet to do. A call of the service is a step (`Start`, `Confirm`, `Look`, `FollowUp`,
`ReportCharge`) and its further steps are those of `ResolutionService` (`Serve`),
with the answers of the scenario's provider (`View`). `PassTime` sets the service's
clock to the time the script passes to the next call, and is reckoned as the script
does it: from the deadline, from the step before, or from the next check that the
status gave. A step that cannot be taken is an exception (`Raises`), a result that
the response model refuses is one as well (`Presentable`). The real seconds that a
demonstration takes count as none. The service has a recovery provider in every
scenario; the five that have none in the code never come near the deadline, before
which theirs is not asked for.

Definitions whose comment begins with "Slip" are mistakes the definition after
them guards against. The specification does not use them; they are what the
properties were tried against.

## Runs

The runs of the service use `MCResolution` with two sessions, which is the least at
which saves conflict; a third would only add more conflicting copies of the same
row, and the theorems cover any number. Sessions are interchangeable, so runs
without liveness use symmetry.

| Run | Configuration | What it shows |
|---|---|---|
| verifier | `MCVerifier.cfg` | PASS and FAIL are earned, over every receipt and evidence, and charges around each threshold; the card of a judgement cannot be altered into another outcome |
| lifecycle | `MCLifecycle.cfg` | confirm and recheck with four kinds of receipt, three kinds of evidence, three looks, four ticks, calls that stop anywhere; the ledger is implemented |
| charges | `MCCharges.cfg` | one charge reported at any time around a confirmation, looks, refund preparations and support follow-ups on one record, with clocks read early; the steps, summary, next step and notice a customer is shown meanwhile |
| several_charges | `MCSeveral.cfg` | up to two reports of charges, of the same or of different names, one of which may be empty, around a confirmation and looks: what was stored finds the charge it weighed again, and verdicts are storable |
| progress | `MCProgress.cfg` | liveness of confirmed resolutions, no process stops |
| listing | `Listing.cfg` | three rows that are created and saved while they are listed, from either repository |
| consent | `MCAttestation.cfg` | tokens of any time about any action, at any half second |
| schema | `MCSchema.cfg` | two processes, three threads, two added columns, two failures, every table to begin with |
| public_demo | `PublicDemo.cfg` | three requests for two slots, one of which runs each of the seven demonstrations through the service |
| lost_action, unreadable, exhausted | `MCLostAction.cfg`, `MCUnreadable.cfg`, `MCExhausted.cfg` | statements of the documentation that the code does not keep (see Findings) |

Properties:

- `PassIsEarned`, `FailIsEarned`: from exactly the proofs the documentation names.
- `CancelAtMostOnce`, `FollowUpAtMostOnce`: side effects happen once under
  races, takeovers and stops.
- `LooksAreBudgeted`: recorded attempts <= read-backs made <= looks paid for
  <= budget.
- `OutcomeIsProven`: a final outcome rests on consent, on an accepted claim and
  on the last look, with what each verdict needs; failure for a renewal that
  stays on needs a look that `ClosesWindow`.
- `NoVerifiedWithCharge`: no VERIFIED over a recorded charge.
- `SupportIsSettled`: a final resolution leaves no support follow-up executing
  or waiting.
- `NothingIsForgotten` (action property): saves only add, and never touch a
  final row.
- `CorrelatedRecordReadable`, `AnswersAreStorable`: the record contract reads back
  what it accepted, and accepts what the service produces. The second excepts the
  verdict on a charge whose name was reported more than once, or is empty: there
  the contract may refuse it (see Findings).
- `RefinesLedger`: the row implements `OutcomeLedger!LedgerSpec`.
- `ExecutedActionIsOnRecord`, `ConfirmedIsJudged`: nothing executed is missing
  from the record, and a confirmed resolution is judged.
- `CardIsNotFooled`, `CardTellsTheOutcome`, `ProgressIsTrue`: the card shows no
  outcome that the payload does not prove, the true title of every status and the
  true or no title of every evidence, and no step before it was done.
- `AnswersAgree`, `ReceiptIsBacked`: summary, next step and notice tell the same,
  and a receipt has what it rests on to show for it.
- `ListedAsItWas`, `NothingIsOverlooked`, `NoneFallsBetween`: the listings.
- `ConsentIsToThisAction`, `OneActionPerConsent`, `ConsentIsRecent`,
  `JudgementsAgree`: consent binds, is used once, does not age, and is judged alike
  twice but for the fraction of the last second, a blank token identifier and an
  issuer's name that is too long, with which a cancellation passes the verifier and
  is refused when it is stored, and a follow-up is accepted.
- `ServedOnCompleteTable`, `MigratorsDoNotCollide`, `LockIsObtained`: the schema.
- `OneKeeper`, `SlotsAccounted`, `ThreadsAreBounded`, `SlotsComeBack`: the slots.
- `ShowsWhatItSays`: no demonstration raises, and each ends with the state that
  `tests/test_public_demo_api.py` names, in a form the response model accepts.
  `SlotsComeBack` covers its thread as well: that it ends follows from its script
  and from the service, and is not assumed as it is of the other threads.

Bounds. `MaxTime` and the length of the waiting times are the only bounds the
specification itself knows; every other counter is bounded by the code (looks by
`MaxChecks`, versions and history by the looks, charges by `EvidenceIds`). The
code's budget is four; two or three looks already have a first, a forced, a taken
over and a final one. `MaxTime` is long enough for the final look to fall due
(with `Interval` 1: tick 3 for three looks), for VERIFYING to go stale, and for a
deadline at tick 1 to be approaching, reached and passed. Waiting and expiry
times are one or two ticks, so that both sides of each comparison, and equality,
are reached. TLC stops at the bound on time and at final outcomes, so runs of the
service and of listings do not check for deadlock; progress is the subject of
`ConfirmedIsJudged`. `schema` and `public_demo` never stop and do check for it.

`charges` has one charge, next to follow-ups and calls that are lost.
`several_charges` has two reports without them: the least number at which the charge
that is weighed (the latest) and the one that is found again (the first of its name)
can differ. A charge is too old in it as soon as a tick has passed
(`ChargeMaxAge` 0), and `MaxTime` 3 lets a report come before, between and after two
looks. That no save drops a charge, and that attempts find theirs again, is proved
for any number (`Remembered`, `CorrelatedReadable`). `verifier` alters up to three fields
of a payload (`MaxAltered`), because a status of NOT_COMPLETED differs from one of
VERIFIED in four, and whoever may alter all of them can send any card; three is
what is proved, and with four TLC shows a card that is fooled
(`AlteredAssumption`). `listing`
has three rows for a limit of two, which is one more than a listing returns, and
one tick of time, at which two rows have the same time or either order. In
`consent` ages and lifetimes are one and two seconds of two ticks, so that a token
is fresh, in the fraction of its last second, too old, not yet valid and expired.
In `public_demo` all times are the code's own, in half minutes (`MaxTime` is fifteen
days, past every deadline and what the scripts do after it), and `Moments` are four
moments of the week: its beginning, the last half minute of a Thursday, the first
and the last of a Friday. The second has the nearest deadline there is, seven days
and half a minute ahead, the third the farthest, fourteen days; a script reckons no
time from anything else of the week. Three requests for two slots have one that is served, one beside
it and one that is turned away.
`MaxFaults` counts failed statements and restarts in `schema`; two are enough for
one process to fail and the other to meet what it left.

Fairness. `FairSpec` has weak fairness of `Proceed(w)` for every session: a call
that was begun is carried on by the thread that serves it, and a provider's
answer, of whatever kind, arrives (provider calls that raise are answers). Nothing
is assumed of `Ask` (nobody has to call again), `Tick` or `Start`. `progress` is
run without `CallLost` and without charges, which are the two things that strand
a resolution in EXECUTING: the first is documented (`docs/trust-model.md`), the
second is a finding. `SchemaCreation!FairSpec` lets threads run and statements be
answered, and assumes nothing of the order in which threads get the lock.
`PublicSpec` lets the thread that is followed take its next step (it waits for
nobody: its database and its provider are its own), the other threads end, handlers
wait a bounded time (`wait_for` has a timeout) and the event loop call its
callbacks; nobody has to disconnect.

## Proofs

`tlapm` checks every step of the eight proof modules. The proofs about the service
assume what the modules assume of the constants (`MaxChecks` and `Interval`
positive, times and `Lag` natural numbers, provider answers of their types, no
name of a charge or of its evidence equal to "none", finitely many sessions) and nothing of the
number of sessions, the budget, or the bound on time. The others are as
free: any number of records, requests, slots, processes and columns, any moment at
which an intent is read or a demonstration begins; only `CardNotFooled` needs its bound (`MaxAltered`). Each
invariant of the service is inductive relative to those before it:

1. `TypeCorrect`: `Spec => []TypeOK`. Inductive by itself: operator by operator,
   then action by action.
2. `Ownership`: `Spec => []OwnershipInv`. `CancelAtMostOnce` is not inductive: it
   needs that a session about to call the provider is the only one, and that no
   call was made yet; that in turn needs to know what a copy which waits to claim
   EXECUTING implies about the row. `OwnershipInv` says: (a) before the row is
   stored nothing is in progress; (b) a copy that waits to claim the cancellation
   is out of date or the row still awaits confirmation, and the claimed call
   belongs to one session; (c) no copy is ahead of the row, and one that is not
   behind it says at least what the row says (`Extends`), exactly that when no
   save is pending; (d) the same as (b) for every follow-up, with the addition
   that nobody else's up-to-date copy settles a follow-up being executed. Every
   save raises the version, so it puts all other copies out of date: the lemmas
   `SaveKeepsOwnership`, `LoadKeepsOwnership`, `DropKeepsOwnership` and
   `ProgressKeepsOwnership` say what the four kinds of step do to (a)-(d), and
   each action is reduced to one of them. `CancelledOnce` and `FollowedUpOnce`
   follow from (b) and (d), `Remembered` (`Spec => NothingIsForgotten`) from (c)
   and the conditions of a save.
3. `OutcomeSound`: `Spec => []OutcomeInv`. What a final row says was prepared in a
   copy long before, so the invariant speaks of copies as well: a verdict is that
   of the last attempt and a next look is scheduled from it (`Paced`); a look that
   may close the window is due; its charges were known when it began; no support
   follow-up is being executed on the way to a verdict; a verdict that is final
   leaves none pending and is not VERIFIED over a charge. `SupportSettled`,
   `ChargeNeverVerified` and `OutcomeProven` follow.
4. `LooksPaid`: `Spec => []LooksArePaid`. `LooksAreBudgeted` is not inductive: two
   sessions may look at once, after a takeover. The read-backs made *plus the
   sessions that are about to make one* are at most the looks counted, and an
   up-to-date copy that claims a look counts one more than the row.
   `LooksBudgeted` follows.
5. `StagesKept` and `ImplementsLedger`: `Spec => RefinesLedger`. `StagesInv` says
   between which states an up-to-date copy stands and whose claim is on record;
   with it every save is one step of the ledger (`SaveRefines`), the provider call
   is its cancellation, and all else is a stutter.
6. `StorageSound`: `Spec => []StorageInv`, from all of the above. Every recorded
   attempt of the row evaluates to its verdict again (`ReadsBack`), however many
   charges share a name. Of a verdict that is about to be saved this is not so: the
   charge that was weighed is the latest, the one that is found again the first of its
   name. It holds of the attempts before it (`CopyReadsBack`), and the save evaluates
   the last one as reading will, so that what passes reads back (`VerdictReads`) and
   what does not is refused. A charge that is added later displaces none that is
   referred to, because it goes to the end of the list (`FirstStays`). Times follow
   each other in row and copy (`InOrder`), as seen from a clock that moves on; a
   look's count is new; a row does not move while a support follow-up is executed
   (`FollowUpIsInTime`); and what was answered can be saved while the copy is
   current (`Fits`), of verdicts on a charge only if the charge was reported once and
   under a name (`ReportedOnce`, `WeighedIsFound`). `AnswersStorable` and `CorrelatedReadable` follow.
7. `ExecutedRecorded`: what was executed is on record, assuming that no call is
   cut short, no charge is observed and no follow-up executed. `lost_action` shows
   that these are not idle assumptions.
8. `ToldAsItWas`: `Spec => []ToldInv`. Summary, next step, notice, receipt and card
   are worded from different fields, and none of what they promise is inductive. What
   keeps them together is that a notice of an outcome is in the record exactly when
   its state is that outcome (`NoticesFit`, also of the copy that is about to be
   saved, from the moment its verdict is reached), that a history is as long as the
   looks it took (`HistoryFits`, from which the card reads whether evidence is of a
   first look), and that an absent claim says nothing (`ClaimFits`). With
   `OutcomeInv`, `StagesInv` and `StorageInv` it gives `AnswersAlike`,
   `ReceiptBacked`, `CardTrue` and `ProgressTrue`, whose proofs go through the titles
   and the summaries one state at a time.

The others:

- `ServedOnComplete`: `SchemaInv` adds what a call may rely on: the columns it has
  passed are there, because the table only grows (`TableGrows`), also when another
  process added them. `NoCollision` needs that a call whose ALTER TABLE failed has
  a failed statement of its own, or finds the column in the table when it looks
  (`BlameInv`).
- `KeptByOne`, `SlotsAreAccounted`, `ThreadsBounded`: the count of slots is
  inductive only with `OneKeeper` (`Accounted`): a slot may be given back because
  whoever does so is its only keeper.
- `ConsentToThis`, `ConsentForOne`, `ConsentRecent`, `JudgedAlike`: from an
  invariant that keeps every begun action's token together with the time at which
  it was judged (`ConsentInv`), from what a digest tells (`DescriptionAssumption`:
  actions are records of the fields it covers; that it is free of collisions is
  taken as given), and from arithmetic of whole seconds (`WholeSecondsTell`) for
  any resolution of the clock.

- `AsItWas`, `NoneOverlooked`, `NoneBetween`: the listings, for any number of records,
  limit and `Delay`. One half of the argument knows nothing of time: of whatever was
  collected, the first `Limit` of any sorted list are right (`CutIsRight`, for every
  list in `Orders`). The other, `ListingInv`, says what is collected while records
  change: each entry was so since the listing began, and a record that belonged all
  the while and has been passed is among them (`CollectedInv`). `NoneBetween` needs
  that an outcome is for ever: what the first listing left out without being full is
  final when the second begins (`BetweenInv`).
- `PassExplained`, `FailExplained`: what `Verify` answers equals an order-free
  statement of what it should, for every input, every time and every charge.
  `PassEarned` and `FailEarned` are their instances for the inputs of the run.
- `CardNotFooled`: an outcome is told in four fields of a payload, and the card shows
  one only if all four tell the same. `CardInv` counts the fields that do not tell
  what was judged, and the count is at most the number of fields that were altered,
  whatever is put into them. So fewer than four alterations show no other outcome.
- `ImplementsAdmission`: every step of `PublicNext`, the scripts and the service
  behind them included, is a step of admission or leaves it alone, so that the slots
  of the public demonstration are accounted for (`PublicDemoAccounted`) whatever the
  demonstrations do. `DemonstrationMayBegin`: their deadline is always one that the
  service takes.
- `DeadlineLiesAhead`: the deadline that is read from an intent is a midnight, ahead
  by at most fourteen days, and a Friday's if a Friday was asked for, at whatever moment
  the request is made. By cases on what was asked; the remainder of the weekday
  (`FridayAhead`) is looked at for each of seven days.

- `DemonstrationOnItsWay`, `ShowsTheTruth`: `PublicSpec => []ShowsWhatItSays`, whatever
  moment a demonstration begins at and whatever the other requests do. The property
  speaks of the end of a script and of calls that raise, and is far from inductive:
  whether the last call succeeds was settled by what the customer was told, offered and
  charged many calls before. `DemonstrationInv` says of every place of the thread at
  which stage its row and its copy are (`Born`, `Agreed`, `Asked`, `Looking`, `Resting`,
  `Final`), and of every scenario what is left of its script there, and what time it is
  (`Story`, and `LookStory` and `FollowUpStory` while a call is being served). It is
  kept because of one lemma for each thing that can become of a record (`LookRests`,
  `LookEnds`, `LookTells`, `FollowUpMoves`, `ChargeIsTold`, ...), which know nothing of
  threads, and one for each action of the thread, which know nothing of what a look
  concludes. Three consequences are the property: no save is refused
  (`NothingIsRefused`), every call can be made when its turn comes
  (`EveryStepIsPossible`), and what is returned at the end is a result that may be shown
  (`FinishedAsAnnounced`). That the last look of the longest script still falls before
  the deadline rests on `DeadlineIsAWeekAway`: a demonstration's intent never has a
  deadline nearer than that.

Only model-checked: liveness (`ConfirmedIsJudged`, `LockIsObtained`,
`SlotsComeBack`), which is out of the prover's reach, and with it that the public
demonstration keeps the fairness of admission.

## Findings

Each is a run in which TLC must find the violation.

- **lost_action**: a charge stored while the cancellation call is out makes the
  save of its answer fail (`lifecycle.py:330`). The cancellation was executed,
  its receipt is gone, and the record stays in EXECUTING. The caller is told
  that the resolution changed before the action could be applied. The result of a
  follow-up is lost the same way (`lifecycle.py:692`); the follow-up then stays
  EXECUTING and blocks every recheck.
- **unreadable**: a claim without a target digest is evaluated against the
  record's target when written and against no target when read
  (`repository_contract.py:130`), so the stored record does not load again.
- **exhausted**: a process that stops during the last look leaves a spent budget
  in VERIFYING; the takeover is refused (`lifecycle.py:365`) although
  `docs/adversarial-security.md` says the resolution awaits proof.

More places where the code does less than one may read into the documentation,
without a run of their own:

- A charge is refused as a duplicate by its `evidence_id`
  (`lifecycle.py:727`), weighed from its latest report (`lifecycle.py:427`) and
  looked up by its `violation_id`, of which the first report is found
  (`repository_contract.py:428`). When the same violation is reported again with new
  evidence after the first report is over seven days old, every look judges
  "Not completed" and every save of that verdict is refused, until the budget of
  looks is spent in VERIFYING. `docs/verification-matrix.md:59` says that a charge
  produces "FAIL/Not completed". A charge under an empty `violation_id` is never
  found when a verdict is saved (`repository_contract.py:431`), with the same effect.
- The evidence of a resolution that awaits proof always has a verification object, and
  the card takes every payload with one that claims no outcome as invalid
  (`mcp_app.py:694`): it shows "Proof unavailable" where `apps/mcp-app/README.md`
  promises "Awaiting proof". The card of the same record's status shows it.
  `CardTellsTheOutcome` allows no title for the card of an evidence.
- Looks may be forced ahead of time, and `terminal_failure_eligible`
  (`lifecycle.py:354`) asks only that the last one is not early. The window after
  which failure may be recorded can so shrink to its last interval, which is what
  `OutcomeIsProven` states (`ClosesWindow`); `docs/trust-model.md` speaks of the
  four-check window having elapsed.
- `create_all` looks for the table and then creates it; the second of two processes
  on a new database is refused once, although the database is well
  (`MigratorsDoNotCollide` excepts this). `docs/architecture.md` calls schema
  creation idempotent.
- The card of the evidence of an outcome that took more than one look, or that
  rests on a charge, shows "Proof unavailable" (`mcp_app.py:567` expects the
  history of a first look): `CardTellsTheOutcome` excepts these.
- A proposal that is still open when an outcome becomes final can never be answered,
  because a final row accepts no save; it is shown all the same.
- A token with a blank identifier, or of an issuer whose name has more than 512
  characters, passes the verifier (`confirmation.py:179`) and is refused by the record
  contract (`repository_contract.py:317`): no cancellation can be confirmed with it,
  and follow-ups can. `JudgementsAgree` states exactly this difference.
- The result of a refund preparation is stamped with the time before its call
  (`lifecycle.py:691`), and refused when a look was saved meanwhile; the draft was
  prepared.
- Asking for the recent resolutions before the open ones may miss one that becomes
  final in between. `NoneFallsBetween` states what the other order promises.

## Not modelled

- Voice schemas, routing and token verification keep no state and answer in one
  call. The card's evidence table, its style sheet and all wording are layout.
- The wording of the demonstrations' stories, the parsing of their requests, and the
  real time they take between one call and the next.
- Of the sentence of an intent, everything but what it says of a deadline.
- Clocks that differ between processes: one clock, read up to `Lag` early. With
  more than that the code promises nothing about the order of times.
- Rows written by earlier versions of the program (a missing target, contract or
  history), which `record_from_mapping` upgrades when it reads them.
- DynamoDB's limit on the size of an item.
- `scripts/` and `infra/` are development tools.

## Plan

Done: the verifier, the record contract, the service over one row, the ledger of
promises and its refinement, views and proof card, listings, consent, schema
creation, the demonstrations, their slots and their deadlines. Every safety
invariant that a run checks is proved.

Left, in this order:

1. Clock skew between sessions in `ResolutionService`, and what remains true of
   the order of times in the row.
2. `record_from_mapping` on rows of earlier versions.
