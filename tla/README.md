# TLA+ models of SIGN

SIGN is a contract-management platform: a NestJS backend over Postgres
(`src/backend`), an AI backend of Celery tasks (`src/ai-backend`) and several web
front ends (`src/apps`). The state that matters lives in Postgres, shared by HTTP
requests, Bull queue workers, schedulers and background pollers that run at the
same time. What is hard in this code is therefore what concurrent transactions,
lost calls and crashes can do to rows that several of them read and write. These
modules model that, statement by statement, for the core of the backend: the
metering engine, the three metered consumers that hold a reservation across
external AI jobs, the negotiation of a contract up to its signature, and the
signing by guests.

## 1. The system

| Component (under `src/backend/src/modules`) | State | Operations | Interacts with | What makes it correct |
|---|---|---|---|---|
| Metering engine (`metering`) | `metering_ledger`, `metering_balance` | reserve, commit, release; sweep | every AI feature reserves before it dispatches a job and settles when the job ends | no charge lost or doubled; one settler per reservation; no grant over its limit; no capacity held for ever |
| Metering limits | subject and plan allowances | resolve subject, window, limit | engine | override, then plan, then default |
| Document processing (`document-processing`) | `document_uploads`, clauses, two jobs each | upload, advance by poll or driver, edit, reprocess | metering, AI backend, pin | clauses stored once; the charge follows the delivery; every document ends |
| Review finalization (`document-processing`, `risk-analysis`) | `risk_analyses`, pollers in memory | finalize, poll, clear, save; annotate, handle, merge | metering, AI backend | one charge per run; people's work survives |
| Compliance checks (`compliance`) | checks, findings, obligations | start, poll | metering, AI backend | only delivered runs are charged, only others refunded; overlapping polls agree |
| Clause redlines (`redlines`) | `clause_redlines`, `clauses`, `contract_clauses` | propose, accept, reject, counter, withdraw | lane hook, snapshot, pin guard | one decision per redline; promotions form one chain; nothing half promoted |
| Negotiation lane (`contracts/services/negotiation-status`) | `contracts.negotiation_status` | agree, ready to sign; hooks of share and propose | redlines, contracts | only edges of the map; agreed means the table is clear |
| Signed-state pinning (`contracts/services/contract-pinning`) | pin columns of `contracts`, `contract_versions` | mark as signed; DocuSign completion; guest signature | redlines, clauses, documents (guard) | pinned text is the text that was live, and stays so |
| Guest sign slip (`contracts/services/guest-sign-slip`) | `guest_sign_slips` | issue, void, accept and execute | pin, guest binding, connection pool | an executed slip names the pin; a revocation wins; calls come back |
| Contracts and clauses | `contracts`, `contract_versions`, `clauses` | status changes, snapshots, edits | all of the above | saves do not undo what others wrote |
| Guest portal | invitations, bindings, daily counts | exchange, bind, revoke, chat, upload | metering, accounts | a revoked guest is out; caps hold |
| Accounts | users, sessions | login, lockout, refresh | guests | the lock trips |
| Notices: redline digest, reminders, email queue | batches, reminder logs | claim and send | redlines, obligations | each notice at most once |
| Portfolio export, DocuSign, ERP sync | jobs, tokens, envelopes, runs | run, download, webhook, sync | storage, pin, external services | redelivery changes nothing |

Everything else (projects, users, claims, notices, chat, analytics,
administration, knowledge assets, front ends) creates, reads and edits single
rows, or is a thin client of an external service. `PROJECT.json` lists every
component with its status and the reason.

The hard behaviours are of four kinds. Transactions at READ COMMITTED interleave
statement by statement (the startup check in `MeteringService.onModuleInit`
insists on that level). Entities are loaded, checked, and saved much later as a
whole, so a save can write back columns somebody else has changed. Consumers
hold a reservation across an external job and may die. Sweepers, schedulers and
pollers act on what they read outside any transaction. `PROJECT.json` lists the
hazards, each at the line where it bites, with the properties that would catch it.

## 2. The modules

```
LedgerSums ── MeterQuota (abstract) ─┬─ Compliance ─┬─ MCCompliance
    │                                │              └─ ComplianceProofs
    │                                ├─ DocumentProcessing ─┬─ MCDocuments
    │                                │                      └─ DocumentProcessingProofs
    │                                └─ Review ─┬─ MCReview
    │                                           └─ ReviewProofs
    └──────── Metering ─┬─ MCMetering
                        └─ MeteringProofs

Negotiation ─┬─ MCNegotiation          GuestSigning ─┬─ MCGuestSigning
             └─ NegotiationProofs                    └─ GuestSigningProofs
```

The models follow the same conventions. **One action is one SQL statement**, or a
run of statements that touch nothing another process writes. The table variables
hold **committed** rows. What an open transaction has written follows from its
program counter and arguments, and appears in the tables when it commits; a
rollback is the call returning with the tables unchanged. **Row locks are read off
the program counters**: a statement that needs a row another open transaction holds
is disabled until that transaction ends and then sees the committed row, which is
what Postgres does at READ COMMITTED. A TypeORM `save(entity)` is **two
statements**: a SELECT that compares the entity, as it was loaded and changed, with
the row, and an UPDATE of the columns that differ, the columns somebody else has
changed meanwhile included. An error, a lost connection or the death of a process
ends a call at any statement.

### `LedgerSums`, `MeterQuota`

`MeterQuota` is what the engine promises, in two actions: a key is granted once,
while the live grants of its window leave room under the highest limit in force
so far; a grant ends committed or released. `LedgerSums` defines how much a ledger
uses, as the cardinality of the set of units taken rather than a recursive sum,
so that the provers can reason about it.

### `Metering`

| Model | Code |
|---|---|
| `ledger`, `balance`, `balanceRows` | the two tables; a row keyed by the idempotency key, `consumed` by window |
| `lapsed` | order in which reservations passed `expires_at` |
| `override`, `plan` | `subject_allowances`, `plan_allowances` of the active subscription |
| `ceiling` | a history variable: the highest limit in force so far, the quota of `MeterQuota` |
| `pc`, `arg`, `answer` | where each call is, its arguments and what it returned |
| `batch` | the candidates a cleanup job has read |
| `Reserve`, `Claim`, `Lookup`, `EnsureBalance`, `Gate`, `Deny`, `CommitGrant` | `reserve`: limit resolved first; ledger INSERT; reuse; balance INSERT; conditional UPDATE; rollback on denial; COMMIT |
| `StartCommit`, `StartRelease`, `FlipCommitted`, `FlipReleased`, `FlipLost`, `Report`, `Refund`, `CommitSettle`, `CommitRefund` | `commit`, `release`, `releaseByLedgerId` |
| `Tick`, `Sweep`, `SweeperDies`, `Expire` | the scheduler and the processor of `metering-jobs`, and time |

One (subject, meter) pair is modelled, since every statement is keyed by it.
Reservation id, ledger id and idempotency key are one to one, so a key stands for
all three. The amounts of `reserve` are positive, as its first check demands. Which
window and subject a request resolves to is an input of `Reserve`. A meter that
fails open hands out the all-zero reservation `NoOpKey`, which every later call
answers without a statement.

### `Compliance`

| Model | Code |
|---|---|
| `entry`, `quota` | the metering engine, as `MeterQuota`; each run has a key of its own |
| `lapsed` | checks whose reservation has passed `expires_at` |
| `check` | `compliance_checks`: `overall_status`, `obligation_extraction_status`, whether `ai_job_id` is set, `obligation_job_id` |
| `findings`, `obligations` | how often the rows of a check were inserted |
| `audit`, `extractions` | the jobs of the AI backend |
| `pc`, `job` | where each request is, and the entity it loaded |
| `RunCheck`, `Persist`, `Dispatch`, `DispatchFails`, `ReleaseRun` | `runCheck` |
| `Poll`, `SeeAudit`, `InsertFindings`, `Commit`, `Extract`, `ExtractFails`, `RefundRun`, `SeeExtraction`, `InsertObligations` | `refreshFromAi` and what it calls |
| `Select`, `Write` | `checkRepo.save` |
| `Throw`, `Die` | an exception that is caught, and one that is not or a process that dies |

This module and the next two stand on the abstract quota instead of repeating the
engine: `QuotaImplemented` (section 4) is what makes one atomic `Grant` or `End` a
faithful stand-in for `reserve`, `commit` and `release`. A settlement that finds the
reservation settled does nothing, as the code only logs it.

Abstractions: the three verdicts are one, `DONE`, because every poll of a completed
job reads the same result. A job is queued, completes or fails, and its answer is a
final verdict (a summary that says `PENDING`, a completed job without a result, and
results that expire each leave the check as it is, to be polled again). The
organization has no other consumer of its compliance meter. A statement that throws
has not taken effect.

### `DocumentProcessing`

| Model | Code |
|---|---|
| `doc` | `document_uploads`: `processing_status`, `processing_job_id` (0 is NULL), the metering reservation |
| `aged` | rows whose `updated_at` is older than `MAX_IN_PROGRESS_MS` |
| `clauses` | how many extractions of a document the clause tables hold |
| `jobs` | its AI jobs in order of dispatch, with their kind and what `getJobStatus` answers |
| `pinned` | `isContractPinned` of the one contract |
| `Upload`, `Insert`, `ReleaseInFlight` | `uploadAndProcess` |
| `Dispatch`, `DispatchFails` | `startTextExtraction`, `startClauseExtraction` |
| `Poll`; `Tick`, `Visit` | `getProcessingStatus`; `handleAdvance` of the background driver |
| `Check`, `FailDocument`, `Ask`, `ClaimText`, `ClaimClauses`, `Commit`, `Refund` | `advanceDocumentState` with `failPinnedDoc`, `failStaleDoc`, the two claims and `writeClausesInTx` |
| `EditText`; `Reprocess`, `ReleasePrior`, `Reserve`, `Denied`, `Cleanup` | `updateExtractedText`; `reprocess` |
| `JobEnds`, `ResultExpires`, `Age`, `Pin`, `Sweep` | the AI backend, time, the signing and the metering sweeper |

`edited` remembers which documents were edited or reprocessed: neither operation
looks at the status of the row, and the comment of `reprocess` leaves the gate to
the front end, so the promises about delivery and charge are made for the other
documents. `NothingIsStuck` is made for all. The text of a document, its
party details and the number of its clauses are left out: what counts is whether a
job of the right kind was written, and how often. `Cleanup` takes the find and the two
deletes by which `reprocess` removes the old clauses as one step.

### `Review`

| Model | Code |
|---|---|
| `request` | `finalizeReview`: reserve, three dispatches, the release in flight |
| `poller`, `saved` | `pollAndSaveRisks`, `pollAndSaveConflicts`, and how far each is |
| `risks` | `risk_analyses`: which run and poller wrote a row, and whether it was edited, merged, handled |
| `AskJob`, `GiveUp`, `Refund`, `Commit`, `Clear`, `SaveRow` | a poller's last poll or its patience, the settlements, the DELETE, `saveAiRiskAsRow` and `saveConflictAsRisk` |
| `Annotate`, `UpdateStatus`, `SelectRow`, `UpdateRow`, `InsertRow`, `Merge` | `annotateRisk` and `updateRiskStatus` with their saves; the accepted branch of `applyRephrase` |
| `PollerThrows`, `SettleThrows`, `ProcessDies`, `Sweep` | errors, crashes, the metering sweeper |

The reservation of a run exists in the memory of its poller only, so a crash leaves
it to the sweeper. A save of a row that has gone is an INSERT, which puts it back.
Intermediate polls, which change nothing, are left out; so is the obligation job,
which the code dispatches and never asks for. Left out as well: the pin guards of
`finalizeReview` and `applyRephrase` (the contract is not signed here), a `reserve` that throws,
which ends the request before it did anything, and `applyOverride` of the risk override
service, one more save of a whole entity on the same row, which can bring a row back or
write back loaded columns like the two saves that are modelled.

### `Negotiation`

| Model | Code |
|---|---|
| `contract` | one `contracts` row: `negotiation_status`, `status`, pin, `current_version` |
| `version` | the highest `contract_versions.version_number` |
| `clause`, `junction` | `clauses` rows in order of creation, with the row each replaced; `contract_clauses.clause_id` |
| `redline` | `clause_redlines` |
| `Propose` … `CommitPropose` | `RedlineService.propose`, its transaction and `autoOnProposeOpened` |
| `Accept`, `AcceptLock`, `Snapshot*`, `Promote`, `CommitAccept` | `accept`: junction lock, status re-read, staleness, snapshot, promotion, flip |
| `Counter` … `CommitCounter`; `Reject`, `Withdraw`, `Decide` | `counter`; the decisions that are one conditional UPDATE |
| `Agree`, `CountOpen`, `ReadyToSign`, `SetLane` | the manual lane moves through `applyTransition` |
| `Share` … `ShareSet`, `Snapshot*` | `updateStatus(SENT_TO_CONTRACTOR)`: save, hook and snapshot, each committed on its own |
| `MarkAsSigned`, `SignLock`, `BuildPayload`, `CommitPin` | `markAsSigned`, `pinExecutedContract` |
| `EditClause`, `SaveEdit` | `ClausesService.update` |

Locks come in the strengths that matter: the pin's FOR UPDATE, the lock of an
UPDATE, and the FOR KEY SHARE an INSERT takes on the rows its foreign keys name.
The last two do not exclude each other; each excludes FOR UPDATE.

Abstractions: one contract; bodies are model values, and what a host may edit
before accepting is any body. The access wall and the first loads of a call
are one step with its start. That loses no interleaving the properties can see,
because the base of a redline and its clause never change, its status is read again
later, and a pin check that is made earlier is only staler. A redline's round,
wording, author and notifications are left out, as is the save of the superseded clause row
in `Promote`: the code clears its `is_active` flag by a save of the whole row, which may
write an in-place edit made meanwhile back, and no property looks at the body of a row that
is no longer live. The contract statuses are the three the modelled operations move between.
Payload hashes are the payload itself. `Ops` is the scope of an instance, the
operations its callers call; `InitLanes` lets an instance start after an earlier
round of sharing, with no redline open.

### `GuestSigning`

| Model | Code |
|---|---|
| `binding` | `guest_contract_access`: the live row of each guest |
| `slip` | `guest_sign_slips`: guest, status, the pin it was executed with |
| `pin` | how the contract was signed |
| `Issue`, `BeginInsert`, `Insert` | `issueSlip`: its checks, the connection of its save, the INSERT under the partial unique index |
| `StartVoid`, `Void`; `StartRevoke`, `Revoke`; `StartSign`, `PinByHost` | `voidSlip`; `revoke` with `revokeGuestBinding`; `markAsSigned` with its pin through another door |
| `Gate`, `Begin`, `LockSlip` | `acceptAndExecute` up to the flip to ACCEPTED, which its transaction keeps to itself |
| `BeginPin`, `LockContract`, `Precondition`, `WritePin` | `pinExecutedContract` in a second transaction on a second connection, with `assertGuestBindingLiveForUpdate` as its precondition |
| `Finalize` | the slip is executed and the outer transaction commits |
| `AcquireTimeout`, `Die` | `connectionTimeoutMillis`; a process or a connection that dies |

The pool is part of the model because an accept holds one connection while it waits
for a second: `Connections` counts them by statement. Every call that writes holds one while
it waits for a row (an insert, void, revocation or signing of the host as well as an
accept), and a call that cannot get one waits until its timeout. `issueSlip` and the accept
ask for that connection in a step of their own, since what they have read may be stale by
then; the other calls of the host, whose reads decide nothing that their UPDATE or pin does
not look at again, start with it. `Hosts` says which of the requests are the host's.
What the pin contains is `Negotiation`'s matter.

## 3. What is checked

| Run | Instance | Question |
|---|---|---|
| `metering_safety` | 2 workers, 1 sweeper, 2 keys, 1 window, amounts 1 and 2, limits 1 and 2, 1 fault, a meter that fails open; 2.0 million states | whatever calls race, is every charge made once and refunded once, does whoever loses a race find what it lost to? Does the ledger implement `MeterQuota`, in which no window is oversold and a settled reservation never changes? |
| `metering_live` | 2 workers, 1 sweeper, 1 window, 1 fault, fairness | does every call return, and is an abandoned reservation released? |
| `redline_decisions` | 2 callers with every operation but the manual lane moves, 1 clause, 2 redlines, 2 bodies, 3 versions, 1 fault; 3.4 million states | when decisions, edits, shares and the signature race, does one decision win, do promotions form one chain, is the pinned payload live, can waits close a circle, and is a signed contract left in peace once the calls that raced its signature have ended? |
| `negotiation_lane` | 3 callers, lane moves, proposals, counters, a signature, 1 fault, fairness | does the lane only take edges of the map, and does every call return? |
| `compliance` | 2 callers, 1 check, capacity 1, 2 faults, fairness; 0.2 million states | when polls overlap, throw and die, who is charged, who is refunded, is a reservation ever abandoned, can a verdict go back, does the extraction end? |
| `documents` | a browser and the driver, 1 document, 2 keys, 1 upset (an edit, a reprocessing, an error or a crash), 2 jobs after an edit, fairness; 1.1 million states | are clauses stored once, does the charge follow the delivery, is a reservation ever forgotten, does a finished document stay so, do the clauses of a signed contract stay, does every document end? |
| `review` | 2 runs, 1 person, 1 finding a job, 2 requests, 1 fault, fairness; 1.3 million states | does a refunded run write nothing, is every reservation settled, do edited and merged rows survive the clear? (A row a person only handled, by its status, is cleared.) |
| `guest_signing` | 2 requests of guests, 1 of a host, 2 guests, 2 slips, 3 connections, 1 fault, fairness; 0.2 million states | is there one pin, do void, revocation and execution exclude each other, does every call return? |
| `pin_race`, `agree_race`, `pin_overwrite`, `review_conflicts` | as small as the disagreement allows | what a comment of the code says, against the code (section 5) |

Why the bounds are enough. In `Metering` two processes and the sweeper are one of
each kind of settler of one reservation. Two keys let a capacity be contested and a
sweep list hold more than `BatchSize`. Amounts 1 and 2 against limits 1 and 2 hit
the gate exactly, over it by one, and under it with something left. One fault places
a crash at every statement of every call. Two callers and two redlines on one clause
are a decider and a rival for the same redline or the same clause, which is where a
lock cycle closes; a third caller is there for the lane, where a proposal, a manual
move and a signature meet. Checks share nothing but their capacity, so one check with
two overlapping requests shows what polls do to each other; two faults let the
recovery of one error meet another. A document has two kinds of poller, a
browser and the driver, and one of each meets at every claim; documents share
nothing but the driver's list, in which one that throws does not stop the next. Two
overlapping runs, each with two pollers, are what the clear of one run can do to the
rows of another. Two guests and two slips are one guest with two slips
and two with one each. With a pool of three connections two accepts and a call of the host
that waits for a slip take one each, and the pins find none; three are also the fewest with
which a revocation can wait for a binding that an accept holds with two. One call of the host
at a time leaves out two that issue for one guest, a race the unique index decides and no
property here speaks of; the theorems have any number of them.
`MaxVersion` stops sharing and signing from going on for ever
(a stale save can set a status back, so both can repeat); `MaxJobs` bounds the jobs
of an edited document, `MaxUpsets` and `MaxCalls` what people do, `MaxFaults` crashes.
Keys, slips, checks and redlines are used up because the code never reuses their ids.

Symmetry is declared for callers, keys and redlines, in two safety runs only.
`CHECK_DEADLOCK FALSE` is set where the system comes to an end: a
finished negotiation, check, document, run or slip leaves nothing to do. That calls
do not block each other is checked by `NoCircularWait` and `CallsReturn` instead.

Some properties are left out of the runs because a checked one implies them or watches
the same behaviour, and all of them are proved (section 4): `RefundIsCovered`,
`GrantWithinResolvedLimit`, `SettledIsFinal`, `NeverOversold` and the `NoCircularWait` of
`Metering`, `CirclesTimeOut`, and `ReservationsHaveOneOwner` of `Review`.

`LaneFollowsMap` and `CallsReturn` of `Negotiation` are checked without accept and
share: those save whole contract entities and do write old lanes back (section 5).

Fairness. A process that waits for a row lock or a connection has strong fairness on
its next statement: Postgres and the pool grant them from a queue, so a waiting
statement is not overtaken for ever (`Metering`, `Negotiation`, `GuestSigning`). Where
no statement waits, weak fairness says that a call runs on (`Compliance`,
`DocumentProcessing`, `Review`). Cleanup jobs and the ticks of the driver are weakly
fair because schedulers start them again and again, and so is the passing of time.
Starting a call is never fair, nor is settling a reservation:
`ReservationsSettle` holds because of the sweeper alone. `RunsSettle` on the other
hand holds without it: the sweeper is not fair in `Review`, and the pollers' patience
(`MAX_POLLS`) is. Of AI jobs only `Compliance` assumes that they end; its checks are
polled again and again, since `ComplianceTab.tsx` refetches an open check every 4
seconds until it has failed or its extraction has ended. `Poll` needs strong
fairness there because it is disabled while both callers are busy, and `Age` in
`DocumentProcessing` because it is disabled while a call is about to save the row.
`NothingIsStuck` assumes neither browsers nor AI jobs: results expire
(`result_expires` in `src/ai-backend/app/tasks.py`) and rows age.
`ExtractionSettles` and `RunsSettle` excuse runs with a fault: a poll that dies after
saving the verdict and before saving the extraction job leaves a check no later poll
looks at, and a reservation in the memory of a dead process is the sweeper's.

Every property of a passing run has a mutant in `PROJECT.json`: a plausible bug
(the operators marked "Faulty variant" in the modules) under which TLC finds that
property violated.

## 4. What is proved

Six modules hold theorems, each for every value of the constants its module declares, from
the assumptions named there. Each has an inductive invariant `IInv`, a lemma for each of its parts
or actions, and the theorems as its consequences.

`MeteringProofs`, for every number of callers, sweepers, keys, windows, amounts,
limits and faults (callers and sweepers are distinct, keys are finite, amounts
positive, limits natural):

* `Invariance`: `IInv` is invariant. `BalanceMatchesLedger` is not inductive by
  itself. A refund in progress is only safe if its transaction still holds the
  reserved row it flipped (`SettleConsistent`), if nobody else holds it
  (`LocksExclusive`) and if the row was charged to a balance row that exists
  (`RowsBacked`). A grant needs `Fits` to be still true when it commits, which only
  the balance lock guarantees (`ReserveConsistent`, `LocksExclusive`). The sweeper
  needs its list to name existing overdue rows (`BatchLapsed`).
* `TypeCorrect`, `BalanceAccurate`, `SingleSettler`, `RefundsCovered`,
  `LosersInformed`: the state invariants, consequences of `IInv`.
* `GrantsRespectLimit`, `SettledRowsFinal`: the two action properties.
* `WindowsNeverOversold`: what a window has reserved and committed never exceeds the
  highest limit in force so far. Only `CommitGrant` adds to what is used, and its limit is
  one that was in force when its call resolved it.
* `NobodyWaitsInACircle`: no circle of waits, in any state. A call that waits for a balance
  row waits for one that waits for nothing, and a holder of a ledger row waits at most for
  a balance row. The argument is by cases on where the members of a set of calls
  stand, so that it needs no induction over the set.
* `QuotaImplemented`: `Metering` refines `MeterQuota`. `CommitGrant` maps to `Grant`,
  which is enabled since the limit its call used is at most `ceiling`; `CommitSettle`
  and `CommitRefund` map to `End`, raising an allowance to `RaiseQuota`, and every
  other step to a stutter.

`GuestSigningProofs`, for every number of requests, guests, slips, connections and
deaths (the pool has a connection; NULL is no row):

* `TypeCorrect`, which includes that the pool is never overdrawn: each step that
  takes a connection takes one that was free, and its caller did not have it.
* `ExecutedSlips`, `VoidExcludesExecution`, `RevokedNeverSign`. What makes them
  inductive is what each lock protects while it is held: the slip stays active and
  has one holder (`SlipsAreLocked`), the binding stays live (`BindingsAreLocked`),
  what a call was told of the pin stays true (`ToldOfThePin`), and a guest's
  signature has an executed slip or a call about to write it (`SignedIsFinalized`).
  `InsertersAreAlone` and `CallsHaveRows` tie calls to rows.
* `EveryCircleTimesOut`: circles of waits do occur, when accepts that hold a connection and a
  slip exhaust the pool; in each of them somebody waits for a connection, and that wait
  has a timeout. Rows alone close no circle: slip, contract, binding is the order.

`ReviewProofs`, for every number of runs, people, findings, requests and faults:

* `TypeCorrect`, which includes that a row was saved by the poller it names, also
  when a stale save has put it back (`CallsKnowRows`).
* `RefundsAreFinal`: a refunded run saves nothing, then or later. It rests on where a
  run stands when its reservation can go back: its poller has not started or is at its last
  statement (`RunsAreCharged`) and has counted no finding (`RowsAreCounted`).
* `OwnersSettle`: a reservation has one owner at a time, the request until it has launched
  the pollers and then the risk poller; while nothing throws or dies an open one has an
  owner, and at all times an owner's reservation is open unless it was swept.
* `RunsKeepPeoplesWork`: no step of a run, for any number of people, takes an edit or a
  merge from a row. The clear passes such rows over, and a save of a finding cannot
  overwrite one, since its number is greater than that of any row saved so far.
* `WorkSurvives`: `HumanWorkSurvives`, for all steps, if the rows have one person at a time
  (`OnePerson`). The entity of a save then has whatever the row has (`SavesAreCurrent`): it
  was loaded with it, nobody else has written since, and a run does not bring back a row
  under an id that a person holds (`RunsKeepCurrent`). With two people it is false: the
  save of `annotateRisk` or `updateRiskStatus` writes back columns that it loaded
  (section 5).

`ComplianceProofs`, for every number of requests, checks, faults and every capacity (NULL is
no check and no row):

* `TypeCorrect`, which includes that an entity never names an extraction job that was not
  dispatched.
* `ChargedRuns`, `RefundedRuns`, `VerdictsFinal`. A request is a *runner*, whose job nobody
  else knows yet, or a *poll*. A runner is alone on its check (`RunnersAreAlone`), so its
  saves meet no other; polls overlap, and what makes their stale saves harmless is that
  what an entity says stays true whatever others store (`PollsAreTrue`): findings are never
  taken back, and a job that ended has ended. A save that leaves the verdict out has found
  it stored (`SavesKnowTheVerdict`). A refunded run is over: its job failed, or no request
  is at work on it and no poll finds anything to look at (`RefundedRunsAreOver`).
* `OwnersSettle`: while nothing throws or dies an open reservation is on its way to be settled
  by some request, or the check is stored with a job that the next poll looks at. The
  stale saves of polls that overlap do not take that away, which is what `OwnersKnown` adds to `IInv`.

`NegotiationProofs`, for every number of requests, junctions, redlines, rounds, clause
rows and faults (clauses are finitely many; NULL is no redline, body or clause; the lanes
start in the lane map):

* `TypeCorrect`, `PinsLiveRows`, `HistoryIsLinear`, `AcceptPromotesOnce`,
  `CounterHasOneChild`: the state invariants about the tables. Each depends on what a
  request read before it wrote, so `IInv` says which reads are still true: two
  transactions never hold the same row (`Locks`), a row a request is about to insert is not
  in its table and not another's (`FreshIds`), and while a request holds a junction its row
  is the live one, the redline it accepts or counters is still proposed, and what it will
  pin is live (`Calls`). `History` adds to `LinearHistory` that no two clauses share a live
  row; `Promotions` and `Children` say also that every accepted redline has its row and every
  countered one its child, and that no row or child hangs off a redline in another state.
* `DecisionsStand`: a decided redline is not decided again. `Grows` is what a step leaves of
  every table.
* `LaneKeepsToTheMap`: the contract's lane moves along the lane map, *provided* no request
  accepts or shares (`Ops \cap {"accept", "share"} = {}`). Those two save an entity they
  loaded earlier, and can put an old lane back (section 5); the run of `LaneFollowsMap` leaves
  them out as well.
* `NobodyWaitsInACircle`: each wait goes down an order of the statements
  (`WaitingDescends`): junction, then contract, then redline. The pair that could close a circle is
  accept, which updates the contract before it flips the redline, and counter, which
  flips first; it does not, since the reference counter inserts waits for the pin's FOR UPDATE
  only, and the pin waits for no redline.
* `OnlySavesUnpin`: only the save of a whole contract entity, in `accept` and in the share, changes
  a pin that was set. A second signature cannot, because `pinExecutedContract` reads the
  pin under FOR UPDATE (`PinAwaited`: a request about to pin holds that lock and has found no
  pin). `PinStands` is the consequence for a scope without accept and share, `PinIsPermanent`
  as the comment has it; with them it is false (section 5).
* `SettlesWithItsRaces`: `SignedStaysSettled`, for all operations. Once the calls that were under way
  at the signature have ended, nothing changes the pin or the live text, so that the
  races of section 5 end with those calls.

`DocumentProcessingProofs`, for every number of requests, documents, keys, AI jobs, edits,
errors and deaths (the driver is no request, documents are numbered in the order of their
creation; NULL is no document, key or row):

* `TypeCorrect`, which includes that no row and no entity names a job that was not
  dispatched.
* `WrittenOnce`, `DispatchedOnce`, `ChargedDelivered`, `RefundedUndelivered`: the four
  promises about a document that nobody edits or reprocesses, and `Final`, that until the
  signature a finished document stays as it finished. None is inductive: each call acts on a
  copy of the row that others have left behind. The invariant (`Promises`) says of a document
  and its calls
  * `OwnerOk`: the upload until its first job is saved, and the winner of the text claim
    until the second one is, have sole charge of the row. Nobody else is about to save it,
    and only the signature can fail it under them;
  * `Knows`, `LookOk`: what a call can still conclude from the status it has loaded, though
    the row has moved on: which statuses it may have by now, which job has ended, and that
    an old row without a job has no owner;
  * `Over`: when no clauses will be stored any more. Nobody moves the document on
    (`Stalled`), the job it waits for has failed or expired (`JobFailed`), or the contract
    was signed before anybody could claim the result (`Overtaken`). A refund, and a save of
    FAILED, come only when a document is over, and it stays so (`OverStays`);
  * `RowOk`, `ReservationOk`: which jobs, clauses and charge each status goes with.
* The proof is by rely and guarantee. `Guarantee` is what a step does to a document: the edge
  its status takes, by whom, and that jobs keep what became of them. `OtherCall` shows once
  that such a step keeps what the calls of others rely on, and `StepInvariant` that it keeps
  the whole invariant. Each action then has a lemma that shows its own guarantee and what its
  own call knows afterwards. `KeysApart` says that a reservation belongs to one document, so
  that settlements of others do not matter.
* `OwnersSettle`: while nobody edits, throws or dies, what is reserved belongs to a document in
  progress or to the one call that will settle it (`OwnersKnown`, on top of `IInv`): the claim
  or the save that ends a document makes its caller the settler.
* `SignedStays`: once the calls past the pin check at the signature have ended, the clauses of a
  signed contract stay.

Liveness and `ENABLED` are out of the prover's reach: `CallsReturn` (three runs),
`ReservationsSettle`, `ExtractionSettles`, `NothingIsStuck` and `RunsSettle` are only
model-checked. What safety says of them is proved: `NoCircularWait` and `CirclesTimeOut` for
the calls that wait for each other, and the three
`OwnersSettle` theorems for the reservations that have to be settled. Every other property of a
passing run is stated by a theorem.

## 5. Where comments and code differ

Four runs end in a violation, each of one property that restates a comment:

* `pin_race`: `accept` checks the pin on the contract it loaded before its
  transaction, so it can promote text into a contract signed in between, although the
  comment says that the freeze holds for the whole promotion.
* `agree_race`: a proposal that finds the lane UNDER_REVIEW does not touch it. If
  `agree` counted before the proposal committed, the contract is AGREED with an open
  redline; the comment says the lane corrects itself.
* `pin_overwrite`: the entity saves of `createVersionSnapshot` can set the pin back to
  NULL.
* `review_conflicts`: the clear before a run's risks are saved deletes the conflicts
  the same run has just stored, if the conflict job ends first; the comment says it
  clears the previous run's rows.

What the two runs about the pin show ends with the calls that were under way when the
contract was signed: `SignedStaysSettled` says so, and is proved.

Further observations, found with the same models under other properties or
instances, and kept here instead of as runs of their own:

* The same saves of `createVersionSnapshot` (`contracts.service.ts:933`) write an old
  lane back, outside the guarded transition that the class comment of
  `negotiation-status.service.ts` requires of every move.
* Settling the all-zero reservation of a fail-open meter answers
  `{ applied: false, status: 'missing' }`; the comment at `metering.service.ts:660`
  says it throws.
* A compliance run that outlives its reservation is swept and still delivers when it
  is polled. Its capacity may have gone to another run by then, so the limit is
  oversold by the comment's own measure ("over-deny, never oversell").
* Between `Check` and `ClaimClauses` a contract can be signed: clauses are then
  written into a signed contract, which the comment at
  `document-processing.service.ts:509` rules out. The pin is not part of the claim. TLC
  shows it when `PinnedGetsNoClauses` is added to the PROPERTIES of `MCDocuments.cfg`;
  `SignedClausesStay`, checked and proved, says that it ends with the calls under way.
* A winner of the text claim that dies before its save leaves a `TEXT_EXTRACTED` row
  with the old job id. It is polled without effect until the job's result
  expires; only then does the age of the row end it.
* With two people at work on one risk row, the save of `annotateRisk` or
  `updateRiskStatus` writes back the columns it loaded and can undo the other's edit
  or a merge.
* Two finalizations that overlap clear and save in turns: rows of both stay, and the
  counts the clear is there to keep from stacking do stack.
* A guest's accept that dies between the pin and the end of its own transaction
  leaves a signed contract whose slip can still be voided; the comment at
  `guest-sign-slip.service.ts:304` accepts this until the next accept. `VoidOrExecute`
  is stated for runs in which no call dies.

## 6. Not modelled

The components marked `not_modelled` in `PROJECT.json`, each with its reason. They
are of three kinds: single-row reads and edits without a protocol between actors;
thin clients of external services; and jobs whose protocol is that of a modelled one
(the guests' daily slots and chat follow the metered consumers, the portfolio
export and the ERP runs are queue jobs that record what they have done).

Of modelled components: the canonical form of the pinned payload, the approval rules and
comments of contracts, creation and deletion of clauses, the back-fill of the parties of a
contract, the review status of single clauses, findings edited by users, evidence and
completion tokens of obligations, rephrasings that are only proposed or rejected.
None of them shares a row with the protocols above in a way a property here could
see, apart from saves of whole contract entities, of which `createVersionSnapshot` and
the share branch stand for the others.

## 7. Running

```
tlc -workers 2 -config MCMetering.cfg MCMetering
tlc -workers 2 -config MCNegotiation.cfg MCNegotiation
tlc -workers 2 -config MCCompliance.cfg MCCompliance
tlc -workers 2 -config MCDocuments.cfg MCDocuments
tlc -workers 2 -config MCReview.cfg MCReview
tlc -workers 2 -config MCGuestSigning.cfg MCGuestSigning
tlapm MeteringProofs.tla
tlapm GuestSigningProofs.tla
tlapm ReviewProofs.tla
tlapm ComplianceProofs.tla
tlapm NegotiationProofs.tla
tlapm DocumentProcessingProofs.tla
```
