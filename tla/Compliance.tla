----------------------------- MODULE Compliance -----------------------------
(***************************************************************************)
(* Compliance checks: one metered run of an external AI job, reconciled by *)
(* whoever polls it (src/backend/src/modules/compliance).                  *)
(*                                                                         *)
(* The metering engine is its abstract specification MeterQuota, which the *)
(* detailed engine implements (MeteringProofs, QuotaImplemented).  A save  *)
(* of a check entity is a SELECT that compares the entity, as it was       *)
(* loaded, with the row, and an UPDATE of the columns that differ.  No     *)
(* transaction spans two statements: each commits on its own.              *)
(***************************************************************************)
EXTENDS LedgerSums, Sequences

CONSTANTS
  Callers,    \* requests in progress: runs and polls
  Checks,     \* compliance_checks ids; each has a fresh idempotency key
  Capacity,   \* the compliance limit of the organization
  MaxFaults,  \* bound: statements that throw and processes that die
  Window,     \* the metering window of the runs
  None        \* NULL

ASSUME CapacityAssumption == Capacity \in Nat
ASSUME ChecksAssumption == None \notin Checks
ASSUME FaultsAssumption == MaxFaults \in Nat

VARIABLES
  entry,        \* the ledger rows of the runs, by check (MeterQuota)
  quota,        \* their limit (MeterQuota)
  lapsed,       \* checks whose reservation has outlived its TTL
  check,        \* compliance_checks: id -> row, or None
  findings,     \* times the findings of a check were stored
  obligations,  \* times its obligations were inserted
  audit,        \* the AI job of each check
  extractions,  \* its extraction jobs, in order of dispatch
  pc,           \* next statement of each caller
  job,          \* its check and the entity it holds
  faults        \* faults so far

meter == <<entry, quota, lapsed>>
rows == <<check, findings, obligations>>
ai == <<audit, extractions>>
vars == <<meter, rows, ai, pc, job, faults>>

Meter == INSTANCE MeterQuota WITH Keys <- Checks, Windows <- {Window},
                                  Amounts <- {1}

\* What is modelled of a row of compliance_checks.
CheckRow ==
  [status : {"PENDING", "DONE", "FAILED"},
   extraction : {"PENDING", "RUNNING", "COMPLETED", "FAILED"},
   job : BOOLEAN, extractionJob : Nat]

ASSUME NoneAssumption == None \notin CheckRow

NewRow == [status |-> "PENDING", extraction |-> "PENDING", job |-> FALSE,
           extractionJob |-> 0]

NoJob == [check |-> None, entity |-> NewRow, columns |-> {}, next |-> "idle"]

Goto(p, label) == pc' = [pc EXCEPT ![p] = label]

Mine(p) == job[p].check

Entity(p) == job[p].entity

\* The reservation of p's check is settled, unless it already is; an answer
\* { applied: false } is only logged.
Settle(p, s) ==
  /\ IF Mine(p) \in DOMAIN entry /\ entry[Mine(p)].status = "reserved"
       THEN Meter!End(Mine(p), s)
       ELSE UNCHANGED <<entry, quota>>
  /\ UNCHANGED lapsed

\* The entity e is to be saved, and label comes after.
Save(p, e, label) ==
  /\ Goto(p, "select")
  /\ job' = [job EXCEPT ![p] = [@ EXCEPT !.entity = e, !.next = label]]

Return(p) ==
  /\ Goto(p, "idle")
  /\ job' = [job EXCEPT ![p] = NoJob]

-----------------------------------------------------------------------------
(* checkRepo.save(entity).                                                 *)

Select(p) ==
  /\ pc[p] = "select"
  /\ job' = [job EXCEPT ![p].columns =
       {f \in DOMAIN NewRow : check[Mine(p)][f] # Entity(p)[f]}]
  /\ Goto(p, "write")
  /\ UNCHANGED <<meter, rows, ai, faults>>

Write(p) ==
  /\ pc[p] = "write"
  /\ check' = [check EXCEPT ![Mine(p)] =
       [f \in DOMAIN NewRow |->
          IF f \in job[p].columns THEN Entity(p)[f] ELSE @[f]]]
  /\ job' = [job EXCEPT ![p].columns = {}]
  /\ Goto(p, job[p].next)
  /\ UNCHANGED <<meter, findings, obligations, ai, faults>>

-----------------------------------------------------------------------------
(* runCheck().                                                             *)

\* reserve() under a fresh key; a denied or failed reserve leaves nothing.
RunCheck(p, c) ==
  /\ pc[p] = "idle"
  /\ Meter!Grant(c, Window, 1)
  /\ Goto(p, "persist")
  /\ job' = [job EXCEPT ![p] = [NoJob EXCEPT !.check = c]]
  /\ UNCHANGED <<lapsed, rows, ai, faults>>

\* INSERT of the check.
Persist(p) ==
  /\ pc[p] = "persist"
  /\ check' = [check EXCEPT ![Mine(p)] = NewRow]
  /\ Goto(p, "dispatch")
  /\ UNCHANGED <<meter, findings, obligations, ai, job, faults>>

\* The AI backend answers with a job id ...
Dispatch(p) ==
  /\ pc[p] = "dispatch"
  /\ audit' = [audit EXCEPT ![Mine(p)] = "queued"]
  /\ Save(p, [Entity(p) EXCEPT !.job = TRUE], "idle")
  /\ UNCHANGED <<meter, rows, extractions, faults>>

\* ... or there is no clause to analyse, or no answer comes, though the job may
\* have been queued.
DispatchFails(p) ==
  /\ pc[p] = "dispatch"
  /\ \/ audit' = [audit EXCEPT ![Mine(p)] = "queued"]
     \/ UNCHANGED audit
  /\ Save(p, [Entity(p) EXCEPT !.status = "FAILED"], "release")
  /\ UNCHANGED <<meter, rows, extractions, faults>>

\* The catch of runCheck.
ReleaseRun(p) ==
  /\ pc[p] = "release"
  /\ Settle(p, "released")
  /\ Return(p)
  /\ UNCHANGED <<rows, ai, faults>>

-----------------------------------------------------------------------------
(* refreshFromAi().                                                        *)

\* Which job of a check, as it was loaded, is to be looked at.
AwaitsAudit(e) == e.job /\ e.status = "PENDING"
AwaitsExtraction(e) == e.extractionJob # 0 /\ e.extraction = "RUNNING"

\* Load of the check; a poll with nothing to look at changes nothing.
Poll(p, c) ==
  /\ pc[p] = "idle"
  /\ check[c] # None
  /\ AwaitsAudit(check[c]) \/ AwaitsExtraction(check[c])
  /\ Goto(p, IF AwaitsAudit(check[c]) THEN "audit" ELSE "extraction")
  /\ job' = [job EXCEPT ![p] = [NoJob EXCEPT !.check = c, !.entity = check[c]]]
  /\ UNCHANGED <<meter, rows, ai, faults>>

\* Faulty variant: a job that has not completed counts as failed.
Failed_NotCompleted(p) == audit[Mine(p)] # "completed"

Failed(p) == audit[Mine(p)] = "failed"

\* Faulty variant: a failed job is noted and nothing is refunded.
SeeAudit_KeepsCharge(p) ==
  /\ pc[p] = "audit"
  /\ IF audit[Mine(p)] = "completed"
       THEN Goto(p, "findings") /\ UNCHANGED job
       ELSE IF Failed(p)
              THEN Save(p, [Entity(p) EXCEPT !.status = "FAILED"], "extraction")
              ELSE Goto(p, "extraction") /\ UNCHANGED job
  /\ UNCHANGED <<meter, rows, ai, faults>>

SeeAudit(p) ==
  /\ pc[p] = "audit"
  /\ IF audit[Mine(p)] = "completed"
       THEN Goto(p, "findings") /\ UNCHANGED job
       ELSE IF Failed(p)
              THEN Save(p, [Entity(p) EXCEPT !.status = "FAILED"], "refund")
              ELSE Goto(p, "extraction") /\ UNCHANGED job
  /\ UNCHANGED <<meter, rows, ai, faults>>

\* Faulty variant: the reservation is committed before the findings are saved.
InsertFindings_CommitFirst(p) ==
  /\ pc[p] = "findings"
  /\ Settle(p, "committed")
  /\ findings' = [findings EXCEPT ![Mine(p)] = @ + 1]
  /\ Save(p, [Entity(p) EXCEPT !.status = "DONE"], "commit")
  /\ UNCHANGED <<check, obligations, ai, faults>>

\* persistFindings: INSERT of the findings, then the verdict is saved.
InsertFindings(p) ==
  /\ pc[p] = "findings"
  /\ findings' = [findings EXCEPT ![Mine(p)] = @ + 1]
  /\ Save(p, [Entity(p) EXCEPT !.status = "DONE"], "commit")
  /\ UNCHANGED <<meter, check, obligations, ai, faults>>

\* commitReservationOnSuccess.
Commit(p) ==
  /\ pc[p] = "commit"
  /\ Settle(p, "committed")
  /\ Goto(p, "extract")
  /\ UNCHANGED <<rows, ai, job, faults>>

\* Faulty variant: the new job id is not saved.
Extract_IdLost(p) ==
  /\ pc[p] = "extract"
  /\ extractions' = [extractions EXCEPT ![Mine(p)] = Append(@, "queued")]
  /\ Save(p, [Entity(p) EXCEPT !.extraction = "RUNNING"], "extraction")
  /\ UNCHANGED <<meter, rows, audit, faults>>

\* Faulty variant: the id saved is that of the next job.
Extract_NextId(p) ==
  /\ pc[p] = "extract"
  /\ extractions' = [extractions EXCEPT ![Mine(p)] = Append(@, "queued")]
  /\ Save(p, [Entity(p) EXCEPT !.extraction = "RUNNING",
                               !.extractionJob = Len(extractions'[Mine(p)]) + 1],
          "extraction")
  /\ UNCHANGED <<meter, rows, audit, faults>>

\* startObligationExtraction: the AI backend answers with a job id ...
Extract(p) ==
  /\ pc[p] = "extract"
  /\ extractions' = [extractions EXCEPT ![Mine(p)] = Append(@, "queued")]
  /\ Save(p, [Entity(p) EXCEPT !.extraction = "RUNNING",
                               !.extractionJob = Len(extractions'[Mine(p)])],
          "extraction")
  /\ UNCHANGED <<meter, rows, audit, faults>>

\* ... or does not.
ExtractFails(p) ==
  /\ pc[p] = "extract"
  /\ \/ extractions' = [extractions EXCEPT ![Mine(p)] = Append(@, "queued")]
     \/ UNCHANGED extractions
  /\ Save(p, [Entity(p) EXCEPT !.extraction = "FAILED"], "extraction")
  /\ UNCHANGED <<meter, rows, audit, faults>>

\* releaseReservationOnFailure.
RefundRun(p) ==
  /\ pc[p] = "refund"
  /\ Settle(p, "released")
  /\ Goto(p, "extraction")
  /\ UNCHANGED <<rows, ai, job, faults>>

\* The second half of a poll: the extraction job.  Its obligations are
\* inserted before the extraction is marked completed.
SeeExtraction(p) ==
  /\ pc[p] = "extraction"
  /\ LET state == IF AwaitsExtraction(Entity(p))
                    THEN extractions[Mine(p)][Entity(p).extractionJob]
                    ELSE "none"
     IN  CASE state = "completed" -> Goto(p, "obligations") /\ UNCHANGED job
           [] state = "failed" ->
                Save(p, [Entity(p) EXCEPT !.extraction = "FAILED"], "idle")
           [] OTHER -> Return(p)
  /\ UNCHANGED <<meter, rows, ai, faults>>

InsertObligations(p) ==
  /\ pc[p] = "obligations"
  /\ obligations' = [obligations EXCEPT ![Mine(p)] = @ + 1]
  /\ Save(p, [Entity(p) EXCEPT !.extraction = "COMPLETED"], "idle")
  /\ UNCHANGED <<meter, check, findings, ai, faults>>

-----------------------------------------------------------------------------
(* Errors, the AI backend, time and the sweeper.                           *)

Saving(p, label) == pc[p] \in {"select", "write"} /\ job[p].next = label

\* Where the exception of a statement is caught: the save of a job id by the
\* catch around its dispatch, what else runCheck does after its reserve by the
\* release; a settlement that throws is only logged.
Throw(p) ==
  /\ faults < MaxFaults
  /\ faults' = faults + 1
  /\ \/ /\ Saving(p, "idle") /\ Entity(p).status = "PENDING"
        /\ Save(p, [Entity(p) EXCEPT !.status = "FAILED"], "release")
     \/ /\ Saving(p, "extraction") /\ Entity(p).extraction = "RUNNING"
        /\ Save(p, [Entity(p) EXCEPT !.extraction = "FAILED"], "extraction")
     \/ /\ pc[p] \in {"persist", "dispatch"} \/ Saving(p, "release")
        /\ Goto(p, "release") /\ UNCHANGED job
     \/ pc[p] = "commit" /\ Goto(p, "extract") /\ UNCHANGED job
     \/ pc[p] = "refund" /\ Goto(p, "extraction") /\ UNCHANGED job
  /\ UNCHANGED <<meter, rows, ai>>

\* The process dies, or an exception is caught by nobody.
Die(p) ==
  /\ pc[p] # "idle"
  /\ faults < MaxFaults
  /\ faults' = faults + 1
  /\ Return(p)
  /\ UNCHANGED <<meter, rows, ai>>

AuditEnds(c) ==
  /\ audit[c] = "queued"
  /\ \E s \in {"completed", "failed"} : audit' = [audit EXCEPT ![c] = s]
  /\ UNCHANGED <<meter, rows, extractions, pc, job, faults>>

ExtractionEnds(c) ==
  /\ \E i \in DOMAIN extractions[c], s \in {"completed", "failed"} :
       /\ extractions[c][i] = "queued"
       /\ extractions' = [extractions EXCEPT ![c][i] = s]
  /\ UNCHANGED <<meter, rows, audit, pc, job, faults>>

Expire(c) ==
  /\ c \in DOMAIN entry \ lapsed
  /\ lapsed' = lapsed \cup {c}
  /\ UNCHANGED <<entry, quota, rows, ai, pc, job, faults>>

\* Faulty variant: the sweeper does not look at the TTL.
Overdue_Always(c) == c \in Checks

Overdue(c) == c \in lapsed

Sweep(c) ==
  /\ Overdue(c)
  /\ Meter!End(c, "released")
  /\ UNCHANGED <<lapsed, rows, ai, pc, job, faults>>

-----------------------------------------------------------------------------
Init ==
  /\ entry = [c \in {} |-> c]
  /\ quota = Capacity
  /\ lapsed = {}
  /\ check = [c \in Checks |-> None]
  /\ findings = [c \in Checks |-> 0]
  /\ obligations = [c \in Checks |-> 0]
  /\ audit = [c \in Checks |-> "none"]
  /\ extractions = [c \in Checks |-> <<>>]
  /\ pc = [p \in Callers |-> "idle"]
  /\ job = [p \in Callers |-> NoJob]
  /\ faults = 0

Step(p) ==
  \/ Select(p) \/ Write(p)
  \/ Persist(p) \/ Dispatch(p) \/ DispatchFails(p) \/ ReleaseRun(p)
  \/ SeeAudit(p) \/ InsertFindings(p) \/ Commit(p)
  \/ Extract(p) \/ ExtractFails(p) \/ RefundRun(p)
  \/ SeeExtraction(p) \/ InsertObligations(p)

Environment(c) == AuditEnds(c) \/ ExtractionEnds(c) \/ Expire(c) \/ Sweep(c)

Next ==
  \/ \E p \in Callers :
       \/ Step(p) \/ Throw(p) \/ Die(p)
       \/ \E c \in Checks : RunCheck(p, c) \/ Poll(p, c)
  \/ \E c \in Checks : Environment(c)

\* A call runs to its end or dies, jobs end, and the page that shows a check
\* polls it again and again while it is open.
Fairness ==
  /\ \A p \in Callers : WF_vars(Step(p))
  /\ \A c \in Checks :
       /\ WF_vars(AuditEnds(c))
       /\ WF_vars(ExtractionEnds(c))
       /\ SF_vars(\E p \in Callers : Poll(p, c))

Spec == Init /\ [][Next]_vars
FairSpec == Spec /\ Fairness
-----------------------------------------------------------------------------
(* Properties.                                                             *)

Labels == {"idle", "select", "write", "persist", "dispatch", "release", "audit",
           "findings", "commit", "extract", "refund", "extraction", "obligations"}

\* Types of the rows, the jobs and the calls; an entity names a job that was
\* dispatched.
TypeOK ==
  /\ DOMAIN entry \subseteq Checks
  /\ entry \in [DOMAIN entry ->
                  [window : {Window}, amount : {1},
                   status : {"reserved", "committed", "released"}]]
  /\ quota \in Nat
  /\ lapsed \subseteq Checks
  /\ check \in [Checks -> CheckRow \cup {None}]
  /\ findings \in [Checks -> Nat] /\ obligations \in [Checks -> Nat]
  /\ audit \in [Checks -> {"none", "queued", "completed", "failed"}]
  /\ \A c \in Checks : \A i \in DOMAIN extractions[c] :
       extractions[c][i] \in {"queued", "completed", "failed"}
  /\ pc \in [Callers -> Labels]
  /\ \A p \in Callers :
       /\ Mine(p) \in Checks \cup {None}
       /\ Entity(p) \in CheckRow
       /\ Mine(p) # None => Entity(p).extractionJob <= Len(extractions[Mine(p)])
       /\ job[p].columns \subseteq DOMAIN NewRow
       /\ job[p].next \in Labels
  /\ faults \in 0 .. MaxFaults

\* A run is charged only if it delivered: its findings are stored and its
\* verdict is not "failed", whatever polls overlap and wherever one dies
\* (commitReservationOnSuccess).
ChargedRunsDelivered ==
  \A c \in DOMAIN entry : entry[c].status = "committed" =>
    findings[c] > 0 /\ check[c].status = "DONE"

\* Capacity goes back before the TTL only for a run that has delivered nothing
\* and never will (releaseReservationOnFailure and the catch of runCheck).
RefundedRunsDeliverNothing ==
  \A c \in DOMAIN entry : entry[c].status = "released" /\ c \notin lapsed =>
    findings[c] = 0

\* p is at a statement that leads to a settlement of c, or is saving the job id
\* that lets the polls of the page settle it.
OnItsWay(p, c) ==
  /\ Mine(p) = c
  /\ \/ pc[p] \in {"persist", "dispatch", "release", "commit", "refund"}
     \/ Saving(p, "release") \/ Saving(p, "commit") \/ Saving(p, "refund")
     \/ Saving(p, "idle") /\ AwaitsAudit(Entity(p))

\* While nothing throws or dies no reservation is abandoned to the sweeper: a
\* call is on its way to settle it, or the check is stored in a state in which
\* the next poll looks at its job, and no overlapping save takes that away.
ReservationsHaveOwners ==
  faults = 0 =>
    \A c \in DOMAIN entry : entry[c].status = "reserved" =>
      \/ check[c] # None /\ AwaitsAudit(check[c])
      \/ \E p \in Callers : OnItsWay(p, c)

\* Polls that overlap agree on the verdict: once it is stored no stale save
\* takes it back to PENDING or to the other verdict.
VerdictIsFinal ==
  [][\A c \in Checks : check[c] # None /\ check[c].status # "PENDING" =>
       check'[c].status = check[c].status]_vars

\* While the page polls, a delivered check gets to the end of its extraction,
\* although stale saves may take it back; only a poll that dies between two
\* statements can leave it behind.
ExtractionSettles ==
  \A c \in Checks :
    check[c] # None /\ check[c].status = "DONE" ~>
      \/ check[c] # None /\ check[c].extraction \in {"COMPLETED", "FAILED"}
      \/ faults > 0
=============================================================================
