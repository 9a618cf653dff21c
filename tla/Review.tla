------------------------------- MODULE Review -------------------------------
(***************************************************************************)
(* The end of a contract's review: finalizeReview charges once, dispatches *)
(* three AI jobs and leaves two background pollers behind, which write the *)
(* risk table while people annotate, handle and merge its rows             *)
(* (src/backend/src/modules/document-processing/                           *)
(* document-processing.service.ts, src/backend/src/modules/risk-analysis). *)
(*                                                                         *)
(* The metering engine is its abstract specification MeterQuota; the only  *)
(* carrier of a reservation is the memory of the process.  A save of a row *)
(* is a SELECT that compares the entity with the row, and an UPDATE of the *)
(* columns that differ, or an INSERT if there is no row.  All runs are of  *)
(* one contract.                                                           *)
(***************************************************************************)
EXTENDS LedgerSums, Sequences, Functions

CONSTANTS
  Finalizes,  \* runs of finalizeReview; each is the key of its reservation
  Humans,     \* requests on risk rows in progress
  Findings,   \* findings of a job that finds any, numbered in their order
  Capacity,   \* the finalize_review limit of the contract
  MaxCalls,   \* bound: requests on risk rows, all in all
  MaxFaults,  \* bound: statements that throw and processes that die
  Window,     \* the metering window
  None        \* NULL

ASSUME NoneAssumption == None \notin Finalizes
ASSUME BoundsAssumption ==
  Findings \in Nat \ {0} /\ Capacity \in Nat /\ MaxCalls \in Nat /\ MaxFaults \in Nat

VARIABLES
  entry,     \* the ledger rows of the runs, by key (MeterQuota)
  quota,     \* their limit (MeterQuota)
  swept,     \* keys whose reservation outlived its TTL and was released
  request,   \* next statement of finalizeReview, by run
  poller,    \* next statement of its two pollers
  saved,     \* findings they have saved
  risks,     \* risk_analyses: id -> row; an id is run, poller and number
  human,     \* next statement of each request on a row
  call,      \* its row, and the entity it holds
  calls,     \* requests on rows so far
  faults     \* faults so far

meter == <<entry, quota, swept>>
run == <<request, poller, saved>>
people == <<human, call, calls>>
vars == <<meter, run, risks, people, faults>>

Pollers == {"risk", "conflict"}
Ids == Finalizes \X Pollers \X (1 .. Findings)

Meter == INSTANCE MeterQuota
           WITH Keys <- Finalizes, Windows <- {Window}, Amounts <- {1}

\* What the AI wrote and nobody has touched.
NewRisk == [edited |-> FALSE, merged |-> FALSE, handled |-> FALSE]

NoCall == [id |-> None, entity |-> NewRisk, columns |-> {}]

Fault == faults < MaxFaults /\ faults' = faults + 1

At(f, label) == request' = [request EXCEPT ![f] = label]

Poll(f, k, label) == poller' = [poller EXCEPT ![f][k] = label]

\* An answer { applied: false } is only logged.
Settle(f, s) ==
  /\ IF entry[f].status = "reserved"
       THEN Meter!End(f, s)
       ELSE UNCHANGED <<entry, quota>>
  /\ UNCHANGED swept

-----------------------------------------------------------------------------
(* finalizeReview().                                                       *)

\* reserve() under a fresh key; a denied reserve leaves nothing.
Finalize(f) ==
  /\ request[f] = "new"
  /\ Meter!Grant(f, Window, 1)
  /\ At(f, "dispatchRisk")
  /\ UNCHANGED <<swept, poller, saved, risks, people, faults>>

\* The AI backend takes the job, and the poller owns the reservation ...
DispatchRisk(f) ==
  /\ request[f] = "dispatchRisk"
  /\ Poll(f, "risk", "ask")
  /\ At(f, "dispatchObligations")
  /\ UNCHANGED <<meter, saved, risks, people, faults>>

\* ... or the clauses are not read, or no answer comes.
DispatchRiskFails(f) ==
  /\ request[f] = "dispatchRisk"
  /\ At(f, "inflight")
  /\ UNCHANGED <<meter, poller, saved, risks, people, faults>>

\* releaseFinalizeReservationInFlight.
ReleaseInFlight(f) ==
  /\ request[f] = "inflight"
  /\ Settle(f, "released")
  /\ At(f, "done")
  /\ UNCHANGED <<poller, saved, risks, people, faults>>

\* An error ends the request; the risk poller goes on.
DispatchObligations(f) ==
  /\ request[f] = "dispatchObligations"
  /\ At(f, "dispatchConflicts") \/ At(f, "done")
  /\ UNCHANGED <<meter, poller, saved, risks, people, faults>>

\* Only when the clauses come from two documents; an error is only logged.
DispatchConflicts(f) ==
  /\ request[f] = "dispatchConflicts"
  /\ At(f, "done")
  /\ UNCHANGED poller \/ Poll(f, "conflict", "ask")
  /\ UNCHANGED <<meter, saved, risks, people, faults>>

-----------------------------------------------------------------------------
(* pollAndSaveRisks() and pollAndSaveConflicts().                          *)

\* Where a poller goes once it sees the job ended: failed, with findings or
\* without.
Outcomes(k) ==
  IF k = "risk" THEN {"refund", "commit", "commitEmpty"} ELSE {"save", "done"}

\* The poll that sees the job ended.
AskJob(f, k) ==
  /\ poller[f][k] = "ask"
  /\ \E label \in Outcomes(k) : Poll(f, k, label)
  /\ UNCHANGED <<meter, request, saved, risks, people, faults>>

\* Faulty variant: the poller that gave up leaves the reservation.
GiveUp_Keeps(f, k) ==
  /\ poller[f][k] = "ask"
  /\ Poll(f, k, "done")
  /\ UNCHANGED <<meter, request, saved, risks, people, faults>>

\* MAX_POLLS polls have seen the job under way.
GiveUp(f, k) ==
  /\ poller[f][k] = "ask"
  /\ Poll(f, k, IF k = "risk" THEN "refund" ELSE "done")
  /\ UNCHANGED <<meter, request, saved, risks, people, faults>>

\* Faulty variant: the loop goes on after the refund.
Refund_GoesOn(f) ==
  /\ poller[f]["risk"] = "refund"
  /\ Settle(f, "released")
  /\ Poll(f, "risk", "ask")
  /\ UNCHANGED <<request, saved, risks, people, faults>>

\* releaseFinalizeReservationOnFailure.
Refund(f) ==
  /\ poller[f]["risk"] = "refund"
  /\ Settle(f, "released")
  /\ Poll(f, "risk", "done")
  /\ UNCHANGED <<request, saved, risks, people, faults>>

Committing(f) == poller[f]["risk"] \in {"commit", "commitEmpty"}

\* A job without findings writes nothing and clears nothing.
AfterCommit(f) ==
  Poll(f, "risk", IF poller[f]["risk"] = "commit" THEN "clear" ELSE "done")

\* commitFinalizeReservationOnSuccess, before anything is written.
Commit(f) ==
  /\ Committing(f)
  /\ Settle(f, "committed")
  /\ AfterCommit(f)
  /\ UNCHANGED <<request, saved, risks, people, faults>>

\* Faulty variant: the rows people have edited go as well.
Replaceable_All(r) == r \in DOMAIN risks

Replaceable(r) == ~risks[r].edited /\ ~risks[r].merged

\* The clear: one DELETE, of conflicts too.
Clear(f) ==
  /\ poller[f]["risk"] = "clear"
  /\ risks' = Restrict(risks, {r \in DOMAIN risks : ~Replaceable(r)})
  /\ Poll(f, "risk", "save")
  /\ UNCHANGED <<meter, request, saved, people, faults>>

\* Faulty variant: the loop's place does not advance with the row.
SaveRow_NotCounted(f, k) ==
  /\ poller[f][k] = "save"
  /\ LET id == <<f, k, saved[f][k] + 1>>
     IN  risks' = [r \in DOMAIN risks \cup {id} |->
                     IF r = id THEN NewRisk ELSE risks[r]]
  /\ Poll(f, k, "done")
  /\ UNCHANGED <<meter, request, saved, people, faults>>

\* saveAiRiskAsRow and saveConflictAsRisk: one INSERT per finding; a malformed
\* finding is skipped.
SaveRow(f, k) ==
  /\ poller[f][k] = "save"
  /\ LET n == saved[f][k] + 1
         id == <<f, k, n>>
     IN  /\ saved' = [saved EXCEPT ![f][k] = n]
         /\ \/ risks' = [r \in DOMAIN risks \cup {id} |->
                           IF r = id THEN NewRisk ELSE risks[r]]
            \/ k = "risk" /\ UNCHANGED risks
         /\ Poll(f, k, IF n = Findings THEN "done" ELSE "save")
  /\ UNCHANGED <<meter, request, people, faults>>

-----------------------------------------------------------------------------
(* People at the rows.                                                     *)

Arrive(h) == human[h] = "idle" /\ calls < MaxCalls /\ calls' = calls + 1

Load(h, r, entity) ==
  /\ Arrive(h)
  /\ human' = [human EXCEPT ![h] = "select"]
  /\ call' = [call EXCEPT ![h] = [NoCall EXCEPT !.id = r, !.entity = entity]]
  /\ UNCHANGED <<meter, run, risks, faults>>

\* annotateRisk: a load, the wall, and a save of the whole entity.
Annotate(h, r) ==
  /\ r \in DOMAIN risks
  /\ Load(h, r, [risks[r] EXCEPT !.edited = TRUE])

\* updateRiskStatus: the same with the columns of the handling.
UpdateStatus(h, r) ==
  /\ r \in DOMAIN risks
  /\ Load(h, r, [risks[r] EXCEPT !.handled = TRUE])

SelectRow(h) ==
  /\ human[h] = "select"
  /\ LET c == call[h] IN
       IF c.id \in DOMAIN risks
         THEN /\ call' = [call EXCEPT ![h].columns =
                    {x \in DOMAIN NewRisk : risks[c.id][x] # c.entity[x]}]
              /\ human' = [human EXCEPT ![h] = "update"]
         ELSE human' = [human EXCEPT ![h] = "insert"] /\ UNCHANGED call
  /\ UNCHANGED <<meter, run, risks, calls, faults>>

Leave(h) ==
  /\ human' = [human EXCEPT ![h] = "idle"]
  /\ call' = [call EXCEPT ![h] = NoCall]
  /\ UNCHANGED <<meter, run, calls, faults>>

\* Of a row that has gone meanwhile the UPDATE changes nothing.
UpdateRow(h) ==
  /\ human[h] = "update"
  /\ LET c == call[h] IN
       risks' = [r \in DOMAIN risks |->
                   IF r = c.id
                     THEN [x \in DOMAIN NewRisk |->
                             IF x \in c.columns THEN c.entity[x] ELSE risks[r][x]]
                     ELSE risks[r]]
  /\ Leave(h)

\* Of a row that is there again the INSERT fails.
InsertRow(h) ==
  /\ human[h] = "insert"
  /\ LET c == call[h] IN
       risks' = [r \in DOMAIN risks \cup {c.id} |->
                   IF r \in DOMAIN risks THEN risks[r] ELSE c.entity]
  /\ Leave(h)

\* applyRephrase, accepted: of the row only merged_at, and the handling if the
\* box is ticked, in one UPDATE.
Merge(h, r) ==
  /\ Arrive(h)
  /\ r \in DOMAIN risks /\ r[2] = "risk"
  /\ \E ticked \in BOOLEAN :
       risks' = [risks EXCEPT ![r].merged = TRUE, ![r].handled = @ \/ ticked]
  /\ UNCHANGED <<meter, run, human, call, faults>>

-----------------------------------------------------------------------------
(* Errors and the sweeper.                                                 *)

\* An exception ends one poller: it is caught where it was launched, and only
\* logged.
PollerThrows(f, k) ==
  /\ poller[f][k] \in {"ask", "clear", "save"}
  /\ Fault
  /\ Poll(f, k, "done")
  /\ UNCHANGED <<meter, request, saved, risks, people>>

\* A settlement that throws is only logged; the poller goes on.
SettleThrows(f) ==
  /\ Fault
  /\ \/ Committing(f) /\ AfterCommit(f)
     \/ poller[f]["risk"] = "refund" /\ Poll(f, "risk", "done")
  /\ UNCHANGED <<meter, request, saved, risks, people>>

\* The process dies with the request and its pollers.
ProcessDies(f) ==
  /\ request[f] \notin {"new", "lost"}
  /\ Fault
  /\ At(f, "lost")
  /\ poller' = [poller EXCEPT ![f] = [k \in Pollers |-> "done"]]
  /\ UNCHANGED <<meter, saved, risks, people>>

\* The reservation outlives its TTL and the sweeper releases it.
Sweep(f) ==
  /\ Meter!End(f, "released")
  /\ swept' = swept \cup {f}
  /\ UNCHANGED <<run, risks, people, faults>>

-----------------------------------------------------------------------------
Init ==
  /\ entry = [k \in {} |-> k]
  /\ quota = Capacity
  /\ swept = {}
  /\ request = [f \in Finalizes |-> "new"]
  /\ poller = [f \in Finalizes |-> [k \in Pollers |-> "off"]]
  /\ saved = [f \in Finalizes |-> [k \in Pollers |-> 0]]
  /\ risks = [r \in {} |-> r]
  /\ human = [h \in Humans |-> "idle"]
  /\ call = [h \in Humans |-> NoCall]
  /\ calls = 0
  /\ faults = 0

\* What the processes do on their own once a run has begun.
Step(f) ==
  \/ DispatchRisk(f) \/ DispatchRiskFails(f) \/ ReleaseInFlight(f)
  \/ DispatchObligations(f) \/ DispatchConflicts(f)

PollerStep(f, k) ==
  \/ AskJob(f, k) \/ GiveUp(f, k) \/ SaveRow(f, k)
  \/ k = "risk" /\ (Commit(f) \/ Refund(f) \/ Clear(f))

Next ==
  \/ \E f \in Finalizes :
       \/ Finalize(f) \/ Step(f)
       \/ SettleThrows(f) \/ ProcessDies(f) \/ Sweep(f)
       \/ \E k \in Pollers : PollerStep(f, k) \/ PollerThrows(f, k)
  \/ \E h \in Humans :
       \/ SelectRow(h) \/ UpdateRow(h) \/ InsertRow(h)
       \/ \E r \in Ids : Annotate(h, r) \/ UpdateStatus(h, r) \/ Merge(h, r)

\* Requests and pollers go on; a poller's patience is MAX_POLLS.  Nothing is
\* assumed of the AI jobs, the people and the sweeper.
Fairness ==
  \A f \in Finalizes :
    WF_vars(Step(f)) /\ \A k \in Pollers : WF_vars(PollerStep(f, k))

Spec == Init /\ [][Next]_vars
FairSpec == Spec /\ Fairness
-----------------------------------------------------------------------------
(* Properties.                                                             *)

RiskRow == [edited : BOOLEAN, merged : BOOLEAN, handled : BOOLEAN]

\* Types; a row is there only if its poller saved it.
TypeOK ==
  /\ DOMAIN entry \subseteq Finalizes
  /\ entry \in [DOMAIN entry ->
                  [window : {Window}, amount : {1},
                   status : {"reserved", "committed", "released"}]]
  /\ quota \in Nat
  /\ swept \subseteq DOMAIN entry
  /\ request \in [Finalizes ->
                    {"new", "dispatchRisk", "inflight", "dispatchObligations",
                     "dispatchConflicts", "done", "lost"}]
  /\ poller \in [Finalizes ->
                   [Pollers -> {"off", "ask", "commit", "commitEmpty",
                                "refund", "clear", "save", "done"}]]
  /\ saved \in [Finalizes -> [Pollers -> 0 .. Findings]]
  /\ risks \in [DOMAIN risks -> RiskRow]
  /\ \A r \in DOMAIN risks : r \in Ids /\ r[3] <= saved[r[1]][r[2]]
  /\ human \in [Humans -> {"idle", "select", "update", "insert"}]
  /\ call \in [Humans -> [id : Ids \cup {None}, entity : RiskRow,
                          columns : SUBSET DOMAIN NewRisk]]
  /\ calls \in 0 .. MaxCalls
  /\ faults \in 0 .. MaxFaults

Reserved(f) == f \in DOMAIN entry /\ entry[f].status = "reserved"

Refunded(f) ==
  f \in DOMAIN entry /\ entry[f].status = "released" /\ f \notin swept

\* A run that was refunded, at once or by its poller, never writes a risk: an
\* answer that comes after the poller gave up is too late
\* (releaseFinalizeReservationOnFailure is the last thing a poller does).
RefundedRunsSaveNothing ==
  \A f \in Finalizes : Refunded(f) =>
    /\ saved[f]["risk"] = 0
    /\ poller[f]["risk"] \in {"off", "done"}

\* The request owns the reservation until the risk job is taken ...
RequestOwns(f) == request[f] \in {"dispatchRisk", "inflight"}
\* ... and the risk poller until it settles.
PollerOwns(f) == poller[f]["risk"] \in {"ask", "refund", "commit", "commitEmpty"}

\* The reservation is known to the memory of the process only, and the hand-over
\* from the request to its poller neither loses nor doubles it: while nothing
\* throws or dies an open reservation has an owner who will settle it, there is
\* never more than one, and an owner's reservation is open unless it was swept,
\* so nobody settles what another has settled.
ReservationsHaveOneOwner ==
  \A f \in Finalizes :
    /\ Reserved(f) /\ faults = 0 => RequestOwns(f) \/ PollerOwns(f)
    /\ RequestOwns(f) \/ PollerOwns(f) => Reserved(f) \/ f \in swept
    /\ ~(RequestOwns(f) /\ PollerOwns(f))

\* While nothing throws or dies every run settles its own reservation, whatever
\* becomes of its jobs and without the sweeper (the poller is the terminal
\* owner of the reservation).
RunsSettle ==
  \A f \in Finalizes : Reserved(f) ~> ~Reserved(f) \/ faults > 0

\* "Human-edited and merged rows are PRESERVED": no later run takes them, nor a
\* save of the person's own that was on its way (pollAndSaveRisks, the clear).
HumanWorkSurvives ==
  [][\A r \in DOMAIN risks :
       /\ risks[r].edited => r \in DOMAIN risks' /\ risks'[r].edited
       /\ risks[r].merged => r \in DOMAIN risks' /\ risks'[r].merged]_vars

\* What the comment on the clear says: it takes the rows of the previous run,
\* so what a run finds stays until the next run.
RunsKeepTheirConflicts ==
  [][\A f \in Finalizes :
       /\ poller[f]["risk"] = "clear" /\ poller'[f]["risk"] = "save"
       => \A r \in DOMAIN risks : r[1] = f => r \in DOMAIN risks']_vars
=============================================================================
