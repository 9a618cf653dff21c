-------------------------- MODULE ComplianceProofs --------------------------
(***************************************************************************)
(* Theorems about Compliance, for any number of requests, checks, errors   *)
(* and deaths.                                                             *)
(***************************************************************************)
EXTENDS Compliance, TLAPS

-----------------------------------------------------------------------------
(* The inductive invariant.                                                *)

\* The requests at work on a check are its runner, before its job is known to
\* anybody, or polls.
Runner(p) ==
  \/ pc[p] \in {"persist", "dispatch", "release"}
  \/ Saving(p, "release")
  \/ Saving(p, "idle") /\ Entity(p).status = "PENDING"

Poller(p) == pc[p] # "idle" /\ ~Runner(p)

ActiveOn(p, c) == pc[p] # "idle" /\ Mine(p) = c

Unpollable(c) ==
  check[c] # None => ~AwaitsAudit(check[c]) /\ ~AwaitsExtraction(check[c])

\* Only requests of a run that was granted touch its check.
StartedChecks ==
  /\ \A p \in Callers : pc[p] # "idle" => Mine(p) \in DOMAIN entry
  /\ \A c \in Checks : c \notin DOMAIN entry => check[c] = None /\ audit[c] = "none"

\* A runner is alone, and what it has stored is what it was to store.
RunnerOk(p) ==
  Runner(p) =>
    /\ \A q \in Callers : q # p => ~ActiveOn(q, Mine(p))
    /\ findings[Mine(p)] = 0
    /\ Entity(p).extraction = "PENDING" /\ Entity(p).extractionJob = 0
    /\ pc[p] \in {"persist", "dispatch"} =>
         audit[Mine(p)] = "none" /\ Entity(p) = NewRow
    /\ pc[p] = "persist" => check[Mine(p)] = None
    /\ pc[p] \in {"dispatch", "select", "write"} => check[Mine(p)] = NewRow
    /\ pc[p] = "release" => Unpollable(Mine(p))
    /\ Saving(p, "release") => Entity(p).status = "FAILED"

RunnersAreAlone == \A p \in Callers : RunnerOk(p)

\* What the entity of a poll says is so, whatever others have saved since.
PollOk(p) ==
  Poller(p) =>
    /\ check[Mine(p)] # None
    /\ Entity(p).extraction # "PENDING" => Entity(p).status = "DONE"
    /\ Entity(p).status = "DONE" => findings[Mine(p)] > 0
    /\ Entity(p).status = "FAILED" => audit[Mine(p)] = "failed"
    /\ pc[p] \in {"audit", "findings"} => Entity(p).status = "PENDING"
    /\ pc[p] = "findings" => audit[Mine(p)] = "completed"
    /\ pc[p] \in {"commit", "extract", "obligations"} => Entity(p).status = "DONE"
    /\ pc[p] = "commit" => check[Mine(p)].status = "DONE"
    /\ pc[p] = "refund" => Entity(p).status = "FAILED"
    /\ pc[p] \in {"select", "write"} =>
         /\ Entity(p).status # "PENDING"
         /\ job[p].next \in {"commit", "extraction", "refund", "idle"}
         /\ job[p].next # "refund" => Entity(p).status = "DONE"
         /\ job[p].next = "refund" => Entity(p).status = "FAILED"

PollsAreTrue == \A p \in Callers : PollOk(p)

\* A save that leaves the verdict out has found it stored.
SaveOk(p) ==
  pc[p] = "write" /\ "status" \notin job[p].columns =>
    check[Mine(p)].status = Entity(p).status

SavesKnowTheVerdict == \A p \in Callers : SaveOk(p)

\* What a stored row says is so.
RowOk(c) ==
  /\ findings[c] > 0 => audit[c] = "completed" /\ check[c] # None
  /\ check[c] # None =>
       /\ check[c].extractionJob <= Len(extractions[c])
       /\ check[c].extraction # "PENDING" => check[c].status = "DONE"
       /\ check[c].status = "DONE" => findings[c] > 0
       /\ check[c].status = "FAILED" =>
            \/ audit[c] = "failed"
            \/ \A p \in Callers : Poller(p) => Mine(p) # c

RowsAreTrue == \A c \in Checks : RowOk(c)

\* A run refunded before its TTL is over.
RefundedRunsAreOver ==
  \A c \in DOMAIN entry : entry[c].status = "released" /\ c \notin lapsed =>
    /\ findings[c] = 0
    /\ \/ audit[c] = "failed"
       \/ Unpollable(c) /\ \A p \in Callers : ~ActiveOn(p, c)

JobStates == {"queued", "completed", "failed"}

JobRow == [check : Checks \cup {None}, entity : CheckRow,
           columns : SUBSET DOMAIN NewRow, next : Labels]

\* What TypeOK leaves open.
Shapes == /\ extractions \in [Checks -> Seq(JobStates)]
          /\ job \in [Callers -> JobRow]

IInv ==
  /\ TypeOK /\ Shapes
  /\ StartedChecks
  /\ RunnersAreAlone
  /\ PollsAreTrue
  /\ SavesKnowTheVerdict
  /\ RowsAreTrue
  /\ ChargedRunsDelivered
  /\ RefundedRunsAreOver

-----------------------------------------------------------------------------
(* Types.                                                                  *)

EntryRow == [window : {Window}, amount : {1},
             status : {"reserved", "committed", "released"}]

MeterTyped ==
  /\ DOMAIN entry \subseteq Checks
  /\ entry \in [DOMAIN entry -> EntryRow]
  /\ quota \in Nat
  /\ lapsed \subseteq Checks

RowsTyped ==
  /\ check \in [Checks -> CheckRow \cup {None}]
  /\ findings \in [Checks -> Nat] /\ obligations \in [Checks -> Nat]
  /\ audit \in [Checks -> {"none", "queued", "completed", "failed"}]
  /\ extractions \in [Checks -> Seq(JobStates)]

CallsTyped ==
  /\ pc \in [Callers -> Labels]
  /\ job \in [Callers -> JobRow]
  /\ faults \in 0 .. MaxFaults

\* The job an entity names was dispatched.
NamesJob(e, c) == c # None => e.extractionJob <= Len(extractions[c])

CallsNameJobs == \A p \in Callers : NamesJob(Entity(p), Mine(p))

LEMMA TypeParts ==
  TypeOK /\ Shapes <=> MeterTyped /\ RowsTyped /\ CallsTyped /\ CallsNameJobs
<1>1. (\A c \in Checks : extractions[c] \in Seq(JobStates)) =>
        \A c \in Checks : \A i \in DOMAIN extractions[c] : extractions[c][i] \in JobStates
  OBVIOUS
<1>2. extractions \in [Checks -> Seq(JobStates)] =>
        \A c \in Checks : extractions[c] \in Seq(JobStates)
  OBVIOUS
<1>3. job \in [Callers -> JobRow] =>
        \A p \in Callers : /\ Mine(p) \in Checks \cup {None} /\ Entity(p) \in CheckRow
                           /\ job[p].columns \subseteq DOMAIN NewRow
                           /\ job[p].next \in Labels
  BY DEF JobRow, Mine, Entity
<1> QED
  BY <1>1, <1>2, <1>3 DEF TypeOK, Shapes, MeterTyped, RowsTyped, CallsTyped,
     CallsNameJobs, NamesJob, EntryRow, JobStates

\* The row a save leaves behind.
Merged(row, e, cols) == [f \in DOMAIN NewRow |-> IF f \in cols THEN e[f] ELSE row[f]]

LEMMA MergedRow ==
  ASSUME NEW row \in CheckRow, NEW e \in CheckRow, NEW cols
  PROVE  /\ Merged(row, e, cols) \in CheckRow
         /\ Merged(row, e, cols).status = IF "status" \in cols THEN e.status ELSE row.status
         /\ Merged(row, e, cols).extraction
              = IF "extraction" \in cols THEN e.extraction ELSE row.extraction
         /\ Merged(row, e, cols).job = IF "job" \in cols THEN e.job ELSE row.job
         /\ Merged(row, e, cols).extractionJob
              = IF "extractionJob" \in cols THEN e.extractionJob ELSE row.extractionJob
BY DEF Merged, NewRow, CheckRow

LEMMA NewRowType == NewRow \in CheckRow /\ NoJob \in JobRow
BY DEF NewRow, CheckRow, NoJob, JobRow, Labels

\* A settlement writes the status of one row that was reserved.
LEMMA EndRow ==
  ASSUME MeterTyped, NEW c, NEW s \in {"committed", "released"}, Meter!End(c, s)
  PROVE  /\ c \in DOMAIN entry /\ c \in Checks
         /\ DOMAIN entry' = DOMAIN entry
         /\ entry'[c].status = s
         /\ \A d \in DOMAIN entry \ {c} : entry'[d] = entry[d]
         /\ entry' \in [DOMAIN entry -> EntryRow]
         /\ quota' = quota
<1>1. c \in DOMAIN entry /\ entry[c] \in EntryRow
  BY DEF Meter!End, MeterTyped
<1>2. [entry[c] EXCEPT !.status = s] \in EntryRow
  BY <1>1 DEF EntryRow
<1>3. [entry[c] EXCEPT !.status = s].status = s
  BY <1>1 DEF EntryRow
<1> QED
  BY <1>1, <1>2, <1>3 DEF Meter!End, MeterTyped

\* A grant adds a reserved row.
LEMMA GrantRow ==
  ASSUME MeterTyped, NEW c \in Checks, Meter!Grant(c, Window, 1)
  PROVE  /\ c \notin DOMAIN entry
         /\ DOMAIN entry' = DOMAIN entry \cup {c}
         /\ entry'[c].status = "reserved"
         /\ \A d \in DOMAIN entry : entry'[d] = entry[d]
         /\ entry' \in [DOMAIN entry' -> EntryRow]
         /\ quota' = quota
<1> DEFINE row == [window |-> Window, amount |-> 1, status |-> "reserved"]
<1>1. row \in EntryRow /\ row.status = "reserved"
  BY DEF EntryRow
<1>2. /\ c \notin DOMAIN entry /\ quota' = quota
      /\ entry' = [j \in DOMAIN entry \cup {c} |-> IF j = c THEN row ELSE entry[j]]
  BY DEF Meter!Grant, Meter!WithRow
<1> HIDE DEF row
<1>3. entry \in [DOMAIN entry -> EntryRow]
  BY DEF MeterTyped
<1>4. DOMAIN entry' = DOMAIN entry \cup {c} /\ entry'[c] = row
  BY <1>2
<1>5. \A d \in DOMAIN entry : entry'[d] = entry[d]
  BY <1>2
<1>6. entry' \in [DOMAIN entry \cup {c} -> EntryRow]
  BY <1>1, <1>2, <1>3
<1> QED
  BY <1>1, <1>2, <1>4, <1>5, <1>6

\* Settle writes at most the row of its check, and only from reserved.
LEMMA SettleRow ==
  ASSUME MeterTyped, NEW p, NEW s \in {"committed", "released"}, Settle(p, s)
  PROVE  /\ MeterTyped' /\ DOMAIN entry' = DOMAIN entry /\ lapsed' = lapsed
         /\ \A d \in DOMAIN entry : d # Mine(p) => entry'[d] = entry[d]
         /\ entry'[Mine(p)] = entry[Mine(p)] \/ entry'[Mine(p)].status = s
<1>1. CASE Meter!End(Mine(p), s) /\ UNCHANGED lapsed
  BY <1>1, EndRow DEF MeterTyped
<1>2. CASE UNCHANGED <<entry, quota, lapsed>>
  BY <1>2 DEF MeterTyped
<1> QED
  BY <1>1, <1>2 DEF Settle

-----------------------------------------------------------------------------
(* What a call does to its own place and to its job.                       *)

\* The other calls stay where they are.
OthersStay(p) == \A q \in Callers \ {p} : pc'[q] = pc[q] /\ job'[q] = job[q]

\* The place of p after a step, and its job.
Arrives(p, l, c, e, n) ==
  /\ pc'[p] = l
  /\ job'[p].check = c /\ job'[p].entity = e /\ job'[p].next = n

Moved(p) ==
  /\ pc' \in [Callers -> Labels]
  /\ job' \in [Callers -> JobRow]
  /\ OthersStay(p)

LEMMA GotoMoves ==
  ASSUME CallsTyped, NEW p \in Callers, NEW l \in Labels, Goto(p, l), UNCHANGED job
  PROVE  Moved(p) /\ Arrives(p, l, Mine(p), Entity(p), job[p].next)
BY DEF CallsTyped, Goto, Moved, Arrives, OthersStay, Mine, Entity

Saved(j, e, n) == [j EXCEPT !.entity = e, !.next = n]

Selected(j, cols) == [j EXCEPT !.columns = cols]

LEMMA SavedJob ==
  ASSUME NEW j \in JobRow, NEW e \in CheckRow, NEW n \in Labels
  PROVE  /\ Saved(j, e, n) \in JobRow
         /\ Saved(j, e, n).check = j.check
         /\ Saved(j, e, n).entity = e
         /\ Saved(j, e, n).next = n
BY DEF JobRow, Saved

LEMMA SelectedJob ==
  ASSUME NEW j \in JobRow, NEW cols, cols \subseteq DOMAIN NewRow
  PROVE  /\ Selected(j, cols) \in JobRow
         /\ Selected(j, cols).check = j.check
         /\ Selected(j, cols).entity = j.entity
         /\ Selected(j, cols).columns = cols
         /\ Selected(j, cols).next = j.next
BY DEF JobRow, Selected

LEMMA SaveMoves ==
  ASSUME CallsTyped, NEW p \in Callers, NEW e \in CheckRow, NEW l \in Labels,
         Save(p, e, l)
  PROVE  Moved(p) /\ Arrives(p, "select", Mine(p), e, l)
<1> DEFINE j == Saved(job[p], e, l)
<1>1. job[p] \in JobRow
  BY DEF CallsTyped
<1>2. j \in JobRow /\ j.check = job[p].check /\ j.entity = e /\ j.next = l
  BY <1>1, SavedJob
<1>3. job' = [job EXCEPT ![p] = j] /\ pc' = [pc EXCEPT ![p] = "select"]
  BY DEF Save, Goto, Saved
<1> HIDE DEF j
<1>4. job'[p] = j /\ pc'[p] = "select"
  BY <1>3 DEF CallsTyped
<1>5. Moved(p)
  BY <1>2, <1>3 DEF CallsTyped, Moved, OthersStay, Labels
<1> QED
  BY <1>2, <1>4, <1>5 DEF Arrives, Mine

LEMMA ReturnMoves ==
  ASSUME CallsTyped, NEW p \in Callers, Return(p)
  PROVE  Moved(p) /\ Arrives(p, "idle", None, NewRow, "idle")
<1>1. job' = [job EXCEPT ![p] = NoJob] /\ pc' = [pc EXCEPT ![p] = "idle"]
  BY DEF Return, Goto
<1>2. NoJob \in JobRow /\ NoJob.check = None /\ NoJob.entity = NewRow /\ NoJob.next = "idle"
  BY NewRowType DEF NoJob
<1> HIDE DEF NoJob
<1>3. Moved(p)
  BY <1>1, <1>2 DEF CallsTyped, Moved, OthersStay, Labels
<1> QED
  BY <1>1, <1>2, <1>3 DEF CallsTyped, Arrives

LEMMA ColumnsMove ==
  ASSUME CallsTyped, NEW p \in Callers, NEW cols, cols \subseteq DOMAIN NewRow,
         NEW l \in Labels, Goto(p, l), job' = [job EXCEPT ![p].columns = cols]
  PROVE  /\ Moved(p) /\ Arrives(p, l, Mine(p), Entity(p), job[p].next)
         /\ job'[p].columns = cols
<1> DEFINE j == Selected(job[p], cols)
<1>1. job[p] \in JobRow
  BY DEF CallsTyped
<1>2. /\ j \in JobRow /\ j.check = job[p].check /\ j.entity = job[p].entity
      /\ j.columns = cols /\ j.next = job[p].next
  BY <1>1, SelectedJob
<1>3. job' = [job EXCEPT ![p] = j]
  BY DEF Selected
<1> HIDE DEF j
<1>4. job'[p] = j /\ pc'[p] = l
  BY <1>3 DEF CallsTyped, Goto
<1>5. Moved(p)
  BY <1>2, <1>3 DEF CallsTyped, Moved, OthersStay, Labels, Goto
<1> QED
  BY <1>2, <1>4, <1>5 DEF Arrives, Mine, Entity

\* A call takes up a check.
LEMMA StartMoves ==
  ASSUME CallsTyped, NEW p \in Callers, NEW j \in JobRow,
         NEW l \in Labels, Goto(p, l), job' = [job EXCEPT ![p] = j]
  PROVE  Moved(p) /\ Arrives(p, l, j.check, j.entity, j.next)
<1>1. job'[p] = j /\ pc'[p] = l
  BY DEF CallsTyped, Goto
<1>2. Moved(p)
  BY DEF CallsTyped, Moved, OthersStay, Goto
<1> QED
  BY <1>1, <1>2 DEF Arrives

-----------------------------------------------------------------------------
(* What each step does to the place and the job of its call.               *)

\* Where a call at work stands.
LEMMA AtWork ==
  ASSUME IInv, NEW p \in Callers, pc[p] # "idle"
  PROVE  /\ Mine(p) \in Checks /\ Mine(p) \in DOMAIN entry /\ Mine(p) # None
         /\ Entity(p) \in CheckRow /\ job[p] \in JobRow
         /\ CallsTyped /\ RowsTyped /\ MeterTyped
         /\ pc[p] \in {"select", "write"} => check[Mine(p)] \in CheckRow
<1>1. MeterTyped /\ RowsTyped /\ CallsTyped
  BY TypeParts DEF IInv
<1>2. Mine(p) \in DOMAIN entry /\ DOMAIN entry \subseteq Checks
  BY <1>1 DEF IInv, StartedChecks, MeterTyped
<1>3. job[p] \in JobRow /\ Entity(p) \in CheckRow
  BY <1>1 DEF CallsTyped, JobRow, Entity
<1>4. check[Mine(p)] \in CheckRow \cup {None}
  BY <1>1, <1>2 DEF RowsTyped
<1>5. CASE Runner(p)
  BY <1>1, <1>2, <1>3, <1>4, <1>5, NewRowType, ChecksAssumption
     DEF IInv, RunnersAreAlone, RunnerOk
<1>6. CASE ~Runner(p)
  BY <1>1, <1>2, <1>3, <1>4, <1>6, ChecksAssumption DEF IInv, PollsAreTrue, PollOk, Poller
<1> QED
  BY <1>5, <1>6

LEMMA SelectDoes ==
  ASSUME IInv, NEW p \in Callers, Select(p)
  PROVE  /\ Moved(p) /\ Arrives(p, "write", Mine(p), Entity(p), job[p].next)
         /\ job'[p].columns = {f \in DOMAIN NewRow : check[Mine(p)][f] # Entity(p)[f]}
         /\ pc[p] = "select"
<1> DEFINE cols == {f \in DOMAIN NewRow : check[Mine(p)][f] # Entity(p)[f]}
<1>1. CallsTyped
  BY AtWork DEF Select
<1>2. /\ pc[p] = "select" /\ Goto(p, "write")
      /\ job' = [job EXCEPT ![p].columns = cols]
  BY DEF Select
<1>3. cols \subseteq DOMAIN NewRow /\ "write" \in Labels
  BY DEF Labels
<1> HIDE DEF cols
<1>4. /\ Moved(p) /\ Arrives(p, "write", Mine(p), Entity(p), job[p].next)
      /\ job'[p].columns = cols
  BY <1>1, <1>2, <1>3, ColumnsMove
<1> QED
  BY <1>2, <1>4 DEF cols

LEMMA WriteDoes ==
  ASSUME IInv, NEW p \in Callers, Write(p)
  PROVE  /\ Moved(p) /\ Arrives(p, job[p].next, Mine(p), Entity(p), job[p].next)
         /\ pc[p] = "write"
         /\ check' = [check EXCEPT ![Mine(p)] =
                        Merged(check[Mine(p)], Entity(p), job[p].columns)]
         /\ check'[Mine(p)] = Merged(check[Mine(p)], Entity(p), job[p].columns)
         /\ check'[Mine(p)] \in CheckRow
         /\ check' \in [Checks -> CheckRow \cup {None}]
<1>1. /\ CallsTyped /\ RowsTyped /\ Mine(p) \in Checks /\ check[Mine(p)] \in CheckRow
      /\ Entity(p) \in CheckRow /\ job[p] \in JobRow
  BY AtWork DEF Write
<1>2. /\ pc[p] = "write" /\ Goto(p, job[p].next) /\ job[p].next \in Labels
      /\ job' = [job EXCEPT ![p].columns = {}]
  BY <1>1 DEF Write, JobRow
<1>3. Moved(p) /\ Arrives(p, job[p].next, Mine(p), Entity(p), job[p].next)
  BY <1>1, <1>2, ColumnsMove
<1>4. check' = [check EXCEPT ![Mine(p)] =
                  Merged(check[Mine(p)], Entity(p), job[p].columns)]
  BY DEF Write, Merged
<1>5. Merged(check[Mine(p)], Entity(p), job[p].columns) \in CheckRow
  BY <1>1, MergedRow
<1> QED
  BY <1>1, <1>2, <1>3, <1>4, <1>5 DEF RowsTyped

LEMMA RunCheckDoes ==
  ASSUME IInv, NEW p \in Callers, NEW c \in Checks, RunCheck(p, c)
  PROVE  Moved(p) /\ Arrives(p, "persist", c, NewRow, "idle") /\ pc[p] = "idle"
<1>1. CallsTyped /\ "persist" \in Labels
  BY TypeParts DEF IInv, Labels
<1> DEFINE j == [NoJob EXCEPT !.check = c]
<1>2. j \in JobRow /\ j.check = c /\ j.entity = NewRow /\ j.next = "idle"
  BY NewRowType DEF NoJob, JobRow
<1>3. pc[p] = "idle" /\ Goto(p, "persist") /\ job' = [job EXCEPT ![p] = j]
  BY DEF RunCheck
<1> HIDE DEF j
<1>4. Moved(p) /\ Arrives(p, "persist", j.check, j.entity, j.next)
  BY <1>1, <1>2, <1>3, StartMoves
<1> QED
  BY <1>2, <1>3, <1>4

LEMMA PollDoes ==
  ASSUME IInv, NEW p \in Callers, NEW c \in Checks, Poll(p, c)
  PROVE  /\ Moved(p) /\ check[c] \in CheckRow /\ pc[p] = "idle"
         /\ Arrives(p, IF AwaitsAudit(check[c]) THEN "audit" ELSE "extraction",
                    c, check[c], "idle")
         /\ AwaitsAudit(check[c]) \/ AwaitsExtraction(check[c])
<1>1. CallsTyped /\ RowsTyped
  BY TypeParts DEF IInv
<1>2. check[c] \in CheckRow
  BY <1>1 DEF RowsTyped, Poll
<1> DEFINE l == IF AwaitsAudit(check[c]) THEN "audit" ELSE "extraction"
<1>3. l \in Labels
  BY DEF Labels
<1> DEFINE j == [NoJob EXCEPT !.check = c, !.entity = check[c]]
<1>4. j \in JobRow /\ j.check = c /\ j.entity = check[c] /\ j.next = "idle"
  BY <1>2, NewRowType DEF NoJob, JobRow
<1>5. /\ pc[p] = "idle" /\ Goto(p, l) /\ job' = [job EXCEPT ![p] = j]
      /\ AwaitsAudit(check[c]) \/ AwaitsExtraction(check[c])
  BY DEF Poll
<1> HIDE DEF l, j
<1>6. Moved(p) /\ Arrives(p, l, j.check, j.entity, j.next)
  BY <1>1, <1>3, <1>4, <1>5, StartMoves
<1> QED
  BY <1>2, <1>4, <1>5, <1>6 DEF l

\* What is to be saved, and what comes after.
Saves(p, s, x, k, n) ==
  /\ pc'[p] = "select"
  /\ job'[p].check = Mine(p) /\ job'[p].next = n
  /\ job'[p].entity.status = s /\ job'[p].entity.extraction = x
  /\ job'[p].entity.extractionJob = k

LEMMA SaveDoes ==
  ASSUME IInv, NEW p \in Callers, pc[p] # "idle",
         NEW e \in CheckRow, NEW l \in Labels, Save(p, e, l)
  PROVE  Moved(p) /\ Saves(p, e.status, e.extraction, e.extractionJob, l)
<1>1. CallsTyped
  BY AtWork
<1>2. Moved(p) /\ Arrives(p, "select", Mine(p), e, l)
  BY <1>1, SaveMoves
<1> QED
  BY <1>2 DEF Saves, Arrives

LEMMA GotoDoes ==
  ASSUME IInv, NEW p \in Callers, NEW l \in Labels, Goto(p, l), UNCHANGED job
  PROVE  Moved(p) /\ Arrives(p, l, Mine(p), Entity(p), job[p].next)
BY GotoMoves, TypeParts DEF IInv

LEMMA ReturnDoes ==
  ASSUME IInv, NEW p \in Callers, Return(p)
  PROVE  Moved(p) /\ Arrives(p, "idle", None, NewRow, "idle")
BY ReturnMoves, TypeParts DEF IInv

\* The saves of a job id, of a verdict and of the state of an extraction.
LEMMA JobSaved ==
  ASSUME IInv, NEW p \in Callers, pc[p] # "idle", NEW l \in Labels,
         Save(p, [Entity(p) EXCEPT !.job = TRUE], l)
  PROVE  Moved(p) /\ Saves(p, Entity(p).status, Entity(p).extraction, Entity(p).extractionJob, l)
<1> DEFINE e == [Entity(p) EXCEPT !.job = TRUE]
<1>1. Entity(p) \in CheckRow
  BY AtWork
<1>2. /\ e \in CheckRow
      /\ e.status = Entity(p).status /\ e.extraction = Entity(p).extraction /\ e.extractionJob = Entity(p).extractionJob
  BY <1>1 DEF CheckRow
<1>3. Save(p, e, l)
  OBVIOUS
<1> HIDE DEF e
<1>4. Moved(p) /\ Saves(p, e.status, e.extraction, e.extractionJob, l)
  BY <1>2, <1>3, SaveDoes
<1> QED
  BY <1>2, <1>4

LEMMA FailureSaved ==
  ASSUME IInv, NEW p \in Callers, pc[p] # "idle", NEW l \in Labels,
         Save(p, [Entity(p) EXCEPT !.status = "FAILED"], l)
  PROVE  Moved(p) /\ Saves(p, "FAILED", Entity(p).extraction, Entity(p).extractionJob, l)
<1> DEFINE e == [Entity(p) EXCEPT !.status = "FAILED"]
<1>1. Entity(p) \in CheckRow
  BY AtWork
<1>2. /\ e \in CheckRow
      /\ e.status = "FAILED" /\ e.extraction = Entity(p).extraction /\ e.extractionJob = Entity(p).extractionJob
  BY <1>1 DEF CheckRow
<1>3. Save(p, e, l)
  OBVIOUS
<1> HIDE DEF e
<1>4. Moved(p) /\ Saves(p, e.status, e.extraction, e.extractionJob, l)
  BY <1>2, <1>3, SaveDoes
<1> QED
  BY <1>2, <1>4

LEMMA VerdictSaved ==
  ASSUME IInv, NEW p \in Callers, pc[p] # "idle", NEW l \in Labels,
         Save(p, [Entity(p) EXCEPT !.status = "DONE"], l)
  PROVE  Moved(p) /\ Saves(p, "DONE", Entity(p).extraction, Entity(p).extractionJob, l)
<1> DEFINE e == [Entity(p) EXCEPT !.status = "DONE"]
<1>1. Entity(p) \in CheckRow
  BY AtWork
<1>2. /\ e \in CheckRow
      /\ e.status = "DONE" /\ e.extraction = Entity(p).extraction /\ e.extractionJob = Entity(p).extractionJob
  BY <1>1 DEF CheckRow
<1>3. Save(p, e, l)
  OBVIOUS
<1> HIDE DEF e
<1>4. Moved(p) /\ Saves(p, e.status, e.extraction, e.extractionJob, l)
  BY <1>2, <1>3, SaveDoes
<1> QED
  BY <1>2, <1>4

LEMMA ExtractionFailureSaved ==
  ASSUME IInv, NEW p \in Callers, pc[p] # "idle", NEW l \in Labels,
         Save(p, [Entity(p) EXCEPT !.extraction = "FAILED"], l)
  PROVE  Moved(p) /\ Saves(p, Entity(p).status, "FAILED", Entity(p).extractionJob, l)
<1> DEFINE e == [Entity(p) EXCEPT !.extraction = "FAILED"]
<1>1. Entity(p) \in CheckRow
  BY AtWork
<1>2. /\ e \in CheckRow
      /\ e.status = Entity(p).status /\ e.extraction = "FAILED" /\ e.extractionJob = Entity(p).extractionJob
  BY <1>1 DEF CheckRow
<1>3. Save(p, e, l)
  OBVIOUS
<1> HIDE DEF e
<1>4. Moved(p) /\ Saves(p, e.status, e.extraction, e.extractionJob, l)
  BY <1>2, <1>3, SaveDoes
<1> QED
  BY <1>2, <1>4

LEMMA CompletionSaved ==
  ASSUME IInv, NEW p \in Callers, pc[p] # "idle", NEW l \in Labels,
         Save(p, [Entity(p) EXCEPT !.extraction = "COMPLETED"], l)
  PROVE  Moved(p) /\ Saves(p, Entity(p).status, "COMPLETED", Entity(p).extractionJob, l)
<1> DEFINE e == [Entity(p) EXCEPT !.extraction = "COMPLETED"]
<1>1. Entity(p) \in CheckRow
  BY AtWork
<1>2. /\ e \in CheckRow
      /\ e.status = Entity(p).status /\ e.extraction = "COMPLETED" /\ e.extractionJob = Entity(p).extractionJob
  BY <1>1 DEF CheckRow
<1>3. Save(p, e, l)
  OBVIOUS
<1> HIDE DEF e
<1>4. Moved(p) /\ Saves(p, e.status, e.extraction, e.extractionJob, l)
  BY <1>2, <1>3, SaveDoes
<1> QED
  BY <1>2, <1>4

LEMMA RunningSaved ==
  ASSUME IInv, NEW p \in Callers, pc[p] # "idle", NEW l \in Labels, NEW n \in Nat,
         Save(p, [Entity(p) EXCEPT !.extraction = "RUNNING", !.extractionJob = n], l)
  PROVE  Moved(p) /\ Saves(p, Entity(p).status, "RUNNING", n, l)
<1> DEFINE e == [Entity(p) EXCEPT !.extraction = "RUNNING", !.extractionJob = n]
<1>1. Entity(p) \in CheckRow
  BY AtWork
<1>2. /\ e \in CheckRow
      /\ e.status = Entity(p).status /\ e.extraction = "RUNNING" /\ e.extractionJob = n
  BY <1>1 DEF CheckRow
<1>3. Save(p, e, l)
  OBVIOUS
<1> HIDE DEF e
<1>4. Moved(p) /\ Saves(p, e.status, e.extraction, e.extractionJob, l)
  BY <1>2, <1>3, SaveDoes
<1> QED
  BY <1>2, <1>4

-----------------------------------------------------------------------------
(* What holds of a call after a step of its own.                           *)

NameOk(p) == NamesJob(Entity(p), Mine(p))

CallOk(p) == RunnerOk(p) /\ PollOk(p) /\ SaveOk(p) /\ NameOk(p)

\* A call keeps to its check until it returns, and no run becomes a poll.
Stays(p) ==
  /\ pc'[p] = "idle" \/ job'[p].check = Mine(p)
  /\ Poller(p)' => Poller(p)

LEMMA CallsAreOk == IInv => \A p \in Callers : CallOk(p)
BY TypeParts DEF IInv, CallOk, RunnersAreAlone, PollsAreTrue, SavesKnowTheVerdict,
   CallsNameJobs, NameOk

LEMMA PersistKeeps ==
  ASSUME IInv, NEW p \in Callers, Persist(p)
  PROVE  Moved(p) /\ CallOk(p)' /\ Stays(p)
<1>1. CallOk(p) /\ Mine(p) \in Checks /\ Runner(p) /\ RowsTyped /\ pc[p] = "persist"
  BY CallsAreOk, AtWork DEF Persist, Runner
<1>2. Moved(p) /\ Arrives(p, "dispatch", Mine(p), Entity(p), job[p].next)
  BY GotoDoes DEF Persist, Labels
<1>3. /\ check'[Mine(p)] = NewRow
      /\ UNCHANGED <<findings, audit, extractions>>
  BY <1>1 DEF Persist, RowsTyped, ai
<1> QED
  BY <1>1, <1>2, <1>3 DEF CallOk, RunnerOk, PollOk, SaveOk, Stays, NameOk, NamesJob,
     Runner, Poller, Saving, ActiveOn, Unpollable, Mine, Entity, Arrives, Moved, OthersStay

LEMMA DispatchKeeps ==
  ASSUME IInv, NEW p \in Callers, Dispatch(p) \/ DispatchFails(p)
  PROVE  Moved(p) /\ CallOk(p)' /\ Stays(p)
<1>1. CallOk(p) /\ Mine(p) \in Checks /\ Runner(p) /\ pc[p] = "dispatch"
  BY CallsAreOk, AtWork DEF Dispatch, DispatchFails, Runner
<1>2. Entity(p) = NewRow /\ NewRow.status = "PENDING"
  BY <1>1 DEF CallOk, RunnerOk, NewRow
<1>3. UNCHANGED <<check, findings, extractions>>
  BY DEF Dispatch, DispatchFails, rows
<1>4. CASE Dispatch(p)
  <2>1. /\ Moved(p)
        /\ Saves(p, Entity(p).status, Entity(p).extraction, Entity(p).extractionJob, "idle")
    BY <1>1, <1>4, JobSaved DEF Dispatch, Labels
  <2> QED
    BY <1>1, <1>2, <1>3, <2>1 DEF CallOk, RunnerOk, PollOk, SaveOk, Stays, NameOk, NamesJob,
       Runner, Poller, Saving, ActiveOn, Mine, Entity, Saves, Moved, OthersStay
<1>5. CASE DispatchFails(p)
  <2>1. /\ Moved(p)
        /\ Saves(p, "FAILED", Entity(p).extraction, Entity(p).extractionJob, "release")
    BY <1>1, <1>5, FailureSaved DEF DispatchFails, Labels
  <2> QED
    BY <1>1, <1>2, <1>3, <2>1 DEF CallOk, RunnerOk, PollOk, SaveOk, Stays, NameOk, NamesJob,
       Runner, Poller, Saving, ActiveOn, Mine, Entity, Saves, Moved, OthersStay
<1> QED
  BY <1>4, <1>5

LEMMA SelectKeeps ==
  ASSUME IInv, NEW p \in Callers, Select(p)
  PROVE  Moved(p) /\ CallOk(p)' /\ Stays(p)
<1>1. CallOk(p) /\ Mine(p) \in Checks /\ pc[p] = "select"
  BY CallsAreOk, AtWork DEF Select
<1>2. /\ Moved(p) /\ Arrives(p, "write", Mine(p), Entity(p), job[p].next)
      /\ job'[p].columns = {f \in DOMAIN NewRow : check[Mine(p)][f] # Entity(p)[f]}
  BY SelectDoes
<1>3. "status" \notin job'[p].columns => check[Mine(p)].status = Entity(p).status
  BY <1>2 DEF NewRow
<1>4. UNCHANGED <<check, findings, audit, extractions>>
  BY DEF Select, rows, ai
<1> QED
  BY <1>1, <1>2, <1>3, <1>4 DEF CallOk, RunnerOk, PollOk, SaveOk, Stays, NameOk, NamesJob,
     Runner, Poller, Saving, ActiveOn, Mine, Entity, Arrives, Moved, OthersStay

\* The verdict a save leaves behind is that of the entity, and the rest of the
\* row has it from the entity or from the row.
LEMMA WriteLeaves ==
  ASSUME IInv, NEW p \in Callers, Write(p)
  PROVE  /\ check'[Mine(p)] \in CheckRow /\ check[Mine(p)] \in CheckRow
         /\ Entity(p) \in CheckRow /\ Mine(p) \in Checks
         /\ check'[Mine(p)].status = Entity(p).status
         /\ check'[Mine(p)].extraction \in {check[Mine(p)].extraction, Entity(p).extraction}
         /\ check'[Mine(p)].extractionJob
              \in {check[Mine(p)].extractionJob, Entity(p).extractionJob}
         /\ \A c \in Checks \ {Mine(p)} : check'[c] = check[c]
<1>1. /\ Mine(p) \in Checks /\ check[Mine(p)] \in CheckRow /\ Entity(p) \in CheckRow
      /\ RowsTyped /\ CallOk(p)
  BY CallsAreOk, AtWork DEF Write
<1>2. /\ pc[p] = "write"
      /\ check' = [check EXCEPT ![Mine(p)] =
                     Merged(check[Mine(p)], Entity(p), job[p].columns)]
      /\ check'[Mine(p)] = Merged(check[Mine(p)], Entity(p), job[p].columns)
      /\ check'[Mine(p)] \in CheckRow
  BY WriteDoes
<1>3. /\ check'[Mine(p)].status
           = IF "status" \in job[p].columns THEN Entity(p).status ELSE check[Mine(p)].status
      /\ check'[Mine(p)].extraction \in {check[Mine(p)].extraction, Entity(p).extraction}
      /\ check'[Mine(p)].extractionJob
           \in {check[Mine(p)].extractionJob, Entity(p).extractionJob}
  BY <1>1, <1>2, MergedRow
<1>4. check'[Mine(p)].status = Entity(p).status
  BY <1>1, <1>2, <1>3 DEF CallOk, SaveOk
<1>5. \A c \in Checks \ {Mine(p)} : check'[c] = check[c]
  BY <1>1, <1>2 DEF RowsTyped
<1> QED
  BY <1>1, <1>2, <1>3, <1>4, <1>5

LEMMA WriteKeeps ==
  ASSUME IInv, NEW p \in Callers, Write(p)
  PROVE  Moved(p) /\ CallOk(p)' /\ Stays(p)
<1>1. CallOk(p) /\ Mine(p) \in Checks /\ pc[p] = "write"
  BY CallsAreOk, AtWork DEF Write
<1>2. Moved(p) /\ Arrives(p, job[p].next, Mine(p), Entity(p), job[p].next)
  BY WriteDoes
<1>3. UNCHANGED <<findings, audit, extractions>>
  BY DEF Write, ai
<1>4. check'[Mine(p)] \in CheckRow /\ check'[Mine(p)].status = Entity(p).status
  BY WriteLeaves
<1>5. NameOk(p)'
  BY <1>1, <1>2, <1>3 DEF CallOk, NameOk, NamesJob, Mine, Entity, Arrives
<1>6. CASE Runner(p)
  <2>1. /\ job[p].next \in {"release", "idle"}
        /\ job[p].next = "release" => Entity(p).status = "FAILED"
        /\ check[Mine(p)] = NewRow /\ Entity(p).extraction = "PENDING"
    BY <1>1, <1>6 DEF CallOk, RunnerOk, Runner, Saving
  <2>2. check'[Mine(p)].extraction = "PENDING"
    BY <2>1, WriteLeaves DEF NewRow
  <2>3. job[p].next = "release" => Unpollable(Mine(p))'
    BY <1>2, <1>4, <2>1, <2>2
       DEF Unpollable, AwaitsAudit, AwaitsExtraction, Arrives, Mine
  <2> QED
    BY <1>1, <1>2, <1>3, <1>5, <1>6, <2>1, <2>3
       DEF CallOk, RunnerOk, PollOk, SaveOk, Stays, Runner, Poller, Saving, ActiveOn, Mine,
           Entity, Arrives, Moved, OthersStay
<1>7. CASE ~Runner(p)
  <2>1. Poller(p)
    BY <1>1, <1>7 DEF Poller
  <2> QED
    BY <1>1, <1>2, <1>3, <1>4, <1>5, <2>1, NoneAssumption
       DEF CallOk, RunnerOk, PollOk, SaveOk, Stays, Runner, Poller, Saving, Mine,
           Entity, Arrives, Moved, OthersStay
<1> QED
  BY <1>6, <1>7

LEMMA RunCheckKeeps ==
  ASSUME IInv, NEW p \in Callers, NEW c \in Checks, RunCheck(p, c)
  PROVE  Moved(p) /\ CallOk(p)'
<1>1. Moved(p) /\ Arrives(p, "persist", c, NewRow, "idle") /\ pc[p] = "idle"
  BY RunCheckDoes
<1>2. c \notin DOMAIN entry
  BY DEF RunCheck, Meter!Grant
<1>3. /\ check[c] = None /\ audit[c] = "none" /\ findings[c] = 0
      /\ \A q \in Callers : ~ActiveOn(q, c)
  <2>1. findings[c] \in Nat
    BY TypeParts DEF IInv, RowsTyped
  <2> QED
    BY <1>2, <2>1 DEF IInv, StartedChecks, RowsAreTrue, RowOk, ActiveOn
<1>4. UNCHANGED <<check, findings, audit, extractions>>
  BY DEF RunCheck, rows, ai
<1>5. extractions[c] \in Seq(JobStates)
  BY TypeParts DEF IInv, RowsTyped
<1>6. NewRow.extraction = "PENDING" /\ NewRow.extractionJob = 0
  BY DEF NewRow
<1> QED
  BY <1>1, <1>3, <1>4, <1>5, <1>6 DEF CallOk, RunnerOk, PollOk, SaveOk, NameOk, NamesJob,
     Runner, Poller, Saving, ActiveOn, Mine, Entity, Arrives, Moved, OthersStay

LEMMA PollKeeps ==
  ASSUME IInv, NEW p \in Callers, NEW c \in Checks, Poll(p, c)
  PROVE  Moved(p) /\ CallOk(p)'
<1>1. /\ Moved(p) /\ pc[p] = "idle"
      /\ Arrives(p, IF AwaitsAudit(check[c]) THEN "audit" ELSE "extraction",
                 c, check[c], "idle")
      /\ AwaitsAudit(check[c]) \/ AwaitsExtraction(check[c])
  BY PollDoes
<1>2. UNCHANGED <<check, findings, audit, extractions>> /\ check[c] # None
  BY DEF Poll, rows, ai
<1>3. /\ check[c].extractionJob <= Len(extractions[c])
      /\ check[c].extraction # "PENDING" => check[c].status = "DONE"
      /\ check[c].status = "DONE" => findings[c] > 0
  BY <1>2 DEF IInv, RowsAreTrue, RowOk
<1> QED
  BY <1>1, <1>2, <1>3 DEF CallOk, RunnerOk, PollOk, SaveOk, NameOk, NamesJob,
     Runner, Poller, Saving, Mine, Entity, Arrives, AwaitsAudit, AwaitsExtraction

LEMMA ReturnKeeps ==
  ASSUME IInv, NEW p \in Callers, Return(p)
  PROVE  Moved(p) /\ CallOk(p)' /\ Stays(p)
<1>1. Moved(p) /\ Arrives(p, "idle", None, NewRow, "idle")
  BY ReturnDoes
<1> QED
  BY <1>1 DEF CallOk, RunnerOk, PollOk, SaveOk, Stays, NameOk, NamesJob,
     Runner, Poller, Saving, Mine, Entity, Arrives

LEMMA SeeAuditKeeps ==
  ASSUME IInv, NEW p \in Callers, SeeAudit(p)
  PROVE  Moved(p) /\ CallOk(p)' /\ Stays(p)
<1>1. /\ CallOk(p) /\ Mine(p) \in Checks /\ pc[p] = "audit"
      /\ UNCHANGED <<check, findings, audit, extractions>>
  BY CallsAreOk, AtWork DEF SeeAudit, rows, ai
<1>2. Poller(p) /\ Entity(p).status = "PENDING" /\ Entity(p).extraction = "PENDING"
  BY <1>1 DEF Poller, Runner, Saving, CallOk, PollOk
<1>3. CASE audit[Mine(p)] = "completed" /\ Goto(p, "findings") /\ UNCHANGED job
  <2>1. Moved(p) /\ Arrives(p, "findings", Mine(p), Entity(p), job[p].next)
    BY <1>3, GotoDoes DEF Labels
  <2> QED
    BY <1>1, <1>2, <1>3, <2>1 DEF CallOk, RunnerOk, PollOk, SaveOk, Stays, NameOk, NamesJob,
       Runner, Poller, Saving, Mine, Entity, Arrives
<1>4. CASE /\ audit[Mine(p)] = "failed"
           /\ Save(p, [Entity(p) EXCEPT !.status = "FAILED"], "refund")
  <2>1. Moved(p) /\ Saves(p, "FAILED", Entity(p).extraction, Entity(p).extractionJob, "refund")
    BY <1>1, <1>4, FailureSaved DEF Labels
  <2> QED
    BY <1>1, <1>2, <1>4, <2>1 DEF CallOk, RunnerOk, PollOk, SaveOk, Stays, NameOk, NamesJob,
       Runner, Poller, Saving, Mine, Entity, Saves
<1>5. CASE Goto(p, "extraction") /\ UNCHANGED job
  <2>1. Moved(p) /\ Arrives(p, "extraction", Mine(p), Entity(p), job[p].next)
    BY <1>5, GotoDoes DEF Labels
  <2> QED
    BY <1>1, <1>2, <2>1 DEF CallOk, RunnerOk, PollOk, SaveOk, Stays, NameOk, NamesJob,
       Runner, Poller, Saving, Mine, Entity, Arrives
<1> QED
  BY <1>3, <1>4, <1>5 DEF SeeAudit, Failed

LEMMA InsertFindingsKeeps ==
  ASSUME IInv, NEW p \in Callers, InsertFindings(p)
  PROVE  Moved(p) /\ CallOk(p)' /\ Stays(p) /\ findings'[Mine(p)] > 0
<1>1. /\ CallOk(p) /\ Mine(p) \in Checks /\ pc[p] = "findings" /\ RowsTyped
      /\ UNCHANGED <<check, audit, extractions>>
  BY CallsAreOk, AtWork DEF InsertFindings, ai
<1>2. Poller(p)
  BY <1>1 DEF Poller, Runner, Saving
<1>3. findings'[Mine(p)] > 0
  BY <1>1 DEF InsertFindings, RowsTyped
<1>4. Moved(p) /\ Saves(p, "DONE", Entity(p).extraction, Entity(p).extractionJob, "commit")
  BY <1>1, VerdictSaved DEF InsertFindings, Labels
<1> QED
  BY <1>1, <1>2, <1>3, <1>4 DEF CallOk, RunnerOk, PollOk, SaveOk, Stays, NameOk, NamesJob,
     Runner, Poller, Saving, Mine, Entity, Saves

\* commitReservationOnSuccess and releaseReservationOnFailure return, or throw
\* and are logged.
LEMMA SettledKeeps ==
  ASSUME IInv, NEW p \in Callers, UNCHANGED <<check, findings, audit, extractions, job>>,
         \/ pc[p] = "commit" /\ Goto(p, "extract")
         \/ pc[p] = "refund" /\ Goto(p, "extraction")
  PROVE  Moved(p) /\ CallOk(p)' /\ Stays(p)
<1>1. CallOk(p) /\ Mine(p) \in Checks /\ pc[p] \in {"commit", "refund"}
  BY CallsAreOk, AtWork
<1>2. Poller(p)
  BY <1>1 DEF Poller, Runner, Saving
<1>3. PICK l \in {"extract", "extraction"} :
        (l = "extract" => pc[p] = "commit") /\ Goto(p, l)
  OBVIOUS
<1>4. Moved(p) /\ Arrives(p, l, Mine(p), Entity(p), job[p].next)
  BY <1>3, GotoDoes DEF Labels
<1> QED
  BY <1>1, <1>2, <1>3, <1>4 DEF CallOk, RunnerOk, PollOk, SaveOk, Stays, NameOk, NamesJob,
     Runner, Poller, Saving, Mine, Entity, Arrives

LEMMA Dispatched ==
  ASSUME RowsTyped, NEW c \in Checks,
         \/ extractions' = [extractions EXCEPT ![c] = Append(@, "queued")]
         \/ UNCHANGED extractions
  PROVE  /\ extractions' \in [Checks -> Seq(JobStates)]
         /\ Len(extractions'[c]) \in Nat
         /\ \A d \in Checks : Len(extractions[d]) <= Len(extractions'[d])
<1>1. \A d \in Checks : extractions[d] \in Seq(JobStates) /\ Len(extractions[d]) \in Nat
  BY DEF RowsTyped
<1>2. CASE UNCHANGED extractions
  BY <1>1, <1>2 DEF RowsTyped
<1>3. CASE extractions' = [extractions EXCEPT ![c] = Append(@, "queued")]
  <2> DEFINE s == Append(extractions[c], "queued")
  <2>1. s \in Seq(JobStates) /\ Len(s) = Len(extractions[c]) + 1
    BY <1>1 DEF JobStates
  <2>2. extractions' = [extractions EXCEPT ![c] = s]
    BY <1>3
  <2> HIDE DEF s
  <2>3. extractions'[c] = s /\ \A d \in Checks \ {c} : extractions'[d] = extractions[d]
    BY <2>2 DEF RowsTyped
  <2>4. extractions' \in [Checks -> Seq(JobStates)]
    BY <2>1, <2>2 DEF RowsTyped
  <2>5. Len(extractions'[c]) = Len(extractions[c]) + 1
    BY <2>1, <2>3
  <2>6. ASSUME NEW d \in Checks
        PROVE  Len(extractions[d]) <= Len(extractions'[d])
    <3>1. CASE d = c
      BY <1>1, <2>5, <3>1
    <3>2. CASE d # c
      BY <1>1, <2>3, <3>2
    <3> QED
      BY <3>1, <3>2
  <2> QED
    BY <1>1, <2>4, <2>5, <2>6
<1> QED
  BY <1>2, <1>3

LEMMA ExtractKeeps ==
  ASSUME IInv, NEW p \in Callers, Extract(p) \/ ExtractFails(p)
  PROVE  Moved(p) /\ CallOk(p)' /\ Stays(p)
<1>1. /\ CallOk(p) /\ Mine(p) \in Checks /\ pc[p] = "extract" /\ RowsTyped
      /\ Entity(p) \in CheckRow
      /\ UNCHANGED <<check, findings, audit>>
  BY CallsAreOk, AtWork DEF Extract, ExtractFails, rows
<1>2. Poller(p) /\ Entity(p).status = "DONE"
  BY <1>1 DEF Poller, Runner, Saving, CallOk, PollOk
<1>3. /\ Len(extractions'[Mine(p)]) \in Nat
      /\ \A d \in Checks : Len(extractions[d]) <= Len(extractions'[d])
  BY <1>1, Dispatched DEF Extract, ExtractFails
<1>4. extractions[Mine(p)] \in Seq(JobStates) /\ Entity(p).extractionJob \in Nat
  BY <1>1 DEF RowsTyped, CheckRow
<1>5. Entity(p).extractionJob <= Len(extractions'[Mine(p)])
  <2>1. Entity(p).extractionJob <= Len(extractions[Mine(p)])
    BY <1>1, ChecksAssumption DEF CallOk, NameOk, NamesJob
  <2> QED
    BY <1>1, <1>3, <1>4, <2>1
<1>6. CASE Extract(p)
  <2>1. Moved(p) /\ Saves(p, Entity(p).status, "RUNNING", Len(extractions'[Mine(p)]),
                          "extraction")
    BY <1>1, <1>3, <1>6, RunningSaved DEF Extract, Labels
  <2> QED
    BY <1>1, <1>2, <1>3, <2>1 DEF CallOk, RunnerOk, PollOk, SaveOk, Stays, NameOk, NamesJob,
       Runner, Poller, Saving, Mine, Entity, Saves
<1>7. CASE ExtractFails(p)
  <2>1. Moved(p) /\ Saves(p, Entity(p).status, "FAILED", Entity(p).extractionJob,
                          "extraction")
    BY <1>1, <1>7, ExtractionFailureSaved DEF ExtractFails, Labels
  <2> QED
    BY <1>1, <1>2, <1>5, <2>1 DEF CallOk, RunnerOk, PollOk, SaveOk, Stays, NameOk, NamesJob,
       Runner, Poller, Saving, Mine, Entity, Saves
<1> QED
  BY <1>6, <1>7

LEMMA SeeExtractionKeeps ==
  ASSUME IInv, NEW p \in Callers, SeeExtraction(p)
  PROVE  Moved(p) /\ CallOk(p)' /\ Stays(p)
<1>1. /\ CallOk(p) /\ Mine(p) \in Checks /\ pc[p] = "extraction"
      /\ UNCHANGED <<check, findings, audit, extractions>>
  BY CallsAreOk, AtWork DEF SeeExtraction, rows, ai
<1>2. Poller(p)
  BY <1>1 DEF Poller, Runner, Saving
<1>3. CASE AwaitsExtraction(Entity(p)) /\ Goto(p, "obligations") /\ UNCHANGED job
  <2>1. Entity(p).status = "DONE"
    BY <1>1, <1>2, <1>3 DEF AwaitsExtraction, CallOk, PollOk
  <2>2. Moved(p) /\ Arrives(p, "obligations", Mine(p), Entity(p), job[p].next)
    BY <1>3, GotoDoes DEF Labels
  <2> QED
    BY <1>1, <1>2, <2>1, <2>2 DEF CallOk, RunnerOk, PollOk, SaveOk, Stays, NameOk, NamesJob,
       Runner, Poller, Saving, Mine, Entity, Arrives
<1>4. CASE /\ AwaitsExtraction(Entity(p))
           /\ Save(p, [Entity(p) EXCEPT !.extraction = "FAILED"], "idle")
  <2>1. Entity(p).status = "DONE"
    BY <1>1, <1>2, <1>4 DEF AwaitsExtraction, CallOk, PollOk
  <2>2. Moved(p) /\ Saves(p, Entity(p).status, "FAILED", Entity(p).extractionJob, "idle")
    BY <1>1, <1>4, ExtractionFailureSaved DEF Labels
  <2> QED
    BY <1>1, <1>2, <2>1, <2>2 DEF CallOk, RunnerOk, PollOk, SaveOk, Stays, NameOk, NamesJob,
       Runner, Poller, Saving, Mine, Entity, Saves
<1>5. CASE Return(p)
  BY <1>5, ReturnKeeps
<1>6. \/ AwaitsExtraction(Entity(p)) /\ Goto(p, "obligations") /\ UNCHANGED job
      \/ /\ AwaitsExtraction(Entity(p))
         /\ Save(p, [Entity(p) EXCEPT !.extraction = "FAILED"], "idle")
      \/ Return(p)
  BY DEF SeeExtraction
<1> QED
  BY <1>3, <1>4, <1>5, <1>6

LEMMA InsertObligationsKeeps ==
  ASSUME IInv, NEW p \in Callers, InsertObligations(p)
  PROVE  Moved(p) /\ CallOk(p)' /\ Stays(p)
<1>1. /\ CallOk(p) /\ Mine(p) \in Checks /\ pc[p] = "obligations"
      /\ UNCHANGED <<check, findings, audit, extractions>>
  BY CallsAreOk, AtWork DEF InsertObligations, ai
<1>2. Poller(p) /\ Entity(p).status = "DONE"
  BY <1>1 DEF Poller, Runner, Saving, CallOk, PollOk
<1>3. Moved(p) /\ Saves(p, Entity(p).status, "COMPLETED", Entity(p).extractionJob, "idle")
  BY <1>1, CompletionSaved DEF InsertObligations, Labels
<1> QED
  BY <1>1, <1>2, <1>3 DEF CallOk, RunnerOk, PollOk, SaveOk, Stays, NameOk, NamesJob,
     Runner, Poller, Saving, Mine, Entity, Saves

LEMMA ThrowKeeps ==
  ASSUME IInv, NEW p \in Callers, Throw(p)
  PROVE  Moved(p) /\ CallOk(p)' /\ Stays(p)
<1>1. UNCHANGED <<check, findings, audit, extractions>>
  BY DEF Throw, rows, ai
<1>2. CallOk(p)
  BY CallsAreOk
<1>3. CASE /\ Saving(p, "idle") /\ Entity(p).status = "PENDING"
           /\ Save(p, [Entity(p) EXCEPT !.status = "FAILED"], "release")
  <2>0. pc[p] \in {"select", "write"} /\ Runner(p)
    BY <1>3 DEF Saving, Runner
  <2>1. Mine(p) \in Checks /\ check[Mine(p)] = NewRow
    BY <1>2, <2>0, AtWork DEF CallOk, RunnerOk
  <2>2. Moved(p) /\ Saves(p, "FAILED", Entity(p).extraction, Entity(p).extractionJob, "release")
    BY <1>3, <2>0, FailureSaved DEF Labels
  <2> QED
    BY <1>1, <1>2, <2>0, <2>1, <2>2 DEF CallOk, RunnerOk, PollOk, SaveOk, Stays, NameOk, NamesJob,
       Runner, Poller, Saving, ActiveOn, Mine, Entity, Saves, Moved, OthersStay
<1>4. CASE /\ Saving(p, "extraction") /\ Entity(p).extraction = "RUNNING"
           /\ Save(p, [Entity(p) EXCEPT !.extraction = "FAILED"], "extraction")
  <2>1. /\ pc[p] \in {"select", "write"} /\ Mine(p) \in Checks /\ Poller(p)
        /\ Entity(p).status = "DONE"
    BY <1>2, <1>4, AtWork DEF Saving, Runner, Poller, CallOk, PollOk
  <2>2. Moved(p) /\ Saves(p, Entity(p).status, "FAILED", Entity(p).extractionJob, "extraction")
    BY <1>4, <2>1, ExtractionFailureSaved DEF Labels
  <2> QED
    BY <1>1, <1>2, <2>1, <2>2 DEF CallOk, RunnerOk, PollOk, SaveOk, Stays, NameOk, NamesJob,
       Runner, Poller, Saving, Mine, Entity, Saves
<1>5. CASE /\ pc[p] \in {"persist", "dispatch"} \/ Saving(p, "release")
           /\ Goto(p, "release") /\ UNCHANGED job
  <2>1. Runner(p) /\ check[Mine(p)] \in {None, NewRow}
    BY <1>2, <1>5 DEF Runner, Saving, CallOk, RunnerOk
  <2>2. Unpollable(Mine(p))
    BY <2>1 DEF Unpollable, AwaitsAudit, AwaitsExtraction, NewRow
  <2>3. Moved(p) /\ Arrives(p, "release", Mine(p), Entity(p), job[p].next)
    BY <1>5, GotoDoes DEF Labels
  <2> QED
    BY <1>1, <1>2, <2>1, <2>2, <2>3 DEF CallOk, RunnerOk, PollOk, SaveOk, Stays, NameOk, NamesJob,
       Runner, Poller, Saving, ActiveOn, Unpollable, Mine, Entity, Arrives, Moved, OthersStay
<1>6. CASE \/ pc[p] = "commit" /\ Goto(p, "extract") /\ UNCHANGED job
           \/ pc[p] = "refund" /\ Goto(p, "extraction") /\ UNCHANGED job
  BY <1>1, <1>6, SettledKeeps
<1> QED
  BY <1>3, <1>4, <1>5, <1>6 DEF Throw

-----------------------------------------------------------------------------
(* What a step does to the rows and jobs of the checks.                    *)

\* What is stored of a check only grows, and its verdict stays.
Grows(c) ==
  /\ check[c] # None => check'[c] # None
  /\ check[c] # None /\ check[c].status # "PENDING" => check'[c].status = check[c].status
  /\ findings[c] > 0 => findings'[c] > 0
  /\ audit[c] \in {"completed", "failed"} => audit'[c] = audit[c]
  /\ Len(extractions[c]) <= Len(extractions'[c])

\* Check c has its row, its findings and its audit job as before.
Untouched(c) ==
  /\ check'[c] = check[c] /\ findings'[c] = findings[c] /\ audit'[c] = audit[c]
  /\ extractions'[c] = extractions[c]

RowsKept == UNCHANGED <<check, findings, audit, extractions>>

LEMMA KeptRows ==
  ASSUME IInv, RowsKept, obligations' \in [Checks -> Nat]
  PROVE  RowsTyped' /\ \A c \in Checks : Grows(c) /\ Untouched(c)
<1>1. RowsTyped
  BY TypeParts DEF IInv
<1>2. \A c \in Checks : Len(extractions[c]) \in Nat
  BY <1>1 DEF RowsTyped
<1> QED
  BY <1>1, <1>2 DEF RowsKept, RowsTyped, Grows, Untouched

LEMMA PersistRows ==
  ASSUME IInv, NEW p \in Callers, Persist(p)
  PROVE  /\ RowsTyped' /\ \A c \in Checks : Grows(c)
         /\ \A c \in Checks \ {Mine(p)} : Untouched(c)
<1>1. /\ Mine(p) \in Checks /\ RowsTyped /\ check[Mine(p)] = None
  BY AtWork, CallsAreOk DEF Persist, CallOk, RunnerOk, Runner
<1>2. check' = [check EXCEPT ![Mine(p)] = NewRow]
      /\ UNCHANGED <<findings, obligations, audit, extractions>>
  BY DEF Persist, ai
<1>3. \A c \in Checks : Len(extractions[c]) \in Nat
  BY <1>1 DEF RowsTyped
<1> QED
  BY <1>1, <1>2, <1>3, NewRowType DEF RowsTyped, Grows, Untouched

LEMMA WriteRows ==
  ASSUME IInv, NEW p \in Callers, Write(p)
  PROVE  /\ RowsTyped' /\ \A c \in Checks : Grows(c)
         /\ \A c \in Checks \ {Mine(p)} : Untouched(c)
<1>1. /\ Mine(p) \in Checks /\ RowsTyped /\ CallOk(p) /\ pc[p] = "write"
  BY AtWork, CallsAreOk DEF Write
<1>2. UNCHANGED <<findings, obligations, audit, extractions>>
  BY DEF Write, ai
<1>3. \A c \in Checks : Len(extractions[c]) \in Nat
  BY <1>1 DEF RowsTyped
<1>4. /\ check'[Mine(p)] \in CheckRow /\ check[Mine(p)] \in CheckRow
      /\ Entity(p) \in CheckRow /\ check'[Mine(p)].status = Entity(p).status
      /\ \A c \in Checks \ {Mine(p)} : check'[c] = check[c]
  BY WriteLeaves
<1>5. check[Mine(p)].status # "PENDING" => Entity(p).status = check[Mine(p)].status
  <2>1. CASE Runner(p)
    BY <1>1, <2>1 DEF CallOk, RunnerOk, NewRow
  <2>2. CASE Poller(p)
    <3>1. /\ findings[Mine(p)] > 0 => audit[Mine(p)] = "completed"
          /\ check[Mine(p)].status = "DONE" => findings[Mine(p)] > 0
          /\ check[Mine(p)].status = "FAILED" => audit[Mine(p)] = "failed"
      BY <1>1, <1>4, <2>2, NoneAssumption DEF IInv, RowsAreTrue, RowOk
    <3>2. /\ Entity(p).status # "PENDING"
          /\ Entity(p).status = "DONE" => findings[Mine(p)] > 0
          /\ Entity(p).status = "FAILED" => audit[Mine(p)] = "failed"
      BY <1>1, <2>2 DEF CallOk, PollOk
    <3>3. {check[Mine(p)].status, Entity(p).status} \subseteq {"PENDING", "DONE", "FAILED"}
      BY <1>4 DEF CheckRow
    <3> QED
      BY <3>1, <3>2, <3>3
  <2> QED
    BY <1>1, <2>1, <2>2 DEF Poller
<1>6. check' \in [Checks -> CheckRow \cup {None}]
  BY WriteDoes
<1> QED
  BY <1>1, <1>2, <1>3, <1>4, <1>5, <1>6, NoneAssumption DEF RowsTyped, Grows, Untouched

LEMMA DispatchRows ==
  ASSUME IInv, NEW p \in Callers, Dispatch(p) \/ DispatchFails(p)
  PROVE  /\ RowsTyped' /\ \A c \in Checks : Grows(c)
         /\ \A c \in Checks \ {Mine(p)} : Untouched(c)
<1>1. /\ Mine(p) \in Checks /\ RowsTyped /\ audit[Mine(p)] = "none"
  BY AtWork, CallsAreOk DEF Dispatch, DispatchFails, CallOk, RunnerOk, Runner
<1>2. /\ \/ audit' = [audit EXCEPT ![Mine(p)] = "queued"]
         \/ UNCHANGED audit
      /\ UNCHANGED <<check, findings, obligations, extractions>>
  BY DEF Dispatch, DispatchFails, rows
<1>3. \A c \in Checks : Len(extractions[c]) \in Nat
  BY <1>1 DEF RowsTyped
<1>4. /\ audit' \in [Checks -> {"none", "queued", "completed", "failed"}]
      /\ \A c \in Checks \ {Mine(p)} : audit'[c] = audit[c]
  BY <1>1, <1>2 DEF RowsTyped
<1>5. ASSUME NEW c \in Checks PROVE Grows(c) /\ (c # Mine(p) => Untouched(c))
  BY <1>1, <1>2, <1>3, <1>4 DEF Grows, Untouched
<1> QED
  BY <1>1, <1>2, <1>4, <1>5 DEF RowsTyped

LEMMA InsertFindingsRows ==
  ASSUME IInv, NEW p \in Callers, InsertFindings(p)
  PROVE  /\ RowsTyped' /\ \A c \in Checks : Grows(c)
         /\ \A c \in Checks \ {Mine(p)} : Untouched(c)
<1>1. /\ Mine(p) \in Checks /\ RowsTyped
  BY AtWork DEF InsertFindings
<1>2. /\ findings' = [findings EXCEPT ![Mine(p)] = @ + 1]
      /\ UNCHANGED <<check, obligations, audit, extractions>>
  BY DEF InsertFindings, ai
<1>3. \A c \in Checks : Len(extractions[c]) \in Nat
  BY <1>1 DEF RowsTyped
<1> QED
  BY <1>1, <1>2, <1>3 DEF RowsTyped, Grows, Untouched

LEMMA ExtractRows ==
  ASSUME IInv, NEW p \in Callers, Extract(p) \/ ExtractFails(p)
  PROVE  /\ RowsTyped' /\ \A c \in Checks : Grows(c)
         /\ \A c \in Checks \ {Mine(p)} : Untouched(c)
<1>1. /\ Mine(p) \in Checks /\ RowsTyped
  BY AtWork DEF Extract, ExtractFails
<1>2. /\ UNCHANGED <<check, findings, obligations, audit>>
      /\ \/ extractions' = [extractions EXCEPT ![Mine(p)] = Append(@, "queued")]
         \/ UNCHANGED extractions
  BY DEF Extract, ExtractFails, rows
<1>3. /\ extractions' \in [Checks -> Seq(JobStates)]
      /\ \A c \in Checks : Len(extractions[c]) <= Len(extractions'[c])
  BY <1>1, <1>2, Dispatched
<1>4. \A c \in Checks \ {Mine(p)} : extractions'[c] = extractions[c]
  BY <1>1, <1>2 DEF RowsTyped
<1> QED
  BY <1>1, <1>2, <1>3, <1>4 DEF RowsTyped, Grows, Untouched

LEMMA AuditEndsRows ==
  ASSUME IInv, NEW d \in Checks, AuditEnds(d)
  PROVE  RowsTyped' /\ \A c \in Checks : Grows(c)
<1>1. RowsTyped
  BY TypeParts DEF IInv
<1>2. \A c \in Checks : Len(extractions[c]) \in Nat
  BY <1>1 DEF RowsTyped
<1> QED
  BY <1>1, <1>2 DEF AuditEnds, rows, RowsTyped, Grows

LEMMA ExtractionEndsRows ==
  ASSUME IInv, NEW d \in Checks, ExtractionEnds(d)
  PROVE  RowsTyped' /\ \A c \in Checks : Grows(c)
<1>1. RowsTyped
  BY TypeParts DEF IInv
<1>2. PICK i \in DOMAIN extractions[d], s \in {"completed", "failed"} :
        extractions' = [extractions EXCEPT ![d][i] = s]
  BY DEF ExtractionEnds
<1> DEFINE js == [extractions[d] EXCEPT ![i] = s]
<1>3. extractions[d] \in Seq(JobStates) /\ i \in 1 .. Len(extractions[d])
  BY <1>1 DEF RowsTyped
<1>4. js \in Seq(JobStates) /\ Len(js) = Len(extractions[d])
  <2> DEFINE t == extractions[d]
  <2>1. t \in Seq(JobStates) /\ i \in 1 .. Len(t) /\ s \in JobStates
    BY <1>3 DEF JobStates
  <2>2. js = [t EXCEPT ![i] = s]
    OBVIOUS
  <2> HIDE DEF t, js
  <2>3. [t EXCEPT ![i] = s] \in Seq(JobStates) /\ Len([t EXCEPT ![i] = s]) = Len(t)
    BY <2>1
  <2> QED
    BY <2>2, <2>3 DEF t
<1>5. extractions' = [extractions EXCEPT ![d] = js]
  BY <1>2
<1> HIDE DEF js
<1>6. \A c \in Checks : Len(extractions[c]) \in Nat
  BY <1>1 DEF RowsTyped
<1>7. /\ extractions' \in [Checks -> Seq(JobStates)]
      /\ extractions'[d] = js
      /\ \A c \in Checks \ {d} : extractions'[c] = extractions[c]
  BY <1>1, <1>4, <1>5 DEF RowsTyped
<1>8. \A c \in Checks : Len(extractions[c]) <= Len(extractions'[c])
  <2>1. SUFFICES ASSUME NEW c \in Checks
                 PROVE  Len(extractions[c]) <= Len(extractions'[c])
    OBVIOUS
  <2>2. CASE c = d
    BY <1>4, <1>6, <1>7, <2>2
  <2>3. CASE c # d
    BY <1>6, <1>7, <2>3
  <2> QED
    BY <2>2, <2>3
<1>9. UNCHANGED <<check, findings, obligations, audit>>
  BY DEF ExtractionEnds, rows
<1> QED
  BY <1>1, <1>7, <1>8, <1>9 DEF RowsTyped, Grows

-----------------------------------------------------------------------------
(* The kinds of steps.                                                     *)

\* A call at work does its next statement.
CallStep(p) ==
  /\ pc[p] # "idle"
  /\ Moved(p) /\ CallOk(p)' /\ Stays(p)
  /\ RowsTyped' /\ \A c \in Checks : Grows(c)
  /\ \A c \in Checks \ {Mine(p)} : Untouched(c)

\* A call begins; it touches no row of a check.
Begins(p, c) ==
  /\ pc[p] = "idle" /\ job'[p].check = c
  /\ Moved(p) /\ CallOk(p)'
  /\ RowsTyped' /\ \A d \in Checks : Grows(d) /\ Untouched(d)

\* No call moves, and no row of a check is touched.
Outside ==
  /\ UNCHANGED <<pc, job, check, findings>>
  /\ RowsTyped' /\ \A c \in Checks : Grows(c)
  /\ \A c \in Checks : audit[c] = "none" => audit'[c] = "none"

LEMMA CallSteps ==
  ASSUME IInv, NEW p \in Callers, Step(p) \/ Throw(p) \/ Die(p)
  PROVE  CallStep(p)
<1>0. RowsTyped
  BY TypeParts DEF IInv
<1>1. CASE Select(p)
  <2>1. pc[p] # "idle" /\ RowsKept /\ obligations' \in [Checks -> Nat]
    BY <1>0, <1>1 DEF Select, RowsKept, rows, ai, RowsTyped
  <2> QED
    BY <1>1, <2>1, SelectKeeps, KeptRows DEF CallStep
<1>2. CASE Write(p)
  BY <1>2, WriteKeeps, WriteRows DEF CallStep, Write
<1>3. CASE Persist(p)
  BY <1>3, PersistKeeps, PersistRows DEF CallStep, Persist
<1>4. CASE Dispatch(p) \/ DispatchFails(p)
  BY <1>4, DispatchKeeps, DispatchRows DEF CallStep, Dispatch, DispatchFails
<1>5. CASE ReleaseRun(p)
  <2>1. /\ pc[p] # "idle" /\ Return(p) /\ RowsKept /\ obligations' \in [Checks -> Nat]
    BY <1>0, <1>5 DEF ReleaseRun, RowsKept, rows, ai, RowsTyped
  <2> QED
    BY <2>1, ReturnKeeps, KeptRows DEF CallStep
<1>6. CASE SeeAudit(p)
  <2>1. pc[p] # "idle" /\ RowsKept /\ obligations' \in [Checks -> Nat]
    BY <1>0, <1>6 DEF SeeAudit, RowsKept, rows, ai, RowsTyped
  <2> QED
    BY <1>6, <2>1, SeeAuditKeeps, KeptRows DEF CallStep
<1>7. CASE InsertFindings(p)
  BY <1>7, InsertFindingsKeeps, InsertFindingsRows DEF CallStep, InsertFindings
<1>8. CASE Commit(p) \/ RefundRun(p)
  <2>1. /\ \/ pc[p] = "commit" /\ Goto(p, "extract")
           \/ pc[p] = "refund" /\ Goto(p, "extraction")
        /\ UNCHANGED <<rows, ai, job>>
    BY <1>8 DEF Commit, RefundRun
  <2>2. /\ pc[p] # "idle" /\ RowsKept /\ UNCHANGED job
        /\ obligations' \in [Checks -> Nat]
    BY <1>0, <2>1 DEF RowsKept, rows, ai, RowsTyped
  <2> QED
    BY <2>1, <2>2, SettledKeeps, KeptRows DEF CallStep, RowsKept
<1>9. CASE Extract(p) \/ ExtractFails(p)
  BY <1>9, ExtractKeeps, ExtractRows DEF CallStep, Extract, ExtractFails
<1>10. CASE SeeExtraction(p)
  <2>1. pc[p] # "idle" /\ RowsKept /\ obligations' \in [Checks -> Nat]
    BY <1>0, <1>10 DEF SeeExtraction, RowsKept, rows, ai, RowsTyped
  <2> QED
    BY <1>10, <2>1, SeeExtractionKeeps, KeptRows DEF CallStep
<1>11. CASE InsertObligations(p)
  <2>0. /\ pc[p] # "idle" /\ RowsKept
        /\ obligations' = [obligations EXCEPT ![Mine(p)] = @ + 1]
    BY <1>11 DEF InsertObligations, RowsKept, ai
  <2>1. Mine(p) \in Checks /\ obligations' \in [Checks -> Nat]
    <3>1. Mine(p) \in Checks /\ obligations \in [Checks -> Nat]
      BY <1>0, <2>0, AtWork DEF RowsTyped
    <3> QED
      BY <2>0, <3>1
  <2> QED
    BY <1>11, <2>0, <2>1, InsertObligationsKeeps, KeptRows DEF CallStep
<1>12. CASE Throw(p)
  <2>1. pc[p] # "idle" /\ RowsKept /\ obligations' \in [Checks -> Nat]
    BY <1>0, <1>12 DEF Throw, Saving, RowsKept, rows, ai, RowsTyped
  <2> QED
    BY <1>12, <2>1, ThrowKeeps, KeptRows DEF CallStep
<1>13. CASE Die(p)
  <2>1. pc[p] # "idle" /\ Return(p) /\ RowsKept /\ obligations' \in [Checks -> Nat]
    BY <1>0, <1>13 DEF Die, RowsKept, rows, ai, RowsTyped
  <2> QED
    BY <2>1, ReturnKeeps, KeptRows DEF CallStep
<1> QED
  BY <1>1, <1>2, <1>3, <1>4, <1>5, <1>6, <1>7, <1>8, <1>9, <1>10, <1>11, <1>12, <1>13
     DEF Step

LEMMA BeginSteps ==
  ASSUME IInv, NEW p \in Callers, NEW c \in Checks, RunCheck(p, c) \/ Poll(p, c)
  PROVE  Begins(p, c)
<1>1. RowsTyped
  BY TypeParts DEF IInv
<1>2. RowsKept /\ obligations' \in [Checks -> Nat]
  BY <1>1 DEF RunCheck, Poll, RowsKept, rows, ai, RowsTyped
<1>3. CASE RunCheck(p, c)
  BY <1>2, <1>3, KeptRows, RunCheckDoes, RunCheckKeeps DEF Begins, Arrives
<1>4. CASE Poll(p, c)
  BY <1>2, <1>4, KeptRows, PollDoes, PollKeeps DEF Begins, Arrives
<1> QED
  BY <1>3, <1>4

LEMMA OutsideSteps ==
  ASSUME IInv, (\E c \in Checks : Environment(c)) \/ UNCHANGED vars
  PROVE  Outside
<1>1. RowsTyped
  BY TypeParts DEF IInv
<1>2. CASE UNCHANGED vars
  <2>1. RowsKept /\ obligations' \in [Checks -> Nat] /\ UNCHANGED <<pc, job>>
    BY <1>1, <1>2 DEF vars, RowsKept, rows, ai, RowsTyped
  <2> QED
    BY <2>1, KeptRows DEF Outside, RowsKept
<1>3. ASSUME NEW c \in Checks, Environment(c) PROVE Outside
  <2>1. CASE AuditEnds(c)
    <3>1. /\ UNCHANGED <<pc, job, check, findings>>
          /\ \A d \in Checks : audit[d] = "none" => audit'[d] = "none"
      BY <1>1, <2>1 DEF AuditEnds, rows, RowsTyped
    <3> QED
      BY <2>1, <3>1, AuditEndsRows DEF Outside
  <2>2. CASE ExtractionEnds(c)
    <3>1. UNCHANGED <<pc, job, check, findings, audit>>
      BY <2>2 DEF ExtractionEnds, rows
    <3> QED
      BY <2>2, <3>1, ExtractionEndsRows DEF Outside
  <2>3. CASE Expire(c) \/ Sweep(c)
    <3>1. RowsKept /\ obligations' \in [Checks -> Nat] /\ UNCHANGED <<pc, job>>
      BY <1>1, <2>3 DEF Expire, Sweep, RowsKept, rows, ai, RowsTyped
    <3> QED
      BY <3>1, KeptRows DEF Outside, RowsKept
  <2> QED
    BY <1>3, <2>1, <2>2, <2>3 DEF Environment
<1> QED
  BY <1>2, <1>3

LEMMA StepKinds ==
  ASSUME IInv, [Next]_vars
  PROVE  \/ Outside
         \/ \E p \in Callers : CallStep(p)
         \/ \E p \in Callers, c \in Checks : (RunCheck(p, c) \/ Poll(p, c)) /\ Begins(p, c)
BY CallSteps, BeginSteps, OutsideSteps DEF Next

-----------------------------------------------------------------------------
(* The steps keep what holds of the calls.                                 *)

\* A call that does not move.
LEMMA OtherCall ==
  ASSUME IInv, NEW q \in Callers, pc'[q] = pc[q], job'[q] = job[q],
         RowsTyped', \A c \in Checks : Grows(c),
         Runner(q) => /\ check'[Mine(q)] = check[Mine(q)]
                      /\ findings'[Mine(q)] = findings[Mine(q)]
                      /\ audit[Mine(q)] = "none" => audit'[Mine(q)] = "none"
                      /\ \A p \in Callers \ {q} : ~ActiveOn(p, Mine(q))'
  PROVE  CallOk(q)'
<1>1. CallOk(q) /\ job[q] \in JobRow /\ RowsTyped
  BY CallsAreOk, TypeParts DEF IInv, CallsTyped
<1>2. NameOk(q)'
  <2>1. CASE Mine(q) \in Checks
    <3>1. /\ Entity(q).extractionJob <= Len(extractions[Mine(q)])
          /\ Len(extractions[Mine(q)]) <= Len(extractions'[Mine(q)])
      BY <1>1, <2>1, ChecksAssumption DEF CallOk, NameOk, NamesJob, Grows
    <3>2. /\ Entity(q).extractionJob \in Int /\ Len(extractions[Mine(q)]) \in Int
          /\ Len(extractions'[Mine(q)]) \in Int
      BY <1>1, <2>1 DEF RowsTyped, JobRow, CheckRow, Entity
    <3> QED
      BY <3>1, <3>2 DEF NameOk, NamesJob, Mine, Entity
  <2>2. CASE Mine(q) = None
    BY <2>2 DEF NameOk, NamesJob, Mine
  <2> QED
    BY <1>1, <2>1, <2>2 DEF JobRow, Mine
<1>3. CASE pc[q] = "idle"
  BY <1>2, <1>3 DEF CallOk, RunnerOk, PollOk, SaveOk, Runner, Poller, Saving
<1>4. CASE Runner(q)
  <2>1. RunnerOk(q)'
    BY <1>1, <1>4 DEF CallOk, RunnerOk, Runner, Saving, ActiveOn, Unpollable, Mine, Entity
  <2>2. PollOk(q)'
    BY <1>4 DEF PollOk, Poller, Runner, Saving, Mine, Entity
  <2>3. SaveOk(q)'
    BY <1>1, <1>4 DEF CallOk, SaveOk, Mine, Entity
  <2> QED
    BY <1>2, <2>1, <2>2, <2>3 DEF CallOk
<1>5. CASE Poller(q)
  <2>1. Mine(q) \in Checks
    BY <1>5, AtWork DEF Poller
  <2>2. RunnerOk(q)'
    BY <1>5 DEF RunnerOk, Poller, Runner, Saving, Mine, Entity
  <2>3. PollOk(q)'
    BY <1>1, <1>5, <2>1 DEF CallOk, PollOk, Grows, Poller, Runner, Saving, Mine, Entity
  <2>4. SaveOk(q)'
    BY <1>1, <1>5, <2>1 DEF CallOk, PollOk, SaveOk, Grows, Mine, Entity
  <2> QED
    BY <1>2, <2>2, <2>3, <2>4 DEF CallOk
<1> QED
  BY <1>3, <1>4, <1>5 DEF Poller

\* Nobody begins a call on the check of a runner.
LEMMA RunnersStayAlone ==
  ASSUME IInv, NEW q \in Callers, Runner(q), NEW p \in Callers, NEW c \in Checks,
         RunCheck(p, c) \/ Poll(p, c)
  PROVE  c # Mine(q)
<1>1. RunnerOk(q) /\ Mine(q) \in DOMAIN entry
  BY AtWork, CallsAreOk DEF CallOk, Runner, Saving
<1>2. CASE RunCheck(p, c)
  BY <1>1, <1>2 DEF RunCheck, Meter!Grant
<1>3. CASE Poll(p, c)
  <2>1. check[Mine(q)] = None \/ check[Mine(q)] = NewRow \/ Unpollable(Mine(q))
    BY <1>1 DEF RunnerOk, Runner, Saving
  <2>2. ~AwaitsAudit(NewRow) /\ ~AwaitsExtraction(NewRow)
    BY DEF AwaitsAudit, AwaitsExtraction, NewRow
  <2> QED
    BY <1>3, <2>1, <2>2 DEF Poll, Unpollable
<1> QED
  BY <1>2, <1>3

LEMMA CallsStep ==
  ASSUME IInv, [Next]_vars
  PROVE  /\ RowsTyped' /\ \A c \in Checks : Grows(c)
         /\ pc' \in [Callers -> Labels] /\ job' \in [Callers -> JobRow]
         /\ \A q \in Callers : CallOk(q)'
<1>1. CASE Outside
  <2>1. ASSUME NEW q \in Callers PROVE CallOk(q)'
    <3>1. Runner(q) => /\ Mine(q) \in Checks
                       /\ \A p \in Callers \ {q} : ~ActiveOn(p, Mine(q))
      BY AtWork, CallsAreOk DEF CallOk, RunnerOk, Runner, Saving
    <3>2. Runner(q) => \A p \in Callers \ {q} : ~ActiveOn(p, Mine(q))'
      BY <1>1, <3>1 DEF Outside, ActiveOn, Mine
    <3> QED
      BY <1>1, <3>1, <3>2, OtherCall DEF Outside
  <2>2. pc \in [Callers -> Labels] /\ job \in [Callers -> JobRow]
    BY TypeParts DEF IInv, CallsTyped
  <2> QED
    BY <1>1, <2>1, <2>2 DEF Outside
<1>2. ASSUME NEW p \in Callers, CallStep(p)
      PROVE  \A q \in Callers : CallOk(q)'
  <2>1. ASSUME NEW q \in Callers \ {p} PROVE CallOk(q)'
    <3>1. Runner(q) => /\ Mine(q) \in Checks
                       /\ \A r \in Callers \ {q} : ~ActiveOn(r, Mine(q))
      BY AtWork, CallsAreOk DEF CallOk, RunnerOk, Runner, Saving
    <3>2. Runner(q) => Mine(p) # Mine(q)
      BY <1>2, <3>1 DEF CallStep, ActiveOn
    <3>3. Runner(q) => \A r \in Callers \ {q} : ~ActiveOn(r, Mine(q))'
      BY <1>2, <3>1, <3>2 DEF CallStep, Stays, Moved, OthersStay, ActiveOn, Mine
    <3> QED
      BY <1>2, <3>1, <3>2, <3>3, OtherCall DEF CallStep, Moved, OthersStay, Untouched
  <2> QED
    BY <1>2, <2>1 DEF CallStep
<1>3. ASSUME NEW p \in Callers, NEW c \in Checks, RunCheck(p, c) \/ Poll(p, c),
             Begins(p, c)
      PROVE  \A q \in Callers : CallOk(q)'
  <2>1. ASSUME NEW q \in Callers \ {p} PROVE CallOk(q)'
    <3>1. Runner(q) => /\ Mine(q) \in Checks /\ c # Mine(q)
                       /\ \A r \in Callers \ {q} : ~ActiveOn(r, Mine(q))
      BY <1>3, AtWork, CallsAreOk, RunnersStayAlone DEF CallOk, RunnerOk, Runner, Saving
    <3>2. Runner(q) => \A r \in Callers \ {q} : ~ActiveOn(r, Mine(q))'
      BY <1>3, <3>1 DEF Begins, Moved, OthersStay, ActiveOn, Mine
    <3> QED
      BY <1>3, <3>1, <3>2, OtherCall DEF Begins, Moved, OthersStay, Untouched
  <2> QED
    BY <1>3, <2>1 DEF Begins
<1>4. CASE \E p \in Callers : CallStep(p)
  BY <1>2, <1>4 DEF CallStep, Moved
<1>5. CASE \E p \in Callers, c \in Checks : (RunCheck(p, c) \/ Poll(p, c)) /\ Begins(p, c)
  BY <1>3, <1>5 DEF Begins, Moved
<1> QED
  BY <1>1, <1>4, <1>5, StepKinds

-----------------------------------------------------------------------------
(* The steps keep what holds of the checks.                                *)

\* A poll of a check after a step was one before it, or is new; none is new on
\* a check that failed.
LEMMA PollersBefore ==
  ASSUME IInv, NEW c \in Checks, [Next]_vars, check[c] # None, check[c].status = "FAILED",
         \A p \in Callers : Poller(p) => Mine(p) # c
  PROVE  \A p \in Callers : Poller(p)' => Mine(p)' # c
<1>0. RowOk(c)
  BY DEF IInv, RowsAreTrue
<1>1. CASE Outside
  BY <1>1 DEF Outside, Poller, Runner, Saving, Entity, Mine
<1>2. ASSUME NEW p \in Callers, CallStep(p), NEW q \in Callers, Poller(q)'
      PROVE  Mine(q)' # c
  <2>1. CASE q = p
    BY <1>2, <2>1 DEF CallStep, Stays, Poller, Mine
  <2>2. CASE q # p
    <3>1. pc'[q] = pc[q] /\ job'[q] = job[q]
      BY <1>2, <2>2 DEF CallStep, Moved, OthersStay
    <3> QED
      BY <1>2, <3>1 DEF Poller, Runner, Saving, Entity, Mine
  <2> QED
    BY <2>1, <2>2
<1>3. ASSUME NEW p \in Callers, NEW d \in Checks, RunCheck(p, d) \/ Poll(p, d), Begins(p, d),
             NEW q \in Callers, Poller(q)'
      PROVE  Mine(q)' # c
  <2>1. CASE q = p /\ RunCheck(p, d)
    BY <1>3, <2>1, RunCheckDoes DEF Arrives, Poller, Runner
  <2>2. CASE q = p /\ Poll(p, d)
    <3>1. ~AwaitsAudit(check[c]) /\ ~AwaitsExtraction(check[c])
      BY <1>0 DEF RowOk, AwaitsAudit, AwaitsExtraction
    <3> QED
      BY <1>3, <2>2, <3>1 DEF Poll, Begins, Mine
  <2>3. CASE q # p
    <3>1. pc'[q] = pc[q] /\ job'[q] = job[q]
      BY <1>3, <2>3 DEF Begins, Moved, OthersStay
    <3> QED
      BY <1>3, <3>1 DEF Poller, Runner, Saving, Entity, Mine
  <2> QED
    BY <1>3, <2>1, <2>2, <2>3
<1> QED
  BY <1>1, <1>2, <1>3, StepKinds

\* A check whose row and findings a step leaves alone.
LEMMA KeptRow ==
  ASSUME IInv, [Next]_vars, NEW c \in Checks, check'[c] = check[c], findings'[c] = findings[c]
  PROVE  RowOk(c)'
<1>1. Grows(c) /\ RowOk(c) /\ RowsTyped /\ RowsTyped'
  BY CallsStep, TypeParts DEF IInv, RowsAreTrue
<1>2. check[c] # None => check[c].extractionJob <= Len(extractions'[c])
  <2>1. check[c] # None =>
          /\ check[c].extractionJob \in Int /\ Len(extractions[c]) \in Int
          /\ Len(extractions'[c]) \in Int
    BY <1>1 DEF RowsTyped, CheckRow
  <2> QED
    BY <1>1, <2>1 DEF RowOk, Grows
<1>3. check[c] # None /\ check[c].status = "FAILED" =>
        \/ audit'[c] = "failed"
        \/ \A p \in Callers : Poller(p)' => Mine(p)' # c
  BY <1>1, PollersBefore DEF RowOk, Grows
<1> QED
  BY <1>1, <1>2, <1>3 DEF RowOk, Grows

LEMMA WrittenRow ==
  ASSUME IInv, [Next]_vars, NEW p \in Callers, Write(p), NEW c \in Checks, c = Mine(p)
  PROVE  RowOk(c)'
<1>1. /\ CallOk(p) /\ c \in Checks /\ RowsTyped /\ RowOk(c) /\ Grows(c) /\ pc[p] = "write"
      /\ UNCHANGED <<findings, audit, extractions>>
  BY CallsAreOk, AtWork, CallsStep DEF Write, ai, IInv, RowsAreTrue
<1>2. /\ check'[c] \in CheckRow /\ check[c] \in CheckRow /\ Entity(p) \in CheckRow
      /\ check'[c].status = Entity(p).status
      /\ check'[c].extraction \in {check[c].extraction, Entity(p).extraction}
      /\ check'[c].extractionJob \in {check[c].extractionJob, Entity(p).extractionJob}
  BY WriteLeaves
<1>3. check[c] # None /\ check'[c] # None /\ c # None
  BY <1>1, <1>2, NoneAssumption, ChecksAssumption
<1>4. check'[c].extractionJob <= Len(extractions'[c])
  BY <1>1, <1>2, <1>3 DEF RowOk, CallOk, NameOk, NamesJob
<1>5. CallStep(p) /\ CallOk(p)'
  BY CallSteps, CallsStep DEF Step
<1>6. CASE Poller(p)
  <2>1. /\ Entity(p).status # "PENDING"
        /\ Entity(p).extraction # "PENDING" => Entity(p).status = "DONE"
        /\ Entity(p).status = "DONE" => findings[c] > 0
        /\ Entity(p).status = "FAILED" => audit[c] = "failed"
    BY <1>1, <1>6 DEF CallOk, PollOk
  <2>2. check'[c].extraction # "PENDING" => check'[c].status = "DONE"
    BY <1>1, <1>2, <1>3, <2>1 DEF RowOk, Grows
  <2> QED
    BY <1>1, <1>2, <1>3, <1>4, <2>1, <2>2 DEF RowOk
<1>7. CASE Runner(p)
  <2>1. /\ check[c] = NewRow /\ Entity(p).extraction = "PENDING" /\ Entity(p).status # "DONE"
        /\ \A q \in Callers : q # p => ~ActiveOn(q, c)
    BY <1>1, <1>7 DEF CallOk, RunnerOk, Runner, Saving
  <2>2. check'[c].extraction = "PENDING"
    BY <1>2, <2>1 DEF NewRow
  <2>3. ASSUME NEW q \in Callers, Poller(q)' PROVE Mine(q)' # c
    <3>1. q # p
      BY <1>5, <1>7, <2>3 DEF CallStep, Stays, Poller
    <3>2. pc'[q] = pc[q] /\ job'[q] = job[q]
      BY <1>5, <3>1 DEF CallStep, Moved, OthersStay
    <3> QED
      BY <2>1, <2>3, <3>1, <3>2 DEF Poller, ActiveOn, Mine
  <2> QED
    BY <1>1, <1>2, <1>3, <1>4, <2>1, <2>2, <2>3 DEF RowOk
<1> QED
  BY <1>1, <1>6, <1>7 DEF Poller

\* Who writes the row of a check or its findings.
LEMMA RowChanges ==
  ASSUME IInv, [Next]_vars, NEW c \in Checks
  PROVE  \/ check'[c] = check[c] /\ findings'[c] = findings[c]
         \/ \E p \in Callers : Mine(p) = c /\ (Write(p) \/ Persist(p) \/ InsertFindings(p))
<1>1. CASE Outside
  BY <1>1 DEF Outside
<1>2. ASSUME NEW p \in Callers, NEW d \in Checks, Begins(p, d)
      PROVE  check'[c] = check[c] /\ findings'[c] = findings[c]
  BY <1>2 DEF Begins, Untouched
<1>3. ASSUME NEW p \in Callers, Step(p) \/ Throw(p) \/ Die(p)
      PROVE  \/ check'[c] = check[c] /\ findings'[c] = findings[c]
             \/ Mine(p) = c /\ (Write(p) \/ Persist(p) \/ InsertFindings(p))
  <2>1. CASE Mine(p) # c
    BY <1>3, <2>1, CallSteps DEF CallStep, Untouched
  <2>2. CASE ~(Write(p) \/ Persist(p) \/ InsertFindings(p))
    BY <1>3, <2>2 DEF Step, Select, Dispatch, DispatchFails, ReleaseRun, SeeAudit, Commit,
       Extract, ExtractFails, RefundRun, SeeExtraction, InsertObligations, Throw, Die, rows
  <2> QED
    BY <2>1, <2>2
<1>4. \/ UNCHANGED vars \/ \E d \in Checks : Environment(d)
      \/ \E p \in Callers : Step(p) \/ Throw(p) \/ Die(p)
      \/ \E p \in Callers, d \in Checks : RunCheck(p, d) \/ Poll(p, d)
  BY DEF Next
<1> QED
  BY <1>1, <1>2, <1>3, <1>4, OutsideSteps, BeginSteps

LEMMA RowsStep ==
  ASSUME IInv, [Next]_vars
  PROVE  RowsAreTrue'
<1>1. ASSUME NEW c \in Checks, NEW p \in Callers, Mine(p) = c, Persist(p)
      PROVE  RowOk(c)'
  <2>1. /\ RowsTyped /\ CallOk(p) /\ RowOk(c) /\ findings[c] = 0
        /\ UNCHANGED <<findings, audit, extractions>>
    BY <1>1, AtWork, CallsAreOk
       DEF Persist, ai, CallOk, RunnerOk, Runner, IInv, RowsAreTrue
  <2>2. check'[c] = NewRow
    BY <1>1, <2>1 DEF Persist, RowsTyped
  <2>3. Len(extractions[c]) \in Nat
    BY <2>1 DEF RowsTyped
  <2> QED
    BY <2>1, <2>2, <2>3 DEF RowOk, NewRow
<1>2. ASSUME NEW c \in Checks, NEW p \in Callers, Mine(p) = c, InsertFindings(p)
      PROVE  RowOk(c)'
  <2>1. /\ CallOk(p) /\ RowOk(c) /\ pc[p] = "findings"
        /\ UNCHANGED <<check, audit, extractions>>
    BY <1>2, CallsAreOk DEF InsertFindings, ai, IInv, RowsAreTrue
  <2>2. Poller(p)
    BY <2>1 DEF Poller, Runner, Saving
  <2>3. audit[c] = "completed" /\ check[c] # None
    BY <1>2, <2>1, <2>2 DEF CallOk, PollOk
  <2>4. findings'[c] > 0
    BY <1>2, InsertFindingsKeeps
  <2>5. check[c].status = "FAILED" => \A q \in Callers : Poller(q)' => Mine(q)' # c
    BY <1>2, <2>1, <2>2, <2>3 DEF RowOk
  <2> QED
    BY <2>1, <2>3, <2>4, <2>5 DEF RowOk
<1>3. ASSUME NEW c \in Checks PROVE RowOk(c)'
  BY <1>1, <1>2, RowChanges, KeptRow, WrittenRow
<1> QED
  BY <1>3 DEF RowsAreTrue

\* Which steps touch the ledger.
LEMMA MeterSteps ==
  ASSUME [Next]_vars
  PROVE  \/ UNCHANGED meter
         \/ \E p \in Callers : Commit(p) \/ ReleaseRun(p) \/ RefundRun(p)
         \/ \E p \in Callers, c \in Checks : RunCheck(p, c)
         \/ \E c \in Checks : Expire(c) \/ Sweep(c)
BY DEF Next, Step, Environment, vars, meter, Select, Write, Persist, Dispatch,
   DispatchFails, SeeAudit, InsertFindings, Extract, ExtractFails, SeeExtraction,
   InsertObligations, Throw, Die, Poll, AuditEnds, ExtractionEnds

\* Who writes the ledger.
LEMMA EntryChanges ==
  ASSUME IInv, [Next]_vars
  PROVE  /\ MeterTyped'
         /\ DOMAIN entry \subseteq DOMAIN entry' /\ lapsed \subseteq lapsed'
         /\ \A c \in DOMAIN entry' :
              \/ c \in DOMAIN entry /\ entry'[c] = entry[c]
              \/ entry'[c].status = "reserved"
              \/ /\ entry'[c].status = "committed"
                 /\ \E p \in Callers : Commit(p) /\ Mine(p) = c
              \/ /\ entry'[c].status = "released" /\ c \in DOMAIN entry
                 /\ \/ \E p \in Callers : (ReleaseRun(p) \/ RefundRun(p)) /\ Mine(p) = c
                    \/ c \in lapsed
<1>0. MeterTyped
  BY TypeParts DEF IInv
<1>1. CASE UNCHANGED meter
  BY <1>0, <1>1 DEF meter, MeterTyped
<1>2. ASSUME NEW p \in Callers, NEW s \in {"committed", "released"}, Settle(p, s)
      PROVE  /\ MeterTyped' /\ DOMAIN entry' = DOMAIN entry /\ lapsed' = lapsed
             /\ \A d \in DOMAIN entry : d # Mine(p) => entry'[d] = entry[d]
             /\ entry'[Mine(p)] = entry[Mine(p)] \/ entry'[Mine(p)].status = s
  BY <1>0, <1>2, SettleRow
<1>3. ASSUME NEW p \in Callers, Commit(p)
      PROVE  /\ MeterTyped' /\ DOMAIN entry' = DOMAIN entry /\ lapsed' = lapsed
             /\ \A c \in DOMAIN entry : \/ entry'[c] = entry[c]
                                        \/ entry'[c].status = "committed" /\ Mine(p) = c
  BY <1>2, <1>3 DEF Commit
<1>4. ASSUME NEW p \in Callers, ReleaseRun(p) \/ RefundRun(p)
      PROVE  /\ MeterTyped' /\ DOMAIN entry' = DOMAIN entry /\ lapsed' = lapsed
             /\ \A c \in DOMAIN entry : \/ entry'[c] = entry[c]
                                        \/ entry'[c].status = "released" /\ Mine(p) = c
  BY <1>2, <1>4 DEF ReleaseRun, RefundRun
<1>5. ASSUME NEW p \in Callers, NEW c \in Checks, RunCheck(p, c)
      PROVE  /\ MeterTyped' /\ DOMAIN entry' = DOMAIN entry \cup {c} /\ lapsed' = lapsed
             /\ entry'[c].status = "reserved"
             /\ \A d \in DOMAIN entry : entry'[d] = entry[d]
  <2>1. Meter!Grant(c, Window, 1) /\ lapsed' = lapsed
    BY <1>5 DEF RunCheck
  <2> QED
    BY <1>0, <2>1, GrantRow DEF MeterTyped
<1>6. ASSUME NEW c \in Checks, Expire(c)
      PROVE  MeterTyped' /\ entry' = entry /\ lapsed \subseteq lapsed'
  BY <1>0, <1>6 DEF Expire, MeterTyped
<1>7. ASSUME NEW c \in Checks, Sweep(c)
      PROVE  /\ MeterTyped' /\ DOMAIN entry' = DOMAIN entry /\ lapsed' = lapsed
             /\ \A d \in DOMAIN entry :
                  \/ entry'[d] = entry[d]
                  \/ entry'[d].status = "released" /\ d \in lapsed
  <2>1. Meter!End(c, "released") /\ c \in lapsed /\ lapsed' = lapsed
    BY <1>7 DEF Sweep, Overdue
  <2> QED
    BY <1>0, <2>1, EndRow DEF MeterTyped
<1>8. \/ UNCHANGED meter
      \/ \E p \in Callers : Commit(p) \/ ReleaseRun(p) \/ RefundRun(p)
      \/ \E p \in Callers, c \in Checks : RunCheck(p, c)
      \/ \E c \in Checks : Expire(c) \/ Sweep(c)
  BY MeterSteps
<1>9. CASE \E p \in Callers : Commit(p)
  BY <1>3, <1>9
<1>10. CASE \E p \in Callers : ReleaseRun(p) \/ RefundRun(p)
  BY <1>4, <1>10
<1>11. CASE \E p \in Callers, c \in Checks : RunCheck(p, c)
  BY <1>5, <1>11
<1>12. CASE \E c \in Checks : Expire(c)
  BY <1>6, <1>12
<1>13. CASE \E c \in Checks : Sweep(c)
  BY <1>7, <1>13
<1> QED
  BY <1>1, <1>8, <1>9, <1>10, <1>11, <1>12, <1>13

LEMMA StartedStep ==
  ASSUME IInv, [Next]_vars
  PROVE  StartedChecks'
<1>0. DOMAIN entry \subseteq DOMAIN entry' /\ DOMAIN entry \subseteq Checks
  BY EntryChanges, TypeParts DEF IInv, MeterTyped
<1>1. ASSUME NEW q \in Callers, pc'[q] # "idle" PROVE Mine(q)' \in DOMAIN entry'
  <2>1. CASE Outside
    BY <1>0, <1>1, <2>1 DEF Outside, IInv, StartedChecks, Mine
  <2>2. ASSUME NEW p \in Callers, CallStep(p) PROVE Mine(q)' \in DOMAIN entry'
    <3>1. CASE q = p
      BY <1>0, <1>1, <2>2, <3>1, AtWork DEF CallStep, Stays, Mine
    <3>2. CASE q # p
      BY <1>0, <1>1, <2>2, <3>2 DEF CallStep, Moved, OthersStay, IInv, StartedChecks, Mine
    <3> QED
      BY <3>1, <3>2
  <2>3. ASSUME NEW p \in Callers, NEW c \in Checks, RunCheck(p, c) \/ Poll(p, c), Begins(p, c)
        PROVE  Mine(q)' \in DOMAIN entry'
    <3>1. CASE q = p
      <4>1. c \in DOMAIN entry'
        BY <1>0, <2>3, GrantRow, TypeParts DEF RunCheck, Poll, IInv, StartedChecks
      <4> QED
        BY <2>3, <3>1, <4>1 DEF Begins, Mine
    <3>2. CASE q # p
      BY <1>0, <1>1, <2>3, <3>2 DEF Begins, Moved, OthersStay, IInv, StartedChecks, Mine
    <3> QED
      BY <3>1, <3>2
  <2> QED
    BY <2>1, <2>2, <2>3, StepKinds
<1>2. ASSUME NEW c \in Checks, c \notin DOMAIN entry'
      PROVE  check'[c] = None /\ audit'[c] = "none"
  <2>1. c \notin DOMAIN entry /\ check[c] = None /\ audit[c] = "none"
    BY <1>0, <1>2 DEF IInv, StartedChecks
  <2>2. CASE Outside
    BY <2>1, <2>2 DEF Outside
  <2>3. ASSUME NEW p \in Callers, CallStep(p) PROVE check'[c] = None /\ audit'[c] = "none"
    <3>1. Mine(p) # c
      BY <2>1, <2>3, AtWork DEF CallStep
    <3> QED
      BY <2>1, <2>3, <3>1 DEF CallStep, Untouched
  <2>4. ASSUME NEW p \in Callers, NEW d \in Checks, Begins(p, d)
        PROVE  check'[c] = None /\ audit'[c] = "none"
    BY <2>1, <2>4 DEF Begins, Untouched
  <2> QED
    BY <2>2, <2>3, <2>4, StepKinds
<1> QED
  BY <1>1, <1>2 DEF StartedChecks

LEMMA ChargedStep ==
  ASSUME IInv, [Next]_vars
  PROVE  ChargedRunsDelivered'
<1>1. SUFFICES ASSUME NEW c \in DOMAIN entry', entry'[c].status = "committed"
               PROVE  findings'[c] > 0 /\ check'[c].status = "DONE"
  BY DEF ChargedRunsDelivered
<1>2. c \in Checks /\ Grows(c) /\ RowOk(c)
  BY EntryChanges, CallsStep DEF MeterTyped, IInv, RowsAreTrue
<1>3. findings[c] > 0 /\ check[c].status = "DONE"
  <2>1. CASE c \in DOMAIN entry /\ entry'[c] = entry[c]
    BY <1>1, <2>1 DEF IInv, ChargedRunsDelivered
  <2>2. ASSUME NEW p \in Callers, Commit(p), Mine(p) = c
        PROVE  findings[c] > 0 /\ check[c].status = "DONE"
    <3>1. CallOk(p) /\ pc[p] = "commit"
      BY <2>2, CallsAreOk DEF Commit
    <3>2. Poller(p)
      BY <3>1 DEF Poller, Runner, Saving
    <3> QED
      BY <2>2, <3>1, <3>2 DEF CallOk, PollOk
  <2> QED
    BY <1>1, <2>1, <2>2, EntryChanges
<1> QED
  BY <1>2, <1>3 DEF Grows, RowOk

\* Nobody takes up a check that is at rest and cannot be polled.
LEMMA RestStep ==
  ASSUME IInv, [Next]_vars, NEW c \in DOMAIN entry, Unpollable(c),
         \A p \in Callers : ~ActiveOn(p, c)
  PROVE  /\ check'[c] = check[c] /\ findings'[c] = findings[c]
         /\ \A q \in Callers : ~ActiveOn(q, c)'
<1>1. c \in Checks
  BY TypeParts DEF IInv, MeterTyped
<1>2. CASE Outside
  BY <1>2 DEF Outside, ActiveOn, Mine
<1>3. ASSUME NEW p \in Callers, CallStep(p)
      PROVE  /\ check'[c] = check[c] /\ findings'[c] = findings[c]
             /\ \A q \in Callers : ~ActiveOn(q, c)'
  <2>1. Mine(p) # c
    BY <1>3 DEF CallStep, ActiveOn
  <2> QED
    BY <1>1, <1>3, <2>1 DEF CallStep, Untouched, Stays, Moved, OthersStay, ActiveOn, Mine
<1>4. ASSUME NEW p \in Callers, NEW d \in Checks, RunCheck(p, d) \/ Poll(p, d), Begins(p, d)
      PROVE  /\ check'[c] = check[c] /\ findings'[c] = findings[c]
             /\ \A q \in Callers : ~ActiveOn(q, c)'
  <2>1. d # c
    BY <1>4 DEF RunCheck, Meter!Grant, Poll, Unpollable
  <2> QED
    BY <1>1, <1>4, <2>1 DEF Begins, Untouched, Moved, OthersStay, ActiveOn, Mine
<1> QED
  BY <1>2, <1>3, <1>4, StepKinds

LEMMA RefundedStep ==
  ASSUME IInv, [Next]_vars
  PROVE  RefundedRunsAreOver'
<1>1. SUFFICES ASSUME NEW c \in DOMAIN entry', entry'[c].status = "released", c \notin lapsed'
               PROVE  /\ findings'[c] = 0
                      /\ \/ audit'[c] = "failed"
                         \/ Unpollable(c)' /\ \A p \in Callers : ~ActiveOn(p, c)'
  BY DEF RefundedRunsAreOver
<1>2. c \in Checks /\ Grows(c) /\ RowOk(c)' /\ RowsTyped' /\ c \notin lapsed
  BY <1>1, EntryChanges, CallsStep, RowsStep DEF MeterTyped, RowsAreTrue
<1>3. audit[c] = "failed" => findings'[c] = 0 /\ audit'[c] = "failed"
  BY <1>2 DEF Grows, RowOk, RowsTyped
<1>4. CASE c \in DOMAIN entry /\ entry'[c] = entry[c]
  <2>1. /\ findings[c] = 0
        /\ \/ audit[c] = "failed"
           \/ Unpollable(c) /\ \A p \in Callers : ~ActiveOn(p, c)
    BY <1>1, <1>2, <1>4 DEF IInv, RefundedRunsAreOver
  <2>2. CASE audit[c] = "failed"
    BY <1>3, <2>2
  <2>3. CASE Unpollable(c) /\ \A p \in Callers : ~ActiveOn(p, c)
    <3>1. /\ check'[c] = check[c] /\ findings'[c] = findings[c]
          /\ \A q \in Callers : ~ActiveOn(q, c)'
      BY <1>4, <2>3, RestStep
    <3> QED
      BY <2>1, <2>3, <3>1 DEF Unpollable
  <2> QED
    BY <2>1, <2>2, <2>3
<1>5. ASSUME NEW p \in Callers, ReleaseRun(p), Mine(p) = c
      PROVE  /\ findings'[c] = 0
             /\ Unpollable(c)' /\ \A q \in Callers : ~ActiveOn(q, c)'
  <2>1. CallOk(p) /\ pc[p] = "release" /\ Runner(p) /\ UNCHANGED <<check, findings>>
    BY <1>5, CallsAreOk DEF ReleaseRun, Runner, rows
  <2>2. /\ findings[c] = 0 /\ Unpollable(c)
        /\ \A q \in Callers : q # p => ~ActiveOn(q, c)
    BY <1>5, <2>1 DEF CallOk, RunnerOk
  <2>3. Moved(p) /\ pc'[p] = "idle"
    BY <1>5, ReturnDoes DEF ReleaseRun, Arrives
  <2> QED
    BY <2>1, <2>2, <2>3 DEF Unpollable, ActiveOn, Moved, OthersStay, Mine
<1>6. ASSUME NEW p \in Callers, RefundRun(p), Mine(p) = c
      PROVE  audit[c] = "failed"
  <2>1. CallOk(p) /\ pc[p] = "refund"
    BY <1>6, CallsAreOk DEF RefundRun
  <2>2. Poller(p)
    BY <2>1 DEF Poller, Runner, Saving
  <2> QED
    BY <1>6, <2>1, <2>2 DEF CallOk, PollOk
<1>7. CASE \E p \in Callers : (ReleaseRun(p) \/ RefundRun(p)) /\ Mine(p) = c
  BY <1>3, <1>5, <1>6, <1>7
<1> QED
  BY <1>1, <1>2, <1>4, <1>7, EntryChanges

LEMMA FaultsStep ==
  ASSUME faults \in 0 .. MaxFaults, [Next]_vars
  PROVE  faults' \in 0 .. MaxFaults
<1>1. UNCHANGED faults \/ (faults < MaxFaults /\ faults' = faults + 1)
  BY DEF Next, Step, Environment, vars, Select, Write, Persist, Dispatch, DispatchFails,
     ReleaseRun, SeeAudit, InsertFindings, Commit, Extract, ExtractFails, RefundRun,
     SeeExtraction, InsertObligations, Throw, Die, RunCheck, Poll, AuditEnds,
     ExtractionEnds, Expire, Sweep
<1> QED
  BY <1>1, FaultsAssumption

LEMMA StepInvariant == IInv /\ [Next]_vars => IInv'
<1> SUFFICES ASSUME IInv, [Next]_vars PROVE IInv'
  OBVIOUS
<1>1. /\ RowsTyped' /\ \A q \in Callers : CallOk(q)'
      /\ pc' \in [Callers -> Labels] /\ job' \in [Callers -> JobRow]
  BY CallsStep
<1>2. MeterTyped'
  BY EntryChanges
<1>3. CallsTyped' /\ CallsNameJobs'
  <2>1. faults' \in 0 .. MaxFaults
    BY FaultsStep, TypeParts DEF IInv, CallsTyped
  <2>2. CallsNameJobs'
    BY <1>1 DEF CallsNameJobs, CallOk, NameOk, NamesJob, Mine, Entity
  <2> QED
    BY <1>1, <2>1, <2>2 DEF CallsTyped
<1>4. TypeOK' /\ Shapes'
  <2>1. (TypeOK /\ Shapes <=> MeterTyped /\ RowsTyped /\ CallsTyped /\ CallsNameJobs)'
    BY TypeParts, PTL
  <2> QED
    BY <1>1, <1>2, <1>3, <2>1
<1>5. RunnersAreAlone' /\ PollsAreTrue' /\ SavesKnowTheVerdict'
  BY <1>1 DEF CallOk, RunnersAreAlone, PollsAreTrue, SavesKnowTheVerdict
<1> QED
  BY <1>4, <1>5, StartedStep, RowsStep, ChargedStep, RefundedStep DEF IInv

LEMMA InitInvariant == Init => IInv
<1> SUFFICES ASSUME Init PROVE IInv
  OBVIOUS
<1>1. MeterTyped
  BY CapacityAssumption DEF Init, MeterTyped
<1>2. RowsTyped
  BY DEF Init, RowsTyped
<1>3. CallsTyped /\ CallsNameJobs
  <2>1. \A p \in Callers : job[p] = NoJob /\ pc[p] = "idle"
    BY DEF Init
  <2>2. CallsTyped
    BY NewRowType, FaultsAssumption DEF Init, CallsTyped, Labels
  <2>3. CallsNameJobs
    BY <2>1 DEF CallsNameJobs, NamesJob, Mine, NoJob
  <2> QED
    BY <2>2, <2>3
<1>4. \A p \in Callers : pc[p] = "idle"
  BY DEF Init
<1>5. RunnersAreAlone /\ PollsAreTrue /\ SavesKnowTheVerdict
  BY <1>4 DEF RunnersAreAlone, PollsAreTrue, SavesKnowTheVerdict, RunnerOk, PollOk, SaveOk,
     Runner, Poller, Saving
<1>6. StartedChecks /\ RowsAreTrue
  BY <1>4 DEF Init, StartedChecks, RowsAreTrue, RowOk
<1>7. ChargedRunsDelivered /\ RefundedRunsAreOver
  BY DEF Init, ChargedRunsDelivered, RefundedRunsAreOver
<1> QED
  BY <1>1, <1>2, <1>3, <1>5, <1>6, <1>7, TypeParts DEF IInv

-----------------------------------------------------------------------------
(* Who settles a reservation.                                              *)

\* A poll whose entity says DONE is about to store that, or found it stored.
VerdictOk(p) ==
  Poller(p) /\ Entity(p).status = "DONE" /\ ~Saving(p, "commit") =>
    check[Mine(p)].status = "DONE"

\* The save of a job id writes it.
JobIdOk(p) ==
  pc[p] = "write" /\ Saving(p, "idle") /\ AwaitsAudit(Entity(p)) =>
    "job" \in job[p].columns

Owned(c) == \/ check[c] # None /\ AwaitsAudit(check[c])
            \/ \E p \in Callers : OnItsWay(p, c)

Reserved(c) == c \in DOMAIN entry /\ entry[c].status = "reserved"

\* ReservationsHaveOwners with what makes it inductive.
OwnersKnown ==
  faults = 0 =>
    /\ \A p \in Callers : VerdictOk(p) /\ JobIdOk(p)
    /\ \A c \in Checks : Reserved(c) => Owned(c)

LEMMA VerdictStep ==
  ASSUME IInv, NEW p \in Callers, Step(p), VerdictOk(p)
  PROVE  VerdictOk(p)'
<1>0. CallStep(p) /\ CallOk(p)
  BY CallSteps, CallsAreOk
<1>1. CASE Select(p)
  <2>1. /\ Arrives(p, "write", Mine(p), Entity(p), job[p].next) /\ pc[p] = "select"
        /\ check' = check
    BY <1>1, SelectDoes DEF Select, rows
  <2> QED
    BY <1>0, <2>1 DEF VerdictOk, CallStep, Stays, Saving, Arrives, Mine, Entity
<1>2. CASE Write(p)
  BY <1>2, WriteDoes, WriteLeaves DEF VerdictOk, Arrives, Mine, Entity
<1>3. CASE InsertFindings(p)
  <2>1. pc[p] # "idle" /\ Save(p, [Entity(p) EXCEPT !.status = "DONE"], "commit")
        /\ "commit" \in Labels
    BY <1>3 DEF InsertFindings, Labels
  <2>2. pc'[p] = "select" /\ job'[p].next = "commit"
    BY <2>1, VerdictSaved DEF Saves
  <2> QED
    BY <2>2 DEF VerdictOk, Saving
<1>4. CASE Commit(p)
  <2>1. pc[p] = "commit" /\ check' = check
    BY <1>4 DEF Commit, rows
  <2>2. Poller(p)
    BY <2>1 DEF Poller, Runner, Saving
  <2>3. check[Mine(p)].status = "DONE"
    BY <1>0, <2>1, <2>2 DEF CallOk, PollOk
  <2>4. Arrives(p, "extract", Mine(p), Entity(p), job[p].next)
    BY <1>4, GotoDoes DEF Commit, Labels
  <2> QED
    BY <2>1, <2>3, <2>4 DEF VerdictOk, Arrives, Mine
\* The other statements leave the row and the verdict of the entity alone.
<1>5. ASSUME check' = check, ~Saving(p, "commit"),
             \/ pc'[p] = "idle"
             \/ job'[p].check = Mine(p) /\ job'[p].entity.status \in {Entity(p).status, "FAILED"}
      PROVE  VerdictOk(p)'
  BY <1>0, <1>5 DEF VerdictOk, CallStep, Stays, Poller, Mine, Entity
<1>6. CASE Persist(p) \/ Dispatch(p) \/ DispatchFails(p)
  <2>1. Runner(p)
    BY <1>6 DEF Persist, Dispatch, DispatchFails, Runner
  <2> QED
    BY <1>0, <2>1 DEF VerdictOk, CallStep, Stays, Poller
<1>7. CASE ReleaseRun(p)
  <2>1. pc[p] = "release" /\ check' = check /\ pc'[p] = "idle"
    BY <1>7, ReturnDoes DEF ReleaseRun, rows, Arrives
  <2> QED
    BY <1>5, <2>1 DEF Saving
<1>8. CASE SeeAudit(p)
  <2>1. pc[p] = "audit" /\ check' = check
    BY <1>8 DEF SeeAudit, rows
  <2>2. CASE \E l \in {"findings", "extraction"} : Goto(p, l) /\ UNCHANGED job
    BY <1>5, <2>1, <2>2, GotoDoes DEF Saving, Arrives, Labels
  <2>3. CASE Save(p, [Entity(p) EXCEPT !.status = "FAILED"], "refund")
    <3>1. Saves(p, "FAILED", Entity(p).extraction, Entity(p).extractionJob, "refund")
      BY <2>1, <2>3, FailureSaved DEF Labels
    <3> QED
      BY <1>5, <2>1, <3>1 DEF Saving, Saves
  <2> QED
    BY <1>8, <2>2, <2>3 DEF SeeAudit
<1>9. CASE Extract(p) \/ ExtractFails(p)
  <2>1. pc[p] = "extract" /\ check' = check /\ Mine(p) \in Checks /\ RowsTyped'
    BY <1>0, <1>9, AtWork DEF Extract, ExtractFails, rows, CallStep
  <2>2. CASE Extract(p)
    <3>1. Len(extractions'[Mine(p)]) \in Nat /\ "extraction" \in Labels
      BY <2>1 DEF RowsTyped, Labels
    <3>2. Save(p, [Entity(p) EXCEPT !.extraction = "RUNNING",
                                    !.extractionJob = Len(extractions'[Mine(p)])],
               "extraction")
      BY <2>2 DEF Extract
    <3>3. Saves(p, Entity(p).status, "RUNNING", Len(extractions'[Mine(p)]), "extraction")
      BY <2>1, <3>1, <3>2, RunningSaved
    <3> QED
      BY <1>5, <2>1, <3>3 DEF Saving, Saves
  <2>3. CASE ExtractFails(p)
    <3>1. Saves(p, Entity(p).status, "FAILED", Entity(p).extractionJob, "extraction")
      BY <2>1, <2>3, ExtractionFailureSaved DEF ExtractFails, Labels
    <3> QED
      BY <1>5, <2>1, <3>1 DEF Saving, Saves
  <2> QED
    BY <1>9, <2>2, <2>3
<1>10. CASE RefundRun(p)
  <2>1. /\ pc[p] = "refund" /\ check' = check
        /\ Arrives(p, "extraction", Mine(p), Entity(p), job[p].next)
    BY <1>10, GotoDoes DEF RefundRun, rows, Labels
  <2> QED
    BY <1>5, <2>1 DEF Saving, Arrives
<1>11. CASE SeeExtraction(p)
  <2>1. pc[p] = "extraction" /\ check' = check
    BY <1>11 DEF SeeExtraction, rows
  <2>2. CASE Goto(p, "obligations") /\ UNCHANGED job
    BY <1>5, <2>1, <2>2, GotoDoes DEF Saving, Arrives, Labels
  <2>3. CASE Save(p, [Entity(p) EXCEPT !.extraction = "FAILED"], "idle")
    <3>1. Saves(p, Entity(p).status, "FAILED", Entity(p).extractionJob, "idle")
      BY <2>1, <2>3, ExtractionFailureSaved DEF Labels
    <3> QED
      BY <1>5, <2>1, <3>1 DEF Saving, Saves
  <2>4. CASE Return(p)
    BY <1>5, <2>1, <2>4, ReturnDoes DEF Saving, Arrives
  <2> QED
    BY <1>11, <2>2, <2>3, <2>4 DEF SeeExtraction
<1>12. CASE InsertObligations(p)
  <2>1. pc[p] = "obligations" /\ check' = check
    BY <1>12 DEF InsertObligations
  <2>2. Saves(p, Entity(p).status, "COMPLETED", Entity(p).extractionJob, "idle")
    BY <1>12, <2>1, CompletionSaved DEF InsertObligations, Labels
  <2> QED
    BY <1>5, <2>1, <2>2 DEF Saving, Saves
<1> QED
  BY <1>1, <1>2, <1>3, <1>4, <1>6, <1>7, <1>8, <1>9, <1>10, <1>11, <1>12 DEF Step

LEMMA JobIdStep ==
  ASSUME IInv, NEW p \in Callers, Step(p)
  PROVE  JobIdOk(p)'
<1>1. CASE Select(p)
  <2>1. /\ pc[p] = "select" /\ Arrives(p, "write", Mine(p), Entity(p), job[p].next)
        /\ job'[p].columns = {f \in DOMAIN NewRow : check[Mine(p)][f] # Entity(p)[f]}
    BY <1>1, SelectDoes
  <2>2. SUFFICES ASSUME job[p].next = "idle", AwaitsAudit(Entity(p))
                 PROVE  "job" \in job'[p].columns
    BY <2>1 DEF JobIdOk, Saving, Arrives, Entity
  <2>3. Runner(p) /\ CallOk(p)
    BY <2>1, <2>2, CallsAreOk DEF Runner, Saving, AwaitsAudit
  <2>4. check[Mine(p)] = NewRow
    BY <2>1, <2>3 DEF CallOk, RunnerOk
  <2> QED
    BY <2>1, <2>2, <2>4 DEF AwaitsAudit, NewRow
<1>2. CASE Write(p)
  <2>1. pc'[p] = job[p].next /\ job'[p].next = job[p].next
    BY <1>2, WriteDoes DEF Arrives
  <2> QED
    BY <2>1 DEF JobIdOk, Saving
<1>3. CASE ~Select(p) /\ ~Write(p)
  <2>1. pc[p] # "idle" /\ CallsTyped
    <3>1. pc[p] # "idle"
      BY CallSteps DEF CallStep
    <3> QED
      BY <3>1, AtWork
  <2>2. pc'[p] # "write"
    BY <1>3, <2>1 DEF CallsTyped, Step, Persist, Dispatch, DispatchFails, ReleaseRun, SeeAudit, InsertFindings,
       Commit, Extract, ExtractFails, RefundRun, SeeExtraction, InsertObligations, Save,
       Goto, Return
  <2> QED
    BY <2>2 DEF JobIdOk
<1> QED
  BY <1>1, <1>2, <1>3

\* A settlement settles.
LEMMA SettleEnds ==
  ASSUME IInv, NEW p \in Callers, Commit(p) \/ ReleaseRun(p) \/ RefundRun(p),
         NEW c, c = Mine(p)
  PROVE  ~Reserved(c)'
<1>1. PICK s \in {"committed", "released"} : Settle(p, s)
  BY DEF Commit, ReleaseRun, RefundRun
<1>2. MeterTyped
  BY TypeParts DEF IInv
<1>3. CASE Reserved(c)
  BY <1>1, <1>2, <1>3, EndRow DEF Settle, Reserved
<1>4. CASE ~Reserved(c)
  BY <1>1, <1>4 DEF Settle, Reserved
<1> QED
  BY <1>3, <1>4

\* A reservation that is open after a step was open before or is new.
LEMMA ReservedBefore ==
  ASSUME IInv, [Next]_vars, NEW c \in Checks, Reserved(c)'
  PROVE  Reserved(c) \/ \E p \in Callers : RunCheck(p, c)
<1>0. MeterTyped
  BY TypeParts DEF IInv
<1>1. CASE UNCHANGED meter
  BY <1>1 DEF meter, Reserved
<1>2. ASSUME NEW p \in Callers, NEW s \in {"committed", "released"}, Settle(p, s)
      PROVE  Reserved(c)
  <2>1. CASE Meter!End(Mine(p), s)
    BY <1>0, <2>1, EndRow DEF Reserved
  <2>2. CASE UNCHANGED entry
    BY <2>2 DEF Reserved
  <2> QED
    BY <1>2, <2>1, <2>2 DEF Settle
<1>3. CASE \E p \in Callers : Commit(p) \/ ReleaseRun(p) \/ RefundRun(p)
  BY <1>2, <1>3 DEF Commit, ReleaseRun, RefundRun
<1>4. ASSUME NEW p \in Callers, NEW d \in Checks, RunCheck(p, d), d # c
      PROVE  Reserved(c)
  <2>1. Meter!Grant(d, Window, 1)
    BY <1>4 DEF RunCheck
  <2> QED
    BY <1>0, <1>4, <2>1, GrantRow DEF Reserved
<1>5. ASSUME NEW d \in Checks, Expire(d) \/ Sweep(d) PROVE Reserved(c)
  <2>1. CASE Expire(d)
    BY <2>1 DEF Expire, Reserved
  <2>2. CASE Sweep(d)
    BY <1>0, <2>2, EndRow DEF Sweep, Reserved
  <2> QED
    BY <1>5, <2>1, <2>2
<1> QED
  BY <1>1, <1>3, <1>4, <1>5, MeterSteps

\* The next statement of the call on its way keeps it there, or stores a row
\* whose job the polls look at, or settles.
LEMMA OnItsWayStep ==
  ASSUME IInv, NEW p \in Callers, Step(p), JobIdOk(p), NEW c \in Checks, OnItsWay(p, c)
  PROVE  Owned(c)' \/ ~Reserved(c)'
<1>0. /\ c = Mine(p) /\ CallOk(p) /\ pc[p] # "idle" /\ CallsTyped /\ Entity(p) \in CheckRow
      /\ check[c] \in CheckRow \cup {None}
  <2>1. c = Mine(p) /\ CallOk(p) /\ pc[p] # "idle"
    BY CallsAreOk, CallSteps DEF OnItsWay, CallStep
  <2> QED
    BY <2>1, AtWork DEF RowsTyped
<1>1. CASE Persist(p)
  BY <1>0, <1>1, GotoDoes DEF Persist, OnItsWay, Owned, Arrives, Mine, Labels
<1>2. CASE Dispatch(p)
  <2> DEFINE e == [Entity(p) EXCEPT !.job = TRUE]
  <2>1. Entity(p) = NewRow
    BY <1>0, <1>2 DEF Dispatch, CallOk, RunnerOk, Runner
  <2>2. e \in CheckRow /\ AwaitsAudit(e)
    BY <2>1, NewRowType DEF NewRow, CheckRow, AwaitsAudit
  <2>3. Save(p, e, "idle") /\ "idle" \in Labels
    BY <1>2 DEF Dispatch, Labels
  <2> HIDE DEF e
  <2>4. Arrives(p, "select", Mine(p), e, "idle")
    BY <1>0, <2>2, <2>3, SaveMoves
  <2> QED
    BY <1>0, <2>2, <2>4 DEF OnItsWay, Owned, Arrives, Saving, Mine, Entity
<1>3. CASE DispatchFails(p)
  <2>1. Saves(p, "FAILED", Entity(p).extraction, Entity(p).extractionJob, "release")
    BY <1>0, <1>3, FailureSaved DEF DispatchFails, Labels
  <2> QED
    BY <1>0, <2>1 DEF OnItsWay, Owned, Saves, Saving, Mine
<1>4. CASE Select(p)
  <2>1. pc[p] = "select" /\ Arrives(p, "write", Mine(p), Entity(p), job[p].next)
    BY <1>4, SelectDoes
  <2> QED
    BY <1>0, <2>1 DEF OnItsWay, Owned, Arrives, Saving, Mine, Entity
<1>5. CASE Write(p)
  <2>1. /\ pc[p] = "write" /\ Arrives(p, job[p].next, Mine(p), Entity(p), job[p].next)
        /\ check'[c] = Merged(check[c], Entity(p), job[p].columns)
        /\ check'[c].status = Entity(p).status
        /\ check[c] \in CheckRow /\ check'[c] \in CheckRow
    BY <1>0, <1>5, WriteDoes, WriteLeaves
  <2>2. CASE job[p].next \in {"release", "commit", "refund"}
    BY <1>0, <2>1, <2>2 DEF OnItsWay, Owned, Arrives, Mine
  <2>3. CASE Saving(p, "idle") /\ AwaitsAudit(Entity(p))
    <3>1. check'[c].job
      BY <1>0, <2>1, <2>3, MergedRow DEF JobIdOk, AwaitsAudit
    <3>2. AwaitsAudit(check'[c]) /\ check'[c] # None
      BY <2>1, <2>3, <3>1, NoneAssumption DEF AwaitsAudit
    <3> QED
      BY <3>2 DEF Owned
  <2> QED
    BY <2>1, <2>2, <2>3 DEF OnItsWay, Saving
<1>6. CASE Commit(p) \/ ReleaseRun(p) \/ RefundRun(p)
  BY <1>0, <1>6, SettleEnds
<1>7. CASE SeeAudit(p) \/ InsertFindings(p) \/ Extract(p) \/ ExtractFails(p)
           \/ SeeExtraction(p) \/ InsertObligations(p)
  BY <1>7 DEF SeeAudit, InsertFindings, Extract, ExtractFails, SeeExtraction,
     InsertObligations, OnItsWay, Saving
<1> QED
  BY <1>1, <1>2, <1>3, <1>4, <1>5, <1>6, <1>7 DEF Step

\* Only a call on its way to settle stores a verdict where there was none.
LEMMA AwaitingStep ==
  ASSUME IInv, [Next]_vars, \A p \in Callers : VerdictOk(p),
         NEW c \in Checks, check[c] # None, AwaitsAudit(check[c])
  PROVE  Owned(c)'
<1>1. CASE check'[c] = check[c]
  BY <1>1 DEF Owned
<1>2. ASSUME NEW p \in Callers, Mine(p) = c, Persist(p) PROVE FALSE
  BY <1>2, CallsAreOk DEF Persist, CallOk, RunnerOk, Runner
<1>3. ASSUME NEW p \in Callers, Mine(p) = c, InsertFindings(p) PROVE check'[c] = check[c]
  BY <1>3 DEF InsertFindings
<1>4. ASSUME NEW p \in Callers, Mine(p) = c, Write(p) PROVE Owned(c)'
  <2>1. CallOk(p) /\ pc[p] = "write" /\ Arrives(p, job[p].next, c, Entity(p), job[p].next)
    BY <1>4, CallsAreOk, WriteDoes
  <2>2. ~Runner(p)
    BY <1>4, <2>1 DEF CallOk, RunnerOk, Runner, AwaitsAudit, NewRow
  <2>3. job[p].next \in {"commit", "refund"}
    BY <1>4, <2>1, <2>2 DEF CallOk, PollOk, Poller, VerdictOk, Saving, AwaitsAudit
  <2> QED
    BY <2>1, <2>3 DEF Owned, OnItsWay, Arrives, Mine
<1> QED
  BY <1>1, <1>2, <1>3, <1>4, RowChanges

LEMMA OwnersStep ==
  ASSUME IInv, [Next]_vars, OwnersKnown
  PROVE  OwnersKnown'
<1> SUFFICES ASSUME faults' = 0 PROVE OwnersKnown'
  BY DEF OwnersKnown
<1>0. faults \in Nat
  BY FaultsAssumption DEF IInv, TypeOK
<1>1. \/ Outside
      \/ \E p \in Callers : Step(p) /\ CallStep(p)
      \/ \E p \in Callers, c \in Checks : (RunCheck(p, c) \/ Poll(p, c)) /\ Begins(p, c)
  <2>1. ASSUME NEW p \in Callers, Throw(p) \/ Die(p) PROVE FALSE
    BY <1>0, <2>1 DEF Throw, Die
  <2> QED
    BY <2>1, CallSteps, BeginSteps, OutsideSteps DEF Next
<1>2. faults = 0
  <2>1. UNCHANGED faults \/ faults' = faults + 1
    BY DEF Next, Step, Environment, vars, Select, Write, Persist, Dispatch, DispatchFails,
       ReleaseRun, SeeAudit, InsertFindings, Commit, Extract, ExtractFails, RefundRun,
       SeeExtraction, InsertObligations, Throw, Die, RunCheck, Poll, AuditEnds,
       ExtractionEnds, Expire, Sweep
  <2> QED
    BY <1>0, <2>1
<1>3. /\ \A p \in Callers : VerdictOk(p) /\ JobIdOk(p)
      /\ \A c \in Checks : Reserved(c) => Owned(c)
  BY <1>2 DEF OwnersKnown
<1>4. \A c \in Checks : Grows(c)
  BY CallsStep
\* The calls that do not move.
<1>5. ASSUME NEW q \in Callers, pc'[q] = pc[q], job'[q] = job[q]
      PROVE  VerdictOk(q)' /\ JobIdOk(q)'
  <2>1. Poller(q) => Mine(q) \in Checks
    BY AtWork DEF Poller
  <2>2. Poller(q) => check[Mine(q)] # None
    BY CallsAreOk DEF CallOk, PollOk
  <2>3. VerdictOk(q)'
    BY <1>3, <1>4, <1>5, <2>1, <2>2 DEF VerdictOk, Grows, Poller, Runner, Saving, Mine, Entity
  <2> QED
    BY <1>3, <1>5, <2>3 DEF JobIdOk, Saving, Entity
<1>6. ASSUME NEW c \in Checks, NEW q \in Callers, OnItsWay(q, c), pc'[q] = pc[q], job'[q] = job[q]
      PROVE  Owned(c)'
  BY <1>6 DEF Owned, OnItsWay, Saving, Mine, Entity
<1>7. CASE Outside
  <2>1. \A q \in Callers : pc'[q] = pc[q] /\ job'[q] = job[q]
    BY <1>7 DEF Outside
  <2>2. \A c \in Checks : Reserved(c)' => Reserved(c) \/ \E p \in Callers : RunCheck(p, c)
    BY ReservedBefore
  <2>3. ASSUME NEW p \in Callers, NEW c \in Checks, RunCheck(p, c) PROVE Owned(c)'
    BY <2>3, RunCheckDoes DEF Owned, OnItsWay, Arrives, Mine
  <2>4. \A c \in Checks : Reserved(c)' => Owned(c)'
    BY <1>3, <1>6, <2>1, <2>2, <2>3, AwaitingStep DEF Owned
  <2> QED
    BY <1>5, <2>1, <2>4 DEF OwnersKnown
<1>8. ASSUME NEW p \in Callers, Step(p), CallStep(p) PROVE OwnersKnown'
  <2>1. \A q \in Callers \ {p} : pc'[q] = pc[q] /\ job'[q] = job[q]
    BY <1>8 DEF CallStep, Moved, OthersStay
  <2>2. VerdictOk(p)' /\ JobIdOk(p)'
    BY <1>3, <1>8, VerdictStep, JobIdStep
  <2>3. ASSUME NEW c \in Checks, Reserved(c)' PROVE Owned(c)'
    <3>1. CASE Reserved(c)
      <4>1. CASE check[c] # None /\ AwaitsAudit(check[c])
        BY <1>3, <4>1, AwaitingStep
      <4>2. ASSUME NEW q \in Callers \ {p}, OnItsWay(q, c) PROVE Owned(c)'
        BY <1>6, <2>1, <4>2
      <4>3. CASE OnItsWay(p, c)
        BY <1>3, <1>8, <2>3, <4>3, OnItsWayStep
      <4> QED
        BY <1>3, <3>1, <4>1, <4>2, <4>3 DEF Owned
    <3>2. ASSUME NEW q \in Callers, RunCheck(q, c) PROVE Owned(c)'
      BY <3>2, RunCheckDoes DEF Owned, OnItsWay, Arrives, Mine
    <3> QED
      BY <2>3, <3>1, <3>2, ReservedBefore
  <2> QED
    BY <1>5, <2>1, <2>2, <2>3 DEF OwnersKnown
<1>9. ASSUME NEW p \in Callers, NEW d \in Checks, RunCheck(p, d) \/ Poll(p, d), Begins(p, d)
      PROVE  OwnersKnown'
  <2>1. pc[p] = "idle" /\ \A q \in Callers \ {p} : pc'[q] = pc[q] /\ job'[q] = job[q]
    BY <1>9 DEF Begins, Moved, OthersStay
  <2>2. VerdictOk(p)' /\ JobIdOk(p)'
    <3>1. CASE RunCheck(p, d)
      BY <3>1, RunCheckDoes DEF Arrives, VerdictOk, JobIdOk, Saving, Mine, Entity, NewRow
    <3>2. CASE Poll(p, d)
      <4>1. check' = check
        BY <3>2 DEF Poll, rows
      <4> QED
        BY <3>2, <4>1, PollDoes DEF Arrives, VerdictOk, JobIdOk, Saving, Mine, Entity
    <3> QED
      BY <1>9, <3>1, <3>2
  <2>3. ASSUME NEW c \in Checks, Reserved(c)' PROVE Owned(c)'
    <3>1. CASE Reserved(c)
      <4>1. CASE check[c] # None /\ AwaitsAudit(check[c])
        BY <1>3, <4>1, AwaitingStep
      <4>2. ASSUME NEW q \in Callers, OnItsWay(q, c) PROVE Owned(c)'
        <5>1. q # p
          BY <2>1, <4>2 DEF OnItsWay, Saving
        <5> QED
          BY <1>6, <2>1, <4>2, <5>1
      <4> QED
        BY <1>3, <3>1, <4>1, <4>2 DEF Owned
    <3>2. ASSUME NEW q \in Callers, RunCheck(q, c) PROVE Owned(c)'
      BY <3>2, RunCheckDoes DEF Owned, OnItsWay, Arrives, Mine
    <3> QED
      BY <2>3, <3>1, <3>2, ReservedBefore
  <2> QED
    BY <1>5, <2>1, <2>2, <2>3 DEF OwnersKnown
<1> QED
  BY <1>1, <1>7, <1>8, <1>9

-----------------------------------------------------------------------------
(* Theorems.                                                               *)

\* Every reachable state satisfies the inductive invariant.
THEOREM Invariance == Spec => []IInv
BY InitInvariant, StepInvariant, PTL DEF Spec

\* Rows, jobs and calls keep their types, and an entity names a job that was
\* dispatched (Compliance.TypeOK).
THEOREM TypeCorrect == Spec => []TypeOK
<1>1. IInv => TypeOK
  BY DEF IInv
<1> QED
  BY <1>1, Invariance, PTL

\* A run is charged only if its findings are stored and its verdict is not
\* "failed" (commitReservationOnSuccess).
THEOREM ChargedRuns == Spec => []ChargedRunsDelivered
<1>1. IInv => ChargedRunsDelivered
  BY DEF IInv
<1> QED
  BY <1>1, Invariance, PTL

\* A run whose capacity went back before its TTL has delivered nothing
\* (releaseReservationOnFailure and the catch of runCheck).
THEOREM RefundedRuns == Spec => []RefundedRunsDeliverNothing
<1>1. IInv => RefundedRunsDeliverNothing
  BY DEF IInv, RefundedRunsAreOver, RefundedRunsDeliverNothing
<1> QED
  BY <1>1, Invariance, PTL

\* No save of a stale entity changes a verdict that was stored
\* (refreshFromAi, called by overlapping polls).
THEOREM VerdictsFinal == Spec => VerdictIsFinal
<1>1. IInv /\ [Next]_vars =>
        [\A c \in Checks : check[c] # None /\ check[c].status # "PENDING" =>
           check'[c].status = check[c].status]_vars
  BY CallsStep DEF Grows
<1> QED
  BY <1>1, Invariance, PTL DEF Spec, VerdictIsFinal

\* While nothing throws or dies every open reservation has a call that will
\* settle it, or a stored job that the next poll looks at (runCheck and
\* refreshFromAi): nothing is left to the sweeper.
THEOREM OwnersSettle == Spec => []ReservationsHaveOwners
<1>1. Init => OwnersKnown
  BY DEF Init, OwnersKnown, VerdictOk, JobIdOk, Poller, Saving, Reserved
<1>2. IInv /\ [Next]_vars /\ OwnersKnown => OwnersKnown'
  BY OwnersStep
<1>3. IInv /\ OwnersKnown => ReservationsHaveOwners
  BY TypeParts DEF IInv, OwnersKnown, Owned, Reserved, ReservationsHaveOwners, MeterTyped
<1> QED
  BY <1>1, <1>2, <1>3, Invariance, PTL DEF Spec
=============================================================================
