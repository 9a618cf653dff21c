------------------------- MODULE DocumentProcessing -------------------------
(***************************************************************************)
(* Uploaded documents on their way to clauses: text extraction, then       *)
(* clause extraction, each an external AI job, moved on by whoever polls a *)
(* document: browsers, and a driver that ticks in the background           *)
(* (src/backend/src/modules/document-processing).                          *)
(*                                                                         *)
(* The metering engine is its abstract specification MeterQuota.  A save   *)
(* of a document is a SELECT that compares the entity, as it was loaded    *)
(* and changed, with the row, and an UPDATE of the columns that differ.  A *)
(* claim is one UPDATE keyed on the status the caller expects.  All        *)
(* documents belong to one contract.                                       *)
(***************************************************************************)
EXTENDS LedgerSums, Sequences

CONSTANTS
  Callers,    \* requests: uploads, polls, text edits, reprocessings
  Driver,     \* the background driver (concurrency 1)
  Documents,  \* document_uploads ids, numbered in the order of creation
  Keys,       \* bound: the idempotency keys, one per upload or reprocessing
  Capacity,   \* the upload_extraction limit of the contract
  MaxUpsets,  \* bound: text edits, reprocessings, statements that throw and
              \* processes that die, all together
  MaxJobs,    \* bound: AI jobs of an edited document
  Window,     \* the metering window
  None        \* NULL

ASSUME DriverAssumption == Driver \notin Callers
ASSUME DocumentsAssumption == Documents \subseteq Nat
ASSUME NoneAssumption == None \notin Documents \cup Keys
ASSUME BoundsAssumption ==
  Capacity \in Nat /\ MaxUpsets \in Nat /\ MaxJobs \in Nat

VARIABLES
  entry,    \* the ledger rows of the runs, by key (MeterQuota)
  quota,    \* their limit (MeterQuota)
  swept,    \* keys whose reservation outlived its TTL and was released
  doc,      \* document_uploads: id -> row, or None
  aged,     \* documents not updated for longer than MAX_IN_PROGRESS_MS
  clauses,  \* extractions of each document stored in the clause tables
  jobs,     \* the AI jobs of each document, in order of dispatch
  pinned,   \* the contract has been signed
  edited,   \* documents edited or reprocessed so far
  batch,    \* documents the driver's tick has yet to visit
  pc,       \* next statement of each process
  call,     \* its document and the entity it holds
  upsets    \* upsets so far

meter == <<entry, quota, swept>>
vars == <<meter, doc, aged, clauses, jobs, pinned, edited, batch, pc, call, upsets>>

Processes == Callers \cup {Driver}

Meter == INSTANCE MeterQuota WITH Windows <- {Window}, Amounts <- {1}

Terminal == {"CLAUSES_EXTRACTED", "FAILED", "HUMAN_REVIEW_RECOMMENDED"}

\* What is modelled of a row of document_uploads.
DocumentRow ==
  [status : Terminal \cup {"UPLOADED", "EXTRACTING_TEXT", "TEXT_EXTRACTED",
                           "EXTRACTING_CLAUSES"},
   job : Nat, reservation : Keys \cup {None}]

ASSUME RowAssumption == None \notin DocumentRow

NewRow == [status |-> "UPLOADED", job |-> 0, reservation |-> None]

NoCall == [doc |-> None, entity |-> NewRow, old |-> FALSE, columns |-> {},
           next |-> "idle", key |-> None]

Mine(p) == call[p].doc
Row(p) == doc[Mine(p)]
Entity(p) == call[p].entity
Job(p) == jobs[Mine(p)][Entity(p).job]

Upset == upsets < MaxUpsets /\ upsets' = upsets + 1

Goto(p, label) == pc' = [pc EXCEPT ![p] = label]

Return(p) == Goto(p, "idle") /\ call' = [call EXCEPT ![p] = NoCall]

Load(p, d, label) ==
  /\ Goto(p, label)
  /\ call' = [call EXCEPT ![p] =
       [NoCall EXCEPT !.doc = d, !.entity = doc[d], !.old = d \in aged]]

\* The entity e is to be saved, and label comes after.
Save(p, e, label) ==
  /\ Goto(p, "select")
  /\ call' = [call EXCEPT ![p] = [@ EXCEPT !.entity = e, !.next = label, !.old = FALSE]]

\* Every UPDATE of a row sets its updated_at.
Update(d, row) ==
  /\ doc' = [doc EXCEPT ![d] = row]
  /\ aged' = aged \ {d}

\* The reservation k, if there is one, is settled, unless it already is; an
\* answer { applied: false } is only logged.
Settle(k, s) ==
  /\ IF k \in DOMAIN entry /\ entry[k].status = "reserved"
       THEN Meter!End(k, s)
       ELSE UNCHANGED <<entry, quota>>
  /\ UNCHANGED swept

-----------------------------------------------------------------------------
(* documentUploadRepository.save(doc).                                     *)

Select(p) ==
  /\ pc[p] = "select"
  /\ call' = [call EXCEPT ![p].columns =
       {f \in DOMAIN NewRow : Row(p)[f] # Entity(p)[f]}]
  /\ Goto(p, "write")
  /\ UNCHANGED <<meter, doc, aged, clauses, jobs, pinned, edited, batch, upsets>>

Write(p) ==
  /\ pc[p] = "write"
  /\ Update(Mine(p), [f \in DOMAIN NewRow |->
       IF f \in call[p].columns THEN Entity(p)[f] ELSE Row(p)[f]])
  /\ IF call[p].next \in {"started", "edited"}
       THEN Return(p)
       ELSE /\ Goto(p, call[p].next)
            /\ call' = [call EXCEPT ![p].columns = {}]
  /\ UNCHANGED <<meter, clauses, jobs, pinned, edited, batch, upsets>>

-----------------------------------------------------------------------------
(* uploadAndProcess().                                                     *)

Unused(d) == doc[d] = None /\ \A p \in Processes : Mine(p) # d

\* The mutability check and reserve() under a fresh key; a denied or failed
\* reserve leaves nothing.
Upload(p, d, k) ==
  /\ pc[p] = "idle"
  /\ Unused(d) /\ \A c \in Documents : c < d => doc[c] # None
  /\ ~pinned
  /\ Meter!Grant(k, Window, 1)
  /\ Goto(p, "insert")
  /\ call' = [call EXCEPT ![p] =
       [NoCall EXCEPT !.doc = d, !.key = k, !.entity = [NewRow EXCEPT !.reservation = k]]]
  /\ UNCHANGED <<swept, doc, aged, clauses, jobs, pinned, edited, batch, upsets>>

\* The file is stored and the row inserted.
Insert(p) ==
  /\ pc[p] = "insert"
  /\ Update(Mine(p), Entity(p))
  /\ Goto(p, "dispatchText")
  /\ UNCHANGED <<meter, clauses, jobs, pinned, edited, batch, call, upsets>>

\* releaseReservationInFlight: only the call knows the reservation.
ReleaseInFlight(p) ==
  /\ pc[p] = "inflight"
  /\ Settle(call[p].key, "released")
  /\ Return(p)
  /\ UNCHANGED <<doc, aged, clauses, jobs, pinned, edited, batch, upsets>>

-----------------------------------------------------------------------------
(* startTextExtraction() and startClauseExtraction().                      *)

Extraction == [dispatchText |-> [kind |-> "text", status |-> "EXTRACTING_TEXT"],
               dispatchClauses |-> [kind |-> "clauses",
                                    status |-> "EXTRACTING_CLAUSES"]]

Queue(p) ==
  /\ Mine(p) \in edited => Len(jobs[Mine(p)]) < MaxJobs
  /\ jobs' = [jobs EXCEPT ![Mine(p)] =
             Append(@, [kind |-> Extraction[pc[p]].kind, state |-> "queued"])]

\* Faulty variant: the id saved is that of the next job.
Dispatch_NextId(p) ==
  /\ pc[p] \in DOMAIN Extraction
  /\ Queue(p)
  /\ Save(p, [Entity(p) EXCEPT !.status = Extraction[pc[p]].status,
                               !.job = Len(jobs'[Mine(p)]) + 1], "started")
  /\ UNCHANGED <<meter, doc, aged, clauses, pinned, edited, batch, upsets>>

\* The AI backend answers with a job id ...
Dispatch(p) ==
  /\ pc[p] \in DOMAIN Extraction
  /\ Queue(p)
  /\ Save(p, [Entity(p) EXCEPT !.status = Extraction[pc[p]].status,
                               !.job = Len(jobs'[Mine(p)])], "started")
  /\ UNCHANGED <<meter, doc, aged, clauses, pinned, edited, batch, upsets>>

\* ... or no answer comes, though the job may have been queued.
DispatchFails(p) ==
  /\ pc[p] \in DOMAIN Extraction
  /\ Queue(p) \/ UNCHANGED jobs
  /\ Save(p, [Entity(p) EXCEPT !.status = "FAILED"], "refund")
  /\ UNCHANGED <<meter, doc, aged, clauses, pinned, edited, batch, upsets>>

-----------------------------------------------------------------------------
(* advanceDocumentState(), and the ways into it.                           *)

\* A browser polls the document; a terminal one is only shown.
Poll(p, d) ==
  /\ p \in Callers
  /\ pc[p] = "idle"
  /\ doc[d] # None /\ doc[d].status \notin Terminal
  /\ Load(p, d, "check")
  /\ UNCHANGED <<meter, doc, aged, clauses, jobs, pinned, edited, batch, upsets>>

InProgress == {d \in Documents : doc[d] # None /\ doc[d].status \notin Terminal}

\* handleAdvance: the scan ...
Tick ==
  /\ pc[Driver] = "idle" /\ batch = {}
  /\ InProgress # {}
  /\ batch' = InProgress
  /\ UNCHANGED <<meter, doc, aged, clauses, jobs, pinned, edited, pc, call, upsets>>

\* ... and the loop over what it found, oldest document first.
Visit ==
  /\ pc[Driver] = "idle" /\ batch # {}
  /\ \E d \in batch :
       /\ \A c \in batch : d <= c
       /\ batch' = batch \ {d}
       /\ IF doc[d].status \in Terminal
            THEN UNCHANGED <<pc, call>>
            ELSE Load(Driver, d, "check")
  /\ UNCHANGED <<meter, doc, aged, clauses, jobs, pinned, edited, upsets>>

\* The age of the row is not looked at again.
Onward(p, label) == Goto(p, label) /\ call' = [call EXCEPT ![p].old = FALSE]

\* Faulty variant: a row without a job is left to the call that dispatches one.
Check_NoBackstop(p) ==
  /\ pc[p] = "check"
  /\ IF pinned
       THEN Onward(p, "fail")
       ELSE IF Entity(p).job = 0
              THEN Return(p)
              ELSE Goto(p, "ask") /\ UNCHANGED call
  /\ UNCHANGED <<meter, doc, aged, clauses, jobs, pinned, edited, batch, upsets>>

\* Faulty variant: nobody asks whether the contract was signed.
Check_NoPin(p) ==
  /\ pc[p] = "check"
  /\ IF Entity(p).job # 0
       THEN Goto(p, "ask") /\ UNCHANGED call
       ELSE IF call[p].old THEN Onward(p, "fail") ELSE Return(p)
  /\ UNCHANGED <<meter, doc, aged, clauses, jobs, pinned, edited, batch, upsets>>

\* isContractPinned, then the job id of the entity.
Check(p) ==
  /\ pc[p] = "check"
  /\ IF pinned \/ (Entity(p).job = 0 /\ call[p].old)
       THEN Onward(p, "fail")
       ELSE IF Entity(p).job = 0
              THEN Return(p)
              ELSE Goto(p, "ask") /\ UNCHANGED call
  /\ UNCHANGED <<meter, doc, aged, clauses, jobs, pinned, edited, batch, upsets>>

Failed(row) == [row EXCEPT !.status = "FAILED", !.job = 0]

\* Faulty variant: the row is failed whatever has become of it.
FailDocument_AnyStatus(p) ==
  /\ pc[p] = "fail"
  /\ Update(Mine(p), Failed(Row(p)))
  /\ Goto(p, "refund")
  /\ call' = [call EXCEPT ![p].entity = Failed(Entity(p))]
  /\ UNCHANGED <<meter, clauses, jobs, pinned, edited, batch, upsets>>

\* Faulty variant: the winner of the claim keeps the reservation.
FailDocument_KeepsCharge(p) ==
  /\ pc[p] = "fail"
  /\ IF Row(p).status = Entity(p).status
       THEN Update(Mine(p), Failed(Row(p)))
       ELSE UNCHANGED <<doc, aged>>
  /\ Return(p)
  /\ UNCHANGED <<meter, clauses, jobs, pinned, edited, batch, upsets>>

\* failPinnedDoc and failStaleDoc: the claim on the status of the entity, and
\* the refund for who wins it.
FailDocument(p) ==
  /\ pc[p] = "fail"
  /\ IF Row(p).status = Entity(p).status
       THEN /\ Update(Mine(p), Failed(Row(p)))
            /\ Goto(p, "refund")
            /\ call' = [call EXCEPT ![p].entity = Failed(Entity(p))]
       ELSE Return(p) /\ UNCHANGED <<doc, aged>>
  /\ UNCHANGED <<meter, clauses, jobs, pinned, edited, batch, upsets>>

\* getJobStatus.
Ask(p) ==
  /\ pc[p] = "ask"
  /\ CASE Job(p).state = "failed" ->
            Save(p, Failed(Entity(p)), "refund")
       [] Job(p).state \in {"queued", "lost"} ->
            IF call[p].old THEN Onward(p, "fail") ELSE Return(p)
       [] OTHER ->
            CASE Entity(p).status = "EXTRACTING_TEXT" ->
                   Onward(p, IF Job(p).state = "unreadable" THEN "park" ELSE "text")
              [] Entity(p).status = "EXTRACTING_CLAUSES" -> Onward(p, "clauses")
              [] OTHER -> Return(p)
  /\ UNCHANGED <<meter, doc, aged, clauses, jobs, pinned, edited, batch, upsets>>

AfterText(p) ==
  IF pc[p] = "park"
    THEN Save(p, [Entity(p) EXCEPT !.status = "HUMAN_REVIEW_RECOMMENDED",
                                   !.job = 0], "refund")
    ELSE Save(p, [Entity(p) EXCEPT !.status = "TEXT_EXTRACTED", !.job = 0],
              "dispatchClauses")

\* Faulty variant: nobody loses the claim.
ClaimText_NoClaim(p) ==
  /\ pc[p] \in {"text", "park"}
  /\ Update(Mine(p), [Row(p) EXCEPT !.status = "TEXT_EXTRACTED"])
  /\ AfterText(p)
  /\ UNCHANGED <<meter, clauses, jobs, pinned, edited, batch, upsets>>

\* The claim EXTRACTING_TEXT -> TEXT_EXTRACTED; its winner saves the text, and
\* either parks the document or dispatches the second job.
ClaimText(p) ==
  /\ pc[p] \in {"text", "park"}
  /\ IF Row(p).status = "EXTRACTING_TEXT"
       THEN /\ Update(Mine(p), [Row(p) EXCEPT !.status = "TEXT_EXTRACTED"])
            /\ AfterText(p)
       ELSE Return(p) /\ UNCHANGED <<doc, aged>>
  /\ UNCHANGED <<meter, clauses, jobs, pinned, edited, batch, upsets>>

\* Faulty variant: the caller goes by the status it loaded.
Claimable_Loaded(p) == Entity(p).status = "EXTRACTING_CLAUSES"

Claimable(p) == Row(p).status = "EXTRACTING_CLAUSES"

\* writeClausesInTx; the result of a text job holds no clauses.
WriteClauses(p) ==
  clauses' = IF Job(p).kind = "clauses"
               THEN [clauses EXCEPT ![Mine(p)] = @ + 1]
               ELSE clauses

\* Faulty variant: whoever loses the claim commits as well.
ClaimClauses_LoserCommits(p) ==
  /\ pc[p] = "clauses"
  /\ IF Claimable(p)
       THEN /\ Update(Mine(p), [Row(p) EXCEPT !.status = "CLAUSES_EXTRACTED",
                                              !.job = 0])
            /\ WriteClauses(p)
       ELSE UNCHANGED <<doc, aged, clauses>>
  /\ Goto(p, "commit")
  /\ UNCHANGED <<meter, call, jobs, pinned, edited, batch, upsets>>

\* One transaction: the claim EXTRACTING_CLAUSES -> CLAUSES_EXTRACTED, and the
\* clauses.
ClaimClauses(p) ==
  /\ pc[p] = "clauses"
  /\ IF Claimable(p)
       THEN /\ Update(Mine(p), [Row(p) EXCEPT !.status = "CLAUSES_EXTRACTED",
                                              !.job = 0])
            /\ WriteClauses(p)
            /\ Goto(p, "commit")
            /\ UNCHANGED call
       ELSE Return(p) /\ UNCHANGED <<doc, aged, clauses>>
  /\ UNCHANGED <<meter, jobs, pinned, edited, batch, upsets>>

\* commitReservationOnSuccess.
Commit(p) ==
  /\ pc[p] = "commit"
  /\ Settle(Entity(p).reservation, "committed")
  /\ Return(p)
  /\ UNCHANGED <<doc, aged, clauses, jobs, pinned, edited, batch, upsets>>

\* releaseReservationOnFailure.
Refund(p) ==
  /\ pc[p] = "refund"
  /\ Settle(Entity(p).reservation, "released")
  /\ Return(p)
  /\ UNCHANGED <<doc, aged, clauses, jobs, pinned, edited, batch, upsets>>

-----------------------------------------------------------------------------
(* updateExtractedText() and reprocess(): neither looks at the status.     *)

\* updateExtractedText: the load, the mutability check, and a save of the
\* whole entity.
EditText(p, d) ==
  /\ pc[p] = "idle"
  /\ doc[d] # None /\ ~pinned
  /\ Upset
  /\ edited' = edited \cup {d}
  /\ Goto(p, "select")
  /\ call' = [call EXCEPT ![p] =
       [NoCall EXCEPT !.doc = d, !.entity = doc[d], !.next = "edited"]]
  /\ UNCHANGED <<meter, doc, aged, clauses, jobs, pinned, batch>>

\* reprocess: the load and the mutability check ...
Reprocess(p, d) ==
  /\ pc[p] = "idle"
  /\ doc[d] # None /\ ~pinned
  /\ Upset
  /\ edited' = edited \cup {d}
  /\ Load(p, d, "prior")
  /\ UNCHANGED <<meter, doc, aged, clauses, jobs, pinned, batch>>

\* ... the release of the reservation the document carries ...
ReleasePrior(p) ==
  /\ pc[p] = "prior"
  /\ Settle(Entity(p).reservation, "released")
  /\ Goto(p, "reserve")
  /\ UNCHANGED <<doc, aged, clauses, jobs, pinned, edited, batch, call, upsets>>

\* ... a reservation of its own, granted or denied ...
Reserve(p) ==
  /\ pc[p] = "reserve"
  /\ \E k \in Keys :
       /\ Meter!Grant(k, Window, 1)
       /\ call' = [call EXCEPT ![p].key = k]
  /\ Goto(p, "cleanup")
  /\ UNCHANGED <<swept, doc, aged, clauses, jobs, pinned, edited, batch, upsets>>

Denied(p) ==
  /\ pc[p] = "reserve"
  /\ Keys \subseteq DOMAIN entry \/ Used(entry, Window) + 1 > quota
  /\ Return(p)
  /\ UNCHANGED <<meter, doc, aged, clauses, jobs, pinned, edited, batch, upsets>>

\* ... and the clauses of the document are deleted before the row is reset.
Cleanup(p) ==
  /\ pc[p] = "cleanup"
  /\ clauses' = [clauses EXCEPT ![Mine(p)] = 0]
  /\ Save(p, [status |-> "UPLOADED", job |-> 0, reservation |-> call[p].key],
          "dispatchText")
  /\ UNCHANGED <<meter, doc, aged, jobs, pinned, edited, batch, upsets>>

-----------------------------------------------------------------------------
(* Errors, the AI backend, the signing, time and the sweeper.              *)

Saving(p, label) == pc[p] \in {"select", "write"} /\ call[p].next = label

\* Where the exception of a statement is caught: the save of a job id by the
\* catch around its dispatch, what comes between a reserve and a row that
\* carries it by the release.
Throw(p) ==
  /\ Upset
  /\ \/ /\ Saving(p, "started")
        /\ Save(p, [Entity(p) EXCEPT !.status = "FAILED"], "refund")
     \/ /\ \/ pc[p] \in {"insert", "cleanup"}
           \/ Saving(p, "dispatchText")
        /\ Goto(p, "inflight") /\ UNCHANGED call
  /\ UNCHANGED <<meter, doc, aged, clauses, jobs, pinned, edited, batch>>

\* The process dies, or an exception ends the call: a settlement that throws is
\* only logged, and the driver goes on with the next document.
Die(p) ==
  /\ pc[p] # "idle"
  /\ Upset
  /\ Return(p)
  /\ \/ UNCHANGED batch
     \/ p = Driver /\ batch' = {}
  /\ UNCHANGED <<meter, doc, aged, clauses, jobs, pinned, edited>>

\* Jobs that a row or a call still names; what becomes of others is never seen.
Named(d) ==
  {i \in DOMAIN jobs[d] :
     doc[d].job = i \/ \E p \in Processes : Mine(p) = d /\ Entity(p).job = i}

\* A job ends, or never does ...
JobEnds(d) ==
  /\ \E i \in Named(d), s \in {"completed", "unreadable", "failed"} :
       /\ jobs[d][i].state = "queued"
       /\ s = "unreadable" => jobs[d][i].kind = "text"
       /\ jobs' = [jobs EXCEPT ![d][i].state = s]
  /\ UNCHANGED <<meter, doc, aged, clauses, pinned, edited, batch, pc, call, upsets>>

\* ... and its result expires; the job then reads as one still queued.
ResultExpires(d) ==
  /\ \E i \in Named(d) :
       /\ jobs[d][i].state \in {"completed", "unreadable", "failed"}
       /\ jobs' = [jobs EXCEPT ![d][i].state = "lost"]
  /\ UNCHANGED <<meter, doc, aged, clauses, pinned, edited, batch, pc, call, upsets>>

\* What a call that only looks at the row, or claims it, has still to do.
Looking == {"check", "ask", "fail", "text", "park", "clauses", "commit", "refund"}

\* MAX_IN_PROGRESS_MS pass without an update; no call that is on its way to a
\* save takes that long.
Age(d) ==
  /\ d \in InProgress \ aged
  /\ \A p \in Processes : Mine(p) = d => pc[p] \in Looking
  /\ aged' = aged \cup {d}
  /\ UNCHANGED <<meter, doc, clauses, jobs, pinned, edited, batch, pc, call, upsets>>

\* pinExecutedContract commits.
Pin ==
  /\ ~pinned
  /\ pinned' = TRUE
  /\ UNCHANGED <<meter, doc, aged, clauses, jobs, edited, batch, pc, call, upsets>>

\* A reservation outlives its TTL and the sweeper releases it.
Sweep(k) ==
  /\ Meter!End(k, "released")
  /\ swept' = swept \cup {k}
  /\ UNCHANGED <<doc, aged, clauses, jobs, pinned, edited, batch, pc, call, upsets>>

-----------------------------------------------------------------------------
Init ==
  /\ entry = [k \in {} |-> k]
  /\ quota = Capacity
  /\ swept = {} /\ aged = {} /\ edited = {} /\ batch = {}
  /\ doc = [d \in Documents |-> None]
  /\ clauses = [d \in Documents |-> 0]
  /\ jobs = [d \in Documents |-> <<>>]
  /\ pinned = FALSE
  /\ pc = [p \in Processes |-> "idle"]
  /\ call = [p \in Processes |-> NoCall]
  /\ upsets = 0

Step(p) ==
  \/ Select(p) \/ Write(p)
  \/ Insert(p) \/ ReleaseInFlight(p) \/ Dispatch(p) \/ DispatchFails(p)
  \/ Check(p) \/ FailDocument(p) \/ Ask(p) \/ ClaimText(p) \/ ClaimClauses(p)
  \/ Commit(p) \/ Refund(p)
  \/ ReleasePrior(p) \/ Reserve(p) \/ Denied(p) \/ Cleanup(p)

Next ==
  \/ \E p \in Processes : Step(p) \/ Throw(p) \/ Die(p)
  \/ \E p \in Callers, d \in Documents :
       \/ \E k \in Keys : Upload(p, d, k)
       \/ Poll(p, d) \/ EditText(p, d) \/ Reprocess(p, d)
  \/ Tick \/ Visit
  \/ \E d \in Documents : JobEnds(d) \/ ResultExpires(d) \/ Age(d)
  \/ Pin
  \/ \E k \in Keys : Sweep(k)

\* A call runs to its end or dies, the driver ticks, and time passes: a row is
\* not young for ever, though polls keep loading it, and a result does not stay
\* for ever.  Nothing is assumed of the AI jobs and of the browsers.
Fairness ==
  /\ \A p \in Processes : WF_vars(Step(p))
  /\ WF_vars(Tick) /\ WF_vars(Visit)
  /\ \A d \in Documents : SF_vars(Age(d)) /\ WF_vars(ResultExpires(d))

Spec == Init /\ [][Next]_vars
FairSpec == Spec /\ Fairness
-----------------------------------------------------------------------------
(* Properties.                                                             *)

Labels ==
  {"idle", "select", "write", "insert", "inflight", "dispatchText",
   "dispatchClauses", "check", "fail", "ask", "text", "park", "clauses",
   "commit", "refund", "prior", "reserve", "cleanup"}

\* Types of the rows, the jobs and the calls; an entity names a job that was
\* dispatched.
TypeOK ==
  /\ DOMAIN entry \subseteq Keys
  /\ entry \in [DOMAIN entry ->
                  [window : {Window}, amount : {1},
                   status : {"reserved", "committed", "released"}]]
  /\ quota \in Nat
  /\ swept \subseteq DOMAIN entry
  /\ doc \in [Documents -> DocumentRow \cup {None}]
  /\ aged \subseteq Documents /\ batch \subseteq Documents
  /\ clauses \in [Documents -> Nat]
  /\ \A d \in Documents : \A i \in DOMAIN jobs[d] :
       jobs[d][i] \in [kind : {"text", "clauses"},
                      state : {"queued", "completed", "unreadable", "failed", "lost"}]
  /\ pinned \in BOOLEAN
  /\ edited \subseteq Documents
  /\ pc \in [Processes -> Labels]
  /\ \A p \in Processes :
       /\ Mine(p) \in Documents \cup {None}
       /\ Entity(p) \in DocumentRow
       /\ Mine(p) # None => Entity(p).job <= Len(jobs[Mine(p)])
       /\ call[p].old \in BOOLEAN
       /\ call[p].columns \subseteq DOMAIN NewRow
       /\ call[p].next \in Labels \cup {"started", "edited"}
       /\ call[p].key \in Keys \cup {None}
  /\ upsets \in 0 .. MaxUpsets

\* However many browsers and drivers see a clause job end, its clauses are
\* stored once (advanceDocumentState, the claim in one transaction with
\* writeClausesInTx).  A document edited or reprocessed meanwhile is out of
\* this promise.
ClausesWrittenOnce ==
  \A d \in Documents : d \notin edited => clauses[d] <= 1

ClauseJobs(d) == {i \in DOMAIN jobs[d] : jobs[d][i].kind = "clauses"}

\* However many see the text job end, and wherever one dies, at most one clause
\* job is dispatched (the claim EXTRACTING_TEXT -> TEXT_EXTRACTED).
OneClauseJob ==
  \A d \in Documents : d \notin edited => Cardinality(ClauseJobs(d)) <= 1

\* The document that carries, or whose call still holds, a reservation.
RunOf(k, d) == doc[d] # None /\ doc[d].reservation = k

\* A committed upload has delivered: its document is at CLAUSES_EXTRACTED with
\* its clauses stored, although other calls hold older copies of the row
\* (commitReservationOnSuccess).
ChargedUploadsDelivered ==
  \A k \in DOMAIN entry, d \in Documents :
    entry[k].status = "committed" /\ RunOf(k, d) /\ d \notin edited =>
      clauses[d] = 1 /\ doc[d].status = "CLAUSES_EXTRACTED"

\* Capacity goes back before the TTL only for an upload that has stored no
\* clauses and never will (releaseReservationOnFailure); the signing of the
\* contract and the staleness backstop keep to it.
RefundedUploadsDeliverNothing ==
  \A k \in DOMAIN entry, d \in Documents :
    /\ entry[k].status = "released" /\ k \notin swept
    /\ RunOf(k, d) /\ d \notin edited
    => clauses[d] = 0

\* Until the contract is signed a finished document stays finished, whatever
\* stale copies other calls hold and save.
TerminalIsFinal ==
  [][\A d \in Documents :
       doc[d] # None /\ doc[d].status \in Terminal /\ d \notin edited /\ ~pinned =>
         doc'[d].status = doc[d].status]_vars

\* A call that will insert the row which carries k, or settle k.
OnItsWay(p, k) ==
  \/ pc[p] \in {"insert", "inflight"} /\ call[p].key = k
  \/ pc[p] \in {"commit", "refund"} /\ Entity(p).reservation = k

\* No capacity is forgotten: while no call dies, throws or edits, what is
\* reserved belongs to a document still on its way, or to a call that will
\* settle it.  However calls overtake one another and whenever the contract is
\* signed, the one that ends a document is the one that settles
\* (commitReservationOnSuccess and releaseReservationOnFailure, which only the
\* winner of a claim and the saver of a failed row reach).
ReservationsHaveOwners ==
  upsets = 0 =>
    \A k \in DOMAIN entry : entry[k].status = "reserved" =>
      \/ \E d \in InProgress : RunOf(k, d)
      \/ \E p \in Processes : OnItsWay(p, k)

\* What the comment at the pin check says: neither the driver nor a poll ever
\* writes clauses into a signed contract; the result of a job that outlived the
\* signature is discarded.  It is false of this model and of the code: a poll
\* that looked at the pin before the signature claims the result after it.
PinnedGetsNoClauses ==
  [][pinned => \A d \in Documents : clauses'[d] <= clauses[d]]_vars

\* The statements of a call that has asked whether the contract is signed and
\* has clauses to write or to delete.
PastThePin == {"ask", "clauses", "prior", "reserve", "cleanup"}

Settled == pinned /\ \A p \in Processes : pc[p] \notin PastThePin

\* What the code does keep: as soon as the calls that were past that check at
\* the signature have ended, the clauses of a signed contract stay, however
\* many jobs end afterwards and whoever polls them.
SignedClausesStay == [][Settled => Settled' /\ clauses' = clauses]_vars

\* "NOTHING is left forever-stuck": every document ends for good, with no
\* browser open, though AI jobs never answer, calls die and results expire
\* before anybody asks (handleAdvance, failStaleDoc).
NothingIsStuck ==
  \A d \in Documents :
    <>[](doc[d] # None => doc[d].status \in Terminal)
=============================================================================
