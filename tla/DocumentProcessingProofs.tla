---------------------- MODULE DocumentProcessingProofs ----------------------
(***************************************************************************)
(* Theorems about DocumentProcessing, for any number of requests,          *)
(* documents, runs, AI jobs, edits, errors and deaths.                     *)
(***************************************************************************)
EXTENDS DocumentProcessing, FiniteSetTheorems, TLAPS

-----------------------------------------------------------------------------
(* The inductive invariant.  A document is promised something until it is  *)
(* edited or reprocessed.                                                  *)

JobRecord == [kind : {"text", "clauses"},
              state : {"queued", "completed", "unreadable", "failed", "lost"}]

EntryRow == [window : {Window}, amount : {1},
             status : {"reserved", "committed", "released"}]

CallRow ==
  [doc : Documents \cup {None}, entity : DocumentRow, old : BOOLEAN,
   columns : SUBSET DOMAIN NewRow, next : Labels \cup {"started", "edited"},
   key : Keys \cup {None}]

MeterTyped ==
  /\ DOMAIN entry \subseteq Keys
  /\ entry \in [DOMAIN entry -> EntryRow]
  /\ quota \in Nat
  /\ swept \subseteq DOMAIN entry
  /\ \A k \in swept : entry[k].status = "released"

RowsTyped ==
  /\ doc \in [Documents -> DocumentRow \cup {None}]
  /\ aged \subseteq Documents
  /\ clauses \in [Documents -> Nat]
  /\ jobs \in [Documents -> Seq(JobRecord)]
  /\ \A d \in Documents : doc[d] # None => doc[d].job <= Len(jobs[d])

CallsTyped ==
  /\ pc \in [Processes -> Labels]
  /\ call \in [Processes -> CallRow]

RestTyped ==
  /\ pinned \in BOOLEAN
  /\ edited \subseteq Documents
  /\ \A d \in edited : doc[d] # None
  /\ batch \subseteq Documents
  /\ \A d \in batch : doc[d] # None
  /\ upsets \in 0 .. MaxUpsets

\* The document of a call, and the job its entity names.
CallShape(p) ==
  /\ pc[p] = "idle" => call[p] = NoCall
  /\ pc[p] # "idle" => Mine(p) \in Documents /\ Entity(p).job <= Len(jobs[Mine(p)])
  /\ pc[p] \notin {"idle", "insert", "inflight"} => doc[Mine(p)] # None
  /\ pc[p] = "ask" => Entity(p).job # 0
  /\ pc[p] \in {"prior", "reserve", "cleanup"} => Mine(p) \in edited
  /\ pc[p] \in {"select", "write"} =>
       /\ call[p].next \in {"started", "edited", "dispatchText", "dispatchClauses", "refund"}
       /\ call[p].next \in {"edited", "dispatchText"} => Mine(p) \in edited

\* A reservation belongs to one document, by its row or by a call.
HeldByCall(k, p) == Entity(p).reservation = k \/ call[p].key = k

Holds(k, d) ==
  \/ doc[d] # None /\ doc[d].reservation = k
  \/ \E p \in Processes : Mine(p) = d /\ HeldByCall(k, p)

KeysApart ==
  \A k \in Keys, d \in Documents : Holds(k, d) =>
    /\ k \in DOMAIN entry
    /\ \A e \in Documents : Holds(k, e) => d = e

\* Until its row is inserted a document is known to its upload alone.
AbsentOk(d) ==
  doc[d] = None =>
    /\ jobs[d] = <<>> /\ clauses[d] = 0 /\ d \notin aged
    /\ \A p, q \in Processes : Mine(p) = d /\ Mine(q) = d => p = q
    /\ \A p \in Processes : Mine(p) = d /\ pc[p] = "insert" =>
         /\ Entity(p) = [NewRow EXCEPT !.reservation = call[p].key]
         /\ call[p].key \in DOMAIN entry
         /\ entry[call[p].key].status = "reserved" \/ call[p].key \in swept

\* An owner has sole charge of the row: the upload until its first job is
\* saved, and the winner of the text claim until the second one is, or the
\* document is parked.
Uploader(p) ==
  \/ pc[p] = "dispatchText"
  \/ Saving(p, "started") /\ Entity(p).status = "EXTRACTING_TEXT"

Winner(p) ==
  \/ pc[p] = "dispatchClauses"
  \/ Saving(p, "dispatchClauses")
  \/ Saving(p, "started") /\ Entity(p).status = "EXTRACTING_CLAUSES"
  \/ Saving(p, "refund") /\ Entity(p).status = "HUMAN_REVIEW_RECOMMENDED"

NoUploader(d) == \A p \in Processes : Mine(p) = d => ~Uploader(p)
NoOwner(d) == \A p \in Processes : Mine(p) = d => ~Uploader(p) /\ ~Winner(p)

\* The i-th job of d has ended, and not in failure; it has failed, or expired.
Ended(d, i) == Len(jobs[d]) >= i /\ jobs[d][i].state \in {"completed", "unreadable", "lost"}
Broken(d, i) == Len(jobs[d]) >= i /\ jobs[d][i].state \in {"failed", "lost"}

\* The row and the jobs of d.
RowOk(d) ==
  /\ Len(jobs[d]) <= 2
  /\ Len(jobs[d]) >= 1 => jobs[d][1].kind = "text"
  /\ Len(jobs[d]) = 2 => jobs[d][2].kind = "clauses"
  /\ doc[d].status = "UPLOADED" => doc[d].job = 0
  /\ doc[d].status = "EXTRACTING_TEXT" => doc[d].job = 1 /\ Len(jobs[d]) = 1
  /\ doc[d].status = "TEXT_EXTRACTED" => doc[d].job <= 1
  /\ doc[d].status = "EXTRACTING_CLAUSES" => doc[d].job = 2
  /\ doc[d].status \in {"TEXT_EXTRACTED", "EXTRACTING_CLAUSES", "CLAUSES_EXTRACTED",
                        "HUMAN_REVIEW_RECOMMENDED"} => Ended(d, 1)
  /\ doc[d].status = "CLAUSES_EXTRACTED" => Ended(d, 2)
  /\ clauses[d] = IF doc[d].status = "CLAUSES_EXTRACTED" THEN 1 ELSE 0
  /\ d \in aged /\ doc[d].status \in {"UPLOADED", "TEXT_EXTRACTED"} => NoOwner(d)

\* No clauses of d will ever be stored: nobody moves it on ...
Stalled(d) ==
  /\ NoOwner(d)
  /\ doc[d].status \in {"UPLOADED", "TEXT_EXTRACTED", "FAILED", "HUMAN_REVIEW_RECOMMENDED"}

\* ... or the job that is awaited has failed ...
JobFailed(d) ==
  /\ NoOwner(d)
  /\ \/ /\ doc[d].status = "EXTRACTING_TEXT" /\ Broken(d, 1)
        /\ \A p \in Processes : Mine(p) = d => pc[p] \notin {"text", "park"}
     \/ /\ doc[d].status = "EXTRACTING_CLAUSES" /\ Broken(d, 2)
        /\ \A p \in Processes : Mine(p) = d => pc[p] # "clauses"

\* ... or the contract was signed before anybody could claim its result.
Overtaken(d) ==
  /\ pinned /\ doc[d].status # "CLAUSES_EXTRACTED"
  /\ \A p \in Processes : Mine(p) = d =>
       /\ pc[p] \in {"ask", "clauses"} => Entity(p).status # "EXTRACTING_CLAUSES"
       /\ doc[d].status = "EXTRACTING_TEXT" /\ pc[p] \in {"ask", "text", "park"} =>
            Entity(p).status # "EXTRACTING_TEXT"

Over(d) == Stalled(d) \/ JobFailed(d) \/ Overtaken(d)

\* What a call that goes by a row it has loaded knows.
Looks(p) == pc[p] \in {"check", "ask", "fail", "text", "park", "clauses"}

Untended(d, status) ==
  /\ status \in {"UPLOADED", "TEXT_EXTRACTED"} => NoOwner(d)
  /\ status = "UPLOADED" => doc[d].status \in {"UPLOADED", "FAILED"}

Knows(d, e) ==
  /\ e.status \notin Terminal
  /\ e.status = "UPLOADED" => e.job = 0
  /\ e.status = "EXTRACTING_TEXT" =>
       e.job = 1 /\ doc[d].status # "UPLOADED" /\ NoUploader(d)
  /\ e.status = "TEXT_EXTRACTED" =>
       /\ e.job <= 1 /\ Ended(d, 1) /\ NoUploader(d)
       /\ doc[d].status \notin {"UPLOADED", "EXTRACTING_TEXT"}
  /\ e.status = "EXTRACTING_CLAUSES" =>
       /\ e.job = 2 /\ Ended(d, 1) /\ NoOwner(d)
       /\ doc[d].status \in {"EXTRACTING_CLAUSES", "CLAUSES_EXTRACTED", "FAILED"}

LookOk(p, d) ==
  Looks(p) =>
    /\ Knows(d, Entity(p))
    /\ pc[p] \in {"text", "park"} => Entity(p).status = "EXTRACTING_TEXT" /\ Ended(d, 1)
    /\ pc[p] = "clauses" => Entity(p).status = "EXTRACTING_CLAUSES" /\ Ended(d, 2)
    /\ pc[p] \in {"check", "ask"} /\ call[p].old => Untended(d, Entity(p).status)
    /\ pc[p] = "fail" => pinned \/ Untended(d, Entity(p).status)

\* What an owner has done so far, and what others may have.
OwnerOk(p, d) ==
  Uploader(p) \/ Winner(p) =>
    /\ \A q \in Processes : Mine(q) = d /\ q # p =>
         ~Uploader(q) /\ ~Winner(q) /\ pc[q] \notin {"select", "write"}
    /\ doc[d].status = "FAILED" => pinned
    /\ Uploader(p) => doc[d].status \in {"UPLOADED", "FAILED"}
    /\ Winner(p) => doc[d].status \in {"TEXT_EXTRACTED", "FAILED"} /\ Ended(d, 1)
    /\ pc[p] = "dispatchText" =>
         Entity(p).status = "UPLOADED" /\ Entity(p).job = 0 /\ jobs[d] = <<>>
    /\ pc[p] = "dispatchClauses" \/ Saving(p, "dispatchClauses") =>
         Entity(p).status = "TEXT_EXTRACTED" /\ Entity(p).job = 0 /\ Len(jobs[d]) = 1
    /\ Saving(p, "started") =>
         /\ Entity(p).job = Len(jobs[d]) /\ doc[d].job < Entity(p).job
         /\ Entity(p).job = IF Uploader(p) THEN 1 ELSE 2
         /\ pc[p] = "write" => {"status", "job"} \subseteq call[p].columns
    /\ Saving(p, "refund") => Len(jobs[d]) = 1
         /\ (pc[p] = "write" => "status" \in call[p].columns)

\* A save of FAILED, and what comes after a save or a claim.
EndingOk(p, d) ==
  /\ Saving(p, "refund") /\ Entity(p).status = "FAILED" =>
       /\ Over(d) /\ doc[d].status # "HUMAN_REVIEW_RECOMMENDED"
       /\ pc[p] = "write" => "status" \in call[p].columns \/ doc[d].status = "FAILED"
  /\ pc[p] = "refund" => Over(d)
  /\ pc[p] = "commit" => doc[d].status = "CLAUSES_EXTRACTED"

CallOk(p, d) ==
  /\ Entity(p).reservation = doc[d].reservation
  /\ pc[p] \notin {"insert", "inflight"}
  /\ Saving(p, "started") => Uploader(p) \/ Winner(p)
  /\ Saving(p, "refund") => Winner(p) \/ Entity(p).status = "FAILED"
  /\ LookOk(p, d) /\ OwnerOk(p, d) /\ EndingOk(p, d)

\* A charged upload has delivered, and one whose capacity went back never will.
ReservationOk(d) ==
  doc[d].reservation \in DOMAIN entry =>
    /\ entry[doc[d].reservation].status = "committed" =>
         doc[d].status = "CLAUSES_EXTRACTED"
    /\ /\ entry[doc[d].reservation].status = "released"
       /\ doc[d].reservation \notin swept
       => Over(d)

\* What is promised of a document.
DocumentOk(d) ==
  doc[d] # None /\ d \notin edited =>
    /\ RowOk(d) /\ ReservationOk(d)
    /\ \A p \in Processes : Mine(p) = d => CallOk(p, d)

Types == MeterTyped /\ RowsTyped /\ CallsTyped /\ RestTyped

Shapes == \A p \in Processes : CallShape(p)

Absents == \A d \in Documents : AbsentOk(d)

Promises == \A d \in Documents : DocumentOk(d)

IInv == Types /\ Shapes /\ KeysApart /\ Absents /\ Promises

-----------------------------------------------------------------------------
(* Types.                                                                  *)

LEMMA TypesSuffice == Types /\ Shapes => TypeOK
<1> SUFFICES ASSUME Types, Shapes PROVE TypeOK
  OBVIOUS
<1>1. /\ DOMAIN entry \subseteq Keys /\ quota \in Nat /\ swept \subseteq DOMAIN entry
      /\ entry \in [DOMAIN entry -> [window : {Window}, amount : {1},
                                     status : {"reserved", "committed", "released"}]]
  BY DEF Types, MeterTyped, EntryRow
<1>2. /\ doc \in [Documents -> DocumentRow \cup {None}]
      /\ aged \subseteq Documents /\ clauses \in [Documents -> Nat]
  BY DEF Types, RowsTyped
<1>3. ASSUME NEW d \in Documents, NEW i \in DOMAIN jobs[d]
      PROVE  jobs[d][i] \in [kind : {"text", "clauses"},
                state : {"queued", "completed", "unreadable", "failed", "lost"}]
  <2>1. jobs[d] \in Seq(JobRecord)
    BY DEF Types, RowsTyped
  <2>2. jobs[d][i] \in JobRecord
    BY <2>1
  <2> QED
    BY <2>2 DEF JobRecord
<1>4. ASSUME NEW p \in Processes
      PROVE  /\ Mine(p) \in Documents \cup {None} /\ Entity(p) \in DocumentRow
             /\ call[p].old \in BOOLEAN /\ call[p].columns \subseteq DOMAIN NewRow
             /\ call[p].next \in Labels \cup {"started", "edited"}
             /\ call[p].key \in Keys \cup {None}
  BY DEF Types, CallsTyped, CallRow, Mine, Entity
<1>5. ASSUME NEW p \in Processes, Mine(p) # None
      PROVE  Entity(p).job <= Len(jobs[Mine(p)])
  <2>1. NoCall.doc = None
    BY DEF NoCall
  <2>2. pc[p] # "idle"
    BY <1>5, <2>1 DEF Shapes, CallShape, Mine
  <2> QED
    BY <2>2 DEF Shapes, CallShape
<1>6. /\ pinned \in BOOLEAN /\ edited \subseteq Documents /\ batch \subseteq Documents
      /\ upsets \in 0 .. MaxUpsets /\ pc \in [Processes -> Labels]
  BY DEF Types, RestTyped, CallsTyped
<1> QED
  BY <1>1, <1>2, <1>3, <1>4, <1>5, <1>6 DEF TypeOK

LEMMA NewRowType ==
  /\ NewRow \in DocumentRow /\ NewRow.status = "UPLOADED" /\ NewRow.job = 0
  /\ NewRow.reservation = None /\ DOMAIN NewRow = {"status", "job", "reservation"}
BY DEF NewRow, DocumentRow

LEMMA NoCallType ==
  /\ NoCall \in CallRow /\ NoCall.doc = None /\ NoCall.entity = NewRow
  /\ NoCall.key = None /\ NoCall.next = "idle"
BY NewRowType DEF NoCall, CallRow, Labels

\* The row a save leaves behind.
Merged(row, e, cols) == [f \in DOMAIN NewRow |-> IF f \in cols THEN e[f] ELSE row[f]]

LEMMA MergedRow ==
  ASSUME NEW row \in DocumentRow, NEW e \in DocumentRow, NEW cols
  PROVE  /\ Merged(row, e, cols) \in DocumentRow
         /\ Merged(row, e, cols).status = IF "status" \in cols THEN e.status ELSE row.status
         /\ Merged(row, e, cols).job = IF "job" \in cols THEN e.job ELSE row.job
         /\ Merged(row, e, cols).reservation
              = IF "reservation" \in cols THEN e.reservation ELSE row.reservation
BY DEF Merged, NewRow, DocumentRow

\* An entity whose status or job is set.
Statuses == Terminal \cup {"UPLOADED", "EXTRACTING_TEXT", "TEXT_EXTRACTED",
                           "EXTRACTING_CLAUSES"}

LEMMA SetRow ==
  ASSUME NEW e \in DocumentRow, NEW s \in Statuses, NEW n \in Nat
  PROVE  /\ [e EXCEPT !.status = s] \in DocumentRow
         /\ [e EXCEPT !.status = s].status = s
         /\ [e EXCEPT !.status = s].job = e.job
         /\ [e EXCEPT !.status = s].reservation = e.reservation
         /\ [e EXCEPT !.status = s, !.job = n] \in DocumentRow
         /\ [e EXCEPT !.status = s, !.job = n].status = s
         /\ [e EXCEPT !.status = s, !.job = n].job = n
         /\ [e EXCEPT !.status = s, !.job = n].reservation = e.reservation
BY DEF DocumentRow, Statuses, Terminal

LEMMA FailedRow ==
  ASSUME NEW e \in DocumentRow
  PROVE  /\ Failed(e) \in DocumentRow /\ Failed(e).status = "FAILED"
         /\ Failed(e).job = 0 /\ Failed(e).reservation = e.reservation
BY DEF Failed, DocumentRow, Terminal

\* A settlement writes at most the status of one row, and only from reserved.
LEMMA SettleRow ==
  ASSUME MeterTyped, NEW k, NEW s \in {"committed", "released"}, Settle(k, s)
  PROVE  /\ MeterTyped' /\ DOMAIN entry' = DOMAIN entry /\ swept' = swept
         /\ \A j \in DOMAIN entry : j # k => entry'[j] = entry[j]
         /\ k \in DOMAIN entry =>
              entry'[k] = entry[k] \/ (entry'[k].status = s /\ entry[k].status = "reserved")
<1>1. CASE Meter!End(k, s) /\ UNCHANGED swept
  <2>1. /\ k \in DOMAIN entry /\ entry[k] \in EntryRow /\ entry[k].status = "reserved"
        /\ entry' = [entry EXCEPT ![k].status = s] /\ quota' = quota
    BY <1>1 DEF Meter!End, MeterTyped
  <2> DEFINE row == [entry[k] EXCEPT !.status = s]
  <2>2. row \in EntryRow /\ row.status = s
    BY <2>1 DEF EntryRow
  <2>3. entry' = [entry EXCEPT ![k] = row]
    BY <2>1
  <2> HIDE DEF row
  <2>4. /\ DOMAIN entry' = DOMAIN entry /\ entry'[k] = row
        /\ \A j \in DOMAIN entry : j # k => entry'[j] = entry[j]
        /\ entry' \in [DOMAIN entry -> EntryRow]
    BY <2>1, <2>2, <2>3 DEF MeterTyped
  <2>5. MeterTyped'
    BY <1>1, <2>1, <2>4 DEF MeterTyped
  <2> QED
    BY <1>1, <2>1, <2>2, <2>4, <2>5
<1>2. CASE UNCHANGED <<entry, quota, swept>>
  BY <1>2 DEF MeterTyped
<1> QED
  BY <1>1, <1>2 DEF Settle

\* A grant adds a reserved row under a new key.
LEMMA GrantRow ==
  ASSUME MeterTyped, NEW k \in Keys, Meter!Grant(k, Window, 1), UNCHANGED swept
  PROVE  /\ k \notin DOMAIN entry /\ MeterTyped'
         /\ DOMAIN entry' = DOMAIN entry \cup {k}
         /\ entry'[k].status = "reserved"
         /\ \A j \in DOMAIN entry : entry'[j] = entry[j]
<1> DEFINE row == [window |-> Window, amount |-> 1, status |-> "reserved"]
<1>1. row \in EntryRow /\ row.status = "reserved"
  BY DEF EntryRow
<1>2. /\ k \notin DOMAIN entry /\ quota' = quota
      /\ entry' = [j \in DOMAIN entry \cup {k} |-> IF j = k THEN row ELSE entry[j]]
  BY DEF Meter!Grant, Meter!WithRow
<1> HIDE DEF row
<1>3. entry \in [DOMAIN entry -> EntryRow]
  BY DEF MeterTyped
<1>4. DOMAIN entry' = DOMAIN entry \cup {k} /\ entry'[k] = row
  BY <1>2
<1>5. \A j \in DOMAIN entry : entry'[j] = entry[j]
  BY <1>2
<1>6. entry' \in [DOMAIN entry \cup {k} -> EntryRow]
  BY <1>1, <1>2, <1>3
<1>7. MeterTyped'
  BY <1>2, <1>4, <1>5, <1>6 DEF MeterTyped
<1> QED
  BY <1>1, <1>2, <1>4, <1>5, <1>7

-----------------------------------------------------------------------------
(* What a step of one process leaves of the others.                        *)

OthersStay(p) == \A q \in Processes \ {p} : pc'[q] = pc[q] /\ call'[q] = call[q]

Arrives(p, l, c) == pc'[p] = l /\ call'[p] = c

LEMMA CallMoves ==
  ASSUME CallsTyped, NEW p \in Processes, NEW l \in Labels, NEW c \in CallRow,
         Goto(p, l), call' = [call EXCEPT ![p] = c]
  PROVE  CallsTyped' /\ OthersStay(p) /\ Arrives(p, l, c)
BY DEF CallsTyped, Goto, OthersStay, Arrives

LEMMA GotoMoves ==
  ASSUME CallsTyped, NEW p \in Processes, NEW l \in Labels, Goto(p, l), UNCHANGED call
  PROVE  CallsTyped' /\ OthersStay(p) /\ Arrives(p, l, call[p])
BY DEF CallsTyped, Goto, OthersStay, Arrives

LEMMA ReturnMoves ==
  ASSUME CallsTyped, NEW p \in Processes, Return(p)
  PROVE  CallsTyped' /\ OthersStay(p) /\ Arrives(p, "idle", NoCall)
<1>1. NoCall \in CallRow /\ "idle" \in Labels
  BY NoCallType DEF Labels
<1>2. Goto(p, "idle") /\ call' = [call EXCEPT ![p] = NoCall]
  BY DEF Return
<1> HIDE DEF NoCall
<1> QED
  BY <1>1, <1>2, CallMoves

\* A call whose entity is to be saved, in parts.
Resaved(c, e, n) == [c EXCEPT !.entity = e, !.next = n, !.old = FALSE]

LEMMA ResavedCall ==
  ASSUME NEW c \in CallRow, NEW e \in DocumentRow, NEW n \in Labels \cup {"started", "edited"}
  PROVE  /\ Resaved(c, e, n) \in CallRow /\ Resaved(c, e, n).doc = c.doc
         /\ Resaved(c, e, n).entity = e /\ Resaved(c, e, n).next = n
         /\ Resaved(c, e, n).key = c.key
BY DEF Resaved, CallRow

LEMMA SaveMoves ==
  ASSUME CallsTyped, NEW p \in Processes, NEW e \in DocumentRow,
         NEW n \in Labels \cup {"started", "edited"}, Save(p, e, n)
  PROVE  CallsTyped' /\ OthersStay(p) /\ Arrives(p, "select", Resaved(call[p], e, n))
<1>1. call[p] \in CallRow
  BY DEF CallsTyped
<1>2. Resaved(call[p], e, n) \in CallRow
  BY <1>1, ResavedCall
<1>3. Goto(p, "select") /\ call' = [call EXCEPT ![p] = Resaved(call[p], e, n)]
  BY Zenon DEF Save, Resaved
<1>4. "select" \in Labels
  BY DEF Labels
<1> QED
  BY <1>2, <1>3, <1>4, CallMoves

\* The other edits of a call.
LEMMA ColumnsCall ==
  ASSUME NEW c \in CallRow, NEW cols \in SUBSET DOMAIN NewRow
  PROVE  /\ [c EXCEPT !.columns = cols] \in CallRow
         /\ [c EXCEPT !.columns = cols].columns = cols
         /\ [c EXCEPT !.columns = cols].doc = c.doc
         /\ [c EXCEPT !.columns = cols].entity = c.entity
         /\ [c EXCEPT !.columns = cols].next = c.next
         /\ [c EXCEPT !.columns = cols].key = c.key
BY DEF CallRow

LEMMA YoungCall ==
  ASSUME NEW c \in CallRow
  PROVE  /\ [c EXCEPT !.old = FALSE] \in CallRow
         /\ [c EXCEPT !.old = FALSE].old = FALSE
         /\ [c EXCEPT !.old = FALSE].doc = c.doc
         /\ [c EXCEPT !.old = FALSE].entity = c.entity
         /\ [c EXCEPT !.old = FALSE].next = c.next
         /\ [c EXCEPT !.old = FALSE].key = c.key
BY DEF CallRow

LEMMA EntityCall ==
  ASSUME NEW c \in CallRow, NEW e \in DocumentRow
  PROVE  /\ [c EXCEPT !.entity = e] \in CallRow
         /\ [c EXCEPT !.entity = e].doc = c.doc
         /\ [c EXCEPT !.entity = e].entity = e
         /\ [c EXCEPT !.entity = e].key = c.key
BY DEF CallRow

LEMMA KeyCall ==
  ASSUME NEW c \in CallRow, NEW k \in Keys
  PROVE  /\ [c EXCEPT !.key = k] \in CallRow
         /\ [c EXCEPT !.key = k].doc = c.doc
         /\ [c EXCEPT !.key = k].entity = c.entity
         /\ [c EXCEPT !.key = k].key = k
BY DEF CallRow

LEMMA OnwardMoves ==
  ASSUME CallsTyped, NEW p \in Processes, NEW l \in Labels, Onward(p, l)
  PROVE  CallsTyped' /\ OthersStay(p) /\ Arrives(p, l, [call[p] EXCEPT !.old = FALSE])
<1>1. call[p] \in CallRow
  BY DEF CallsTyped
<1>2. [call[p] EXCEPT !.old = FALSE] \in CallRow
  BY <1>1, YoungCall
<1>3. Goto(p, l) /\ call' = [call EXCEPT ![p] = [call[p] EXCEPT !.old = FALSE]]
  BY Zenon DEF Onward
<1> QED
  BY <1>2, <1>3, CallMoves

-----------------------------------------------------------------------------
(* What a step does to a document whose promises hold: the process p acts, *)
(* or nobody if p is no process.                                           *)

On(p, d) == p \in Processes /\ Mine(p) = d

Owner(p) == Uploader(p) \/ Winner(p)

\* p claims the text of d.
Claims(p, d) ==
  On(p, d) /\ pc[p] \in {"text", "park"} /\ doc[d].status = "EXTRACTING_TEXT"

\* The status of d changes by a claim or by the save of an owner, or to FAILED.
Edge(p, d) ==
  \/ doc'[d].status = doc[d].status
  \/ /\ doc'[d].status = "FAILED"
     /\ doc[d].status \notin {"CLAUSES_EXTRACTED", "HUMAN_REVIEW_RECOMMENDED"}
     /\ pinned \/ NoOwner(d) \/ (On(p, d) /\ pc[p] = "write")
  \/ Claims(p, d) /\ doc'[d].status = "TEXT_EXTRACTED"
  \/ /\ On(p, d) /\ pc[p] = "clauses"
     /\ doc[d].status = "EXTRACTING_CLAUSES" /\ doc'[d].status = "CLAUSES_EXTRACTED"
  \/ On(p, d) /\ Uploader(p) /\ pc[p] = "write" /\ doc'[d].status = "EXTRACTING_TEXT"
  \/ /\ On(p, d) /\ Winner(p) /\ pc[p] = "write"
     /\ doc'[d].status \in {"TEXT_EXTRACTED", "EXTRACTING_CLAUSES", "HUMAN_REVIEW_RECOMMENDED"}

\* Where the call of p stands afterwards.
Moves(p, d) ==
  /\ Uploader(p)' => On(p, d) /\ Uploader(p)
  /\ Winner(p)' => On(p, d) /\ (Winner(p) \/ Claims(p, d))
  /\ pc'[p] \in {"select", "write"} =>
       On(p, d) /\ (pc[p] \in {"select", "write"} \/ Owner(p) \/ Claims(p, d) \/ NoOwner(d))
  /\ pc'[p] \in {"text", "park"} =>
       /\ On(p, d) /\ pc[p] = "ask" /\ Entity(p)' = Entity(p)
       /\ Entity(p).status = "EXTRACTING_TEXT" /\ ~Broken(d, 1)
  /\ pc'[p] = "clauses" =>
       /\ On(p, d) /\ pc[p] = "ask" /\ Entity(p)' = Entity(p)
       /\ Entity(p).status = "EXTRACTING_CLAUSES" /\ ~Broken(d, 2)
  /\ pc'[p] = "ask" => On(p, d) /\ pc[p] = "check" /\ ~pinned

\* Jobs are added at the end, and what has become of one stays.
JobsKeep(d) ==
  /\ Len(jobs[d]) <= Len(jobs'[d])
  /\ \A i \in DOMAIN jobs[d] : jobs'[d][i].kind = jobs[d][i].kind
  /\ \A i \in {1, 2} : (Ended(d, i) => Ended(d, i)') /\ (Broken(d, i) => Broken(d, i)')

Guarantee(p, d) ==
  /\ doc'[d] # None /\ doc'[d].reservation = doc[d].reservation
  /\ Edge(p, d)
  /\ doc'[d].job \in {doc[d].job, 0} \/ (On(p, d) /\ pc[p] = "write")
  /\ JobsKeep(d)
  /\ Len(jobs'[d]) = Len(jobs[d]) \/ (On(p, d) /\ Owner(p))
  /\ p \in Processes /\ Mine(p)' = d => Moves(p, d)

\* The promises of d hold and p acts.
Meets(p, d) ==
  /\ d \in Documents /\ doc[d] # None
  /\ RowsTyped /\ RowsTyped'
  /\ RowOk(d) /\ \A q \in Processes : Mine(q) = d => CallOk(q, d)
  /\ OthersStay(p) /\ (pinned => pinned')
  /\ Guarantee(p, d)

LEMMA StayPut ==
  ASSUME NEW p, OthersStay(p), NEW q \in Processes, q # p
  PROVE  /\ pc'[q] = pc[q] /\ call'[q] = call[q]
         /\ Mine(q)' = Mine(q) /\ Entity(q)' = Entity(q)
         /\ Uploader(q)' <=> Uploader(q)
         /\ Winner(q)' <=> Winner(q)
         /\ \A l : Saving(q, l)' <=> Saving(q, l)
<1>1. pc'[q] = pc[q] /\ call'[q] = call[q]
  BY DEF OthersStay
<1> QED
  BY <1>1 DEF Mine, Entity, Uploader, Winner, Saving

\* An owner is new only if it has claimed the text.
LEMMA OwnersStay ==
  ASSUME NEW p, NEW d, Meets(p, d)
  PROVE  /\ NoUploader(d) => NoUploader(d)'
         /\ NoOwner(d) => NoOwner(d)' \/ Claims(p, d)
<1>1. ASSUME NEW q \in Processes, Mine(q)' = d
      PROVE  /\ Uploader(q)' => Mine(q) = d /\ Uploader(q)
             /\ Winner(q)' => Mine(q) = d /\ (Winner(q) \/ Claims(p, d))
  <2>1. CASE q = p
    BY <1>1, <2>1 DEF Meets, Guarantee, Moves, On
  <2>2. CASE q # p
    <3>1. OthersStay(p)
      BY DEF Meets
    <3> QED
      BY <1>1, <2>2, <3>1, StayPut
  <2> QED
    BY <2>1, <2>2
<1>2. NoUploader(d) => NoUploader(d)'
  BY <1>1 DEF NoUploader
<1>3. NoOwner(d) => NoOwner(d)' \/ Claims(p, d)
  BY <1>1 DEF NoOwner
<1> QED
  BY <1>2, <1>3

\* The statuses an owner finds, and who else is at work beside it.
LEMMA OwnerFinds ==
  ASSUME NEW p, NEW d, Meets(p, d), NEW q \in Processes, Mine(q) = d, Owner(q)
  PROVE  /\ \A r \in Processes : Mine(r) = d /\ r # q =>
              ~Owner(r) /\ pc[r] \notin {"select", "write"}
         /\ doc[d].status = "FAILED" => pinned
         /\ Uploader(q) => doc[d].status \in {"UPLOADED", "FAILED"}
         /\ Winner(q) => doc[d].status \in {"TEXT_EXTRACTED", "FAILED"}
         /\ doc[d].status \in {"UPLOADED", "TEXT_EXTRACTED", "FAILED"}
BY DEF Meets, CallOk, OwnerOk, Owner

\* The edges of a document that nobody owns, and of one that another owns.
LEMMA EdgeFacts ==
  ASSUME NEW p, NEW d, Meets(p, d)
  PROVE  /\ doc'[d].status = "UPLOADED" => doc[d].status = "UPLOADED"
         /\ doc'[d].status = "EXTRACTING_TEXT" =>
              doc[d].status = "EXTRACTING_TEXT" \/ ~NoUploader(d)
         /\ doc[d].status = "CLAUSES_EXTRACTED" => doc'[d].status = "CLAUSES_EXTRACTED"
         /\ NoOwner(d) =>
              \/ doc'[d].status = doc[d].status
              \/ /\ doc'[d].status = "FAILED"
                 /\ doc[d].status \notin {"CLAUSES_EXTRACTED", "HUMAN_REVIEW_RECOMMENDED"}
              \/ Claims(p, d) /\ doc'[d].status = "TEXT_EXTRACTED"
              \/ /\ On(p, d) /\ pc[p] = "clauses"
                 /\ doc[d].status = "EXTRACTING_CLAUSES"
                 /\ doc'[d].status = "CLAUSES_EXTRACTED"
<1>1. Edge(p, d)
  BY DEF Meets, Guarantee
<1>2. ASSUME On(p, d), Owner(p)
      PROVE  doc[d].status \in {"UPLOADED", "TEXT_EXTRACTED", "FAILED"}
  BY <1>2, OwnerFinds DEF On
<1>3. ASSUME On(p, d), NoOwner(d) PROVE ~Owner(p)
  BY <1>3 DEF NoOwner, On, Owner
<1>4. ASSUME On(p, d), NoUploader(d) PROVE ~Uploader(p)
  BY <1>4 DEF NoUploader, On
<1> QED
  BY <1>1, <1>2, <1>3, <1>4 DEF Edge, Claims, Owner

LEMMA OwnedEdge ==
  ASSUME NEW p, NEW d, Meets(p, d), NEW q \in Processes, q # p, Mine(q) = d, Owner(q)
  PROVE  /\ doc'[d].status = doc[d].status \/ (doc'[d].status = "FAILED" /\ pinned)
         /\ Len(jobs'[d]) = Len(jobs[d])
         /\ doc'[d].job \in {doc[d].job, 0}
<1>1. Edge(p, d)
  BY DEF Meets, Guarantee
<1>2. On(p, d) => ~Owner(p) /\ pc[p] \notin {"select", "write"}
  BY OwnerFinds DEF On
<1>3. ~NoOwner(d)
  BY DEF NoOwner, Owner
<1>4. doc[d].status \in {"UPLOADED", "TEXT_EXTRACTED", "FAILED"}
  BY OwnerFinds
<1> QED
  BY <1>1, <1>2, <1>3, <1>4 DEF Edge, Claims, Owner, Meets, Guarantee

LEMMA SavedEdge ==
  ASSUME NEW p, NEW d, Meets(p, d), NEW q \in Processes, q # p, Mine(q) = d,
         pc[q] \in {"select", "write"}
  PROVE  /\ doc'[d].status = "HUMAN_REVIEW_RECOMMENDED" =>
              doc[d].status = "HUMAN_REVIEW_RECOMMENDED"
         /\ doc[d].status = "FAILED" => doc'[d].status = "FAILED"
<1>1. Edge(p, d)
  BY DEF Meets, Guarantee
<1>2. On(p, d) => ~Owner(p)
  BY OwnerFinds DEF On
<1> QED
  BY <1>1, <1>2 DEF Edge, Claims, Owner

\* A document that will store no clauses will not store any later.
LEMMA OverStays ==
  ASSUME NEW p, NEW d, Meets(p, d), Over(d)
  PROVE  Over(d)'
<1>0. p \in Processes /\ Mine(p)' = d => Moves(p, d)
  BY DEF Meets, Guarantee
<1>1. ASSUME NEW q \in Processes, q # p, Mine(q)' = d
      PROVE  Mine(q) = d /\ pc'[q] = pc[q] /\ Entity(q)' = Entity(q)
  BY <1>1, StayPut DEF Meets
<1>2. \A i \in {1, 2} : Broken(d, i) => Broken(d, i)'
  BY DEF Meets, Guarantee, JobsKeep
<1>3. CASE Stalled(d)
  <2>1. NoOwner(d)'
    BY <1>3, OwnersStay DEF Stalled, Claims
  <2>2. doc'[d].status \in {"UPLOADED", "TEXT_EXTRACTED", "FAILED", "HUMAN_REVIEW_RECOMMENDED"}
    BY <1>3, EdgeFacts DEF Stalled, Claims
  <2> QED
    BY <2>1, <2>2 DEF Over, Stalled
<1>4. CASE JobFailed(d)
  <2>1. CASE /\ doc[d].status = "EXTRACTING_TEXT" /\ Broken(d, 1)
             /\ \A q \in Processes : Mine(q) = d => pc[q] \notin {"text", "park"}
    <3>1. ~Claims(p, d)
      BY <2>1 DEF Claims, On
    <3>2. NoOwner(d)'
      BY <1>4, <3>1, OwnersStay DEF JobFailed
    <3>3. doc'[d].status \in {"EXTRACTING_TEXT", "FAILED"}
      BY <1>4, <2>1, <3>1, EdgeFacts DEF JobFailed
    <3>4. ASSUME NEW q \in Processes, Mine(q)' = d PROVE pc'[q] \notin {"text", "park"}
      BY <1>0, <1>1, <2>1, <3>4 DEF Moves
    <3> QED
      BY <1>2, <2>1, <3>2, <3>3, <3>4 DEF Over, JobFailed, Stalled
  <2>2. CASE /\ doc[d].status = "EXTRACTING_CLAUSES" /\ Broken(d, 2)
             /\ \A q \in Processes : Mine(q) = d => pc[q] # "clauses"
    <3>1. ~Claims(p, d)
      BY <2>2 DEF Claims, On
    <3>2. NoOwner(d)'
      BY <1>4, <3>1, OwnersStay DEF JobFailed
    <3>3. doc'[d].status \in {"EXTRACTING_CLAUSES", "FAILED"}
      BY <1>4, <2>2, <3>1, EdgeFacts DEF JobFailed, On
    <3>4. ASSUME NEW q \in Processes, Mine(q)' = d PROVE pc'[q] # "clauses"
      BY <1>0, <1>1, <2>2, <3>4 DEF Moves
    <3> QED
      BY <1>2, <2>2, <3>2, <3>3, <3>4 DEF Over, JobFailed, Stalled
  <2> QED
    BY <1>4, <2>1, <2>2 DEF JobFailed
<1>5. CASE Overtaken(d)
  <2>1. pinned /\ pinned'
    BY <1>5 DEF Overtaken, Meets
  <2>2. doc'[d].status # "CLAUSES_EXTRACTED"
    <3>1. ASSUME On(p, d), pc[p] = "clauses" PROVE FALSE
      <4>1. CallOk(p, d)
        BY <3>1 DEF On, Meets
      <4>2. Entity(p).status = "EXTRACTING_CLAUSES"
        BY <3>1, <4>1 DEF CallOk, LookOk, Looks, Knows
      <4> QED
        BY <1>5, <3>1, <4>2 DEF Overtaken, On
    <3>2. Edge(p, d)
      BY DEF Meets, Guarantee
    <3> QED
      BY <1>5, <3>1, <3>2 DEF Edge, Overtaken
  <2>3. ASSUME NEW q \in Processes, Mine(q)' = d, pc'[q] \in {"ask", "clauses"}
        PROVE  Entity(q)'.status # "EXTRACTING_CLAUSES"
    <3>1. CASE q = p
      BY <1>0, <1>5, <2>1, <2>3, <3>1 DEF Moves, Overtaken, On
    <3>2. CASE q # p
      BY <1>1, <1>5, <2>3, <3>2 DEF Overtaken
    <3> QED
      BY <3>1, <3>2
  <2>4. ASSUME NEW q \in Processes, Mine(q)' = d, doc'[d].status = "EXTRACTING_TEXT",
               pc'[q] \in {"ask", "text", "park"}
        PROVE  Entity(q)'.status # "EXTRACTING_TEXT"
    <3>1. CASE q = p
      <4>1. /\ On(p, d) /\ pc[p] = "ask" /\ Entity(p)' = Entity(p)
            /\ Entity(p).status = "EXTRACTING_TEXT"
        BY <1>0, <2>1, <2>4, <3>1 DEF Moves
      <4>2. NoUploader(d)
        BY <4>1 DEF Meets, On, CallOk, LookOk, Looks, Knows
      <4>3. doc[d].status = "EXTRACTING_TEXT"
        BY <2>4, <4>2, EdgeFacts
      <4> QED
        BY <1>5, <4>1, <4>3 DEF Overtaken, On
    <3>2. CASE q # p
      <4>1. /\ Mine(q) = d /\ pc[q] \in {"ask", "text", "park"} /\ Entity(q)' = Entity(q)
        BY <1>1, <2>4, <3>2
      <4>2. doc[d].status = "EXTRACTING_TEXT" => Entity(q).status # "EXTRACTING_TEXT"
        BY <1>5, <4>1 DEF Overtaken
      <4>3. ASSUME doc[d].status # "EXTRACTING_TEXT", Entity(q).status = "EXTRACTING_TEXT"
            PROVE  FALSE
        <5>1. NoUploader(d)
          BY <4>1, <4>3 DEF Meets, CallOk, LookOk, Looks, Knows
        <5> QED
          BY <2>4, <4>3, <5>1, EdgeFacts
      <4> QED
        BY <4>1, <4>2, <4>3
    <3> QED
      BY <3>1, <3>2
  <2> QED
    BY <2>1, <2>2, <2>3, <2>4 DEF Over, Overtaken
<1> QED
  BY <1>3, <1>4, <1>5 DEF Over

\* What a call knows stays true.
LEMMA KnowledgeStays ==
  ASSUME NEW p, NEW d, Meets(p, d), NEW e, Knows(d, e)
  PROVE  /\ Knows(d, e)'
         /\ Untended(d, e.status) => Untended(d, e.status)'
<1>1. \A i \in {1, 2} : Ended(d, i) => Ended(d, i)'
  BY DEF Meets, Guarantee, JobsKeep
<1>2. e.status = "EXTRACTING_TEXT" => doc'[d].status # "UPLOADED" /\ NoUploader(d)'
  BY EdgeFacts, OwnersStay DEF Knows
<1>3. e.status = "TEXT_EXTRACTED" =>
        Ended(d, 1)' /\ NoUploader(d)' /\ doc'[d].status \notin {"UPLOADED", "EXTRACTING_TEXT"}
  BY <1>1, EdgeFacts, OwnersStay DEF Knows
<1>4. e.status = "EXTRACTING_CLAUSES" =>
        /\ Ended(d, 1)' /\ NoOwner(d)'
        /\ doc'[d].status \in {"EXTRACTING_CLAUSES", "CLAUSES_EXTRACTED", "FAILED"}
  BY <1>1, EdgeFacts, OwnersStay DEF Knows, Claims
<1>5. ASSUME Untended(d, e.status) PROVE Untended(d, e.status)'
  <2>1. ASSUME e.status \in {"UPLOADED", "TEXT_EXTRACTED"} PROVE NoOwner(d) /\ NoOwner(d)'
    <3>1. NoOwner(d)
      BY <1>5, <2>1 DEF Untended
    <3>2. doc[d].status # "EXTRACTING_TEXT"
      BY <1>5, <2>1 DEF Untended, Knows
    <3> QED
      BY <3>1, <3>2, OwnersStay DEF Claims
  <2>2. ASSUME e.status = "UPLOADED" PROVE doc'[d].status \in {"UPLOADED", "FAILED"}
    BY <1>5, <2>1, <2>2, EdgeFacts DEF Untended, Claims
  <2> QED
    BY <2>1, <2>2 DEF Untended
<1>6. Knows(d, e)'
  BY <1>2, <1>3, <1>4 DEF Knows
<1> QED
  BY <1>5, <1>6

LEMMA OtherLooks ==
  ASSUME NEW p, NEW d, Meets(p, d), NEW q \in Processes, q # p, Mine(q) = d
  PROVE  LookOk(q, d)'
<1>1. /\ pc'[q] = pc[q] /\ call'[q] = call[q] /\ Entity(q)' = Entity(q)
  BY StayPut DEF Meets
<1>2. LookOk(q, d)
  BY DEF Meets, CallOk
<1>3. \A i \in {1, 2} : Ended(d, i) => Ended(d, i)'
  BY DEF Meets, Guarantee, JobsKeep
<1>4. pinned => pinned'
  BY DEF Meets
<1>5. PICK e : e = Entity(q)
  OBVIOUS
<1>6. Looks(q) => Knows(d, e)
  BY <1>2, <1>5 DEF LookOk
<1>7. /\ Looks(q) => Knows(d, e)'
      /\ Looks(q) /\ Untended(d, e.status) => Untended(d, e.status)'
  BY <1>6, KnowledgeStays
<1>8. /\ Looks(q) => Knows(d, Entity(q))'
      /\ Looks(q) /\ Untended(d, Entity(q).status) => Untended(d, Entity(q).status)'
  BY <1>1, <1>5, <1>7 DEF Knows, Untended
<1> QED
  BY <1>1, <1>2, <1>3, <1>4, <1>8 DEF LookOk, Looks

LEMMA OtherOwns ==
  ASSUME NEW p, NEW d, Meets(p, d), NEW q \in Processes, q # p, Mine(q) = d
  PROVE  OwnerOk(q, d)'
<1>1. /\ pc'[q] = pc[q] /\ call'[q] = call[q] /\ Entity(q)' = Entity(q)
      /\ Uploader(q)' <=> Uploader(q)
      /\ Winner(q)' <=> Winner(q)
      /\ \A l : Saving(q, l)' <=> Saving(q, l)
  BY StayPut DEF Meets
<1>2. OwnerOk(q, d)
  BY DEF Meets, CallOk
<1>3. SUFFICES ASSUME Owner(q) PROVE OwnerOk(q, d)'
  BY <1>1 DEF OwnerOk, Owner
<1>4. ASSUME NEW r \in Processes, Mine(r)' = d, r # q
      PROVE  ~Uploader(r)' /\ ~Winner(r)' /\ pc'[r] \notin {"select", "write"}
  <2>1. ~Claims(p, d) /\ ~NoOwner(d)
    BY <1>3, OwnerFinds DEF Claims, NoOwner, Owner
  <2>2. Mine(r) = d => ~Owner(r) /\ pc[r] \notin {"select", "write"}
    BY <1>3, <1>4, OwnerFinds
  <2>3. CASE r = p
    BY <1>4, <2>1, <2>2, <2>3 DEF Meets, Guarantee, Moves, On, Owner
  <2>4. CASE r # p
    BY <1>4, <2>2, <2>4, StayPut DEF Meets, Owner
  <2> QED
    BY <2>3, <2>4
<1>5. /\ doc'[d].status = doc[d].status \/ (doc'[d].status = "FAILED" /\ pinned)
      /\ Len(jobs'[d]) = Len(jobs[d])
      /\ doc'[d].job \in {doc[d].job, 0}
  BY <1>3, OwnedEdge
<1>6. doc'[d].status = "FAILED" => pinned'
  BY <1>3, <1>5, OwnerFinds DEF Meets
<1>7. /\ Uploader(q) => doc'[d].status \in {"UPLOADED", "FAILED"}
      /\ Winner(q) => doc'[d].status \in {"TEXT_EXTRACTED", "FAILED"}
  BY <1>3, <1>5, OwnerFinds
<1>8. Winner(q) => Ended(d, 1)'
  <2>1. Winner(q) => Ended(d, 1)
    BY <1>2 DEF OwnerOk
  <2> QED
    BY <2>1 DEF Meets, Guarantee, JobsKeep
<1>9. jobs[d] \in Seq(JobRecord) /\ jobs'[d] \in Seq(JobRecord)
  BY DEF Meets, RowsTyped
<1>10. jobs[d] = <<>> => jobs'[d] = <<>>
  BY <1>5, <1>9
<1>11. /\ pc[q] = "dispatchText" =>
            Entity(q).status = "UPLOADED" /\ Entity(q).job = 0 /\ jobs'[d] = <<>>
       /\ pc[q] = "dispatchClauses" \/ Saving(q, "dispatchClauses") =>
            Entity(q).status = "TEXT_EXTRACTED" /\ Entity(q).job = 0 /\ Len(jobs'[d]) = 1
       /\ Saving(q, "refund") => Len(jobs'[d]) = 1
            /\ (pc[q] = "write" => "status" \in call[q].columns)
  BY <1>2, <1>3, <1>5, <1>10 DEF OwnerOk, Owner
<1>12. Saving(q, "started") =>
         /\ Entity(q).job = Len(jobs'[d]) /\ doc'[d].job < Entity(q).job
         /\ Entity(q).job = IF Uploader(q) THEN 1 ELSE 2
         /\ pc[q] = "write" => {"status", "job"} \subseteq call[q].columns
  BY <1>2, <1>3, <1>5 DEF OwnerOk, Owner
<1> QED
  BY <1>1, <1>4, <1>6, <1>7, <1>8, <1>11, <1>12 DEF OwnerOk

LEMMA OtherCall ==
  ASSUME NEW p, NEW d, Meets(p, d), NEW q \in Processes, q # p, Mine(q) = d
  PROVE  CallOk(q, d)'
<1>1. /\ pc'[q] = pc[q] /\ call'[q] = call[q] /\ Entity(q)' = Entity(q)
      /\ Uploader(q)' <=> Uploader(q)
      /\ Winner(q)' <=> Winner(q)
      /\ \A l : Saving(q, l)' <=> Saving(q, l)
  BY StayPut DEF Meets
<1>2. CallOk(q, d)
  BY DEF Meets
<1>3. LookOk(q, d)' /\ OwnerOk(q, d)'
  BY OtherLooks, OtherOwns
<1>4. doc'[d].reservation = doc[d].reservation
  BY DEF Meets, Guarantee
<1>5. Over(d) => Over(d)'
  BY OverStays
<1>6. pc[q] = "commit" => doc'[d].status = "CLAUSES_EXTRACTED"
  BY <1>2, EdgeFacts DEF CallOk, EndingOk
<1>7. ASSUME Saving(q, "refund"), Entity(q).status = "FAILED"
      PROVE  /\ Over(d)' /\ doc'[d].status # "HUMAN_REVIEW_RECOMMENDED"
             /\ pc[q] = "write" => "status" \in call[q].columns \/ doc'[d].status = "FAILED"
  BY <1>2, <1>5, <1>7, SavedEdge DEF CallOk, EndingOk, Saving
<1>8. EndingOk(q, d)'
  BY <1>1, <1>2, <1>5, <1>6, <1>7 DEF CallOk, EndingOk
<1> QED
  BY <1>1, <1>2, <1>3, <1>4, <1>8 DEF CallOk

LEMMA RowStays ==
  ASSUME NEW p, NEW d, Meets(p, d), doc'[d] = doc[d], Len(jobs'[d]) = Len(jobs[d]),
         clauses'[d] = clauses[d], d \in aged' => d \in aged
  PROVE  RowOk(d)'
<1>1. RowOk(d)
  BY DEF Meets
<1>2. /\ jobs[d] \in Seq(JobRecord) /\ jobs'[d] \in Seq(JobRecord)
      /\ \A i \in DOMAIN jobs[d] : jobs'[d][i].kind = jobs[d][i].kind
      /\ \A i \in {1, 2} : Ended(d, i) => Ended(d, i)'
  BY DEF Meets, RowsTyped, Guarantee, JobsKeep
<1>3. /\ Len(jobs'[d]) >= 1 => jobs'[d][1].kind = "text"
      /\ Len(jobs'[d]) = 2 => jobs'[d][2].kind = "clauses"
  BY <1>1, <1>2 DEF RowOk
<1>4. d \in aged' /\ doc[d].status \in {"UPLOADED", "TEXT_EXTRACTED"} => NoOwner(d)'
  BY <1>1, OwnersStay DEF RowOk, Claims
<1> QED
  BY <1>1, <1>2, <1>3, <1>4 DEF RowOk

LEMMA ReservationStays ==
  ASSUME NEW p, NEW d, Meets(p, d), ReservationOk(d), UNCHANGED <<entry, swept>>
  PROVE  ReservationOk(d)'
<1>1. doc'[d].reservation = doc[d].reservation
  BY DEF Meets, Guarantee
<1> QED
  BY <1>1, OverStays, EdgeFacts DEF ReservationOk

-----------------------------------------------------------------------------
(* A step of one process, on one document.                                 *)

Elsewhere(d) ==
  \A e \in Documents \ {d} :
    /\ doc'[e] = doc[e] /\ jobs'[e] = jobs[e] /\ clauses'[e] = clauses[e]
    /\ e \in aged' <=> e \in aged
    /\ e \in edited' <=> e \in edited

Acts(p, d) ==
  /\ OthersStay(p) /\ Elsewhere(d) /\ (pinned => pinned')
  /\ p \in Processes => Mine(p) \in {d, None} /\ Mine(p)' \in {d, None}
  /\ d \in Documents =>
       /\ doc[d] # None => doc'[d] # None
       /\ Len(jobs[d]) <= Len(jobs'[d])
       /\ d \in edited => d \in edited'

\* The ledger row of a reservation that d holds may change, or one is swept.
MeterStep(d) ==
  /\ DOMAIN entry \subseteq DOMAIN entry' /\ swept \subseteq swept'
  /\ \A k \in DOMAIN entry :
       entry'[k] = entry[k] \/ (d \in Documents /\ Holds(k, d)) \/ k \in swept'

\* Every reservation the call and the row now name was there, or is new.
Known(k, d) ==
  k = None \/ Holds(k, d) \/ (k \notin DOMAIN entry /\ k \in DOMAIN entry')

KeyStep(p, d) ==
  d \in Documents =>
    /\ doc'[d] # None => Known(doc'[d].reservation, d)
    /\ p \in Processes /\ Mine(p)' = d =>
         Known(Entity(p)'.reservation, d) /\ Known(call'[p].key, d)

DocStep(p, d) ==
  /\ doc[d] = None => AbsentOk(d)' /\ DocumentOk(d)'
  /\ doc[d] # None /\ d \notin edited' =>
       /\ Guarantee(p, d) /\ RowOk(d)' /\ ReservationOk(d)'
       /\ p \in Processes /\ Mine(p)' = d => CallOk(p, d)'

ProcessStep(p, d) ==
  /\ Types' /\ Acts(p, d) /\ MeterStep(d) /\ KeyStep(p, d)
  /\ p \in Processes => CallShape(p)'
  /\ d \in Documents => DocStep(p, d)

LEMMA KeysStayApart ==
  ASSUME IInv, NEW p, NEW d, ProcessStep(p, d)
  PROVE  KeysApart'
<1>1. ASSUME NEW k \in Keys, NEW e \in Documents, Holds(k, e)'
      PROVE  Holds(k, e) \/ (e = d /\ k \notin DOMAIN entry /\ k \in DOMAIN entry')
  <2>1. k # None /\ e # None
    BY NoneAssumption
  <2>2. CASE doc'[e] # None /\ doc'[e].reservation = k
    <3>1. CASE e = d
      BY <2>1, <2>2, <3>1 DEF ProcessStep, KeyStep, Known
    <3>2. CASE e # d
      BY <2>2, <3>2 DEF ProcessStep, Acts, Elsewhere, Holds
    <3> QED
      BY <3>1, <3>2
  <2>3. ASSUME NEW q \in Processes, Mine(q)' = e, HeldByCall(k, q)'
        PROVE  Holds(k, e) \/ (e = d /\ k \notin DOMAIN entry /\ k \in DOMAIN entry')
    <3>1. CASE q = p
      <4>1. e = d
        BY <2>1, <2>3, <3>1 DEF ProcessStep, Acts
      <4> QED
        BY <2>1, <2>3, <3>1, <4>1 DEF ProcessStep, KeyStep, Known, HeldByCall
    <3>2. CASE q # p
      <4>1. call'[q] = call[q] /\ Mine(q) = e
        BY <2>3, <3>2, StayPut DEF ProcessStep, Acts
      <4> QED
        BY <2>3, <4>1 DEF Holds, HeldByCall, Entity
    <3> QED
      BY <3>1, <3>2
  <2> QED
    BY <1>1, <2>2, <2>3 DEF Holds
<1>2. DOMAIN entry \subseteq DOMAIN entry'
  BY DEF ProcessStep, MeterStep
<1>3. KeysApart
  BY DEF IInv
<1> QED
  BY <1>1, <1>2, <1>3 DEF KeysApart

LEMMA ShapesStay ==
  ASSUME IInv, NEW p, NEW d, ProcessStep(p, d)
  PROVE  Shapes'
<1> SUFFICES ASSUME NEW q \in Processes PROVE CallShape(q)'
  BY DEF Shapes
<1>1. CASE q = p
  BY <1>1 DEF ProcessStep
<1>2. CASE q # p
  <2>1. /\ pc'[q] = pc[q] /\ call'[q] = call[q]
        /\ Mine(q)' = Mine(q) /\ Entity(q)' = Entity(q)
    BY <1>2, StayPut DEF ProcessStep, Acts
  <2>2. CallShape(q)
    BY DEF IInv, Shapes
  <2>3. ASSUME Mine(q) \in Documents
        PROVE  /\ doc[Mine(q)] # None => doc'[Mine(q)] # None
               /\ Len(jobs[Mine(q)]) <= Len(jobs'[Mine(q)])
               /\ Mine(q) \in edited => Mine(q) \in edited'
    <3>1. jobs[Mine(q)] \in Seq(JobRecord)
      BY <2>3 DEF IInv, Types, RowsTyped
    <3>2. CASE Mine(q) = d
      BY <2>3, <3>2 DEF ProcessStep, Acts
    <3>3. CASE Mine(q) # d
      BY <2>3, <3>1, <3>3 DEF ProcessStep, Acts, Elsewhere
    <3> QED
      BY <3>2, <3>3
  <2>4. Entity(q).job \in Nat
    BY DEF IInv, Types, CallsTyped, CallRow, DocumentRow, Entity
  <2>5. Mine(q) \in Documents =>
          /\ jobs[Mine(q)] \in Seq(JobRecord) /\ jobs'[Mine(q)] \in Seq(JobRecord)
    BY DEF IInv, ProcessStep, Types, RowsTyped
  <2>6. pc[q] # "idle" => Mine(q) \in Documents /\ Entity(q).job <= Len(jobs'[Mine(q)])
    BY <2>2, <2>3, <2>4, <2>5 DEF CallShape
  <2>7. pc[q] # "idle" => Mine(q) \in Documents
    BY <2>6
  <2>8. /\ pc[q] \notin {"idle", "insert", "inflight"} => doc'[Mine(q)] # None
        /\ pc[q] \in {"prior", "reserve", "cleanup"} => Mine(q) \in edited'
        /\ pc[q] \in {"select", "write"} =>
             /\ call[q].next \in {"started", "edited", "dispatchText", "dispatchClauses", "refund"}
             /\ call[q].next \in {"edited", "dispatchText"} => Mine(q) \in edited'
    BY <2>2, <2>3, <2>7 DEF CallShape
  <2> QED
    BY <2>1, <2>2, <2>6, <2>8 DEF CallShape
<1> QED
  BY <1>1, <1>2

\* What the ledger holds of another document stays, unless it is swept.
LEMMA LedgerElsewhere ==
  ASSUME IInv, NEW p, NEW d, ProcessStep(p, d), NEW e \in Documents, e # d,
         NEW k, Holds(k, e), k \in DOMAIN entry
  PROVE  /\ k \in DOMAIN entry'
         /\ entry'[k] = entry[k] \/ (k \in swept' /\ entry'[k].status = "released")
<1>1. k \in Keys
  BY DEF IInv, Types, MeterTyped
<1>2. d \in Documents => ~Holds(k, d)
  BY <1>1 DEF IInv, KeysApart
<1> QED
  BY <1>2 DEF ProcessStep, MeterStep, Types, MeterTyped

LEMMA AbsentsStay ==
  ASSUME IInv, NEW p, NEW d, ProcessStep(p, d)
  PROVE  Absents'
<1> SUFFICES ASSUME NEW e \in Documents, doc'[e] = None PROVE AbsentOk(e)'
  BY DEF Absents, AbsentOk
<1>1. CASE e = d
  BY <1>1 DEF ProcessStep, DocStep, Acts
<1>2. CASE e # d
  <2>1. /\ doc[e] = None /\ jobs'[e] = jobs[e] /\ clauses'[e] = clauses[e]
        /\ e \in aged' <=> e \in aged
    BY <1>2 DEF ProcessStep, Acts, Elsewhere
  <2>2. AbsentOk(e)
    BY DEF IInv, Absents
  <2>3. ASSUME NEW q \in Processes, Mine(q)' = e
        PROVE  q # p /\ Mine(q) = e /\ pc'[q] = pc[q] /\ call'[q] = call[q] /\ Entity(q)' = Entity(q)
    <3>1. q # p
      BY <1>2, <2>3, NoneAssumption DEF ProcessStep, Acts
    <3> QED
      BY <2>3, <3>1, StayPut DEF ProcessStep, Acts
  <2>4. \A q, r \in Processes : Mine(q)' = e /\ Mine(r)' = e => q = r
    BY <2>1, <2>2, <2>3 DEF AbsentOk
  <2>5. ASSUME NEW q \in Processes, Mine(q)' = e, pc'[q] = "insert"
        PROVE  /\ Entity(q)' = [NewRow EXCEPT !.reservation = call'[q].key]
               /\ call'[q].key \in DOMAIN entry'
               /\ entry'[call'[q].key].status = "reserved" \/ call'[q].key \in swept'
    <3>1. Mine(q) = e /\ pc[q] = "insert" /\ call'[q] = call[q] /\ Entity(q)' = Entity(q)
      BY <2>3, <2>5
    <3>2. /\ Entity(q) = [NewRow EXCEPT !.reservation = call[q].key]
          /\ call[q].key \in DOMAIN entry
          /\ entry[call[q].key].status = "reserved" \/ call[q].key \in swept
      BY <2>1, <2>2, <3>1 DEF AbsentOk
    <3>3. Holds(call[q].key, e)
      BY <3>1 DEF Holds, HeldByCall
    <3>4. /\ call[q].key \in DOMAIN entry'
          /\ \/ entry'[call[q].key] = entry[call[q].key]
             \/ call[q].key \in swept'
      BY <1>2, <3>2, <3>3, LedgerElsewhere
    <3>5. swept \subseteq swept'
      BY DEF ProcessStep, MeterStep
    <3> QED
      BY <3>1, <3>2, <3>4, <3>5
  <2> QED
    BY <2>1, <2>2, <2>4, <2>5 DEF AbsentOk
<1> QED
  BY <1>1, <1>2

LEMMA PromisesStay ==
  ASSUME IInv, NEW p, NEW d, ProcessStep(p, d)
  PROVE  Promises'
<1> SUFFICES ASSUME NEW e \in Documents PROVE DocumentOk(e)'
  BY DEF Promises
<1>0. /\ RowsTyped /\ RowsTyped' /\ OthersStay(p) /\ (pinned => pinned')
  BY DEF IInv, Types, ProcessStep, Acts
<1>1. DocumentOk(e)
  BY DEF IInv, Promises
<1>2. CASE e = d
  <2>1. CASE doc[d] = None
    BY <1>2, <2>1 DEF ProcessStep, DocStep
  <2>2. CASE doc[d] # None /\ d \in edited'
    BY <1>2, <2>2 DEF DocumentOk
  <2>3. CASE doc[d] # None /\ d \notin edited'
    <3>1. d \notin edited
      BY <1>2, <2>3 DEF ProcessStep, Acts
    <3>2. /\ Guarantee(p, d) /\ RowOk(d)' /\ ReservationOk(d)'
          /\ p \in Processes /\ Mine(p)' = d => CallOk(p, d)'
      BY <1>2, <2>3 DEF ProcessStep, DocStep
    <3>3. Meets(p, d)
      BY <1>0, <1>1, <1>2, <2>3, <3>1, <3>2 DEF Meets, DocumentOk
    <3>4. ASSUME NEW q \in Processes, Mine(q)' = d PROVE CallOk(q, d)'
      <4>1. CASE q = p
        BY <3>2, <3>4, <4>1
      <4>2. CASE q # p
        BY <1>0, <3>3, <3>4, <4>2, StayPut, OtherCall
      <4> QED
        BY <4>1, <4>2
    <3> QED
      BY <1>2, <3>2, <3>4 DEF DocumentOk
  <2> QED
    BY <2>1, <2>2, <2>3
<1>3. CASE e # d
  <2>1. /\ doc'[e] = doc[e] /\ jobs'[e] = jobs[e] /\ clauses'[e] = clauses[e]
        /\ e \in aged' <=> e \in aged
        /\ e \in edited' <=> e \in edited
    BY <1>3 DEF ProcessStep, Acts, Elsewhere
  <2>2. SUFFICES ASSUME doc[e] # None, e \notin edited PROVE DocumentOk(e)'
    BY <2>1 DEF DocumentOk
  <2>3. p \in Processes => Mine(p) # e /\ Mine(p)' # e
    BY <1>3, NoneAssumption DEF ProcessStep, Acts
  <2>4. JobsKeep(e)
    <3>1. jobs[e] \in Seq(JobRecord)
      BY <1>0 DEF RowsTyped
    <3> QED
      BY <2>1, <3>1 DEF JobsKeep, Ended, Broken
  <2>5. Guarantee(p, e)
    BY <2>1, <2>2, <2>3, <2>4 DEF Guarantee, Edge
  <2>6. Meets(p, e)
    BY <1>0, <1>1, <2>2, <2>5 DEF Meets, DocumentOk
  <2>7. RowOk(e)'
    BY <2>1, <2>6, RowStays
  <2>8. ASSUME NEW q \in Processes, Mine(q)' = e PROVE CallOk(q, e)'
    BY <1>0, <2>3, <2>6, <2>8, StayPut, OtherCall
  <2>9. ReservationOk(e)'
    <3>1. ReservationOk(e)
      BY <1>1, <2>2 DEF DocumentOk
    <3> DEFINE k == doc[e].reservation
    <3>2. Holds(k, e)
      BY <2>2 DEF Holds
    <3>3. ASSUME k \in DOMAIN entry' PROVE k \in DOMAIN entry
      <4>1. doc[e] \in DocumentRow
        BY <1>0, <2>2 DEF RowsTyped
      <4>2. k \in Keys
        BY <3>3 DEF ProcessStep, Types, MeterTyped
      <4> QED
        BY <3>2, <4>2 DEF IInv, KeysApart
    <3>4. k \in DOMAIN entry =>
            \/ entry'[k] = entry[k]
            \/ k \in swept' /\ entry'[k].status = "released"
      BY <1>3, <3>2, LedgerElsewhere
    <3>5. Over(e) => Over(e)'
      BY <2>6, OverStays
    <3>6. swept \subseteq swept'
      BY DEF ProcessStep, MeterStep
    <3> QED
      BY <2>1, <3>1, <3>3, <3>4, <3>5, <3>6 DEF ReservationOk
  <2> QED
    BY <2>7, <2>8, <2>9 DEF DocumentOk
<1> QED
  BY <1>2, <1>3

LEMMA StepInvariant ==
  ASSUME IInv, NEW p, NEW d, ProcessStep(p, d)
  PROVE  IInv'
<1>1. Types'
  BY DEF ProcessStep
<1> QED
  BY <1>1, KeysStayApart, ShapesStay, AbsentsStay, PromisesStay DEF IInv

-----------------------------------------------------------------------------
(* Frames for the actions.                                                 *)

LEMMA Promised ==
  ASSUME IInv, NEW d \in Documents, doc[d] # None, d \notin edited
  PROVE  /\ RowOk(d) /\ ReservationOk(d) /\ \A q \in Processes : Mine(q) = d => CallOk(q, d)
         /\ doc[d] \in DocumentRow /\ doc[d].job \in Nat /\ doc[d].job <= Len(jobs[d])
         /\ jobs[d] \in Seq(JobRecord)
BY DEF IInv, Types, RowsTyped, Promises, DocumentOk, DocumentRow

LEMMA AtWork ==
  ASSUME IInv, NEW p \in Processes, pc[p] # "idle"
  PROVE  /\ Mine(p) \in Documents /\ Mine(p) # None
         /\ call[p] \in CallRow /\ call[p].doc = Mine(p)
         /\ Entity(p) \in DocumentRow /\ Entity(p).job \in Nat
         /\ jobs[Mine(p)] \in Seq(JobRecord) /\ Entity(p).job <= Len(jobs[Mine(p)])
         /\ pc[p] \notin {"insert", "inflight"} =>
              doc[Mine(p)] # None /\ doc[Mine(p)] \in DocumentRow
<1>1. Mine(p) \in Documents /\ Entity(p).job <= Len(jobs[Mine(p)])
  BY DEF IInv, Shapes, CallShape
<1>2. pc[p] \notin {"insert", "inflight"} => doc[Mine(p)] # None
  BY DEF IInv, Shapes, CallShape
<1>3. call[p] \in CallRow /\ Entity(p) \in DocumentRow
  BY DEF IInv, Types, CallsTyped, CallRow, Entity
<1>4. Entity(p).job \in Nat
  BY <1>3 DEF DocumentRow
<1>5. jobs[Mine(p)] \in Seq(JobRecord) /\ doc[Mine(p)] \in DocumentRow \cup {None}
  BY <1>1 DEF IInv, Types, RowsTyped
<1> QED
  BY <1>1, <1>2, <1>3, <1>4, <1>5, NoneAssumption DEF Mine

LEMMA AtRest ==
  ASSUME IInv, NEW p \in Processes, pc[p] = "idle"
  PROVE  call[p] = NoCall /\ Mine(p) = None
BY NoCallType DEF IInv, Shapes, CallShape, Mine

\* p is at work on d, or about to be, or was.
Frame(p, d) ==
  /\ p \in Processes /\ d \in Documents
  /\ Types' /\ Acts(p, d) /\ MeterStep(d)

\* The reservations a call knows.
Keeps(p, d) ==
  Mine(p)' = d =>
    /\ Known(Entity(p)'.reservation, d)
    /\ Known(call'[p].key, d)

LEMMA FrameMeets ==
  ASSUME IInv, NEW p, NEW d, Frame(p, d), doc[d] # None, d \notin edited, Guarantee(p, d)
  PROVE  Meets(p, d)
BY Promised DEF Frame, Meets, IInv, Types, Acts

LEMMA FrameStep ==
  ASSUME IInv, NEW p, NEW d, Frame(p, d), KeyStep(p, d), CallShape(p)', DocStep(p, d)
  PROVE  IInv'
<1>1. ProcessStep(p, d)
  BY DEF Frame, ProcessStep
<1> QED
  BY <1>1, StepInvariant

\* A step that changes no row.
Quiet(p, d) ==
  /\ p \in Processes /\ d \in Documents
  /\ UNCHANGED <<meter, doc, aged, clauses, jobs, pinned, edited>>
  /\ batch' \subseteq batch /\ upsets' \in 0 .. MaxUpsets
  /\ CallsTyped' /\ OthersStay(p)
  /\ Mine(p) \in {d, None} /\ Mine(p)' \in {d, None}

LEMMA MeterStays ==
  ASSUME IInv, UNCHANGED meter, NEW d
  PROVE  MeterTyped' /\ MeterStep(d)
BY DEF meter, IInv, Types, MeterTyped, MeterStep

LEMMA QuietFrame ==
  ASSUME IInv, NEW p, NEW d, Quiet(p, d)
  PROVE  Frame(p, d)
<1>1. MeterTyped' /\ MeterStep(d)
  BY MeterStays DEF Quiet
<1>2. RowsTyped' /\ RestTyped'
  BY DEF Quiet, IInv, Types, RowsTyped, RestTyped
<1>3. Acts(p, d)
  BY DEF Quiet, Acts, Elsewhere, IInv, Types, RowsTyped
<1> QED
  BY <1>1, <1>2, <1>3 DEF Frame, Types, Quiet

LEMMA QuietMeets ==
  ASSUME IInv, NEW p, NEW d, Quiet(p, d), doc[d] # None, d \notin edited,
         Mine(p)' = d => Moves(p, d)
  PROVE  Meets(p, d) /\ RowOk(d)' /\ ReservationOk(d)'
<1>1. JobsKeep(d)
  BY Promised DEF Quiet, JobsKeep, Ended, Broken
<1>2. Guarantee(p, d)
  BY <1>1 DEF Quiet, Guarantee, Edge
<1>3. Meets(p, d)
  BY <1>2, QuietFrame, FrameMeets
<1>4. RowOk(d)'
  BY <1>3, RowStays DEF Quiet
<1>5. ReservationOk(d)'
  BY <1>3, Promised, ReservationStays DEF Quiet, meter
<1> QED
  BY <1>3, <1>4, <1>5

LEMMA QuietStep ==
  ASSUME IInv, NEW p, NEW d, Quiet(p, d), Keeps(p, d), CallShape(p)',
         doc[d] = None => AbsentOk(d)',
         doc[d] # None /\ d \notin edited /\ Mine(p)' = d => Moves(p, d) /\ CallOk(p, d)'
  PROVE  IInv'
<1>1. Frame(p, d)
  BY QuietFrame
<1>2. KeyStep(p, d)
  BY DEF Quiet, KeyStep, Keeps, Known, Holds
<1>3. DocStep(p, d)
  <2>1. doc[d] = None => AbsentOk(d)' /\ DocumentOk(d)'
    BY DEF Quiet, DocumentOk
  <2>2. ASSUME doc[d] # None, d \notin edited'
        PROVE  /\ Guarantee(p, d) /\ RowOk(d)' /\ ReservationOk(d)'
               /\ Mine(p)' = d => CallOk(p, d)'
    <3>1. d \notin edited
      BY <2>2 DEF Quiet
    <3> QED
      BY <2>2, <3>1, QuietMeets DEF Meets
  <2> QED
    BY <2>1, <2>2 DEF DocStep
<1> QED
  BY <1>1, <1>2, <1>3, FrameStep

\* The call ends, and nothing else happens to the rows.
LEMMA QuietReturn ==
  ASSUME IInv, NEW p \in Processes, pc[p] # "idle", Return(p),
         UNCHANGED <<meter, doc, aged, clauses, jobs, pinned, edited>>,
         batch' \subseteq batch, upsets' \in 0 .. MaxUpsets
  PROVE  IInv'
<1>0. PICK d : d = Mine(p)
  OBVIOUS
<1>1. CallsTyped' /\ OthersStay(p) /\ pc'[p] = "idle" /\ call'[p] = NoCall
  BY ReturnMoves DEF IInv, Types, Arrives
<1>2. Mine(p)' = None
  BY <1>1, NoCallType DEF Mine
<1>3. d \in Documents /\ d # None
  BY <1>0, AtWork
<1>4. Quiet(p, d)
  BY <1>0, <1>1, <1>2, <1>3 DEF Quiet
<1>5. CallShape(p)'
  BY <1>1 DEF CallShape
<1>6. ASSUME doc[d] = None PROVE AbsentOk(d)'
  <2>1. AbsentOk(d)
    BY <1>3 DEF IInv, Absents
  <2>2. ASSUME NEW q \in Processes, Mine(q)' = d PROVE FALSE
    <3>1. q # p
      BY <1>2, <1>3, <2>2
    <3>2. Mine(q) = d
      BY <1>1, <2>2, <3>1, StayPut
    <3> QED
      BY <1>0, <1>6, <2>1, <3>1, <3>2 DEF AbsentOk
  <2> QED
    BY <1>4, <1>6, <2>1, <2>2 DEF AbsentOk, Quiet
<1> QED
  BY <1>2, <1>3, <1>4, <1>5, <1>6, QuietStep DEF Keeps

-----------------------------------------------------------------------------
(* Steps that change no row.                                               *)

LEMMA AloneStays ==
  ASSUME NEW p, NEW d, OthersStay(p),
         \A r \in Processes : Mine(r) = d /\ r # p =>
           ~Uploader(r) /\ ~Winner(r) /\ pc[r] \notin {"select", "write"}
  PROVE  \A r \in Processes : Mine(r)' = d /\ r # p =>
           ~Uploader(r)' /\ ~Winner(r)' /\ pc'[r] \notin {"select", "write"}
BY StayPut

LEMMA SelectStep ==
  ASSUME IInv, NEW p \in Processes, Select(p)
  PROVE  IInv'
<1>0. PICK d : d = Mine(p)
  OBVIOUS
<1> DEFINE cols == {f \in DOMAIN NewRow : Row(p)[f] # Entity(p)[f]}
<1> DEFINE c == [call[p] EXCEPT !.columns = cols]
<1>1. /\ d \in Documents /\ d # None /\ call[p] \in CallRow /\ Entity(p) \in DocumentRow
      /\ Entity(p).job \in Nat /\ Entity(p).job <= Len(jobs[d])
      /\ doc[d] # None /\ doc[d] \in DocumentRow /\ pc[p] = "select"
  BY <1>0, AtWork DEF Select
<1>2. /\ c \in CallRow /\ c.columns = cols /\ c.doc = call[p].doc
      /\ c.entity = call[p].entity /\ c.next = call[p].next /\ c.key = call[p].key
  BY <1>1, ColumnsCall
<1>3. Goto(p, "write") /\ call' = [call EXCEPT ![p] = c]
  BY Zenon DEF Select
<1>4. cols = {f \in {"status", "job", "reservation"} : doc[d][f] # Entity(p)[f]}
  BY <1>0, NewRowType DEF Row
<1> HIDE DEF c, cols
<1>5. CallsTyped' /\ OthersStay(p) /\ pc'[p] = "write" /\ call'[p] = c
  <2>1. "write" \in Labels
    BY DEF Labels
  <2> QED
    BY <1>2, <1>3, <2>1, CallMoves DEF IInv, Types, Arrives
<1>6. /\ Mine(p)' = d /\ Entity(p)' = Entity(p)
      /\ call'[p].next = call[p].next /\ call'[p].key = call[p].key
  BY <1>0, <1>2, <1>5 DEF Mine, Entity
<1>7. Quiet(p, d)
  BY <1>0, <1>1, <1>5, <1>6 DEF Select, Quiet, IInv, Types, RestTyped
<1>8. /\ \A l : Saving(p, l)' <=> Saving(p, l)
      /\ Uploader(p)' <=> Uploader(p)
      /\ Winner(p)' <=> Winner(p)
  BY <1>1, <1>5, <1>6 DEF Saving, Uploader, Winner
<1>9. CallShape(p)'
  <2>1. CallShape(p)
    BY DEF IInv, Shapes
  <2> QED
    BY <1>0, <1>1, <1>5, <1>6, <1>7, <2>1 DEF CallShape, Quiet
<1>10. ASSUME d \notin edited
       PROVE  Moves(p, d) /\ CallOk(p, d)'
  <2>1. Moves(p, d)
    BY <1>0, <1>1, <1>5, <1>8 DEF Moves, On
  <2>2. Meets(p, d)
    BY <1>1, <1>7, <1>10, <2>1, QuietMeets
  <2>3. CallOk(p, d)
    BY <1>0, <1>1, <1>10, Promised
  <2>4. doc' = doc /\ jobs' = jobs /\ pinned' = pinned
    BY <1>7 DEF Quiet
  <2>5. LookOk(p, d)'
    BY <1>5 DEF LookOk, Looks
  <2>6. OwnerOk(p, d)'
    <3>1. SUFFICES ASSUME Owner(p) PROVE OwnerOk(p, d)'
      BY <1>8 DEF OwnerOk, Owner
    <3>2. OwnerOk(p, d)
      BY <2>3 DEF CallOk
    <3>3. \A r \in Processes : Mine(r)' = d /\ r # p =>
            ~Uploader(r)' /\ ~Winner(r)' /\ pc'[r] \notin {"select", "write"}
      BY <1>5, <3>1, <3>2, AloneStays DEF OwnerOk, Owner
    <3>4. /\ doc[d].status = "FAILED" => pinned
          /\ Uploader(p) => doc[d].status \in {"UPLOADED", "FAILED"}
          /\ Winner(p) => doc[d].status \in {"TEXT_EXTRACTED", "FAILED"} /\ Ended(d, 1)'
      BY <2>2, <3>1, <3>2 DEF OwnerOk, Owner, Meets, Guarantee, JobsKeep
    <3>5. Saving(p, "started") =>
            /\ Entity(p).job = Len(jobs[d]) /\ doc[d].job < Entity(p).job
            /\ Entity(p).job = IF Uploader(p) THEN 1 ELSE 2
            /\ {"status", "job"} \subseteq cols
      <4>1. SUFFICES ASSUME Saving(p, "started") PROVE {"status", "job"} \subseteq cols
        BY <3>1, <3>2 DEF OwnerOk, Owner
      <4>2. Entity(p).status # doc[d].status
        BY <1>1, <3>1, <3>4, <4>1 DEF Owner, Uploader, Winner, Saving
      <4>3. Entity(p).job # doc[d].job
        <5>1. doc[d].job < Entity(p).job /\ doc[d].job \in Nat
          BY <1>1, <3>1, <3>2, <4>1 DEF OwnerOk, Owner, DocumentRow
        <5> QED
          BY <1>1, <5>1
      <4> QED
        BY <1>4, <4>2, <4>3
    <3>6. Saving(p, "refund") => Len(jobs[d]) = 1 /\ "status" \in cols
      <4>1. SUFFICES ASSUME Saving(p, "refund") PROVE "status" \in cols
        BY <3>1, <3>2 DEF OwnerOk, Owner
      <4>2. Entity(p).status = "HUMAN_REVIEW_RECOMMENDED" /\ Winner(p)
        BY <1>1, <3>1, <4>1 DEF Owner, Uploader, Winner, Saving
      <4> QED
        BY <1>4, <3>4, <4>2
    <3>7. Saving(p, "dispatchClauses") =>
            Entity(p).status = "TEXT_EXTRACTED" /\ Entity(p).job = 0 /\ Len(jobs[d]) = 1
      BY <3>1, <3>2 DEF OwnerOk, Owner
    <3> QED
      BY <1>2, <1>5, <1>6, <1>8, <2>4, <3>3, <3>4, <3>5, <3>6, <3>7 DEF OwnerOk
  <2>7. EndingOk(p, d)'
    <3>1. SUFFICES ASSUME Saving(p, "refund"), Entity(p).status = "FAILED"
                   PROVE  /\ Over(d)' /\ doc[d].status # "HUMAN_REVIEW_RECOMMENDED"
                          /\ "status" \in cols \/ doc[d].status = "FAILED"
      BY <1>2, <1>5, <1>6, <1>8, <2>4 DEF EndingOk
    <3>2. Over(d) /\ doc[d].status # "HUMAN_REVIEW_RECOMMENDED"
      BY <2>3, <3>1 DEF CallOk, EndingOk
    <3>3. Over(d)'
      BY <2>2, <3>2, OverStays
    <3> QED
      BY <1>4, <3>1, <3>2, <3>3
  <2> QED
    BY <1>5, <1>6, <1>8, <2>1, <2>3, <2>4, <2>5, <2>6, <2>7 DEF CallOk
<1>11. Keeps(p, d)
  BY <1>0, <1>6 DEF Keeps, Known, Holds, HeldByCall
<1> QED
  BY <1>1, <1>6, <1>7, <1>9, <1>10, <1>11, QuietStep

\* A browser or the driver loads a document that is in progress.
LEMMA LoadStep ==
  ASSUME IInv, NEW p \in Processes, NEW d \in Documents, pc[p] = "idle",
         doc[d] # None, doc[d].status \notin Terminal, Load(p, d, "check"),
         UNCHANGED <<meter, doc, aged, clauses, jobs, pinned, edited, upsets>>,
         batch' \subseteq batch
  PROVE  IInv'
<1> DEFINE c == [NoCall EXCEPT !.doc = d, !.entity = doc[d], !.old = d \in aged]
<1>1. /\ doc[d] \in DocumentRow /\ doc[d].job \in Nat /\ doc[d].job <= Len(jobs[d])
      /\ d # None
  BY NoneAssumption DEF IInv, Types, RowsTyped, DocumentRow
<1>2. c = [NoCall EXCEPT !.doc = d, !.entity = doc[d], !.old = (d \in aged)]
  OBVIOUS
<1>3. (d \in aged) \in BOOLEAN
  OBVIOUS
<1>4. /\ c \in CallRow /\ c.doc = d /\ c.entity = doc[d] /\ c.key = None
      /\ c.old <=> d \in aged
  <2>1. PICK b \in BOOLEAN : b = (d \in aged)
    BY <1>3
  <2>2. /\ [NoCall EXCEPT !.doc = d, !.entity = doc[d], !.old = b] \in CallRow
        /\ [NoCall EXCEPT !.doc = d, !.entity = doc[d], !.old = b].doc = d
        /\ [NoCall EXCEPT !.doc = d, !.entity = doc[d], !.old = b].entity = doc[d]
        /\ [NoCall EXCEPT !.doc = d, !.entity = doc[d], !.old = b].key = NoCall.key
        /\ [NoCall EXCEPT !.doc = d, !.entity = doc[d], !.old = b].old = b
    <3>1. NoCall \in CallRow
      BY NoCallType
    <3> HIDE DEF NoCall
    <3> QED
      BY <1>1, <3>1 DEF CallRow
  <2> QED
    BY <2>1, <2>2, NoCallType
<1>5. Goto(p, "check") /\ call' = [call EXCEPT ![p] = c]
  BY DEF Load
<1> HIDE DEF c
<1>6. CallsTyped' /\ OthersStay(p) /\ pc'[p] = "check" /\ call'[p] = c
  <2>1. "check" \in Labels
    BY DEF Labels
  <2> QED
    BY <1>4, <1>5, <2>1, CallMoves DEF IInv, Types, Arrives
<1>7. Mine(p) = None /\ Mine(p)' = d /\ Entity(p)' = doc[d]
  BY <1>4, <1>6, AtRest DEF Mine, Entity
<1>8. Quiet(p, d)
  BY <1>6, <1>7 DEF Quiet, IInv, Types, RestTyped
<1>9. CallShape(p)'
  BY <1>1, <1>6, <1>7, <1>8 DEF CallShape, Quiet
<1>10. Keeps(p, d)
  BY <1>1, <1>4, <1>6, <1>7 DEF Keeps, Known, Holds
<1>11. ASSUME d \notin edited
       PROVE  Moves(p, d) /\ CallOk(p, d)'
  <2>1. ~Uploader(p)' /\ ~Winner(p)' /\ \A l : ~Saving(p, l)'
    BY <1>6 DEF Uploader, Winner, Saving
  <2>2. Moves(p, d)
    BY <1>6, <2>1 DEF Moves
  <2>3. Meets(p, d) /\ RowOk(d)
    BY <1>8, <1>11, <2>2, QuietMeets, Promised
  <2>4. doc[d].status \in {"UPLOADED", "EXTRACTING_TEXT", "TEXT_EXTRACTED", "EXTRACTING_CLAUSES"}
    BY <1>1 DEF DocumentRow
  <2>5. /\ doc[d].status \in {"EXTRACTING_TEXT", "TEXT_EXTRACTED", "EXTRACTING_CLAUSES"} =>
             NoUploader(d)
        /\ doc[d].status = "EXTRACTING_CLAUSES" => NoOwner(d)
    BY <2>3, OwnerFinds DEF NoUploader, NoOwner, Owner
  <2>6. PICK e : e = doc[d]
    OBVIOUS
  <2>7. Knows(d, e)
    BY <2>3, <2>4, <2>5, <2>6 DEF Knows, RowOk, Terminal
  <2>8. d \in aged => Untended(d, e.status)
    BY <2>3, <2>6 DEF Untended, RowOk
  <2>9. Knows(d, e)' /\ (d \in aged => Untended(d, e.status)')
    BY <2>3, <2>7, <2>8, KnowledgeStays
  <2>10. Knows(d, Entity(p))' /\ (call'[p].old => Untended(d, Entity(p).status)')
    BY <1>4, <1>6, <1>7, <2>6, <2>9 DEF Knows, Untended
  <2>11. LookOk(p, d)'
    BY <1>6, <2>10 DEF LookOk
  <2>12. OwnerOk(p, d)' /\ EndingOk(p, d)'
    BY <1>6, <2>1 DEF OwnerOk, EndingOk
  <2> QED
    BY <1>6, <1>7, <1>8, <2>1, <2>2, <2>11, <2>12 DEF CallOk, Quiet
<1> QED
  BY <1>7, <1>8, <1>9, <1>10, <1>11, QuietStep

LEMMA VisitStep ==
  ASSUME IInv, NEW d \in Documents, Load(Driver, d, "check"), pc[Driver] = "idle", d \in batch,
         doc[d].status \notin Terminal, batch' = batch \ {d},
         UNCHANGED <<meter, doc, aged, clauses, jobs, pinned, edited, upsets>>
  PROVE  IInv'
<1>1. doc[d] # None /\ Driver \in Processes /\ batch' \subseteq batch
  BY DEF IInv, Types, RestTyped, Processes
<1> QED
  BY <1>1, LoadStep

\* A call goes on with what it has loaded.
Goes(p, l) ==
  /\ pc'[p] = l /\ call'[p] \in CallRow
  /\ call'[p].doc = call[p].doc /\ call'[p].entity = call[p].entity
  /\ call'[p].key = call[p].key /\ (call'[p].old => call[p].old)

LEMMA LookerStep ==
  ASSUME IInv, NEW p \in Processes, pc[p] \in {"check", "ask"}, NEW d, d = Mine(p),
         NEW l \in {"ask", "fail", "text", "park", "clauses"}, Goes(p, l),
         CallsTyped', OthersStay(p),
         UNCHANGED <<meter, doc, aged, clauses, jobs, pinned, edited, batch, upsets>>,
         l = "ask" => pc[p] = "check" /\ ~pinned /\ Entity(p).job # 0,
         d \notin edited /\ l = "fail" => pinned \/ Untended(d, Entity(p).status),
         d \notin edited /\ l \in {"text", "park"} =>
           /\ pc[p] = "ask" /\ Entity(p).status = "EXTRACTING_TEXT"
           /\ Ended(d, 1) /\ ~Broken(d, 1),
         d \notin edited /\ l = "clauses" =>
           /\ pc[p] = "ask" /\ Entity(p).status = "EXTRACTING_CLAUSES"
           /\ Ended(d, 2) /\ ~Broken(d, 2)
  PROVE  IInv'
<1>1. /\ d \in Documents /\ d # None /\ doc[d] # None
      /\ Entity(p).job \in Nat /\ Entity(p).job <= Len(jobs[d])
  BY AtWork
<1>2. /\ Mine(p)' = d /\ Entity(p)' = Entity(p) /\ pc'[p] = l
      /\ call'[p].key = call[p].key /\ (call'[p].old => call[p].old)
  BY DEF Goes, Mine, Entity
<1>3. Quiet(p, d)
  BY <1>1, <1>2 DEF Quiet, IInv, Types, RestTyped
<1>4. CallShape(p)'
  BY <1>1, <1>2, <1>3 DEF CallShape, Quiet
<1>5. Keeps(p, d)
  BY <1>2 DEF Keeps, Known, Holds, HeldByCall
<1>6. ASSUME d \notin edited PROVE Moves(p, d) /\ CallOk(p, d)'
  <2>1. ~Uploader(p)' /\ ~Winner(p)' /\ \A m : ~Saving(p, m)'
    BY <1>2 DEF Uploader, Winner, Saving
  <2>2. Moves(p, d)
    BY <1>2, <1>6, <2>1 DEF Moves, On
  <2>3. Meets(p, d)
    BY <1>1, <1>3, <1>6, <2>2, QuietMeets
  <2>4. CallOk(p, d)
    BY <1>1, <1>6, Promised
  <2>5. PICK e : e = Entity(p)
    OBVIOUS
  <2>6. LookOk(p, d) /\ Knows(d, e)
    BY <2>4, <2>5 DEF CallOk, LookOk, Looks
  <2>7. Knows(d, e)' /\ (Untended(d, e.status) => Untended(d, e.status)')
    BY <2>3, <2>6, KnowledgeStays
  <2>8. /\ Knows(d, Entity(p))'
        /\ Untended(d, Entity(p).status) => Untended(d, Entity(p).status)'
    BY <1>2, <2>5, <2>7 DEF Knows, Untended
  <2>9. \A i \in {1, 2} : Ended(d, i) => Ended(d, i)'
    BY <2>3 DEF Meets, Guarantee, JobsKeep
  <2>10. pinned' = pinned /\ doc' = doc
    BY <1>3 DEF Quiet
  <2>11. l = "ask" /\ call'[p].old => Untended(d, Entity(p).status)
    BY <1>2, <2>6 DEF LookOk, Looks
  <2>12. LookOk(p, d)'
    BY <1>2, <1>6, <2>8, <2>9, <2>10, <2>11 DEF LookOk
  <2>13. OwnerOk(p, d)' /\ EndingOk(p, d)'
    BY <1>2, <2>1 DEF OwnerOk, EndingOk
  <2> QED
    BY <1>2, <2>1, <2>2, <2>4, <2>10, <2>12, <2>13 DEF CallOk
<1> QED
  BY <1>1, <1>2, <1>3, <1>4, <1>5, <1>6, QuietStep

LEMMA CheckStep ==
  ASSUME IInv, NEW p \in Processes, Check(p)
  PROVE  IInv'
<1>0. PICK d : d = Mine(p)
  OBVIOUS
<1>1. /\ pc[p] = "check" /\ call[p] \in CallRow
      /\ UNCHANGED <<meter, doc, aged, clauses, jobs, pinned, edited, batch, upsets>>
  BY AtWork DEF Check
<1>2. CallsTyped /\ upsets' \in 0 .. MaxUpsets
  BY <1>1 DEF IInv, Types, RestTyped
<1>3. CASE pinned \/ (Entity(p).job = 0 /\ call[p].old)
  <2>1. Onward(p, "fail")
    BY <1>3 DEF Check
  <2>2. "fail" \in Labels
    BY DEF Labels
  <2>3. CallsTyped' /\ OthersStay(p) /\ Goes(p, "fail")
    BY <1>1, <1>2, <2>1, <2>2, OnwardMoves, YoungCall DEF Arrives, Goes
  <2>4. d \notin edited => pinned \/ Untended(d, Entity(p).status)
    <3>1. ASSUME d \notin edited, ~pinned PROVE Untended(d, Entity(p).status)
      <4>1. LookOk(p, d)
        BY <1>0, <1>1, <3>1, AtWork, Promised DEF CallOk
      <4> QED
        BY <1>1, <1>3, <3>1, <4>1 DEF LookOk, Looks
    <3> QED
      BY <3>1
  <2> QED
    BY <1>0, <1>1, <2>3, <2>4, LookerStep
<1>4. CASE ~pinned /\ Entity(p).job = 0 /\ ~call[p].old
  <2>1. Return(p)
    BY <1>4 DEF Check
  <2> QED
    BY <1>1, <1>2, <2>1, QuietReturn
<1>5. CASE ~pinned /\ Entity(p).job # 0
  <2>1. Goto(p, "ask") /\ UNCHANGED call
    BY <1>5 DEF Check
  <2>2. "ask" \in Labels
    BY DEF Labels
  <2>3. CallsTyped' /\ OthersStay(p) /\ Goes(p, "ask")
    BY <1>1, <1>2, <2>1, <2>2, GotoMoves DEF Arrives, Goes
  <2> QED
    BY <1>0, <1>1, <1>5, <2>3, LookerStep
<1> QED
  BY <1>3, <1>4, <1>5

\* A call that is to save FAILED.
GivesUp(p, d) ==
  /\ pc'[p] = "select" /\ Mine(p)' = d /\ call'[p].next = "refund"
  /\ Entity(p)'.status = "FAILED"
  /\ Entity(p)'.reservation = Entity(p).reservation /\ call'[p].key = call[p].key
  /\ Entity(p)'.job \in {0, Entity(p).job}

LEMMA FailedSave ==
  ASSUME CallsTyped, NEW p \in Processes, NEW d, d = Mine(p),
         NEW e \in DocumentRow, e.status = "FAILED", e.job \in {0, Entity(p).job},
         e.reservation = Entity(p).reservation, Save(p, e, "refund")
  PROVE  CallsTyped' /\ OthersStay(p) /\ GivesUp(p, d)
<1>1. "refund" \in Labels /\ call[p] \in CallRow
  BY DEF Labels, CallsTyped
<1>2. CallsTyped' /\ OthersStay(p) /\ pc'[p] = "select" /\ call'[p] = Resaved(call[p], e, "refund")
  BY <1>1, SaveMoves DEF Arrives
<1>3. /\ call'[p].doc = d /\ call'[p].entity = e /\ call'[p].next = "refund"
      /\ call'[p].key = call[p].key
  BY <1>1, <1>2, ResavedCall DEF Mine
<1> QED
  BY <1>2, <1>3 DEF GivesUp, Mine, Entity

LEMMA GaveUp ==
  ASSUME NEW p \in Processes, NEW d, GivesUp(p, d)
  PROVE  /\ ~Uploader(p)' /\ ~Winner(p)' /\ ~Looks(p)'
         /\ /\ Over(d)' /\ doc'[d].status # "HUMAN_REVIEW_RECOMMENDED"
            /\ Entity(p)'.reservation = doc'[d].reservation
            => CallOk(p, d)'
<1>1. /\ ~Uploader(p)' /\ ~Winner(p)' /\ ~Looks(p)'
      /\ ~Saving(p, "started")'
  BY DEF GivesUp, Uploader, Winner, Looks, Saving
<1>2. LookOk(p, d)' /\ OwnerOk(p, d)'
  BY <1>1 DEF LookOk, OwnerOk
<1> QED
  BY <1>1, <1>2 DEF CallOk, EndingOk, GivesUp

\* Once its only owner has given up nobody moves the document on.
LEMMA OwnerGivesUp ==
  ASSUME NEW p \in Processes, NEW d, Meets(p, d), Mine(p) = d, Owner(p), GivesUp(p, d),
         doc'[d].status = doc[d].status
  PROVE  Over(d)' /\ doc'[d].status # "HUMAN_REVIEW_RECOMMENDED"
<1>1. \A r \in Processes : Mine(r) = d /\ r # p =>
        ~Uploader(r) /\ ~Winner(r) /\ pc[r] \notin {"select", "write"}
  BY OwnerFinds DEF Owner
<1>2. \A r \in Processes : Mine(r)' = d /\ r # p => ~Uploader(r)' /\ ~Winner(r)'
  BY <1>1, AloneStays DEF Meets
<1>3. NoOwner(d)'
  BY <1>2, GaveUp DEF NoOwner
<1>4. doc[d].status \in {"UPLOADED", "TEXT_EXTRACTED", "FAILED"}
  BY OwnerFinds
<1> QED
  BY <1>3, <1>4 DEF Over, Stalled

LEMMA GivesUpStep ==
  ASSUME IInv, NEW p \in Processes, NEW d, d = Mine(p),
         pc[p] \notin {"idle", "insert", "inflight"},
         CallsTyped', OthersStay(p), GivesUp(p, d),
         UNCHANGED <<meter, doc, aged, clauses, jobs, pinned, edited, batch>>,
         upsets' \in 0 .. MaxUpsets,
         d \notin edited =>
           \/ Owner(p)
           \/ NoOwner(d) /\ Over(d) /\ doc[d].status # "HUMAN_REVIEW_RECOMMENDED"
  PROVE  IInv'
<1>1. /\ d \in Documents /\ d # None /\ doc[d] # None
      /\ Entity(p).job \in Nat /\ Entity(p).job <= Len(jobs[d]) /\ jobs[d] \in Seq(JobRecord)
  BY AtWork
<1>2. Quiet(p, d)
  BY <1>1 DEF Quiet, GivesUp
<1>3. CallShape(p)'
  BY <1>1, <1>2 DEF CallShape, GivesUp, Quiet
<1>4. Keeps(p, d)
  BY DEF Keeps, Known, Holds, HeldByCall, GivesUp
<1>5. ASSUME d \notin edited PROVE Moves(p, d) /\ CallOk(p, d)'
  <2>1. Moves(p, d)
    BY <1>1, <1>5, GaveUp DEF Moves, On, GivesUp
  <2>2. Meets(p, d)
    BY <1>1, <1>2, <1>5, <2>1, QuietMeets
  <2>3. CallOk(p, d) /\ doc' = doc
    BY <1>1, <1>2, <1>5, Promised DEF Quiet
  <2>4. Over(d)' /\ doc'[d].status # "HUMAN_REVIEW_RECOMMENDED"
    BY <1>5, <2>2, <2>3, OwnerGivesUp, OverStays
  <2>5. Entity(p)'.reservation = doc'[d].reservation
    BY <2>3 DEF CallOk, GivesUp
  <2> QED
    BY <2>1, <2>4, <2>5, GaveUp
<1> QED
  BY <1>1, <1>2, <1>3, <1>4, <1>5, QuietStep

\* The job a call sees failed is the one the document waits for, if it still
\* waits.
LEMMA FailureIsOver ==
  ASSUME IInv, NEW p \in Processes, NEW d \in Documents, d = Mine(p), pc[p] = "ask",
         doc[d] # None, d \notin edited, Job(p).state = "failed"
  PROVE  NoOwner(d) /\ Over(d) /\ doc[d].status # "HUMAN_REVIEW_RECOMMENDED"
<1>1. /\ RowOk(d) /\ \A q \in Processes : Mine(q) = d => CallOk(q, d)
      /\ doc[d] \in DocumentRow /\ jobs[d] \in Seq(JobRecord)
  BY Promised
<1>2. /\ Entity(p) \in DocumentRow /\ Entity(p).job \in Nat
      /\ Entity(p).job <= Len(jobs[d]) /\ Entity(p).job # 0
  BY AtWork DEF IInv, Shapes, CallShape
<1>3. Knows(d, Entity(p))
  BY <1>1 DEF CallOk, LookOk, Looks
<1>4. Job(p) = jobs[d][Entity(p).job]
  BY DEF Job
<1>5. ASSUME NEW q \in Processes, Mine(q) = d, Uploader(q) \/ Winner(q)
      PROVE  OwnerOk(q, d)
  BY <1>1, <1>5 DEF CallOk
<1>6. Entity(p).status \in {"EXTRACTING_TEXT", "TEXT_EXTRACTED", "EXTRACTING_CLAUSES"}
  BY <1>2, <1>3 DEF Knows, DocumentRow
<1>7. CASE Entity(p).status = "EXTRACTING_TEXT"
  <2>1. Entity(p).job = 1 /\ NoUploader(d) /\ doc[d].status # "UPLOADED"
    BY <1>3, <1>7 DEF Knows
  <2>2. ~Ended(d, 1) /\ Broken(d, 1)
    BY <1>2, <1>4, <2>1 DEF Ended, Broken
  <2>3. NoOwner(d)
    BY <1>5, <2>1, <2>2 DEF NoOwner, NoUploader, OwnerOk
  <2>4. doc[d].status \in {"EXTRACTING_TEXT", "FAILED"}
    BY <1>1, <2>1, <2>2 DEF RowOk, DocumentRow, Terminal
  <2>5. \A q \in Processes : Mine(q) = d => pc[q] \notin {"text", "park"}
    BY <1>1, <2>2 DEF CallOk, LookOk, Looks
  <2> QED
    BY <2>2, <2>3, <2>4, <2>5 DEF Over, Stalled, JobFailed
<1>8. CASE Entity(p).status = "TEXT_EXTRACTED"
  <2>1. Entity(p).job = 1 /\ Ended(d, 1)
    BY <1>2, <1>3, <1>8 DEF Knows
  <2> QED
    BY <1>4, <2>1 DEF Ended
<1>9. CASE Entity(p).status = "EXTRACTING_CLAUSES"
  <2>1. /\ Entity(p).job = 2 /\ NoOwner(d)
        /\ doc[d].status \in {"EXTRACTING_CLAUSES", "CLAUSES_EXTRACTED", "FAILED"}
    BY <1>3, <1>9 DEF Knows
  <2>2. ~Ended(d, 2) /\ Broken(d, 2)
    BY <1>2, <1>4, <2>1 DEF Ended, Broken
  <2>3. doc[d].status # "CLAUSES_EXTRACTED"
    BY <1>1, <2>2 DEF RowOk
  <2>4. \A q \in Processes : Mine(q) = d => pc[q] # "clauses"
    BY <1>1, <2>2 DEF CallOk, LookOk, Looks
  <2> QED
    BY <2>1, <2>2, <2>3, <2>4 DEF Over, Stalled, JobFailed
<1> QED
  BY <1>6, <1>7, <1>8, <1>9

LEMMA AskStep ==
  ASSUME IInv, NEW p \in Processes, Ask(p)
  PROVE  IInv'
<1>0. PICK d : d = Mine(p)
  OBVIOUS
<1>1. /\ pc[p] = "ask" /\ call[p] \in CallRow /\ Entity(p) \in DocumentRow
      /\ d \in Documents /\ d # None /\ doc[d] # None
      /\ Entity(p).job \in Nat /\ Entity(p).job <= Len(jobs[d]) /\ jobs[d] \in Seq(JobRecord)
      /\ UNCHANGED <<meter, doc, aged, clauses, jobs, pinned, edited, batch, upsets>>
  BY <1>0, AtWork DEF Ask
<1>2. CallsTyped /\ upsets' \in 0 .. MaxUpsets /\ Entity(p).job # 0
  BY <1>1 DEF IInv, Types, RestTyped, Shapes, CallShape
<1>3. Job(p) = jobs[d][Entity(p).job] /\ Job(p) \in JobRecord
  BY <1>0, <1>1, <1>2 DEF Job
<1>4. d \notin edited => LookOk(p, d) /\ Knows(d, Entity(p))
  BY <1>0, <1>1, Promised DEF CallOk, LookOk, Looks
<1>5. CASE Job(p).state = "failed"
  <2>1. Save(p, Failed(Entity(p)), "refund")
    BY <1>5 DEF Ask
  <2>2. CallsTyped' /\ OthersStay(p) /\ GivesUp(p, d)
    BY <1>0, <1>1, <1>2, <2>1, FailedRow, FailedSave
  <2>3. d \notin edited =>
          NoOwner(d) /\ Over(d) /\ doc[d].status # "HUMAN_REVIEW_RECOMMENDED"
    BY <1>0, <1>1, <1>5, FailureIsOver
  <2> QED
    BY <1>0, <1>1, <1>2, <2>2, <2>3, GivesUpStep
<1>6. CASE Job(p).state \in {"queued", "lost"} /\ call[p].old
  <2>1. Onward(p, "fail") /\ "fail" \in Labels
    BY <1>6 DEF Ask, Labels
  <2>2. CallsTyped' /\ OthersStay(p) /\ Goes(p, "fail")
    BY <1>1, <1>2, <2>1, OnwardMoves, YoungCall DEF Arrives, Goes
  <2>3. d \notin edited => Untended(d, Entity(p).status)
    BY <1>1, <1>4, <1>6 DEF LookOk, Looks
  <2> QED
    BY <1>0, <1>1, <2>2, <2>3, LookerStep
<1>7. CASE /\ Job(p).state \in {"completed", "unreadable"}
           /\ Entity(p).status = "EXTRACTING_TEXT"
  <2>1. PICK l \in {"park", "text"} : Onward(p, l)
    BY <1>7 DEF Ask
  <2>2. l \in Labels
    BY DEF Labels
  <2>3. CallsTyped' /\ OthersStay(p) /\ Goes(p, l)
    BY <1>1, <1>2, <2>1, <2>2, OnwardMoves, YoungCall DEF Arrives, Goes
  <2>4. d \notin edited => Ended(d, 1) /\ ~Broken(d, 1)
    <3>1. d \notin edited => Entity(p).job = 1
      BY <1>4, <1>7 DEF Knows
    <3> QED
      BY <1>1, <1>3, <1>7, <3>1 DEF Ended, Broken
  <2> QED
    BY <1>0, <1>1, <1>7, <2>3, <2>4, LookerStep
<1>8. CASE /\ Job(p).state \in {"completed", "unreadable"}
           /\ Entity(p).status = "EXTRACTING_CLAUSES"
  <2>1. Onward(p, "clauses") /\ "clauses" \in Labels
    BY <1>8 DEF Ask, Labels
  <2>2. CallsTyped' /\ OthersStay(p) /\ Goes(p, "clauses")
    BY <1>1, <1>2, <2>1, OnwardMoves, YoungCall DEF Arrives, Goes
  <2>3. d \notin edited => Ended(d, 2) /\ ~Broken(d, 2)
    <3>1. d \notin edited => Entity(p).job = 2
      BY <1>4, <1>8 DEF Knows
    <3> QED
      BY <1>1, <1>3, <1>8, <3>1 DEF Ended, Broken
  <2> QED
    BY <1>0, <1>1, <1>8, <2>2, <2>3, LookerStep
<1>9. CASE \/ Job(p).state \in {"queued", "lost"} /\ ~call[p].old
           \/ /\ Job(p).state \in {"completed", "unreadable"}
              /\ Entity(p).status \notin {"EXTRACTING_TEXT", "EXTRACTING_CLAUSES"}
  <2>1. Return(p)
    BY <1>9 DEF Ask
  <2> QED
    BY <1>1, <1>2, <2>1, QuietReturn
<1>10. Job(p).state \in {"queued", "completed", "unreadable", "failed", "lost"}
  BY <1>3 DEF JobRecord
<1> QED
  BY <1>5, <1>6, <1>7, <1>8, <1>9, <1>10

LEMMA ThrowStep ==
  ASSUME IInv, NEW p \in Processes, Throw(p)
  PROVE  IInv'
<1>0. PICK d : d = Mine(p)
  OBVIOUS
<1>1. upsets' \in 0 .. MaxUpsets
  BY BoundsAssumption DEF Throw, Upset, IInv, Types, RestTyped
<1>2. UNCHANGED <<meter, doc, aged, clauses, jobs, pinned, edited, batch>>
  BY DEF Throw
<1>3. CallsTyped
  BY DEF IInv, Types
<1>4. CASE /\ Saving(p, "started")
           /\ Save(p, [Entity(p) EXCEPT !.status = "FAILED"], "refund")
  <2>1. pc[p] \in {"select", "write"}
    BY <1>4 DEF Saving
  <2>2. /\ Entity(p) \in DocumentRow /\ Entity(p).job \in Nat
        /\ d \in Documents /\ doc[d] # None
    BY <1>0, <2>1, AtWork
  <2>3. "FAILED" \in Statuses
    BY DEF Statuses, Terminal
  <2>4. CallsTyped' /\ OthersStay(p) /\ GivesUp(p, d)
    BY <1>0, <1>3, <1>4, <2>2, <2>3, SetRow, FailedSave
  <2>5. d \notin edited => Owner(p)
    BY <1>0, <1>4, <2>2, Promised DEF CallOk, Owner
  <2> QED
    BY <1>0, <1>1, <1>2, <2>1, <2>4, <2>5, GivesUpStep
<1>5. CASE /\ \/ pc[p] \in {"insert", "cleanup"}
              \/ Saving(p, "dispatchText")
           /\ Goto(p, "inflight") /\ UNCHANGED call
  <2>1. pc[p] \in {"insert", "cleanup", "select", "write"}
    BY <1>5 DEF Saving
  <2>2. "inflight" \in Labels
    BY DEF Labels
  <2>3. /\ CallsTyped' /\ OthersStay(p) /\ pc'[p] = "inflight" /\ call'[p] = call[p]
        /\ Mine(p)' = d /\ Entity(p)' = Entity(p)
    BY <1>0, <1>3, <1>5, <2>2, GotoMoves DEF Arrives, Mine, Entity
  <2>4. d \in Documents /\ d # None /\ Entity(p).job <= Len(jobs[d])
    BY <1>0, <2>1, AtWork
  <2>5. Quiet(p, d)
    BY <1>0, <1>1, <1>2, <2>3, <2>4 DEF Quiet
  <2>6. CallShape(p)'
    BY <1>2, <2>3, <2>4 DEF CallShape
  <2>7. Keeps(p, d)
    BY <1>0, <2>3 DEF Keeps, Known, Holds, HeldByCall
  <2>8. doc[d] # None => d \in edited
    <3>1. CASE pc[p] = "insert"
      BY <1>0, <2>4, <3>1, Promised DEF CallOk
    <3>2. CASE pc[p] = "cleanup" \/ Saving(p, "dispatchText")
      BY <1>0, <3>2 DEF IInv, Shapes, CallShape, Saving
    <3> QED
      BY <1>5, <3>1, <3>2
  <2>9. ASSUME doc[d] = None PROVE AbsentOk(d)'
    <3>1. AbsentOk(d)
      BY <2>4 DEF IInv, Absents
    <3>2. ASSUME NEW q \in Processes, Mine(q)' = d PROVE q = p
      <4>1. Mine(q) = d
        BY <1>0, <2>3, <3>2, StayPut
      <4> QED
        BY <1>0, <2>9, <3>1, <4>1 DEF AbsentOk
    <3> QED
      BY <1>2, <2>3, <2>9, <3>1, <3>2 DEF AbsentOk
  <2> QED
    BY <2>5, <2>6, <2>7, <2>8, <2>9, QuietStep
<1> QED
  BY <1>4, <1>5 DEF Throw

LEMMA DieStep ==
  ASSUME IInv, NEW p \in Processes, Die(p)
  PROVE  IInv'
<1>1. upsets' \in 0 .. MaxUpsets
  BY BoundsAssumption DEF Die, Upset, IInv, Types, RestTyped
<1> QED
  BY <1>1, QuietReturn DEF Die

LEMMA DeniedStep ==
  ASSUME IInv, NEW p \in Processes, Denied(p)
  PROVE  IInv'
<1>1. upsets' \in 0 .. MaxUpsets
  BY DEF Denied, IInv, Types, RestTyped
<1> QED
  BY <1>1, QuietReturn DEF Denied

-----------------------------------------------------------------------------
(* The dispatch of a job.                                                  *)

LEMMA QueuedFrame ==
  ASSUME IInv, NEW p \in Processes, NEW d, d = Mine(p),
         pc[p] \in {"dispatchText", "dispatchClauses"}, Queue(p),
         UNCHANGED <<meter, doc, aged, clauses, pinned, edited, batch, upsets>>,
         CallsTyped', OthersStay(p), Mine(p)' = d
  PROVE  /\ Frame(p, d) /\ Len(jobs'[d]) = Len(jobs[d]) + 1
         /\ d \notin edited /\ Moves(p, d) => Meets(p, d) /\ RowOk(d)' /\ ReservationOk(d)'
<1>1. d \in Documents /\ doc[d] # None /\ jobs[d] \in Seq(JobRecord)
  BY AtWork
<1> DEFINE j == [kind |-> Extraction[pc[p]].kind, state |-> "queued"]
<1>2. /\ j \in JobRecord /\ j.state = "queued"
      /\ j.kind = IF pc[p] = "dispatchText" THEN "text" ELSE "clauses"
  BY DEF Extraction, JobRecord
<1>3. jobs' = [jobs EXCEPT ![d] = Append(jobs[d], j)]
  BY DEF Queue
<1> HIDE DEF j
<1>4. /\ jobs \in [Documents -> Seq(JobRecord)]
      /\ Append(jobs[d], j) \in Seq(JobRecord)
      /\ Len(Append(jobs[d], j)) = Len(jobs[d]) + 1
      /\ \A i \in DOMAIN jobs[d] : Append(jobs[d], j)[i] = jobs[d][i]
      /\ Append(jobs[d], j)[Len(jobs[d]) + 1] = j
  BY <1>1, <1>2 DEF IInv, Types, RowsTyped
<1>5. /\ jobs' \in [Documents -> Seq(JobRecord)] /\ Len(jobs'[d]) = Len(jobs[d]) + 1
      /\ \A e \in Documents \ {d} : jobs'[e] = jobs[e]
      /\ \A i \in DOMAIN jobs[d] : jobs'[d][i] = jobs[d][i]
      /\ jobs'[d][Len(jobs[d]) + 1] = j
  BY <1>1, <1>3, <1>4
<1>6. Len(jobs[d]) \in Nat
  BY <1>1
<1>7. RowsTyped'
  <2>1. ASSUME NEW e \in Documents, doc'[e] # None PROVE doc'[e].job <= Len(jobs'[e])
    <3>1. doc[e] \in DocumentRow /\ doc[e].job \in Nat /\ doc[e].job <= Len(jobs[e])
      BY <2>1 DEF IInv, Types, RowsTyped, DocumentRow
    <3> QED
      BY <1>5, <1>6, <3>1
  <2> QED
    BY <1>5, <2>1 DEF IInv, Types, RowsTyped
<1>8. RestTyped' /\ MeterTyped' /\ MeterStep(d)
  BY MeterStays DEF IInv, Types, RestTyped
<1>9. Acts(p, d)
  BY <1>5, <1>6 DEF Acts, Elsewhere
<1>10. Frame(p, d)
  BY <1>1, <1>7, <1>8, <1>9 DEF Frame, Types
<1>11. ASSUME d \notin edited, Moves(p, d)
       PROVE  Meets(p, d) /\ RowOk(d)' /\ ReservationOk(d)'
  <2>1. /\ RowOk(d) /\ ReservationOk(d) /\ CallOk(p, d) /\ doc[d].job \in Nat
    BY <1>1, <1>11, Promised
  <2>2. Owner(p) /\ OwnerOk(p, d)
    BY <2>1 DEF Owner, Uploader, Winner, CallOk
  <2>3. JobsKeep(d)
    BY <1>5, <1>6, <1>1 DEF JobsKeep, Ended, Broken
  <2>4. Guarantee(p, d)
    BY <1>1, <1>11, <2>2, <2>3 DEF Guarantee, Edge, On
  <2>5. Meets(p, d)
    BY <1>1, <1>10, <1>11, <2>4, FrameMeets
  <2>6. ReservationOk(d)'
    BY <2>1, <2>5, ReservationStays DEF meter
  <2>7. doc[d].status \in {"UPLOADED", "TEXT_EXTRACTED", "FAILED"} /\ ~NoOwner(d)
    BY <2>2, <2>5, OwnerFinds DEF NoOwner, Owner
  <2>8. /\ pc[p] = "dispatchText" => Len(jobs[d]) = 0
        /\ pc[p] = "dispatchClauses" => Len(jobs[d]) = 1 /\ jobs[d][1].kind = "text"
    BY <1>1, <2>1, <2>2 DEF OwnerOk, Owner, RowOk
  <2>9. /\ Len(jobs'[d]) <= 2
        /\ Len(jobs'[d]) >= 1 => jobs'[d][1].kind = "text"
        /\ Len(jobs'[d]) = 2 => jobs'[d][2].kind = "clauses"
    BY <1>1, <1>2, <1>5, <2>8
  <2>10. doc[d].status = "TEXT_EXTRACTED" => Ended(d, 1)'
    BY <2>1, <2>3 DEF RowOk, JobsKeep
  <2>11. RowOk(d)'
    BY <2>1, <2>7, <2>9, <2>10 DEF RowOk
  <2> QED
    BY <2>5, <2>6, <2>11
<1> QED
  BY <1>5, <1>10, <1>11

LEMMA DispatchStep ==
  ASSUME IInv, NEW p \in Processes, Dispatch(p)
  PROVE  IInv'
<1>0. PICK d : d = Mine(p)
  OBVIOUS
<1>1. /\ pc[p] \in {"dispatchText", "dispatchClauses"} /\ Queue(p)
      /\ UNCHANGED <<meter, doc, aged, clauses, pinned, edited, batch, upsets>>
  BY DEF Dispatch, Extraction
<1>2. /\ d \in Documents /\ d # None /\ doc[d] # None /\ call[p] \in CallRow
      /\ Entity(p) \in DocumentRow /\ jobs[d] \in Seq(JobRecord)
  BY <1>0, <1>1, AtWork
<1>3. CallsTyped
  BY DEF IInv, Types
<1>a. PICK s : s = IF pc[p] = "dispatchText" THEN "EXTRACTING_TEXT" ELSE "EXTRACTING_CLAUSES"
  OBVIOUS
<1>b. PICK n : n = Len(jobs'[d])
  OBVIOUS
<1>c. PICK e : e = [Entity(p) EXCEPT !.status = s, !.job = n]
  OBVIOUS
<1>4. Save(p, e, "started")
  <2>1. Extraction[pc[p]].status = s
    BY <1>1, <1>a DEF Extraction
  <2> QED
    BY <1>0, <1>b, <1>c, <2>1 DEF Dispatch
<1>5. /\ s \in Statuses
      /\ pc[p] = "dispatchText" => s = "EXTRACTING_TEXT"
      /\ pc[p] = "dispatchClauses" => s = "EXTRACTING_CLAUSES"
  BY <1>a DEF Statuses
<1>6. n = Len(jobs[d]) + 1 /\ n \in Nat
  <2>1. jobs \in [Documents -> Seq(JobRecord)]
    BY DEF IInv, Types, RowsTyped
  <2>2. jobs'[d] = Append(jobs[d], [kind |-> Extraction[pc[p]].kind, state |-> "queued"])
    BY <1>0, <1>1, <1>2, <2>1 DEF Queue
  <2>3. [kind |-> Extraction[pc[p]].kind, state |-> "queued"] \in JobRecord
    BY <1>1 DEF Extraction, JobRecord
  <2> QED
    BY <1>2, <1>b, <2>2, <2>3
<1>7. /\ e \in DocumentRow /\ e.status = s /\ e.job = n
      /\ e.reservation = Entity(p).reservation
  BY <1>2, <1>5, <1>6, <1>c DEF DocumentRow, Statuses, Terminal
<1>8. /\ CallsTyped' /\ OthersStay(p) /\ pc'[p] = "select"
      /\ call'[p] = Resaved(call[p], e, "started")
  BY <1>3, <1>4, <1>7, SaveMoves DEF Arrives
<1>9. /\ Mine(p)' = d /\ Entity(p)' = e /\ call'[p].next = "started"
      /\ call'[p].key = call[p].key
  BY <1>0, <1>2, <1>7, <1>8, ResavedCall DEF Mine, Entity
<1>10. /\ Frame(p, d) /\ Len(jobs'[d]) = n
       /\ d \notin edited /\ Moves(p, d) => Meets(p, d) /\ RowOk(d)' /\ ReservationOk(d)'
  BY <1>0, <1>1, <1>b, <1>6, <1>8, <1>9, QueuedFrame
<1>11. CallShape(p)'
  BY <1>1, <1>2, <1>6, <1>7, <1>8, <1>9, <1>10 DEF CallShape
<1>12. KeyStep(p, d)
  BY <1>0, <1>1, <1>7, <1>9 DEF KeyStep, Known, Holds, HeldByCall
<1>13. ASSUME d \notin edited
       PROVE  Guarantee(p, d) /\ RowOk(d)' /\ ReservationOk(d)' /\ CallOk(p, d)'
  <2>1. /\ Saving(p, "started")' /\ \A l : Saving(p, l)' => l = "started"
    BY <1>8, <1>9 DEF Saving
  <2>2. /\ Uploader(p)' <=> s = "EXTRACTING_TEXT"
        /\ Winner(p)' <=> s = "EXTRACTING_CLAUSES"
    BY <1>7, <1>8, <1>9, <2>1 DEF Uploader, Winner
  <2>3. Moves(p, d)
    BY <1>0, <1>1, <1>5, <1>8, <2>2 DEF Moves, On, Uploader, Winner, Owner
  <2>4. Meets(p, d) /\ RowOk(d)' /\ ReservationOk(d)'
    BY <1>10, <1>13, <2>3
  <2>5. CallOk(p, d) /\ RowOk(d) /\ doc[d].job <= Len(jobs[d]) /\ doc[d].job \in Nat
    BY <1>0, <1>2, <1>13, Promised
  <2>6. Owner(p) /\ OwnerOk(p, d)
    BY <1>1, <2>5 DEF CallOk, Owner, Uploader, Winner
  <2>7. \A r \in Processes : Mine(r)' = d /\ r # p =>
          ~Uploader(r)' /\ ~Winner(r)' /\ pc'[r] \notin {"select", "write"}
    BY <1>8, <2>6, AloneStays DEF OwnerOk, Owner
  <2>8. /\ doc[d].status = "FAILED" => pinned
        /\ s = "EXTRACTING_TEXT" => doc[d].status \in {"UPLOADED", "FAILED"} /\ n = 1
        /\ s = "EXTRACTING_CLAUSES" =>
             doc[d].status \in {"TEXT_EXTRACTED", "FAILED"} /\ n = 2 /\ Ended(d, 1)
    <3>1. /\ pc[p] = "dispatchText" => jobs[d] = <<>> /\ Uploader(p)
          /\ pc[p] = "dispatchClauses" => Len(jobs[d]) = 1 /\ Winner(p)
      BY <2>6 DEF OwnerOk, Owner, Uploader, Winner
    <3>2. /\ pc[p] = "dispatchText" => n = 1
          /\ pc[p] = "dispatchClauses" => n = 2
      <4>1. jobs[d] = <<>> => Len(jobs[d]) = 0
        OBVIOUS
      <4>2. /\ pc[p] = "dispatchText" => Len(jobs[d]) = 0
            /\ pc[p] = "dispatchClauses" => Len(jobs[d]) = 1
        BY <3>1, <4>1
      <4>3. PICK m \in Nat : m = Len(jobs[d])
        BY <1>2
      <4>4. /\ n = m + 1
            /\ pc[p] = "dispatchText" => m = 0
            /\ pc[p] = "dispatchClauses" => m = 1
        BY <1>6, <4>2, <4>3
      <4> QED
        BY <4>4
    <3>3. /\ doc[d].status = "FAILED" => pinned
          /\ Uploader(p) => doc[d].status \in {"UPLOADED", "FAILED"}
          /\ Winner(p) => doc[d].status \in {"TEXT_EXTRACTED", "FAILED"} /\ Ended(d, 1)
      BY <2>6 DEF OwnerOk, Owner
    <3> QED
      BY <1>1, <1>5, <3>1, <3>2, <3>3
  <2>9. Ended(d, 1) => Ended(d, 1)'
    BY <2>4 DEF Meets, Guarantee, JobsKeep
  <2>10. doc[d].job < n
    BY <1>2, <1>6, <2>5
  <2>11. OwnerOk(p, d)'
    BY <1>1, <1>5, <1>7, <1>8, <1>9, <1>10, <2>1, <2>2, <2>7, <2>8, <2>9, <2>10 DEF OwnerOk
  <2>12. LookOk(p, d)' /\ EndingOk(p, d)'
    BY <1>8, <2>1 DEF LookOk, Looks, EndingOk
  <2>13. CallOk(p, d)'
    BY <1>1, <1>5, <1>7, <1>8, <1>9, <2>1, <2>2, <2>5, <2>11, <2>12 DEF CallOk
  <2> QED
    BY <2>4, <2>13 DEF Meets
<1>14. DocStep(p, d)
  BY <1>1, <1>2, <1>13 DEF DocStep
<1> QED
  BY <1>10, <1>11, <1>12, <1>14, FrameStep

LEMMA DispatchFailsStep ==
  ASSUME IInv, NEW p \in Processes, DispatchFails(p)
  PROVE  IInv'
<1>0. PICK d : d = Mine(p)
  OBVIOUS
<1>1. /\ pc[p] \in {"dispatchText", "dispatchClauses"} /\ (Queue(p) \/ UNCHANGED jobs)
      /\ UNCHANGED <<meter, doc, aged, clauses, pinned, edited, batch, upsets>>
  BY DEF DispatchFails, Extraction
<1>2. /\ d \in Documents /\ d # None /\ doc[d] # None /\ call[p] \in CallRow
      /\ Entity(p) \in DocumentRow /\ Entity(p).job \in Nat
      /\ Entity(p).job <= Len(jobs[d]) /\ jobs[d] \in Seq(JobRecord)
  BY <1>0, <1>1, AtWork
<1>3. CallsTyped /\ upsets' \in 0 .. MaxUpsets /\ "FAILED" \in Statuses
  BY <1>1 DEF IInv, Types, RestTyped, Statuses, Terminal
<1>4. CallsTyped' /\ OthersStay(p) /\ GivesUp(p, d)
  BY <1>0, <1>2, <1>3, SetRow, FailedSave DEF DispatchFails
<1>5. Owner(p)
  BY <1>1 DEF Owner, Uploader, Winner
<1>6. CASE UNCHANGED jobs
  BY <1>0, <1>1, <1>3, <1>4, <1>5, <1>6, GivesUpStep
<1>7. CASE Queue(p)
  <2>1. /\ Frame(p, d) /\ Len(jobs'[d]) = Len(jobs[d]) + 1
        /\ d \notin edited /\ Moves(p, d) => Meets(p, d) /\ RowOk(d)' /\ ReservationOk(d)'
    BY <1>0, <1>1, <1>4, <1>7, QueuedFrame DEF GivesUp
  <2>2. CallShape(p)'
    BY <1>1, <1>2, <1>4, <2>1 DEF CallShape, GivesUp
  <2>3. KeyStep(p, d)
    BY <1>0, <1>1, <1>4 DEF KeyStep, Known, Holds, HeldByCall, GivesUp
  <2>4. ASSUME d \notin edited
        PROVE  Guarantee(p, d) /\ RowOk(d)' /\ ReservationOk(d)' /\ CallOk(p, d)'
    <3>1. Moves(p, d)
      BY <1>0, <1>2, <1>4, <1>5, GaveUp DEF Moves, On, GivesUp
    <3>2. Meets(p, d) /\ RowOk(d)' /\ ReservationOk(d)'
      BY <2>1, <2>4, <3>1
    <3>3. CallOk(p, d) /\ doc'[d] = doc[d]
      BY <1>0, <1>1, <1>2, <2>4, Promised
    <3>4. Over(d)' /\ doc'[d].status # "HUMAN_REVIEW_RECOMMENDED"
      BY <1>0, <1>4, <1>5, <3>2, <3>3, OwnerGivesUp
    <3>5. Entity(p)'.reservation = doc'[d].reservation
      BY <1>4, <3>3 DEF CallOk, GivesUp
    <3> QED
      BY <1>4, <3>2, <3>4, <3>5, GaveUp DEF Meets
  <2>5. DocStep(p, d)
    BY <1>1, <1>2, <2>4 DEF DocStep
  <2> QED
    BY <2>1, <2>2, <2>3, <2>5, FrameStep
<1> QED
  BY <1>1, <1>6, <1>7

-----------------------------------------------------------------------------
(* The UPDATE of a row.                                                    *)

LEMMA UpdatedFrame ==
  ASSUME IInv, NEW p \in Processes, NEW d \in Documents, d = Mine(p),
         NEW row \in DocumentRow, row.job <= Len(jobs[d]), Update(d, row),
         UNCHANGED <<meter, jobs, pinned, edited, batch, upsets>>,
         clauses' = clauses \/ clauses' = [clauses EXCEPT ![d] = clauses[d] + 1],
         CallsTyped', OthersStay(p), Mine(p)' \in {d, None}
  PROVE  /\ Frame(p, d) /\ doc'[d] = row /\ row # None /\ d \notin aged'
         /\ /\ \/ Mine(p)' = None
               \/ Known(Entity(p)'.reservation, d) /\ Known(call'[p].key, d)
            /\ Known(row.reservation, d)
            => KeyStep(p, d)
         /\ /\ doc[d] # None /\ d \notin edited /\ Edge(p, d)
            /\ row.reservation = doc[d].reservation
            /\ row.job \in {doc[d].job, 0} \/ pc[p] = "write"
            /\ Mine(p)' = d => Moves(p, d)
            => Guarantee(p, d) /\ Meets(p, d)
<1>1. row # None /\ jobs[d] \in Seq(JobRecord) /\ Mine(p) # None
  BY RowAssumption, NoneAssumption DEF IInv, Types, RowsTyped
<1>2. /\ doc \in [Documents -> DocumentRow \cup {None}]
      /\ clauses \in [Documents -> Nat]
      /\ aged \subseteq Documents
  BY DEF IInv, Types, RowsTyped
<1>3. /\ doc' \in [Documents -> DocumentRow \cup {None}]
      /\ doc'[d] = row /\ d \notin aged' /\ aged' \subseteq aged
      /\ \A e \in Documents \ {d} : doc'[e] = doc[e] /\ (e \in aged' <=> e \in aged)
  BY <1>2 DEF Update
<1>4. /\ clauses' \in [Documents -> Nat]
      /\ \A e \in Documents \ {d} : clauses'[e] = clauses[e]
  <2>1. clauses[d] + 1 \in Nat
    BY <1>2
  <2> QED
    BY <1>2, <2>1
<1>5. RowsTyped'
  BY <1>2, <1>3, <1>4 DEF IInv, Types, RowsTyped
<1>6. RestTyped'
  BY <1>1, <1>3 DEF IInv, Types, RestTyped
<1>7. MeterTyped' /\ MeterStep(d)
  BY MeterStays
<1>8. Acts(p, d)
  BY <1>1, <1>3, <1>4 DEF Acts, Elsewhere
<1>9. Frame(p, d)
  BY <1>5, <1>6, <1>7, <1>8 DEF Frame, Types
<1>10. ASSUME \/ Mine(p)' = None
              \/ Known(Entity(p)'.reservation, d) /\ Known(call'[p].key, d),
              Known(row.reservation, d)
       PROVE  KeyStep(p, d)
  BY <1>1, <1>3, <1>10 DEF KeyStep
<1>11. ASSUME doc[d] # None, d \notin edited, Edge(p, d),
              row.reservation = doc[d].reservation,
              row.job \in {doc[d].job, 0} \/ pc[p] = "write",
              Mine(p)' = d => Moves(p, d)
       PROVE  Guarantee(p, d) /\ Meets(p, d)
  <2>1. JobsKeep(d)
    BY <1>1 DEF JobsKeep, Ended, Broken
  <2>2. Guarantee(p, d)
    BY <1>1, <1>3, <1>11, <2>1 DEF Guarantee, On
  <2> QED
    BY <1>9, <1>11, <2>2, FrameMeets
<1> QED
  BY <1>1, <1>3, <1>9, <1>10, <1>11

\* Who waits for a claim finds no owner, unless the contract is signed.
LEMMA ClaimFinds ==
  ASSUME IInv, NEW p \in Processes, NEW d \in Documents, d = Mine(p),
         doc[d] # None, d \notin edited, doc[d].status = Entity(p).status,
         pc[p] \in {"fail", "text", "park", "clauses"}
  PROVE  /\ doc[d].status \notin Terminal
         /\ NoOwner(d) \/ (pinned /\ pc[p] = "fail")
<1>1. CallOk(p, d) /\ LookOk(p, d) /\ Knows(d, Entity(p))
  BY Promised DEF CallOk, LookOk, Looks
<1>2. ASSUME NEW q \in Processes, Mine(q) = d, Uploader(q) \/ Winner(q)
      PROVE  OwnerOk(q, d)
  BY <1>2, Promised DEF CallOk
<1>3. doc[d].status \in {"UPLOADED", "EXTRACTING_TEXT", "TEXT_EXTRACTED", "EXTRACTING_CLAUSES"}
  BY <1>1, Promised DEF Knows, DocumentRow
<1>4. doc[d].status \in {"EXTRACTING_TEXT", "EXTRACTING_CLAUSES"} => NoOwner(d)
  BY <1>2 DEF NoOwner, OwnerOk
<1>5. pc[p] = "fail" => pinned \/ Untended(d, Entity(p).status)
  BY <1>1 DEF LookOk, Looks
<1>6. pc[p] # "fail" => Entity(p).status \in {"EXTRACTING_TEXT", "EXTRACTING_CLAUSES"}
  BY <1>1 DEF LookOk, Looks
<1> QED
  BY <1>1, <1>3, <1>4, <1>5, <1>6 DEF Knows, Untended

LEMMA FailDocumentStep ==
  ASSUME IInv, NEW p \in Processes, FailDocument(p)
  PROVE  IInv'
<1>0. PICK d : d = Mine(p)
  OBVIOUS
<1>1. /\ pc[p] = "fail" /\ d \in Documents /\ d # None
      /\ call[p] \in CallRow /\ Entity(p) \in DocumentRow
      /\ doc[d] # None /\ doc[d] \in DocumentRow /\ jobs[d] \in Seq(JobRecord)
      /\ UNCHANGED <<meter, clauses, jobs, pinned, edited, batch, upsets>>
  BY <1>0, AtWork DEF FailDocument
<1>2. CallsTyped /\ upsets' \in 0 .. MaxUpsets
  BY <1>1 DEF IInv, Types, RestTyped
<1>3. CASE Row(p).status # Entity(p).status
  BY <1>1, <1>2, <1>3, QuietReturn DEF FailDocument
<1>4. CASE Row(p).status = Entity(p).status
  <2>1. /\ Update(d, Failed(doc[d])) /\ Goto(p, "refund")
        /\ call' = [call EXCEPT ![p].entity = Failed(Entity(p))]
    BY <1>0, <1>4 DEF FailDocument, Row
  <2>2. PICK e \in DocumentRow : e = Failed(Entity(p))
    BY <1>1, FailedRow
  <2>3. /\ e.status = "FAILED" /\ e.job = 0 /\ e.reservation = Entity(p).reservation
    BY <1>1, <2>2, FailedRow
  <2>4. PICK row \in DocumentRow : row = Failed(doc[d])
    BY <1>1, FailedRow
  <2>5. /\ row.status = "FAILED" /\ row.job = 0 /\ row.reservation = doc[d].reservation
    BY <1>1, <2>4, FailedRow
  <2>6. call' = [call EXCEPT ![p] = [call[p] EXCEPT !.entity = e]]
    BY Zenon, <2>1, <2>2
  <2>7. /\ [call[p] EXCEPT !.entity = e] \in CallRow
        /\ [call[p] EXCEPT !.entity = e].doc = call[p].doc
        /\ [call[p] EXCEPT !.entity = e].entity = e
        /\ [call[p] EXCEPT !.entity = e].key = call[p].key
    BY <1>1, EntityCall
  <2>8. /\ CallsTyped' /\ OthersStay(p) /\ pc'[p] = "refund"
        /\ call'[p] = [call[p] EXCEPT !.entity = e]
    <3>1. "refund" \in Labels
      BY DEF Labels
    <3> QED
      BY <1>2, <2>1, <2>6, <2>7, <3>1, CallMoves DEF Arrives
  <2>9. Mine(p)' = d /\ Entity(p)' = e /\ call'[p].key = call[p].key
    BY <1>0, <2>7, <2>8 DEF Mine, Entity
  <2>10. row.job <= Len(jobs[d]) /\ e.job <= Len(jobs[d])
    BY <1>1, <2>3, <2>5
  <2>11. /\ Frame(p, d) /\ doc'[d] = row /\ row # None /\ d \notin aged'
         /\ Known(Entity(p)'.reservation, d) /\ Known(call'[p].key, d)
              /\ Known(row.reservation, d) => KeyStep(p, d)
         /\ /\ d \notin edited /\ Edge(p, d) /\ Moves(p, d)
            => Guarantee(p, d) /\ Meets(p, d)
    BY <1>0, <1>1, <2>1, <2>4, <2>5, <2>8, <2>9, <2>10, UpdatedFrame
  <2>12. KeyStep(p, d)
    BY <1>0, <1>1, <2>3, <2>5, <2>9, <2>11 DEF Known, Holds, HeldByCall
  <2>13. CallShape(p)'
    BY <1>1, <2>8, <2>9, <2>10, <2>11 DEF CallShape
  <2>14. ASSUME d \notin edited
         PROVE  Guarantee(p, d) /\ RowOk(d)' /\ ReservationOk(d)' /\ CallOk(p, d)'
    <3>1. doc[d].status \notin Terminal /\ (NoOwner(d) \/ pinned)
      BY <1>0, <1>1, <1>4, <2>14, ClaimFinds DEF Row
    <3>2. Edge(p, d)
      BY <2>5, <2>11, <3>1 DEF Edge, Terminal
    <3>3. ~Uploader(p)' /\ ~Winner(p)' /\ \A l : ~Saving(p, l)'
      BY <2>8 DEF Uploader, Winner, Saving
    <3>4. Moves(p, d)
      BY <2>8, <3>3 DEF Moves
    <3>5. Guarantee(p, d) /\ Meets(p, d)
      BY <2>11, <2>14, <3>2, <3>4
    <3>6. RowOk(d) /\ ReservationOk(d) /\ \A q \in Processes : Mine(q) = d => CallOk(q, d)
      BY <1>1, <2>14, Promised
    <3>7. ReservationOk(d)'
      BY <1>1, <3>5, <3>6, ReservationStays DEF meter
    <3>8. RowOk(d)'
      BY <1>1, <2>5, <2>11, <3>1, <3>6 DEF RowOk, Terminal
    <3>9. Over(d)'
      <4>1. CASE NoOwner(d)
        <5>1. ~Claims(p, d)
          BY <1>1 DEF Claims
        <5> QED
          BY <2>5, <2>11, <3>5, <4>1, <5>1, OwnersStay DEF Over, Stalled
      <4>2. CASE pinned /\ ~NoOwner(d)
        <5>1. ASSUME NEW q \in Processes, Mine(q)' = d, pc'[q] \in {"ask", "clauses"}
              PROVE  Entity(q)'.status # "EXTRACTING_CLAUSES"
          <6>1. q # p
            BY <2>8, <5>1
          <6>2. Mine(q) = d /\ pc[q] \in {"ask", "clauses"} /\ Entity(q)' = Entity(q)
            BY <2>8, <5>1, <6>1, StayPut
          <6>3. Knows(d, Entity(q))
            BY <3>6, <6>2 DEF CallOk, LookOk, Looks
          <6> QED
            BY <4>2, <6>2, <6>3 DEF Knows
        <5> QED
          BY <1>1, <2>5, <2>11, <4>2, <5>1 DEF Over, Overtaken
      <4> QED
        BY <3>1, <4>1, <4>2
    <3>10. LookOk(p, d)' /\ OwnerOk(p, d)' /\ EndingOk(p, d)'
      BY <2>8, <3>3, <3>9 DEF LookOk, Looks, OwnerOk, EndingOk
    <3>11. Entity(p)'.reservation = doc'[d].reservation
      BY <1>0, <2>3, <2>5, <2>9, <2>11, <3>6 DEF CallOk
    <3> QED
      BY <2>8, <3>3, <3>5, <3>7, <3>8, <3>10, <3>11 DEF CallOk
  <2>15. DocStep(p, d)
    BY <1>1, <2>14 DEF DocStep
  <2> QED
    BY <2>11, <2>12, <2>13, <2>15, FrameStep
<1> QED
  BY <1>3, <1>4

\* Nobody else is saving while the claim of the text can be made.
LEMMA ClaimantIsAlone ==
  ASSUME IInv, NEW p \in Processes, NEW d \in Documents, d = Mine(p),
         doc[d] # None, d \notin edited, doc[d].status = "EXTRACTING_TEXT",
         pc[p] \in {"text", "park"}
  PROVE  /\ Entity(p).status = "EXTRACTING_TEXT" /\ Ended(d, 1) /\ NoOwner(d)
         /\ \A r \in Processes : Mine(r) = d /\ r # p =>
              ~Uploader(r) /\ ~Winner(r) /\ pc[r] \notin {"select", "write"}
<1>1. \A q \in Processes : Mine(q) = d => CallOk(q, d)
  BY Promised
<1>2. Entity(p).status = "EXTRACTING_TEXT" /\ Ended(d, 1)
  BY <1>1 DEF CallOk, LookOk, Looks
<1>3. NoOwner(d)
  BY <1>2, ClaimFinds
<1>4. ~Over(d)
  BY <1>2 DEF Over, Stalled, JobFailed, Overtaken
<1>5. ASSUME NEW r \in Processes, Mine(r) = d, r # p, pc[r] \in {"select", "write"}
      PROVE  FALSE
  <2>1. /\ ~Uploader(r) /\ ~Winner(r)
        /\ Saving(r, "started") => Uploader(r) \/ Winner(r)
        /\ Saving(r, "refund") => Winner(r) \/ Entity(r).status = "FAILED"
        /\ Saving(r, "refund") /\ Entity(r).status = "FAILED" => Over(d)
    BY <1>1, <1>3, <1>5 DEF NoOwner, CallOk, EndingOk
  <2>2. /\ call[r].next \in {"started", "edited", "dispatchText", "dispatchClauses", "refund"}
        /\ call[r].next \notin {"edited", "dispatchText"}
    BY <1>5 DEF IInv, Shapes, CallShape
  <2> QED
    BY <1>4, <1>5, <2>1, <2>2 DEF Saving, Winner
<1> QED
  BY <1>2, <1>3, <1>5 DEF NoOwner

LEMMA ClaimTextStep ==
  ASSUME IInv, NEW p \in Processes, ClaimText(p)
  PROVE  IInv'
<1>0. PICK d : d = Mine(p)
  OBVIOUS
<1>1. /\ pc[p] \in {"text", "park"} /\ d \in Documents /\ d # None
      /\ call[p] \in CallRow /\ Entity(p) \in DocumentRow
      /\ doc[d] # None /\ doc[d] \in DocumentRow /\ jobs[d] \in Seq(JobRecord)
      /\ UNCHANGED <<meter, clauses, jobs, pinned, edited, batch, upsets>>
  BY <1>0, AtWork DEF ClaimText
<1>2. CallsTyped /\ upsets' \in 0 .. MaxUpsets
  BY <1>1 DEF IInv, Types, RestTyped
<1>3. CASE Row(p).status # "EXTRACTING_TEXT"
  BY <1>1, <1>2, <1>3, QuietReturn DEF ClaimText
<1>4. CASE Row(p).status = "EXTRACTING_TEXT"
  <2>1. Update(d, [doc[d] EXCEPT !.status = "TEXT_EXTRACTED"]) /\ AfterText(p)
    BY <1>0, <1>4 DEF ClaimText, Row
  <2>2. "TEXT_EXTRACTED" \in Statuses
    BY DEF Statuses
  <2>3. PICK row \in DocumentRow : row = [doc[d] EXCEPT !.status = "TEXT_EXTRACTED"]
    BY <1>1, <2>2, SetRow
  <2>4. /\ row.status = "TEXT_EXTRACTED" /\ row.job = doc[d].job
        /\ row.reservation = doc[d].reservation
    BY <1>1, <2>2, <2>3, SetRow
  <2>5. PICK e \in DocumentRow, n \in {"refund", "dispatchClauses"} :
          /\ e.job = 0 /\ e.reservation = Entity(p).reservation
          /\ \/ n = "refund" /\ e.status = "HUMAN_REVIEW_RECOMMENDED"
             \/ n = "dispatchClauses" /\ e.status = "TEXT_EXTRACTED"
          /\ Save(p, e, n)
    <3>1. CASE pc[p] = "park"
      <4>1. Save(p, [Entity(p) EXCEPT !.status = "HUMAN_REVIEW_RECOMMENDED", !.job = 0], "refund")
        BY <2>1, <3>1 DEF AfterText
      <4>2. PICK e \in DocumentRow : e = [Entity(p) EXCEPT !.status = "HUMAN_REVIEW_RECOMMENDED", !.job = 0]
        BY <1>1 DEF DocumentRow, Terminal
      <4>3. /\ e.job = 0 /\ e.reservation = Entity(p).reservation
            /\ e.status = "HUMAN_REVIEW_RECOMMENDED"
        BY <1>1, <4>2 DEF DocumentRow
      <4> QED
        BY <4>1, <4>2, <4>3
    <3>2. CASE pc[p] = "text"
      <4>1. Save(p, [Entity(p) EXCEPT !.status = "TEXT_EXTRACTED", !.job = 0], "dispatchClauses")
        BY <2>1, <3>2 DEF AfterText
      <4>2. PICK e \in DocumentRow : e = [Entity(p) EXCEPT !.status = "TEXT_EXTRACTED", !.job = 0]
        BY <1>1 DEF DocumentRow, Terminal
      <4>3. /\ e.job = 0 /\ e.reservation = Entity(p).reservation
            /\ e.status = "TEXT_EXTRACTED"
        BY <1>1, <4>2 DEF DocumentRow
      <4> QED
        BY <4>1, <4>2, <4>3
    <3> QED
      BY <1>1, <3>1, <3>2
  <2>6. n \in Labels
    BY DEF Labels
  <2>7. /\ CallsTyped' /\ OthersStay(p) /\ pc'[p] = "select"
        /\ call'[p] = Resaved(call[p], e, n)
    BY <1>2, <2>5, <2>6, SaveMoves DEF Arrives
  <2>8. /\ Mine(p)' = d /\ Entity(p)' = e /\ call'[p].next = n
        /\ call'[p].key = call[p].key
    BY <1>0, <1>1, <2>6, <2>7, ResavedCall DEF Mine, Entity
  <2>9. row.job \in Nat /\ row.job <= Len(jobs[d]) /\ e.job <= Len(jobs[d])
    BY <1>1, <2>4, <2>5 DEF IInv, Types, RowsTyped, DocumentRow
  <2>10. /\ Frame(p, d) /\ doc'[d] = row /\ row # None /\ d \notin aged'
         /\ Known(Entity(p)'.reservation, d) /\ Known(call'[p].key, d)
              /\ Known(row.reservation, d) => KeyStep(p, d)
         /\ /\ d \notin edited /\ Edge(p, d) /\ Moves(p, d)
            => Guarantee(p, d) /\ Meets(p, d)
    BY <1>0, <1>1, <2>1, <2>3, <2>4, <2>7, <2>8, <2>9, UpdatedFrame
  <2>11. KeyStep(p, d)
    BY <1>0, <1>1, <2>4, <2>5, <2>8, <2>10 DEF Known, Holds, HeldByCall
  <2>12. CallShape(p)'
    BY <1>1, <2>5, <2>7, <2>8, <2>9, <2>10 DEF CallShape
  <2>13. ASSUME d \notin edited
         PROVE  Guarantee(p, d) /\ RowOk(d)' /\ ReservationOk(d)' /\ CallOk(p, d)'
    <3>1. /\ Entity(p).status = "EXTRACTING_TEXT" /\ Ended(d, 1) /\ NoOwner(d)
          /\ \A r \in Processes : Mine(r) = d /\ r # p =>
               ~Uploader(r) /\ ~Winner(r) /\ pc[r] \notin {"select", "write"}
      BY <1>0, <1>1, <1>4, <2>13, ClaimantIsAlone DEF Row
    <3>2. Claims(p, d)
      BY <1>0, <1>1, <1>4 DEF Claims, On, Row
    <3>3. Edge(p, d)
      BY <2>4, <2>10, <3>2 DEF Edge
    <3>4. /\ ~Uploader(p)' /\ Winner(p)' /\ \A l : Saving(p, l)' => l = n
      BY <2>5, <2>7, <2>8 DEF Uploader, Winner, Saving
    <3>5. Moves(p, d)
      BY <2>7, <3>2, <3>4 DEF Moves, Claims
    <3>6. Guarantee(p, d) /\ Meets(p, d)
      BY <2>10, <2>13, <3>3, <3>5
    <3>7. RowOk(d) /\ ReservationOk(d) /\ CallOk(p, d)
      BY <1>0, <1>1, <2>13, Promised
    <3>8. ReservationOk(d)'
      BY <1>1, <3>6, <3>7, ReservationStays DEF meter
    <3>9. Ended(d, 1)' /\ Len(jobs'[d]) = 1 /\ row.job = 1
      BY <1>0, <1>1, <1>4, <2>4, <3>1, <3>6, <3>7
      DEF Meets, Guarantee, JobsKeep, RowOk, Row
    <3>10. RowOk(d)'
      BY <1>0, <1>1, <1>4, <2>4, <2>10, <3>7, <3>9 DEF RowOk, Row
    <3>11. \A r \in Processes : Mine(r)' = d /\ r # p =>
             ~Uploader(r)' /\ ~Winner(r)' /\ pc'[r] \notin {"select", "write"}
      BY <2>7, <3>1, AloneStays
    <3>12. OwnerOk(p, d)'
      BY <2>4, <2>5, <2>7, <2>8, <2>10, <3>4, <3>9, <3>11 DEF OwnerOk
    <3>13. LookOk(p, d)' /\ EndingOk(p, d)'
      BY <2>5, <2>7, <2>8, <3>4 DEF LookOk, Looks, EndingOk
    <3>14. Entity(p)'.reservation = doc'[d].reservation
      BY <2>4, <2>5, <2>8, <2>10, <3>7 DEF CallOk
    <3> QED
      BY <2>7, <3>4, <3>6, <3>8, <3>10, <3>12, <3>13, <3>14 DEF CallOk
  <2>14. DocStep(p, d)
    BY <1>1, <2>13 DEF DocStep
  <2> QED
    BY <2>10, <2>11, <2>12, <2>14, FrameStep
<1> QED
  BY <1>3, <1>4

LEMMA ClaimClausesStep ==
  ASSUME IInv, NEW p \in Processes, ClaimClauses(p)
  PROVE  IInv'
<1>0. PICK d : d = Mine(p)
  OBVIOUS
<1>1. /\ pc[p] = "clauses" /\ d \in Documents /\ d # None
      /\ call[p] \in CallRow /\ Entity(p) \in DocumentRow /\ Entity(p).job \in Nat
      /\ Entity(p).job <= Len(jobs[d])
      /\ doc[d] # None /\ doc[d] \in DocumentRow /\ jobs[d] \in Seq(JobRecord)
      /\ UNCHANGED <<meter, jobs, pinned, edited, batch, upsets>>
  BY <1>0, AtWork DEF ClaimClauses
<1>2. CallsTyped /\ upsets' \in 0 .. MaxUpsets
  BY <1>1 DEF IInv, Types, RestTyped
<1>3. CASE ~Claimable(p)
  BY <1>1, <1>2, <1>3, QuietReturn DEF ClaimClauses
<1>4. CASE Claimable(p)
  <2>1. /\ Update(d, [doc[d] EXCEPT !.status = "CLAUSES_EXTRACTED", !.job = 0])
        /\ WriteClauses(p) /\ Goto(p, "commit") /\ UNCHANGED call
        /\ doc[d].status = "EXTRACTING_CLAUSES"
    BY <1>0, <1>4 DEF ClaimClauses, Row, Claimable
  <2>3. PICK row \in DocumentRow : row = [doc[d] EXCEPT !.status = "CLAUSES_EXTRACTED", !.job = 0]
    BY <1>1 DEF DocumentRow, Terminal
  <2>4. /\ row.status = "CLAUSES_EXTRACTED" /\ row.job = 0
        /\ row.reservation = doc[d].reservation
    BY <1>1, <2>3 DEF DocumentRow
  <2>5. /\ clauses' = clauses \/ clauses' = [clauses EXCEPT ![d] = clauses[d] + 1]
        /\ Job(p).kind = "clauses" => clauses' = [clauses EXCEPT ![d] = clauses[d] + 1]
    BY <1>0, <2>1 DEF WriteClauses
  <2>6. /\ CallsTyped' /\ OthersStay(p) /\ pc'[p] = "commit" /\ call'[p] = call[p]
        /\ Mine(p)' = d /\ Entity(p)' = Entity(p)
    <3>1. "commit" \in Labels
      BY DEF Labels
    <3> QED
      BY <1>0, <1>2, <2>1, <3>1, GotoMoves DEF Arrives, Mine, Entity
  <2>7. row.job <= Len(jobs[d])
    BY <1>1, <2>4
  <2>8. /\ Frame(p, d) /\ doc'[d] = row /\ row # None /\ d \notin aged'
        /\ Known(Entity(p)'.reservation, d) /\ Known(call'[p].key, d)
             /\ Known(row.reservation, d) => KeyStep(p, d)
        /\ /\ d \notin edited /\ Edge(p, d) /\ Moves(p, d)
           => Guarantee(p, d) /\ Meets(p, d)
    BY <1>0, <1>1, <2>1, <2>3, <2>4, <2>5, <2>6, <2>7, UpdatedFrame
  <2>9. KeyStep(p, d)
    BY <1>0, <1>1, <2>4, <2>6, <2>8 DEF Known, Holds, HeldByCall
  <2>10. CallShape(p)'
    BY <1>1, <2>6, <2>8 DEF CallShape
  <2>11. ASSUME d \notin edited
         PROVE  Guarantee(p, d) /\ RowOk(d)' /\ ReservationOk(d)' /\ CallOk(p, d)'
    <3>1. RowOk(d) /\ ReservationOk(d) /\ CallOk(p, d)
      BY <1>0, <1>1, <2>11, Promised
    <3>2. LookOk(p, d) /\ Looks(p)
      BY <1>1, <3>1 DEF CallOk, Looks
    <3>3. Entity(p).job = 2 /\ Ended(d, 2) /\ Ended(d, 1)
      BY <1>1, <3>2 DEF LookOk, Knows
    <3>4. Edge(p, d)
      BY <1>0, <1>1, <2>1, <2>4, <2>8 DEF Edge, On
    <3>5. ~Uploader(p)' /\ ~Winner(p)' /\ \A l : ~Saving(p, l)'
      BY <2>6 DEF Uploader, Winner, Saving
    <3>6. Moves(p, d)
      BY <2>6, <3>5 DEF Moves
    <3>7. Guarantee(p, d) /\ Meets(p, d)
      BY <2>8, <2>11, <3>4, <3>6
    <3>8. ReservationOk(d)'
      BY <1>1, <3>1, <3>7, ReservationStays DEF meter
    <3>9. Ended(d, 1)' /\ Ended(d, 2)'
      BY <3>3, <3>7 DEF Meets, Guarantee, JobsKeep
    <3>10. clauses'[d] = 1
      <4>1. Len(jobs[d]) = 2 /\ jobs[d][2].kind = "clauses"
        <5>1. Len(jobs[d]) >= 2 /\ Len(jobs[d]) <= 2 /\ Len(jobs[d]) \in Nat
          BY <1>1, <3>1, <3>3 DEF Ended, RowOk
        <5>2. PICK n \in Nat : n = Len(jobs[d])
          BY <5>1
        <5>3. n >= 2 /\ n <= 2
          BY <5>1, <5>2
        <5>4. n = 2
          BY <5>3
        <5>5. Len(jobs[d]) = 2
          BY <5>2, <5>4
        <5> QED
          BY <3>1, <5>5 DEF RowOk
      <4>2. Job(p).kind = "clauses"
        BY <1>0, <3>3, <4>1 DEF Job
      <4>3. clauses[d] = 0 /\ clauses \in [Documents -> Nat]
        BY <2>1, <3>1 DEF RowOk, IInv, Types, RowsTyped
      <4> QED
        BY <1>1, <2>5, <4>2, <4>3
    <3>11. RowOk(d)'
      BY <1>1, <2>4, <2>8, <3>1, <3>9, <3>10 DEF RowOk
    <3>12. LookOk(p, d)' /\ OwnerOk(p, d)' /\ EndingOk(p, d)'
      BY <2>4, <2>6, <2>8, <3>5 DEF LookOk, Looks, OwnerOk, EndingOk
    <3>13. Entity(p)'.reservation = doc'[d].reservation
      BY <2>4, <2>6, <2>8, <3>1 DEF CallOk
    <3> QED
      BY <2>6, <3>5, <3>7, <3>8, <3>11, <3>12, <3>13 DEF CallOk
  <2>12. DocStep(p, d)
    BY <1>1, <2>11 DEF DocStep
  <2> QED
    BY <2>8, <2>9, <2>10, <2>12, FrameStep
<1> QED
  BY <1>3, <1>4

-----------------------------------------------------------------------------
(* The UPDATE of a save.                                                   *)

LEMMA WriteStep ==
  ASSUME IInv, NEW p \in Processes, Write(p)
  PROVE  IInv'
<1>0. PICK d : d = Mine(p)
  OBVIOUS
<1>1. /\ pc[p] = "write" /\ d \in Documents /\ d # None
      /\ call[p] \in CallRow /\ Entity(p) \in DocumentRow /\ Entity(p).job \in Nat
      /\ Entity(p).job <= Len(jobs[d])
      /\ doc[d] # None /\ doc[d] \in DocumentRow /\ jobs[d] \in Seq(JobRecord)
      /\ UNCHANGED <<meter, clauses, jobs, pinned, edited, batch, upsets>>
  BY <1>0, AtWork DEF Write
<1>2. /\ CallsTyped /\ doc[d].job \in Nat /\ doc[d].job <= Len(jobs[d])
      /\ call[p].next \in {"started", "edited", "dispatchText", "dispatchClauses", "refund"}
      /\ call[p].next \in {"edited", "dispatchText"} => d \in edited
  BY <1>0, <1>1 DEF IInv, Types, RowsTyped, DocumentRow, Shapes, CallShape
<1>3. PICK cols \in SUBSET DOMAIN NewRow : cols = call[p].columns
  BY <1>1 DEF CallRow
<1>4. PICK row \in DocumentRow : row = Merged(doc[d], Entity(p), cols)
  BY <1>1, MergedRow
<1>5. /\ row.status = IF "status" \in cols THEN Entity(p).status ELSE doc[d].status
      /\ row.job = IF "job" \in cols THEN Entity(p).job ELSE doc[d].job
      /\ row.reservation = IF "reservation" \in cols THEN Entity(p).reservation
                                                     ELSE doc[d].reservation
  BY <1>1, <1>4, MergedRow
<1>6. Update(d, row)
  BY <1>0, <1>3, <1>4 DEF Write, Merged, Row
<1>7. CASE call[p].next \in {"started", "edited"}
  <2>1. CallsTyped' /\ OthersStay(p) /\ pc'[p] = "idle" /\ call'[p] = NoCall
    BY <1>2, <1>7, ReturnMoves DEF Write, Arrives
  <2>2. Mine(p)' = None
    BY <2>1, NoCallType DEF Mine
  <2>3. row.job <= Len(jobs[d])
    BY <1>1, <1>2, <1>5
  <2>4. /\ Frame(p, d) /\ doc'[d] = row /\ row # None /\ d \notin aged'
        /\ Known(row.reservation, d) => KeyStep(p, d)
        /\ /\ d \notin edited /\ Edge(p, d) /\ row.reservation = doc[d].reservation
           => Guarantee(p, d) /\ Meets(p, d)
    BY <1>0, <1>1, <1>6, <2>1, <2>2, <2>3, UpdatedFrame
  <2>5. KeyStep(p, d)
    BY <1>0, <1>1, <1>5, <2>4 DEF Known, Holds, HeldByCall
  <2>6. CallShape(p)'
    BY <2>1 DEF CallShape
  <2>7. ASSUME d \notin edited
        PROVE  Guarantee(p, d) /\ RowOk(d)' /\ ReservationOk(d)'
    <3>1. RowOk(d) /\ ReservationOk(d) /\ CallOk(p, d)
      BY <1>0, <1>1, <2>7, Promised
    <3>2. Saving(p, "started") /\ Owner(p)
      BY <1>1, <1>2, <1>7, <2>7, <3>1 DEF Saving, CallOk, Owner
    <3>3. OwnerOk(p, d) /\ row.reservation = doc[d].reservation
      BY <1>5, <3>1 DEF CallOk
    <3>4. /\ Entity(p).job = Len(jobs[d])
          /\ Entity(p).job = IF Uploader(p) THEN 1 ELSE 2
          /\ {"status", "job"} \subseteq cols
      BY <1>1, <1>3, <3>2, <3>3 DEF OwnerOk, Owner
    <3>5. row.status = Entity(p).status /\ row.job = Entity(p).job
      BY <1>5, <3>4
    <3>6. /\ Uploader(p) <=> Entity(p).status = "EXTRACTING_TEXT"
          /\ Winner(p) <=> Entity(p).status = "EXTRACTING_CLAUSES"
      BY <1>1, <3>2 DEF Uploader, Winner, Saving
    <3>7. Edge(p, d)
      BY <1>0, <1>1, <2>4, <3>2, <3>5, <3>6 DEF Edge, On, Owner
    <3>8. Guarantee(p, d) /\ Meets(p, d)
      BY <2>4, <2>7, <3>3, <3>7
    <3>9. ReservationOk(d)'
      BY <1>1, <3>1, <3>8, ReservationStays DEF meter
    <3>10. clauses[d] = 0
      BY <3>2, <3>3, <3>1 DEF OwnerOk, Owner, RowOk
    <3>11. Winner(p) => Ended(d, 1)'
      BY <3>3, <3>8 DEF OwnerOk, Meets, Guarantee, JobsKeep
    <3>12. RowOk(d)'
      BY <1>1, <2>4, <3>1, <3>2, <3>4, <3>5, <3>6, <3>10, <3>11 DEF RowOk, Owner
    <3> QED
      BY <3>8, <3>9, <3>12
  <2>8. DocStep(p, d)
    BY <1>1, <2>2, <2>7 DEF DocStep
  <2> QED
    BY <2>4, <2>5, <2>6, <2>8, FrameStep
<1>8. CASE call[p].next \in {"dispatchText", "dispatchClauses", "refund"}
  <2> DEFINE n == call[p].next
  <2>1. Goto(p, n) /\ call' = [call EXCEPT ![p] = [call[p] EXCEPT !.columns = {}]]
    BY Zenon, <1>8 DEF Write
  <2>2. /\ [call[p] EXCEPT !.columns = {}] \in CallRow
        /\ [call[p] EXCEPT !.columns = {}].doc = call[p].doc
        /\ [call[p] EXCEPT !.columns = {}].entity = call[p].entity
        /\ [call[p] EXCEPT !.columns = {}].key = call[p].key
    BY <1>1, ColumnsCall
  <2>3. n \in Labels
    BY <1>8 DEF Labels
  <2>4. /\ CallsTyped' /\ OthersStay(p) /\ pc'[p] = n
        /\ call'[p] = [call[p] EXCEPT !.columns = {}]
    BY <1>2, <2>1, <2>2, <2>3, CallMoves DEF Arrives
  <2>5. Mine(p)' = d /\ Entity(p)' = Entity(p) /\ call'[p].key = call[p].key
    BY <1>0, <2>2, <2>4 DEF Mine, Entity
  <2>6. row.job <= Len(jobs[d])
    BY <1>1, <1>2, <1>5
  <2>7. /\ Frame(p, d) /\ doc'[d] = row /\ row # None /\ d \notin aged'
        /\ Known(Entity(p)'.reservation, d) /\ Known(call'[p].key, d)
             /\ Known(row.reservation, d) => KeyStep(p, d)
        /\ /\ d \notin edited /\ Edge(p, d) /\ row.reservation = doc[d].reservation
           /\ Moves(p, d)
           => Guarantee(p, d) /\ Meets(p, d)
    BY <1>0, <1>1, <1>6, <2>4, <2>5, <2>6, UpdatedFrame
  <2>8. KeyStep(p, d)
    BY <1>0, <1>1, <1>5, <2>5, <2>7 DEF Known, Holds, HeldByCall
  <2>9. CallShape(p)'
    BY <1>1, <1>8, <2>4, <2>5, <2>7 DEF CallShape
  <2>10. ASSUME d \notin edited
         PROVE  Guarantee(p, d) /\ RowOk(d)' /\ ReservationOk(d)' /\ CallOk(p, d)'
    <3>1. RowOk(d) /\ ReservationOk(d) /\ CallOk(p, d)
      BY <1>0, <1>1, <2>10, Promised
    <3>2. /\ OwnerOk(p, d) /\ EndingOk(p, d) /\ row.reservation = doc[d].reservation
          /\ Entity(p)'.reservation = doc'[d].reservation
      BY <1>5, <2>5, <2>7, <3>1 DEF CallOk
    <3>3. \A l : ~Saving(p, l)'
      BY <1>8, <2>4 DEF Saving
    <3>4. CASE n = "dispatchClauses"
      <4>1. Saving(p, "dispatchClauses") /\ Winner(p)
        BY <1>1, <3>4 DEF Saving, Winner
      <4>2. /\ \A r \in Processes : Mine(r) = d /\ r # p =>
                 ~Uploader(r) /\ ~Winner(r) /\ pc[r] \notin {"select", "write"}
            /\ doc[d].status \in {"TEXT_EXTRACTED", "FAILED"} /\ Ended(d, 1)
            /\ doc[d].status = "FAILED" => pinned
            /\ Entity(p).status = "TEXT_EXTRACTED" /\ Entity(p).job = 0 /\ Len(jobs[d]) = 1
        BY <3>2, <4>1 DEF OwnerOk
      <4>3. /\ row.status \in {doc[d].status, "TEXT_EXTRACTED"} /\ row.job \in {doc[d].job, 0}
        BY <1>5, <4>2
      <4>4. Edge(p, d)
        BY <1>0, <1>1, <2>7, <4>1, <4>3 DEF Edge, On
      <4>5. ~Uploader(p)' /\ Winner(p)'
        BY <2>4, <3>3, <3>4 DEF Uploader, Winner
      <4>6. Moves(p, d)
        BY <1>0, <1>1, <2>4, <3>4, <4>1, <4>5 DEF Moves, On
      <4>7. Guarantee(p, d) /\ Meets(p, d)
        BY <2>7, <2>10, <3>2, <4>4, <4>6
      <4>8. ReservationOk(d)'
        BY <1>1, <3>1, <4>7, ReservationStays DEF meter
      <4>9. Ended(d, 1)'
        BY <4>2, <4>7 DEF Meets, Guarantee, JobsKeep
      <4>10. row.job <= 1 /\ clauses[d] = 0
        BY <1>2, <3>1, <4>2, <4>3 DEF RowOk
      <4>11. RowOk(d)'
        BY <1>1, <2>7, <3>1, <4>2, <4>3, <4>9, <4>10 DEF RowOk
      <4>12. \A r \in Processes : Mine(r)' = d /\ r # p =>
               ~Uploader(r)' /\ ~Winner(r)' /\ pc'[r] \notin {"select", "write"}
        BY <2>4, <4>2, AloneStays
      <4>13. OwnerOk(p, d)'
        BY <1>1, <2>4, <2>5, <2>7, <3>3, <3>4, <4>2, <4>3, <4>5, <4>9, <4>12 DEF OwnerOk
      <4>14. LookOk(p, d)' /\ EndingOk(p, d)'
        BY <2>4, <3>3, <3>4 DEF LookOk, Looks, EndingOk
      <4> QED
        BY <2>4, <3>2, <3>3, <3>4, <4>7, <4>8, <4>11, <4>13, <4>14 DEF CallOk
    <3>5. CASE n = "refund"
      <4>1. Saving(p, "refund")
        BY <1>1, <3>5 DEF Saving
      <4>2. ~Uploader(p)' /\ ~Winner(p)'
        BY <2>4, <3>3, <3>5 DEF Uploader, Winner
      <4>3. Moves(p, d)
        BY <2>4, <3>5, <4>2 DEF Moves
      <4>4. LookOk(p, d)' /\ OwnerOk(p, d)'
        BY <2>4, <3>5, <4>2 DEF LookOk, Looks, OwnerOk
      <4>5. SUFFICES ASSUME TRUE
                     PROVE  /\ Edge(p, d)
                            /\ Meets(p, d) => RowOk(d)' /\ Over(d)'
        <5>1. Guarantee(p, d) /\ Meets(p, d)
          BY <2>7, <2>10, <3>2, <4>3, <4>5
        <5>2. RowOk(d)' /\ Over(d)'
          BY <4>5, <5>1
        <5>3. ReservationOk(d)'
          BY <1>1, <3>1, <5>1, ReservationStays DEF meter
        <5>4. EndingOk(p, d)'
          BY <2>4, <3>3, <3>5, <5>2 DEF EndingOk
        <5> QED
          BY <2>4, <3>2, <3>3, <3>5, <4>4, <5>1, <5>2, <5>3, <5>4 DEF CallOk
      <4>6. CASE Winner(p)
        <5>1. Entity(p).status = "HUMAN_REVIEW_RECOMMENDED"
          BY <1>1, <3>5, <4>6 DEF Winner, Saving
        <5>2. /\ \A r \in Processes : Mine(r) = d /\ r # p =>
                   ~Uploader(r) /\ ~Winner(r) /\ pc[r] \notin {"select", "write"}
              /\ doc[d].status \in {"TEXT_EXTRACTED", "FAILED"} /\ Ended(d, 1)
              /\ "status" \in cols
          BY <1>1, <1>3, <3>2, <4>1, <4>6 DEF OwnerOk
        <5>3. row.status = "HUMAN_REVIEW_RECOMMENDED"
          BY <1>5, <5>1, <5>2
        <5>4. Edge(p, d)
          BY <1>0, <1>1, <2>7, <4>6, <5>3 DEF Edge, On
        <5>5. NoOwner(d)'
          <6>1. \A r \in Processes : Mine(r)' = d /\ r # p => ~Uploader(r)' /\ ~Winner(r)'
            BY <2>4, <5>2, AloneStays
          <6> QED
            BY <4>2, <6>1 DEF NoOwner
        <5>6. Over(d)'
          BY <2>7, <5>3, <5>5 DEF Over, Stalled
        <5>7. clauses[d] = 0
          BY <3>1, <5>2 DEF RowOk
        <5>8. ASSUME Meets(p, d) PROVE RowOk(d)'
          <6>1. Ended(d, 1)'
            BY <5>2, <5>8 DEF Meets, Guarantee, JobsKeep
          <6> QED
            BY <1>1, <2>7, <3>1, <5>3, <5>7, <6>1 DEF RowOk
        <5> QED
          BY <5>4, <5>6, <5>8
      <4>7. CASE ~Winner(p)
        <5>1. Entity(p).status = "FAILED"
          BY <3>1, <4>1, <4>7 DEF CallOk
        <5>2. /\ Over(d) /\ doc[d].status # "HUMAN_REVIEW_RECOMMENDED"
              /\ "status" \in cols \/ doc[d].status = "FAILED"
          BY <1>1, <1>3, <3>2, <4>1, <5>1 DEF EndingOk
        <5>3. row.status = "FAILED"
          BY <1>5, <5>1, <5>2
        <5>4. doc[d].status # "CLAUSES_EXTRACTED"
          BY <5>2 DEF Over, Stalled, JobFailed, Overtaken
        <5>5. Edge(p, d)
          BY <1>0, <1>1, <2>7, <5>2, <5>3, <5>4 DEF Edge, On
        <5>6. clauses[d] = 0
          BY <3>1, <5>4 DEF RowOk
        <5>7. RowOk(d)'
          BY <1>1, <2>7, <3>1, <5>3, <5>6 DEF RowOk
        <5> QED
          BY <5>2, <5>5, <5>7, OverStays
      <4> QED
        BY <4>6, <4>7
    <3> QED
      BY <1>2, <1>8, <2>10, <3>4, <3>5
  <2>11. DocStep(p, d)
    BY <1>1, <2>10 DEF DocStep
  <2> QED
    BY <2>7, <2>8, <2>9, <2>11, FrameStep
<1> QED
  BY <1>2, <1>7, <1>8

-----------------------------------------------------------------------------
(* Settlements.                                                            *)

\* A step on a document that is promised nothing.
LEMMA LooseStep ==
  ASSUME IInv, NEW p, NEW d, Frame(p, d), KeyStep(p, d), CallShape(p)',
         doc[d] # None => d \in edited',
         doc[d] = None => AbsentOk(d)' /\ DocumentOk(d)'
  PROVE  IInv'
<1>1. DocStep(p, d)
  BY DEF DocStep
<1> QED
  BY <1>1, FrameStep

LEMMA AbsentReturns ==
  ASSUME IInv, NEW p \in Processes, NEW d \in Documents, d = Mine(p), doc[d] = None,
         OthersStay(p), Mine(p)' # d, UNCHANGED <<doc, aged, clauses, jobs>>
  PROVE  AbsentOk(d)' /\ DocumentOk(d)'
<1>1. AbsentOk(d)
  BY DEF IInv, Absents
<1>2. ASSUME NEW q \in Processes, Mine(q)' = d PROVE FALSE
  <2>1. q # p
    BY <1>2
  <2>2. Mine(q) = d
    BY <1>2, <2>1, StayPut
  <2> QED
    BY <1>1, <2>1, <2>2 DEF AbsentOk
<1> QED
  BY <1>1, <1>2 DEF AbsentOk, DocumentOk

LEMMA SettledFrame ==
  ASSUME IInv, NEW p \in Processes, pc[p] # "idle", NEW d, d = Mine(p),
         NEW k, HeldByCall(k, p), NEW s \in {"committed", "released"}, Settle(k, s),
         UNCHANGED <<doc, aged, clauses, jobs, pinned, edited, batch, upsets>>,
         CallsTyped', OthersStay(p), Mine(p)' \in {d, None}
  PROVE  /\ Frame(p, d) /\ d \in Documents /\ d # None
         /\ DOMAIN entry' = DOMAIN entry /\ swept' = swept
         /\ \A j \in DOMAIN entry : j # k => entry'[j] = entry[j]
         /\ k \in DOMAIN entry => entry'[k] = entry[k] \/ entry'[k].status = s
         /\ /\ doc[d] # None /\ d \notin edited /\ (Mine(p)' = d => Moves(p, d))
            => Guarantee(p, d) /\ Meets(p, d) /\ RowOk(d)'
<1>1. d \in Documents /\ d # None /\ jobs[d] \in Seq(JobRecord)
  BY AtWork
<1>2. MeterTyped
  BY DEF IInv, Types
<1>3. /\ MeterTyped' /\ DOMAIN entry' = DOMAIN entry /\ swept' = swept
      /\ \A j \in DOMAIN entry : j # k => entry'[j] = entry[j]
      /\ k \in DOMAIN entry => entry'[k] = entry[k] \/ entry'[k].status = s
  BY <1>2, SettleRow
<1>4. Holds(k, d)
  BY DEF Holds
<1>5. MeterStep(d)
  BY <1>1, <1>3, <1>4 DEF MeterStep
<1>6. RowsTyped' /\ RestTyped'
  BY DEF IInv, Types, RowsTyped, RestTyped
<1>7. Acts(p, d)
  BY <1>1 DEF Acts, Elsewhere
<1>8. Frame(p, d)
  BY <1>1, <1>3, <1>5, <1>6, <1>7 DEF Frame, Types
<1>9. ASSUME doc[d] # None, d \notin edited, Mine(p)' = d => Moves(p, d)
      PROVE  Guarantee(p, d) /\ Meets(p, d) /\ RowOk(d)'
  <2>1. JobsKeep(d)
    BY <1>1 DEF JobsKeep, Ended, Broken
  <2>2. Guarantee(p, d)
    BY <1>9, <2>1 DEF Guarantee, Edge
  <2>3. Meets(p, d)
    BY <1>8, <1>9, <2>2, FrameMeets
  <2> QED
    BY <2>2, <2>3, RowStays
<1> QED
  BY <1>1, <1>3, <1>8, <1>9

\* The end of an upload, in success or in failure.
LEMMA SettlementStep ==
  ASSUME IInv, NEW p \in Processes, NEW s \in {"committed", "released"},
         \/ pc[p] = "commit" /\ s = "committed"
         \/ pc[p] = "refund" /\ s = "released",
         Settle(Entity(p).reservation, s), Return(p),
         UNCHANGED <<doc, aged, clauses, jobs, pinned, edited, batch, upsets>>
  PROVE  IInv'
<1>0. PICK d : d = Mine(p)
  OBVIOUS
<1>1. CallsTyped' /\ OthersStay(p) /\ pc'[p] = "idle" /\ call'[p] = NoCall
  BY ReturnMoves DEF IInv, Types, Arrives
<1>2. Mine(p)' = None
  BY <1>1, NoCallType DEF Mine
<1>3. PICK k : k = Entity(p).reservation
  OBVIOUS
<1>4. /\ Frame(p, d) /\ d \in Documents /\ d # None
      /\ DOMAIN entry' = DOMAIN entry /\ swept' = swept
      /\ \A j \in DOMAIN entry : j # k => entry'[j] = entry[j]
      /\ k \in DOMAIN entry => entry'[k] = entry[k] \/ entry'[k].status = s
      /\ doc[d] # None /\ d \notin edited => Guarantee(p, d) /\ Meets(p, d) /\ RowOk(d)'
  BY <1>0, <1>1, <1>2, <1>3, SettledFrame, AtWork DEF HeldByCall
<1>5. CallShape(p)'
  BY <1>1 DEF CallShape
<1>6. KeyStep(p, d)
  BY <1>2, <1>4 DEF KeyStep, Known, Holds
<1>7. doc[d] # None
  BY <1>0, AtWork
<1>8. ASSUME d \notin edited PROVE ReservationOk(d)'
  <2>1. ReservationOk(d) /\ CallOk(p, d)
    BY <1>0, <1>4, <1>7, <1>8, Promised
  <2>2. k = doc[d].reservation /\ doc' = doc
    BY <1>3, <2>1 DEF CallOk
  <2>3. /\ pc[p] = "commit" => doc[d].status = "CLAUSES_EXTRACTED"
        /\ pc[p] = "refund" => Over(d)
    BY <2>1 DEF CallOk, EndingOk
  <2>4. Over(d) => Over(d)'
    BY <1>4, <1>7, <1>8, OverStays
  <2> QED
    BY <1>4, <2>1, <2>2, <2>3, <2>4 DEF ReservationOk
<1>9. DocStep(p, d)
  BY <1>2, <1>4, <1>7, <1>8 DEF DocStep
<1> QED
  BY <1>4, <1>5, <1>6, <1>9, FrameStep

LEMMA CommitStep ==
  ASSUME IInv, NEW p \in Processes, Commit(p)
  PROVE  IInv'
BY SettlementStep DEF Commit

LEMMA RefundStep ==
  ASSUME IInv, NEW p \in Processes, Refund(p)
  PROVE  IInv'
BY SettlementStep DEF Refund

LEMMA ReleaseInFlightStep ==
  ASSUME IInv, NEW p \in Processes, ReleaseInFlight(p)
  PROVE  IInv'
<1>0. PICK d : d = Mine(p)
  OBVIOUS
<1>1. CallsTyped' /\ OthersStay(p) /\ pc'[p] = "idle" /\ call'[p] = NoCall
  BY ReturnMoves DEF ReleaseInFlight, IInv, Types, Arrives
<1>2. Mine(p)' = None
  BY <1>1, NoCallType DEF Mine
<1>3. PICK k : k = call[p].key
  OBVIOUS
<1>4. /\ pc[p] = "inflight" /\ Settle(k, "released") /\ HeldByCall(k, p)
      /\ UNCHANGED <<doc, aged, clauses, jobs, pinned, edited, batch, upsets>>
  BY <1>3 DEF ReleaseInFlight, HeldByCall
<1>5. Frame(p, d) /\ d \in Documents /\ d # None
  BY <1>0, <1>1, <1>2, <1>4, SettledFrame
<1>6. CallShape(p)'
  BY <1>1 DEF CallShape
<1>7. KeyStep(p, d)
  BY <1>2, <1>4, <1>5 DEF KeyStep, Known, Holds
<1>8. doc[d] # None => d \in edited'
  BY <1>0, <1>4, <1>5, Promised DEF CallOk
<1>9. doc[d] = None => AbsentOk(d)' /\ DocumentOk(d)'
  BY <1>0, <1>1, <1>2, <1>4, <1>5, AbsentReturns
<1> QED
  BY <1>5, <1>6, <1>7, <1>8, <1>9, LooseStep

LEMMA ReleasePriorStep ==
  ASSUME IInv, NEW p \in Processes, ReleasePrior(p)
  PROVE  IInv'
<1>0. PICK d : d = Mine(p)
  OBVIOUS
<1>1. "reserve" \in Labels
  BY DEF Labels
<1>2. /\ CallsTyped' /\ OthersStay(p) /\ pc'[p] = "reserve" /\ call'[p] = call[p]
      /\ Mine(p)' = d /\ Entity(p)' = Entity(p)
  BY <1>0, <1>1, GotoMoves DEF ReleasePrior, IInv, Types, Arrives, Mine, Entity
<1>3. PICK k : k = Entity(p).reservation
  OBVIOUS
<1>4. /\ pc[p] = "prior" /\ Settle(k, "released") /\ HeldByCall(k, p)
      /\ UNCHANGED <<doc, aged, clauses, jobs, pinned, edited, batch, upsets>>
  BY <1>3 DEF ReleasePrior, HeldByCall
<1>5. Frame(p, d) /\ d \in Documents /\ d # None
  BY <1>0, <1>2, <1>4, SettledFrame
<1>6. doc[d] # None /\ d \in edited /\ Entity(p).job <= Len(jobs[d])
  BY <1>0, <1>4, AtWork DEF IInv, Shapes, CallShape
<1>7. CallShape(p)'
  BY <1>2, <1>4, <1>5, <1>6 DEF CallShape
<1>8. KeyStep(p, d)
  BY <1>0, <1>2, <1>4, <1>5 DEF KeyStep, Known, Holds, HeldByCall
<1> QED
  BY <1>4, <1>5, <1>6, <1>7, <1>8, LooseStep

-----------------------------------------------------------------------------
(* Uploads.                                                                *)

\* The fields of a call that has just begun.
LEMMA EditCall ==
  ASSUME NEW d \in Documents, NEW e \in DocumentRow
  PROVE  /\ [NoCall EXCEPT !.doc = d, !.entity = e, !.next = "edited"] \in CallRow
         /\ [NoCall EXCEPT !.doc = d, !.entity = e, !.next = "edited"].doc = d
         /\ [NoCall EXCEPT !.doc = d, !.entity = e, !.next = "edited"].entity = e
         /\ [NoCall EXCEPT !.doc = d, !.entity = e, !.next = "edited"].next = "edited"
         /\ [NoCall EXCEPT !.doc = d, !.entity = e, !.next = "edited"].key = None
<1>1. NoCall \in CallRow /\ NoCall.key = None
  BY NoCallType
<1> HIDE DEF NoCall
<1> QED
  BY <1>1 DEF CallRow

LEMMA UploadStep ==
  ASSUME IInv, NEW p \in Callers, NEW d \in Documents, NEW k \in Keys, Upload(p, d, k)
  PROVE  IInv'
<1> DEFINE c == [NoCall EXCEPT !.doc = d, !.key = k, !.entity = [NewRow EXCEPT !.reservation = k]]
<1>1. /\ p \in Processes /\ pc[p] = "idle" /\ Unused(d) /\ doc[d] = None /\ d # None
      /\ UNCHANGED <<swept, doc, aged, clauses, jobs, pinned, edited, batch, upsets>>
  BY NoneAssumption DEF Upload, Processes, Unused
<1>2. PICK e \in DocumentRow :
        e = [NewRow EXCEPT !.reservation = k] /\ e.job = 0 /\ e.reservation = k
  <2>1. /\ [NewRow EXCEPT !.reservation = k] \in DocumentRow
        /\ [NewRow EXCEPT !.reservation = k].job = 0
        /\ [NewRow EXCEPT !.reservation = k].reservation = k
    BY DEF NewRow, DocumentRow
  <2> QED
    BY Zenon, <2>1
<1>3. c = [NoCall EXCEPT !.doc = d, !.key = k, !.entity = e]
  BY <1>2
<1>4. Goto(p, "insert") /\ call' = [call EXCEPT ![p] = c] /\ "insert" \in Labels
  BY DEF Upload, Labels
<1>5. c \in CallRow /\ c.doc = d /\ c.entity = e /\ c.key = k
  <2>1. PICK f : f = NoCall
    OBVIOUS
  <2>2. f \in CallRow
    BY <2>1, NoCallType
  <2>3. /\ [f EXCEPT !.doc = d, !.key = k, !.entity = e] \in CallRow
        /\ [f EXCEPT !.doc = d, !.key = k, !.entity = e].doc = d
        /\ [f EXCEPT !.doc = d, !.key = k, !.entity = e].entity = e
        /\ [f EXCEPT !.doc = d, !.key = k, !.entity = e].key = k
    BY <2>2 DEF CallRow
  <2> QED
    BY Zenon, <1>3, <2>1, <2>3
<1> HIDE DEF c
<1>6. CallsTyped' /\ OthersStay(p) /\ pc'[p] = "insert" /\ call'[p] = c
  BY <1>1, <1>4, <1>5, CallMoves DEF IInv, Types, Arrives
<1>7. Mine(p) = None /\ Mine(p)' = d /\ Entity(p)' = e /\ call'[p].key = k
  BY <1>1, <1>5, <1>6, AtRest DEF Mine, Entity
<1>8. /\ k \notin DOMAIN entry /\ MeterTyped' /\ DOMAIN entry' = DOMAIN entry \cup {k}
      /\ entry'[k].status = "reserved" /\ \A j \in DOMAIN entry : entry'[j] = entry[j]
  BY GrantRow DEF Upload, IInv, Types
<1>9. MeterStep(d)
  BY <1>1, <1>8 DEF MeterStep
<1>10. RowsTyped' /\ RestTyped' /\ jobs[d] \in Seq(JobRecord)
  BY <1>1 DEF IInv, Types, RowsTyped, RestTyped
<1>11. Acts(p, d)
  BY <1>1, <1>6, <1>7, <1>10 DEF Acts, Elsewhere
<1>12. Frame(p, d)
  BY <1>1, <1>6, <1>8, <1>9, <1>10, <1>11 DEF Frame, Types
<1>13. AbsentOk(d)
  BY DEF IInv, Absents
<1>14. ASSUME NEW q \in Processes, Mine(q)' = d PROVE q = p
  <2>1. q # p => Mine(q) = d
    BY <1>6, <1>14, StayPut
  <2> QED
    BY <1>1, <2>1 DEF Unused
<1>15. AbsentOk(d)'
  BY <1>1, <1>2, <1>7, <1>8, <1>13, <1>14 DEF AbsentOk
<1>16. DocumentOk(d)'
  BY <1>1 DEF DocumentOk
<1>17. CallShape(p)'
  <2>1. 0 <= Len(jobs[d])
    BY <1>10
  <2> QED
    BY <1>1, <1>2, <1>6, <1>7, <2>1 DEF CallShape
<1>18. KeyStep(p, d)
  BY <1>1, <1>2, <1>7, <1>8 DEF KeyStep, Known
<1> QED
  BY <1>1, <1>12, <1>15, <1>16, <1>17, <1>18, LooseStep

LEMMA InsertStep ==
  ASSUME IInv, NEW p \in Processes, Insert(p)
  PROVE  IInv'
<1>0. PICK d : d = Mine(p)
  OBVIOUS
<1>1. PICK e : e = Entity(p)
  OBVIOUS
<1>2. /\ pc[p] = "insert" /\ d \in Documents /\ d # None
      /\ e \in DocumentRow /\ e.job \in Nat /\ e.job <= Len(jobs[d])
      /\ jobs[d] \in Seq(JobRecord) /\ Update(d, e)
      /\ UNCHANGED <<meter, clauses, jobs, pinned, edited, batch, call, upsets>>
  BY <1>0, <1>1, AtWork DEF Insert
<1>3. "dispatchText" \in Labels
  BY DEF Labels
<1>4. /\ CallsTyped' /\ OthersStay(p) /\ pc'[p] = "dispatchText" /\ call'[p] = call[p]
      /\ Mine(p)' = d /\ Entity(p)' = e
  BY <1>0, <1>1, <1>3, GotoMoves DEF Insert, IInv, Types, Arrives, Mine, Entity
<1>5. /\ Frame(p, d) /\ doc'[d] = e /\ e # None /\ d \notin aged'
      /\ Known(Entity(p)'.reservation, d) /\ Known(call'[p].key, d)
           /\ Known(e.reservation, d) => KeyStep(p, d)
  BY <1>0, <1>2, <1>4, UpdatedFrame
<1>6. KeyStep(p, d)
  BY <1>0, <1>1, <1>4, <1>5 DEF Known, Holds, HeldByCall
<1>7. CallShape(p)'
  BY <1>2, <1>4, <1>5 DEF CallShape
<1>8. doc[d] # None => d \in edited'
  BY <1>0, <1>2, Promised DEF CallOk
<1>9. ASSUME doc[d] = None PROVE AbsentOk(d)' /\ DocumentOk(d)'
  <2>1. PICK k : k = call[p].key
    OBVIOUS
  <2>2. /\ jobs[d] = <<>> /\ clauses[d] = 0
        /\ \A q \in Processes : Mine(q) = d => q = p
        /\ e = [NewRow EXCEPT !.reservation = k] /\ k \in DOMAIN entry
        /\ entry[k].status = "reserved" \/ k \in swept
    BY <1>0, <1>1, <1>2, <1>9, <2>1 DEF AbsentOk, IInv, Absents
  <2>3. e.status = "UPLOADED" /\ e.job = 0 /\ e.reservation = k
    BY <2>2, NewRowType DEF NewRow
  <2>4. \A q \in Processes : Mine(q)' = d => q = p
    BY <1>4, <2>2, StayPut
  <2>5. Len(jobs[d]) = 0
    BY <2>2
  <2>6. ~Winner(p)' /\ \A l : ~Saving(p, l)'
    BY <1>4 DEF Winner, Saving
  <2>7. RowOk(d)'
    BY <1>2, <1>5, <2>2, <2>3, <2>5 DEF RowOk
  <2>8. ReservationOk(d)'
    BY <1>2, <1>5, <2>2, <2>3 DEF ReservationOk, meter, IInv, Types, MeterTyped
  <2>9. OwnerOk(p, d)'
    BY <1>2, <1>4, <1>5, <2>2, <2>3, <2>4, <2>6 DEF OwnerOk
  <2>10. LookOk(p, d)' /\ EndingOk(p, d)'
    BY <1>4, <2>6 DEF LookOk, Looks, EndingOk
  <2>11. CallOk(p, d)'
    BY <1>4, <1>5, <2>6, <2>9, <2>10 DEF CallOk
  <2> QED
    BY <1>5, <2>4, <2>7, <2>8, <2>11 DEF AbsentOk, DocumentOk
<1> QED
  BY <1>5, <1>6, <1>7, <1>8, <1>9, LooseStep

-----------------------------------------------------------------------------
(* Edits and reprocessings: from the load on the document is promised      *)
(* nothing.                                                                *)

LEMMA EditedStep ==
  ASSUME IInv, NEW p \in Processes, pc[p] = "idle", NEW d \in Documents, doc[d] # None,
         Upset, edited' = edited \cup {d}, NEW l \in {"select", "prior"}, Goto(p, l),
         NEW c \in CallRow, call' = [call EXCEPT ![p] = c],
         c.doc = d, c.entity = doc[d], c.key = None, l = "select" => c.next = "edited",
         UNCHANGED <<meter, doc, aged, clauses, jobs, pinned, batch>>
  PROVE  IInv'
<1>1. l \in Labels /\ d # None
  BY NoneAssumption DEF Labels
<1>2. CallsTyped' /\ OthersStay(p) /\ pc'[p] = l /\ call'[p] = c
  BY <1>1, CallMoves DEF IInv, Types, Arrives
<1>3. Mine(p) = None /\ Mine(p)' = d /\ Entity(p)' = doc[d] /\ call'[p].key = None
  BY <1>2, AtRest DEF Mine, Entity
<1>4. RowsTyped' /\ RestTyped' /\ jobs[d] \in Seq(JobRecord) /\ doc[d].job <= Len(jobs[d])
  BY BoundsAssumption DEF Upset, IInv, Types, RowsTyped, RestTyped
<1>5. MeterTyped' /\ MeterStep(d)
  BY MeterStays
<1>6. Acts(p, d)
  BY <1>2, <1>3, <1>4 DEF Acts, Elsewhere
<1>7. Frame(p, d)
  BY <1>2, <1>4, <1>5, <1>6 DEF Frame, Types
<1>8. KeyStep(p, d)
  BY <1>3 DEF KeyStep, Known, Holds
<1>9. CallShape(p)'
  BY <1>2, <1>3, <1>4 DEF CallShape
<1> QED
  BY <1>7, <1>8, <1>9, LooseStep

LEMMA EditTextStep ==
  ASSUME IInv, NEW p \in Callers, NEW d \in Documents, EditText(p, d)
  PROVE  IInv'
<1>1. p \in Processes /\ doc[d] # None /\ doc[d] \in DocumentRow
  BY DEF EditText, Processes, IInv, Types, RowsTyped
<1>2. PICK c : c = [NoCall EXCEPT !.doc = d, !.entity = doc[d], !.next = "edited"]
  OBVIOUS
<1>3. c \in CallRow /\ c.doc = d /\ c.entity = doc[d] /\ c.key = None /\ c.next = "edited"
  <2>1. PICK e \in DocumentRow : e = doc[d]
    BY <1>1
  <2>2. /\ [NoCall EXCEPT !.doc = d, !.entity = e, !.next = "edited"] \in CallRow
        /\ [NoCall EXCEPT !.doc = d, !.entity = e, !.next = "edited"].doc = d
        /\ [NoCall EXCEPT !.doc = d, !.entity = e, !.next = "edited"].entity = e
        /\ [NoCall EXCEPT !.doc = d, !.entity = e, !.next = "edited"].next = "edited"
        /\ [NoCall EXCEPT !.doc = d, !.entity = e, !.next = "edited"].key = None
    BY EditCall
  <2> QED
    BY Zenon, <1>2, <2>1, <2>2
<1>4. /\ pc[p] = "idle" /\ Upset /\ edited' = edited \cup {d} /\ Goto(p, "select")
      /\ call' = [call EXCEPT ![p] = c]
      /\ UNCHANGED <<meter, doc, aged, clauses, jobs, pinned, batch>>
  BY Zenon, <1>2 DEF EditText
<1> QED
  BY <1>1, <1>3, <1>4, EditedStep

LEMMA ReprocessStep ==
  ASSUME IInv, NEW p \in Callers, NEW d \in Documents, Reprocess(p, d)
  PROVE  IInv'
<1>1. p \in Processes /\ doc[d] # None /\ doc[d] \in DocumentRow
  BY DEF Reprocess, Processes, IInv, Types, RowsTyped
<1>2. PICK c : c = [NoCall EXCEPT !.doc = d, !.entity = doc[d], !.old = d \in aged]
  OBVIOUS
<1>3. c \in CallRow /\ c.doc = d /\ c.entity = doc[d] /\ c.key = None
  <2>0. (d \in aged) \in BOOLEAN
    OBVIOUS
  <2>1. PICK b \in BOOLEAN : b = (d \in aged)
    BY <2>0
  <2>2. PICK f : f = NoCall
    OBVIOUS
  <2>3. f \in CallRow /\ f.key = None
    BY <2>2, NoCallType
  <2>4. /\ [f EXCEPT !.doc = d, !.entity = doc[d], !.old = b] \in CallRow
        /\ [f EXCEPT !.doc = d, !.entity = doc[d], !.old = b].doc = d
        /\ [f EXCEPT !.doc = d, !.entity = doc[d], !.old = b].entity = doc[d]
        /\ [f EXCEPT !.doc = d, !.entity = doc[d], !.old = b].key = f.key
    BY <1>1, <2>3 DEF CallRow
  <2> QED
    BY Zenon, <1>2, <2>1, <2>2, <2>3, <2>4
<1>4. /\ pc[p] = "idle" /\ Upset /\ edited' = edited \cup {d} /\ Goto(p, "prior")
      /\ call' = [call EXCEPT ![p] = c]
      /\ UNCHANGED <<meter, doc, aged, clauses, jobs, pinned, batch>>
  BY Zenon, <1>2 DEF Reprocess, Load
<1> QED
  BY <1>1, <1>3, <1>4, EditedStep

LEMMA ReserveStep ==
  ASSUME IInv, NEW p \in Processes, Reserve(p)
  PROVE  IInv'
<1>0. PICK d : d = Mine(p)
  OBVIOUS
<1>1. PICK k \in Keys : Meter!Grant(k, Window, 1) /\ call' = [call EXCEPT ![p].key = k]
  BY DEF Reserve
<1>2. /\ pc[p] = "reserve" /\ Goto(p, "cleanup") /\ "cleanup" \in Labels
      /\ UNCHANGED <<swept, doc, aged, clauses, jobs, pinned, edited, batch, upsets>>
  BY DEF Reserve, Labels
<1>3. /\ d \in Documents /\ d # None /\ doc[d] # None /\ call[p] \in CallRow
      /\ Entity(p).job <= Len(jobs[d]) /\ jobs[d] \in Seq(JobRecord) /\ d \in edited
  BY <1>0, <1>2, AtWork DEF IInv, Shapes, CallShape
<1>4. call' = [call EXCEPT ![p] = [call[p] EXCEPT !.key = k]]
  BY Zenon, <1>1
<1>5. PICK c \in CallRow : /\ c = [call[p] EXCEPT !.key = k]
                          /\ c.doc = call[p].doc /\ c.entity = call[p].entity /\ c.key = k
  BY <1>3, KeyCall
<1>6. CallsTyped' /\ OthersStay(p) /\ pc'[p] = "cleanup" /\ call'[p] = c
  BY <1>2, <1>4, <1>5, CallMoves DEF IInv, Types, Arrives
<1>7. Mine(p)' = d /\ Entity(p)' = Entity(p) /\ call'[p].key = k
  BY <1>0, <1>5, <1>6 DEF Mine, Entity
<1>8. /\ k \notin DOMAIN entry /\ MeterTyped' /\ DOMAIN entry' = DOMAIN entry \cup {k}
      /\ \A j \in DOMAIN entry : entry'[j] = entry[j]
  BY <1>1, <1>2, GrantRow DEF IInv, Types
<1>9. MeterStep(d)
  BY <1>2, <1>8 DEF MeterStep
<1>10. RowsTyped' /\ RestTyped'
  BY <1>2 DEF IInv, Types, RowsTyped, RestTyped
<1>11. Acts(p, d)
  BY <1>0, <1>2, <1>3, <1>6, <1>7 DEF Acts, Elsewhere
<1>12. Frame(p, d)
  BY <1>3, <1>6, <1>8, <1>9, <1>10, <1>11 DEF Frame, Types
<1>13. KeyStep(p, d)
  BY <1>0, <1>2, <1>7, <1>8 DEF KeyStep, Known, Holds, HeldByCall
<1>14. CallShape(p)'
  BY <1>2, <1>3, <1>6, <1>7 DEF CallShape
<1> QED
  BY <1>2, <1>3, <1>12, <1>13, <1>14, LooseStep

LEMMA CleanupStep ==
  ASSUME IInv, NEW p \in Processes, Cleanup(p)
  PROVE  IInv'
<1>0. PICK d : d = Mine(p)
  OBVIOUS
<1>1. /\ pc[p] = "cleanup" /\ clauses' = [clauses EXCEPT ![d] = 0]
      /\ UNCHANGED <<meter, doc, aged, jobs, pinned, edited, batch, upsets>>
  BY <1>0 DEF Cleanup
<1>2. /\ d \in Documents /\ d # None /\ doc[d] # None /\ call[p] \in CallRow
      /\ jobs[d] \in Seq(JobRecord) /\ d \in edited
  BY <1>0, <1>1, AtWork DEF IInv, Shapes, CallShape
<1>3. call[p].key \in Keys \cup {None}
  BY <1>2 DEF CallRow
<1>4. PICK e \in DocumentRow :
        /\ e = [status |-> "UPLOADED", job |-> 0, reservation |-> call[p].key]
        /\ e.job = 0 /\ e.reservation = call[p].key
  <2>1. PICK k \in Keys \cup {None} : k = call[p].key
    BY <1>3
  <2>2. [status |-> "UPLOADED", job |-> 0, reservation |-> k] \in DocumentRow
    BY DEF DocumentRow
  <2> QED
    BY <2>1, <2>2
<1>5. Save(p, e, "dispatchText") /\ "dispatchText" \in Labels
  BY <1>4 DEF Cleanup, Labels
<1>6. /\ CallsTyped' /\ OthersStay(p) /\ pc'[p] = "select"
      /\ call'[p] = Resaved(call[p], e, "dispatchText")
  BY <1>5, SaveMoves DEF IInv, Types, Arrives
<1>7. /\ Mine(p)' = d /\ Entity(p)' = e /\ call'[p].next = "dispatchText"
      /\ call'[p].key = call[p].key
  BY <1>0, <1>2, <1>5, <1>6, ResavedCall DEF Mine, Entity
<1>8. MeterTyped' /\ MeterStep(d)
  BY <1>1, MeterStays
<1>9. RowsTyped' /\ RestTyped' /\ \A f \in Documents \ {d} : clauses'[f] = clauses[f]
  BY <1>1, <1>2 DEF IInv, Types, RowsTyped, RestTyped
<1>10. Acts(p, d)
  BY <1>0, <1>1, <1>2, <1>6, <1>7, <1>9 DEF Acts, Elsewhere
<1>11. Frame(p, d)
  BY <1>2, <1>6, <1>8, <1>9, <1>10 DEF Frame, Types
<1>12. KeyStep(p, d)
  BY <1>0, <1>1, <1>4, <1>7 DEF KeyStep, Known, Holds, HeldByCall
<1>13. CallShape(p)'
  BY <1>1, <1>2, <1>4, <1>6, <1>7 DEF CallShape
<1> QED
  BY <1>1, <1>2, <1>11, <1>12, <1>13, LooseStep

-----------------------------------------------------------------------------
(* Steps of no process.                                                    *)

\* The batch, the pin or the ledger changes.
LEMMA OutsideStep ==
  ASSUME IInv, UNCHANGED <<doc, aged, clauses, jobs, edited, pc, call>>,
         MeterTyped', RestTyped', MeterStep(None), pinned => pinned'
  PROVE  IInv'
<1>1. PICK x : x \notin Processes
  BY NoSetContainsEverything
<1>2. None \notin Documents
  BY NoneAssumption
<1>3. Types'
  BY DEF IInv, Types, RowsTyped, CallsTyped
<1>4. Acts(x, None)
  BY <1>1, <1>2 DEF Acts, OthersStay, Elsewhere
<1>5. ProcessStep(x, None)
  BY <1>1, <1>2, <1>3, <1>4 DEF ProcessStep, KeyStep
<1> QED
  BY <1>5, StepInvariant

LEMMA TickStep ==
  ASSUME IInv, Tick
  PROVE  IInv'
<1>1. MeterTyped' /\ MeterStep(None)
  BY MeterStays DEF Tick
<1>2. RestTyped'
  BY DEF Tick, InProgress, IInv, Types, RestTyped
<1> QED
  BY <1>1, <1>2, OutsideStep DEF Tick

LEMMA DriverStep ==
  ASSUME IInv, Visit
  PROVE  IInv'
<1>1. PICK d \in batch :
        /\ batch' = batch \ {d}
        /\ IF doc[d].status \in Terminal THEN UNCHANGED <<pc, call>>
                                         ELSE Load(Driver, d, "check")
  BY DEF Visit
<1>2. /\ UNCHANGED <<meter, doc, aged, clauses, jobs, pinned, edited, upsets>>
      /\ pc[Driver] = "idle" /\ d \in Documents
  BY DEF Visit, IInv, Types, RestTyped
<1>3. CASE doc[d].status \in Terminal
  <2>1. MeterTyped' /\ MeterStep(None)
    BY <1>2, MeterStays
  <2>2. RestTyped'
    BY <1>1, <1>2 DEF IInv, Types, RestTyped
  <2> QED
    BY <1>1, <1>2, <1>3, <2>1, <2>2, OutsideStep
<1>4. CASE doc[d].status \notin Terminal
  BY <1>1, <1>2, <1>4, VisitStep
<1> QED
  BY <1>3, <1>4

LEMMA PinStep ==
  ASSUME IInv, Pin
  PROVE  IInv'
<1>1. MeterTyped' /\ MeterStep(None)
  BY MeterStays DEF Pin
<1>2. RestTyped'
  BY DEF Pin, IInv, Types, RestTyped
<1> QED
  BY <1>1, <1>2, OutsideStep DEF Pin

LEMMA SweepStep ==
  ASSUME IInv, NEW k \in Keys, Sweep(k)
  PROVE  IInv'
<1>1. /\ k \in DOMAIN entry /\ entry[k] \in EntryRow /\ MeterTyped
      /\ entry' = [entry EXCEPT ![k].status = "released"]
      /\ quota' = quota /\ swept' = swept \cup {k}
      /\ UNCHANGED <<doc, aged, clauses, jobs, pinned, edited, batch, pc, call, upsets>>
  BY DEF Sweep, Meter!End, IInv, Types, MeterTyped
<1>2. PICK row \in EntryRow :
        row = [entry[k] EXCEPT !.status = "released"] /\ row.status = "released"
  <2>1. /\ [entry[k] EXCEPT !.status = "released"] \in EntryRow
        /\ [entry[k] EXCEPT !.status = "released"].status = "released"
    BY <1>1 DEF EntryRow
  <2> QED
    BY Zenon, <2>1
<1>3. entry' = [entry EXCEPT ![k] = row]
  BY Zenon, <1>1, <1>2
<1>4. /\ DOMAIN entry' = DOMAIN entry /\ entry' \in [DOMAIN entry -> EntryRow]
      /\ entry'[k] = row /\ \A j \in DOMAIN entry : j # k => entry'[j] = entry[j]
  BY <1>1, <1>2, <1>3 DEF MeterTyped
<1>5. MeterTyped' /\ MeterStep(None)
  BY <1>1, <1>2, <1>4 DEF MeterTyped, MeterStep
<1>6. RestTyped'
  BY <1>1 DEF IInv, Types, RestTyped
<1> QED
  BY <1>1, <1>5, <1>6, OutsideStep

\* The row and the calls of d stay, and jobs of d may end or expire.
LEMMA InsideStep ==
  ASSUME IInv, NEW d \in Documents, UNCHANGED <<meter, doc, clauses, pinned, edited, pc, call>>,
         RowsTyped', RestTyped', Len(jobs'[d]) = Len(jobs[d]), JobsKeep(d),
         \A e \in Documents \ {d} : jobs'[e] = jobs[e] /\ (e \in aged' <=> e \in aged),
         doc[d] # None,
         \/ d \in aged' => d \in aged
         \/ jobs' = jobs /\ NoOwner(d)
  PROVE  IInv'
<1>1. PICK x : x \notin Processes
  BY NoSetContainsEverything
<1>2. MeterTyped' /\ MeterStep(d)
  BY MeterStays
<1>3. Types'
  BY <1>2 DEF IInv, Types, CallsTyped
<1>4. jobs[d] \in Seq(JobRecord)
  BY DEF IInv, Types, RowsTyped
<1>5. Acts(x, d)
  BY <1>1, <1>4 DEF Acts, OthersStay, Elsewhere
<1>6. KeyStep(x, d)
  BY <1>1 DEF KeyStep, Known, Holds
<1>7. ASSUME d \notin edited
      PROVE  Guarantee(x, d) /\ RowOk(d)' /\ ReservationOk(d)'
  <2>1. Guarantee(x, d)
    BY <1>1 DEF Guarantee, Edge
  <2>2. RowOk(d) /\ ReservationOk(d) /\ \A q \in Processes : Mine(q) = d => CallOk(q, d)
    BY <1>7, Promised
  <2>3. Meets(x, d)
    BY <1>5, <1>7, <2>1, <2>2 DEF Meets, IInv, Types, Acts
  <2>4. ReservationOk(d)'
    BY <2>2, <2>3, ReservationStays DEF meter
  <2>5. RowOk(d)'
    <3>1. CASE d \in aged' => d \in aged
      BY <2>3, <3>1, RowStays
    <3>2. CASE jobs' = jobs /\ NoOwner(d)
      BY <2>2, <3>2 DEF RowOk, Ended, NoOwner, Uploader, Winner, Saving, Mine, Entity
    <3> QED
      BY <3>1, <3>2
  <2> QED
    BY <2>1, <2>4, <2>5
<1>8. DocStep(x, d)
  BY <1>1, <1>7 DEF DocStep
<1>9. ProcessStep(x, d)
  BY <1>1, <1>2, <1>3, <1>5, <1>6, <1>8 DEF ProcessStep
<1> QED
  BY <1>9, StepInvariant

LEMMA JobStep ==
  ASSUME IInv, NEW d \in Documents, doc[d] # None, NEW i \in DOMAIN jobs[d],
         NEW s \in {"completed", "unreadable", "failed", "lost"},
         jobs[d][i].state = "queued" \/ s = "lost",
         jobs' = [jobs EXCEPT ![d][i].state = s],
         UNCHANGED <<meter, doc, aged, clauses, pinned, edited, batch, pc, call, upsets>>
  PROVE  IInv'
<1>1. jobs \in [Documents -> Seq(JobRecord)] /\ jobs[d] \in Seq(JobRecord)
  BY DEF IInv, Types, RowsTyped
<1>2. jobs[d][i] \in JobRecord
  BY <1>1
<1>3. PICK j \in JobRecord :
        /\ j = [jobs[d][i] EXCEPT !.state = s]
        /\ j.state = s /\ j.kind = jobs[d][i].kind
  <2>1. /\ [jobs[d][i] EXCEPT !.state = s] \in JobRecord
        /\ [jobs[d][i] EXCEPT !.state = s].state = s
        /\ [jobs[d][i] EXCEPT !.state = s].kind = jobs[d][i].kind
    BY <1>2 DEF JobRecord
  <2> QED
    BY Zenon, <2>1
<1>4. jobs' = [jobs EXCEPT ![d] = [jobs[d] EXCEPT ![i] = j]]
  BY Zenon, <1>3
<1>5. PICK js \in Seq(JobRecord) :
        /\ js = [jobs[d] EXCEPT ![i] = j] /\ Len(js) = Len(jobs[d])
        /\ js[i] = j /\ \A n \in DOMAIN jobs[d] : n # i => js[n] = jobs[d][n]
  <2>1. /\ [jobs[d] EXCEPT ![i] = j] \in Seq(JobRecord)
        /\ Len([jobs[d] EXCEPT ![i] = j]) = Len(jobs[d])
        /\ [jobs[d] EXCEPT ![i] = j][i] = j
        /\ \A n \in DOMAIN jobs[d] : n # i => [jobs[d] EXCEPT ![i] = j][n] = jobs[d][n]
    BY <1>1, <1>3
  <2> QED
    BY Zenon, <2>1
<1>6. /\ jobs'[d] = js /\ jobs' \in [Documents -> Seq(JobRecord)]
      /\ \A e \in Documents \ {d} : jobs'[e] = jobs[e]
  BY <1>1, <1>4, <1>5
<1>7. Len(jobs'[d]) = Len(jobs[d])
  BY <1>5, <1>6
<1>8. RowsTyped'
  BY <1>6, <1>7 DEF IInv, Types, RowsTyped
<1>9. RestTyped'
  BY DEF IInv, Types, RestTyped
<1>10. JobsKeep(d)
  <2>1. Len(jobs[d]) \in Nat
    BY <1>1
  <2>2. \A n \in DOMAIN jobs[d] : jobs'[d][n].kind = jobs[d][n].kind
    BY <1>3, <1>5, <1>6
  <2>3. ASSUME NEW n \in {1, 2}, Ended(d, n) PROVE Ended(d, n)'
    <3>1. n \in DOMAIN jobs[d]
      BY <1>1, <2>1, <2>3 DEF Ended
    <3> QED
      BY <1>3, <1>5, <1>6, <1>7, <2>3, <3>1 DEF Ended
  <2>4. ASSUME NEW n \in {1, 2}, Broken(d, n) PROVE Broken(d, n)'
    <3>1. n \in DOMAIN jobs[d]
      BY <1>1, <2>1, <2>4 DEF Broken
    <3> QED
      BY <1>3, <1>5, <1>6, <1>7, <2>4, <3>1 DEF Broken
  <2> QED
    BY <1>7, <2>1, <2>2, <2>3, <2>4 DEF JobsKeep
<1> QED
  BY <1>6, <1>7, <1>8, <1>9, <1>10, InsideStep

\* A job belongs to a row that was inserted.
LEMMA JobsOfRows ==
  ASSUME IInv, NEW d \in Documents, NEW i \in DOMAIN jobs[d]
  PROVE  doc[d] # None
<1>1. jobs[d] # <<>>
  OBVIOUS
<1> QED
  BY <1>1 DEF IInv, Absents, AbsentOk

LEMMA JobEndsStep ==
  ASSUME IInv, NEW d \in Documents, JobEnds(d)
  PROVE  IInv'
<1>1. PICK i \in Named(d), s \in {"completed", "unreadable", "failed"} :
        jobs[d][i].state = "queued" /\ jobs' = [jobs EXCEPT ![d][i].state = s]
  BY Zenon DEF JobEnds
<1>2. i \in DOMAIN jobs[d] /\ s \in {"completed", "unreadable", "failed", "lost"}
  BY DEF Named
<1> QED
  BY <1>1, <1>2, JobsOfRows, JobStep DEF JobEnds

LEMMA ResultExpiresStep ==
  ASSUME IInv, NEW d \in Documents, ResultExpires(d)
  PROVE  IInv'
<1>1. PICK i \in Named(d) : jobs' = [jobs EXCEPT ![d][i].state = "lost"]
  BY Zenon DEF ResultExpires
<1>2. i \in DOMAIN jobs[d]
  BY DEF Named
<1> QED
  BY <1>1, <1>2, JobsOfRows, JobStep DEF ResultExpires

LEMMA AgeStep ==
  ASSUME IInv, NEW d \in Documents, Age(d)
  PROVE  IInv'
<1>1. /\ doc[d] # None /\ jobs[d] \in Seq(JobRecord)
      /\ aged' = aged \cup {d}
      /\ UNCHANGED <<meter, doc, clauses, jobs, pinned, edited, batch, pc, call, upsets>>
  BY DEF Age, InProgress, IInv, Types, RowsTyped
<1>2. NoOwner(d)
  BY DEF Age, Looking, NoOwner, Uploader, Winner, Saving
<1>3. RowsTyped' /\ RestTyped'
  BY <1>1 DEF IInv, Types, RowsTyped, RestTyped
<1>4. JobsKeep(d)
  BY <1>1 DEF JobsKeep, Ended, Broken
<1> QED
  BY <1>1, <1>2, <1>3, <1>4, InsideStep

-----------------------------------------------------------------------------
(* The theorems.                                                           *)

LEMMA InitInvariant == Init => IInv
<1> SUFFICES ASSUME Init PROVE IInv
  OBVIOUS
<1>1. MeterTyped
  <2>1. DOMAIN entry = {}
    BY DEF Init
  <2>2. entry \in [DOMAIN entry -> EntryRow]
    BY DEF Init
  <2> QED
    BY <2>1, <2>2, BoundsAssumption DEF Init, MeterTyped
<1>2. RowsTyped
  <2>1. doc \in [Documents -> DocumentRow \cup {None}] /\ \A d \in Documents : doc[d] = None
    BY DEF Init
  <2>2. clauses \in [Documents -> Nat] /\ jobs \in [Documents -> Seq(JobRecord)]
    BY DEF Init
  <2> QED
    BY <2>1, <2>2 DEF Init, RowsTyped
<1>3. CallsTyped /\ \A p \in Processes : pc[p] = "idle" /\ call[p] = NoCall
  <2>1. "idle" \in Labels
    BY DEF Labels
  <2> QED
    BY <2>1, NoCallType DEF Init, CallsTyped
<1>4. RestTyped
  <2>1. 0 \in 0 .. MaxUpsets
    BY BoundsAssumption
  <2>2. pinned = FALSE /\ edited = {} /\ batch = {} /\ upsets = 0
    BY DEF Init
  <2> QED
    BY <2>1, <2>2 DEF RestTyped
<1>5. Shapes
  BY <1>3 DEF Shapes, CallShape
<1>6. \A p \in Processes : Mine(p) = None
  BY <1>3, NoCallType DEF Mine
<1>7. KeysApart
  BY <1>6, NoneAssumption DEF KeysApart, Holds, Init
<1>8. Absents
  BY <1>6, NoneAssumption DEF Absents, AbsentOk, Init
<1>9. Promises
  BY DEF Promises, DocumentOk, Init
<1> QED
  BY <1>1, <1>2, <1>3, <1>4, <1>5, <1>7, <1>8, <1>9 DEF IInv, Types

LEMMA NextInvariant == IInv /\ [Next]_vars => IInv'
<1> SUFFICES ASSUME IInv, [Next]_vars PROVE IInv'
  OBVIOUS
<1>1. ASSUME NEW p \in Processes, Step(p) PROVE IInv'
  <2>1. CASE Select(p) \/ Write(p) \/ Insert(p) \/ ReleaseInFlight(p)
    BY <2>1, SelectStep, WriteStep, InsertStep, ReleaseInFlightStep
  <2>2. CASE Dispatch(p) \/ DispatchFails(p) \/ Check(p) \/ FailDocument(p) \/ Ask(p)
    BY <2>2, DispatchStep, DispatchFailsStep, CheckStep, FailDocumentStep, AskStep
  <2>3. CASE ClaimText(p) \/ ClaimClauses(p) \/ Commit(p) \/ Refund(p)
    BY <2>3, ClaimTextStep, ClaimClausesStep, CommitStep, RefundStep
  <2>4. CASE ReleasePrior(p) \/ Reserve(p) \/ Denied(p) \/ Cleanup(p)
    BY <2>4, ReleasePriorStep, ReserveStep, DeniedStep, CleanupStep
  <2> QED
    BY <1>1, <2>1, <2>2, <2>3, <2>4 DEF Step
<1>2. ASSUME NEW p \in Processes, Throw(p) \/ Die(p) PROVE IInv'
  BY <1>2, ThrowStep, DieStep
<1>3. ASSUME NEW p \in Callers, NEW d \in Documents,
             \/ \E k \in Keys : Upload(p, d, k)
             \/ Poll(p, d) \/ EditText(p, d) \/ Reprocess(p, d)
      PROVE  IInv'
  <2>1. CASE Poll(p, d)
    <3>1. p \in Processes
      BY DEF Processes
    <3> QED
      BY <2>1, <3>1, LoadStep DEF Poll
  <2> QED
    BY <1>3, <2>1, UploadStep, EditTextStep, ReprocessStep
<1>4. CASE Tick \/ Visit \/ Pin
  BY <1>4, TickStep, DriverStep, PinStep
<1>5. ASSUME NEW d \in Documents, JobEnds(d) \/ ResultExpires(d) \/ Age(d) PROVE IInv'
  BY <1>5, JobEndsStep, ResultExpiresStep, AgeStep
<1>6. ASSUME NEW k \in Keys, Sweep(k) PROVE IInv'
  BY <1>6, SweepStep
<1>7. CASE UNCHANGED vars
  <2>1. UNCHANGED <<doc, aged, clauses, jobs, edited, pc, call>> /\ UNCHANGED meter
    BY <1>7 DEF vars, meter
  <2>2. MeterTyped' /\ MeterStep(None)
    BY <2>1, MeterStays
  <2>3. RestTyped' /\ pinned' = pinned
    BY <1>7 DEF vars, IInv, Types, RestTyped
  <2> QED
    BY <2>1, <2>2, <2>3, OutsideStep
<1> QED
  BY <1>1, <1>2, <1>3, <1>4, <1>5, <1>6, <1>7 DEF Next

\* Whatever requests, drivers, AI jobs, edits, errors and deaths there are,
\* the ownership of the rows and what the calls know of them stays intact.
THEOREM Invariance == Spec => []IInv
<1> QED
  BY InitInvariant, NextInvariant, PTL DEF Spec

\* Rows, jobs, reservations and calls keep their types, and no entity names a
\* job that was not dispatched.
THEOREM TypeCorrect == Spec => []TypeOK
<1>1. IInv => TypeOK
  BY TypesSuffice DEF IInv
<1> QED
  BY <1>1, Invariance, PTL

\* The clauses of a document are stored once, however many calls and drivers
\* see its clause job end (ClaimClauses).
THEOREM WrittenOnce == Spec => []ClausesWrittenOnce
<1>1. IInv => ClausesWrittenOnce
  <2> SUFFICES ASSUME IInv, NEW d \in Documents, d \notin edited PROVE clauses[d] <= 1
    BY DEF ClausesWrittenOnce
  <2>1. CASE doc[d] = None
    BY <2>1 DEF IInv, Absents, AbsentOk
  <2>2. CASE doc[d] # None
    BY <2>2, Promised DEF RowOk
  <2> QED
    BY <2>1, <2>2
<1> QED
  BY <1>1, Invariance, PTL

\* A document gets at most one clause job, however many calls see its text job
\* end and wherever one of them dies (ClaimText).
THEOREM DispatchedOnce == Spec => []OneClauseJob
<1>1. IInv => OneClauseJob
  <2> SUFFICES ASSUME IInv, NEW d \in Documents, d \notin edited
               PROVE  Cardinality(ClauseJobs(d)) <= 1
    BY DEF OneClauseJob
  <2>1. ClauseJobs(d) \subseteq {2}
    <3>1. CASE doc[d] = None
      <4>1. jobs[d] = <<>>
        BY <3>1 DEF IInv, Absents, AbsentOk
      <4> QED
        BY <4>1 DEF ClauseJobs
    <3>2. CASE doc[d] # None
      <4>1. RowOk(d) /\ jobs[d] \in Seq(JobRecord)
        BY <3>2, Promised
      <4>2. ASSUME NEW i \in DOMAIN jobs[d] PROVE i = 2 \/ jobs[d][i].kind = "text"
        <5>1. PICK n \in Nat : n = Len(jobs[d]) /\ n <= 2 /\ i \in 1 .. n
          BY <4>1 DEF RowOk
        <5>2. i = 1 \/ i = 2
          BY <5>1
        <5>3. n >= 1
          BY <5>1
        <5> QED
          BY <4>1, <5>1, <5>2, <5>3 DEF RowOk
      <4> QED
        BY <4>2 DEF ClauseJobs
    <3> QED
      BY <3>1, <3>2
  <2>2. IsFiniteSet({2}) /\ Cardinality({2}) = 1
    BY FS_Singleton
  <2>3. Cardinality(ClauseJobs(d)) <= Cardinality({2})
    BY <2>1, <2>2, FS_Subset
  <2> QED
    BY <2>2, <2>3
<1> QED
  BY <1>1, Invariance, PTL

\* Who is charged for an upload has its clauses: no stale copy takes a
\* committed document back (Commit).
THEOREM ChargedDelivered == Spec => []ChargedUploadsDelivered
<1>1. IInv => ChargedUploadsDelivered
  <2> SUFFICES ASSUME IInv, NEW k \in DOMAIN entry, NEW d \in Documents,
                      entry[k].status = "committed", RunOf(k, d), d \notin edited
               PROVE  clauses[d] = 1 /\ doc[d].status = "CLAUSES_EXTRACTED"
    BY DEF ChargedUploadsDelivered
  <2>1. RowOk(d) /\ ReservationOk(d)
    BY Promised DEF RunOf
  <2> QED
    BY <2>1 DEF RunOf, RowOk, ReservationOk
<1> QED
  BY <1>1, Invariance, PTL

\* Capacity that went back before its TTL is of a document without clauses
\* (Refund), also when the contract was signed or the staleness backstop failed
\* the row meanwhile.
THEOREM RefundedUndelivered == Spec => []RefundedUploadsDeliverNothing
<1>1. IInv => RefundedUploadsDeliverNothing
  <2> SUFFICES ASSUME IInv, NEW k \in DOMAIN entry, NEW d \in Documents,
                      entry[k].status = "released", k \notin swept,
                      RunOf(k, d), d \notin edited
               PROVE  clauses[d] = 0
    BY DEF RefundedUploadsDeliverNothing
  <2>1. RowOk(d) /\ ReservationOk(d)
    BY Promised DEF RunOf
  <2>2. Over(d)
    BY <2>1 DEF RunOf, ReservationOk
  <2>3. doc[d].status # "CLAUSES_EXTRACTED"
    BY <2>2 DEF Over, Stalled, JobFailed, Overtaken
  <2> QED
    BY <2>1, <2>3 DEF RowOk
<1> QED
  BY <1>1, Invariance, PTL

\* An UPDATE by a call leaves a finished document finished.
LEMMA FinalUpdate ==
  ASSUME IInv, NEW p \in Processes, NEW d \in Documents, d = Mine(p),
         doc[d] # None, doc[d].status \in Terminal, d \notin edited, ~pinned,
         Write(p) \/ Insert(p) \/ FailDocument(p) \/ ClaimText(p) \/ ClaimClauses(p)
  PROVE  doc'[d].status = doc[d].status
<1>1. /\ CallOk(p, d) /\ doc[d] \in DocumentRow
      /\ doc \in [Documents -> DocumentRow \cup {None}]
  BY Promised DEF IInv, Types, RowsTyped
<1>2. ASSUME Uploader(p) \/ Winner(p) PROVE FALSE
  BY <1>1, <1>2 DEF CallOk, OwnerOk, Terminal
<1>3. CASE Write(p)
  <2>1. /\ pc[p] = "write" /\ call[p].columns \subseteq DOMAIN NewRow
        /\ call[p].next \in {"started", "edited", "dispatchText", "dispatchClauses", "refund"}
        /\ call[p].next \notin {"edited", "dispatchText"}
        /\ Entity(p) \in DocumentRow
    BY <1>3, AtWork DEF Write, IInv, Shapes, CallShape, CallRow
  <2>2. call[p].next = "refund" /\ Saving(p, "refund")
    BY <1>1, <1>2, <2>1 DEF CallOk, Saving, Winner
  <2>3. Entity(p).status = "FAILED" /\ Over(d) /\ doc[d].status # "HUMAN_REVIEW_RECOMMENDED"
    BY <1>1, <1>2, <2>2 DEF CallOk, EndingOk
  <2>4. doc[d].status = "FAILED"
    BY <2>3 DEF Over, Stalled, JobFailed, Overtaken, Terminal
  <2>5. doc' = [doc EXCEPT ![d] = Merged(doc[d], Entity(p), call[p].columns)]
    BY <1>3 DEF Write, Update, Merged, Row
  <2>6. Merged(doc[d], Entity(p), call[p].columns).status \in {doc[d].status, Entity(p).status}
    BY <1>1, <2>1, MergedRow
  <2> QED
    BY <1>1, <2>3, <2>4, <2>5, <2>6
<1>4. CASE Insert(p)
  BY <1>1, <1>4 DEF Insert, CallOk
<1>5. CASE FailDocument(p)
  <2>1. Row(p).status # Entity(p).status
    BY <1>5, ClaimFinds DEF FailDocument, Row
  <2> QED
    BY <1>5, <2>1 DEF FailDocument
<1>6. CASE ClaimText(p)
  <2>1. Row(p).status # "EXTRACTING_TEXT"
    BY DEF Row, Terminal
  <2> QED
    BY <1>6, <2>1 DEF ClaimText
<1>7. CASE ClaimClauses(p)
  <2>1. ~Claimable(p)
    BY DEF Claimable, Row, Terminal
  <2> QED
    BY <1>7, <2>1 DEF ClaimClauses
<1> QED
  BY <1>3, <1>4, <1>5, <1>6, <1>7

\* The steps that write a row write the row of their call.
LEMMA Writers ==
  ASSUME IInv, [Next]_vars
  PROVE  \/ doc' = doc
         \/ \E p \in Processes :
              /\ Write(p) \/ Insert(p) \/ FailDocument(p) \/ ClaimText(p) \/ ClaimClauses(p)
              /\ \A d \in Documents \ {Mine(p)} : doc'[d] = doc[d]
<1>0. doc \in [Documents -> DocumentRow \cup {None}]
  BY DEF IInv, Types, RowsTyped
<1>1. ASSUME NEW p \in Processes, NEW row, Update(Mine(p), row)
      PROVE  \A d \in Documents \ {Mine(p)} : doc'[d] = doc[d]
  BY <1>0, <1>1 DEF Update
<1>2. ASSUME NEW p \in Processes,
             Write(p) \/ Insert(p) \/ FailDocument(p) \/ ClaimText(p) \/ ClaimClauses(p)
      PROVE  \A d \in Documents \ {Mine(p)} : doc'[d] = doc[d]
  <2>1. doc' = doc \/ \E row : Update(Mine(p), row)
    BY <1>2 DEF Write, Insert, FailDocument, ClaimText, ClaimClauses
  <2> QED
    BY <1>1, <2>1
<1>3. ASSUME NEW p \in Processes, Step(p) \/ Throw(p) \/ Die(p)
      PROVE  \/ doc' = doc
             \/ Write(p) \/ Insert(p) \/ FailDocument(p) \/ ClaimText(p) \/ ClaimClauses(p)
  BY <1>3 DEF Step, Throw, Die, Select, ReleaseInFlight, Dispatch, DispatchFails, Check,
    Ask, Commit, Refund, ReleasePrior, Reserve, Denied, Cleanup
<1>4. ASSUME NEW p \in Callers, NEW d \in Documents,
             \/ \E k \in Keys : Upload(p, d, k)
             \/ Poll(p, d) \/ EditText(p, d) \/ Reprocess(p, d)
      PROVE  doc' = doc
  BY <1>4 DEF Upload, Poll, EditText, Reprocess
<1>5. CASE Tick \/ Visit \/ Pin
  BY <1>5 DEF Tick, Visit, Pin
<1>6. ASSUME NEW d \in Documents, JobEnds(d) \/ ResultExpires(d) \/ Age(d) PROVE doc' = doc
  BY <1>6 DEF JobEnds, ResultExpires, Age
<1>7. ASSUME NEW k \in Keys, Sweep(k) PROVE doc' = doc
  BY <1>7 DEF Sweep
<1>8. CASE UNCHANGED vars
  BY <1>8 DEF vars
<1> QED
  BY <1>2, <1>3, <1>4, <1>5, <1>6, <1>7, <1>8 DEF Next

\* Until the contract is signed no stale copy brings a finished document back
\* or changes how it finished (Write, FailDocument).
THEOREM Final == Spec => TerminalIsFinal
<1>1. IInv /\ [Next]_vars =>
        [\A d \in Documents :
           doc[d] # None /\ doc[d].status \in Terminal /\ d \notin edited /\ ~pinned =>
             doc'[d].status = doc[d].status]_vars
  <2> SUFFICES ASSUME IInv, [Next]_vars, NEW d \in Documents,
                      doc[d] # None, doc[d].status \in Terminal, d \notin edited, ~pinned
               PROVE  doc'[d].status = doc[d].status
    OBVIOUS
  <2>1. CASE doc' = doc
    BY <2>1
  <2>2. ASSUME NEW p \in Processes,
               Write(p) \/ Insert(p) \/ FailDocument(p) \/ ClaimText(p) \/ ClaimClauses(p),
               \A e \in Documents \ {Mine(p)} : doc'[e] = doc[e]
        PROVE  doc'[d].status = doc[d].status
    <3>1. CASE d = Mine(p)
      BY <2>2, <3>1, FinalUpdate
    <3>2. CASE d # Mine(p)
      BY <2>2, <3>2
    <3> QED
      BY <3>1, <3>2
  <2> QED
    BY <2>1, <2>2, Writers
<1> QED
  BY <1>1, Invariance, PTL DEF Spec, TerminalIsFinal

-----------------------------------------------------------------------------
(* Reservations and their owners: while nobody edits, throws or dies, what  *)
(* is reserved belongs to a document in progress or to a call.              *)

Reserved(k) == k \in DOMAIN entry /\ entry[k].status = "reserved"

Owned(k) ==
  \/ \E d \in InProgress : RunOf(k, d)
  \/ \E p \in Processes : OnItsWay(p, k)

OwnersKnown ==
  upsets = 0 => edited = {} /\ \A k \in Keys : Reserved(k) => Owned(k)

\* A reservation that was settled is settled.
LEMMA SettleEnds ==
  ASSUME MeterTyped, NEW k, NEW s \in {"committed", "released"}, Settle(k, s)
  PROVE  ~Reserved(k)' /\ \A j \in Keys : Reserved(j)' => Reserved(j)
<1>1. /\ DOMAIN entry' = DOMAIN entry
      /\ \A j \in DOMAIN entry : j # k => entry'[j] = entry[j]
  BY SettleRow
<1>2. ~Reserved(k)'
  <2>1. CASE Reserved(k)
    <3>1. /\ entry' = [entry EXCEPT ![k].status = s] /\ entry[k] \in EntryRow
      BY <2>1 DEF Settle, Reserved, Meter!End, MeterTyped
    <3>2. entry'[k].status = s
      BY <2>1, <3>1 DEF Reserved, EntryRow
    <3> QED
      BY <3>2 DEF Reserved
  <2>2. CASE ~Reserved(k)
    BY <2>2 DEF Settle, Reserved
  <2> QED
    BY <2>1, <2>2
<1> QED
  BY <1>1, <1>2 DEF Reserved

\* What p has to show for its own document and its own hold on a key.
LEMMA OwnersKept ==
  ASSUME NEW p \in Processes, NEW k \in Keys, OthersStay(p), Owned(k),
         \A d \in Documents \ {Mine(p)} : doc'[d] = doc[d],
         Mine(p) \in InProgress /\ RunOf(k, Mine(p)) => Owned(k)',
         OnItsWay(p, k) => Owned(k)'
  PROVE  Owned(k)'
<1>1. ASSUME NEW d \in InProgress, RunOf(k, d), d # Mine(p) PROVE Owned(k)'
  <2>1. doc'[d] = doc[d] /\ d \in Documents
    BY <1>1 DEF InProgress
  <2>2. d \in InProgress' /\ RunOf(k, d)'
    BY <1>1, <2>1 DEF InProgress, RunOf
  <2> QED
    BY <2>2 DEF Owned
<1>2. ASSUME NEW q \in Processes, OnItsWay(q, k), q # p PROVE Owned(k)'
  <2>1. pc'[q] = pc[q] /\ call'[q] = call[q]
    BY <1>2 DEF OthersStay
  <2>2. OnItsWay(q, k)'
    BY <1>2, <2>1 DEF OnItsWay, Entity
  <2> QED
    BY <2>2 DEF Owned
<1> QED
  BY <1>1, <1>2 DEF Owned

\* A step that leaves the rows and the ledger alone, of a call that holds
\* nothing.
LEMMA OwnersQuiet ==
  ASSUME NEW p \in Processes, NEW k \in Keys, OthersStay(p), Owned(k), doc' = doc,
         pc[p] \notin {"insert", "inflight", "commit", "refund"}
  PROVE  Owned(k)'
<1>1. ASSUME NEW d \in InProgress, RunOf(k, d) PROVE d \in InProgress' /\ RunOf(k, d)'
  BY <1>1 DEF InProgress, RunOf
<1>2. ~OnItsWay(p, k)
  BY DEF OnItsWay
<1> QED
  BY <1>1, <1>2, OwnersKept DEF Owned

\* The steps of one process change its call alone.
LEMMA OthersOfStep ==
  ASSUME CallsTyped, NEW p \in Processes, Step(p)
  PROVE  OthersStay(p)
<1>1. ASSUME NEW l, Goto(p, l) PROVE \A q \in Processes \ {p} : pc'[q] = pc[q]
  BY <1>1 DEF Goto, CallsTyped
<1>2. ASSUME NEW c, call' = [call EXCEPT ![p] = c]
      PROVE  \A q \in Processes \ {p} : call'[q] = call[q]
  BY <1>2 DEF CallsTyped
<1>3. \E l : Goto(p, l)
  BY Zenon DEF Step, Select, Write, Insert, ReleaseInFlight, Dispatch, DispatchFails, Check,
    FailDocument, Ask, ClaimText, AfterText, ClaimClauses, Commit, Refund, ReleasePrior,
    Reserve, Denied, Cleanup, Return, Save, Onward
<1>4. UNCHANGED call \/ \E c : call' = [call EXCEPT ![p] = c]
  BY Zenon DEF Step, Select, Write, Insert, ReleaseInFlight, Dispatch, DispatchFails, Check,
    FailDocument, Ask, ClaimText, AfterText, ClaimClauses, Commit, Refund, ReleasePrior,
    Reserve, Denied, Cleanup, Return, Save, Onward
<1> QED
  BY <1>1, <1>2, <1>3, <1>4 DEF OthersStay

\* What a call that works on a row knows while nobody edits.
LEMMA Unedited ==
  ASSUME IInv, edited = {}, NEW p \in Processes, pc[p] \notin {"idle", "insert", "inflight"}
  PROVE  /\ Mine(p) \in Documents /\ doc[Mine(p)] \in DocumentRow
         /\ doc[Mine(p)] # None /\ doc \in [Documents -> DocumentRow \cup {None}]
         /\ Entity(p) \in DocumentRow /\ call[p] \in CallRow /\ CallOk(p, Mine(p))
         /\ Entity(p).reservation = doc[Mine(p)].reservation
<1>1. Mine(p) \in Documents /\ doc[Mine(p)] # None
  BY DEF IInv, Shapes, CallShape
<1>2. doc \in [Documents -> DocumentRow \cup {None}] /\ call[p] \in CallRow
  BY DEF IInv, Types, RowsTyped, CallsTyped
<1>3. doc[Mine(p)] \in DocumentRow /\ Entity(p) \in DocumentRow
  BY <1>1, <1>2 DEF Entity, CallRow
<1>4. CallOk(p, Mine(p))
  BY <1>1 DEF IInv, Promises, DocumentOk
<1> QED
  BY <1>1, <1>2, <1>3, <1>4 DEF CallOk

\* A row in progress owns what it carries.
LEMMA RowOwns ==
  ASSUME NEW d \in Documents, NEW k, doc'[d] # None, doc'[d].status \notin Terminal,
         doc'[d].reservation = k
  PROVE  Owned(k)'
BY DEF Owned, InProgress, RunOf

\* A save of an ended document goes on to the refund.
LEMMA WriteOwner ==
  ASSUME IInv, edited = {}, NEW p \in Processes, NEW k \in Keys, Write(p), Owned(k)
  PROVE  Owned(k)'
<1> DEFINE d == Mine(p)
           row == Merged(doc[d], Entity(p), call[p].columns)
<1>1. pc[p] = "write"
  BY DEF Write
<1>2. /\ d \in Documents /\ doc[d] \in DocumentRow /\ doc[d] # None
      /\ doc \in [Documents -> DocumentRow \cup {None}]
      /\ Entity(p) \in DocumentRow /\ CallOk(p, d)
      /\ Entity(p).reservation = doc[d].reservation
  BY <1>1, Unedited
<1>3. doc' = [doc EXCEPT ![d] = row]
  BY DEF Write, Update, Merged, Row
<1>4. /\ row \in DocumentRow /\ row.reservation = doc[d].reservation
      /\ row.status \in {doc[d].status, Entity(p).status}
  BY <1>2, MergedRow
<1> HIDE DEF row
<1>5. doc'[d] = row /\ doc'[d] # None /\ \A e \in Documents \ {d} : doc'[e] = doc[e]
  BY <1>2, <1>3, <1>4, RowAssumption
<1>6. OthersStay(p)
  BY OthersOfStep DEF Step, IInv, Types
<1>7. ASSUME d \in InProgress, RunOf(k, d) PROVE Owned(k)'
  <2>1. CASE row.status \notin Terminal
    <3>1. doc[d].reservation = k
      BY <1>7 DEF RunOf
    <3> QED
      BY <1>2, <1>4, <1>5, <2>1, <3>1, RowOwns
  <2>2. CASE row.status \in Terminal
    <3>1. Entity(p).status \in Terminal
      BY <1>4, <1>7, <2>2 DEF InProgress
    <3>2. call[p].next \in {"started", "edited", "dispatchText", "dispatchClauses", "refund"}
          /\ (call[p].next \in {"edited", "dispatchText"} => d \in edited)
      BY <1>1 DEF IInv, Shapes, CallShape
    <3>3. call[p].next # "started"
      <4>1. ASSUME Saving(p, "started") PROVE FALSE
        <5>1. Uploader(p) \/ Winner(p)
          BY <1>2, <4>1 DEF CallOk
        <5>2. pc[p] = "write" /\ call[p].next = "started"
          BY <1>1, <4>1 DEF Saving
        <5> QED
          BY <3>1, <5>1, <5>2 DEF Uploader, Winner, Saving, Terminal
      <4> QED
        BY <1>1, <4>1 DEF Saving
    <3>4. call[p].next # "dispatchClauses"
      <4>1. ASSUME Saving(p, "dispatchClauses") PROVE FALSE
        <5>1. Winner(p)
          BY <4>1 DEF Winner
        <5> QED
          BY <1>2, <3>1, <4>1, <5>1 DEF CallOk, OwnerOk, Terminal
      <4> QED
        BY <1>1, <4>1 DEF Saving
    <3>5. call[p].next = "refund"
      BY <3>2, <3>3, <3>4
    <3>6. Goto(p, "refund") /\ call' = [call EXCEPT ![p] = [@ EXCEPT !.columns = {}]]
      BY <3>5 DEF Write
    <3>7. call[p] \in CallRow /\ call \in [Processes -> CallRow] /\ pc \in [Processes -> Labels]
      BY DEF IInv, Types, CallsTyped
    <3>8. pc'[p] = "refund" /\ call'[p] = [call[p] EXCEPT !.columns = {}]
      BY <3>6, <3>7 DEF Goto
    <3>9. call'[p].entity = call[p].entity
      BY <3>7, <3>8, ColumnsCall
    <3>10. OnItsWay(p, k)'
      BY <1>2, <1>7, <3>8, <3>9 DEF OnItsWay, Entity, RunOf
    <3> QED
      BY <3>10 DEF Owned
  <2> QED
    BY <2>1, <2>2
<1>8. ~OnItsWay(p, k)
  BY <1>1 DEF OnItsWay
<1> QED
  BY <1>5, <1>6, <1>7, <1>8, OwnersKept

\* The upload's hold on its key passes to the row it inserts.
LEMMA InsertOwner ==
  ASSUME IInv, edited = {}, NEW p \in Processes, NEW k \in Keys, Insert(p), Owned(k)
  PROVE  Owned(k)'
<1> DEFINE d == Mine(p)
<1>1. pc[p] = "insert" /\ d \in Documents
  BY DEF Insert, IInv, Shapes, CallShape
<1>2. doc[d] = None
  <2>1. ASSUME doc[d] # None PROVE FALSE
    BY <1>1, <2>1 DEF IInv, Promises, DocumentOk, CallOk
  <2> QED
    BY <2>1
<1>3. Entity(p) = [NewRow EXCEPT !.reservation = call[p].key]
  BY <1>1, <1>2 DEF IInv, Absents, AbsentOk
<1>4. Entity(p).status = "UPLOADED" /\ Entity(p).reservation = call[p].key
  BY <1>3, NewRowType DEF NewRow
<1>5. doc \in [Documents -> DocumentRow \cup {None}] /\ Entity(p) \in DocumentRow
  BY DEF IInv, Types, RowsTyped, CallsTyped, CallRow, Entity
<1>6. doc'[d] = Entity(p) /\ \A e \in Documents \ {d} : doc'[e] = doc[e]
  BY <1>1, <1>5 DEF Insert, Update
<1>7. ASSUME OnItsWay(p, k) PROVE Owned(k)'
  <2>1. call[p].key = k
    BY <1>1, <1>7 DEF OnItsWay
  <2>2. doc'[d] # None /\ doc'[d].status \notin Terminal /\ doc'[d].reservation = k
    BY <1>4, <1>5, <1>6, <2>1, RowAssumption DEF Terminal
  <2> QED
    BY <1>1, <2>2, RowOwns
<1>8. ~RunOf(k, d)
  BY <1>2 DEF RunOf
<1>9. OthersStay(p)
  BY OthersOfStep DEF Step, IInv, Types
<1> QED
  BY <1>6, <1>7, <1>8, <1>9, OwnersKept

\* The winner of a claim that ends a document holds its reservation.
LEMMA ClaimOwner ==
  ASSUME IInv, edited = {}, NEW p \in Processes, NEW k \in Keys, Owned(k),
         FailDocument(p) \/ ClaimText(p) \/ ClaimClauses(p)
  PROVE  Owned(k)'
<1> DEFINE d == Mine(p)
<1>1. pc[p] \in {"fail", "text", "park", "clauses"}
  BY DEF FailDocument, ClaimText, ClaimClauses
<1>2. /\ d \in Documents /\ doc[d] \in DocumentRow /\ doc[d] # None
      /\ doc \in [Documents -> DocumentRow \cup {None}]
      /\ Entity(p) \in DocumentRow /\ Entity(p).reservation = doc[d].reservation
  BY <1>1, Unedited
<1>3. /\ call[p] \in CallRow /\ call \in [Processes -> CallRow]
      /\ pc \in [Processes -> Labels]
  BY DEF IInv, Types, CallsTyped
<1>4. OthersStay(p)
  BY OthersOfStep DEF Step, IInv, Types
<1>5. ~OnItsWay(p, k)
  BY <1>1 DEF OnItsWay
<1>6. CASE doc' = doc
  BY <1>1, <1>4, <1>6, OwnersQuiet
<1>7. CASE ClaimText(p) /\ Update(d, [doc[d] EXCEPT !.status = "TEXT_EXTRACTED"])
  <2> DEFINE row == [doc[d] EXCEPT !.status = "TEXT_EXTRACTED"]
  <2>0. 0 \in Nat /\ "TEXT_EXTRACTED" \in Statuses
    BY DEF Statuses
  <2>1. row \in DocumentRow /\ row.status = "TEXT_EXTRACTED"
        /\ row.reservation = doc[d].reservation
    BY <1>2, <2>0, SetRow
  <2>2. doc' = [doc EXCEPT ![d] = row]
    BY <1>7 DEF Update
  <2> HIDE DEF row
  <2>3. doc'[d] = row /\ \A e \in Documents \ {d} : doc'[e] = doc[e]
    BY <1>2, <2>2
  <2>4. doc'[d] # None /\ doc'[d].status \notin Terminal
    BY <2>1, <2>3, RowAssumption DEF Terminal
  <2>5. RunOf(k, d) => Owned(k)'
    BY <1>2, <2>1, <2>3, <2>4, RowOwns DEF RunOf
  <2> QED
    BY <1>4, <1>5, <2>3, <2>5, OwnersKept
<1>8. CASE FailDocument(p) /\ Row(p).status = Entity(p).status
  <2>1. /\ Update(d, Failed(doc[d])) /\ Goto(p, "refund")
        /\ call' = [call EXCEPT ![p].entity = Failed(Entity(p))]
    BY <1>8 DEF FailDocument, Row
  <2>2. pc'[p] = "refund" /\ call'[p].entity = Failed(Entity(p))
    BY <1>3, <2>1 DEF Goto, CallRow
  <2>3. Failed(Entity(p)).reservation = Entity(p).reservation
    BY <1>2, FailedRow
  <2>4. RunOf(k, d) => OnItsWay(p, k)'
    BY <1>2, <2>2, <2>3 DEF OnItsWay, Entity, RunOf
  <2>5. \A e \in Documents \ {d} : doc'[e] = doc[e]
    BY <1>2, <2>1 DEF Update
  <2> QED
    BY <1>4, <1>5, <2>4, <2>5, OwnersKept DEF Owned
<1>9. CASE ClaimClauses(p) /\ Goto(p, "commit") /\ UNCHANGED call /\ \E row : Update(d, row)
  <2>1. pc'[p] = "commit" /\ call'[p] = call[p]
    BY <1>3, <1>9 DEF Goto
  <2>2. RunOf(k, d) => OnItsWay(p, k)'
    BY <1>2, <2>1 DEF OnItsWay, Entity, RunOf
  <2>3. \A e \in Documents \ {d} : doc'[e] = doc[e]
    BY <1>2, <1>9 DEF Update
  <2> QED
    BY <1>4, <1>5, <2>2, <2>3, OwnersKept DEF Owned
<1> QED
  <2>1. CASE FailDocument(p)
    BY <1>6, <1>8, <2>1 DEF FailDocument
  <2>2. CASE ClaimText(p)
    BY <1>6, <1>7, <2>2 DEF ClaimText, Row
  <2>3. CASE ClaimClauses(p)
    BY <1>6, <1>9, <2>3 DEF ClaimClauses
  <2> QED
    BY <2>1, <2>2, <2>3

\* A settlement needs no owner any more; the others have theirs.
LEMMA SettlementOwner ==
  ASSUME IInv, edited = {}, NEW p \in Processes, NEW k \in Keys, Owned(k), Reserved(k)',
         Commit(p) \/ Refund(p) \/ ReleaseInFlight(p)
  PROVE  Owned(k)'
<1>1. MeterTyped /\ OthersStay(p)
  BY OthersOfStep DEF Step, IInv, Types
<1>2. doc' = doc
  BY DEF Commit, Refund, ReleaseInFlight
<1>3. ~OnItsWay(p, k)
  <2>1. ASSUME OnItsWay(p, k) PROVE FALSE
    <3>1. \E s \in {"committed", "released"} : Settle(k, s)
      BY <2>1 DEF OnItsWay, Commit, Refund, ReleaseInFlight
    <3> QED
      BY <1>1, <3>1, SettleEnds
  <2> QED
    BY <2>1
<1>4. Mine(p) \in InProgress /\ RunOf(k, Mine(p)) => Owned(k)'
  <2>1. ASSUME NEW d \in InProgress, RunOf(k, d) PROVE Owned(k)'
    <3>1. d \in Documents /\ doc'[d] # None /\ doc'[d].status \notin Terminal
          /\ doc'[d].reservation = k
      BY <1>2, <2>1 DEF InProgress, RunOf
    <3> QED
      BY <3>1, RowOwns
  <2> QED
    BY <2>1
<1> QED
  BY <1>1, <1>2, <1>3, <1>4, OwnersKept

\* The steps of a process that keep the ledger, or settle one of its rows.
LEMMA ProcessOwners ==
  ASSUME IInv, edited = {}, NEW p \in Processes, Step(p), NEW k \in Keys,
         Reserved(k)', Reserved(k) => Owned(k)
  PROVE  Owned(k)'
<1>1. OthersStay(p) /\ MeterTyped
  BY OthersOfStep DEF IInv, Types
<1>2. ~Reserve(p) /\ ~ReleasePrior(p)
  BY DEF Reserve, ReleasePrior, IInv, Shapes, CallShape
<1>3. CASE Commit(p) \/ Refund(p) \/ ReleaseInFlight(p)
  <2>1. \E j : \E s \in {"committed", "released"} : Settle(j, s)
    BY <1>3 DEF Commit, Refund, ReleaseInFlight
  <2>2. Reserved(k)
    BY <1>1, <2>1, SettleEnds
  <2> QED
    BY <1>3, <2>2, SettlementOwner
<1>4. CASE Write(p) \/ Insert(p) \/ FailDocument(p) \/ ClaimText(p) \/ ClaimClauses(p)
  <2>1. entry' = entry
    BY <1>4 DEF Write, Insert, FailDocument, ClaimText, ClaimClauses, meter
  <2>2. Reserved(k)
    BY <2>1 DEF Reserved
  <2> QED
    BY <1>4, <2>2, WriteOwner, InsertOwner, ClaimOwner
<1>5. CASE \/ Select(p) \/ Dispatch(p) \/ DispatchFails(p) \/ Check(p) \/ Ask(p)
           \/ Denied(p) \/ Cleanup(p)
  <2>1. /\ entry' = entry /\ doc' = doc
        /\ pc[p] \notin {"insert", "inflight", "commit", "refund"}
    BY <1>5 DEF Select, Dispatch, DispatchFails, Check, Ask, Denied, Cleanup, meter, Extraction
  <2>2. Reserved(k)
    BY <2>1 DEF Reserved
  <2> QED
    BY <1>1, <2>1, <2>2, OwnersQuiet
<1> QED
  BY <1>2, <1>3, <1>4, <1>5 DEF Step

\* An upload holds the key it was granted until its row carries it.
LEMMA UploadOwners ==
  ASSUME IInv, NEW p \in Callers, NEW d \in Documents, NEW j \in Keys, Upload(p, d, j),
         NEW k \in Keys, Reserved(k)', Reserved(k) => Owned(k)
  PROVE  Owned(k)'
<1>1. /\ p \in Processes /\ pc[p] = "idle" /\ doc' = doc
      /\ Meter!Grant(j, Window, 1) /\ UNCHANGED swept /\ MeterTyped
      /\ pc \in [Processes -> Labels] /\ call \in [Processes -> CallRow]
      /\ Goto(p, "insert")
  BY DEF Upload, Processes, IInv, Types, CallsTyped
<1> DEFINE c == [NoCall EXCEPT !.doc = d, !.key = j,
                               !.entity = [NewRow EXCEPT !.reservation = j]]
<1>2. call' = [call EXCEPT ![p] = c]
  BY Zenon DEF Upload
<1>3. c.key = j
  BY DEF NoCall
<1> HIDE DEF c
<1>4. OthersStay(p)
  BY <1>1, <1>2 DEF OthersStay, Goto
<1>5. CASE k = j
  <2>1. pc'[p] = "insert" /\ call'[p].key = k
    BY <1>1, <1>2, <1>3, <1>5 DEF Goto
  <2> QED
    BY <1>1, <2>1 DEF Owned, OnItsWay
<1>6. CASE k # j
  <2>1. DOMAIN entry' = DOMAIN entry \cup {j} /\ \A i \in DOMAIN entry : entry'[i] = entry[i]
    BY <1>1, GrantRow
  <2>2. Reserved(k)
    BY <1>6, <2>1 DEF Reserved
  <2> QED
    BY <1>1, <1>4, <2>2, OwnersQuiet
<1> QED
  BY <1>5, <1>6

\* A poll only loads a row.
LEMMA LoadOwners ==
  ASSUME IInv, NEW p \in Processes, NEW d, Load(p, d, "check"), pc[p] = "idle",
         doc' = doc, NEW k \in Keys, Owned(k)
  PROVE  Owned(k)'
<1>1. OthersStay(p)
  <2>1. pc \in [Processes -> Labels] /\ call \in [Processes -> CallRow]
    BY DEF IInv, Types, CallsTyped
  <2> QED
    BY <2>1 DEF Load, Goto, OthersStay
<1> QED
  BY <1>1, OwnersQuiet

\* What leaves rows and calls alone leaves their owners.
LEMMA OwnersRest ==
  ASSUME doc' = doc, pc' = pc, call' = call, NEW k, Owned(k)
  PROVE  Owned(k)'
BY DEF Owned, InProgress, RunOf, OnItsWay, Entity

LEMMA OwnersStep == IInv /\ OwnersKnown /\ [Next]_vars => OwnersKnown'
<1> SUFFICES ASSUME IInv, OwnersKnown, [Next]_vars, upsets' = 0
             PROVE  edited' = {} /\ \A k \in Keys : Reserved(k)' => Owned(k)'
  BY DEF OwnersKnown
<1>0. upsets \in Nat
  BY BoundsAssumption DEF IInv, Types, RestTyped
<1>1. ~Upset
  BY <1>0 DEF Upset
<1>2. ASSUME upsets' = upsets PROVE edited = {} /\ \A k \in Keys : Reserved(k) => Owned(k)
  BY <1>2 DEF OwnersKnown
<1>3. ASSUME NEW p \in Processes, Step(p)
      PROVE  edited' = {} /\ \A k \in Keys : Reserved(k)' => Owned(k)'
  <2>1. upsets' = upsets /\ edited' = edited
    BY <1>3 DEF Step, Select, Write, Insert, ReleaseInFlight, Dispatch, DispatchFails, Check,
      FailDocument, Ask, ClaimText, ClaimClauses, Commit, Refund, ReleasePrior, Reserve,
      Denied, Cleanup
  <2> QED
    BY <1>2, <1>3, <2>1, ProcessOwners
<1>4. ASSUME NEW p \in Callers, NEW d \in Documents, NEW j \in Keys, Upload(p, d, j)
      PROVE  edited' = {} /\ \A k \in Keys : Reserved(k)' => Owned(k)'
  <2>1. upsets' = upsets /\ edited' = edited
    BY <1>4 DEF Upload
  <2> QED
    BY <1>2, <1>4, <2>1, UploadOwners
<1>5. ASSUME NEW p \in Processes, NEW d, Load(p, d, "check"), pc[p] = "idle",
             UNCHANGED <<doc, entry, edited, upsets>>
      PROVE  edited' = {} /\ \A k \in Keys : Reserved(k)' => Owned(k)'
  <2>1. \A k \in Keys : Reserved(k)' => Reserved(k)
    BY <1>5 DEF Reserved
  <2> QED
    BY <1>2, <1>5, <2>1, LoadOwners
<1>6. ASSUME UNCHANGED <<doc, pc, call, edited, upsets>>,
             \A k \in Keys : Reserved(k)' => Reserved(k)
      PROVE  edited' = {} /\ \A k \in Keys : Reserved(k)' => Owned(k)'
  BY <1>2, <1>6, OwnersRest
<1>7. ASSUME NEW p \in Callers, NEW d \in Documents, Poll(p, d)
      PROVE  edited' = {} /\ \A k \in Keys : Reserved(k)' => Owned(k)'
  BY <1>5, <1>7 DEF Poll, Processes, meter
<1>8. CASE Visit
  <2>1. PICK d \in batch : IF doc[d].status \in Terminal
                             THEN UNCHANGED <<pc, call>>
                             ELSE Load(Driver, d, "check")
    BY <1>8 DEF Visit
  <2>2. UNCHANGED <<doc, entry, edited, upsets>> /\ pc[Driver] = "idle" /\ Driver \in Processes
    BY <1>8 DEF Visit, meter, Processes
  <2>3. \A k \in Keys : Reserved(k)' => Reserved(k)
    BY <2>2 DEF Reserved
  <2> QED
    BY <1>5, <1>6, <2>1, <2>2, <2>3
<1>9. CASE Tick \/ Pin \/ UNCHANGED vars
  <2>1. UNCHANGED <<doc, pc, call, edited, upsets, entry>>
    BY <1>9 DEF Tick, Pin, vars, meter
  <2> QED
    BY <1>6, <2>1 DEF Reserved
<1>10. ASSUME NEW d \in Documents, JobEnds(d) \/ ResultExpires(d) \/ Age(d)
       PROVE  edited' = {} /\ \A k \in Keys : Reserved(k)' => Owned(k)'
  <2>1. UNCHANGED <<doc, pc, call, edited, upsets, entry>>
    BY <1>10 DEF JobEnds, ResultExpires, Age, meter
  <2> QED
    BY <1>6, <2>1 DEF Reserved
<1>11. ASSUME NEW j \in Keys, Sweep(j)
       PROVE  edited' = {} /\ \A k \in Keys : Reserved(k)' => Owned(k)'
  <2>1. UNCHANGED <<doc, pc, call, edited, upsets>>
    BY <1>11 DEF Sweep
  <2>2. \A k \in Keys : Reserved(k)' => Reserved(k)
    <3>1. DOMAIN entry' = DOMAIN entry /\ entry[j].status = "reserved"
          /\ \A i \in DOMAIN entry : i # j => entry'[i] = entry[i]
      BY <1>11 DEF Sweep, Meter!End
    <3> QED
      BY <3>1 DEF Reserved
  <2> QED
    BY <1>6, <2>1, <2>2
<1> QED
  <2>1. ASSUME NEW p \in Processes PROVE ~Throw(p) /\ ~Die(p)
    BY <1>1 DEF Throw, Die
  <2>2. ASSUME NEW p \in Callers, NEW d \in Documents PROVE ~EditText(p, d) /\ ~Reprocess(p, d)
    BY <1>1 DEF EditText, Reprocess
  <2> QED
    BY <1>3, <1>4, <1>7, <1>8, <1>9, <1>10, <1>11, <2>1, <2>2 DEF Next

\* No capacity is forgotten: while nobody edits, throws or dies, whatever is
\* reserved belongs to a document in progress or to the one call that settles
\* it, however polls, the driver, the backstop and the signing of the contract
\* overtake one another (the claims, and Write of a failed row).
THEOREM OwnersSettle == Spec => []ReservationsHaveOwners
<1>1. Init => OwnersKnown
  BY DEF Init, OwnersKnown, Reserved
<1>2. IInv /\ OwnersKnown => ReservationsHaveOwners
  BY DEF IInv, Types, MeterTyped, OwnersKnown, Reserved, Owned, ReservationsHaveOwners
<1> QED
  BY <1>1, <1>2, OwnersStep, Invariance, PTL DEF Spec

-----------------------------------------------------------------------------
(* A signed contract and its clauses.                                      *)

\* What a step of p keeps of a signed contract.
KeepsSigned(p) == clauses' = clauses /\ pinned' = pinned /\ pc'[p] \notin PastThePin

LEMMA SignedStart ==
  ASSUME IInv, Settled, NEW p \in Callers, NEW d \in Documents,
         \/ \E k \in Keys : Upload(p, d, k)
         \/ Poll(p, d) \/ EditText(p, d) \/ Reprocess(p, d)
  PROVE  KeepsSigned(p) /\ \A q \in Processes \ {p} : pc'[q] = pc[q]
<1>1. Poll(p, d)
  BY DEF Settled, Upload, EditText, Reprocess
<1>2. pc \in [Processes -> Labels] /\ p \in Processes
  BY DEF IInv, Types, CallsTyped, Processes
<1> QED
  BY <1>1, <1>2 DEF Poll, Load, Goto, KeepsSigned, PastThePin

LEMMA SignedStep ==
  ASSUME IInv, Settled, NEW p \in Processes, Step(p) \/ Throw(p) \/ Die(p)
  PROVE  KeepsSigned(p) /\ \A q \in Processes \ {p} : pc'[q] = pc[q]
<1>1. /\ pinned /\ pc[p] \notin PastThePin /\ pc \in [Processes -> Labels]
  BY DEF Settled, IInv, Types, CallsTyped
<1>2. ASSUME NEW l, Goto(p, l), l \notin PastThePin, UNCHANGED <<clauses, pinned>>
      PROVE  KeepsSigned(p) /\ \A q \in Processes \ {p} : pc'[q] = pc[q]
  BY <1>1, <1>2 DEF Goto, KeepsSigned
<1>3. /\ ~Ask(p) /\ ~ClaimClauses(p) /\ ~ReleasePrior(p) /\ ~Reserve(p)
      /\ ~Cleanup(p)
  BY <1>1 DEF Ask, ClaimClauses, ReleasePrior, Reserve, Cleanup, PastThePin
<1>4. ~Denied(p)
  BY <1>1 DEF Denied, PastThePin
<1>5. CASE Write(p)
  <2>1. pc[p] = "write" /\ UNCHANGED <<clauses, pinned>>
    BY <1>5 DEF Write
  <2>2. call[p].next \in {"started", "edited", "dispatchText", "dispatchClauses", "refund"}
    BY <2>1 DEF IInv, Shapes, CallShape
  <2>3. \E l \in {"idle", "dispatchText", "dispatchClauses", "refund"} : Goto(p, l)
    BY <1>5, <2>2 DEF Write, Return
  <2> QED
    BY <1>2, <2>1, <2>3 DEF PastThePin
<1>6. CASE Check(p)
  <2>1. Goto(p, "fail") /\ UNCHANGED <<clauses, pinned>>
    BY <1>1, <1>6 DEF Check, Onward
  <2> QED
    BY <1>2, <2>1 DEF PastThePin
<1>7. CASE \/ Select(p) \/ Insert(p) \/ ReleaseInFlight(p) \/ Dispatch(p) \/ DispatchFails(p)
           \/ FailDocument(p) \/ ClaimText(p) \/ Commit(p) \/ Refund(p)
  <2>1. UNCHANGED <<clauses, pinned>>
    BY <1>7 DEF Select, Insert, ReleaseInFlight, Dispatch, DispatchFails, FailDocument,
      ClaimText, Commit, Refund
  <2>2. \E l \in {"idle", "select", "write", "dispatchText", "refund"} : Goto(p, l)
    BY <1>7 DEF Select, Insert, ReleaseInFlight, Dispatch, DispatchFails, FailDocument,
      ClaimText, AfterText, Commit, Refund, Return, Save
  <2> QED
    BY <1>2, <2>1, <2>2 DEF PastThePin
<1>8. CASE Throw(p) \/ Die(p)
  <2>1. UNCHANGED <<clauses, pinned>>
    BY <1>8 DEF Throw, Die
  <2>2. \E l \in {"idle", "select", "inflight"} : Goto(p, l)
    BY <1>8 DEF Throw, Die, Return, Save
  <2> QED
    BY <1>2, <2>1, <2>2 DEF PastThePin
<1> QED
  BY <1>3, <1>4, <1>5, <1>6, <1>7, <1>8 DEF Step

LEMMA SettledSteps ==
  ASSUME IInv, Settled, [Next]_vars
  PROVE  Settled' /\ clauses' = clauses
<1>1. ASSUME NEW p \in Processes,
             KeepsSigned(p) /\ \A q \in Processes \ {p} : pc'[q] = pc[q]
      PROVE  Settled' /\ clauses' = clauses
  BY <1>1 DEF KeepsSigned, Settled
<1>2. ASSUME UNCHANGED <<clauses, pinned, pc>> PROVE Settled' /\ clauses' = clauses
  BY <1>2 DEF Settled
<1>3. ASSUME NEW p \in Callers PROVE p \in Processes
  BY DEF Processes
<1>4. CASE Visit
  <2>1. /\ UNCHANGED <<clauses, pinned>> /\ Driver \in Processes
        /\ UNCHANGED pc \/ Goto(Driver, "check")
        /\ pc \in [Processes -> Labels]
    BY <1>4 DEF Visit, Load, Processes, IInv, Types, CallsTyped
  <2>2. CASE Goto(Driver, "check")
    BY <1>1, <2>1, <2>2 DEF Goto, KeepsSigned, PastThePin
  <2> QED
    BY <1>2, <2>1, <2>2
<1>5. CASE Tick \/ Pin \/ UNCHANGED vars
  BY <1>2, <1>5 DEF Tick, Pin, vars, Settled
<1>6. ASSUME NEW d \in Documents, JobEnds(d) \/ ResultExpires(d) \/ Age(d)
      PROVE  Settled' /\ clauses' = clauses
  BY <1>2, <1>6 DEF JobEnds, ResultExpires, Age
<1>7. ASSUME NEW k \in Keys, Sweep(k) PROVE Settled' /\ clauses' = clauses
  BY <1>2, <1>7 DEF Sweep
<1>8. ASSUME NEW p \in Processes, Step(p) \/ Throw(p) \/ Die(p)
      PROVE  Settled' /\ clauses' = clauses
  BY <1>1, <1>8, SignedStep
<1>9. ASSUME NEW p \in Callers, NEW d \in Documents,
             \/ \E k \in Keys : Upload(p, d, k)
             \/ Poll(p, d) \/ EditText(p, d) \/ Reprocess(p, d)
      PROVE  Settled' /\ clauses' = clauses
  BY <1>1, <1>3, <1>9, SignedStart
<1> QED
  BY <1>4, <1>5, <1>6, <1>7, <1>8, <1>9 DEF Next

\* The clauses of a signed contract stay as they are once the calls that had
\* asked for the signature before it was there have ended: a later poll, by a
\* browser or the driver, fails the document instead (Check), and uploads,
\* edits and reprocessings are refused.
THEOREM SignedStays == Spec => SignedClausesStay
<1>1. IInv /\ [Next]_vars => [Settled => Settled' /\ clauses' = clauses]_vars
  BY SettledSteps
<1> QED
  BY <1>1, Invariance, PTL DEF Spec, SignedClausesStay

=============================================================================
