---------------------------- MODULE Negotiation ----------------------------
(***************************************************************************)
(* Clause redlines, the negotiation lane and the signed-state pin of one   *)
(* contract (src/backend/src/modules/redlines and .../contracts).          *)
(*                                                                         *)
(* One action per SQL statement, or per run of statements that touch       *)
(* nothing another caller writes.  The tables hold COMMITTED rows          *)
(* (READ COMMITTED); what an open transaction has written follows from its *)
(* pc and job, and reaches the tables when it commits.  Row locks follow   *)
(* from pc too, in the strengths of Postgres: FOR UPDATE, the lock of an   *)
(* UPDATE, and the FOR KEY SHARE an INSERT takes on the rows it refers to. *)
(*                                                                         *)
(* A TypeORM save(entity) is two statements: a SELECT that compares the    *)
(* entity, as it was loaded, with the row, and an UPDATE of the columns    *)
(* that differ, the ones somebody else has changed meanwhile included.     *)
(***************************************************************************)
EXTENDS Integers, Sequences, FiniteSets

CONSTANTS
  Callers,    \* requests in progress
  Clauses,    \* contract_clauses junction rows of the contract
  Redlines,   \* clause_redlines ids
  Bodies,     \* clause bodies
  InitBody,   \* the body every clause starts with
  InitLanes,  \* lanes the contract may start in
  Ops,        \* scope of an instance: the operations that are called
  MaxVersion, \* bound: versions after which nothing is shared or signed
  MaxFaults,  \* bound: calls lost to an error or a crash
  None        \* NULL

ASSUME BodiesAssumption == InitBody \in Bodies
ASSUME ClausesAssumption == IsFiniteSet(Clauses)
ASSUME NoneAssumption == None \notin Redlines \cup Bodies \cup Clauses
ASSUME BoundsAssumption == MaxVersion \in Nat /\ MaxFaults \in Nat

VARIABLES
  contract,  \* the contracts row: lane, status, pin and current_version
  version,   \* highest contract_versions.version_number
  clause,    \* clauses rows, in order of creation
  junction,  \* contract_clauses.clause_id: the live row of each clause
  redline,   \* clause_redlines: id -> row
  pc,        \* next statement of each caller
  job,       \* arguments of its call and what it has read
  faults     \* faults so far

tables == <<contract, version, clause, junction, redline>>
vars == <<tables, pc, job, faults>>

Lanes == {"DRAFT", "SHARED", "UNDER_REVIEW", "AGREED", "READY_TO_SIGN"}

ASSUME LanesAssumption == InitLanes \subseteq Lanes

\* NEGOTIATION_TRANSITIONS.
Transitions ==
  [DRAFT         |-> {"SHARED"},
   SHARED        |-> {"UNDER_REVIEW"},
   UNDER_REVIEW  |-> {"AGREED", "SHARED"},
   AGREED        |-> {"UNDER_REVIEW", "READY_TO_SIGN"},
   READY_TO_SIGN |-> {}]

Statuses == {"PROPOSED", "ACCEPTED", "REJECTED", "COUNTERED", "WITHDRAWN",
             "STALE"}

NoJob ==
  [redline |-> None, fresh |-> None, clause |-> None, body |-> None,
   base |-> None, row |-> 0, entity |-> None, columns |-> {},
   from |-> None, to |-> None, payload |-> None]

-----------------------------------------------------------------------------
(* Row locks.                                                              *)

\* The pin holds the contracts row FOR UPDATE.
ForUpdate(p) == pc[p] \in {"payload", "pin"}

\* An open transaction has updated the contracts row.
Updated(p) ==
  \/ pc[p] = "opened" /\ job[p].from # None
  \/ pc[p] \in {"promote", "accepted"} /\ job[p].columns # {}

\* An open transaction has inserted a row that refers to the contract.
KeyShare(p) == pc[p] \in {"hook", "bounce", "opened", "promote", "accepted"}

Others(p) == Callers \ {p}

MayReferContract(p) == \A q \in Others(p) : ~ForUpdate(q)

\* Faulty variant: an UPDATE waits for FOR KEY SHARE locks too.
MayUpdateContract_AnyLock(p) ==
  \A q \in Others(p) : ~ForUpdate(q) /\ ~Updated(q) /\ ~KeyShare(q)

MayUpdateContract(p) == \A q \in Others(p) : ~ForUpdate(q) /\ ~Updated(q)

\* Faulty variant: the pin does not wait for uncommitted references.
MayLockContract_NoWait(p) == p \in Callers

MayLockContract(p) ==
  \A q \in Others(p) : ~ForUpdate(q) /\ ~Updated(q) /\ ~KeyShare(q)

\* Deciders hold the junction FOR UPDATE until they end.
Decides(p, c) ==
  /\ job[p].clause = c
  /\ pc[p] \in {"snapshot", "select", "write", "promote", "accepted",
                "counter", "child"}

\* A proposal refers to its junction row.
Refers(p, c) == job[p].clause = c /\ pc[p] \in {"hook", "bounce", "opened"}

MayReferJunction(p) == \A q \in Others(p) : ~Decides(q, job[p].clause)

\* Faulty variant: the junction is read without SELECT ... FOR UPDATE.
MayLockJunction_NoWait(p) == p \in Callers

MayLockJunction(p) ==
  \A q \in Others(p) : ~Decides(q, job[p].clause) /\ ~Refers(q, job[p].clause)

\* Faulty variant: counter flips its redline before it locks the junction.
HoldsRedline_FlipFirst(p, r) ==
  job[p].redline = r /\ pc[p] \in {"accepted", "child", "counterLock"}

\* A decider has flipped the redline and not committed yet.
HoldsRedline(p, r) == job[p].redline = r /\ pc[p] \in {"accepted", "child"}

MayFlip(p) == \A q \in Others(p) : ~HoldsRedline(q, job[p].redline)

\* An accept has retired the clause row it replaces.
MayEdit(p) == \A q \in Others(p) : ~(pc[q] = "accepted" /\ job[q].row = job[p].row)

-----------------------------------------------------------------------------
(* Calls.                                                                  *)

Goto(p, label) == pc' = [pc EXCEPT ![p] = label]

\* The call of p starts at a statement, with what its first reads returned.
Begin(p, op, label, j) ==
  /\ op \in Ops
  /\ pc[p] = "idle"
  /\ Goto(p, label)
  /\ job' = [job EXCEPT ![p] = j]
  /\ UNCHANGED <<tables, faults>>

\* The call of p ends; a transaction that has not committed is rolled back.
Return(p) ==
  /\ Goto(p, "idle")
  /\ job' = [job EXCEPT ![p] = NoJob]

Pinned == contract.pin # None

Fresh == {r \in Redlines \ DOMAIN redline : \A p \in Callers : job[p].fresh # r}

Proposed(r) == r \in DOMAIN redline /\ redline[r].status = "PROPOSED"

\* Faulty variant: the flip is keyed on the id alone.
Flippable_Always(r) == r \in DOMAIN redline

\* The WHERE clause of every conditional flip.
Flippable(r) == Proposed(r)

LiveBody(c) == clause[junction[c]].body

SetStatus(r, s) == redline' = [redline EXCEPT ![r].status = s]

\* UPDATE contracts SET the columns of the entity that differed.
Saved(p) ==
  [f \in DOMAIN contract |->
     IF f \in job[p].columns THEN job[p].entity[f] ELSE contract[f]]

Highest(a, b) == IF a >= b THEN a ELSE b

Differing(entity) == {f \in DOMAIN contract : contract[f] # entity[f]}

-----------------------------------------------------------------------------
(* propose().                                                              *)

\* Access wall, then the pin check on the row it returned.
Propose(p, r, c) ==
  /\ ~Pinned
  /\ r \in Fresh
  /\ Begin(p, "propose", "base", [NoJob EXCEPT !.fresh = r, !.clause = c])

\* Faulty variant: base_content_snapshot is not filled in.
ReadBase_Forgotten(p) ==
  /\ pc[p] = "base"
  /\ Goto(p, "insert")
  /\ UNCHANGED <<tables, job, faults>>

\* resolveLiveJunction, unlocked, outside the transaction.
ReadBase(p) ==
  /\ pc[p] = "base"
  /\ job' = [job EXCEPT ![p].base = LiveBody(job[p].clause)]
  /\ Goto(p, "insert")
  /\ UNCHANGED <<tables, faults>>

InsertRedline(p) ==
  /\ pc[p] = "insert"
  /\ MayReferContract(p)
  /\ MayReferJunction(p)
  /\ Goto(p, "hook")
  /\ UNCHANGED <<tables, job, faults>>

\* autoOnProposeOpened reads the lane ...
ProposeHook(p) ==
  /\ pc[p] = "hook"
  /\ IF contract.lane \in {"SHARED", "AGREED"}
       THEN /\ job' = [job EXCEPT ![p].from = contract.lane]
            /\ Goto(p, "bounce")
       ELSE Goto(p, "opened") /\ UNCHANGED job
  /\ UNCHANGED <<tables, faults>>

\* ... and moves it, unless it has moved meanwhile: then all is rolled back.
Bounce(p) ==
  /\ pc[p] = "bounce"
  /\ MayUpdateContract(p)
  /\ IF contract.lane = job[p].from THEN Goto(p, "opened") /\ UNCHANGED job
                                    ELSE Return(p)
  /\ UNCHANGED <<tables, faults>>

NewRedline(r, row) ==
  redline' = [s \in DOMAIN redline \cup {r} |-> IF s = r THEN row ELSE redline[s]]

CommitPropose(p) ==
  /\ pc[p] = "opened"
  /\ NewRedline(job[p].fresh,
       [clause |-> job[p].clause, status |-> "PROPOSED", base |-> job[p].base,
        parent |-> None])
  /\ contract' = IF job[p].from = None
                   THEN contract
                   ELSE [contract EXCEPT !.lane = "UNDER_REVIEW"]
  /\ Return(p)
  /\ UNCHANGED <<version, clause, junction, faults>>

-----------------------------------------------------------------------------
(* accept().                                                               *)

\* Host wall, load of the redline, status check; the pin check inside the
\* transaction looks at the contract the wall returned.  b is the final body:
\* the proposed one, or the host's edit of it.
Accept(p, r, b) ==
  /\ ~Pinned
  /\ Proposed(r)
  /\ Begin(p, "accept", "lock",
           [NoJob EXCEPT !.redline = r, !.clause = redline[r].clause, !.body = b])

\* lockLiveJunction, then the status re-read, then the staleness check.
AcceptLock(p) ==
  /\ pc[p] = "lock"
  /\ MayLockJunction(p)
  /\ IF ~Proposed(job[p].redline)
       THEN Return(p)
       ELSE IF LiveBody(job[p].clause) # redline[job[p].redline].base
              THEN /\ Goto(p, "decide")
                   /\ job' = [job EXCEPT ![p].to = "STALE"]
              ELSE /\ Goto(p, "snapshot")
                   /\ job' = [job EXCEPT ![p].row = junction[job[p].clause]]
  /\ UNCHANGED <<tables, faults>>

\* Faulty variant: the affected count of the flip is not looked at.
Promote_Unchecked(p) ==
  /\ pc[p] = "promote"
  /\ MayFlip(p)
  /\ Goto(p, "accepted")
  /\ UNCHANGED <<tables, job, faults>>

\* The promotion, the retired original and the repointed junction; the flip
\* of the redline decides whether they commit.
Promote(p) ==
  /\ pc[p] = "promote"
  /\ MayFlip(p)
  /\ IF Flippable(job[p].redline) THEN Goto(p, "accepted") /\ UNCHANGED job
                                  ELSE Return(p)
  /\ UNCHANGED <<tables, faults>>

CommitAccept(p) ==
  /\ pc[p] = "accepted"
  /\ clause' = Append(clause, [body |-> job[p].body, parent |-> job[p].row,
                               of |-> job[p].redline])
  /\ junction' = [junction EXCEPT ![job[p].clause] = Len(clause')]
  /\ SetStatus(job[p].redline, "ACCEPTED")
  /\ contract' = Saved(p)
  /\ version' = Highest(version, job[p].entity.version)
  /\ Return(p)
  /\ UNCHANGED faults

-----------------------------------------------------------------------------
(* createVersionSnapshot(): load the contract and the last version number, *)
(* save the contract with the number bumped, insert the version row.       *)

SnapshotRead(p) ==
  /\ pc[p] = "snapshot"
  /\ job' = [job EXCEPT ![p].entity = [contract EXCEPT !.version = version + 1]]
  /\ Goto(p, "select")
  /\ UNCHANGED <<tables, faults>>

SnapshotSelect(p) ==
  /\ pc[p] = "select"
  /\ job' = [job EXCEPT ![p].columns = Differing(job[p].entity)]
  /\ Goto(p, "write")
  /\ UNCHANGED <<tables, faults>>

\* In accept's transaction; or, for a share, each statement on its own.
SnapshotWrite(p) ==
  /\ pc[p] = "write"
  /\ MayReferContract(p)
  /\ job[p].columns # {} => MayUpdateContract(p)
  /\ IF job[p].redline # None
       THEN Goto(p, "promote") /\ UNCHANGED <<tables, job>>
       ELSE /\ contract' = Saved(p)
            /\ version' = Highest(version, job[p].entity.version)
            /\ Return(p)
            /\ UNCHANGED <<clause, junction, redline>>
  /\ UNCHANGED faults

-----------------------------------------------------------------------------
(* reject(), withdraw(), and the STALE mark accept leaves behind.          *)

\* Host wall, load, status check.
Reject(p, r) ==
  /\ Proposed(r)
  /\ Begin(p, "reject", "decide", [NoJob EXCEPT !.redline = r, !.to = "REJECTED"])

\* Access wall, load, author check, status check.
Withdraw(p, r) ==
  /\ Proposed(r)
  /\ Begin(p, "withdraw", "decide", [NoJob EXCEPT !.redline = r, !.to = "WITHDRAWN"])

\* One conditional UPDATE, committed on its own.
Decide(p) ==
  /\ pc[p] = "decide"
  /\ MayFlip(p)
  /\ IF Flippable(job[p].redline) THEN SetStatus(job[p].redline, job[p].to)
                                  ELSE UNCHANGED redline
  /\ Return(p)
  /\ UNCHANGED <<contract, version, clause, junction, faults>>

-----------------------------------------------------------------------------
(* counter().                                                              *)

\* Host wall, load, status check, pin check; r is the id of the child.
Counter(p, r, child) ==
  /\ Proposed(r)
  /\ ~Pinned
  /\ child \in Fresh
  /\ Begin(p, "counter", "counterLock",
           [NoJob EXCEPT !.redline = r, !.fresh = child,
                         !.clause = redline[r].clause])

\* lockLiveJunction: the child quotes the body found under the lock.
CounterLock(p) ==
  /\ pc[p] = "counterLock"
  /\ MayLockJunction(p)
  /\ job' = [job EXCEPT ![p] = [@ EXCEPT !.row = junction[job[p].clause],
                                         !.base = LiveBody(job[p].clause)]]
  /\ Goto(p, "counter")
  /\ UNCHANGED <<tables, faults>>

CounterFlip(p) ==
  /\ pc[p] = "counter"
  /\ MayFlip(p)
  /\ IF Flippable(job[p].redline) THEN Goto(p, "child") /\ UNCHANGED job
                                  ELSE Return(p)
  /\ UNCHANGED <<tables, faults>>

\* INSERT of the child, which refers to the contract, and COMMIT.
CommitCounter(p) ==
  /\ pc[p] = "child"
  /\ MayReferContract(p)
  /\ redline' = [s \in DOMAIN redline \cup {job[p].fresh} |->
       IF s = job[p].fresh
         THEN [clause |-> job[p].clause, status |-> "PROPOSED",
               base |-> job[p].base, parent |-> job[p].redline]
         ELSE IF s = job[p].redline
                THEN [redline[s] EXCEPT !.status = "COUNTERED"]
                ELSE redline[s]]
  /\ Return(p)
  /\ UNCHANGED <<contract, version, clause, junction, faults>>

-----------------------------------------------------------------------------
(* The negotiation lane.                                                   *)

\* agree(): the wall reads the lane; the transition must be on the map.
Agree(p) ==
  /\ "AGREED" \in Transitions[contract.lane]
  /\ Begin(p, "agree", "count",
           [NoJob EXCEPT !.from = contract.lane, !.to = "AGREED"])

\* openRedlineCount.
CountOpen(p) ==
  /\ pc[p] = "count"
  /\ IF \E r \in DOMAIN redline : Proposed(r)
       THEN Return(p)
       ELSE Goto(p, "set") /\ UNCHANGED job
  /\ UNCHANGED <<tables, faults>>

ReadyToSign(p) ==
  /\ "READY_TO_SIGN" \in Transitions[contract.lane]
  /\ Begin(p, "ready", "set",
           [NoJob EXCEPT !.from = contract.lane, !.to = "READY_TO_SIGN"])

\* Faulty variant: the UPDATE is not keyed on the lane that was read.
Moved_Unconditionally(p) == [contract EXCEPT !.lane = job[p].to]

\* UPDATE contracts SET negotiation_status ... AND negotiation_status = from.
Moved(p) == IF contract.lane = job[p].from
              THEN [contract EXCEPT !.lane = job[p].to]
              ELSE contract

SetLane(p) ==
  /\ pc[p] = "set"
  /\ MayUpdateContract(p)
  /\ contract' = Moved(p)
  /\ Return(p)
  /\ UNCHANGED <<version, clause, junction, redline, faults>>

-----------------------------------------------------------------------------
(* updateStatus(SENT_TO_CONTRACTOR): save, lane hook, snapshot, each on its *)
(* own.                                                                    *)

Share(p) ==
  /\ contract.status = "APPROVED"
  /\ version < MaxVersion
  /\ Begin(p, "share", "shareSelect",
           [NoJob EXCEPT !.entity = [contract EXCEPT !.status = "SENT_TO_CONTRACTOR"]])

ShareSelect(p) ==
  /\ pc[p] = "shareSelect"
  /\ job' = [job EXCEPT ![p].columns = Differing(job[p].entity)]
  /\ Goto(p, "shareWrite")
  /\ UNCHANGED <<tables, faults>>

ShareWrite(p) ==
  /\ pc[p] = "shareWrite"
  /\ job[p].columns # {} => MayUpdateContract(p)
  /\ contract' = Saved(p)
  /\ job' = [job EXCEPT ![p] = NoJob]
  /\ Goto(p, "shareHook")
  /\ UNCHANGED <<version, clause, junction, redline, faults>>

\* autoOnShare: only a lane that is still DRAFT moves.
ShareHook(p) ==
  /\ pc[p] = "shareHook"
  /\ IF contract.lane = "DRAFT"
       THEN /\ job' = [job EXCEPT ![p] = [@ EXCEPT !.from = "DRAFT", !.to = "SHARED"]]
            /\ Goto(p, "shareSet")
       ELSE Goto(p, "snapshot") /\ UNCHANGED job
  /\ UNCHANGED <<tables, faults>>

ShareSet(p) ==
  /\ pc[p] = "shareSet"
  /\ MayUpdateContract(p)
  /\ contract' = Moved(p)
  /\ IF contract.lane = job[p].from
       THEN Goto(p, "snapshot") /\ job' = [job EXCEPT ![p] = NoJob]
       ELSE Return(p)
  /\ UNCHANGED <<version, clause, junction, redline, faults>>

-----------------------------------------------------------------------------
(* markAsSigned() and pinExecutedContract().                               *)

\* Host wall; every lifecycle status modelled may be signed.
MarkAsSigned(p) ==
  /\ version < MaxVersion
  /\ Begin(p, "sign", "signLock", NoJob)

\* SELECT ... FOR UPDATE; a pinned contract is left alone.
SignLock(p) ==
  /\ pc[p] = "signLock"
  /\ MayLockContract(p)
  /\ IF Pinned THEN Return(p) ELSE Goto(p, "payload") /\ UNCHANGED job
  /\ UNCHANGED <<tables, faults>>

\* The canonical payload: the row and the body of every live clause.
BuildPayload(p) ==
  /\ pc[p] = "payload"
  /\ job' = [job EXCEPT ![p].payload =
       [c \in Clauses |-> [row |-> junction[c], body |-> LiveBody(c)]]]
  /\ Goto(p, "pin")
  /\ UNCHANGED <<tables, faults>>

\* The snapshot's version bump, the pin pointers and the executed state.
CommitPin(p) ==
  /\ pc[p] = "pin"
  /\ contract' = [contract EXCEPT !.pin = job[p].payload, !.status = "ACTIVE",
                                  !.version = version + 1]
  /\ version' = version + 1
  /\ Return(p)
  /\ UNCHANGED <<clause, junction, redline, faults>>

-----------------------------------------------------------------------------
(* ClausesService.update(): an edit of a clause row in place.              *)

\* Faulty variant: the edit does not ask whether the contract is signed.
EditClause_AnyTime(p, c, b) ==
  /\ b # LiveBody(c)
  /\ Begin(p, "edit", "edit", [NoJob EXCEPT !.row = junction[c], !.body = b])

\* Load of the row, then assertClauseMutable.
EditClause(p, c, b) ==
  /\ ~Pinned
  /\ b # LiveBody(c)
  /\ Begin(p, "edit", "edit", [NoJob EXCEPT !.row = junction[c], !.body = b])

SaveEdit(p) ==
  /\ pc[p] = "edit"
  /\ MayEdit(p)
  /\ clause' = [clause EXCEPT ![job[p].row].body = job[p].body]
  /\ Return(p)
  /\ UNCHANGED <<contract, version, junction, redline, faults>>

-----------------------------------------------------------------------------
\* A statement throws or the process dies: an open transaction is rolled back.
Fail(p) ==
  /\ pc[p] # "idle"
  /\ faults < MaxFaults
  /\ faults' = faults + 1
  /\ Return(p)
  /\ UNCHANGED tables

Init ==
  /\ contract \in {[lane |-> l, status |-> "APPROVED", pin |-> None,
                     version |-> 1] : l \in InitLanes}
  /\ version = 1
  /\ clause = [i \in 1 .. Cardinality(Clauses) |->
                 [body |-> InitBody, parent |-> 0, of |-> None]]
  /\ junction \in [Clauses -> 1 .. Cardinality(Clauses)]
  /\ \A c, d \in Clauses : c # d => junction[c] # junction[d]
  /\ redline = [r \in {} |-> r]
  /\ pc = [p \in Callers |-> "idle"]
  /\ job = [p \in Callers |-> NoJob]
  /\ faults = 0

Start(p) ==
  \/ \E r \in Redlines, c \in Clauses : Propose(p, r, c)
  \/ \E r \in Redlines, b \in Bodies : Accept(p, r, b)
  \/ \E r \in Redlines : Reject(p, r) \/ Withdraw(p, r)
  \/ \E r, child \in Redlines : Counter(p, r, child)
  \/ \E c \in Clauses, b \in Bodies : EditClause(p, c, b)
  \/ Agree(p) \/ ReadyToSign(p) \/ Share(p) \/ MarkAsSigned(p)

Step(p) ==
  \/ ReadBase(p) \/ InsertRedline(p) \/ ProposeHook(p) \/ Bounce(p)
  \/ CommitPropose(p)
  \/ AcceptLock(p) \/ SnapshotRead(p) \/ SnapshotSelect(p) \/ SnapshotWrite(p)
  \/ Promote(p) \/ CommitAccept(p)
  \/ Decide(p)
  \/ CounterLock(p) \/ CounterFlip(p) \/ CommitCounter(p)
  \/ CountOpen(p) \/ SetLane(p)
  \/ ShareSelect(p) \/ ShareWrite(p) \/ ShareHook(p) \/ ShareSet(p)
  \/ SignLock(p) \/ BuildPayload(p) \/ CommitPin(p)
  \/ SaveEdit(p)

Next == \E p \in Callers : Start(p) \/ Step(p) \/ Fail(p)

Fairness == \A p \in Callers : SF_vars(Step(p))

Spec == Init /\ [][Next]_vars
FairSpec == Spec /\ Fairness
-----------------------------------------------------------------------------
(* Properties.                                                             *)

Labels ==
  {"idle", "base", "insert", "hook", "bounce", "opened", "lock", "snapshot",
   "select", "write", "promote", "accepted", "decide", "counterLock",
   "counter", "child", "count", "set", "shareSelect", "shareWrite",
   "shareHook", "shareSet", "signLock", "payload", "pin", "edit"}

Rows == 1 .. Len(clause)

Pins == [Clauses -> [row : Rows, body : Bodies]]

Contract ==
  [lane : Lanes, status : {"APPROVED", "SENT_TO_CONTRACTOR", "ACTIVE"},
   pin : Pins \cup {None}, version : Nat]

\* Types of the tables and of the calls in progress.
TypeOK ==
  /\ contract \in Contract
  /\ version \in Nat
  /\ \A i \in Rows : clause[i] \in [body : Bodies, parent : 0 .. Len(clause),
                                    of : Redlines \cup {None}]
  /\ junction \in [Clauses -> Rows]
  /\ DOMAIN redline \subseteq Redlines
  /\ redline \in [DOMAIN redline ->
                    [clause : Clauses, status : Statuses, base : Bodies,
                     parent : Redlines \cup {None}]]
  /\ pc \in [Callers -> Labels]
  /\ \A p \in Callers :
       /\ job[p].redline \in Redlines \cup {None}
       /\ job[p].fresh \in Redlines \cup {None}
       /\ job[p].clause \in Clauses \cup {None}
       /\ job[p].body \in Bodies \cup {None}
       /\ job[p].base \in Bodies \cup {None}
       /\ job[p].row \in 0 .. Len(clause)
       /\ job[p].entity \in Contract \cup {None}
       /\ job[p].columns \subseteq DOMAIN contract
       /\ job[p].from \in Lanes \cup {None}
       /\ job[p].to \in Lanes \cup Statuses \cup {None}
       /\ job[p].payload \in Pins \cup {None}
  /\ faults \in 0 .. MaxFaults

\* The rows of a clause form one chain that ends at the live row: two redlines
\* accepted at once never both replace the same row, and no promoted text is
\* left orphaned.
LinearHistory ==
  /\ \A i, j \in Rows : clause[i].parent = clause[j].parent /\ clause[i].parent # 0
                        => i = j
  /\ \A c \in Clauses, i \in Rows : clause[i].parent # junction[c]

\* A redline is ACCEPTED if and only if its promotion is in the clause table,
\* and it is there once: no promotion without a decision, no decision whose
\* promotion was rolled back, no second promotion of the same redline.
AcceptedIsPromoted ==
  \A r \in DOMAIN redline :
    Cardinality({i \in Rows : clause[i].of = r}) =
      IF redline[r].status = "ACCEPTED" THEN 1 ELSE 0

\* A countered redline has exactly one child, any other has none.
CounteredHasOneChild ==
  \A r \in DOMAIN redline :
    Cardinality({s \in DOMAIN redline : redline[s].parent = r}) =
      IF redline[r].status = "COUNTERED" THEN 1 ELSE 0

\* Decisions race for a redline and one wins: a status changes only from
\* PROPOSED, and nothing else of a redline ever changes.
DecisionsAreFinal ==
  [][\A r \in DOMAIN redline :
       /\ r \in DOMAIN redline'
       /\ redline'[r] # redline[r] =>
            /\ redline[r].status = "PROPOSED"
            /\ redline'[r] = [redline[r] EXCEPT !.status = redline'[r].status]]_vars

\* No promotion slips between the reading of the pin payload and the pin: the
\* rows that are pinned are the live rows at that moment.
PinnedRowsAreLive ==
  \A p \in Callers : pc[p] = "pin" =>
    \A c \in Clauses : job[p].payload[c].row = junction[c]

\* The statement p is about to run waits for a row that q has locked.
WaitsFor(p, q) ==
  /\ q # p
  /\ \/ /\ pc[p] \in {"insert", "write", "child"}
        /\ ForUpdate(q)
     \/ /\ \/ pc[p] \in {"bounce", "set", "shareSet"}
           \/ pc[p] \in {"write", "shareWrite"} /\ job[p].columns # {}
        /\ ForUpdate(q) \/ Updated(q)
     \/ /\ pc[p] = "signLock"
        /\ ForUpdate(q) \/ Updated(q) \/ KeyShare(q)
     \/ /\ pc[p] = "insert"
        /\ Decides(q, job[p].clause)
     \/ /\ pc[p] \in {"lock", "counterLock"}
        /\ Decides(q, job[p].clause) \/ Refers(q, job[p].clause)
     \/ /\ pc[p] \in {"promote", "decide", "counter"}
        /\ HoldsRedline(q, job[p].redline)
     \/ /\ pc[p] = "edit"
        /\ pc[q] = "accepted" /\ job[q].row = job[p].row

\* However many calls wait for each other's rows, one of them can go on.  All
\* lock the junction first; but then accept updates the contract before it flips
\* the redline, while counter flips the redline before it inserts a row that
\* refers to the contract.  No circle closes because such a reference waits for
\* the pin's FOR UPDATE only, and the pin waits for no redline.
NoCircularWait ==
  \A S \in SUBSET Callers : S # {} => \E p \in S : \A q \in S : ~WaitsFor(p, q)

\* Every call returns.
CallsReturn == \A p \in Callers : pc[p] # "idle" ~> pc[p] = "idle"

\* Every change of the lane is on the map, whatever moves race.
LaneFollowsMap ==
  [][contract'.lane # contract.lane =>
       contract'.lane \in Transitions[contract.lane]]_vars

\* What the comment on applyTransition says: a redline proposed while the
\* contract is being agreed bounces the lane, so once the calls have ended an
\* AGREED contract has no open redline.
AgreedIsClear ==
  (\A p \in Callers : pc[p] = "idle") /\ contract.lane = "AGREED" =>
    \A r \in DOMAIN redline : ~Proposed(r)

\* The statements of a call that promotes or edits text or saves a whole
\* contract entity; it has passed its checks, signed contract or not.
UnderWay == {"lock", "snapshot", "select", "write", "promote", "accepted", "edit",
             "shareSelect", "shareWrite", "shareHook", "shareSet"}

Settled ==
  /\ Pinned /\ contract.status = "ACTIVE"
  /\ \A p \in Callers : pc[p] \notin UnderWay

\* A signed contract is left in peace as soon as the calls that were under way
\* at its signature have ended: whatever is called from then on, the pin and
\* the live text stay.  The races of PinFreezesText and PinIsPermanent end with
\* the calls that run them.
SignedStaysSettled ==
  [][Settled =>
       /\ Settled' /\ contract'.pin = contract.pin
       /\ \A c \in Clauses : LiveBody(c)' = LiveBody(c)]_vars

\* What the comment in accept says: the freeze holds for the whole promote
\* span, so the live text of a signed contract is the text that was pinned.
PinFreezesText ==
  Pinned => \A c \in Clauses : LiveBody(c) = contract.pin[c].body

\* What the entity's comment says of the pin: it is set when the contract is
\* executed and points to the signed version from then on.
PinIsPermanent == [][Pinned => contract'.pin = contract.pin]_vars
=============================================================================
