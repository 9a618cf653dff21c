------------------------- MODULE NegotiationProofs --------------------------
(***************************************************************************)
(* Theorems about Negotiation, for any number of callers, clauses and      *)
(* redlines, and for any of its operations.                                *)
(***************************************************************************)
EXTENDS Negotiation, FiniteSetTheorems, TLAPS

-----------------------------------------------------------------------------
(* The inductive invariant.                                                *)

\* Types that name rows of the clause table, which holds n of them.
PinsUpTo(n) == [Clauses -> [row : 1 .. n, body : Bodies]]

ContractUpTo(n) ==
  [lane : Lanes, status : {"APPROVED", "SENT_TO_CONTRACTOR", "ACTIVE"},
   pin : PinsUpTo(n) \cup {None}, version : Nat]

ClauseRow(n) == [body : Bodies, parent : 0 .. n, of : Redlines \cup {None}]

RedlineRow == [clause : Clauses, status : Statuses, base : Bodies,
               parent : Redlines \cup {None}]

Columns == {"lane", "status", "pin", "version"}

JobRow(n) ==
  [redline : Redlines \cup {None}, fresh : Redlines \cup {None},
   clause : Clauses \cup {None}, body : Bodies \cup {None},
   base : Bodies \cup {None}, row : 0 .. n,
   entity : ContractUpTo(n) \cup {None}, columns : SUBSET Columns,
   from : Lanes \cup {None}, to : Lanes \cup Statuses \cup {None},
   payload : PinsUpTo(n) \cup {None}]

ContractTyped == contract \in ContractUpTo(Len(clause)) /\ version \in Nat

TablesTyped ==
  /\ clause \in Seq(ClauseRow(Len(clause)))
  /\ junction \in [Clauses -> 1 .. Len(clause)]
  /\ DOMAIN redline \subseteq Redlines
  /\ redline \in [DOMAIN redline -> RedlineRow]

CallsTyped ==
  /\ pc \in [Callers -> Labels]
  /\ job \in [Callers -> JobRow(Len(clause))]

Types == ContractTyped /\ TablesTyped /\ CallsTyped /\ faults \in 0 .. MaxFaults

\* What a row lock keeps others from doing.
LocksExclude(p, q) ==
  /\ ForUpdate(p) => ~ForUpdate(q) /\ ~KeyShare(q)
  /\ Updated(p) => ~Updated(q)
  /\ \A c \in Clauses : ~(Decides(p, c) /\ Decides(q, c))
  /\ \A r \in Redlines : ~(HoldsRedline(p, r) /\ HoldsRedline(q, r))

Locks == \A p, q \in Callers : p # q => LocksExclude(p, q)

\* An id drawn for a new redline is nobody else's and in no row.
FreshIds ==
  /\ \A p \in Callers : job[p].fresh \notin DOMAIN redline
  /\ \A p, q \in Callers : p # q /\ job[p].fresh = job[q].fresh => job[p].fresh = None

\* What a call has read is still so, because of the locks it holds.
ProposeOk(p) ==
  pc[p] \in {"base", "insert", "hook", "bounce", "opened"} =>
    /\ job[p].fresh \in Redlines /\ job[p].clause \in Clauses
    /\ pc[p] # "base" => job[p].base \in Bodies
    /\ pc[p] \in {"base", "insert", "hook"} => job[p].from = None

\* The redline of the call is in the table and the clause of the call is its.
OnRedline(p) ==
  /\ job[p].redline \in DOMAIN redline
  /\ job[p].clause = redline[job[p].redline].clause

InSnapshot(p) == pc[p] \in {"snapshot", "select", "write"}

Accepting(p) ==
  \/ pc[p] \in {"lock", "promote", "accepted"}
  \/ InSnapshot(p) /\ job[p].redline # None

AcceptOk(p) ==
  /\ Accepting(p) =>
       /\ OnRedline(p) /\ job[p].body \in Bodies
       /\ pc[p] # "lock" => job[p].row = junction[job[p].clause]
  /\ pc[p] = "accepted" => Proposed(job[p].redline)

SaveOk(p) ==
  /\ pc[p] = "shareHook" => job[p] = NoJob
  /\ InSnapshot(p) /\ job[p].redline = None => job[p].clause = None
  /\ pc[p] \in {"select", "write", "promote", "accepted", "shareSelect", "shareWrite"}
       => job[p].entity \in ContractUpTo(Len(clause))

CounterOk(p) ==
  /\ pc[p] \in {"counterLock", "counter", "child"} =>
       /\ OnRedline(p) /\ job[p].fresh \in Redlines
       /\ pc[p] # "counterLock" => job[p].base \in Bodies
  /\ pc[p] = "child" => Proposed(job[p].redline)

DecideOk(p) ==
  pc[p] = "decide" => /\ job[p].redline \in DOMAIN redline
                      /\ job[p].to \in {"REJECTED", "WITHDRAWN", "STALE"}

LaneOk(p) == pc[p] \in {"count", "set", "shareSet"} => job[p].to \in Lanes

PinOk(p) ==
  pc[p] = "pin" => /\ job[p].payload \in PinsUpTo(Len(clause))
                   /\ \A c \in Clauses : job[p].payload[c].row = junction[c]

EditOk(p) == pc[p] = "edit" => job[p].row >= 1 /\ job[p].body \in Bodies

CallOk(p) ==
  /\ ProposeOk(p) /\ AcceptOk(p) /\ SaveOk(p) /\ CounterOk(p)
  /\ DecideOk(p) /\ LaneOk(p) /\ PinOk(p) /\ EditOk(p)

Calls == \A p \in Callers : CallOk(p)

\* The rows of each clause form a chain up to its live row.
History ==
  /\ \A c, d \in Clauses : junction[c] = junction[d] => c = d
  /\ LinearHistory

\* The promotions of the clause table and the ACCEPTED redlines match.
Promotions ==
  /\ \A i \in Rows : clause[i].of # None =>
       clause[i].of \in DOMAIN redline /\ redline[clause[i].of].status = "ACCEPTED"
  /\ \A i, j \in Rows : clause[i].of = clause[j].of /\ clause[i].of # None => i = j
  /\ \A r \in DOMAIN redline : redline[r].status = "ACCEPTED" =>
       \E i \in Rows : clause[i].of = r

\* The children in the redline table and the COUNTERED redlines match.
Children ==
  /\ \A s \in DOMAIN redline : redline[s].parent # None =>
       /\ redline[s].parent \in DOMAIN redline
       /\ redline[redline[s].parent].status = "COUNTERED"
  /\ \A s, t \in DOMAIN redline :
       redline[s].parent = redline[t].parent /\ redline[s].parent # None => s = t
  /\ \A r \in DOMAIN redline : redline[r].status = "COUNTERED" =>
       \E s \in DOMAIN redline : redline[s].parent = r

IInv == Types /\ Locks /\ FreshIds /\ Calls /\ History /\ Promotions /\ Children

-----------------------------------------------------------------------------
(* Types.                                                                  *)

LEMMA Growing ==
  ASSUME NEW m \in Nat, NEW n \in Nat, m <= n
  PROVE  /\ PinsUpTo(m) \subseteq PinsUpTo(n)
         /\ ContractUpTo(m) \subseteq ContractUpTo(n)
         /\ ClauseRow(m) \subseteq ClauseRow(n)
         /\ JobRow(m) \subseteq JobRow(n)
<1>1. 1 .. m \subseteq 1 .. n /\ 0 .. m \subseteq 0 .. n
  OBVIOUS
<1>2. PinsUpTo(m) \subseteq PinsUpTo(n)
  <2>1. [row : 1 .. m, body : Bodies] \subseteq [row : 1 .. n, body : Bodies]
    BY <1>1
  <2> QED
    BY <2>1, Zenon DEF PinsUpTo
<1>3. ContractUpTo(m) \subseteq ContractUpTo(n)
  BY <1>2 DEF ContractUpTo
<1>4. ClauseRow(m) \subseteq ClauseRow(n)
  BY <1>1 DEF ClauseRow
<1>5. JobRow(m) \subseteq JobRow(n)
  BY <1>1, <1>2, <1>3 DEF JobRow
<1> QED
  BY <1>2, <1>3, <1>4, <1>5

LEMMA LengthType == TablesTyped => Len(clause) \in Nat
BY DEF TablesTyped

LEMMA NoJobType == \A n \in Nat : NoJob \in JobRow(n)
BY DEF NoJob, JobRow

LEMMA ClauseRows ==
  ASSUME TablesTyped
  PROVE  \A i \in Rows : clause[i] \in ClauseRow(Len(clause))
BY DEF TablesTyped, Rows

LEMMA TypesSuffice == Types => TypeOK
<1> SUFFICES ASSUME Types PROVE TypeOK
  OBVIOUS
<1>1. Pins = PinsUpTo(Len(clause)) /\ Contract = ContractUpTo(Len(clause))
  BY DEF Pins, Rows, PinsUpTo, Contract, ContractUpTo
<1>2. contract \in Contract /\ version \in Nat /\ DOMAIN contract = Columns
  <2>1. contract \in ContractUpTo(Len(clause)) /\ version \in Nat
    BY DEF Types, ContractTyped
  <2> QED
    BY <1>1, <2>1 DEF ContractUpTo, Columns
<1>3. \A i \in Rows : clause[i] \in [body : Bodies, parent : 0 .. Len(clause),
                                     of : Redlines \cup {None}]
  BY ClauseRows DEF Types, ClauseRow
<1>4. junction \in [Clauses -> Rows]
  BY DEF Types, TablesTyped, Rows
<1>5. /\ DOMAIN redline \subseteq Redlines
      /\ redline \in [DOMAIN redline -> [clause : Clauses, status : Statuses, base : Bodies,
                                         parent : Redlines \cup {None}]]
  BY DEF Types, TablesTyped, RedlineRow
<1>6. ASSUME NEW p \in Callers
      PROVE  /\ job[p].redline \in Redlines \cup {None}
             /\ job[p].fresh \in Redlines \cup {None}
             /\ job[p].clause \in Clauses \cup {None}
             /\ job[p].body \in Bodies \cup {None}
             /\ job[p].base \in Bodies \cup {None}
             /\ job[p].row \in 0 .. Len(clause)
             /\ job[p].entity \in Contract \cup {None}
             /\ job[p].columns \subseteq DOMAIN contract
             /\ job[p].from \in Lanes \cup {None}
             /\ job[p].to \in Lanes \cup Statuses \cup {None}
             /\ job[p].payload \in Pins \cup {None}
  <2>1. job[p] \in JobRow(Len(clause))
    BY DEF Types, CallsTyped
  <2> QED
    BY <1>1, <1>2, <2>1 DEF JobRow
<1> QED
  BY <1>2, <1>3, <1>4, <1>5, <1>6 DEF TypeOK, Types, CallsTyped

-----------------------------------------------------------------------------
(* What a call does to its own place and to its job.                       *)

OthersStay(p) == \A q \in Others(p) : pc'[q] = pc[q] /\ job'[q] = job[q]

DoesMove(p) ==
  /\ pc' \in [Callers -> Labels]
  /\ job' \in [Callers -> JobRow(Len(clause))]
  /\ OthersStay(p)

Arrives(p, l, j) == pc'[p] = l /\ job'[p] = j

LEMMA JobMoves ==
  ASSUME CallsTyped, NEW p \in Callers, NEW l \in Labels,
         NEW j \in JobRow(Len(clause)), Goto(p, l), job' = [job EXCEPT ![p] = j]
  PROVE  DoesMove(p) /\ Arrives(p, l, j)
BY DEF CallsTyped, Goto, DoesMove, Arrives, OthersStay, Others

LEMMA GotoMoves ==
  ASSUME CallsTyped, NEW p \in Callers, NEW l \in Labels, Goto(p, l), UNCHANGED job
  PROVE  DoesMove(p) /\ Arrives(p, l, job[p])
BY DEF CallsTyped, Goto, DoesMove, Arrives, OthersStay, Others

LEMMA ReturnMoves ==
  ASSUME CallsTyped, Len(clause) \in Nat, NEW p \in Callers, Return(p)
  PROVE  DoesMove(p) /\ Arrives(p, "idle", NoJob)
<1>1. NoJob \in JobRow(Len(clause)) /\ "idle" \in Labels
  BY NoJobType DEF Labels
<1>2. Goto(p, "idle") /\ job' = [job EXCEPT ![p] = NoJob]
  BY DEF Return
<1> HIDE DEF NoJob
<1> QED
  BY <1>1, <1>2, JobMoves

\* What a call takes up in its step was free, or its own before.
Acquires(p) ==
  /\ ForUpdate(p)' => ForUpdate(p) \/ MayLockContract(p)
  /\ KeyShare(p)' => KeyShare(p) \/ MayReferContract(p)
  /\ Updated(p)' => Updated(p) \/ MayUpdateContract(p)
  /\ \A c \in Clauses :
       Decides(p, c)' => Decides(p, c) \/ \A q \in Others(p) : ~Decides(q, c)
  /\ \A r \in Redlines :
       HoldsRedline(p, r)' => HoldsRedline(p, r) \/ \A q \in Others(p) : ~HoldsRedline(q, r)
  /\ job'[p].fresh \in {None, job[p].fresh} \cup Fresh

\* What a step of p leaves of the tables to others: clause rows stay where they
\* are, a junction moves only under its lock, a redline is only added or decided.
Grows(p) ==
  /\ Len(clause) <= Len(clause')
  /\ \A c \in Clauses : junction'[c] # junction[c] => Decides(p, c) /\ KeyShare(p)
  /\ \A r \in DOMAIN redline :
       /\ r \in DOMAIN redline'
       /\ redline'[r] # redline[r] =>
            /\ Proposed(r)
            /\ redline'[r] = [redline[r] EXCEPT !.status = redline'[r].status]
            /\ \A q \in Others(p) : ~HoldsRedline(q, r)
  /\ \A r \in DOMAIN redline' \ DOMAIN redline :
       r \in Redlines /\ r = job[p].fresh /\ job'[p].fresh = None

\* A step of p as the invariant sees it.
CallStep(p) ==
  /\ DoesMove(p) /\ CallOk(p)' /\ Acquires(p)
  /\ Grows(p) /\ TablesTyped' /\ History' /\ Promotions' /\ Children'
  /\ ContractTyped'

\* The call goes on, and the clauses and the redlines are left alone.
LEMMA KeptTables ==
  ASSUME IInv, NEW p \in Callers, UNCHANGED <<clause, junction, redline>>
  PROVE  Grows(p) /\ TablesTyped' /\ History' /\ Promotions' /\ Children'
<1>1. Len(clause) \in Nat
  BY LengthType DEF IInv, Types
<1>2. Grows(p)
  BY <1>1 DEF Grows
<1>3. TablesTyped'
  BY DEF IInv, Types, TablesTyped
<1>4. History' /\ Promotions' /\ Children'
  BY DEF IInv, History, LinearHistory, Promotions, Children, Rows
<1> QED
  BY <1>2, <1>3, <1>4

LEMMA KeptContract ==
  ASSUME IInv, NEW p \in Callers, UNCHANGED <<contract, version>>, TablesTyped', Grows(p)
  PROVE  ContractTyped'
<1>1. Len(clause) \in Nat /\ Len(clause') \in Nat /\ Len(clause) <= Len(clause')
  BY LengthType DEF IInv, Types, TablesTyped, Grows
<1>2. ContractUpTo(Len(clause)) \subseteq ContractUpTo(Len(clause'))
  BY <1>1, Growing
<1> QED
  BY <1>2 DEF IInv, Types, ContractTyped

LEMMA KeptAll ==
  ASSUME IInv, NEW p \in Callers, DoesMove(p), CallOk(p)', Acquires(p), UNCHANGED tables
  PROVE  CallStep(p)
<1>1. UNCHANGED <<contract, version, clause, junction, redline>>
  BY DEF tables
<1> QED
  BY <1>1, KeptTables, KeptContract DEF CallStep

\* What holds of a call in progress.
LEMMA AtWork ==
  ASSUME IInv, NEW p \in Callers
  PROVE  /\ CallsTyped /\ TablesTyped /\ ContractTyped /\ CallOk(p)
         /\ job[p] \in JobRow(Len(clause)) /\ Len(clause) \in Nat
BY LengthType DEF IInv, Types, Calls, CallsTyped

LEMMA ReturnKeeps ==
  ASSUME IInv, NEW p \in Callers, Return(p)
  PROVE  DoesMove(p) /\ CallOk(p)' /\ Acquires(p) /\ job'[p] = NoJob
<1>1. DoesMove(p) /\ Arrives(p, "idle", NoJob)
  BY ReturnMoves, AtWork
<1>2. pc'[p] = "idle" /\ job'[p] = NoJob /\ NoJob.fresh = None
  BY <1>1 DEF Arrives, NoJob
<1>3. CallOk(p)'
  BY <1>2 DEF CallOk, ProposeOk, AcceptOk, Accepting, InSnapshot, SaveOk, CounterOk,
     DecideOk, LaneOk, PinOk, EditOk
<1>4. Acquires(p)
  BY <1>2 DEF Acquires, ForUpdate, KeyShare, Updated, Decides, HoldsRedline
<1> QED
  BY <1>1, <1>2, <1>3, <1>4

LEMMA LiveBodies ==
  ASSUME IInv, NEW c \in Clauses
  PROVE  /\ clause[junction[c]].body \in Bodies
         /\ junction[c] \in 1 .. Len(clause)
<1>1. TablesTyped /\ junction[c] \in 1 .. Len(clause)
  BY DEF IInv, Types, TablesTyped
<1>2. clause[junction[c]] \in ClauseRow(Len(clause))
  BY <1>1, ClauseRows DEF Rows
<1> QED
  BY <1>1, <1>2 DEF ClauseRow

-----------------------------------------------------------------------------
(* Edits of a job.                                                         *)

LEMMA RowEdit ==
  ASSUME NEW n \in Nat, NEW j \in JobRow(n), NEW i \in 0 .. n, NEW b \in Bodies
  PROVE  /\ [j EXCEPT !.row = i] \in JobRow(n)
         /\ [j EXCEPT !.row = i, !.body = b] \in JobRow(n)
         /\ [j EXCEPT !.row = i, !.base = b] \in JobRow(n)
<1>1. [j EXCEPT !.row = i] \in JobRow(n)
  BY Zenon DEF JobRow
<1>2. [j EXCEPT !.row = i, !.body = b] \in JobRow(n)
  BY Zenon DEF JobRow
<1>3. [j EXCEPT !.row = i, !.base = b] \in JobRow(n)
  BY Zenon DEF JobRow
<1> QED
  BY <1>1, <1>2, <1>3

-----------------------------------------------------------------------------
(* The beginnings of the calls.                                            *)

LEMMA BeginMoves ==
  ASSUME IInv, NEW p \in Callers, NEW op, NEW l \in Labels, NEW j \in JobRow(Len(clause)),
         Begin(p, op, l, j)
  PROVE  DoesMove(p) /\ Arrives(p, l, j) /\ pc[p] = "idle" /\ UNCHANGED tables
<1>1. CallsTyped
  BY AtWork
<1>2. Goto(p, l) /\ job' = [job EXCEPT ![p] = j] /\ pc[p] = "idle" /\ UNCHANGED tables
  BY DEF Begin
<1> QED
  BY <1>1, <1>2, JobMoves

LEMMA ProposeStep ==
  ASSUME IInv, NEW p \in Callers, NEW r \in Redlines, NEW c \in Clauses, Propose(p, r, c)
  PROVE  CallStep(p)
<1> DEFINE j == [NoJob EXCEPT !.fresh = r, !.clause = c]
<1>1. /\ j \in JobRow(Len(clause)) /\ "base" \in Labels
      /\ j.fresh = r /\ j.clause = c /\ j.from = None
  <2>1. Len(clause) \in Nat
    BY AtWork
  <2>2. j \in JobRow(Len(clause))
    BY <2>1, NoJobType DEF JobRow
  <2>3. j.fresh = r /\ j.clause = c /\ j.from = None
    BY DEF NoJob
  <2>4. "base" \in Labels
    BY DEF Labels
  <2> QED
    BY <2>2, <2>3, <2>4
<1>2. Begin(p, "propose", "base", j) /\ r \in Fresh
  BY DEF Propose
<1> HIDE DEF j
<1>3. DoesMove(p) /\ Arrives(p, "base", j) /\ UNCHANGED tables
  BY <1>1, <1>2, BeginMoves
<1>4. CallOk(p)'
  BY <1>1, <1>3 DEF Arrives, CallOk, ProposeOk, AcceptOk, Accepting, InSnapshot, SaveOk,
     CounterOk, DecideOk, LaneOk, PinOk, EditOk
<1>5. Acquires(p)
  BY <1>1, <1>2, <1>3
     DEF Arrives, Acquires, ForUpdate, KeyShare, Updated, Decides, HoldsRedline
<1> QED
  BY <1>3, <1>4, <1>5, KeptAll

\* A redline that is decided upon is in the table, and its clause is a clause.
LEMMA ProposedRow ==
  ASSUME IInv, NEW r, Proposed(r)
  PROVE  /\ r \in DOMAIN redline /\ r \in Redlines /\ r # None
         /\ redline[r] \in RedlineRow /\ redline[r].clause \in Clauses
BY NoneAssumption DEF IInv, Types, TablesTyped, Proposed, RedlineRow

LEMMA AcceptStep ==
  ASSUME IInv, NEW p \in Callers, NEW r \in Redlines, NEW b \in Bodies, Accept(p, r, b)
  PROVE  CallStep(p)
<1> DEFINE j == [NoJob EXCEPT !.redline = r, !.clause = redline[r].clause, !.body = b]
<1>0. Proposed(r) /\ redline[r].clause \in Clauses /\ r \in DOMAIN redline
  BY ProposedRow DEF Accept
<1>1. /\ j \in JobRow(Len(clause)) /\ "lock" \in Labels
      /\ j.redline = r /\ j.clause = redline[r].clause /\ j.body = b /\ j.fresh = None
  <2>1. Len(clause) \in Nat
    BY AtWork
  <2>2. j \in JobRow(Len(clause))
    BY <1>0, <2>1, NoJobType DEF JobRow
  <2>3. j.redline = r /\ j.clause = redline[r].clause /\ j.body = b /\ j.fresh = None
    BY DEF NoJob
  <2>4. "lock" \in Labels
    BY DEF Labels
  <2> QED
    BY <2>2, <2>3, <2>4
<1>2. Begin(p, "accept", "lock", j)
  BY DEF Accept
<1> HIDE DEF j
<1>3. DoesMove(p) /\ Arrives(p, "lock", j) /\ UNCHANGED tables
  BY <1>1, <1>2, BeginMoves
<1>4. CallOk(p)'
  BY <1>0, <1>1, <1>3 DEF tables, Arrives, CallOk, ProposeOk, AcceptOk, Accepting, InSnapshot,
     SaveOk, CounterOk, DecideOk, LaneOk, PinOk, EditOk, OnRedline
<1>5. Acquires(p)
  BY <1>1, <1>3 DEF Arrives, Acquires, ForUpdate, KeyShare, Updated, Decides, HoldsRedline
<1> QED
  BY <1>3, <1>4, <1>5, KeptAll

LEMMA RejectStep ==
  ASSUME IInv, NEW p \in Callers, NEW r \in Redlines, Reject(p, r) \/ Withdraw(p, r)
  PROVE  CallStep(p)
<1>0. PICK op \in {"reject", "withdraw"}, s \in {"REJECTED", "WITHDRAWN"} :
        Begin(p, op, "decide", [NoJob EXCEPT !.redline = r, !.to = s])
  BY DEF Reject, Withdraw
<1>1. r \in DOMAIN redline
  BY DEF Reject, Withdraw, Proposed
<1> DEFINE j == [NoJob EXCEPT !.redline = r, !.to = s]
<1>2. /\ j \in JobRow(Len(clause)) /\ "decide" \in Labels
      /\ j.redline = r /\ j.to = s /\ j.fresh = None
  <2>1. Len(clause) \in Nat
    BY AtWork
  <2>2. j \in JobRow(Len(clause))
    BY <2>1, NoJobType DEF JobRow, Statuses
  <2>3. j.redline = r /\ j.to = s /\ j.fresh = None
    BY DEF NoJob
  <2>4. "decide" \in Labels
    BY DEF Labels
  <2> QED
    BY <2>2, <2>3, <2>4
<1>3. Begin(p, op, "decide", j)
  BY <1>0
<1> HIDE DEF j
<1>4. DoesMove(p) /\ Arrives(p, "decide", j) /\ UNCHANGED tables
  BY <1>2, <1>3, BeginMoves
<1>5. CallOk(p)'
  BY <1>1, <1>2, <1>4 DEF tables, Arrives, CallOk, ProposeOk, AcceptOk, Accepting, InSnapshot,
     SaveOk, CounterOk, DecideOk, LaneOk, PinOk, EditOk
<1>6. Acquires(p)
  BY <1>2, <1>4 DEF Arrives, Acquires, ForUpdate, KeyShare, Updated, Decides, HoldsRedline
<1> QED
  BY <1>4, <1>5, <1>6, KeptAll

LEMMA CounterStep ==
  ASSUME IInv, NEW p \in Callers, NEW r \in Redlines, NEW child \in Redlines,
         Counter(p, r, child)
  PROVE  CallStep(p)
<1> DEFINE j == [NoJob EXCEPT !.redline = r, !.fresh = child, !.clause = redline[r].clause]
<1>0. redline[r].clause \in Clauses /\ r \in DOMAIN redline
  BY ProposedRow DEF Counter
<1>1. /\ j \in JobRow(Len(clause)) /\ "counterLock" \in Labels
      /\ j.redline = r /\ j.clause = redline[r].clause /\ j.fresh = child
  <2>1. Len(clause) \in Nat
    BY AtWork
  <2>2. j \in JobRow(Len(clause))
    BY <1>0, <2>1, NoJobType DEF JobRow
  <2>3. j.redline = r /\ j.clause = redline[r].clause /\ j.fresh = child
    BY DEF NoJob
  <2>4. "counterLock" \in Labels
    BY DEF Labels
  <2> QED
    BY <2>2, <2>3, <2>4
<1>2. Begin(p, "counter", "counterLock", j) /\ child \in Fresh
  BY DEF Counter
<1> HIDE DEF j
<1>3. DoesMove(p) /\ Arrives(p, "counterLock", j) /\ UNCHANGED tables
  BY <1>1, <1>2, BeginMoves
<1>4. CallOk(p)'
  BY <1>0, <1>1, <1>3 DEF tables, Arrives, CallOk, ProposeOk, AcceptOk, Accepting, InSnapshot,
     SaveOk, CounterOk, DecideOk, LaneOk, PinOk, EditOk, OnRedline
<1>5. Acquires(p)
  BY <1>1, <1>2, <1>3
     DEF Arrives, Acquires, ForUpdate, KeyShare, Updated, Decides, HoldsRedline
<1> QED
  BY <1>3, <1>4, <1>5, KeptAll

LEMMA EditClauseStep ==
  ASSUME IInv, NEW p \in Callers, NEW c \in Clauses, NEW b \in Bodies, EditClause(p, c, b)
  PROVE  CallStep(p)
<1> DEFINE j == [NoJob EXCEPT !.row = junction[c], !.body = b]
<1>0. junction[c] \in 1 .. Len(clause) /\ Len(clause) \in Nat
  BY AtWork DEF TablesTyped
<1>1. /\ j \in JobRow(Len(clause)) /\ "edit" \in Labels
      /\ j.row = junction[c] /\ j.body = b /\ j.fresh = None
  <2>1. Len(clause) \in Nat
    BY AtWork
  <2>2. j \in JobRow(Len(clause))
    <3>1. NoJob \in JobRow(Len(clause)) /\ junction[c] \in 0 .. Len(clause)
      BY <1>0, NoJobType
    <3> QED
      BY <2>1, <3>1, RowEdit
  <2>3. j.row = junction[c] /\ j.body = b /\ j.fresh = None
    BY DEF NoJob
  <2>4. "edit" \in Labels
    BY DEF Labels
  <2> QED
    BY <2>2, <2>3, <2>4
<1>2. Begin(p, "edit", "edit", j)
  BY DEF EditClause
<1> HIDE DEF j
<1>3. DoesMove(p) /\ Arrives(p, "edit", j) /\ UNCHANGED tables
  BY <1>1, <1>2, BeginMoves
<1>4. CallOk(p)'
  BY <1>0, <1>1, <1>3 DEF tables, Arrives, CallOk, ProposeOk, AcceptOk, Accepting, InSnapshot,
     SaveOk, CounterOk, DecideOk, LaneOk, PinOk, EditOk
<1>5. Acquires(p)
  BY <1>1, <1>3 DEF Arrives, Acquires, ForUpdate, KeyShare, Updated, Decides, HoldsRedline
<1> QED
  BY <1>3, <1>4, <1>5, KeptAll

\* agree() and readyToSign().
LEMMA LaneCallStep ==
  ASSUME IInv, NEW p \in Callers, Agree(p) \/ ReadyToSign(p)
  PROVE  CallStep(p)
<1>0. PICK op \in {"agree", "ready"}, l \in {"count", "set"},
           s \in {"AGREED", "READY_TO_SIGN"} :
        Begin(p, op, l, [NoJob EXCEPT !.from = contract.lane, !.to = s])
  BY DEF Agree, ReadyToSign
<1> DEFINE j == [NoJob EXCEPT !.from = contract.lane, !.to = s]
<1>1. contract.lane \in Lanes /\ s \in Lanes
  BY AtWork DEF ContractTyped, ContractUpTo, Lanes
<1>2. /\ j \in JobRow(Len(clause)) /\ l \in Labels
      /\ j.to = s /\ j.fresh = None
  <2>1. Len(clause) \in Nat
    BY AtWork
  <2>2. j \in JobRow(Len(clause))
    BY <1>1, <2>1, NoJobType DEF JobRow
  <2>3. j.to = s /\ j.fresh = None
    BY DEF NoJob
  <2>4. l \in Labels
    BY DEF Labels
  <2> QED
    BY <2>2, <2>3, <2>4
<1>3. Begin(p, op, l, j)
  BY <1>0
<1> HIDE DEF j
<1>4. DoesMove(p) /\ Arrives(p, l, j) /\ UNCHANGED tables
  BY <1>2, <1>3, BeginMoves
<1>5. CallOk(p)'
  BY <1>1, <1>2, <1>4 DEF Arrives, CallOk, ProposeOk, AcceptOk, Accepting, InSnapshot,
     SaveOk, CounterOk, DecideOk, LaneOk, PinOk, EditOk
<1>6. Acquires(p)
  BY <1>2, <1>4 DEF Arrives, Acquires, ForUpdate, KeyShare, Updated, Decides, HoldsRedline
<1> QED
  BY <1>4, <1>5, <1>6, KeptAll

LEMMA ShareStep ==
  ASSUME IInv, NEW p \in Callers, Share(p)
  PROVE  CallStep(p)
<1> DEFINE e == [contract EXCEPT !.status = "SENT_TO_CONTRACTOR"]
<1>0. e \in ContractUpTo(Len(clause))
  <2>1. contract \in ContractUpTo(Len(clause))
    BY AtWork DEF ContractTyped
  <2> QED
    BY <2>1 DEF ContractUpTo
<1> HIDE DEF e
<1> DEFINE j == [NoJob EXCEPT !.entity = e]
<1>1. /\ j \in JobRow(Len(clause)) /\ "shareSelect" \in Labels
      /\ j.entity = e /\ j.fresh = None
  <2>1. Len(clause) \in Nat
    BY AtWork
  <2>2. j \in JobRow(Len(clause))
    BY <1>0, <2>1, NoJobType DEF JobRow
  <2>3. j.entity = e /\ j.fresh = None
    BY DEF NoJob
  <2>4. "shareSelect" \in Labels
    BY DEF Labels
  <2> QED
    BY <2>2, <2>3, <2>4
<1>2. Begin(p, "share", "shareSelect", j)
  BY DEF Share, e
<1> HIDE DEF j
<1>3. DoesMove(p) /\ Arrives(p, "shareSelect", j) /\ UNCHANGED tables
  BY <1>1, <1>2, BeginMoves
<1>4. CallOk(p)'
  BY <1>0, <1>1, <1>3 DEF tables, Arrives, CallOk, ProposeOk, AcceptOk, Accepting, InSnapshot,
     SaveOk, CounterOk, DecideOk, LaneOk, PinOk, EditOk
<1>5. Acquires(p)
  BY <1>1, <1>3 DEF Arrives, Acquires, ForUpdate, KeyShare, Updated, Decides, HoldsRedline
<1> QED
  BY <1>3, <1>4, <1>5, KeptAll

LEMMA MarkAsSignedStep ==
  ASSUME IInv, NEW p \in Callers, MarkAsSigned(p)
  PROVE  CallStep(p)
<1>1. NoJob \in JobRow(Len(clause)) /\ "signLock" \in Labels /\ NoJob.fresh = None
  BY NoJobType, AtWork DEF Labels, NoJob
<1>2. Begin(p, "sign", "signLock", NoJob)
  BY DEF MarkAsSigned
<1>3. DoesMove(p) /\ Arrives(p, "signLock", NoJob) /\ UNCHANGED tables
  BY <1>1, <1>2, BeginMoves
<1>4. CallOk(p)'
  BY <1>3 DEF Arrives, CallOk, ProposeOk, AcceptOk, Accepting, InSnapshot,
     SaveOk, CounterOk, DecideOk, LaneOk, PinOk, EditOk
<1>5. Acquires(p)
  BY <1>1, <1>3 DEF Arrives, Acquires, ForUpdate, KeyShare, Updated, Decides, HoldsRedline
<1> QED
  BY <1>3, <1>4, <1>5, KeptAll

-----------------------------------------------------------------------------
(* The statements that only read, or take a lock.                          *)

LEMMA ReadBaseStep ==
  ASSUME IInv, NEW p \in Callers, ReadBase(p)
  PROVE  CallStep(p)
<1> DEFINE b == LiveBody(job[p].clause)
           j == [job[p] EXCEPT !.base = b]
<1>0. pc[p] = "base" /\ Goto(p, "insert") /\ job' = [job EXCEPT ![p] = j] /\ UNCHANGED tables
  BY DEF ReadBase
<1>1. CallOk(p) /\ job[p] \in JobRow(Len(clause)) /\ CallsTyped
  BY AtWork
<1>2. job[p].clause \in Clauses /\ job[p].fresh \in Redlines /\ job[p].from = None
  BY <1>0, <1>1 DEF CallOk, ProposeOk
<1>3. b \in Bodies
  BY <1>2, LiveBodies DEF LiveBody
<1> HIDE DEF b
<1>4. /\ j.base = b /\ j.clause = job[p].clause /\ j.fresh = job[p].fresh
      /\ j.from = job[p].from
  BY <1>1 DEF JobRow
<1>5. j \in JobRow(Len(clause)) /\ "insert" \in Labels
  <2>1. j \in JobRow(Len(clause))
    BY <1>1, <1>3 DEF JobRow
  <2> QED
    BY <2>1 DEF Labels
<1> HIDE DEF j
<1>6. DoesMove(p) /\ Arrives(p, "insert", j)
  BY <1>0, <1>1, <1>5, JobMoves
<1>7. CallOk(p)'
  BY <1>2, <1>3, <1>4, <1>6 DEF Arrives, CallOk, ProposeOk, AcceptOk, Accepting, InSnapshot,
     SaveOk, CounterOk, DecideOk, LaneOk, PinOk, EditOk, OnRedline
<1>8. Acquires(p)
  BY <1>4, <1>6 DEF Arrives, Acquires, ForUpdate, KeyShare, Updated, Decides, HoldsRedline
<1> QED
  BY <1>0, <1>6, <1>7, <1>8, KeptAll

LEMMA InsertRedlineStep ==
  ASSUME IInv, NEW p \in Callers, InsertRedline(p)
  PROVE  CallStep(p)
<1>0. /\ pc[p] = "insert" /\ Goto(p, "hook") /\ UNCHANGED job /\ UNCHANGED tables
      /\ MayReferContract(p)
  BY DEF InsertRedline
<1>1. CallOk(p) /\ CallsTyped
  BY AtWork
<1>2. DoesMove(p) /\ Arrives(p, "hook", job[p])
  BY <1>0, <1>1, GotoMoves DEF Labels
<1>3. CallOk(p)'
  BY <1>0, <1>1, <1>2 DEF Arrives, CallOk, ProposeOk, AcceptOk, Accepting, InSnapshot,
     SaveOk, CounterOk, DecideOk, LaneOk, PinOk, EditOk, OnRedline
<1>4. Acquires(p)
  BY <1>0, <1>2 DEF Arrives, Acquires, ForUpdate, KeyShare, Updated, Decides, HoldsRedline
<1> QED
  BY <1>0, <1>2, <1>3, <1>4, KeptAll

LEMMA ProposeHookStep ==
  ASSUME IInv, NEW p \in Callers, ProposeHook(p)
  PROVE  CallStep(p)
<1>0. pc[p] = "hook" /\ UNCHANGED tables
  BY DEF ProposeHook
<1>1. /\ CallOk(p) /\ job[p] \in JobRow(Len(clause)) /\ CallsTyped
      /\ contract.lane \in Lanes
  BY AtWork DEF ContractTyped, ContractUpTo
<1>2. CASE Goto(p, "opened") /\ UNCHANGED job
  <2>1. DoesMove(p) /\ Arrives(p, "opened", job[p])
    BY <1>1, <1>2, GotoMoves DEF Labels
  <2>2. CallOk(p)'
    BY <1>0, <1>1, <2>1 DEF Arrives, CallOk, ProposeOk, AcceptOk, Accepting, InSnapshot,
       SaveOk, CounterOk, DecideOk, LaneOk, PinOk, EditOk, OnRedline
  <2>3. Acquires(p)
    BY <1>0, <1>1, <2>1 DEF Arrives, CallOk, ProposeOk, Acquires, ForUpdate, KeyShare,
       Updated, Decides, HoldsRedline
  <2> QED
    BY <1>0, <2>1, <2>2, <2>3, KeptAll
<1>3. CASE job' = [job EXCEPT ![p].from = contract.lane] /\ Goto(p, "bounce")
  <2> DEFINE j == [job[p] EXCEPT !.from = contract.lane]
  <2>1. /\ j.base = job[p].base /\ j.clause = job[p].clause /\ j.fresh = job[p].fresh
    BY <1>1 DEF JobRow
  <2>2. j \in JobRow(Len(clause)) /\ "bounce" \in Labels
    <3>1. j \in JobRow(Len(clause))
      BY <1>1 DEF JobRow
    <3> QED
      BY <3>1 DEF Labels
  <2>3. job' = [job EXCEPT ![p] = j]
    BY <1>3
  <2> HIDE DEF j
  <2>4. DoesMove(p) /\ Arrives(p, "bounce", j)
    BY <1>1, <1>3, <2>2, <2>3, JobMoves
  <2>5. CallOk(p)'
    BY <1>0, <1>1, <2>1, <2>4 DEF Arrives, CallOk, ProposeOk, AcceptOk, Accepting,
       InSnapshot, SaveOk, CounterOk, DecideOk, LaneOk, PinOk, EditOk, OnRedline
  <2>6. Acquires(p)
    BY <1>0, <2>1, <2>4 DEF Arrives, Acquires, ForUpdate, KeyShare, Updated, Decides,
       HoldsRedline
  <2> QED
    BY <1>0, <2>4, <2>5, <2>6, KeptAll
<1> QED
  BY <1>2, <1>3 DEF ProposeHook

LEMMA ReturnStep ==
  ASSUME IInv, NEW p \in Callers, Return(p), UNCHANGED tables
  PROVE  CallStep(p)
BY ReturnKeeps, KeptAll

LEMMA BounceStep ==
  ASSUME IInv, NEW p \in Callers, Bounce(p)
  PROVE  CallStep(p)
<1>0. pc[p] = "bounce" /\ UNCHANGED tables /\ MayUpdateContract(p)
  BY DEF Bounce
<1>1. CASE Goto(p, "opened") /\ UNCHANGED job
  <2>0. CallOk(p) /\ CallsTyped
    BY AtWork
  <2>1. DoesMove(p) /\ Arrives(p, "opened", job[p])
    BY <1>1, <2>0, GotoMoves DEF Labels
  <2>2. CallOk(p)'
    BY <1>0, <2>0, <2>1 DEF Arrives, CallOk, ProposeOk, AcceptOk, Accepting, InSnapshot,
       SaveOk, CounterOk, DecideOk, LaneOk, PinOk, EditOk, OnRedline
  <2>3. Acquires(p)
    BY <1>0, <2>1 DEF Arrives, Acquires, ForUpdate, KeyShare, Updated, Decides, HoldsRedline
  <2> QED
    BY <1>0, <2>1, <2>2, <2>3, KeptAll
<1>2. CASE Return(p)
  BY <1>0, <1>2, ReturnStep
<1> QED
  BY <1>1, <1>2 DEF Bounce

LEMMA AcceptLockStep ==
  ASSUME IInv, NEW p \in Callers, AcceptLock(p)
  PROVE  CallStep(p)
<1>0. pc[p] = "lock" /\ UNCHANGED tables /\ MayLockJunction(p)
  BY DEF AcceptLock
<1>1. /\ CallOk(p) /\ job[p] \in JobRow(Len(clause)) /\ CallsTyped /\ TablesTyped
      /\ Len(clause) \in Nat
  BY AtWork
<1>2. /\ OnRedline(p) /\ job[p].body \in Bodies /\ job[p].redline # None
      /\ job[p].clause \in Clauses
  <2>1. OnRedline(p) /\ job[p].body \in Bodies
    BY <1>0, <1>1 DEF CallOk, AcceptOk, Accepting
  <2> QED
    BY <1>1, <2>1, NoneAssumption DEF OnRedline, TablesTyped, RedlineRow
<1>3. CASE Return(p)
  BY <1>0, <1>3, ReturnStep
<1>4. CASE Goto(p, "decide") /\ job' = [job EXCEPT ![p].to = "STALE"]
  <2> DEFINE j == [job[p] EXCEPT !.to = "STALE"]
  <2>1. j.to = "STALE" /\ j.redline = job[p].redline /\ j.fresh = job[p].fresh
    BY <1>1 DEF JobRow
  <2>2. j \in JobRow(Len(clause)) /\ "decide" \in Labels
    <3>1. j \in JobRow(Len(clause))
      BY <1>1 DEF JobRow, Statuses
    <3> QED
      BY <3>1 DEF Labels
  <2>3. job' = [job EXCEPT ![p] = j]
    BY <1>4
  <2> HIDE DEF j
  <2>4. DoesMove(p) /\ Arrives(p, "decide", j)
    BY <1>1, <1>4, <2>2, <2>3, JobMoves
  <2>5. CallOk(p)'
    BY <1>0, <1>2, <2>1, <2>4 DEF Arrives, tables, CallOk, ProposeOk, AcceptOk, Accepting,
       InSnapshot, SaveOk, CounterOk, DecideOk, LaneOk, PinOk, EditOk, OnRedline
  <2>6. Acquires(p)
    BY <1>0, <2>1, <2>4 DEF Arrives, Acquires, ForUpdate, KeyShare, Updated, Decides,
       HoldsRedline
  <2> QED
    BY <1>0, <2>4, <2>5, <2>6, KeptAll
<1>5. CASE Goto(p, "snapshot") /\ job' = [job EXCEPT ![p].row = junction[job[p].clause]]
  <2> DEFINE i == junction[job[p].clause]
  <2>0. i \in 0 .. Len(clause) /\ i = junction[job[p].clause]
    BY <1>1, <1>2 DEF TablesTyped
  <2> HIDE DEF i
  <2> DEFINE j == [job[p] EXCEPT !.row = i]
  <2>1. /\ j.row = i /\ j.redline = job[p].redline /\ j.fresh = job[p].fresh
        /\ j.clause = job[p].clause /\ j.body = job[p].body
    BY <1>1 DEF JobRow
  <2>2. j \in JobRow(Len(clause)) /\ "snapshot" \in Labels
    BY <1>1, <1>2, <2>0, RowEdit DEF Labels
  <2>3. job' = [job EXCEPT ![p] = j]
    BY <1>5, <2>0
  <2> HIDE DEF j
  <2>4. DoesMove(p) /\ Arrives(p, "snapshot", j)
    BY <1>1, <1>5, <2>2, <2>3, JobMoves
  <2>5. CallOk(p)'
    BY <1>0, <1>2, <2>0, <2>1, <2>4 DEF Arrives, tables, CallOk, ProposeOk, AcceptOk,
       Accepting, InSnapshot, SaveOk, CounterOk, DecideOk, LaneOk, PinOk, EditOk,
       OnRedline
  <2>6. Acquires(p)
    BY <1>0, <2>1, <2>4 DEF Arrives, MayLockJunction, Acquires, ForUpdate, KeyShare,
       Updated, Decides, HoldsRedline
  <2> QED
    BY <1>0, <2>4, <2>5, <2>6, KeptAll
<1> QED
  BY <1>3, <1>4, <1>5 DEF AcceptLock

LEMMA SnapshotReadStep ==
  ASSUME IInv, NEW p \in Callers, SnapshotRead(p)
  PROVE  CallStep(p)
<1> DEFINE e == [contract EXCEPT !.version = version + 1]
           j == [job[p] EXCEPT !.entity = e]
<1>0. /\ pc[p] = "snapshot" /\ Goto(p, "select") /\ UNCHANGED tables
      /\ job' = [job EXCEPT ![p] = j]
  BY DEF SnapshotRead
<1>1. CallOk(p) /\ job[p] \in JobRow(Len(clause)) /\ CallsTyped
  BY AtWork
<1>2. e \in ContractUpTo(Len(clause))
  <2>1. contract \in ContractUpTo(Len(clause)) /\ version + 1 \in Nat
    BY AtWork DEF ContractTyped
  <2> QED
    BY <2>1 DEF ContractUpTo
<1> HIDE DEF e
<1>3. /\ j.entity = e /\ j.clause = job[p].clause /\ j.fresh = job[p].fresh
      /\ j.redline = job[p].redline /\ j.body = job[p].body /\ j.row = job[p].row
  BY <1>1 DEF JobRow
<1>4. j \in JobRow(Len(clause)) /\ "select" \in Labels
  <2>1. j \in JobRow(Len(clause))
    BY <1>1, <1>2 DEF JobRow
  <2> QED
    BY <2>1 DEF Labels
<1> HIDE DEF j
<1>5. DoesMove(p) /\ Arrives(p, "select", j)
  BY <1>0, <1>1, <1>4, JobMoves
<1>6. CallOk(p)'
  BY <1>0, <1>1, <1>2, <1>3, <1>5 DEF Arrives, tables, CallOk, ProposeOk, AcceptOk,
     Accepting, InSnapshot, SaveOk, CounterOk, DecideOk, LaneOk, PinOk, EditOk, OnRedline
<1>7. Acquires(p)
  BY <1>0, <1>3, <1>5 DEF Arrives, Acquires, ForUpdate, KeyShare, Updated, Decides, HoldsRedline
<1> QED
  BY <1>0, <1>5, <1>6, <1>7, KeptAll

\* The SELECT of a save, in a snapshot and in a share.
LEMMA SelectStep ==
  ASSUME IInv, NEW p \in Callers, SnapshotSelect(p) \/ ShareSelect(p)
  PROVE  CallStep(p)
<1> DEFINE cols == Differing(job[p].entity)
           j == [job[p] EXCEPT !.columns = cols]
<1>0. PICK l \in {"write", "shareWrite"} :
        /\ Goto(p, l) /\ UNCHANGED tables /\ job' = [job EXCEPT ![p] = j]
        /\ pc[p] = IF l = "write" THEN "select" ELSE "shareSelect"
  BY DEF SnapshotSelect, ShareSelect
<1>1. CallOk(p) /\ job[p] \in JobRow(Len(clause)) /\ CallsTyped
  BY AtWork
<1>2. cols \subseteq Columns
  <2>1. contract \in ContractUpTo(Len(clause))
    BY AtWork DEF ContractTyped
  <2> QED
    BY <2>1 DEF Differing, ContractUpTo, Columns
<1> HIDE DEF cols
<1>3. /\ j.entity = job[p].entity /\ j.clause = job[p].clause /\ j.fresh = job[p].fresh
      /\ j.redline = job[p].redline /\ j.body = job[p].body /\ j.row = job[p].row
  BY <1>1 DEF JobRow
<1>4. j \in JobRow(Len(clause)) /\ l \in Labels
  <2>1. j \in JobRow(Len(clause))
    BY <1>1, <1>2 DEF JobRow
  <2> QED
    BY <2>1 DEF Labels
<1> HIDE DEF j
<1>5. DoesMove(p) /\ Arrives(p, l, j)
  BY <1>0, <1>1, <1>4, JobMoves
<1>6. CallOk(p)'
  BY <1>0, <1>1, <1>2, <1>3, <1>5 DEF Arrives, tables, CallOk, ProposeOk, AcceptOk,
     Accepting, InSnapshot, SaveOk, CounterOk, DecideOk, LaneOk, PinOk, EditOk, OnRedline
<1>7. Acquires(p)
  BY <1>0, <1>3, <1>5 DEF Arrives, Acquires, ForUpdate, KeyShare, Updated, Decides, HoldsRedline
<1> QED
  BY <1>0, <1>5, <1>6, <1>7, KeptAll

\* What a save leaves of the contract is a contract.
LEMMA SavedContract ==
  ASSUME IInv, NEW p \in Callers, job[p].entity \in ContractUpTo(Len(clause))
  PROVE  Saved(p) \in ContractUpTo(Len(clause))
<1>1. contract \in ContractUpTo(Len(clause))
  BY AtWork DEF ContractTyped
<1> QED
  BY <1>1 DEF Saved, ContractUpTo

LEMMA HighestType ==
  ASSUME NEW a \in Nat, NEW b \in Nat
  PROVE  Highest(a, b) \in Nat
BY DEF Highest

\* A call ends, and has written at most the contract.
LEMMA ContractStep ==
  ASSUME IInv, NEW p \in Callers, DoesMove(p), CallOk(p)', Acquires(p),
         UNCHANGED <<clause, junction, redline>>,
         contract' \in ContractUpTo(Len(clause)), version' \in Nat
  PROVE  CallStep(p)
<1>1. ContractTyped'
  BY DEF ContractTyped
<1> QED
  BY <1>1, KeptTables DEF CallStep

LEMMA SnapshotWriteStep ==
  ASSUME IInv, NEW p \in Callers, SnapshotWrite(p)
  PROVE  CallStep(p)
<1>0. /\ pc[p] = "write" /\ MayReferContract(p)
      /\ job[p].columns # {} => MayUpdateContract(p)
  BY DEF SnapshotWrite
<1>1. CallOk(p) /\ CallsTyped /\ ContractTyped
  BY AtWork
<1>2. CASE Goto(p, "promote") /\ UNCHANGED <<tables, job>> /\ job[p].redline # None
  <2>1. DoesMove(p) /\ Arrives(p, "promote", job[p])
    BY <1>1, <1>2, GotoMoves DEF Labels
  <2>2. CallOk(p)'
    BY <1>0, <1>1, <1>2, <2>1 DEF Arrives, tables, CallOk, ProposeOk, AcceptOk, Accepting,
       InSnapshot, SaveOk, CounterOk, DecideOk, LaneOk, PinOk, EditOk, OnRedline
  <2>3. Acquires(p)
    BY <1>0, <2>1 DEF Arrives, Acquires, ForUpdate, KeyShare, Updated, Decides, HoldsRedline
  <2> QED
    BY <1>2, <2>1, <2>2, <2>3, KeptAll
<1>3. CASE /\ contract' = Saved(p) /\ version' = Highest(version, job[p].entity.version)
           /\ Return(p) /\ UNCHANGED <<clause, junction, redline>>
  <2>1. job[p].entity \in ContractUpTo(Len(clause)) /\ job[p].entity.version \in Nat
    BY <1>0, <1>1 DEF CallOk, SaveOk, ContractUpTo
  <2>2. contract' \in ContractUpTo(Len(clause)) /\ version' \in Nat
    BY <1>1, <1>3, <2>1, SavedContract, HighestType DEF ContractTyped
  <2> QED
    BY <1>3, <2>2, ReturnKeeps, ContractStep
<1> QED
  BY <1>2, <1>3 DEF SnapshotWrite

LEMMA PromoteStep ==
  ASSUME IInv, NEW p \in Callers, Promote(p)
  PROVE  CallStep(p)
<1>0. pc[p] = "promote" /\ MayFlip(p) /\ UNCHANGED tables
  BY DEF Promote
<1>1. CallOk(p) /\ CallsTyped
  BY AtWork
<1>2. CASE Return(p)
  BY <1>0, <1>2, ReturnStep
<1>3. CASE Proposed(job[p].redline) /\ Goto(p, "accepted") /\ UNCHANGED job
  <2>1. DoesMove(p) /\ Arrives(p, "accepted", job[p])
    BY <1>1, <1>3, GotoMoves DEF Labels
  <2>2. CallOk(p)'
    BY <1>0, <1>1, <1>3, <2>1 DEF Arrives, tables, Proposed, CallOk, ProposeOk, AcceptOk,
       Accepting, InSnapshot, SaveOk, CounterOk, DecideOk, LaneOk, PinOk, EditOk,
       OnRedline
  <2>3. Acquires(p)
    BY <1>0, <2>1 DEF Arrives, MayFlip, Acquires, ForUpdate, KeyShare, Updated, Decides,
       HoldsRedline
  <2> QED
    BY <1>0, <2>1, <2>2, <2>3, KeptAll
<1> QED
  BY <1>2, <1>3 DEF Promote, Flippable

LEMMA CounterLockStep ==
  ASSUME IInv, NEW p \in Callers, CounterLock(p)
  PROVE  CallStep(p)
<1>0. pc[p] = "counterLock" /\ MayLockJunction(p) /\ UNCHANGED tables /\ Goto(p, "counter")
  BY DEF CounterLock
<1>1. /\ CallOk(p) /\ job[p] \in JobRow(Len(clause)) /\ CallsTyped /\ TablesTyped
      /\ Len(clause) \in Nat
  BY AtWork
<1>2. OnRedline(p) /\ job[p].fresh \in Redlines
  BY <1>0, <1>1 DEF CallOk, CounterOk
<1>3. job[p].clause \in Clauses
  BY <1>1, <1>2 DEF OnRedline, TablesTyped, RedlineRow
<1> DEFINE i == junction[job[p].clause]
           b == LiveBody(job[p].clause)
<1>4. i \in 0 .. Len(clause) /\ b \in Bodies
  <2>1. i \in 1 .. Len(clause) /\ b \in Bodies
    BY <1>3, LiveBodies DEF LiveBody
  <2> QED
    BY <1>1, <2>1
<1>5. job' = [job EXCEPT ![p] = [job[p] EXCEPT !.row = i, !.base = b]]
  BY DEF CounterLock
<1> HIDE DEF i, b
<1> DEFINE j == [job[p] EXCEPT !.row = i, !.base = b]
<1>6. /\ j.redline = job[p].redline /\ j.fresh = job[p].fresh
      /\ j.clause = job[p].clause /\ j.base = b
  BY <1>1 DEF JobRow
<1>7. j \in JobRow(Len(clause)) /\ "counter" \in Labels
  BY <1>1, <1>4, RowEdit DEF Labels
<1>8. job' = [job EXCEPT ![p] = j]
  BY <1>5
<1> HIDE DEF j
<1>9. DoesMove(p) /\ Arrives(p, "counter", j)
  BY <1>0, <1>1, <1>7, <1>8, JobMoves
<1>10. CallOk(p)'
  BY <1>0, <1>2, <1>4, <1>6, <1>9 DEF Arrives, tables, CallOk, ProposeOk, AcceptOk,
     Accepting, InSnapshot, SaveOk, CounterOk, DecideOk, LaneOk, PinOk, EditOk, OnRedline
<1>11. Acquires(p)
  BY <1>0, <1>6, <1>9 DEF Arrives, MayLockJunction, Acquires, ForUpdate, KeyShare, Updated,
     Decides, HoldsRedline
<1> QED
  BY <1>0, <1>9, <1>10, <1>11, KeptAll

LEMMA CounterFlipStep ==
  ASSUME IInv, NEW p \in Callers, CounterFlip(p)
  PROVE  CallStep(p)
<1>0. pc[p] = "counter" /\ MayFlip(p) /\ UNCHANGED tables
  BY DEF CounterFlip
<1>1. CallOk(p) /\ CallsTyped
  BY AtWork
<1>2. CASE Return(p)
  BY <1>0, <1>2, ReturnStep
<1>3. CASE Proposed(job[p].redline) /\ Goto(p, "child") /\ UNCHANGED job
  <2>1. DoesMove(p) /\ Arrives(p, "child", job[p])
    BY <1>1, <1>3, GotoMoves DEF Labels
  <2>2. CallOk(p)'
    BY <1>0, <1>1, <1>3, <2>1 DEF Arrives, tables, Proposed, CallOk, ProposeOk, AcceptOk,
       Accepting, InSnapshot, SaveOk, CounterOk, DecideOk, LaneOk, PinOk, EditOk,
       OnRedline
  <2>3. Acquires(p)
    BY <1>0, <2>1 DEF Arrives, MayFlip, Acquires, ForUpdate, KeyShare, Updated, Decides,
       HoldsRedline
  <2> QED
    BY <1>0, <2>1, <2>2, <2>3, KeptAll
<1> QED
  BY <1>2, <1>3 DEF CounterFlip, Flippable

LEMMA CountOpenStep ==
  ASSUME IInv, NEW p \in Callers, CountOpen(p)
  PROVE  CallStep(p)
<1>0. pc[p] = "count" /\ UNCHANGED tables
  BY DEF CountOpen
<1>1. CallOk(p) /\ CallsTyped
  BY AtWork
<1>2. CASE Return(p)
  BY <1>0, <1>2, ReturnStep
<1>3. CASE Goto(p, "set") /\ UNCHANGED job
  <2>1. DoesMove(p) /\ Arrives(p, "set", job[p])
    BY <1>1, <1>3, GotoMoves DEF Labels
  <2>2. CallOk(p)'
    BY <1>0, <1>1, <2>1 DEF Arrives, CallOk, ProposeOk, AcceptOk, Accepting, InSnapshot,
       SaveOk, CounterOk, DecideOk, LaneOk, PinOk, EditOk, OnRedline
  <2>3. Acquires(p)
    BY <2>1 DEF Arrives, Acquires, ForUpdate, KeyShare, Updated, Decides, HoldsRedline
  <2> QED
    BY <1>0, <2>1, <2>2, <2>3, KeptAll
<1> QED
  BY <1>2, <1>3 DEF CountOpen

LEMMA ShareHookStep ==
  ASSUME IInv, NEW p \in Callers, ShareHook(p)
  PROVE  CallStep(p)
<1>0. pc[p] = "shareHook" /\ UNCHANGED tables
  BY DEF ShareHook
<1>1. CallOk(p) /\ CallsTyped /\ job[p] = NoJob /\ Len(clause) \in Nat
  BY <1>0, AtWork DEF CallOk, SaveOk
<1>2. CASE job' = [job EXCEPT ![p] = [@ EXCEPT !.from = "DRAFT", !.to = "SHARED"]]
           /\ Goto(p, "shareSet")
  <2> DEFINE j == [NoJob EXCEPT !.from = "DRAFT", !.to = "SHARED"]
  <2>1. j.to = "SHARED" /\ j.fresh = None
    BY DEF NoJob
  <2>2. j \in JobRow(Len(clause)) /\ "shareSet" \in Labels
    <3>1. j \in JobRow(Len(clause))
      BY <1>1, NoJobType DEF JobRow, Lanes
    <3> QED
      BY <3>1 DEF Labels
  <2>3. job' = [job EXCEPT ![p] = j] /\ Goto(p, "shareSet")
    BY <1>1, <1>2
  <2> HIDE DEF j
  <2>4. DoesMove(p) /\ Arrives(p, "shareSet", j)
    BY <1>1, <2>2, <2>3, JobMoves
  <2>5. CallOk(p)'
    BY <2>1, <2>4 DEF Arrives, Lanes, CallOk, ProposeOk, AcceptOk, Accepting, InSnapshot,
       SaveOk, CounterOk, DecideOk, LaneOk, PinOk, EditOk, OnRedline
  <2>6. Acquires(p)
    BY <2>1, <2>4 DEF Arrives, Acquires, ForUpdate, KeyShare, Updated, Decides, HoldsRedline
  <2> QED
    BY <1>0, <2>4, <2>5, <2>6, KeptAll
<1>3. CASE Goto(p, "snapshot") /\ UNCHANGED job
  <2>0. NoJob.redline = None /\ NoJob.clause = None /\ NoJob.fresh = None
    BY DEF NoJob
  <2>1. DoesMove(p) /\ Arrives(p, "snapshot", NoJob)
    BY <1>1, <1>3, GotoMoves DEF Labels
  <2>2. CallOk(p)'
    BY <2>0, <2>1 DEF Arrives, CallOk, ProposeOk, AcceptOk, Accepting, InSnapshot, SaveOk,
       CounterOk, DecideOk, LaneOk, PinOk, EditOk, OnRedline
  <2>3. Acquires(p)
    BY <2>0, <2>1, NoneAssumption DEF Arrives, Acquires, ForUpdate, KeyShare, Updated,
       Decides, HoldsRedline
  <2> QED
    BY <1>0, <2>1, <2>2, <2>3, KeptAll
<1> QED
  BY <1>2, <1>3 DEF ShareHook

LEMMA SignLockStep ==
  ASSUME IInv, NEW p \in Callers, SignLock(p)
  PROVE  CallStep(p)
<1>0. pc[p] = "signLock" /\ UNCHANGED tables /\ MayLockContract(p)
  BY DEF SignLock
<1>1. CallOk(p) /\ CallsTyped
  BY AtWork
<1>2. CASE Return(p)
  BY <1>0, <1>2, ReturnStep
<1>3. CASE Goto(p, "payload") /\ UNCHANGED job
  <2>1. DoesMove(p) /\ Arrives(p, "payload", job[p])
    BY <1>1, <1>3, GotoMoves DEF Labels
  <2>2. CallOk(p)'
    BY <2>1 DEF Arrives, CallOk, ProposeOk, AcceptOk, Accepting, InSnapshot, SaveOk,
       CounterOk, DecideOk, LaneOk, PinOk, EditOk, OnRedline
  <2>3. Acquires(p)
    BY <1>0, <2>1 DEF Arrives, Acquires, ForUpdate, KeyShare, Updated, Decides, HoldsRedline
  <2> QED
    BY <1>0, <2>1, <2>2, <2>3, KeptAll
<1> QED
  BY <1>2, <1>3 DEF SignLock

LEMMA BuildPayloadStep ==
  ASSUME IInv, NEW p \in Callers, BuildPayload(p)
  PROVE  CallStep(p)
<1> DEFINE pins == [c \in Clauses |-> [row |-> junction[c], body |-> LiveBody(c)]]
           j == [job[p] EXCEPT !.payload = pins]
<1>0. /\ pc[p] = "payload" /\ UNCHANGED tables /\ Goto(p, "pin")
      /\ job' = [job EXCEPT ![p] = j]
  BY DEF BuildPayload
<1>1. CallOk(p) /\ CallsTyped /\ job[p] \in JobRow(Len(clause))
  BY AtWork
<1>2. pins \in PinsUpTo(Len(clause)) /\ \A c \in Clauses : pins[c].row = junction[c]
  BY LiveBodies DEF PinsUpTo, LiveBody
<1> HIDE DEF pins
<1>3. j.payload = pins /\ j.fresh = job[p].fresh
  BY <1>1 DEF JobRow
<1>4. j \in JobRow(Len(clause)) /\ "pin" \in Labels
  <2>1. j \in JobRow(Len(clause))
    BY <1>1, <1>2 DEF JobRow
  <2> QED
    BY <2>1 DEF Labels
<1> HIDE DEF j
<1>5. DoesMove(p) /\ Arrives(p, "pin", j)
  BY <1>0, <1>1, <1>4, JobMoves
<1>6. CallOk(p)'
  BY <1>0, <1>2, <1>3, <1>5 DEF Arrives, tables, CallOk, ProposeOk, AcceptOk, Accepting,
     InSnapshot, SaveOk, CounterOk, DecideOk, LaneOk, PinOk, EditOk, OnRedline
<1>7. Acquires(p)
  BY <1>0, <1>3, <1>5 DEF Arrives, Acquires, ForUpdate, KeyShare, Updated, Decides, HoldsRedline
<1> QED
  BY <1>0, <1>5, <1>6, <1>7, KeptAll

-----------------------------------------------------------------------------
(* The statements that write the contract, or nothing that others see.     *)

LEMMA MovedContract ==
  ASSUME IInv, NEW p \in Callers, job[p].to \in Lanes
  PROVE  Moved(p) \in ContractUpTo(Len(clause))
<1>1. contract \in ContractUpTo(Len(clause))
  BY AtWork DEF ContractTyped
<1> QED
  BY <1>1 DEF Moved, ContractUpTo

LEMMA SetLaneStep ==
  ASSUME IInv, NEW p \in Callers, SetLane(p)
  PROVE  CallStep(p)
<1>1. job[p].to \in Lanes /\ ContractTyped
  BY AtWork DEF SetLane, CallOk, LaneOk
<1>2. contract' \in ContractUpTo(Len(clause)) /\ version' \in Nat
  BY <1>1, MovedContract DEF SetLane, ContractTyped
<1> QED
  BY <1>2, ReturnKeeps, ContractStep DEF SetLane

LEMMA ShareWriteStep ==
  ASSUME IInv, NEW p \in Callers, ShareWrite(p)
  PROVE  CallStep(p)
<1>0. /\ Goto(p, "shareHook") /\ job' = [job EXCEPT ![p] = NoJob]
      /\ UNCHANGED <<clause, junction, redline>>
  BY DEF ShareWrite
<1>1. /\ job[p].entity \in ContractUpTo(Len(clause)) /\ ContractTyped /\ CallsTyped
      /\ NoJob \in JobRow(Len(clause))
  BY AtWork, NoJobType DEF ShareWrite, CallOk, SaveOk
<1>2. contract' \in ContractUpTo(Len(clause)) /\ version' \in Nat
  BY <1>1, SavedContract DEF ShareWrite, ContractTyped
<1>3. DoesMove(p) /\ Arrives(p, "shareHook", NoJob)
  BY <1>0, <1>1, JobMoves DEF Labels
<1>4. CallOk(p)'
  BY <1>3 DEF Arrives, CallOk, ProposeOk, AcceptOk, Accepting, InSnapshot, SaveOk,
     CounterOk, DecideOk, LaneOk, PinOk, EditOk, OnRedline
<1>5. NoJob.fresh = None
  BY DEF NoJob
<1>6. Acquires(p)
  BY <1>3, <1>5 DEF Arrives, Acquires, ForUpdate, KeyShare, Updated, Decides, HoldsRedline
<1> QED
  BY <1>0, <1>2, <1>3, <1>4, <1>6, ContractStep

LEMMA ShareSetStep ==
  ASSUME IInv, NEW p \in Callers, ShareSet(p)
  PROVE  CallStep(p)
<1>0. UNCHANGED <<clause, junction, redline>>
  BY DEF ShareSet
<1>1. job[p].to \in Lanes /\ ContractTyped /\ CallsTyped /\ NoJob \in JobRow(Len(clause))
  BY AtWork, NoJobType DEF ShareSet, CallOk, LaneOk
<1>2. contract' \in ContractUpTo(Len(clause)) /\ version' \in Nat
  BY <1>1, MovedContract DEF ShareSet, ContractTyped
<1>3. CASE Return(p)
  BY <1>0, <1>2, <1>3, ReturnKeeps, ContractStep
<1>4. CASE Goto(p, "snapshot") /\ job' = [job EXCEPT ![p] = NoJob]
  <2>0. NoJob.redline = None /\ NoJob.clause = None /\ NoJob.fresh = None
    BY DEF NoJob
  <2>1. DoesMove(p) /\ Arrives(p, "snapshot", NoJob)
    BY <1>1, <1>4, JobMoves DEF Labels
  <2>2. CallOk(p)'
    BY <2>0, <2>1 DEF Arrives, CallOk, ProposeOk, AcceptOk, Accepting, InSnapshot, SaveOk,
       CounterOk, DecideOk, LaneOk, PinOk, EditOk, OnRedline
  <2>3. Acquires(p)
    BY <2>0, <2>1, NoneAssumption DEF Arrives, Acquires, ForUpdate, KeyShare, Updated,
       Decides, HoldsRedline
  <2> QED
    BY <1>0, <1>2, <2>1, <2>2, <2>3, ContractStep
<1> QED
  BY <1>3, <1>4 DEF ShareSet

LEMMA CommitPinStep ==
  ASSUME IInv, NEW p \in Callers, CommitPin(p)
  PROVE  CallStep(p)
<1>1. /\ job[p].payload \in PinsUpTo(Len(clause))
      /\ contract \in ContractUpTo(Len(clause)) /\ version + 1 \in Nat
  BY AtWork DEF CommitPin, CallOk, PinOk, ContractTyped
<1>2. contract' \in ContractUpTo(Len(clause)) /\ version' \in Nat
  BY <1>1 DEF CommitPin, ContractUpTo
<1> QED
  BY <1>2, ReturnKeeps, ContractStep DEF CommitPin

-----------------------------------------------------------------------------
(* Decisions.                                                              *)

LEMMA Flipped ==
  ASSUME IInv, NEW r, Proposed(r), NEW s \in Statuses, SetStatus(r, s)
  PROVE  /\ DOMAIN redline' = DOMAIN redline
         /\ redline' \in [DOMAIN redline -> RedlineRow]
         /\ redline'[r].status = s
         /\ redline'[r] = [redline[r] EXCEPT !.status = redline'[r].status]
         /\ \A t \in DOMAIN redline : redline'[t].parent = redline[t].parent
         /\ \A t \in DOMAIN redline \ {r} : redline'[t] = redline[t]
<1> DEFINE row == [redline[r] EXCEPT !.status = s]
<1>1. redline[r] \in RedlineRow /\ r \in DOMAIN redline
  BY ProposedRow
<1>2. row \in RedlineRow /\ row.status = s /\ row.parent = redline[r].parent
  BY <1>1 DEF RedlineRow
<1>3. redline \in [DOMAIN redline -> RedlineRow]
  BY DEF IInv, Types, TablesTyped
<1>4. redline' = [redline EXCEPT ![r] = row]
  BY DEF SetStatus
<1>5. row = [redline[r] EXCEPT !.status = row.status]
  BY <1>2
<1> HIDE DEF row
<1>6. redline'[r] = row /\ \A t \in DOMAIN redline \ {r} : redline'[t] = redline[t]
  BY <1>1, <1>3, <1>4
<1>7. DOMAIN redline' = DOMAIN redline /\ redline' \in [DOMAIN redline -> RedlineRow]
  BY <1>2, <1>3, <1>4
<1> QED
  BY <1>2, <1>5, <1>6, <1>7

\* A flip leaves the children of others alone.
LEMMA FlippedChildren ==
  ASSUME IInv, NEW r, Proposed(r), NEW s \in Statuses \ {"COUNTERED"}, SetStatus(r, s)
  PROVE  Children'
<1>1. /\ DOMAIN redline' = DOMAIN redline /\ redline'[r].status = s
      /\ \A t \in DOMAIN redline : redline'[t].parent = redline[t].parent
      /\ \A t \in DOMAIN redline \ {r} : redline'[t] = redline[t]
  BY Flipped
<1>2. Children /\ redline[r].status = "PROPOSED"
  BY DEF IInv, Proposed
<1> QED
  BY <1>1, <1>2 DEF Children

LEMMA DecideStep ==
  ASSUME IInv, NEW p \in Callers, Decide(p)
  PROVE  CallStep(p)
<1> DEFINE r == job[p].redline
           s == job[p].to
<1>0. /\ Return(p) /\ UNCHANGED <<contract, version, clause, junction>> /\ MayFlip(p)
      /\ pc[p] = "decide" /\ CallOk(p)
  BY AtWork DEF Decide
<1>1. DoesMove(p) /\ CallOk(p)' /\ Acquires(p)
  BY <1>0, ReturnKeeps
<1>2. CASE UNCHANGED redline
  BY <1>0, <1>1, <1>2, KeptTables, KeptContract DEF CallStep
<1>3. CASE Proposed(r) /\ SetStatus(r, s)
  <2>0. s \in Statuses /\ s \notin {"COUNTERED", "ACCEPTED"}
    BY <1>0 DEF CallOk, DecideOk, Statuses
  <2>1. /\ DOMAIN redline' = DOMAIN redline
        /\ redline' \in [DOMAIN redline -> RedlineRow]
        /\ redline'[r].status = s
        /\ redline'[r] = [redline[r] EXCEPT !.status = redline'[r].status]
        /\ \A t \in DOMAIN redline \ {r} : redline'[t] = redline[t]
    BY <1>3, <2>0, Flipped
  <2>2. \A q \in Others(p) : ~HoldsRedline(q, r)
    BY <1>0 DEF MayFlip
  <2>3. Len(clause) \in Nat /\ redline[r].status = "PROPOSED"
    BY <1>3, AtWork DEF Proposed
  <2> HIDE DEF r, s
  <2>4. Grows(p)
    BY <1>0, <1>3, <2>1, <2>2, <2>3 DEF Grows
  <2>5. TablesTyped'
    BY <1>0, <2>1 DEF IInv, Types, TablesTyped
  <2>6. History'
    BY <1>0 DEF IInv, History, LinearHistory, Rows
  <2>7. Promotions'
    BY <1>0, <2>0, <2>1, <2>3 DEF IInv, Promotions, Rows
  <2>8. Children'
    BY <1>3, <2>0, FlippedChildren
  <2>9. ContractTyped'
    BY <1>0, <2>4, <2>5, KeptContract
  <2> QED
    BY <1>1, <2>4, <2>5, <2>6, <2>7, <2>8, <2>9 DEF CallStep
<1> QED
  BY <1>2, <1>3 DEF Decide, Flippable

-----------------------------------------------------------------------------
(* New redlines.                                                           *)

LEMMA CommitProposeStep ==
  ASSUME IInv, NEW p \in Callers, CommitPropose(p)
  PROVE  CallStep(p)
<1> DEFINE f == job[p].fresh
           row == [clause |-> job[p].clause, status |-> "PROPOSED", base |-> job[p].base,
                   parent |-> None]
<1>0. /\ pc[p] = "opened" /\ Return(p) /\ UNCHANGED <<version, clause, junction>>
      /\ redline' = [t \in DOMAIN redline \cup {f} |-> IF t = f THEN row ELSE redline[t]]
      /\ contract' = IF job[p].from = None THEN contract
                                           ELSE [contract EXCEPT !.lane = "UNDER_REVIEW"]
  BY DEF CommitPropose, NewRedline
<1>1. CallOk(p) /\ TablesTyped /\ ContractTyped /\ Len(clause) \in Nat
  BY AtWork
<1>2. DoesMove(p) /\ CallOk(p)' /\ Acquires(p) /\ job'[p] = NoJob /\ NoJob.fresh = None
  BY <1>0, ReturnKeeps DEF NoJob
<1>3. f \in Redlines /\ job[p].clause \in Clauses /\ job[p].base \in Bodies
  BY <1>0, <1>1 DEF CallOk, ProposeOk
<1>4. f \notin DOMAIN redline
  BY DEF IInv, FreshIds
<1>5. row \in RedlineRow /\ row.status = "PROPOSED" /\ row.parent = None
  BY <1>3 DEF RedlineRow, Statuses
<1> HIDE DEF row
<1>6. /\ DOMAIN redline' = DOMAIN redline \cup {f}
      /\ redline'[f] = row
      /\ \A t \in DOMAIN redline : redline'[t] = redline[t]
      /\ redline' \in [DOMAIN redline' -> RedlineRow]
  <2>1. DOMAIN redline' = DOMAIN redline \cup {f}
    BY <1>0
  <2>2. redline'[f] = row
    BY <1>0
  <2>3. \A t \in DOMAIN redline : redline'[t] = redline[t]
    BY <1>0, <1>4
  <2>4. redline \in [DOMAIN redline -> RedlineRow]
    BY <1>1 DEF TablesTyped
  <2> QED
    BY <1>0, <1>5, <2>1, <2>2, <2>3, <2>4
<1>7. Grows(p)
  BY <1>0, <1>1, <1>2, <1>3, <1>6 DEF Grows
<1>8. TablesTyped'
  BY <1>0, <1>1, <1>3, <1>6 DEF TablesTyped
<1>9. History'
  BY <1>0 DEF IInv, History, LinearHistory, Rows
<1>10. Promotions'
  BY <1>0, <1>4, <1>5, <1>6 DEF IInv, Promotions, Rows
<1>11. Children'
  BY <1>4, <1>5, <1>6 DEF IInv, Children
<1>12. ContractTyped'
  <2>1. contract' \in ContractUpTo(Len(clause))
    BY <1>0, <1>1 DEF ContractTyped, ContractUpTo, Lanes
  <2> QED
    BY <1>0, <1>1, <2>1 DEF ContractTyped
<1> QED
  BY <1>2, <1>7, <1>8, <1>9, <1>10, <1>11, <1>12 DEF CallStep

LEMMA CommitCounterStep ==
  ASSUME IInv, NEW p \in Callers, CommitCounter(p)
  PROVE  CallStep(p)
<1> DEFINE f == job[p].fresh
           r == job[p].redline
           row == [clause |-> job[p].clause, status |-> "PROPOSED", base |-> job[p].base,
                   parent |-> r]
           done == [redline[r] EXCEPT !.status = "COUNTERED"]
<1>0. /\ pc[p] = "child" /\ Return(p) /\ UNCHANGED <<contract, version, clause, junction>>
      /\ redline' = [t \in DOMAIN redline \cup {f} |->
           IF t = f THEN row
           ELSE IF t = r THEN [redline[t] EXCEPT !.status = "COUNTERED"] ELSE redline[t]]
  BY DEF CommitCounter
<1>1. CallOk(p) /\ TablesTyped /\ Len(clause) \in Nat
  BY AtWork
<1>2. DoesMove(p) /\ CallOk(p)' /\ Acquires(p) /\ job'[p] = NoJob /\ NoJob.fresh = None
  BY <1>0, ReturnKeeps DEF NoJob
<1>3. /\ f \in Redlines /\ r \in DOMAIN redline /\ Proposed(r) /\ job[p].base \in Bodies
      /\ job[p].clause = redline[r].clause
  BY <1>0, <1>1 DEF CallOk, CounterOk, OnRedline
<1>4. f \notin DOMAIN redline /\ r # f /\ r \in Redlines /\ r # None /\ redline[r].status = "PROPOSED"
  BY <1>1, <1>3, NoneAssumption DEF IInv, FreshIds, TablesTyped, Proposed
<1>5. redline[r] \in RedlineRow
  BY <1>1, <1>3 DEF TablesTyped
<1>6. row \in RedlineRow /\ row.status = "PROPOSED" /\ row.parent = r
  BY <1>3, <1>4, <1>5 DEF RedlineRow, Statuses
<1>7. /\ done \in RedlineRow /\ done.status = "COUNTERED" /\ done.parent = redline[r].parent
      /\ done = [redline[r] EXCEPT !.status = done.status]
  BY <1>5 DEF RedlineRow, Statuses
<1>8. redline' = [t \in DOMAIN redline \cup {f} |->
        IF t = f THEN row ELSE IF t = r THEN done ELSE redline[t]]
  BY <1>0
<1> HIDE DEF row, done, r
<1>9. /\ DOMAIN redline' = DOMAIN redline \cup {f}
      /\ redline'[f] = row /\ redline'[r] = done
      /\ \A t \in DOMAIN redline \ {r} : redline'[t] = redline[t]
      /\ redline' \in [DOMAIN redline' -> RedlineRow]
  <2>1. DOMAIN redline' = DOMAIN redline \cup {f}
    BY <1>8
  <2>2. redline'[f] = row /\ redline'[r] = done
    BY <1>3, <1>4, <1>8
  <2>3. \A t \in DOMAIN redline \ {r} : redline'[t] = redline[t]
    BY <1>4, <1>8
  <2>4. redline \in [DOMAIN redline -> RedlineRow]
    BY <1>1 DEF TablesTyped
  <2> QED
    BY <1>6, <1>7, <1>8, <2>1, <2>2, <2>3, <2>4
<1>10. \A q \in Others(p) : ~HoldsRedline(q, r)
  <2>1. HoldsRedline(p, r)
    BY <1>0 DEF HoldsRedline, r
  <2> QED
    BY <1>4, <2>1 DEF IInv, Locks, LocksExclude, Others
<1>11. Grows(p)
  BY <1>0, <1>1, <1>2, <1>3, <1>7, <1>9, <1>10 DEF Grows
<1>12. TablesTyped'
  BY <1>0, <1>1, <1>3, <1>9 DEF TablesTyped
<1>13. History'
  BY <1>0 DEF IInv, History, LinearHistory, Rows
<1>14. Promotions'
  BY <1>0, <1>4, <1>6, <1>7, <1>9 DEF IInv, Promotions, Rows
<1>15. Children'
  <2>1. \A t \in DOMAIN redline : redline'[t].parent = redline[t].parent
    BY <1>7, <1>9
  <2>2. \A t \in DOMAIN redline : redline[t].parent # r
    BY <1>4 DEF IInv, Children
  <2>3. \A t \in DOMAIN redline : redline[t].parent # f
    BY <1>3, <1>4, NoneAssumption DEF IInv, Children
  <2>4. ASSUME NEW t \in DOMAIN redline', redline'[t].parent # None
        PROVE  /\ redline'[t].parent \in DOMAIN redline'
               /\ redline'[redline'[t].parent].status = "COUNTERED"
    <3>1. CASE t = f
      BY <1>3, <1>6, <1>7, <1>9, <3>1
    <3>2. CASE t # f
      <4>1. t \in DOMAIN redline /\ redline'[t].parent = redline[t].parent
        BY <1>9, <2>1, <3>2
      <4>2. /\ redline[t].parent \in DOMAIN redline
            /\ redline[redline[t].parent].status = "COUNTERED"
        BY <2>4, <4>1 DEF IInv, Children
      <4> QED
        BY <1>4, <1>9, <4>1, <4>2
    <3> QED
      BY <3>1, <3>2
  <2>5. ASSUME NEW t \in DOMAIN redline', NEW u \in DOMAIN redline',
               redline'[t].parent = redline'[u].parent, redline'[t].parent # None
        PROVE  t = u
    BY <1>6, <1>9, <2>1, <2>2, <2>5 DEF IInv, Children
  <2>6. ASSUME NEW t \in DOMAIN redline', redline'[t].status = "COUNTERED"
        PROVE  \E u \in DOMAIN redline' : redline'[u].parent = t
    <3>1. CASE t = r
      BY <1>6, <1>9, <3>1
    <3>2. CASE t # r
      <4>1. t \in DOMAIN redline /\ redline[t].status = "COUNTERED"
        BY <1>6, <1>9, <2>6, <3>2
      <4>2. PICK u \in DOMAIN redline : redline[u].parent = t
        BY <4>1 DEF IInv, Children
      <4> QED
        BY <1>9, <2>1, <4>2
    <3> QED
      BY <3>1, <3>2
  <2> QED
    BY <2>4, <2>5, <2>6 DEF Children
<1>16. ContractTyped'
  BY <1>0, <1>11, <1>12, KeptContract
<1> QED
  BY <1>2, <1>11, <1>12, <1>13, <1>14, <1>15, <1>16 DEF CallStep


-----------------------------------------------------------------------------
(* The statements that write the clause table.                             *)

LEMMA Appended ==
  ASSUME IInv, NEW p \in Callers, NEW row \in ClauseRow(Len(clause) + 1),
         clause' = Append(clause, row)
  PROVE  /\ Len(clause') = Len(clause) + 1
         /\ \A i \in Rows : clause'[i] = clause[i]
         /\ clause'[Len(clause) + 1] = row
         /\ Rows' = Rows \cup {Len(clause) + 1}
         /\ clause' \in Seq(ClauseRow(Len(clause) + 1))
<1>1. clause \in Seq(ClauseRow(Len(clause))) /\ Len(clause) \in Nat
  BY AtWork DEF TablesTyped
<1>2. clause \in Seq(ClauseRow(Len(clause) + 1))
  <2>1. ClauseRow(Len(clause)) \subseteq ClauseRow(Len(clause) + 1)
    BY <1>1, Growing
  <2> QED
    BY <1>1, <2>1
<1>3. /\ Len(clause') = Len(clause) + 1 /\ clause'[Len(clause) + 1] = row
      /\ \A i \in 1 .. Len(clause) : clause'[i] = clause[i]
      /\ clause' \in Seq(ClauseRow(Len(clause) + 1))
  BY <1>2
<1>4. Rows' = Rows \cup {Len(clause) + 1}
  BY <1>1, <1>3 DEF Rows
<1> QED
  BY <1>3, <1>4 DEF Rows

\* The new row continues the chain of its clause.
LEMMA ChainGrows ==
  ASSUME IInv, NEW p \in Callers, NEW c \in Clauses, NEW row \in ClauseRow(Len(clause) + 1),
         row.parent = junction[c], clause' = Append(clause, row),
         junction' = [junction EXCEPT ![c] = Len(clause) + 1]
  PROVE  History' /\ junction' \in [Clauses -> 1 .. Len(clause) + 1]
<1> DEFINE n == Len(clause)
<1>1. /\ n \in Nat /\ junction \in [Clauses -> 1 .. n]
      /\ \A i \in 1 .. n : clause[i].parent \in 0 .. n
  <2>1. n \in Nat /\ TablesTyped
    BY AtWork
  <2> QED
    BY <2>1, ClauseRows DEF TablesTyped, Rows, ClauseRow
<1>2. /\ Rows' = 1 .. n + 1 /\ Rows = 1 .. n
      /\ \A i \in 1 .. n : clause'[i].parent = clause[i].parent
      /\ clause'[n + 1].parent = junction[c]
  <2>1. /\ Len(clause') = n + 1 /\ clause'[n + 1] = row
        /\ \A i \in Rows : clause'[i] = clause[i]
    BY Appended
  <2> QED
    BY <2>1 DEF Rows
<1>3. /\ \A d, e \in Clauses : junction[d] = junction[e] => d = e
      /\ \A i, j \in 1 .. n : clause[i].parent = clause[j].parent /\ clause[i].parent # 0
                              => i = j
      /\ \A d \in Clauses, i \in 1 .. n : clause[i].parent # junction[d]
  BY <1>2 DEF IInv, History, LinearHistory
<1> HIDE DEF n
<1>4. /\ junction'[c] = n + 1
      /\ \A d \in Clauses \ {c} : junction'[d] = junction[d]
      /\ junction' \in [Clauses -> 1 .. n + 1]
  <2>1. junction' = [junction EXCEPT ![c] = n + 1]
    BY DEF n
  <2> QED
    BY <1>1, <2>1
<1>5. \A d, e \in Clauses : junction'[d] = junction'[e] => d = e
  BY <1>1, <1>3, <1>4
<1>6. ASSUME NEW i \in 1 .. n + 1, NEW j \in 1 .. n + 1,
             clause'[i].parent = clause'[j].parent, clause'[i].parent # 0
      PROVE  i = j
  <2>1. (i \in 1 .. n \/ i = n + 1) /\ (j \in 1 .. n \/ j = n + 1)
    BY <1>1
  <2> QED
    BY <1>2, <1>3, <1>6, <2>1
<1>7. ASSUME NEW d \in Clauses, NEW i \in 1 .. n + 1
      PROVE  clause'[i].parent # junction'[d]
  <2>1. i \in 1 .. n \/ i = n + 1
    BY <1>1
  <2>2. CASE d = c
    <3>1. clause'[i].parent \in 0 .. n
      <4>1. junction[c] \in 0 .. n
        BY <1>1
      <4> QED
        BY <1>1, <1>2, <2>1, <4>1
    <3> QED
      BY <1>1, <1>4, <2>2, <3>1
  <2>3. CASE d # c
    BY <1>2, <1>3, <1>4, <2>1, <2>3
  <2> QED
    BY <2>2, <2>3
<1>8. junction' \in [Clauses -> 1 .. Len(clause) + 1]
  BY <1>4 DEF n
<1> QED
  BY <1>2, <1>5, <1>6, <1>7, <1>8 DEF History, LinearHistory

LEMMA CommitAcceptStep ==
  ASSUME IInv, NEW p \in Callers, CommitAccept(p)
  PROVE  CallStep(p)
<1> DEFINE n == Len(clause)
           r == job[p].redline
           c == job[p].clause
           row == [body |-> job[p].body, parent |-> job[p].row, of |-> r]
<1>0. /\ pc[p] = "accepted" /\ Return(p) /\ clause' = Append(clause, row)
      /\ junction' = [junction EXCEPT ![c] = Len(clause')]
      /\ SetStatus(r, "ACCEPTED")
      /\ contract' = Saved(p) /\ version' = Highest(version, job[p].entity.version)
  BY DEF CommitAccept
<1>1. /\ CallOk(p) /\ TablesTyped /\ ContractTyped /\ n \in Nat
      /\ job[p] \in JobRow(n)
  BY AtWork
<1>2. DoesMove(p) /\ CallOk(p)' /\ Acquires(p)
  BY <1>0, ReturnKeeps
<1>3. /\ Proposed(r) /\ job[p].body \in Bodies /\ job[p].row = junction[c]
      /\ c = redline[r].clause /\ job[p].entity \in ContractUpTo(n)
  BY <1>0, <1>1 DEF CallOk, AcceptOk, Accepting, OnRedline, SaveOk
<1>4. /\ r \in DOMAIN redline /\ r \in Redlines /\ r # None /\ c \in Clauses
      /\ redline[r].status = "PROPOSED"
  BY <1>3, ProposedRow DEF Proposed
<1>5. row \in ClauseRow(n + 1) /\ row.parent = junction[c] /\ row.of = r
  <2>1. junction[c] \in 0 .. n + 1
    BY <1>1, <1>4 DEF TablesTyped
  <2> QED
    BY <1>3, <1>4, <2>1 DEF ClauseRow
<1> HIDE DEF row, r, c
<1>6. /\ Len(clause') = n + 1 /\ Rows' = Rows \cup {n + 1} /\ clause'[n + 1] = row
      /\ \A i \in Rows : clause'[i] = clause[i]
      /\ clause' \in Seq(ClauseRow(n + 1))
  BY <1>0, <1>5, Appended
<1>7. History' /\ junction' \in [Clauses -> 1 .. n + 1]
  BY <1>0, <1>4, <1>5, <1>6, ChainGrows
<1>8. /\ DOMAIN redline' = DOMAIN redline
      /\ redline' \in [DOMAIN redline -> RedlineRow]
      /\ redline'[r].status = "ACCEPTED"
      /\ redline'[r] = [redline[r] EXCEPT !.status = redline'[r].status]
      /\ \A t \in DOMAIN redline \ {r} : redline'[t] = redline[t]
  BY <1>0, <1>3, Flipped DEF Statuses
<1>9. Grows(p)
  <2>1. Decides(p, c) /\ KeyShare(p) /\ HoldsRedline(p, r)
    BY <1>0 DEF Decides, KeyShare, HoldsRedline, c, r
  <2>2. \A q \in Others(p) : ~HoldsRedline(q, r)
    BY <1>4, <2>1 DEF IInv, Locks, LocksExclude, Others
  <2>3. \A d \in Clauses : junction'[d] # junction[d] => d = c
    BY <1>0, <1>1 DEF TablesTyped
  <2> QED
    BY <1>1, <1>3, <1>6, <1>8, <2>1, <2>2, <2>3 DEF Grows
<1>10. TablesTyped'
  BY <1>1, <1>6, <1>7, <1>8 DEF TablesTyped
<1>11. Promotions'
  <2>1. \A i \in Rows : clause[i].of # r
    BY <1>4 DEF IInv, Promotions
  <2>2. ASSUME NEW i \in Rows', clause'[i].of # None
        PROVE  /\ clause'[i].of \in DOMAIN redline'
               /\ redline'[clause'[i].of].status = "ACCEPTED"
    <3>1. CASE i = n + 1
      BY <1>4, <1>5, <1>6, <1>8, <3>1
    <3>2. CASE i \in Rows
      BY <1>6, <1>8, <2>1, <2>2, <3>2 DEF IInv, Promotions
    <3> QED
      BY <1>6, <3>1, <3>2
  <2>3. ASSUME NEW i \in Rows', NEW j \in Rows', clause'[i].of = clause'[j].of,
               clause'[i].of # None
        PROVE  i = j
    BY <1>5, <1>6, <2>1, <2>3 DEF IInv, Promotions
  <2>4. ASSUME NEW t \in DOMAIN redline', redline'[t].status = "ACCEPTED"
        PROVE  \E i \in Rows' : clause'[i].of = t
    <3>1. CASE t = r
      BY <1>5, <1>6, <3>1
    <3>2. CASE t # r
      <4>1. PICK i \in Rows : clause[i].of = t
        BY <1>8, <2>4, <3>2 DEF IInv, Promotions
      <4> QED
        BY <1>6, <4>1
    <3> QED
      BY <3>1, <3>2
  <2> QED
    BY <2>2, <2>3, <2>4 DEF Promotions
<1>12. Children'
  BY <1>0, <1>3, FlippedChildren DEF Statuses
<1>13. ContractTyped'
  <2>1. contract' \in ContractUpTo(n)
    BY <1>0, <1>3, SavedContract
  <2>2. ContractUpTo(n) \subseteq ContractUpTo(n + 1)
    BY <1>1, Growing
  <2>3. version' \in Nat
    <3>1. job[p].entity.version \in Nat /\ version \in Nat
      BY <1>1, <1>3 DEF ContractUpTo, ContractTyped
    <3> QED
      BY <1>0, <3>1, HighestType
  <2> QED
    BY <1>6, <2>1, <2>2, <2>3 DEF ContractTyped
<1> QED
  BY <1>2, <1>7, <1>9, <1>10, <1>11, <1>12, <1>13 DEF CallStep

LEMMA SaveEditStep ==
  ASSUME IInv, NEW p \in Callers, SaveEdit(p)
  PROVE  CallStep(p)
<1> DEFINE n == Len(clause)
           i == job[p].row
           row == [clause[i] EXCEPT !.body = job[p].body]
<1>0. /\ pc[p] = "edit" /\ Return(p) /\ UNCHANGED <<contract, version, junction, redline>>
      /\ clause' = [clause EXCEPT ![i] = row]
  BY DEF SaveEdit
<1>1. CallOk(p) /\ TablesTyped /\ n \in Nat /\ job[p] \in JobRow(n)
  BY AtWork
<1>2. DoesMove(p) /\ CallOk(p)' /\ Acquires(p)
  BY <1>0, ReturnKeeps
<1>3. i \in Rows /\ job[p].body \in Bodies
  <2>1. i >= 1 /\ job[p].body \in Bodies
    BY <1>0, <1>1 DEF CallOk, EditOk
  <2>2. i \in 0 .. n
    BY <1>1 DEF JobRow
  <2> QED
    BY <1>1, <2>1, <2>2 DEF Rows
<1>4. /\ row \in ClauseRow(n) /\ row.parent = clause[i].parent /\ row.of = clause[i].of
  <2>1. clause[i] \in ClauseRow(n)
    BY <1>1, <1>3, ClauseRows
  <2> QED
    BY <1>3, <2>1 DEF ClauseRow
<1> HIDE DEF row, i
<1>5. /\ Len(clause') = n /\ clause' \in Seq(ClauseRow(n))
      /\ \A k \in Rows : clause'[k].parent = clause[k].parent /\ clause'[k].of = clause[k].of
  <2>1. clause \in Seq(ClauseRow(n)) /\ i \in 1 .. Len(clause)
    BY <1>1, <1>3 DEF TablesTyped, Rows
  <2>2. Len(clause') = n /\ clause' \in Seq(ClauseRow(n))
    BY <1>0, <1>4, <2>1
  <2>3. \A k \in Rows : clause'[k] = IF k = i THEN row ELSE clause[k]
    BY <1>0, <2>1 DEF Rows
  <2> QED
    BY <1>4, <2>2, <2>3
<1>6. Rows' = Rows
  BY <1>5 DEF Rows
<1>7. Grows(p)
  BY <1>0, <1>1, <1>5 DEF Grows
<1>8. TablesTyped'
  BY <1>0, <1>1, <1>5 DEF TablesTyped
<1>9. History'
  BY <1>0, <1>5, <1>6 DEF IInv, History, LinearHistory
<1>10. Promotions'
  BY <1>0, <1>5, <1>6 DEF IInv, Promotions
<1>11. Children'
  BY <1>0 DEF IInv, Children
<1>12. ContractTyped'
  BY <1>0, <1>7, <1>8, KeptContract
<1> QED
  BY <1>2, <1>7, <1>8, <1>9, <1>10, <1>11, <1>12 DEF CallStep

LEMMA FailStep ==
  ASSUME IInv, NEW p \in Callers, Fail(p)
  PROVE  CallStep(p)
BY ReturnStep DEF Fail

-----------------------------------------------------------------------------
(* What a step of one call leaves of the others.                           *)

LEMMA AllSteps ==
  ASSUME IInv, NEW p \in Callers, Start(p) \/ Step(p) \/ Fail(p)
  PROVE  CallStep(p)
<1>1. CASE Start(p)
  BY <1>1, ProposeStep, AcceptStep, RejectStep, CounterStep, EditClauseStep, LaneCallStep,
     ShareStep, MarkAsSignedStep
     DEF Start
<1>2. CASE Step(p)
  <2>1. CASE ReadBase(p) \/ InsertRedline(p) \/ ProposeHook(p) \/ Bounce(p) \/ CommitPropose(p)
    BY <2>1, ReadBaseStep, InsertRedlineStep, ProposeHookStep, BounceStep, CommitProposeStep
  <2>2. CASE AcceptLock(p) \/ SnapshotRead(p) \/ SnapshotSelect(p) \/ SnapshotWrite(p)
    BY <2>2, AcceptLockStep, SnapshotReadStep, SelectStep, SnapshotWriteStep
  <2>3. CASE Promote(p) \/ CommitAccept(p) \/ Decide(p)
    BY <2>3, PromoteStep, CommitAcceptStep, DecideStep
  <2>4. CASE CounterLock(p) \/ CounterFlip(p) \/ CommitCounter(p)
    BY <2>4, CounterLockStep, CounterFlipStep, CommitCounterStep
  <2>5. CASE CountOpen(p) \/ SetLane(p)
    BY <2>5, CountOpenStep, SetLaneStep
  <2>6. CASE ShareSelect(p) \/ ShareWrite(p) \/ ShareHook(p) \/ ShareSet(p)
    BY <2>6, SelectStep, ShareWriteStep, ShareHookStep, ShareSetStep
  <2>7. CASE SignLock(p) \/ BuildPayload(p) \/ CommitPin(p) \/ SaveEdit(p)
    BY <2>7, SignLockStep, BuildPayloadStep, CommitPinStep, SaveEditStep
  <2> QED
    BY <1>2, <2>1, <2>2, <2>3, <2>4, <2>5, <2>6, <2>7 DEF Step
<1>3. CASE Fail(p)
  BY <1>3, FailStep
<1> QED
  BY <1>1, <1>2, <1>3

\* The locks of another call do not change.
LEMMA OtherLocks ==
  ASSUME NEW p \in Callers, CallStep(p), NEW q \in Others(p)
  PROVE  /\ ForUpdate(q)' <=> ForUpdate(q)
         /\ KeyShare(q)' <=> KeyShare(q)
         /\ Updated(q)' <=> Updated(q)
         /\ \A c \in Clauses : Decides(q, c)' <=> Decides(q, c)
         /\ \A r \in Redlines : HoldsRedline(q, r)' <=> HoldsRedline(q, r)
<1>1. pc'[q] = pc[q] /\ job'[q] = job[q]
  BY DEF CallStep, DoesMove, OthersStay
<1> QED
  BY <1>1 DEF ForUpdate, KeyShare, Updated, Decides, HoldsRedline

LEMMA LocksStep ==
  ASSUME IInv, NEW p \in Callers, CallStep(p)
  PROVE  Locks'
<1>1. Acquires(p) /\ Locks
  BY DEF CallStep, IInv
<1>2. ASSUME NEW q \in Others(p)
      PROVE  LocksExclude(p, q)' /\ LocksExclude(q, p)'
  <2>1. q \in Callers /\ p # q
    BY DEF Others
  <2>2. LocksExclude(p, q) /\ LocksExclude(q, p)
    BY <1>1, <2>1 DEF Locks
  <2>3. /\ ForUpdate(q)' <=> ForUpdate(q)
        /\ KeyShare(q)' <=> KeyShare(q)
        /\ Updated(q)' <=> Updated(q)
        /\ \A c \in Clauses : Decides(q, c)' <=> Decides(q, c)
        /\ \A r \in Redlines : HoldsRedline(q, r)' <=> HoldsRedline(q, r)
    BY <1>2, OtherLocks
  <2>4. ForUpdate(p)' => ~ForUpdate(q) /\ ~KeyShare(q)
    BY <1>1, <1>2, <2>2 DEF Acquires, MayLockContract, LocksExclude
  <2>5. KeyShare(p)' => ~ForUpdate(q)
    BY <1>1, <1>2, <2>2 DEF Acquires, MayReferContract, LocksExclude
  <2>6. Updated(p)' => ~Updated(q)
    BY <1>1, <1>2, <2>2 DEF Acquires, MayUpdateContract, LocksExclude
  <2>7. \A c \in Clauses : Decides(p, c)' => ~Decides(q, c)
    BY <1>1, <1>2, <2>2 DEF Acquires, LocksExclude
  <2>8. \A r \in Redlines : HoldsRedline(p, r)' => ~HoldsRedline(q, r)
    BY <1>1, <1>2, <2>2 DEF Acquires, LocksExclude
  <2> QED
    BY <2>3, <2>4, <2>5, <2>6, <2>7, <2>8 DEF LocksExclude
<1>3. ASSUME NEW q \in Others(p), NEW s \in Others(p), q # s
      PROVE  LocksExclude(q, s)'
  <2>1. LocksExclude(q, s)
    BY <1>1, <1>3 DEF Locks, Others
  <2>2. \A t \in {q, s} :
          /\ ForUpdate(t)' <=> ForUpdate(t)
          /\ KeyShare(t)' <=> KeyShare(t)
          /\ Updated(t)' <=> Updated(t)
          /\ \A c \in Clauses : Decides(t, c)' <=> Decides(t, c)
          /\ \A r \in Redlines : HoldsRedline(t, r)' <=> HoldsRedline(t, r)
    BY OtherLocks
  <2> QED
    BY <2>1, <2>2 DEF LocksExclude
<1> QED
  BY <1>2, <1>3 DEF Locks, Others

LEMMA FreshStep ==
  ASSUME IInv, NEW p \in Callers, CallStep(p)
  PROVE  FreshIds'
<1>1. FreshIds
  BY DEF IInv
<1>2. \A q \in Others(p) : job'[q] = job[q] /\ q \in Callers /\ q # p
  BY DEF CallStep, DoesMove, OthersStay, Others
<1>3. job'[p].fresh \in {None, job[p].fresh} \cup Fresh
  BY DEF CallStep, Acquires
<1>4. \A r \in DOMAIN redline' \ DOMAIN redline :
        r \in Redlines /\ r = job[p].fresh /\ job'[p].fresh = None
  BY DEF CallStep, Grows
<1>5. None \notin DOMAIN redline' /\ None \notin Redlines
  BY NoneAssumption DEF CallStep, TablesTyped
<1>6. \A f \in Fresh : f \notin DOMAIN redline /\ \A q \in Callers : job[q].fresh # f
  BY DEF Fresh
<1>7. \A q \in Callers : job'[q].fresh \notin DOMAIN redline'
  <2>1. job'[p].fresh \notin DOMAIN redline'
    BY <1>1, <1>3, <1>4, <1>5, <1>6 DEF FreshIds
  <2>2. \A q \in Others(p) : job'[q].fresh \notin DOMAIN redline'
    BY <1>1, <1>2, <1>4, <1>5 DEF FreshIds
  <2> QED
    BY <2>1, <2>2 DEF Others
<1>8. \A q \in Others(p) : job'[q].fresh = job'[p].fresh => job'[p].fresh = None
  BY <1>1, <1>2, <1>3, <1>6 DEF FreshIds
<1>9. \A q, s \in Others(p) :
        q # s /\ job'[q].fresh = job'[s].fresh => job'[q].fresh = None
  BY <1>1, <1>2 DEF FreshIds
<1> QED
  BY <1>7, <1>8, <1>9 DEF FreshIds, Others

LEMMA OtherCall ==
  ASSUME IInv, NEW p \in Callers, CallStep(p), NEW q \in Others(p)
  PROVE  CallOk(q)'
<1>1. pc'[q] = pc[q] /\ job'[q] = job[q] /\ q \in Callers /\ q # p
  BY DEF CallStep, DoesMove, OthersStay, Others
<1>2. CallOk(q) /\ TablesTyped /\ Len(clause) \in Nat
  BY <1>1, AtWork
<1>3. LocksExclude(p, q) /\ LocksExclude(q, p)
  BY <1>1 DEF IInv, Locks
<1>4. /\ \A c \in Clauses : junction'[c] # junction[c] => Decides(p, c) /\ KeyShare(p)
      /\ \A r \in DOMAIN redline :
           /\ r \in DOMAIN redline'
           /\ redline'[r] # redline[r] =>
                /\ redline'[r] = [redline[r] EXCEPT !.status = redline'[r].status]
                /\ ~HoldsRedline(q, r)
  BY DEF CallStep, Grows
<1>5. ContractUpTo(Len(clause)) \subseteq ContractUpTo(Len(clause'))
      /\ PinsUpTo(Len(clause)) \subseteq PinsUpTo(Len(clause'))
  <2>1. Len(clause') \in Nat /\ Len(clause) <= Len(clause')
    BY LengthType DEF CallStep, Grows, TablesTyped
  <2> QED
    BY <1>2, <2>1, Growing
<1>6. ASSUME OnRedline(q)
      PROVE  OnRedline(q)' /\ job[q].clause \in Clauses /\ job[q].redline \in Redlines
  <2>1. redline[job[q].redline] \in RedlineRow /\ job[q].redline \in Redlines
    BY <1>2, <1>6 DEF OnRedline, TablesTyped
  <2>2. redline'[job[q].redline].clause = redline[job[q].redline].clause
    BY <1>4, <1>6, <2>1 DEF OnRedline, RedlineRow
  <2> QED
    BY <1>1, <1>4, <1>6, <2>1, <2>2 DEF OnRedline, RedlineRow
<1>7. ASSUME Proposed(job[q].redline), HoldsRedline(q, job[q].redline)
      PROVE  Proposed(job[q].redline)'
  BY <1>1, <1>4, <1>7 DEF Proposed
<1>8. ProposeOk(q)' /\ DecideOk(q)' /\ LaneOk(q)' /\ EditOk(q)' /\ SaveOk(q)'
  BY <1>1, <1>2, <1>4, <1>5
     DEF CallOk, ProposeOk, DecideOk, LaneOk, EditOk, SaveOk, InSnapshot
<1>9. AcceptOk(q)'
  <2>1. Accepting(q)' <=> Accepting(q)
    BY <1>1 DEF Accepting, InSnapshot
  <2>2. AcceptOk(q)
    BY <1>2 DEF CallOk
  <2>3. ASSUME Accepting(q)
        PROVE  /\ OnRedline(q)' /\ job[q].body \in Bodies
               /\ pc[q] # "lock" => job[q].row = junction'[job[q].clause]
    <3>1. /\ OnRedline(q)' /\ job[q].body \in Bodies /\ job[q].clause \in Clauses
          /\ pc[q] # "lock" => job[q].row = junction[job[q].clause]
      BY <1>6, <2>2, <2>3 DEF AcceptOk
    <3>2. pc[q] # "lock" => Decides(q, job[q].clause)
      BY <2>3 DEF Decides, Accepting, InSnapshot
    <3>3. pc[q] # "lock" => junction'[job[q].clause] = junction[job[q].clause]
      BY <1>3, <1>4, <3>1, <3>2 DEF LocksExclude
    <3> QED
      BY <3>1, <3>3
  <2>4. pc[q] = "accepted" => Proposed(job[q].redline)'
    BY <1>7, <2>2 DEF AcceptOk, HoldsRedline
  <2> QED
    BY <1>1, <2>1, <2>3, <2>4 DEF AcceptOk
<1>10. CounterOk(q)'
  <2>1. CounterOk(q)
    BY <1>2 DEF CallOk
  <2>2. pc[q] = "child" => Proposed(job[q].redline)'
    BY <1>7, <2>1 DEF CounterOk, HoldsRedline
  <2> QED
    BY <1>1, <1>6, <2>1, <2>2 DEF CounterOk
<1>11. PinOk(q)'
  <2>1. PinOk(q)
    BY <1>2 DEF CallOk
  <2>2. pc[q] = "pin" => \A c \in Clauses : junction'[c] = junction[c]
    BY <1>3, <1>4 DEF LocksExclude, ForUpdate
  <2> QED
    BY <1>1, <1>5, <2>1, <2>2 DEF PinOk
<1> QED
  BY <1>8, <1>9, <1>10, <1>11 DEF CallOk

-----------------------------------------------------------------------------
(* The invariant.                                                          *)

LEMMA StepInvariant ==
  ASSUME IInv, NEW p \in Callers, CallStep(p), faults' \in 0 .. MaxFaults
  PROVE  IInv'
<1>1. Types'
  <2>1. Len(clause) \in Nat /\ Len(clause') \in Nat /\ Len(clause) <= Len(clause')
    BY LengthType, AtWork DEF CallStep, Grows, TablesTyped
  <2>2. CallsTyped'
    <3>1. JobRow(Len(clause)) \subseteq JobRow(Len(clause'))
      BY <2>1, Growing
    <3>2. pc' \in [Callers -> Labels] /\ job' \in [Callers -> JobRow(Len(clause))]
      BY DEF CallStep, DoesMove
    <3> QED
      BY <3>1, <3>2 DEF CallsTyped
  <2> QED
    BY <2>2 DEF CallStep, Types
<1>2. Calls'
  <2>1. CallOk(p)' /\ \A q \in Others(p) : CallOk(q)'
    BY OtherCall DEF CallStep
  <2> QED
    BY <2>1 DEF Calls, Others
<1>3. Locks' /\ FreshIds'
  BY LocksStep, FreshStep
<1> QED
  BY <1>1, <1>2, <1>3 DEF IInv, CallStep

LEMMA NextInvariant == IInv /\ Next => IInv'
<1> SUFFICES ASSUME IInv, Next PROVE IInv'
  OBVIOUS
<1>1. PICK p \in Callers : Start(p) \/ Step(p) \/ Fail(p)
  BY DEF Next
<1>2. CallStep(p)
  BY <1>1, AllSteps
<1>3. faults' \in 0 .. MaxFaults
  <2>1. faults \in 0 .. MaxFaults /\ MaxFaults \in Nat
    BY BoundsAssumption DEF IInv, Types
  <2>2. CASE Start(p)
    BY <2>1, <2>2 DEF Start, Propose, Accept, Reject, Withdraw, Counter, EditClause, Agree,
       ReadyToSign, Share, MarkAsSigned, Begin
  <2>3. CASE Step(p)
    BY <2>1, <2>3 DEF Step, ReadBase, InsertRedline, ProposeHook, Bounce, CommitPropose,
       AcceptLock, SnapshotRead, SnapshotSelect, SnapshotWrite, Promote, CommitAccept, Decide,
       CounterLock, CounterFlip, CommitCounter, CountOpen, SetLane, ShareSelect, ShareWrite,
       ShareHook, ShareSet, SignLock, BuildPayload, CommitPin, SaveEdit
  <2>4. CASE Fail(p)
    BY <2>1, <2>4 DEF Fail
  <2> QED
    BY <1>1, <2>2, <2>3, <2>4
<1> QED
  BY <1>2, <1>3, StepInvariant

LEMMA StutterInvariant == IInv /\ UNCHANGED vars => IInv'
<1> SUFFICES ASSUME IInv, UNCHANGED vars PROVE IInv'
  OBVIOUS
<1>1. UNCHANGED <<contract, version, clause, junction, redline, pc, job, faults>>
  BY DEF vars, tables
<1>2. Types' /\ FreshIds' /\ History' /\ Promotions' /\ Children'
  BY <1>1 DEF IInv, Types, ContractTyped, TablesTyped, CallsTyped, FreshIds, History,
     LinearHistory, Promotions, Children, Rows
<1>3. Locks'
  BY <1>1 DEF IInv, Locks, LocksExclude, ForUpdate, KeyShare, Updated, Decides, HoldsRedline
<1>4. Calls'
  BY <1>1 DEF IInv, Calls, CallOk, ProposeOk, AcceptOk, Accepting, InSnapshot, SaveOk,
     CounterOk, DecideOk, LaneOk, PinOk, EditOk, OnRedline, Proposed
<1> QED
  BY <1>2, <1>3, <1>4 DEF IInv

LEMMA InitInvariant == Init => IInv
<1> SUFFICES ASSUME Init PROVE IInv
  OBVIOUS
<1> DEFINE n == Cardinality(Clauses)
           first == [body |-> InitBody, parent |-> 0, of |-> None]
<1>1. n \in Nat
  BY ClausesAssumption, FS_CardinalityType
<1> HIDE DEF n
<1>2. /\ clause = [i \in 1 .. n |-> first]
      /\ junction \in [Clauses -> 1 .. n]
      /\ \A c, d \in Clauses : c # d => junction[c] # junction[d]
      /\ redline = [r \in {} |-> r] /\ version = 1 /\ faults = 0
      /\ pc = [p \in Callers |-> "idle"] /\ job = [p \in Callers |-> NoJob]
  BY DEF Init, n
<1>3. PICK l \in InitLanes :
        contract = [lane |-> l, status |-> "APPROVED", pin |-> None, version |-> 1]
  BY DEF Init
<1>4. first \in ClauseRow(n) /\ first.parent = 0 /\ first.of = None
  BY <1>1, BodiesAssumption DEF ClauseRow
<1> HIDE DEF first
<1>5. /\ Len(clause) = n /\ clause \in Seq(ClauseRow(n)) /\ Rows = 1 .. n
      /\ \A i \in 1 .. n : clause[i] = first
  <2>1. clause \in [1 .. n -> ClauseRow(n)]
    BY <1>2, <1>4
  <2>2. clause \in Seq(ClauseRow(n)) /\ Len(clause) = n
    BY <1>1, <2>1
  <2> QED
    BY <1>2, <2>2 DEF Rows
<1>6. DOMAIN redline = {}
  BY <1>2
<1>7. Types
  <2>1. ContractTyped
    BY <1>2, <1>3, LanesAssumption DEF ContractTyped, ContractUpTo
  <2>2. TablesTyped
    BY <1>2, <1>5, <1>6 DEF TablesTyped
  <2>3. CallsTyped
    <3>1. NoJob \in JobRow(Len(clause))
      BY <1>1, <1>5, NoJobType
    <3> QED
      BY <1>2, <3>1 DEF CallsTyped, Labels
  <2> QED
    BY <1>2, <2>1, <2>2, <2>3, BoundsAssumption DEF Types
<1>8. \A p \in Callers : pc[p] = "idle" /\ job[p].fresh = None
  BY <1>2 DEF NoJob
<1>9. Locks
  BY <1>8 DEF Locks, LocksExclude, ForUpdate, KeyShare, Updated, Decides, HoldsRedline
<1>10. FreshIds
  BY <1>6, <1>8 DEF FreshIds
<1>11. Calls
  BY <1>8 DEF Calls, CallOk, ProposeOk, AcceptOk, Accepting, InSnapshot, SaveOk,
     CounterOk, DecideOk, LaneOk, PinOk, EditOk
<1>12. History
  <2>1. \A c \in Clauses : junction[c] # 0
    BY <1>1, <1>2
  <2> QED
    BY <1>2, <1>4, <1>5, <2>1 DEF History, LinearHistory
<1>13. Promotions
  BY <1>4, <1>5, <1>6 DEF Promotions
<1>14. Children
  BY <1>6 DEF Children
<1> QED
  BY <1>7, <1>9, <1>10, <1>11, <1>12, <1>13, <1>14 DEF IInv

\* The inductive invariant holds in every reachable state: types, the locks and
\* what each call knows under them, the chains of the clause table, and the two
\* tables that record decisions.
THEOREM Invariance == Spec => []IInv
<1>1. IInv /\ [Next]_vars => IInv'
  BY NextInvariant, StutterInvariant
<1> QED
  BY <1>1, InitInvariant, PTL DEF Spec

-----------------------------------------------------------------------------
(* What the invariant says.                                                *)

\* The columns read and written have their types, at every interleaving and
\* after any failures; what calls have read names rows that exist.
THEOREM TypeCorrect == Spec => []TypeOK
<1>1. IInv => TypeOK
  BY TypesSuffice DEF IInv
<1> QED
  BY <1>1, Invariance, PTL

\* What is about to be pinned is live: the rows in the payload that
\* pinExecutedContract has built under its FOR UPDATE lock are those the
\* junctions name when it commits.
THEOREM PinsLiveRows == Spec => []PinnedRowsAreLive
<1>1. IInv => PinnedRowsAreLive
  BY DEF IInv, Calls, CallOk, PinOk, PinnedRowsAreLive
<1> QED
  BY <1>1, Invariance, PTL

\* accept() replaces the live row of a clause and no other: the promotions of a
\* clause form one chain, whatever decisions race.
THEOREM HistoryIsLinear == Spec => []LinearHistory
<1>1. IInv => LinearHistory
  BY DEF IInv, History
<1> QED
  BY <1>1, Invariance, PTL

\* accept() flips the redline if and only if it promotes its text, and once.
THEOREM AcceptPromotesOnce == Spec => []AcceptedIsPromoted
<1>1. ASSUME IInv, NEW r \in DOMAIN redline
      PROVE  Cardinality({i \in Rows : clause[i].of = r}) =
               IF redline[r].status = "ACCEPTED" THEN 1 ELSE 0
  <2>1. r # None /\ Promotions
    BY <1>1, NoneAssumption DEF IInv, Types, TablesTyped
  <2>2. CASE redline[r].status = "ACCEPTED"
    <3>1. PICK i \in Rows : clause[i].of = r
      BY <2>1, <2>2 DEF Promotions
    <3>2. {j \in Rows : clause[j].of = r} = {i}
      BY <2>1, <3>1 DEF Promotions
    <3> QED
      BY <2>2, <3>2, FS_Singleton
  <2>3. CASE redline[r].status # "ACCEPTED"
    <3>1. {j \in Rows : clause[j].of = r} = {}
      BY <2>1, <2>3 DEF Promotions
    <3> QED
      BY <2>3, <3>1, FS_EmptySet
  <2> QED
    BY <2>2, <2>3
<1>2. IInv => AcceptedIsPromoted
  BY <1>1 DEF AcceptedIsPromoted
<1> QED
  BY <1>2, Invariance, PTL

\* counter() flips its redline if and only if it inserts a child, and once.
THEOREM CounterHasOneChild == Spec => []CounteredHasOneChild
<1>1. ASSUME IInv, NEW r \in DOMAIN redline
      PROVE  Cardinality({s \in DOMAIN redline : redline[s].parent = r}) =
               IF redline[r].status = "COUNTERED" THEN 1 ELSE 0
  <2>1. r # None /\ Children
    BY <1>1, NoneAssumption DEF IInv, Types, TablesTyped
  <2>2. CASE redline[r].status = "COUNTERED"
    <3>1. PICK s \in DOMAIN redline : redline[s].parent = r
      BY <2>1, <2>2 DEF Children
    <3>2. {t \in DOMAIN redline : redline[t].parent = r} = {s}
      BY <2>1, <3>1 DEF Children
    <3> QED
      BY <2>2, <3>2, FS_Singleton
  <2>3. CASE redline[r].status # "COUNTERED"
    <3>1. {t \in DOMAIN redline : redline[t].parent = r} = {}
      BY <2>1, <2>3 DEF Children
    <3> QED
      BY <2>3, <3>1, FS_EmptySet
  <2> QED
    BY <2>2, <2>3
<1>2. IInv => CounteredHasOneChild
  BY <1>1 DEF CounteredHasOneChild
<1> QED
  BY <1>2, Invariance, PTL

-----------------------------------------------------------------------------
(* What a step may do.                                                     *)

-----------------------------------------------------------------------------
(* Waiting.                                                                *)

\* Where a call may wait, from the statements nobody waits behind ...
Outer == {"insert", "lock", "counterLock", "signLock"}
\* ... those that may hold a junction and wait for the contract row ...
Updating == {"bounce", "write", "set", "shareWrite", "shareSet"}
\* ... those that may hold both and wait for a redline ...
Flipping == {"promote", "decide", "counter"}
\* ... to those that wait for a pin or a promotion in its last statement.
Last == {"child", "edit"}

\* Behind what each kind of call can be waiting.
LEMMA WaitingDescends ==
  ASSUME NEW p \in Callers, NEW q \in Callers, WaitsFor(p, q)
  PROVE  /\ pc[p] \in Outer \cup Updating \cup Flipping \cup Last
         /\ pc[q] \notin Outer
         /\ pc[p] \in Updating \cup Flipping \cup Last => pc[q] \notin Updating
         /\ pc[p] \in Flipping \cup Last => pc[q] \notin Flipping
         /\ pc[p] \in Last => pc[q] \notin Last
<1> USE DEF Outer, Updating, Flipping, Last
<1>1. CASE /\ pc[p] \in {"insert", "write", "child"}
           /\ ForUpdate(q)
  BY <1>1 DEF ForUpdate
<1>2. CASE /\ pc[p] \in {"bounce", "set", "shareSet", "write", "shareWrite"}
           /\ ForUpdate(q) \/ Updated(q)
  BY <1>2 DEF ForUpdate, Updated
<1>3. CASE /\ pc[p] = "signLock"
           /\ ForUpdate(q) \/ Updated(q) \/ KeyShare(q)
  BY <1>3 DEF ForUpdate, Updated, KeyShare
<1>4. CASE /\ pc[p] \in {"insert", "lock", "counterLock"}
           /\ Decides(q, job[p].clause) \/ Refers(q, job[p].clause)
  BY <1>4 DEF Decides, Refers
<1>5. CASE /\ pc[p] \in {"promote", "decide", "counter"}
           /\ HoldsRedline(q, job[p].redline)
  BY <1>5 DEF HoldsRedline
<1>6. CASE pc[p] = "edit" /\ pc[q] = "accepted"
  BY <1>6
<1> QED
  BY <1>1, <1>2, <1>3, <1>4, <1>5, <1>6 DEF WaitsFor

\* Among any callers, one whose statement comes last in that order waits for
\* none of the others.
LEMMA SomeoneRuns ==
  ASSUME NEW S \in SUBSET Callers, S # {}
  PROVE  \E p \in S : \A q \in S : ~WaitsFor(p, q)
<1>1. ASSUME NEW p \in S, pc[p] \notin Outer \cup Updating \cup Flipping \cup Last
      PROVE  \A q \in S : ~WaitsFor(p, q)
  BY <1>1, WaitingDescends
<1>2. ASSUME \A p \in S : pc[p] \in Outer \cup Updating \cup Flipping \cup Last
      PROVE  \E p \in S : \A q \in S : ~WaitsFor(p, q)
  <2>1. ASSUME NEW p \in S, pc[p] \in Last
        PROVE  \A q \in S : ~WaitsFor(p, q)
    BY <1>2, <2>1, WaitingDescends
  <2>2. ASSUME \A p \in S : pc[p] \notin Last, NEW p \in S, pc[p] \in Flipping
        PROVE  \A q \in S : ~WaitsFor(p, q)
    BY <1>2, <2>2, WaitingDescends
  <2>3. ASSUME \A p \in S : pc[p] \notin Last \cup Flipping, NEW p \in S, pc[p] \in Updating
        PROVE  \A q \in S : ~WaitsFor(p, q)
    BY <1>2, <2>3, WaitingDescends
  <2>4. ASSUME \A p \in S : pc[p] \notin Last \cup Flipping \cup Updating, NEW p \in S
        PROVE  \A q \in S : ~WaitsFor(p, q)
    BY <1>2, <2>4, WaitingDescends
  <2> QED
    BY <2>1, <2>2, <2>3, <2>4
<1> QED
  BY <1>1, <1>2

\* Any number of proposals, decisions, counters, shares, lane moves, edits and
\* signings at once never wait in a circle.
THEOREM NobodyWaitsInACircle == Spec => []NoCircularWait
<1>1. NoCircularWait
  BY SomeoneRuns DEF NoCircularWait
<1> QED
  BY <1>1, PTL

\* The conditional flips and the row locks let one decision win: no step takes a
\* redline out of the table, decides a decided one or changes what it proposes.
THEOREM DecisionsStand == Spec => DecisionsAreFinal
<1> DEFINE Final ==
      \A r \in DOMAIN redline :
        /\ r \in DOMAIN redline'
        /\ redline'[r] # redline[r] =>
             /\ redline[r].status = "PROPOSED"
             /\ redline'[r] = [redline[r] EXCEPT !.status = redline'[r].status]
<1>1. IInv /\ Next => Final
  <2> SUFFICES ASSUME IInv, Next PROVE Final
    OBVIOUS
  <2>1. PICK p \in Callers : Start(p) \/ Step(p) \/ Fail(p)
    BY DEF Next
  <2>2. Grows(p)
    BY <2>1, AllSteps DEF CallStep
  <2> QED
    BY <2>2 DEF Grows, Proposed
<1>2. IInv /\ [Next]_vars => [Final]_vars
  BY <1>1
<1>3. Spec => [][Final]_vars
  BY <1>2, Invariance, PTL DEF Spec
<1> QED
  BY <1>3 DEF DecisionsAreFinal

-----------------------------------------------------------------------------
(* The lane, where no call saves a whole contract entity: accept() and the *)
(* share branch of updateStatus() do, and put old lanes back.              *)

Saving == {"lock", "snapshot", "select", "write", "promote", "accepted", "shareSelect",
           "shareWrite", "shareHook", "shareSet"}

\* What a call knows of the lane it is about to leave.
LaneCall(p) ==
  /\ pc[p] \notin Saving
  /\ pc[p] = "bounce" => job[p].from \in {"SHARED", "AGREED"}
  /\ pc[p] = "opened" /\ job[p].from # None =>
       job[p].from \in {"SHARED", "AGREED"} /\ contract.lane = job[p].from
  /\ pc[p] \in {"count", "set"} =>
       job[p].from \in Lanes /\ job[p].to \in Transitions[job[p].from]

LaneInv == \A p \in Callers : LaneCall(p)

OnMap == contract'.lane # contract.lane => contract'.lane \in Transitions[contract.lane]

\* A step of p as the lane sees it: nobody else has updated the contract.
LaneStep(p) ==
  /\ LaneCall(p)' /\ OnMap
  /\ contract'.lane # contract.lane => \A q \in Others(p) : ~Updated(q)

\* Statements after which a call knows nothing of the lane.
Quiet == Labels \ (Saving \cup {"bounce", "opened", "count", "set"})

LEMMA QuietStep ==
  ASSUME IInv, NEW p \in Callers, NEW l \in Quiet, Goto(p, l), contract'.lane = contract.lane
  PROVE  LaneStep(p)
<1>1. pc'[p] = l
  BY AtWork DEF CallsTyped, Goto
<1> QED
  BY <1>1 DEF LaneStep, LaneCall, OnMap, Quiet

LEMMA LaneStart ==
  ASSUME Ops \cap {"accept", "share"} = {}, IInv, NEW p \in Callers, Start(p)
  PROVE  LaneStep(p)
<1>1. UNCHANGED contract
  BY DEF Start, Propose, Accept, Reject, Withdraw, Counter, EditClause, Agree, ReadyToSign,
     Share, MarkAsSigned, Begin, tables
<1>2. CallsTyped /\ contract.lane \in Lanes
  BY AtWork DEF ContractTyped, ContractUpTo
<1>3. CASE \E l \in {"base", "decide", "counterLock", "edit", "signLock"} : Goto(p, l)
  BY <1>1, <1>3, QuietStep DEF Quiet, Labels, Saving
<1>4. CASE Agree(p) \/ ReadyToSign(p)
  <2>1. PICK l \in {"count", "set"}, s \in Transitions[contract.lane] :
          Goto(p, l) /\ job' = [job EXCEPT ![p] = [NoJob EXCEPT !.from = contract.lane, !.to = s]]
    BY <1>4 DEF Agree, ReadyToSign, Begin
  <2> DEFINE j == [NoJob EXCEPT !.from = contract.lane, !.to = s]
  <2>2. j.from = contract.lane /\ j.to = s
    BY DEF NoJob
  <2> HIDE DEF j
  <2>3. pc'[p] = l /\ job'[p] = j
    BY <1>2, <2>1 DEF CallsTyped, Goto, j
  <2> QED
    BY <1>1, <1>2, <2>2, <2>3 DEF LaneStep, LaneCall, OnMap, Saving
<1> QED
  BY <1>3, <1>4 DEF Start, Propose, Accept, Reject, Withdraw, Counter, EditClause, Share,
     MarkAsSigned, Begin

LEMMA LaneProposal ==
  ASSUME IInv, LaneInv, NEW p \in Callers, ProposeHook(p) \/ Bounce(p) \/ CommitPropose(p)
  PROVE  LaneStep(p)
<1>1. /\ CallsTyped /\ CallOk(p) /\ job[p] \in JobRow(Len(clause)) /\ LaneCall(p)
      /\ contract \in ContractUpTo(Len(clause))
  BY AtWork DEF LaneInv, ContractTyped
<1>2. ASSUME Return(p), contract'.lane = contract.lane
      PROVE  LaneStep(p)
  BY <1>2, QuietStep DEF Return, Quiet, Labels, Saving
<1>3. CASE ProposeHook(p)
  <2>1. UNCHANGED contract /\ pc[p] = "hook"
    BY <1>3 DEF ProposeHook, tables
  <2>2. CASE /\ contract.lane \in {"SHARED", "AGREED"} /\ Goto(p, "bounce")
             /\ job' = [job EXCEPT ![p].from = contract.lane]
    <3>1. pc'[p] = "bounce" /\ job'[p].from = contract.lane
      BY <1>1, <2>2 DEF CallsTyped, Goto, JobRow
    <3> QED
      BY <2>1, <2>2, <3>1 DEF LaneStep, LaneCall, OnMap, Saving
  <2>3. CASE Goto(p, "opened") /\ UNCHANGED job
    <3>1. pc'[p] = "opened" /\ job'[p].from = None
      BY <1>1, <2>1, <2>3 DEF CallsTyped, Goto, CallOk, ProposeOk
    <3> QED
      BY <2>1, <3>1 DEF LaneStep, LaneCall, OnMap, Saving
  <2> QED
    BY <1>3, <2>2, <2>3 DEF ProposeHook
<1>4. CASE Bounce(p)
  <2>1. UNCHANGED contract /\ pc[p] = "bounce"
    BY <1>4 DEF Bounce, tables
  <2>2. CASE contract.lane = job[p].from /\ Goto(p, "opened") /\ UNCHANGED job
    <3>1. pc'[p] = "opened" /\ job'[p] = job[p]
      BY <1>1, <2>2 DEF CallsTyped, Goto
    <3> QED
      BY <1>1, <2>1, <2>2, <3>1 DEF LaneStep, LaneCall, OnMap, Saving
  <2>3. CASE Return(p)
    BY <1>2, <2>1, <2>3
  <2> QED
    BY <1>4, <2>2, <2>3 DEF Bounce
<1>5. CASE CommitPropose(p)
  <2>1. pc[p] = "opened" /\ Return(p)
    BY <1>5 DEF CommitPropose
  <2>2. CASE job[p].from = None
    BY <1>2, <1>5, <2>1, <2>2 DEF CommitPropose
  <2>3. CASE job[p].from # None
    <3>1. contract'.lane = "UNDER_REVIEW"
      BY <1>1, <1>5, <2>3 DEF CommitPropose, ContractUpTo
    <3>2. contract.lane \in {"SHARED", "AGREED"}
      BY <1>1, <2>1, <2>3 DEF LaneCall
    <3>3. OnMap
      BY <3>1, <3>2 DEF OnMap, Transitions
    <3>4. \A q \in Others(p) : ~Updated(q)
      <4>1. Updated(p)
        BY <2>1, <2>3 DEF Updated
      <4> QED
        BY <4>1 DEF IInv, Locks, LocksExclude, Others
    <3>5. pc'[p] = "idle"
      BY <1>1, <2>1 DEF Return, Goto, CallsTyped
    <3> QED
      BY <3>3, <3>4, <3>5 DEF LaneStep, LaneCall, Saving
  <2> QED
    BY <2>2, <2>3
<1> QED
  BY <1>3, <1>4, <1>5

LEMMA LaneMoved ==
  ASSUME IInv, LaneInv, NEW p \in Callers, CountOpen(p) \/ SetLane(p)
  PROVE  LaneStep(p)
<1>1. /\ CallsTyped /\ LaneCall(p) /\ contract \in ContractUpTo(Len(clause))
  BY AtWork DEF LaneInv, ContractTyped
<1>2. ASSUME Return(p), contract'.lane = contract.lane
      PROVE  LaneStep(p)
  BY <1>2, QuietStep DEF Return, Quiet, Labels, Saving
<1>3. CASE CountOpen(p)
  <2>1. UNCHANGED contract /\ pc[p] = "count"
    BY <1>3 DEF CountOpen, tables
  <2>2. CASE Goto(p, "set") /\ UNCHANGED job
    <3>1. pc'[p] = "set" /\ job'[p] = job[p]
      BY <1>1, <2>2 DEF CallsTyped, Goto
    <3> QED
      BY <1>1, <2>1, <3>1 DEF LaneStep, LaneCall, OnMap, Saving
  <2> QED
    BY <1>2, <1>3, <2>1, <2>2 DEF CountOpen
<1>4. CASE SetLane(p)
  <2>1. pc[p] = "set" /\ Return(p) /\ MayUpdateContract(p) /\ contract' = Moved(p)
    BY <1>4 DEF SetLane
  <2>2. pc'[p] = "idle"
    BY <1>1, <2>1 DEF Return, Goto, CallsTyped
  <2>3. contract'.lane # contract.lane =>
          contract'.lane = job[p].to /\ contract.lane = job[p].from
    BY <1>1, <2>1 DEF Moved, ContractUpTo
  <2>4. OnMap
    BY <1>1, <2>1, <2>3 DEF OnMap, LaneCall
  <2> QED
    BY <2>1, <2>2, <2>4 DEF LaneStep, LaneCall, Saving, MayUpdateContract
<1> QED
  BY <1>3, <1>4

LEMMA LaneSteps ==
  ASSUME Ops \cap {"accept", "share"} = {}, IInv, LaneInv, NEW p \in Callers,
         Start(p) \/ Step(p) \/ Fail(p)
  PROVE  LaneStep(p)
<1>1. pc[p] \notin Saving /\ contract \in ContractUpTo(Len(clause))
  BY AtWork DEF LaneInv, LaneCall, ContractTyped
<1>2. ASSUME Return(p), contract'.lane = contract.lane
      PROVE  LaneStep(p)
  BY <1>2, QuietStep DEF Return, Quiet, Labels, Saving
<1>3. CASE ReadBase(p) \/ InsertRedline(p) \/ CounterLock(p) \/ BuildPayload(p)
  <2>1. UNCHANGED contract
    BY <1>3 DEF ReadBase, InsertRedline, CounterLock, BuildPayload, tables
  <2>2. \E l \in {"insert", "hook", "counter", "pin"} : Goto(p, l)
    BY <1>3 DEF ReadBase, InsertRedline, CounterLock, BuildPayload
  <2> QED
    BY <2>1, <2>2, QuietStep DEF Quiet, Labels, Saving
<1>4. CASE CounterFlip(p) \/ SignLock(p)
  <2>1. UNCHANGED contract
    BY <1>4 DEF CounterFlip, SignLock, tables
  <2>2. Return(p) \/ \E l \in {"child", "payload"} : Goto(p, l)
    BY <1>4 DEF CounterFlip, SignLock
  <2> QED
    BY <1>2, <2>1, <2>2, QuietStep DEF Quiet, Labels, Saving
<1>5. CASE Decide(p) \/ CommitCounter(p) \/ SaveEdit(p) \/ Fail(p)
  BY <1>2, <1>5 DEF Decide, CommitCounter, SaveEdit, Fail, tables
<1>6. CASE CommitPin(p)
  <2>1. contract'.lane = contract.lane
    BY <1>1, <1>6 DEF CommitPin, ContractUpTo
  <2> QED
    BY <1>2, <1>6, <2>1 DEF CommitPin
<1>7. CASE Step(p)
  <2>1. ~(AcceptLock(p) \/ SnapshotRead(p) \/ SnapshotSelect(p) \/ SnapshotWrite(p))
    BY <1>1 DEF AcceptLock, SnapshotRead, SnapshotSelect, SnapshotWrite, Saving
  <2>2. ~(Promote(p) \/ CommitAccept(p))
    BY <1>1 DEF Promote, CommitAccept, Saving
  <2>3. ~(ShareSelect(p) \/ ShareWrite(p) \/ ShareHook(p) \/ ShareSet(p))
    BY <1>1 DEF ShareSelect, ShareWrite, ShareHook, ShareSet, Saving
  <2> QED
    BY <1>3, <1>4, <1>5, <1>6, <1>7, <2>1, <2>2, <2>3, LaneProposal, LaneMoved DEF Step
<1> QED
  BY <1>5, <1>7, LaneStart

LEMMA LaneNext ==
  ASSUME Ops \cap {"accept", "share"} = {}
  PROVE  IInv /\ LaneInv /\ Next => LaneInv' /\ OnMap
<1> SUFFICES ASSUME IInv, LaneInv, Next PROVE LaneInv' /\ OnMap
  OBVIOUS
<1>1. PICK p \in Callers : Start(p) \/ Step(p) \/ Fail(p)
  BY DEF Next
<1>2. LaneStep(p) /\ CallStep(p)
  BY <1>1, AllSteps, LaneSteps
<1>3. ASSUME NEW q \in Others(p)
      PROVE  LaneCall(q)'
  <2>1. pc'[q] = pc[q] /\ job'[q] = job[q] /\ LaneCall(q)
    BY <1>2 DEF CallStep, DoesMove, OthersStay, Others, LaneInv
  <2>2. pc[q] = "opened" /\ job[q].from # None => contract'.lane = contract.lane
    BY <1>2 DEF LaneStep, Updated
  <2> QED
    BY <2>1, <2>2 DEF LaneCall
<1> QED
  BY <1>2, <1>3 DEF LaneStep, LaneInv, Others

\* As long as no call saves a whole contract entity, propose(), agree() and
\* readyToSign() move the lane along NEGOTIATION_TRANSITIONS only, whatever
\* moves race: each UPDATE is keyed on the lane it leaves.
THEOREM LaneKeepsToTheMap ==
  ASSUME Ops \cap {"accept", "share"} = {}
  PROVE  Spec => LaneFollowsMap
<1>1. Init => LaneInv
  BY DEF Init, LaneInv, LaneCall, Saving
<1>2. IInv /\ LaneInv /\ UNCHANGED vars => LaneInv'
  BY DEF LaneInv, LaneCall, vars, tables
<1>3. IInv /\ LaneInv /\ [Next]_vars => LaneInv' /\ [OnMap]_vars
  BY <1>2, LaneNext
<1>4. Spec => [][OnMap]_vars
  BY <1>1, <1>3, Invariance, PTL DEF Spec
<1> QED
  BY <1>4 DEF LaneFollowsMap, OnMap

-----------------------------------------------------------------------------
(* The pin: what can take it away.                                         *)

\* Whoever holds the contract for its pin has found it without one, and nobody
\* else can have written it since.
PinAwaited == \A p \in Callers : ForUpdate(p) => ~Pinned

\* The statements that write a whole contract entity.
SavesEntity(p) == CommitAccept(p) \/ SnapshotWrite(p) \/ ShareWrite(p)

Repinned == contract'.pin # contract.pin

\* A step of p as the pin sees it.
PinStep(p) ==
  /\ ForUpdate(p)' => ~Pinned'
  /\ Repinned => \A q \in Others(p) : ~ForUpdate(q)
  /\ Pinned /\ Repinned => SavesEntity(p)

LEMMA PinKept ==
  ASSUME NEW p \in Callers, PinAwaited, contract'.pin = contract.pin,
         ForUpdate(p)' => ForUpdate(p) \/ ~Pinned
  PROVE  PinStep(p)
BY DEF PinStep, PinAwaited, Pinned, Repinned

\* A statement that leaves the contract alone and does not take it FOR UPDATE.
LEMMA PinUntouched ==
  ASSUME IInv, PinAwaited, NEW p \in Callers, UNCHANGED contract,
         Start(p) \/ Step(p) \/ Fail(p)
  PROVE  PinStep(p)
<1>1. CallsTyped
  BY AtWork
<1>2. ASSUME NEW l, Goto(p, l), l \notin {"payload", "pin"} PROVE ~ForUpdate(p)'
  BY <1>1, <1>2 DEF Goto, CallsTyped, ForUpdate
<1>3. ASSUME Return(p) PROVE ~ForUpdate(p)'
  BY <1>2, <1>3 DEF Return
<1>4. CASE SignLock(p) \/ BuildPayload(p)
  <2>1. ForUpdate(p)' => ForUpdate(p) \/ ~Pinned
    BY <1>3, <1>4 DEF SignLock, BuildPayload, ForUpdate
  <2> QED
    BY <2>1, PinKept
<1>5. CASE Start(p)
  <2>1. ASSUME NEW l \in {"base", "lock", "decide", "counterLock", "edit", "count", "set",
                         "shareSelect", "signLock"}, Goto(p, l)
        PROVE  PinStep(p)
    BY <1>2, <2>1, PinKept
  <2>2. CASE Agree(p) \/ ReadyToSign(p) \/ Share(p) \/ MarkAsSigned(p)
    BY <2>1, <2>2 DEF Agree, ReadyToSign, Share, MarkAsSigned, Begin
  <2> QED
    BY <1>5, <2>1, <2>2 DEF Start, Propose, Accept, Reject, Withdraw, Counter, EditClause, Begin
<1>6. CASE Fail(p)
  BY <1>3, <1>6, PinKept DEF Fail
<1>7. CASE Step(p) /\ ~SignLock(p) /\ ~BuildPayload(p)
  <2>1. Return(p) \/ \E l : Goto(p, l) /\ l \notin {"payload", "pin"}
    BY <1>7 DEF Step, ReadBase, InsertRedline, ProposeHook, Bounce, CommitPropose, AcceptLock,
      SnapshotRead, SnapshotSelect, SnapshotWrite, Promote, CommitAccept, Decide, CounterLock,
      CounterFlip, CommitCounter, CountOpen, SetLane, ShareSelect, ShareWrite, ShareHook,
      ShareSet, CommitPin, SaveEdit
  <2> QED
    BY <1>2, <1>3, <2>1, PinKept
<1> QED
  BY <1>4, <1>5, <1>6, <1>7

\* The row lock of the pin keeps the others' writes away.
LEMMA PinUnder ==
  ASSUME IInv, PinAwaited, NEW p \in Callers, Step(p), contract' # contract
  PROVE  PinStep(p)
<1>1. CallsTyped /\ contract \in ContractUpTo(Len(clause))
  BY AtWork DEF ContractTyped
<1>2. ASSUME NEW l, Goto(p, l), l \notin {"payload", "pin"} PROVE ~ForUpdate(p)'
  BY <1>1, <1>2 DEF Goto, CallsTyped, ForUpdate
<1>3. CASE CommitPropose(p) \/ SetLane(p) \/ ShareSet(p)
  <2>1. contract'.pin = contract.pin
    BY <1>1, <1>3 DEF CommitPropose, SetLane, ShareSet, Moved, ContractUpTo
  <2>2. ~ForUpdate(p)'
    BY <1>2, <1>3 DEF CommitPropose, SetLane, ShareSet, Return
  <2> QED
    BY <2>1, <2>2, PinKept
<1>4. CASE CommitPin(p)
  <2>1. ForUpdate(p) /\ ~ForUpdate(p)'
    BY <1>2, <1>4 DEF CommitPin, Return, ForUpdate
  <2>2. ~Pinned /\ \A q \in Others(p) : ~ForUpdate(q)
    BY <2>1 DEF PinAwaited, IInv, Locks, LocksExclude, Others
  <2> QED
    BY <2>1, <2>2 DEF PinStep
<1>5. CASE CommitAccept(p)
  <2>1. KeyShare(p) /\ ~ForUpdate(p)'
    BY <1>2, <1>5 DEF CommitAccept, Return, KeyShare
  <2>2. \A q \in Others(p) : ~ForUpdate(q)
    BY <2>1 DEF IInv, Locks, LocksExclude, Others
  <2> QED
    BY <1>5, <2>1, <2>2 DEF PinStep, SavesEntity
<1>6. CASE SnapshotWrite(p) \/ ShareWrite(p)
  <2>1. contract' = Saved(p) /\ (job[p].columns # {} => MayUpdateContract(p))
    BY <1>6 DEF SnapshotWrite, ShareWrite, tables
  <2>2. ~ForUpdate(p)'
    BY <1>2, <1>6 DEF SnapshotWrite, ShareWrite, Return
  <2>3. job[p].columns # {}
    BY <1>1, <2>1 DEF Saved, ContractUpTo
  <2> QED
    BY <1>6, <2>1, <2>2, <2>3 DEF PinStep, SavesEntity, MayUpdateContract
<1> QED
  BY <1>3, <1>4, <1>5, <1>6 DEF Step, ReadBase, InsertRedline, ProposeHook, Bounce,
    AcceptLock, SnapshotRead, SnapshotSelect, Promote, Decide, CounterLock, CounterFlip,
    CommitCounter, CountOpen, ShareSelect, ShareHook, SignLock, BuildPayload, SaveEdit, tables

LEMMA PinSteps ==
  ASSUME IInv, PinAwaited, NEW p \in Callers, Start(p) \/ Step(p) \/ Fail(p)
  PROVE  PinStep(p)
<1>1. CASE contract' = contract
  BY <1>1, PinUntouched
<1>2. CASE contract' # contract
  <2>1. Step(p)
    BY <1>2 DEF Start, Propose, Accept, Reject, Withdraw, Counter, EditClause, Agree,
      ReadyToSign, Share, MarkAsSigned, Begin, Fail, tables
  <2> QED
    BY <1>2, <2>1, PinUnder
<1> QED
  BY <1>1, <1>2

LEMMA PinNext ==
  IInv /\ PinAwaited /\ [Next]_vars =>
    PinAwaited' /\ (Pinned /\ Repinned => \E p \in Callers : SavesEntity(p))
<1> SUFFICES ASSUME IInv, PinAwaited, [Next]_vars
             PROVE  PinAwaited' /\ (Pinned /\ Repinned => \E p \in Callers : SavesEntity(p))
  OBVIOUS
<1>1. CASE UNCHANGED vars
  BY <1>1 DEF vars, tables, PinAwaited, Pinned, Repinned, ForUpdate
<1>2. CASE Next
  <2>1. PICK p \in Callers : Start(p) \/ Step(p) \/ Fail(p)
    BY <1>2 DEF Next
  <2>2. PinStep(p) /\ CallStep(p)
    BY <2>1, PinSteps, AllSteps
  <2>3. ASSUME NEW q \in Others(p), ForUpdate(q)' PROVE ~Pinned'
    <3>1. ForUpdate(q) /\ q \in Callers
      BY <2>2, <2>3 DEF CallStep, DoesMove, OthersStay, ForUpdate, Others
    <3> QED
      BY <2>2, <3>1 DEF PinStep, Repinned, PinAwaited, Pinned
  <2> QED
    BY <2>2, <2>3 DEF PinStep, PinAwaited, Others
<1> QED
  BY <1>1, <1>2

\* Whatever calls race, a pin that was set is changed by one kind of statement
\* only: the save of a whole contract entity, in accept() and in the share
\* branch of updateStatus().  No lane move, redline or second signature does,
\* for pinExecutedContract looks at the pin under FOR UPDATE.
THEOREM OnlySavesUnpin ==
  Spec => [][Pinned /\ contract'.pin # contract.pin => \E p \in Callers : SavesEntity(p)]_vars
<1>1. Init => PinAwaited
  BY DEF Init, PinAwaited, ForUpdate
<1>2. IInv /\ PinAwaited /\ [Next]_vars =>
        /\ PinAwaited'
        /\ [Pinned /\ contract'.pin # contract.pin => \E p \in Callers : SavesEntity(p)]_vars
  BY PinNext DEF Repinned
<1> QED
  BY <1>1, <1>2, Invariance, PTL DEF Spec

\* Where no call saves a whole contract entity the pin is permanent, as the
\* comment of the entity says, whoever signs, proposes, decides or moves the
\* lane meanwhile.
THEOREM PinStands ==
  ASSUME Ops \cap {"accept", "share"} = {}
  PROVE  Spec => PinIsPermanent
<1>1. Init => LaneInv
  BY DEF Init, LaneInv, LaneCall, Saving
<1>2. IInv /\ LaneInv /\ [Next]_vars => LaneInv'
  <2>1. IInv /\ LaneInv /\ UNCHANGED vars => LaneInv'
    BY DEF LaneInv, LaneCall, vars, tables
  <2> QED
    BY <2>1, LaneNext
<1>3. ASSUME LaneInv, NEW p \in Callers PROVE ~SavesEntity(p)
  BY <1>3 DEF LaneInv, LaneCall, Saving, SavesEntity, CommitAccept, SnapshotWrite, ShareWrite
<1>4. LaneInv /\ [Pinned /\ contract'.pin # contract.pin =>
                    \E p \in Callers : SavesEntity(p)]_vars
        => [Pinned => contract'.pin = contract.pin]_vars
  BY <1>3
<1> QED
  BY <1>1, <1>2, <1>4, Invariance, OnlySavesUnpin, PTL DEF Spec, PinIsPermanent

-----------------------------------------------------------------------------
(* A signed contract whose races are over.                                 *)

\* What a step of p keeps of a settled contract.
KeepsSettled(p) ==
  /\ contract'.pin = contract.pin /\ contract'.status = contract.status
  /\ UNCHANGED <<clause, junction>>
  /\ pc'[p] \notin UnderWay

LEMMA SettledStart ==
  ASSUME IInv, Settled, NEW p \in Callers, Start(p)
  PROVE  KeepsSettled(p)
<1>1. CallsTyped
  BY AtWork
<1>2. ASSUME NEW l \in {"base", "decide", "counterLock", "count", "set", "signLock"},
             NEW op, NEW j, Begin(p, op, l, j)
      PROVE  KeepsSettled(p)
  BY <1>1, <1>2 DEF Begin, Goto, CallsTyped, KeepsSettled, UnderWay, tables
<1>3. ~Share(p)
  BY DEF Settled, Share
<1>4. ASSUME NEW r, NEW b PROVE ~Accept(p, r, b) /\ ~EditClause(p, r, b)
  BY DEF Settled, Accept, EditClause
<1> QED
  BY <1>2, <1>3, <1>4 DEF Start, Propose, Reject, Withdraw, Counter, Agree, ReadyToSign,
    MarkAsSigned

LEMMA SettledStep ==
  ASSUME IInv, PinAwaited, Settled, NEW p \in Callers, Step(p) \/ Fail(p)
  PROVE  KeepsSettled(p)
<1>1. /\ CallsTyped /\ contract \in ContractUpTo(Len(clause))
      /\ pc[p] \notin UnderWay \cup {"payload", "pin"}
  BY AtWork DEF ContractTyped, Settled, PinAwaited, ForUpdate
<1>2. ASSUME NEW l, Goto(p, l), l \notin UnderWay PROVE pc'[p] \notin UnderWay
  BY <1>1, <1>2 DEF Goto, CallsTyped
<1>3. ASSUME Return(p) PROVE pc'[p] \notin UnderWay
  BY <1>2, <1>3 DEF Return, UnderWay
<1>4. CASE \/ ReadBase(p) \/ InsertRedline(p) \/ ProposeHook(p) \/ Bounce(p)
           \/ CounterLock(p) \/ CounterFlip(p) \/ CountOpen(p) \/ SignLock(p)
  <2>1. UNCHANGED tables
    BY <1>4 DEF ReadBase, InsertRedline, ProposeHook, Bounce, CounterLock, CounterFlip,
      CountOpen, SignLock
  <2>2. Return(p) \/ \E l : Goto(p, l) /\ l \notin UnderWay
    BY <1>4 DEF ReadBase, InsertRedline, ProposeHook, Bounce, CounterLock, CounterFlip,
      CountOpen, SignLock, UnderWay
  <2> QED
    BY <1>2, <1>3, <2>1, <2>2 DEF KeepsSettled, tables
<1>5. CASE CommitPropose(p) \/ Decide(p) \/ CommitCounter(p) \/ SetLane(p) \/ Fail(p)
  <2>1. Return(p) /\ UNCHANGED <<clause, junction>>
    BY <1>5 DEF CommitPropose, Decide, CommitCounter, SetLane, Fail, tables
  <2>2. contract'.pin = contract.pin /\ contract'.status = contract.status
    BY <1>1, <1>5 DEF CommitPropose, Decide, CommitCounter, SetLane, Moved, Fail, tables,
      ContractUpTo
  <2> QED
    BY <1>3, <2>1, <2>2 DEF KeepsSettled
<1>6. /\ ~AcceptLock(p) /\ ~SnapshotRead(p) /\ ~SnapshotSelect(p) /\ ~SnapshotWrite(p)
      /\ ~Promote(p) /\ ~CommitAccept(p) /\ ~SaveEdit(p)
      /\ ~BuildPayload(p) /\ ~CommitPin(p)
  BY <1>1 DEF AcceptLock, SnapshotRead, SnapshotSelect, SnapshotWrite, Promote, CommitAccept,
    SaveEdit, BuildPayload, CommitPin, UnderWay
<1>7. ~ShareSelect(p) /\ ~ShareWrite(p) /\ ~ShareHook(p) /\ ~ShareSet(p)
  BY <1>1 DEF ShareSelect, ShareWrite, ShareHook, ShareSet, UnderWay
<1> QED
  BY <1>4, <1>5, <1>6, <1>7 DEF Step

\* Once the calls that were under way when a contract was signed have ended,
\* no call changes its pin or its live text: accept(), update() and the share
\* check the signature when they begin, and pinExecutedContract pins once.
THEOREM SettlesWithItsRaces == Spec => SignedStaysSettled
<1> DEFINE Stays == Settled => /\ Settled' /\ contract'.pin = contract.pin
                               /\ \A c \in Clauses : LiveBody(c)' = LiveBody(c)
<1>1. IInv /\ PinAwaited /\ Next => Stays
  <2> SUFFICES ASSUME IInv, PinAwaited, Next, Settled PROVE Stays
    OBVIOUS
  <2>1. PICK p \in Callers : Start(p) \/ Step(p) \/ Fail(p)
    BY DEF Next
  <2>2. KeepsSettled(p) /\ CallStep(p)
    BY <2>1, SettledStart, SettledStep, AllSteps
  <2>3. \A q \in Others(p) : pc'[q] = pc[q]
    BY <2>2 DEF CallStep, DoesMove, OthersStay
  <2>4. Settled'
    BY <2>2, <2>3 DEF KeepsSettled, Settled, Pinned, Others
  <2>5. \A c \in Clauses : LiveBody(c)' = LiveBody(c)
    BY <2>2 DEF KeepsSettled, LiveBody
  <2> QED
    BY <2>2, <2>4, <2>5 DEF KeepsSettled
<1>2. Init => PinAwaited
  BY DEF Init, PinAwaited, ForUpdate
<1>3. IInv /\ PinAwaited /\ [Next]_vars => PinAwaited' /\ [Stays]_vars
  BY <1>1, PinNext
<1>4. Spec => [][Stays]_vars
  BY <1>2, <1>3, Invariance, PTL DEF Spec
<1> QED
  BY <1>4 DEF SignedStaysSettled

=============================================================================
