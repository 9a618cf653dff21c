--------------------------- MODULE MeteringProofs ---------------------------
(***************************************************************************)
(* Theorems about Metering, for every number of callers, sweepers, keys    *)
(* and windows, every set of amounts and every history of limits.          *)
(***************************************************************************)
EXTENDS Metering, FiniteSetTheorems, TLAPS

-----------------------------------------------------------------------------
(* The sum of a ledger.                                                    *)

\* A row takes as many units as its amount says.
LEMMA UnitsCardinality ==
  ASSUME NEW e, NEW k, e[k].amount \in Nat
  PROVE  /\ IsFiniteSet(Units(e, k))
         /\ Cardinality(Units(e, k)) = e[k].amount
<1>1. IsFiniteSet({k}) /\ Cardinality({k}) = 1
  BY FS_Singleton
<1>2. \A n \in Nat : IsFiniteSet(1 .. n) /\ Cardinality(1 .. n) = n
  <2>1. TAKE n \in Nat
  <2>2. 1 \in Int /\ n \in Int
    OBVIOUS
  <2>3. IsFiniteSet(1 .. n) /\ Cardinality(1 .. n) = IF 1 > n THEN 0 ELSE n - 1 + 1
    BY <2>2, FS_Interval
  <2> QED
    BY <2>3
<1>3. /\ IsFiniteSet({k} \X (1 .. e[k].amount))
      /\ Cardinality({k} \X (1 .. e[k].amount)) = 1 * e[k].amount
  <2>1. /\ IsFiniteSet(1 .. e[k].amount)
        /\ Cardinality(1 .. e[k].amount) = e[k].amount
    BY <1>2
  <2> QED
    BY <1>1, <2>1, FS_Product
<1> QED
  BY <1>3 DEF Units

\* A new reserved row adds its amount to the sum of its window and leaves the
\* other windows alone (CommitGrant).
LEMMA NewRowAdds ==
  ASSUME NEW e, NEW k, k \notin DOMAIN e,
         NEW row, row.amount \in Nat, row.status = "reserved",
         NEW w, IsFiniteSet(UsedUnits(e, w))
  PROVE  /\ IsFiniteSet(UsedUnits(WithRow(e, k, row), w))
         /\ Used(WithRow(e, k, row), w) =
              IF row.window = w THEN Used(e, w) + row.amount ELSE Used(e, w)
<1> DEFINE f == WithRow(e, k, row)
<1>1. /\ DOMAIN f = DOMAIN e \cup {k}
      /\ f[k] = row
      /\ \A j \in DOMAIN e : f[j] = e[j]
  BY DEF WithRow
<1> HIDE DEF f
<1>2. \A j \in DOMAIN e : Units(f, j) = Units(e, j)
  BY <1>1 DEF Units
<1>3. CASE row.window # w
  <2>1. Live(f, w) = Live(e, w)
    BY <1>1, <1>3 DEF Live
  <2>2. UsedUnits(f, w) = UsedUnits(e, w)
    BY <1>2, <2>1 DEF UsedUnits, Live
  <2> QED
    BY <2>2, <1>3 DEF Used, f
<1>4. CASE row.window = w
  <2>1. Live(f, w) = Live(e, w) \cup {k}
    BY <1>1, <1>4 DEF Live
  <2>2. UsedUnits(f, w) = UsedUnits(e, w) \cup Units(f, k)
    BY <1>2, <2>1 DEF UsedUnits, Live
  <2>3. IsFiniteSet(Units(f, k)) /\ Cardinality(Units(f, k)) = row.amount
    BY <1>1, UnitsCardinality
  <2>4. UsedUnits(e, w) \cap Units(f, k) = {}
    BY DEF UsedUnits, Units, Live
  <2>5. /\ IsFiniteSet(UsedUnits(f, w))
        /\ Cardinality(UsedUnits(f, w)) =
             Cardinality(UsedUnits(e, w)) + row.amount - Cardinality({})
    BY <2>2, <2>3, <2>4, FS_Union
  <2>6. Cardinality({}) = 0 /\ Cardinality(UsedUnits(e, w)) \in Nat
    BY FS_EmptySet, FS_CardinalityType
  <2> QED
    BY <2>5, <2>6, <1>4 DEF Used, f
<1> QED
  BY <1>3, <1>4

\* Committing a reserved row changes no sum.
LEMMA CommittedRowKeeps ==
  ASSUME NEW e, e \in [DOMAIN e -> Row], NEW k \in DOMAIN e,
         e[k].status = "reserved", NEW w
  PROVE  UsedUnits([e EXCEPT ![k].status = "committed"], w) = UsedUnits(e, w)
<1> DEFINE f == [e EXCEPT ![k].status = "committed"]
<1>1. /\ DOMAIN f = DOMAIN e
      /\ f[k].status = "committed" /\ f[k].window = e[k].window
      /\ f[k].amount = e[k].amount
      /\ \A j \in DOMAIN e \ {k} : f[j] = e[j]
  BY DEF Row
<1> HIDE DEF f
<1>2. \A j \in DOMAIN e : Units(f, j) = Units(e, j)
  BY <1>1 DEF Units
<1>3. Live(f, w) = Live(e, w)
  BY <1>1 DEF Live
<1>4. UsedUnits(f, w) = UsedUnits(e, w)
  BY <1>2, <1>3 DEF UsedUnits, Live
<1> QED
  BY <1>4 DEF f

\* The amount of a reserved row is part of the sum of its window; releasing the
\* row takes it out again and leaves the other windows alone (CommitRefund).
LEMMA ReleasedRowSubtracts ==
  ASSUME NEW e, e \in [DOMAIN e -> Row], NEW k \in DOMAIN e,
         e[k].status = "reserved", NEW w, IsFiniteSet(UsedUnits(e, w))
  PROVE  LET f == [e EXCEPT ![k].status = "released"]
         IN  /\ IsFiniteSet(UsedUnits(f, w))
             /\ e[k].window = w => e[k].amount <= Used(e, w)
             /\ Used(f, w) = IF e[k].window = w THEN Used(e, w) - e[k].amount
                                                ELSE Used(e, w)
<1> DEFINE f == [e EXCEPT ![k].status = "released"]
<1>1. /\ DOMAIN f = DOMAIN e
      /\ f[k].status = "released"
      /\ \A j \in DOMAIN e \ {k} : f[j] = e[j]
      /\ e[k].amount \in Nat
  BY AmountsAssumption DEF Row
<1> HIDE DEF f
<1>2. \A j \in DOMAIN e \ {k} : Units(f, j) = Units(e, j)
  BY <1>1 DEF Units
<1>3. Live(f, w) = Live(e, w) \ {k}
  BY <1>1 DEF Live
<1>4. CASE e[k].window # w
  <2>1. k \notin Live(e, w)
    BY <1>4 DEF Live
  <2>2. UsedUnits(f, w) = UsedUnits(e, w)
    BY <1>2, <1>3, <2>1 DEF UsedUnits, Live
  <2> QED
    BY <2>2, <1>4 DEF Used, f
<1>5. CASE e[k].window = w
  <2>1. k \in Live(e, w)
    BY <1>5 DEF Live
  <2>2. \A j \in DOMAIN e \ {k} : Units(e, j) \cap Units(e, k) = {}
    BY DEF Units
  <2>3. UsedUnits(f, w) = UsedUnits(e, w) \ Units(e, k)
    BY <1>2, <1>3, <2>2 DEF UsedUnits, Live
  <2>4. UsedUnits(e, w) \cap Units(e, k) = Units(e, k)
    BY <2>1 DEF UsedUnits
  <2>5. IsFiniteSet(Units(e, k)) /\ Cardinality(Units(e, k)) = e[k].amount
    BY <1>1, UnitsCardinality
  <2>6. /\ IsFiniteSet(UsedUnits(f, w))
        /\ Cardinality(UsedUnits(f, w)) =
             Cardinality(UsedUnits(e, w)) - e[k].amount
    <3>1. /\ IsFiniteSet(UsedUnits(e, w) \ Units(e, k))
          /\ Cardinality(UsedUnits(e, w) \ Units(e, k)) =
               Cardinality(UsedUnits(e, w)) - Cardinality(UsedUnits(e, w) \cap Units(e, k))
      BY FS_Difference
    <3> QED
      BY <3>1, <2>3, <2>4, <2>5
  <2>7. Units(e, k) \in SUBSET UsedUnits(e, w)
    BY <2>4
  <2>8. e[k].amount <= Cardinality(UsedUnits(e, w))
    BY <2>5, <2>7, FS_Subset
  <2> QED
    BY <2>6, <2>8, <1>5 DEF Used, f
<1> QED
  BY <1>4, <1>5 DEF f

-----------------------------------------------------------------------------
(* The invariant holds initially.                                          *)

LEMMA EffectiveLimitType ==
  ASSUME NEW o \in Limits \cup {Unset}, NEW pl \in Limits \cup {Unset}
  PROVE  EffectiveLimit(o, pl) \in Nat
BY LimitsAssumption DEF EffectiveLimit

LEMMA NoArgType ==
  NoArg \in [key : Keys \cup {NoOpKey}, window : Windows,
             amount : Amounts \cup {0}, limit : Nat]
BY WindowsAssumption DEF NoArg

LEMMA InitIInv == Init => IInv
<1> SUFFICES ASSUME Init PROVE IInv
  OBVIOUS
<1> USE DEF Init
<1>1. DOMAIN ledger = {}
  OBVIOUS
<1>2. TypeOK
  <2>1. DOMAIN ledger \subseteq Keys /\ ledger \in [DOMAIN ledger -> Row]
    BY <1>1
  <2>2. arg \in [Procs -> [key : Keys \cup {NoOpKey}, window : Windows,
                           amount : Amounts \cup {0}, limit : Nat]]
    BY NoArgType
  <2> QED
    BY <2>1, <2>2, LimitsAssumption, SwitchesAssumption
    DEF TypeOK, Labels, Answers
<1>3. LocksExclusive
  BY DEF LocksExclusive, HoldsLedger, HoldsBalance
<1>4. \A p \in Procs : ReserveConsistent(p) /\ SettleConsistent(p)
  BY DEF ReserveConsistent, SettleConsistent
<1>5. BatchLapsed /\ RowsBacked
  BY <1>1 DEF BatchLapsed, RowsBacked
<1>6. CeilingIsHighest
  BY LimitsAssumption DEF CeilingIsHighest, EffectiveLimit
<1>7. \A w \in Windows : UsedUnits(ledger, w) = {}
  BY <1>1 DEF UsedUnits, Live
<1>8. /\ \A w \in Windows : IsFiniteSet(UsedUnits(ledger, w))
      /\ BalanceMatchesLedger
  BY <1>7, FS_EmptySet DEF BalanceMatchesLedger, Used
<1> QED
  BY <1>2, <1>3, <1>4, <1>5, <1>6, <1>8 DEF IInv

-----------------------------------------------------------------------------
(* Steps that leave the tables alone.                                      *)

\* Nothing but the call of p moves.
SameOthers(p) ==
  \A q \in Procs \ {p} : /\ pc'[q] = pc[q]
                         /\ arg'[q] = arg[q]
                         /\ q \in inserter' <=> q \in inserter

\* p locks a row only when no other transaction holds it.
LocksWhenFree(p) ==
  /\ \A k \in Keys : HoldsLedger(p, k)' =>
       HoldsLedger(p, k) \/ \A q \in Procs \ {p} : ~HoldsLedger(q, k)
  /\ \A w \in Windows : HoldsBalance(p, w)' =>
       HoldsBalance(p, w) \/ \A q \in Procs \ {p} : ~HoldsBalance(q, w)

LEMMA LocksStep ==
  ASSUME LocksExclusive, NEW p \in Procs, SameOthers(p), LocksWhenFree(p)
  PROVE  LocksExclusive'
BY DEF LocksExclusive, SameOthers, LocksWhenFree, HoldsLedger, HoldsBalance

\* A step of one call that changes neither the tables nor the limits keeps the
\* invariant if what that call knows and holds is right.
LEMMA QuietStep ==
  ASSUME IInv, NEW p \in Procs,
         UNCHANGED <<tables, lapsed, allowances>>,
         TypeOK', BatchLapsed', SameOthers(p), LocksWhenFree(p),
         ReserveConsistent(p)', SettleConsistent(p)'
  PROVE  IInv'
<1>1. LocksExclusive'
  BY LocksStep DEF IInv
<1>2. \A q \in Procs : ReserveConsistent(q)' /\ SettleConsistent(q)'
  <2>1. ASSUME NEW q \in Procs \ {p}
        PROVE  ReserveConsistent(q)' /\ SettleConsistent(q)'
    <3>1. ReserveConsistent(q)'
      BY <2>1 DEF IInv, ReserveConsistent, SameOthers, Exists, Fits, tables, allowances
    <3>2. SettleConsistent(q)'
      BY <2>1 DEF IInv, SettleConsistent, SameOthers, Exists, Reserved, Lapsed, tables
    <3> QED
      BY <3>1, <3>2
  <2> QED
    BY <2>1
<1>3. RowsBacked' /\ CeilingIsHighest'
  BY DEF IInv, RowsBacked, CeilingIsHighest, tables, allowances
<1>4. \A w \in Windows : IsFiniteSet(UsedUnits(ledger', w))
  BY DEF IInv, tables
<1>5. BalanceMatchesLedger'
  BY DEF IInv, BalanceMatchesLedger, tables
<1> QED
  BY <1>1, <1>2, <1>3, <1>4, <1>5 DEF IInv

\* A call that ends without having touched the tables (a lost INSERT, a denied
\* reserve, a lost UPDATE, a rollback) keeps the invariant.
LEMMA ReturnStep ==
  ASSUME IInv, NEW p \in Procs, NEW r \in Answers, Return(p, r), faults' \in Nat,
         UNCHANGED <<tables, lapsed, allowances, batch>>
  PROVE  IInv'
<1> USE DEF Return, Goto
<1>1. pc'[p] = "idle"
  BY DEF IInv, TypeOK
<1>2. TypeOK'
  BY NoArgType DEF IInv, TypeOK, Labels, tables, allowances
<1>3. SameOthers(p)
  BY DEF IInv, TypeOK, SameOthers
<1>4. LocksWhenFree(p)
  BY <1>1 DEF LocksWhenFree, HoldsLedger, HoldsBalance
<1>5. ReserveConsistent(p)' /\ SettleConsistent(p)'
  BY <1>1 DEF ReserveConsistent, SettleConsistent
<1>6. BatchLapsed'
  BY DEF IInv, BatchLapsed, Exists, Lapsed, tables
<1> QED
  BY <1>2, <1>3, <1>4, <1>5, <1>6, QuietStep

LEMMA LookupStep ==
  ASSUME IInv, NEW p \in Procs, Lookup(p)
  PROVE  IInv'
<1>1. faults' \in Nat
  BY DEF Lookup, IInv, TypeOK
<1> QED
  BY <1>1, ReturnStep DEF Lookup, Answers

LEMMA DenyStep ==
  ASSUME IInv, NEW p \in Procs, Deny(p)
  PROVE  IInv'
<1>1. faults' \in Nat
  BY DEF Deny, IInv, TypeOK
<1> QED
  BY <1>1, ReturnStep DEF Deny, Answers

LEMMA ReportStep ==
  ASSUME IInv, NEW p \in Procs, Report(p)
  PROVE  IInv'
<1>1. faults' \in Nat
  BY DEF Report, IInv, TypeOK
<1>2. Exists(arg[p].key) => ledger[arg[p].key].status \in Answers
  BY DEF Exists, IInv, TypeOK, Row, Answers
<1> QED
  BY <1>1, <1>2, ReturnStep DEF Report, Answers

LEMMA FailStep ==
  ASSUME IInv, NEW p \in Procs, Fail(p)
  PROVE  IInv'
<1>1. faults' \in Nat
  BY DEF Fail, IInv, TypeOK
<1> QED
  BY <1>1, ReturnStep DEF Fail, Answers

\* Steps within a transaction that write nothing the tables show yet: the
\* lock they take is free, and they learn what their successor relies on.
LEMMA ClaimStep ==
  ASSUME IInv, NEW p \in Procs, Claim(p)
  PROVE  IInv'
<1> USE DEF Claim, Goto
<1>1. pc'[p] = IF Exists(arg[p].key) THEN "lookup" ELSE "ensure"
  BY DEF IInv, TypeOK
<1>2. TypeOK'
  BY DEF IInv, TypeOK, Labels, tables, allowances
<1>3. SameOthers(p)
  BY DEF IInv, TypeOK, SameOthers
<1>4. LocksWhenFree(p)
  BY <1>1 DEF LocksWhenFree, HoldsLedger, HoldsBalance, LedgerFree
<1>5. ReserveConsistent(p)' /\ SettleConsistent(p)'
  BY <1>1 DEF IInv, ReserveConsistent, SettleConsistent, Exists, tables, allowances
<1>6. BatchLapsed'
  BY DEF IInv, BatchLapsed, Exists, Lapsed, tables
<1> QED
  BY <1>2, <1>3, <1>4, <1>5, <1>6, QuietStep

LEMMA EnsureBalanceStep ==
  ASSUME IInv, NEW p \in Procs, EnsureBalance(p)
  PROVE  IInv'
<1> USE DEF EnsureBalance, Goto
<1>1. pc'[p] = "gate"
  BY DEF IInv, TypeOK
<1>2. TypeOK'
  BY DEF IInv, TypeOK, Labels, tables, allowances
<1>3. SameOthers(p)
  BY DEF IInv, TypeOK, SameOthers
<1>4. LocksWhenFree(p)
  BY <1>1 DEF LocksWhenFree, HoldsLedger, HoldsBalance, BalanceFree
<1>5. ReserveConsistent(p)' /\ SettleConsistent(p)'
  BY <1>1 DEF IInv, ReserveConsistent, SettleConsistent, Exists, tables, allowances
<1>6. BatchLapsed'
  BY DEF IInv, BatchLapsed, Exists, Lapsed, tables
<1> QED
  BY <1>2, <1>3, <1>4, <1>5, <1>6, QuietStep

LEMMA GateStep ==
  ASSUME IInv, NEW p \in Procs, Gate(p)
  PROVE  IInv'
<1> USE DEF Gate, Goto
<1>1. pc'[p] = "grant"
  BY DEF IInv, TypeOK
<1>2. TypeOK'
  BY DEF IInv, TypeOK, Labels, tables, allowances
<1>3. SameOthers(p)
  BY DEF IInv, TypeOK, SameOthers
<1>4. LocksWhenFree(p)
  BY <1>1 DEF LocksWhenFree, HoldsLedger, HoldsBalance, BalanceFree
<1>5. ReserveConsistent(p)' /\ SettleConsistent(p)'
  BY <1>1 DEF IInv, ReserveConsistent, SettleConsistent, Fits, Exists, tables, allowances
<1>6. BatchLapsed'
  BY DEF IInv, BatchLapsed, Exists, Lapsed, tables
<1> QED
  BY <1>2, <1>3, <1>4, <1>5, <1>6, QuietStep

LEMMA FlipCommittedStep ==
  ASSUME IInv, NEW p \in Procs, FlipCommitted(p)
  PROVE  IInv'
<1> USE DEF FlipCommitted, Goto
<1>1. pc'[p] = "settle"
  BY DEF IInv, TypeOK
<1>2. TypeOK'
  BY DEF IInv, TypeOK, Labels, tables, allowances
<1>3. SameOthers(p)
  BY DEF IInv, TypeOK, SameOthers
<1>4. LocksWhenFree(p)
  BY <1>1 DEF LocksWhenFree, HoldsLedger, HoldsBalance, LedgerFree
<1>5. ReserveConsistent(p)' /\ SettleConsistent(p)'
  BY <1>1 DEF ReserveConsistent, SettleConsistent, Matches, Reserved, Exists, tables
<1>6. BatchLapsed'
  BY DEF IInv, BatchLapsed, Exists, Lapsed, tables
<1> QED
  BY <1>2, <1>3, <1>4, <1>5, <1>6, QuietStep

LEMMA FlipReleasedStep ==
  ASSUME IInv, NEW p \in Procs, FlipReleased(p)
  PROVE  IInv'
<1> USE DEF FlipReleased, Goto
<1>1. /\ pc'[p] = "refund"
      /\ arg'[p].key = arg[p].key
      /\ arg'[p].window = ledger[arg[p].key].window
      /\ arg'[p].amount = ledger[arg[p].key].amount
  BY DEF IInv, TypeOK
<1>2. ledger[arg[p].key] \in Row
  BY DEF IInv, TypeOK, Matches, Reserved, Exists
<1> DEFINE Args == [key : Keys \cup {NoOpKey}, window : Windows,
                    amount : Amounts \cup {0}, limit : Nat]
           new  == [arg[p] EXCEPT !.window = ledger[arg[p].key].window,
                                  !.amount = ledger[arg[p].key].amount]
<1>3. arg' \in [Procs -> Args]
  <2>1. arg \in [Procs -> Args]
    BY DEF IInv, TypeOK
  <2>2. ledger[arg[p].key].window \in Windows /\ ledger[arg[p].key].amount \in Amounts
    BY <1>2 DEF Row
  <2>3. new \in Args
    BY <2>1, <2>2
  <2>4. arg' = [arg EXCEPT ![p] = new]
    BY <2>1
  <2> QED
    BY <2>1, <2>3, <2>4
<1>4. TypeOK'
  BY <1>3 DEF IInv, TypeOK, Labels, tables, allowances
<1>5. SameOthers(p)
  BY DEF IInv, TypeOK, SameOthers
<1>6. LocksWhenFree(p)
  BY <1>1 DEF LocksWhenFree, HoldsLedger, HoldsBalance, LedgerFree
<1>7. ReserveConsistent(p)' /\ SettleConsistent(p)'
  BY <1>1 DEF ReserveConsistent, SettleConsistent, Matches, Reserved, Exists, tables
<1>8. BatchLapsed'
  BY DEF IInv, BatchLapsed, Exists, Lapsed, tables
<1> QED
  BY <1>4, <1>5, <1>6, <1>7, <1>8, QuietStep

LEMMA FlipLostStep ==
  ASSUME IInv, NEW p \in Procs, FlipLost(p)
  PROVE  IInv'
<1> USE DEF FlipLost, Goto
<1>1. pc'[p] = "report"
  BY DEF IInv, TypeOK
<1>2. TypeOK'
  BY DEF IInv, TypeOK, Labels, tables, allowances
<1>3. SameOthers(p)
  BY DEF IInv, TypeOK, SameOthers
<1>4. LocksWhenFree(p)
  BY <1>1 DEF LocksWhenFree, HoldsLedger, HoldsBalance
<1>5. Exists(arg[p].key) => ledger[arg[p].key].status \in {"committed", "released"}
  BY DEF IInv, TypeOK, Row, SettleConsistent, Matches, Reserved, Exists
<1>6. ReserveConsistent(p)' /\ SettleConsistent(p)'
  BY <1>1, <1>5 DEF IInv, ReserveConsistent, SettleConsistent, Exists, tables
<1>7. BatchLapsed'
  BY DEF IInv, BatchLapsed, Exists, Lapsed, tables
<1> QED
  BY <1>2, <1>3, <1>4, <1>6, <1>7, QuietStep

LEMMA RefundStep ==
  ASSUME IInv, NEW p \in Procs, Refund(p)
  PROVE  IInv'
<1> USE DEF Refund, Goto
<1> DEFINE covered == arg[p].window \in balanceRows =>
                        arg[p].amount <= balance[arg[p].window]
<1>1. CASE ~covered
  <2>1. Return(p, "error") /\ faults' \in Nat
    BY <1>1 DEF IInv, TypeOK
  <2> QED
    BY <2>1, ReturnStep DEF Answers
<1>2. CASE covered
  <2>1. /\ pc'[p] = "refunded"
        /\ UNCHANGED <<arg, inserter, answer>>
    BY <1>2 DEF IInv, TypeOK
  <2>2. TypeOK'
    BY <1>2, <2>1 DEF IInv, TypeOK, Labels, tables, allowances
  <2>3. SameOthers(p)
    BY <1>2, <2>1 DEF IInv, TypeOK, SameOthers
  <2>4. LocksWhenFree(p)
    BY <2>1 DEF LocksWhenFree, HoldsLedger, HoldsBalance, BalanceFree
  <2>5. ReserveConsistent(p)' /\ SettleConsistent(p)'
    BY <2>1 DEF IInv, ReserveConsistent, SettleConsistent, Reserved, Exists, tables
  <2>6. BatchLapsed'
    BY DEF IInv, BatchLapsed, Exists, Lapsed, tables
  <2> QED
    BY <2>2, <2>3, <2>4, <2>5, <2>6, QuietStep
<1> QED
  BY <1>1, <1>2

\* The first step of a call: no row is locked yet.
LEMMA CallStep ==
  ASSUME IInv, NEW p \in Procs,
         NEW label \in {"claim", "commit", "release", "sweep"},
         NEW a \in [key : Keys \cup {NoOpKey}, window : Windows,
                    amount : Amounts \cup {0}, limit : Nat],
         Call(p, label, a),
         UNCHANGED <<tables, lapsed, allowances, faults>>,
         batch' \in [Sweepers -> SUBSET Keys], BatchLapsed',
         label = "claim" =>
           a.key \in Keys /\ a.amount \in Amounts /\ a.limit <= ceiling,
         label # "claim" => a.key = NoOpKey \/ Exists(a.key),
         label = "sweep" => Exists(a.key) /\ Lapsed(a.key)
  PROVE  IInv'
<1> USE DEF Call, Goto
<1>1. pc'[p] = label /\ arg'[p] = a
  BY DEF IInv, TypeOK
<1>2. TypeOK'
  BY DEF IInv, TypeOK, Labels, Answers, tables, allowances
<1>3. SameOthers(p)
  BY DEF IInv, TypeOK, SameOthers
<1>4. LocksWhenFree(p)
  BY <1>1 DEF LocksWhenFree, HoldsLedger, HoldsBalance
<1>5. ReserveConsistent(p)' /\ SettleConsistent(p)'
  BY <1>1 DEF ReserveConsistent, SettleConsistent, Exists, Lapsed, tables, allowances
<1> QED
  BY <1>2, <1>3, <1>4, <1>5, QuietStep

LEMMA ReserveStep ==
  ASSUME IInv, NEW p \in Workers, NEW k \in Keys, NEW w \in Windows,
         NEW a \in Amounts, Reserve(p, k, w, a)
  PROVE  IInv'
<1> DEFINE l == EffectiveLimit(override, plan)
           x == [key |-> k, window |-> w, amount |-> a, limit |-> l]
<1>1. p \in Procs
  BY DEF Procs
<1>2. l \in Nat /\ l <= ceiling
  BY DEF IInv, CeilingIsHighest
<1>3. x \in [key : Keys \cup {NoOpKey}, window : Windows,
             amount : Amounts \cup {0}, limit : Nat]
  BY <1>2
<1>4. /\ Call(p, "claim", x)
      /\ UNCHANGED <<tables, lapsed, allowances, faults, batch>>
  BY DEF Reserve
<1>5. BatchLapsed' /\ batch' \in [Sweepers -> SUBSET Keys]
  BY <1>4 DEF IInv, TypeOK, BatchLapsed, Exists, Lapsed, tables
<1>6. x.key \in Keys /\ x.amount \in Amounts /\ x.limit <= ceiling
  BY <1>2
<1> HIDE DEF x
<1> QED
  BY <1>1, <1>3, <1>4, <1>5, <1>6, CallStep

LEMMA ResolverFailsStep ==
  ASSUME IInv, NEW p \in Workers, ResolverFails(p)
  PROVE  IInv'
<1> USE DEF ResolverFails
<1>1. p \in Procs /\ pc'[p] = "idle"
  BY DEF Procs
<1>2. TypeOK'
  BY DEF IInv, TypeOK, Answers, tables, allowances
<1>3. SameOthers(p)
  BY DEF SameOthers
<1>4. LocksWhenFree(p)
  BY <1>1 DEF LocksWhenFree, HoldsLedger, HoldsBalance
<1>5. ReserveConsistent(p)' /\ SettleConsistent(p)'
  BY <1>1 DEF ReserveConsistent, SettleConsistent
<1>6. BatchLapsed'
  BY DEF IInv, BatchLapsed, Exists, Lapsed, tables
<1> QED
  BY <1>1, <1>2, <1>3, <1>4, <1>5, <1>6, QuietStep

\* commit, release and sweep start with a reservation id and nothing else.
LEMMA KeyArgType ==
  ASSUME NEW k \in Keys \cup {NoOpKey}
  PROVE  /\ [NoArg EXCEPT !.key = k] \in
              [key : Keys \cup {NoOpKey}, window : Windows,
               amount : Amounts \cup {0}, limit : Nat]
         /\ [NoArg EXCEPT !.key = k].key = k
BY NoArgType

LEMMA StartSettleStep ==
  ASSUME IInv, NEW p \in Workers, NEW k \in Keys \cup {NoOpKey},
         StartCommit(p, k) \/ StartRelease(p, k)
  PROVE  IInv'
<1>1. PICK label \in {"commit", "release"} :
        /\ Call(p, label, [NoArg EXCEPT !.key = k])
        /\ UNCHANGED <<tables, lapsed, allowances, faults, batch>>
  BY DEF StartCommit, StartRelease, Settle
<1>2. k = NoOpKey \/ Exists(k)
  BY DEF StartCommit, StartRelease, KnownTo, Exists
<1>3. BatchLapsed' /\ batch' \in [Sweepers -> SUBSET Keys]
  BY <1>1 DEF IInv, TypeOK, BatchLapsed, Exists, Lapsed, tables
<1>4. p \in Procs
  BY DEF Procs
<1> DEFINE x == [NoArg EXCEPT !.key = k]
<1>5. /\ x \in [key : Keys \cup {NoOpKey}, window : Windows,
                amount : Amounts \cup {0}, limit : Nat]
      /\ x.key = k
      /\ Call(p, label, x)
  BY <1>1, KeyArgType
<1> HIDE DEF x
<1> QED
  BY <1>1, <1>2, <1>3, <1>4, <1>5, CallStep

LEMMA SweepCallStep ==
  ASSUME IInv, NEW s \in Sweepers, NEW k \in Keys, Sweep(s, k)
  PROVE  IInv'
<1> DEFINE x == [NoArg EXCEPT !.key = k]
<1>1. /\ x \in [key : Keys \cup {NoOpKey}, window : Windows,
                amount : Amounts \cup {0}, limit : Nat]
      /\ x.key = k
      /\ Call(s, "sweep", x)
  BY KeyArgType DEF Sweep
<1>2. s \in Procs /\ Exists(k) /\ Lapsed(k)
  BY DEF Procs, Sweep, IInv, BatchLapsed
<1>3. BatchLapsed' /\ batch' \in [Sweepers -> SUBSET Keys]
  BY DEF Sweep, IInv, TypeOK, BatchLapsed, Exists, Lapsed, tables
<1>4. UNCHANGED <<tables, lapsed, allowances, faults>>
  BY DEF Sweep
<1> HIDE DEF x
<1> QED
  BY <1>1, <1>2, <1>3, <1>4, CallStep

-----------------------------------------------------------------------------
(* The sweeper's bookkeeping, time and ops.                                *)

LEMMA TickStep ==
  ASSUME IInv, NEW s \in Sweepers, Tick(s)
  PROVE  IInv'
<1> USE DEF Tick
<1>1. s \in Procs
  BY DEF Procs
<1>2. \A k \in Candidates : k \in Keys /\ Exists(k) /\ Lapsed(k)
  BY DEF Candidates, Dangling, Exists, IInv, TypeOK
<1>3. TypeOK'
  BY <1>2 DEF IInv, TypeOK, tables, allowances, calls
<1>4. SameOthers(s) /\ LocksWhenFree(s)
  BY DEF SameOthers, LocksWhenFree, HoldsLedger, HoldsBalance, calls
<1>5. ReserveConsistent(s)' /\ SettleConsistent(s)'
  BY <1>1 DEF ReserveConsistent, SettleConsistent, calls
<1>6. BatchLapsed'
  BY <1>2 DEF IInv, TypeOK, BatchLapsed, Exists, Lapsed, tables
<1> QED
  BY <1>1, <1>3, <1>4, <1>5, <1>6, QuietStep

LEMMA SweeperDiesStep ==
  ASSUME IInv, NEW s \in Sweepers, SweeperDies(s)
  PROVE  IInv'
<1> USE DEF SweeperDies, Return, Goto
<1>1. s \in Procs
  BY DEF Procs
<1>2. pc'[s] = "idle"
  BY <1>1 DEF IInv, TypeOK
<1>3. TypeOK'
  BY <1>1, NoArgType DEF IInv, TypeOK, Labels, Answers, tables, allowances
<1>4. SameOthers(s)
  BY <1>1 DEF IInv, TypeOK, SameOthers
<1>5. LocksWhenFree(s)
  BY <1>2 DEF LocksWhenFree, HoldsLedger, HoldsBalance
<1>6. ReserveConsistent(s)' /\ SettleConsistent(s)'
  BY <1>2 DEF ReserveConsistent, SettleConsistent
<1>7. BatchLapsed'
  BY DEF IInv, TypeOK, BatchLapsed, Exists, Lapsed, tables
<1> QED
  BY <1>1, <1>3, <1>4, <1>5, <1>6, <1>7, QuietStep

LEMMA ExpireStep ==
  ASSUME IInv, NEW k \in Keys, Expire(k)
  PROVE  IInv'
<1> USE DEF Expire
<1>1. Cardinality({j \in Keys : Lapsed(j)}) \in Nat
  BY KeysAssumption, FS_Subset, FS_CardinalityType
<1>2. lapsed' \in [Keys -> Nat] /\ \A j \in Keys : Lapsed(j) => Lapsed(j)'
  BY <1>1 DEF IInv, TypeOK, Lapsed
<1>3. TypeOK'
  BY <1>2 DEF IInv, TypeOK, tables, allowances, calls
<1>4. LocksExclusive'
  BY DEF IInv, LocksExclusive, HoldsLedger, HoldsBalance, calls
<1>5. ASSUME NEW p \in Procs
      PROVE  ReserveConsistent(p)' /\ SettleConsistent(p)'
  <2>1. ReserveConsistent(p)'
    BY DEF IInv, ReserveConsistent, Exists, Fits, tables, allowances, calls
  <2>2. \A j \in DOMAIN ledger : j \in Keys
    BY DEF IInv, TypeOK
  <2>3. SettleConsistent(p)'
    BY <1>2, <2>2 DEF IInv, SettleConsistent, Exists, Reserved, tables, calls
  <2> QED
    BY <2>1, <2>3
<1>6. BatchLapsed'
  BY <1>2 DEF IInv, TypeOK, BatchLapsed, Exists, tables
<1>7. RowsBacked' /\ CeilingIsHighest' /\ BalanceMatchesLedger'
  BY DEF IInv, RowsBacked, CeilingIsHighest, BalanceMatchesLedger, tables, allowances
<1>8. \A w \in Windows : IsFiniteSet(UsedUnits(ledger', w))
  BY DEF IInv, tables
<1> QED
  BY <1>3, <1>4, <1>5, <1>6, <1>7, <1>8 DEF IInv

LEMMA ChangeAllowanceStep ==
  ASSUME IInv, NEW o \in Limits \cup {Unset}, NEW pl \in Limits \cup {Unset},
         ChangeAllowance(o, pl)
  PROVE  IInv'
<1> USE DEF ChangeAllowance
<1>1. /\ EffectiveLimit(o, pl) \in Nat
      /\ ceiling' \in Nat /\ ceiling <= ceiling'
      /\ EffectiveLimit(o, pl) <= ceiling'
  <2>1. EffectiveLimit(o, pl) \in Nat
    BY EffectiveLimitType
  <2>2. ceiling \in Nat /\ ceiling' = Highest(ceiling, EffectiveLimit(o, pl))
    BY DEF IInv, TypeOK
  <2> QED
    BY <2>1, <2>2 DEF Highest
<1>2. TypeOK'
  BY <1>1 DEF IInv, TypeOK, tables, calls
<1>3. LocksExclusive'
  BY DEF IInv, LocksExclusive, HoldsLedger, HoldsBalance, calls
<1>4. ASSUME NEW p \in Procs
      PROVE  ReserveConsistent(p)' /\ SettleConsistent(p)'
  <2>1. arg[p].limit \in Nat /\ ceiling \in Nat
    BY DEF IInv, TypeOK
  <2>2. ReserveConsistent(p)'
    BY <1>1, <2>1 DEF IInv, ReserveConsistent, Exists, Fits, tables, calls
  <2>3. SettleConsistent(p)'
    BY DEF IInv, SettleConsistent, Exists, Reserved, Lapsed, tables, calls
  <2> QED
    BY <2>2, <2>3
<1>5. BatchLapsed' /\ RowsBacked' /\ BalanceMatchesLedger'
  BY DEF IInv, BatchLapsed, RowsBacked, BalanceMatchesLedger, Exists, Lapsed, tables
<1>6. CeilingIsHighest'
  <2>1. EffectiveLimit(override', plan') = EffectiveLimit(o, pl)
    OBVIOUS
  <2> QED
    BY <1>1, <2>1 DEF CeilingIsHighest
<1>7. \A w \in Windows : IsFiniteSet(UsedUnits(ledger', w))
  BY DEF IInv, tables
<1> QED
  BY <1>2, <1>3, <1>4, <1>5, <1>6, <1>7 DEF IInv

-----------------------------------------------------------------------------
(* The commits that write the tables.                                      *)

\* COMMIT of a grant.  The peers' knowledge survives because p holds the ledger
\* key and the balance row alone.
LEMMA CommitGrantStep ==
  ASSUME IInv, NEW p \in Procs, CommitGrant(p)
  PROVE  IInv'
<1> DEFINE k == arg[p].key
           w == arg[p].window
           a == arg[p].amount
           row == [window |-> w, amount |-> a, status |-> "reserved"]
<1>1. /\ pc[p] = "grant" /\ pc' = [pc EXCEPT ![p] = "idle"]
      /\ arg' = [arg EXCEPT ![p] = NoArg]
      /\ inserter' = inserter \ {p}
      /\ answer' = [answer EXCEPT ![p] = "granted"]
      /\ ledger' = WithRow(ledger, k, row)
      /\ balance' = [balance EXCEPT ![w] = @ + a]
      /\ balanceRows' = balanceRows \cup {w}
      /\ UNCHANGED <<lapsed, allowances, batch, faults>>
  BY DEF CommitGrant, Return, Goto
<1>2. k \in Keys /\ k \notin DOMAIN ledger /\ w \in Windows /\ a \in Amounts /\ a \in Nat
  BY <1>1, AmountsAssumption DEF IInv, TypeOK, ReserveConsistent, Exists
<1>3. /\ DOMAIN ledger' = DOMAIN ledger \cup {k}
      /\ ledger'[k] = row /\ row \in Row
      /\ \A j \in DOMAIN ledger : ledger'[j] = ledger[j]
      /\ ledger' = [j \in DOMAIN ledger' |-> ledger'[j]]
  BY <1>1, <1>2 DEF WithRow, Row
<1>4. pc'[p] = "idle"
  BY <1>1 DEF IInv, TypeOK
<1>5. TypeOK'
  <2>1. DOMAIN ledger' \subseteq Keys /\ ledger' \in [DOMAIN ledger' -> Row]
    BY <1>2, <1>3 DEF IInv, TypeOK
  <2>2. balance' \in [Windows -> Nat] /\ balanceRows' \subseteq Windows
    BY <1>1, <1>2 DEF IInv, TypeOK
  <2> QED
    BY <1>1, <2>1, <2>2, NoArgType DEF IInv, TypeOK, Labels, Answers, allowances
<1>6. SameOthers(p)
  BY <1>1 DEF IInv, TypeOK, SameOthers
<1>7. LocksExclusive'
  <2>1. LocksWhenFree(p)
    BY <1>4 DEF LocksWhenFree, HoldsLedger, HoldsBalance
  <2> QED
    BY <1>6, <2>1, LocksStep DEF IInv
<1>8. \A q \in Procs \ {p} : ~HoldsLedger(q, k) /\ ~HoldsBalance(q, w)
  BY <1>1, <1>2 DEF IInv, LocksExclusive, HoldsLedger, HoldsBalance
<1>9. \A q \in Procs : ReserveConsistent(q)' /\ SettleConsistent(q)'
  <2>1. ReserveConsistent(p)' /\ SettleConsistent(p)'
    BY <1>4 DEF ReserveConsistent, SettleConsistent
  <2>2. ASSUME NEW q \in Procs \ {p}
        PROVE  ReserveConsistent(q)' /\ SettleConsistent(q)'
    <3>1. pc'[q] = pc[q] /\ arg'[q] = arg[q] /\ arg[q].window \in Windows
      BY <1>6 DEF SameOthers, IInv, TypeOK
    <3>2. pc[q] = "grant" => balance'[arg[q].window] = balance[arg[q].window]
      BY <1>1, <1>2, <1>8, <3>1 DEF HoldsBalance, IInv, TypeOK
    <3>3. ReserveConsistent(q)'
      BY <1>1, <1>3, <1>8, <3>1, <3>2
      DEF IInv, ReserveConsistent, HoldsLedger, Exists, Fits, allowances
    <3>4. NoOpKey \notin DOMAIN ledger'
      BY <1>5, KeysAssumption DEF TypeOK
    <3>5. SettleConsistent(q)'
      BY <1>1, <1>3, <3>1, <3>4
      DEF IInv, SettleConsistent, Exists, Reserved, Lapsed
    <3> QED
      BY <3>3, <3>5
  <2> QED
    BY <2>1, <2>2
<1>10. BatchLapsed'
  BY <1>1, <1>3 DEF IInv, BatchLapsed, Exists, Lapsed
<1>11. RowsBacked'
  BY <1>1, <1>3 DEF IInv, RowsBacked
<1>12. CeilingIsHighest'
  BY <1>1 DEF IInv, CeilingIsHighest, allowances
<1>13. ASSUME NEW v \in Windows
       PROVE  /\ IsFiniteSet(UsedUnits(ledger', v))
              /\ balance'[v] = Used(ledger', v)
  <2>1. IsFiniteSet(UsedUnits(ledger, v)) /\ balance[v] = Used(ledger, v)
    BY DEF IInv, BalanceMatchesLedger
  <2>2. row.window = w /\ row.amount = a /\ row.status = "reserved" /\ row.amount \in Nat
    BY <1>2
  <2> HIDE DEF row, k
  <2>3. /\ IsFiniteSet(UsedUnits(WithRow(ledger, k, row), v))
        /\ Used(WithRow(ledger, k, row), v) =
             IF row.window = v THEN Used(ledger, v) + row.amount ELSE Used(ledger, v)
    BY <1>2, <2>1, <2>2, NewRowAdds
  <2>4. balance'[v] = IF w = v THEN balance[v] + a ELSE balance[v]
    BY <1>1 DEF IInv, TypeOK
  <2> QED
    BY <1>1, <2>1, <2>2, <2>3, <2>4
<1> QED
  BY <1>5, <1>7, <1>9, <1>10, <1>11, <1>12, <1>13 DEF IInv, BalanceMatchesLedger

\* COMMIT of a settlement.
LEMMA CommitSettleStep ==
  ASSUME IInv, NEW p \in Procs, CommitSettle(p)
  PROVE  IInv'
<1> DEFINE k == arg[p].key
<1>1. /\ pc[p] = "settle" /\ pc' = [pc EXCEPT ![p] = "idle"]
      /\ arg' = [arg EXCEPT ![p] = NoArg]
      /\ inserter' = inserter \ {p}
      /\ answer' = [answer EXCEPT ![p] = "applied"]
      /\ ledger' = [ledger EXCEPT ![k].status = "committed"]
      /\ UNCHANGED <<balance, balanceRows, lapsed, allowances, batch, faults>>
  BY DEF CommitSettle, SetStatus, Return, Goto
<1>2. k \in DOMAIN ledger /\ k \in Keys /\ ledger[k].status = "reserved"
  BY <1>1 DEF IInv, TypeOK, SettleConsistent, Reserved, Exists
<1>3. /\ DOMAIN ledger' = DOMAIN ledger
      /\ ledger' \in [DOMAIN ledger -> Row]
      /\ ledger'[k].status = "committed"
      /\ \A j \in DOMAIN ledger : ledger'[j].window = ledger[j].window
      /\ \A j \in DOMAIN ledger \ {k} : ledger'[j] = ledger[j]
  BY <1>1, <1>2 DEF IInv, TypeOK, Row
<1>4. pc'[p] = "idle"
  BY <1>1 DEF IInv, TypeOK
<1>5. TypeOK'
  BY <1>1, <1>3, NoArgType DEF IInv, TypeOK, Labels, Answers, allowances
<1>6. SameOthers(p)
  BY <1>1 DEF IInv, TypeOK, SameOthers
<1>7. LocksExclusive'
  <2>1. LocksWhenFree(p)
    BY <1>4 DEF LocksWhenFree, HoldsLedger, HoldsBalance
  <2> QED
    BY <1>6, <2>1, LocksStep DEF IInv
<1>8. \A q \in Procs \ {p} : ~HoldsLedger(q, k)
  BY <1>1, <1>2 DEF IInv, LocksExclusive, HoldsLedger
<1>9. \A q \in Procs : ReserveConsistent(q)' /\ SettleConsistent(q)'
  <2>1. ReserveConsistent(p)' /\ SettleConsistent(p)'
    BY <1>4 DEF ReserveConsistent, SettleConsistent
  <2>2. ASSUME NEW q \in Procs \ {p}
        PROVE  ReserveConsistent(q)' /\ SettleConsistent(q)'
    <3>1. pc'[q] = pc[q] /\ arg'[q] = arg[q]
      BY <1>6 DEF SameOthers
    <3>2. ReserveConsistent(q)'
      BY <1>1, <1>3, <3>1 DEF IInv, ReserveConsistent, Exists, Fits, allowances
    <3>3. SettleConsistent(q)'
      BY <1>1, <1>3, <1>8, <3>1
      DEF IInv, SettleConsistent, HoldsLedger, Exists, Reserved, Lapsed
    <3> QED
      BY <3>2, <3>3
  <2> QED
    BY <2>1, <2>2
<1>10. BatchLapsed' /\ RowsBacked' /\ CeilingIsHighest'
  BY <1>1, <1>3
  DEF IInv, BatchLapsed, RowsBacked, CeilingIsHighest, Exists, Lapsed, allowances
<1>11. ASSUME NEW v \in Windows
       PROVE  UsedUnits(ledger', v) = UsedUnits(ledger, v)
  <2>1. ledger \in [DOMAIN ledger -> Row]
    BY DEF IInv, TypeOK
  <2> HIDE DEF k
  <2> QED
    BY <1>1, <1>2, <2>1, CommittedRowKeeps
<1>12. \A v \in Windows : IsFiniteSet(UsedUnits(ledger', v))
  BY <1>11 DEF IInv
<1>13. BalanceMatchesLedger'
  BY <1>1, <1>11 DEF IInv, BalanceMatchesLedger, Used
<1> QED
  BY <1>5, <1>7, <1>9, <1>10, <1>12, <1>13 DEF IInv

\* What a caller that is about to refund relies on: the row it releases was
\* charged to a balance row that exists and covers the amount.
LEMMA RefundCovered ==
  ASSUME IInv, NEW p \in Procs, pc[p] \in {"refund", "refunded"}
  PROVE  /\ arg[p].window \in balanceRows
         /\ arg[p].window \in Windows
         /\ arg[p].amount <= balance[arg[p].window]
<1> DEFINE k == arg[p].key
           w == arg[p].window
<1>1. /\ k \in DOMAIN ledger /\ ledger[k].status = "reserved"
      /\ w = ledger[k].window /\ arg[p].amount = ledger[k].amount
  BY DEF IInv, SettleConsistent, Reserved, Exists
<1>2. ledger \in [DOMAIN ledger -> Row] /\ w \in Windows
  BY DEF IInv, TypeOK
<1>3. w \in balanceRows
  BY <1>1 DEF IInv, RowsBacked
<1>4. IsFiniteSet(UsedUnits(ledger, w)) /\ balance[w] = Used(ledger, w)
  BY <1>2 DEF IInv, BalanceMatchesLedger
<1> HIDE DEF k, w
<1>5. ledger[k].amount <= Used(ledger, w)
  BY <1>1, <1>2, <1>4, ReleasedRowSubtracts
<1> QED
  BY <1>1, <1>2, <1>3, <1>4, <1>5 DEF k, w

\* COMMIT of a release or a sweep.
LEMMA CommitRefundStep ==
  ASSUME IInv, NEW p \in Procs, CommitRefund(p)
  PROVE  IInv'
<1> DEFINE k == arg[p].key
           w == arg[p].window
           a == arg[p].amount
<1>1. /\ pc[p] = "refunded" /\ pc' = [pc EXCEPT ![p] = "idle"]
      /\ arg' = [arg EXCEPT ![p] = NoArg]
      /\ inserter' = inserter \ {p}
      /\ answer' = [answer EXCEPT ![p] = "applied"]
      /\ ledger' = [ledger EXCEPT ![k].status = "released"]
      /\ UNCHANGED <<balanceRows, lapsed, allowances, batch, faults>>
  BY DEF CommitRefund, SetStatus, Return, Goto
<1>2. /\ k \in DOMAIN ledger /\ k \in Keys /\ ledger[k].status = "reserved"
      /\ w = ledger[k].window /\ a = ledger[k].amount /\ a \in Nat
  BY <1>1, AmountsAssumption DEF IInv, TypeOK, SettleConsistent, Reserved, Exists, Row
<1>3. w \in balanceRows /\ w \in Windows /\ a <= balance[w]
  BY <1>1, RefundCovered
<1>4. balance' = [balance EXCEPT ![w] = @ - a]
  BY <1>3 DEF CommitRefund
<1>5. /\ DOMAIN ledger' = DOMAIN ledger
      /\ ledger' \in [DOMAIN ledger -> Row]
      /\ ledger'[k].status = "released"
      /\ \A j \in DOMAIN ledger : ledger'[j].window = ledger[j].window
      /\ \A j \in DOMAIN ledger \ {k} : ledger'[j] = ledger[j]
  BY <1>1, <1>2 DEF IInv, TypeOK, Row
<1>6. pc'[p] = "idle"
  BY <1>1 DEF IInv, TypeOK
<1>7. TypeOK'
  <2>1. balance' \in [Windows -> Nat]
    BY <1>2, <1>3, <1>4 DEF IInv, TypeOK
  <2> QED
    BY <1>1, <1>5, <2>1, NoArgType DEF IInv, TypeOK, Labels, Answers, allowances
<1>8. SameOthers(p)
  BY <1>1 DEF IInv, TypeOK, SameOthers
<1>9. LocksExclusive'
  <2>1. LocksWhenFree(p)
    BY <1>6 DEF LocksWhenFree, HoldsLedger, HoldsBalance
  <2> QED
    BY <1>8, <2>1, LocksStep DEF IInv
<1>10. \A q \in Procs \ {p} : ~HoldsLedger(q, k) /\ ~HoldsBalance(q, w)
  BY <1>1, <1>2, <1>3 DEF IInv, LocksExclusive, HoldsLedger, HoldsBalance
<1>11. \A q \in Procs : ReserveConsistent(q)' /\ SettleConsistent(q)'
  <2>1. ReserveConsistent(p)' /\ SettleConsistent(p)'
    BY <1>6 DEF ReserveConsistent, SettleConsistent
  <2>2. ASSUME NEW q \in Procs \ {p}
        PROVE  ReserveConsistent(q)' /\ SettleConsistent(q)'
    <3>1. pc'[q] = pc[q] /\ arg'[q] = arg[q] /\ arg[q].window \in Windows
      BY <1>8 DEF SameOthers, IInv, TypeOK
    <3>2. pc[q] = "grant" => balance'[arg[q].window] = balance[arg[q].window]
      BY <1>3, <1>4, <1>10, <3>1 DEF HoldsBalance, IInv, TypeOK
    <3>3. ReserveConsistent(q)'
      BY <1>1, <1>5, <3>1, <3>2 DEF IInv, ReserveConsistent, Exists, Fits, allowances
    <3>4. SettleConsistent(q)'
      BY <1>1, <1>5, <1>10, <3>1
      DEF IInv, SettleConsistent, HoldsLedger, Exists, Reserved, Lapsed
    <3> QED
      BY <3>3, <3>4
  <2> QED
    BY <2>1, <2>2
<1>12. BatchLapsed' /\ RowsBacked' /\ CeilingIsHighest'
  BY <1>1, <1>5
  DEF IInv, BatchLapsed, RowsBacked, CeilingIsHighest, Exists, Lapsed, allowances
<1>13. ASSUME NEW v \in Windows
       PROVE  /\ IsFiniteSet(UsedUnits(ledger', v))
              /\ balance'[v] = Used(ledger', v)
  <2>1. IsFiniteSet(UsedUnits(ledger, v)) /\ balance[v] = Used(ledger, v)
    BY DEF IInv, BalanceMatchesLedger
  <2>2. ledger \in [DOMAIN ledger -> Row]
    BY DEF IInv, TypeOK
  <2>3. balance'[v] = IF w = v THEN balance[v] - a ELSE balance[v]
    BY <1>3, <1>4 DEF IInv, TypeOK
  <2> HIDE DEF k, w, a
  <2>4. /\ IsFiniteSet(UsedUnits(ledger', v))
        /\ Used(ledger', v) = IF ledger[k].window = v
                                THEN Used(ledger, v) - ledger[k].amount
                                ELSE Used(ledger, v)
    BY <1>1, <1>2, <2>1, <2>2, ReleasedRowSubtracts
  <2> QED
    BY <1>2, <2>1, <2>3, <2>4
<1> QED
  BY <1>7, <1>9, <1>11, <1>12, <1>13 DEF IInv, BalanceMatchesLedger

-----------------------------------------------------------------------------
(* The theorems.                                                           *)

LEMMA NextIInv == IInv /\ [Next]_vars => IInv'
<1> SUFFICES ASSUME IInv, [Next]_vars PROVE IInv'
  OBVIOUS
<1>1. ASSUME NEW p \in Workers, Start(p)
      PROVE  IInv'
  BY <1>1, ReserveStep, ResolverFailsStep, StartSettleStep DEF Start
<1>2. ASSUME NEW p \in Procs, Step(p)
      PROVE  IInv'
  BY <1>2, ClaimStep, LookupStep, EnsureBalanceStep, GateStep, DenyStep,
     CommitGrantStep, FlipCommittedStep, FlipReleasedStep, FlipLostStep,
     ReportStep, RefundStep, CommitSettleStep, CommitRefundStep DEF Step
<1>3. ASSUME NEW p \in Procs, Fail(p)
      PROVE  IInv'
  BY <1>3, FailStep
<1>4. ASSUME NEW s \in Sweepers, SweepStep(s) \/ SweeperDies(s)
      PROVE  IInv'
  BY <1>4, TickStep, SweepCallStep, SweeperDiesStep DEF SweepStep
<1>5. ASSUME NEW k \in Keys, Expire(k)
      PROVE  IInv'
  BY <1>5, ExpireStep
<1>6. ASSUME NEW o \in Limits \cup {Unset}, NEW pl \in Limits \cup {Unset},
             ChangeAllowance(o, pl)
      PROVE  IInv'
  BY <1>6, ChangeAllowanceStep
<1>7. CASE UNCHANGED vars
  <2> USE <1>7 DEF vars, tables, allowances, calls
  <2>1. TypeOK'
    BY DEF IInv, TypeOK
  <2>2. LocksExclusive'
    BY DEF IInv, LocksExclusive, HoldsLedger, HoldsBalance
  <2>3. \A p \in Procs : ReserveConsistent(p)' /\ SettleConsistent(p)'
    BY DEF IInv, ReserveConsistent, SettleConsistent, Exists, Reserved, Lapsed, Fits
  <2>4. BatchLapsed' /\ RowsBacked' /\ CeilingIsHighest' /\ BalanceMatchesLedger'
    BY DEF IInv, BatchLapsed, RowsBacked, CeilingIsHighest, BalanceMatchesLedger,
           Exists, Lapsed
  <2>5. \A w \in Windows : IsFiniteSet(UsedUnits(ledger', w))
    BY DEF IInv
  <2> QED
    BY <2>1, <2>2, <2>3, <2>4, <2>5 DEF IInv
<1> QED
  BY <1>1, <1>2, <1>3, <1>4, <1>5, <1>6, <1>7 DEF Next

\* The invariant behind every other theorem.
THEOREM Invariance == Spec => []IInv
<1> QED
  BY InitIInv, NextIInv, PTL DEF Spec

\* The tables, calls and jobs are well typed (metering.service.ts, all of it).
THEOREM TypeCorrect == Spec => []TypeOK
<1>1. IInv => TypeOK
  BY DEF IInv
<1> QED
  BY <1>1, Invariance, PTL

\* The balance projection never drifts from the ledger, whatever calls race,
\* fail or are swept (reserve, release, releaseByLedgerId).
THEOREM BalanceAccurate == Spec => []BalanceMatchesLedger
<1>1. IInv => BalanceMatchesLedger
  BY DEF IInv
<1> QED
  BY <1>1, Invariance, PTL

\* One of any number of concurrent commit, release and sweep calls settles a
\* row (the "affected = 1" winner).
THEOREM SingleSettler == Spec => []OneSettlesARow
<1>1. IInv => OneSettlesARow
  BY DEF IInv, TypeOK, OneSettlesARow, SettleConsistent, LocksExclusive, HoldsLedger,
         Reserved, Exists
<1> QED
  BY <1>1, Invariance, PTL

\* CHECK (consumed >= 0) never fires and no refund misses its balance row.
THEOREM RefundsCovered == Spec => []RefundIsCovered
<1>1. IInv => RefundIsCovered
  BY RefundCovered DEF RefundIsCovered
<1> QED
  BY <1>1, Invariance, PTL

\* The loser of an idempotency race finds the winner's row, and a settle call
\* that does not apply reports a terminal status.
THEOREM LosersInformed == Spec => []LosersAreInformed
<1>1. IInv => LosersAreInformed
  BY DEF IInv, LosersAreInformed, LoserFindsRow, LostMeansSettled, ReserveConsistent, SettleConsistent
<1> QED
  BY <1>1, Invariance, PTL

-----------------------------------------------------------------------------
(* Waiting.                                                                *)

\* Whoever holds a balance row waits for nobody.
LEMMA BalanceHoldersRun ==
  ASSUME IInv, NEW p \in Procs, NEW w, HoldsBalance(p, w), NEW q \in Procs
  PROVE  ~WaitsFor(p, q)
<1>1. arg[p].window \in Windows
  BY DEF IInv, TypeOK
<1>2. CASE pc[p] \in {"grant", "refunded"}
  BY <1>2 DEF WaitsFor
<1>3. CASE pc[p] = "gate" /\ p \in inserter
  <2>1. HoldsBalance(p, arg[p].window)
    BY <1>3 DEF HoldsBalance
  <2>2. q # p => ~HoldsBalance(q, arg[p].window)
    BY <1>1, <2>1 DEF IInv, LocksExclusive
  <2> QED
    BY <1>3, <2>2 DEF WaitsFor
<1> QED
  BY <1>2, <1>3 DEF HoldsBalance

\* Among any transactions, take one that holds a balance row if there is one,
\* else one that is about to ask for a balance row, else any that holds a ledger
\* row: it waits for none of the others.
LEMMA SomeoneRuns ==
  ASSUME IInv, NEW S \in SUBSET Procs, S # {}
  PROVE  \E p \in S : \A q \in S : ~WaitsFor(p, q)
<1>1. CASE \E p \in S : \E w : HoldsBalance(p, w)
  <2>1. PICK p \in S : \E w : HoldsBalance(p, w)
    BY <1>1
  <2> QED
    BY <2>1, BalanceHoldersRun
<1>2. ASSUME \A p \in S : \A w : ~HoldsBalance(p, w),
             NEW p \in S, pc[p] \in {"ensure", "gate", "refund"}
      PROVE  \A q \in S : ~WaitsFor(p, q)
  BY <1>2 DEF WaitsFor
<1>3. ASSUME \A p \in S : \A w : ~HoldsBalance(p, w),
             \A p \in S : pc[p] \notin {"ensure", "gate", "refund"},
             NEW p \in S, pc[p] \in {"grant", "settle", "refunded"}
      PROVE  \A q \in S : ~WaitsFor(p, q)
  BY <1>3 DEF WaitsFor
<1>4. ASSUME \A p \in S : pc[p] \notin {"ensure", "gate", "refund", "grant", "settle",
                                        "refunded"},
             NEW p \in S
      PROVE  \A q \in S : ~WaitsFor(p, q)
  BY <1>4 DEF WaitsFor, HoldsLedger
<1> QED
  BY <1>1, <1>2, <1>3, <1>4

\* Ledger row first, balance row second: no number of reserves, releases,
\* commits and sweeps, in any state of their transactions, wait in a circle.
THEOREM NobodyWaitsInACircle == Spec => []NoCircularWait
<1>1. IInv => NoCircularWait
  BY SomeoneRuns DEF NoCircularWait
<1> QED
  BY <1>1, Invariance, PTL

-----------------------------------------------------------------------------
(* Steps seen from the ledger.                                             *)

\* The only steps that write the ledger.
Writes(p) == CommitGrant(p) \/ CommitSettle(p) \/ CommitRefund(p)

LEMMA OtherStepsAreSilent ==
  ASSUME [Next]_vars, \A p \in Procs : ~Writes(p)
  PROVE  /\ UNCHANGED ledger
         /\ \/ UNCHANGED ceiling
            \/ \E o, pl \in Limits \cup {Unset} : ChangeAllowance(o, pl)
<1> USE DEF vars, tables, allowances, calls
<1>1. ASSUME NEW p \in Workers, Start(p)
      PROVE  UNCHANGED <<ledger, ceiling>>
  BY <1>1 DEF Start, Reserve, ResolverFails, StartCommit, StartRelease, Settle
<1>2. ASSUME NEW p \in Procs, Step(p)
      PROVE  UNCHANGED <<ledger, ceiling>>
  BY <1>2 DEF Step, Writes, Claim, Lookup, EnsureBalance, Gate, Deny, FlipCommitted,
     FlipReleased, FlipLost, Report, Refund
<1>3. ASSUME NEW p \in Procs, Fail(p)
      PROVE  UNCHANGED <<ledger, ceiling>>
  BY <1>3 DEF Fail
<1>4. ASSUME NEW s \in Sweepers, SweepStep(s) \/ SweeperDies(s)
      PROVE  UNCHANGED <<ledger, ceiling>>
  BY <1>4 DEF SweepStep, Tick, Sweep, SweeperDies
<1>5. ASSUME NEW k \in Keys, Expire(k)
      PROVE  UNCHANGED <<ledger, ceiling>>
  BY <1>5 DEF Expire
<1>6. ASSUME NEW o \in Limits \cup {Unset}, NEW pl \in Limits \cup {Unset},
             ChangeAllowance(o, pl)
      PROVE  UNCHANGED ledger
  BY <1>6 DEF ChangeAllowance
<1> QED
  BY <1>1, <1>2, <1>3, <1>4, <1>5, <1>6 DEF Next

\* A granted row starts reserved, and the window has room for it.
LEMMA GrantFits ==
  ASSUME IInv, NEW p \in Procs, CommitGrant(p)
  PROVE  /\ arg[p].key \in Keys \ DOMAIN ledger
         /\ arg[p].window \in Windows
         /\ arg[p].amount \in Amounts
         /\ Used(ledger, arg[p].window) + arg[p].amount <= arg[p].limit
         /\ Used(ledger', arg[p].window) =
              Used(ledger, arg[p].window) + arg[p].amount
         /\ arg[p].limit <= ceiling
<1>1. /\ arg[p].key \in Keys \ DOMAIN ledger
      /\ arg[p].window \in Windows
      /\ arg[p].amount \in Amounts
      /\ arg[p].limit <= ceiling
      /\ Fits(p)
  BY DEF CommitGrant, IInv, TypeOK, ReserveConsistent, Exists
<1>2. Used(ledger, arg[p].window) + arg[p].amount <= arg[p].limit
  BY <1>1 DEF Fits, IInv, BalanceMatchesLedger
<1> DEFINE k == arg[p].key
           w == arg[p].window
           row == [window |-> w, amount |-> arg[p].amount, status |-> "reserved"]
<1>3. /\ ledger' = WithRow(ledger, k, row)
      /\ row.amount = arg[p].amount /\ row.amount \in Nat
      /\ row.status = "reserved" /\ row.window = w
  BY <1>1, AmountsAssumption DEF CommitGrant
<1>4. k \notin DOMAIN ledger /\ IsFiniteSet(UsedUnits(ledger, w))
  BY <1>1 DEF IInv
<1> HIDE DEF k, w, row
<1>5. Used(ledger', w) = Used(ledger, w) + row.amount
  BY <1>3, <1>4, NewRowAdds
<1> QED
  BY <1>1, <1>2, <1>3, <1>5 DEF w

\* A settled row was reserved, and only its status changes.
LEMMA SettleWritesStatus ==
  ASSUME IInv, NEW p \in Procs, CommitSettle(p) \/ CommitRefund(p)
  PROVE  /\ arg[p].key \in DOMAIN ledger
         /\ arg[p].key \in Keys
         /\ ledger[arg[p].key].status = "reserved"
         /\ ledger[arg[p].key] \in Row
         /\ \E s \in {"committed", "released"} :
              ledger' = [ledger EXCEPT ![arg[p].key].status = s]
         /\ UNCHANGED ceiling
BY DEF CommitSettle, CommitRefund, SetStatus, allowances, IInv, TypeOK,
       SettleConsistent, Reserved, Exists

\* What a step leaves used in a window fits under the ceiling if it did before.
LEMMA OversoldNever ==
  ASSUME IInv, IInv', [Next]_vars, NeverOversold
  PROVE  NeverOversold'
<1> SUFFICES ASSUME NEW w \in Windows
             PROVE  Used(ledger', w) <= ceiling'
  BY DEF NeverOversold
<1>1. /\ Used(ledger, w) = balance[w] /\ Used(ledger', w) = balance'[w]
      /\ balance[w] \in Nat /\ balance'[w] \in Nat
      /\ ceiling \in Nat /\ ceiling' \in Nat
      /\ Used(ledger, w) <= ceiling
  BY DEF IInv, TypeOK, BalanceMatchesLedger, NeverOversold
<1>2. CASE \A p \in Procs : ~Writes(p)
  <2>1. CASE UNCHANGED <<ledger, ceiling>>
    BY <1>1, <2>1
  <2>2. ASSUME NEW o \in Limits \cup {Unset}, NEW pl \in Limits \cup {Unset},
               ChangeAllowance(o, pl)
        PROVE  Used(ledger', w) <= ceiling'
    <3>1. EffectiveLimit(o, pl) \in Nat
      BY EffectiveLimitType
    <3>2. UNCHANGED ledger /\ ceiling' = Highest(ceiling, EffectiveLimit(o, pl))
      BY <2>2 DEF ChangeAllowance, tables
    <3>3. ceiling' >= ceiling
      BY <1>1, <3>1, <3>2 DEF Highest
    <3> QED
      BY <1>1, <3>2, <3>3
  <2> QED
    BY <1>2, <2>1, <2>2, OtherStepsAreSilent
<1>3. ASSUME NEW p \in Procs, CommitGrant(p)
      PROVE  Used(ledger', w) <= ceiling'
  <2>1. /\ arg[p].amount \in Nat /\ arg[p].limit \in Nat /\ arg[p].limit <= ceiling
        /\ Used(ledger, arg[p].window) + arg[p].amount <= arg[p].limit
        /\ arg[p].window \in Windows
    BY <1>3, GrantFits, AmountsAssumption DEF IInv, TypeOK, CommitGrant, ReserveConsistent
  <2>2. /\ ceiling' = ceiling
        /\ balance' = [balance EXCEPT ![arg[p].window] = @ + arg[p].amount]
        /\ balance \in [Windows -> Nat]
    BY <1>3 DEF CommitGrant, allowances, IInv, TypeOK
  <2>3. CASE w = arg[p].window
    BY <1>1, <2>1, <2>2, <2>3
  <2>4. CASE w # arg[p].window
    BY <1>1, <2>2, <2>4
  <2> QED
    BY <2>3, <2>4
<1>4. ASSUME NEW p \in Procs, CommitSettle(p)
      PROVE  Used(ledger', w) <= ceiling'
  BY <1>1, <1>4 DEF CommitSettle, allowances
<1>5. ASSUME NEW p \in Procs, CommitRefund(p)
      PROVE  Used(ledger', w) <= ceiling'
  <2>1. arg[p].amount \in Nat
    BY AmountsAssumption DEF IInv, TypeOK
  <2>2. /\ ceiling' = ceiling
        /\ balance \in [Windows -> Nat]
        /\ balance' = IF arg[p].window \in balanceRows
                        THEN [balance EXCEPT ![arg[p].window] = @ - arg[p].amount]
                        ELSE balance
    BY <1>5 DEF CommitRefund, allowances, IInv, TypeOK
  <2>3. balance'[w] <= balance[w]
    BY <2>1, <2>2, <1>1
  <2> QED
    BY <1>1, <2>2, <2>3
<1> QED
  BY <1>2, <1>3, <1>4, <1>5 DEF Writes

\* Reserved and committed capacity never exceeds the highest limit that was in
\* force, whatever limits the racing calls resolved.
THEOREM WindowsNeverOversold == Spec => []NeverOversold
<1>1. Init => NeverOversold
  BY InitIInv, LimitsAssumption DEF Init, IInv, BalanceMatchesLedger, NeverOversold
<1>2. IInv /\ IInv' /\ [Next]_vars /\ NeverOversold => NeverOversold'
  BY OversoldNever
<1> QED
  BY <1>1, <1>2, Invariance, PTL DEF Spec

\* No call is granted more than the limit it resolved leaves room for, counting
\* every live row of the window at that instant (reserve, steps 2-5).
THEOREM GrantsRespectLimit == Spec => GrantWithinResolvedLimit
<1> DEFINE A == \A p \in Procs :
       pc[p] = "grant" /\ pc'[p] = "idle" /\ answer'[p] = "granted" =>
         Used(ledger', arg[p].window) <= arg[p].limit
<1>1. ASSUME IInv, Next PROVE A
  <2> SUFFICES ASSUME NEW p \in Procs, pc[p] = "grant", pc'[p] = "idle",
                      answer'[p] = "granted"
               PROVE  Used(ledger', arg[p].window) <= arg[p].limit
    OBVIOUS
  <2>0. pc \in [Procs -> Labels] /\ answer \in [Procs -> Answers]
    BY <1>1 DEF IInv, TypeOK
  <2>1. CASE CommitGrant(p)
    BY <1>1, <2>1, GrantFits
  <2>2. ASSUME NEW q \in Workers, Start(q) PROVE FALSE
    BY <2>0, <2>2 DEF Start, Reserve, ResolverFails, StartCommit, StartRelease, Settle,
       Call, Goto, Procs
  <2>3. ASSUME NEW q \in Procs, Step(q), q # p PROVE FALSE
    BY <2>0, <2>3 DEF Step, Claim, Lookup, EnsureBalance, Gate, Deny, CommitGrant,
       FlipCommitted, FlipReleased, FlipLost, Report, Refund, CommitSettle,
       CommitRefund, Return, Goto
  <2>4. ASSUME Step(p), ~CommitGrant(p) PROVE FALSE
    BY <2>4 DEF Step, Claim, Lookup, EnsureBalance, Gate, Deny, FlipCommitted,
       FlipReleased, FlipLost, Report, Refund, CommitSettle, CommitRefund
  <2>5. ASSUME NEW q \in Procs, Fail(q) PROVE FALSE
    BY <2>0, <2>5 DEF Fail, Return, Goto
  <2>6. ASSUME NEW s \in Sweepers, SweepStep(s) PROVE FALSE
    BY <2>0, <2>6 DEF SweepStep, Tick, Sweep, Call, Goto, calls, Procs
  <2>7. ASSUME NEW s \in Sweepers, SweeperDies(s) PROVE FALSE
    BY <2>0, <2>7 DEF SweeperDies, Return, Goto, Procs
  <2>8. ASSUME NEW k \in Keys, Expire(k) PROVE FALSE
    BY <2>0, <2>8 DEF Expire, calls
  <2>9. ASSUME NEW o \in Limits \cup {Unset}, NEW pl \in Limits \cup {Unset},
               ChangeAllowance(o, pl) PROVE FALSE
    BY <2>0, <2>9 DEF ChangeAllowance, calls
  <2> QED
    BY <1>1, <2>1, <2>2, <2>3, <2>4, <2>5, <2>6, <2>7, <2>8, <2>9 DEF Next
<1>2. ASSUME UNCHANGED vars PROVE A
  BY <1>2 DEF vars, calls
<1>3. IInv /\ [Next]_vars => [A]_vars
  BY <1>1, <1>2
<1> QED
  BY <1>3, Invariance, PTL DEF Spec, GrantWithinResolvedLimit

\* The ledger is append-only and a settled row never changes again.
THEOREM SettledRowsFinal == Spec => SettledIsFinal
<1> DEFINE A == \A k \in DOMAIN ledger :
       /\ k \in DOMAIN ledger'
       /\ ledger'[k] # ledger[k] =>
            /\ ledger[k].status = "reserved"
            /\ ledger'[k].window = ledger[k].window
            /\ ledger'[k].amount = ledger[k].amount
<1>1. ASSUME IInv, [Next]_vars PROVE A
  <2>1. CASE \A p \in Procs : ~Writes(p)
    BY <1>1, <2>1, OtherStepsAreSilent
  <2>2. ASSUME NEW p \in Procs, CommitGrant(p) PROVE A
    BY <1>1, <2>2, GrantFits DEF CommitGrant, WithRow
  <2>3. ASSUME NEW p \in Procs, CommitSettle(p) \/ CommitRefund(p) PROVE A
    <3>1. PICK s \in {"committed", "released"} :
            ledger' = [ledger EXCEPT ![arg[p].key].status = s]
      BY <1>1, <2>3, SettleWritesStatus
    <3> QED
      BY <1>1, <2>3, <3>1, SettleWritesStatus DEF Row
  <2> QED
    BY <2>1, <2>2, <2>3 DEF Writes
<1> QED
  BY <1>1, Invariance, PTL DEF Spec, SettledIsFinal

\* Seen from the ledger alone the engine is the abstract quota: a grant fits
\* under the highest limit in force so far, and ends once.
THEOREM QuotaImplemented == Spec => ImplementsQuota
<1>1. Init => Quota!QuotaInit
  BY LimitsAssumption DEF Init, Quota!QuotaInit
<1>2. ASSUME IInv, [Next]_vars PROVE [Quota!QuotaNext]_(Quota!quotaVars)
  <2> USE DEF Quota!QuotaNext, Quota!quotaVars
  <2>1. CASE \A p \in Procs : ~Writes(p)
    <3>1. CASE UNCHANGED <<ledger, ceiling>>
      BY <3>1
    <3>2. ASSUME NEW o \in Limits \cup {Unset}, NEW pl \in Limits \cup {Unset},
                 ChangeAllowance(o, pl), ceiling' # ceiling
          PROVE  Quota!RaiseQuota
      <4>1. EffectiveLimit(o, pl) \in Nat
        BY EffectiveLimitType
      <4>2. /\ ceiling \in Nat /\ UNCHANGED ledger
            /\ ceiling' = Highest(ceiling, EffectiveLimit(o, pl))
        BY <1>2, <3>2 DEF ChangeAllowance, tables, IInv, TypeOK
      <4> QED
        BY <3>2, <4>1, <4>2 DEF Highest, Quota!RaiseQuota
    <3> QED
      BY <1>2, <2>1, <3>1, <3>2, OtherStepsAreSilent
  <2>2. ASSUME NEW p \in Procs, CommitGrant(p)
        PROVE  Quota!Grant(arg[p].key, arg[p].window, arg[p].amount)
    <3>1. Used(ledger, arg[p].window) + arg[p].amount <= ceiling
      <4>1. arg[p].limit \in Nat /\ ceiling \in Nat /\ balance[arg[p].window] \in Nat
            /\ arg[p].amount \in Nat /\ balance[arg[p].window] = Used(ledger, arg[p].window)
        BY <1>2, <2>2, GrantFits, AmountsAssumption DEF IInv, TypeOK, BalanceMatchesLedger
      <4> QED
        BY <1>2, <2>2, <4>1, GrantFits
    <3>2. /\ arg[p].key \notin DOMAIN ledger
          /\ UNCHANGED ceiling
          /\ ledger' = WithRow(ledger, arg[p].key,
                               [window |-> arg[p].window, amount |-> arg[p].amount,
                                status |-> "reserved"])
      BY <1>2, <2>2, GrantFits DEF CommitGrant, allowances
    <3>3. Quota!Used(ledger, arg[p].window) = Used(ledger, arg[p].window)
      BY DEF Quota!Used, Used, Quota!UsedUnits, UsedUnits, Quota!Live, Live,
             Quota!Units, Units, Quota!Cardinality, Cardinality
    <3> QED
      BY <3>1, <3>2, <3>3 DEF Quota!Grant, Quota!WithRow, WithRow
  <2>3. ASSUME NEW p \in Procs, CommitSettle(p) \/ CommitRefund(p)
        PROVE  \E s \in {"committed", "released"} : Quota!End(arg[p].key, s)
    BY <1>2, <2>3, SettleWritesStatus DEF Quota!End
  <2>4. ASSUME NEW p \in Procs, Writes(p) PROVE Quota!QuotaNext
    BY <1>2, <2>2, <2>3, <2>4, GrantFits, SettleWritesStatus DEF Writes
  <2> QED
    BY <2>1, <2>4
<1> QED
  BY <1>1, <1>2, Invariance, PTL DEF Spec, ImplementsQuota, Quota!QuotaSpec
=============================================================================
