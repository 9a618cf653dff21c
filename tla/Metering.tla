------------------------------ MODULE Metering ------------------------------
(***************************************************************************)
(* The metering engine of the backend: reserve / commit / release over two *)
(* Postgres tables, and the sweeper that reclaims reservations nobody      *)
(* settled (src/backend/src/modules/metering).                             *)
(*                                                                         *)
(* Granularity: one action per SQL statement of a READ COMMITTED           *)
(* transaction.  The tables hold COMMITTED rows only; what an open         *)
(* transaction has written follows from how far it got (pc), and reaches   *)
(* the tables when it commits or is lost when it rolls back.  A statement  *)
(* that touches a row another open transaction has inserted or updated     *)
(* waits: its action is disabled until that transaction ends, and it then  *)
(* sees the committed result.                                              *)
(*                                                                         *)
(* One (subject, meter) pair is modelled: every statement is keyed by it,  *)
(* so two pairs share no row.  A window is then one metering_balance row,  *)
(* an idempotency key at most one metering_ledger row.                     *)
(***************************************************************************)
EXTENDS LedgerSums

CONSTANTS
  Workers,       \* requests and pollers that call the engine
  Sweepers,      \* running cleanup jobs
  Keys,          \* idempotency keys
  Windows,       \* window keys
  Amounts,       \* amounts a consumer reserves
  Limits,        \* limits ops may write in an allowance row
  DefaultLimit,  \* meter_definitions.default_limit
  FailOpen,      \* meter_definitions.fail_mode = 'open'
  BatchSize,     \* rows one cleanup tick reads
  MaxFaults,     \* bound: transactions and jobs lost to errors or crashes
  Unset,         \* "no allowance row"
  NoOpKey        \* the all-zero reservation id of fail_mode = 'open'

ASSUME ProcsAssumption == Workers \cap Sweepers = {}
ASSUME KeysAssumption == IsFiniteSet(Keys) /\ NoOpKey \notin Keys
ASSUME WindowsAssumption == Windows # {}
ASSUME AmountsAssumption == Amounts \subseteq Nat \ {0}
ASSUME LimitsAssumption ==
  /\ Limits \subseteq Nat
  /\ DefaultLimit \in Nat
  /\ Unset \notin Nat
ASSUME SwitchesAssumption ==
  /\ FailOpen \in BOOLEAN
  /\ BatchSize \in Nat \ {0}
  /\ MaxFaults \in Nat

VARIABLES
  ledger,      \* metering_ledger: idempotency key -> row
  lapsed,      \* rank of a row in the order of expires_at once that is past
  balance,     \* metering_balance.consumed, by window
  balanceRows, \* the windows that have a metering_balance row
  override,    \* the subject_allowances limit, or Unset
  plan,        \* the active subscription's plan_allowances limit, or Unset
  ceiling,     \* history: the highest limit in force so far
  pc,          \* next statement of each process
  arg,         \* arguments and RETURNING values of its call
  inserter,    \* processes whose transaction inserted its balance row
  answer,      \* outcome of the last call of each process
  batch,       \* candidates a cleanup job has read and not yet visited
  faults       \* faults so far

tables == <<ledger, balance, balanceRows>>
allowances == <<override, plan, ceiling>>
calls == <<pc, arg, inserter, answer>>
vars == <<tables, lapsed, allowances, calls, batch, faults>>

Procs == Workers \cup Sweepers

Row == [window: Windows, amount: Amounts,
        status: {"reserved", "committed", "released"}]

NoArg == [key |-> NoOpKey, window |-> CHOOSE w \in Windows : TRUE,
          amount |-> 0, limit |-> 0]

-----------------------------------------------------------------------------
(* Row locks, read off the statement each open transaction waits before.   *)

HoldsLedger(p, k) ==
  /\ arg[p].key = k
  /\ pc[p] \in {"ensure", "gate", "grant", "settle", "refund", "refunded"}

\* Faulty variant: a reserve locks the balance row before it claims its key.
HoldsBalance_Early(p, w) ==
  arg[p].window = w /\ pc[p] \in {"claim", "ensure", "gate", "grant", "refunded"}

HoldsBalance(p, w) ==
  /\ arg[p].window = w
  /\ \/ pc[p] \in {"grant", "refunded"}
     \/ pc[p] = "gate" /\ p \in inserter

\* Faulty variant: a statement that does not wait for a locked row.
BalanceFree_NoWait(p) == p \in Procs

LedgerFree(p) == \A q \in Procs \ {p} : ~HoldsLedger(q, arg[p].key)
BalanceFree(p) == \A q \in Procs \ {p} : ~HoldsBalance(q, arg[p].window)

Exists(k) == k \in DOMAIN ledger
Reserved(k) == Exists(k) /\ ledger[k].status = "reserved"
Lapsed(k) == lapsed[k] > 0

Goto(p, label) == pc' = [pc EXCEPT ![p] = label]

\* The call of p ends, its transaction with it, and the caller sees "result".
Return(p, result) ==
  /\ Goto(p, "idle")
  /\ arg' = [arg EXCEPT ![p] = NoArg]
  /\ inserter' = inserter \ {p}
  /\ answer' = [answer EXCEPT ![p] = result]

\* p starts a call: the first statement and the arguments.
Call(p, label, a) ==
  /\ pc[p] = "idle"
  /\ Goto(p, label)
  /\ arg' = [arg EXCEPT ![p] = a]
  /\ answer' = [answer EXCEPT ![p] = "none"]
  /\ UNCHANGED inserter

-----------------------------------------------------------------------------
(* Limits.                                                                 *)

EffectiveLimit(o, pl) ==
  CASE o # Unset  -> o
    [] pl # Unset -> pl
    [] OTHER      -> DefaultLimit

Highest(a, b) == IF a >= b THEN a ELSE b

ChangeAllowance(o, pl) ==
  /\ <<o, pl>> # <<override, plan>>
  /\ override' = o
  /\ plan' = pl
  /\ ceiling' = Highest(ceiling, EffectiveLimit(o, pl))
  /\ UNCHANGED <<tables, lapsed, calls, batch, faults>>

-----------------------------------------------------------------------------
(* reserve().                                                              *)

\* Subject, window and limit are resolved before the transaction begins: the
\* limit may be out of date by the time the gate uses it.
Reserve(p, k, w, a) ==
  /\ Call(p, "claim", [key |-> k, window |-> w, amount |-> a,
                       limit |-> EffectiveLimit(override, plan)])
  /\ UNCHANGED <<tables, lapsed, allowances, batch, faults>>

\* A resolver throws; fail_mode decides whether the caller learns of it.
ResolverFails(p) ==
  /\ pc[p] = "idle"
  /\ answer' = [answer EXCEPT ![p] = IF FailOpen THEN "noop" ELSE "error"]
  /\ UNCHANGED <<tables, lapsed, allowances, pc, arg, inserter, batch, faults>>

\* INSERT INTO metering_ledger ... ON CONFLICT DO NOTHING RETURNING.
Claim(p) ==
  /\ pc[p] = "claim"
  /\ LedgerFree(p)
  /\ Goto(p, IF Exists(arg[p].key) THEN "lookup" ELSE "ensure")
  /\ UNCHANGED <<tables, lapsed, allowances, arg, inserter, answer, batch, faults>>

\* SELECT of the row that won, whatever its status.
Lookup(p) ==
  /\ pc[p] = "lookup"
  /\ Return(p, IF Exists(arg[p].key) THEN "reused" ELSE "error")
  /\ UNCHANGED <<tables, lapsed, allowances, batch, faults>>

\* INSERT INTO metering_balance ... ON CONFLICT DO NOTHING.
EnsureBalance(p) ==
  /\ pc[p] = "ensure"
  /\ BalanceFree(p)
  /\ Goto(p, "gate")
  /\ inserter' = IF arg[p].window \in balanceRows THEN inserter
                                                  ELSE inserter \cup {p}
  /\ UNCHANGED <<tables, lapsed, allowances, arg, answer, batch, faults>>

Fits(p) == balance[arg[p].window] + arg[p].amount <= arg[p].limit

\* The conditional UPDATE affects the row ...
Gate(p) ==
  /\ pc[p] = "gate"
  /\ BalanceFree(p)
  /\ Fits(p)
  /\ Goto(p, "grant")
  /\ UNCHANGED <<tables, lapsed, allowances, arg, inserter, answer, batch, faults>>

\* ... or none: MeterLimitExceededError rolls the ledger INSERT back.
Deny(p) ==
  /\ pc[p] = "gate"
  /\ BalanceFree(p)
  /\ ~Fits(p)
  /\ Return(p, "denied")
  /\ UNCHANGED <<tables, lapsed, allowances, batch, faults>>

\* COMMIT of a granted reserve: the ledger row and the charge appear together.
CommitGrant(p) ==
  /\ pc[p] = "grant"
  /\ ledger' = WithRow(ledger, arg[p].key,
                       [window |-> arg[p].window, amount |-> arg[p].amount,
                        status |-> "reserved"])
  /\ balance' = [balance EXCEPT ![arg[p].window] = @ + arg[p].amount]
  /\ balanceRows' = balanceRows \cup {arg[p].window}
  /\ Return(p, "granted")
  /\ UNCHANGED <<lapsed, allowances, batch, faults>>

-----------------------------------------------------------------------------
(* commit(), release() and releaseByLedgerId().                            *)

\* The reservation ids a consumer can hold: those of granted reservations and,
\* after a fail-open answer, the all-zero one.
KnownTo(p) == DOMAIN ledger \cup (IF answer[p] = "noop" THEN {NoOpKey} ELSE {})

Settle(p, how, k) ==
  /\ Call(p, how, [NoArg EXCEPT !.key = k])
  /\ UNCHANGED <<tables, lapsed, allowances, batch, faults>>

StartCommit(p, k) == k \in KnownTo(p) /\ Settle(p, "commit", k)
StartRelease(p, k) == k \in KnownTo(p) /\ Settle(p, "release", k)

\* Faulty variant: AND status = 'reserved' is dropped.
Matches_AnyStatus(p) == Exists(arg[p].key)

\* The WHERE clause of each guarded UPDATE.
Matches(p) ==
  /\ Reserved(arg[p].key)
  /\ pc[p] = "sweep" => Lapsed(arg[p].key)

\* UPDATE metering_ledger SET status = 'committed' ... AND status = 'reserved'.
FlipCommitted(p) ==
  /\ pc[p] = "commit"
  /\ LedgerFree(p)
  /\ Matches(p)
  /\ Goto(p, "settle")
  /\ UNCHANGED <<tables, lapsed, allowances, arg, inserter, answer, batch, faults>>

\* UPDATE metering_ledger SET status = 'released' ... RETURNING amount, window.
FlipReleased(p) ==
  /\ pc[p] \in {"release", "sweep"}
  /\ LedgerFree(p)
  /\ Matches(p)
  /\ Goto(p, "refund")
  /\ arg' = [arg EXCEPT ![p].window = ledger[arg[p].key].window,
                        ![p].amount = ledger[arg[p].key].amount]
  /\ UNCHANGED <<tables, lapsed, allowances, inserter, answer, batch, faults>>

\* The guarded UPDATE affects no row.
FlipLost(p) ==
  /\ pc[p] \in {"commit", "release", "sweep"}
  /\ LedgerFree(p)
  /\ ~Matches(p)
  /\ Goto(p, "report")
  /\ UNCHANGED <<tables, lapsed, allowances, arg, inserter, answer, batch, faults>>

\* SELECT status: { applied: false, status }.
Report(p) ==
  /\ pc[p] = "report"
  /\ Return(p, IF Exists(arg[p].key) THEN ledger[arg[p].key].status
                                     ELSE "missing")
  /\ UNCHANGED <<tables, lapsed, allowances, batch, faults>>

\* The refund UPDATE; CHECK (consumed >= 0) aborts the transaction.
Refund(p) ==
  /\ pc[p] = "refund"
  /\ BalanceFree(p)
  /\ IF arg[p].window \in balanceRows => arg[p].amount <= balance[arg[p].window]
       THEN Goto(p, "refunded") /\ UNCHANGED <<arg, inserter, answer>>
       ELSE Return(p, "error")
  /\ UNCHANGED <<tables, lapsed, allowances, batch, faults>>

SetStatus(k, s) == ledger' = [ledger EXCEPT ![k].status = s]

CommitSettle(p) ==
  /\ pc[p] = "settle"
  /\ SetStatus(arg[p].key, "committed")
  /\ Return(p, "applied")
  /\ UNCHANGED <<balance, balanceRows, lapsed, allowances, batch, faults>>

\* Faulty variant: the refund runs twice.
CommitRefund_Twice(p) ==
  /\ pc[p] = "refunded"
  /\ SetStatus(arg[p].key, "released")
  /\ balance' = [balance EXCEPT ![arg[p].window] = @ - 2 * arg[p].amount]
  /\ Return(p, "applied")
  /\ UNCHANGED <<balanceRows, lapsed, allowances, batch, faults>>

CommitRefund(p) ==
  /\ pc[p] = "refunded"
  /\ SetStatus(arg[p].key, "released")
  /\ balance' = IF arg[p].window \in balanceRows
                  THEN [balance EXCEPT ![arg[p].window] = @ - arg[p].amount]
                  ELSE balance
  /\ Return(p, "applied")
  /\ UNCHANGED <<balanceRows, lapsed, allowances, batch, faults>>

\* A statement or the COMMIT throws, or the process dies: everything the open
\* transaction wrote is rolled back.
Fail(p) ==
  /\ pc[p] # "idle"
  /\ faults < MaxFaults
  /\ faults' = faults + 1
  /\ Return(p, "error")
  /\ UNCHANGED <<tables, lapsed, allowances, batch>>

-----------------------------------------------------------------------------
(* Time and the sweeper.                                                   *)

\* expires_at of a reserved row passes.  The rank stands for the timestamp:
\* the sweeper only compares it with now and with other rows' timestamps.
Expire(k) ==
  /\ Reserved(k)
  /\ ~Lapsed(k)
  /\ lapsed' = [lapsed EXCEPT ![k] = 1 + Cardinality({j \in Keys : Lapsed(j)})]
  /\ UNCHANGED <<tables, allowances, calls, batch, faults>>

\* Faulty variant: the candidate query forgets expires_at < NOW().
Dangling_NotLapsed == {k \in DOMAIN ledger : Reserved(k)}

Dangling == {k \in DOMAIN ledger : Reserved(k) /\ Lapsed(k)}

Older(S, k) == {j \in S : lapsed[j] < lapsed[k]}

\* Faulty variant: the LIMIT is off by one.
Candidates_OffByOne ==
  {k \in Dangling : Cardinality(Older(Dangling, k)) < BatchSize - 1}

\* ORDER BY expires_at ASC LIMIT BATCH_SIZE.
Candidates == {k \in Dangling : Cardinality(Older(Dangling, k)) < BatchSize}

\* A cleanup job starts: one SELECT, outside any transaction.
Tick(s) ==
  /\ pc[s] = "idle"
  /\ batch[s] = {}
  /\ Candidates # {}
  /\ batch' = [batch EXCEPT ![s] = Candidates]
  /\ UNCHANGED <<tables, lapsed, allowances, calls, faults>>

\* Next row of the batch, oldest first: releaseByLedgerId.  A row that throws
\* (Fail) is left behind and the loop goes on.
Sweep(s, k) ==
  /\ k \in batch[s]
  /\ Older(batch[s], k) = {}
  /\ Call(s, "sweep", [NoArg EXCEPT !.key = k])
  /\ batch' = [batch EXCEPT ![s] = @ \ {k}]
  /\ UNCHANGED <<tables, lapsed, allowances, faults>>

\* The worker process dies in the middle of a batch.
SweeperDies(s) ==
  /\ batch[s] # {}
  /\ faults < MaxFaults
  /\ faults' = faults + 1
  /\ batch' = [batch EXCEPT ![s] = {}]
  /\ Return(s, "error")
  /\ UNCHANGED <<tables, lapsed, allowances>>

-----------------------------------------------------------------------------
Init ==
  /\ ledger = [k \in {} |-> k]
  /\ lapsed = [k \in Keys |-> 0]
  /\ balance = [w \in Windows |-> 0]
  /\ balanceRows = {}
  /\ override = Unset
  /\ plan = Unset
  /\ ceiling = DefaultLimit
  /\ pc = [p \in Procs |-> "idle"]
  /\ arg = [p \in Procs |-> NoArg]
  /\ inserter = {}
  /\ answer = [p \in Procs |-> "none"]
  /\ batch = [s \in Sweepers |-> {}]
  /\ faults = 0

\* The statements of a call that has begun.
Step(p) ==
  \/ Claim(p) \/ Lookup(p) \/ EnsureBalance(p) \/ Gate(p) \/ Deny(p)
  \/ CommitGrant(p)
  \/ FlipCommitted(p) \/ FlipReleased(p) \/ FlipLost(p) \/ Report(p)
  \/ Refund(p) \/ CommitSettle(p) \/ CommitRefund(p)

Start(p) ==
  \/ \E k \in Keys, w \in Windows, a \in Amounts : Reserve(p, k, w, a)
  \/ ResolverFails(p)
  \/ \E k \in Keys \cup {NoOpKey} : StartCommit(p, k) \/ StartRelease(p, k)

SweepStep(s) == Tick(s) \/ \E k \in Keys : Sweep(s, k)

Next ==
  \/ \E p \in Workers : Start(p)
  \/ \E p \in Procs : Step(p) \/ Fail(p)
  \/ \E s \in Sweepers : SweepStep(s) \/ SweeperDies(s)
  \/ \E k \in Keys : Expire(k)
  \/ \E o \in Limits \cup {Unset}, pl \in Limits \cup {Unset} :
       ChangeAllowance(o, pl)

\* A call that has begun runs to its end (strong fairness: Postgres queues the
\* transactions that wait for a row, so newcomers cannot overtake for ever),
\* time passes, and the scheduler starts a cleanup job every five minutes.
Fairness ==
  /\ \A p \in Procs : SF_vars(Step(p))
  /\ \A s \in Sweepers : WF_vars(SweepStep(s))
  /\ \A k \in Keys : WF_vars(Expire(k))

Spec == Init /\ [][Next]_vars
FairSpec == Spec /\ Fairness
-----------------------------------------------------------------------------
(* Properties.                                                             *)

Quota == INSTANCE MeterQuota WITH entry <- ledger, quota <- ceiling

Labels == {"idle", "claim", "lookup", "ensure", "gate", "grant", "commit",
           "release", "sweep", "settle", "refund", "refunded", "report"}

Answers == {"none", "granted", "reused", "denied", "noop", "error", "applied",
            "reserved", "committed", "released", "missing"}

\* Types of the tables, the calls in progress and the cleanup jobs.
TypeOK ==
  /\ DOMAIN ledger \subseteq Keys
  /\ ledger \in [DOMAIN ledger -> Row]
  /\ lapsed \in [Keys -> Nat]
  /\ balance \in [Windows -> Nat]
  /\ balanceRows \subseteq Windows
  /\ override \in Limits \cup {Unset}
  /\ plan \in Limits \cup {Unset}
  /\ ceiling \in Nat
  /\ pc \in [Procs -> Labels]
  /\ arg \in [Procs -> [key : Keys \cup {NoOpKey}, window : Windows,
                        amount : Amounts \cup {0}, limit : Nat]]
  /\ inserter \subseteq Procs
  /\ answer \in [Procs -> Answers]
  /\ batch \in [Sweepers -> SUBSET Keys]
  /\ faults \in Nat

\* The balance row, a projection that is only ever incremented and decremented,
\* equals the sum of the ledger rows that are reserved or committed: no charge
\* is lost or doubled and no refund runs twice, whatever calls race
\* (metering.service.ts, reserve, release and releaseByLedgerId).
BalanceMatchesLedger == \A w \in Windows : balance[w] = Used(ledger, w)

\* At most one of the callers that commit, release or sweep a reservation gets
\* "affected = 1", and while it holds the row nobody else has settled it.
OneSettlesARow ==
  \A p \in Procs : pc[p] \in {"settle", "refund", "refunded"} =>
    /\ Reserved(arg[p].key)
    /\ \A q \in Procs \ {p} : ~HoldsLedger(q, arg[p].key)

\* The refund of a released row is always covered by the balance row it was
\* charged to, so CHECK (consumed >= 0) never fires and no refund is dropped.
RefundIsCovered ==
  \A p \in Procs : pc[p] = "refund" =>
    arg[p].window \in balanceRows /\ arg[p].amount <= balance[arg[p].window]

\* A reserve that loses its INSERT to a peer finds the peer's committed row:
\* the "ON CONFLICT fired but no existing ledger row" branch is dead, although
\* a denied or failed peer takes its own row back.
LoserFindsRow == \A p \in Procs : pc[p] = "lookup" => Exists(arg[p].key)

\* A call that returns { applied: false } for a row that exists found it
\* committed or released: in particular no job sweeps a row whose TTL still runs.
LostMeansSettled ==
  \A p \in Procs : pc[p] = "report" /\ Exists(arg[p].key) =>
    ledger[arg[p].key].status \in {"committed", "released"}

\* Whoever loses a race is told the truth about the winner, although it learns of
\* it in a later statement.
LosersAreInformed == LoserFindsRow /\ LostMeansSettled

\* The statement p is about to run touches a row that q has written.
WaitsFor(p, q) ==
  /\ q # p
  /\ \/ /\ pc[p] \in {"claim", "commit", "release", "sweep"}
        /\ HoldsLedger(q, arg[p].key)
     \/ /\ pc[p] \in {"ensure", "gate", "refund"}
        /\ HoldsBalance(q, arg[p].window)

\* However many transactions wait for each other's rows, one of them can go on:
\* reserve and release both write the ledger row before the balance row, so
\* Postgres never finds a deadlock among them to break by aborting one.
NoCircularWait ==
  \A S \in SUBSET Procs : S # {} => \E p \in S : \A q \in S : ~WaitsFor(p, q)

\* The window is never oversold, although the gate uses a limit resolved before
\* its transaction began and ops may lower the limit at any time: what is
\* reserved and committed never exceeds the highest limit that was in force.
NeverOversold == \A w \in Windows : Used(ledger, w) <= ceiling

\* No reservation is granted beyond the limit its own call resolved, however
\* stale: after a grant the live rows of the window sum to at most that limit.
GrantWithinResolvedLimit ==
  [][\A p \in Procs :
       pc[p] = "grant" /\ pc'[p] = "idle" /\ answer'[p] = "granted" =>
         Used(ledger', arg[p].window) <= arg[p].limit]_vars

\* The ledger is append-only: a row keeps its window and amount for ever, and a
\* committed or released row keeps its status (a late commit of a swept row,
\* or a late release of a committed one, changes nothing).
SettledIsFinal ==
  [][\A k \in DOMAIN ledger :
       /\ k \in DOMAIN ledger'
       /\ ledger'[k] # ledger[k] =>
            /\ ledger[k].status = "reserved"
            /\ ledger'[k].window = ledger[k].window
            /\ ledger'[k].amount = ledger[k].amount]_vars

\* The engine implements the quota: balance, transactions, locks and sweeper
\* are invisible in the ledger.
ImplementsQuota == Quota!QuotaSpec

\* Every call returns: row locks are always taken ledger first, balance second,
\* so transactions never wait on each other in a circle.
CallsReturn == \A p \in Procs : pc[p] # "idle" ~> pc[p] = "idle"

\* Capacity is never held for ever: a reservation nobody settles (its consumer
\* crashed, or its id was lost) is released by the sweeper.
ReservationsSettle == \A k \in Keys : Reserved(k) ~> ~Reserved(k)

-----------------------------------------------------------------------------
(* The inductive invariant behind the properties above.                    *)

\* No two transactions hold the same row.
LocksExclusive ==
  \A p \in Procs : \A q \in Procs \ {p} :
    /\ \A k \in Keys : ~(HoldsLedger(p, k) /\ HoldsLedger(q, k))
    /\ \A w \in Windows : ~(HoldsBalance(p, w) /\ HoldsBalance(q, w))

\* What a reserve knows between its statements.
ReserveConsistent(p) ==
  /\ pc[p] \in {"claim", "lookup", "ensure", "gate", "grant"} =>
       arg[p].key \in Keys /\ arg[p].amount \in Amounts /\ arg[p].limit <= ceiling
  /\ pc[p] \in {"ensure", "gate", "grant"} => ~Exists(arg[p].key)
  /\ pc[p] = "lookup" => Exists(arg[p].key)
  /\ pc[p] = "grant" => Fits(p)

\* What a commit, a release or a sweep knows between its statements.
SettleConsistent(p) ==
  /\ pc[p] \in {"commit", "release", "sweep", "report"} =>
       arg[p].key = NoOpKey \/ Exists(arg[p].key)
  /\ pc[p] = "sweep" => Exists(arg[p].key) /\ Lapsed(arg[p].key)
  /\ pc[p] \in {"settle", "refund", "refunded"} => Reserved(arg[p].key)
  /\ pc[p] \in {"refund", "refunded"} =>
       /\ arg[p].window = ledger[arg[p].key].window
       /\ arg[p].amount = ledger[arg[p].key].amount
  /\ pc[p] = "report" /\ Exists(arg[p].key) =>
       ledger[arg[p].key].status \in {"committed", "released"}

\* A candidate of a cleanup job has a row whose TTL is over.
BatchLapsed ==
  \A s \in Sweepers : \A k \in batch[s] : Exists(k) /\ Lapsed(k)

\* Every ledger row was charged to a balance row that exists.
RowsBacked == \A k \in DOMAIN ledger : ledger[k].window \in balanceRows

CeilingIsHighest ==
  /\ EffectiveLimit(override, plan) \in Nat
  /\ EffectiveLimit(override, plan) <= ceiling

IInv ==
  /\ TypeOK
  /\ LocksExclusive
  /\ \A p \in Procs : ReserveConsistent(p) /\ SettleConsistent(p)
  /\ BatchLapsed
  /\ RowsBacked
  /\ CeilingIsHighest
  /\ \A w \in Windows : IsFiniteSet(UsedUnits(ledger, w))
  /\ BalanceMatchesLedger
=============================================================================
