----------------------------- MODULE LedgerSums -----------------------------
(***************************************************************************)
(* How much of a window a ledger uses.  A ledger is a function from the    *)
(* keys that have a row to rows [window, amount, status]; a row counts     *)
(* unless it was released.  The sum of the amounts is the cardinality of   *)
(* the set of units taken, a form the provers can reason about.            *)
(***************************************************************************)
EXTENDS Integers, FiniteSets

\* The keys whose row counts against window w.
Live(e, w) == {k \in DOMAIN e : e[k].window = w /\ e[k].status # "released"}

\* The units of capacity the row of k takes.
Units(e, k) == {k} \X (1 .. e[k].amount)

UsedUnits(e, w) == UNION {Units(e, k) : k \in Live(e, w)}

Used(e, w) == Cardinality(UsedUnits(e, w))

\* The ledger e with a row for k.
WithRow(e, k, row) ==
  [j \in DOMAIN e \cup {k} |-> IF j = k THEN row ELSE e[j]]
=============================================================================
