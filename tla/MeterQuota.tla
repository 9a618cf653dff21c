----------------------------- MODULE MeterQuota -----------------------------
(***************************************************************************)
(* What the metering engine promises, without balance rows, transactions,  *)
(* locks or a sweeper: a key is granted at most once and only while the    *)
(* live grants of its window leave room under the quota; a grant ends      *)
(* committed (it counts for ever) or released (it counts no longer).       *)
(***************************************************************************)
EXTENDS LedgerSums

CONSTANTS Keys, Windows, Amounts

VARIABLES
  entry,  \* granted key -> [window, amount, status]
  quota   \* the highest limit in force so far

quotaVars == <<entry, quota>>

Grant(k, w, a) ==
  /\ k \notin DOMAIN entry
  /\ Used(entry, w) + a <= quota
  /\ entry' = WithRow(entry, k,
                      [window |-> w, amount |-> a, status |-> "reserved"])
  /\ UNCHANGED quota

End(k, s) ==
  /\ k \in DOMAIN entry
  /\ entry[k].status = "reserved"
  /\ entry' = [entry EXCEPT ![k].status = s]
  /\ UNCHANGED quota

RaiseQuota ==
  /\ quota' \in Nat
  /\ quota' > quota
  /\ UNCHANGED entry

QuotaInit == entry = [k \in {} |-> k] /\ quota \in Nat

QuotaNext ==
  \/ \E k \in Keys, w \in Windows, a \in Amounts : Grant(k, w, a)
  \/ \E k \in Keys, s \in {"committed", "released"} : End(k, s)
  \/ RaiseQuota

QuotaSpec == QuotaInit /\ [][QuotaNext]_quotaVars
=============================================================================
