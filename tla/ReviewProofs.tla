---------------------------- MODULE ReviewProofs ----------------------------
(***************************************************************************)
(* Theorems about Review, for any number of runs, people, findings and     *)
(* faults.                                                                 *)
(***************************************************************************)
EXTENDS Review, TLAPS

-----------------------------------------------------------------------------
(* The inductive invariant.                                                *)

\* What a run holds at each of its statements.
RunsAreCharged ==
  \A f \in Finalizes :
    /\ request[f] # "new" => f \in DOMAIN entry
    /\ request[f] \in {"new", "dispatchRisk", "inflight"} => poller[f]["risk"] = "off"
    /\ request[f] \notin {"done", "lost"} => poller[f]["conflict"] = "off"
    /\ Refunded(f) => /\ request[f] # "dispatchRisk"
                      /\ poller[f]["risk"] \in {"off", "done"}
                      /\ saved[f]["risk"] = 0

\* How far a poller is with its findings.
RowsAreCounted ==
  \A f \in Finalizes, k \in Pollers :
    /\ poller[f][k] \notin {"save", "done"} => saved[f][k] = 0
    /\ poller[f][k] = "save" => saved[f][k] < Findings

\* A finding that was saved; its row may have been cleared since.
Known(id, counts) == id \in Ids /\ id[3] <= counts[id[1]][id[2]]

\* People work at rows that were saved.
CallsKnowRows == \A h \in Humans : human[h] # "idle" => Known(call[h].id, saved)

IInv == TypeOK /\ RunsAreCharged /\ RowsAreCounted /\ CallsKnowRows

-----------------------------------------------------------------------------
(* Types.                                                                  *)

EntryRow == [window : {Window}, amount : {1},
             status : {"reserved", "committed", "released"}]

MeterTyped ==
  /\ DOMAIN entry \subseteq Finalizes
  /\ entry \in [DOMAIN entry -> EntryRow]
  /\ quota \in Nat
  /\ swept \subseteq DOMAIN entry

RunsTyped ==
  /\ request \in [Finalizes ->
                    {"new", "dispatchRisk", "inflight", "dispatchObligations",
                     "dispatchConflicts", "done", "lost"}]
  /\ poller \in [Finalizes ->
                   [Pollers -> {"off", "ask", "commit", "commitEmpty",
                                "refund", "clear", "save", "done"}]]
  /\ saved \in [Finalizes -> [Pollers -> 0 .. Findings]]

RowsTyped ==
  /\ risks \in [DOMAIN risks -> RiskRow]
  /\ \A r \in DOMAIN risks : Known(r, saved)

PeopleTyped ==
  /\ human \in [Humans -> {"idle", "select", "update", "insert"}]
  /\ call \in [Humans -> [id : Ids \cup {None}, entity : RiskRow,
                          columns : SUBSET DOMAIN NewRisk]]
  /\ calls \in 0 .. MaxCalls
  /\ faults \in 0 .. MaxFaults

LEMMA TypeParts == TypeOK <=> MeterTyped /\ RunsTyped /\ RowsTyped /\ PeopleTyped
BY DEF TypeOK, MeterTyped, RunsTyped, RowsTyped, PeopleTyped, EntryRow, Known

\* A settlement writes the status of one row that was reserved.
LEMMA EndRow ==
  ASSUME MeterTyped, NEW f, NEW s \in {"committed", "released"}, Meter!End(f, s)
  PROVE  /\ f \in DOMAIN entry /\ f \in Finalizes /\ entry[f].status = "reserved"
         /\ DOMAIN entry' = DOMAIN entry
         /\ entry'[f].status = s
         /\ \A g \in DOMAIN entry \ {f} : entry'[g] = entry[g]
         /\ entry' \in [DOMAIN entry -> EntryRow]
         /\ quota' = quota
<1>1. f \in DOMAIN entry /\ entry[f] \in EntryRow
  BY DEF Meter!End, MeterTyped
<1>2. [entry[f] EXCEPT !.status = s] \in EntryRow
  BY <1>1 DEF EntryRow
<1>3. [entry[f] EXCEPT !.status = s].status = s
  BY <1>1 DEF EntryRow
<1> QED
  BY <1>1, <1>2, <1>3 DEF Meter!End, MeterTyped

\* A grant adds a reserved row.
LEMMA GrantRow ==
  ASSUME MeterTyped, NEW f \in Finalizes, Meter!Grant(f, Window, 1)
  PROVE  /\ f \notin DOMAIN entry
         /\ DOMAIN entry' = DOMAIN entry \cup {f}
         /\ entry'[f].status = "reserved"
         /\ \A g \in DOMAIN entry : entry'[g] = entry[g]
         /\ entry' \in [DOMAIN entry' -> EntryRow]
         /\ quota' = quota
<1> DEFINE row == [window |-> Window, amount |-> 1, status |-> "reserved"]
<1>1. row \in EntryRow /\ row.status = "reserved"
  BY DEF EntryRow
<1>2. /\ f \notin DOMAIN entry /\ quota' = quota
      /\ entry' = [j \in DOMAIN entry \cup {f} |-> IF j = f THEN row ELSE entry[j]]
  BY DEF Meter!Grant, Meter!WithRow
<1> HIDE DEF row
<1>3. entry \in [DOMAIN entry -> EntryRow]
  BY DEF MeterTyped
<1>4. DOMAIN entry' = DOMAIN entry \cup {f} /\ entry'[f] = row
  BY <1>2
<1>5. \A g \in DOMAIN entry : entry'[g] = entry[g]
  BY <1>2
<1>6. entry' \in [DOMAIN entry \cup {f} -> EntryRow]
  BY <1>1, <1>2, <1>3
<1> QED
  BY <1>1, <1>2, <1>4, <1>5, <1>6

\* Settle leaves no reserved row.
LEMMA SettleRow ==
  ASSUME MeterTyped, NEW f \in DOMAIN entry, NEW s \in {"committed", "released"},
         Settle(f, s)
  PROVE  /\ MeterTyped' /\ DOMAIN entry' = DOMAIN entry /\ swept' = swept
         /\ entry'[f].status = IF entry[f].status = "reserved" THEN s ELSE entry[f].status
         /\ \A g \in DOMAIN entry \ {f} : entry'[g] = entry[g]
<1>1. CASE entry[f].status = "reserved"
  BY <1>1, EndRow DEF Settle, MeterTyped
<1>2. CASE entry[f].status # "reserved"
  BY <1>2 DEF Settle, MeterTyped
<1> QED
  BY <1>1, <1>2

-----------------------------------------------------------------------------
(* The steps of the runs.                                                  *)

\* What a step may do to one run, and to nothing of the others.
RunMoves(f) ==
  \/ Finalize(f) \/ Step(f)
  \/ SettleThrows(f) \/ ProcessDies(f) \/ Sweep(f)
  \/ \E k \in Pollers : PollerStep(f, k) \/ PollerThrows(f, k)

HumanMoves(h) ==
  \/ SelectRow(h) \/ UpdateRow(h) \/ InsertRow(h)
  \/ \E r \in Ids : Annotate(h, r) \/ UpdateStatus(h, r) \/ Merge(h, r)

LEMMA NextCases ==
  ASSUME [Next]_vars
  PROVE  \/ \E f \in Finalizes : RunMoves(f)
         \/ \E h \in Humans : HumanMoves(h)
         \/ UNCHANGED vars
BY DEF Next, RunMoves, HumanMoves

LEMMA HumansLeaveRuns ==
  ASSUME NEW h \in Humans, HumanMoves(h)
  PROVE  UNCHANGED <<meter, run, faults>>
BY DEF HumanMoves, SelectRow, UpdateRow, InsertRow, Annotate, UpdateStatus, Merge,
       Load, Leave

LEMMA RunsLeavePeople ==
  ASSUME NEW f \in Finalizes, RunMoves(f)
  PROVE  UNCHANGED people
BY DEF RunMoves, Finalize, Step, SettleThrows, ProcessDies, Sweep, PollerStep,
       PollerThrows, DispatchRisk, DispatchRiskFails, ReleaseInFlight,
       DispatchObligations, DispatchConflicts, AskJob, GiveUp, SaveRow, Commit, Refund,
       Clear

\* Where a run stands: a state of the run or of its pollers.
Quiet(f) == UNCHANGED <<entry, quota, swept>>

\* The statements of a run that settle or grant.
Settles(f) ==
  Finalize(f) \/ ReleaseInFlight(f) \/ Refund(f) \/ Commit(f) \/ Sweep(f)

LEMMA QuietSteps ==
  ASSUME NEW f \in Finalizes, RunMoves(f), ~Settles(f)
  PROVE  Quiet(f)
BY DEF RunMoves, Settles, Quiet, Step, SettleThrows, ProcessDies, PollerStep, meter,
       PollerThrows, DispatchRisk, DispatchRiskFails, DispatchObligations,
       DispatchConflicts, AskJob, GiveUp, SaveRow, Clear

LEMMA RunsTypedStep ==
  ASSUME RunsTyped, RowsAreCounted, NEW f \in Finalizes, RunMoves(f)
  PROVE  /\ RunsTyped'
         /\ \A g \in Finalizes \ {f} :
              request'[g] = request[g] /\ poller'[g] = poller[g] /\ saved'[g] = saved[g]
<1> DEFINE Only == \A g \in Finalizes \ {f} :
              request'[g] = request[g] /\ poller'[g] = poller[g] /\ saved'[g] = saved[g]
<1>1. CASE Finalize(f) \/ Step(f) \/ Sweep(f)
  <2>1. CASE Finalize(f) \/ Sweep(f)
    BY <2>1 DEF Finalize, Sweep, At, RunsTyped, run
  <2>2. CASE DispatchRisk(f)
    BY <2>2 DEF DispatchRisk, At, Poll, RunsTyped, Pollers
  <2>3. CASE DispatchRiskFails(f) \/ ReleaseInFlight(f) \/ DispatchObligations(f)
    BY <2>3 DEF DispatchRiskFails, ReleaseInFlight, DispatchObligations, At, RunsTyped
  <2>4. CASE DispatchConflicts(f)
    BY <2>4 DEF DispatchConflicts, At, Poll, RunsTyped, Pollers
  <2> QED
    BY <1>1, <2>1, <2>2, <2>3, <2>4 DEF Step
<1>2. CASE SettleThrows(f)
  BY <1>2 DEF SettleThrows, AfterCommit, At, Poll, RunsTyped, run, Pollers
<1>3. CASE ProcessDies(f)
  BY <1>3 DEF ProcessDies, At, RunsTyped, Pollers
<1>4. ASSUME NEW k \in Pollers, PollerThrows(f, k) PROVE RunsTyped' /\ Only
  BY <1>4 DEF PollerThrows, Poll, RunsTyped
<1>5. ASSUME NEW k \in Pollers, PollerStep(f, k) PROVE RunsTyped' /\ Only
  <2>1. CASE AskJob(f, k)
    BY <2>1 DEF AskJob, Outcomes, Poll, RunsTyped
  <2>2. CASE GiveUp(f, k)
    BY <2>2 DEF GiveUp, Poll, RunsTyped
  <2>3. CASE SaveRow(f, k)
    <3> DEFINE n == saved[f][k] + 1
    <3>1. n \in 0 .. Findings
      BY <2>3, BoundsAssumption DEF SaveRow, RunsTyped, RowsAreCounted
    <3>2. PICK label \in {"done", "save"} :
            /\ poller' = [poller EXCEPT ![f][k] = label]
            /\ saved' = [saved EXCEPT ![f][k] = n] /\ request' = request
      BY <2>3 DEF SaveRow, Poll
    <3> HIDE DEF n
    <3>3. saved' \in [Finalizes -> [Pollers -> 0 .. Findings]]
      BY <3>1, <3>2 DEF RunsTyped
    <3>4. poller' \in [Finalizes ->
                        [Pollers -> {"off", "ask", "commit", "commitEmpty",
                                     "refund", "clear", "save", "done"}]]
      BY <3>2 DEF RunsTyped
    <3>5. Only
      BY <3>2 DEF RunsTyped
    <3> QED
      BY <3>2, <3>3, <3>4, <3>5 DEF RunsTyped
  <2>4. CASE Commit(f) \/ Refund(f) \/ Clear(f)
    BY <2>4 DEF Commit, Refund, Clear, AfterCommit, Poll, RunsTyped, Pollers
  <2> QED
    BY <1>5, <2>1, <2>2, <2>3, <2>4 DEF PollerStep
<1> QED
  BY <1>1, <1>2, <1>3, <1>4, <1>5 DEF RunMoves

LEMMA MeterTypedStep ==
  ASSUME MeterTyped, RunsTyped, RunsAreCharged, NEW f \in Finalizes, RunMoves(f)
  PROVE  /\ MeterTyped'
         /\ \A g \in Finalizes \ {f} : /\ g \in DOMAIN entry' <=> g \in DOMAIN entry
                                       /\ g \in DOMAIN entry => entry'[g] = entry[g]
                                       /\ g \in swept' <=> g \in swept
<1>1. CASE ~Settles(f)
  BY <1>1, QuietSteps DEF Quiet, MeterTyped
<1>2. CASE Finalize(f)
  BY <1>2, GrantRow DEF Finalize, MeterTyped
<1>3. CASE Sweep(f)
  BY <1>3, EndRow DEF Sweep, MeterTyped
<1>4. CASE ReleaseInFlight(f) \/ Refund(f) \/ Commit(f)
  <2>1. request[f] # "new"
    BY <1>4 DEF ReleaseInFlight, Refund, Commit, Committing, RunsAreCharged
  <2>2. f \in DOMAIN entry
    BY <2>1 DEF RunsAreCharged
  <2>3. PICK s \in {"committed", "released"} : Settle(f, s)
    BY <1>4 DEF ReleaseInFlight, Refund, Commit
  <2> QED
    BY <2>2, <2>3, SettleRow
<1> QED
  BY <1>1, <1>2, <1>3, <1>4 DEF Settles

-----------------------------------------------------------------------------
(* The other conjuncts.                                                    *)

LEMMA CountedStep ==
  ASSUME RunsTyped, RowsAreCounted, RunsAreCharged, NEW f \in Finalizes, RunMoves(f)
  PROVE  RowsAreCounted'
<1> DEFINE Counted(g, k) == /\ poller'[g][k] \notin {"save", "done"} => saved'[g][k] = 0
                            /\ poller'[g][k] = "save" => saved'[g][k] < Findings
<1> SUFFICES ASSUME NEW g \in Finalizes, NEW k \in Pollers PROVE Counted(g, k)
  BY DEF RowsAreCounted
<1>1. (poller'[g][k] = poller[g][k] /\ saved'[g][k] = saved[g][k]) => Counted(g, k)
  BY DEF RowsAreCounted
<1>2. CASE g # f
  BY <1>1, <1>2, RunsTypedStep
<1>3. ASSUME g = f, UNCHANGED saved, NEW j \in Pollers, NEW label,
             poller' = [poller EXCEPT ![f][j] = label],
             poller[f][j] \notin {"save", "done"} \/ label = "done"
      PROVE  Counted(g, k)
  BY <1>1, <1>3, BoundsAssumption DEF RunsTyped, RowsAreCounted
<1>4. CASE g = f /\ UNCHANGED run
  BY <1>1, <1>4 DEF run
<1>5. CASE g = f /\ (Finalize(f) \/ Step(f) \/ Sweep(f))
  <2>1. CASE UNCHANGED <<poller, saved>>
    BY <1>1, <2>1
  <2>2. CASE DispatchRisk(f)
    <3>1. poller[f]["risk"] = "off"
      BY <2>2 DEF DispatchRisk, RunsAreCharged
    <3> QED
      BY <1>3, <1>5, <2>2, <3>1 DEF DispatchRisk, Poll, Pollers
  <2>3. CASE DispatchConflicts(f) /\ poller' # poller
    <3>1. Poll(f, "conflict", "ask") /\ UNCHANGED saved
      BY <2>3 DEF DispatchConflicts
    <3>2. poller[f]["conflict"] = "off"
      BY <2>3 DEF DispatchConflicts, RunsAreCharged
    <3> QED
      BY <1>3, <1>5, <3>1, <3>2 DEF Poll, Pollers
  <2> QED
    BY <1>5, <2>1, <2>2, <2>3 DEF Finalize, Step, Sweep, run, DispatchRiskFails,
       ReleaseInFlight, DispatchObligations, DispatchConflicts
<1>6. CASE g = f /\ SettleThrows(f)
  BY <1>3, <1>6 DEF SettleThrows, Committing, AfterCommit, Poll, Pollers
<1>7. CASE g = f /\ ProcessDies(f)
  BY <1>7 DEF ProcessDies, RunsTyped, Pollers
<1>8. ASSUME g = f, NEW j \in Pollers, PollerThrows(f, j) PROVE Counted(g, k)
  BY <1>3, <1>8 DEF PollerThrows, Poll
<1>9. ASSUME g = f, NEW j \in Pollers, PollerStep(f, j) PROVE Counted(g, k)
  <2>1. CASE AskJob(f, j) \/ GiveUp(f, j)
    <3>1. PICK label : Poll(f, j, label)
      BY <2>1 DEF AskJob, GiveUp
    <3> QED
      BY <1>3, <1>9, <2>1, <3>1 DEF AskJob, GiveUp, Poll
  <2>2. CASE Commit(f) \/ Refund(f) \/ Clear(f)
    <3>1. PICK label : Poll(f, "risk", label)
      BY <2>2 DEF Commit, Refund, Clear, AfterCommit
    <3> QED
      BY <1>3, <1>9, <2>2, <3>1 DEF Commit, Refund, Clear, Committing, Poll, Pollers
  <2>3. CASE SaveRow(f, j)
    <3>1. saved[f][j] \in 0 .. Findings /\ saved[f][j] < Findings
      BY <2>3 DEF SaveRow, RunsTyped, RowsAreCounted
    <3>2. saved' = [saved EXCEPT ![f][j] = saved[f][j] + 1]
          /\ Poll(f, j, IF saved[f][j] + 1 = Findings THEN "done" ELSE "save")
      BY <2>3 DEF SaveRow
    <3>3. CASE k # j
      BY <1>1, <1>9, <3>2, <3>3 DEF Poll, RunsTyped
    <3>4. CASE k = j
      <4>1. saved'[g][k] = saved[f][j] + 1
        BY <1>9, <3>2, <3>4 DEF RunsTyped
      <4>2. poller'[g][k] = IF saved[f][j] + 1 = Findings THEN "done" ELSE "save"
        BY <1>9, <3>2, <3>4 DEF Poll, RunsTyped
      <4> QED
        BY <3>1, <4>1, <4>2, BoundsAssumption
    <3> QED
      BY <3>3, <3>4
  <2> QED
    BY <1>9, <2>1, <2>2, <2>3 DEF PollerStep
<1> QED
  BY <1>2, <1>5, <1>6, <1>7, <1>8, <1>9 DEF RunMoves

LEMMA ChargedStep ==
  ASSUME MeterTyped, RunsTyped, RunsAreCharged, RowsAreCounted,
         NEW f \in Finalizes, RunMoves(f)
  PROVE  RunsAreCharged'
<1> DEFINE Late == {"off", "done"}
           Charged(g) ==
             /\ request'[g] # "new" => g \in DOMAIN entry'
             /\ request'[g] \in {"new", "dispatchRisk", "inflight"}
                  => poller'[g]["risk"] = "off"
             /\ request'[g] \notin {"done", "lost"} => poller'[g]["conflict"] = "off"
             /\ Refunded(g)' => /\ request'[g] # "dispatchRisk"
                                /\ poller'[g]["risk"] \in Late
                                /\ saved'[g]["risk"] = 0
<1> SUFFICES ASSUME NEW g \in Finalizes PROVE Charged(g)
  BY DEF RunsAreCharged
<1>1. CASE g # f
  BY <1>1, RunsTypedStep, MeterTypedStep DEF RunsAreCharged, Refunded
<1>2. CASE Finalize(f)
  BY <1>1, <1>2, GrantRow DEF Finalize, At, RunsAreCharged, RunsTyped, Refunded
<1>3. CASE DispatchRisk(f)
  <2>1. ~Refunded(f)' /\ f \in DOMAIN entry'
    BY <1>3 DEF DispatchRisk, RunsAreCharged, Refunded, meter
  <2> QED
    BY <1>1, <1>3, <2>1 DEF DispatchRisk, At, Poll, RunsAreCharged, RunsTyped, Pollers
<1>4. CASE DispatchRiskFails(f) \/ DispatchObligations(f)
  BY <1>1, <1>4 DEF DispatchRiskFails, DispatchObligations, At, RunsAreCharged,
     RunsTyped, Refunded, meter
<1>5. CASE DispatchConflicts(f)
  BY <1>1, <1>5 DEF DispatchConflicts, At, Poll, RunsAreCharged, RunsTyped, Refunded,
     meter, Pollers
<1>6. CASE ReleaseInFlight(f)
  <2>1. /\ f \in DOMAIN entry /\ poller[f]["risk"] = "off" /\ saved[f]["risk"] = 0
        /\ poller[f]["conflict"] = "off"
    BY <1>6 DEF ReleaseInFlight, RunsAreCharged, RowsAreCounted, Pollers
  <2>2. DOMAIN entry' = DOMAIN entry
    BY <1>6, <2>1, SettleRow DEF ReleaseInFlight
  <2> QED
    BY <1>1, <1>6, <2>1, <2>2 DEF ReleaseInFlight, At, RunsTyped
<1>7. CASE Refund(f)
  <2>1. /\ f \in DOMAIN entry /\ saved[f]["risk"] = 0 /\ request[f] # "dispatchRisk"
        /\ request[f] \notin {"new", "inflight"}
    BY <1>7 DEF Refund, RunsAreCharged, RowsAreCounted, Pollers
  <2>2. DOMAIN entry' = DOMAIN entry
    BY <1>7, <2>1, SettleRow DEF Refund
  <2> QED
    BY <1>1, <1>7, <2>1, <2>2 DEF Refund, Poll, RunsAreCharged, RunsTyped, Pollers
<1>8. CASE Commit(f)
  <2>1. /\ f \in DOMAIN entry /\ request[f] \notin {"new", "dispatchRisk", "inflight"}
        /\ ~Refunded(f)
    BY <1>8 DEF Commit, Committing, RunsAreCharged
  <2>2. /\ DOMAIN entry' = DOMAIN entry /\ swept' = swept
        /\ entry'[f].status
             = IF entry[f].status = "reserved" THEN "committed" ELSE entry[f].status
    BY <1>8, <2>1, SettleRow DEF Commit
  <2>3. ~Refunded(f)'
    BY <2>1, <2>2 DEF Refunded
  <2> QED
    BY <1>1, <1>8, <2>1, <2>2, <2>3
       DEF Commit, AfterCommit, Poll, RunsAreCharged, RunsTyped, Pollers
<1>9. CASE Sweep(f)
  <2>1. ~Refunded(f)' /\ DOMAIN entry' = DOMAIN entry
    BY <1>9, EndRow DEF Sweep, Refunded
  <2> QED
    BY <1>1, <1>9, <2>1 DEF Sweep, run, RunsAreCharged
<1>10. CASE ProcessDies(f)
  BY <1>1, <1>10 DEF ProcessDies, At, RunsAreCharged, RunsTyped, Pollers, Refunded, meter
<1>11. ASSUME UNCHANGED <<meter, request, saved>>, NEW k \in Pollers, NEW label,
              poller' = [poller EXCEPT ![f][k] = label], poller[f][k] # "off",
              label = "done" \/ poller[f][k] \notin Late
       PROVE  Charged(g)
  BY <1>1, <1>11 DEF RunsAreCharged, RunsTyped, Refunded, meter, Pollers
<1>12. CASE SettleThrows(f)
  BY <1>11, <1>12 DEF SettleThrows, Committing, AfterCommit, Poll, Pollers
<1>13. ASSUME NEW k \in Pollers, PollerThrows(f, k) PROVE Charged(g)
  BY <1>11, <1>13 DEF PollerThrows, Poll
<1>14. ASSUME NEW k \in Pollers, AskJob(f, k) \/ GiveUp(f, k) PROVE Charged(g)
  BY <1>11, <1>14 DEF AskJob, GiveUp, Poll
<1>15. CASE Clear(f)
  BY <1>11, <1>15 DEF Clear, Poll, Pollers
<1>16. ASSUME NEW k \in Pollers, SaveRow(f, k) PROVE Charged(g)
  <2>1. CASE k = "risk"
    <3>1. ~Refunded(f)' /\ request[f] \notin {"new", "dispatchRisk", "inflight"}
      BY <1>16, <2>1 DEF SaveRow, RunsAreCharged, Refunded, meter
    <3> QED
      BY <1>1, <1>16, <2>1, <3>1 DEF SaveRow, Poll, RunsAreCharged, RunsTyped, meter, Pollers
  <2>2. CASE k = "conflict"
    BY <1>1, <1>16, <2>2 DEF SaveRow, Poll, RunsAreCharged, RunsTyped, Refunded, meter,
       Pollers
  <2> QED
    BY <2>1, <2>2 DEF Pollers
<1> QED
  BY <1>2, <1>3, <1>4, <1>5, <1>6, <1>7, <1>8, <1>9, <1>10, <1>12, <1>13, <1>14, <1>15,
     <1>16 DEF RunMoves, Step, PollerStep

\* A finding that was saved stays so.
LEMMA KnownStays ==
  ASSUME RunsTyped, RowsAreCounted, [Next]_vars, NEW id, Known(id, saved)
  PROVE  Known(id, saved')
<1>1. id[1] \in Finalizes /\ id[2] \in Pollers
  BY DEF Known, Ids
<1>2. id[3] \in Nat /\ saved[id[1]][id[2]] \in Nat
  BY <1>1, BoundsAssumption DEF Known, Ids, RunsTyped
<1>3. ASSUME NEW f \in Finalizes, RunMoves(f)
      PROVE  \/ UNCHANGED saved
             \/ \E k \in Pollers : saved' = [saved EXCEPT ![f][k] = saved[f][k] + 1]
  BY <1>3 DEF RunMoves, Finalize, Step, SettleThrows, ProcessDies, Sweep, PollerStep,
     PollerThrows, DispatchRisk, DispatchRiskFails, ReleaseInFlight, DispatchObligations,
     DispatchConflicts, AskJob, GiveUp, SaveRow, Commit, Refund, Clear, run
<1>4. CASE UNCHANGED saved
  BY <1>4 DEF Known
<1>5. ASSUME NEW f \in Finalizes, NEW k \in Pollers,
             saved' = [saved EXCEPT ![f][k] = saved[f][k] + 1]
      PROVE  Known(id, saved')
  <2>1. saved'[id[1]][id[2]] >= saved[id[1]][id[2]]
    BY <1>1, <1>2, <1>5 DEF RunsTyped
  <2>2. saved'[id[1]][id[2]] \in Nat
    BY <1>1, <1>2, <1>5 DEF RunsTyped
  <2> QED
    BY <1>2, <2>1, <2>2 DEF Known
<1> QED
  BY <1>3, <1>4, <1>5, NextCases, HumansLeaveRuns DEF vars, run

\* What a run does to the rows.
LEMMA RunRowsStep ==
  ASSUME RunsTyped, RowsTyped, RowsAreCounted, NEW f \in Finalizes, RunMoves(f)
  PROVE  RowsTyped'
<1>1. \A id : Known(id, saved) => Known(id, saved')
  BY KnownStays DEF Next, RunMoves
<1>2. CASE UNCHANGED risks
  BY <1>1, <1>2 DEF RowsTyped
<1>3. CASE Clear(f)
  <2> DEFINE kept == {r \in DOMAIN risks : ~Replaceable(r)}
  <2>1. risks' = [r \in kept |-> risks[r]] /\ kept \subseteq DOMAIN risks
    BY <1>3 DEF Clear, Restrict
  <2> HIDE DEF kept
  <2>2. DOMAIN risks' = kept /\ risks' \in [kept -> RiskRow]
    BY <2>1 DEF RowsTyped
  <2> QED
    BY <1>1, <2>1, <2>2 DEF RowsTyped
<1>4. ASSUME NEW k \in Pollers, SaveRow(f, k), ~UNCHANGED risks
      PROVE  RowsTyped'
  <2> DEFINE n == saved[f][k] + 1
             id == <<f, k, n>>
  <2>1. /\ risks' = [r \in DOMAIN risks \cup {id} |->
                       IF r = id THEN NewRisk ELSE risks[r]]
        /\ saved' = [saved EXCEPT ![f][k] = n]
    BY <1>4 DEF SaveRow
  <2>2. n \in 1 .. Findings /\ saved'[f][k] = n
    BY <1>4, <2>1, BoundsAssumption DEF SaveRow, RowsAreCounted, RunsTyped
  <2>3. Known(id, saved')
    <3>1. id \in Ids
      BY <2>2 DEF Ids
    <3>2. id[1] = f /\ id[2] = k /\ id[3] = n
      OBVIOUS
    <3> QED
      BY <2>2, <3>1, <3>2 DEF Known
  <2>4. NewRisk \in RiskRow
    BY DEF NewRisk, RiskRow
  <2> HIDE DEF id
  <2>5. DOMAIN risks' = DOMAIN risks \cup {id}
    BY <2>1
  <2>6. risks' \in [DOMAIN risks' -> RiskRow]
    BY <2>1, <2>4 DEF RowsTyped
  <2> QED
    BY <1>1, <2>3, <2>5, <2>6 DEF RowsTyped
<1>5. UNCHANGED risks \/ Clear(f) \/ \E k \in Pollers : SaveRow(f, k)
  BY DEF RunMoves, Finalize, Step, SettleThrows, ProcessDies, Sweep, PollerStep,
     PollerThrows, DispatchRisk, DispatchRiskFails, ReleaseInFlight, DispatchObligations,
     DispatchConflicts, AskJob, GiveUp, Commit, Refund
<1> QED
  BY <1>2, <1>3, <1>4, <1>5

LEMMA RunFaultsStep ==
  ASSUME PeopleTyped, NEW f \in Finalizes, RunMoves(f)
  PROVE  PeopleTyped' /\ UNCHANGED people
<1>1. UNCHANGED people
  BY RunsLeavePeople
<1>2. UNCHANGED faults \/ Fault
  BY DEF RunMoves, Finalize, Step, SettleThrows, ProcessDies, Sweep, PollerStep,
     PollerThrows, DispatchRisk, DispatchRiskFails, ReleaseInFlight, DispatchObligations,
     DispatchConflicts, AskJob, GiveUp, SaveRow, Commit, Refund, Clear
<1>3. faults' \in 0 .. MaxFaults
  BY <1>2, BoundsAssumption DEF PeopleTyped, Fault
<1> QED
  BY <1>1, <1>3 DEF PeopleTyped, people

\* What a request on a row does.
LEMMA HumanStep ==
  ASSUME RowsTyped, PeopleTyped, CallsKnowRows, NEW h \in Humans, HumanMoves(h)
  PROVE  RowsTyped' /\ PeopleTyped' /\ CallsKnowRows'
<1> DEFINE Row == [id : Ids \cup {None}, entity : RiskRow, columns : SUBSET DOMAIN NewRisk]
<1>1. UNCHANGED <<run, faults>> /\ \A id : Known(id, saved') <=> Known(id, saved)
  BY HumansLeaveRuns DEF Known, run
<1>2. call[h] \in Row /\ NoCall \in Row
  BY DEF PeopleTyped, NoCall, NewRisk, RiskRow
<1>3. ASSUME Leave(h) PROVE PeopleTyped' /\ CallsKnowRows'
  <2>1. PeopleTyped'
    BY <1>1, <1>2, <1>3 DEF Leave, PeopleTyped
  <2>2. \A g \in Humans : human'[g] # "idle" => human'[g] = human[g] /\ call'[g] = call[g]
    BY <1>3 DEF Leave, PeopleTyped
  <2> QED
    BY <1>1, <2>1, <2>2 DEF CallsKnowRows
<1>4. ASSUME NEW r \in DOMAIN risks, NEW e \in RiskRow, Load(h, r, e)
      PROVE  RowsTyped' /\ PeopleTyped' /\ CallsKnowRows'
  <2>1. r \in Ids /\ Known(r, saved)
    BY DEF RowsTyped, Known
  <2>2. [[NoCall EXCEPT !.id = r] EXCEPT !.entity = e] \in Row
    BY <2>1 DEF NoCall
  <2>3. call' = [call EXCEPT ![h] = [[NoCall EXCEPT !.id = r] EXCEPT !.entity = e]]
    BY <1>4 DEF Load, NoCall
  <2>4. calls' \in 0 .. MaxCalls
    BY <1>4, BoundsAssumption DEF Load, Arrive, PeopleTyped
  <2>5. PeopleTyped'
    BY <1>1, <1>4, <2>2, <2>3, <2>4 DEF Load, PeopleTyped
  <2>6. call'[h].id = r /\ \A g \in Humans \ {h} : call'[g] = call[g] /\ human'[g] = human[g]
    BY <1>4, <2>3 DEF Load, PeopleTyped, NoCall
  <2> QED
    BY <1>1, <1>4, <2>1, <2>5, <2>6 DEF Load, RowsTyped, CallsKnowRows
<1>5. ASSUME NEW r \in Ids, Annotate(h, r) \/ UpdateStatus(h, r)
      PROVE  RowsTyped' /\ PeopleTyped' /\ CallsKnowRows'
  <2>1. r \in DOMAIN risks /\ risks[r] \in RiskRow
    BY <1>5 DEF Annotate, UpdateStatus, RowsTyped
  <2>2. [risks[r] EXCEPT !.edited = TRUE] \in RiskRow
        /\ [risks[r] EXCEPT !.handled = TRUE] \in RiskRow
    BY <2>1 DEF RiskRow
  <2> QED
    BY <1>4, <1>5, <2>1, <2>2 DEF Annotate, UpdateStatus
<1>6. CASE SelectRow(h)
  <2>1. UNCHANGED risks /\ \A g \in Humans : call'[g].id = call[g].id
    BY <1>6 DEF SelectRow, PeopleTyped
  <2>2. PeopleTyped'
    <3>1. CASE call[h].id \in DOMAIN risks
      <4> DEFINE cols == {x \in DOMAIN NewRisk : risks[call[h].id][x] # call[h].entity[x]}
      <4>1. call' = [call EXCEPT ![h].columns = cols] /\ human' = [human EXCEPT ![h] = "update"]
        BY <1>6, <3>1 DEF SelectRow
      <4>2. cols \in SUBSET DOMAIN NewRisk
        OBVIOUS
      <4> HIDE DEF cols
      <4>3. [call[h] EXCEPT !.columns = cols] \in Row
        BY <1>2, <4>2
      <4>4. call' = [call EXCEPT ![h] = [call[h] EXCEPT !.columns = cols]]
        BY <4>1
      <4> QED
        BY <1>1, <1>6, <4>1, <4>3, <4>4 DEF SelectRow, PeopleTyped
    <3>2. CASE call[h].id \notin DOMAIN risks
      BY <1>1, <1>6, <3>2 DEF SelectRow, PeopleTyped
    <3> QED
      BY <3>1, <3>2
  <2>3. \A g \in Humans : human'[g] # "idle" => human[g] # "idle"
    BY <1>6 DEF SelectRow, PeopleTyped
  <2> QED
    BY <1>1, <2>1, <2>2, <2>3 DEF RowsTyped, CallsKnowRows
<1>7. CASE UpdateRow(h)
  <2> DEFINE Set(r) == [x \in DOMAIN NewRisk |->
                          IF x \in call[h].columns THEN call[h].entity[x] ELSE risks[r][x]]
  <2>1. risks' = [r \in DOMAIN risks |-> IF r = call[h].id THEN Set(r) ELSE risks[r]]
    BY <1>7 DEF UpdateRow
  <2>2. \A r \in DOMAIN risks : Set(r) \in RiskRow
    BY <1>2 DEF NewRisk, RiskRow, RowsTyped
  <2> HIDE DEF Set
  <2>3. DOMAIN risks' = DOMAIN risks /\ risks' \in [DOMAIN risks' -> RiskRow]
    BY <2>1, <2>2 DEF RowsTyped
  <2> QED
    BY <1>1, <1>3, <1>7, <2>3 DEF UpdateRow, RowsTyped
<1>8. CASE InsertRow(h)
  <2>1. risks' = [r \in DOMAIN risks \cup {call[h].id} |->
                    IF r \in DOMAIN risks THEN risks[r] ELSE call[h].entity]
    BY <1>8 DEF InsertRow
  <2>2. DOMAIN risks' = DOMAIN risks \cup {call[h].id}
        /\ risks' \in [DOMAIN risks' -> RiskRow]
    BY <1>2, <2>1 DEF RowsTyped
  <2>3. Known(call[h].id, saved)
    BY <1>8 DEF InsertRow, CallsKnowRows
  <2> QED
    BY <1>1, <1>3, <1>8, <2>2, <2>3 DEF InsertRow, RowsTyped
<1>9. ASSUME NEW r \in Ids, Merge(h, r)
      PROVE  RowsTyped' /\ PeopleTyped' /\ CallsKnowRows'
  <2>1. PICK ticked \in BOOLEAN :
          risks' = [risks EXCEPT ![r].merged = TRUE, ![r].handled = @ \/ ticked]
    BY <1>9 DEF Merge
  <2>2. DOMAIN risks' = DOMAIN risks /\ risks' \in [DOMAIN risks' -> RiskRow]
    BY <1>9, <2>1 DEF Merge, RowsTyped, RiskRow
  <2>3. calls' \in 0 .. MaxCalls
    BY <1>9, BoundsAssumption DEF Merge, Arrive, PeopleTyped
  <2> QED
    BY <1>1, <1>9, <2>2, <2>3 DEF Merge, RowsTyped, PeopleTyped, CallsKnowRows
<1> QED
  BY <1>5, <1>6, <1>7, <1>8, <1>9 DEF HumanMoves

-----------------------------------------------------------------------------
(* The theorems.                                                           *)

LEMMA InitInvariant == Init => IInv
<1> SUFFICES ASSUME Init PROVE IInv
  OBVIOUS
<1>1. MeterTyped /\ RunsTyped
  BY BoundsAssumption DEF Init, MeterTyped, RunsTyped
<1>2. RowsTyped
  BY DEF Init, RowsTyped
<1>3. PeopleTyped
  BY BoundsAssumption DEF Init, PeopleTyped, NoCall, NewRisk, RiskRow
<1>4. RunsAreCharged /\ RowsAreCounted
  BY DEF Init, RunsAreCharged, RowsAreCounted, Refunded, Pollers
<1>5. CallsKnowRows
  BY DEF Init, CallsKnowRows
<1> QED
  BY <1>1, <1>2, <1>3, <1>4, <1>5, TypeParts DEF IInv

LEMMA StepInvariant == IInv /\ [Next]_vars => IInv'
<1> SUFFICES ASSUME IInv, [Next]_vars PROVE IInv'
  OBVIOUS
<1>1. MeterTyped /\ RunsTyped /\ RowsTyped /\ PeopleTyped
  BY TypeParts DEF IInv
<1>2. RunsAreCharged /\ RowsAreCounted /\ CallsKnowRows
  BY DEF IInv
<1>3. SUFFICES /\ MeterTyped' /\ RunsTyped' /\ RowsTyped' /\ PeopleTyped'
               /\ RunsAreCharged' /\ RowsAreCounted' /\ CallsKnowRows'
  BY TypeParts DEF IInv, TypeOK, MeterTyped, RunsTyped, RowsTyped, PeopleTyped, EntryRow,
     Known
<1>4. ASSUME NEW f \in Finalizes, RunMoves(f)
      PROVE  /\ MeterTyped' /\ RunsTyped' /\ RowsTyped' /\ PeopleTyped'
             /\ RunsAreCharged' /\ RowsAreCounted' /\ CallsKnowRows'
  <2>1. MeterTyped' /\ RunsTyped' /\ RowsTyped' /\ PeopleTyped' /\ UNCHANGED people
    BY <1>1, <1>2, <1>4, MeterTypedStep, RunsTypedStep, RunRowsStep, RunFaultsStep
  <2>2. RunsAreCharged' /\ RowsAreCounted'
    BY <1>1, <1>2, <1>4, ChargedStep, CountedStep
  <2>3. CallsKnowRows'
    BY <1>1, <1>2, <2>1, KnownStays DEF CallsKnowRows, people
  <2> QED
    BY <2>1, <2>2, <2>3
<1>5. ASSUME NEW h \in Humans, HumanMoves(h)
      PROVE  /\ MeterTyped' /\ RunsTyped' /\ RowsTyped' /\ PeopleTyped'
             /\ RunsAreCharged' /\ RowsAreCounted' /\ CallsKnowRows'
  <2>1. UNCHANGED <<meter, run>>
    BY <1>5, HumansLeaveRuns
  <2>2. MeterTyped' /\ RunsTyped' /\ RunsAreCharged' /\ RowsAreCounted'
    BY <1>1, <1>2, <2>1 DEF MeterTyped, RunsTyped, RunsAreCharged, RowsAreCounted,
       Refunded, meter, run
  <2> QED
    BY <1>1, <1>2, <1>5, <2>2, HumanStep
<1>6. CASE UNCHANGED vars
  BY <1>1, <1>2, <1>6 DEF vars, meter, run, people, MeterTyped, RunsTyped, RowsTyped,
     PeopleTyped, RunsAreCharged, RowsAreCounted, CallsKnowRows, Refunded
<1> QED
  BY <1>4, <1>5, <1>6, NextCases

THEOREM Invariance == Spec => []IInv
BY InitInvariant, StepInvariant, PTL DEF Spec

\* Types; a row of the risk table was saved by the poller it names, also one
\* that a save of a person has inserted again.
THEOREM TypeCorrect == Spec => []TypeOK
<1>1. IInv => TypeOK
  BY DEF IInv
<1> QED
  BY <1>1, Invariance, PTL

\* A run whose capacity went back, at once (releaseFinalizeReservationInFlight)
\* or by its poller (releaseFinalizeReservationOnFailure), saves no risk, then
\* or later.
THEOREM RefundsAreFinal == Spec => []RefundedRunsSaveNothing
<1>1. IInv => RefundedRunsSaveNothing
  BY DEF IInv, RunsAreCharged, RefundedRunsSaveNothing
<1> QED
  BY <1>1, Invariance, PTL

-----------------------------------------------------------------------------
(* Who owns a reservation.                                                 *)

Owned(f) == RequestOwns(f) \/ PollerOwns(f)

\* The part of ReservationsHaveOneOwner that RunsAreCharged does not say.
OwnerKnown(f) ==
  /\ Reserved(f) /\ faults = 0 => Owned(f)
  /\ Owned(f) => Reserved(f) \/ f \in swept

\* A step of a run keeps the ownership of its own reservation.
LEMMA OwnerStep ==
  ASSUME MeterTyped, RunsTyped, PeopleTyped, RunsAreCharged,
         NEW f \in Finalizes, RunMoves(f), OwnerKnown(f)
  PROVE  OwnerKnown(f)'
<1> USE DEF OwnerKnown, Owned, RequestOwns, PollerOwns
<1>1. CASE Finalize(f)
  <2>1. f \in DOMAIN entry' /\ entry'[f].status = "reserved"
    BY <1>1, GrantRow DEF Finalize
  <2>2. request'[f] = "dispatchRisk"
    BY <1>1 DEF Finalize, At, RunsTyped
  <2> QED
    BY <2>1, <2>2 DEF Reserved
<1>2. CASE DispatchRisk(f) \/ DispatchRiskFails(f)
  <2>1. UNCHANGED <<meter, faults>>
    BY <1>2 DEF DispatchRisk, DispatchRiskFails
  <2>2. request'[f] = "inflight" \/ poller'[f]["risk"] = "ask"
    BY <1>2 DEF DispatchRisk, DispatchRiskFails, At, Poll, RunsTyped, Pollers
  <2>3. request[f] = "dispatchRisk"
    BY <1>2 DEF DispatchRisk, DispatchRiskFails
  <2> QED
    BY <2>1, <2>2, <2>3 DEF meter, Reserved
<1>3. CASE DispatchObligations(f) \/ DispatchConflicts(f)
  <2>1. /\ UNCHANGED <<meter, faults>> /\ poller'[f]["risk"] = poller[f]["risk"]
        /\ request[f] \notin {"dispatchRisk", "inflight"}
        /\ request'[f] \notin {"dispatchRisk", "inflight"}
    BY <1>3 DEF DispatchObligations, DispatchConflicts, At, Poll, RunsTyped, Pollers
  <2> QED
    BY <2>1 DEF meter, Reserved
<1>4. ASSUME ReleaseInFlight(f) \/ Refund(f) \/ Commit(f)
      PROVE  ~Reserved(f)' /\ ~Owned(f)'
  <2>1. f \in DOMAIN entry
    BY <1>4 DEF ReleaseInFlight, Refund, Commit, Committing, RunsAreCharged
  <2>2. PICK s \in {"committed", "released"} : Settle(f, s)
    BY <1>4 DEF ReleaseInFlight, Refund, Commit
  <2>3. ~Reserved(f)'
    BY <2>1, <2>2, SettleRow DEF Reserved
  <2>4. CASE ReleaseInFlight(f)
    BY <2>3, <2>4 DEF ReleaseInFlight, At, RunsTyped, RunsAreCharged
  <2>5. CASE Refund(f) \/ Commit(f)
    BY <2>3, <2>5 DEF Refund, Commit, Committing, AfterCommit, Poll, RunsTyped, Pollers,
       RunsAreCharged
  <2> QED
    BY <1>4, <2>4, <2>5
<1>5. CASE Sweep(f)
  <2>1. f \in swept' /\ ~Reserved(f)'
    BY <1>5, EndRow DEF Sweep, Reserved
  <2> QED
    BY <2>1
<1>6. CASE SettleThrows(f) \/ ProcessDies(f) \/ \E k \in Pollers : PollerThrows(f, k)
  <2>1. faults' # 0
    BY <1>6, BoundsAssumption DEF SettleThrows, ProcessDies, PollerThrows, Fault, PeopleTyped
  <2>2. UNCHANGED meter
    BY <1>6 DEF SettleThrows, ProcessDies, PollerThrows
  <2>3. Owned(f)' => Owned(f)
    <3>1. CASE SettleThrows(f)
      BY <3>1 DEF SettleThrows, Committing, AfterCommit, Poll, RunsTyped, Pollers
    <3>2. CASE ProcessDies(f)
      BY <3>2 DEF ProcessDies, At, RunsTyped, Pollers
    <3>3. ASSUME NEW k \in Pollers, PollerThrows(f, k) PROVE Owned(f)' => Owned(f)
      BY <3>3 DEF PollerThrows, Poll, RunsTyped, Pollers
    <3> QED
      BY <1>6, <3>1, <3>2, <3>3
  <2> QED
    BY <2>1, <2>2, <2>3 DEF meter, Reserved
<1>7. ASSUME NEW k \in Pollers, AskJob(f, k) \/ GiveUp(f, k) PROVE OwnerKnown(f)'
  <2>1. UNCHANGED <<meter, request, faults>>
    BY <1>7 DEF AskJob, GiveUp
  <2>2. PollerOwns(f)' <=> PollerOwns(f)
    <3>1. CASE k = "risk"
      BY <1>7, <3>1 DEF AskJob, GiveUp, Outcomes, Poll, RunsTyped, Pollers
    <3>2. CASE k # "risk"
      BY <1>7, <3>2 DEF AskJob, GiveUp, Poll, RunsTyped, Pollers
    <3> QED
      BY <3>1, <3>2
  <2> QED
    BY <2>1, <2>2 DEF meter, Reserved
<1>8. ASSUME NEW k \in Pollers, SaveRow(f, k) \/ (k = "risk" /\ Clear(f))
      PROVE  OwnerKnown(f)'
  <2>1. UNCHANGED <<meter, request, faults>>
    BY <1>8 DEF SaveRow, Clear
  <2>2. PollerOwns(f)' <=> PollerOwns(f)
    BY <1>8 DEF SaveRow, Clear, Poll, RunsTyped, Pollers
  <2> QED
    BY <2>1, <2>2 DEF meter, Reserved
<1> QED
  BY <1>1, <1>2, <1>3, <1>4, <1>5, <1>6, <1>7, <1>8 DEF RunMoves, Step, PollerStep

\* From the reserve to the settlement a reservation has exactly one owner, the
\* request or the risk poller (finalizeReview and pollAndSaveRisks).
THEOREM OwnersSettle == Spec => []ReservationsHaveOneOwner
<1> DEFINE K == \A f \in Finalizes : OwnerKnown(f)
<1>1. Init => K
  BY DEF Init, OwnerKnown, Owned, RequestOwns, PollerOwns, Reserved, Pollers
<1>2. ASSUME IInv, [Next]_vars, K PROVE K'
  <2>1. MeterTyped /\ RunsTyped /\ PeopleTyped /\ RunsAreCharged /\ RowsAreCounted
    BY <1>2, TypeParts DEF IInv
  <2>2. ASSUME NEW f \in Finalizes, RunMoves(f), NEW g \in Finalizes PROVE OwnerKnown(g)'
    <3>1. CASE g = f
      BY <1>2, <2>1, <2>2, <3>1, OwnerStep
    <3>2. CASE g # f
      <4>1. /\ request'[g] = request[g] /\ poller'[g] = poller[g]
            /\ Reserved(g)' <=> Reserved(g)
            /\ g \in swept' <=> g \in swept
        BY <2>1, <2>2, <3>2, RunsTypedStep, MeterTypedStep DEF Reserved
      <4>2. UNCHANGED faults \/ Fault
        BY <2>2 DEF RunMoves, Finalize, Step, SettleThrows, ProcessDies, Sweep, PollerStep,
           PollerThrows, DispatchRisk, DispatchRiskFails, ReleaseInFlight,
           DispatchObligations, DispatchConflicts, AskJob, GiveUp, SaveRow, Commit, Refund,
           Clear
      <4>3. faults' = 0 => faults = 0
        BY <2>1, <4>2, BoundsAssumption DEF Fault, PeopleTyped
      <4> QED
        BY <1>2, <4>1, <4>3 DEF OwnerKnown, Owned, RequestOwns, PollerOwns
    <3> QED
      BY <3>1, <3>2
  <2>3. ASSUME UNCHANGED <<meter, run, faults>> PROVE K'
    BY <1>2, <2>3 DEF meter, run, OwnerKnown, Owned, RequestOwns, PollerOwns, Reserved
  <2> QED
    BY <1>2, <2>2, <2>3, NextCases, HumansLeaveRuns DEF vars
<1>3. IInv /\ K => ReservationsHaveOneOwner
  BY DEF IInv, RunsAreCharged, ReservationsHaveOneOwner, OwnerKnown, Owned, RequestOwns,
         PollerOwns
<1> QED
  BY <1>1, <1>2, <1>3, Invariance, PTL DEF Spec

-----------------------------------------------------------------------------
(* What people have put into a row.                                        *)

Kept(r) == /\ risks[r].edited => r \in DOMAIN risks' /\ risks'[r].edited
           /\ risks[r].merged => r \in DOMAIN risks' /\ risks'[r].merged

\* A run keeps it, also in a row that a save has inserted again: the clear
\* passes such rows over, and a row the run inserts is under an id of its own.
LEMMA RunsKeepWork ==
  ASSUME RunsTyped, RowsTyped, NEW f \in Finalizes, RunMoves(f),
         NEW r \in DOMAIN risks
  PROVE  /\ r \in DOMAIN risks' => risks'[r] = risks[r]
         /\ Kept(r)
<1>1. CASE UNCHANGED risks
  BY <1>1 DEF Kept
<1>2. CASE Clear(f)
  <2> DEFINE kept == {q \in DOMAIN risks : ~Replaceable(q)}
  <2>1. risks' = [q \in kept |-> risks[q]] /\ kept \subseteq DOMAIN risks
    BY <1>2 DEF Clear, Restrict
  <2>2. r \in kept <=> risks[r].edited \/ risks[r].merged
    BY DEF Replaceable
  <2> HIDE DEF kept
  <2>3. DOMAIN risks' = kept
    BY <2>1
  <2> QED
    BY <2>1, <2>2, <2>3 DEF Kept
<1>3. ASSUME NEW k \in Pollers, SaveRow(f, k), ~UNCHANGED risks
      PROVE  r \in DOMAIN risks' /\ risks'[r] = risks[r]
  <2> DEFINE id == <<f, k, saved[f][k] + 1>>
  <2>1. risks' = [q \in DOMAIN risks \cup {id} |-> IF q = id THEN NewRisk ELSE risks[q]]
    BY <1>3 DEF SaveRow
  <2>2. saved[f][k] \in Nat
    BY BoundsAssumption DEF RunsTyped
  <2>3. id # r
    <3>1. id[1] = f /\ id[2] = k /\ id[3] = saved[f][k] + 1
      OBVIOUS
    <3>2. ~(id[3] <= saved[id[1]][id[2]])
      BY <2>2, <3>1
    <3> QED
      BY <3>2 DEF RowsTyped, Known
  <2> HIDE DEF id
  <2> QED
    BY <2>1, <2>3
<1>4. UNCHANGED risks \/ Clear(f) \/ \E k \in Pollers : SaveRow(f, k)
  BY DEF RunMoves, Finalize, Step, SettleThrows, ProcessDies, Sweep, PollerStep,
     PollerThrows, DispatchRisk, DispatchRiskFails, ReleaseInFlight, DispatchObligations,
     DispatchConflicts, AskJob, GiveUp, Commit, Refund
<1> QED
  BY <1>1, <1>2, <1>3, <1>4 DEF Kept

\* The entity a person is about to save has what the row has of people's work.
SavesAreCurrent ==
  \A h \in Humans : human[h] # "idle" /\ call[h].id \in DOMAIN risks =>
    LET row == risks[call[h].id] IN
      /\ row.edited => call[h].entity.edited
      /\ row.merged => call[h].entity.merged

OnePerson == \A g, h \in Humans : g = h

\* A run puts no work of people into a row, nor a row under an id that a
\* person holds.
LEMMA RunsKeepCurrent ==
  ASSUME IInv, SavesAreCurrent, NEW f \in Finalizes, RunMoves(f)
  PROVE  SavesAreCurrent'
<1>0. RunsTyped /\ RowsTyped /\ CallsKnowRows /\ UNCHANGED <<human, call>>
  BY TypeParts, RunsLeavePeople DEF IInv, people
<1> SUFFICES ASSUME NEW h \in Humans, human[h] # "idle", call[h].id \in DOMAIN risks'
             PROVE  /\ risks'[call[h].id].edited => call[h].entity.edited
                    /\ risks'[call[h].id].merged => call[h].entity.merged
  BY <1>0 DEF SavesAreCurrent
<1>1. CASE call[h].id \in DOMAIN risks
  BY <1>0, <1>1, RunsKeepWork DEF SavesAreCurrent
<1>2. CASE call[h].id \notin DOMAIN risks
  <2>1. ~UNCHANGED risks /\ ~Clear(f)
    BY <1>2 DEF Clear, Restrict
  <2>2. PICK k \in Pollers : SaveRow(f, k)
    BY <2>1 DEF RunMoves, Finalize, Step, SettleThrows, ProcessDies, Sweep, PollerStep,
       PollerThrows, DispatchRisk, DispatchRiskFails, ReleaseInFlight,
       DispatchObligations, DispatchConflicts, AskJob, GiveUp, Commit, Refund
  <2> DEFINE id == <<f, k, saved[f][k] + 1>>
  <2>3. risks' = [q \in DOMAIN risks \cup {id} |-> IF q = id THEN NewRisk ELSE risks[q]]
    BY <2>1, <2>2 DEF SaveRow
  <2>4. call[h].id = id => Known(id, saved)
    BY <1>0 DEF CallsKnowRows
  <2>5. saved[f][k] \in Nat
    BY <1>0, BoundsAssumption DEF RunsTyped
  <2>6. ~Known(id, saved)
    BY <2>5 DEF Known
  <2> HIDE DEF id
  <2> QED
    BY <1>2, <2>3, <2>4, <2>6
<1> QED
  BY <1>1, <1>2

\* A lone person saves over nothing that was put there meanwhile.
LEMMA OnePersonKeepsWork ==
  ASSUME OnePerson, IInv, SavesAreCurrent, NEW h \in Humans, HumanMoves(h)
  PROVE  SavesAreCurrent' /\ \A r \in DOMAIN risks : Kept(r)
<1>0. RowsTyped /\ PeopleTyped /\ call[h].entity \in RiskRow
  BY TypeParts DEF IInv, PeopleTyped
<1>1. ASSUME Leave(h) PROVE SavesAreCurrent'
  BY <1>0, <1>1 DEF Leave, SavesAreCurrent, OnePerson, PeopleTyped
<1>2. ASSUME UNCHANGED risks PROVE \A r \in DOMAIN risks : Kept(r)
  BY <1>2 DEF Kept
<1>3. ASSUME NEW r \in DOMAIN risks, NEW e \in RiskRow, Load(h, r, e),
             risks[r].edited => e.edited, risks[r].merged => e.merged
      PROVE  SavesAreCurrent' /\ UNCHANGED risks
  <2>1. UNCHANGED risks
    BY <1>3 DEF Load
  <2>2. call'[h].id = r /\ call'[h].entity = e
    BY <1>0, <1>3 DEF Load, NoCall, PeopleTyped
  <2> QED
    BY <1>3, <2>1, <2>2 DEF SavesAreCurrent, OnePerson
<1>4. ASSUME NEW r \in Ids, Annotate(h, r) \/ UpdateStatus(h, r)
      PROVE  SavesAreCurrent' /\ UNCHANGED risks
  <2>1. r \in DOMAIN risks /\ risks[r] \in RiskRow
    BY <1>0, <1>4 DEF Annotate, UpdateStatus, RowsTyped
  <2>2. CASE Annotate(h, r)
    <3> DEFINE e == [risks[r] EXCEPT !.edited = TRUE]
    <3>1. e \in RiskRow /\ e.edited /\ e.merged = risks[r].merged
      BY <2>1 DEF RiskRow
    <3>2. Load(h, r, e)
      BY <2>2 DEF Annotate
    <3> HIDE DEF e
    <3> QED
      BY <1>3, <2>1, <3>1, <3>2
  <2>3. CASE UpdateStatus(h, r)
    <3> DEFINE e == [risks[r] EXCEPT !.handled = TRUE]
    <3>1. e \in RiskRow /\ e.edited = risks[r].edited /\ e.merged = risks[r].merged
      BY <2>1 DEF RiskRow
    <3>2. Load(h, r, e)
      BY <2>3 DEF UpdateStatus
    <3> HIDE DEF e
    <3> QED
      BY <1>3, <2>1, <3>1, <3>2
  <2> QED
    BY <1>4, <2>2, <2>3
<1>5. CASE SelectRow(h)
  <2>1. UNCHANGED risks /\ human[h] # "idle"
    BY <1>5 DEF SelectRow
  <2>2. call'[h].id = call[h].id /\ call'[h].entity = call[h].entity
    BY <1>0, <1>5 DEF SelectRow, PeopleTyped
  <2>3. SavesAreCurrent'
    BY <2>1, <2>2 DEF SavesAreCurrent, OnePerson
  <2> QED
    BY <1>2, <2>1, <2>3
<1>6. CASE UpdateRow(h)
  <2> DEFINE id == call[h].id
             Set(r) == [x \in DOMAIN NewRisk |->
                          IF x \in call[h].columns THEN call[h].entity[x] ELSE risks[r][x]]
  <2>1. /\ risks' = [r \in DOMAIN risks |-> IF r = id THEN Set(r) ELSE risks[r]]
        /\ human[h] # "idle" /\ Leave(h)
    BY <1>6 DEF UpdateRow
  <2>2. ASSUME NEW r \in DOMAIN risks PROVE Kept(r)
    <3>1. CASE r # id
      BY <2>1, <3>1 DEF Kept
    <3>2. CASE r = id
      <4>1. /\ risks[r].edited => call[h].entity.edited
            /\ risks[r].merged => call[h].entity.merged
        BY <2>1, <3>2 DEF SavesAreCurrent
      <4>2. /\ Set(r).edited = risks[r].edited \/ Set(r).edited = call[h].entity.edited
            /\ Set(r).merged = risks[r].merged \/ Set(r).merged = call[h].entity.merged
        BY DEF NewRisk
      <4>3. r \in DOMAIN risks' /\ risks'[r] = Set(r)
        BY <2>1, <3>2
      <4> HIDE DEF Set
      <4> QED
        BY <4>1, <4>2, <4>3 DEF Kept
    <3> QED
      BY <3>1, <3>2
  <2> QED
    BY <1>1, <2>1, <2>2
<1>7. CASE InsertRow(h)
  <2>1. /\ risks' = [r \in DOMAIN risks \cup {call[h].id} |->
                       IF r \in DOMAIN risks THEN risks[r] ELSE call[h].entity]
        /\ Leave(h)
    BY <1>7 DEF InsertRow
  <2>2. \A r \in DOMAIN risks : r \in DOMAIN risks' /\ risks'[r] = risks[r]
    BY <2>1
  <2> QED
    BY <1>1, <2>1, <2>2 DEF Kept
<1>8. ASSUME NEW r \in Ids, Merge(h, r)
      PROVE  SavesAreCurrent' /\ \A q \in DOMAIN risks : Kept(q)
  <2>1. PICK ticked \in BOOLEAN :
          risks' = [risks EXCEPT ![r].merged = TRUE, ![r].handled = @ \/ ticked]
    BY <1>8 DEF Merge
  <2>2. \A g \in Humans : human'[g] = "idle"
    BY <1>8 DEF Merge, Arrive, OnePerson
  <2>3. SavesAreCurrent'
    BY <2>2 DEF SavesAreCurrent
  <2>4. DOMAIN risks' = DOMAIN risks
    BY <2>1
  <2>5. ASSUME NEW q \in DOMAIN risks
        PROVE  risks'[q].edited = risks[q].edited /\ (risks[q].merged => risks'[q].merged)
    <3>1. risks[q] \in RiskRow
      BY <1>0 DEF RowsTyped
    <3> QED
      BY <2>1, <3>1 DEF RiskRow
  <2> QED
    BY <2>3, <2>4, <2>5 DEF Kept
<1> QED
  BY <1>2, <1>4, <1>5, <1>6, <1>7, <1>8 DEF HumanMoves

\* "Human-edited and merged rows are PRESERVED", with any number of people: a
\* step that is none of a person's takes no edit and no merge from a row
\* (pollAndSaveRisks, the clear and the saves).
RunsTakeNoWork == [][UNCHANGED people => \A r \in DOMAIN risks : Kept(r)]_vars

\* Every step of a person's changes where a request stands or how many there
\* were.
LEMMA PeopleShow ==
  ASSUME PeopleTyped, NEW h \in Humans, HumanMoves(h)
  PROVE  people' # people
<1>1. calls \in Nat
  BY BoundsAssumption DEF PeopleTyped
<1>2. CASE SelectRow(h) \/ UpdateRow(h) \/ InsertRow(h)
  <2>1. human[h] \in {"select", "update", "insert"} /\ human'[h] # human[h]
    BY <1>2 DEF SelectRow, UpdateRow, InsertRow, Leave, PeopleTyped
  <2> QED
    BY <2>1 DEF people
<1>3. ASSUME NEW r \in Ids, Annotate(h, r) \/ UpdateStatus(h, r) \/ Merge(h, r)
      PROVE  people' # people
  BY <1>1, <1>3 DEF Annotate, UpdateStatus, Merge, Load, Arrive, people
<1> QED
  BY <1>2, <1>3 DEF HumanMoves

\* The runs keep what people have put into the rows: no clear of a later run,
\* however the runs overlap, takes a row that was edited or merged, and no save
\* of a finding is under its id.
THEOREM RunsKeepPeoplesWork == Spec => RunsTakeNoWork
<1>1. ASSUME IInv, [Next]_vars, UNCHANGED people, NEW r \in DOMAIN risks
      PROVE  Kept(r)
  <2>1. RunsTyped /\ RowsTyped /\ PeopleTyped
    BY <1>1, TypeParts DEF IInv
  <2>2. CASE UNCHANGED vars
    BY <2>2 DEF vars, Kept
  <2> QED
    BY <1>1, <2>1, <2>2, NextCases, PeopleShow, RunsKeepWork
<1>2. IInv /\ [Next]_vars => [UNCHANGED people => \A r \in DOMAIN risks : Kept(r)]_vars
  BY <1>1
<1> QED
  BY <1>2, Invariance, PTL DEF Spec, RunsTakeNoWork

\* An edit and a merge survive every later run and its pollers, however many
\* runs there are and however they overlap, as long as the rows have one person
\* at a time: with two, the save of one can write back what the other has
\* changed (annotateRisk saves the whole entity it loaded).
THEOREM WorkSurvives == OnePerson => (Spec => HumanWorkSurvives)
<1> SUFFICES ASSUME OnePerson PROVE Spec => HumanWorkSurvives
  OBVIOUS
<1>1. Init => SavesAreCurrent
  BY DEF Init, SavesAreCurrent
<1>2. ASSUME IInv, SavesAreCurrent, [Next]_vars
      PROVE  SavesAreCurrent' /\ \A r \in DOMAIN risks : Kept(r)
  <2>1. ASSUME NEW f \in Finalizes, RunMoves(f)
        PROVE  SavesAreCurrent' /\ \A r \in DOMAIN risks : Kept(r)
    <3>1. RunsTyped /\ RowsTyped
      BY <1>2, TypeParts DEF IInv
    <3>2. SavesAreCurrent'
      BY <1>2, <2>1, RunsKeepCurrent
    <3> QED
      BY <2>1, <3>1, <3>2, RunsKeepWork
  <2>2. CASE UNCHANGED vars
    BY <1>2, <2>2 DEF vars, people, SavesAreCurrent, Kept
  <2> QED
    BY <1>2, <2>1, <2>2, NextCases, OnePersonKeepsWork
<1>3. IInv /\ SavesAreCurrent /\ [Next]_vars => SavesAreCurrent'
  BY <1>2
<1>4. IInv /\ SavesAreCurrent /\ [Next]_vars =>
        [\A r \in DOMAIN risks :
           /\ risks[r].edited => r \in DOMAIN risks' /\ risks'[r].edited
           /\ risks[r].merged => r \in DOMAIN risks' /\ risks'[r].merged]_vars
  BY <1>2 DEF Kept
<1> QED
  BY <1>1, <1>3, <1>4, Invariance, PTL DEF Spec, HumanWorkSurvives
=============================================================================
