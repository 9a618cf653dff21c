---------------------------- MODULE GuestSigning ----------------------------
(***************************************************************************)
(* Guests sign one contract with a slip                                    *)
(* (src/backend/src/modules/contracts/services/guest-sign-slip.service.ts).*)
(*                                                                         *)
(* Accepting a slip holds a transaction of its own, with the slip locked,  *)
(* while the signing (pinExecutedContract) runs in a second transaction on *)
(* a second connection of the pool.  Hosts issue and void slips, revoke    *)
(* the binding of a guest, and sign through other doors meanwhile.         *)
(* A row lock is held until the transaction that took it ends; what a      *)
(* transaction writes is seen when it commits.                             *)
(***************************************************************************)
EXTENDS Integers, FiniteSets

CONSTANTS
  Callers,    \* requests in progress, of guests and of hosts
  Hosts,      \* those of hosts
  Guests,     \* guests the contract was shared with
  Slips,      \* guest_sign_slips ids
  PoolSize,   \* connections of the pool (20 in the code)
  MaxFaults,  \* bound: transactions that die
  None        \* NULL

ASSUME NoneAssumption == None \notin Slips \cup Guests
ASSUME PoolAssumption == PoolSize \in Nat \ {0}
ASSUME FaultsAssumption == MaxFaults \in Nat

VARIABLES
  binding,  \* guest_contract_access: guest -> "live" or "revoked"
  slip,     \* guest_sign_slips: id -> row, or None
  pin,      \* the pin of the contract: how it was signed, or None
  pc,       \* next statement of each caller
  call,     \* its slip and guest, and the pin it was told of
  faults    \* faults so far

vars == <<binding, slip, pin, pc, call, faults>>

Host == [door |-> "HOST", slip |-> None]
GuestSign(s) == [door |-> "GUEST_SIGN", slip |-> s]

Pins == {Host} \cup {GuestSign(s) : s \in Slips}

SlipRow ==
  [grantee : Guests, status : {"PENDING", "EXECUTED", "VOIDED"},
   accepted : Pins \cup {None}]

ASSUME RowAssumption == None \notin SlipRow \cup Pins

NoCall == [slip |-> None, guest |-> None, pin |-> None]

Mine(p) == call[p].slip

Active == {"PENDING", "ACCEPTED"}

Goto(p, label) == pc' = [pc EXCEPT ![p] = label]

Return(p) == Goto(p, "idle") /\ call' = [call EXCEPT ![p] = NoCall]

-----------------------------------------------------------------------------
(* Connections and locks, as the statement a caller is at tells them.      *)

\* With the slip locked, and no transaction of the pin.
Accepting == {"accepted", "finalize"}
\* In the transaction of the pin as well.
Pinning == {"lockContract", "precondition", "writePin"}

\* At the one statement of a host's call that writes.
Writing == {"insert", "void", "revoke", "sign"}

\* Faulty variant: the first update of the slip commits on its own.
HoldsSlip_FlipOnly(p) == pc[p] \in {"finalize"}

HoldsSlip(p) == pc[p] \in Accepting \cup Pinning
HoldsContract(p) == pc[p] \in {"precondition", "writePin"}
HoldsBinding(p) == pc[p] = "writePin"

SlipFree(s) == \A q \in Callers : Mine(q) = s => ~HoldsSlip(q)
ContractFree == \A q \in Callers : ~HoldsContract(q)

\* Faulty variant: the binding is read without FOR UPDATE.
BindingFree_NoLock(g) == g \in Guests

BindingFree(g) == \A q \in Callers : call[q].guest = g => ~HoldsBinding(q)

Connections(p) ==
  IF pc[p] \in Pinning THEN {1, 2}
  ELSE IF pc[p] \in Writing \cup {"lockSlip"} \cup Accepting THEN {1}
  ELSE {}

InUse == UNION {{p} \X Connections(p) : p \in Callers}

FreeConnection == Cardinality(InUse) < PoolSize

-----------------------------------------------------------------------------
(* The host.  A call whose one statement writes takes its connection with  *)
(* it; a call that reads first gives that connection back and asks again.  *)

ActiveSlips(g) ==
  {s \in Slips : slip[s] # None /\ slip[s].grantee = g /\ slip[s].status \in Active}

Unissued(s) == slip[s] = None /\ \A p \in Callers : Mine(p) # s

\* issueSlip: the contract is not signed, the guest is bound and has no active
\* slip.
Issue(p, s, g) ==
  /\ pc[p] = "idle"
  /\ Unissued(s)
  /\ pin = None /\ binding[g] = "live" /\ ActiveSlips(g) = {}
  /\ Goto(p, "issue")
  /\ call' = [call EXCEPT ![p].slip = s, ![p].guest = g]
  /\ UNCHANGED <<binding, slip, pin, faults>>

\* The save takes a connection ...
BeginInsert(p) ==
  /\ pc[p] = "issue"
  /\ FreeConnection
  /\ Goto(p, "insert")
  /\ UNCHANGED <<binding, slip, pin, call, faults>>

\* The partial unique index on the active slips of a guest.
Admitted(p) == ActiveSlips(call[p].guest) = {}

\* ... and inserts: it refers to the contract row, which must not be locked, and waits
\* for whoever changes a slip the index would compare it with.
Insert(p) ==
  /\ pc[p] = "insert"
  /\ ContractFree /\ \A s \in ActiveSlips(call[p].guest) : SlipFree(s)
  /\ slip' = IF Admitted(p)
               THEN [slip EXCEPT ![Mine(p)] =
                       [grantee |-> call[p].guest, status |-> "PENDING",
                        accepted |-> None]]
               ELSE slip
  /\ Return(p)
  /\ UNCHANGED <<binding, pin, faults>>

\* voidSlip.
StartVoid(p, s) ==
  /\ pc[p] = "idle"
  /\ slip[s] # None
  /\ FreeConnection
  /\ Goto(p, "void")
  /\ call' = [call EXCEPT ![p].slip = s]
  /\ UNCHANGED <<binding, slip, pin, faults>>

\* The conditional UPDATE, which waits for the lock of the slip.
Void(p) ==
  /\ pc[p] = "void"
  /\ SlipFree(Mine(p))
  /\ slip' = IF slip[Mine(p)].status \in Active
               THEN [slip EXCEPT ![Mine(p)].status = "VOIDED"]
               ELSE slip
  /\ Return(p)
  /\ UNCHANGED <<binding, pin, faults>>

\* revokeGuestBinding: an UPDATE of the live row, which waits for its lock.
StartRevoke(p, g) ==
  /\ pc[p] = "idle"
  /\ FreeConnection
  /\ Goto(p, "revoke")
  /\ call' = [call EXCEPT ![p].guest = g]
  /\ UNCHANGED <<binding, slip, pin, faults>>

Revoke(p) ==
  /\ pc[p] = "revoke"
  /\ BindingFree(call[p].guest)
  /\ binding' = [binding EXCEPT ![call[p].guest] = "revoked"]
  /\ Return(p)
  /\ UNCHANGED <<slip, pin, faults>>

\* markAsSigned: pinExecutedContract without a precondition, which waits for the
\* lock of the contract only and is a no-op on a signed one.
StartSign(p) ==
  /\ pc[p] = "idle"
  /\ FreeConnection
  /\ Goto(p, "sign")
  /\ UNCHANGED <<binding, slip, pin, call, faults>>

PinByHost(p) ==
  /\ pc[p] = "sign"
  /\ ContractFree
  /\ pin' = IF pin = None THEN Host ELSE pin
  /\ Return(p)
  /\ UNCHANGED <<binding, slip, faults>>

-----------------------------------------------------------------------------
(* acceptAndExecute(): the guest.                                          *)

\* resolveSlipGate: the binding and an active slip; an executed one only
\* repeats its answer.
Gate(p, s) ==
  /\ pc[p] = "idle"
  /\ slip[s] # None /\ slip[s].status \in Active
  /\ binding[slip[s].grantee] = "live"
  /\ Goto(p, "begin")
  /\ call' = [call EXCEPT ![p].slip = s, ![p].guest = slip[s].grantee]
  /\ UNCHANGED <<binding, slip, pin, faults>>

Begin(p) ==
  /\ pc[p] = "begin"
  /\ FreeConnection
  /\ Goto(p, "lockSlip")
  /\ UNCHANGED <<binding, slip, pin, call, faults>>

\* The slip is locked and looked at again; the flip to ACCEPTED is part of this
\* transaction.
LockSlip(p) ==
  /\ pc[p] = "lockSlip"
  /\ SlipFree(Mine(p))
  /\ IF slip[Mine(p)].status \in Active
       THEN Goto(p, "accepted") /\ UNCHANGED call
       ELSE Return(p)
  /\ UNCHANGED <<binding, slip, pin, faults>>

\* Faulty variant: the pool opens as many connections as are asked for.
BeginPin_NoWait(p) ==
  /\ pc[p] = "accepted"
  /\ Goto(p, "lockContract")
  /\ UNCHANGED <<binding, slip, pin, call, faults>>

\* pinExecutedContract takes a second connection ...
BeginPin(p) ==
  /\ pc[p] = "accepted"
  /\ FreeConnection
  /\ Goto(p, "lockContract")
  /\ UNCHANGED <<binding, slip, pin, call, faults>>

\* ... locks the contract ...
LockContract(p) ==
  /\ pc[p] = "lockContract"
  /\ ContractFree
  /\ Goto(p, "precondition")
  /\ UNCHANGED <<binding, slip, pin, call, faults>>

\* ... has the binding checked and locked (assertGuestBindingLiveForUpdate) ...
Precondition(p) ==
  /\ pc[p] = "precondition"
  /\ BindingFree(call[p].guest)
  /\ IF binding[call[p].guest] = "live"
       THEN Goto(p, "writePin") /\ UNCHANGED call
       ELSE Return(p)
  /\ UNCHANGED <<binding, slip, pin, faults>>

\* Faulty variant: a second pin replaces the first.
WritePin_Again(p) ==
  /\ pc[p] = "writePin"
  /\ pin' = GuestSign(Mine(p))
  /\ call' = [call EXCEPT ![p].pin = pin']
  /\ Goto(p, "finalize")
  /\ UNCHANGED <<binding, slip, faults>>

\* ... and commits, without effect if the contract is signed already.
WritePin(p) ==
  /\ pc[p] = "writePin"
  /\ pin' = IF pin = None THEN GuestSign(Mine(p)) ELSE pin
  /\ call' = [call EXCEPT ![p].pin = pin']
  /\ Goto(p, "finalize")
  /\ UNCHANGED <<binding, slip, faults>>

\* The slip is executed and the first transaction commits.
Finalize(p) ==
  /\ pc[p] = "finalize"
  /\ slip' = [slip EXCEPT ![Mine(p)].status = "EXECUTED",
                          ![Mine(p)].accepted = call[p].pin]
  /\ Return(p)
  /\ UNCHANGED <<binding, pin, faults>>

\* Faulty variant: a connection is waited for without end.
TimesOut_Never(p) == pc[p] \in {"issue", "begin"} /\ ~FreeConnection

TimesOut(p) == pc[p] \in {"issue", "begin", "accepted"} /\ ~FreeConnection

\* connectionTimeoutMillis: the wait for a connection is an error, and what the
\* call has done is rolled back.
AcquireTimeout(p) ==
  /\ TimesOut(p)
  /\ Return(p)
  /\ UNCHANGED <<binding, slip, pin, faults>>

\* The process dies, or a connection is lost: open transactions roll back.
Die(p) ==
  /\ pc[p] # "idle"
  /\ faults < MaxFaults
  /\ faults' = faults + 1
  /\ Return(p)
  /\ UNCHANGED <<binding, slip, pin>>

-----------------------------------------------------------------------------
Init ==
  /\ binding = [g \in Guests |-> "live"]
  /\ slip = [s \in Slips |-> None]
  /\ pin = None
  /\ pc = [p \in Callers |-> "idle"]
  /\ call = [p \in Callers |-> NoCall]
  /\ faults = 0

Step(p) ==
  \/ BeginInsert(p) \/ Insert(p) \/ Void(p) \/ Revoke(p) \/ PinByHost(p)
  \/ Begin(p) \/ LockSlip(p) \/ BeginPin(p) \/ LockContract(p)
  \/ Precondition(p) \/ WritePin(p) \/ Finalize(p)
  \/ AcquireTimeout(p)

HostCalls(p) ==
  \/ StartSign(p)
  \/ \E g \in Guests : StartRevoke(p, g)
  \/ \E s \in Slips : StartVoid(p, s) \/ \E g \in Guests : Issue(p, s, g)

GuestCalls(p) == \E s \in Slips : Gate(p, s)

Next ==
  \E p \in Callers :
    \/ Step(p) \/ Die(p)
    \/ p \in Hosts /\ HostCalls(p)
    \/ p \notin Hosts /\ GuestCalls(p)

\* Locks and connections are granted in the order they were asked for, so a
\* caller that waits for one gets it in the end: strong fairness.
Fairness == \A p \in Callers : SF_vars(Step(p))

Spec == Init /\ [][Next]_vars
FairSpec == Spec /\ Fairness
-----------------------------------------------------------------------------
(* Properties.                                                             *)

\* Types; the pool is never overdrawn, and ACCEPTED is a status no other
\* transaction ever sees.
TypeOK ==
  /\ binding \in [Guests -> {"live", "revoked"}]
  /\ slip \in [Slips -> SlipRow \cup {None}]
  /\ pin \in Pins \cup {None}
  /\ pc \in [Callers -> {"idle", "issue", "begin", "lockSlip"} \cup Writing
                        \cup Accepting \cup Pinning]
  /\ call \in [Callers -> [slip : Slips \cup {None}, guest : Guests \cup {None},
                           pin : Pins \cup {None}]]
  /\ faults \in 0 .. MaxFaults
  /\ Cardinality(InUse) <= PoolSize

\* An executed slip records the pin the contract has, and only once: two clicks,
\* a host who signs first and a retry after a crash all end there.
ExecutedSlipsNameThePin ==
  \A s \in Slips :
    slip[s] # None => (slip[s].accepted # None <=> slip[s].status = "EXECUTED")
                      /\ (slip[s].status = "EXECUTED" => slip[s].accepted = pin)

\* A revocation that commits before the pin wins: no contract is signed by a
\* guest whose binding is revoked (assertGuestBindingLiveForUpdate in the
\* transaction of the pin, not at the gate).
RevokedGuestsSignNothing ==
  [][\A s \in Slips : pin = None /\ pin' = GuestSign(s) =>
       binding[slip[s].grantee] = "live"]_vars

\* "It either lands before the lock (nothing pinned) or waits and finds
\* EXECUTED": a void and an execution of one slip exclude each other unless the
\* call died between the two commits.
VoidOrExecute ==
  faults = 0 =>
    \A s \in Slips : slip[s] # None /\ slip[s].status = "VOIDED" => pin # GuestSign(s)

\* p waits for a row q has locked, or for a connection that q has.
WaitsFor(p, q) ==
  \/ /\ pc[p] = "insert"
     /\ \/ HoldsContract(q)
        \/ HoldsSlip(q) /\ Mine(q) \in ActiveSlips(call[p].guest)
  \/ /\ pc[p] \in {"void", "lockSlip"}
     /\ HoldsSlip(q) /\ Mine(q) = Mine(p)
  \/ /\ pc[p] \in {"lockContract", "sign"}
     /\ HoldsContract(q)
  \/ /\ pc[p] \in {"precondition", "revoke"}
     /\ HoldsBinding(q) /\ call[q].guest = call[p].guest
  \/ /\ pc[p] \in {"issue", "begin", "accepted"} /\ ~FreeConnection
     /\ Connections(q) # {}

\* Callers do wait for each other in circles: accepts that hold a connection and
\* a slip each exhaust the pool their pins need, behind voids, inserts and retries
\* that hold a connection and wait for those slips.  Rows alone never close a circle
\* (slip, contract, binding, in that order), so in every circle somebody waits
\* for a connection, and connectionTimeoutMillis opens it.
CirclesTimeOut ==
  \A S \in SUBSET Callers : S # {} =>
    \E p \in S : TimesOut(p) \/ \A q \in S : ~WaitsFor(p, q)

\* Every call returns: one that holds a connection and waits for a second while
\* others wait for its lock with the rest of the pool (connectionTimeoutMillis).
CallsReturn == \A p \in Callers : pc[p] # "idle" ~> pc[p] = "idle"
=============================================================================
