------------------------- MODULE GuestSigningProofs -------------------------
(***************************************************************************)
(* Theorems about GuestSigning, for any number of callers, guests, slips,  *)
(* faults and connections.                                                 *)
(***************************************************************************)
EXTENDS GuestSigning, FiniteSetTheorems, TLAPS

-----------------------------------------------------------------------------
(* The inductive invariant.                                                *)

\* A caller that is to insert a slip is the only one to know of it.
InsertersAreAlone ==
  \A p \in Callers : pc[p] \in {"issue", "insert"} =>
    /\ Mine(p) \in Slips /\ slip[Mine(p)] = None
    /\ call[p].guest \in Guests
    /\ \A q \in Callers : q # p => Mine(q) # Mine(p)

\* Where a call has no row of its own: it has none yet, or needs none.
Rowless == {"idle", "issue", "insert", "revoke", "sign"}

\* The others work at a row, and an accept at one of its guest; a revocation
\* knows whose binding it is.
CallsHaveRows ==
  \A p \in Callers :
    /\ pc[p] \notin Rowless =>
         Mine(p) \in Slips /\ slip[Mine(p)] # None
    /\ pc[p] = "revoke" => call[p].guest \in Guests
    /\ pc[p] \in {"begin", "lockSlip"} \cup Accepting \cup Pinning =>
         slip[Mine(p)].grantee = call[p].guest

\* One call holds a slip, and while it does the slip is active.
SlipsAreLocked ==
  \A p \in Callers : HoldsSlip(p) =>
    /\ slip[Mine(p)].status \in Active
    /\ \A q \in Callers : HoldsSlip(q) /\ Mine(q) = Mine(p) => q = p

\* No binding is revoked under its lock.
BindingsAreLocked ==
  \A p \in Callers : HoldsBinding(p) => binding[call[p].guest] = "live"

\* What a call was told of the pin stays true.
ToldOfThePin ==
  \A p \in Callers : pc[p] = "finalize" => call[p].pin = pin /\ pin # None

\* A guest's signature without a death has an executed slip, or one about to be.
SignedIsFinalized ==
  \A s \in Slips : pin = GuestSign(s) =>
    /\ slip[s] # None
    /\ faults = 0 =>
         \/ slip[s].status = "EXECUTED"
         \/ \E p \in Callers : pc[p] = "finalize" /\ Mine(p) = s

IInv ==
  /\ TypeOK /\ IsFiniteSet(InUse)
  /\ InsertersAreAlone
  /\ CallsHaveRows
  /\ SlipsAreLocked
  /\ BindingsAreLocked
  /\ ToldOfThePin
  /\ ExecutedSlipsNameThePin
  /\ SignedIsFinalized

-----------------------------------------------------------------------------
(* The pool.                                                               *)

\* A step of one caller that asks for no connection leaves the pool no fuller.
LEMMA PoolKept ==
  ASSUME NEW p \in Callers,
         \A q \in Callers \ {p} : pc'[q] = pc[q],
         Connections(p)' \subseteq Connections(p),
         IsFiniteSet(InUse), Cardinality(InUse) <= PoolSize
  PROVE  IsFiniteSet(InUse)' /\ (Cardinality(InUse) <= PoolSize)'
<1>1. \A q \in Callers : Connections(q)' \subseteq Connections(q)
  BY DEF Connections
<1>2. InUse' \subseteq InUse
  BY <1>1 DEF InUse
<1>3. IsFiniteSet(InUse') /\ Cardinality(InUse') <= Cardinality(InUse)
  BY <1>2, FS_Subset
<1>4. Cardinality(InUse) \in Nat /\ Cardinality(InUse') \in Nat
  BY <1>3, FS_CardinalityType
<1> QED
  BY <1>3, <1>4, PoolAssumption

\* A caller that takes one connection finds one free.
LEMMA PoolTaken ==
  ASSUME NEW p \in Callers, NEW n,
         \A q \in Callers \ {p} : pc'[q] = pc[q],
         Connections(p)' = Connections(p) \cup {n}, n \notin Connections(p),
         FreeConnection, IsFiniteSet(InUse)
  PROVE  IsFiniteSet(InUse)' /\ (Cardinality(InUse) <= PoolSize)'
<1>1. \A q \in Callers \ {p} : Connections(q)' = Connections(q)
  BY DEF Connections
<1>2. InUse' = InUse \cup {<<p, n>>}
  <2>1. \A x : x \in InUse' => x \in InUse \cup {<<p, n>>}
    BY <1>1 DEF InUse
  <2>2. \A x \in InUse : x \in InUse'
    BY <1>1 DEF InUse
  <2>3. <<p, n>> \in InUse'
    BY DEF InUse
  <2> QED
    BY <2>1, <2>2, <2>3
<1>3. <<p, n>> \notin InUse
  BY DEF InUse
<1>4. IsFiniteSet(InUse') /\ Cardinality(InUse') = Cardinality(InUse) + 1
  BY <1>2, <1>3, FS_AddElement
<1>5. Cardinality(InUse) \in Nat
  BY FS_CardinalityType
<1> QED
  BY <1>4, <1>5, PoolAssumption DEF FreeConnection

-----------------------------------------------------------------------------
(* Types.                                                                  *)

\* Everything of TypeOK but the pool.
Typed ==
  /\ binding \in [Guests -> {"live", "revoked"}]
  /\ slip \in [Slips -> SlipRow \cup {None}]
  /\ pin \in Pins \cup {None}
  /\ pc \in [Callers -> {"idle", "issue", "begin", "lockSlip"} \cup Writing
                        \cup Accepting \cup Pinning]
  /\ call \in [Callers -> [slip : Slips \cup {None}, guest : Guests \cup {None},
                           pin : Pins \cup {None}]]
  /\ faults \in 0 .. MaxFaults

\* Types are kept by a step that leaves the pool alone.
LEMMA TypedStep ==
  ASSUME Typed, InsertersAreAlone, CallsHaveRows, [Next]_vars
  PROVE  Typed'
<1> USE NoneAssumption, RowAssumption, FaultsAssumption
<1>1. CASE UNCHANGED vars
  BY <1>1 DEF vars, Typed
<1>2. ASSUME NEW p \in Callers, NEW g \in Guests, StartRevoke(p, g) PROVE Typed'
  BY <1>2 DEF StartRevoke, Goto, Typed, Writing
<1>3. ASSUME NEW p \in Callers, StartSign(p) PROVE Typed'
  BY <1>3 DEF StartSign, Goto, Typed, Writing
<1>4. ASSUME NEW p \in Callers, NEW s \in Slips, NEW g \in Guests, Issue(p, s, g)
      PROVE  Typed'
  BY <1>4 DEF Issue, Goto, Typed
<1>5. ASSUME NEW p \in Callers, NEW s \in Slips, StartVoid(p, s) PROVE Typed'
  BY <1>5 DEF StartVoid, Goto, Typed, Writing
<1>6. ASSUME NEW p \in Callers, NEW s \in Slips, Gate(p, s) PROVE Typed'
  <2>1. slip[s] \in SlipRow
    BY <1>6 DEF Gate, Typed
  <2>2. slip[s].grantee \in Guests
    BY <2>1 DEF SlipRow
  <2> QED
    BY <1>6, <2>2 DEF Gate, Goto, Typed
<1>7. ASSUME NEW p \in Callers, Step(p) PROVE Typed'
  <2>1. CASE Insert(p)
    <3>1. /\ Mine(p) \in Slips /\ call[p].guest \in Guests
      BY <2>1 DEF Insert, InsertersAreAlone
    <3>2. [grantee |-> call[p].guest, status |-> "PENDING", accepted |-> None]
             \in SlipRow
      BY <3>1 DEF SlipRow
    <3> QED
      BY <2>1, <3>1, <3>2 DEF Insert, Return, Goto, NoCall, Typed
  <2>2. CASE Void(p)
    <3>1. Mine(p) \in Slips /\ slip[Mine(p)] \in SlipRow
      BY <2>2 DEF Void, CallsHaveRows, Rowless, Typed
    <3>2. [slip[Mine(p)] EXCEPT !.status = "VOIDED"] \in SlipRow
      BY <3>1 DEF SlipRow
    <3> QED
      BY <2>2, <3>1, <3>2 DEF Void, Return, Goto, NoCall, Typed
  <2>3. CASE Begin(p) \/ BeginPin(p) \/ LockContract(p)
    BY <2>3 DEF Begin, BeginPin, LockContract, Goto, Typed, Pinning
  <2>4. CASE LockSlip(p)
    BY <2>4 DEF LockSlip, Return, Goto, NoCall, Typed, Accepting
  <2>5. CASE Precondition(p)
    BY <2>5 DEF Precondition, Return, Goto, NoCall, Typed, Pinning
  <2>6. CASE WritePin(p)
    <3>1. Mine(p) \in Slips
      BY <2>6 DEF WritePin, CallsHaveRows, Rowless
    <3>2. pin' \in Pins \cup {None}
      BY <2>6, <3>1 DEF WritePin, Pins, Typed
    <3>3. call' \in [Callers -> [slip : Slips \cup {None}, guest : Guests \cup {None},
                                pin : Pins \cup {None}]]
      BY <2>6, <3>2 DEF WritePin, Typed
    <3> QED
      BY <2>6, <3>2, <3>3 DEF WritePin, Goto, Accepting, Typed
  <2>7. CASE Finalize(p)
    <3>1. Mine(p) \in Slips /\ slip[Mine(p)] \in SlipRow
      BY <2>7 DEF Finalize, CallsHaveRows, Rowless, Typed
    <3>2. call[p].pin \in Pins \cup {None}
      BY DEF Typed
    <3>3. [slip[Mine(p)] EXCEPT !.status = "EXECUTED", !.accepted = call[p].pin]
             \in SlipRow
      BY <3>1, <3>2 DEF SlipRow
    <3> QED
      BY <2>7, <3>1, <3>3 DEF Finalize, Return, Goto, NoCall, Typed
  <2>8. CASE AcquireTimeout(p)
    BY <2>8 DEF AcquireTimeout, Return, Goto, NoCall, Typed
  <2>9. CASE BeginInsert(p)
    BY <2>9 DEF BeginInsert, Goto, Typed, Writing
  <2>10. CASE Revoke(p)
    BY <2>10 DEF Revoke, Return, Goto, NoCall, Typed
  <2>11. CASE PinByHost(p)
    BY <2>11 DEF PinByHost, Return, Goto, NoCall, Typed, Pins
  <2> QED
    BY <1>7, <2>1, <2>2, <2>3, <2>4, <2>5, <2>6, <2>7, <2>8, <2>9, <2>10, <2>11 DEF Step
<1>8. ASSUME NEW p \in Callers, Die(p) PROVE Typed'
  BY <1>8 DEF Die, Return, Goto, NoCall, Typed
<1> QED
  BY <1>1, <1>2, <1>3, <1>4, <1>5, <1>6, <1>7, <1>8 DEF Next, HostCalls, GuestCalls

\* The pool is never overdrawn.
LEMMA PoolStep ==
  ASSUME Typed, IsFiniteSet(InUse), Cardinality(InUse) <= PoolSize, [Next]_vars
  PROVE  IsFiniteSet(InUse)' /\ (Cardinality(InUse) <= PoolSize)'
<1>1. CASE UNCHANGED pc
  <2>1. InUse' = InUse
    BY <1>1 DEF InUse, Connections
  <2> QED
    BY <2>1
<1>2. ASSUME NEW p \in Callers, NEW s \in Slips, NEW g, Issue(p, s, g) \/ Gate(p, s)
      PROVE  IsFiniteSet(InUse)' /\ (Cardinality(InUse) <= PoolSize)'
  <2>1. \A q \in Callers \ {p} : pc'[q] = pc[q]
    BY <1>2 DEF Issue, Gate, Goto, Typed
  <2>2. Connections(p)' = Connections(p)
    BY <1>2 DEF Issue, Gate, Goto, Typed, Connections, Pinning, Accepting, Writing
  <2> QED
    BY <2>1, <2>2, PoolKept
<1>3. ASSUME NEW p \in Callers, NEW s, NEW g,
             StartVoid(p, s) \/ StartRevoke(p, g) \/ StartSign(p)
      PROVE  IsFiniteSet(InUse)' /\ (Cardinality(InUse) <= PoolSize)'
  <2>1. \A q \in Callers \ {p} : pc'[q] = pc[q]
    BY <1>3 DEF StartVoid, StartRevoke, StartSign, Goto, Typed
  <2>2. Connections(p)' = Connections(p) \cup {1} /\ 1 \notin Connections(p)
    BY <1>3 DEF StartVoid, StartRevoke, StartSign, Goto, Typed, Connections, Pinning,
                Accepting, Writing
  <2>3. FreeConnection
    BY <1>3 DEF StartVoid, StartRevoke, StartSign
  <2> QED
    BY <2>1, <2>2, <2>3, PoolTaken
<1>4. ASSUME NEW p \in Callers, Step(p) \/ Die(p)
      PROVE  IsFiniteSet(InUse)' /\ (Cardinality(InUse) <= PoolSize)'
  <2>1. \A q \in Callers \ {p} : pc'[q] = pc[q]
    BY <1>4 DEF Step, Die, BeginInsert, Insert, Void, Revoke, PinByHost, Begin,
                LockSlip, BeginPin, LockContract, Precondition, WritePin, Finalize,
                AcquireTimeout, Goto, Return, Typed
  <2>2. CASE Begin(p) \/ BeginInsert(p)
    <3>1. Connections(p)' = Connections(p) \cup {1} /\ 1 \notin Connections(p)
      BY <2>2 DEF Begin, BeginInsert, Goto, Typed, Connections, Pinning, Accepting,
                  Writing
    <3> QED
      BY <2>1, <2>2, <3>1, PoolTaken DEF Begin, BeginInsert
  <2>3. CASE BeginPin(p)
    <3>1. Connections(p)' = Connections(p) \cup {2} /\ 2 \notin Connections(p)
      BY <2>3 DEF BeginPin, Goto, Typed, Connections, Pinning, Accepting, Writing
    <3> QED
      BY <2>1, <2>3, <3>1, PoolTaken DEF BeginPin
  <2>4. CASE \/ Insert(p) \/ Void(p) \/ Revoke(p) \/ PinByHost(p) \/ LockSlip(p)
             \/ LockContract(p) \/ Precondition(p) \/ WritePin(p) \/ Finalize(p)
             \/ AcquireTimeout(p) \/ Die(p)
    <3>1. Connections(p)' \subseteq Connections(p)
      BY <2>4 DEF Die, Insert, Void, Revoke, PinByHost, LockSlip, LockContract,
                  Precondition, WritePin, Finalize, AcquireTimeout, Goto, Return, Typed,
                  Connections, Pinning, Accepting, Writing
    <3> QED
      BY <2>1, <3>1, PoolKept
  <2> QED
    BY <1>4, <2>2, <2>3, <2>4 DEF Step
<1>5. UNCHANGED vars => UNCHANGED pc
  BY DEF vars
<1> QED
  BY <1>1, <1>2, <1>3, <1>4, <1>5 DEF Next, HostCalls, GuestCalls

-----------------------------------------------------------------------------
(* What a step leaves alone.                                               *)

Moves(p) ==
  Step(p) \/ Die(p) \/ HostCalls(p) \/ GuestCalls(p)

LEMMA NextCases ==
  ASSUME [Next]_vars
  PROVE  (\E p \in Callers : Moves(p)) \/ UNCHANGED vars
BY DEF Next, Moves

\* One caller moves at a time.
LEMMA OthersStay ==
  ASSUME Typed, NEW p \in Callers, Moves(p)
  PROVE  /\ \A q \in Callers \ {p} : pc'[q] = pc[q] /\ call'[q] = call[q]
         /\ UNCHANGED binding \/ Revoke(p)
<1>1. CASE Step(p)
  BY <1>1 DEF Step, BeginInsert, Insert, Void, Revoke, PinByHost, Begin, LockSlip,
              BeginPin, LockContract, Precondition, WritePin, Finalize, AcquireTimeout,
              Goto, Return, Typed
<1>2. CASE Die(p)
  BY <1>2 DEF Die, Goto, Return, Typed
<1>3. ASSUME NEW s \in Slips, NEW g, StartVoid(p, s) \/ Gate(p, s) \/ Issue(p, s, g)
      PROVE  /\ \A q \in Callers \ {p} : pc'[q] = pc[q] /\ call'[q] = call[q]
             /\ UNCHANGED binding
  BY <1>3 DEF StartVoid, Gate, Issue, Goto, Typed
<1>4. ASSUME NEW g \in Guests, StartRevoke(p, g)
      PROVE  /\ \A q \in Callers \ {p} : pc'[q] = pc[q] /\ call'[q] = call[q]
             /\ UNCHANGED binding
  BY <1>4 DEF StartRevoke, Goto, Typed
<1>5. CASE StartSign(p)
  BY <1>5 DEF StartSign, Goto, Typed
<1> QED
  BY <1>1, <1>2, <1>3, <1>4, <1>5 DEF Moves, HostCalls, GuestCalls

\* The pin is written once.
LEMMA PinStays ==
  ASSUME [Next]_vars, pin # None
  PROVE  pin' = pin
<1>1. ASSUME NEW p \in Callers, Moves(p) PROVE pin' = pin
  BY <1>1 DEF Moves, HostCalls, GuestCalls, Step, BeginInsert, Insert, Void, Revoke,
              PinByHost, Begin, LockSlip, BeginPin, LockContract, Precondition,
              WritePin, Finalize, AcquireTimeout, Die, StartVoid, StartRevoke,
              StartSign, Gate, Issue
<1> QED
  BY <1>1, NextCases DEF vars

\* Only three actions write a slip.
LEMMA SlipWrites ==
  ASSUME [Next]_vars
  PROVE  \/ UNCHANGED slip
         \/ \E p \in Callers : Insert(p) \/ Void(p) \/ Finalize(p)
<1>1. ASSUME NEW p \in Callers, Moves(p)
      PROVE  UNCHANGED slip \/ Insert(p) \/ Void(p) \/ Finalize(p)
  BY <1>1 DEF Moves, HostCalls, GuestCalls, Step, BeginInsert, Revoke, PinByHost, Begin,
              LockSlip, BeginPin, LockContract, Precondition, WritePin, AcquireTimeout,
              Die, StartVoid, StartRevoke, StartSign, Gate, Issue
<1> QED
  BY <1>1, NextCases DEF vars

\* Who writes a row, and what they write.
Inserted(p, s) ==
  /\ Insert(p) /\ slip[s] = None
  /\ slip'[s] = [grantee |-> call[p].guest, status |-> "PENDING", accepted |-> None]

Voided(p, s) ==
  /\ Void(p) /\ slip[s].status \in Active
  /\ slip'[s] = [slip[s] EXCEPT !.status = "VOIDED"]

Executed(p, s) ==
  /\ Finalize(p) /\ slip[s].status \in Active
  /\ slip'[s] = [slip[s] EXCEPT !.status = "EXECUTED", !.accepted = call[p].pin]

LEMMA RowWriter ==
  ASSUME Typed, InsertersAreAlone, SlipsAreLocked, [Next]_vars,
         NEW s \in Slips, slip'[s] # slip[s]
  PROVE  \E p \in Callers :
           Mine(p) = s /\ (Inserted(p, s) \/ Voided(p, s) \/ Executed(p, s))
<1>1. PICK p \in Callers : Insert(p) \/ Void(p) \/ Finalize(p)
  BY SlipWrites
<1>2. CASE Insert(p)
  <2>1. slip[Mine(p)] = None
    BY <1>2 DEF Insert, InsertersAreAlone
  <2> QED
    BY <1>2, <2>1 DEF Inserted, Insert, Typed
<1>3. CASE Void(p)
  BY <1>3 DEF Voided, Void, Typed
<1>4. CASE Finalize(p)
  <2>1. slip[Mine(p)].status \in Active
    BY <1>4 DEF Finalize, SlipsAreLocked, HoldsSlip, Accepting
  <2> QED
    BY <1>4, <2>1 DEF Executed, Finalize, Typed
<1> QED
  BY <1>1, <1>2, <1>3, <1>4

\* A row stays, with its guest, and an executed one as it is.
LEMMA RowsStay ==
  ASSUME Typed, Typed', InsertersAreAlone, CallsHaveRows, SlipsAreLocked, [Next]_vars,
         NEW s \in Slips, slip[s] # None
  PROVE  /\ slip'[s] # None /\ slip'[s].grantee = slip[s].grantee
         /\ slip[s].status = "EXECUTED" => slip'[s] = slip[s]
<1>1. slip[s] \in SlipRow
  BY DEF Typed
<1>2. CASE slip'[s] = slip[s]
  BY <1>2
<1>3. CASE slip'[s] # slip[s]
  <2>1. PICK p \in Callers : Voided(p, s) \/ Executed(p, s)
    BY <1>3, RowWriter DEF Inserted
  <2>2. slip[s].status # "EXECUTED"
    BY <2>1 DEF Voided, Executed, Active
  <2>3. call[p].pin \in Pins \cup {None}
    BY DEF Typed
  <2>4. CASE Voided(p, s)
    BY <1>1, <2>2, <2>4, RowAssumption DEF Voided, SlipRow
  <2>5. CASE Executed(p, s)
    <3>1. slip'[s] \in SlipRow /\ slip'[s].grantee = slip[s].grantee
      BY <1>1, <2>3, <2>5 DEF Executed, SlipRow
    <3> QED
      BY <3>1, <2>2, RowAssumption
  <2> QED
    BY <2>1, <2>4, <2>5
<1> QED
  BY <1>2, <1>3

-----------------------------------------------------------------------------
(* The other conjuncts, one by one.                                        *)

LEMMA InsertersStep ==
  ASSUME Typed, Typed', InsertersAreAlone, CallsHaveRows, SlipsAreLocked, [Next]_vars
  PROVE  InsertersAreAlone'
<1> USE NoneAssumption
<1> SUFFICES ASSUME NEW q \in Callers, pc'[q] \in {"issue", "insert"}
             PROVE  /\ call'[q].slip \in Slips /\ slip'[call'[q].slip] = None
                    /\ call'[q].guest \in Guests
                    /\ \A r \in Callers : r # q => call'[r].slip # call'[q].slip
  BY DEF InsertersAreAlone, Mine
<1>1. CASE UNCHANGED vars
  BY <1>1 DEF vars, InsertersAreAlone, Mine
<1>2. CASE BeginInsert(q)
  BY <1>2 DEF BeginInsert, Goto, Typed, InsertersAreAlone, Mine
<1>3. ASSUME NEW p \in Callers, Moves(p), p # q
      PROVE  /\ call'[q].slip \in Slips /\ slip'[call'[q].slip] = None
             /\ call'[q].guest \in Guests
             /\ \A r \in Callers : r # q => call'[r].slip # call'[q].slip
  <2>1. pc[q] \in {"issue", "insert"} /\ call'[q] = call[q]
    BY <1>3, OthersStay
  <2>2. /\ Mine(q) \in Slips /\ slip[Mine(q)] = None /\ call[q].guest \in Guests
        /\ \A r \in Callers : r # q => Mine(r) # Mine(q)
    BY <2>1 DEF InsertersAreAlone
  <2>3. slip'[Mine(q)] = slip[Mine(q)]
    <3> SUFFICES ASSUME slip'[Mine(q)] # slip[Mine(q)] PROVE FALSE
      OBVIOUS
    <3>1. PICK r \in Callers :
            Mine(r) = Mine(q) /\ (Insert(r) \/ Void(r) \/ Finalize(r))
      BY <2>2, RowWriter DEF Inserted, Voided, Executed
    <3>2. r = q
      BY <2>2, <3>1
    <3>3. pc'[q] = "idle"
      BY <3>1, <3>2 DEF Insert, Void, Finalize, Return, Goto, Typed
    <3> QED
      BY <3>3
  <2>4. call'[p].slip = Mine(p) \/ call'[p].slip = None \/ call'[p].slip # Mine(q)
    <3>1. CASE Step(p)
      BY <3>1 DEF Step, BeginInsert, Insert, Void, Revoke, PinByHost, Begin, LockSlip,
                  BeginPin, LockContract, Precondition, WritePin, Finalize,
                  AcquireTimeout, Goto, Return, NoCall, Mine, Typed
    <3>2. CASE Die(p)
      BY <3>2 DEF Die, Return, NoCall, Mine, Typed
    <3>3. ASSUME NEW s \in Slips, NEW g, StartVoid(p, s) \/ Gate(p, s) \/ Issue(p, s, g)
          PROVE  call'[p].slip = s /\ s # Mine(q)
      BY <3>3, <2>2 DEF StartVoid, Gate, Issue, Unissued, Mine, Typed
    <3>4. ASSUME NEW g \in Guests, StartRevoke(p, g) PROVE call'[p].slip = Mine(p)
      BY <3>4 DEF StartRevoke, Mine, Typed
    <3>5. CASE StartSign(p)
      BY <3>5 DEF StartSign, Mine
    <3> QED
      BY <1>3, <3>1, <3>2, <3>3, <3>4, <3>5 DEF Moves, HostCalls, GuestCalls
  <2> QED
    BY <1>3, <2>1, <2>2, <2>3, <2>4, OthersStay DEF Mine
<1>4. CASE Moves(q) /\ ~BeginInsert(q)
  <2>1. PICK s \in Slips, g \in Guests : Issue(q, s, g)
    BY <1>4 DEF Moves, HostCalls, GuestCalls, Step, Die, BeginInsert, Insert, Void,
                Revoke, PinByHost, Begin, LockSlip, BeginPin, LockContract,
                Precondition, WritePin, Finalize, AcquireTimeout, Goto, Return,
                StartVoid, StartRevoke, StartSign, Gate, Typed, Accepting, Pinning
  <2>2. call'[q].slip = s /\ call'[q].guest = g /\ slip' = slip /\ slip[s] = None
    BY <2>1 DEF Issue, Unissued, Typed
  <2>3. \A r \in Callers \ {q} : call'[r] = call[r] /\ call[r].slip # s
    BY <1>4, <2>1, OthersStay DEF Issue, Unissued, Mine
  <2> QED
    BY <2>2, <2>3
<1> QED
  BY <1>1, <1>2, <1>3, <1>4, NextCases

LEMMA RowsStep ==
  ASSUME Typed, Typed', InsertersAreAlone, CallsHaveRows, SlipsAreLocked, [Next]_vars
  PROVE  CallsHaveRows'
<1> DEFINE Accepts == {"begin", "lockSlip"} \cup Accepting \cup Pinning
           Has(q) == /\ pc'[q] \notin Rowless =>
                          call'[q].slip \in Slips /\ slip'[call'[q].slip] # None
                     /\ pc'[q] = "revoke" => call'[q].guest \in Guests
                     /\ pc'[q] \in Accepts =>
                          slip'[call'[q].slip].grantee = call'[q].guest
<1> SUFFICES ASSUME NEW q \in Callers PROVE Has(q)
  BY DEF CallsHaveRows, Mine, Accepting, Pinning
<1>1. pc[q] \notin Rowless =>
        /\ call[q].slip \in Slips
        /\ slip[call[q].slip] # None /\ slip'[call[q].slip] # None
        /\ slip'[call[q].slip].grantee = slip[call[q].slip].grantee
  BY RowsStay DEF CallsHaveRows, Mine
<1>2. /\ pc[q] \in Accepts => slip[call[q].slip].grantee = call[q].guest
      /\ pc[q] = "revoke" => call[q].guest \in Guests
  BY DEF CallsHaveRows, Mine
<1>3. (pc'[q] = pc[q] /\ call'[q] = call[q]) => Has(q)
  BY <1>1, <1>2 DEF Rowless, Accepting, Pinning
<1>4. ASSUME NEW p \in Callers, Moves(p), p # q PROVE Has(q)
  BY <1>3, <1>4, OthersStay
<1>5. CASE Moves(q)
  <2>1. CASE Step(q) \/ Die(q)
    <3>1. pc'[q] \notin {"idle", "insert"} =>
            /\ pc[q] \in Accepts /\ pc'[q] \in Accepts
            /\ call'[q].slip = call[q].slip /\ call'[q].guest = call[q].guest
      BY <2>1 DEF Step, Die, BeginInsert, Insert, Void, Revoke, PinByHost, Begin,
                  LockSlip, BeginPin, LockContract, Precondition, WritePin, Finalize,
                  AcquireTimeout, Goto, Return, NoCall, Typed, Accepting, Pinning
    <3> QED
      BY <1>1, <1>2, <3>1 DEF Rowless, Accepting, Pinning
  <2>2. ASSUME NEW s \in Slips, StartVoid(q, s) PROVE Has(q)
    BY <2>2 DEF StartVoid, Goto, NoCall, Typed, Rowless, Accepting, Pinning
  <2>3. ASSUME NEW s \in Slips, Gate(q, s) PROVE Has(q)
    BY <2>3 DEF Gate, Goto, NoCall, Typed, Rowless, Accepting, Pinning
  <2>4. ASSUME NEW s \in Slips, NEW g, Issue(q, s, g) PROVE Has(q)
    BY <2>4 DEF Issue, Goto, Typed, Rowless, Accepting, Pinning
  <2>5. ASSUME NEW g \in Guests, StartRevoke(q, g) PROVE Has(q)
    BY <2>5 DEF StartRevoke, Goto, Typed, Rowless, Accepting, Pinning
  <2>6. CASE StartSign(q)
    BY <2>6 DEF StartSign, Goto, Typed, Rowless, Accepting, Pinning
  <2> QED
    BY <1>5, <2>1, <2>2, <2>3, <2>4, <2>5, <2>6 DEF Moves, HostCalls, GuestCalls
<1> QED
  BY <1>3, <1>4, <1>5, NextCases DEF vars

\* Who holds a slip held it before or has just locked it.
LEMMA HolderBefore ==
  ASSUME Typed, [Next]_vars, NEW q \in Callers, HoldsSlip(q)'
  PROVE  call'[q].slip = call[q].slip /\ call'[q].guest = call[q].guest
         /\ (HoldsSlip(q) \/ LockSlip(q))
<1> DEFINE Before == call'[q].slip = call[q].slip /\ call'[q].guest = call[q].guest
                     /\ (HoldsSlip(q) \/ LockSlip(q))
<1> SUFFICES Before
  OBVIOUS
<1>1. pc'[q] \in Accepting \cup Pinning
  BY DEF HoldsSlip
<1>2. (pc'[q] = pc[q] /\ call'[q] = call[q]) => Before
  BY <1>1 DEF HoldsSlip
<1>3. ASSUME NEW p \in Callers, Moves(p), p # q PROVE Before
  BY <1>2, <1>3, OthersStay
<1>4. CASE Moves(q)
  <2>1. CASE Step(q) \/ Die(q)
    BY <1>1, <2>1 DEF Step, Die, BeginInsert, Insert, Void, Revoke, PinByHost, Begin,
                      LockSlip, BeginPin, LockContract, Precondition, WritePin,
                      Finalize, AcquireTimeout, Goto, Return, NoCall, Typed, Accepting,
                      Pinning, HoldsSlip
  <2>2. ASSUME NEW s \in Slips, NEW g, StartVoid(q, s) \/ Gate(q, s) \/ Issue(q, s, g)
        PROVE  FALSE
    BY <1>1, <2>2 DEF StartVoid, Gate, Issue, Goto, Typed, Accepting, Pinning
  <2>3. ASSUME NEW g \in Guests, StartRevoke(q, g) PROVE FALSE
    BY <1>1, <2>3 DEF StartRevoke, Goto, Typed, Accepting, Pinning
  <2>4. ~StartSign(q)
    BY <1>1 DEF StartSign, Goto, Typed, Accepting, Pinning
  <2> QED
    BY <1>4, <2>1, <2>2, <2>3, <2>4 DEF Moves, HostCalls, GuestCalls
<1> QED
  BY <1>2, <1>3, <1>4, NextCases DEF vars

LEMMA SlipsStep ==
  ASSUME Typed, InsertersAreAlone, CallsHaveRows, SlipsAreLocked, [Next]_vars
  PROVE  SlipsAreLocked'
<1> SUFFICES ASSUME NEW q \in Callers, HoldsSlip(q)'
             PROVE  /\ slip'[call'[q].slip].status \in Active
                    /\ \A r \in Callers :
                         HoldsSlip(r)' /\ call'[r].slip = call'[q].slip => r = q
  BY DEF SlipsAreLocked, Mine
<1>1. call'[q].slip = Mine(q) /\ (HoldsSlip(q) \/ LockSlip(q))
  BY HolderBefore DEF Mine
<1>2. slip'[Mine(q)].status \in Active
  <2>1. CASE LockSlip(q)
    <3>1. slip[Mine(q)].status \in Active
      BY <2>1 DEF LockSlip, Return, Goto, HoldsSlip, Accepting, Pinning, Typed
    <3> QED
      BY <2>1, <3>1 DEF LockSlip
  <2>2. CASE HoldsSlip(q)
    <3>1. slip[Mine(q)].status \in Active
      BY <2>2 DEF SlipsAreLocked
    <3>2. Mine(q) \in Slips /\ slip[Mine(q)] # None
      BY <2>2 DEF HoldsSlip, CallsHaveRows, Rowless, Accepting, Pinning
    <3>3. CASE slip'[Mine(q)] # slip[Mine(q)]
      <4>1. PICK w \in Callers :
              Mine(w) = Mine(q) /\ (Voided(w, Mine(q)) \/ Executed(w, Mine(q)))
        BY <3>2, <3>3, RowWriter DEF Inserted
      <4>2. ~Void(w)
        BY <2>2, <4>1 DEF Void, SlipFree
      <4>3. Finalize(w)
        BY <4>1, <4>2 DEF Voided, Executed
      <4>4. w = q
        BY <2>2, <4>1, <4>3 DEF Finalize, HoldsSlip, SlipsAreLocked, Accepting
      <4>5. pc'[q] = "idle"
        BY <4>3, <4>4 DEF Finalize, Return, Goto, Typed
      <4> QED
        BY <4>5 DEF HoldsSlip, Accepting, Pinning
    <3> QED
      BY <3>1, <3>3
  <2> QED
    BY <1>1, <2>1, <2>2
<1>3. ASSUME NEW r \in Callers, HoldsSlip(r)', call'[r].slip = call'[q].slip
      PROVE  r = q
  <2>1. Mine(r) = Mine(q) /\ (HoldsSlip(r) \/ LockSlip(r))
    BY <1>1, <1>3, HolderBefore DEF Mine
  <2>2. CASE HoldsSlip(r) /\ HoldsSlip(q)
    BY <2>1, <2>2 DEF SlipsAreLocked
  <2>3. CASE LockSlip(q) /\ HoldsSlip(r)
    BY <2>1, <2>3 DEF LockSlip, SlipFree
  <2>4. CASE LockSlip(r) /\ HoldsSlip(q)
    BY <2>1, <2>4 DEF LockSlip, SlipFree
  <2>5. CASE LockSlip(r) /\ LockSlip(q)
    <3> SUFFICES ASSUME r # q PROVE FALSE
      OBVIOUS
    <3>1. pc'[q] = "lockSlip"
      BY <2>5 DEF LockSlip, Goto, Return, Typed
    <3> QED
      BY <3>1 DEF HoldsSlip, Accepting, Pinning
  <2> QED
    BY <1>1, <2>1, <2>2, <2>3, <2>4, <2>5
<1> QED
  BY <1>1, <1>2, <1>3

LEMMA BindingsStep ==
  ASSUME Typed, CallsHaveRows, BindingsAreLocked, [Next]_vars
  PROVE  BindingsAreLocked'
<1> SUFFICES ASSUME NEW q \in Callers, pc'[q] = "writePin"
             PROVE  binding'[call'[q].guest] = "live"
  BY DEF BindingsAreLocked, HoldsBinding
<1> DEFINE Live == binding'[call'[q].guest] = "live"
<1>1. (pc'[q] = pc[q] /\ call'[q] = call[q] /\ binding' = binding) => Live
  BY DEF BindingsAreLocked, HoldsBinding
<1>2. ASSUME NEW p \in Callers, Moves(p), ~Revoke(p), p # q PROVE Live
  BY <1>1, <1>2, OthersStay
<1>3. CASE Moves(q)
  <2>1. Precondition(q)
    BY <1>3 DEF Moves, HostCalls, GuestCalls, Step, Die, BeginInsert, Insert, Void,
                Revoke, PinByHost, Begin, LockSlip, BeginPin, LockContract, WritePin,
                Finalize, AcquireTimeout, Goto, Return, StartVoid, StartRevoke,
                StartSign, Gate, Issue, Typed
  <2>2. binding[call[q].guest] = "live" /\ UNCHANGED <<binding, call>>
    BY <2>1 DEF Precondition, Return, Goto, Typed
  <2> QED
    BY <2>2
<1>4. ASSUME NEW p \in Callers, Revoke(p), p # q PROVE Live
  <2>1. pc[q] = "writePin" /\ call'[q] = call[q]
    BY <1>4 DEF Revoke, Return, Goto, Typed
  <2>2. call[q].guest # call[p].guest
    BY <1>4, <2>1 DEF Revoke, BindingFree, HoldsBinding
  <2>3. binding[call[q].guest] = "live"
    BY <2>1 DEF BindingsAreLocked, HoldsBinding
  <2> QED
    BY <1>4, <2>1, <2>2, <2>3 DEF Revoke, Typed
<1> QED
  BY <1>1, <1>2, <1>3, <1>4, NextCases DEF vars

LEMMA ToldStep ==
  ASSUME Typed, CallsHaveRows, ToldOfThePin, [Next]_vars
  PROVE  ToldOfThePin'
<1> SUFFICES ASSUME NEW q \in Callers, pc'[q] = "finalize"
             PROVE  call'[q].pin = pin' /\ pin' # None
  BY DEF ToldOfThePin
<1> DEFINE Told == call'[q].pin = pin' /\ pin' # None
<1>1. (pc'[q] = pc[q] /\ call'[q] = call[q]) => Told
  BY PinStays DEF ToldOfThePin
<1>2. ASSUME NEW p \in Callers, Moves(p), p # q PROVE Told
  BY <1>1, <1>2, OthersStay
<1>3. CASE Moves(q)
  <2>1. WritePin(q)
    BY <1>3 DEF Moves, HostCalls, GuestCalls, Step, Die, BeginInsert, Insert, Void,
                Revoke, PinByHost, Begin, LockSlip, BeginPin, LockContract,
                Precondition, Finalize, AcquireTimeout, Goto, Return, StartVoid,
                StartRevoke, StartSign, Gate, Issue, Typed
  <2>2. call'[q].pin = pin' /\ (pin' = GuestSign(Mine(q)) \/ (pin' = pin /\ pin # None))
    BY <2>1 DEF WritePin, Typed
  <2>3. Mine(q) \in Slips
    BY <2>1 DEF WritePin, CallsHaveRows, Rowless
  <2>4. GuestSign(Mine(q)) # None
    BY <2>3, RowAssumption DEF Pins
  <2> QED
    BY <2>2, <2>4
<1> QED
  BY <1>1, <1>2, <1>3, NextCases DEF vars

LEMMA ExecutedStep ==
  ASSUME Typed, InsertersAreAlone, CallsHaveRows, SlipsAreLocked, ToldOfThePin,
         ExecutedSlipsNameThePin, [Next]_vars
  PROVE  ExecutedSlipsNameThePin'
<1> USE RowAssumption
<1> DEFINE Names(r, x) == /\ r.accepted # None <=> r.status = "EXECUTED"
                          /\ r.status = "EXECUTED" => r.accepted = x
<1> SUFFICES ASSUME NEW s \in Slips, slip'[s] # None PROVE Names(slip'[s], pin')
  BY DEF ExecutedSlipsNameThePin
<1>1. slip[s] # None => Names(slip[s], pin) /\ slip[s] \in SlipRow
  BY DEF ExecutedSlipsNameThePin, Typed
<1>2. CASE slip'[s] = slip[s]
  BY <1>1, <1>2, PinStays
<1>3. CASE slip'[s] # slip[s]
  <2>1. PICK p \in Callers :
          Mine(p) = s /\ (Inserted(p, s) \/ Voided(p, s) \/ Executed(p, s))
    BY <1>3, RowWriter
  <2>2. CASE Inserted(p, s)
    BY <2>2 DEF Inserted
  <2>3. ~Inserted(p, s) => slip[s] # None
    BY <2>1 DEF Voided, Executed, Void, Finalize, CallsHaveRows, Rowless
  <2>4. CASE Voided(p, s)
    <3>1. Names(slip[s], pin) /\ slip[s] \in SlipRow /\ slip[s].status # "EXECUTED"
      BY <1>1, <2>1, <2>4 DEF Voided, Void, CallsHaveRows, Rowless, Active
    <3>2. slip'[s].status = "VOIDED" /\ slip'[s].accepted = slip[s].accepted
      BY <2>4, <3>1 DEF Voided, SlipRow
    <3> QED
      BY <3>1, <3>2
  <2>5. CASE Executed(p, s)
    <3>1. slip[s] \in SlipRow
      BY <1>1, <2>1, <2>5 DEF Executed, Finalize, CallsHaveRows, Rowless
    <3>2. slip'[s].status = "EXECUTED" /\ slip'[s].accepted = call[p].pin
      BY <2>5, <3>1 DEF Executed, SlipRow
    <3>3. call[p].pin = pin /\ pin # None /\ pin' = pin
      BY <2>5 DEF Executed, Finalize, ToldOfThePin
    <3> QED
      BY <3>2, <3>3
  <2> QED
    BY <2>1, <2>2, <2>4, <2>5
<1> QED
  BY <1>2, <1>3

\* The pin of a guest is written by the call that holds the slip.
LEMMA PinWriter ==
  ASSUME Typed, CallsHaveRows, [Next]_vars,
         NEW s \in Slips, pin' = GuestSign(s), pin # GuestSign(s)
  PROVE  \E p \in Callers : WritePin(p) /\ Mine(p) = s /\ pin = None
<1>1. \A p \in Callers : ~PinByHost(p)
  BY NoneAssumption DEF PinByHost, Host, GuestSign
<1>2. PICK p \in Callers : Moves(p)
  BY NextCases DEF vars
<1>3. WritePin(p)
  BY <1>1, <1>2 DEF Moves, HostCalls, GuestCalls, Step, BeginInsert, Insert, Void,
                    Revoke, PinByHost, Begin, LockSlip, BeginPin, LockContract,
                    Precondition, Finalize, AcquireTimeout, Die, StartVoid, StartRevoke,
                    StartSign, Gate, Issue
<1>4. pin = None /\ pin' = GuestSign(Mine(p))
  BY <1>3 DEF WritePin
<1>5. Mine(p) = s
  BY <1>4 DEF GuestSign
<1> QED
  BY <1>3, <1>4, <1>5

LEMMA SignedStep ==
  ASSUME Typed, Typed', InsertersAreAlone, CallsHaveRows, SlipsAreLocked,
         SignedIsFinalized, [Next]_vars
  PROVE  SignedIsFinalized'
<1> DEFINE Ends(s) == \/ slip'[s].status = "EXECUTED"
                      \/ \E p \in Callers : pc'[p] = "finalize" /\ call'[p].slip = s
<1> SUFFICES ASSUME NEW s \in Slips, pin' = GuestSign(s)
             PROVE  slip'[s] # None /\ (faults' = 0 => Ends(s))
  BY DEF SignedIsFinalized, Mine
<1>1. CASE pin # GuestSign(s)
  <2>1. PICK p \in Callers : WritePin(p) /\ Mine(p) = s
    BY <1>1, PinWriter
  <2>2. slip'[s] # None
    BY <2>1 DEF WritePin, CallsHaveRows, Rowless
  <2>3. pc'[p] = "finalize" /\ call'[p].slip = s
    BY <2>1 DEF WritePin, Goto, Mine, Typed
  <2> QED
    BY <2>2, <2>3
<1>2. CASE pin = GuestSign(s)
  <2>1. slip[s] # None
    BY <1>2 DEF SignedIsFinalized
  <2>2. slip'[s] # None /\ (slip[s].status = "EXECUTED" => slip'[s] = slip[s])
    BY <2>1, RowsStay
  <2>3. faults' = 0 => faults = 0 /\ \A p \in Callers : ~Die(p)
    <3>1. faults \in Nat
      BY FaultsAssumption DEF Typed
    <3>2. ASSUME NEW p \in Callers, Die(p) PROVE faults' = faults + 1
      BY <3>2 DEF Die
    <3>3. ASSUME NEW p \in Callers, Moves(p), ~Die(p) PROVE faults' = faults
      BY <3>3 DEF Moves, HostCalls, GuestCalls, Step, BeginInsert, Insert, Void, Revoke,
                  PinByHost, Begin, LockSlip, BeginPin, LockContract, Precondition,
                  WritePin, Finalize, AcquireTimeout, StartVoid, StartRevoke, StartSign,
                  Gate, Issue
    <3>4. faults' = faults \/ \E p \in Callers : Die(p)
      BY <3>3, NextCases DEF vars
    <3> QED
      BY <3>1, <3>2, <3>4
  <2>4. ASSUME NEW p \in Callers, pc[p] = "finalize", Mine(p) = s, faults' = 0
        PROVE  Ends(s)
    <3>1. CASE Moves(p)
      <4>1. Finalize(p)
        BY <2>3, <2>4, <3>1 DEF Moves, HostCalls, GuestCalls, Step, BeginInsert, Insert,
           Void, Revoke, PinByHost, Begin, LockSlip, BeginPin, LockContract,
           Precondition, WritePin, AcquireTimeout, TimesOut, StartVoid, StartRevoke,
           StartSign, Gate, Issue
      <4>2. slip[s] \in SlipRow
        BY <2>1 DEF Typed
      <4>3. slip'[s].status = "EXECUTED"
        BY <2>4, <4>1, <4>2 DEF Finalize, SlipRow, Typed
      <4> QED
        BY <4>3
    <3>2. CASE pc'[p] = pc[p] /\ call'[p] = call[p]
      BY <2>4, <3>2 DEF Mine
    <3> QED
      BY <3>1, <3>2, OthersStay, NextCases DEF vars
  <2>5. faults' = 0 => Ends(s)
    BY <1>2, <2>2, <2>3, <2>4 DEF SignedIsFinalized
  <2> QED
    BY <2>2, <2>5
<1> QED
  BY <1>1, <1>2

-----------------------------------------------------------------------------
(* The theorems.                                                           *)

LEMMA InitInvariant == Init => IInv
<1> SUFFICES ASSUME Init PROVE IInv
  OBVIOUS
<1>1. InUse = {}
  BY DEF Init, InUse, Connections, Pinning, Accepting, Writing
<1>2. IsFiniteSet(InUse) /\ Cardinality(InUse) <= PoolSize
  BY <1>1, FS_EmptySet, PoolAssumption
<1>3. Typed
  BY FaultsAssumption DEF Init, Typed, NoCall
<1>4. \A p \in Callers : pc[p] = "idle"
  BY DEF Init
<1>5. InsertersAreAlone /\ CallsHaveRows /\ SlipsAreLocked /\ BindingsAreLocked
      /\ ToldOfThePin
  BY <1>4 DEF InsertersAreAlone, CallsHaveRows, Rowless, SlipsAreLocked,
              BindingsAreLocked, ToldOfThePin, HoldsSlip, HoldsBinding, Accepting,
              Pinning
<1>6. ExecutedSlipsNameThePin /\ SignedIsFinalized
  BY RowAssumption DEF Init, ExecutedSlipsNameThePin, SignedIsFinalized, Pins
<1> QED
  BY <1>2, <1>3, <1>5, <1>6 DEF IInv, TypeOK, Typed

LEMMA StepInvariant == IInv /\ [Next]_vars => IInv'
<1> SUFFICES ASSUME IInv, [Next]_vars PROVE IInv'
  OBVIOUS
<1>1. Typed /\ Cardinality(InUse) <= PoolSize
  BY DEF IInv, TypeOK, Typed
<1>2. Typed'
  BY <1>1, TypedStep DEF IInv
<1>3. IsFiniteSet(InUse)' /\ (Cardinality(InUse) <= PoolSize)'
  BY <1>1, PoolStep DEF IInv
<1>4. TypeOK'
  BY <1>2, <1>3 DEF TypeOK, Typed
<1>5. InsertersAreAlone' /\ CallsHaveRows'
  BY <1>1, <1>2, InsertersStep, RowsStep DEF IInv
<1>6. SlipsAreLocked' /\ BindingsAreLocked'
  BY <1>1, SlipsStep, BindingsStep DEF IInv
<1>7. ToldOfThePin' /\ ExecutedSlipsNameThePin'
  BY <1>1, ToldStep, ExecutedStep DEF IInv
<1>8. SignedIsFinalized'
  BY <1>1, <1>2, SignedStep DEF IInv
<1> QED
  BY <1>3, <1>4, <1>5, <1>6, <1>7, <1>8 DEF IInv

THEOREM Invariance == Spec => []IInv
BY InitInvariant, StepInvariant, PTL DEF Spec

\* Types, and a pool that is never overdrawn, whatever the number of requests.
THEOREM TypeCorrect == Spec => []TypeOK
<1>1. IInv => TypeOK
  BY DEF IInv
<1> QED
  BY <1>1, Invariance, PTL

\* An executed slip records the pin of the contract (finalizeSlipExecuted after
\* pinExecutedContract), whoever signed first.
THEOREM ExecutedSlips == Spec => []ExecutedSlipsNameThePin
<1>1. IInv => ExecutedSlipsNameThePin
  BY DEF IInv
<1> QED
  BY <1>1, Invariance, PTL

\* A void and an execution of a slip exclude each other while no call dies: the
\* slip is locked from the flip to ACCEPTED until the transaction commits.
THEOREM VoidExcludesExecution == Spec => []VoidOrExecute
<1>1. IInv => VoidOrExecute
  <2> SUFFICES ASSUME IInv, faults = 0, NEW s \in Slips, pin = GuestSign(s)
               PROVE  slip[s].status # "VOIDED"
    BY DEF VoidOrExecute
  <2>1. slip[s].status = "EXECUTED"
        \/ \E p \in Callers : pc[p] = "finalize" /\ Mine(p) = s
    BY DEF IInv, SignedIsFinalized
  <2>2. ASSUME NEW p \in Callers, pc[p] = "finalize", Mine(p) = s
        PROVE  slip[s].status \in Active
    BY <2>2 DEF IInv, SlipsAreLocked, HoldsSlip, Accepting
  <2> QED
    BY <2>1, <2>2 DEF Active
<1> QED
  BY <1>1, Invariance, PTL

\* Among any callers one runs, or waits for a connection and times out: rows
\* are waited for in the order slip, contract, binding.
LEMMA SomeoneRunsOrTimesOut ==
  ASSUME NEW S \in SUBSET Callers, S # {}
  PROVE  \E p \in S : TimesOut(p) \/ \A q \in S : ~WaitsFor(p, q)
<1> DEFINE Free(p) == \A q \in S : ~WaitsFor(p, q)
           \* In the order of what they wait for: the slip, the contract, the binding.
           ForSlip == {"insert", "void", "lockSlip"}
           ForContract == {"lockContract", "sign"}
           ForBinding == {"precondition", "revoke"}
           RowWaiters == ForSlip \cup ForContract \cup ForBinding
<1>1. ASSUME NEW p \in S, pc[p] \notin RowWaiters
      PROVE  TimesOut(p) \/ Free(p)
  BY <1>1 DEF WaitsFor, TimesOut
<1>2. ASSUME \A p \in S : pc[p] \in RowWaiters, NEW p \in S, pc[p] \in ForBinding
      PROVE  Free(p)
  BY <1>2 DEF WaitsFor, HoldsBinding
<1>3. ASSUME \A p \in S : pc[p] \in ForSlip \cup ForContract,
             NEW p \in S, pc[p] \in ForContract
      PROVE  Free(p)
  BY <1>3 DEF WaitsFor, HoldsContract
<1>4. ASSUME \A p \in S : pc[p] \in ForSlip, NEW p \in S
      PROVE  Free(p)
  BY <1>4 DEF WaitsFor, HoldsContract, HoldsSlip, Accepting, Pinning
<1> QED
  BY <1>1, <1>2, <1>3, <1>4

\* The pool and the row locks together never stop every caller for good: in any
\* circle of waits somebody waits for a connection, with a timeout.
THEOREM EveryCircleTimesOut == Spec => []CirclesTimeOut
<1>1. CirclesTimeOut
  BY SomeoneRunsOrTimesOut DEF CirclesTimeOut
<1> QED
  BY <1>1, PTL

\* No contract is signed by a guest whose binding is revoked: the binding is
\* locked from the precondition until the pin commits.
THEOREM RevokedNeverSign == Spec => RevokedGuestsSignNothing
<1>1. ASSUME IInv, [Next]_vars, NEW s \in Slips, pin = None, pin' = GuestSign(s)
      PROVE  binding[slip[s].grantee] = "live"
  <2>1. Typed /\ CallsHaveRows /\ BindingsAreLocked
    BY <1>1 DEF IInv, TypeOK, Typed
  <2>2. pin # GuestSign(s)
    BY <1>1, RowAssumption DEF Pins
  <2>3. PICK p \in Callers : WritePin(p) /\ Mine(p) = s
    BY <1>1, <2>1, <2>2, PinWriter
  <2>4. slip[s].grantee = call[p].guest
    BY <2>1, <2>3 DEF WritePin, CallsHaveRows, Pinning
  <2>5. binding[call[p].guest] = "live"
    BY <2>1, <2>3 DEF WritePin, BindingsAreLocked, HoldsBinding
  <2> QED
    BY <2>4, <2>5
<1>2. IInv /\ [Next]_vars =>
        [\A s \in Slips : pin = None /\ pin' = GuestSign(s) =>
           binding[slip[s].grantee] = "live"]_vars
  BY <1>1
<1> QED
  BY <1>2, Invariance, PTL DEF Spec, RevokedGuestsSignNothing
=============================================================================
