----------------------------- MODULE LockProofs -----------------------------
(***************************************************************************)
(* The lock keeps its invariant and implements Mutex, for every set of     *)
(* tasks.                                                                  *)
(***************************************************************************)
EXTENDS Lock, TLAPS

(* The inductive invariant holds initially. *)
LEMMA InitInv == Init => Inv
BY LockAssumption DEF Init, Inv, TypeOK, OneOwner, Owners, HolderIsOwnerOrErased, Location

(* A step of one task changes the owners only as its location says.        *)
LEMMA OwnersAfterStep ==
    ASSUME TypeOK, NEW t \in Thread, NEW l, NEW m \in Location, Step(t, l, m)
    PROVE  /\ pc' \in [Thread -> Location]
           /\ pc[t] = l /\ pc'[t] = m
           /\ \A u \in Thread \ {t} : pc'[u] = pc[u]
           /\ alive' = alive /\ ~failed
BY DEF TypeOK, Step

(* Every step keeps the inductive invariant. *)
LEMMA NextInv == Inv /\ [Next]_vars => Inv'
<1> SUFFICES ASSUME Inv, [Next]_vars PROVE Inv'
  OBVIOUS
<1> USE DEF Inv
<1>1. CASE UNCHANGED vars
  BY <1>1 DEF vars, TypeOK, OneOwner, Owners, HolderIsOwnerOrErased
<1>2. CASE Next
  <2> PICK t \in Thread : Call(t) \/ Block(t) \/ Grant(t) \/ Allocate(t) \/ Go(t) \/ Cancel(t)
    BY <1>2 DEF Next
  <2>1. CASE Call(t)
    <3>1. Step(t, "out", "spinning")
      BY <2>1 DEF Call
    <3> QED
      BY <2>1, <3>1, OwnersAfterStep
      DEF Call, MayMask, TypeOK, OneOwner, Owners, HolderIsOwnerOrErased, Location
  <2>2. CASE Block(t)
    <3>1. Step(t, "out", "blocked")
      BY <2>2 DEF Block
    <3> QED
      BY <2>2, <3>1, OwnersAfterStep
      DEF Block, Yields, TypeOK, OneOwner, Owners, HolderIsOwnerOrErased, Location
  <2>3. CASE Grant(t)
    <3>1. Step(t, "out", "in") \/ Step(t, "blocked", "in")
      BY <2>3 DEF Grant
    <3> QED
      BY <2>3, <3>1, OwnersAfterStep
      DEF Grant, MayMask, Keeps, TypeOK, OneOwner, Owners, HolderIsOwnerOrErased, Location
  <2>4. CASE Go(t)
    <3>1. CASE CompareAndSwap(t)
      <4>1. Step(t, "spinning", "taken")
        BY <3>1 DEF CompareAndSwap
      <4> QED
        BY <3>1, <4>1, OwnersAfterStep
        DEF CompareAndSwap, Keeps, TypeOK, OneOwner, Owners, HolderIsOwnerOrErased, Location
    <3>2. CASE StoreHolder(t)
      <4>1. Step(t, "taken", "in")
        BY <3>2 DEF StoreHolder
      <4> QED
        BY <3>2, <4>1, OwnersAfterStep
        DEF StoreHolder, Keeps, TypeOK, OneOwner, Owners, HolderIsOwnerOrErased, Location
    <3>3. CASE Ensure(t)
      <4>1. Step(t, "in", "ensured") \/ Step(t, "in", "in")
        BY <3>3 DEF Ensure
      <4> QED
        BY <3>3, <4>1, OwnersAfterStep
        DEF Ensure, Keeps, TypeOK, OneOwner, Owners, HolderIsOwnerOrErased, Location
    <3>4. CASE Unlock(t)
      <4>1. Step(t, "ensured", "freed")
        BY <3>4 DEF Unlock
      <4>2. Owners = {t}
        BY <4>1 DEF Step, OneOwner, Owners
      <4>3. Owners' = {}
        BY <4>1, <4>2, OwnersAfterStep DEF Owners, Location
      <4>4. OneOwner'
        BY <3>4, <4>3 DEF Unlock, OneOwner
      <4>5. TypeOK' /\ HolderIsOwnerOrErased'
        BY <3>4, <4>1, OwnersAfterStep
        DEF Unlock, Keeps, TypeOK, HolderIsOwnerOrErased, Location
      <4> QED
        BY <4>4, <4>5
    <3>5. CASE ClearHolder(t)
      <4>1. Step(t, "freed", "out")
        BY <3>5 DEF ClearHolder
      <4> QED
        BY <3>5, <4>1, OwnersAfterStep, LockAssumption
        DEF ClearHolder, Yields, TypeOK, OneOwner, Owners, HolderIsOwnerOrErased, Location
    <3>6. CASE Hang(t)
      <4>1. Step(t, "spinning", "spinning")
        BY <3>6 DEF Hang
      <4> QED
        BY <3>6, <4>1, OwnersAfterStep
        DEF Hang, TypeOK, OneOwner, Owners, HolderIsOwnerOrErased, Location
    <3> QED
      BY <2>4, <3>1, <3>2, <3>3, <3>4, <3>5, <3>6 DEF Go
  <2>5. CASE Allocate(t)
    <3>1. Step(t, "in", "in")
      BY <2>5 DEF Allocate
    <3> QED
      BY <2>5, <3>1, OwnersAfterStep
      DEF Allocate, TypeOK, OneOwner, Owners, HolderIsOwnerOrErased, Location
  <2>6. CASE Cancel(t)
    BY <2>6 DEF Cancel, TypeOK, OneOwner, Owners, HolderIsOwnerOrErased
  <2> QED
    BY <2>1, <2>2, <2>3, <2>4, <2>5, <2>6
<1> QED
  BY <1>1, <1>2

(* The lock always has the owners its flag says, one at most, and the name *)
(* of the owner may be missing but is never that of another task.          *)
THEOREM LockCorrect == Spec => [](TypeOK /\ OneOwner /\ HolderIsOwnerOrErased)
<1>1. Init => Inv
  BY InitInv
<1>2. Inv /\ [Next]_vars => Inv'
  BY NextInv
<1> QED
  BY <1>1, <1>2, PTL DEF Spec, Inv

(* The name of the owner of a lock that is past its acquisition, which     *)
(* ensure_acquired_for compares, is its own, or was erased by the late     *)
(* release of an earlier owner.                                            *)
THEOREM HolderCorrect == Spec => []HolderIsOwnerOrErased
  BY LockCorrect, PTL
-----------------------------------------------------------------------------
(* The abstract owner is the only task at a location that owns the lock.   *)
LEMMA OwnerIs ==
    ASSUME OneOwner
    PROVE  /\ \A t \in Owners : owner = t
           /\ Owners = {} => owner = NoHolder
BY DEF OneOwner, owner, Owners

(* A step that leaves the owners alone leaves the abstract owner alone.    *)
LEMMA OwnerUnchanged ==
    ASSUME Owners' = Owners
    PROVE  owner' = owner
BY DEF owner

(* acquire_for and release_for, however they interleave, take the lock     *)
(* only from nobody and give it back only from its owner.                  *)
THEOREM LockImplementsMutex == Spec => MutexSpec
<1>1. Init => M!Init
  BY DEF Init, M!Init, owner, Owners
<1>2. Inv /\ Inv' /\ [Next]_vars => [M!Next]_owner
  <2> SUFFICES ASSUME Inv, Inv', [Next]_vars PROVE M!Next \/ owner' = owner
    OBVIOUS
  <2> USE DEF Inv
  <2>1. CASE UNCHANGED vars
    <3>1. Owners' = Owners
      BY <2>1 DEF vars, Owners
    <3> QED
      BY <3>1, OwnerUnchanged
  <2>2. CASE Next
    <3> PICK t \in Thread : Call(t) \/ Block(t) \/ Grant(t) \/ Allocate(t) \/ Go(t) \/ Cancel(t)
      BY <2>2 DEF Next
    <3>1. CASE CompareAndSwap(t) \/ Grant(t)
      <4>1. Owners = {}
        BY <3>1 DEF CompareAndSwap, Grant, OneOwner
      <4>2. pc' = [pc EXCEPT ![t] = "taken"] \/ pc' = [pc EXCEPT ![t] = "in"]
        BY <3>1 DEF CompareAndSwap, Grant, Step
      <4>3. t \in Owners'
        BY <4>2 DEF Owners, TypeOK
      <4>4. owner = NoHolder
        BY <4>1, OwnerIs
      <4>5. owner' = t
        BY <4>3 DEF OneOwner, owner, Owners
      <4> QED
        BY <4>4, <4>5 DEF M!Next, M!Take
    <3>2. CASE Unlock(t)
      <4>1. owner = t
        BY <3>2, OwnerIs DEF Unlock, Step, Owners
      <4>2. Owners' = {}
        BY <3>2 DEF Unlock, OneOwner
      <4>3. owner' = NoHolder
        BY <4>2 DEF owner
      <4> QED
        BY <4>1, <4>3 DEF M!Next, M!GiveBack
    <3>3. CASE Call(t) \/ Block(t) \/ Hang(t) \/ StoreHolder(t) \/ Allocate(t)
               \/ Ensure(t) \/ ClearHolder(t) \/ Cancel(t)
      <4>1. Owners' = Owners
        BY <3>3
        DEF Call, Block, Hang, StoreHolder, Allocate, Ensure, ClearHolder, Cancel, Step,
            Owners, TypeOK
      <4> QED
        BY <4>1, OwnerUnchanged
    <3> QED
      BY <3>1, <3>2, <3>3 DEF Go
  <2> QED
    BY <2>1, <2>2
<1>3. Spec => []Inv
  BY LockCorrect DEF Inv
<1> QED
  BY <1>1, <1>2, <1>3, PTL DEF Spec, MutexSpec, M!Spec
=============================================================================
