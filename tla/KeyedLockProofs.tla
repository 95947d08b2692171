-------------------------- MODULE KeyedLockProofs --------------------------
(***************************************************************************)
(* What is proved of KeyedLock for any number of goroutines, keys and      *)
(* entries.                                                                *)
(***************************************************************************)
EXTENDS KeyedLock, FiniteSetTheorems, TLAPS

(***************************************************************************)
(* The inductive invariant.  A goroutine past Enter points to the entry in *)
(* the map; no entry serves two keys; the count of an entry in the map is  *)
(* the number of goroutines that point to it, which is never zero.         *)
(***************************************************************************)
Pointing ==
  \A g \in Goroutines :
    IF pc[g] = "idle" THEN ent[g] = None /\ key[g] = None
    ELSE key[g] \in Keys /\ ent[g] \in Entries /\ locks[key[g]] = ent[g]

OneKeyEach == \A k1, k2 \in Keys : locks[k1] # None /\ locks[k1] = locks[k2] => k1 = k2

Counted ==
  \A k \in Keys : locks[k] # None =>
    refs[locks[k]] = Cardinality(Users(locks[k])) /\ Users(locks[k]) # {}

Owning == \A g \in Goroutines : pc[g] = "held" => owner[ent[g]] = g

LockInv == TypeOK /\ Pointing /\ OneKeyEach /\ Counted /\ Owning

LEMMA UsersFinite ==
  ASSUME NEW e
  PROVE  IsFiniteSet(Users(e)) /\ Cardinality(Users(e)) \in Nat
<1>1. Users(e) \subseteq Goroutines
  BY DEF Users
<1> QED BY <1>1, LockAssumption, FS_Subset, FS_CardinalityType

(* Whoever holds no pointer can join an entry, in the map or new. *)
LEMMA EnterStep ==
  ASSUME LockInv, NEW g \in Goroutines, NEW k \in Keys, Enter(g, k)
  PROVE  LockInv'
<1> USE DEF LockInv
<1>1. PICK e \in IF locks[k] = None THEN Garbage ELSE {locks[k]} :
        /\ locks' = [locks EXCEPT ![k] = e]
        /\ refs' = [refs EXCEPT ![e] = IF locks[k] = None THEN 1 ELSE @ + 1]
        /\ owner' = IF locks[k] = None THEN [owner EXCEPT ![e] = None] ELSE owner
        /\ ent' = [ent EXCEPT ![g] = e]
  BY DEF Enter
<1>2. /\ pc[g] = "idle" /\ ent[g] = None
      /\ key' = [key EXCEPT ![g] = k]
      /\ pc' = [pc EXCEPT ![g] = "waiting"]
  BY DEF Enter, Pointing
<1>3. e \in Entries /\ e # None
  BY <1>1, LockAssumption DEF Garbage, TypeOK
<1>4. TypeOK'
  BY <1>1, <1>2, <1>3 DEF TypeOK, PC
<1>5. /\ \A h \in Goroutines : ent'[h] = IF h = g THEN e ELSE ent[h]
      /\ \A h \in Goroutines : key'[h] = IF h = g THEN k ELSE key[h]
      /\ \A h \in Goroutines : pc'[h] = IF h = g THEN "waiting" ELSE pc[h]
      /\ \A j \in Keys : locks'[j] = IF j = k THEN e ELSE locks[j]
  BY <1>1, <1>2 DEF TypeOK
<1>6. ASSUME NEW j \in Keys, j # k
      PROVE  locks[j] # e
  <2>1. CASE locks[k] = None
    BY <1>1, <1>6, <2>1 DEF Garbage
  <2>2. CASE locks[k] # None
    BY <1>1, <1>3, <1>6, <2>2 DEF OneKeyEach
  <2> QED BY <2>1, <2>2
<1>7. ASSUME NEW h \in Goroutines, pc[h] # "idle", key[h] = k
      PROVE  ent[h] = e
  <2>1. locks[k] = ent[h] /\ ent[h] \in Entries
    BY <1>7 DEF Pointing
  <2>2. locks[k] # None
    BY <2>1, LockAssumption
  <2> QED BY <1>1, <2>1, <2>2
<1>8. Pointing'
  BY <1>3, <1>5, <1>7 DEF Pointing
<1>9. OneKeyEach'
  BY <1>5, <1>6 DEF OneKeyEach
<1> DEFINE After(f) == {h \in Goroutines : ent'[h] = f}
<1>10. After(e) = Users(e) \cup {g} /\ g \notin Users(e)
  BY <1>2, <1>3, <1>5 DEF Users
<1>11. \A f : f # e /\ f # None => After(f) = Users(f)
  BY <1>2, <1>5 DEF Users
<1>12. refs'[e] = Cardinality(After(e))
  <2>1. Cardinality(Users(e) \cup {g}) = Cardinality(Users(e)) + 1
    BY <1>10, UsersFinite, FS_AddElement
  <2>2. CASE locks[k] = None
    <3>1. Cardinality(Users(e)) = 0
      BY <1>1, <2>2, FS_EmptySet DEF Garbage
    <3>2. refs'[e] = 1
      BY <1>1, <1>3, <2>2 DEF TypeOK
    <3>3. Cardinality(After(e)) = 0 + 1
      BY <1>10, <2>1, <3>1
    <3> QED BY <3>2, <3>3
  <2>3. CASE locks[k] # None
    <3>1. refs[e] = Cardinality(Users(e))
      BY <1>1, <2>3 DEF Counted
    <3> QED BY <1>1, <1>3, <1>10, <2>1, <2>3, <3>1 DEF TypeOK
  <2> QED BY <2>2, <2>3
<1>13. Counted'
  <2> SUFFICES ASSUME NEW j \in Keys, locks'[j] # None
               PROVE  /\ refs'[locks'[j]] = Cardinality(After(locks'[j]))
                      /\ After(locks'[j]) # {}
    BY DEF Counted, Users
  <2>1. CASE j = k
    BY <1>5, <1>10, <1>12, <2>1
  <2>2. CASE j # k
    <3>1. locks'[j] = locks[j] /\ locks[j] # e
      BY <1>5, <1>6, <2>2
    <3>2. refs'[locks[j]] = refs[locks[j]] /\ After(locks[j]) = Users(locks[j])
      BY <1>1, <1>11, <3>1 DEF TypeOK
    <3>3. refs[locks[j]] = Cardinality(Users(locks[j])) /\ Users(locks[j]) # {}
      BY <3>1 DEF Counted
    <3> QED BY <3>1, <3>2, <3>3
  <2> QED BY <2>1, <2>2
<1>14. Owning'
  <2> SUFFICES ASSUME NEW h \in Goroutines, pc'[h] = "held"
               PROVE  owner'[ent'[h]] = h
    BY DEF Owning
  <2>1. h # g /\ pc[h] = "held" /\ ent'[h] = ent[h] /\ owner[ent[h]] = h
    BY <1>5 DEF Owning
  <2>2. CASE locks[k] = None
    <3>1. ent[h] # e
      BY <1>1, <2>2 DEF Garbage, Users
    <3> QED BY <1>1, <2>1, <2>2, <3>1 DEF TypeOK
  <2>3. CASE locks[k] # None
    BY <1>1, <2>1, <2>3
  <2> QED BY <2>2, <2>3
<1> QED BY <1>4, <1>8, <1>9, <1>13, <1>14

(* The last user takes the entry out of the map; any other leaves it to    *)
(* those who still point to it.                                            *)
LEMMA DropStep ==
  ASSUME LockInv, NEW g \in Goroutines, Drop(g)
  PROVE  LockInv'
<1> USE DEF LockInv
<1> DEFINE After(f) == {h \in Goroutines : ent'[h] = f}
<1>0. PICK e, k : e = ent[g] /\ k = key[g]
  OBVIOUS
<1>1. /\ pc[g] = "dropping" /\ k \in Keys /\ e \in Entries /\ locks[k] = e /\ e # None
  BY <1>0, LockAssumption DEF Drop, Pointing
<1>2. /\ refs' = [refs EXCEPT ![e] = @ - 1]
      /\ locks' = IF LastOne(g) THEN [locks EXCEPT ![k] = None] ELSE locks
      /\ pc' = [pc EXCEPT ![g] = "idle"]
      /\ key' = [key EXCEPT ![g] = None]
      /\ ent' = [ent EXCEPT ![g] = None]
      /\ owner' = owner
      /\ LastOne(g) <=> refs[e] = 1
  BY <1>0 DEF Drop, LastOne
<1>3. refs[e] = Cardinality(Users(e)) /\ g \in Users(e)
  BY <1>0, <1>1 DEF Counted, Users
<1>4. /\ Cardinality(Users(e) \ {g}) = Cardinality(Users(e)) - 1
      /\ Cardinality(Users(e)) \in Nat /\ Cardinality(Users(e) \ {g}) \in Nat
      /\ IsFiniteSet(Users(e) \ {g})
  BY <1>3, UsersFinite, FS_RemoveElement, FS_CardinalityType
<1>5. /\ \A h \in Goroutines : ent'[h] = IF h = g THEN None ELSE ent[h]
      /\ \A h \in Goroutines : key'[h] = IF h = g THEN None ELSE key[h]
      /\ \A h \in Goroutines : pc'[h] = IF h = g THEN "idle" ELSE pc[h]
      /\ refs'[e] = Cardinality(Users(e) \ {g})
      /\ \A f \in Entries : f # e => refs'[f] = refs[f]
  BY <1>1, <1>2, <1>3, <1>4 DEF TypeOK
<1>6. TypeOK'
  <2>1. refs' \in [Entries -> Nat]
    BY <1>1, <1>2, <1>4, <1>5 DEF TypeOK
  <2> QED BY <1>2, <2>1 DEF TypeOK, PC
<1>7. After(e) = Users(e) \ {g}
  BY <1>1, <1>5 DEF Users
<1>8. \A f : f # e /\ f # None => After(f) = Users(f)
  BY <1>0, <1>5 DEF Users
<1>9. ASSUME NEW h \in Goroutines, h # g, pc[h] # "idle", ent[h] = e
      PROVE  ~LastOne(g)
  <2>1. h \in Users(e) \ {g}
    BY <1>9 DEF Users
  <2>2. Cardinality(Users(e) \ {g}) # 0
    BY <1>4, <2>1, FS_EmptySet
  <2> QED BY <1>2, <1>3, <1>4, <2>2
<1>10. ASSUME NEW h \in Goroutines, h # g, pc[h] # "idle"
       PROVE  locks'[key[h]] = ent[h]
  <2>1. key[h] \in Keys /\ ent[h] \in Entries /\ locks[key[h]] = ent[h]
    BY <1>10 DEF Pointing
  <2>2. CASE key[h] = k
    BY <1>1, <1>2, <1>9, <1>10, <2>1, <2>2
  <2>3. CASE key[h] # k
    BY <1>1, <1>2, <2>1, <2>3 DEF TypeOK
  <2> QED BY <2>2, <2>3
<1>11. Pointing'
  BY <1>5, <1>10 DEF Pointing
<1>12. \A j \in Keys : locks'[j] = locks[j] \/ (j = k /\ locks'[j] = None /\ LastOne(g))
  BY <1>1, <1>2 DEF TypeOK
<1>13. OneKeyEach'
  BY <1>12 DEF OneKeyEach
<1>14. Counted'
  <2> SUFFICES ASSUME NEW j \in Keys, locks'[j] # None
               PROVE  /\ refs'[locks'[j]] = Cardinality(After(locks'[j]))
                      /\ After(locks'[j]) # {}
    BY DEF Counted, Users
  <2>1. locks'[j] = locks[j] /\ locks[j] \in Entries
    BY <1>12 DEF TypeOK
  <2>2. CASE j = k
    <3>1. locks'[k] = e
      BY <1>1, <2>1, <2>2
    <3>2. ~LastOne(g)
      BY <1>1, <1>2, <3>1 DEF TypeOK
    <3>3. Users(e) \ {g} # {}
      BY <1>2, <1>3, <1>4, <3>2, FS_EmptySet
    <3> QED BY <1>5, <1>7, <2>2, <3>1, <3>3
  <2>3. CASE j # k
    <3>1. locks[j] # e
      BY <1>1, <2>3 DEF OneKeyEach
    <3>2. refs[locks[j]] = Cardinality(Users(locks[j])) /\ Users(locks[j]) # {}
      BY <2>1 DEF Counted
    <3>3. After(locks[j]) = Users(locks[j])
      BY <1>8, <2>1, <3>1
    <3> HIDE DEF After
    <3> QED BY <1>5, <2>1, <3>1, <3>2, <3>3
  <2> QED BY <2>2, <2>3
<1>15. Owning'
  BY <1>2, <1>5 DEF Owning
<1> QED BY <1>6, <1>11, <1>13, <1>14, <1>15

LEMMA InvStep == LockInv /\ [Next]_vars => LockInv'
<1> SUFFICES ASSUME LockInv, [Next]_vars
             PROVE  LockInv'
  OBVIOUS
<1> USE DEF LockInv
<1>1. ASSUME NEW g \in Goroutines, NEW where \in {"held", "dropping"},
             pc[g] # "idle", pc' = [pc EXCEPT ![g] = where],
             UNCHANGED <<locks, refs, key, ent>>
      PROVE  Pointing' /\ OneKeyEach' /\ Counted'
  <2>1. \A h \in Goroutines : pc'[h] = IF h = g THEN where ELSE pc[h]
    BY <1>1 DEF TypeOK
  <2>2. Pointing'
    BY <1>1, <2>1 DEF Pointing
  <2>3. OneKeyEach' /\ Counted'
    BY <1>1 DEF OneKeyEach, Counted, Users
  <2> QED BY <2>2, <2>3
<1>2. ASSUME NEW g \in Goroutines, Take(g)
      PROVE  LockInv'
  <2>1. ent[g] \in Entries
    BY <1>2 DEF Take, Pointing
  <2>2. TypeOK'
    BY <1>2, <2>1 DEF Take, TypeOK, PC
  <2>3. Owning'
    BY <1>2, <2>1, LockAssumption DEF Take, Owning, TypeOK
  <2> QED BY <1>1, <1>2, <2>2, <2>3 DEF Take
<1>3. ASSUME NEW g \in Goroutines, Unlock(g)
      PROVE  LockInv'
  <2>1. ent[g] \in Entries /\ owner[ent[g]] = g
    BY <1>3 DEF Unlock, Pointing, Owning
  <2>2. TypeOK'
    BY <1>3, <2>1 DEF Unlock, TypeOK, PC
  <2>3. Owning'
    BY <1>3, <2>1 DEF Unlock, Owning, TypeOK
  <2> QED BY <1>1, <1>3, <2>2, <2>3 DEF Unlock
<1>4. CASE UNCHANGED vars
  BY <1>4 DEF vars, TypeOK, Pointing, OneKeyEach, Counted, Owning, Users
<1> QED BY <1>2, <1>3, <1>4, EnterStep, DropStep DEF Next, Proceed

LEMMA InvCorrect == Spec => []LockInv
<1>1. Init => LockInv
  BY LockAssumption
     DEF Init, LockInv, TypeOK, PC, Pointing, OneKeyEach, Counted, Owning
<1> QED BY <1>1, InvStep, PTL DEF Spec

(* Never two holders of one key, for all constants.                        *)
THEOREM LockExcludes == Spec => []MutualExclusion
<1>1. LockInv => MutualExclusion
  BY DEF LockInv, Pointing, Owning, MutualExclusion
<1> QED BY <1>1, InvCorrect, PTL

(* No entry is dropped under a user and none outlives its users, for all   *)
(* constants.                                                              *)
THEOREM EntriesKept == Spec => []EntriesMatchUsers
<1>1. LockInv => EntriesMatchUsers
  <2> SUFFICES ASSUME LockInv, NEW k \in Keys
               PROVE  locks[k] # None <=> \E g \in Goroutines : key[g] = k
    BY DEF EntriesMatchUsers
  <2>1. ASSUME locks[k] # None
        PROVE  \E g \in Goroutines : key[g] = k
    <3>1. PICK g \in Goroutines : ent[g] = locks[k]
      BY <2>1 DEF LockInv, Counted, Users
    <3>2. key[g] \in Keys /\ locks[key[g]] = locks[k]
      BY <2>1, <3>1 DEF LockInv, Pointing
    <3> QED BY <2>1, <3>2 DEF LockInv, OneKeyEach
  <2>2. ASSUME NEW g \in Goroutines, key[g] = k
        PROVE  locks[k] # None
    BY <2>2, LockAssumption DEF LockInv, Pointing
  <2> QED BY <2>1, <2>2
<1> QED BY <1>1, InvCorrect, PTL

-----------------------------------------------------------------------------
(***************************************************************************)
(* The lock that callers see: a key is held by whoever holds the mutex of  *)
(* the entry the map has for it.                                           *)
(***************************************************************************)
Holder == [k \in Keys |-> IF locks[k] = None THEN None ELSE owner[locks[k]]]

Atomic == INSTANCE AtomicLock WITH Callers <- Goroutines, holder <- Holder

(* No mutex is left locked by a goroutine that went on, in the map or in   *)
(* an entry to be recycled.                                                *)
Owned ==
  \A e \in Entries, g \in Goroutines : owner[e] = g => pc[g] = "held" /\ ent[g] = e

OwnedInv == LockInv /\ Owned

LEMMA OwnedStep == OwnedInv /\ [Next]_vars => OwnedInv'
<1> SUFFICES ASSUME OwnedInv, [Next]_vars
             PROVE  Owned'
  BY InvStep DEF OwnedInv
<1> USE DEF OwnedInv, LockInv, TypeOK, Owned
<1>1. ASSUME NEW g \in Goroutines, Take(g)
      PROVE  Owned'
  BY <1>1, LockAssumption DEF Take, Pointing
<1>2. ASSUME NEW g \in Goroutines, Unlock(g)
      PROVE  Owned'
  BY <1>2, LockAssumption DEF Unlock, Pointing
<1>3. ASSUME NEW g \in Goroutines, Drop(g)
      PROVE  Owned'
  BY <1>3 DEF Drop
<1>4. ASSUME NEW g \in Goroutines, NEW k \in Keys, Enter(g, k)
      PROVE  Owned'
  <2>1. PICK e : /\ owner' = IF locks[k] = None THEN [owner EXCEPT ![e] = None] ELSE owner
                 /\ ent' = [ent EXCEPT ![g] = e]
    BY <1>4 DEF Enter
  <2>2. pc[g] = "idle" /\ pc' = [pc EXCEPT ![g] = "waiting"]
    BY <1>4 DEF Enter
  <2> QED BY <2>1, <2>2, LockAssumption
<1>5. CASE UNCHANGED vars
  BY <1>5 DEF vars
<1> QED BY <1>1, <1>2, <1>3, <1>4, <1>5 DEF Next, Proceed

(* What the steps of a goroutine do to the lock that callers see.          *)
LEMMA HolderStep ==
  ASSUME OwnedInv, NEW g \in Goroutines
  PROVE  /\ Take(g) => Atomic!Acquire(g, key[g]) /\ key[g] \in Keys
         /\ Unlock(g) => Atomic!Release(g, key[g]) /\ key[g] \in Keys
         /\ Drop(g) => Holder' = Holder
         /\ \A k \in Keys : Enter(g, k) => Holder' = Holder
<1> USE DEF OwnedInv, LockInv, TypeOK
<1>1. ASSUME pc[g] # "idle"
      PROVE  /\ key[g] \in Keys /\ ent[g] \in Entries
             /\ locks[key[g]] = ent[g] /\ ent[g] # None
             /\ \A j \in Keys : j # key[g] => locks[j] # ent[g]
  BY <1>1, LockAssumption DEF Pointing, OneKeyEach
<1>2. ASSUME Take(g)
      PROVE  Atomic!Acquire(g, key[g]) /\ key[g] \in Keys
  <2>1. pc[g] = "waiting" /\ owner[ent[g]] = None /\ locks' = locks
        /\ owner' = [owner EXCEPT ![ent[g]] = g]
    BY <1>2 DEF Take
  <2>2. Holder[key[g]] = None
    BY <1>1, <2>1 DEF Holder
  <2>3. \A j \in Keys : Holder[j] # g
    BY <2>1, LockAssumption DEF Holder, Owned
  <2>4. Holder' = [Holder EXCEPT ![key[g]] = g]
    BY <1>1, <2>1 DEF Holder
  <2> QED BY <1>1, <2>1, <2>2, <2>3, <2>4 DEF Atomic!Acquire
<1>3. ASSUME Unlock(g)
      PROVE  Atomic!Release(g, key[g]) /\ key[g] \in Keys
  <2>1. pc[g] = "held" /\ locks' = locks /\ owner' = [owner EXCEPT ![ent[g]] = None]
    BY <1>3 DEF Unlock
  <2>2. Holder[key[g]] = g
    BY <1>1, <2>1 DEF Holder, Owning
  <2>3. Holder' = [Holder EXCEPT ![key[g]] = None]
    BY <1>1, <2>1 DEF Holder
  <2> QED BY <1>1, <2>1, <2>2, <2>3 DEF Atomic!Release
<1>4. ASSUME Drop(g)
      PROVE  Holder' = Holder
  <2>1. /\ pc[g] = "dropping" /\ owner' = owner
        /\ locks' = IF LastOne(g) THEN [locks EXCEPT ![key[g]] = None] ELSE locks
    BY <1>4 DEF Drop
  <2>2. ASSUME LastOne(g)
        PROVE  owner[ent[g]] = None
    <3>1. refs[ent[g]] = 1 /\ refs[ent[g]] = Cardinality(Users(ent[g]))
      BY <1>1, <2>1, <2>2 DEF LastOne, Counted
    <3>2. g \in Users(ent[g])
      BY DEF Users
    <3>3. Users(ent[g]) \ {g} = {}
      <4>1. /\ Cardinality(Users(ent[g]) \ {g}) = Cardinality(Users(ent[g])) - 1
            /\ IsFiniteSet(Users(ent[g]) \ {g})
        BY <3>2, UsersFinite, FS_RemoveElement, FS_Subset
      <4>2. Cardinality(Users(ent[g]) \ {g}) = 0
        BY <3>1, <4>1
      <4> QED BY <4>1, <4>2, FS_EmptySet
    <3>4. \A h \in Goroutines : owner[ent[g]] # h
      BY <1>1, <2>1, <3>3 DEF Owned, Users
    <3> QED BY <1>1, <2>1, <3>4
  <2> QED BY <1>1, <2>1, <2>2 DEF Holder
<1>5. ASSUME NEW k \in Keys, Enter(g, k)
      PROVE  Holder' = Holder
  <2>1. PICK e \in IF locks[k] = None THEN Garbage ELSE {locks[k]} :
          /\ locks' = [locks EXCEPT ![k] = e]
          /\ owner' = IF locks[k] = None THEN [owner EXCEPT ![e] = None] ELSE owner
    BY <1>5 DEF Enter
  <2>2. CASE locks[k] = None
    <3>1. e \in Entries /\ e # None /\ \A j \in Keys : locks[j] # e
      BY <2>1, <2>2, LockAssumption DEF Garbage
    <3> QED BY <2>1, <2>2, <3>1 DEF Holder
  <2>3. CASE locks[k] # None
    BY <2>1, <2>3 DEF Holder
  <2> QED BY <2>2, <2>3
<1> QED BY <1>2, <1>3, <1>4, <1>5

(* Locker is a lock per key: entries that are made, shared, dropped and    *)
(* recycled behind the map never show, for all constants (Locker:          *)
(* "serializes access to arbitrary string keys").                          *)
THEOREM ImplementsAtomicLock == Spec => Atomic!Spec
<1>1. Init => OwnedInv /\ Atomic!Init
  BY LockAssumption
     DEF Init, OwnedInv, LockInv, TypeOK, PC, Pointing, OneKeyEach, Counted, Owning,
         Owned, Atomic!Init, Holder
<1>2. OwnedInv /\ [Next]_vars => [Atomic!Next]_Holder
  <2> SUFFICES ASSUME OwnedInv, [Next]_vars
               PROVE  [Atomic!Next]_Holder
    OBVIOUS
  <2>1. CASE UNCHANGED vars
    BY <2>1 DEF vars, Holder
  <2>2. CASE Next
    BY <2>2, HolderStep DEF Next, Proceed, Atomic!Next
  <2> QED BY <2>1, <2>2
<1> QED BY <1>1, <1>2, OwnedStep, PTL DEF Spec, Atomic!Spec
=============================================================================
