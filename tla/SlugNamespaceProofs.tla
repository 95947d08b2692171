------------------------ MODULE SlugNamespaceProofs ------------------------
(***************************************************************************)
(* What is proved of SlugNamespace for any number of creators, slugs and   *)
(* replicas.                                                               *)
(***************************************************************************)
EXTENDS SlugNamespace, TLAPS

(***************************************************************************)
(* Typing, with the fact that a creator past "resolve" has a candidate.    *)
(***************************************************************************)
Trying == PC \ {"resolve", "done"}

Candidates == \A c \in Creators : pc[c] \in Trying => slug[c] \in Slugs

TypedInv == TypeOK /\ Candidates

(* Goes is typed, and moves one creator only. *)
LEMMA GoesTyped ==
  ASSUME TypeOK, NEW c \in Creators, NEW where \in PC, Goes(c, where)
  PROVE  /\ pc' \in [Creators -> PC]
         /\ pc'[c] = where
         /\ \A d \in Creators : d # c => pc'[d] = pc[d]
  BY DEF Goes, TypeOK

LEMMA DeleteTyped ==
  ASSUME TypeOK, NEW k \in Resources, NEW gone, DeleteRows(k, gone)
  PROVE  /\ table' \in [Resources -> [Slugs -> Creators \cup {None}]]
         /\ namespace' \in [Slugs -> Resources \cup {Free}]
         /\ stale' \subseteq Slugs
  BY DEF DeleteRows, Frees, TypeOK

LEMMA RejectTyped ==
  ASSUME TypeOK, NEW c \in Creators, slug[c] \in Slugs, Reject(c)
  PROVE  /\ TypeOK'
         /\ pc'[c] \in {"resolve", "done"}
         /\ \A d \in Creators : d # c => pc'[d] = pc[d]
         /\ UNCHANGED slug
<1>1. holder' \in [Replicas -> [Slugs -> Creators \cup {None}]]
  BY CreatorsAssumption DEF Reject, TypeOK
<1>2. PICK where \in {"resolve", "done"} : Goes(c, where)
  BY DEF Reject
<1>3. /\ pc' \in [Creators -> PC]
      /\ pc'[c] = where
      /\ \A d \in Creators : d # c => pc'[d] = pc[d]
  BY <1>2, GoesTyped DEF PC
<1> QED BY <1>1, <1>3 DEF Reject, TypeOK, storage

(* The INSERT goes through, or the row is refused. *)
LEMMA InsertCases ==
  ASSUME NEW c \in Creators, Insert(c)
  PROVE  /\ pc[c] = "insert"
         /\ UNCHANGED <<stale, holder, slug, tries>>
         /\ \/ /\ Admits(kind[c], slug[c])
               /\ table' = [table EXCEPT ![kind[c]][slug[c]] = c]
               /\ namespace' = [namespace EXCEPT ![slug[c]] = kind[c]]
               /\ won' = [won EXCEPT ![c] = slug[c]]
               /\ Goes(c, IF kind[c] = "links" THEN "sweep" ELSE "unlock")
            \/ Goes(c, "unlock") /\ UNCHANGED <<table, namespace, won>>
  BY DEF Insert

LEMMA TypedStep == TypedInv /\ [Next]_vars => TypedInv'
<1> SUFFICES ASSUME TypeOK, Candidates, [Next]_vars
             PROVE  TypeOK' /\ Candidates'
  BY DEF TypedInv
<1> USE DEF Trying
<1>1. ASSUME NEW c \in Creators, Resolve(c)
      PROVE  TypeOK' /\ Candidates'
  <2>1. PICK s \in Slugs : slug' = [slug EXCEPT ![c] = s]
    BY <1>1, CreatorsAssumption DEF Resolve
  <2>2. tries' \in [Creators -> 0..MaxHashRetries]
    BY <1>1, CreatorsAssumption DEF Resolve, TypeOK
  <2>3. Goes(c, "lock") /\ "lock" \in PC
    BY <1>1 DEF Resolve, PC
  <2>4. /\ pc' \in [Creators -> PC]
        /\ \A d \in Creators : d # c => pc'[d] = pc[d]
    BY <2>3, GoesTyped
  <2>5. TypeOK'
    BY <1>1, <2>1, <2>2, <2>4 DEF Resolve, TypeOK, storage
  <2>6. Candidates'
    BY <2>1, <2>4 DEF Candidates, TypeOK
  <2> QED BY <2>5, <2>6
<1>2. ASSUME NEW c \in Creators, GiveUp(c)
      PROVE  TypeOK' /\ Candidates'
  BY <1>2, GoesTyped DEF GiveUp, TypeOK, Candidates, PC, storage
<1>3. ASSUME NEW c \in Creators, Lock(c)
      PROVE  TypeOK' /\ Candidates'
  <2>1. slug[c] \in Slugs
    BY <1>3 DEF Lock, Candidates, PC
  <2>2. holder' \in [Replicas -> [Slugs -> Creators \cup {None}]]
    BY <1>3, <2>1, CreatorsAssumption DEF Lock, TypeOK
  <2>3. PICK where \in {"checkNotes", "checkLinks"} : Goes(c, where)
    BY <1>3 DEF Lock
  <2>4. /\ pc' \in [Creators -> PC]
        /\ \A d \in Creators : d # c => pc'[d] = pc[d]
    BY <2>3, GoesTyped DEF PC
  <2>5. TypeOK'
    BY <1>3, <2>2, <2>4 DEF Lock, TypeOK, storage
  <2>6. Candidates'
    BY <1>3, <2>1, <2>4 DEF Lock, Candidates
  <2> QED BY <2>5, <2>6
<1>4. ASSUME NEW c \in Creators, CheckNotes(c)
      PROVE  TypeOK' /\ Candidates'
  <2>1. slug[c] \in Slugs
    BY <1>4 DEF CheckNotes, Candidates, PC
  <2>2. CASE Reject(c)
    BY <2>1, <2>2, RejectTyped DEF Candidates
  <2>3. CASE Goes(c, "checkLinks") /\ UNCHANGED <<storage, holder, slug, tries, won>>
    BY <2>1, <2>3, GoesTyped DEF TypeOK, Candidates, PC, storage
  <2> QED BY <1>4, <2>2, <2>3 DEF CheckNotes
<1>5. ASSUME NEW c \in Creators, CheckLinks(c)
      PROVE  TypeOK' /\ Candidates'
  <2>1. slug[c] \in Slugs
    BY <1>5 DEF CheckLinks, Candidates, PC
  <2>2. CASE Reject(c)
    BY <2>1, <2>2, RejectTyped DEF Candidates
  <2>3. CASE Goes(c, "insert") /\ UNCHANGED <<storage, holder, slug, tries, won>>
    BY <2>1, <2>3, GoesTyped DEF TypeOK, Candidates, PC, storage
  <2> QED BY <1>5, <2>2, <2>3 DEF CheckLinks
<1>6. ASSUME NEW c \in Creators, Insert(c)
      PROVE  TypeOK' /\ Candidates'
  <2>1. slug[c] \in Slugs /\ kind[c] \in Resources
    BY <1>6, CreatorsAssumption DEF Insert, Candidates, PC
  <2>2. PICK where \in {"sweep", "unlock"} : Goes(c, where)
    BY <1>6 DEF Insert
  <2>3. /\ pc' \in [Creators -> PC]
        /\ \A d \in Creators : d # c => pc'[d] = pc[d]
    BY <2>2, GoesTyped DEF PC
  <2>4. /\ table' \in [Resources -> [Slugs -> Creators \cup {None}]]
        /\ namespace' \in [Slugs -> Resources \cup {Free}]
        /\ won' \in [Creators -> Slugs \cup {None}]
    <3>1. CASE UNCHANGED <<table, namespace, won>>
      BY <3>1 DEF TypeOK
    <3>2. CASE /\ table' = [table EXCEPT ![kind[c]][slug[c]] = c]
               /\ namespace' = [namespace EXCEPT ![slug[c]] = kind[c]]
               /\ won' = [won EXCEPT ![c] = slug[c]]
      BY <2>1, <3>2 DEF TypeOK
    <3> QED BY <1>6, <3>1, <3>2, InsertCases
  <2>5. TypeOK'
    BY <1>6, <2>3, <2>4 DEF Insert, TypeOK
  <2>6. Candidates'
    BY <1>6, <2>1, <2>3 DEF Insert, Candidates
  <2> QED BY <2>5, <2>6
<1>7. ASSUME NEW c \in Creators, Sweep(c)
      PROVE  TypeOK' /\ Candidates'
  <2>1. /\ pc' \in [Creators -> PC]
        /\ \A d \in Creators : d # c => pc'[d] = pc[d]
    BY <1>7, GoesTyped DEF Sweep, PC
  <2>2. /\ table' \in [Resources -> [Slugs -> Creators \cup {None}]]
        /\ namespace' \in [Slugs -> Resources \cup {Free}]
        /\ stale' \subseteq Slugs
    BY <1>7, DeleteTyped DEF Sweep, Resources, storage, TypeOK
  <2>3. TypeOK'
    BY <1>7, <2>1, <2>2 DEF Sweep, TypeOK
  <2>4. Candidates'
    BY <1>7, <2>1 DEF Sweep, Candidates, PC
  <2> QED BY <2>3, <2>4
<1>8. ASSUME NEW c \in Creators, Unlock(c)
      PROVE  TypeOK' /\ Candidates'
  <2>1. slug[c] \in Slugs
    BY <1>8 DEF Unlock, Candidates, PC
  <2>2. holder' \in [Replicas -> [Slugs -> Creators \cup {None}]]
    BY <1>8, <2>1, CreatorsAssumption DEF Unlock, TypeOK
  <2>3. /\ pc' \in [Creators -> PC]
        /\ \A d \in Creators : d # c => pc'[d] = pc[d]
    BY <1>8, GoesTyped DEF Unlock, PC
  <2>4. TypeOK'
    BY <1>8, <2>2, <2>3 DEF Unlock, TypeOK, storage
  <2>5. Candidates'
    BY <1>8, <2>1, <2>3 DEF Unlock, Candidates
  <2> QED BY <2>4, <2>5
<1>9. ASSUME NEW c \in Creators, Fail(c)
      PROVE  TypeOK' /\ Candidates'
  BY <1>9, GoesTyped DEF Fail, TypeOK, Candidates, PC, storage
<1>10. ASSUME NEW k \in Resources, NEW s \in Slugs, Delete(k, s)
       PROVE  TypeOK' /\ Candidates'
  BY <1>10, DeleteTyped DEF Delete, TypeOK, Candidates
<1>11. ASSUME NEW s \in Slugs, Expire(s)
       PROVE  TypeOK' /\ Candidates'
  BY <1>11 DEF Expire, TypeOK, Candidates
<1>12. CASE UNCHANGED vars
  BY <1>12 DEF vars, TypeOK, Candidates
<1> QED BY <1>1, <1>2, <1>3, <1>4, <1>5, <1>6, <1>7, <1>8, <1>9, <1>10, <1>11, <1>12
     DEF Next, Step

LEMMA TypedInit == Init => TypedInv
  BY CreatorsAssumption DEF Init, TypedInv, TypeOK, Candidates, Trying, PC

LEMMA Typed == Spec => []TypedInv
  BY TypedInit, TypedStep, PTL DEF Spec

(* Every state component keeps its shape, and no creator draws more than   *)
(* MaxHashRetries candidates, for all constants.                           *)
THEOREM TypeCorrect == Spec => []TypeOK
<1>1. TypedInv => TypeOK
  BY DEF TypedInv
<1> QED BY <1>1, Typed, PTL

-----------------------------------------------------------------------------
(***************************************************************************)
(* The namespace table mirrors the two resource tables.                    *)
(***************************************************************************)
LEMMA DeleteAgrees ==
  ASSUME TypeOK, NamespaceAgrees, NEW k \in Resources, NEW gone, DeleteRows(k, gone)
  PROVE  NamespaceAgrees'
<1>1. ASSUME NEW s \in Slugs, NEW j \in Resources
      PROVE  namespace'[s] = j <=> table'[j][s] # None
  <2>1. /\ table'[k][s] = IF s \in gone THEN None ELSE table[k][s]
        /\ \A i \in Resources : i # k => table'[i][s] = table[i][s]
    BY DEF DeleteRows, TypeOK
  <2>2. namespace'[s] = IF s \in gone /\ namespace[s] = k THEN Free ELSE namespace[s]
    BY DEF DeleteRows, Frees
  <2>3. namespace[s] = j <=> table[j][s] # None
    BY DEF NamespaceAgrees
  <2>4. namespace[s] = k <=> table[k][s] # None
    BY DEF NamespaceAgrees
  <2>5. Free # j
    BY DEF Free, Resources
  <2> QED BY <2>1, <2>2, <2>3, <2>4, <2>5
<1> QED BY <1>1 DEF NamespaceAgrees

LEMMA InsertAgrees ==
  ASSUME TypedInv, NamespaceAgrees, NEW c \in Creators, Insert(c)
  PROVE  NamespaceAgrees'
<1>1. slug[c] \in Slugs /\ kind[c] \in Resources /\ c # None
  BY CreatorsAssumption DEF Insert, TypedInv, Candidates, Trying, PC
<1>2. CASE UNCHANGED <<table, namespace>>
  BY <1>2 DEF NamespaceAgrees
<1>3. CASE /\ Admits(kind[c], slug[c])
           /\ table' = [table EXCEPT ![kind[c]][slug[c]] = c]
           /\ namespace' = [namespace EXCEPT ![slug[c]] = kind[c]]
  <2>1. namespace[slug[c]] = Free /\ \A j \in Resources : Free # j
    BY <1>3 DEF Admits, Free, Resources
  <2>2. ASSUME NEW s \in Slugs, NEW j \in Resources
        PROVE  namespace'[s] = j <=> table'[j][s] # None
    <3>1. namespace[s] = j <=> table[j][s] # None
      BY DEF NamespaceAgrees
    <3>2. namespace'[s] = IF s = slug[c] THEN kind[c] ELSE namespace[s]
      BY <1>1, <1>3 DEF TypedInv, TypeOK
    <3>3. table'[j][s] = IF s = slug[c] /\ j = kind[c] THEN c ELSE table[j][s]
      BY <1>1, <1>3 DEF TypedInv, TypeOK
    <3> QED BY <1>1, <2>1, <3>1, <3>2, <3>3
  <2> QED BY <2>2 DEF NamespaceAgrees
<1> QED BY <1>2, <1>3, InsertCases

LEMMA AgreesStep == TypedInv /\ NamespaceAgrees /\ [Next]_vars => NamespaceAgrees'
<1> SUFFICES ASSUME TypedInv, NamespaceAgrees, [Next]_vars
             PROVE  NamespaceAgrees'
  OBVIOUS
<1>1. ASSUME UNCHANGED <<table, namespace>>
      PROVE  NamespaceAgrees'
  BY <1>1 DEF NamespaceAgrees
<1>2. ASSUME NEW c \in Creators, Sweep(c)
      PROVE  NamespaceAgrees'
  <2>1. CASE DeleteRows("links", stale \ {slug[c]})
    BY <2>1, DeleteAgrees DEF TypedInv, Resources
  <2>2. CASE UNCHANGED storage
    BY <1>1, <2>2 DEF storage
  <2> QED BY <1>2, <2>1, <2>2 DEF Sweep
<1>3. ASSUME NEW k \in Resources, NEW s \in Slugs, Delete(k, s)
      PROVE  NamespaceAgrees'
  BY <1>3, DeleteAgrees DEF Delete, TypedInv
<1>4. ASSUME NEW c \in Creators, Insert(c)
      PROVE  NamespaceAgrees'
  BY <1>4, InsertAgrees
<1>5. ASSUME NEW c \in Creators,
             \/ Resolve(c) \/ GiveUp(c) \/ Lock(c) \/ CheckNotes(c) \/ CheckLinks(c)
             \/ Unlock(c) \/ Fail(c)
      PROVE  NamespaceAgrees'
  <2>1. UNCHANGED <<table, namespace>>
    BY <1>5 DEF Resolve, GiveUp, Lock, CheckNotes, CheckLinks, Reject, Unlock, Fail, storage
  <2> QED BY <1>1, <2>1
<1>6. ASSUME NEW s \in Slugs, Expire(s)
      PROVE  NamespaceAgrees'
  BY <1>1, <1>6 DEF Expire
<1>7. CASE UNCHANGED vars
  BY <1>1, <1>7 DEF vars
<1> QED BY <1>2, <1>3, <1>4, <1>5, <1>6, <1>7 DEF Next, Step

LEMMA AgreesInit == Init => NamespaceAgrees
  BY DEF Init, NamespaceAgrees, Free, Resources

(* The namespace table reserves exactly the slugs in use, for all          *)
(* constants.                                                              *)
THEOREM NamespaceCorrect == Spec => []NamespaceAgrees
  BY AgreesInit, AgreesStep, Typed, PTL DEF Spec

(* No slug ever names a note and a link at once: one row per slug in the   *)
(* namespace cannot agree with both tables.                                *)
THEOREM SlugsUnique == Spec => []OneResourcePerSlug
<1>1. NamespaceAgrees => OneResourcePerSlug
  BY DEF NamespaceAgrees, OneResourcePerSlug, Resources
<1> QED BY <1>1, NamespaceCorrect, PTL

-----------------------------------------------------------------------------
(***************************************************************************)
(* The lock makes the check of a link hold until its INSERT.  Strengthened *)
(* to the steps before it: who is between Lock and Unlock holds the lock,  *)
(* and a table that was checked holds no row of the same replica.          *)
(***************************************************************************)
Holding == \A c \in Creators : pc[c] \in Locked => holder[home[c]][slug[c]] = c

Foreign(c, k) ==
  table[k][slug[c]] # None => home[table[k][slug[c]]] # home[c]

Checked ==
  \A c \in Creators :
    /\ kind[c] = "links" /\ pc[c] \in {"checkLinks", "insert"} => Foreign(c, "notes")
    /\ pc[c] = "insert" => Foreign(c, "links")

LockInv == TypedInv /\ Holding /\ Checked

(* Two creators of one replica are never past the lock of one slug. *)
LEMMA OneHolder ==
  ASSUME Holding, NEW c \in Creators, NEW d \in Creators,
         pc[c] \in Locked, pc[d] \in Locked, home[c] = home[d], slug[c] = slug[d]
  PROVE  c = d
  BY DEF Holding

(* Releasing the lock of one creator leaves all others holding theirs. *)
LEMMA ReleaseKeepsHolding ==
  ASSUME TypedInv, Holding, NEW c \in Creators, pc[c] \in Locked,
         holder' = [holder EXCEPT ![home[c]][slug[c]] = None],
         UNCHANGED slug, pc'[c] \notin Locked,
         \A d \in Creators : d # c => pc'[d] = pc[d]
  PROVE  Holding'
<1> SUFFICES ASSUME NEW d \in Creators, pc'[d] \in Locked
             PROVE  holder'[home[d]][slug[d]] = d
  BY DEF Holding
<1>1. d # c /\ pc[d] \in Locked
  OBVIOUS
<1>2. holder[home[d]][slug[d]] = d
  BY <1>1 DEF Holding
<1>3. ~(home[c] = home[d] /\ slug[c] = slug[d])
  BY <1>1, OneHolder
<1>4. /\ slug[c] \in Slugs /\ slug[d] \in Slugs
      /\ home[c] \in Replicas /\ home[d] \in Replicas
  BY <1>1, CreatorsAssumption DEF TypedInv, Candidates, Trying, Locked, PC
<1> QED BY <1>2, <1>3, <1>4 DEF TypedInv, TypeOK

LEMMA HoldingStep == TypedInv /\ Holding /\ [Next]_vars => Holding'
<1> SUFFICES ASSUME TypedInv, Holding, [Next]_vars
             PROVE  Holding'
  OBVIOUS
<1>0. TypeOK
  BY DEF TypedInv
<1>1. ASSUME NEW c \in Creators, NEW where \in PC, Goes(c, where),
             UNCHANGED <<holder, slug>>, where \in Locked => pc[c] \in Locked
      PROVE  Holding'
  BY <1>0, <1>1, GoesTyped DEF Holding
<1>2. ASSUME NEW c \in Creators, Resolve(c)
      PROVE  Holding'
  <2>1. /\ pc'[c] = "lock"
        /\ \A d \in Creators : d # c => pc'[d] = pc[d]
    BY <1>0, <1>2, GoesTyped DEF Resolve, PC
  <2>2. holder' = holder /\ \A d \in Creators : d # c => slug'[d] = slug[d]
    BY <1>0, <1>2 DEF Resolve, TypeOK
  <2> QED BY <2>1, <2>2 DEF Holding, Locked
<1>3. ASSUME NEW c \in Creators, Lock(c)
      PROVE  Holding'
  <2>1. slug[c] \in Slugs /\ home[c] \in Replicas /\ c # None
    BY <1>3, CreatorsAssumption DEF Lock, TypedInv, Candidates, Trying, PC
  <2>2. \A d \in Creators : d # c => pc'[d] = pc[d]
    <3>1. PICK where \in {"checkNotes", "checkLinks"} : Goes(c, where)
      BY <1>3 DEF Lock
    <3> QED BY <1>0, <3>1, GoesTyped DEF PC
  <2> SUFFICES ASSUME NEW d \in Creators, pc'[d] \in Locked
               PROVE  holder'[home[d]][slug'[d]] = d
    BY DEF Holding
  <2>3. holder' = [holder EXCEPT ![home[c]][slug[c]] = c] /\ slug' = slug
    BY <1>3 DEF Lock
  <2>4. CASE d = c
    BY <1>0, <2>1, <2>3, <2>4 DEF TypeOK
  <2>5. CASE d # c
    <3>1. holder[home[d]][slug[d]] = d /\ pc[d] \in Locked
      BY <2>2, <2>5 DEF Holding
    <3>2. d # None
      BY CreatorsAssumption
    <3>3. ~(home[c] = home[d] /\ slug[c] = slug[d])
      BY <1>3, <3>1, <3>2 DEF Lock, LockAvailable
    <3>4. slug[d] \in Slugs /\ home[d] \in Replicas
      BY <3>1, CreatorsAssumption DEF TypedInv, Candidates, Trying, Locked, PC
    <3> QED BY <1>0, <2>1, <2>3, <3>1, <3>3, <3>4 DEF TypeOK
  <2> QED BY <2>4, <2>5
<1>4. ASSUME NEW c \in Creators, Reject(c), pc[c] \in Locked
      PROVE  Holding'
  <2>1. slug[c] \in Slugs
    BY <1>4 DEF TypedInv, Candidates, Trying, Locked, PC
  <2>2. /\ pc'[c] \in {"resolve", "done"} /\ UNCHANGED slug
        /\ \A d \in Creators : d # c => pc'[d] = pc[d]
    BY <1>0, <1>4, <2>1, RejectTyped
  <2>3. holder' = [holder EXCEPT ![home[c]][slug[c]] = None]
    BY <1>4 DEF Reject
  <2>4. pc'[c] \notin Locked
    BY <2>2 DEF Locked
  <2> QED BY <1>4, <2>2, <2>3, <2>4, ReleaseKeepsHolding
<1>5. ASSUME NEW c \in Creators, CheckNotes(c) \/ CheckLinks(c)
      PROVE  Holding'
  <2>1. pc[c] \in Locked
    BY <1>5 DEF CheckNotes, CheckLinks, Locked
  <2>2. CASE Reject(c)
    BY <1>4, <2>1, <2>2
  <2>3. CASE \E where \in {"checkLinks", "insert"} :
               Goes(c, where) /\ UNCHANGED <<holder, slug>>
    BY <1>1, <2>1, <2>3 DEF PC
  <2> QED BY <1>5, <2>2, <2>3 DEF CheckNotes, CheckLinks
<1>6. ASSUME NEW c \in Creators, Insert(c)
      PROVE  Holding'
  <2>1. PICK where \in {"sweep", "unlock"} : Goes(c, where)
    BY <1>6, InsertCases
  <2>2. pc[c] \in Locked /\ UNCHANGED <<holder, slug>>
    BY <1>6, InsertCases DEF Locked
  <2> QED BY <1>1, <2>1, <2>2 DEF PC
<1>7. ASSUME NEW c \in Creators, Sweep(c) \/ GiveUp(c) \/ Fail(c)
      PROVE  Holding'
  <2>1. PICK where \in {"unlock", "done"} : Goes(c, where)
    BY <1>7 DEF Sweep, GiveUp, Fail
  <2>2. CASE where = "done"
    BY <1>1, <1>7, <2>1, <2>2 DEF Sweep, GiveUp, Fail, PC, Locked
  <2>3. CASE where = "unlock" /\ pc[c] \in Locked
    BY <1>1, <1>7, <2>1, <2>3 DEF Sweep, GiveUp, Fail, PC
  <2>4. CASE where = "unlock" /\ pc[c] \notin Locked
    <3>1. GiveUp(c)
      BY <1>7, <2>4 DEF Sweep, Fail, Locked
    <3> QED BY <1>0, <1>1, <3>1 DEF GiveUp, PC, Locked
  <2> QED BY <2>1, <2>2, <2>3, <2>4
<1>8. ASSUME NEW c \in Creators, Unlock(c)
      PROVE  Holding'
  <2>1. /\ pc'[c] = "done"
        /\ \A d \in Creators : d # c => pc'[d] = pc[d]
    BY <1>0, <1>8, GoesTyped DEF Unlock, PC
  <2>2. pc[c] \in Locked /\ pc'[c] \notin Locked
    BY <1>8, <2>1 DEF Unlock, Locked
  <2> QED BY <1>8, <2>1, <2>2, ReleaseKeepsHolding DEF Unlock
<1>9. CASE UNCHANGED <<holder, slug, pc>>
  BY <1>9 DEF Holding
<1> QED BY <1>2, <1>3, <1>5, <1>6, <1>7, <1>8, <1>9 DEF Next, Step, Delete, Expire, vars

(* A step that adds no row, and leaves the creator where it is, leaves     *)
(* what it checked as it was.                                              *)
NoRowAdded ==
  \A k \in Resources, s \in Slugs : table'[k][s] \in {table[k][s], None}

LEMMA DeleteAddsNoRow ==
  ASSUME TypeOK, NEW k \in Resources, NEW gone, DeleteRows(k, gone)
  PROVE  NoRowAdded
  BY DEF DeleteRows, TypeOK, NoRowAdded

LEMMA ForeignKept ==
  ASSUME NoRowAdded, NEW c \in Creators, slug[c] \in Slugs, slug'[c] = slug[c],
         NEW k \in Resources, Foreign(c, k)
  PROVE  Foreign(c, k)'
<1>1. table'[k][slug[c]] \in {table[k][slug[c]], None}
  BY DEF NoRowAdded
<1> QED BY <1>1 DEF Foreign

LEMMA CheckedStep == LockInv /\ [Next]_vars => Checked'
<1> SUFFICES ASSUME TypedInv, Holding, Checked, [Next]_vars
             PROVE  Checked'
  BY DEF LockInv
<1>0. TypeOK /\ "notes" \in Resources /\ "links" \in Resources
  BY DEF TypedInv, Resources
<1>1. ASSUME NEW c \in Creators, pc[c] \in {"checkLinks", "insert"}
      PROVE  slug[c] \in Slugs
  BY <1>1 DEF TypedInv, Candidates, Trying, PC
<1>2. ASSUME NEW c \in Creators, NoRowAdded,
             \A d \in Creators : d # c => pc'[d] = pc[d] /\ slug'[d] = slug[d],
             slug'[c] = slug[c] \/ pc'[c] \notin Locked,
             pc'[c] = "checkLinks" /\ kind[c] = "links"
               => slug[c] \in Slugs /\ Foreign(c, "notes"),
             pc'[c] = "insert"
               => /\ slug[c] \in Slugs
                  /\ Foreign(c, "links")
                  /\ kind[c] = "links" => Foreign(c, "notes")
      PROVE  Checked'
  <2>1. ASSUME NEW d \in Creators, d # c
        PROVE  /\ kind[d] = "links" /\ pc'[d] \in {"checkLinks", "insert"}
                    => Foreign(d, "notes")'
               /\ pc'[d] = "insert" => Foreign(d, "links")'
    <3>1. pc'[d] = pc[d] /\ slug'[d] = slug[d]
      BY <1>2, <2>1
    <3>2. pc[d] \in {"checkLinks", "insert"} => slug[d] \in Slugs
      BY <1>1
    <3>3. /\ kind[d] = "links" /\ pc[d] \in {"checkLinks", "insert"} => Foreign(d, "notes")
          /\ pc[d] = "insert" => Foreign(d, "links")
      BY DEF Checked
    <3> QED BY <1>0, <1>2, <3>1, <3>2, <3>3, ForeignKept
  <2>2. /\ kind[c] = "links" /\ pc'[c] \in {"checkLinks", "insert"}
             => Foreign(c, "notes")'
        /\ pc'[c] = "insert" => Foreign(c, "links")'
    BY <1>0, <1>2, ForeignKept DEF Locked
  <2> QED BY <2>1, <2>2 DEF Checked
<1>3. ASSUME NEW c \in Creators, NEW where \in PC \ {"checkLinks", "insert"},
             Goes(c, where), UNCHANGED slug, NoRowAdded
      PROVE  Checked'
  BY <1>0, <1>2, <1>3, GoesTyped
<1>4. ASSUME UNCHANGED table
      PROVE  NoRowAdded
  BY <1>4 DEF NoRowAdded
<1>5. ASSUME NEW c \in Creators, Resolve(c)
      PROVE  Checked'
  <2>1. /\ pc'[c] = "lock"
        /\ \A d \in Creators : d # c => pc'[d] = pc[d]
    BY <1>0, <1>5, GoesTyped DEF Resolve, PC
  <2>2. NoRowAdded /\ \A d \in Creators : d # c => slug'[d] = slug[d]
    BY <1>0, <1>4, <1>5 DEF Resolve, TypeOK, storage
  <2> QED BY <1>2, <2>1, <2>2 DEF Locked
<1>6. ASSUME NEW c \in Creators, GiveUp(c) \/ Unlock(c) \/ Fail(c)
      PROVE  Checked'
  <2>1. PICK where \in {"done", "unlock"} : Goes(c, where)
    BY <1>6 DEF GiveUp, Unlock, Fail
  <2>2. UNCHANGED slug /\ NoRowAdded
    BY <1>4, <1>6 DEF GiveUp, Unlock, Fail, storage
  <2> QED BY <1>3, <2>1, <2>2 DEF PC
<1>7. ASSUME NEW c \in Creators, Lock(c)
      PROVE  Checked'
  <2>1. UNCHANGED slug /\ NoRowAdded
    BY <1>4, <1>7 DEF Lock, storage
  <2>2. PICK where \in {"checkNotes", "checkLinks"} :
          /\ Goes(c, where)
          /\ kind[c] = "links" => where = "checkNotes"
    BY <1>7 DEF Lock
  <2>3. pc'[c] = where /\ \A d \in Creators : d # c => pc'[d] = pc[d]
    BY <1>0, <2>2, GoesTyped DEF PC
  <2> QED BY <1>2, <2>1, <2>2, <2>3
<1>8. ASSUME NEW c \in Creators, Reject(c), slug[c] \in Slugs
      PROVE  Checked'
  <2>1. /\ pc'[c] \in {"resolve", "done"} /\ UNCHANGED slug
        /\ \A d \in Creators : d # c => pc'[d] = pc[d]
    BY <1>0, <1>8, RejectTyped
  <2>2. NoRowAdded
    BY <1>4, <1>8 DEF Reject, storage
  <2> QED BY <1>2, <2>1, <2>2
<1>9. ASSUME NEW c \in Creators, CheckNotes(c)
      PROVE  Checked'
  <2>1. slug[c] \in Slugs
    BY <1>9 DEF CheckNotes, TypedInv, Candidates, Trying, PC
  <2>2. CASE Reject(c)
    BY <1>8, <2>1, <2>2
  <2>3. CASE /\ table["notes"][slug[c]] = None
             /\ Goes(c, "checkLinks") /\ UNCHANGED <<storage, holder, slug, tries, won>>
    <3>1. pc'[c] = "checkLinks" /\ \A d \in Creators : d # c => pc'[d] = pc[d]
      BY <1>0, <2>3, GoesTyped DEF PC
    <3>2. NoRowAdded /\ Foreign(c, "notes")
      BY <1>4, <2>3 DEF storage, Foreign
    <3> QED BY <1>2, <2>1, <2>3, <3>1, <3>2
  <2> QED BY <1>9, <2>2, <2>3 DEF CheckNotes
<1>10. ASSUME NEW c \in Creators, CheckLinks(c)
       PROVE  Checked'
  <2>1. slug[c] \in Slugs /\ (kind[c] = "links" => Foreign(c, "notes"))
    BY <1>1, <1>10 DEF CheckLinks, Checked
  <2>2. CASE Reject(c)
    BY <1>8, <2>1, <2>2
  <2>3. CASE /\ table["links"][slug[c]] = None
             /\ Goes(c, "insert") /\ UNCHANGED <<storage, holder, slug, tries, won>>
    <3>1. pc'[c] = "insert" /\ \A d \in Creators : d # c => pc'[d] = pc[d]
      BY <1>0, <2>3, GoesTyped DEF PC
    <3>2. NoRowAdded /\ Foreign(c, "links")
      BY <1>4, <2>3 DEF storage, Foreign
    <3> QED BY <1>2, <2>1, <2>3, <3>1, <3>2
  <2> QED BY <1>10, <2>2, <2>3 DEF CheckLinks
<1>11. ASSUME NEW c \in Creators, Insert(c)
       PROVE  Checked'
  <2>1. PICK where \in {"sweep", "unlock"} : Goes(c, where)
    BY <1>11, InsertCases
  <2>2. pc'[c] = where /\ \A d \in Creators : d # c => pc'[d] = pc[d]
    BY <1>0, <2>1, GoesTyped DEF PC
  <2>3. pc[c] = "insert" /\ slug' = slug /\ slug[c] \in Slugs /\ kind[c] \in Resources
    BY <1>1, <1>11, InsertCases, CreatorsAssumption
  <2>4. CASE UNCHANGED table
    BY <1>3, <1>4, <2>1, <2>3, <2>4 DEF PC
  <2>5. CASE table' = [table EXCEPT ![kind[c]][slug[c]] = c]
    <3>1. ASSUME NEW d \in Creators, pc'[d] \in {"checkLinks", "insert"},
                 NEW k \in Resources, Foreign(d, k)
          PROVE  Foreign(d, k)'
      <4>1. d # c /\ pc[d] = pc'[d] /\ slug[d] \in Slugs
        BY <1>1, <2>2, <3>1
      <4>2. ~(home[d] = home[c] /\ slug[d] = slug[c])
        BY <2>3, <3>1, <4>1, OneHolder DEF Locked
      <4>3. table'[k][slug[d]] = IF k = kind[c] /\ slug[d] = slug[c]
                                   THEN c ELSE table[k][slug[d]]
        BY <1>0, <2>3, <2>5, <4>1 DEF TypeOK
      <4> QED BY <2>3, <3>1, <4>2, <4>3 DEF Foreign
    <3>2. ASSUME NEW d \in Creators, pc'[d] \in {"checkLinks", "insert"}
          PROVE  /\ kind[d] = "links" => Foreign(d, "notes")
                 /\ pc'[d] = "insert" => Foreign(d, "links")
      BY <2>2, <3>2 DEF Checked
    <3> QED BY <1>0, <3>1, <3>2 DEF Checked
  <2> QED BY <1>11, <2>4, <2>5, InsertCases
<1>12. ASSUME NEW c \in Creators, Sweep(c)
       PROVE  Checked'
  <2>1. NoRowAdded
    BY <1>0, <1>4, <1>12, DeleteAddsNoRow DEF Sweep, storage
  <2> QED BY <1>3, <1>12, <2>1 DEF Sweep, PC
<1>13. ASSUME NoRowAdded, UNCHANGED <<pc, slug>>
       PROVE  Checked'
  <2>1. ASSUME NEW d \in Creators
        PROVE  /\ kind[d] = "links" /\ pc[d] \in {"checkLinks", "insert"}
                    => Foreign(d, "notes")'
               /\ pc[d] = "insert" => Foreign(d, "links")'
    BY <1>0, <1>1, <1>13, ForeignKept DEF Checked
  <2> QED BY <1>13, <2>1 DEF Checked
<1>14. ASSUME NEW k \in Resources, NEW s \in Slugs, Delete(k, s)
       PROVE  Checked'
  BY <1>0, <1>13, <1>14, DeleteAddsNoRow DEF Delete
<1>15. CASE UNCHANGED <<table, pc, slug>>
  BY <1>4, <1>13, <1>15
<1> QED BY <1>5, <1>6, <1>7, <1>9, <1>10, <1>11, <1>12, <1>14, <1>15
     DEF Next, Step, Expire, vars

LEMMA LockCorrect == Spec => []LockInv
<1>1. Init => LockInv
  BY TypedInit DEF Init, LockInv, Holding, Checked, Locked
<1>2. LockInv /\ [Next]_vars => LockInv'
  BY TypedStep, HoldingStep, CheckedStep DEF LockInv
<1> QED BY <1>1, <1>2, PTL DEF Spec

(* What a creator checked still holds when it inserts, but for what other  *)
(* replicas and other notes do, for all constants.                         *)
THEOREM ChecksHold == Spec => []CheckStillHolds
<1>1. LockInv => CheckStillHolds
  BY DEF LockInv, Checked, Foreign, CheckStillHolds, Resources
<1> QED BY <1>1, LockCorrect, PTL

-----------------------------------------------------------------------------
(***************************************************************************)
(* Refinement.  A creator that has inserted is past its INSERT for good.   *)
(***************************************************************************)
Owner == [s \in Slugs |-> IF table["notes"][s] # None THEN table["notes"][s]
                          ELSE table["links"][s]]

WonOnce == \A c \in Creators : won[c] # None => pc[c] \in {"sweep", "unlock", "done"}

RefineInv == TypedInv /\ NamespaceAgrees /\ OneResourcePerSlug /\ WonOnce

LEMMA WonOnceStep == TypedInv /\ WonOnce /\ [Next]_vars => WonOnce'
<1> SUFFICES ASSUME TypedInv, WonOnce, [Next]_vars
             PROVE  WonOnce'
  OBVIOUS
<1>0. TypeOK
  BY DEF TypedInv
<1>1. ASSUME NEW c \in Creators, NEW where \in PC, Goes(c, where), won' = won,
             pc[c] \in {"sweep", "unlock", "done"} => where \in {"sweep", "unlock", "done"}
      PROVE  WonOnce'
  BY <1>0, <1>1, GoesTyped DEF WonOnce
<1>2. ASSUME NEW c \in Creators, Resolve(c) \/ GiveUp(c) \/ Sweep(c) \/ Unlock(c) \/ Fail(c)
      PROVE  WonOnce'
  <2>1. /\ won' = won
        /\ \/ Goes(c, "lock") /\ pc[c] = "resolve"
           \/ Goes(c, "done")
           \/ Goes(c, "unlock")
    BY <1>2 DEF Resolve, GiveUp, Sweep, Unlock, Fail
  <2> QED BY <1>1, <2>1 DEF PC
<1>3. ASSUME NEW c \in Creators, Lock(c) \/ CheckNotes(c) \/ CheckLinks(c)
      PROVE  WonOnce'
  <2>1. /\ won' = won /\ pc[c] \notin {"sweep", "unlock", "done"}
        /\ \E where \in PC : Goes(c, where)
    BY <1>3 DEF Lock, CheckNotes, CheckLinks, Reject, PC
  <2> QED BY <1>1, <2>1
<1>4. ASSUME NEW c \in Creators, Insert(c)
      PROVE  WonOnce'
  <2>1. PICK where \in {"sweep", "unlock"} : Goes(c, where)
    BY <1>4, InsertCases
  <2>2. pc'[c] = where /\ \A d \in Creators : d # c => pc'[d] = pc[d]
    BY <1>0, <2>1, GoesTyped DEF PC
  <2>3. \A d \in Creators : d # c => won'[d] = won[d]
    BY <1>0, <1>4, InsertCases DEF TypeOK
  <2> QED BY <2>2, <2>3 DEF WonOnce
<1>5. CASE UNCHANGED <<pc, won>>
  BY <1>5 DEF WonOnce
<1> QED BY <1>2, <1>3, <1>4, <1>5 DEF Next, Step, Delete, Expire, vars

LEMMA RefineCorrect == Spec => []RefineInv
<1>1. Init => WonOnce
  BY DEF Init, WonOnce
<1>2. Spec => []WonOnce
  BY <1>1, WonOnceStep, Typed, PTL DEF Spec
<1> QED BY <1>2, Typed, NamespaceCorrect, SlugsUnique, PTL DEF RefineInv

(* A row that is inserted is the one its slug names. *)
LEMMA InsertClaims ==
  ASSUME RefineInv, NEW c \in Creators, Insert(c)
  PROVE  \/ UNCHANGED <<Owner, won>>
         \/ \E s \in Slugs : /\ Owner[s] = None /\ won[c] = None
                             /\ Owner' = [Owner EXCEPT ![s] = c]
                             /\ won' = [won EXCEPT ![c] = s]
<1>0. /\ slug[c] \in Slugs /\ kind[c] \in Resources /\ c # None
      /\ TypeOK /\ won[c] = None
  BY CreatorsAssumption DEF Insert, RefineInv, TypedInv, Candidates, Trying, PC, WonOnce
<1>1. CASE UNCHANGED <<table, won>>
  BY <1>1 DEF Owner
<1>2. CASE /\ Admits(kind[c], slug[c])
           /\ table' = [table EXCEPT ![kind[c]][slug[c]] = c]
           /\ won' = [won EXCEPT ![c] = slug[c]]
  <2>1. \A k \in Resources : table[k][slug[c]] = None
    BY <1>0, <1>2 DEF Admits, RefineInv, NamespaceAgrees, Free, Resources
  <2>2. Owner[slug[c]] = None
    BY <1>0, <2>1 DEF Owner, Resources
  <2>3. ASSUME NEW s \in Slugs
        PROVE  Owner'[s] = [Owner EXCEPT ![slug[c]] = c][s]
    <3>1. /\ table'["notes"][s] = IF s = slug[c] /\ kind[c] = "notes"
                                    THEN c ELSE table["notes"][s]
          /\ table'["links"][s] = IF s = slug[c] /\ kind[c] = "links"
                                    THEN c ELSE table["links"][s]
      BY <1>0, <1>2 DEF TypeOK, Resources
    <3>2. CASE s = slug[c]
      BY <1>0, <2>1, <3>1, <3>2 DEF Owner, Resources
    <3>3. CASE s # slug[c]
      BY <3>1, <3>3 DEF Owner
    <3> QED BY <3>2, <3>3
  <2>4. Owner' = [Owner EXCEPT ![slug[c]] = c]
    <3>1. Owner' = [s \in Slugs |-> Owner'[s]]
      BY DEF Owner
    <3>2. [Owner EXCEPT ![slug[c]] = c] = [s \in Slugs |-> [Owner EXCEPT ![slug[c]] = c][s]]
      BY DEF Owner
    <3> QED BY <2>3, <3>1, <3>2
  <2> QED BY <1>0, <1>2, <2>2, <2>4
<1> QED BY <1>1, <1>2, InsertCases

(* Rows that go leave their slugs free. *)
LEMMA DeleteReleases ==
  ASSUME RefineInv, NEW k \in Resources, NEW gone, DeleteRows(k, gone)
  PROVE  \E freed \in SUBSET Slugs :
           Owner' = [s \in Slugs |-> IF s \in freed THEN None ELSE Owner[s]]
<1> DEFINE freed == {s \in Slugs : s \in gone /\ table[k][s] # None}
<1>1. ASSUME NEW s \in Slugs
      PROVE  Owner'[s] = IF s \in freed THEN None ELSE Owner[s]
  <2>1. /\ table'[k][s] = IF s \in gone THEN None ELSE table[k][s]
        /\ \A i \in Resources : i # k => table'[i][s] = table[i][s]
    BY DEF DeleteRows, RefineInv, TypedInv, TypeOK
  <2>2. table["notes"][s] = None \/ table["links"][s] = None
    BY DEF RefineInv, OneResourcePerSlug
  <2>3. /\ Owner[s] = IF table["notes"][s] # None THEN table["notes"][s]
                     ELSE table["links"][s]
        /\ Owner'[s] = IF table'["notes"][s] # None THEN table'["notes"][s]
                      ELSE table'["links"][s]
    BY DEF Owner
  <2>4. CASE k = "notes"
    BY <2>1, <2>2, <2>3, <2>4 DEF Resources
  <2>5. CASE k = "links"
    BY <2>1, <2>2, <2>3, <2>5 DEF Resources
  <2> QED BY <2>4, <2>5 DEF Resources
<1>2. Owner' = [s \in Slugs |-> Owner'[s]]
  BY DEF Owner
<1> HIDE DEF freed
<1>3. Owner' = [s \in Slugs |-> IF s \in freed THEN None ELSE Owner[s]]
  BY <1>1, <1>2
<1>4. freed \in SUBSET Slugs
  BY DEF freed
<1> QED BY <1>3, <1>4

LEMMA RegistryStep == RefineInv /\ [Next]_vars => [Registry!Next]_(Registry!vars)
<1> SUFFICES ASSUME RefineInv, [Next]_vars
             PROVE  Registry!Next \/ UNCHANGED <<Owner, won>>
  BY DEF Registry!vars, Owner
<1>1. ASSUME NEW c \in Creators, Insert(c)
      PROVE  Registry!Next \/ UNCHANGED <<Owner, won>>
  <2>1. ASSUME NEW s \in Slugs, Owner[s] = None, won[c] = None,
               Owner' = [Owner EXCEPT ![s] = c], won' = [won EXCEPT ![c] = s]
        PROVE  Registry!Claim(c, s)
    BY <2>1 DEF Registry!Claim, Owner
  <2> QED BY <1>1, <2>1, InsertClaims DEF Registry!Next
<1>2. ASSUME NEW k \in Resources, NEW gone, DeleteRows(k, gone), won' = won
      PROVE  Registry!Next
  <2>1. PICK freed \in SUBSET Slugs :
          Owner' = [s \in Slugs |-> IF s \in freed THEN None ELSE Owner[s]]
    BY <1>2, DeleteReleases
  <2>2. Registry!Release(freed)
    BY <1>2, <2>1 DEF Registry!Release, Owner
  <2> QED BY <2>2 DEF Registry!Next
<1>3. CASE UNCHANGED <<table, won>>
  BY <1>3 DEF Owner
<1>4. ASSUME NEW c \in Creators, Sweep(c)
      PROVE  Registry!Next \/ UNCHANGED <<Owner, won>>
  <2>1. won' = won /\ (DeleteRows("links", stale \ {slug[c]}) \/ UNCHANGED table)
    BY <1>4 DEF Sweep, storage
  <2> QED BY <1>2, <1>3, <2>1 DEF Resources
<1>5. ASSUME NEW k \in Resources, NEW s \in Slugs, Delete(k, s)
      PROVE  Registry!Next
  BY <1>2, <1>5 DEF Delete
<1>6. ASSUME NEW c \in Creators,
             \/ Resolve(c) \/ GiveUp(c) \/ Lock(c) \/ CheckNotes(c) \/ CheckLinks(c)
             \/ Unlock(c) \/ Fail(c)
      PROVE  UNCHANGED <<Owner, won>>
  <2>1. UNCHANGED <<table, won>>
    BY <1>6 DEF Resolve, GiveUp, Lock, CheckNotes, CheckLinks, Reject, Unlock, Fail, storage
  <2> QED BY <1>3, <2>1 DEF Owner
<1>7. CASE UNCHANGED vars \/ \E s \in Slugs : Expire(s)
  BY <1>3, <1>7 DEF vars, Expire
<1> QED BY <1>1, <1>4, <1>5, <1>6, <1>7 DEF Next, Step

(* Slug creation keeps the promise of SlugRegistry, for all constants.     *)
THEOREM ImplementsRegistry == Spec => KeepsRegistry
<1>1. Init => Registry!Init
  BY DEF Init, Registry!Init, Resources
<1> QED BY <1>1, RegistryStep, RefineCorrect, PTL DEF Spec, KeepsRegistry, Registry!Spec

-----------------------------------------------------------------------------
(***************************************************************************)
(* What the creators of every process ask of its lock, and all they ask of *)
(* it, is AtomicLock, which KeyedLock implements (ImplementsAtomicLock).   *)
(* Locks of different processes are different keys here.                   *)
(***************************************************************************)
Pairs == Replicas \X Slugs

HolderOf == [p \in Pairs |-> holder[p[1]][p[2]]]

Local == INSTANCE AtomicLock WITH Callers <- Creators, Keys <- Pairs, holder <- HolderOf

(* A lock that is taken is held by a creator between Lock and Unlock, for  *)
(* its candidate, in its own process: no way out leaves one behind.        *)
HeldByUsers ==
  \A r \in Replicas, s \in Slugs, c \in Creators :
    holder[r][s] = c => pc[c] \in Locked /\ home[c] = r /\ slug[c] = s

LocalInv == TypedInv /\ Holding /\ HeldByUsers

(* Every step of a creator takes its lock, gives it back, or leaves all    *)
(* locks alone and the creator on its side of them.                        *)
Locks(c) ==
  /\ pc[c] = "lock" /\ pc'[c] \in Locked /\ slug' = slug
  /\ holder[home[c]][slug[c]] = None
  /\ holder' = [holder EXCEPT ![home[c]][slug[c]] = c]

Unlocks(c) ==
  /\ pc[c] \in Locked /\ pc'[c] \notin Locked /\ slug' = slug
  /\ holder' = [holder EXCEPT ![home[c]][slug[c]] = None]

Stays(c) ==
  /\ holder' = holder
  /\ \/ pc[c] \in Locked /\ pc'[c] \in Locked /\ slug' = slug
     \/ pc[c] \notin Locked /\ \A d \in Creators : d # c => slug'[d] = slug[d]

LEMMA StepLocks ==
  ASSUME TypedInv, NEW c \in Creators, Step(c)
  PROVE  /\ \A d \in Creators : d # c => pc'[d] = pc[d]
         /\ Locks(c) \/ Unlocks(c) \/ Stays(c)
<1>0. TypeOK
  BY DEF TypedInv
<1>1. CASE Resolve(c)
  <2>1. pc'[c] = "lock" /\ \A d \in Creators : d # c => pc'[d] = pc[d]
    BY <1>0, <1>1, GoesTyped DEF Resolve, PC
  <2>2. \A d \in Creators : d # c => slug'[d] = slug[d]
    BY <1>0, <1>1 DEF Resolve, TypeOK
  <2> QED BY <1>1, <2>1, <2>2 DEF Resolve, Stays, Locked
<1>2. CASE GiveUp(c)
  <2>1. pc'[c] = "done" /\ \A d \in Creators : d # c => pc'[d] = pc[d]
    BY <1>0, <1>2, GoesTyped DEF GiveUp, PC
  <2> QED BY <1>2, <2>1 DEF GiveUp, Stays, Locked
<1>3. CASE Lock(c)
  <2>1. PICK where \in {"checkNotes", "checkLinks"} : Goes(c, where)
    BY <1>3 DEF Lock
  <2>2. pc'[c] = where /\ \A d \in Creators : d # c => pc'[d] = pc[d]
    BY <1>0, <2>1, GoesTyped DEF PC
  <2> QED BY <1>3, <2>2 DEF Lock, LockAvailable, Locks, Locked
<1>4. CASE CheckNotes(c) \/ CheckLinks(c)
  <2>1. pc[c] \in {"checkNotes", "checkLinks"}
    BY <1>4 DEF CheckNotes, CheckLinks
  <2>2. CASE Reject(c)
    <3>1. slug[c] \in Slugs
      BY <2>1 DEF TypedInv, Candidates, Trying, PC
    <3>2. /\ pc'[c] \in {"resolve", "done"} /\ slug' = slug
          /\ \A d \in Creators : d # c => pc'[d] = pc[d]
      BY <1>0, <2>2, <3>1, RejectTyped
    <3>3. holder' = [holder EXCEPT ![home[c]][slug[c]] = None]
      BY <2>2 DEF Reject
    <3> QED BY <2>1, <3>2, <3>3 DEF Unlocks, Locked
  <2>3. ASSUME NEW where \in {"checkLinks", "insert"}, Goes(c, where),
               UNCHANGED <<holder, slug>>
        PROVE  (\A d \in Creators : d # c => pc'[d] = pc[d]) /\ Stays(c)
    <3>1. pc'[c] = where /\ \A d \in Creators : d # c => pc'[d] = pc[d]
      BY <1>0, <2>3, GoesTyped DEF PC
    <3> QED BY <2>1, <2>3, <3>1 DEF Stays, Locked
  <2> QED BY <1>4, <2>2, <2>3 DEF CheckNotes, CheckLinks
<1>5. CASE Insert(c) \/ Sweep(c) \/ Fail(c)
  <2>1. PICK where \in {"sweep", "unlock"} : Goes(c, where)
    BY <1>5, InsertCases DEF Sweep, Fail
  <2>2. pc'[c] = where /\ \A d \in Creators : d # c => pc'[d] = pc[d]
    BY <1>0, <2>1, GoesTyped DEF PC
  <2>3. pc[c] \in Locked /\ UNCHANGED <<holder, slug>>
    BY <1>5, InsertCases DEF Sweep, Fail, Locked
  <2> QED BY <2>2, <2>3 DEF Stays, Locked
<1>6. CASE Unlock(c)
  <2>1. pc'[c] = "done" /\ \A d \in Creators : d # c => pc'[d] = pc[d]
    BY <1>0, <1>6, GoesTyped DEF Unlock, PC
  <2> QED BY <1>6, <2>1 DEF Unlock, Unlocks, Locked
<1> QED BY <1>1, <1>2, <1>3, <1>4, <1>5, <1>6 DEF Step

LEMMA LocalStep ==
  ASSUME LocalInv, [Next]_vars
  PROVE  /\ LocalInv'
         /\ [Local!Next]_HolderOf
<1>1. TypedInv' /\ Holding'
  BY TypedStep, HoldingStep DEF LocalInv
<1>0. TypeOK
  BY DEF LocalInv, TypedInv
<1>2. ASSUME UNCHANGED <<holder, pc, slug>>
      PROVE  HeldByUsers' /\ [Local!Next]_HolderOf
  BY <1>2 DEF LocalInv, HeldByUsers, HolderOf
<1>3. ASSUME NEW c \in Creators, Step(c)
      PROVE  HeldByUsers' /\ [Local!Next]_HolderOf
  <2>1. \A d \in Creators : d # c => pc'[d] = pc[d]
    BY <1>3, StepLocks DEF LocalInv
  <2>2. home[c] \in Replicas /\ c # None
    BY CreatorsAssumption
  <2>3. pc[c] \in Locked \cup {"lock"} => slug[c] \in Slugs
    BY DEF LocalInv, TypedInv, Candidates, Trying, Locked, PC
  <2>4. CASE Stays(c)
    <3>1. HeldByUsers'
      BY <2>1, <2>4 DEF Stays, LocalInv, HeldByUsers
    <3> QED BY <2>4, <3>1 DEF Stays, HolderOf
  <2>5. CASE Locks(c)
    <3>1. slug[c] \in Slugs /\ slug' = slug
      BY <2>3, <2>5 DEF Locks
    <3>2. \A r \in Replicas, s \in Slugs :
            holder'[r][s] = IF r = home[c] /\ s = slug[c] THEN c ELSE holder[r][s]
      BY <1>0, <2>2, <2>5, <3>1 DEF Locks, TypeOK
    <3>3. HeldByUsers'
      BY <2>1, <2>5, <3>1, <3>2 DEF Locks, LocalInv, HeldByUsers
    <3>4. Local!Acquire(c, <<home[c], slug[c]>>)
      <4>1. \A p \in Pairs : HolderOf[p] # c
        BY <2>5 DEF Locks, LocalInv, HeldByUsers, HolderOf, Pairs, Locked
      <4>2. HolderOf[<<home[c], slug[c]>>] = None
        BY <2>2, <2>5, <3>1 DEF Locks, HolderOf, Pairs
      <4>3. HolderOf' = [HolderOf EXCEPT ![<<home[c], slug[c]>>] = c]
        <5>1. \A p \in Pairs : p = <<p[1], p[2]>> /\ p[1] \in Replicas /\ p[2] \in Slugs
          BY DEF Pairs
        <5>2. \A p \in Pairs :
                holder'[p[1]][p[2]] = IF p = <<home[c], slug[c]>> THEN c ELSE holder[p[1]][p[2]]
          BY <3>2, <5>1
        <5> QED BY <5>2 DEF HolderOf
      <4> QED BY <4>1, <4>2, <4>3 DEF Local!Acquire
    <3> QED BY <2>2, <3>1, <3>3, <3>4 DEF Local!Next, Pairs
  <2>6. CASE Unlocks(c)
    <3>1. slug[c] \in Slugs /\ slug' = slug
      BY <2>3, <2>6 DEF Unlocks
    <3>2. \A r \in Replicas, s \in Slugs :
            holder'[r][s] = IF r = home[c] /\ s = slug[c] THEN None ELSE holder[r][s]
      BY <1>0, <2>2, <2>6, <3>1 DEF Unlocks, TypeOK
    <3>3. HeldByUsers'
      BY <2>1, <2>2, <2>6, <3>1, <3>2, CreatorsAssumption DEF LocalInv, HeldByUsers
    <3>4. Local!Release(c, <<home[c], slug[c]>>)
      <4>1. HolderOf[<<home[c], slug[c]>>] = c
        BY <2>2, <2>6, <3>1 DEF Unlocks, LocalInv, Holding, HolderOf, Pairs
      <4>2. HolderOf' = [HolderOf EXCEPT ![<<home[c], slug[c]>>] = None]
        <5>1. \A p \in Pairs : p = <<p[1], p[2]>> /\ p[1] \in Replicas /\ p[2] \in Slugs
          BY DEF Pairs
        <5>2. \A p \in Pairs :
                holder'[p[1]][p[2]] = IF p = <<home[c], slug[c]>> THEN None ELSE holder[p[1]][p[2]]
          BY <3>2, <5>1
        <5> QED BY <5>2 DEF HolderOf
      <4> QED BY <4>1, <4>2 DEF Local!Release
    <3> QED BY <2>2, <3>1, <3>3, <3>4 DEF Local!Next, Pairs
  <2> QED BY <1>3, <2>4, <2>5, <2>6, StepLocks DEF LocalInv
<1> QED BY <1>1, <1>2, <1>3 DEF LocalInv, Next, Delete, Expire, vars

LEMMA LocalInit ==
  ASSUME Init
  PROVE  LocalInv /\ Local!Init
<1>1. TypedInv /\ Holding
  BY TypedInit DEF Init, Holding, Locked
<1>2. HeldByUsers
  BY CreatorsAssumption DEF Init, HeldByUsers
<1>3. Local!Init
  BY DEF Init, Local!Init, HolderOf, Pairs
<1> QED BY <1>1, <1>2, <1>3 DEF LocalInv

(* In every process the slug lock is taken and released as AtomicLock      *)
(* allows, by a creator that holds no other slug: nothing but the promise  *)
(* of Locker is used, and no error path keeps a slug (manager.go defers    *)
(* the unlock, or unlocks before it answers).                              *)
THEOREM UsesAtomicLock == Spec => Local!Spec
  BY LocalInit, LocalStep, PTL DEF Spec, Local!Spec
=============================================================================
