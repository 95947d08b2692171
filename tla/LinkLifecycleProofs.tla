------------------------- MODULE LinkLifecycleProofs -------------------------
(* Proofs about LinkLifecycle, for any number of redirects, updates,       *)
(* deletes, replicas and targets.                                          *)
EXTENDS LinkLifecycle, TLAPS

USE LinkAssumption

Reader == [pc: ReaderPC, note: Row, target: Version]
Writer == [pc: WriterPC, note: Row, sets: BOOLEAN]

LEMMA Constants ==
  /\ 0 \in Version /\ Version \subseteq Nat /\ 1..MaxVersion \subseteq Version
  /\ NoRow \in Row /\ Never \in Version /\ Anonymous \in Callers
  /\ NoRow.ver = 0 /\ NoRow.expiry = 0
  /\ {"idle", "get", "fill", "policy", "expire", "evict", "consume", "count", "done"} = ReaderPC
  /\ {"idle", "get", "put", "evict", "delete", "evictDeleted", "done"} = WriterPC
<1>1. 0 \in Version /\ Version \subseteq Nat /\ 1..MaxVersion \subseteq Version
  BY DEF Version
<1>2. "public" \in Privacy /\ Anonymous \in Callers
  BY DEF Privacy, Callers
<1>3. NoRow \in Row /\ NoRow.ver = 0 /\ NoRow.expiry = 0
  BY <1>1, <1>2 DEF NoRow, Row, Never
<1> QED BY <1>1, <1>2, <1>3 DEF Never, ReaderPC, WriterPC

(* The settings of a POST make a row, and those of a PUT change one.       *)
LEMMA CreateTyped ==
  ASSUME TypeOK, NEW p \in Creates, NEW at \in Replicas, Create(p, at)
  PROVE  /\ row' \in Row /\ lastVersion' \in Version /\ lastVersion' = lastVersion + 1
         /\ row'.ver = lastVersion' /\ row'.inc = lastVersion' /\ row'.expiry \in {Never, lastVersion'}
         /\ audience' \in [1..MaxVersion -> Privacy \X Callers]
         /\ audience'[lastVersion'] = <<row'.privacy, row'.owner>>
         /\ \A v \in 1..MaxVersion : v # lastVersion' => audience'[v] = audience[v]
<1>1. lastVersion < MaxVersion /\ lastVersion' = lastVersion + 1 /\ lastVersion \in Version
  BY DEF Create, Record, TypeOK
<1>2. lastVersion' \in Version /\ lastVersion' \in 1..MaxVersion
  BY <1>1 DEF Version
<1>3. Principal(p.owner) \in Callers /\ p.privacy \in Privacy /\ p.burn \in BOOLEAN
  BY DEF Principal, Callers
<1> DEFINE expiry == IF p.expires THEN lastVersion + 1 ELSE Never
           owner == Principal(p.owner)
<1>4. expiry \in Version /\ expiry \in {Never, lastVersion'}
  BY <1>1, <1>2, Constants
<1>5. row' = [ver |-> lastVersion', inc |-> lastVersion', burn |-> p.burn, expiry |-> expiry,
              privacy |-> p.privacy, owner |-> owner]
  BY <1>1 DEF Create
<1>6. owner \in Callers
  BY <1>3
<1> HIDE DEF expiry, owner
<1>7. row' \in Row /\ row'.ver = lastVersion' /\ row'.inc = lastVersion' /\ row'.expiry = expiry
      /\ row'.privacy \in Privacy /\ row'.owner \in Callers
  BY <1>2, <1>3, <1>4, <1>5, <1>6 DEF Row
<1>8. audience' = [audience EXCEPT ![lastVersion + 1] = <<row'.privacy, row'.owner>>]
  BY DEF Create, Record
<1> QED BY <1>1, <1>2, <1>4, <1>7, <1>8 DEF TypeOK

LEMMA RowFields ==
  ASSUME NEW link \in Row
  PROVE  /\ link.ver \in Version /\ link.inc \in Version /\ link.burn \in BOOLEAN
         /\ link.expiry \in Version /\ link.privacy \in Privacy /\ link.owner \in Callers
  BY DEF Row

LEMMA PutTyped ==
  ASSUME TypeOK, NEW w \in Writers, UpdatePut(w)
  PROVE  /\ row' \in Row /\ lastVersion' \in Version /\ lastVersion' = lastVersion + 1
         /\ row'.ver = lastVersion' /\ row'.inc = row.inc /\ row'.burn = row.burn
         /\ audience' \in [1..MaxVersion -> Privacy \X Callers]
         /\ audience'[lastVersion'] = <<row'.privacy, row'.owner>>
         /\ \A v \in 1..MaxVersion : v # lastVersion' => audience'[v] = audience[v]
<1> DEFINE link == writer[w].note
           expiry == IF writer[w].sets THEN lastVersion + 1 ELSE link.expiry
<1>1. lastVersion < MaxVersion /\ lastVersion' = lastVersion + 1 /\ lastVersion \in Version
  BY DEF UpdatePut, Record, TypeOK
<1>2. lastVersion' \in Version /\ lastVersion' \in 1..MaxVersion
  BY <1>1 DEF Version
<1>3. link \in Row /\ row \in Row /\ writer[w].sets \in BOOLEAN
  BY DEF TypeOK
<1>4. expiry \in Version
  BY <1>1, <1>2, <1>3, RowFields
<1>5. row' = [row EXCEPT !.ver = lastVersion', !.privacy = link.privacy, !.expiry = expiry]
  BY <1>1 DEF UpdatePut
<1>6. link.privacy \in Privacy
  BY <1>3, RowFields
<1> HIDE DEF expiry, link
<1>7. row' \in Row /\ row'.ver = lastVersion' /\ row'.inc = row.inc /\ row'.burn = row.burn
  BY <1>2, <1>3, <1>4, <1>5, <1>6 DEF Row
<1>8. audience' = [audience EXCEPT ![lastVersion + 1] = <<row'.privacy, row'.owner>>]
  BY DEF UpdatePut, Record
<1>9. row'.privacy \in Privacy /\ row'.owner \in Callers
  BY <1>7, RowFields
<1> QED BY <1>1, <1>2, <1>7, <1>8, <1>9 DEF TypeOK

LEMMA GetTyped ==
  ASSUME TypeOK, NEW w \in Writers, NEW p \in Payloads, UpdateGet(w, p)
  PROVE  writer' \in [Writers -> Writer] /\ writer'[w].pc = "put"
         /\ \A v \in Writers \ {w} : writer'[v] = writer[v]
<1> DEFINE expiry == IF p.expires = "clear" THEN Never ELSE row.expiry
           note == [row EXCEPT !.privacy = PrivacyAfter(p, row), !.expiry = expiry]
           sets == p.expires = "set"
<1>1. row \in Row /\ writer \in [Writers -> Writer]
  BY DEF TypeOK, Writer
<1>2. expiry \in Version /\ PrivacyAfter(p, row) \in Privacy /\ sets \in BOOLEAN
  BY <1>1, RowFields, Constants DEF PrivacyAfter
<1>3. note = [row EXCEPT !.privacy = PrivacyAfter(p, row),
                         !.expiry = IF p.expires = "clear" THEN Never ELSE @]
  OBVIOUS
<1>4. writer' = [writer EXCEPT ![w] = [pc |-> "put", sets |-> sets, note |-> note]]
  BY <1>3 DEF UpdateGet
<1> HIDE DEF expiry, sets
<1>5. note \in Row
  BY <1>1, <1>2 DEF Row
<1> HIDE DEF note
<1>6. [pc |-> "put", sets |-> sets, note |-> note] \in Writer
  BY <1>2, <1>5, Constants DEF Writer
<1> QED BY <1>1, <1>4, <1>6 DEF Writer

LEMMA ReaderGoesTo ==
  ASSUME reader \in [Readers -> Reader], NEW r \in Readers, NEW pc \in ReaderPC, ReaderGoes(r, pc)
  PROVE  /\ reader' \in [Readers -> Reader]
         /\ reader'[r].pc = pc
         /\ pc # "done" => reader'[r].note = reader[r].note /\ reader'[r].target = reader[r].target
         /\ \A q \in Readers \ {r} : reader'[q] = reader[q]
<1>1. ReadEnded \in Reader /\ ReadEnded.pc = "done"
  BY Constants DEF ReadEnded, Reader
<1>2. CASE pc = "done"
  BY <1>1, <1>2 DEF ReaderGoes
<1>3. CASE pc # "done"
  <2> DEFINE q == [reader[r] EXCEPT !.pc = pc]
  <2>1. q \in Reader /\ q.pc = pc /\ q.note = reader[r].note /\ q.target = reader[r].target
    BY DEF Reader
  <2>2. reader' = [reader EXCEPT ![r] = q]
    BY <1>3 DEF ReaderGoes
  <2> HIDE DEF q
  <2> QED BY <2>1, <2>2, <1>3
<1> QED BY <1>2, <1>3

LEMMA WriterGoesTo ==
  ASSUME writer \in [Writers -> Writer], NEW w \in Writers, NEW pc \in WriterPC, WriterGoes(w, pc)
  PROVE  /\ writer' \in [Writers -> Writer]
         /\ writer'[w].pc = pc
         /\ pc # "done" => writer'[w].note = writer[w].note
         /\ \A v \in Writers \ {w} : writer'[v] = writer[v]
<1>1. WriteEnded \in Writer /\ WriteEnded.pc = "done"
  BY Constants DEF WriteEnded, Writer
<1>2. CASE pc = "done"
  BY <1>1, <1>2 DEF WriterGoes
<1>3. CASE pc # "done"
  <2> DEFINE q == [writer[w] EXCEPT !.pc = pc]
  <2>1. q \in Writer /\ q.pc = pc /\ q.note = writer[w].note
    BY DEF Writer
  <2>2. writer' = [writer EXCEPT ![w] = q]
    BY <1>3 DEF WriterGoes
  <2> HIDE DEF q
  <2> QED BY <2>1, <2>2, <1>3
<1> QED BY <1>2, <1>3

LEMMA ReleasesTyped ==
  ASSUME TypeOK, NEW q, Releases(q)
  PROVE  holder' \in [Replicas -> Readers \cup Writers \cup {None}]
  BY DEF Releases, TypeOK

LEMMA HomeTyped ==
  /\ \A r \in Readers : home[r] \in Replicas
  /\ \A w \in Writers : home[w] \in Replicas
  OBVIOUS

LEMMA ServeTyped ==
  ASSUME TypeOK, NEW r \in Readers, NEW ver \in Version, NEW link \in Row, Serve(r, ver, link)
  PROVE  /\ served' \in [Readers -> [ver: Version, inc: Version, burn: BOOLEAN]]
         /\ served'[r].ver = ver /\ served'[r].inc = link.inc /\ served'[r].burn = link.burn
         /\ \A q \in Readers \ {r} : served'[q] = served[q]
<1> DEFINE new == [ver |-> ver, inc |-> link.inc, burn |-> link.burn]
<1>1. new \in [ver: Version, inc: Version, burn: BOOLEAN]
  BY RowFields
<1>2. new.ver = ver /\ new.inc = link.inc /\ new.burn = link.burn
  OBVIOUS
<1>3. served' = [served EXCEPT ![r] = new]
  BY DEF Serve
<1> HIDE DEF new
<1> QED BY <1>1, <1>2, <1>3 DEF TypeOK

(* What the steps of a redirect leave alone, and how it goes through its   *)
(* stages.                                                                 *)
LEMMA ReaderMoves ==
  ASSUME TypeOK, NEW r \in Readers, Redirect(r)
  PROVE  /\ TypeOK'
         /\ UNCHANGED <<accounts, passed, writer, lastVersion, audience, floor>>
         /\ \A q \in Readers \ {r} : reader'[q] = reader[q] /\ served'[q] = served[q] /\ begun'[q] = begun[q]
         /\ row' \in {row, NoRow}
<1>0. reader \in [Readers -> Reader] /\ home[r] \in Replicas /\ row \in Row /\ reader[r] \in Reader
  BY HomeTyped DEF TypeOK, Reader
<1>1. CASE ResolveLock(r)
  <2>1. "get" \in ReaderPC /\ lastVersion + 1 \in 0..(MaxVersion + 1) /\ row.ver \in 0..(MaxVersion + 1)
    BY <1>0, Constants, RowFields DEF TypeOK, Version
  <2>2. begun' \in [Readers -> 0..(MaxVersion + 1)]
    BY <1>1, <2>1 DEF ResolveLock, TypeOK
  <2>3. \A q \in Readers \ {r} : begun'[q] = begun[q]
    BY <1>1 DEF ResolveLock, TypeOK
  <2>4. reader' \in [Readers -> Reader] /\ \A q \in Readers \ {r} : reader'[q] = reader[q]
    BY <1>0, <1>1, <2>1, ReaderGoesTo DEF ResolveLock
  <2> QED BY <1>0, <1>1, <2>2, <2>3, <2>4 DEF ResolveLock, TypeOK, Reader, storage
<1>2. CASE ResolveGet(r)
  <2>1. CASE Present
    <3> DEFINE q == [reader[r] EXCEPT !.pc = "fill", !.note = row]
    <3>1. q \in Reader
      BY <1>0, Constants DEF Reader
    <3>2. reader' = [reader EXCEPT ![r] = q] /\ UNCHANGED holder
      BY <1>0, <1>2, <2>1 DEF ResolveGet, Reader
    <3> HIDE DEF q
    <3> QED BY <1>0, <1>2, <3>1, <3>2 DEF ResolveGet, TypeOK, Reader, storage, history
  <2>2. CASE ~Present
    <3>1. reader' \in [Readers -> Reader] /\ \A q \in Readers \ {r} : reader'[q] = reader[q]
      BY <1>0, <1>2, <2>2, ReaderGoesTo, Constants DEF ResolveGet
    <3> QED BY <1>0, <1>2, <2>2, <3>1 DEF ResolveGet, TypeOK, Reader, storage, history
  <2> QED BY <2>1, <2>2
<1>3. CASE ResolveFill(r)
  <2>1. PICK t \in Version : reader' = [reader EXCEPT ![r] = [reader[r] EXCEPT !.pc = "policy", !.target = t]]
    <3>1. cache[home[r]] \in Version /\ reader[r].note.ver \in Version
      BY <1>0, RowFields DEF TypeOK, Reader
    <3>2. \E t \in {cache[home[r]], reader[r].note.ver} :
             reader' = [reader EXCEPT ![r].pc = "policy", ![r].target = t]
      BY <1>3 DEF ResolveFill
    <3>3. PICK t \in {cache[home[r]], reader[r].note.ver} :
             reader' = [reader EXCEPT ![r].pc = "policy", ![r].target = t]
      BY <3>2
    <3> QED BY <1>0, <3>1, <3>3 DEF Reader
  <2> DEFINE q == [reader[r] EXCEPT !.pc = "policy", !.target = t]
  <2>2. q \in Reader
    BY <1>0, Constants DEF Reader
  <2> HIDE DEF q
  <2>3. reader' \in [Readers -> Reader] /\ \A p \in Readers \ {r} : reader'[p] = reader[p]
    BY <1>0, <2>1, <2>2 DEF q
  <2>4. cache' \in [Replicas -> Version]
    BY <1>0, <1>3, RowFields DEF ResolveFill, TypeOK, Reader
  <2> QED BY <1>0, <1>3, <2>3, <2>4 DEF ResolveFill, TypeOK, Reader, storage, history
<1>4. CASE RedirectLink(r)
  <2>1. \E pc \in ReaderPC : ReaderGoes(r, pc)
    BY <1>4, Constants DEF RedirectLink
  <2>2. reader' \in [Readers -> Reader] /\ \A q \in Readers \ {r} : reader'[q] = reader[q]
    BY <1>0, <2>1, ReaderGoesTo
  <2> QED BY <1>0, <1>4, <2>2 DEF RedirectLink, TypeOK, Reader, storage, history
<1>5. CASE ExpireLink(r)
  <2>1. \E pc \in ReaderPC : ReaderGoes(r, pc)
    BY <1>5, Constants DEF ExpireLink
  <2>2. reader' \in [Readers -> Reader] /\ \A q \in Readers \ {r} : reader'[q] = reader[q]
    BY <1>0, <2>1, ReaderGoesTo
  <2> QED BY <1>0, <1>5, <2>2, Constants DEF ExpireLink, TypeOK, Reader, history
<1>6. CASE EvictExpired(r)
  <2>1. reader' \in [Readers -> Reader] /\ \A q \in Readers \ {r} : reader'[q] = reader[q]
    BY <1>0, <1>6, ReaderGoesTo, Constants DEF EvictExpired
  <2> QED BY <1>0, <1>6, <2>1, Constants DEF EvictExpired, TypeOK, Reader, storage, history
<1>7. CASE ConsumeLink(r)
  <2>1. reader' \in [Readers -> Reader] /\ \A q \in Readers \ {r} : reader'[q] = reader[q]
    BY <1>0, <1>7, ReaderGoesTo, Constants DEF ConsumeLink
  <2>2. row' \in {row, NoRow} /\ (Serve(r, row.ver, row) \/ UNCHANGED served)
    BY <1>7 DEF ConsumeLink
  <2>3. /\ served' \in [Readers -> [ver: Version, inc: Version, burn: BOOLEAN]]
        /\ \A q \in Readers \ {r} : served'[q] = served[q]
    BY <1>0, <2>2, RowFields, ServeTyped DEF TypeOK
  <2> QED BY <1>0, <1>7, <2>1, <2>2, <2>3, Constants DEF ConsumeLink, TypeOK, Reader
<1>8. CASE IncrementRedirectViews(r)
  <2>1. reader' \in [Readers -> Reader] /\ \A q \in Readers \ {r} : reader'[q] = reader[q]
    BY <1>0, <1>8, ReaderGoesTo, Constants DEF IncrementRedirectViews
  <2>2. Serve(r, reader[r].target, reader[r].note) \/ UNCHANGED served
    BY <1>8 DEF IncrementRedirectViews
  <2>3. reader[r].target \in Version /\ reader[r].note \in Row
    BY <1>0 DEF Reader
  <2>4. /\ served' \in [Readers -> [ver: Version, inc: Version, burn: BOOLEAN]]
        /\ \A q \in Readers \ {r} : served'[q] = served[q]
    BY <2>2, <2>3, ServeTyped DEF TypeOK
  <2> QED BY <1>0, <1>8, <2>1, <2>4 DEF IncrementRedirectViews, TypeOK, Reader, storage
<1>9. CASE AbortRead(r)
  <2>1. reader' \in [Readers -> Reader] /\ \A q \in Readers \ {r} : reader'[q] = reader[q]
    BY <1>0, <1>9, ReaderGoesTo, Constants DEF AbortRead
  <2>2. holder' \in [Replicas -> Readers \cup Writers \cup {None}]
    BY <1>9, ReleasesTyped DEF AbortRead
  <2> QED BY <1>0, <1>9, <2>1, <2>2 DEF AbortRead, TypeOK, Reader, storage, history
<1> QED BY <1>1, <1>2, <1>3, <1>4, <1>5, <1>6, <1>7, <1>8, <1>9 DEF Redirect

(* The same of the writing requests, of which only an update writes.       *)
LEMMA WriterMoves ==
  ASSUME TypeOK, NEW w \in Writers, Write(w)
  PROVE  /\ TypeOK'
         /\ UNCHANGED <<accounts, passed, reader, begun, served>>
         /\ \A v \in Writers \ {w} : writer'[v] = writer[v]
         /\ UpdatePut(w) \/ (UNCHANGED <<lastVersion, audience>> /\ row' \in {row, NoRow})
<1>0. writer \in [Writers -> Writer] /\ home[w] \in Replicas /\ row \in Row /\ writer[w] \in Writer
  BY HomeTyped DEF TypeOK, Writer
<1>1. CASE UpdateLock(w)
  <2>1. writer' \in [Writers -> Writer] /\ \A v \in Writers \ {w} : writer'[v] = writer[v]
    BY <1>0, <1>1, WriterGoesTo, Constants DEF UpdateLock
  <2> QED BY <1>0, <1>1, <2>1 DEF UpdateLock, TypeOK, Writer, storage, history
<1>2. ASSUME NEW p \in Payloads, UpdateGet(w, p)
      PROVE  /\ TypeOK'
             /\ UNCHANGED <<accounts, passed, reader, begun, served>>
             /\ \A v \in Writers \ {w} : writer'[v] = writer[v]
             /\ UNCHANGED <<lastVersion, audience, row>>
  <2>1. writer' \in [Writers -> Writer] /\ \A v \in Writers \ {w} : writer'[v] = writer[v]
    BY <1>2, GetTyped
  <2> QED BY <1>0, <1>2, <2>1 DEF UpdateGet, TypeOK, Writer, storage, history
<1>3. CASE UpdatePut(w)
  <2> DEFINE q == [writer[w] EXCEPT !.pc = "evict", !.note = row']
  <2>1. row' \in Row
    BY <1>3, PutTyped
  <2>2. q \in Writer
    BY <1>0, <2>1, Constants DEF Writer
  <2>3. writer' = [writer EXCEPT ![w] = q]
    BY <1>0, <1>3 DEF UpdatePut, Writer
  <2> HIDE DEF q
  <2>4. writer' \in [Writers -> Writer] /\ \A v \in Writers \ {w} : writer'[v] = writer[v]
    BY <1>0, <2>2, <2>3
  <2> QED BY <1>3, <2>1, <2>4, PutTyped DEF UpdatePut, TypeOK, Writer
<1>4. CASE UpdateEvict(w)
  <2>1. writer' \in [Writers -> Writer] /\ \A v \in Writers \ {w} : writer'[v] = writer[v]
    BY <1>0, <1>4, WriterGoesTo, Constants DEF UpdateEvict
  <2>2. writer[w].note.ver \in Version
    BY <1>0, RowFields DEF Writer
  <2> QED BY <1>0, <1>4, <2>1, <2>2, Constants DEF UpdateEvict, TypeOK, Writer, storage
<1>5. CASE DeleteGet(w)
  <2>1. writer' \in [Writers -> Writer] /\ \A v \in Writers \ {w} : writer'[v] = writer[v]
    BY <1>0, <1>5, WriterGoesTo, Constants DEF DeleteGet
  <2> QED BY <1>0, <1>5, <2>1 DEF DeleteGet, TypeOK, Writer, storage, history
<1>6. CASE DeletePut(w)
  <2>1. writer' \in [Writers -> Writer] /\ \A v \in Writers \ {w} : writer'[v] = writer[v]
    BY <1>0, <1>6, WriterGoesTo, Constants DEF DeletePut
  <2> QED BY <1>0, <1>6, <2>1, Constants DEF DeletePut, TypeOK, Writer, history
<1>7. CASE DeleteEvict(w)
  <2>1. writer' \in [Writers -> Writer] /\ \A v \in Writers \ {w} : writer'[v] = writer[v]
    BY <1>0, <1>7, WriterGoesTo, Constants DEF DeleteEvict
  <2> QED BY <1>0, <1>7, <2>1, Constants DEF DeleteEvict, TypeOK, Writer, storage, history
<1>8. CASE AbortWrite(w)
  <2>1. writer' \in [Writers -> Writer] /\ \A v \in Writers \ {w} : writer'[v] = writer[v]
    BY <1>0, <1>8, WriterGoesTo, Constants DEF AbortWrite
  <2>2. holder' \in [Replicas -> Readers \cup Writers \cup {None}]
    BY <1>8, ReleasesTyped DEF AbortWrite
  <2> QED BY <1>0, <1>8, <2>1, <2>2 DEF AbortWrite, TypeOK, Writer, storage, history
<1> QED BY <1>1, <1>2, <1>3, <1>4, <1>5, <1>6, <1>7, <1>8 DEF Write

LEMMA TypedStep == TypeOK /\ [Next]_vars => TypeOK'
<1> SUFFICES ASSUME TypeOK, [Next]_vars PROVE TypeOK'
  OBVIOUS
<1>1. ASSUME NEW p \in Creates, NEW at \in Replicas, Create(p, at) PROVE TypeOK'
  BY <1>1, CreateTyped DEF Create, TypeOK, requests
<1>2. CASE Lapse
  <2>1. Deadlines \subseteq 1..MaxVersion
    <3> SUFFICES ASSUME NEW d \in Deadlines PROVE d \in 1..MaxVersion
      OBVIOUS
    <3>1. d # 0 /\ \E link \in Row : d = link.expiry
      BY DEF Deadlines, TypeOK, Never
    <3> QED BY <3>1, RowFields DEF Version
  <2> QED BY <1>2, <2>1 DEF Lapse, TypeOK, requests, history
<1>3. ASSUME NEW at \in Replicas, Forget(at) PROVE TypeOK'
  BY <1>3, Constants DEF Forget, TypeOK, storage, requests, history
<1>4. ASSUME NEW at \in Replicas, Restart(at) PROVE TypeOK'
  <2>1. ReadEnded \in Reader /\ WriteEnded \in Writer
    BY Constants DEF ReadEnded, WriteEnded, Reader, Writer
  <2>2. reader' \in [Readers -> Reader] /\ writer' \in [Writers -> Writer]
    BY <1>4, <2>1 DEF Restart, TypeOK, Reader, Writer
  <2> QED BY <1>4, <2>2, Constants DEF Restart, TypeOK, Reader, Writer, storage, history
<1>5. CASE UNCHANGED vars
  BY <1>5 DEF vars, storage, requests, history, TypeOK
<1> QED BY <1>1, <1>2, <1>3, <1>4, <1>5, ReaderMoves, WriterMoves DEF Next

LEMMA TypedInit == Init => TypeOK
<1> SUFFICES ASSUME Init PROVE TypeOK
  OBVIOUS
<1>1. [pc |-> "idle", note |-> NoRow, target |-> 0] \in Reader
  BY Constants DEF Reader
<1>2. [pc |-> "idle", note |-> NoRow, sets |-> FALSE] \in Writer
  BY Constants DEF Writer
<1>3. Unserved \in [ver: Version, inc: Version, burn: BOOLEAN]
  BY Constants DEF Unserved
<1>4. <<"public", Anonymous>> \in Privacy \X Callers
  BY Constants DEF Privacy
<1> HIDE DEF Unserved
<1> QED BY <1>1, <1>2, <1>3, <1>4, Constants DEF Init, TypeOK, Reader, Writer

(* Every variable keeps its type.                                          *)
THEOREM TypeCorrect == Spec => []TypeOK
  BY TypedInit, TypedStep, PTL DEF Spec

-----------------------------------------------------------------------------
(* How a step changes what is stored: the row goes or stays, or gets the   *)
(* next version, with the audience that is recorded for it.                *)
Unwritten == row' \in {row, NoRow} /\ UNCHANGED <<lastVersion, audience>>
Written ==
  /\ row' \in Row
  /\ lastVersion' = lastVersion + 1 /\ row'.ver = lastVersion'
  /\ row'.inc = lastVersion' \/ (Present /\ row'.inc = row.inc)
  /\ audience'[lastVersion'] = <<row'.privacy, row'.owner>>
  /\ \A v \in 1..MaxVersion : v # lastVersion' => audience'[v] = audience[v]

LEMMA StorageSteps ==
  ASSUME TypeOK, [Next]_vars
  PROVE  accounts' = accounts /\ (Unwritten \/ Written)
<1>1. ASSUME NEW p \in Creates, NEW at \in Replicas, Create(p, at) PROVE accounts' = accounts /\ Written
  BY <1>1, CreateTyped DEF Create, Written
<1>2. ASSUME NEW w \in Writers, Write(w) PROVE accounts' = accounts /\ (Unwritten \/ Written)
  <2>1. CASE UpdatePut(w)
    BY <2>1, PutTyped DEF UpdatePut, Written
  <2> QED BY <1>2, <2>1, WriterMoves DEF Unwritten
<1>3. ASSUME NEW r \in Readers, Redirect(r) PROVE accounts' = accounts /\ Unwritten
  BY <1>3, ReaderMoves DEF Unwritten
<1> QED BY <1>1, <1>2, <1>3 DEF Next, Lapse, Forget, Restart, vars, storage, history, Unwritten

(* The row has the last version, and each version the audience of the row  *)
(* that had it first.                                                      *)
RowInv ==
  Present => /\ row.ver = lastVersion /\ row.inc <= lastVersion
             /\ audience[row.ver] = <<row.privacy, row.owner>>

LEMMA RowStep == TypeOK /\ RowInv /\ [Next]_vars => RowInv'
<1> SUFFICES ASSUME TypeOK, RowInv, [Next]_vars PROVE RowInv'
  OBVIOUS
<1>1. lastVersion \in Nat /\ row.inc \in Nat
  BY RowFields, Constants DEF TypeOK
<1>2. CASE Unwritten
  BY <1>2, Constants DEF Unwritten, RowInv, Present
<1>3. CASE Written
  BY <1>1, <1>3 DEF Written, RowInv, Present
<1> QED BY <1>2, <1>3, StorageSteps

(* What a redirect has read is at least as new as the row that it met at   *)
(* its begin, and it carries the target of just that version; what it was  *)
(* served is visible to it; and the link that it burned is gone.           *)
Current(r) ==
  /\ begun[r] <= lastVersion + 1 /\ (Present => begun[r] <= lastVersion)
  /\ reader[r].pc = "idle" => served[r].ver = 0
  /\ reader[r].pc \in {"fill", "policy", "expire", "consume", "count"} =>
       LET note == reader[r].note IN
       /\ note.ver # 0 /\ begun[r] <= note.ver /\ note.ver <= lastVersion
       /\ audience[note.ver] = <<note.privacy, note.owner>>
  /\ reader[r].pc \in {"policy", "expire", "consume", "count"} => reader[r].target = reader[r].note.ver
  /\ reader[r].pc = "count" => ~reader[r].note.burn /\ Sees(r, reader[r].note)

Served(r) ==
  /\ served[r].ver # 0 =>
       /\ begun[r] <= served[r].ver /\ served[r].ver <= lastVersion
       /\ accounts => VisibleTo(audience[served[r].ver][1], audience[served[r].ver][2], caller[r])
  /\ served[r].burn => served[r].inc <= lastVersion /\ (Present => row.inc # served[r].inc)

ReadInv ==
  /\ \A r \in Readers : Current(r) /\ Served(r)
  /\ \A q, r \in Readers : served[q].burn /\ served[r].burn /\ served[q].inc = served[r].inc => q = r

LEMMA ReaderTypes ==
  ASSUME TypeOK, NEW r \in Readers
  PROVE  /\ lastVersion \in Nat /\ lastVersion <= MaxVersion /\ begun[r] \in Nat /\ row \in Row /\ row.ver \in Nat /\ row.inc \in Nat
         /\ served[r].ver \in Nat /\ served[r].inc \in Nat /\ served[r].burn \in BOOLEAN
         /\ reader[r].note \in Row /\ reader[r].note.ver \in Nat
<1>1. served[r] \in [ver: Version, inc: Version, burn: BOOLEAN] /\ reader[r].note \in Row /\ row \in Row
  BY DEF TypeOK
<1>2. served[r].ver \in Version /\ served[r].inc \in Version /\ served[r].burn \in BOOLEAN
  BY <1>1
<1>3. begun[r] \in Nat /\ lastVersion \in Version
  BY DEF TypeOK
<1> QED BY <1>1, <1>2, <1>3, RowFields, Constants DEF Version

(* A redirect that does not move, or ends, keeps what holds of it. *)
LEMMA Onlooker ==
  ASSUME TypeOK, RowInv, [Next]_vars, NEW r \in Readers, Current(r), Served(r),
         UNCHANGED <<begun[r], served[r]>>,
         reader'[r] = reader[r] \/ reader'[r].pc = "done"
  PROVE  Current(r)' /\ Served(r)'
<1>1. accounts' = accounts /\ (Unwritten \/ Written)
  BY StorageSteps
<1>2. \A v \in 1..lastVersion : audience'[v] = audience[v]
  BY <1>1, ReaderTypes DEF Unwritten, Written
<1>3. lastVersion' \in {lastVersion, lastVersion + 1}
  BY <1>1 DEF Unwritten, Written
<1>4. begun[r] <= lastVersion' + 1 /\ (Present' => begun[r] <= lastVersion')
  BY <1>1, ReaderTypes, Constants DEF Unwritten, Written, Current, Present
<1>5. Current(r)'
  BY <1>1, <1>2, <1>3, <1>4, ReaderTypes DEF Current, Sees, Principal
<1>6. Served(r)'
  <2>1. served[r].burn /\ Present' => row'.inc # served[r].inc
    BY <1>1, ReaderTypes, Constants DEF Unwritten, Written, Served, RowInv, Present
  <2> QED BY <1>1, <1>2, <1>3, <2>1, ReaderTypes DEF Served
<1> QED BY <1>5, <1>6

(* What is served is either the row as it goes, or what the request has    *)
(* read of a link that does not burn.                                      *)
LEMMA Serving ==
  ASSUME TypeOK, RowInv, [Next]_vars, NEW r \in Readers, Redirect(r), Current(r), Served(r)
  PROVE  /\ Current(r)' /\ Served(r)'
         /\ \/ served'[r] = served[r]
            \/ ~served'[r].burn
            \/ Present /\ served'[r].inc = row.inc
<1>0. /\ reader \in [Readers -> Reader] /\ home[r] \in Replicas
      /\ \A q \in Readers \ {r} : reader'[q] = reader[q] /\ served'[q] = served[q] /\ begun'[q] = begun[q]
      /\ UNCHANGED <<accounts, lastVersion, audience>>
  BY HomeTyped, ReaderMoves DEF TypeOK, Reader
<1>1. CASE ResolveLock(r)
  <2>1. reader'[r].pc = "get" /\ begun'[r] = (IF Present THEN row.ver ELSE lastVersion + 1)
        /\ UNCHANGED <<row, served>> /\ served[r].ver = 0
    BY <1>0, <1>1, ReaderGoesTo, Constants DEF ResolveLock, storage, TypeOK, Current
  <2> QED BY <1>0, <2>1, ReaderTypes DEF Current, Served, RowInv, Present
<1>2. CASE ResolveGet(r)
  <2>1. CASE Present
    <3> DEFINE q == [reader[r] EXCEPT !.pc = "fill", !.note = row]
    <3>0. reader[r] \in Reader
      BY <1>0
    <3>1. q.pc = "fill" /\ q.note = row
      BY <3>0 DEF Reader
    <3>2. reader' = [reader EXCEPT ![r] = q]
      BY <1>0, <1>2, <2>1, <3>0 DEF ResolveGet, Reader
    <3> HIDE DEF q
    <3>3. reader'[r].pc = "fill" /\ reader'[r].note = row
      BY <1>0, <3>1, <3>2
    <3> QED BY <1>0, <1>2, <2>1, <3>3, ReaderTypes DEF ResolveGet, storage, history, Current, Served, RowInv, Present
  <2>2. CASE ~Present
    BY <1>0, <1>2, <2>2, Onlooker, ReaderGoesTo, Constants DEF ResolveGet, history
  <2> QED BY <2>1, <2>2
<1>3. CASE ResolveFill(r)
  <2>1. reader' = [reader EXCEPT ![r].pc = "policy", ![r].target = reader[r].note.ver]
    BY <1>3 DEF ResolveFill, Hit
  <2>2. reader'[r].pc = "policy" /\ reader'[r].target = reader[r].note.ver /\ reader'[r].note = reader[r].note
    BY <1>0, <2>1 DEF Reader
  <2> QED BY <1>0, <1>3, <2>2, ReaderTypes DEF ResolveFill, storage, history, Current, Served, Present
<1>4. CASE RedirectLink(r)
  <2>1. \/ ReaderGoes(r, "done")
        \/ \E pc \in {"expire", "consume"} : ReaderGoes(r, pc)
        \/ ReaderGoes(r, "count") /\ Sees(r, reader[r].note) /\ ~reader[r].note.burn
    BY <1>4 DEF RedirectLink
  <2>2. UNCHANGED <<row, begun, served>> /\ reader[r].pc = "policy"
    BY <1>4 DEF RedirectLink, storage, history
  <2>3. CASE ReaderGoes(r, "done")
    BY <1>0, <2>2, <2>3, Onlooker, ReaderGoesTo, Constants
  <2>4. ASSUME NEW pc \in {"expire", "consume"}, ReaderGoes(r, pc) PROVE Current(r)' /\ Served(r)'
    <3>1. reader'[r].pc = pc /\ reader'[r].note = reader[r].note /\ reader'[r].target = reader[r].target
      BY <1>0, <2>4, ReaderGoesTo, Constants
    <3> QED BY <1>0, <2>2, <3>1 DEF Current, Served, Present
  <2>5. CASE ReaderGoes(r, "count") /\ Sees(r, reader[r].note) /\ ~reader[r].note.burn
    <3>1. reader'[r].pc = "count" /\ reader'[r].note = reader[r].note /\ reader'[r].target = reader[r].target
      BY <1>0, <2>5, ReaderGoesTo, Constants
    <3> QED BY <1>0, <2>2, <2>5, <3>1 DEF Current, Served, Present, Sees, Principal
  <2> QED BY <2>1, <2>2, <2>3, <2>4, <2>5
<1>5. CASE ExpireLink(r)
  <2>1. UNCHANGED <<begun, served>> /\ row' \in {row, NoRow} /\ reader[r].pc = "expire"
    BY <1>5 DEF ExpireLink, history
  <2>2. reader'[r].pc \in {"evict", "done"}
    BY <1>0, <1>5, ReaderGoesTo, Constants DEF ExpireLink
  <2> QED BY <1>0, <2>1, <2>2, Constants DEF Current, Served, Present
<1>6. CASE EvictExpired(r)
  BY <1>0, <1>6, Onlooker, ReaderGoesTo, Constants DEF EvictExpired, history
<1>7. CASE ConsumeLink(r)
  <2>1. reader'[r].pc = "done" /\ UNCHANGED begun
    BY <1>0, <1>7, ReaderGoesTo, Constants DEF ConsumeLink
  <2>2. CASE Consumable(r) /\ Serve(r, row.ver, row)
    <3>1. Present /\ Sees(r, row) /\ row' = NoRow /\ row \in Row
      BY <1>7, <2>2, ReaderTypes DEF ConsumeLink, Consumable
    <3>2. served'[r].ver = row.ver /\ served'[r].inc = row.inc
      BY <2>2, <3>1, RowFields, ServeTyped
    <3>3. begun[r] <= row.ver /\ row.ver = lastVersion /\ audience[row.ver] = <<row.privacy, row.owner>>
          /\ row.inc <= lastVersion
      BY <3>1 DEF Current, RowInv
    <3>4. accounts => VisibleTo(row.privacy, row.owner, caller[r])
      BY <3>1 DEF Sees, Principal
    <3>5. ~Present'
      BY <3>1, Constants DEF Present
    <3> QED BY <1>0, <2>1, <3>1, <3>2, <3>3, <3>4, <3>5, ReaderTypes DEF Current, Served
  <2>3. CASE UNCHANGED served
    BY <1>0, <2>1, <2>3, Onlooker
  <2> QED BY <1>7, <2>2, <2>3 DEF ConsumeLink
<1>8. CASE IncrementRedirectViews(r)
  <2>1. reader'[r].pc = "done" /\ UNCHANGED <<begun, row>> /\ reader[r].pc = "count"
    BY <1>0, <1>8, ReaderGoesTo, Constants DEF IncrementRedirectViews, storage
  <2>2. CASE Serve(r, reader[r].target, reader[r].note)
    <3> DEFINE note == reader[r].note
    <3>1. note \in Row /\ reader[r].target = note.ver /\ note.ver # 0 /\ begun[r] <= note.ver
          /\ note.ver <= lastVersion /\ audience[note.ver] = <<note.privacy, note.owner>>
          /\ ~note.burn /\ Sees(r, note)
      BY <2>1, ReaderTypes DEF Current
    <3>2. served'[r].ver = note.ver /\ served'[r].burn = note.burn
      BY <2>2, <3>1, RowFields, ServeTyped
    <3>3. accounts => VisibleTo(note.privacy, note.owner, caller[r])
      BY <3>1 DEF Sees, Principal
    <3> HIDE DEF note
    <3> QED BY <1>0, <2>1, <3>1, <3>2, <3>3 DEF Current, Served, Present
  <2>3. CASE UNCHANGED served
    BY <1>0, <2>1, <2>3, Onlooker
  <2> QED BY <1>8, <2>2, <2>3 DEF IncrementRedirectViews
<1>9. CASE AbortRead(r)
  BY <1>0, <1>9, Onlooker, ReaderGoesTo, Constants DEF AbortRead, history
<1> QED BY <1>1, <1>2, <1>3, <1>4, <1>5, <1>6, <1>7, <1>8, <1>9 DEF Redirect

LEMMA ReadStep == TypeOK /\ RowInv /\ ReadInv /\ [Next]_vars => ReadInv'
<1> SUFFICES ASSUME TypeOK, RowInv, ReadInv, [Next]_vars PROVE ReadInv'
  OBVIOUS
<1>0. \A r \in Readers : Current(r) /\ Served(r)
  BY DEF ReadInv
<1>1. ASSUME NEW r \in Readers, Redirect(r) PROVE ReadInv'
  <2>1. \A q \in Readers \ {r} : reader'[q] = reader[q] /\ served'[q] = served[q] /\ begun'[q] = begun[q]
    BY <1>1, ReaderMoves
  <2>2. \A q \in Readers : Current(q)' /\ Served(q)'
    BY <1>0, <1>1, <2>1, Serving, Onlooker
  <2>3. \A q \in Readers \ {r} : served[q].burn /\ served'[r].burn => served[q].inc # served'[r].inc
    BY <1>0, <1>1, Serving DEF Served, ReadInv
  <2> QED BY <2>1, <2>2, <2>3 DEF ReadInv
<1>2. CASE /\ UNCHANGED <<begun, served>>
           /\ \A r \in Readers : reader'[r] = reader[r] \/ reader'[r].pc = "done"
  <2>1. \A q \in Readers : Current(q)' /\ Served(q)'
    BY <1>0, <1>2, Onlooker
  <2> QED BY <1>2, <2>1 DEF ReadInv
<1>3. ASSUME NEW w \in Writers, Write(w) PROVE UNCHANGED <<begun, served, reader>>
  BY <1>3, WriterMoves
<1> QED BY <1>1, <1>2, <1>3 DEF Next, Create, Lapse, Forget, Restart, ReadEnded, vars, requests, history

LEMMA ReadInit == Init => RowInv /\ ReadInv
<1> SUFFICES ASSUME Init PROVE RowInv /\ ReadInv
  OBVIOUS
<1>1. ~Present /\ lastVersion = 0
  BY Constants DEF Init, Present
<1>2. \A r \in Readers : /\ served[r].ver = 0 /\ served[r].burn = FALSE /\ begun[r] = 0
                         /\ reader[r].pc = "idle"
  BY DEF Init, Unserved
<1> QED BY <1>1, <1>2 DEF RowInv, ReadInv, Current, Served

LEMMA ReadsHold == Spec => [](TypeOK /\ RowInv /\ ReadInv)
  BY TypedInit, TypedStep, ReadInit, RowStep, ReadStep, PTL DEF Spec

(* Reads are current, on any replica, and whatever its cache holds.        *)
THEOREM Currency == Spec => []ReadsAreCurrent
<1>1. TypeOK /\ ReadInv => ReadsAreCurrent
  <2> SUFFICES ASSUME TypeOK, ReadInv, NEW r \in Readers, served[r].ver # 0 PROVE served[r].ver >= begun[r]
    BY DEF ReadsAreCurrent
  <2> QED BY ReaderTypes DEF ReadInv, Served
<1> QED BY <1>1, ReadsHold, PTL

(* A burning link is followed once. *)
THEOREM BurnsOnce == Spec => []BurnLinkOnce
<1>1. ReadInv => BurnLinkOnce
  BY DEF ReadInv, BurnLinkOnce
<1> QED BY <1>1, ReadsHold, PTL

(* Nobody is sent to a target that was not for them. *)
THEOREM AudienceHolds == Spec => []AudienceRespected
<1>1. ReadInv => AudienceRespected
  BY DEF ReadInv, Served, AudienceRespected
<1> QED BY <1>1, ReadsHold, PTL

(* A Follow destroys a link only when that is due to the row as it is.     *)
THEOREM DestroysDue == Spec => FollowDestroysOnlyDueLinks
<1> DEFINE Due(r) == accounts /\ Present /\ row'.ver = 0 /\ reader'[r] # reader[r]
                       => Sees(r, row) /\ (Expired(row) \/ (row.burn /\ reader[r].pc = "consume"))
<1>1. ASSUME TypeOK, [Next]_vars, NEW r \in Readers, accounts, Present, row'.ver = 0, reader'[r] # reader[r]
      PROVE  Sees(r, row) /\ (Expired(row) \/ (row.burn /\ reader[r].pc = "consume"))
  <2>1. row' # row
    BY <1>1 DEF Present
  <2>2. CASE Redirect(r)
    BY <1>1, <2>1, <2>2 DEF Redirect, ResolveLock, ResolveGet, ResolveFill, RedirectLink, ExpireLink,
         EvictExpired, ConsumeLink, IncrementRedirectViews, AbortRead, Expirable, Consumable, storage
  <2>3. \A q \in Readers \ {r} : Redirect(q) => reader'[r] = reader[r]
    BY <1>1, ReaderMoves
  <2>4. \A w \in Writers : Write(w) => reader'[r] = reader[r]
    BY <1>1, WriterMoves
  <2> QED BY <1>1, <2>1, <2>2, <2>3, <2>4
        DEF Next, Create, Lapse, Forget, Restart, vars, requests, storage
<1>2. TypeOK /\ [Next]_vars => \A r \in Readers : Due(r)
  BY <1>1
<1>3. TypeOK /\ [Next]_vars => [\A r \in Readers : Due(r)]_vars
  BY <1>2
<1> QED BY <1>3, TypeCorrect, PTL DEF Spec, FollowDestroysOnlyDueLinks

-----------------------------------------------------------------------------
(* The lock keeps an update, from its read to its eviction, apart from a   *)
(* redirect that reads the row and fills the cache.                        *)
LockInv ==
  /\ \A r \in Readers : reader[r].pc \in {"get", "fill"} => holder[home[r]] = r
  /\ \A w \in Writers : writer[w].pc \in {"get", "put", "evict"} => holder[home[w]] = w

LEMMA LockStep == TypeOK /\ LockInv /\ [Next]_vars => LockInv'
<1> SUFFICES ASSUME TypeOK, LockInv, [Next]_vars PROVE LockInv'
  OBVIOUS
<1>0. /\ holder \in [Replicas -> Readers \cup Writers \cup {None}]
      /\ \A r \in Readers : home[r] \in Replicas /\ r # None
      /\ \A w \in Writers : home[w] \in Replicas /\ w # None
      /\ \A r \in Readers, w \in Writers : r # w
      /\ reader \in [Readers -> Reader] /\ writer \in [Writers -> Writer]
  BY HomeTyped DEF TypeOK, Reader, Writer
<1>1. ASSUME NEW r \in Readers, Redirect(r) PROVE LockInv'
  <2>0. /\ \A q \in Readers \ {r} : reader'[q] = reader[q]
        /\ writer' = writer
    BY <1>1, ReaderMoves
  <2>1. CASE ResolveLock(r)
    <3>1. holder' = [holder EXCEPT ![home[r]] = r] /\ holder[home[r]] = None
      BY <2>1 DEF ResolveLock, LockFree
    <3> QED BY <1>0, <2>0, <3>1 DEF LockInv
  <2>2. CASE ResolveGet(r) \/ ResolveFill(r)
    <3>1. holder[home[r]] = r
      BY <2>2 DEF ResolveGet, ResolveFill, LockInv
    <3>2. \/ UNCHANGED holder
          \/ reader'[r].pc \in {"policy", "done"} /\ holder' = [holder EXCEPT ![home[r]] = None]
      <4>1. CASE ResolveGet(r)
        BY <1>0, <4>1, ReaderGoesTo, Constants DEF ResolveGet
      <4>2. CASE ResolveFill(r)
        <5>1. reader[r] \in Reader
          BY <1>0
        <5>2. \E t \in {cache[home[r]], reader[r].note.ver} :
                 reader' = [reader EXCEPT ![r].pc = "policy", ![r].target = t]
          BY <4>2 DEF ResolveFill
        <5>3. reader'[r].pc = "policy"
          BY <1>0, <5>1, <5>2 DEF Reader
        <5> QED BY <4>2, <5>3 DEF ResolveFill
      <4> QED BY <2>2, <4>1, <4>2
    <3> QED BY <1>0, <2>0, <2>2, <3>1, <3>2 DEF LockInv, ResolveGet, ResolveFill
  <2>3. CASE RedirectLink(r) \/ ExpireLink(r) \/ EvictExpired(r) \/ ConsumeLink(r) \/ IncrementRedirectViews(r)
    <3>1. \E pc \in ReaderPC \ {"get", "fill"} : ReaderGoes(r, pc)
      BY <2>3, Constants DEF RedirectLink, ExpireLink, EvictExpired, ConsumeLink, IncrementRedirectViews
    <3>2. reader'[r].pc \notin {"get", "fill"}
      BY <1>0, <3>1, ReaderGoesTo
    <3>3. holder' = holder
      BY <2>3 DEF RedirectLink, ExpireLink, EvictExpired, ConsumeLink, IncrementRedirectViews
    <3> QED BY <1>0, <2>0, <3>2, <3>3 DEF LockInv
  <2>4. CASE AbortRead(r)
    <3>1. reader'[r].pc = "done"
      BY <1>0, <2>4, ReaderGoesTo, Constants DEF AbortRead
    <3>2. \A p \in Replicas : holder[p] # r => holder'[p] = holder[p]
      BY <2>4 DEF AbortRead, Releases
    <3> QED BY <1>0, <2>0, <3>1, <3>2 DEF LockInv
  <2> QED BY <1>1, <2>1, <2>2, <2>3, <2>4 DEF Redirect
<1>2. ASSUME NEW w \in Writers, Write(w) PROVE LockInv'
  <2>0. /\ \A v \in Writers \ {w} : writer'[v] = writer[v]
        /\ reader' = reader
    BY <1>2, WriterMoves
  <2>1. CASE UpdateLock(w)
    <3>1. holder' = [holder EXCEPT ![home[w]] = w] /\ holder[home[w]] = None
      BY <2>1 DEF UpdateLock
    <3> QED BY <1>0, <2>0, <3>1 DEF LockInv
  <2>2. CASE (\E p \in Payloads : UpdateGet(w, p)) \/ UpdatePut(w)
    <3>1. holder[home[w]] = w /\ holder' = holder
      BY <2>2 DEF UpdateGet, UpdatePut, LockInv
    <3> QED BY <1>0, <2>0, <3>1 DEF LockInv
  <2>3. CASE UpdateEvict(w)
    <3>1. writer'[w].pc = "done"
      BY <1>0, <2>3, WriterGoesTo, Constants DEF UpdateEvict
    <3>2. holder[home[w]] = w /\ holder' = [holder EXCEPT ![home[w]] = None]
      BY <2>3 DEF UpdateEvict, LockInv
    <3> QED BY <1>0, <2>0, <3>1, <3>2 DEF LockInv
  <2>4. CASE DeleteGet(w) \/ DeletePut(w) \/ DeleteEvict(w)
    <3>1. \E pc \in WriterPC \ {"get", "put", "evict"} : WriterGoes(w, pc)
      BY <2>4, Constants DEF DeleteGet, DeletePut, DeleteEvict
    <3>2. writer'[w].pc \notin {"get", "put", "evict"}
      BY <1>0, <3>1, WriterGoesTo
    <3>3. holder' = holder
      BY <2>4 DEF DeleteGet, DeletePut, DeleteEvict
    <3> QED BY <1>0, <2>0, <3>2, <3>3 DEF LockInv
  <2>5. CASE AbortWrite(w)
    <3>1. writer'[w].pc = "done"
      BY <1>0, <2>5, WriterGoesTo, Constants DEF AbortWrite
    <3>2. \A p \in Replicas : holder[p] # w => holder'[p] = holder[p]
      BY <2>5 DEF AbortWrite, Releases
    <3> QED BY <1>0, <2>0, <3>1, <3>2 DEF LockInv
  <2> QED BY <1>2, <2>1, <2>2, <2>3, <2>4, <2>5 DEF Write
<1>3. ASSUME NEW at \in Replicas, Restart(at) PROVE LockInv'
  BY <1>0, <1>3 DEF Restart, LockInv, ReadEnded, WriteEnded
<1> QED BY <1>1, <1>2, <1>3 DEF Next, Create, Lapse, Forget, vars, requests, LockInv

(* What a replica has cached, or a redirect is about to cache there, is    *)
(* no older than the last update that the replica made.                    *)
RefillInv ==
  /\ \A at \in Replicas : floor[at] <= lastVersion /\ (cache[at] # 0 => cache[at] >= floor[at])
  /\ \A r \in Readers : reader[r].pc = "fill" => reader[r].note.ver >= floor[home[r]]
  /\ \A w \in Writers : writer[w].pc = "evict" => writer[w].note.ver <= lastVersion

LEMMA VersionsAreNumbers ==
  ASSUME TypeOK
  PROVE  /\ lastVersion \in Nat /\ row.ver \in Nat
         /\ \A at \in Replicas : floor[at] \in Nat /\ cache[at] \in Nat
         /\ \A r \in Readers : reader[r].note.ver \in Nat
         /\ \A w \in Writers : writer[w].note.ver \in Nat
<1>1. /\ \A r \in Readers : reader[r].note \in Row
      /\ \A w \in Writers : writer[w].note \in Row
      /\ row \in Row
  BY DEF TypeOK
<1>2. /\ lastVersion \in Version
      /\ \A at \in Replicas : floor[at] \in Version /\ cache[at] \in Version
  BY DEF TypeOK
<1> QED BY <1>1, <1>2, RowFields, Constants

LEMMA RefillStep == TypeOK /\ RowInv /\ LockInv /\ RefillInv /\ [Next]_vars => RefillInv'
<1> SUFFICES ASSUME TypeOK, RowInv, LockInv, RefillInv, [Next]_vars PROVE RefillInv'
  OBVIOUS
<1>0. /\ \A r \in Readers : home[r] \in Replicas
      /\ \A w \in Writers : home[w] \in Replicas
      /\ \A r \in Readers, w \in Writers : r # w
      /\ reader \in [Readers -> Reader] /\ writer \in [Writers -> Writer]
      /\ cache \in [Replicas -> Version] /\ floor \in [Replicas -> Version]
  BY HomeTyped DEF TypeOK, Reader, Writer
<1>1. lastVersion' \in {lastVersion, lastVersion + 1}
  BY StorageSteps DEF Unwritten, Written
<1>2. ASSUME UNCHANGED floor,
             \A at \in Replicas : cache'[at] \in {0, cache[at]},
             \A r \in Readers : reader'[r] = reader[r] \/ reader'[r].pc # "fill",
             \A w \in Writers : writer'[w] = writer[w] \/ writer'[w].pc # "evict"
      PROVE  RefillInv'
  BY <1>0, <1>1, <1>2, VersionsAreNumbers DEF RefillInv
<1>3. ASSUME NEW r \in Readers, Redirect(r) PROVE RefillInv'
  <2>0. /\ \A q \in Readers \ {r} : reader'[q] = reader[q]
        /\ UNCHANGED <<writer, floor, lastVersion>>
    BY <1>3, ReaderMoves
  <2>1. CASE ResolveGet(r) /\ Present
    <3> DEFINE q == [reader[r] EXCEPT !.pc = "fill", !.note = row]
    <3>0. reader[r] \in Reader
      BY <1>0
    <3>1. q.note = row
      BY <3>0 DEF Reader
    <3>2. reader' = [reader EXCEPT ![r] = q]
      BY <1>0, <2>1, <3>0 DEF ResolveGet, Reader
    <3> HIDE DEF q
    <3>3. reader'[r].note = row
      BY <1>0, <3>1, <3>2
    <3> QED BY <1>0, <2>0, <2>1, <3>3, VersionsAreNumbers DEF ResolveGet, RowInv, RefillInv
  <2>2. CASE ResolveGet(r) /\ ~Present
    BY <1>0, <1>2, <2>0, <2>2, ReaderGoesTo, Constants DEF ResolveGet
  <2>3. CASE ResolveFill(r)
    <3>1. reader[r] \in Reader
      BY <1>0
    <3>2. \E t \in {cache[home[r]], reader[r].note.ver} :
             reader' = [reader EXCEPT ![r].pc = "policy", ![r].target = t]
      BY <2>3 DEF ResolveFill
    <3>3. reader'[r].pc = "policy"
      BY <1>0, <3>1, <3>2 DEF Reader
    <3>4. cache' = cache \/ cache' = [cache EXCEPT ![home[r]] = reader[r].note.ver]
      BY <2>3 DEF ResolveFill
    <3>5. reader[r].note.ver >= floor[home[r]]
      BY <2>3 DEF ResolveFill, RefillInv
    <3> QED BY <1>0, <2>0, <3>3, <3>4, <3>5, VersionsAreNumbers DEF RefillInv
  <2>4. CASE ResolveLock(r) \/ RedirectLink(r) \/ ExpireLink(r) \/ EvictExpired(r) \/ ConsumeLink(r)
             \/ IncrementRedirectViews(r) \/ AbortRead(r)
    <3>1. \E pc \in ReaderPC \ {"fill"} : ReaderGoes(r, pc)
      BY <2>4, Constants DEF ResolveLock, RedirectLink, ExpireLink, EvictExpired, ConsumeLink,
         IncrementRedirectViews, AbortRead
    <3>2. reader'[r].pc # "fill"
      BY <1>0, <3>1, ReaderGoesTo
    <3>3. cache' = cache \/ cache' = [cache EXCEPT ![home[r]] = 0]
      BY <2>4 DEF ResolveLock, RedirectLink, ExpireLink, EvictExpired, ConsumeLink,
         IncrementRedirectViews, AbortRead
    <3> QED BY <1>0, <1>2, <2>0, <3>2, <3>3
  <2> QED BY <1>3, <2>1, <2>2, <2>3, <2>4 DEF Redirect
<1>4. ASSUME NEW w \in Writers, Write(w) PROVE RefillInv'
  <2>0. /\ \A v \in Writers \ {w} : writer'[v] = writer[v]
        /\ UNCHANGED reader
    BY <1>4, WriterMoves
  <2>1. CASE UpdatePut(w)
    <3> DEFINE q == [writer[w] EXCEPT !.pc = "evict", !.note = row']
    <3>0. writer[w] \in Writer
      BY <1>0
    <3>1. q.note = row'
      BY <3>0 DEF Writer
    <3>2. writer' = [writer EXCEPT ![w] = q]
      BY <1>0, <2>1, <3>0 DEF UpdatePut, Writer
    <3> HIDE DEF q
    <3>3. writer'[w].note.ver = lastVersion'
      BY <1>0, <2>1, <3>1, <3>2, PutTyped
    <3>4. UNCHANGED <<cache, floor>> /\ lastVersion' = lastVersion + 1
      BY <2>1, PutTyped DEF UpdatePut
    <3> QED BY <1>0, <2>0, <3>3, <3>4, VersionsAreNumbers DEF RefillInv
  <2>2. CASE UpdateEvict(w)
    <3>1. writer'[w].pc = "done"
      BY <1>0, <2>2, WriterGoesTo, Constants DEF UpdateEvict
    <3>2. /\ cache' = [cache EXCEPT ![home[w]] = 0]
          /\ floor' = [floor EXCEPT ![home[w]] = writer[w].note.ver]
          /\ writer[w].note.ver <= lastVersion /\ lastVersion' = lastVersion
          /\ holder[home[w]] = w
      BY <2>2 DEF UpdateEvict, RefillInv, LockInv
    <3>3. \A r \in Readers : reader[r].pc = "fill" => home[r] # home[w]
      BY <1>0, <3>2 DEF LockInv
    <3> QED BY <1>0, <2>0, <3>1, <3>2, <3>3, VersionsAreNumbers DEF RefillInv
  <2>3. ASSUME NEW p \in Payloads, UpdateGet(w, p) PROVE RefillInv'
    BY <1>0, <1>2, <2>0, <2>3, GetTyped DEF UpdateGet, history
  <2>4. CASE UpdateLock(w) \/ DeleteGet(w) \/ DeletePut(w) \/ DeleteEvict(w) \/ AbortWrite(w)
    <3>1. \E pc \in WriterPC \ {"evict"} : WriterGoes(w, pc)
      BY <2>4, Constants DEF UpdateLock, DeleteGet, DeletePut, DeleteEvict, AbortWrite
    <3>2. writer'[w].pc # "evict"
      BY <1>0, <3>1, WriterGoesTo
    <3>3. (cache' = cache \/ cache' = [cache EXCEPT ![home[w]] = 0]) /\ floor' = floor
      BY <2>4 DEF UpdateLock, DeleteGet, DeletePut, DeleteEvict, AbortWrite, history
    <3> QED BY <1>0, <1>2, <2>0, <3>2, <3>3
  <2> QED BY <1>4, <2>1, <2>2, <2>3, <2>4 DEF Write
<1>5. ASSUME NEW at \in Replicas, Restart(at) PROVE RefillInv'
  BY <1>0, <1>2, <1>5 DEF Restart, history, ReadEnded, WriteEnded
<1>6. ASSUME NEW at \in Replicas, Forget(at) PROVE RefillInv'
  BY <1>0, <1>2, <1>6 DEF Forget, history, requests
<1>7. ASSUME UNCHANGED <<cache, floor, reader, writer>> PROVE RefillInv'
  BY <1>2, <1>7
<1> QED BY <1>3, <1>4, <1>5, <1>6, <1>7 DEF Next, Create, Lapse, vars, requests, history

LEMMA RefillInit == Init => LockInv /\ RefillInv
  BY HomeTyped DEF Init, LockInv, RefillInv

(* A redirect never refills the cache of its replica with a target that    *)
(* the replica has replaced.                                               *)
THEOREM RefillsAreFresh == Spec => []NoStaleRefill
<1>1. RefillInv => NoStaleRefill
  BY DEF RefillInv, NoStaleRefill
<1> QED BY <1>1, RefillInit, LockStep, RefillStep, TypedInit, TypedStep, ReadInit, RowStep, PTL DEF Spec

-----------------------------------------------------------------------------
(* Deadlines stay passed, so what a redirect found to have expired has.    *)
LapsedInv == \A r \in Readers : reader[r].pc = "expire" => Expired(reader[r].note)

LEMMA PassedGrows ==
  ASSUME TypeOK, [Next]_vars
  PROVE  passed \subseteq passed'
  BY ReaderMoves, WriterMoves DEF Next, Create, Lapse, Forget, Restart, vars, storage

LEMMA LapsedStep == TypeOK /\ LapsedInv /\ [Next]_vars => LapsedInv'
<1> SUFFICES ASSUME TypeOK, LapsedInv, [Next]_vars PROVE LapsedInv'
  OBVIOUS
<1>0. reader \in [Readers -> Reader] /\ \A r \in Readers : reader[r] \in Reader
  BY DEF TypeOK, Reader
<1>1. ASSUME NEW r \in Readers, reader'[r] = reader[r], reader'[r].pc = "expire"
      PROVE  Expired(reader[r].note)'
  BY <1>1, PassedGrows DEF LapsedInv, Expired
<1>2. ASSUME NEW r \in Readers, Redirect(r), reader'[r].pc = "expire"
      PROVE  Expired(reader[r].note)'
  <2>1. CASE RedirectLink(r)
    <3>1. PICK pc \in ReaderPC : /\ ReaderGoes(r, pc)
                                 /\ pc = "expire" => Expired(reader[r].note)
      BY <2>1, Constants DEF RedirectLink
    <3>2. reader'[r].pc = pc /\ (pc # "done" => reader'[r].note = reader[r].note)
      BY <1>0, <3>1, ReaderGoesTo
    <3>3. passed' = passed
      BY <1>2, ReaderMoves
    <3> QED BY <1>2, <3>1, <3>2, <3>3 DEF Expired
  <2>2. CASE ResolveGet(r) /\ Present
    <3>1. reader' = [reader EXCEPT ![r].pc = "fill", ![r].note = row]
      BY <2>2 DEF ResolveGet
    <3>2. reader'[r].pc = "fill"
      BY <1>0, <3>1 DEF Reader
    <3> QED BY <1>2, <3>2
  <2>3. CASE ResolveFill(r)
    <3>1. \E t \in {cache[home[r]], reader[r].note.ver} :
            reader' = [reader EXCEPT ![r].pc = "policy", ![r].target = t]
      BY <2>3 DEF ResolveFill
    <3>2. reader'[r].pc = "policy"
      BY <1>0, <3>1 DEF Reader
    <3> QED BY <1>2, <3>2
  <2>4. CASE \E pc \in ReaderPC \ {"expire"} : ReaderGoes(r, pc)
    BY <1>0, <1>2, <2>4, ReaderGoesTo
  <2>5. CASE ~RedirectLink(r) /\ ~(ResolveGet(r) /\ Present) /\ ~ResolveFill(r)
    <3>1. \E pc \in ReaderPC \ {"expire"} : ReaderGoes(r, pc)
      BY <1>2, <2>5, Constants
         DEF Redirect, ResolveLock, ResolveGet, ExpireLink, EvictExpired, ConsumeLink,
             IncrementRedirectViews, AbortRead
    <3> QED BY <2>4, <3>1
  <2> QED BY <2>1, <2>2, <2>3, <2>5
<1>3. ASSUME NEW r \in Readers, NEW q \in Readers, Redirect(q), reader'[r].pc = "expire"
      PROVE  Expired(reader[r].note)'
  BY <1>1, <1>2, <1>3, ReaderMoves
<1>4. ASSUME NEW at \in Replicas, Restart(at), NEW r \in Readers, reader'[r].pc = "expire"
      PROVE  Expired(reader[r].note)'
  <2>1. reader'[r] = reader[r]
    BY <1>4 DEF Restart, ReadEnded
  <2> QED BY <1>1, <1>4, <2>1
<1>5. CASE UNCHANGED reader
  BY <1>1, <1>5 DEF LapsedInv
<1>6. \A w \in Writers : Write(w) => UNCHANGED reader
  BY WriterMoves
<1> QED BY <1>3, <1>4, <1>5, <1>6 DEF LapsedInv, Next, Create, Lapse, Forget, vars, requests

(* Whatever the settings, a redirect destroys only a link that has expired *)
(* or burns for a deliberate access, or, without accounts, one that was    *)
(* given another deadline since the redirect found it expired: Redirect    *)
(* deletes by ID alone, and no other row falls to that.                    *)
DestroyedForCause ==
  [][\A r \in Readers :
       Present /\ row'.ver = 0 /\ reader'[r] # reader[r] =>
         \/ Expired(row)
         \/ row.burn /\ reader[r].pc = "consume"
         \/ /\ ~accounts /\ reader[r].pc = "expire"
            /\ row.expiry # reader[r].note.expiry]_vars

THEOREM RedirectsHaveCause == Spec => DestroyedForCause
<1> DEFINE Cause(r) ==
      Present /\ row'.ver = 0 /\ reader'[r] # reader[r] =>
         \/ Expired(row)
         \/ row.burn /\ reader[r].pc = "consume"
         \/ /\ ~accounts /\ reader[r].pc = "expire"
            /\ row.expiry # reader[r].note.expiry
<1>1. ASSUME TypeOK, LapsedInv, [Next]_vars, NEW r \in Readers, Present, row'.ver = 0, reader'[r] # reader[r]
      PROVE  \/ Expired(row)
             \/ row.burn /\ reader[r].pc = "consume"
             \/ ~accounts /\ reader[r].pc = "expire" /\ row.expiry # reader[r].note.expiry
  <2>1. row' # row
    BY <1>1 DEF Present
  <2>2. CASE Redirect(r)
    <3>1. CASE ExpireLink(r)
      <4>1. Expired(reader[r].note) /\ reader[r].pc = "expire" /\ Expirable(r)
        BY <1>1, <2>1, <3>1 DEF ExpireLink, LapsedInv
      <4> QED BY <4>1 DEF Expirable, Expired
    <3>2. CASE ConsumeLink(r)
      BY <2>1, <3>2 DEF ConsumeLink, Consumable
    <3> QED BY <2>1, <2>2, <3>1, <3>2
          DEF Redirect, ResolveLock, ResolveGet, ResolveFill, RedirectLink,
              EvictExpired, IncrementRedirectViews, AbortRead, storage
  <2>3. \A q \in Readers \ {r} : Redirect(q) => reader'[r] = reader[r]
    BY <1>1, ReaderMoves
  <2>4. \A w \in Writers : Write(w) => reader'[r] = reader[r]
    BY <1>1, WriterMoves
  <2> QED BY <1>1, <2>1, <2>2, <2>3, <2>4
        DEF Next, Create, Lapse, Forget, Restart, vars, requests, storage
<1>2. TypeOK /\ LapsedInv /\ [Next]_vars => [\A r \in Readers : Cause(r)]_vars
  BY <1>1
<1>3. Init => LapsedInv
  BY DEF Init, LapsedInv
<1> QED BY <1>2, <1>3, LapsedStep, TypeCorrect, PTL DEF Spec, DestroyedForCause

-----------------------------------------------------------------------------
(* Within one process the lock is held from the read of an update to its   *)
(* UPDATE, and a create takes it too: meanwhile the row may only go.       *)
OneProcess == \A p, q \in Replicas : p = q

SnapshotInv ==
  \A w \in Writers : writer[w].pc = "put" /\ Present =>
    row.ver = writer[w].note.ver /\ row.inc = writer[w].note.inc

LEMMA SnapshotStep ==
  ASSUME OneProcess, TypeOK, LockInv, SnapshotInv, [Next]_vars
  PROVE  SnapshotInv'
<1>0. /\ writer \in [Writers -> Writer] /\ row \in Row
      /\ \A w \in Writers : writer[w] \in Writer /\ home[w] \in Replicas /\ w # None
  BY HomeTyped DEF TypeOK, Writer
<1>1. ASSUME NEW w \in Writers, writer'[w] = writer[w], row' \in {row, NoRow}
      PROVE  writer'[w].pc = "put" /\ Present' =>
               row'.ver = writer'[w].note.ver /\ row'.inc = writer'[w].note.inc
  BY <1>1, Constants DEF SnapshotInv, Present
<1>2. ASSUME NEW p \in Creates, NEW at \in Replicas, Create(p, at)
      PROVE  SnapshotInv'
  <2>1. holder[at] = None /\ writer' = writer
    BY <1>2 DEF Create, requests
  <2>2. \A w \in Writers : writer[w].pc # "put"
    BY <1>0, <2>1 DEF LockInv, OneProcess
  <2> QED BY <2>1, <2>2 DEF SnapshotInv
<1>3. ASSUME NEW w \in Writers, Write(w)
      PROVE  SnapshotInv'
  <2>1. /\ \A v \in Writers \ {w} : writer'[v] = writer[v]
        /\ UpdatePut(w) \/ row' \in {row, NoRow}
    BY <1>3, WriterMoves
  <2>2. CASE UpdatePut(w)
    <3>1. \A v \in Writers \ {w} : writer[v].pc # "put"
      BY <1>0, <2>2 DEF UpdatePut, LockInv, OneProcess
    <3>2. writer' = [writer EXCEPT ![w].pc = "evict", ![w].note = row']
      BY <2>2 DEF UpdatePut
    <3>3. writer'[w].pc = "evict"
      BY <1>0, <3>2 DEF Writer
    <3> QED BY <2>1, <3>1, <3>3 DEF SnapshotInv
  <2>3. ASSUME NEW p \in Payloads, UpdateGet(w, p)
        PROVE  SnapshotInv'
    <3>1. row' = row
      BY <2>3 DEF UpdateGet, storage
    <3>2. writer'[w].note.ver = row.ver /\ writer'[w].note.inc = row.inc
      <4> DEFINE note == [row EXCEPT !.privacy = PrivacyAfter(p, row),
                                     !.expiry = IF p.expires = "clear" THEN Never ELSE @]
      <4>1. note.ver = row.ver /\ note.inc = row.inc
        BY <1>0 DEF Row
      <4>2. writer' = [writer EXCEPT ![w] = [pc |-> "put", sets |-> p.expires = "set", note |-> note]]
        BY <2>3 DEF UpdateGet
      <4> HIDE DEF note
      <4>3. writer'[w].note = note
        BY <1>0, <4>2
      <4> QED BY <4>1, <4>3
    <3> QED BY <1>1, <2>1, <3>1, <3>2 DEF SnapshotInv
  <2>4. CASE ~UpdatePut(w) /\ \A p \in Payloads : ~UpdateGet(w, p)
    <3>1. \E pc \in WriterPC \ {"put"} : WriterGoes(w, pc)
      BY <1>3, <2>4, Constants
         DEF Write, UpdateLock, UpdateEvict, DeleteGet, DeletePut, DeleteEvict, AbortWrite
    <3>2. writer'[w].pc # "put"
      BY <1>0, <3>1, WriterGoesTo
    <3> QED BY <1>1, <2>1, <2>4, <3>2 DEF SnapshotInv
  <2> QED BY <2>2, <2>3, <2>4
<1>4. ASSUME NEW r \in Readers, Redirect(r)
      PROVE  SnapshotInv'
  BY <1>1, <1>4, ReaderMoves DEF SnapshotInv
<1>5. ASSUME NEW at \in Replicas, Restart(at)
      PROVE  SnapshotInv'
  <2>1. row' = row /\ \A w \in Writers : writer'[w] \in {writer[w], WriteEnded}
    BY <1>5 DEF Restart, storage
  <2> QED BY <1>1, <2>1 DEF SnapshotInv, WriteEnded
<1>6. CASE UNCHANGED <<row, writer>>
  BY <1>6 DEF SnapshotInv, Present
<1> QED BY <1>2, <1>3, <1>4, <1>5, <1>6 DEF Next, Lapse, Forget, vars, storage, requests

(* The row that an UPDATE overwrites is the version that its request read: *)
(* what the request left alone is as it was (Update: "Updates also         *)
(* preserve each other's omitted fields within this process").             *)
UpdatesOverwriteWhatTheyRead ==
  [][\A w \in Writers :
       writer[w].pc = "put" /\ writer'[w].pc = "evict" =>
         row.ver = writer[w].note.ver /\ row.inc = writer[w].note.inc]_vars

THEOREM UpdatesPreserve ==
  ASSUME OneProcess
  PROVE  Spec => UpdatesOverwriteWhatTheyRead
<1>1. ASSUME TypeOK, SnapshotInv, [Next]_vars, NEW w \in Writers,
             writer[w].pc = "put", writer'[w].pc = "evict"
      PROVE  row.ver = writer[w].note.ver /\ row.inc = writer[w].note.inc
  <2>1. writer'[w] # writer[w]
    BY <1>1
  <2>2. \A v \in Writers \ {w} : Write(v) => writer'[w] = writer[w]
    BY <1>1, WriterMoves
  <2>3. \A r \in Readers : Redirect(r) => writer'[w] = writer[w]
    BY <1>1, ReaderMoves
  <2>4. \A at \in Replicas : Restart(at) => writer'[w] \in {writer[w], WriteEnded}
    BY DEF Restart
  <2>5. Write(w)
    BY <1>1, <2>1, <2>2, <2>3, <2>4
       DEF Next, Create, Lapse, Forget, vars, requests, WriteEnded
  <2>6. ~AbortWrite(w)
    BY <1>1, WriterGoesTo, Constants DEF AbortWrite, TypeOK, Writer
  <2>7. Present
    BY <1>1, <2>5, <2>6
       DEF Write, UpdateLock, UpdateGet, UpdatePut, UpdateEvict, DeleteGet, DeletePut, DeleteEvict
  <2> QED BY <1>1, <2>7 DEF SnapshotInv
<1>2. TypeOK /\ SnapshotInv /\ [Next]_vars =>
        [\A w \in Writers : writer[w].pc = "put" /\ writer'[w].pc = "evict" =>
           row.ver = writer[w].note.ver /\ row.inc = writer[w].note.inc]_vars
  BY <1>1
<1>3. Init => SnapshotInv
  BY DEF Init, SnapshotInv
<1>4. TypeOK /\ LockInv /\ SnapshotInv /\ [Next]_vars => SnapshotInv'
  BY SnapshotStep
<1> QED BY <1>2, <1>3, <1>4, RefillInit, LockStep, TypeCorrect, PTL DEF Spec, UpdatesOverwriteWhatTheyRead
=============================================================================
