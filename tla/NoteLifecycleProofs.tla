------------------------ MODULE NoteLifecycleProofs ------------------------
(***************************************************************************)
(* What is proved of NoteLifecycle for any number of requests, any         *)
(* settings and any bounds.                                                *)
(***************************************************************************)
EXTENDS NoteLifecycle, TLAPS

(***************************************************************************)
(* Typing.                                                                 *)
(***************************************************************************)
LEMMA NoRowTyped == NoRow \in Row
  BY BoundsAssumption DEF NoRow, Row, Version, Privacy, Never

LEMMA KindTyped == \A p \in Settings : KindOf(p) \in Kind \ {Unwritten}
  BY DEF Settings, KindOf, Kind, Unwritten

LEMMA ResolvedTyped ==
  ASSUME NEW p \in Settings, NEW existing \in Row, now \in Nat
  PROVE  ResolveExpiry(p, existing) \in Nat /\ Backfill(p, existing) \in Privacy
  BY DEF ResolveExpiry, Backfill, Settings, Row, Never, Omitted

(* What ReaderGoes, ReaderHolds and WriterGoes write is a request. *)
LEMMA RequestTyped ==
  ASSUME TypeOK
  PROVE  /\ \A r \in Readers, pc \in ReaderPC :
              [reader EXCEPT ![r].pc = pc] \in [Readers -> ReadRequest]
         /\ \A r \in Readers, pc \in ReaderPC, note \in Row :
              [reader EXCEPT ![r].pc = pc, ![r].note = note] \in [Readers -> ReadRequest]
         /\ \A r \in Readers, pc \in ReaderPC, d \in Nat :
              [reader EXCEPT ![r].pc = pc, ![r].deadline = d] \in [Readers -> ReadRequest]
         /\ \A w \in Writers, pc \in WriterPC :
              [writer EXCEPT ![w].pc = pc] \in [Writers -> WriteRequest]
         /\ \A w \in Writers, pc \in WriterPC, note \in Row :
              [writer EXCEPT ![w].pc = pc, ![w].note = note] \in [Writers -> WriteRequest]
         /\ \A w \in Writers, q \in WriteRequest :
              [writer EXCEPT ![w] = q] \in [Writers -> WriteRequest]
<1> USE DEF TypeOK, ReadRequest, WriteRequest
<1>1. ASSUME NEW r \in Readers, NEW pc \in ReaderPC
      PROVE  [reader EXCEPT ![r].pc = pc] \in [Readers -> ReadRequest]
  OBVIOUS
<1>2. ASSUME NEW r \in Readers, NEW pc \in ReaderPC, NEW note \in Row
      PROVE  [reader EXCEPT ![r].pc = pc, ![r].note = note] \in [Readers -> ReadRequest]
  OBVIOUS
<1>3. ASSUME NEW r \in Readers, NEW pc \in ReaderPC, NEW d \in Nat
      PROVE  [reader EXCEPT ![r].pc = pc, ![r].deadline = d] \in [Readers -> ReadRequest]
  OBVIOUS
<1>4. ASSUME NEW w \in Writers, NEW pc \in WriterPC
      PROVE  [writer EXCEPT ![w].pc = pc] \in [Writers -> WriteRequest]
  OBVIOUS
<1>5. ASSUME NEW w \in Writers, NEW pc \in WriterPC, NEW note \in Row
      PROVE  [writer EXCEPT ![w].pc = pc, ![w].note = note] \in [Writers -> WriteRequest]
  OBVIOUS
<1>6. ASSUME NEW w \in Writers, NEW q \in WriteRequest
      PROVE  [writer EXCEPT ![w] = q] \in [Writers -> WriteRequest]
  OBVIOUS
<1> QED BY <1>1, <1>2, <1>3, <1>4, <1>5, <1>6

(* A request holds a note. *)
LEMMA HeldTyped ==
  ASSUME TypeOK
  PROVE  /\ \A r \in Readers : reader[r].note \in Row /\ reader[r].deadline \in Nat
         /\ \A w \in Writers : writer[w].note \in Row
  BY DEF TypeOK, ReadRequest, WriteRequest

LEMMA DeliverTyped ==
  ASSUME TypeOK, NEW r \in Readers, NEW pc \in ReaderPC, NEW note \in Row,
         Deliver(r, pc, note)
  PROVE  reader' \in [Readers -> ReadRequest] /\ served' \in [Readers -> Version]
<1>1. CASE ReaderHolds(r, pc, note) /\ Serve(r, note)
  <2>1. note.ver \in Version
    BY DEF Row
  <2>2. served' \in [Readers -> Version]
    BY <1>1, <2>1 DEF Serve, TypeOK
  <2> QED BY <1>1, <2>2, RequestTyped DEF ReaderHolds
<1>2. CASE ReaderGoes(r, "done") /\ UNCHANGED served
  BY <1>2, RequestTyped DEF ReaderGoes, ReaderPC, TypeOK
<1> QED BY <1>1, <1>2 DEF Deliver

(* Every state component keeps its shape, for all constants. *)
THEOREM TypeCorrect == Spec => []TypeOK
<1>1. Init => TypeOK
  BY NoRowTyped, BoundsAssumption
     DEF Init, TypeOK, ReadRequest, WriteRequest, ReaderPC, WriterPC, Version, Kind
<1>2. TypeOK /\ [Next]_vars => TypeOK'
  <2> SUFFICES ASSUME TypeOK, [Next]_vars PROVE TypeOK'
    OBVIOUS
  <2> USE DEF TypeOK, history
  <2>1. ASSUME NEW p \in Creates, Create(p) PROVE TypeOK'
    <3>1. p \in Settings /\ p.privacy \in Privacy
      BY SettingsAssumption DEF CreateSettings, Settings
    <3>2. lastVersion + 1 \in 1..MaxVersion
      BY <2>1, BoundsAssumption DEF Create, Record, Version
    <3>3. written' \in [1..MaxVersion -> Kind]
      BY <2>1, <3>1, KindTyped DEF Create, Record
    <3>4. row' \in Row
      BY <2>1, <3>1, <3>2 DEF Create, Row, Version, Settings, Never
    <3> QED BY <2>1, <3>2, <3>3, <3>4 DEF Create, Record, Version
  <2>2. ASSUME NEW r \in Readers, Read(r) PROVE TypeOK'
    <3> USE DEF ReaderGoes, ReaderHolds, Serve, ReaderPC
    <3>a. /\ row.ver \in Version /\ reader[r].note.ver \in Version
          /\ reader[r].deadline \in Nat
      BY HeldTyped DEF Row
    <3>1. CASE Peek(r)
      BY <3>1, RequestTyped DEF Peek
    <3>2. CASE ApplyPolicy(r)
      <4>1. reader[r].note.ttl \in Nat /\ now + reader[r].note.ttl \in Nat
        BY HeldTyped DEF Row
      <4>2. reader' \in [Readers -> ReadRequest]
        <5>1. CASE \E pc \in ReaderPC : ReaderGoes(r, pc)
          <6> PICK pc \in ReaderPC : ReaderGoes(r, pc)
            BY <5>1
          <6> HIDE DEF ReaderPC
          <6> QED BY RequestTyped DEF ReaderGoes
        <5>2. CASE reader' = [reader EXCEPT ![r].pc = "timer",
                                           ![r].deadline = now + reader[r].note.ttl]
          BY <5>2, <4>1, RequestTyped
        <5> QED BY <3>2, <5>1, <5>2 DEF ApplyPolicy
      <4>3. served' \in [Readers -> Version]
        BY <3>2, <3>a DEF ApplyPolicy
      <4> QED BY <3>2, <4>2, <4>3 DEF ApplyPolicy
    <3>3. CASE EnforceExpiry(r)
      BY <3>3, NoRowTyped, RequestTyped DEF EnforceExpiry
    <3>4. CASE SetBurnExpiry(r)
      <4>1. row' \in Row /\ row'.ver \in Version
        BY <3>4, <3>a DEF SetBurnExpiry, TimerStarted, Row
      <4>2. reader' \in [Readers -> ReadRequest] /\ served' \in [Readers -> Version]
        BY <3>4, <4>1, DeliverTyped DEF SetBurnExpiry
      <4> QED BY <3>4, <4>1, <4>2 DEF SetBurnExpiry
    <3>5. CASE SetBurnExpiryMissed(r)
      BY <3>5, RequestTyped DEF SetBurnExpiryMissed
    <3>6. CASE HandleSetExpiryErr(r)
      <4>1. reader' \in [Readers -> ReadRequest] /\ served' \in [Readers -> Version]
        <5>1. CASE Present
          <6>1. PICK pc \in ReaderPC : Deliver(r, pc, row)
            BY <3>6, <5>1 DEF HandleSetExpiryErr
          <6> QED BY <6>1, DeliverTyped
        <5>2. CASE ~Present
          <6>1. ReaderGoes(r, "done") /\ UNCHANGED served
            BY <3>6, <5>2 DEF HandleSetExpiryErr
          <6> QED BY <6>1, RequestTyped
        <5> QED BY <5>1, <5>2
      <4> QED BY <3>6, <4>1 DEF HandleSetExpiryErr
    <3>7. CASE Consume(r)
      <4>1. reader' \in [Readers -> ReadRequest] /\ served' \in [Readers -> Version]
        <5>1. CASE Consumable
          <6>1. PICK pc \in ReaderPC : Deliver(r, pc, row)
            BY <3>7, <5>1 DEF Consume
          <6> QED BY <6>1, DeliverTyped
        <5>2. CASE ~Consumable
          <6>1. ReaderGoes(r, "done") /\ UNCHANGED served
            BY <3>7, <5>2 DEF Consume
          <6> QED BY <6>1, RequestTyped
        <5> QED BY <5>1, <5>2
      <4>2. row' \in Row
        BY <3>7, NoRowTyped DEF Consume
      <4> QED BY <3>7, <4>1, <4>2 DEF Consume
    <3>8. CASE ApplyViewIncrement(r)
      <4>1. row' \in Row
        BY <3>8 DEF ApplyViewIncrement, Row
      <4> QED BY <3>8, <4>1, RequestTyped DEF ApplyViewIncrement
    <3>9. CASE AbortRead(r)
      BY <3>9, RequestTyped DEF AbortRead
    <3> QED BY <2>2, <3>1, <3>2, <3>3, <3>4, <3>5, <3>6, <3>7, <3>8, <3>9 DEF Read
  <2>3. ASSUME NEW w \in Writers, Write(w) PROVE TypeOK'
    <3> USE DEF WriterGoes, WriterPC
    <3>1. ASSUME NEW p \in Payloads, UpdateGet(w, p) PROVE TypeOK'
      <4>1. p \in Settings /\ (p.privacy = Omitted) \in BOOLEAN
        BY SettingsAssumption DEF UpdateSettings
      <4>2. ResolveExpiry(p, row) \in Nat /\ Backfill(p, row) \in Privacy
        BY <4>1, ResolvedTyped
      <4>3. [row EXCEPT !.burn = p.burn, !.ttl = p.ttl,
                        !.expiresAt = ResolveExpiry(p, row),
                        !.privacy = Backfill(p, row)] \in Row
        BY <4>1, <4>2 DEF Row, Settings
      <4> QED BY <3>1, <4>1, <4>3, RequestTyped DEF UpdateGet, WriteRequest
    <3>2. CASE UpdatePut(w)
      <4>1. KindOf(writer[w].note) \in Kind
        BY HeldTyped DEF KindOf, Kind, Row
      <4>2. lastVersion + 1 \in 1..MaxVersion
        BY <3>2, BoundsAssumption DEF UpdatePut, Record, Version
      <4>3. written' \in [1..MaxVersion -> Kind]
        BY <3>2, <4>1 DEF UpdatePut, Record
      <4>4. row' \in Row
        <5>1. writer[w].note \in Row /\ row.inc \in Version /\ row.views \in Nat
          BY HeldTyped DEF Row
        <5>2. lastVersion + 1 \in Version
          BY <4>2 DEF Version
        <5> QED BY <3>2, <5>1, <5>2 DEF UpdatePut, Row
      <4>5. lastVersion' \in Version /\ UNCHANGED <<now, reader, served>>
        BY <3>2, <4>2 DEF UpdatePut, Record, Version
      <4>6. writer' \in [Writers -> WriteRequest]
        BY <3>2, RequestTyped DEF UpdatePut
      <4> QED BY <4>3, <4>4, <4>5, <4>6
    <3>3. CASE DeleteGet(w)
      BY <3>3, RequestTyped DEF DeleteGet
    <3>4. CASE DeletePut(w)
      BY <3>4, NoRowTyped, RequestTyped DEF DeletePut
    <3>5. CASE AbortWrite(w)
      BY <3>5, RequestTyped DEF AbortWrite
    <3> QED BY <2>3, <3>1, <3>2, <3>3, <3>4, <3>5 DEF Write
  <2>4. CASE Tick
    BY <2>4 DEF Tick
  <2>5. CASE UNCHANGED vars
    BY <2>5 DEF vars
  <2> QED BY <2>1, <2>2, <2>3, <2>4, <2>5 DEF Next
<1> QED BY <1>1, <1>2, PTL DEF Spec

-----------------------------------------------------------------------------
(***************************************************************************)
(* Versions grow: nothing in the system holds one that was not yet         *)
(* written, so a write can never restore an old one.                       *)
(***************************************************************************)
VersionsWritten ==
  /\ row.ver <= lastVersion
  /\ Present => row.inc # 0
  /\ \A r \in Readers : served[r] <= lastVersion /\ reader[r].note.ver <= lastVersion
  /\ \A v \in 1..MaxVersion : v > lastVersion => written[v] = Unwritten

HistoryInv == TypeOK /\ VersionsWritten

(* No request ever asks for a grace period: burn means burn at once. *)
NoGracePeriods == \A p \in Creates \cup Payloads : p.ttl = 0

(***************************************************************************)
(* Without grace periods the burn flag of the row, and of a snapshot, says *)
(* how its version was written, and only the row's own deletion serves a   *)
(* version that burns.                                                     *)
(***************************************************************************)
NoTimers ==
  /\ row.ttl = 0
  /\ \A w \in Writers : writer[w].note.ttl = 0
  /\ \A r \in Readers : reader[r].note.ttl = 0 /\ reader[r].pc \notin {"timer", "refetch"}

FlagsTrue ==
  /\ Present => written[row.ver] = KindOf(row)
  /\ \A r \in Readers : reader[r].pc = "policy" =>
       reader[r].note.ver # 0 /\ written[reader[r].note.ver] = KindOf(reader[r].note)

Unserved == \A r \in Readers : reader[r].pc \notin {"count", "done"} => served[r] = 0

OnceInv ==
  /\ HistoryInv
  /\ NoTimers
  /\ FlagsTrue
  /\ Unserved
  /\ ServedBurnIsGone
  /\ ImmediateBurnAtMostOnce

(* The two ways a version is written, and what a request then holds. *)
LEMMA RecordSteps ==
  ASSUME TypeOK, NEW kind, Record(kind)
  PROVE  /\ lastVersion' = lastVersion + 1
         /\ lastVersion + 1 \in 1..MaxVersion
         /\ written'[lastVersion + 1] = kind
         /\ \A v \in 1..MaxVersion : v # lastVersion + 1 => written'[v] = written[v]
  BY BoundsAssumption DEF TypeOK, Record, Version

(* Reader steps: the row keeps its version or is gone, and what the reader *)
(* holds and was served comes from the row or from what it held before.    *)
LEMMA ReadFootprint ==
  ASSUME TypeOK, NEW r \in Readers, Read(r)
  PROVE  /\ UNCHANGED <<writer, lastVersion, written>>
         /\ row' = NoRow \/ (row'.ver = row.ver /\ row'.inc = row.inc)
         /\ \A q \in Readers \ {r} : reader'[q] = reader[q] /\ served'[q] = served[q]
         /\ reader'[r].note.ver \in {reader[r].note.ver, row.ver}
         /\ served'[r] \in {served[r], reader[r].note.ver, row.ver}
<1> USE DEF TypeOK, history, ReaderGoes, ReaderHolds, Serve
<1>1. CASE Peek(r)
  BY <1>1 DEF Peek, ReadRequest
<1>2. CASE ApplyPolicy(r)
  BY <1>2 DEF ApplyPolicy, ReadRequest
<1>3. CASE EnforceExpiry(r)
  BY <1>3 DEF EnforceExpiry, ReadRequest
<1>4. CASE SetBurnExpiry(r)
  <2>1. row'.ver = row.ver /\ row'.inc = row.inc
    BY <1>4 DEF SetBurnExpiry, TimerStarted, Row
  <2> QED BY <1>4, <2>1 DEF SetBurnExpiry, Deliver, ReadRequest
<1>5. CASE SetBurnExpiryMissed(r)
  BY <1>5 DEF SetBurnExpiryMissed, ReadRequest
<1>6. CASE HandleSetExpiryErr(r)
  BY <1>6 DEF HandleSetExpiryErr, Deliver, ReadRequest
<1>7. CASE Consume(r)
  BY <1>7 DEF Consume, Deliver, ReadRequest
<1>8. CASE ApplyViewIncrement(r)
  <2>1. row'.ver = row.ver /\ row'.inc = row.inc
    BY <1>8 DEF ApplyViewIncrement, Row
  <2> QED BY <1>8, <2>1 DEF ApplyViewIncrement, ReadRequest
<1>9. CASE AbortRead(r)
  BY <1>9 DEF AbortRead, ReadRequest
<1> QED BY <1>1, <1>2, <1>3, <1>4, <1>5, <1>6, <1>7, <1>8, <1>9 DEF Read

THEOREM HistoryCorrect == Spec => []HistoryInv
<1>1. Init => VersionsWritten
  BY BoundsAssumption DEF Init, VersionsWritten, Present, NoRow
<1>2. TypeOK /\ TypeOK' /\ VersionsWritten /\ [Next]_vars => VersionsWritten'
  <2> SUFFICES ASSUME TypeOK, TypeOK', VersionsWritten, [Next]_vars
               PROVE  VersionsWritten'
    OBVIOUS
  <2> USE DEF VersionsWritten, Present
  <2>a. /\ row.ver \in Nat /\ lastVersion \in Nat
        /\ \A r \in Readers : served[r] \in Nat /\ reader[r].note.ver \in Nat
    BY BoundsAssumption, HeldTyped DEF TypeOK, Row, Version
  <2>1. ASSUME NEW p \in Creates, Create(p) PROVE VersionsWritten'
    <3>1. UNCHANGED <<reader, served>> /\ row'.ver = lastVersion' /\ row'.inc = lastVersion'
      BY <2>1 DEF Create, Record
    <3>2. Record(KindOf(p))
      BY <2>1 DEF Create
    <3> QED BY <2>a, <3>1, <3>2, RecordSteps
  <2>2. ASSUME NEW r \in Readers, Read(r) PROVE VersionsWritten'
    <3>1. row'.ver <= lastVersion' /\ (row'.ver # 0 => row'.inc # 0)
      BY <2>2, <2>a, ReadFootprint DEF NoRow
    <3>2. \A q \in Readers : served'[q] <= lastVersion' /\ reader'[q].note.ver <= lastVersion'
      BY <2>2, <2>a, ReadFootprint
    <3> QED BY <2>2, <3>1, <3>2, ReadFootprint
  <2>3. ASSUME NEW w \in Writers, Write(w) PROVE VersionsWritten'
    <3>1. CASE UpdatePut(w)
      <4>1. Record(KindOf(writer[w].note)) /\ UNCHANGED <<reader, served>>
        BY <3>1 DEF UpdatePut
      <4>2. row'.ver = lastVersion' /\ row'.inc = row.inc /\ row.inc # 0
        BY <3>1, HeldTyped DEF UpdatePut, Record, Row
      <4> QED BY <2>a, <4>1, <4>2, RecordSteps
    <3>2. CASE \E p \in Payloads : UpdateGet(w, p)
      BY <3>2 DEF UpdateGet, history
    <3>3. CASE DeleteGet(w)
      BY <3>3 DEF DeleteGet, history
    <3>4. CASE DeletePut(w)
      <4>1. row' = NoRow /\ UNCHANGED <<reader, history>>
        BY <3>4 DEF DeletePut
      <4> QED BY <4>1, <2>a DEF NoRow, history
    <3>5. CASE AbortWrite(w)
      BY <3>5 DEF AbortWrite, history
    <3> QED BY <2>3, <3>1, <3>2, <3>3, <3>4, <3>5 DEF Write
  <2>4. CASE Tick
    BY <2>4 DEF Tick, history
  <2>5. CASE UNCHANGED vars
    BY <2>5 DEF vars
  <2> QED BY <2>1, <2>2, <2>3, <2>4, <2>5 DEF Next
<1> QED BY <1>1, <1>2, TypeCorrect, PTL DEF Spec, HistoryInv

-----------------------------------------------------------------------------
(***************************************************************************)
(* Two promises about steps, each from the version order alone.            *)
(***************************************************************************)

(* The statement of startTimer is the only one that sets the deadline of a *)
(* version already in the row, and it needs the flag that it clears.       *)
LEMMA FixedStep ==
  ASSUME HistoryInv, Next, Present, row'.ver = row.ver, ~row.burn
  PROVE  ~row'.burn /\ row'.expiresAt = row.expiresAt
<1> USE DEF HistoryInv, VersionsWritten
<1>a. row \in Row /\ row.ver # 0 /\ row.ver # lastVersion + 1
  BY DEF TypeOK, Row, Version, Present
<1>1. ASSUME NEW p \in Creates, Create(p) PROVE FALSE
  BY <1>1 DEF Create
<1>2. ASSUME NEW r \in Readers, Read(r)
      PROVE  ~row'.burn /\ row'.expiresAt = row.expiresAt
  <2>1. CASE SetBurnExpiry(r)
    BY <2>1 DEF SetBurnExpiry, TimerEligible
  <2>2. CASE Consume(r) \/ EnforceExpiry(r)
    BY <2>2, <1>a DEF Consume, EnforceExpiry, NoRow
  <2>3. CASE ApplyViewIncrement(r)
    BY <2>3, <1>a DEF ApplyViewIncrement, Row
  <2>4. CASE \/ Peek(r) \/ ApplyPolicy(r) \/ SetBurnExpiryMissed(r)
             \/ HandleSetExpiryErr(r) \/ AbortRead(r)
    BY <2>4 DEF Peek, ApplyPolicy, SetBurnExpiryMissed, HandleSetExpiryErr, AbortRead
  <2> QED BY <1>2, <2>1, <2>2, <2>3, <2>4 DEF Read
<1>3. ASSUME NEW w \in Writers, Write(w)
      PROVE  ~row'.burn /\ row'.expiresAt = row.expiresAt
  <2>1. CASE UpdatePut(w)
    <3>1. row'.ver = lastVersion + 1
      BY <2>1, HeldTyped DEF UpdatePut, Row
    <3> QED BY <3>1, <1>a
  <2>2. CASE DeletePut(w)
    BY <2>2, <1>a DEF DeletePut, NoRow
  <2>3. CASE DeleteGet(w) \/ AbortWrite(w) \/ \E p \in Payloads : UpdateGet(w, p)
    BY <2>3 DEF DeleteGet, AbortWrite, UpdateGet
  <2> QED BY <1>3, <2>1, <2>2, <2>3 DEF Write
<1>4. CASE Tick
  BY <1>4 DEF Tick
<1> QED BY <1>1, <1>2, <1>3, <1>4 DEF Next

(* A timer that runs is not started again, nor moved. *)
THEOREM DeadlineFixed == Spec => GraceDeadlineFixed
<1> DEFINE Fixed == Present /\ row'.ver = row.ver /\ ~row.burn
                      => ~row'.burn /\ row'.expiresAt = row.expiresAt
<1>1. HistoryInv /\ [Next]_vars => [Fixed]_vars
  BY FixedStep DEF vars
<1> QED BY <1>1, HistoryCorrect, PTL DEF Spec, GraceDeadlineFixed

(* An update writes back the counter of the row it finds, not of the row   *)
(* it read.                                                                *)
THEOREM ViewsKept == Spec => ViewsSurviveUpdates
<1> DEFINE Kept == Present /\ row'.inc = row.inc => row'.views >= row.views
<1>1. HistoryInv /\ [Next]_vars => [Kept]_vars
  <2> SUFFICES ASSUME HistoryInv, Next, Present, row'.inc = row.inc
               PROVE  row'.views >= row.views
    BY DEF vars
  <2> USE DEF HistoryInv, VersionsWritten
  <2>a. row \in Row /\ row.inc # 0 /\ row.views \in Nat
    BY DEF TypeOK, Row, Present
  <2>1. ASSUME NEW p \in Creates, Create(p) PROVE FALSE
    BY <2>1 DEF Create
  <2>2. ASSUME NEW r \in Readers, Read(r) PROVE row'.views >= row.views
    <3>1. CASE SetBurnExpiry(r)
      BY <3>1, <2>a DEF SetBurnExpiry, TimerStarted, Row
    <3>2. CASE Consume(r) \/ EnforceExpiry(r)
      BY <3>2, <2>a DEF Consume, EnforceExpiry, NoRow
    <3>3. CASE ApplyViewIncrement(r)
      BY <3>3, <2>a DEF ApplyViewIncrement, Row
    <3>4. CASE \/ Peek(r) \/ ApplyPolicy(r) \/ SetBurnExpiryMissed(r)
               \/ HandleSetExpiryErr(r) \/ AbortRead(r)
      BY <3>4, <2>a DEF Peek, ApplyPolicy, SetBurnExpiryMissed, HandleSetExpiryErr, AbortRead
    <3> QED BY <2>2, <3>1, <3>2, <3>3, <3>4 DEF Read
  <2>3. ASSUME NEW w \in Writers, Write(w) PROVE row'.views >= row.views
    <3>1. CASE UpdatePut(w)
      <4>1. row'.views = row.views
        BY <3>1, HeldTyped DEF UpdatePut, Row
      <4> QED BY <4>1, <2>a
    <3>2. CASE DeletePut(w)
      BY <3>2, <2>a DEF DeletePut, NoRow
    <3>3. CASE DeleteGet(w) \/ AbortWrite(w) \/ \E p \in Payloads : UpdateGet(w, p)
      <4>1. row' = row
        BY <3>3 DEF DeleteGet, AbortWrite, UpdateGet
      <4> QED BY <4>1, <2>a
    <3> QED BY <2>3, <3>1, <3>2, <3>3 DEF Write
  <2>4. CASE Tick
    BY <2>4, <2>a DEF Tick
  <2> QED BY <2>1, <2>2, <2>3, <2>4 DEF Next
<1> QED BY <1>1, HistoryCorrect, PTL DEF Spec, ViewsSurviveUpdates

-----------------------------------------------------------------------------
(***************************************************************************)
(* Burning at once, where nobody uses a grace period.                      *)
(***************************************************************************)

(* A read that keeps the promise gives content to its reader in two ways   *)
(* only: it takes the row away, or it shows a version that was not written *)
(* to burn at once.                                                        *)
ServesSafely(r) ==
  \/ served' = served
  \/ /\ served[r] = 0 /\ Present
     /\ served' = [served EXCEPT ![r] = row.ver]
     /\ row' = NoRow
  \/ /\ served[r] = 0 /\ row'.ver = row.ver
     /\ \E v \in 1..lastVersion :
          written[v] # "immediate" /\ served' = [served EXCEPT ![r] = v]

LEMMA OnceServes ==
  ASSUME HistoryInv, NoTimers, FlagsTrue, Unserved, NEW r \in Readers, Read(r)
  PROVE  ServesSafely(r)
<1> USE DEF Serve, history, NoTimers, Unserved, ServesSafely
<1>1. CASE ApplyPolicy(r)
  <2>1. CASE served' = [served EXCEPT ![r] = reader[r].note.ver] /\ ~reader[r].note.burn
    <3>1. row' = row /\ served[r] = 0 /\ reader[r].pc = "policy"
      BY <1>1 DEF ApplyPolicy
    <3>2. reader[r].note.ver \in 1..lastVersion
      BY <3>1, BoundsAssumption, HeldTyped
         DEF FlagsTrue, HistoryInv, VersionsWritten, Row, Version, TypeOK
    <3>3. written[reader[r].note.ver] = "plain"
      BY <2>1, <3>1 DEF FlagsTrue, KindOf
    <3> QED BY <2>1, <3>1, <3>2, <3>3
  <2> QED BY <1>1, <2>1 DEF ApplyPolicy
<1>2. CASE Consume(r)
  BY <1>2 DEF Consume, Consumable, Deliver
<1>3. CASE SetBurnExpiry(r) \/ SetBurnExpiryMissed(r) \/ HandleSetExpiryErr(r)
  BY <1>3 DEF SetBurnExpiry, SetBurnExpiryMissed, HandleSetExpiryErr
<1>4. CASE \/ Peek(r) \/ EnforceExpiry(r) \/ ApplyViewIncrement(r) \/ AbortRead(r)
  BY <1>4 DEF Peek, EnforceExpiry, ApplyViewIncrement, AbortRead
<1> QED BY <1>1, <1>2, <1>3, <1>4 DEF Read

(* Where every read serves so, a version that burns reaches one reader and *)
(* is gone.                                                                *)
LEMMA ServedStep ==
  ASSUME HistoryInv, ServedBurnIsGone, ImmediateBurnAtMostOnce, [Next]_vars,
         \A r \in Readers : Read(r) => ServesSafely(r)
  PROVE  ServedBurnIsGone' /\ ImmediateBurnAtMostOnce'
<1> USE DEF ServedBurnIsGone, ImmediateBurnAtMostOnce, HistoryInv, VersionsWritten, TypeOK
<1>a. /\ lastVersion \in 0..MaxVersion
      /\ \A r \in Readers : served[r] \in 0..lastVersion
  BY BoundsAssumption DEF Version
<1>1. ASSUME NEW r \in Readers, Read(r)
      PROVE  ServedBurnIsGone' /\ ImmediateBurnAtMostOnce'
  <2>1. UNCHANGED written /\ (row'.ver = 0 \/ row'.ver = row.ver)
    BY <1>1, ReadFootprint DEF NoRow
  <2>2. CASE served' = served
    BY <2>1, <2>2
  <2>3. CASE /\ Present /\ served' = [served EXCEPT ![r] = row.ver]
             /\ row' = NoRow
    <3>1. row'.ver = 0 /\ row.ver # 0
      BY <2>3 DEF NoRow, Present
    <3> QED BY <2>1, <2>3, <3>1
  <2>4. CASE \E v \in 1..lastVersion :
               written[v] # "immediate" /\ served' = [served EXCEPT ![r] = v]
    BY <2>1, <2>4
  <2> QED BY <1>1, <2>2, <2>3, <2>4 DEF ServesSafely
<1>2. ASSUME NEW kind, Record(kind), UNCHANGED served, row'.ver = lastVersion'
      PROVE  ServedBurnIsGone' /\ ImmediateBurnAtMostOnce'
  <2>1. ASSUME NEW r \in Readers, served[r] # 0
        PROVE  written'[served[r]] = written[served[r]]
    <3>1. served[r] \in 1..MaxVersion /\ served[r] # lastVersion + 1
      BY <2>1, <1>a, BoundsAssumption
    <3> QED BY <1>2, <3>1, RecordSteps
  <2> QED BY <1>2, <1>a, <2>1, RecordSteps
<1>3. ASSUME NEW p \in Creates, Create(p)
      PROVE  ServedBurnIsGone' /\ ImmediateBurnAtMostOnce'
  <2>1. Record(KindOf(p)) /\ UNCHANGED served /\ row'.ver = lastVersion'
    BY <1>3 DEF Create, Record
  <2> QED BY <2>1, <1>2
<1>4. ASSUME NEW w \in Writers, Write(w)
      PROVE  ServedBurnIsGone' /\ ImmediateBurnAtMostOnce'
  <2>1. CASE UpdatePut(w)
    <3>1. /\ Record(KindOf(writer[w].note)) /\ UNCHANGED served
          /\ row'.ver = lastVersion'
      BY <2>1, HeldTyped DEF UpdatePut, Record, Row
    <3> QED BY <3>1, <1>2
  <2>2. CASE DeletePut(w)
    BY <2>2 DEF DeletePut, NoRow, history
  <2>3. CASE DeleteGet(w) \/ AbortWrite(w) \/ \E p \in Payloads : UpdateGet(w, p)
    <3>1. UNCHANGED <<row, served, written>>
      BY <2>3 DEF DeleteGet, AbortWrite, UpdateGet, history
    <3> QED BY <3>1
  <2> QED BY <1>4, <2>1, <2>2, <2>3 DEF Write
<1>5. CASE Tick \/ UNCHANGED vars
  BY <1>5 DEF Tick, vars, history
<1> QED BY <1>1, <1>3, <1>4, <1>5 DEF Next

(* The step is a step of BurnOnce: a Publish is an INSERT or an UPDATE, a  *)
(* Take is a conditional DELETE that a reader won, a Look is the delivery  *)
(* of a version that does not burn, a Remove is any other DELETE.          *)
LEMMA PromiseStep ==
  ASSUME HistoryInv, [Next]_vars, \A r \in Readers : Read(r) => ServesSafely(r)
  PROVE  [Promise!Next]_Promise!vars
<1> DEFINE burning == {v \in 1..MaxVersion : written[v] = "immediate"}
<1>a. TypeOK /\ lastVersion \in 0..MaxVersion
  BY DEF HistoryInv, TypeOK, Version
<1>1. ASSUME NEW kind, Record(kind), UNCHANGED served, row'.ver = lastVersion'
      PROVE  Promise!Next
  <2>1. lastVersion' = lastVersion + 1 /\ lastVersion + 1 \in 1..MaxVersion
    BY <1>1, <1>a, RecordSteps
  <2>2. 1..lastVersion' = (1..lastVersion) \cup {lastVersion + 1}
    BY <2>1, <1>a
  <2>3. burning' \in {burning, burning \cup {lastVersion + 1}}
    <3>1. lastVersion + 1 \notin burning
      BY <2>1, <1>a DEF HistoryInv, VersionsWritten, Unwritten
    <3>2. \A v \in 1..MaxVersion : v # lastVersion + 1 => (v \in burning' <=> v \in burning)
      BY <1>1, <1>a, RecordSteps
    <3>3. CASE written'[lastVersion + 1] = "immediate"
      <4>1. burning' = burning \cup {lastVersion + 1}
        BY <2>1, <3>2, <3>3
      <4> QED BY <4>1
    <3>4. CASE written'[lastVersion + 1] # "immediate"
      <4>1. burning' = burning
        BY <2>1, <3>1, <3>2, <3>4
      <4> QED BY <4>1
    <3> QED BY <3>3, <3>4
  <2>4. PICK v \in 1..MaxVersion : v = lastVersion + 1
    BY <2>1
  <2>5. Promise!Publish(v)
    BY <1>1, <1>a, <2>1, <2>2, <2>3, <2>4 DEF Promise!Publish
  <2> QED BY <2>5 DEF Promise!Next
<1>2. ASSUME UNCHANGED <<lastVersion, written, served>>, row'.ver \in {0, row.ver}
      PROVE  [Promise!Next]_Promise!vars
  <2>1. CASE row'.ver = row.ver
    BY <1>2, <2>1 DEF Promise!vars
  <2>2. CASE row'.ver = 0 /\ row.ver # 0
    BY <1>2, <2>2 DEF Promise!Next, Promise!Remove
  <2> QED BY <1>2, <2>1, <2>2
<1>3. ASSUME NEW p \in Creates, Create(p) PROVE Promise!Next
  <2>1. Record(KindOf(p)) /\ UNCHANGED served /\ row'.ver = lastVersion'
    BY <1>3 DEF Create, Record
  <2> QED BY <2>1, <1>1
<1>4. ASSUME NEW r \in Readers, Read(r) PROVE [Promise!Next]_Promise!vars
  <2>1. UNCHANGED <<lastVersion, written>> /\ row'.ver \in {0, row.ver}
    BY <1>4, <1>a, ReadFootprint DEF NoRow
  <2>2. CASE served' = served
    BY <2>1, <2>2, <1>2
  <2>3. CASE /\ served[r] = 0 /\ Present
             /\ served' = [served EXCEPT ![r] = row.ver]
             /\ row' = NoRow
    <3>1. row'.ver = 0 /\ row.ver # 0
      BY <2>3 DEF NoRow, Present
    <3>2. Promise!Take(r)
      BY <2>1, <2>3, <3>1 DEF Promise!Take
    <3> QED BY <2>3, <3>2 DEF Promise!Next
  <2>4. CASE /\ served[r] = 0 /\ row'.ver = row.ver
             /\ \E v \in 1..lastVersion :
                  written[v] # "immediate" /\ served' = [served EXCEPT ![r] = v]
    <3>1. PICK v \in 1..lastVersion :
            written[v] # "immediate" /\ served' = [served EXCEPT ![r] = v]
      BY <2>4
    <3>2. v \in 1..MaxVersion /\ v \in (1..lastVersion) \ burning
      BY <3>1, <1>a, BoundsAssumption
    <3>3. Promise!Look(r, v)
      BY <2>1, <2>4, <3>1, <3>2 DEF Promise!Look
    <3> QED BY <2>4, <3>2, <3>3 DEF Promise!Next
  <2> QED BY <1>4, <2>2, <2>3, <2>4 DEF ServesSafely
<1>5. ASSUME NEW w \in Writers, Write(w) PROVE [Promise!Next]_Promise!vars
  <2>1. CASE UpdatePut(w)
    <3>1. /\ Record(KindOf(writer[w].note)) /\ UNCHANGED served
          /\ row'.ver = lastVersion'
      BY <2>1, <1>a, HeldTyped DEF UpdatePut, Record, Row
    <3> QED BY <3>1, <1>1
  <2>2. CASE DeletePut(w)
    BY <2>2, <1>2 DEF DeletePut, NoRow, history
  <2>3. CASE DeleteGet(w) \/ AbortWrite(w) \/ \E p \in Payloads : UpdateGet(w, p)
    BY <2>3, <1>2 DEF DeleteGet, AbortWrite, UpdateGet, history
  <2> QED BY <1>5, <2>1, <2>2, <2>3 DEF Write
<1>6. CASE Tick \/ UNCHANGED vars
  BY <1>6, <1>2 DEF Tick, vars, history
<1> QED BY <1>3, <1>4, <1>5, <1>6 DEF Next

(* A request that is still on its way to the content has got none.         *)
LEMMA UnservedKept ==
  ASSUME TypeOK, Unserved, [Next]_vars
  PROVE  Unserved'
<1> USE DEF Unserved, TypeOK
<1>1. ASSUME NEW r \in Readers, Read(r) PROVE Unserved'
  <2>1. reader'[r].pc \notin {"count", "done"} => served'[r] = served[r]
    <3> USE DEF ReaderGoes, ReaderHolds, ReadRequest, Serve, history
    <3>1. CASE Peek(r) \/ EnforceExpiry(r) \/ SetBurnExpiryMissed(r)
               \/ ApplyViewIncrement(r) \/ AbortRead(r)
      BY <3>1 DEF Peek, EnforceExpiry, SetBurnExpiryMissed, ApplyViewIncrement, AbortRead
    <3>2. CASE ApplyPolicy(r)
      BY <3>2 DEF ApplyPolicy
    <3>3. CASE SetBurnExpiry(r) \/ HandleSetExpiryErr(r)
      BY <3>3 DEF SetBurnExpiry, HandleSetExpiryErr, Deliver
    <3>4. CASE Consume(r)
      <4>1. CASE \E pc \in {"done", "count"} :
              ReaderGoes(r, pc) \/ ReaderHolds(r, pc, row)
        BY <4>1
      <4>2. CASE served' = served
        BY <4>2
      <4> QED BY <3>4, <4>1, <4>2 DEF Consume, Deliver
    <3> QED BY <1>1, <3>1, <3>2, <3>3, <3>4 DEF Read
  <2>2. reader'[r].pc \notin {"count", "done"} => reader[r].pc \notin {"count", "done"}
    <3> USE DEF ReaderGoes, ReaderHolds, ReadRequest, history
    <3>1. CASE ApplyViewIncrement(r)
      BY <3>1 DEF ApplyViewIncrement
    <3>2. CASE ~ApplyViewIncrement(r)
      BY <1>1, <3>2 DEF Read, Peek, ApplyPolicy, EnforceExpiry, SetBurnExpiry,
         SetBurnExpiryMissed, HandleSetExpiryErr, Consume, AbortRead
    <3> QED BY <3>1, <3>2
  <2> QED BY <1>1, <2>1, <2>2, ReadFootprint
<1>2. CASE UNCHANGED <<reader, served>>
  BY <1>2
<1>3. ASSUME NEW w \in Writers, Write(w) PROVE UNCHANGED <<reader, served>>
  BY <1>3 DEF Write, UpdateGet, UpdatePut, DeleteGet, DeletePut, AbortWrite, history
<1>4. CASE Tick \/ UNCHANGED vars
  BY <1>4 DEF Tick, vars, history
<1>5. ASSUME NEW p \in Creates, Create(p) PROVE UNCHANGED <<reader, served>>
  BY <1>5 DEF Create
<1> QED BY <1>1, <1>2, <1>3, <1>4, <1>5 DEF Next

(* Without grace periods no read ever reaches the timer statements.        *)
LEMMA NoTimersKept ==
  ASSUME NoGracePeriods, TypeOK, NoTimers, [Next]_vars
  PROVE  NoTimers'
<1> USE DEF NoTimers, TypeOK
<1>1. ASSUME NEW p \in Creates, Create(p) PROVE NoTimers'
  BY <1>1 DEF Create, NoGracePeriods
<1>2. ASSUME NEW r \in Readers, Read(r) PROVE NoTimers'
  <2>1. row'.ttl = 0
    <3>1. CASE Consume(r) \/ EnforceExpiry(r)
      BY <3>1 DEF Consume, EnforceExpiry, NoRow
    <3>2. CASE ApplyViewIncrement(r)
      BY <3>2 DEF ApplyViewIncrement, Row
    <3>3. CASE SetBurnExpiry(r)
      BY <3>3 DEF SetBurnExpiry
    <3>4. CASE \/ Peek(r) \/ ApplyPolicy(r) \/ SetBurnExpiryMissed(r)
               \/ HandleSetExpiryErr(r) \/ AbortRead(r)
      BY <3>4 DEF Peek, ApplyPolicy, SetBurnExpiryMissed, HandleSetExpiryErr, AbortRead
    <3> QED BY <1>2, <3>1, <3>2, <3>3, <3>4 DEF Read
  <2>2. reader'[r].note.ttl = 0 /\ reader'[r].pc \notin {"timer", "refetch"}
    <3> USE DEF ReaderGoes, ReaderHolds, ReadRequest
    <3>0. CASE Peek(r)
      <4>1. \E pc \in {"policy", "done"} : ReaderHolds(r, pc, row)
        BY <3>0 DEF Peek
      <4> QED BY <4>1
    <3>1. CASE EnforceExpiry(r) \/ ApplyViewIncrement(r) \/ AbortRead(r)
      BY <3>1 DEF EnforceExpiry, ApplyViewIncrement, AbortRead
    <3>2. CASE ApplyPolicy(r)
      <4>1. \E pc \in {"expire", "consume", "count"} : ReaderGoes(r, pc)
        BY <3>2, HeldTyped DEF ApplyPolicy
      <4> QED BY <4>1
    <3>3. CASE Consume(r)
      BY <3>3 DEF Consume, Deliver
    <3>4. CASE SetBurnExpiry(r) \/ SetBurnExpiryMissed(r) \/ HandleSetExpiryErr(r)
      BY <3>4 DEF SetBurnExpiry, SetBurnExpiryMissed, HandleSetExpiryErr
    <3> QED BY <1>2, <3>0, <3>1, <3>2, <3>3, <3>4 DEF Read
  <2> QED BY <1>2, <2>1, <2>2, ReadFootprint
<1>3. ASSUME NEW w \in Writers, Write(w) PROVE NoTimers'
  <2> USE DEF WriterGoes, WriteRequest, history
  <2>1. ASSUME NEW p \in Payloads, UpdateGet(w, p) PROVE NoTimers'
    <3>1. p.ttl = 0
      BY DEF NoGracePeriods
    <3> QED BY <2>1, <3>1 DEF UpdateGet, Row
  <2>2. CASE UpdatePut(w)
    BY <2>2 DEF UpdatePut, Row
  <2>3. CASE DeleteGet(w) \/ AbortWrite(w)
    BY <2>3 DEF DeleteGet, AbortWrite
  <2>4. CASE DeletePut(w)
    BY <2>4 DEF DeletePut, NoRow
  <2> QED BY <1>3, <2>1, <2>2, <2>3, <2>4 DEF Write
<1>4. CASE Tick
  BY <1>4 DEF Tick, history
<1>5. CASE UNCHANGED vars
  BY <1>5 DEF vars
<1> QED BY <1>1, <1>2, <1>3, <1>4, <1>5 DEF Next

(* The snapshot a read takes says how its version was written.             *)
LEMMA FlagsTrueKept ==
  ASSUME NoGracePeriods, HistoryInv, HistoryInv', NoTimers, FlagsTrue, [Next]_vars
  PROVE  FlagsTrue'
<1> USE DEF FlagsTrue, HistoryInv, VersionsWritten, Present
<1>a. /\ row.ver \in 0..lastVersion /\ lastVersion \in 0..MaxVersion
      /\ \A r \in Readers : reader[r].note.ver \in 0..lastVersion
  <2>1. row.ver \in Nat /\ lastVersion \in 0..MaxVersion
    BY DEF TypeOK, Row, Version
  <2>2. ASSUME NEW r \in Readers PROVE reader[r].note.ver \in Nat
    BY HeldTyped DEF Row, Version
  <2> QED BY <2>1, <2>2, BoundsAssumption
<1>1. ASSUME NEW kind, Record(kind), UNCHANGED reader,
             row'.ver = lastVersion', kind = KindOf(row')
      PROVE  FlagsTrue'
  <2>1. \A r \in Readers : reader[r].pc = "policy" =>
          written'[reader[r].note.ver] = written[reader[r].note.ver]
    BY <1>1, <1>a, RecordSteps, BoundsAssumption
  <2> QED BY <1>1, <2>1, RecordSteps
<1>2. ASSUME NEW p \in Creates, Create(p) PROVE FlagsTrue'
  <2>1. Record(KindOf(p)) /\ UNCHANGED reader /\ row'.ver = lastVersion' /\ KindOf(p) = KindOf(row')
    BY <1>2 DEF Create, Record, KindOf
  <2> QED BY <2>1, <1>1
<1>3. ASSUME NEW r \in Readers, Read(r) PROVE FlagsTrue'
  <2>1. row'.ver # 0 => row'.ver = row.ver /\ KindOf(row') = KindOf(row)
    <3>1. CASE Consume(r) \/ EnforceExpiry(r)
      BY <3>1 DEF Consume, EnforceExpiry, NoRow
    <3>2. CASE ApplyViewIncrement(r)
      BY <3>2 DEF ApplyViewIncrement, Row, TypeOK, KindOf
    <3>3. CASE SetBurnExpiry(r)
      BY <3>3 DEF SetBurnExpiry, NoTimers
    <3>4. CASE \/ Peek(r) \/ ApplyPolicy(r) \/ SetBurnExpiryMissed(r)
               \/ HandleSetExpiryErr(r) \/ AbortRead(r)
      BY <3>4 DEF Peek, ApplyPolicy, SetBurnExpiryMissed, HandleSetExpiryErr, AbortRead
    <3> QED BY <1>3, <3>1, <3>2, <3>3, <3>4 DEF Read
  <2>2. reader'[r].pc = "policy" => row.ver # 0 /\ reader'[r].note = row
    <3> USE DEF ReaderGoes, ReaderHolds, ReadRequest, TypeOK
    <3>1. CASE Peek(r)
      <4>1. ReaderHolds(r, IF Present THEN "policy" ELSE "done", row)
        BY <3>1 DEF Peek
      <4>2. CASE Present
        BY <4>1, <4>2
      <4>3. CASE ~Present
        <5>1. ReaderHolds(r, "done", row)
          BY <4>1, <4>3
        <5> QED BY <5>1
      <4> QED BY <4>2, <4>3
    <3>2. CASE \/ EnforceExpiry(r) \/ ApplyViewIncrement(r) \/ AbortRead(r)
               \/ SetBurnExpiry(r) \/ SetBurnExpiryMissed(r) \/ HandleSetExpiryErr(r)
      BY <3>2 DEF EnforceExpiry, ApplyViewIncrement, AbortRead, NoTimers,
                  SetBurnExpiry, SetBurnExpiryMissed, HandleSetExpiryErr
    <3>3. CASE ApplyPolicy(r)
      <4>1. \E pc \in {"expire", "consume", "count"} : ReaderGoes(r, pc)
        BY <3>3, HeldTyped DEF ApplyPolicy, NoTimers
      <4> QED BY <4>1
    <3>4. CASE Consume(r)
      <4>1. \E pc \in {"done", "count"} :
              ReaderGoes(r, pc) \/ ReaderHolds(r, pc, row)
        BY <3>4 DEF Consume, Deliver
      <4> QED BY <4>1
    <3> QED BY <1>3, <3>1, <3>2, <3>3, <3>4 DEF Read
  <2> QED BY <1>3, <2>1, <2>2, ReadFootprint
<1>4. ASSUME NEW w \in Writers, Write(w) PROVE FlagsTrue'
  <2>1. CASE UpdatePut(w)
    <3>1. /\ Record(KindOf(writer[w].note)) /\ UNCHANGED reader /\ row'.ver = lastVersion'
          /\ KindOf(writer[w].note) = KindOf(row')
      BY <2>1, HeldTyped DEF UpdatePut, Record, KindOf, Row
    <3> QED BY <3>1, <1>1
  <2>2. CASE DeletePut(w)
    BY <2>2 DEF DeletePut, NoRow, history
  <2>3. CASE DeleteGet(w) \/ AbortWrite(w) \/ \E p \in Payloads : UpdateGet(w, p)
    BY <2>3 DEF DeleteGet, AbortWrite, UpdateGet, history
  <2> QED BY <1>4, <2>1, <2>2, <2>3 DEF Write
<1>5. CASE Tick
  BY <1>5 DEF Tick, history
<1>6. CASE UNCHANGED vars
  BY <1>6 DEF vars
<1> QED BY <1>2, <1>3, <1>4, <1>5, <1>6 DEF Next

(* What holds throughout, where nobody uses a grace period: the argument   *)
(* behind the three theorems that follow.                                  *)
LEMMA OnceInvariant ==
  ASSUME NoGracePeriods
  PROVE  Spec => []OnceInv
<1> DEFINE Others == /\ NoTimers /\ FlagsTrue /\ Unserved
                     /\ ServedBurnIsGone /\ ImmediateBurnAtMostOnce
<1>1. Init => Others
  BY DEF Init, NoTimers, FlagsTrue, Unserved, ServedBurnIsGone,
         ImmediateBurnAtMostOnce, NoRow, Present
<1>2. HistoryInv /\ HistoryInv' /\ Others /\ [Next]_vars => Others'
  <2> SUFFICES ASSUME HistoryInv, HistoryInv', Others, [Next]_vars PROVE Others'
    OBVIOUS
  <2>1. NoTimers'
    BY NoTimersKept DEF HistoryInv
  <2>2. FlagsTrue'
    BY FlagsTrueKept
  <2>3. Unserved'
    BY UnservedKept DEF HistoryInv
  <2>4. ServedBurnIsGone' /\ ImmediateBurnAtMostOnce'
    BY OnceServes, ServedStep
  <2> QED BY <2>1, <2>2, <2>3, <2>4
<1>3. OnceInv <=> HistoryInv /\ Others
  BY DEF OnceInv
<1> QED BY <1>1, <1>2, <1>3, HistoryCorrect, PTL DEF Spec

(* No two readers ever get the same version of a note that burns on its    *)
(* first read, however many read, update, delete and re-create it at once, *)
(* provided that no request uses a grace period.                           *)
THEOREM BurnOnceForAll ==
  ASSUME NoGracePeriods
  PROVE  Spec => []ImmediateBurnAtMostOnce
<1>1. OnceInv => ImmediateBurnAtMostOnce
  BY DEF OnceInv
<1> QED BY <1>1, OnceInvariant, PTL

(* Nor does the store ever hold such a version again.                      *)
THEOREM BurnedForGood ==
  ASSUME NoGracePeriods
  PROVE  Spec => []ServedBurnIsGone
<1>1. OnceInv => ServedBurnIsGone
  BY DEF OnceInv
<1> QED BY <1>1, OnceInvariant, PTL

(* Under the same proviso the row, its statements and the requests that    *)
(* issue them implement BurnOnce: a Publish is an INSERT or an UPDATE, a   *)
(* Take is a conditional DELETE that a reader won, a Look is the delivery  *)
(* of a snapshot that does not burn, a Remove is any other DELETE.         *)
THEOREM ImplementsBurnOnce ==
  ASSUME NoGracePeriods
  PROVE  Spec => KeepsPromise
<1>1. Init => Promise!Init
  BY BoundsAssumption DEF Init, Promise!Init, NoRow, Unwritten
<1>2. OnceInv /\ [Next]_vars => [Promise!Next]_Promise!vars
  BY OnceServes, PromiseStep DEF OnceInv
<1> QED BY <1>1, <1>2, OnceInvariant, PTL DEF Spec, KeepsPromise, Promise!Spec

-----------------------------------------------------------------------------
(***************************************************************************)
(* The grace period, of a note that nobody arms again: no update makes it  *)
(* burn, and its slug is not taken again.  Otherwise a loser of the timer  *)
(* race may be served a note whose timer was never started.                *)
(***************************************************************************)
NeverRearmed == ~ReuseSlug /\ \A p \in Payloads : ~p.burn

(* A row or a snapshot without the flag has a running timer, and the loser *)
(* of the race refetches such a row.                                       *)
TimerInv ==
  /\ \A w \in Writers : writer[w].pc = "update" => ~writer[w].note.burn
  /\ Present /\ written[row.ver] = "grace" /\ ~row.burn => row.expiresAt # Never
  /\ \A r \in Readers :
       /\ reader[r].pc = "timer" => reader[r].deadline # 0
       /\ reader[r].pc = "refetch" => ~(Present /\ row.burn)
       /\ reader[r].pc \notin {"idle", "done"} => reader[r].note.ver # 0
       /\ Present /\ reader[r].note.ver = row.ver /\ ~reader[r].note.burn => ~row.burn

LEMMA VersionTypes ==
  ASSUME HistoryInv
  PROVE  /\ row \in Row /\ row.ver \in Nat /\ lastVersion \in Nat /\ lastVersion <= MaxVersion
         /\ \A r \in Readers : /\ reader[r] \in ReadRequest /\ reader[r].note \in Row
                               /\ reader[r].note.ver \in Nat /\ served[r] \in Nat
         /\ \A w \in Writers : writer[w] \in WriteRequest /\ writer[w].note \in Row
  BY HeldTyped, BoundsAssumption DEF HistoryInv, TypeOK, Row, Version

(* The row keeps its version, and its timer if it runs, or it goes, or a   *)
(* new version that does not burn takes its place, or a first one comes.   *)
LEMMA RowChanges ==
  ASSUME NeverRearmed, HistoryInv, TimerInv, Next
  PROVE  \/ row' = NoRow /\ UNCHANGED <<lastVersion, written>>
         \/ /\ row'.ver = row.ver /\ UNCHANGED <<lastVersion, written>>
            /\ Present /\ ~row.burn => ~row'.burn /\ row'.expiresAt = row.expiresAt
            /\ Present /\ row.burn => row'.burn \/ row'.expiresAt # Never
         \/ /\ row'.ver = lastVersion + 1 /\ lastVersion' = lastVersion + 1 /\ lastVersion < MaxVersion
            /\ \A v \in 1..MaxVersion : v # lastVersion + 1 => written'[v] = written[v]
            /\ UNCHANGED <<reader, served>>
            /\ \/ ~row'.burn /\ written'[row'.ver] # "grace"
               \/ row'.burn /\ lastVersion = 0
<1>1. ASSUME NEW p \in Creates, Create(p)
      PROVE  /\ row'.ver = lastVersion + 1 /\ lastVersion' = lastVersion + 1 /\ lastVersion < MaxVersion
             /\ \A v \in 1..MaxVersion : v # lastVersion + 1 => written'[v] = written[v]
             /\ UNCHANGED <<reader, served>> /\ lastVersion = 0
             /\ row'.burn = p.burn /\ written'[row'.ver] = KindOf(p)
  BY <1>1, RecordSteps DEF Create, Record, NeverRearmed, HistoryInv
<1>2. ASSUME NEW w \in Writers, UpdatePut(w)
      PROVE  /\ row'.ver = lastVersion + 1 /\ lastVersion' = lastVersion + 1 /\ lastVersion < MaxVersion
             /\ \A v \in 1..MaxVersion : v # lastVersion + 1 => written'[v] = written[v]
             /\ UNCHANGED <<reader, served>>
             /\ ~row'.burn /\ written'[row'.ver] = "plain"
  <2>1. ~writer[w].note.burn /\ writer[w].note \in Row /\ Record("plain")
    BY <1>2, VersionTypes DEF UpdatePut, TimerInv, KindOf
  <2>2. row'.ver = lastVersion + 1 /\ row'.burn = writer[w].note.burn
    BY <1>2, <2>1 DEF UpdatePut, Row
  <2> QED BY <1>2, <2>1, <2>2, RecordSteps DEF UpdatePut, Record, HistoryInv
<1>3. ASSUME UNCHANGED <<lastVersion, written>>, row' = NoRow \/ row' = row
      PROVE  \/ row' = NoRow /\ UNCHANGED <<lastVersion, written>>
             \/ /\ row'.ver = row.ver /\ UNCHANGED <<lastVersion, written>>
                /\ Present /\ ~row.burn => ~row'.burn /\ row'.expiresAt = row.expiresAt
                /\ Present /\ row.burn => row'.burn \/ row'.expiresAt # Never
  BY <1>3
<1>4. ASSUME NEW r \in Readers, SetBurnExpiry(r)
      PROVE  row'.ver = row.ver /\ UNCHANGED <<lastVersion, written>> /\ row'.expiresAt # Never /\ row.burn
  <2>1. row \in Row /\ reader[r].deadline # 0
    BY <1>4, VersionTypes DEF SetBurnExpiry, TimerInv
  <2> QED BY <1>4, <2>1 DEF SetBurnExpiry, TimerEligible, TimerStarted, Row, Never
<1>5. ASSUME NEW r \in Readers, ApplyViewIncrement(r)
      PROVE  /\ row'.ver = row.ver /\ UNCHANGED <<lastVersion, written>>
             /\ row'.burn = row.burn /\ row'.expiresAt = row.expiresAt
  BY <1>5, VersionTypes DEF ApplyViewIncrement, Row, history
<1>6. CASE \E p \in Creates : Create(p)
  <2>1. PICK p \in Creates : Create(p)
    BY <1>6
  <2>2. p.burn \in BOOLEAN
    BY SettingsAssumption DEF CreateSettings, Settings
  <2> QED BY <1>1, <2>1, <2>2 DEF KindOf
<1>7. CASE \E r \in Readers : Read(r)
  BY <1>3, <1>4, <1>5, <1>7 DEF Read, Peek, ApplyPolicy, EnforceExpiry, SetBurnExpiryMissed,
     HandleSetExpiryErr, Consume, AbortRead, history
<1>8. CASE \E w \in Writers : Write(w)
  BY <1>2, <1>3, <1>8 DEF Write, UpdateGet, DeleteGet, DeletePut, AbortWrite, history
<1>9. CASE Tick
  BY <1>3, <1>9 DEF Tick, history
<1> QED BY <1>6, <1>7, <1>8, <1>9 DEF Next

(* What holds of a reader that has not moved. *)
Timely(r) ==
  /\ reader[r].pc = "timer" => reader[r].deadline # 0
  /\ reader[r].pc = "refetch" => ~(Present /\ row.burn)
  /\ reader[r].pc \notin {"idle", "done"} => reader[r].note.ver # 0
  /\ Present /\ reader[r].note.ver = row.ver /\ ~reader[r].note.burn => ~row.burn
Graced(r) ==
  served[r] # 0 /\ served[r] = row.ver /\ written[row.ver] = "grace" => ~row.burn /\ row.expiresAt # Never

LEMMA Waiting ==
  ASSUME NeverRearmed, HistoryInv, TimerInv, GraceReadStartsTimer, Next, NEW r \in Readers
  PROVE  /\ reader'[r] = reader[r] => Timely(r)'
         /\ served'[r] = served[r] => Graced(r)'
<1>0. /\ reader[r].note.ver <= lastVersion /\ served[r] <= lastVersion /\ row.ver <= lastVersion
      /\ NoRow.ver = 0 /\ Timely(r) /\ Graced(r)
  BY DEF HistoryInv, VersionsWritten, NoRow, TimerInv, Timely, GraceReadStartsTimer, Graced
<1>1. reader'[r] = reader[r] => Timely(r)'
  BY <1>0, RowChanges, VersionTypes DEF Timely, Present
<1>2. served'[r] = served[r] => Graced(r)'
  BY <1>0, RowChanges, VersionTypes DEF Graced, Present
<1> QED BY <1>1, <1>2

LEMMA Moving ==
  ASSUME NeverRearmed, HistoryInv, TimerInv, GraceReadStartsTimer, Next, NEW r \in Readers, Read(r)
  PROVE  Timely(r)' /\ Graced(r)'
<1> DEFINE note == reader[r].note
<1>0. /\ reader \in [Readers -> ReadRequest] /\ served \in [Readers -> Version]
      /\ reader[r] \in ReadRequest /\ row \in Row /\ note \in Row /\ now \in Nat
  BY VersionTypes DEF HistoryInv, TypeOK
<1>1. UNCHANGED <<lastVersion, written>>
  BY ReadFootprint DEF HistoryInv
<1>2. /\ \A pc : ReaderGoes(r, pc) =>
           reader'[r].pc = pc /\ reader'[r].note = note /\ reader'[r].deadline = reader[r].deadline
      /\ \A pc, n : ReaderHolds(r, pc, n) => reader'[r].pc = pc /\ reader'[r].note = n
      /\ \A n : Serve(r, n) => served'[r] = n.ver
  BY <1>0 DEF ReaderGoes, ReaderHolds, Serve, ReadRequest
<1>3. Timely(r) /\ Graced(r)
  BY DEF TimerInv, Timely, GraceReadStartsTimer, Graced
<1>4. CASE Peek(r)
  <2>1. UNCHANGED <<row, served>> /\ reader'[r].note = row /\ reader'[r].pc = (IF Present THEN "policy" ELSE "done")
    BY <1>2, <1>4 DEF Peek, history
  <2> QED BY <1>1, <1>3, <2>1 DEF Timely, Graced, Present
<1>5. CASE ApplyPolicy(r)
  <2>1. UNCHANGED row /\ reader[r].pc = "policy" /\ note.ver # 0
    BY <1>5 DEF ApplyPolicy, TimerInv
  <2>2. CASE reader' = [reader EXCEPT ![r].pc = "timer", ![r].deadline = now + note.ttl]
             /\ note.ttl > 0 /\ UNCHANGED served
    <3>1. reader'[r].pc = "timer" /\ reader'[r].note = note /\ reader'[r].deadline = now + note.ttl
      BY <1>0, <2>2 DEF ReadRequest
    <3>2. note.ttl \in Nat
      BY <1>0 DEF Row
    <3> QED BY <1>0, <1>1, <1>3, <2>1, <2>2, <3>1, <3>2 DEF Timely, Graced, Present
  <2>3. CASE (ReaderGoes(r, "expire") \/ ReaderGoes(r, "consume")) /\ UNCHANGED served
    BY <1>1, <1>2, <1>3, <2>1, <2>3 DEF Timely, Graced, Present
  <2>4. CASE ReaderGoes(r, "count") /\ Serve(r, note) /\ ~note.burn
    <3>1. served'[r] = note.ver /\ reader'[r].pc = "count" /\ reader'[r].note = note
      BY <1>2, <2>4
    <3>2. Present /\ note.ver = row.ver => ~row.burn
      BY <2>4, <1>3 DEF Timely
    <3>3. Graced(r)'
      BY <1>1, <2>1, <3>1, <3>2 DEF Graced, Present, TimerInv
    <3>4. Timely(r)'
      BY <2>1, <3>1, <3>2 DEF Timely, Present
    <3> QED BY <3>3, <3>4
  <2> QED BY <1>5, <2>2, <2>3, <2>4 DEF ApplyPolicy
<1>6. CASE EnforceExpiry(r) \/ ApplyViewIncrement(r) \/ AbortRead(r)
  <2>1. UNCHANGED served /\ reader'[r].pc = "done" /\ reader'[r].note = note
    BY <1>2, <1>6 DEF EnforceExpiry, ApplyViewIncrement, AbortRead, history
  <2>2. \/ row' = NoRow
        \/ row'.ver = row.ver /\ row'.burn = row.burn
    BY <1>0, <1>6 DEF EnforceExpiry, ApplyViewIncrement, AbortRead, Row
  <2>3. NoRow.ver = 0
    BY DEF NoRow
  <2> QED BY <1>3, <2>1, <2>2, <2>3, Waiting DEF Timely, Present
<1>7. CASE SetBurnExpiry(r)
  <2>1. row' = TimerStarted(row, reader[r].deadline) /\ reader[r].deadline # 0 /\ reader[r].pc = "timer"
    BY <1>7, <1>3 DEF SetBurnExpiry, Timely
  <2>2. ~row'.burn /\ row'.expiresAt # Never
    BY <1>0, <2>1 DEF TimerStarted, Row, Never
  <2>3. row'.ver # 0
    BY <1>0, <1>7, <2>1 DEF SetBurnExpiry, TimerEligible, Present, TimerStarted, Row
  <2>4. \/ reader'[r].pc = "count" /\ reader'[r].note = row'
        \/ reader'[r].pc = "done"
    BY <1>2, <1>7 DEF SetBurnExpiry, Deliver
  <2> QED BY <2>2, <2>3, <2>4 DEF Timely, Graced
<1>8. CASE SetBurnExpiryMissed(r)
  <2>1. UNCHANGED <<row, served>> /\ ~(Present /\ row.burn) /\ reader[r].pc = "timer"
        /\ reader'[r].pc = "refetch" /\ reader'[r].note = note
    BY <1>2, <1>8 DEF SetBurnExpiryMissed, history, TimerEligible
  <2> QED BY <1>1, <1>3, <2>1 DEF Timely, Graced, Present
<1>9. CASE HandleSetExpiryErr(r)
  <2>1. UNCHANGED row /\ ~(Present /\ row.burn) /\ reader[r].pc = "refetch"
    BY <1>9, <1>3 DEF HandleSetExpiryErr, Timely
  <2>2. \/ reader'[r].pc = "done" /\ UNCHANGED served
        \/ reader'[r].pc = "count" /\ Present /\ reader'[r].note = row /\ served'[r] = row.ver
    BY <1>2, <1>9, <2>1 DEF HandleSetExpiryErr, Deliver
  <2> QED BY <1>1, <1>3, <2>1, <2>2 DEF Timely, Graced, Present, TimerInv
<1>10. CASE Consume(r)
  <2>1. CASE Consumable
    <3>1. row'.ver = 0 /\ reader'[r].pc \in {"done", "count"} /\ Present
      BY <1>2, <1>10, <2>1 DEF Consume, Deliver, Consumable, NoRow
    <3>2. reader'[r].note.ver # 0
      BY <1>2, <1>3, <1>10, <2>1 DEF Consume, Deliver, Consumable, Present, Timely
    <3> QED BY <3>1, <3>2 DEF Timely, Graced, Present
  <2>2. CASE ~Consumable
    <3>1. UNCHANGED <<row, served>> /\ reader'[r].pc = "done" /\ reader'[r].note = note
      BY <1>2, <1>10, <2>2 DEF Consume
    <3> QED BY <1>1, <1>3, <3>1 DEF Timely, Graced, Present
  <2> QED BY <2>1, <2>2
<1> QED BY <1>4, <1>5, <1>6, <1>7, <1>8, <1>9, <1>10 DEF Read

LEMMA TimerStep ==
  ASSUME NeverRearmed, HistoryInv, TimerInv, GraceReadStartsTimer, [Next]_vars
  PROVE  TimerInv' /\ GraceReadStartsTimer'
<1>1. CASE UNCHANGED vars
  BY <1>1 DEF vars, TimerInv, GraceReadStartsTimer, Present
<1>2. CASE Next
  <2>1. \A r \in Readers : Timely(r)' /\ Graced(r)'
    <3>1. ASSUME NEW q \in Readers, Read(q) PROVE \A r \in Readers : Timely(r)' /\ Graced(r)'
      BY <1>2, <3>1, Waiting, Moving, ReadFootprint DEF HistoryInv
    <3>2. CASE UNCHANGED <<reader, served>>
      BY <1>2, <3>2, Waiting
    <3> QED BY <1>2, <3>1, <3>2 DEF Next, Create, Write, UpdateGet, UpdatePut, DeleteGet, DeletePut,
          AbortWrite, Tick, history
  <2>2. \A w \in Writers : writer'[w].pc = "update" => ~writer'[w].note.burn
    <3>1. ASSUME NEW v \in Writers, NEW p \in Payloads, UpdateGet(v, p)
          PROVE  \A w \in Writers : writer'[w].pc = "update" => ~writer'[w].note.burn
      <4> DEFINE note == [row EXCEPT !.burn = p.burn, !.ttl = p.ttl,
                             !.expiresAt = ResolveExpiry(p, row), !.privacy = Backfill(p, row)]
                 new == [pc |-> "update", note |-> note, omitted |-> p.privacy = Omitted]
      <4>1. ~note.burn
        BY VersionTypes DEF NeverRearmed, Row
      <4>2. new.note = note /\ writer' = [writer EXCEPT ![v] = new]
        BY <3>1 DEF UpdateGet
      <4> HIDE DEF new, note
      <4> QED BY <4>1, <4>2 DEF TimerInv, HistoryInv, TypeOK
    <3>2. ASSUME NEW v \in Writers, NEW pc \in {"delete", "done"}, writer' = [writer EXCEPT ![v].pc = pc]
                                     \/ writer' = [writer EXCEPT ![v].pc = pc, ![v].note = row]
          PROVE  \A w \in Writers : writer'[w].pc = "update" => ~writer'[w].note.burn
      <4>1. writer \in [Writers -> WriteRequest]
        BY DEF HistoryInv, TypeOK
      <4>2. writer'[v].pc = pc /\ \A w \in Writers \ {v} : writer'[w] = writer[w]
        BY <3>2, <4>1 DEF WriteRequest
      <4> QED BY <4>2 DEF TimerInv
    <3>3. CASE UNCHANGED writer
      BY <3>3 DEF TimerInv
    <3>4. CASE \E w \in Writers : Write(w)
      BY <3>1, <3>2, <3>4 DEF Write, UpdatePut, DeleteGet, DeletePut, AbortWrite, WriterGoes
    <3>5. CASE \E r \in Readers : Read(r)
      BY <3>3, <3>5, ReadFootprint DEF HistoryInv
    <3> QED BY <1>2, <3>3, <3>4, <3>5 DEF Next, Create, Tick
  <2>3. Present' /\ written'[row'.ver] = "grace" /\ ~row'.burn => row'.expiresAt # Never
    <3>1. NoRow.ver = 0 /\ row.ver <= lastVersion
      BY DEF NoRow, HistoryInv, VersionsWritten
    <3> QED BY <1>2, <3>1, RowChanges, VersionTypes DEF TimerInv, Present
  <2> QED BY <2>1, <2>2, <2>3 DEF TimerInv, Timely, GraceReadStartsTimer, Graced
<1> QED BY <1>1, <1>2

(* A grace period never gives its content away without a timer, unless the *)
(* note is armed again.                                                    *)
THEOREM GraceTimed ==
  ASSUME NeverRearmed
  PROVE  Spec => []GraceReadStartsTimer
<1> DEFINE Timed == TimerInv /\ GraceReadStartsTimer
<1>1. Init => Timed
  BY DEF Init, TimerInv, GraceReadStartsTimer, Present, NoRow
<1>2. HistoryInv /\ Timed /\ [Next]_vars => Timed'
  BY TimerStep
<1> QED BY <1>1, <1>2, HistoryCorrect, PTL DEF Spec

-----------------------------------------------------------------------------
(***************************************************************************)
(* Burning at once, where grace periods are used but only the POST can ask *)
(* for burning at once: no update does, and the slug is not taken again.   *)
(* This is what is left of the promise when the timer race is possible.    *)
(***************************************************************************)
OnlyCreatesBurn == ~ReuseSlug /\ \A p \in Payloads : p.burn => p.ttl > 0

AtOnce(note) == note.burn /\ note.ttl = 0

(* What a reader holds is no newer than the row, and nobody is on the way  *)
(* to the timer or back from it with a version that burns at once.         *)
Snapshot(r) ==
  LET note == reader[r].note IN
  /\ reader[r].pc = "policy" => note.ver # 0 /\ (written[note.ver] = "immediate" <=> AtOnce(note))
  /\ reader[r].pc \in {"timer", "refetch"} => note.ver # 0 /\ written[note.ver] # "immediate"
  /\ Present => note.ver <= row.ver

FirstInv ==
  /\ \A v \in 1..MaxVersion : written[v] = "immediate" => v = 1
  /\ Present => (written[row.ver] = "immediate" <=> AtOnce(row))
  /\ \A w \in Writers : writer[w].pc = "update" /\ writer[w].note.burn => writer[w].note.ttl > 0
  /\ \A r \in Readers : Snapshot(r)

(* A reader at the timer is not one of the first version, if that burns at *)
(* once; and no later version does.                                        *)
LEMMA TimerNotAtOnce ==
  ASSUME HistoryInv, FirstInv, NEW r \in Readers, reader[r].pc \in {"timer", "refetch"}, Present
  PROVE  written[row.ver] # "immediate" /\ ~AtOnce(row)
<1>1. /\ reader[r].note.ver \in 1..MaxVersion /\ row.ver \in 1..MaxVersion
      /\ reader[r].note.ver <= row.ver /\ written[reader[r].note.ver] # "immediate"
  BY VersionTypes, BoundsAssumption DEF FirstInv, Snapshot, HistoryInv, VersionsWritten, Present
<1> QED BY <1>1 DEF FirstInv

LEMMA FirstRow ==
  ASSUME OnlyCreatesBurn, HistoryInv, FirstInv, Next
  PROVE  \/ row' = NoRow /\ UNCHANGED <<lastVersion, written>>
         \/ row' = row /\ UNCHANGED <<lastVersion, written>>
         \/ /\ Present /\ row'.ver = row.ver /\ UNCHANGED <<lastVersion, written>>
            /\ AtOnce(row') <=> AtOnce(row)
         \/ /\ row'.ver = lastVersion + 1 /\ lastVersion' = lastVersion + 1 /\ lastVersion < MaxVersion
            /\ \A v \in 1..MaxVersion : v # lastVersion + 1 => written'[v] = written[v]
            /\ UNCHANGED <<reader, served>>
            /\ written'[row'.ver] = "immediate" <=> AtOnce(row')
            /\ written'[row'.ver] = "immediate" => lastVersion = 0
<1>1. ASSUME NEW p \in Creates, Create(p)
      PROVE  /\ row'.ver = lastVersion + 1 /\ lastVersion' = lastVersion + 1 /\ lastVersion < MaxVersion
             /\ \A v \in 1..MaxVersion : v # lastVersion + 1 => written'[v] = written[v]
             /\ UNCHANGED <<reader, served>> /\ lastVersion = 0
             /\ written'[row'.ver] = "immediate" <=> AtOnce(row')
  <2>1. p.burn \in BOOLEAN /\ p.ttl \in Nat
    BY SettingsAssumption DEF CreateSettings, Settings
  <2>2. row'.burn = p.burn /\ row'.ttl = p.ttl /\ row'.ver = lastVersion + 1 /\ Record(KindOf(p))
    BY <1>1 DEF Create
  <2>3. written'[row'.ver] = KindOf(p)
    BY <2>2, RecordSteps DEF HistoryInv
  <2> QED BY <1>1, <2>1, <2>2, <2>3, RecordSteps DEF Create, Record, OnlyCreatesBurn, HistoryInv, KindOf, AtOnce
<1>2. ASSUME NEW w \in Writers, UpdatePut(w)
      PROVE  /\ row'.ver = lastVersion + 1 /\ lastVersion' = lastVersion + 1 /\ lastVersion < MaxVersion
             /\ \A v \in 1..MaxVersion : v # lastVersion + 1 => written'[v] = written[v]
             /\ UNCHANGED <<reader, served>>
             /\ written'[row'.ver] # "immediate" /\ ~AtOnce(row')
  <2>1. /\ writer[w].note \in Row /\ (writer[w].note.burn => writer[w].note.ttl > 0)
        /\ Record(KindOf(writer[w].note))
    BY <1>2, VersionTypes DEF UpdatePut, FirstInv
  <2>2. row'.ver = lastVersion + 1 /\ row'.burn = writer[w].note.burn /\ row'.ttl = writer[w].note.ttl
    BY <1>2, <2>1 DEF UpdatePut, Row
  <2>3. KindOf(writer[w].note) # "immediate" /\ ~AtOnce(row') /\ writer[w].note.ttl \in Nat
    BY <2>1, <2>2 DEF KindOf, AtOnce, Row
  <2> QED BY <1>2, <2>2, <2>1, <2>3, RecordSteps DEF UpdatePut, Record, HistoryInv
<1>3. ASSUME NEW r \in Readers, SetBurnExpiry(r)
      PROVE  Present /\ row'.ver = row.ver /\ UNCHANGED <<lastVersion, written>> /\ (AtOnce(row') <=> AtOnce(row))
  <2>1. row \in Row /\ Present /\ ~AtOnce(row)
    BY <1>3, VersionTypes, TimerNotAtOnce DEF SetBurnExpiry, TimerEligible
  <2> QED BY <1>3, <2>1 DEF SetBurnExpiry, TimerStarted, Row, AtOnce
<1>4. ASSUME NEW r \in Readers, ApplyViewIncrement(r)
      PROVE  /\ UNCHANGED <<lastVersion, written>>
             /\ row' = row \/ (Present /\ row'.ver = row.ver /\ (AtOnce(row') <=> AtOnce(row)))
  BY <1>4, VersionTypes DEF ApplyViewIncrement, Row, history, AtOnce
<1>5. CASE \E r \in Readers : Read(r)
  BY <1>3, <1>4, <1>5 DEF Read, Peek, ApplyPolicy, EnforceExpiry, SetBurnExpiryMissed,
     HandleSetExpiryErr, Consume, AbortRead, history
<1>6. CASE \E w \in Writers : Write(w)
  BY <1>2, <1>6 DEF Write, UpdateGet, DeleteGet, DeletePut, AbortWrite, history
<1>7. CASE Tick
  BY <1>7 DEF Tick, history
<1> QED BY <1>1, <1>5, <1>6, <1>7 DEF Next

(* What a reader that moves holds next.                                    *)
LEMMA FirstMoves ==
  ASSUME HistoryInv, FirstInv, NEW r \in Readers, Read(r)
  PROVE  /\ reader'[r].pc = "policy" => Present /\ row' = row /\ reader'[r].note = row
         /\ reader'[r].pc \in {"timer", "refetch"} =>
              /\ reader'[r].note = reader[r].note /\ row' = row
              /\ \/ reader[r].pc \in {"timer", "refetch"}
                 \/ reader[r].pc = "policy" /\ ~AtOnce(reader[r].note)
         /\ reader'[r].note = reader[r].note \/ reader'[r].note.ver = row.ver
<1> DEFINE note == reader[r].note
<1>0. /\ reader \in [Readers -> ReadRequest] /\ reader[r] \in ReadRequest /\ row \in Row /\ note \in Row
  BY VersionTypes DEF HistoryInv, TypeOK
<1>1. /\ \A pc : ReaderGoes(r, pc) => reader'[r].pc = pc /\ reader'[r].note = note
      /\ \A pc, n : ReaderHolds(r, pc, n) => reader'[r].pc = pc /\ reader'[r].note = n
  BY <1>0 DEF ReaderGoes, ReaderHolds, ReadRequest
<1>2. CASE Peek(r)
  BY <1>1, <1>2 DEF Peek
<1>3. CASE ApplyPolicy(r)
  <2>1. UNCHANGED row /\ reader[r].pc = "policy"
    BY <1>3 DEF ApplyPolicy
  <2>2. CASE reader' = [reader EXCEPT ![r].pc = "timer", ![r].deadline = now + note.ttl] /\ note.ttl > 0
    <3>1. reader'[r].pc = "timer" /\ reader'[r].note = note
      BY <1>0, <2>2 DEF ReadRequest
    <3>2. ~AtOnce(note)
      BY <1>0, <2>2 DEF AtOnce, Row
    <3> QED BY <2>1, <3>1, <3>2
  <2>3. CASE ReaderGoes(r, "expire") \/ ReaderGoes(r, "consume") \/ ReaderGoes(r, "count")
    BY <1>1, <2>3
  <2> QED BY <1>3, <2>2, <2>3 DEF ApplyPolicy
<1>4. CASE EnforceExpiry(r) \/ ApplyViewIncrement(r) \/ AbortRead(r)
  BY <1>1, <1>4 DEF EnforceExpiry, ApplyViewIncrement, AbortRead
<1>5. CASE SetBurnExpiry(r)
  <2>1. row'.ver = row.ver
    BY <1>0, <1>5 DEF SetBurnExpiry, TimerStarted, Row
  <2> QED BY <1>1, <1>5, <2>1 DEF SetBurnExpiry, Deliver
<1>6. CASE SetBurnExpiryMissed(r)
  BY <1>1, <1>6 DEF SetBurnExpiryMissed
<1>7. CASE HandleSetExpiryErr(r)
  BY <1>1, <1>7 DEF HandleSetExpiryErr, Deliver
<1>8. CASE Consume(r)
  BY <1>1, <1>8 DEF Consume, Deliver
<1> QED BY <1>2, <1>3, <1>4, <1>5, <1>6, <1>7, <1>8 DEF Read

LEMMA FirstKept ==
  ASSUME OnlyCreatesBurn, HistoryInv, FirstInv, [Next]_vars
  PROVE  FirstInv'
<1>1. CASE UNCHANGED vars
  BY <1>1 DEF vars, FirstInv, Snapshot, Present
<1>2. CASE Next
  <2>0. /\ NoRow.ver = 0 /\ row.ver <= lastVersion /\ lastVersion \in Nat /\ row.ver \in Nat
        /\ lastVersion <= MaxVersion /\ MaxVersion \in Nat
        /\ \A r \in Readers : reader[r].note.ver \in Nat /\ reader[r].note.ver <= lastVersion
    BY VersionTypes, BoundsAssumption DEF NoRow, HistoryInv, VersionsWritten
  <2>1. /\ \A v \in 1..MaxVersion : written'[v] = "immediate" => v = 1
        /\ Present' => (written'[row'.ver] = "immediate" <=> AtOnce(row'))
    BY <1>2, <2>0, FirstRow DEF FirstInv, Present
  <2>2. ASSUME NEW r \in Readers, reader'[r] = reader[r] PROVE Snapshot(r)'
    <3>1. Snapshot(r)
      BY DEF FirstInv
    <3>2. CASE UNCHANGED written /\ (row'.ver = 0 \/ row'.ver = row.ver)
      BY <2>2, <3>1, <3>2 DEF Snapshot, Present
    <3>3. CASE /\ row'.ver = lastVersion + 1
               /\ \A v \in 1..MaxVersion : v # lastVersion + 1 => written'[v] = written[v]
      <4>1. reader[r].note.ver # 0 => written'[reader[r].note.ver] = written[reader[r].note.ver]
        BY <2>0, <3>3
      <4>2. reader[r].note.ver <= row'.ver
        BY <2>0, <3>3
      <4> QED BY <2>2, <3>1, <4>1, <4>2 DEF Snapshot
    <3> QED BY <1>2, <2>0, <3>2, <3>3, FirstRow
  <2>3. ASSUME NEW r \in Readers, Read(r) PROVE Snapshot(r)'
    <3>1. Snapshot(r) /\ UNCHANGED written /\ (row'.ver = 0 \/ row'.ver = row.ver)
      BY <2>0, <2>3, ReadFootprint DEF FirstInv, HistoryInv
    <3>2. Present' => reader'[r].note.ver <= row'.ver
      BY <2>0, <2>3, <3>1, FirstMoves DEF Snapshot, Present
    <3>3. reader'[r].pc = "policy" =>
            reader'[r].note.ver # 0 /\ (written[reader'[r].note.ver] = "immediate" <=> AtOnce(reader'[r].note))
      BY <2>3, FirstMoves DEF FirstInv, Present
    <3>4. reader'[r].pc \in {"timer", "refetch"} =>
            reader'[r].note.ver # 0 /\ written[reader'[r].note.ver] # "immediate"
      BY <2>3, <3>1, FirstMoves DEF Snapshot
    <3> QED BY <3>1, <3>2, <3>3, <3>4 DEF Snapshot
  <2>4. \A r \in Readers : Snapshot(r)'
    <3>1. ASSUME NEW q \in Readers, Read(q) PROVE \A r \in Readers : Snapshot(r)'
      BY <2>2, <2>3, <3>1, ReadFootprint DEF HistoryInv
    <3>2. CASE UNCHANGED reader
      BY <2>2, <3>2
    <3> QED BY <1>2, <3>1, <3>2 DEF Next, Create, Write, UpdateGet, UpdatePut, DeleteGet, DeletePut,
          AbortWrite, Tick
  <2>5. \A w \in Writers : writer'[w].pc = "update" /\ writer'[w].note.burn => writer'[w].note.ttl > 0
    <3>0. writer \in [Writers -> WriteRequest]
      BY DEF HistoryInv, TypeOK
    <3>1. ASSUME NEW v \in Writers, NEW p \in Payloads, UpdateGet(v, p)
          PROVE  \A w \in Writers : writer'[w].pc = "update" /\ writer'[w].note.burn => writer'[w].note.ttl > 0
      <4> DEFINE note == [row EXCEPT !.burn = p.burn, !.ttl = p.ttl,
                             !.expiresAt = ResolveExpiry(p, row), !.privacy = Backfill(p, row)]
                 new == [pc |-> "update", note |-> note, omitted |-> p.privacy = Omitted]
      <4>1. note.burn => note.ttl > 0
        BY VersionTypes DEF OnlyCreatesBurn, Row
      <4>2. new.note = note /\ writer' = [writer EXCEPT ![v] = new]
        BY <3>1 DEF UpdateGet
      <4> HIDE DEF new, note
      <4> QED BY <3>0, <4>1, <4>2 DEF FirstInv
    <3>2. ASSUME NEW v \in Writers, NEW pc \in {"delete", "done"}, writer' = [writer EXCEPT ![v].pc = pc]
                                     \/ writer' = [writer EXCEPT ![v].pc = pc, ![v].note = row]
          PROVE  \A w \in Writers : writer'[w].pc = "update" /\ writer'[w].note.burn => writer'[w].note.ttl > 0
      <4>1. writer'[v].pc = pc /\ \A w \in Writers \ {v} : writer'[w] = writer[w]
        BY <3>0, <3>2 DEF WriteRequest
      <4> QED BY <4>1 DEF FirstInv
    <3>3. CASE UNCHANGED writer
      BY <3>3 DEF FirstInv
    <3>4. CASE \E w \in Writers : Write(w)
      BY <3>1, <3>2, <3>4 DEF Write, UpdatePut, DeleteGet, DeletePut, AbortWrite, WriterGoes
    <3>5. CASE \E r \in Readers : Read(r)
      BY <3>3, <3>5, ReadFootprint DEF HistoryInv
    <3> QED BY <1>2, <3>3, <3>4, <3>5 DEF Next, Create, Tick
  <2> QED BY <2>1, <2>4, <2>5 DEF FirstInv
<1> QED BY <1>1, <1>2

LEMMA FirstServes ==
  ASSUME HistoryInv, FirstInv, Unserved, NEW r \in Readers, Read(r)
  PROVE  ServesSafely(r)
<1> USE DEF Serve, history, Unserved, ServesSafely
<1>0. row \in Row /\ row.ver \in Nat /\ row.ver <= lastVersion /\ reader[r].note.ver \in Nat
      /\ reader[r].note.ver <= lastVersion /\ lastVersion \in Nat
  BY VersionTypes DEF HistoryInv, VersionsWritten
<1>1. CASE ApplyPolicy(r)
  <2>1. CASE served' = [served EXCEPT ![r] = reader[r].note.ver] /\ ~reader[r].note.burn
    <3>1. row' = row /\ served[r] = 0 /\ reader[r].pc = "policy"
      BY <1>1 DEF ApplyPolicy
    <3>2. reader[r].note.ver \in 1..lastVersion /\ written[reader[r].note.ver] # "immediate"
      BY <1>0, <2>1, <3>1 DEF FirstInv, Snapshot, AtOnce
    <3> QED BY <2>1, <3>1, <3>2
  <2> QED BY <1>1, <2>1 DEF ApplyPolicy
<1>2. CASE Consume(r)
  BY <1>2 DEF Consume, Consumable, Deliver
<1>3. CASE SetBurnExpiry(r)
  <2>1. row'.ver = row.ver
    BY <1>0, <1>3 DEF SetBurnExpiry, TimerStarted, Row
  <2>2. row.ver \in 1..lastVersion /\ written[row.ver] # "immediate"
    BY <1>0, <1>3, TimerNotAtOnce DEF SetBurnExpiry, TimerEligible, Present
  <2> QED BY <1>3, <2>1, <2>2 DEF SetBurnExpiry, Deliver
<1>4. CASE HandleSetExpiryErr(r)
  <2>1. Present => row.ver \in 1..lastVersion /\ written[row.ver] # "immediate"
    BY <1>0, <1>4, TimerNotAtOnce DEF HandleSetExpiryErr, Present
  <2> QED BY <1>4, <2>1 DEF HandleSetExpiryErr, Deliver
<1>5. CASE \/ Peek(r) \/ EnforceExpiry(r) \/ ApplyViewIncrement(r) \/ AbortRead(r)
           \/ SetBurnExpiryMissed(r)
  BY <1>5 DEF Peek, EnforceExpiry, ApplyViewIncrement, AbortRead, SetBurnExpiryMissed
<1> QED BY <1>1, <1>2, <1>3, <1>4, <1>5 DEF Read

LEMMA FirstInvariant ==
  ASSUME OnlyCreatesBurn
  PROVE  Spec => [](HistoryInv /\ FirstInv /\ Unserved /\ ServedBurnIsGone /\ ImmediateBurnAtMostOnce)
<1> DEFINE Others == FirstInv /\ Unserved /\ ServedBurnIsGone /\ ImmediateBurnAtMostOnce
<1>1. Init => Others
  BY DEF Init, FirstInv, Snapshot, Unserved, ServedBurnIsGone, ImmediateBurnAtMostOnce, NoRow, Present, Unwritten
<1>2. HistoryInv /\ Others /\ [Next]_vars => Others'
  BY FirstKept, UnservedKept, FirstServes, ServedStep DEF HistoryInv
<1> QED BY <1>1, <1>2, HistoryCorrect, PTL DEF Spec

(* With grace periods too, a version that burns on its first read reaches  *)
(* one reader and never comes back, and requests implement BurnOnce, as    *)
(* long as only the POST of a slug used once can ask for that.             *)
THEOREM FirstVersionBurnsOnce ==
  ASSUME OnlyCreatesBurn
  PROVE  Spec => [](ImmediateBurnAtMostOnce /\ ServedBurnIsGone) /\ KeepsPromise
<1>1. Init => Promise!Init
  BY BoundsAssumption DEF Init, Promise!Init, NoRow, Unwritten
<1>2. HistoryInv /\ FirstInv /\ Unserved /\ [Next]_vars => [Promise!Next]_Promise!vars
  BY FirstServes, PromiseStep
<1> QED BY <1>1, <1>2, FirstInvariant, PTL DEF Spec, KeepsPromise, Promise!Spec

-----------------------------------------------------------------------------
(***************************************************************************)
(* What a read may destroy.  enforceExpiry judges the snapshot and deletes *)
(* by id, so it may hit a row that is not due; but then the deadline was   *)
(* set or moved since the snapshot was taken.                              *)
(***************************************************************************)
DueInv == \A r \in Readers : reader[r].pc = "expire" => Expired(reader[r].note)

(* A read destroys a row that burns, that is past its deadline, or whose   *)
(* deadline is not the one that this read saw.                             *)
DestroyedForCause ==
  [][\A r \in Readers :
       Present /\ row'.ver = 0 /\ reader'[r] # reader[r]
         => row.burn \/ Lapsed(row) \/ row.expiresAt # reader[r].note.expiresAt]_vars

LEMMA DueKept ==
  ASSUME TypeOK, DueInv, [Next]_vars
  PROVE  DueInv'
<1> USE DEF DueInv, Expired
<1>1. now' >= now /\ now \in Nat /\ now' \in Nat
  <2>1. CASE Tick
    BY <2>1 DEF Tick, TypeOK
  <2>2. CASE ~Tick
    <3>1. now' = now
      BY <2>2 DEF Next, Create, Read, Peek, ApplyPolicy, EnforceExpiry, SetBurnExpiry, SetBurnExpiryMissed,
         HandleSetExpiryErr, Consume, ApplyViewIncrement, AbortRead, Write, UpdateGet, UpdatePut, DeleteGet,
         DeletePut, AbortWrite, vars
    <3> QED BY <3>1 DEF TypeOK
  <2> QED BY <2>1, <2>2
<1>2. ASSUME NEW r \in Readers, reader'[r] = reader[r], reader'[r].pc = "expire" PROVE Expired(reader[r].note)'
  BY <1>1, <1>2, HeldTyped DEF Row
<1>3. ASSUME NEW r \in Readers, Read(r), reader'[r].pc = "expire" PROVE Expired(reader[r].note)'
  <2>0. reader \in [Readers -> ReadRequest] /\ reader[r] \in ReadRequest
    BY DEF TypeOK
  <2>1. /\ \A pc : ReaderGoes(r, pc) => reader'[r].pc = pc /\ reader'[r].note = reader[r].note
        /\ \A pc, n : ReaderHolds(r, pc, n) => reader'[r].pc = pc
    BY <2>0 DEF ReaderGoes, ReaderHolds, ReadRequest
  <2>2. CASE ApplyPolicy(r)
    <3>1. CASE Expired(reader[r].note) /\ ReaderGoes(r, "expire")
      BY <2>1, <2>2, <3>1 DEF ApplyPolicy
    <3>2. CASE reader' = [reader EXCEPT ![r].pc = "timer", ![r].deadline = now + reader[r].note.ttl]
      <4>1. reader'[r].pc = "timer"
        BY <2>0, <3>2 DEF ReadRequest
      <4> QED BY <1>3, <4>1
    <3>3. CASE ReaderGoes(r, "consume") \/ ReaderGoes(r, "count")
      BY <1>3, <2>1, <3>3
    <3> QED BY <2>2, <3>1, <3>2, <3>3 DEF ApplyPolicy
  <2>3. CASE ~ApplyPolicy(r)
    <3>1. \E pc \in ReaderPC \ {"expire"} : ReaderGoes(r, pc) \/ \E n : ReaderHolds(r, pc, n)
      BY <1>3, <2>3 DEF Read, Peek, EnforceExpiry, SetBurnExpiry, SetBurnExpiryMissed, HandleSetExpiryErr,
         Consume, ApplyViewIncrement, AbortRead, Deliver, ReaderPC
    <3> QED BY <1>3, <2>1, <3>1
  <2> QED BY <2>2, <2>3
<1>4. ASSUME NEW q \in Readers, Read(q) PROVE DueInv'
  BY <1>2, <1>3, <1>4, ReadFootprint
<1>5. CASE UNCHANGED reader
  BY <1>2, <1>5
<1> QED BY <1>4, <1>5 DEF Next, Create, Write, UpdateGet, UpdatePut, DeleteGet, DeletePut, AbortWrite,
      Tick, vars

LEMMA DueInvariant == Spec => []DueInv
<1>1. Init => DueInv
  BY DEF Init, DueInv
<1>2. TypeOK /\ DueInv /\ [Next]_vars => DueInv'
  BY DueKept
<1> QED BY <1>1, <1>2, TypeCorrect, PTL DEF Spec

(* Only two statements of a read take the row away.                        *)
LEMMA DestroyStep ==
  ASSUME TypeOK, DueInv, NEW r \in Readers, Read(r), Present, row'.ver = 0
  PROVE  \/ row.burn \/ Lapsed(row)
         \/ Expired(reader[r].note) /\ row.expiresAt # reader[r].note.expiresAt
<1>1. row \in Row /\ reader[r].note.expiresAt \in Nat /\ now \in Nat /\ row.ver # 0
  BY HeldTyped DEF TypeOK, Row, Present
<1>2. CASE Consume(r)
  BY <1>1, <1>2 DEF Consume, Consumable
<1>3. CASE EnforceExpiry(r)
  BY <1>1, <1>3 DEF EnforceExpiry, DueInv, Expired, Lapsed
<1>4. CASE SetBurnExpiry(r)
  BY <1>1, <1>4 DEF SetBurnExpiry, TimerStarted, Row
<1>5. CASE ApplyViewIncrement(r)
  BY <1>1, <1>5 DEF ApplyViewIncrement, Row
<1>6. CASE Peek(r) \/ ApplyPolicy(r) \/ SetBurnExpiryMissed(r) \/ HandleSetExpiryErr(r) \/ AbortRead(r)
  BY <1>1, <1>6 DEF Peek, ApplyPolicy, SetBurnExpiryMissed, HandleSetExpiryErr, AbortRead
<1> QED BY <1>2, <1>3, <1>4, <1>5, <1>6 DEF Read

(* A step that changes a reader is a step of that reader. *)
LEMMA ReaderMoves ==
  ASSUME TypeOK, [Next]_vars, NEW r \in Readers, reader'[r] # reader[r]
  PROVE  Read(r)
<1>1. ASSUME NEW q \in Readers, Read(q) PROVE Read(r)
  BY <1>1, ReadFootprint
<1>2. CASE UNCHANGED reader
  BY <1>2
<1> QED BY <1>1, <1>2 DEF Next, Create, Write, UpdateGet, UpdatePut, DeleteGet, DeletePut, AbortWrite,
      Tick, vars

(* For all settings: a read takes away what is due, or what was due before *)
(* its deadline was moved under this read.                                 *)
THEOREM ReadsHaveCause == Spec => DestroyedForCause
<1>1. TypeOK /\ DueInv /\ [Next]_vars =>
        [\A r \in Readers : Present /\ row'.ver = 0 /\ reader'[r] # reader[r]
           => row.burn \/ Lapsed(row) \/ row.expiresAt # reader[r].note.expiresAt]_vars
  BY ReaderMoves, DestroyStep
<1> QED BY <1>1, TypeCorrect, DueInvariant, PTL DEF Spec, DestroyedForCause

(* No request asks for a deadline, nor for a grace period, which sets one. *)
NoDeadlines == NoGracePeriods /\ \A p \in Payloads : p.life = 0

Timeless ==
  /\ row.expiresAt = Never
  /\ \A r \in Readers : reader[r].note.expiresAt = Never
  /\ \A w \in Writers : writer[w].note.expiresAt = Never

LEMMA TimelessKept ==
  ASSUME NoDeadlines, TypeOK, NoTimers, Timeless, [Next]_vars
  PROVE  Timeless'
<1> USE DEF Timeless, TypeOK
<1>1. ASSUME NEW p \in Creates, Create(p) PROVE Timeless'
  BY <1>1 DEF Create
<1>2. ASSUME NEW r \in Readers, Read(r) PROVE Timeless'
  <2>1. row'.expiresAt = Never
    <3>1. CASE SetBurnExpiry(r)
      BY <3>1 DEF SetBurnExpiry, NoTimers
    <3>2. CASE ~SetBurnExpiry(r)
      BY <1>2, <3>2 DEF Read, Peek, ApplyPolicy, EnforceExpiry, SetBurnExpiryMissed, HandleSetExpiryErr,
         Consume, ApplyViewIncrement, AbortRead, NoRow, Row
    <3> QED BY <3>1, <3>2
  <2>2. reader'[r].note.expiresAt = Never
    <3>1. /\ \A pc : ReaderGoes(r, pc) => reader'[r].note = reader[r].note
          /\ \A pc, n : ReaderHolds(r, pc, n) => reader'[r].note = n
      BY DEF ReaderGoes, ReaderHolds, ReadRequest
    <3>2. CASE ApplyPolicy(r)
      <4>1. reader'[r].note = reader[r].note
        BY <3>1, <3>2 DEF ApplyPolicy, ReadRequest
      <4> QED BY <4>1
    <3>3. CASE ~ApplyPolicy(r)
      BY <1>2, <2>1, <3>1, <3>3 DEF Read, Peek, EnforceExpiry, SetBurnExpiry, SetBurnExpiryMissed,
         HandleSetExpiryErr, Consume, ApplyViewIncrement, AbortRead, Deliver
    <3> QED BY <3>2, <3>3
  <2> QED BY <1>2, <2>1, <2>2, ReadFootprint
<1>3. ASSUME NEW w \in Writers, Write(w) PROVE Timeless'
  <2>1. ASSUME NEW p \in Payloads, UpdateGet(w, p) PROVE Timeless'
    <3> DEFINE note == [row EXCEPT !.burn = p.burn, !.ttl = p.ttl,
                           !.expiresAt = ResolveExpiry(p, row), !.privacy = Backfill(p, row)]
               new == [pc |-> "update", note |-> note, omitted |-> p.privacy = Omitted]
    <3>1. ResolveExpiry(p, row) = Never
      BY DEF ResolveExpiry, NoDeadlines
    <3>2. note.expiresAt = Never
      BY <3>1 DEF Row
    <3>3. new.note = note /\ writer' = [writer EXCEPT ![w] = new] /\ UNCHANGED <<row, reader>>
      BY <2>1 DEF UpdateGet
    <3> HIDE DEF new, note
    <3> QED BY <3>2, <3>3
  <2>2. CASE UpdatePut(w)
    <3>1. row'.expiresAt = writer[w].note.expiresAt
      BY <2>2, HeldTyped DEF UpdatePut, Row
    <3>2. UNCHANGED reader /\ \A v \in Writers : writer'[v].note = writer[v].note
      BY <2>2 DEF UpdatePut, WriterGoes, WriteRequest
    <3> QED BY <3>1, <3>2
  <2>3. CASE DeleteGet(w) \/ DeletePut(w) \/ AbortWrite(w)
    BY <2>3 DEF DeleteGet, DeletePut, AbortWrite, WriterGoes, WriteRequest, NoRow
  <2> QED BY <1>3, <2>1, <2>2, <2>3 DEF Write
<1>4. CASE Tick \/ UNCHANGED vars
  BY <1>4 DEF Tick, vars
<1> QED BY <1>1, <1>2, <1>3, <1>4 DEF Next

(* Without deadlines a read takes away nothing but a note that burns.      *)
THEOREM ReadsDestroyDue ==
  ASSUME NoDeadlines
  PROVE  Spec => ReadsDestroyOnlyDueNotes
<1> DEFINE Due == Present /\ row'.ver = 0 /\ writer' = writer => row.burn \/ Lapsed(row)
<1>1. Init => Timeless
  BY DEF Init, Timeless, NoRow
<1>2. OnceInv /\ Timeless /\ [Next]_vars => Timeless'
  BY TimelessKept DEF OnceInv, HistoryInv
<1>3. OnceInv /\ DueInv /\ Timeless /\ [Next]_vars => [Due]_vars
  <2> SUFFICES ASSUME OnceInv, DueInv, Timeless, Next, Present, row'.ver = 0, writer' = writer
               PROVE  row.burn \/ Lapsed(row)
    BY DEF vars
  <2>0. TypeOK /\ lastVersion + 1 # 0
    BY DEF OnceInv, HistoryInv, TypeOK, Version
  <2>1. ASSUME NEW r \in Readers, Read(r) PROVE row.burn \/ Lapsed(row)
    BY <2>0, <2>1, DestroyStep DEF Timeless
  <2>2. ASSUME NEW w \in Writers, Write(w) PROVE FALSE
    <3>1. writer[w].pc \in WriterPC
      BY <2>0 DEF TypeOK, WriteRequest
    <3>2. CASE UpdatePut(w) \/ DeletePut(w) \/ AbortWrite(w)
      <4>1. writer'[w].pc = "done" /\ writer[w].pc # "done"
        BY <2>0, <3>2 DEF UpdatePut, DeletePut, AbortWrite, WriterGoes, TypeOK, WriteRequest
      <4> QED BY <4>1
    <3>3. CASE DeleteGet(w) \/ \E p \in Payloads : UpdateGet(w, p)
      BY <3>3 DEF DeleteGet, UpdateGet, Present
    <3> QED BY <2>2, <3>2, <3>3 DEF Write
  <2> QED BY <2>0, <2>1, <2>2 DEF Next, Create, Tick, Present
<1>4. NoGracePeriods
  BY DEF NoDeadlines
<1> QED BY <1>1, <1>2, <1>3, <1>4, OnceInvariant, DueInvariant, PTL DEF Spec, ReadsDestroyOnlyDueNotes

-----------------------------------------------------------------------------
(***************************************************************************)
(* What Update fills in for its caller.  The row it read gives the privacy *)
(* that it writes back, so it can undo an update made in between; it never *)
(* changes the privacy of the version that it read.                        *)
(***************************************************************************)
FilledIn(w) ==
  /\ writer[w].note.ver <= lastVersion
  /\ writer[w].pc = "update" /\ writer[w].omitted /\ Present /\ row.ver = writer[w].note.ver
       => writer[w].note.privacy = row.privacy

(* An update whose caller omits privacy leaves the stored privacy as it    *)
(* is, unless another version was written since this update read its row.  *)
OmittedPrivacyKeptUnlessOvertaken ==
  [][\A w \in Writers :
       /\ writer[w].pc = "update" /\ writer[w].omitted
       /\ Present /\ row'.ver # row.ver /\ writer'[w].pc = "done"
       /\ row'.ver # 0
       => row'.privacy = row.privacy \/ row.ver # writer[w].note.ver]_vars

(* The row changes its privacy with its version only. *)
LEMMA PrivacySteps ==
  ASSUME HistoryInv, [Next]_vars
  PROVE  /\ lastVersion' >= lastVersion /\ lastVersion' \in Nat
         /\ \/ row'.ver = 0
            \/ row'.ver = row.ver /\ row'.privacy = row.privacy
            \/ row'.ver = lastVersion + 1
         /\ \A w \in Writers : \/ writer'[w] = writer[w]
                               \/ writer'[w].pc # "update" /\ writer'[w].note.ver \in {writer[w].note.ver, row.ver}
                               \/ writer'[w].pc = "update" /\ row' = row /\ writer'[w].note.ver = row.ver
                                  /\ (writer'[w].omitted => writer'[w].note.privacy = row.privacy)
<1> USE DEF HistoryInv, TypeOK
<1>0. lastVersion \in Nat
  BY VersionTypes
<1>1. ASSUME NEW p \in Creates, Create(p)
      PROVE  row'.ver = lastVersion + 1 /\ lastVersion' = lastVersion + 1 /\ UNCHANGED writer
  BY <1>1 DEF Create, Record
<1>2. ASSUME NEW r \in Readers, Read(r)
      PROVE  /\ UNCHANGED <<writer, lastVersion>>
             /\ row'.ver = 0 \/ (row'.ver = row.ver /\ row'.privacy = row.privacy)
  <2>0. UNCHANGED <<writer, lastVersion>>
    BY <1>2, ReadFootprint
  <2>1. CASE SetBurnExpiry(r) \/ ApplyViewIncrement(r)
    BY <2>0, <2>1 DEF SetBurnExpiry, TimerStarted, ApplyViewIncrement, Row
  <2>2. CASE ~(SetBurnExpiry(r) \/ ApplyViewIncrement(r))
    BY <1>2, <2>0, <2>2 DEF Read, Peek, ApplyPolicy, EnforceExpiry, SetBurnExpiryMissed, HandleSetExpiryErr,
       Consume, AbortRead, NoRow
  <2> QED BY <2>1, <2>2
<1>3. ASSUME NEW v \in Writers, Write(v)
      PROVE  /\ lastVersion' >= lastVersion /\ lastVersion' \in Nat
             /\ row'.ver = 0 \/ row' = row \/ row'.ver = lastVersion + 1
             /\ \A w \in Writers : \/ writer'[w] = writer[w]
                                   \/ writer'[w].pc # "update" /\ writer'[w].note.ver \in {writer[w].note.ver, row.ver}
                                   \/ writer'[w].pc = "update" /\ row' = row /\ writer'[w].note.ver = row.ver
                                      /\ (writer'[w].omitted => writer'[w].note.privacy = row.privacy)
  <2>1. ASSUME NEW p \in Payloads, UpdateGet(v, p)
        PROVE  /\ UNCHANGED <<row, lastVersion>> /\ \A w \in Writers \ {v} : writer'[w] = writer[w]
               /\ writer'[v].pc = "update" /\ writer'[v].note.ver = row.ver
               /\ writer'[v].omitted => writer'[v].note.privacy = row.privacy
    <3> DEFINE note == [row EXCEPT !.burn = p.burn, !.ttl = p.ttl,
                           !.expiresAt = ResolveExpiry(p, row), !.privacy = Backfill(p, row)]
               new == [pc |-> "update", note |-> note, omitted |-> p.privacy = Omitted]
    <3>1. note.ver = row.ver /\ (p.privacy = Omitted => note.privacy = row.privacy)
      BY DEF Row, Backfill
    <3>2. /\ new.note = note /\ new.pc = "update" /\ (new.omitted <=> p.privacy = Omitted)
          /\ writer' = [writer EXCEPT ![v] = new] /\ UNCHANGED <<row, lastVersion>>
      BY <2>1 DEF UpdateGet, history
    <3> HIDE DEF new, note
    <3> QED BY <3>1, <3>2
  <2>2. CASE UpdatePut(v)
    <3>1. row'.ver = lastVersion + 1 /\ lastVersion' = lastVersion + 1
      BY <2>2, HeldTyped DEF UpdatePut, Record, Row
    <3>2. writer'[v].pc = "done" /\ writer'[v].note = writer[v].note
          /\ \A w \in Writers \ {v} : writer'[w] = writer[w]
      BY <2>2 DEF UpdatePut, WriterGoes, WriteRequest
    <3> QED BY <1>0, <3>1, <3>2
  <2>3. CASE DeleteGet(v) \/ DeletePut(v) \/ AbortWrite(v)
    <3>1. lastVersion' = lastVersion /\ (row'.ver = 0 \/ row' = row)
      BY <2>3 DEF DeleteGet, DeletePut, AbortWrite, NoRow, history
    <3>2. writer'[v].pc # "update" /\ writer'[v].note.ver \in {writer[v].note.ver, row.ver}
          /\ \A w \in Writers \ {v} : writer'[w] = writer[w]
      BY <2>3 DEF DeleteGet, DeletePut, AbortWrite, WriterGoes, WriteRequest
    <3> QED BY <1>0, <3>1, <3>2
  <2> QED BY <1>0, <1>3, <2>1, <2>2, <2>3 DEF Write
<1>4. CASE Tick \/ UNCHANGED vars
  BY <1>0, <1>4 DEF Tick, vars, history
<1> QED BY <1>0, <1>1, <1>2, <1>3, <1>4 DEF Next

(* For all settings: only an update that was overtaken undoes a privacy    *)
(* setting it was not asked to change.                                     *)
THEOREM PrivacyKept == Spec => OmittedPrivacyKeptUnlessOvertaken
<1> DEFINE Filled == \A w \in Writers : FilledIn(w)
<1>1. Init => Filled
  BY DEF Init, FilledIn, NoRow
<1>2. HistoryInv /\ Filled /\ [Next]_vars => Filled'
  <2> SUFFICES ASSUME HistoryInv, Filled, [Next]_vars, NEW w \in Writers PROVE FilledIn(w)'
    OBVIOUS
  <2>1. /\ row.ver \in Nat /\ lastVersion \in Nat /\ writer[w].note.ver \in Nat /\ row.ver <= lastVersion
    BY VersionTypes DEF HistoryInv, VersionsWritten, Row, Version
  <2> QED BY <2>1, PrivacySteps DEF FilledIn, Present
<1>3. HistoryInv /\ Filled /\ [Next]_vars =>
        [\A w \in Writers :
           /\ writer[w].pc = "update" /\ writer[w].omitted
           /\ Present /\ row'.ver # row.ver /\ writer'[w].pc = "done"
           /\ row'.ver # 0
           => row'.privacy = row.privacy \/ row.ver # writer[w].note.ver]_vars
  <2> SUFFICES ASSUME HistoryInv, Filled, Next, NEW w \in Writers,
                      writer[w].pc = "update", writer[w].omitted, Present, row'.ver # row.ver,
                      writer'[w].pc = "done", row'.ver # 0, row.ver = writer[w].note.ver
               PROVE  row'.privacy = row.privacy
    BY DEF vars
  <2>0. writer \in [Writers -> WriteRequest]
    BY DEF HistoryInv, TypeOK
  <2>1. PICK v \in Writers : Write(v)
    <3>1. ~Tick /\ \A p \in Creates : ~Create(p)
      BY DEF Tick, Create
    <3>2. ASSUME NEW r \in Readers, Read(r) PROVE FALSE
      BY <3>2, ReadFootprint DEF NoRow, HistoryInv
    <3> QED BY <3>1, <3>2 DEF Next
  <2>2. UpdatePut(v)
    <3>1. ~DeletePut(v)
      BY DEF DeletePut, NoRow
    <3>2. ~DeleteGet(v) /\ ~AbortWrite(v) /\ \A p \in Payloads : ~UpdateGet(v, p)
      BY DEF UpdateGet, DeleteGet, AbortWrite
    <3> QED BY <2>1, <3>1, <3>2 DEF Write
  <2>3. v = w
    BY <2>0, <2>2 DEF UpdatePut, WriterGoes
  <2>4. row'.privacy = writer[w].note.privacy
    BY <2>2, <2>3, VersionTypes DEF UpdatePut, Row
  <2> QED BY <2>4 DEF FilledIn
<1> QED BY <1>1, <1>2, <1>3, HistoryCorrect, PTL DEF Spec, OmittedPrivacyKeptUnlessOvertaken
=============================================================================
