--------------------------- MODULE NoteLifecycle ---------------------------
(***************************************************************************)
(* The life of one note: the storage row of one slug, and the requests     *)
(* that read, update, delete and re-create it concurrently.                *)
(*                                                                         *)
(* notes.Manager (internal/usecases/notes) holds no lock and no            *)
(* transaction across its storage calls: every operation reads a snapshot  *)
(* of the row, decides on it, and issues a second, conditional statement.  *)
(* Each statement is one atomic step here, so the gaps between them are    *)
(* where other requests run.  Every statement addresses a single id, hence *)
(* one row stands for all of them.                                         *)
(*                                                                         *)
(* Content, title, content type and ciphertext are abstracted to a version *)
(* number, fresh at each write.  Readers and writers are requests: each    *)
(* runs once.                                                              *)
(***************************************************************************)
EXTENDS Naturals

CONSTANTS
  Readers,     \* read requests that reach notes.Manager (Get, View, ViewPreloaded)
  Writers,     \* authorised PUT and DELETE requests
  Creates,     \* settings a POST may carry
  Payloads,    \* settings a PUT may carry
  ReuseSlug,   \* whether a freed slug may be taken again: custom slugs, not random ones
  MaxVersion,  \* bound: how many versions of the content are ever written
  MaxTime      \* bound: how far the clock runs

Privacy == {"public", "authenticated", "owner"}
Omitted == "omitted"
Never   == 0                                \* a nil ExpiresAt; the clock starts at 1

(* What a request asks for.  life > 0 is a hard expiry that many ticks     *)
(* from now, clear an explicit "ttl": null.                                *)
Settings == [burn: BOOLEAN, ttl: Nat, life: Nat, clear: BOOLEAN,
             privacy: Privacy \cup {Omitted}]

(* CreateNote never sets a hard expiry; a TTL without burn is ignored. *)
CreateSettings(p) ==
  /\ p \in Settings
  /\ p.life = 0 /\ ~p.clear
  /\ p.privacy # Omitted
  /\ ~p.burn => p.ttl = 0

(* noteUpdatePayload: ttl is the grace period with burn, the hard expiry   *)
(* without, and null clears the expiry only without burn.                  *)
UpdateSettings(p) ==
  /\ p \in Settings
  /\ p.burn => p.life = 0 /\ ~p.clear
  /\ ~p.burn => p.ttl = 0
  /\ p.clear => p.life = 0

ASSUME SettingsAssumption ==
  /\ \A p \in Creates : CreateSettings(p)
  /\ \A p \in Payloads : UpdateSettings(p)
  /\ ReuseSlug \in BOOLEAN

ASSUME BoundsAssumption == MaxVersion \in Nat /\ MaxTime \in Nat

VARIABLES
  row,          \* the notes row of the slug; version 0 when there is none
  now,          \* the wall clock, at the granularity of expiries
  reader,       \* the read requests
  writer,       \* the update and delete requests
  lastVersion,  \* history: the last version written
  written,      \* history: the burn settings each version was written with
  served        \* history: the version each read request was given, 0 if none

vars == <<row, now, reader, writer, lastVersion, written, served>>
history == <<lastVersion, written, served>>

Version == 0..MaxVersion

Row == [ver: Version, inc: Version, burn: BOOLEAN, ttl: Nat, expiresAt: Nat,
        privacy: Privacy, views: Nat]

(* inc names the incarnation of the slug: the version its POST wrote.  It  *)
(* stands for edit_code, owner_id and created_at, fixed from then on.      *)
NoRow == [ver |-> 0, inc |-> 0, burn |-> FALSE, ttl |-> 0, expiresAt |-> Never,
          privacy |-> "public", views |-> 0]

ReaderPC == {"idle", "policy", "expire", "timer", "refetch", "consume", "count", "done"}
WriterPC == {"idle", "update", "delete", "done"}
Unwritten == "unwritten"
Kind == {Unwritten, "plain", "immediate", "grace"}

KindOf(p) == IF ~p.burn THEN "plain" ELSE IF p.ttl > 0 THEN "grace" ELSE "immediate"

ReadRequest == [pc: ReaderPC, note: Row, deadline: Nat]
WriteRequest == [pc: WriterPC, note: Row, omitted: BOOLEAN]

TypeOK ==
  /\ row \in Row
  /\ now \in Nat
  /\ reader \in [Readers -> ReadRequest]
  /\ writer \in [Writers -> WriteRequest]
  /\ lastVersion \in Version
  /\ written \in [1..MaxVersion -> Kind]
  /\ served \in [Readers -> Version]

Init ==
  /\ row = NoRow
  /\ now = 1
  /\ reader = [r \in Readers |-> [pc |-> "idle", note |-> NoRow, deadline |-> 0]]
  /\ writer = [w \in Writers |-> [pc |-> "idle", note |-> NoRow, omitted |-> FALSE]]
  /\ lastVersion = 0
  /\ written = [v \in 1..MaxVersion |-> Unwritten]
  /\ served = [r \in Readers |-> 0]

Present == row.ver # 0

(* enforceExpiry's test: strictly after the deadline. *)
Expired(note) == note.expiresAt # Never /\ now > note.expiresAt

(* expires_at IS NOT NULL AND expires_at <= now, as Consume's WHERE has it *)
Lapsed(note) == note.expiresAt # Never /\ note.expiresAt <= now

(* The storage row holds a new version with these burn settings. *)
Record(kind) ==
  /\ lastVersion < MaxVersion
  /\ lastVersion' = lastVersion + 1
  /\ written' = [written EXCEPT ![lastVersion + 1] = kind]

-----------------------------------------------------------------------------
(* Create: one INSERT arbitrated by the primary key.  The slug checks that *)
(* come before it are modelled in SlugNamespace.                           *)

Create(p) ==
  /\ ~Present
  /\ lastVersion = 0 \/ ReuseSlug
  /\ Record(KindOf(p))
  /\ row' = [ver |-> lastVersion + 1, inc |-> lastVersion + 1, burn |-> p.burn,
             ttl |-> p.ttl, expiresAt |-> Never, privacy |-> p.privacy, views |-> 0]
  /\ UNCHANGED <<now, reader, writer, served>>

-----------------------------------------------------------------------------
(* The read request. *)

ReaderGoes(r, pc) == reader' = [reader EXCEPT ![r].pc = pc]
ReaderHolds(r, pc, note) == reader' = [reader EXCEPT ![r].pc = pc, ![r].note = note]
Serve(r, note) == served' = [served EXCEPT ![r] = note.ver]

(* The row is decrypted only after the statement that returned it: when    *)
(* that fails, the reader gets an error though the row has changed.        *)
Deliver(r, pc, note) ==
  \/ ReaderHolds(r, pc, note) /\ Serve(r, note)
  \/ ReaderGoes(r, "done") /\ UNCHANGED served

(* Peek, or the SELECT at the head of Get: the policy is applied later, to *)
(* this snapshot.  A missing row answers ErrNotFound.                      *)
Peek(r) ==
  /\ reader[r].pc = "idle"
  /\ ReaderHolds(r, IF Present THEN "policy" ELSE "done", row)
  /\ UNCHANGED <<row, now, writer, history>>

(* applyPolicy decides on the snapshot alone: an expired one is deleted, a *)
(* burn note is consumed or has its timer started, any other is served.    *)
ApplyPolicy(r) ==
  LET note == reader[r].note IN
  /\ reader[r].pc = "policy"
  /\ \/ /\ Expired(note)
        /\ ReaderGoes(r, "expire")
        /\ UNCHANGED served
     \/ /\ ~Expired(note)
        /\ note.burn /\ note.ttl > 0
        /\ reader' = [reader EXCEPT ![r].pc = "timer", ![r].deadline = now + note.ttl]
        /\ UNCHANGED served
     \/ /\ ~Expired(note)
        /\ note.burn /\ note.ttl = 0
        /\ ReaderGoes(r, "consume")
        /\ UNCHANGED served
     \/ /\ ~Expired(note)
        /\ ~note.burn
        /\ ReaderGoes(r, "count")
        /\ Serve(r, note)
  /\ UNCHANGED <<row, now, writer, lastVersion, written>>

(* enforceExpiry: DELETE WHERE id, whatever the row holds by now.  The     *)
(* caller gets ErrExpired even when the delete fails.                      *)
EnforceExpiry(r) ==
  /\ reader[r].pc = "expire"
  /\ row' = NoRow
  /\ ReaderGoes(r, "done")
  /\ UNCHANGED <<now, writer, history>>

(* UPDATE SET expires_at, burn_after_reading = 0 WHERE id AND              *)
(* burn_after_reading.                                                     *)
TimerEligibleAny == Present
TimerEligible == Present /\ row.burn

TimerStartedStillArmed(note, deadline) == [note EXCEPT !.expiresAt = deadline]
TimerStarted(note, deadline) == [note EXCEPT !.burn = FALSE, !.expiresAt = deadline]

(* startTimer: the reader sees the row that the UPDATE returned. *)
SetBurnExpiry(r) ==
  /\ reader[r].pc = "timer"
  /\ TimerEligible
  /\ row' = TimerStarted(row, reader[r].deadline)
  /\ Deliver(r, "count", row')
  /\ UNCHANGED <<now, writer, lastVersion, written>>

(* No eligible row: somebody else started the timer, or the note is gone.  *)
SetBurnExpiryMissed(r) ==
  /\ reader[r].pc = "timer"
  /\ ~TimerEligible
  /\ ReaderGoes(r, "refetch")
  /\ UNCHANGED <<row, now, writer, history>>

(* handleSetExpiryErr serves the current row as it is: neither its expiry  *)
(* nor its burn flag is looked at again.                                   *)
HandleSetExpiryErr(r) ==
  /\ reader[r].pc = "refetch"
  /\ IF Present
       THEN Deliver(r, IF row.burn THEN "done" ELSE "count", row)
       ELSE ReaderGoes(r, "done") /\ UNCHANGED served
  /\ UNCHANGED <<row, now, writer, lastVersion, written>>

Consumable == Present /\ (row.burn \/ Lapsed(row))

ConsumeOrSnapshot(r) ==
  /\ reader[r].pc = "consume"
  /\ row' = IF Consumable THEN NoRow ELSE row
  /\ ReaderGoes(r, "done")
  /\ Serve(r, IF Consumable THEN row ELSE reader[r].note)
  /\ UNCHANGED <<now, writer, lastVersion, written>>

ConsumeAny(r) ==
  /\ reader[r].pc = "consume"
  /\ Present
  /\ row' = NoRow
  /\ ReaderGoes(r, "done")
  /\ Serve(r, row)
  /\ UNCHANGED <<now, writer, lastVersion, written>>

ConsumeLeavesRow(r) ==
  /\ reader[r].pc = "consume"
  /\ Consumable
  /\ ReaderGoes(r, "done")
  /\ Serve(r, row)
  /\ UNCHANGED <<row, now, writer, lastVersion, written>>

(* DELETE WHERE id AND (burn_after_reading OR expired) RETURNING: the row  *)
(* itself arbitrates between readers.  The losers answer ErrNotFound.      *)
Consume(r) ==
  /\ reader[r].pc = "consume"
  /\ IF Consumable
       THEN /\ row' = NoRow
            /\ Deliver(r, IF row.burn THEN "done" ELSE "count", row)
       ELSE /\ ReaderGoes(r, "done")
            /\ UNCHANGED <<row, served>>
  /\ UNCHANGED <<now, writer, lastVersion, written>>

(* applyViewIncrement: UPDATE SET views = views + 1 WHERE id.  A missing   *)
(* row is logged and the note is still returned.                           *)
ApplyViewIncrement(r) ==
  /\ reader[r].pc = "count"
  /\ row' = IF Present THEN [row EXCEPT !.views = @ + 1] ELSE row
  /\ ReaderGoes(r, "done")
  /\ UNCHANGED <<now, writer, history>>

(* A cancelled context, a storage error, a failed decryption or a crash    *)
(* ends the request between two statements.                                *)
AbortRead(r) ==
  /\ reader[r].pc \notin {"idle", "done"}
  /\ ReaderGoes(r, "done")
  /\ UNCHANGED <<row, now, writer, history>>

-----------------------------------------------------------------------------
(* The writing requests. *)

WriterGoes(w, pc) == writer' = [writer EXCEPT ![w].pc = pc]

(* resolveExpiryTime, on the row that Update read at its start. *)
ResolveExpiry(p, existing) ==
  IF p.clear THEN Never
  ELSE IF p.life > 0 THEN now + p.life
  ELSE IF p.ttl = 0 /\ existing.ttl > 0 THEN Never
  ELSE existing.expiresAt

BackfillNothing(p, existing) == p.privacy

(* What the caller omitted is filled in from the row that Update read. *)
Backfill(p, existing) == IF p.privacy = Omitted THEN existing.privacy ELSE p.privacy

(* Update's first half: SELECT, authorise, validate, and fill in what the  *)
(* caller omitted from the row just read.                                  *)
UpdateGet(w, p) ==
  /\ writer[w].pc = "idle"
  /\ Present
  /\ writer' = [writer EXCEPT ![w] =
       [pc |-> "update",
        note |-> [row EXCEPT !.burn = p.burn, !.ttl = p.ttl,
                             !.expiresAt = ResolveExpiry(p, row),
                             !.privacy = Backfill(p, row)],
        omitted |-> p.privacy = Omitted]]
  /\ UNCHANGED <<row, now, reader, history>>

UpdatePutAllColumns(w) ==
  LET note == writer[w].note IN
  /\ writer[w].pc = "update"
  /\ Present
  /\ Record(KindOf(note))
  /\ row' = [note EXCEPT !.ver = lastVersion + 1, !.inc = row.inc]
  /\ WriterGoes(w, "done")
  /\ UNCHANGED <<now, reader, served>>

(* Update's second half: UPDATE of the editable columns WHERE id.  Views,  *)
(* owner, edit code and creation time are not in the column list.          *)
UpdatePut(w) ==
  LET note == writer[w].note IN
  /\ writer[w].pc = "update"
  /\ Present
  /\ Record(KindOf(note))
  /\ row' = [note EXCEPT !.ver = lastVersion + 1, !.inc = row.inc, !.views = row.views]
  /\ WriterGoes(w, "done")
  /\ UNCHANGED <<now, reader, served>>

DeleteGet(w) ==
  /\ writer[w].pc = "idle"
  /\ Present
  /\ writer' = [writer EXCEPT ![w].pc = "delete", ![w].note = row]
  /\ UNCHANGED <<row, now, reader, history>>

DeletePut(w) ==
  /\ writer[w].pc = "delete"
  /\ row' = NoRow
  /\ WriterGoes(w, "done")
  /\ UNCHANGED <<now, reader, history>>

(* The row is gone (ErrNotFound), the context is cancelled, or storage     *)
(* fails: nothing is written.                                              *)
AbortWrite(w) ==
  /\ writer[w].pc \in {"update", "delete"}
  /\ WriterGoes(w, "done")
  /\ UNCHANGED <<row, now, reader, history>>

Tick ==
  /\ now < MaxTime
  /\ now' = now + 1
  /\ UNCHANGED <<row, reader, writer, history>>

-----------------------------------------------------------------------------
Read(r) ==
  \/ Peek(r)
  \/ ApplyPolicy(r)
  \/ EnforceExpiry(r)
  \/ SetBurnExpiry(r)
  \/ SetBurnExpiryMissed(r)
  \/ HandleSetExpiryErr(r)
  \/ Consume(r)
  \/ ApplyViewIncrement(r)
  \/ AbortRead(r)

Write(w) ==
  \/ \E p \in Payloads : UpdateGet(w, p)
  \/ UpdatePut(w)
  \/ DeleteGet(w)
  \/ DeletePut(w)
  \/ AbortWrite(w)

Next ==
  \/ \E p \in Creates : Create(p)
  \/ \E r \in Readers : Read(r)
  \/ \E w \in Writers : Write(w)
  \/ Tick

Spec == Init /\ [][Next]_vars

-----------------------------------------------------------------------------
(* Properties. *)

(* A version written as burn-after-reading with no grace period reaches at *)
(* most one reader, whatever readers, updates and deletes interleave       *)
(* (README: "Note is deleted the moment it's first read").                 *)
ImmediateBurnAtMostOnce ==
  \A r1, r2 \in Readers :
    /\ served[r1] # 0 /\ served[r1] = served[r2]
    /\ written[served[r1]] = "immediate"
    => r1 = r2

(* Once an immediate-burn version was given to a reader, the store never   *)
(* holds it: no update or view count in flight brings it back.             *)
ServedBurnIsGone ==
  \A r \in Readers :
    served[r] # 0 /\ written[served[r]] = "immediate" => row.ver # served[r]

(* A read destroys the row only when the row itself, as it stands at that  *)
(* moment, burns on reading or is past its expiry (Manager.Get: "If the    *)
(* note has expired it is deleted").                                       *)
ReadsDestroyOnlyDueNotes ==
  [][Present /\ row'.ver = 0 /\ writer' = writer => row.burn \/ Lapsed(row)]_vars

(* No update forgets views counted since it read the row: within one       *)
(* incarnation of the slug the counter never goes down.                    *)
ViewsSurviveUpdates ==
  [][Present /\ row'.inc = row.inc => row'.views >= row.views]_vars

(* A started burn timer is started once: while the version stays, no later *)
(* or slower first reader moves its deadline or re-arms it.                *)
GraceDeadlineFixed ==
  [][Present /\ row'.ver = row.ver /\ ~row.burn
       => ~row'.burn /\ row'.expiresAt = row.expiresAt]_vars

(* A grace-period note that anybody has read has its timer running: no     *)
(* reader gets the content for free.                                       *)
GraceReadStartsTimer ==
  \A r \in Readers :
    served[r] # 0 /\ served[r] = row.ver /\ written[row.ver] = "grace"
      => ~row.burn /\ row.expiresAt # Never

(* An update whose caller omits privacy leaves the stored privacy as it is *)
(* (Update: "COALESCE keeps the stored value when the caller omitted it"). *)
OmittedPrivacyKept ==
  [][\A w \in Writers :
       /\ writer[w].pc = "update" /\ writer[w].omitted
       /\ Present /\ row'.ver # row.ver /\ writer'[w].pc = "done"
       /\ row'.ver # 0
       => row'.privacy = row.privacy]_vars

(* The row and the storage calls implement the promise of BurnOnce. *)
Promise == INSTANCE BurnOnce WITH
  Versions  <- 1..MaxVersion,
  current   <- row.ver,
  published <- 1..lastVersion,
  fragile   <- {v \in 1..MaxVersion : written[v] = "immediate"}

KeepsPromise == Promise!Spec
=============================================================================
