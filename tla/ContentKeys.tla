----------------------------- MODULE ContentKeys -----------------------------
(* usecases/contentkeys with its repository: the rows of notes and links   *)
(* as encrypted values, the registry of the installation, replicas that    *)
(* migrate when they start, and the maintenance commands.  Each step of a  *)
(* process is one statement or transaction; a batch is read at once and    *)
(* its rows are written one by one, each while it still holds what was     *)
(* read.                                                                   *)
EXTENDS Naturals, FiniteSets

CONSTANTS
  Servers,    \* replicas
  Admin,      \* the process of the maintenance commands
  Old, New,   \* the keys of the installed keyring
  Stray,      \* another key under the ID of Old, of a keyring made afresh
  None,
  N,          \* slugs are 1..N
  BatchSize,  \* batchSize
  MaxWrites,  \* bound: writes of clients
  MaxRuns     \* bound: runs of processes

ASSUME ContentKeysAssumption ==
  /\ Admin \notin Servers
  /\ Old # New /\ Old # Stray /\ New # Stray /\ None \notin {Old, New, Stray}
  /\ {Old, New, Stray} \cap {"raw", "plain", "loose", "note16", "failed"} = {}
  /\ N \in Nat \ {0} /\ BatchSize \in Nat \ {0}
  /\ MaxWrites \in Nat /\ MaxRuns \in Nat

VARIABLES
  rows,     \* by record ID
  registry, \* content_encryption_state with content_encryption_keys
  file,     \* the installed keyring file
  proc,
  removed,  \* history: the keys that were removed from the file
  expected, \* history: the texts that clients, and prune, have left
  writes, runs

vars == <<rows, registry, file, proc, removed, expected, writes, runs>>

(* In the order of the scans the ID of a v0.1.6 note, its slug, comes      *)
(* before or after the hash that it is to have.                            *)
Plain(s) == 2 * s
Hash(s)  == 2 * (N + 1 - s) + 1
Ids      == 2 .. 2 * N + 1
HashIds  == {Hash(s) : s \in 1..N}
Target(i) == Hash(i \div 2)

(* The texts of the original rows are their IDs.                           *)
Texts == 2 .. 2 * N + 1 + MaxWrites

Keys  == {Old, New, Stray}
Id(k) == IF k = Stray THEN Old ELSE k
Ring  == [active: Keys, keys: SUBSET Keys]
StrayRing == [active |-> Stray, keys |-> {Stray}]

(* tagged: v0.1.6 plaintext, marked for conversion; note16: not marked;    *)
(* loose: neither an envelope nor legacy ciphertext; cipher: legacy        *)
(* ciphertext; wrapped and native: envelopes of kind l and p; wrecked:     *)
(* an envelope whose content can never be read.                            *)
Forms == {"tagged", "note16", "loose", "cipher", "wrapped", "native", "wrecked"}
NoRow == [form |-> "absent", text |-> 0, key |-> None]
Envelopes == {"wrapped", "native", "wrecked"}
Row == [form: Forms \ Envelopes, text: Texts, key: {None}] \cup [form: Envelopes, text: Texts, key: Keys]

Present == {i \in Ids : rows[i] # NoRow}
Versioned(r) == r.form \in Envelopes
(* What Replace and Delete compare: the tag is a column of its own.        *)
Value(r) == IF r.form \in {"tagged", "note16", "loose"} THEN <<"raw", r.text, r.key>>
            ELSE <<r.form, r.text, r.key>>

NoRegistry == [phase |-> "uninitialized", checks |-> {}]

Down == [op |-> "none", pc |-> "down", ring |-> [active |-> Old, keys |-> {}],
         phase |-> "uninitialized", found |-> {}, at |-> 0, batch |-> {}]

Commands == {"migrate", "rewrap", "convert", "prune", "mark", "register", "activate", "remove"}
Scans    == {"bindScan", "statusScan", "finalScan"}
Stages   == Scans \cup {"down", "begin", "bind", "pending", "walk", "ready", "serving",
                        "refused", "get", "put", "insert", "write"}
Findings == {"raw", "plain", "loose", "note16", "failed"} \cup Keys

Process ==
  [op: Commands \cup {"serve", "none"}, pc: Stages, ring: Ring,
   phase: {"uninitialized", "pending", "ready"}, found: SUBSET Findings,
   at: Nat, batch: SUBSET [id: Ids, row: Row]]

TypeOK ==
  /\ rows \in [Ids -> Row \cup {NoRow}]
  /\ registry \in [phase: {"uninitialized", "pending", "ready"}, checks: SUBSET Keys]
  /\ file \in Ring
  /\ proc \in [Servers \cup {Admin} -> Process]
  /\ removed \subseteq Keys
  /\ expected \subseteq Texts
  /\ writes \in 0..MaxWrites
  /\ runs \in 0..MaxRuns

(* A database of any release.  A slug is free, or has a v0.1.6 note, or a  *)
(* raw value or an envelope under its hash, or both a note and an envelope. *)
Original(form, i) ==
  [form |-> form, text |-> i, key |-> IF form \in {"wrapped", "native"} THEN Old ELSE None]

Histories == {<<"absent", "absent">>, <<"tagged", "absent">>, <<"note16", "absent">>,
              <<"loose", "absent">>, <<"absent", "cipher">>, <<"absent", "wrapped">>,
              <<"absent", "native">>, <<"tagged", "native">>}

Init ==
  /\ \E h \in [1..N -> Histories] :
       rows = [i \in Ids |->
         LET form == IF i \in HashIds THEN h[N + 1 - i \div 2][2] ELSE h[i \div 2][1] IN
         IF form = "absent" THEN NoRow ELSE Original(form, i)]
  /\ \/ registry = NoRegistry
     \/ registry = [phase |-> IF \A i \in Present : Versioned(rows[i]) THEN "ready" ELSE "pending",
                    checks |-> {Old}]
  /\ file = [active |-> Old, keys |-> {Old}]
  /\ proc = [p \in Servers \cup {Admin} |-> Down]
  /\ removed = {}
  /\ expected = {rows[i].text : i \in Present}
  /\ writes = 0 /\ runs = 0

data    == <<rows, expected, writes>>
Goes(p, pc) == proc' = [proc EXCEPT ![p].pc = pc, ![p].found = {}, ![p].at = 0, ![p].batch = {}]

(* A command is over; a start-up that failed leaves the replica refused.   *)
Ends(p) == proc' = [proc EXCEPT ![p] = IF p = Admin THEN Down ELSE [Down EXCEPT !.pc = "refused"]]

-----------------------------------------------------------------------------
(* The operators' side. *)

(* validateContentEncryption when a replica starts, with the installed     *)
(* keyring file or with one that it had to create.                         *)
Start(s) ==
  /\ proc[s].pc \in {"down", "refused"}
  /\ proc[Admin].op \in {"none", "rewrap", "convert"}
  /\ runs < MaxRuns
  /\ \E r \in {file, StrayRing} :
       proc' = [proc EXCEPT ![s] = [Down EXCEPT !.op = "serve", !.pc = "begin", !.ring = r]]
  /\ runs' = runs + 1
  /\ UNCHANGED <<data, registry, file, removed>>

(* The maintenance window; rewrap and convert also run beside replicas     *)
(* that have the installed keyring, for "CAS protects individual rows".    *)
Window(op) == \A s \in Servers :
  \/ proc[s].pc \in {"down", "refused"}
  \/ op \in {"rewrap", "convert"} /\ proc[s].ring = file

Command(op) ==
  /\ proc[Admin].pc = "down"
  /\ Window(op)
  /\ runs < MaxRuns
  /\ op \in {"register", "activate"} => New \in file.keys
  /\ op = "remove" => Old \in file.keys /\ file.active # Old
  /\ proc' = [proc EXCEPT ![Admin] =
       [Down EXCEPT !.op = op, !.pc = "begin",
                    !.ring = IF op = "activate" THEN [file EXCEPT !.active = New] ELSE file]]
  /\ runs' = runs + 1
  /\ UNCHANGED <<data, registry, file, removed>>

(* key-add touches the file only. *)
AddKey ==
  /\ proc[Admin].pc = "down"
  /\ New \notin file.keys \cup removed
  /\ file' = [file EXCEPT !.keys = @ \cup {New}]
  /\ UNCHANGED <<data, registry, proc, removed, runs>>

(* key-activate and key-remove write the file that they checked. *)
WriteKeyring ==
  /\ proc[Admin].pc = "write"
  /\ IF proc[Admin].op = "activate"
       THEN file' = proc[Admin].ring /\ UNCHANGED removed
       ELSE file' = [file EXCEPT !.keys = @ \ {Old}] /\ removed' = removed \cup {Old}
  /\ Ends(Admin)
  /\ UNCHANGED <<data, registry, runs>>

Crash(p) ==
  /\ proc[p].pc # "down"
  /\ proc' = [proc EXCEPT ![p] = Down]
  /\ UNCHANGED <<data, registry, file, removed, runs>>

-----------------------------------------------------------------------------
(* The registry. *)

(* validateKeys; validateActiveKeys wants the active key's check, too. *)
Fits(ring) == \A k \in ring.keys, c \in registry.checks : Id(c) = Id(k) => c = k
ActiveNamed(ring) == \E c \in registry.checks : Id(c) = Id(ring.active)
ActiveFits(ring) == Fits(ring) /\ \E c \in registry.checks : Id(c) = Id(ring.active)

(* initialize, or the checks that an operation without it makes. *)
ReadRegistry(p) ==
  LET op == proc[p].op
      fits == IF op \in {"register", "prune"} THEN Fits(proc[p].ring) ELSE ActiveFits(proc[p].ring) IN
  /\ proc[p].pc = "begin"
  /\ CASE op = "mark" -> Goes(p, "get")
       [] op # "mark" /\ registry = NoRegistry ->
            IF op \in {"serve", "migrate", "remove"} THEN Goes(p, "bindScan")
            ELSE IF op = "prune" THEN Goes(p, "statusScan") ELSE Ends(p)
       [] op # "mark" /\ registry # NoRegistry ->
            IF ~fits THEN Ends(p)
            ELSE IF op = "migrate" THEN Goes(p, "pending")
            ELSE proc' = [proc EXCEPT ![p].pc = "statusScan", ![p].phase = registry.phase]
  /\ UNCHANGED <<data, registry, file, removed, runs>>

BoundPhase(found) == IF found \cap {"raw", "plain", "loose"} = {} THEN "ready" ELSE "pending"

BindOrFail(p) ==
  /\ proc[p].pc = "bind"
  /\ IF registry = NoRegistry
       THEN /\ registry' = [phase |-> BoundPhase(proc[p].found), checks |-> proc[p].ring.keys]
            /\ Goes(p, "begin")
       ELSE UNCHANGED registry /\ Ends(p)
  /\ UNCHANGED <<data, file, removed, runs>>
(* Initialize: one transaction, which leaves the registry of another       *)
(* initializer alone; the registry is then read again.                     *)
Bind(p) ==
  /\ proc[p].pc = "bind"
  /\ registry' = IF registry = NoRegistry
                   THEN [phase |-> BoundPhase(proc[p].found), checks |-> proc[p].ring.keys]
                   ELSE registry
  /\ Goes(p, "begin")
  /\ UNCHANGED <<data, file, removed, runs>>

(* Register, after the checks. *)
Insert ==
  /\ proc[Admin].pc = "insert"
  /\ registry' = [registry EXCEPT !.checks = @ \cup {New}]
  /\ Ends(Admin)
  /\ UNCHANGED <<data, file, removed, runs>>

SetPending(p) ==
  /\ proc[p].pc = "pending"
  /\ registry' = [registry EXCEPT !.phase = "pending"]
  /\ Goes(p, "walk")
  /\ UNCHANGED <<data, file, removed, runs>>

SetReady(p) ==
  /\ proc[p].pc = "ready"
  /\ registry' = [registry EXCEPT !.phase = "ready"]
  /\ IF p = Admin THEN Ends(p) ELSE Goes(p, "serving")
  /\ UNCHANGED <<data, file, removed, runs>>

-----------------------------------------------------------------------------
(* Status. *)

Batch(at) == {i \in Present : i > at /\ Cardinality({j \in Present : at < j /\ j < i}) < BatchSize}
Last(ids) == CHOOSE i \in ids : \A j \in ids : j <= i

(* inspect, with the keyring of the process. *)
Inspect(r, ring) ==
  CASE r.form = "tagged" -> "plain"
    [] r.form = "cipher" -> "raw"
    [] r.form \in {"note16", "loose"} -> r.form
    [] Versioned(r) -> IF r.key \in ring.keys /\ (registry = NoRegistry \/ r.key \in registry.checks)
                         THEN r.key ELSE "failed"

ScanBatch(p) ==
  /\ proc[p].pc \in Scans
  /\ Batch(proc[p].at) # {}
  /\ proc' = [proc EXCEPT
       ![p].found = @ \cup {Inspect(rows[i], proc[p].ring) : i \in Batch(proc[p].at)},
       ![p].at = Last(Batch(proc[p].at))]
  /\ UNCHANGED <<data, registry, file, removed, runs>>

Failures == {"loose", "note16", "failed"}
Unready(p) == proc[p].phase # "ready" \/ proc[p].found \cap {"raw", "plain"} # {}

NothingReferenced(p) == FALSE
(* CanRemove. *)
StillReferenced(p) == proc[p].op = "remove" /\ Old \in proc[p].found

(* What MigrateIfNeeded, Migrate, PrepareServe, CanRemove, readyReport,    *)
(* Register and PruneCorrupt make of the report.                           *)
AfterStatus(p) ==
  LET op == proc[p].op
      found == proc[p].found IN
  CASE op = "prune" -> IF found \cap {"note16", "failed"} = {} THEN "walk" ELSE "refused"
    [] op # "prune" /\ found \cap Failures # {} -> "refused"
    [] op = "serve" /\ found \cap Failures = {} -> IF Unready(p) THEN "pending" ELSE "serving"
    [] op = "register" /\ found \cap Failures = {} -> "insert"
    [] OTHER -> IF Unready(p) \/ StillReferenced(p) THEN "refused"
                ELSE CASE op = "rewrap" -> "walk" [] op = "convert" -> "get" [] OTHER -> "write"

FinalPassesPlaintext(found) == found \cap (Failures \cup {"raw"}) = {}
(* Every row validates, and none is left to migrate. *)
FinalPasses(found) == found \cap (Failures \cup {"raw", "plain"}) = {}

EndScan(p) ==
  LET found == proc[p].found
      next == CASE proc[p].pc = "bindScan" -> IF found \cap {"note16", "failed"} = {} THEN "bind" ELSE "refused"
                [] proc[p].pc = "statusScan" -> AfterStatus(p)
                [] proc[p].pc = "finalScan" -> IF FinalPasses(found) THEN "ready" ELSE "refused" IN
  /\ proc[p].pc \in Scans
  /\ Batch(proc[p].at) = {}
  /\ CASE next = "refused" -> Ends(p)
       [] next = "bind" -> proc' = [proc EXCEPT ![p].pc = "bind", ![p].at = 0]
       [] OTHER -> Goes(p, next)
  /\ UNCHANGED <<data, registry, file, removed, runs>>

-----------------------------------------------------------------------------
(* The walks that write. *)

ReadBatch(p) ==
  /\ proc[p].pc = "walk" /\ proc[p].batch = {}
  /\ IF Batch(proc[p].at) # {}
       THEN proc' = [proc EXCEPT
              ![p].batch = {[id |-> i, row |-> rows[i]] : i \in Batch(proc[p].at)},
              ![p].at = Last(Batch(proc[p].at))]
       ELSE IF proc[p].op \in {"serve", "migrate"} THEN Goes(p, "finalScan") ELSE Ends(p)
  /\ UNCHANGED <<data, registry, file, removed, runs>>

Exists(e) == rows[e.id] # NoRow
(* The row still holds the value that was read. *)
Holds(e) == Value(rows[e.id]) = Value(e.row)

Replace(e, row) == rows' = IF Holds(e) THEN [rows EXCEPT ![e.id] = row] ELSE rows

TargetFree(i) == rows[Target(i)] = NoRow

ConvertWithoutSealing(e, ring) ==
  rows' = IF rows[e.id] = e.row /\ TargetFree(e.id)
            THEN [rows EXCEPT ![e.id] = NoRow, ![Target(e.id)] = [e.row EXCEPT !.form = "native"]]
            ELSE rows
(* ConvertLegacy: one UPDATE that moves the note to its hashed ID, unless  *)
(* the note has changed or the ID is taken.                                *)
ConvertLegacy(e, ring) ==
  rows' = IF rows[e.id] = e.row /\ TargetFree(e.id)
            THEN [rows EXCEPT ![e.id] = NoRow,
                    ![Target(e.id)] = [form |-> "native", text |-> e.row.text, key |-> ring.active]]
            ELSE rows

SkippedUntil016(r) == Versioned(r) \/ r.form = "loose"
(* Not raw legacy ciphertext: WrapLegacy would fail, or must not be tried. *)
Skipped(r) == Versioned(r) \/ r.form \in {"loose", "note16"}

MigrateRow(e, ring) ==
  IF e.row.form = "tagged" THEN ConvertLegacy(e, ring)
  ELSE IF Skipped(e.row) THEN UNCHANGED rows
  ELSE Replace(e, [e.row EXCEPT !.form = IF @ = "cipher" THEN "wrapped" ELSE "wrecked", !.key = ring.active])

(* Rewrap meets only rows that readyReport has opened. *)
VisitRow(p) ==
  /\ proc[p].pc = "walk"
  /\ \E e \in proc[p].batch :
       /\ \A f \in proc[p].batch : e.id <= f.id
       /\ \/ /\ proc[p].op \in {"serve", "migrate"}
             /\ MigrateRow(e, proc[p].ring)
             /\ UNCHANGED expected
          \/ /\ proc[p].op = "rewrap"
             /\ Replace(e, [e.row EXCEPT !.key = proc[p].ring.active])
             /\ UNCHANGED expected
          \/ /\ proc[p].op = "prune"
             /\ IF e.row.form = "loose" /\ Holds(e)
                  THEN rows' = [rows EXCEPT ![e.id] = NoRow] /\ expected' = expected \ {e.row.text}
                  ELSE UNCHANGED <<rows, expected>>
       /\ proc' = [proc EXCEPT ![p].batch = @ \ {e}]
  /\ UNCHANGED <<registry, file, removed, writes, runs>>

(* convert, given one slug, and mark-legacy, given one ID. *)
Get ==
  /\ proc[Admin].pc = "get"
  /\ \E i \in Present :
       /\ IF proc[Admin].op = "mark" THEN rows[i].form \in {"note16", "loose"} ELSE i \in HashIds
       /\ proc' = [proc EXCEPT ![Admin].pc = "put", ![Admin].batch = {[id |-> i, row |-> rows[i]]}]
  /\ UNCHANGED <<data, registry, file, removed, runs>>

Put ==
  /\ proc[Admin].pc = "put"
  /\ \E e \in proc[Admin].batch :
       IF proc[Admin].op = "mark" THEN Replace(e, [e.row EXCEPT !.form = "tagged"])
       ELSE IF e.row.form = "wrapped"
         THEN Replace(e, [e.row EXCEPT !.form = "native", !.key = proc[Admin].ring.active])
         ELSE UNCHANGED rows
  /\ Ends(Admin)
  /\ UNCHANGED <<registry, file, removed, expected, writes, runs>>

-----------------------------------------------------------------------------
(* Clients of a replica: a note or link is created, updated or deleted,    *)
(* each by one statement on the row of the slug's hash.                    *)
Write(s, i) ==
  LET new == [form |-> "native", text |-> 2 * N + 2 + writes, key |-> proc[s].ring.active] IN
  /\ proc[s].pc = "serving"
  /\ writes < MaxWrites
  /\ writes' = writes + 1
  /\ \/ rows' = [rows EXCEPT ![i] = new] /\ expected' = (expected \ {rows[i].text}) \cup {new.text}
     \/ /\ rows[i] # NoRow
        /\ rows' = [rows EXCEPT ![i] = NoRow] /\ expected' = expected \ {rows[i].text}
  /\ UNCHANGED <<registry, file, proc, removed, runs>>

-----------------------------------------------------------------------------
Runs(p) ==
  \/ ReadRegistry(p) \/ Bind(p) \/ SetPending(p) \/ SetReady(p)
  \/ ScanBatch(p) \/ EndScan(p) \/ ReadBatch(p) \/ VisitRow(p)

Next ==
  \/ \E s \in Servers : Start(s) \/ \E i \in HashIds : Write(s, i)
  \/ \E op \in Commands : Command(op)
  \/ AddKey \/ WriteKeyring \/ Insert \/ Get \/ Put
  \/ \E p \in Servers \cup {Admin} : Runs(p) \/ Crash(p)

Spec == Init /\ [][Next]_vars

-----------------------------------------------------------------------------
(* A replica that serves can read every row: nothing is left unconverted,  *)
(* nothing is under a key that its keyring does not have                   *)
(* (MigrateIfNeeded: "Ready is persisted only after every row validates"). *)
ServersReadEverything ==
  \A s \in Servers : proc[s].pc = "serving" =>
    \A i \in Present : Versioned(rows[i]) /\ rows[i].key \in proc[s].ring.keys

(* Whatever starts, commands and crashes interleave with the clients'      *)
(* writes, each text that was left in the database is in one readable row, *)
(* and no other text is.                                                   *)
NothingLost == \A t \in expected : \E i \in Present : rows[i].text = t /\ rows[i].form # "wrecked"
NothingComesBack ==
  \A i \in Present : rows[i].text \in expected /\ \A j \in Present \ {i} : rows[j].text # rows[i].text

(* An installation has one key under an ID, that of the keyring which was  *)
(* registered first, and every envelope is under a registered key          *)
(* ("Existing checks can never be overwritten").                           *)
KeysAreRegistered ==
  registry # NoRegistry =>
    /\ \A a, b \in registry.checks : Id(a) = Id(b) => a = b
    /\ \A i \in Present : Versioned(rows[i]) => rows[i].key \in registry.checks

(* No row is under a key that was removed from the keyring (CanRemove).    *)
RemovedKeysUnused == \A i \in Present : rows[i].key \notin removed

(* A start-up is refused only for what an operator has to resolve: a       *)
(* keyring that does not fit, a row in need of a command, or a note whose  *)
(* ID is taken.  Another replica that starts is no reason                  *)
(* (MigrateIfNeeded, "interrupted migrations resume").                     *)
NeedsOperator(ring) ==
  \/ registry # NoRegistry /\ ~ActiveFits(ring)
  \/ \E i \in Present :
       \/ rows[i].form \in {"note16", "loose"}
       \/ rows[i].form = "tagged" /\ ~TargetFree(i)
       \/ Versioned(rows[i]) /\ rows[i].key \notin ring.keys

RefusedForCause ==
  [][\A s \in Servers :
       proc[s].op = "serve" /\ proc'[s].pc = "refused" => NeedsOperator(proc[s].ring)]_vars
=============================================================================
