------------------------- MODULE ContentKeysRefusals -------------------------
(* A replica that does not start has met something that an operator has to *)
(* resolve: what the scans and the walk of a start-up have found is still  *)
(* there when it is refused, whatever other replicas and commands have     *)
(* done meanwhile.                                                         *)
EXTENDS ContentKeysProofs

USE ContentKeysAssumption

(* New is used once it is active; Old is gone only when it was removed;    *)
(* a replica that has the installed keyring has Old as long as the file.   *)
KeyInv ==
  /\ file.active = Old => \A i \in Present : rows[i].key # New
  /\ Old \in file.keys \cup removed
  /\ \A s \in Servers : proc[s].op = "serve" =>
       proc[s].ring = StrayRing \/ (Old \in file.keys => Old \in proc[s].ring.keys)

(* What a scan of s has found to be wrong is so still. *)
Unread(s) == \E i \in Present : Versioned(rows[i]) /\ rows[i].key \notin proc[s].ring.keys
Remaining(s) ==
  /\ \A f \in {"note16", "loose"} \cap proc[s].found : \E i \in Present : rows[i].form = f
  /\ "failed" \in proc[s].found =>
       IF registry = NoRegistry THEN Unread(s) ELSE ~ActiveFits(proc[s].ring)

(* The walk of a start-up leaves no raw ciphertext behind, and of the      *)
(* marked notes only those whose hash is taken.                            *)
Stuck(i) == rows[i].form = "tagged" /\ ~TargetFree(i)
Done(i) == rows[i].form \in {"tagged", "cipher"} => Stuck(i)
Walked(s) ==
  /\ \A e \in proc[s].batch : rows[e.id].form \in {"tagged", "cipher"} => rows[e.id] = e.row
  /\ \A i \in Present : i <= proc[s].at => Done(i) \/ \E e \in proc[s].batch : e.id = i
WalkedAll(s) ==
  /\ \A i \in Present : Done(i)
  /\ "raw" \notin proc[s].found
  /\ "plain" \in proc[s].found => \E i \in Present : Stuck(i)

StartInv == \A s \in Servers : proc[s].op = "serve" =>
  /\ proc[s].pc \in Scans => Remaining(s)
  /\ proc[s].pc = "walk" => Walked(s)
  /\ proc[s].pc = "finalScan" => WalkedAll(s)

RInv == IInv /\ PlainInv /\ KeyInv /\ StartInv

-----------------------------------------------------------------------------
LEMMA KeyStep ==
  ASSUME IInv, KeyInv, [Next]_vars
  PROVE  KeyInv'
<1>0. TypeOK /\ PlanInv /\ TextInv /\ ScanInv /\ RingInv /\ Admin \in Procs /\ Servers \subseteq Procs /\ Admin \notin Servers
  BY Parts
<1>1. CASE WriteKeyring
  <2>1. rows' = rows /\ IsOver(Admin)
    BY <1>0, <1>1, AdminEnds DEF WriteKeyring, data
  <2>2. proc[Admin].pc = "write" /\ proc[Admin].op \in {"activate", "remove"}
    BY <1>0, <1>1, StagesOf DEF WriteKeyring
  <2>3. \A s \in Servers : proc'[s].op = "none"
    BY <1>0, <2>1, <2>2 DEF IsOver, Others, PlanInv
  <2>4. CASE proc[Admin].op = "activate"
    <3>1. file' = proc[Admin].ring /\ removed' = removed
      BY <1>1, <2>4 DEF WriteKeyring
    <3>2. file'.active = New /\ file'.keys = file.keys
      BY <2>4, <3>1, <1>0 DEF RingInv
    <3> QED BY <2>3, <3>1, <3>2 DEF KeyInv
  <2>5. CASE proc[Admin].op = "remove"
    <3>1. file' = [file EXCEPT !.keys = @ \ {Old}] /\ removed' = removed \cup {Old}
      BY <1>1, <2>5 DEF WriteKeyring
    <3>2. file'.active = file.active /\ file'.keys = file.keys \ {Old}
      BY <1>0, <3>1 DEF TypeOK, Ring
    <3> QED BY <2>1, <2>3, <3>1, <3>2 DEF KeyInv, Present
  <2> QED BY <2>2, <2>4, <2>5
<1>2. CASE ~WriteKeyring
  <2>1. file'.active = file.active /\ file.keys \subseteq file'.keys /\ file'.keys \subseteq file.keys \cup {New}
        /\ removed' = removed
    <3>1. CASE AddKey
      BY <1>0, <3>1 DEF AddKey, TypeOK, Ring
    <3> QED BY <1>2, <3>1, FileKept
  <2>2. ASSUME file'.active = Old, NEW i \in Present' PROVE rows'[i].key # New
    <3>1. CASE i \in Present /\ rows'[i] = rows[i]
      BY <2>1, <2>2, <3>1 DEF KeyInv
    <3>2. CASE Resealed(i)
      <4>1. PICK q \in Procs : Seals(q) /\ rows'[i].key = proc[q].ring.active
        BY <3>2 DEF Resealed
      <4>2. CASE q \in Servers
        <5>1. StrayRing.active = Stray
          BY DEF StrayRing
        <5>2. proc[q].op = "serve"
          BY <1>0, <4>1, <4>2 DEF PlanInv, Seals
        <5> QED BY <1>0, <2>1, <2>2, <4>1, <4>2, <5>1, <5>2 DEF RingInv
      <4>3. CASE q = Admin
        BY <1>0, <2>1, <2>2, <4>1, <4>3 DEF RingInv, Seals
      <4> QED BY <4>2, <4>3 DEF Procs
    <3>3. CASE Marked(i)
      BY <3>3 DEF Marked
    <3> QED BY <1>0, <3>1, <3>2, <3>3, RowsFrom
  <2>3. ASSUME NEW s \in Servers, proc'[s].op = "serve"
        PROVE  proc'[s].ring = StrayRing \/ (Old \in file'.keys => Old \in proc'[s].ring.keys)
    <3>1. CASE Beginning
      <4>1. UNCHANGED file
        BY <3>1 DEF Beginning, Start, Command
      <4>2. PICK t \in Procs : Others(t) /\ (t = s => proc'[s].ring = file \/ proc'[s].ring = StrayRing)
        <5>1. ASSUME NEW t \in Servers, Start(t)
              PROVE Others(t) /\ (t = s => proc'[s].ring = file \/ proc'[s].ring = StrayRing)
          BY <1>0, <5>1, StartBegins DEF Begins
        <5>2. ASSUME NEW op \in Commands, Command(op) PROVE Others(Admin)
          BY <1>0, <5>2, CommandBegins DEF Begins
        <5> QED BY <1>0, <3>1, <5>1, <5>2 DEF Beginning
      <4>3. CASE t = s
        BY <4>1, <4>2, <4>3
      <4>4. CASE t # s
        <5>1. proc'[s] = proc[s]
          BY <1>0, <4>2, <4>4 DEF Others
        <5> QED BY <2>3, <4>1, <5>1 DEF KeyInv
      <4> QED BY <4>3, <4>4
    <3>2. CASE ~Beginning
      <4>1. proc[s].op = "serve" /\ proc'[s].ring = proc[s].ring
        BY <1>0, <2>3, <3>2, ProcsKept
      <4> QED BY <2>1, <4>1 DEF KeyInv
    <3> QED BY <3>1, <3>2
  <2> QED BY <2>1, <2>2, <2>3 DEF KeyInv
<1> QED BY <1>1, <1>2

(* The keyring of a replica: that of the installation, or one made afresh. *)
LEMMA RingOf ==
  ASSUME IInv, KeyInv, NEW s \in Servers, proc[s].op = "serve"
  PROVE  LET ring == proc[s].ring IN
         \/ ring.active = Stray /\ ring.keys = {Stray}
         \/ /\ ring.active = file.active /\ ring.active \in ring.keys /\ file.active \in {Old, New}
            /\ ring.keys \subseteq file.keys /\ (Old \in file.keys => Old \in ring.keys)
<1>1. StrayRing.active = Stray /\ StrayRing.keys = {Stray}
  BY DEF StrayRing
<1>2. file.active \in Keys /\ file.active # Stray
  BY Parts DEF TypeOK, Ring, RingInv
<1> QED BY <1>1, <1>2, Parts DEF RingInv, KeyInv, Keys

(* A keyring that fits the registry opens every envelope. *)
LEMMA FittingOpens ==
  ASSUME IInv, KeyInv, NEW s \in Servers, proc[s].op = "serve", registry # NoRegistry, ActiveFits(proc[s].ring),
         NEW i \in Present, Versioned(rows[i])
  PROVE  rows[i].key \in proc[s].ring.keys
<1>1. /\ rows[i].key \in registry.checks /\ rows[i].key \in Keys
      /\ ~({Old, Stray} \subseteq registry.checks) /\ registry.checks \subseteq Keys
      /\ Stray \in registry.checks => file.active = Old
      /\ rows[i].key = New => file.active # Old
      /\ rows[i].key = Old => Old \in file.keys
  <2>1. rows[i].key \in Keys /\ registry.checks \subseteq Keys
    BY Parts, RowTyped, RowIs DEF Versioned, TypeOK
  <2>2. rows[i].key = Old => Old \notin removed
    BY Parts DEF RemovedInv
  <2> QED BY <2>1, <2>2, Parts DEF RegistryInv, KeyInv
<1>2. \A k \in proc[s].ring.keys, c \in registry.checks : Id(c) = Id(k) => c = k
  BY DEF ActiveFits, Fits
<1>3. CASE proc[s].ring.active = Stray /\ proc[s].ring.keys = {Stray}
  <2>1. PICK c \in registry.checks : Id(c) = Id(Stray)
    BY <1>3 DEF ActiveFits
  <2>2. c = Stray
    BY <1>2, <1>3, <2>1
  <2>3. rows[i].key = Stray
    BY <1>1, <2>2 DEF Keys
  <2> QED BY <1>3, <2>3
<1>4. CASE /\ proc[s].ring.active = file.active /\ proc[s].ring.active \in proc[s].ring.keys
           /\ file.active \in {Old, New} /\ (Old \in file.keys => Old \in proc[s].ring.keys)
  <2>1. rows[i].key # Stray
    <3> SUFFICES ASSUME Stray \in registry.checks PROVE FALSE
      BY <1>1
    <3>1. Old \in proc[s].ring.keys
      BY <1>1, <1>4
    <3>2. Stray = Old
      BY <1>2, <3>1 DEF Id
    <3> QED BY <3>2
  <2> QED BY <1>1, <1>4, <2>1 DEF Keys
<1> QED BY <1>3, <1>4, RingOf

(* Until there is a registry nothing writes rows beside a start-up. *)
LEMMA RowsUnregistered ==
  ASSUME IInv, [Next]_vars, NEW s \in Servers, proc[s].op = "serve", registry = NoRegistry
  PROVE  rows' = rows
<1>0. TypeOK /\ PlanInv /\ TextInv /\ ScanInv /\ Admin \in Procs /\ Servers \subseteq Procs
  BY Parts
<1>1. \A p \in Procs : ~Seals(p)
  BY Parts DEF RegistryInv, Seals, Early
<1>2. proc[Admin].op \notin {"mark", "prune"}
  BY <1>0 DEF PlanInv
<1>3. \A p \in Procs : proc[p].op # "prune"
  BY <1>0, <1>2 DEF PlanInv, Procs
<1>4. ASSUME NEW w \in Servers, NEW i \in HashIds, Write(w, i) PROVE FALSE
  <2>1. proc[w].pc = "serving" /\ proc[w].op = "serve"
    BY <1>0, <1>4, StagesOf DEF Write
  <2> QED BY <1>0, <1>1, <2>1 DEF Seals, Early
<1> QED BY <1>0, <1>1, <1>2, <1>3, <1>4, RowsStep DEF RowSteps

(* Beside a start-up plaintext leaves its row only for a free hash, and a  *)
(* hash is not freed while there is plaintext.                             *)
LEMMA PlainLasts ==
  ASSUME IInv, PlainInv, [Next]_vars, NEW s \in Servers, proc[s].op = "serve", NEW i \in Present,
         rows[i].form \in PlainForms, rows[i].form = "tagged" => ~TargetFree(i)
  PROVE  /\ i \in Present' /\ rows'[i] = rows[i]
         /\ ~TargetFree(i) => ~TargetFree(i)'
<1>0. TypeOK /\ PlanInv /\ TextInv /\ ScanInv /\ Admin \in Procs /\ Servers \subseteq Procs
      /\ i \in Ids /\ rows[i] # NoRow /\ Target(i) \in HashIds /\ Target(i) \in Ids /\ rows \in [Ids -> Row \cup {NoRow}]
  BY Parts, TargetHashed, TargetTyped DEF Present, TypeOK
<1> DEFINE Goal == rows'[i] = rows[i] /\ (~TargetFree(i) => ~TargetFree(i)')
<1>1. ASSUME rows' = rows PROVE Goal
  BY <1>1 DEF TargetFree
<1>2. ASSUME NEW k, Sealing(k) PROVE Goal
  <2>1. ASSUME NEW a, NEW b, NEW r, Carry(a, b, r), Sealable(a, b) PROVE Goal
    <3>1. r # NoRow /\ a \in Ids /\ b \in Ids /\ rows[a] # NoRow /\ (b = a \/ rows[b] = NoRow)
          /\ rows' = [[rows EXCEPT ![a] = NoRow] EXCEPT ![b] = r]
      BY <2>1, RowIs DEF Carry
    <3>2. a # i
      <4> SUFFICES ASSUME a = i PROVE FALSE
        OBVIOUS
      <4>1. a # b /\ rows[a].form = "tagged" /\ b = Target(i)
        BY <2>1 DEF Sealable
      <4> QED BY <3>1, <4>1 DEF TargetFree
    <3>3. b # i
      BY <1>0, <3>1, <3>2
    <3>4. rows'[i] = rows[i]
      BY <1>0, <3>1, <3>2, <3>3
    <3>5. ASSUME rows[Target(i)] # NoRow PROVE rows'[Target(i)] # NoRow
      <4>1. a = Target(i) => a = b
        <5> SUFFICES ASSUME a = Target(i), a # b PROVE FALSE
          OBVIOUS
        <5>1. rows[a].form \in PlainForms
          BY <2>1 DEF Sealable, PlainForms
        <5> QED BY <1>0, <3>1, <5>1 DEF PlainInv, Present
      <4> QED BY <1>0, <3>1, <3>5, <4>1
    <3> QED BY <3>4, <3>5 DEF TargetFree
  <2> QED BY <1>1, <1>2, <2>1 DEF Sealing
<1>3. proc[Admin].op \notin {"mark", "prune"} /\ \A p \in Procs : proc[p].op # "prune"
  BY <1>0 DEF PlanInv, Procs
<1>4. ASSUME NEW w \in Servers, NEW j \in HashIds, Write(w, j) PROVE FALSE
  <2>1. AllVersioned
    BY <1>0, <1>4 DEF Write, ScanInv
  <2> QED BY <2>1, PlainForm DEF AllVersioned
<1>5. Goal
  BY <1>0, <1>1, <1>2, <1>3, <1>4, RowsStep DEF RowSteps
<1>6. i \in Present'
  BY <1>0, <1>5 DEF Present
<1> QED BY <1>5, <1>6

(* Raw ciphertext and plaintext do not appear beside a start-up. *)
LEMMA NoneAppears ==
  ASSUME IInv, [Next]_vars, NEW s \in Servers, proc[s].op = "serve", NEW i \in Present',
         rows'[i].form \in PlainForms \cup {"cipher"}
  PROVE  i \in Present /\ rows'[i] = rows[i]
<1>1. ~Resealed(i)
  BY PlainForm DEF Resealed
<1>2. ~Marked(i)
  BY Parts DEF Marked, PlanInv
<1> QED BY <1>1, <1>2, Parts, RowsFrom

-----------------------------------------------------------------------------
(* A replica is moved by its own steps. *)
LEMMA OwnSteps ==
  ASSUME IInv, [Next]_vars, NEW s \in Servers, proc'[s] # proc[s]
  PROVE  Start(s) \/ Runs(s) \/ Crash(s)
<1>0. TypeOK /\ PlanInv /\ Admin \in Procs /\ Servers \subseteq Procs /\ s # Admin
  BY Parts
<1>1. ASSUME NEW p \in Procs, p # s, Others(p) PROVE FALSE
  BY <1>0, <1>1 DEF Others
<1>2. ASSUME NEW t \in Servers, Start(t), t # s PROVE FALSE
  BY <1>0, <1>1, <1>2, StartBegins DEF Begins
<1>3. ASSUME NEW op \in Commands, Command(op) PROVE FALSE
  BY <1>0, <1>1, <1>3, CommandBegins DEF Begins
<1>4. ASSUME NEW p \in Procs, p # s, Runs(p) PROVE FALSE
  <2>1. CASE ReadRegistry(p) \/ EndScan(p) \/ ReadBatch(p)
    BY <1>0, <1>1, <1>4, <2>1, ReadRegistryTo, EndScanTo, ReadBatchTo DEF IsAt, IsOver
  <2>2. CASE Bind(p) \/ SetPending(p) \/ SetReady(p)
    BY <1>0, <1>1, <1>4, <2>2, BindTo, SetPendingTo, SetReadyTo DEF IsAt, IsOver
  <2>3. CASE ScanBatch(p) \/ VisitRow(p)
    BY <1>0, <1>1, <1>4, <2>3, ScanBatchTo, VisitRowTo DEF IsAt
  <2> QED BY <1>4, <2>1, <2>2, <2>3 DEF Runs
<1>5. ASSUME NEW p \in Procs, p # s, Crash(p) PROVE FALSE
  BY <1>0, <1>1, <1>5, CrashIsOver DEF IsOver
<1>6. CASE WriteKeyring \/ Insert \/ Put
  BY <1>0, <1>1, <1>6, AdminEnds DEF IsOver
<1>7. CASE Get
  BY <1>0, <1>1, <1>7, GetTo DEF IsAt
<1>8. ~AddKey /\ ~UNCHANGED vars /\ \A t \in Servers, i \in HashIds : ~Write(t, i)
  BY DEF AddKey, Write, vars
<1> QED BY <1>0, <1>2, <1>3, <1>4, <1>5, <1>6, <1>7, <1>8 DEF Next, Procs

(* What a finding of a scan says of the row. *)
LEMMA Findings4 ==
  ASSUME TypeOK, NEW i \in Present, NEW ring
  PROVE  LET f == Inspect(rows[i], ring) IN
         /\ f \in {"note16", "loose"} => rows[i].form = f
         /\ f = "raw" => rows[i].form = "cipher"
         /\ f = "plain" => rows[i].form = "tagged"
         /\ f = "failed" => /\ Versioned(rows[i])
                            /\ rows[i].key \notin ring.keys
                               \/ (registry # NoRegistry /\ rows[i].key \notin registry.checks)
<1>1. rows[i].form \in Forms /\ (Versioned(rows[i]) => rows[i].key \in {Old, New, Stray})
  BY RowTyped, RowIs DEF Versioned, Keys
<1>2. CASE Versioned(rows[i])
  <2>1. rows[i].form \notin {"tagged", "cipher", "note16", "loose"}
    BY <1>2 DEF Versioned, Envelopes
  <2> QED BY <1>1, <1>2, <2>1 DEF Inspect
<1>3. CASE ~Versioned(rows[i])
  <2>1. rows[i].form \in {"tagged", "cipher", "note16", "loose"}
    BY <1>1, <1>3 DEF Versioned, Envelopes, Forms
  <2> QED BY <1>3, <2>1 DEF Inspect
<1> QED BY <1>2, <1>3

(* Beside a start-up the checks of the registry are only bound. *)
LEMMA ChecksLast ==
  ASSUME IInv, [Next]_vars, NEW s \in Servers, proc[s].op = "serve"
  PROVE  /\ registry # NoRegistry => registry' # NoRegistry /\ registry'.checks = registry.checks
         /\ registry = NoRegistry /\ registry' # NoRegistry =>
              \E p \in Procs : proc[p].pc = "bind" /\ registry'.checks = proc[p].ring.keys
<1>0. TypeOK /\ PlanInv /\ Admin \in Procs /\ registry \in [phase: {"uninitialized", "pending", "ready"}, checks: SUBSET Keys]
  BY Parts DEF TypeOK
<1>1. ~Insert
  <2>1. Insert => proc[Admin].op = "register"
    BY <1>0, StagesOf DEF Insert
  <2> QED BY <1>0, <2>1 DEF PlanInv
<1>2. ASSUME NEW p \in Procs, SetPending(p) \/ SetReady(p)
      PROVE  registry # NoRegistry /\ registry'.phase # "uninitialized" /\ registry'.checks = registry.checks
  <2>1. proc[p].pc \in {"pending", "ready"} /\ proc[p].op \in {"serve", "migrate"}
    BY <1>0, <1>2, StagesOf DEF SetPending, SetReady
  <2>2. registry # NoRegistry
    BY <2>1, Parts DEF RegistryInv, Early
  <2> QED BY <1>0, <1>2, <2>2 DEF SetPending, SetReady
<1>3. ASSUME NEW p \in Procs, Bind(p)
      PROVE  IF registry = NoRegistry THEN proc[p].pc = "bind" /\ registry'.checks = proc[p].ring.keys
                                      ELSE UNCHANGED registry
  BY <1>3 DEF Bind
<1> QED BY <1>1, <1>2, <1>3, RegistrySteps DEF NoRegistry

(* What was wrong when s scanned stays wrong. *)
LEMMA RemainingLasts ==
  ASSUME IInv, PlainInv, KeyInv, [Next]_vars, NEW s \in Servers, proc[s].op = "serve",
         proc'[s] = proc[s], Remaining(s)
  PROVE  Remaining(s)'
<1>1. ASSUME NEW f \in {"note16", "loose"} \cap proc[s].found PROVE \E i \in Present' : rows'[i].form = f
  <2>1. PICK i \in Present : rows[i].form = f
    BY DEF Remaining
  <2>2. rows[i].form \in PlainForms /\ rows[i].form # "tagged"
    BY <2>1 DEF PlainForms
  <2> QED BY <2>1, <2>2, PlainLasts
<1>2. ASSUME "failed" \in proc[s].found
      PROVE  IF registry' = NoRegistry THEN Unread(s)' ELSE ~ActiveFits(proc[s].ring)'
  <2>1. CASE registry # NoRegistry
    <3>1. ~ActiveFits(proc[s].ring) /\ registry' # NoRegistry /\ registry'.checks = registry.checks
      BY <1>2, <2>1, ChecksLast DEF Remaining
    <3> QED BY <3>1 DEF ActiveFits, Fits
  <2>2. CASE registry = NoRegistry
    <3>1. rows' = rows
      BY <2>2, RowsUnregistered
    <3>2. PICK i \in Present : Versioned(rows[i]) /\ rows[i].key \notin proc[s].ring.keys
      BY <1>2, <2>2 DEF Remaining, Unread
    <3>3. CASE registry' = NoRegistry
      BY <3>1, <3>2, <3>3 DEF Unread, Present
    <3>4. CASE registry' # NoRegistry
      <4>1. PICK p \in Procs : proc[p].pc = "bind" /\ registry'.checks = proc[p].ring.keys
        BY <2>2, <3>4, ChecksLast
      <4>2. rows[i].key = Old /\ Old \in proc[p].ring.keys /\ file.active = Old
        BY <2>2, <3>2, <4>1, Parts DEF RegistryInv
      <4>3. Stray \in proc[s].ring.keys
        BY <3>2, <4>2, RingOf
      <4>4. Old \in registry'.checks /\ Id(Old) = Id(Stray)
        BY <4>1, <4>2 DEF Id
      <4>5. ~Fits(proc[s].ring)'
        BY <4>3, <4>4 DEF Fits
      <4> QED BY <3>4, <4>5 DEF ActiveFits
    <3> QED BY <3>3, <3>4
  <2> QED BY <2>1, <2>2
<1> QED BY <1>1, <1>2 DEF Remaining, Unread

LEMMA RemainingStep ==
  ASSUME RInv, [Next]_vars, NEW s \in Servers, proc'[s].op = "serve", proc'[s].pc \in Scans
  PROVE  Remaining(s)'
<1>0. IInv /\ PlainInv /\ KeyInv /\ StartInv /\ TypeOK /\ PlanInv /\ s \in Procs
  BY Parts DEF RInv
<1>1. CASE proc'[s] = proc[s]
  <2>1. Remaining(s)
    BY <1>0, <1>1 DEF StartInv
  <2> QED BY <1>0, <1>1, <2>1, RemainingLasts
<1>2. CASE proc'[s].found = {}
  BY <1>2 DEF Remaining
<1>3. CASE /\ ScanBatch(s) /\ proc[s].pc = proc'[s].pc /\ Batch(proc[s].at) # {}
           /\ proc'[s].op = proc[s].op /\ proc'[s].ring = proc[s].ring /\ proc'[s].found = Found(s)
  <2>1. Remaining(s) /\ rows' = rows /\ registry' = registry
    BY <1>0, <1>3 DEF StartInv, ScanBatch, data
  <2>2. Batch(proc[s].at) \subseteq Present
    BY DEF Batch
  <2>3. ASSUME NEW f \in Found(s), f \notin proc[s].found
        PROVE  \E i \in Present : f = Inspect(rows[i], proc[s].ring)
    BY <2>2, <2>3 DEF Found
  <2>4. ASSUME NEW f \in {"note16", "loose"} \cap Found(s) PROVE \E i \in Present : rows[i].form = f
    BY <1>0, <2>1, <2>3, Findings4 DEF Remaining
  <2>5. ASSUME "failed" \in Found(s)
        PROVE  IF registry = NoRegistry THEN Unread(s) ELSE ~ActiveFits(proc[s].ring)
    <3>1. CASE "failed" \in proc[s].found
      BY <2>1, <3>1 DEF Remaining
    <3>2. CASE "failed" \notin proc[s].found
      <4>1. PICK i \in Present : Inspect(rows[i], proc[s].ring) = "failed"
        BY <2>3, <2>5, <3>2
      <4>2. /\ Versioned(rows[i])
            /\ \/ rows[i].key \notin proc[s].ring.keys
               \/ registry # NoRegistry /\ rows[i].key \notin registry.checks
        BY <1>0, <4>1, Findings4
      <4>3. rows[i].key \notin proc[s].ring.keys
        BY <1>0, <4>2, Parts DEF RegistryInv
      <4>4. CASE registry = NoRegistry
        BY <4>2, <4>3, <4>4 DEF Unread
      <4>5. CASE registry # NoRegistry
        BY <1>0, <1>3, <4>2, <4>3, <4>5, FittingOpens
      <4> QED BY <4>4, <4>5
    <3> QED BY <3>1, <3>2
  <2> QED BY <1>3, <2>1, <2>4, <2>5 DEF Remaining, Present, Unread, ActiveFits, Fits
<1>4. Moves(s)
  BY <1>0, MovesStep
<1>5. ~Turns(s, "bindScan", "bind") /\ ~Concludes(s, proc'[s].pc) /\ ~Passes(s)
  BY DEF Scans, Turns, Concludes, Passes
<1> QED BY <1>1, <1>2, <1>3, <1>4, <1>5 DEF Moves, Turns, Scans

-----------------------------------------------------------------------------
(* How a start-up gets to its walk, and through it. *)
LEMMA WalkMoves ==
  ASSUME RInv, [Next]_vars, NEW s \in Servers, proc'[s] # proc[s], proc'[s].op = "serve",
         proc'[s].pc \in {"walk", "finalScan"}
  PROVE  /\ proc[s].op = "serve"
         /\ \/ proc'[s].pc = "walk" /\ proc'[s].batch = {} /\ proc'[s].at = 0
            \/ ReadBatch(s)
            \/ proc'[s].pc = "walk" /\ VisitRow(s)
            \/ proc'[s].pc = "finalScan" /\ proc[s].pc = "finalScan" /\ ScanBatch(s)
<1>0. IInv /\ TypeOK /\ PlanInv /\ s \in Procs /\ s # Admin
  BY Parts DEF RInv
<1>1. ~Start(s) /\ ~Crash(s)
  BY <1>0, StartBegins, CrashIsOver DEF Begins, IsOver
<1>2. Runs(s)
  BY <1>0, <1>1, OwnSteps
<1>3. ~ReadRegistry(s)
  BY <1>0, ReadRegistryTo DEF IsOver, IsAt, Admits
<1>4. ~Bind(s) /\ ~SetReady(s)
  BY <1>0, BindTo, SetReadyTo DEF IsAt
<1>5. ~EndScan(s)
  BY <1>0, EndScanTo DEF IsOver, IsAt, Concludes
<1>6. CASE SetPending(s)
  BY <1>0, <1>6, SetPendingTo DEF IsAt
<1>7. CASE ReadBatch(s)
  BY <1>0, <1>7, ReadBatchTo DEF IsOver, IsAt
<1>8. CASE VisitRow(s)
  BY <1>0, <1>8, VisitRowTo DEF IsAt
<1>9. CASE ScanBatch(s)
  BY <1>0, <1>9, ScanBatchTo DEF IsAt, Scans
<1> QED BY <1>2, <1>3, <1>4, <1>5, <1>6, <1>7, <1>8, <1>9 DEF Runs

(* A row that was done, or is new, is done. *)
LEMMA DoneLasts ==
  ASSUME IInv, PlainInv, [Next]_vars, NEW s \in Servers, proc[s].op = "serve", NEW i \in Present',
         i \in Present /\ rows'[i] = rows[i] => Done(i)
  PROVE  Done(i)'
<1> SUFFICES ASSUME rows'[i].form \in {"tagged", "cipher"} PROVE Stuck(i)'
  BY DEF Done, Stuck
<1>1. i \in Present /\ rows'[i] = rows[i]
  BY NoneAppears DEF PlainForms
<1>2. rows[i].form = "tagged" /\ ~TargetFree(i)
  BY <1>1 DEF Done, Stuck
<1>3. ~TargetFree(i)'
  BY <1>1, <1>2, PlainLasts DEF PlainForms
<1> QED BY <1>1, <1>2, <1>3 DEF Stuck

(* A visit migrates the row that it read, unless its hash is taken. *)
LEMMA VisitDoes ==
  ASSUME IInv, PlainInv, NEW s \in Servers, proc[s].op = "serve", Walked(s),
         NEW e \in proc[s].batch, Visit(s, e), e.id \in Present, rows'[e.id] = rows[e.id]
  PROVE  Done(e.id)
<1>0. e \in [id: Ids, row: Row] /\ rows \in [Ids -> Row \cup {NoRow}] /\ e.id \in Ids /\ rows[e.id] # NoRow
  BY Parts, OfProcess DEF TypeOK, Present
<1> SUFFICES ASSUME rows[e.id].form \in {"tagged", "cipher"} PROVE Stuck(e.id)
  BY DEF Done
<1>1. rows[e.id] = e.row
  BY DEF Walked
<1>2. MigrateRow(e, proc[s].ring)
  BY DEF Visit
<1>3. CASE e.row.form = "cipher"
  <2>1. ~Skipped(e.row) /\ Holds(e)
    BY <1>1, <1>3 DEF Skipped, Holds, Versioned, Envelopes
  <2> DEFINE r == Sealed(e.row, "wrapped", proc[s].ring.active)
  <2>2. r.form = "wrapped"
    <3>1. proc[s].ring.active \in Keys /\ "wrapped" \in Envelopes /\ e.row \in Row
      BY <1>0, Parts, OfProcess DEF Ring, Envelopes
    <3> QED BY <3>1, SealedRow
  <2>3. rows' = [rows EXCEPT ![e.id] = r]
    BY <1>2, <1>3, <2>1 DEF MigrateRow, Replace, Sealed
  <2> HIDE DEF r
  <2>4. rows'[e.id].form = "wrapped"
    BY <1>0, <2>2, <2>3
  <2> QED BY <1>1, <1>3, <2>4
<1>4. CASE e.row.form = "tagged"
  <2>1. ConvertLegacy(e, proc[s].ring)
    BY <1>2, <1>4 DEF MigrateRow
  <2>2. e.id \notin HashIds /\ Target(e.id) \in HashIds
    BY <1>0, <1>1, <1>4, TargetHashed DEF PlainInv, PlainForms
  <2>3. TargetFree(e.id) => rows'[e.id] = NoRow
    BY <1>0, <1>1, <2>1, <2>2 DEF ConvertLegacy
  <2> QED BY <1>0, <1>1, <1>4, <2>3 DEF Stuck
<1> QED BY <1>1, <1>3, <1>4

LEMMA WalkedStep ==
  ASSUME RInv, [Next]_vars, NEW s \in Servers, proc'[s].op = "serve", proc'[s].pc = "walk"
  PROVE  Walked(s)'
<1>0. IInv /\ PlainInv /\ KeyInv /\ StartInv /\ TypeOK /\ PlanInv /\ s \in Procs /\ proc[s].at \in Nat
  BY Parts, OfProcess DEF RInv
<1>1. proc[s].op = "serve" /\ (proc[s].pc = "walk" => Walked(s))
  BY <1>0, WalkMoves DEF StartInv
<1>2. CASE proc'[s].batch = {} /\ proc'[s].at = 0
  <2>1. \A i \in Present' : ~(i <= 0)
    BY DEF Present, Ids
  <2> QED BY <1>2, <2>1 DEF Walked
<1>3. CASE ReadBatch(s)
  <2>1. proc[s].pc = "walk" /\ proc[s].batch = {} /\ rows' = rows /\ Walked(s)
    BY <1>1, <1>3 DEF ReadBatch, data
  <2> DEFINE B == Batch(proc[s].at)
  <2>2. B # {} /\ proc'[s].batch = Entries(B) /\ proc'[s].at = Last(B)
    <3>1. B # {}
      <4> SUFFICES ASSUME B = {} PROVE FALSE
        OBVIOUS
      <4>1. Goes(s, "finalScan")
        BY <1>1, <1>3 DEF ReadBatch
      <4> QED BY <1>0, <4>1, GoesTo, StageNames DEF IsAt
    <3>2. proc' = [proc EXCEPT ![s].batch = Entries(B), ![s].at = Last(B)]
      BY <1>3, <3>1 DEF ReadBatch, Entries
    <3> QED BY <1>0, <3>1, <3>2, OfProcess DEF Process
  <2>3. \A e \in Entries(B) : rows[e.id] = e.row
    BY DEF Entries
  <2>4. ASSUME NEW i \in Present, i <= Last(B) PROVE Done(i) \/ \E e \in Entries(B) : e.id = i
    <3>1. CASE i <= proc[s].at
      BY <2>1, <3>1 DEF Walked
    <3>2. CASE ~(i <= proc[s].at)
      <4>0. i \in Nat /\ proc[s].at \in Nat
        <5>1. i \in Ids
          BY DEF Present
        <5> QED BY <1>0, <5>1, IdsFinite
      <4>1. i \in Nat /\ proc[s].at < i
        BY <3>2, <4>0, SMT
      <4>2. i \in B
        BY <1>0, <2>2, <2>4, <4>1, BatchesInOrder
      <4> DEFINE e == [id |-> i, row |-> rows[i]]
      <4>3. e \in Entries(B) /\ e.id = i
        BY <4>2 DEF Entries
      <4> QED BY <4>3
    <3> QED BY <3>1, <3>2
  <2> QED BY <2>1, <2>2, <2>3, <2>4 DEF Walked, Present, Done, Stuck, TargetFree
<1>4. ASSUME proc[s].pc = "walk", NEW E, E \subseteq proc[s].batch, proc'[s].batch = E, proc'[s].at = proc[s].at,
             \A e \in proc[s].batch \ E :
               e.id \in Present /\ rows'[e.id] = rows[e.id] => Done(e.id)
      PROVE  Walked(s)'
  <2>0. Walked(s)
    BY <1>1, <1>4
  <2>1. ASSUME NEW e \in E, rows'[e.id].form \in {"tagged", "cipher"} PROVE rows'[e.id] = e.row
    <3>1. e.id \in Ids
      BY <1>0, <1>4, <2>1, OfProcess
    <3>2. e.id \in Present'
      BY <2>1, <3>1 DEF Present, NoRow
    <3>3. rows'[e.id] = rows[e.id]
      BY <1>0, <1>1, <2>1, <3>2, NoneAppears DEF PlainForms
    <3> QED BY <1>4, <2>0, <2>1, <3>3 DEF Walked
  <2>2. ASSUME NEW i \in Present', i <= proc[s].at PROVE Done(i)' \/ \E e \in E : e.id = i
    <3> SUFFICES ASSUME ~\E e \in E : e.id = i PROVE Done(i)'
      OBVIOUS
    <3>1. i \in Present /\ rows'[i] = rows[i] => Done(i)
      BY <1>4, <2>0, <2>2 DEF Walked
    <3> QED BY <1>0, <1>1, <3>1, DoneLasts
  <2> QED BY <1>4, <2>1, <2>2 DEF Walked
<1>5. CASE VisitRow(s)
  <2>1. PICK e \in proc[s].batch :
          /\ Visit(s, e)
          /\ IsAt(s, "walk", proc[s].phase, proc[s].found, proc[s].at, proc[s].batch \ {e})
    BY <1>0, <1>5, VisitRowTo
  <2>2. proc[s].pc = "walk" /\ proc'[s].batch = proc[s].batch \ {e} /\ proc'[s].at = proc[s].at
    BY <1>0, <1>5, <2>1, VisitRowTo DEF IsAt
  <2>3. e.id \in Present /\ rows'[e.id] = rows[e.id] => Done(e.id)
    BY <1>0, <1>1, <2>1, <2>2, VisitDoes
  <2> QED BY <1>4, <2>2, <2>3
<1>6. CASE proc'[s] = proc[s]
  BY <1>4, <1>6
<1>7. ~(proc'[s].pc = "finalScan")
  OBVIOUS
<1> QED BY <1>2, <1>3, <1>5, <1>6, <1>7, WalkMoves

LEMMA WalkedAllStep ==
  ASSUME RInv, [Next]_vars, NEW s \in Servers, proc'[s].op = "serve", proc'[s].pc = "finalScan"
  PROVE  WalkedAll(s)'
<1>0. IInv /\ PlainInv /\ KeyInv /\ StartInv /\ TypeOK /\ PlanInv /\ s \in Procs /\ proc[s].at \in Nat
  BY Parts, OfProcess DEF RInv
<1>1. /\ proc[s].op = "serve" /\ (proc[s].pc = "walk" => Walked(s))
      /\ proc[s].pc = "finalScan" => WalkedAll(s)
  BY <1>0, WalkMoves DEF StartInv
<1>2. CASE ReadBatch(s)
  <2>1. proc[s].pc = "walk" /\ proc[s].batch = {} /\ rows' = rows /\ Walked(s)
    BY <1>1, <1>2 DEF ReadBatch, data
  <2>2. proc'[s].found = {} /\ Batch(proc[s].at) = {}
    <3>1. Batch(proc[s].at) = {}
      <4> SUFFICES ASSUME Batch(proc[s].at) # {} PROVE FALSE
        OBVIOUS
      <4>1. proc' = [proc EXCEPT ![s].batch = {[id |-> i, row |-> rows[i]] : i \in Batch(proc[s].at)},
                                 ![s].at = Last(Batch(proc[s].at))]
        BY <1>2 DEF ReadBatch
      <4>2. proc'[s].pc = "walk"
        BY <1>0, <2>1, <4>1, OfProcess DEF Process
      <4> QED BY <4>2
    <3>2. Goes(s, "finalScan")
      BY <1>1, <1>2, <3>1 DEF ReadBatch
    <3> QED BY <1>0, <3>1, <3>2, GoesTo, StageNames DEF IsAt
  <2>3. \A i \in Present : Done(i)
    BY <1>0, <2>1, <2>2, BatchesInOrder DEF Walked
  <2> QED BY <2>1, <2>2, <2>3 DEF WalkedAll, Present, Done, Stuck, TargetFree
<1>3. CASE ScanBatch(s) /\ proc[s].pc = "finalScan"
  <2>1. WalkedAll(s) /\ rows' = rows /\ proc'[s].found = Found(s)
    BY <1>0, <1>1, <1>3, ScanBatchTo DEF IsAt, ScanBatch, data
  <2>2. ASSUME NEW f \in Found(s), f \notin proc[s].found
        PROVE  \E i \in Present : f = Inspect(rows[i], proc[s].ring)
    BY <2>2 DEF Found, Batch
  <2>3. "raw" \notin Found(s)
    <3> SUFFICES ASSUME "raw" \in Found(s) PROVE FALSE
      OBVIOUS
    <3>1. PICK i \in Present : Inspect(rows[i], proc[s].ring) = "raw"
      BY <2>1, <2>2 DEF WalkedAll
    <3>2. rows[i].form = "cipher"
      BY <1>0, <3>1, Findings4
    <3> QED BY <2>1, <3>2 DEF WalkedAll, Done, Stuck
  <2>4. ASSUME "plain" \in Found(s) PROVE \E i \in Present : Stuck(i)
    <3>1. CASE "plain" \in proc[s].found
      BY <2>1, <3>1 DEF WalkedAll
    <3>2. CASE "plain" \notin proc[s].found
      <4>1. PICK i \in Present : Inspect(rows[i], proc[s].ring) = "plain"
        BY <2>2, <2>4, <3>2
      <4>2. rows[i].form = "tagged"
        BY <1>0, <4>1, Findings4
      <4> QED BY <2>1, <4>2 DEF WalkedAll, Done
    <3> QED BY <3>1, <3>2
  <2> QED BY <2>1, <2>3, <2>4 DEF WalkedAll, Present, Done, Stuck, TargetFree
<1>4. CASE proc'[s] = proc[s]
  <2>1. WalkedAll(s)
    BY <1>1, <1>4
  <2>2. \A i \in Present' : Done(i)'
    BY <1>0, <1>1, <2>1, DoneLasts DEF WalkedAll
  <2>3. ASSUME NEW i \in Present, Stuck(i) PROVE i \in Present' /\ Stuck(i)'
    BY <1>0, <1>1, <2>3, PlainLasts DEF Stuck, PlainForms
  <2> QED BY <1>4, <2>1, <2>2, <2>3 DEF WalkedAll
<1> QED BY <1>2, <1>3, <1>4, WalkMoves

-----------------------------------------------------------------------------
LEMMA InitRInv ==
  ASSUME Init
  PROVE  RInv
<1>1. IInv
  BY InitInv
<1>2. PlainInv
  BY InitPlain
<1>3. /\ proc = [p \in Procs |-> Down] /\ file = [active |-> Old, keys |-> {Old}]
  BY DEF Init, Procs
<1>4. \A s \in Servers : proc[s].op = "none"
  BY <1>3, DownTyped DEF Procs
<1>5. KeyInv
  <2>1. \A i \in Present : rows[i].key # New
    <3> SUFFICES ASSUME NEW i \in Present PROVE rows[i].key # New
      OBVIOUS
    <3>1. i \in Ids /\ rows[i] # NoRow
      BY DEF Present
    <3>2. PICK form \in {"tagged", "note16", "loose", "cipher", "wrapped", "native"} : rows[i] = Original(form, i)
      BY <3>1, InitialRows
    <3> QED BY <3>2 DEF Original
  <2> QED BY <1>3, <1>4, <2>1 DEF KeyInv
<1>6. StartInv
  BY <1>4 DEF StartInv
<1> QED BY <1>1, <1>2, <1>5, <1>6 DEF RInv

LEMMA StepRInv ==
  ASSUME RInv, [Next]_vars
  PROVE  RInv'
<1>1. IInv' /\ PlainInv' /\ KeyInv'
  BY StepInv, PlainStep, KeyStep DEF RInv
<1>2. StartInv'
  BY RemainingStep, WalkedStep, WalkedAllStep DEF StartInv
<1> QED BY <1>1, <1>2 DEF RInv

(* A start-up is refused, in whatever state the other replicas and the     *)
(* commands are, only while something of what an operator has to resolve   *)
(* is still so (MigrateIfNeeded, PrepareServe).                            *)
THEOREM RefusalsHaveCause == Spec => RefusedForCause
<1>1. ASSUME RInv, [Next]_vars, NEW s \in Servers, proc[s].op = "serve", proc'[s].pc = "refused"
      PROVE  NeedsOperator(proc[s].ring)
  <2>0. IInv /\ KeyInv /\ StartInv /\ TypeOK /\ PlanInv /\ s \in Procs /\ s # Admin
    BY <1>1, Parts DEF RInv
  <2>1. proc'[s] # proc[s]
    BY <1>1, <2>0, PlanOf DEF PlanInv
  <2>2. ~Start(s)
    BY <1>1, <2>0, StartBegins DEF Begins
  <2>3. ~Crash(s)
    BY <1>1, <2>0, DownTyped DEF Crash, TypeOK, Procs
  <2>4. Runs(s)
    BY <1>1, <2>0, <2>1, <2>2, <2>3, OwnSteps
  <2>5. ~Bind(s) /\ ~SetPending(s) /\ ~SetReady(s) /\ ~ScanBatch(s) /\ ~VisitRow(s)
    BY <1>1, <2>0, BindTo, SetPendingTo, SetReadyTo, ScanBatchTo, VisitRowTo DEF IsAt, Scans
  <2>6. ~ReadBatch(s)
    <3> SUFFICES ASSUME ReadBatch(s) PROVE FALSE
      OBVIOUS
    <3>1. CASE Batch(proc[s].at) = {}
      <4>1. Goes(s, "finalScan")
        BY <1>1, <3>1 DEF ReadBatch
      <4> QED BY <1>1, <2>0, <4>1, GoesTo, StageNames DEF IsAt
    <3>2. CASE Batch(proc[s].at) # {}
      <4>1. proc[s].pc = "walk" /\
            proc' = [proc EXCEPT ![s].batch = {[id |-> i, row |-> rows[i]] : i \in Batch(proc[s].at)},
                                 ![s].at = Last(Batch(proc[s].at))]
        BY <3>2 DEF ReadBatch
      <4>2. proc'[s].pc = "walk"
        BY <2>0, <4>1, OfProcess DEF Process
      <4> QED BY <1>1, <4>2
    <3> QED BY <3>1, <3>2
  <2>7. CASE ReadRegistry(s)
    <3>1. registry # NoRegistry
      <4> SUFFICES ASSUME registry = NoRegistry PROVE FALSE
        OBVIOUS
      <4>1. Goes(s, "bindScan")
        BY <1>1, <2>7 DEF ReadRegistry
      <4> QED BY <1>1, <2>0, <4>1, GoesTo, StageNames DEF IsAt
    <3>2. ~ActiveFits(proc[s].ring)
      <4> SUFFICES ASSUME ActiveFits(proc[s].ring) PROVE FALSE
        OBVIOUS
      <4>1. proc' = [proc EXCEPT ![s].pc = "statusScan", ![s].phase = registry.phase]
        BY <1>1, <2>7, <3>1 DEF ReadRegistry
      <4>2. proc'[s].pc = "statusScan"
        BY <2>0, <4>1, OfProcess DEF Process
      <4> QED BY <1>1, <4>2
    <3> QED BY <3>1, <3>2 DEF NeedsOperator
  <2>8. CASE EndScan(s)
    <3>1. Remaining(s) /\ (proc[s].pc = "finalScan" => WalkedAll(s)) /\ proc[s].pc \in Scans
      BY <1>1, <2>0, <2>8 DEF StartInv, EndScan
    <3>2. "failed" \in proc[s].found => NeedsOperator(proc[s].ring)
      BY <3>1 DEF Remaining, Unread, NeedsOperator
    <3>3. ASSUME NEW f \in {"note16", "loose"}, f \in proc[s].found PROVE NeedsOperator(proc[s].ring)
      BY <3>1, <3>3 DEF Remaining, NeedsOperator
    <3>4. proc[s].found \cap Failures # {} => NeedsOperator(proc[s].ring)
      BY <3>2, <3>3 DEF Failures
    <3>5. ASSUME NEW pc \in Stages \ {"refused"}, Goes(s, pc) PROVE FALSE
      BY <1>1, <2>0, <3>5, GoesTo DEF IsAt
    <3>6. CASE proc[s].pc = "bindScan"
      <4>1. proc[s].found \cap {"note16", "failed"} # {}
        <5> SUFFICES ASSUME proc[s].found \cap {"note16", "failed"} = {} PROVE FALSE
          OBVIOUS
        <5>1. proc' = [proc EXCEPT ![s].pc = "bind", ![s].at = 0]
          BY <2>8, <3>6 DEF EndScan
        <5>2. proc'[s].pc = "bind"
          BY <2>0, <5>1, OfProcess DEF Process
        <5> QED BY <1>1, <5>2
      <4> QED BY <3>4, <4>1 DEF Failures
    <3>7. CASE proc[s].pc = "statusScan"
      <4>1. AfterStatus(s) = "refused"
        <5> SUFFICES ASSUME AfterStatus(s) # "refused" PROVE FALSE
          OBVIOUS
        <5>1. Concludes(s, AfterStatus(s)) /\ AfterStatus(s) \in Stages
          BY <2>0, <3>7, AfterStatusIs
        <5>2. Goes(s, AfterStatus(s))
          BY <2>8, <3>7, <5>1 DEF EndScan, Concludes
        <5> QED BY <3>5, <5>1, <5>2
      <4>2. proc[s].found \cap Failures # {}
        BY <1>1, <4>1 DEF AfterStatus
      <4> QED BY <3>4, <4>2
    <3>8. CASE proc[s].pc = "finalScan"
      <4>1. ~FinalPasses(proc[s].found)
        BY <2>8, <3>5, <3>8, StageNames DEF EndScan
      <4>2. CASE proc[s].found \cap Failures # {}
        BY <3>4, <4>2
      <4>3. CASE proc[s].found \cap Failures = {}
        <5>1. "plain" \in proc[s].found
          BY <3>1, <3>8, <4>1, <4>3 DEF FinalPasses, WalkedAll
        <5> QED BY <3>1, <3>8, <5>1 DEF WalkedAll, Stuck, NeedsOperator
      <4> QED BY <4>2, <4>3
    <3> QED BY <3>1, <3>6, <3>7, <3>8 DEF Scans
  <2> QED BY <2>4, <2>5, <2>6, <2>7, <2>8 DEF Runs
<1>2. ASSUME RInv, [Next]_vars
      PROVE  [\A s \in Servers : proc[s].op = "serve" /\ proc'[s].pc = "refused" => NeedsOperator(proc[s].ring)]_vars
  BY <1>1, <1>2
<1> QED BY <1>2, InitRInv, StepRInv, PTL DEF Spec, RefusedForCause
=============================================================================
