-------------------------- MODULE ContentKeysProofs --------------------------
(* Proofs about ContentKeys, for any number of slugs, replicas, writes and *)
(* runs of processes.                                                      *)
EXTENDS ContentKeys, FiniteSetTheorems, WellFoundedInduction, TLAPS

USE ContentKeysAssumption

Procs == Servers \cup {Admin}

(* Which stages each operation goes through. *)
Plan == [op \in Commands \cup {"serve", "none"} |->
  CASE op = "serve"    -> {"begin", "bindScan", "bind", "statusScan", "pending", "walk", "finalScan",
                           "ready", "serving"}
    [] op = "migrate"  -> {"begin", "bindScan", "bind", "pending", "walk", "finalScan", "ready"}
    [] op = "rewrap"   -> {"begin", "statusScan", "walk"}
    [] op = "convert"  -> {"begin", "statusScan", "get", "put"}
    [] op = "prune"    -> {"begin", "statusScan", "walk"}
    [] op = "mark"     -> {"begin", "get", "put"}
    [] op = "register" -> {"begin", "statusScan", "insert"}
    [] op = "activate" -> {"begin", "statusScan", "write"}
    [] op = "remove"   -> {"begin", "bindScan", "bind", "statusScan", "write"}
    [] OTHER           -> {"down", "refused"}]

AllVersioned == \A i \in Present : Versioned(rows[i])

PlanInv ==
  /\ \A p \in Procs :
       /\ proc[p].pc \in Plan[proc[p].op]
       /\ proc[p].pc = "begin" => proc[p].found = {} /\ proc[p].at = 0 /\ proc[p].batch = {}
  /\ \A s \in Servers : proc[s].op \in {"none", "serve"}
  /\ proc[Admin].op # "serve"
  /\ proc[Admin].op \notin {"none", "rewrap", "convert"} => \A s \in Servers : proc[s].op = "none"

(* The text part. *)
TextInv ==
  /\ \A t \in expected : \E i \in Present : rows[i].text = t
  /\ \A i \in Present : /\ rows[i].form # "wrecked"
                        /\ rows[i].text \in expected /\ rows[i].text < 2 * N + 2 + writes
                        /\ \A j \in Present \ {i} : rows[j].text # rows[i].text
  /\ \A p \in Procs : \A e \in proc[p].batch : e.row.form # "wrecked"

RingInv ==
  /\ file.active \in file.keys /\ Stray \notin file.keys
  /\ removed \subseteq {Old} /\ removed \cap file.keys = {}
  /\ \A s \in Servers : proc[s].op = "serve" =>
       \/ proc[s].ring = StrayRing
       \/ proc[s].ring.active = file.active /\ proc[s].ring.active \in proc[s].ring.keys
          /\ proc[s].ring.keys \subseteq file.keys
  /\ proc[Admin].op # "none" => proc[Admin].ring.keys = file.keys
  /\ proc[Admin].op \notin {"none", "activate"} => proc[Admin].ring.active = file.active
  /\ proc[Admin].op = "activate" => proc[Admin].ring.active = New /\ New \in file.keys
  /\ proc[Admin].op = "remove" => file.active # Old

Early == {"down", "refused", "begin", "bindScan", "bind"}
Seals(p) == proc[p].op \in {"serve", "migrate", "rewrap", "convert"} /\ proc[p].pc \notin Early

RegistryInv ==
  /\ registry = NoRegistry =>
       /\ file.active = Old
       /\ \A p \in Procs : proc[p].pc \in Early \/ proc[p].op \in {"prune", "mark"}
       /\ \A i \in Present : Versioned(rows[i]) => rows[i].key = Old
       /\ \A p \in Procs, i \in Present :
            /\ proc[p].pc = "bindScan" /\ Versioned(rows[i]) /\ i <= proc[p].at
                 => Old \in proc[p].ring.keys \/ "failed" \in proc[p].found
            /\ proc[p].pc = "bind" /\ Versioned(rows[i]) => Old \in proc[p].ring.keys
  /\ registry # NoRegistry =>
       /\ registry.phase # "uninitialized"
       /\ ~({Old, Stray} \subseteq registry.checks)
       /\ \A i \in Present : Versioned(rows[i]) => rows[i].key \in registry.checks
       /\ \A p \in Procs : Seals(p) => proc[p].ring.active \in registry.checks
       /\ Stray \in registry.checks =>
            file.active = Old /\ (proc[Admin].op \in {"activate", "register"} => proc[Admin].pc \in Early)

ScanInv ==
  /\ \A p \in Procs, i \in Present : proc[p].pc \in {"statusScan", "finalScan"} /\ i <= proc[p].at =>
       /\ Versioned(rows[i]) \/ proc[p].found \cap (Failures \cup {"raw", "plain"}) # {}
       /\ Versioned(rows[i]) => rows[i].key \in proc[p].ring.keys \/ "failed" \in proc[p].found
       /\ proc[p].op = "remove" /\ rows[i].key = Old => proc[p].found \cap (Failures \cup {Old}) # {}
  /\ \A p \in Procs :
       /\ proc[p].pc \in {"serving", "ready", "write"} => AllVersioned
       /\ proc[p].op = "rewrap" /\ proc[p].pc = "walk" => AllVersioned
       /\ proc[p].op = "convert" /\ proc[p].pc \in {"get", "put"} => AllVersioned
       /\ proc[p].op = "rewrap" => \A e \in proc[p].batch : Versioned(e.row)
       /\ proc[p].op = "mark" => \A e \in proc[p].batch : e.row.form \in {"note16", "loose"}
       /\ proc[p].pc \in {"serving", "ready"} => \A i \in Present : rows[i].key \in proc[p].ring.keys
       /\ proc[p].op = "remove" /\ proc[p].pc = "write" => \A i \in Present : rows[i].key # Old

-----------------------------------------------------------------------------
(* The steps of processes, field by field. *)
Others(p) == \A q \in Procs \ {p} : proc'[q] = proc[q]

(* p is in the middle of its operation, at stage pc, with what it has      *)
(* gathered.                                                               *)
IsAt(p, pc, phase, found, at, batch) ==
  /\ proc' \in [Procs -> Process]
  /\ Others(p)
  /\ proc'[p].op = proc[p].op /\ proc'[p].ring = proc[p].ring
  /\ proc'[p].pc = pc /\ proc'[p].phase = phase
  /\ proc'[p].found = found /\ proc'[p].at = at /\ proc'[p].batch = batch

(* p is down, or refused. *)
IsOver(p) ==
  /\ proc' \in [Procs -> Process]
  /\ Others(p)
  /\ proc'[p].op = "none" /\ proc'[p].pc \in {"down", "refused"} /\ proc'[p].batch = {}

LEMMA OfProcess ==
  ASSUME TypeOK, NEW p \in Procs
  PROVE  /\ proc \in [Procs -> Process] /\ proc[p] \in Process
         /\ proc[p].op \in Commands \cup {"serve", "none"} /\ proc[p].pc \in Stages /\ proc[p].ring \in Ring
         /\ proc[p].found \subseteq Findings /\ proc[p].at \in Nat
         /\ proc[p].batch \subseteq [id: Ids, row: Row]
         /\ proc[p].phase \in {"uninitialized", "pending", "ready"}
  BY DEF TypeOK, Process, Procs

LEMMA GoesTo ==
  ASSUME TypeOK, NEW p \in Procs, NEW pc \in Stages, Goes(p, pc)
  PROVE  IsAt(p, pc, proc[p].phase, {}, 0, {})
<1> DEFINE q == [proc[p] EXCEPT !.pc = pc, !.found = {}, !.at = 0, !.batch = {}]
<1>1. q \in Process /\ q.pc = pc /\ q.found = {} /\ q.at = 0 /\ q.batch = {} /\ q.op = proc[p].op
      /\ q.ring = proc[p].ring /\ q.phase = proc[p].phase
  BY OfProcess DEF Process
<1>2. proc' = [proc EXCEPT ![p] = q]
  BY OfProcess DEF Goes, Process
<1> HIDE DEF q
<1> QED BY <1>1, <1>2, OfProcess DEF IsAt, Others

LEMMA DownTyped ==
  /\ Down \in Process /\ Down.op = "none" /\ Down.pc = "down" /\ Down.batch = {}
  /\ [Down EXCEPT !.pc = "refused"] \in Process
  /\ [Down EXCEPT !.pc = "refused"].op = "none"
  /\ [Down EXCEPT !.pc = "refused"].pc = "refused"
  /\ [Down EXCEPT !.pc = "refused"].batch = {}
<1>1. [active |-> Old, keys |-> {}] \in Ring
  BY DEF Ring, Keys
<1>2. Down \in Process
  BY <1>1 DEF Down, Process, Commands, Stages, Scans
<1>3. "refused" \in Stages
  BY DEF Stages
<1> QED BY <1>2, <1>3 DEF Down, Process

LEMMA EndsOver ==
  ASSUME TypeOK, NEW p \in Procs, Ends(p)
  PROVE  IsOver(p)
<1> DEFINE q == IF p = Admin THEN Down ELSE [Down EXCEPT !.pc = "refused"]
<1>1. q \in Process /\ q.op = "none" /\ q.pc \in {"down", "refused"} /\ q.batch = {}
  BY DownTyped
<1>2. proc' = [proc EXCEPT ![p] = q]
  BY DEF Ends
<1> HIDE DEF q
<1> QED BY <1>1, <1>2, OfProcess DEF IsOver, Others

LEMMA CrashIsOver ==
  ASSUME TypeOK, NEW p \in Procs, Crash(p)
  PROVE  IsOver(p)
<1>1. proc' = [proc EXCEPT ![p] = Down]
  BY DEF Crash
<1> QED BY <1>1, DownTyped, OfProcess DEF IsOver, Others

(* A process that begins. *)
Begins(p, op, ring) ==
  /\ proc' \in [Procs -> Process]
  /\ Others(p)
  /\ proc'[p].op = op /\ proc'[p].pc = "begin" /\ proc'[p].ring = ring
  /\ proc'[p].found = {} /\ proc'[p].at = 0 /\ proc'[p].batch = {}

LEMMA BeginsAt ==
  ASSUME TypeOK, NEW p \in Procs, NEW op \in Commands \cup {"serve"}, NEW ring \in Ring,
         proc' = [proc EXCEPT ![p] = [Down EXCEPT !.op = op, !.pc = "begin", !.ring = ring]]
  PROVE  Begins(p, op, ring)
<1> DEFINE q == [Down EXCEPT !.op = op, !.pc = "begin", !.ring = ring]
<1>1. "begin" \in Stages /\ Down \in Process /\ Down.found = {} /\ Down.at = 0 /\ Down.batch = {}
  BY DownTyped DEF Stages, Down
<1>2. q \in Process /\ q.op = op /\ q.pc = "begin" /\ q.ring = ring /\ q.found = {} /\ q.at = 0 /\ q.batch = {}
  BY <1>1 DEF Process
<1>3. proc' = [proc EXCEPT ![p] = q]
  OBVIOUS
<1> HIDE DEF q
<1> QED BY <1>2, <1>3, OfProcess DEF Begins, Others

LEMMA StartBegins ==
  ASSUME TypeOK, NEW s \in Servers, Start(s)
  PROVE  Begins(s, "serve", file) \/ Begins(s, "serve", StrayRing)
<1>1. file \in Ring /\ StrayRing \in Ring
  BY DEF TypeOK, StrayRing, Ring, Keys
<1>2. PICK r \in {file, StrayRing} :
        proc' = [proc EXCEPT ![s] = [Down EXCEPT !.op = "serve", !.pc = "begin", !.ring = r]]
  BY DEF Start
<1> QED BY <1>1, <1>2, BeginsAt DEF Procs

CommandRing(op) == IF op = "activate" THEN [file EXCEPT !.active = New] ELSE file

LEMMA CommandBegins ==
  ASSUME TypeOK, NEW op \in Commands, Command(op)
  PROVE  /\ Begins(Admin, op, CommandRing(op))
         /\ op = "activate" => CommandRing(op).active = New /\ CommandRing(op).keys = file.keys
         /\ op # "activate" => CommandRing(op) = file
<1>1. file \in Ring /\ CommandRing(op) \in Ring
  BY DEF TypeOK, CommandRing, Ring, Keys
<1>2. proc' = [proc EXCEPT ![Admin] = [Down EXCEPT !.op = op, !.pc = "begin", !.ring = CommandRing(op)]]
  BY DEF Command, CommandRing
<1> QED BY <1>1, <1>2, BeginsAt DEF Procs, CommandRing, Ring

-----------------------------------------------------------------------------
(* The scans: a batch has the next rows, in order, and when there are none *)
(* left all have been seen.                                                *)
Descent == {s \in Nat \X Nat : s[1] < s[2]}

LEMMA FirstOf ==
  ASSUME NEW S \in SUBSET Nat, S # {}
  PROVE  \E m \in S : \A i \in S : m <= i
<1>1. IsWellFoundedOn(Descent, Nat)
  BY NatLessThanWellFounded DEF OpToRel, Descent
<1>2. PICK m \in S : \A i \in S : ~(<<i, m>> \in Descent)
  BY <1>1, WFMin
<1>3. ASSUME NEW i \in S PROVE m <= i
  <2>1. m \in Nat /\ i \in Nat
    OBVIOUS
  <2>2. ~(i < m)
    BY <1>2, <2>1 DEF Descent
  <2> QED BY <2>1, <2>2
<1> QED BY <1>3

LEMMA LastOf ==
  ASSUME NEW S \in SUBSET Ids, S # {}
  PROVE  Last(S) \in S /\ \A i \in S : i <= Last(S)
<1> DEFINE T == {2 * N + 1 - i : i \in S}
<1>1. T \in SUBSET Nat /\ T # {}
  <2>1. \A i \in S : 2 * N + 1 - i \in Nat
    BY DEF Ids
  <2> QED BY <2>1
<1>2. PICK m \in T : \A j \in T : m <= j
  BY <1>1, FirstOf
<1>3. PICK l \in S : m = 2 * N + 1 - l
  BY <1>2
<1>4. \A i \in S : i <= l
  <2> SUFFICES ASSUME NEW i \in S PROVE i <= l
    OBVIOUS
  <2>1. 2 * N + 1 - i \in T
    OBVIOUS
  <2>2. m <= 2 * N + 1 - i
    BY <1>2, <2>1
  <2> QED BY <1>3, <2>2 DEF Ids
<1> QED BY <1>4 DEF Last

LEMMA IdsFinite == IsFiniteSet(Ids) /\ Ids \subseteq Nat
<1>1. 2 \in Int /\ 2 * N + 1 \in Int
  OBVIOUS
<1> QED BY <1>1, FS_Interval DEF Ids

LEMMA BatchesInOrder ==
  ASSUME NEW at \in Nat
  PROVE  /\ Batch(at) \subseteq Present
         /\ Batch(at) = {} => \A i \in Present : i <= at
         /\ Batch(at) # {} => /\ Last(Batch(at)) \in Ids /\ at < Last(Batch(at))
                              /\ \A i \in Present : at < i /\ i <= Last(Batch(at)) => i \in Batch(at)
<1>0. Present \subseteq Ids /\ Batch(at) \subseteq Present /\ Batch(at) \subseteq Ids
  BY DEF Present, Batch
<1> DEFINE Between(i) == {j \in Present : at < j /\ j < i}
<1>1. \A i : IsFiniteSet(Between(i))
  BY <1>0, IdsFinite, FS_Subset
<1>2. ASSUME Batch(at) = {}, NEW i \in Present, at < i PROVE FALSE
  <2> DEFINE S == {j \in Present : at < j}
  <2>1. S \in SUBSET Nat /\ S # {}
    BY <1>0, <1>2, IdsFinite
  <2>2. PICK m \in S : \A j \in S : m <= j
    BY <2>1, FirstOf
  <2>3. Between(m) = {}
    <3> SUFFICES ASSUME NEW j \in Present, at < j, j < m PROVE FALSE
      OBVIOUS
    <3>1. j \in Nat /\ m \in Nat /\ m <= j
      BY <1>0, <2>2, IdsFinite
    <3> QED BY <3>1
  <2>4. Cardinality(Between(m)) < BatchSize
    BY <2>3, FS_EmptySet
  <2> QED BY <1>2, <2>2, <2>4 DEF Batch
<1>3. ASSUME Batch(at) # {}
      PROVE  /\ Last(Batch(at)) \in Ids /\ at < Last(Batch(at))
             /\ \A i \in Present : at < i /\ i <= Last(Batch(at)) => i \in Batch(at)
  <2> DEFINE l == Last(Batch(at))
  <2>1. l \in Batch(at)
    BY <1>0, <1>3, LastOf
  <2>2. l \in Ids /\ at < l /\ Cardinality(Between(l)) < BatchSize
    BY <1>0, <2>1 DEF Batch
  <2>3. ASSUME NEW i \in Present, at < i, i <= l PROVE i \in Batch(at)
    <3>1. Between(i) \in SUBSET Between(l)
      <4> SUFFICES ASSUME NEW j \in Present, at < j, j < i PROVE j < l
        OBVIOUS
      <4>1. j \in Nat /\ i \in Nat /\ l \in Nat
        BY <1>0, <2>2, IdsFinite
      <4> QED BY <2>3, <4>1
    <3>2. Cardinality(Between(i)) <= Cardinality(Between(l))
      BY <1>1, <3>1, FS_Subset
    <3>3. Cardinality(Between(i)) \in Nat /\ Cardinality(Between(l)) \in Nat
      BY <1>1, FS_CardinalityType
    <3>4. Cardinality(Between(i)) < BatchSize
      BY <2>2, <3>2, <3>3
    <3> QED BY <2>3, <3>4 DEF Batch
  <2> QED BY <2>2, <2>3
<1>4. \A i \in Present : ~(at < i) => i <= at
  BY <1>0, IdsFinite
<1> QED BY <1>0, <1>2, <1>3, <1>4

-----------------------------------------------------------------------------
(* Where the steps of a process lead. *)
LEMMA PlanOf ==
  /\ Plan["serve"] = {"begin", "bindScan", "bind", "statusScan", "pending", "walk", "finalScan",
                      "ready", "serving"}
  /\ Plan["migrate"] = {"begin", "bindScan", "bind", "pending", "walk", "finalScan", "ready"}
  /\ Plan["rewrap"] = {"begin", "statusScan", "walk"}
  /\ Plan["convert"] = {"begin", "statusScan", "get", "put"}
  /\ Plan["prune"] = {"begin", "statusScan", "walk"}
  /\ Plan["mark"] = {"begin", "get", "put"}
  /\ Plan["register"] = {"begin", "statusScan", "insert"}
  /\ Plan["activate"] = {"begin", "statusScan", "write"}
  /\ Plan["remove"] = {"begin", "bindScan", "bind", "statusScan", "write"}
  /\ Plan["none"] = {"down", "refused"}
  BY DEF Plan, Commands

LEMMA OpNames ==
  Commands \cup {"serve", "none"} =
    {"serve", "migrate", "rewrap", "convert", "prune", "mark", "register", "activate", "remove", "none"}
  BY DEF Commands

LEMMA StageNames ==
  Stages = {"down", "refused", "begin", "bindScan", "bind", "statusScan", "pending", "walk", "finalScan",
            "ready", "serving", "get", "put", "insert", "write"}
  BY DEF Stages, Scans

Dirty == Failures \cup {"raw", "plain"}

(* What the registry allows a process to go on with. *)
Admits(p, pc) ==
  LET op == proc[p].op
      ring == proc[p].ring IN
  \/ op = "mark" /\ pc = "get"
  \/ registry = NoRegistry /\ op \in {"serve", "migrate", "remove"} /\ pc = "bindScan"
  \/ registry = NoRegistry /\ op = "prune" /\ pc = "statusScan"
  \/ registry # NoRegistry /\ op = "migrate" /\ ActiveFits(ring) /\ pc = "pending"
  \/ registry # NoRegistry /\ op \in {"register", "prune"} /\ Fits(ring) /\ pc = "statusScan"
  \/ registry # NoRegistry /\ op \in {"serve", "rewrap", "convert", "activate", "remove"}
       /\ ActiveFits(ring) /\ pc = "statusScan"

LEMMA ReadRegistryTo ==
  ASSUME TypeOK, PlanInv, NEW p \in Procs, ReadRegistry(p)
  PROVE  /\ proc[p].pc = "begin"
         /\ \/ IsOver(p)
            \/ \E phase : \E pc \in Stages : Admits(p, pc) /\ IsAt(p, pc, phase, {}, 0, {})
<1> DEFINE op == proc[p].op
<1>0. /\ proc[p].pc = "begin" /\ proc[p].found = {} /\ proc[p].at = 0 /\ proc[p].batch = {}
      /\ op \in {"serve", "migrate", "rewrap", "convert", "prune", "mark", "register", "activate", "remove"}
  BY OfProcess, OpNames, PlanOf DEF ReadRegistry, PlanInv
<1>1. CASE op = "mark"
  <2>1. Goes(p, "get")
    BY <1>1 DEF ReadRegistry
  <2>2. IsAt(p, "get", proc[p].phase, {}, 0, {})
    BY <2>1, GoesTo, StageNames
  <2> QED BY <1>0, <1>1, <2>2, StageNames DEF Admits
<1>2. CASE op # "mark" /\ registry = NoRegistry
  <2>1. \/ op \in {"serve", "migrate", "remove"} /\ Goes(p, "bindScan")
        \/ op = "prune" /\ Goes(p, "statusScan")
        \/ Ends(p)
    BY <1>2 DEF ReadRegistry
  <2>2. CASE Ends(p)
    BY <1>0, <2>2, EndsOver
  <2>3. CASE op \in {"serve", "migrate", "remove"} /\ Goes(p, "bindScan")
    <3>1. IsAt(p, "bindScan", proc[p].phase, {}, 0, {})
      BY <2>3, GoesTo, StageNames
    <3> QED BY <1>0, <1>2, <2>3, <3>1, StageNames DEF Admits
  <2>4. CASE op = "prune" /\ Goes(p, "statusScan")
    <3>1. IsAt(p, "statusScan", proc[p].phase, {}, 0, {})
      BY <2>4, GoesTo, StageNames
    <3> QED BY <1>0, <1>2, <2>4, <3>1, StageNames DEF Admits
  <2> QED BY <2>1, <2>2, <2>3, <2>4
<1>3. CASE op # "mark" /\ registry # NoRegistry
  <2> DEFINE fits == IF op \in {"register", "prune"} THEN Fits(proc[p].ring) ELSE ActiveFits(proc[p].ring)
  <2>1. \/ Ends(p)
        \/ fits /\ op = "migrate" /\ Goes(p, "pending")
        \/ fits /\ op # "migrate" /\ proc' = [proc EXCEPT ![p].pc = "statusScan", ![p].phase = registry.phase]
    BY <1>3 DEF ReadRegistry
  <2>2. CASE Ends(p)
    BY <1>0, <2>2, EndsOver
  <2>3. CASE fits /\ op = "migrate" /\ Goes(p, "pending")
    <3>1. IsAt(p, "pending", proc[p].phase, {}, 0, {})
      BY <2>3, GoesTo, StageNames
    <3> QED BY <1>0, <1>3, <2>3, <3>1, StageNames DEF Admits
  <2>4. CASE fits /\ op # "migrate" /\ proc' = [proc EXCEPT ![p].pc = "statusScan", ![p].phase = registry.phase]
    <3> DEFINE q == [proc[p] EXCEPT !.pc = "statusScan", !.phase = registry.phase]
    <3>1. registry.phase \in {"uninitialized", "pending", "ready"}
      BY DEF TypeOK
    <3>2. q \in Process /\ q.pc = "statusScan" /\ q.phase = registry.phase /\ q.op = op /\ q.ring = proc[p].ring
          /\ q.found = proc[p].found /\ q.at = proc[p].at /\ q.batch = proc[p].batch
      BY <3>1, OfProcess, StageNames DEF Process
    <3>3. proc' = [proc EXCEPT ![p] = q]
      BY <2>4, OfProcess DEF Process
    <3> HIDE DEF q
    <3>4. IsAt(p, "statusScan", registry.phase, {}, 0, {})
      BY <1>0, <3>2, <3>3, OfProcess DEF IsAt, Others
    <3>5. Admits(p, "statusScan")
      BY <1>0, <1>3, <2>4 DEF Admits
    <3> QED BY <1>0, <3>4, <3>5, StageNames
  <2> QED BY <2>1, <2>2, <2>3, <2>4
<1> QED BY <1>1, <1>2, <1>3

(* What a finished scan allows a process to go on with. *)
Concludes(p, pc) ==
  LET op == proc[p].op
      found == proc[p].found
      clean == found \cap Dirty = {} IN
  \/ proc[p].pc = "statusScan" /\ op = "prune" /\ pc = "walk"
  \/ proc[p].pc = "statusScan" /\ op = "serve" /\ pc = "pending"
  \/ proc[p].pc = "statusScan" /\ op = "register" /\ pc = "insert"
  \/ proc[p].pc = "statusScan" /\ clean /\ op = "serve" /\ pc = "serving"
  \/ proc[p].pc = "statusScan" /\ clean /\ op = "rewrap" /\ pc = "walk"
  \/ proc[p].pc = "statusScan" /\ clean /\ op = "convert" /\ pc = "get"
  \/ proc[p].pc = "statusScan" /\ clean /\ op = "activate" /\ pc = "write"
  \/ proc[p].pc = "statusScan" /\ clean /\ op = "remove" /\ Old \notin found /\ pc = "write"
  \/ proc[p].pc = "finalScan" /\ clean /\ pc = "ready"

LEMMA AfterStatusIs ==
  ASSUME TypeOK, PlanInv, NEW p \in Procs, proc[p].pc = "statusScan", AfterStatus(p) # "refused"
  PROVE  Concludes(p, AfterStatus(p)) /\ AfterStatus(p) \in Stages
<1> DEFINE op == proc[p].op
           found == proc[p].found
<1>1. op \in {"serve", "rewrap", "convert", "prune", "register", "activate", "remove"}
  BY OfProcess, OpNames, PlanOf DEF PlanInv
<1>2. CASE op = "prune"
  BY <1>2, StageNames DEF AfterStatus, Concludes
<1>3. CASE op # "prune"
  <2>1. found \cap Failures = {}
    BY <1>3 DEF AfterStatus
  <2>2. CASE op = "serve"
    BY <1>3, <2>1, <2>2, StageNames DEF AfterStatus, Concludes, Unready, Dirty
  <2>3. CASE op = "register"
    BY <1>3, <2>1, <2>3, StageNames DEF AfterStatus, Concludes
  <2>4. CASE op \in {"rewrap", "convert", "activate", "remove"}
    <3>1. ~Unready(p) /\ ~StillReferenced(p)
          /\ AfterStatus(p) = (IF op = "rewrap" THEN "walk" ELSE IF op = "convert" THEN "get" ELSE "write")
      BY <1>3, <2>1, <2>4 DEF AfterStatus
    <3>2. found \cap Dirty = {}
      BY <2>1, <3>1 DEF Unready, Dirty
    <3> QED BY <2>4, <3>1, <3>2, StageNames DEF Concludes, StillReferenced
  <2> QED BY <1>1, <1>3, <2>2, <2>3, <2>4
<1> QED BY <1>2, <1>3

LEMMA EndScanTo ==
  ASSUME TypeOK, PlanInv, NEW p \in Procs, EndScan(p)
  PROVE  /\ \A i \in Present : i <= proc[p].at
         /\ \/ IsOver(p)
            \/ /\ proc[p].pc = "bindScan" /\ "failed" \notin proc[p].found
               /\ IsAt(p, "bind", proc[p].phase, proc[p].found, 0, proc[p].batch)
            \/ \E pc \in Stages : Concludes(p, pc) /\ IsAt(p, pc, proc[p].phase, {}, 0, {})
<1>0. (\A i \in Present : i <= proc[p].at) /\ proc[p].pc \in {"bindScan", "statusScan", "finalScan"}
  BY OfProcess, BatchesInOrder DEF EndScan, Scans
<1>1. CASE Ends(p)
  BY <1>0, <1>1, EndsOver
<1>2. CASE proc[p].pc = "bindScan" /\ ~Ends(p)
  <2>1. proc[p].found \cap {"note16", "failed"} = {} /\ proc' = [proc EXCEPT ![p].pc = "bind", ![p].at = 0]
    BY <1>2 DEF EndScan
  <2> DEFINE q == [proc[p] EXCEPT !.pc = "bind", !.at = 0]
  <2>2. q \in Process /\ q.pc = "bind" /\ q.at = 0 /\ q.op = proc[p].op /\ q.ring = proc[p].ring
        /\ q.found = proc[p].found /\ q.phase = proc[p].phase /\ q.batch = proc[p].batch
    BY OfProcess, StageNames DEF Process
  <2>3. proc' = [proc EXCEPT ![p] = q]
    BY <2>1, OfProcess DEF Process
  <2> HIDE DEF q
  <2>4. IsAt(p, "bind", proc[p].phase, proc[p].found, 0, proc[p].batch)
    BY <2>2, <2>3, OfProcess DEF IsAt, Others
  <2> QED BY <1>0, <1>2, <2>1, <2>4
<1>3. CASE proc[p].pc = "statusScan" /\ ~Ends(p)
  <2>1. AfterStatus(p) # "refused" /\ (AfterStatus(p) # "bind" => Goes(p, AfterStatus(p)))
    BY <1>3 DEF EndScan
  <2>2. Concludes(p, AfterStatus(p)) /\ AfterStatus(p) \in Stages /\ AfterStatus(p) # "bind"
    BY <1>3, <2>1, AfterStatusIs DEF Concludes
  <2> QED BY <1>0, <2>1, <2>2, GoesTo
<1>4. CASE proc[p].pc = "finalScan" /\ ~Ends(p)
  <2>1. FinalPasses(proc[p].found) /\ Goes(p, "ready")
    BY <1>4 DEF EndScan
  <2>2. Concludes(p, "ready")
    BY <1>4, <2>1 DEF FinalPasses, Concludes, Dirty
  <2> QED BY <1>0, <2>1, <2>2, GoesTo, StageNames
<1> QED BY <1>0, <1>1, <1>2, <1>3, <1>4

-----------------------------------------------------------------------------
(* The remaining steps of processes. *)
LEMMA RowTyped ==
  ASSUME TypeOK, NEW i \in Present
  PROVE  i \in Ids /\ rows[i] \in Row /\ rows[i] # NoRow
  BY DEF TypeOK, Present

LEMMA RowIs ==
  ASSUME NEW r \in Row
  PROVE  /\ r.form \in Forms /\ r.text \in Texts
         /\ r.form \in Envelopes => r.key \in Keys
         /\ r.form \notin Envelopes => r.key = None
         /\ r # NoRow /\ r = [form |-> r.form, text |-> r.text, key |-> r.key]
  BY DEF Row, NoRow, Forms, Envelopes

LEMMA InspectFinds ==
  ASSUME TypeOK, NEW i \in Present, NEW ring
  PROVE  /\ Inspect(rows[i], ring) \in Findings
         /\ Versioned(rows[i]) => \/ Inspect(rows[i], ring) = "failed"
                                  \/ Inspect(rows[i], ring) = rows[i].key /\ rows[i].key \in ring.keys
         /\ ~Versioned(rows[i]) => Inspect(rows[i], ring) \in Dirty
<1>1. rows[i].form \in Forms /\ (Versioned(rows[i]) => rows[i].key \in Keys)
  BY RowTyped, RowIs DEF Versioned
<1>2. CASE Versioned(rows[i])
  <2>1. rows[i].form \notin {"tagged", "cipher", "note16", "loose"}
    BY <1>2 DEF Versioned, Envelopes
  <2> QED BY <1>1, <1>2, <2>1 DEF Inspect, Findings
<1>3. CASE ~Versioned(rows[i])
  <2>1. rows[i].form \in {"tagged", "cipher", "note16", "loose"}
    BY <1>1, <1>3 DEF Versioned, Envelopes, Forms
  <2> QED BY <1>3, <2>1 DEF Inspect, Findings, Dirty, Failures
<1> QED BY <1>2, <1>3

Found(p) == proc[p].found \cup {Inspect(rows[i], proc[p].ring) : i \in Batch(proc[p].at)}

LEMMA ScanBatchTo ==
  ASSUME TypeOK, NEW p \in Procs, ScanBatch(p)
  PROVE  /\ proc[p].pc \in Scans /\ Batch(proc[p].at) # {}
         /\ IsAt(p, proc[p].pc, proc[p].phase, Found(p), Last(Batch(proc[p].at)), proc[p].batch)
<1> DEFINE q == [proc[p] EXCEPT !.found = Found(p), !.at = Last(Batch(proc[p].at))]
<1>1. Found(p) \subseteq Findings
  <2>1. \A i \in Batch(proc[p].at) : Inspect(rows[i], proc[p].ring) \in Findings
    BY InspectFinds, OfProcess, BatchesInOrder
  <2> QED BY <2>1, OfProcess DEF Found
<1>2. Last(Batch(proc[p].at)) \in Nat
  BY OfProcess, BatchesInOrder, IdsFinite DEF ScanBatch
<1>3. proc' = [proc EXCEPT ![p] = q]
  BY OfProcess DEF ScanBatch, Found, Process
<1>4. q \in Process /\ q.found = Found(p) /\ q.at = Last(Batch(proc[p].at)) /\ q.op = proc[p].op
      /\ q.ring = proc[p].ring /\ q.pc = proc[p].pc /\ q.phase = proc[p].phase /\ q.batch = proc[p].batch
  BY <1>1, <1>2, OfProcess DEF Process
<1> HIDE DEF q
<1>5. IsAt(p, proc[p].pc, proc[p].phase, Found(p), Last(Batch(proc[p].at)), proc[p].batch)
  BY <1>3, <1>4, OfProcess DEF IsAt, Others
<1> QED BY <1>5 DEF ScanBatch

Entries(ids) == {[id |-> i, row |-> rows[i]] : i \in ids}

LEMMA EntriesTyped ==
  ASSUME TypeOK, NEW ids \in SUBSET Present
  PROVE  Entries(ids) \in SUBSET [id: Ids, row: Row]
  BY RowTyped DEF Entries

LEMMA ReadBatchTo ==
  ASSUME TypeOK, NEW p \in Procs, ReadBatch(p)
  PROVE  /\ proc[p].pc = "walk" /\ proc[p].batch = {}
         /\ \/ IsOver(p)
            \/ proc[p].op \in {"serve", "migrate"} /\ IsAt(p, "finalScan", proc[p].phase, {}, 0, {})
            \/ \E ids \in SUBSET Present : \E at : IsAt(p, "walk", proc[p].phase, proc[p].found, at, Entries(ids))
<1>0. proc[p].pc = "walk" /\ proc[p].batch = {}
  BY DEF ReadBatch
<1> DEFINE B == Batch(proc[p].at)
<1>1. CASE B # {}
  <2> DEFINE q == [proc[p] EXCEPT !.batch = Entries(B), !.at = Last(B)]
  <2>1. B \in SUBSET Present /\ Last(B) \in Nat
    BY <1>1, OfProcess, BatchesInOrder, IdsFinite
  <2>2. Entries(B) \in SUBSET [id: Ids, row: Row]
    BY <2>1, EntriesTyped
  <2>3. proc' = [proc EXCEPT ![p] = q]
    BY <1>1, OfProcess DEF ReadBatch, Entries, Process
  <2>4. q \in Process /\ q.found = proc[p].found /\ q.at = Last(B) /\ q.op = proc[p].op
        /\ q.ring = proc[p].ring /\ q.pc = "walk" /\ q.phase = proc[p].phase /\ q.batch = Entries(B)
    BY <1>0, <2>1, <2>2, OfProcess DEF Process
  <2> HIDE DEF q
  <2>5. IsAt(p, "walk", proc[p].phase, proc[p].found, Last(B), Entries(B))
    BY <2>3, <2>4, OfProcess DEF IsAt, Others
  <2> QED BY <1>0, <2>1, <2>5
<1>2. CASE B = {} /\ proc[p].op \in {"serve", "migrate"}
  <2>1. Goes(p, "finalScan")
    BY <1>2 DEF ReadBatch
  <2> QED BY <1>0, <1>2, <2>1, GoesTo, StageNames
<1>3. CASE B = {} /\ proc[p].op \notin {"serve", "migrate"}
  BY <1>0, <1>3, EndsOver DEF ReadBatch
<1> QED BY <1>1, <1>2, <1>3

(* What a visit makes of the row that was read. *)
Visit(p, e) ==
  \/ proc[p].op \in {"serve", "migrate"} /\ MigrateRow(e, proc[p].ring) /\ UNCHANGED expected
  \/ proc[p].op = "rewrap" /\ Replace(e, [e.row EXCEPT !.key = proc[p].ring.active]) /\ UNCHANGED expected
  \/ proc[p].op = "prune" /\ UNCHANGED <<rows, expected>>
  \/ /\ proc[p].op = "prune" /\ e.row.form = "loose" /\ Holds(e)
     /\ rows' = [rows EXCEPT ![e.id] = NoRow] /\ expected' = expected \ {e.row.text}

LEMMA VisitRowTo ==
  ASSUME TypeOK, NEW p \in Procs, VisitRow(p)
  PROVE  /\ proc[p].pc = "walk"
         /\ \E e \in proc[p].batch :
              /\ Visit(p, e)
              /\ IsAt(p, "walk", proc[p].phase, proc[p].found, proc[p].at, proc[p].batch \ {e})
<1>0. proc[p].pc = "walk"
  BY DEF VisitRow
<1>1. PICK e \in proc[p].batch :
        /\ proc' = [proc EXCEPT ![p].batch = @ \ {e}]
        /\ Visit(p, e)
  BY DEF VisitRow, Visit
<1> DEFINE q == [proc[p] EXCEPT !.batch = @ \ {e}]
<1>2. proc' = [proc EXCEPT ![p] = q]
  BY <1>1, OfProcess DEF Process
<1>3. q \in Process /\ q.found = proc[p].found /\ q.at = proc[p].at /\ q.op = proc[p].op
      /\ q.ring = proc[p].ring /\ q.pc = "walk" /\ q.phase = proc[p].phase /\ q.batch = proc[p].batch \ {e}
  BY <1>0, OfProcess DEF Process
<1> HIDE DEF q
<1>4. IsAt(p, "walk", proc[p].phase, proc[p].found, proc[p].at, proc[p].batch \ {e})
  BY <1>2, <1>3, OfProcess DEF IsAt, Others
<1> QED BY <1>0, <1>1, <1>4

LEMMA GetTo ==
  ASSUME TypeOK, Get
  PROVE  /\ proc[Admin].pc = "get"
         /\ \E i \in Present :
              /\ proc[Admin].op = "mark" => rows[i].form \in {"note16", "loose"}
              /\ IsAt(Admin, "put", proc[Admin].phase, proc[Admin].found, proc[Admin].at, Entries({i}))
<1>0. proc[Admin].pc = "get" /\ Admin \in Procs
  BY DEF Get, Procs
<1>1. PICK i \in Present :
        /\ IF proc[Admin].op = "mark" THEN rows[i].form \in {"note16", "loose"} ELSE i \in HashIds
        /\ proc' = [proc EXCEPT ![Admin].pc = "put", ![Admin].batch = {[id |-> i, row |-> rows[i]]}]
  BY DEF Get
<1> DEFINE q == [proc[Admin] EXCEPT !.pc = "put", !.batch = Entries({i})]
<1>2. Entries({i}) \in SUBSET [id: Ids, row: Row] /\ Entries({i}) = {[id |-> i, row |-> rows[i]]}
  <2>1. Entries({i}) = {[id |-> i, row |-> rows[i]]}
    BY DEF Entries
  <2>2. {i} \in SUBSET Present
    OBVIOUS
  <2> QED BY <2>1, <2>2, EntriesTyped
<1>3. proc' = [proc EXCEPT ![Admin] = q]
  BY <1>0, <1>1, <1>2, OfProcess DEF Process
<1>4. q \in Process /\ q.found = proc[Admin].found /\ q.at = proc[Admin].at /\ q.op = proc[Admin].op
      /\ q.ring = proc[Admin].ring /\ q.pc = "put" /\ q.phase = proc[Admin].phase /\ q.batch = Entries({i})
  BY <1>0, <1>2, OfProcess, StageNames DEF Process
<1> HIDE DEF q
<1>5. IsAt(Admin, "put", proc[Admin].phase, proc[Admin].found, proc[Admin].at, Entries({i}))
  BY <1>0, <1>3, <1>4, OfProcess DEF IsAt, Others
<1> QED BY <1>0, <1>1, <1>5

LEMMA BindTo ==
  ASSUME TypeOK, NEW p \in Procs, Bind(p)
  PROVE  proc[p].pc = "bind" /\ IsAt(p, "begin", proc[p].phase, {}, 0, {})
  BY GoesTo, StageNames DEF Bind

LEMMA SetPendingTo ==
  ASSUME TypeOK, NEW p \in Procs, SetPending(p)
  PROVE  proc[p].pc = "pending" /\ IsAt(p, "walk", proc[p].phase, {}, 0, {})
  BY GoesTo, StageNames DEF SetPending

LEMMA SetReadyTo ==
  ASSUME TypeOK, NEW p \in Procs, SetReady(p)
  PROVE  /\ proc[p].pc = "ready"
         /\ \/ p = Admin /\ IsOver(p)
            \/ p # Admin /\ IsAt(p, "serving", proc[p].phase, {}, 0, {})
  BY GoesTo, EndsOver, StageNames DEF SetReady

-----------------------------------------------------------------------------
(* Every process follows the plan of its operation, and only rewrap and    *)
(* convert run beside replicas.                                            *)
LEMMA PlanAt ==
  ASSUME TypeOK, PlanInv, NEW p \in Procs, NEW pc, NEW phase, NEW found, NEW at, NEW batch,
         IsAt(p, pc, phase, found, at, batch), pc \in Plan[proc[p].op],
         pc = "begin" => found = {} /\ at = 0 /\ batch = {}
  PROVE  PlanInv'
<1>1. \A q \in Procs : proc'[q].op = proc[q].op
  BY DEF IsAt, Others
<1>2. Servers \subseteq Procs /\ Admin \in Procs
  BY DEF Procs
<1>3. \A q \in Procs : /\ proc'[q].pc \in Plan[proc'[q].op]
                       /\ proc'[q].pc = "begin" => proc'[q].found = {} /\ proc'[q].at = 0 /\ proc'[q].batch = {}
  BY <1>1 DEF IsAt, Others, PlanInv
<1> QED BY <1>1, <1>2, <1>3 DEF PlanInv

LEMMA PlanOver ==
  ASSUME TypeOK, PlanInv, NEW p \in Procs, IsOver(p)
  PROVE  PlanInv'
<1>1. \A q \in Procs : proc'[q].op = proc[q].op \/ proc'[q].op = "none"
  BY DEF IsOver, Others
<1>2. Servers \subseteq Procs /\ Admin \in Procs
  BY DEF Procs
<1>3. \A q \in Procs : /\ proc'[q].pc \in Plan[proc'[q].op]
                       /\ proc'[q].pc = "begin" => proc'[q].found = {} /\ proc'[q].at = 0 /\ proc'[q].batch = {}
  BY PlanOf DEF IsOver, Others, PlanInv
<1> QED BY <1>1, <1>2, <1>3 DEF PlanInv

LEMMA DownIsNone ==
  ASSUME TypeOK, PlanInv, NEW p \in Procs, proc[p].pc \in {"down", "refused"}
  PROVE  proc[p].op = "none"
  BY OfProcess, OpNames, PlanOf DEF PlanInv

LEMMA BeginInPlan ==
  ASSUME NEW op \in Commands \cup {"serve"}
  PROVE  "begin" \in Plan[op]
<1>1. op \in {"serve", "migrate", "rewrap", "convert", "prune", "mark", "register", "activate", "remove"}
  BY DEF Commands
<1> QED BY <1>1, PlanOf

LEMMA PlanStart ==
  ASSUME TypeOK, PlanInv, NEW s \in Servers, Start(s)
  PROVE  PlanInv'
<1>1. PICK ring : Begins(s, "serve", ring)
  BY StartBegins
<1>2. proc[Admin].op \in {"none", "rewrap", "convert"}
  BY DEF Start
<1>3. Servers \subseteq Procs /\ Admin \in Procs /\ s # Admin
  BY DEF Procs
<1>4. \A q \in Procs : /\ proc'[q].pc \in Plan[proc'[q].op]
                       /\ proc'[q].pc = "begin" => proc'[q].found = {} /\ proc'[q].at = 0 /\ proc'[q].batch = {}
  BY <1>1, <1>3, BeginInPlan DEF Begins, Others, PlanInv
<1>5. proc'[Admin] = proc[Admin] /\ \A q \in Servers : proc'[q].op \in {"none", "serve"}
  BY <1>1, <1>3 DEF Begins, Others, PlanInv
<1> QED BY <1>2, <1>4, <1>5 DEF PlanInv

LEMMA PlanCommand ==
  ASSUME TypeOK, PlanInv, NEW op \in Commands, Command(op)
  PROVE  PlanInv'
<1>1. Begins(Admin, op, CommandRing(op))
  BY CommandBegins
<1>2. Servers \subseteq Procs /\ Admin \in Procs /\ Admin \notin Servers /\ op # "serve"
  BY OpNames DEF Procs, Commands
<1>3. \A q \in Procs : /\ proc'[q].pc \in Plan[proc'[q].op]
                       /\ proc'[q].pc = "begin" => proc'[q].found = {} /\ proc'[q].at = 0 /\ proc'[q].batch = {}
  BY <1>1, <1>2, BeginInPlan DEF Begins, Others, PlanInv
<1>4. \A s \in Servers : proc'[s] = proc[s]
  BY <1>1, <1>2 DEF Begins, Others
<1>5. op \notin {"rewrap", "convert"} => \A s \in Servers : proc[s].op = "none"
  BY <1>2, DownIsNone DEF Command, Window
<1>6. proc'[Admin].op = op
  BY <1>1 DEF Begins
<1> QED BY <1>2, <1>3, <1>4, <1>5, <1>6 DEF PlanInv

(* Where each step of a process goes is a stage of its operation. *)
LEMMA AdmitsInPlan ==
  ASSUME TypeOK, NEW p \in Procs, NEW pc, Admits(p, pc)
  PROVE  pc \in Plan[proc[p].op] /\ pc # "begin"
  BY PlanOf DEF Admits

LEMMA ConcludesInPlan ==
  ASSUME TypeOK, PlanInv, NEW p \in Procs, NEW pc, Concludes(p, pc)
  PROVE  pc \in Plan[proc[p].op] /\ pc # "begin"
<1>1. proc[p].pc = "finalScan" => proc[p].op \in {"serve", "migrate"}
  BY OfProcess, OpNames, PlanOf DEF PlanInv
<1> QED BY <1>1, PlanOf DEF Concludes

LEMMA StagesOf ==
  ASSUME TypeOK, PlanInv, NEW p \in Procs
  PROVE  LET op == proc[p].op
             pc == proc[p].pc IN
         /\ pc \in {"bindScan", "bind"} => op \in {"serve", "migrate", "remove"}
         /\ pc \in {"pending", "finalScan", "ready"} => op \in {"serve", "migrate"}
         /\ pc = "walk" => op \in {"serve", "migrate", "rewrap", "prune"}
         /\ pc \in {"get", "put"} => op \in {"convert", "mark"}
         /\ pc = "serving" => op = "serve"
         /\ pc = "insert" => op = "register"
         /\ pc = "write" => op \in {"activate", "remove"}
         /\ pc = "statusScan" => op \in {"serve", "rewrap", "convert", "prune", "register", "activate", "remove"}
         /\ pc = "begin" => op # "none"
         /\ op = "none" => pc \in {"down", "refused"}
  BY OfProcess, OpNames, PlanOf DEF PlanInv

LEMMA AdminEnds ==
  ASSUME TypeOK, WriteKeyring \/ Insert \/ Put
  PROVE  IsOver(Admin) /\ proc[Admin].pc \in {"write", "insert", "put"}
<1>1. Ends(Admin) /\ proc[Admin].pc \in {"write", "insert", "put"}
  BY DEF WriteKeyring, Insert, Put
<1> QED BY <1>1, EndsOver DEF Procs

LEMMA PlanStep ==
  ASSUME TypeOK, PlanInv, [Next]_vars
  PROVE  PlanInv'
<1>0. Admin \in Procs
  BY DEF Procs
<1>1. ASSUME NEW s \in Servers, Start(s) PROVE PlanInv'
  BY <1>1, PlanStart
<1>2. ASSUME NEW op \in Commands, Command(op) PROVE PlanInv'
  BY <1>2, PlanCommand
<1>3. ASSUME UNCHANGED proc PROVE PlanInv'
  BY <1>3 DEF PlanInv
<1>4. CASE WriteKeyring \/ Insert \/ Put
  BY <1>0, <1>4, AdminEnds, PlanOver
<1>5. CASE Get
  <2>1. PICK i : IsAt(Admin, "put", proc[Admin].phase, proc[Admin].found, proc[Admin].at, Entries({i}))
    BY <1>5, GetTo
  <2>2. "put" \in Plan[proc[Admin].op]
    BY <1>0, <1>5, GetTo, StagesOf, PlanOf
  <2> QED BY <1>0, <2>1, <2>2, PlanAt
<1>6. ASSUME NEW p \in Procs, Runs(p) PROVE PlanInv'
  <2>1. CASE ReadRegistry(p)
    <3>1. CASE IsOver(p)
      BY <3>1, PlanOver
    <3>2. ASSUME NEW pc, NEW phase, Admits(p, pc), IsAt(p, pc, phase, {}, 0, {}) PROVE PlanInv'
      BY <3>2, AdmitsInPlan, PlanAt
    <3> QED BY <2>1, <3>1, <3>2, ReadRegistryTo
  <2>2. CASE Bind(p)
    <3>1. proc[p].op \in {"serve", "migrate", "remove"}
      BY <2>2, BindTo, StagesOf
    <3>2. "begin" \in Plan[proc[p].op]
      BY <3>1, PlanOf
    <3> QED BY <2>2, <3>2, BindTo, PlanAt
  <2>3. CASE SetPending(p)
    <3>1. "walk" \in Plan[proc[p].op]
      BY <2>3, SetPendingTo, StagesOf, PlanOf
    <3> QED BY <2>3, <3>1, SetPendingTo, PlanAt
  <2>4. CASE SetReady(p)
    <3>1. p # Admin => proc[p].op = "serve"
      BY <2>4, SetReadyTo, StagesOf DEF PlanInv, Procs
    <3>2. p # Admin => "serving" \in Plan[proc[p].op]
      BY <3>1, PlanOf
    <3> QED BY <2>4, <3>2, SetReadyTo, PlanAt, PlanOver
  <2>5. CASE ScanBatch(p)
    <3>1. proc[p].pc \in Plan[proc[p].op] /\ proc[p].pc # "begin"
      BY <2>5, ScanBatchTo DEF PlanInv, Scans
    <3> QED BY <2>5, <3>1, ScanBatchTo, PlanAt
  <2>6. CASE EndScan(p)
    <3>1. CASE IsOver(p)
      BY <3>1, PlanOver
    <3>2. CASE /\ proc[p].pc = "bindScan"
               /\ IsAt(p, "bind", proc[p].phase, proc[p].found, 0, proc[p].batch)
      <4>1. proc[p].op \in {"serve", "migrate", "remove"}
        BY <3>2, StagesOf
      <4>2. "bind" \in Plan[proc[p].op]
        BY <4>1, PlanOf
      <4> QED BY <3>2, <4>2, PlanAt
    <3>3. ASSUME NEW pc, Concludes(p, pc), IsAt(p, pc, proc[p].phase, {}, 0, {}) PROVE PlanInv'
      BY <3>3, ConcludesInPlan, PlanAt
    <3> QED BY <2>6, <3>1, <3>2, <3>3, EndScanTo
  <2>7. CASE ReadBatch(p)
    <3>1. CASE IsOver(p)
      BY <3>1, PlanOver
    <3>2. CASE proc[p].op \in {"serve", "migrate"} /\ IsAt(p, "finalScan", proc[p].phase, {}, 0, {})
      <4>1. "finalScan" \in Plan[proc[p].op]
        BY <3>2, PlanOf
      <4> QED BY <3>2, <4>1, PlanAt
    <3>3. ASSUME NEW ids, NEW at, IsAt(p, "walk", proc[p].phase, proc[p].found, at, Entries(ids)) PROVE PlanInv'
      <4>1. "walk" \in Plan[proc[p].op]
        BY <2>7, ReadBatchTo DEF PlanInv
      <4> QED BY <3>3, <4>1, PlanAt
    <3> QED BY <2>7, <3>1, <3>2, <3>3, ReadBatchTo
  <2>8. CASE VisitRow(p)
    <3>1. PICK e : IsAt(p, "walk", proc[p].phase, proc[p].found, proc[p].at, proc[p].batch \ {e})
      BY <2>8, VisitRowTo
    <3>2. "walk" \in Plan[proc[p].op]
      BY <2>8, VisitRowTo DEF PlanInv
    <3> QED BY <3>1, <3>2, PlanAt
  <2> QED BY <1>6, <2>1, <2>2, <2>3, <2>4, <2>5, <2>6, <2>7, <2>8 DEF Runs
<1>7. ASSUME NEW p \in Procs, Crash(p) PROVE PlanInv'
  BY <1>7, CrashIsOver, PlanOver
<1>8. \A s \in Servers, i \in HashIds : Write(s, i) => UNCHANGED proc
  BY DEF Write
<1>9. AddKey => UNCHANGED proc
  BY DEF AddKey
<1>10. UNCHANGED vars => UNCHANGED proc
  BY DEF vars
<1>11. CASE Next
  BY <1>1, <1>2, <1>3, <1>4, <1>5, <1>6, <1>7, <1>8, <1>9, <1>11 DEF Next, Procs
<1> QED BY <1>3, <1>10, <1>11

-----------------------------------------------------------------------------
(* What becomes of rows: one is carried over, to the same place or to a    *)
(* free one, and keeps its text; one is removed; or a client writes one.   *)
Carry(i, j, r) ==
  /\ i \in Ids /\ j \in Ids /\ r \in Row
  /\ rows[i] # NoRow /\ (j = i \/ rows[j] = NoRow)
  /\ r.text = rows[i].text /\ r.form # "wrecked"
  /\ rows' = [[rows EXCEPT ![i] = NoRow] EXCEPT ![j] = r]

(* The forms that are kept as plaintext. *)
PlainForms == {"tagged", "note16", "loose"}

(* Only a marked note moves, to its own hash. *)
Sealable(i, j) == IF i = j THEN rows[i].form \notin PlainForms ELSE rows[i].form = "tagged" /\ j = Target(i)

Sealing(k) == rows' = rows \/ \E i, j, r : Carry(i, j, r) /\ Versioned(r) /\ r.key = k /\ Sealable(i, j)

Tagging == rows' = rows \/ \E i, r : Carry(i, i, r) /\ rows[i].form \in PlainForms /\ r.form = "tagged"

Pruning ==
  \/ rows' = rows /\ expected' = expected
  \/ \E i \in Present : /\ ~Versioned(rows[i])
                        /\ rows' = [rows EXCEPT ![i] = NoRow] /\ expected' = expected \ {rows[i].text}

Sealed(r, f, k) == [r EXCEPT !.form = f, !.key = k]

LEMMA SealedRow ==
  ASSUME NEW r \in Row, NEW k \in Keys, NEW f \in Envelopes
  PROVE  /\ Sealed(r, f, k) \in Row /\ Sealed(r, f, k).text = r.text
         /\ Sealed(r, f, k).form = f /\ Sealed(r, f, k).key = k
<1>1. CASE r \in [form: Forms \ Envelopes, text: Texts, key: {None}]
  BY <1>1 DEF Row, Sealed
<1>2. CASE r \in [form: Envelopes, text: Texts, key: Keys]
  BY <1>2 DEF Row, Sealed
<1> QED BY <1>1, <1>2 DEF Row

LEMMA HoldsSame ==
  ASSUME TypeOK, NEW e \in [id: Ids, row: Row], Holds(e)
  PROVE  /\ rows[e.id] # NoRow /\ rows[e.id].text = e.row.text
         /\ Versioned(rows[e.id]) = Versioned(e.row)
         /\ (rows[e.id].form \in PlainForms) = (e.row.form \in PlainForms)
<1>1. rows[e.id] = NoRow \/ rows[e.id] \in Row
  BY DEF TypeOK
<1>2. e.row \in Row /\ e.row.form \in Forms
  BY RowIs
<1>3. NoRow.form = "absent" /\ Value(NoRow) = <<"absent", 0, None>>
  BY DEF NoRow, Value
<1>4. rows[e.id] # NoRow
  <2>1. Value(e.row)[1] # "absent"
    BY <1>2 DEF Value, Forms
  <2> QED BY <1>3, <2>1 DEF Holds
<1>5. rows[e.id].form \in Forms
  BY <1>1, <1>4, RowIs
<1>6. Value(rows[e.id])[2] = rows[e.id].text /\ Value(e.row)[2] = e.row.text
  BY DEF Value
<1>7. Value(rows[e.id])[1] = Value(e.row)[1]
  BY DEF Holds
<1>8. Versioned(rows[e.id]) = Versioned(e.row)
  BY <1>2, <1>5, <1>7 DEF Value, Versioned, Envelopes, Forms
<1>9. (rows[e.id].form \in PlainForms) = (e.row.form \in PlainForms)
  BY <1>2, <1>5, <1>7 DEF Value, PlainForms, Forms
<1> QED BY <1>4, <1>6, <1>8, <1>9 DEF Holds

LEMMA ReplaceCarries ==
  ASSUME TypeOK, NEW e \in [id: Ids, row: Row], NEW r \in Row, r.text = e.row.text, r.form # "wrecked",
         Replace(e, r)
  PROVE  rows' = rows \/ (Carry(e.id, e.id, r) /\ Holds(e))
<1>1. CASE Holds(e)
  <2>1. rows' = [rows EXCEPT ![e.id] = r]
    BY <1>1 DEF Replace
  <2>2. rows' = [[rows EXCEPT ![e.id] = NoRow] EXCEPT ![e.id] = r]
    BY <2>1 DEF TypeOK
  <2> QED BY <1>1, <2>2, HoldsSame DEF Carry
<1>2. CASE ~Holds(e)
  BY <1>2 DEF Replace
<1> QED BY <1>1, <1>2

LEMMA TargetTyped ==
  ASSUME NEW i \in Ids
  PROVE  Target(i) \in Ids
<1>1. i \div 2 \in 1..N
  BY DEF Ids
<1> DEFINE h == i \div 2
<1>2. Target(i) = 2 * (N + 1 - h) + 1
  BY DEF Target, Hash
<1> HIDE DEF h
<1>3. h \in 1..N
  BY <1>1 DEF h
<1> QED BY <1>2, <1>3 DEF Ids

LEMMA MigrateSeals ==
  ASSUME TypeOK, NEW e \in [id: Ids, row: Row], NEW ring \in Ring, MigrateRow(e, ring)
  PROVE  Sealing(ring.active)
<1>0. ring.active \in Keys /\ e.row \in Row /\ e.row.form \in Forms /\ e.id \in Ids
  BY RowIs DEF Ring
<1>1. CASE e.row.form = "tagged"
  <2> DEFINE r == [form |-> "native", text |-> e.row.text, key |-> ring.active]
  <2>1. r \in Row /\ Versioned(r) /\ r.key = ring.active /\ r.form # "wrecked" /\ r.text = e.row.text
    BY <1>0, RowIs DEF Row, Versioned, Envelopes
  <2>2. CASE rows[e.id] = e.row /\ TargetFree(e.id)
    <3>1. rows' = [[rows EXCEPT ![e.id] = NoRow] EXCEPT ![Target(e.id)] = r]
      BY <1>1, <2>2 DEF MigrateRow, ConvertLegacy
    <3>2. rows[e.id] # NoRow /\ rows[Target(e.id)] = NoRow /\ Target(e.id) \in Ids
      BY <1>0, <2>2, RowIs, TargetTyped DEF TargetFree
    <3>3. Carry(e.id, Target(e.id), r) /\ Sealable(e.id, Target(e.id))
      BY <1>0, <1>1, <2>1, <2>2, <3>1, <3>2 DEF Carry, Sealable
    <3> QED BY <2>1, <3>3 DEF Sealing
  <2>3. CASE ~(rows[e.id] = e.row /\ TargetFree(e.id))
    BY <1>1, <2>3 DEF MigrateRow, ConvertLegacy, Sealing
  <2> QED BY <2>2, <2>3
<1>2. CASE e.row.form # "tagged" /\ Skipped(e.row)
  BY <1>2 DEF MigrateRow, Sealing
<1>3. CASE e.row.form # "tagged" /\ ~Skipped(e.row)
  <2>1. e.row.form = "cipher"
    BY <1>0, <1>3 DEF Skipped, Versioned, Forms, Envelopes
  <2> DEFINE r == Sealed(e.row, "wrapped", ring.active)
  <2>2. Replace(e, r)
    BY <1>3, <2>1 DEF MigrateRow, Sealed
  <2>3. r \in Row /\ r.text = e.row.text /\ r.form = "wrapped" /\ r.key = ring.active
    <3>1. "wrapped" \in Envelopes
      BY DEF Envelopes
    <3> QED BY <1>0, <3>1, SealedRow
  <2> HIDE DEF r
  <2>4. rows' = rows \/ (Carry(e.id, e.id, r) /\ Sealable(e.id, e.id))
    BY <2>1, <2>2, <2>3, ReplaceCarries, HoldsSame DEF Sealable, PlainForms
  <2> QED BY <2>3, <2>4 DEF Sealing, Versioned, Envelopes
<1> QED BY <1>1, <1>2, <1>3

LEMMA RewrapSeals ==
  ASSUME TypeOK, NEW e \in [id: Ids, row: Row], NEW k \in Keys, Versioned(e.row), e.row.form # "wrecked",
         Replace(e, [e.row EXCEPT !.key = k])
  PROVE  Sealing(k)
<1> DEFINE r == Sealed(e.row, e.row.form, k)
<1>1. e.row \in Row /\ e.row.form \in Envelopes
  BY DEF Versioned
<1>2. r \in Row /\ r.text = e.row.text /\ r.form = e.row.form /\ r.key = k
  BY <1>1, SealedRow
<1>3. r = [e.row EXCEPT !.key = k]
  <2>1. CASE e.row \in [form: Forms \ Envelopes, text: Texts, key: {None}]
    BY <2>1 DEF Sealed
  <2>2. CASE e.row \in [form: Envelopes, text: Texts, key: Keys]
    BY <2>2 DEF Sealed
  <2> QED BY <1>1, <2>1, <2>2 DEF Row
<1> HIDE DEF r
<1>4. rows' = rows \/ (Carry(e.id, e.id, r) /\ Sealable(e.id, e.id))
  BY <1>1, <1>2, <1>3, ReplaceCarries, HoldsSame DEF Sealable, PlainForms, Envelopes
<1> QED BY <1>1, <1>2, <1>4 DEF Sealing, Versioned

LEMMA ConvertSeals ==
  ASSUME TypeOK, NEW e \in [id: Ids, row: Row], NEW k \in Keys, e.row.form = "wrapped",
         Replace(e, [e.row EXCEPT !.form = "native", !.key = k])
  PROVE  Sealing(k)
<1> DEFINE r == Sealed(e.row, "native", k)
<1>2. r \in Row /\ r.text = e.row.text /\ r.form = "native" /\ r.key = k
  <2>1. e.row \in Row /\ "native" \in Envelopes
    BY DEF Envelopes
  <2> QED BY <2>1, SealedRow
<1>3. Replace(e, r)
  BY DEF Sealed
<1> HIDE DEF r
<1>4. rows' = rows \/ (Carry(e.id, e.id, r) /\ Sealable(e.id, e.id))
  BY <1>2, <1>3, ReplaceCarries, HoldsSame DEF Sealable, PlainForms
<1> QED BY <1>2, <1>4 DEF Sealing, Versioned, Envelopes

LEMMA MarkTags ==
  ASSUME TypeOK, NEW e \in [id: Ids, row: Row], e.row.form \in {"note16", "loose"},
         Replace(e, [e.row EXCEPT !.form = "tagged"])
  PROVE  Tagging
<1> DEFINE r == [form |-> "tagged", text |-> e.row.text, key |-> None]
<1>1. e.row = [form |-> e.row.form, text |-> e.row.text, key |-> None] /\ e.row.text \in Texts
  <2>1. e.row.form \notin Envelopes
    BY DEF Envelopes
  <2> QED BY <2>1, RowIs
<1>2. r = [e.row EXCEPT !.form = "tagged"]
  BY <1>1
<1>3. r \in Row /\ r.text = e.row.text /\ r.form = "tagged"
  BY <1>1 DEF Row, Forms, Envelopes
<1> HIDE DEF r
<1>4. rows' = rows \/ (Carry(e.id, e.id, r) /\ Holds(e))
  BY <1>2, <1>3, ReplaceCarries
<1>5. e.row.form \in PlainForms
  BY DEF PlainForms
<1> QED BY <1>3, <1>4, <1>5, HoldsSame DEF Tagging

LEMMA Visiting ==
  ASSUME TypeOK, PlanInv, TextInv, ScanInv, NEW p \in Procs, VisitRow(p)
  PROVE  \/ Seals(p) /\ Sealing(proc[p].ring.active) /\ UNCHANGED expected
         \/ proc[p].op = "prune" /\ proc[p].pc = "walk" /\ Pruning
<1>0. /\ proc[p].pc = "walk" /\ proc[p].op \in {"serve", "migrate", "rewrap", "prune"}
      /\ proc[p].ring \in Ring /\ proc[p].ring.active \in Keys
  BY VisitRowTo, StagesOf, OfProcess DEF Ring
<1>1. PICK e \in proc[p].batch : Visit(p, e)
  BY VisitRowTo
<1>2. e \in [id: Ids, row: Row] /\ e.row.form # "wrecked"
  BY <1>1, OfProcess DEF TextInv
<1>3. Seals(p) \/ proc[p].op = "prune"
  BY <1>0 DEF Seals, Early
<1>4. CASE proc[p].op \in {"serve", "migrate"}
  <2>1. MigrateRow(e, proc[p].ring) /\ UNCHANGED expected
    BY <1>1, <1>4 DEF Visit
  <2> QED BY <1>0, <1>2, <1>3, <1>4, <2>1, MigrateSeals
<1>5. CASE proc[p].op = "rewrap"
  <2>1. Replace(e, [e.row EXCEPT !.key = proc[p].ring.active]) /\ UNCHANGED expected
    BY <1>1, <1>5 DEF Visit
  <2>2. Versioned(e.row)
    BY <1>1, <1>5 DEF ScanInv
  <2> QED BY <1>0, <1>2, <1>3, <1>5, <2>1, <2>2, RewrapSeals
<1>6. CASE proc[p].op = "prune"
  <2>1. CASE UNCHANGED <<rows, expected>>
    BY <1>0, <1>6, <2>1 DEF Pruning
  <2>2. CASE /\ e.row.form = "loose" /\ Holds(e)
             /\ rows' = [rows EXCEPT ![e.id] = NoRow] /\ expected' = expected \ {e.row.text}
    <3>1. rows[e.id] # NoRow /\ rows[e.id].text = e.row.text /\ ~Versioned(rows[e.id])
      BY <1>2, <2>2, HoldsSame DEF Versioned, Envelopes
    <3>2. e.id \in Present
      BY <1>2, <3>1 DEF Present
    <3> QED BY <1>0, <1>6, <2>2, <3>1, <3>2 DEF Pruning
  <2> QED BY <1>1, <1>6, <2>1, <2>2 DEF Visit
<1> QED BY <1>0, <1>4, <1>5, <1>6

LEMMA Putting ==
  ASSUME TypeOK, PlanInv, TextInv, ScanInv, Put
  PROVE  /\ proc[Admin].pc = "put" /\ UNCHANGED expected
         /\ \/ Seals(Admin) /\ Sealing(proc[Admin].ring.active)
            \/ proc[Admin].op = "mark" /\ Tagging
<1>0. /\ Admin \in Procs /\ proc[Admin].pc = "put" /\ proc[Admin].op \in {"convert", "mark"}
      /\ proc[Admin].ring.active \in Keys /\ UNCHANGED expected
  <2>1. Admin \in Procs /\ proc[Admin].pc = "put" /\ UNCHANGED expected
    BY DEF Put, Procs
  <2> QED BY <2>1, StagesOf, OfProcess DEF Ring
<1>1. PICK e \in proc[Admin].batch :
        IF proc[Admin].op = "mark" THEN Replace(e, [e.row EXCEPT !.form = "tagged"])
        ELSE IF e.row.form = "wrapped"
          THEN Replace(e, [e.row EXCEPT !.form = "native", !.key = proc[Admin].ring.active])
          ELSE UNCHANGED rows
  BY DEF Put
<1>2. e \in [id: Ids, row: Row]
  BY <1>0, <1>1, OfProcess
<1>3. CASE proc[Admin].op = "mark"
  <2>1. e.row.form \in {"note16", "loose"}
    BY <1>0, <1>1, <1>3 DEF ScanInv
  <2> QED BY <1>0, <1>1, <1>2, <1>3, <2>1, MarkTags
<1>4. CASE proc[Admin].op = "convert"
  <2>1. Seals(Admin)
    BY <1>0, <1>4 DEF Seals, Early
  <2>2. CASE e.row.form = "wrapped"
    BY <1>0, <1>1, <1>2, <1>4, <2>1, <2>2, ConvertSeals
  <2>3. CASE e.row.form # "wrapped"
    BY <1>0, <1>1, <1>4, <2>1, <2>3 DEF Sealing
  <2> QED BY <2>2, <2>3
<1> QED BY <1>0, <1>3, <1>4

(* Every step leaves the rows alone or changes them in one of four ways.   *)
RowSteps ==
  \/ UNCHANGED <<rows, expected, writes>>
  \/ /\ \E p \in Procs : Seals(p) /\ Sealing(proc[p].ring.active) /\ (VisitRow(p) \/ (p = Admin /\ Put))
     /\ UNCHANGED <<expected, writes, registry, file, removed>>
  \/ Put /\ proc[Admin].op = "mark" /\ Tagging /\ UNCHANGED <<expected, writes, registry, file, removed>>
  \/ /\ \E p \in Procs : VisitRow(p) /\ proc[p].op = "prune" /\ Pruning
     /\ UNCHANGED <<writes, registry, file, removed>>
  \/ \E s \in Servers, i \in HashIds : Write(s, i)

LEMMA RowsStep ==
  ASSUME TypeOK, PlanInv, TextInv, ScanInv, [Next]_vars
  PROVE  RowSteps
<1>1. ASSUME NEW p \in Procs, Runs(p) PROVE RowSteps
  <2>1. CASE VisitRow(p)
    BY <2>1, Visiting DEF RowSteps, VisitRow
  <2>2. CASE ~VisitRow(p)
    <3>1. UNCHANGED <<rows, expected, writes>>
      BY <1>1, <2>2 DEF Runs, ReadRegistry, Bind, SetPending, SetReady, ScanBatch, EndScan, ReadBatch, data
    <3> QED BY <3>1 DEF RowSteps
  <2> QED BY <2>1, <2>2
<1>2. CASE Put
  <2>1. UNCHANGED <<expected, writes, registry, file, removed>>
    BY <1>2 DEF Put
  <2> QED BY <1>2, <2>1, Putting DEF RowSteps, Procs
<1>3. ASSUME NEW s \in Servers, Start(s) PROVE RowSteps
  BY <1>3 DEF Start, data, RowSteps
<1>4. ASSUME NEW s \in Servers, NEW i \in HashIds, Write(s, i) PROVE RowSteps
  BY <1>4 DEF RowSteps
<1>5. ASSUME NEW op \in Commands, Command(op) PROVE RowSteps
  BY <1>5 DEF Command, data, RowSteps
<1>6. ASSUME NEW p \in Procs, Crash(p) PROVE RowSteps
  BY <1>6 DEF Crash, data, RowSteps
<1>7. CASE AddKey \/ WriteKeyring \/ Insert \/ Get
  BY <1>7 DEF AddKey, WriteKeyring, Insert, Get, data, RowSteps
<1>8. CASE UNCHANGED vars
  BY <1>8 DEF vars, RowSteps
<1> QED BY <1>1, <1>2, <1>3, <1>4, <1>5, <1>6, <1>7, <1>8 DEF Next, Procs

-----------------------------------------------------------------------------
(* Types. *)
LEMMA ProcsTyped ==
  ASSUME TypeOK, PlanInv, [Next]_vars
  PROVE  proc' \in [Procs -> Process]
<1>0. Admin \in Procs /\ Servers \subseteq Procs /\ proc \in [Procs -> Process]
  BY DEF Procs, TypeOK
<1>1. ASSUME NEW s \in Servers, Start(s) PROVE proc' \in [Procs -> Process]
  BY <1>1, StartBegins DEF Begins
<1>2. ASSUME NEW op \in Commands, Command(op) PROVE proc' \in [Procs -> Process]
  BY <1>2, CommandBegins DEF Begins
<1>3. ASSUME NEW p \in Procs, Runs(p) PROVE proc' \in [Procs -> Process]
  <2>1. CASE ReadRegistry(p) \/ EndScan(p) \/ ReadBatch(p)
    BY <2>1, ReadRegistryTo, EndScanTo, ReadBatchTo DEF IsAt, IsOver
  <2>2. CASE Bind(p) \/ SetPending(p) \/ SetReady(p)
    BY <2>2, BindTo, SetPendingTo, SetReadyTo DEF IsAt, IsOver
  <2>3. CASE ScanBatch(p) \/ VisitRow(p)
    BY <2>3, ScanBatchTo, VisitRowTo DEF IsAt
  <2> QED BY <1>3, <2>1, <2>2, <2>3 DEF Runs
<1>4. ASSUME NEW p \in Procs, Crash(p) PROVE proc' \in [Procs -> Process]
  BY <1>4, CrashIsOver DEF IsOver
<1>5. CASE WriteKeyring \/ Insert \/ Put
  BY <1>5, AdminEnds DEF IsOver
<1>6. CASE Get
  BY <1>6, GetTo DEF IsAt
<1>7. CASE AddKey \/ (\E s \in Servers, i \in HashIds : Write(s, i)) \/ UNCHANGED vars
  <2>1. UNCHANGED proc
    BY <1>7 DEF AddKey, Write, vars
  <2> QED BY <1>0, <2>1
<1> QED BY <1>0, <1>1, <1>2, <1>3, <1>4, <1>5, <1>6, <1>7 DEF Next, Procs

LEMMA CarryTyped ==
  ASSUME TypeOK, NEW i, NEW j, NEW r, Carry(i, j, r)
  PROVE  rows' \in [Ids -> Row \cup {NoRow}]
<1>1. [rows EXCEPT ![i] = NoRow] \in [Ids -> Row \cup {NoRow}]
  BY DEF TypeOK, Carry
<1> QED BY <1>1 DEF Carry

NewRow(s) == [form |-> "native", text |-> 2 * N + 2 + writes, key |-> proc[s].ring.active]

LEMMA WriteTo ==
  ASSUME TypeOK, NEW s \in Servers, NEW i \in HashIds, Write(s, i)
  PROVE  /\ proc[s].pc = "serving" /\ i \in Ids /\ NewRow(s) \in Row /\ NewRow(s) # NoRow
         /\ Versioned(NewRow(s)) /\ NewRow(s).key = proc[s].ring.active /\ NewRow(s).form = "native"
         /\ NewRow(s).text = 2 * N + 2 + writes
         /\ writes < MaxWrites /\ writes' = writes + 1 /\ UNCHANGED <<registry, file, proc, removed, runs>>
         /\ \/ /\ rows' = [rows EXCEPT ![i] = NewRow(s)]
               /\ expected' = (expected \ {rows[i].text}) \cup {NewRow(s).text}
            \/ /\ rows[i] # NoRow /\ rows' = [rows EXCEPT ![i] = NoRow]
               /\ expected' = expected \ {rows[i].text}
<1>1. PICK k \in 1..N : i = Hash(k)
  BY DEF HashIds
<1>2. i \in Ids
  BY <1>1 DEF Hash, Ids
<1>3. proc[s].ring.active \in Keys
  BY OfProcess DEF Ring, Procs
<1>4. writes \in Nat /\ MaxWrites \in Nat /\ writes < MaxWrites
  BY DEF TypeOK, Write
<1>5. 2 * N + 2 + writes \in Texts
  BY <1>4 DEF Texts
<1>6. NewRow(s) \in Row /\ NewRow(s).form = "native"
  BY <1>3, <1>5 DEF NewRow, Row, Envelopes
<1>7. Versioned(NewRow(s)) /\ NewRow(s) # NoRow
  BY <1>6, RowIs DEF Versioned, Envelopes
<1> QED BY <1>2, <1>6, <1>7 DEF Write, NewRow

LEMMA TypeStep ==
  ASSUME TypeOK, PlanInv, TextInv, ScanInv, [Next]_vars
  PROVE  TypeOK'
<1> DEFINE RowsGoal == rows' \in [Ids -> Row \cup {NoRow}] /\ expected' \subseteq Texts /\ writes' \in 0..MaxWrites
           RegistryGoal == registry' \in [phase: {"uninitialized", "pending", "ready"}, checks: SUBSET Keys]
<1>1. RowsGoal
  <2>1. CASE UNCHANGED <<rows, expected, writes>>
    BY <2>1 DEF TypeOK
  <2>2. ASSUME NEW p \in Procs, Sealing(proc[p].ring.active), UNCHANGED <<expected, writes>> PROVE RowsGoal
    BY <2>2, CarryTyped DEF TypeOK, Sealing
  <2>3. CASE Tagging /\ UNCHANGED <<expected, writes>>
    BY <2>3, CarryTyped DEF TypeOK, Tagging
  <2>4. CASE Pruning /\ UNCHANGED writes
    BY <2>4 DEF TypeOK, Pruning
  <2>5. ASSUME NEW s \in Servers, NEW i \in HashIds, Write(s, i) PROVE RowsGoal
    <3>1. rows' \in [Ids -> Row \cup {NoRow}] /\ NewRow(s).text \in Texts
      BY <2>5, WriteTo, RowIs DEF TypeOK
    <3> QED BY <2>5, <3>1, WriteTo DEF TypeOK
  <2> QED BY <2>1, <2>2, <2>3, <2>4, <2>5, RowsStep DEF RowSteps
<1>2. RegistryGoal
  <2>0. registry \in [phase: {"uninitialized", "pending", "ready"}, checks: SUBSET Keys]
    BY DEF TypeOK
  <2>1. ASSUME NEW p \in Procs, Runs(p) PROVE RegistryGoal
    <3>1. CASE Bind(p)
      <4>1. BoundPhase(proc[p].found) \in {"uninitialized", "pending", "ready"} /\ proc[p].ring.keys \subseteq Keys
        BY <2>1, OfProcess DEF BoundPhase, Ring
      <4> QED BY <2>0, <3>1, <4>1 DEF Bind
    <3>2. CASE SetPending(p) \/ SetReady(p)
      BY <2>0, <3>2 DEF SetPending, SetReady
    <3>3. CASE UNCHANGED registry
      BY <2>0, <3>3
    <3> QED BY <2>1, <3>1, <3>2, <3>3 DEF Runs, ReadRegistry, ScanBatch, EndScan, ReadBatch, VisitRow
  <2>2. CASE Insert
    BY <2>0, <2>2 DEF Insert, Keys
  <2>3. CASE UNCHANGED registry
    BY <2>0, <2>3
  <2> QED BY <2>1, <2>2, <2>3 DEF Next, Start, Write, Command, AddKey, WriteKeyring, Get, Put, Crash, vars, Procs
<1>3. file' \in Ring /\ removed' \subseteq Keys
  <2>1. CASE AddKey
    BY <2>1 DEF AddKey, TypeOK, Ring, Keys
  <2>2. CASE WriteKeyring
    <3>1. proc[Admin].ring \in Ring
      BY OfProcess DEF Procs
    <3> QED BY <2>2, <3>1 DEF WriteKeyring, TypeOK, Ring, Keys
  <2>3. CASE UNCHANGED <<file, removed>>
    BY <2>3 DEF TypeOK
  <2> QED BY <2>1, <2>2, <2>3 DEF Next, Start, Write, Command, Insert, Get, Put, Crash, vars, Runs,
                ReadRegistry, Bind, SetPending, SetReady, ScanBatch, EndScan, ReadBatch, VisitRow
<1>4. runs' \in 0..MaxRuns
  <2>1. CASE runs < MaxRuns /\ runs' = runs + 1
    BY <2>1 DEF TypeOK
  <2>2. CASE UNCHANGED runs
    BY <2>2 DEF TypeOK
  <2> QED BY <2>1, <2>2 DEF Next, Start, Write, Command, AddKey, WriteKeyring, Insert, Get, Put, Crash, vars, Runs,
                ReadRegistry, Bind, SetPending, SetReady, ScanBatch, EndScan, ReadBatch, VisitRow
<1> QED BY <1>1, <1>2, <1>3, <1>4, ProcsTyped DEF TypeOK, Procs

-----------------------------------------------------------------------------
(* Texts. *)
RowTexts ==
  /\ \A t \in expected : \E i \in Present : rows[i].text = t
  /\ \A i \in Present : /\ rows[i].form # "wrecked"
                        /\ rows[i].text \in expected /\ rows[i].text < 2 * N + 2 + writes
                        /\ \A j \in Present \ {i} : rows[j].text # rows[i].text

LEMMA TextsCarried ==
  ASSUME TypeOK, RowTexts, NEW i, NEW j, NEW r, Carry(i, j, r), UNCHANGED <<expected, writes>>
  PROVE  RowTexts'
<1>1. /\ i \in Present /\ j \in Ids /\ r # NoRow /\ r.text = rows[i].text /\ r.form # "wrecked"
      /\ rows' = [[rows EXCEPT ![i] = NoRow] EXCEPT ![j] = r]
  BY RowIs DEF Carry, Present
<1>2. rows'[j] = r /\ Present' = (Present \ {i}) \cup {j} /\ (j = i \/ j \notin Present)
      /\ \A l \in Present \ {i} : rows'[l] = rows[l] /\ l # j
  <2>1. rows'[j] = r /\ \A l \in Ids \ {i, j} : rows'[l] = rows[l]
    BY <1>1 DEF TypeOK
  <2>2. i # j => rows'[i] = NoRow
    BY <1>1 DEF TypeOK, Present
  <2>3. j = i \/ j \notin Present
    BY DEF Carry, Present
  <2> QED BY <1>1, <2>1, <2>2, <2>3 DEF Present
<1>3. ASSUME NEW t \in expected PROVE \E l \in Present' : rows'[l].text = t
  <2>1. PICK l \in Present : rows[l].text = t
    BY <1>3 DEF RowTexts
  <2> QED BY <1>1, <1>2, <2>1
<1>4. ASSUME NEW l \in Present'
      PROVE  /\ rows'[l].form # "wrecked"
             /\ rows'[l].text \in expected /\ rows'[l].text < 2 * N + 2 + writes
             /\ \A m \in Present' \ {l} : rows'[m].text # rows'[l].text
  <2> DEFINE From(m) == IF m = j THEN i ELSE m
  <2>1. \A m \in Present' : From(m) \in Present /\ rows'[m].text = rows[From(m)].text
    BY <1>1, <1>2
  <2>2. \A m \in Present' \ {l} : From(m) # From(l)
    BY <1>2
  <2>3. rows'[l].form # "wrecked"
    BY <1>1, <1>2 DEF RowTexts
  <2> HIDE DEF From
  <2> QED BY <2>1, <2>2, <2>3 DEF RowTexts
<1> QED BY <1>3, <1>4 DEF RowTexts

LEMMA TextRemoved ==
  ASSUME TypeOK, RowTexts, NEW i \in Present, rows' = [rows EXCEPT ![i] = NoRow],
         expected' = expected \ {rows[i].text}, writes' \in Nat, writes' >= writes
  PROVE  RowTexts'
<1>1. Present' = Present \ {i} /\ \A l \in Present \ {i} : rows'[l] = rows[l]
  BY DEF TypeOK, Present
<1>2. \A l \in Present : rows[l].text \in Nat
  <2>1. Texts \subseteq Nat
    BY DEF Texts
  <2> QED BY <2>1, RowTyped, RowIs
<1>3. writes \in Nat
  BY DEF TypeOK
<1>4. \A l \in Present : rows[l].text < 2 * N + 2 + writes'
  BY <1>2, <1>3 DEF RowTexts
<1> QED BY <1>1, <1>4 DEF RowTexts

LEMMA TextWritten ==
  ASSUME TypeOK, RowTexts, NEW s \in Servers, NEW i \in HashIds, Write(s, i)
  PROVE  RowTexts'
<1>0. writes \in Nat /\ writes' = writes + 1
  BY WriteTo DEF TypeOK
<1>1. CASE rows[i] # NoRow /\ rows' = [rows EXCEPT ![i] = NoRow] /\ expected' = expected \ {rows[i].text}
  <2>1. i \in Present
    BY <1>1, WriteTo DEF Present
  <2>2. writes' \in Nat /\ writes' >= writes
    BY <1>0
  <2> QED BY <1>1, <2>1, <2>2, TextRemoved
<1>2. CASE /\ rows' = [rows EXCEPT ![i] = NewRow(s)]
           /\ expected' = (expected \ {rows[i].text}) \cup {NewRow(s).text}
  <2>1. /\ rows'[i] = NewRow(s) /\ Present' = Present \cup {i} /\ i \in Ids
        /\ \A l \in Present \ {i} : rows'[l] = rows[l]
    BY <1>2, WriteTo DEF TypeOK, Present
  <2>2. NewRow(s).text = 2 * N + 2 + writes /\ NewRow(s).form # "wrecked"
    BY WriteTo
  <2>3. \A l \in Present : rows[l].text \in Nat /\ rows[l].text # NewRow(s).text /\ rows[l].text < 2 * N + 2 + writes'
    <3>1. Texts \subseteq Nat
      BY DEF Texts
    <3>2. \A l \in Present : rows[l].text \in Nat /\ rows[l].text < 2 * N + 2 + writes
      BY <3>1, RowTyped, RowIs DEF RowTexts
    <3> QED BY <1>0, <2>2, <3>2
  <2>4. ASSUME NEW t \in expected' PROVE \E l \in Present' : rows'[l].text = t
    <3>1. CASE t = NewRow(s).text
      BY <2>1, <3>1
    <3>2. CASE t \in expected /\ t # rows[i].text
      <4>1. PICK l \in Present : rows[l].text = t
        BY <3>2 DEF RowTexts
      <4> QED BY <2>1, <3>2, <4>1
    <3> QED BY <1>2, <3>1, <3>2
  <2>5. ASSUME NEW l \in Present'
        PROVE  /\ rows'[l].form # "wrecked"
               /\ rows'[l].text \in expected' /\ rows'[l].text < 2 * N + 2 + writes'
               /\ \A m \in Present' \ {l} : rows'[m].text # rows'[l].text
    <3>1. CASE l = i
      <4>1. rows'[l].text < 2 * N + 2 + writes'
        BY <1>0, <2>1, <2>2, <3>1
      <4> QED BY <1>2, <2>1, <2>2, <2>3, <3>1, <4>1
    <3>2. CASE l # i
      <4>1. l \in Present /\ rows'[l] = rows[l]
        BY <2>1, <3>2
      <4>2. rows[l].text # rows[i].text
        <5>1. CASE i \in Present
          BY <3>2, <4>1, <5>1 DEF RowTexts
        <5>2. CASE i \notin Present
          <6>1. rows[i].text = 0 /\ 0 \notin Texts /\ rows[l].text \in Texts
            BY <2>1, <4>1, <5>2, RowTyped, RowIs DEF Present, NoRow, Texts
          <6> QED BY <6>1
        <5> QED BY <5>1, <5>2
      <4>3. \A m \in Present' \ {l} : rows'[m].text # rows'[l].text
        BY <2>1, <2>2, <2>3, <4>1 DEF RowTexts
      <4>4. rows[l].form # "wrecked" /\ rows[l].text \in expected'
        BY <1>2, <4>1, <4>2 DEF RowTexts
      <4> QED BY <2>3, <4>1, <4>3, <4>4
    <3> QED BY <3>1, <3>2
  <2> QED BY <2>4, <2>5 DEF RowTexts
<1> QED BY <1>1, <1>2, WriteTo

(* What processes have read of rows is what the rows were. *)
LEMMA BatchesFrom ==
  ASSUME TypeOK, PlanInv, [Next]_vars, NEW p \in Procs, NEW e \in proc'[p].batch
  PROVE  \/ e \in proc[p].batch /\ proc'[p].op = proc[p].op
         \/ /\ proc'[p].op = proc[p].op
            /\ \E i \in Present :
                 /\ e = [id |-> i, row |-> rows[i]]
                 /\ \/ proc[p].pc = "walk" /\ proc[p].op \in {"serve", "migrate", "rewrap", "prune"}
                    \/ /\ p = Admin /\ proc[p].pc = "get"
                       /\ proc[p].op = "mark" => rows[i].form \in {"note16", "loose"}
<1> DEFINE Kept == e \in proc[p].batch /\ proc'[p].op = proc[p].op
           Read(i) == /\ e = [id |-> i, row |-> rows[i]]
                      /\ \/ proc[p].pc = "walk" /\ proc[p].op \in {"serve", "migrate", "rewrap", "prune"}
                         \/ /\ p = Admin /\ proc[p].pc = "get"
                            /\ proc[p].op = "mark" => rows[i].form \in {"note16", "loose"}
           Goal == Kept \/ (proc'[p].op = proc[p].op /\ \E i \in Present : Read(i))
<1>0. Admin \in Procs /\ Servers \subseteq Procs
  BY DEF Procs
<1>1. ASSUME NEW q \in Procs, IsOver(q) PROVE Goal
  BY <1>1 DEF IsOver, Others
<1>2. ASSUME NEW q \in Procs, NEW op, NEW ring, Begins(q, op, ring) PROVE Goal
  BY <1>2 DEF Begins, Others
<1>3. ASSUME NEW q \in Procs, NEW pc, NEW phase, NEW found, NEW at, NEW batch,
             IsAt(q, pc, phase, found, at, batch), batch \subseteq proc[q].batch
      PROVE  Goal
  BY <1>3 DEF IsAt, Others
<1>4. ASSUME NEW q \in Procs, ReadBatch(q) PROVE Goal
  <2>1. proc[q].pc = "walk" /\ proc[q].op \in {"serve", "migrate", "rewrap", "prune"}
    BY <1>4, ReadBatchTo, StagesOf
  <2>2. ASSUME NEW ids \in SUBSET Present, NEW at,
               IsAt(q, "walk", proc[q].phase, proc[q].found, at, Entries(ids))
        PROVE  Goal
    <3>1. CASE p # q
      BY <2>2, <3>1 DEF IsAt, Others
    <3>2. CASE p = q
      <4>1. e \in Entries(ids) /\ proc'[p].op = proc[p].op
        BY <2>2, <3>2 DEF IsAt
      <4>2. PICK i \in ids : e = [id |-> i, row |-> rows[i]]
        BY <4>1 DEF Entries
      <4> QED BY <2>1, <3>2, <4>1, <4>2
    <3> QED BY <3>1, <3>2
  <2>3. ASSUME NEW ph, IsAt(q, "finalScan", ph, {}, 0, {}) PROVE Goal
    BY <1>3, <2>3
  <2> QED BY <1>1, <1>4, <2>2, <2>3, ReadBatchTo
<1>5. CASE Get
  <2>1. PICK i \in Present :
              /\ proc[Admin].op = "mark" => rows[i].form \in {"note16", "loose"}
              /\ IsAt(Admin, "put", proc[Admin].phase, proc[Admin].found, proc[Admin].at, Entries({i}))
    BY <1>5, GetTo
  <2>2. proc[Admin].pc = "get"
    BY <1>5, GetTo
  <2>3. CASE p # Admin
    BY <2>1, <2>3 DEF IsAt, Others
  <2>4. CASE p = Admin
    <3>1. e \in Entries({i}) /\ proc'[p].op = proc[p].op
      BY <2>1, <2>4 DEF IsAt
    <3>2. e = [id |-> i, row |-> rows[i]]
      BY <3>1 DEF Entries
    <3> QED BY <2>1, <2>2, <2>4, <3>1, <3>2
  <2> QED BY <2>3, <2>4
<1>6. ASSUME NEW q \in Procs, Runs(q) PROVE Goal
  <2>1. CASE ReadRegistry(q)
    BY <1>1, <1>3, <2>1, ReadRegistryTo
  <2>2. CASE Bind(q) \/ SetPending(q) \/ SetReady(q)
    BY <1>1, <1>3, <2>2, BindTo, SetPendingTo, SetReadyTo
  <2>3. CASE ScanBatch(q)
    BY <1>3, <2>3, ScanBatchTo
  <2>4. CASE EndScan(q)
    BY <1>1, <1>3, <2>4, EndScanTo
  <2>5. CASE VisitRow(q)
    <3>1. PICK f : IsAt(q, "walk", proc[q].phase, proc[q].found, proc[q].at, proc[q].batch \ {f})
      BY <2>5, VisitRowTo
    <3>2. proc[q].batch \ {f} \subseteq proc[q].batch
      OBVIOUS
    <3> QED BY <1>3, <3>1, <3>2
  <2> QED BY <1>4, <1>6, <2>1, <2>2, <2>3, <2>4, <2>5 DEF Runs
<1>7. ASSUME NEW s \in Servers, Start(s) PROVE Goal
  BY <1>0, <1>2, <1>7, StartBegins
<1>8. ASSUME NEW op \in Commands, Command(op) PROVE Goal
  BY <1>0, <1>2, <1>8, CommandBegins
<1>9. ASSUME NEW q \in Procs, Crash(q) PROVE Goal
  BY <1>1, <1>9, CrashIsOver
<1>10. CASE WriteKeyring \/ Insert \/ Put
  BY <1>0, <1>1, <1>10, AdminEnds
<1>11. CASE AddKey \/ (\E s \in Servers, i \in HashIds : Write(s, i)) \/ UNCHANGED vars
  <2>1. UNCHANGED proc
    BY <1>11 DEF AddKey, Write, vars
  <2> QED BY <2>1
<1>12. Goal
  BY <1>5, <1>6, <1>7, <1>8, <1>9, <1>10, <1>11 DEF Next, Procs
<1> QED BY <1>12

LEMMA TextStep ==
  ASSUME TypeOK, PlanInv, TextInv, ScanInv, [Next]_vars
  PROVE  TextInv'
<1>0. RowTexts
  BY DEF TextInv, RowTexts
<1>1. RowTexts'
  <2>1. CASE UNCHANGED <<rows, expected, writes>>
    BY <1>0, <2>1 DEF RowTexts, Present
  <2>2. CASE rows' = rows /\ UNCHANGED <<expected, writes>>
    BY <2>1, <2>2
  <2>3. ASSUME NEW i, NEW j, NEW r, Carry(i, j, r), UNCHANGED <<expected, writes>> PROVE RowTexts'
    BY <1>0, <2>3, TextsCarried
  <2>4. CASE Pruning /\ UNCHANGED writes
    <3>1. writes' \in Nat /\ writes' >= writes
      BY <2>4 DEF TypeOK
    <3>2. CASE rows' = rows /\ expected' = expected
      BY <2>1, <2>4, <3>2
    <3>3. ASSUME NEW i \in Present, rows' = [rows EXCEPT ![i] = NoRow], expected' = expected \ {rows[i].text}
          PROVE  RowTexts'
      BY <1>0, <3>1, <3>3, TextRemoved
    <3> QED BY <2>4, <3>2, <3>3 DEF Pruning
  <2>5. ASSUME NEW s \in Servers, NEW i \in HashIds, Write(s, i) PROVE RowTexts'
    BY <1>0, <2>5, TextWritten
  <2>6. ASSUME NEW k, Sealing(k), UNCHANGED <<expected, writes>> PROVE RowTexts'
    BY <2>2, <2>3, <2>6 DEF Sealing
  <2>7. CASE Tagging /\ UNCHANGED <<expected, writes>>
    BY <2>2, <2>3, <2>7 DEF Tagging
  <2> QED BY <2>1, <2>4, <2>5, <2>6, <2>7, RowsStep DEF RowSteps
<1>2. ASSUME NEW p \in Procs, NEW e \in proc'[p].batch PROVE e.row.form # "wrecked"
  <2>1. CASE e \in proc[p].batch
    BY <2>1 DEF TextInv
  <2>2. ASSUME NEW i \in Present, e = [id |-> i, row |-> rows[i]] PROVE e.row.form # "wrecked"
    BY <2>2 DEF TextInv
  <2> QED BY <1>2, <2>1, <2>2, BatchesFrom
<1> QED BY <1>1, <1>2 DEF TextInv, RowTexts

-----------------------------------------------------------------------------
(* Keyrings. *)
Beginning == (\E s \in Servers : Start(s)) \/ (\E op \in Commands : Command(op))

(* A process that does not begin keeps its operation and its keyring, or   *)
(* has ended.                                                              *)
LEMMA ProcsKept ==
  ASSUME TypeOK, PlanInv, [Next]_vars, ~Beginning, NEW q \in Procs
  PROVE  \/ proc'[q].op = "none" /\ proc'[q].pc \in {"down", "refused"}
         \/ proc'[q].op = proc[q].op /\ proc'[q].ring = proc[q].ring
<1> DEFINE Goal == \/ proc'[q].op = "none" /\ proc'[q].pc \in {"down", "refused"}
                   \/ proc'[q].op = proc[q].op /\ proc'[q].ring = proc[q].ring
<1>0. Admin \in Procs
  BY DEF Procs
<1>1. ASSUME NEW p \in Procs, IsOver(p) PROVE Goal
  BY <1>1 DEF IsOver, Others
<1>2. ASSUME NEW p \in Procs, NEW pc, NEW phase, NEW found, NEW at, NEW batch,
             IsAt(p, pc, phase, found, at, batch)
      PROVE  Goal
  BY <1>2 DEF IsAt, Others
<1>3. ASSUME NEW p \in Procs, Runs(p) PROVE Goal
  <2>1. CASE ReadRegistry(p) \/ EndScan(p)
    BY <1>1, <1>2, <2>1, ReadRegistryTo, EndScanTo
  <2>2. CASE Bind(p) \/ SetPending(p) \/ SetReady(p)
    BY <1>1, <1>2, <2>2, BindTo, SetPendingTo, SetReadyTo
  <2>3. CASE ScanBatch(p) \/ ReadBatch(p)
    BY <1>1, <1>2, <2>3, ScanBatchTo, ReadBatchTo
  <2>4. CASE VisitRow(p)
    BY <1>2, <2>4, VisitRowTo
  <2> QED BY <1>3, <2>1, <2>2, <2>3, <2>4 DEF Runs
<1>4. ASSUME NEW p \in Procs, Crash(p) PROVE Goal
  BY <1>1, <1>4, CrashIsOver
<1>5. CASE WriteKeyring \/ Insert \/ Put
  BY <1>0, <1>1, <1>5, AdminEnds
<1>6. CASE Get
  BY <1>0, <1>2, <1>6, GetTo
<1>7. CASE AddKey \/ (\E s \in Servers, i \in HashIds : Write(s, i)) \/ UNCHANGED vars
  <2>1. UNCHANGED proc
    BY <1>7 DEF AddKey, Write, vars
  <2> QED BY <2>1
<1>8. Goal
  BY <1>3, <1>4, <1>5, <1>6, <1>7 DEF Next, Procs, Beginning
<1> QED BY <1>8

LEMMA FileKept ==
  ASSUME [Next]_vars, ~AddKey, ~WriteKeyring
  PROVE  UNCHANGED <<file, removed>>
  BY DEF Next, Start, Write, Command, Insert, Get, Put, Crash, vars, Runs,
         ReadRegistry, Bind, SetPending, SetReady, ScanBatch, EndScan, ReadBatch, VisitRow

LEMMA RingStep ==
  ASSUME TypeOK, PlanInv, RingInv, [Next]_vars
  PROVE  RingInv'
<1>0. Admin \in Procs /\ Servers \subseteq Procs /\ Admin \notin Servers
  BY DEF Procs
<1>1. ASSUME NEW s \in Servers, Start(s) PROVE RingInv'
  <2>1. PICK ring \in {file, StrayRing} : Begins(s, "serve", ring)
    BY <1>1, StartBegins
  <2>2. UNCHANGED <<file, removed>>
    BY <1>1 DEF Start
  <2>3. proc'[Admin] = proc[Admin] /\ \A q \in Servers \ {s} : proc'[q] = proc[q]
    BY <1>0, <2>1 DEF Begins, Others
  <2>4. proc'[s].ring = ring
    BY <2>1 DEF Begins
  <2> QED BY <2>1, <2>2, <2>3, <2>4 DEF RingInv
<1>2. ASSUME NEW op \in Commands, Command(op) PROVE RingInv'
  <2>1. Begins(Admin, op, CommandRing(op)) /\ UNCHANGED <<file, removed>>
    BY <1>2, CommandBegins DEF Command
  <2>2. proc'[Admin].op = op /\ proc'[Admin].ring = CommandRing(op) /\ \A q \in Servers : proc'[q] = proc[q]
    BY <1>0, <2>1 DEF Begins, Others
  <2>3. op \in {"register", "activate"} => New \in file.keys
    BY <1>2 DEF Command
  <2>4. op = "remove" => file.active # Old
    BY <1>2 DEF Command
  <2>5. /\ op = "activate" => CommandRing(op).active = New /\ CommandRing(op).keys = file.keys
        /\ op # "activate" => CommandRing(op) = file
    BY <1>2, CommandBegins
  <2> QED BY <2>1, <2>2, <2>3, <2>4, <2>5 DEF RingInv
<1>3. CASE ~Beginning /\ UNCHANGED <<file, removed>>
  <2>1. \A q \in Procs : proc'[q].op = "none" \/ (proc'[q].op = proc[q].op /\ proc'[q].ring = proc[q].ring)
    BY <1>3, ProcsKept
  <2> QED BY <1>0, <1>3, <2>1 DEF RingInv
<1>4. CASE AddKey
  <2>1. proc[Admin].op = "none"
    BY <1>0, <1>4, DownIsNone DEF AddKey
  <2>2. file' = [file EXCEPT !.keys = @ \cup {New}] /\ New \notin removed /\ UNCHANGED <<proc, removed>>
    BY <1>4 DEF AddKey
  <2>3. file'.active = file.active /\ file'.keys = file.keys \cup {New}
    BY <2>2 DEF TypeOK, Ring
  <2> QED BY <2>1, <2>2, <2>3 DEF RingInv
<1>5. CASE WriteKeyring
  <2>1. IsOver(Admin) /\ proc[Admin].pc = "write" /\ proc[Admin].op \in {"activate", "remove"}
    <3>1. proc[Admin].pc = "write"
      BY <1>5 DEF WriteKeyring
    <3> QED BY <1>0, <1>5, <3>1, AdminEnds, StagesOf
  <2>2. proc'[Admin].op = "none" /\ \A s \in Servers : proc'[s].op = "none"
    BY <1>0, <2>1 DEF IsOver, Others, PlanInv
  <2>3. CASE proc[Admin].op = "activate"
    <3>1. file' = proc[Admin].ring /\ UNCHANGED removed
      BY <1>5, <2>3 DEF WriteKeyring
    <3> QED BY <2>2, <2>3, <3>1 DEF RingInv
  <2>4. CASE proc[Admin].op = "remove"
    <3>1. file' = [file EXCEPT !.keys = @ \ {Old}] /\ removed' = removed \cup {Old}
      BY <1>5, <2>4 DEF WriteKeyring
    <3>2. file'.active = file.active /\ file'.keys = file.keys \ {Old}
      BY <3>1 DEF TypeOK, Ring
    <3> QED BY <2>2, <2>4, <3>1, <3>2 DEF RingInv
  <2> QED BY <2>1, <2>3, <2>4
<1>6. Beginning => UNCHANGED <<file, removed>>
  BY DEF Beginning, Start, Command
<1> QED BY <1>1, <1>2, <1>3, <1>4, <1>5, FileKept DEF Beginning

-----------------------------------------------------------------------------
(* How a process moves from stage to stage. *)
Turns(q, from, to) == proc[q].pc = from /\ proc'[q].pc = to

Passes(q) ==
  \/ Turns(q, "pending", "walk") \/ Turns(q, "walk", "walk") \/ Turns(q, "get", "put")
  \/ Turns(q, "ready", "serving")

Moves(q) ==
  \/ proc'[q] = proc[q]
  \/ proc'[q].op = "none" /\ proc'[q].pc \in {"down", "refused"}
  \/ proc'[q].pc = "begin" /\ proc'[q].at = 0
  \/ /\ proc'[q].op = proc[q].op /\ proc'[q].ring = proc[q].ring
     /\ \/ /\ ReadRegistry(q) /\ Admits(q, proc'[q].pc)
           /\ proc'[q].found = {} /\ proc'[q].at = 0
        \/ /\ ScanBatch(q) /\ Turns(q, proc[q].pc, proc[q].pc) /\ Batch(proc[q].at) # {}
           /\ proc'[q].found = Found(q) /\ proc'[q].at = Last(Batch(proc[q].at))
        \/ /\ EndScan(q) /\ Turns(q, "bindScan", "bind")
           /\ "failed" \notin proc[q].found /\ \A i \in Present : i <= proc[q].at
        \/ /\ EndScan(q) /\ Concludes(q, proc'[q].pc)
           /\ \A i \in Present : i <= proc[q].at
        \/ /\ Turns(q, "walk", "finalScan") /\ proc[q].op \in {"serve", "migrate"}
           /\ proc'[q].found = {} /\ proc'[q].at = 0
        \/ Passes(q)

LEMMA MovesStep ==
  ASSUME TypeOK, PlanInv, [Next]_vars, NEW q \in Procs
  PROVE  Moves(q)
<1>0. Admin \in Procs /\ Servers \subseteq Procs
  BY DEF Procs
<1>1. ASSUME NEW p \in Procs, IsOver(p) PROVE Moves(q)
  BY <1>1 DEF IsOver, Others, Moves
<1>2. ASSUME NEW p \in Procs, NEW op, NEW ring, Begins(p, op, ring) PROVE Moves(q)
  BY <1>2 DEF Begins, Others, Moves
<1>3. ASSUME NEW p \in Procs, p # q, NEW pc, NEW phase, NEW found, NEW at, NEW batch,
             IsAt(p, pc, phase, found, at, batch)
      PROVE  Moves(q)
  BY <1>3 DEF IsAt, Others, Moves
<1>4. ASSUME NEW p \in Procs, Runs(p) PROVE Moves(q)
  <2>1. CASE ReadRegistry(p)
    <3>1. ASSUME NEW pc, NEW phase, Admits(p, pc), IsAt(p, pc, phase, {}, 0, {}) PROVE Moves(q)
      <4>1. CASE p = q
        BY <2>1, <3>1, <4>1 DEF IsAt, Moves
      <4> QED BY <1>3, <3>1, <4>1
    <3> QED BY <1>1, <2>1, <3>1, ReadRegistryTo
  <2>2. CASE Bind(p)
    <3>1. CASE p = q
      BY <2>2, <3>1, BindTo DEF IsAt, Moves
    <3> QED BY <1>3, <2>2, <3>1, BindTo
  <2>3. CASE SetPending(p)
    <3>1. CASE p = q
      BY <2>3, <3>1, SetPendingTo DEF IsAt, Moves, Passes, Turns
    <3> QED BY <1>3, <2>3, <3>1, SetPendingTo
  <2>4. CASE SetReady(p)
    <3>1. CASE p = q /\ IsAt(p, "serving", proc[p].phase, {}, 0, {})
      BY <2>4, <3>1, SetReadyTo DEF IsAt, Moves, Passes, Turns
    <3> QED BY <1>1, <1>3, <2>4, <3>1, SetReadyTo
  <2>5. CASE ScanBatch(p)
    <3>1. CASE p = q
      BY <2>5, <3>1, ScanBatchTo DEF IsAt, Moves, Turns
    <3> QED BY <1>3, <2>5, <3>1, ScanBatchTo
  <2>6. CASE EndScan(p)
    <3>1. CASE /\ p = q /\ proc[p].pc = "bindScan" /\ "failed" \notin proc[p].found
               /\ IsAt(p, "bind", proc[p].phase, proc[p].found, 0, proc[p].batch)
      BY <2>6, <3>1, EndScanTo DEF IsAt, Moves, Turns
    <3>2. ASSUME p = q, NEW pc, Concludes(p, pc), IsAt(p, pc, proc[p].phase, {}, 0, {}) PROVE Moves(q)
      BY <2>6, <3>2, EndScanTo DEF IsAt, Moves
    <3> QED BY <1>1, <1>3, <2>6, <3>1, <3>2, EndScanTo
  <2>7. CASE ReadBatch(p)
    <3>1. ASSUME p = q, proc[p].op \in {"serve", "migrate"}, IsAt(p, "finalScan", proc[p].phase, {}, 0, {})
          PROVE  Moves(q)
      BY <2>7, <3>1, ReadBatchTo DEF IsAt, Moves, Turns
    <3>2. ASSUME p = q, NEW ids, NEW at, IsAt(p, "walk", proc[p].phase, proc[p].found, at, Entries(ids))
          PROVE  Moves(q)
      BY <2>7, <3>2, ReadBatchTo DEF IsAt, Moves, Passes, Turns
    <3> QED BY <1>1, <1>3, <2>7, <3>1, <3>2, ReadBatchTo
  <2>8. CASE VisitRow(p)
    <3>1. PICK f : IsAt(p, "walk", proc[p].phase, proc[p].found, proc[p].at, proc[p].batch \ {f})
      BY <2>8, VisitRowTo
    <3>2. CASE p = q
      BY <2>8, <3>1, <3>2, VisitRowTo DEF IsAt, Moves, Passes, Turns
    <3> QED BY <1>3, <3>1, <3>2
  <2> QED BY <1>4, <2>1, <2>2, <2>3, <2>4, <2>5, <2>6, <2>7, <2>8 DEF Runs
<1>5. CASE Get
  <2>1. PICK i : IsAt(Admin, "put", proc[Admin].phase, proc[Admin].found, proc[Admin].at, Entries({i}))
    BY <1>5, GetTo
  <2>2. CASE q = Admin
    BY <1>5, <2>1, <2>2, GetTo DEF IsAt, Moves, Passes, Turns
  <2> QED BY <1>0, <1>3, <2>1, <2>2
<1>6. ASSUME NEW s \in Servers, Start(s) PROVE Moves(q)
  BY <1>0, <1>2, <1>6, StartBegins
<1>7. ASSUME NEW op \in Commands, Command(op) PROVE Moves(q)
  BY <1>0, <1>2, <1>7, CommandBegins
<1>8. ASSUME NEW p \in Procs, Crash(p) PROVE Moves(q)
  BY <1>1, <1>8, CrashIsOver
<1>9. CASE WriteKeyring \/ Insert \/ Put
  BY <1>0, <1>1, <1>9, AdminEnds
<1>10. CASE AddKey \/ (\E s \in Servers, i \in HashIds : Write(s, i)) \/ UNCHANGED vars
  <2>1. UNCHANGED proc
    BY <1>10 DEF AddKey, Write, vars
  <2> QED BY <2>1 DEF Moves
<1> QED BY <1>4, <1>5, <1>6, <1>7, <1>8, <1>9, <1>10 DEF Next, Procs

(* Where a row comes from. *)
Resealed(i) ==
  /\ Versioned(rows'[i]) /\ UNCHANGED <<registry, file, removed>>
  /\ \E p \in Procs : /\ Seals(p) /\ proc[p].pc \in {"walk", "put", "serving"}
                      /\ rows'[i].key = proc[p].ring.active

Marked(i) ==
  /\ i \in Present /\ ~Versioned(rows[i]) /\ ~Versioned(rows'[i]) /\ rows'[i].key = None
  /\ rows[i].form \in PlainForms /\ proc[Admin].op = "mark"

LEMMA RowsFrom ==
  ASSUME TypeOK, PlanInv, TextInv, ScanInv, [Next]_vars, NEW i \in Present'
  PROVE  (i \in Present /\ rows'[i] = rows[i]) \/ Resealed(i) \/ Marked(i)
<1> DEFINE Same == i \in Present /\ rows'[i] = rows[i]
<1>0. i \in Ids /\ rows'[i] # NoRow
  BY DEF Present
<1>1. ASSUME rows' = rows PROVE Same
  BY <1>1 DEF Present
<1>2. ASSUME NEW a, NEW b, NEW r, Carry(a, b, r)
      PROVE  Same \/ (i = b /\ rows'[i] = r /\ r \in Row)
  BY <1>0, <1>2 DEF Carry, TypeOK, Present
<1>3. ASSUME NEW p \in Procs, Seals(p), Sealing(proc[p].ring.active), VisitRow(p) \/ Put,
             UNCHANGED <<registry, file, removed>>, p = Admin \/ VisitRow(p)
      PROVE  Same \/ Resealed(i)
  <2>1. proc[p].pc \in {"walk", "put"}
    BY <1>3 DEF VisitRow, Put
  <2>2. CASE rows' = rows
    BY <1>1, <2>2
  <2>3. ASSUME NEW a, NEW b, NEW r, Carry(a, b, r), Versioned(r), r.key = proc[p].ring.active
        PROVE  Same \/ Resealed(i)
    BY <1>2, <1>3, <2>1, <2>3 DEF Resealed
  <2> QED BY <1>3, <2>2, <2>3 DEF Sealing
<1>4. ASSUME proc[Admin].op = "mark", Tagging PROVE Same \/ Marked(i)
  <2>1. CASE rows' = rows
    BY <1>1, <2>1
  <2>2. ASSUME NEW a, NEW r, Carry(a, a, r), rows[a].form \in PlainForms, r.form = "tagged"
        PROVE  Same \/ Marked(i)
    <3>1. a \in Present /\ r.key = None /\ ~Versioned(rows[a]) /\ ~Versioned(r)
      BY <2>2, RowIs DEF Carry, Present, Versioned, PlainForms, Envelopes
    <3> QED BY <1>2, <1>4, <2>2, <3>1 DEF Marked
  <2> QED BY <1>4, <2>1, <2>2 DEF Tagging
<1>5. ASSUME Pruning PROVE Same
  <2>1. ASSUME NEW a \in Present, rows' = [rows EXCEPT ![a] = NoRow] PROVE Same
    BY <1>0, <2>1 DEF TypeOK, Present
  <2> QED BY <1>1, <1>5, <2>1 DEF Pruning
<1>6. ASSUME NEW s \in Servers, NEW j \in HashIds, Write(s, j) PROVE Same \/ Resealed(i)
  <2>0. s \in Procs
    BY DEF Procs
  <2>1. Seals(s) /\ proc[s].pc = "serving"
    BY <1>6, <2>0, WriteTo, StagesOf DEF Seals, Early
  <2>2. CASE rows' = [rows EXCEPT ![j] = NoRow]
    BY <1>0, <2>2 DEF TypeOK, Present
  <2>3. CASE rows' = [rows EXCEPT ![j] = NewRow(s)]
    <3>1. Same \/ rows'[i] = NewRow(s)
      BY <1>0, <2>3 DEF TypeOK, Present
    <3> QED BY <1>6, <2>0, <2>1, <3>1, WriteTo DEF Resealed
  <2> QED BY <1>6, <2>2, <2>3, WriteTo
<1> QED BY <1>1, <1>3, <1>4, <1>5, <1>6, RowsStep DEF RowSteps

-----------------------------------------------------------------------------
(* The registry. *)
Others4 == TypeOK /\ PlanInv /\ TextInv /\ ScanInv

LEMMA RegistrySteps ==
  ASSUME [Next]_vars
  PROVE  \/ UNCHANGED registry
         \/ Insert
         \/ \E p \in Procs : Bind(p) \/ SetPending(p) \/ SetReady(p)
  BY DEF Next, Start, Write, Command, AddKey, WriteKeyring, Get, Put, Crash, vars, Runs,
         ReadRegistry, ScanBatch, EndScan, ReadBatch, VisitRow, Procs

LEMMA Unregistered ==
  ASSUME Others4, RingInv, RegistryInv, [Next]_vars, registry = NoRegistry, registry' = NoRegistry
  PROVE  RegistryInv'
<1>0. TypeOK /\ PlanInv /\ TextInv /\ ScanInv /\ Admin \in Procs
  BY DEF Others4, Procs
<1>1. file'.active = Old
  <2>1. CASE AddKey
    BY <1>0, <2>1 DEF AddKey, TypeOK, Ring, RegistryInv
  <2>2. CASE WriteKeyring
    <3>1. proc[Admin].pc = "write" /\ proc[Admin].op \in {"activate", "remove"}
      BY <1>0, <2>2, StagesOf DEF WriteKeyring
    <3> QED BY <1>0, <3>1 DEF RegistryInv, Early
  <2> QED BY <2>1, <2>2, FileKept DEF RegistryInv
<1>2. ASSUME NEW q \in Procs PROVE proc'[q].pc \in Early \/ proc'[q].op \in {"prune", "mark"}
  <2>1. Moves(q) /\ (proc[q].pc \in Early \/ proc[q].op \in {"prune", "mark"})
    BY <1>0, MovesStep DEF RegistryInv
  <2>2. CASE proc[q].op \in {"prune", "mark"}
    BY <2>1, <2>2 DEF Moves, Early
  <2>3. CASE proc[q].pc \in Early /\ proc[q].op \notin {"prune", "mark"}
    <3>1. ~Passes(q) /\ ~Turns(q, "walk", "finalScan") /\ ~Concludes(q, proc'[q].pc)
      BY <2>3 DEF Early, Passes, Turns, Concludes
    <3>2. Admits(q, proc'[q].pc) => proc'[q].pc \in Early
      BY <2>3 DEF Early, Admits
    <3> QED BY <2>1, <2>3, <3>1, <3>2 DEF Moves, Early, Turns
  <2> QED BY <2>1, <2>2, <2>3
<1>3. ASSUME NEW i \in Present', Versioned(rows'[i])
      PROVE  i \in Present /\ rows'[i] = rows[i] /\ rows[i].key = Old
  <2>1. ~Resealed(i)
    BY DEF Resealed, Seals, Early, RegistryInv
  <2>2. ~Marked(i)
    BY <1>3 DEF Marked
  <2> QED BY <1>0, <1>3, <2>1, <2>2, RowsFrom DEF RegistryInv
<1>4. ASSUME NEW q \in Procs, NEW i \in Present', Versioned(rows'[i])
      PROVE  /\ proc'[q].pc = "bindScan" /\ i <= proc'[q].at
                  => Old \in proc'[q].ring.keys \/ "failed" \in proc'[q].found
             /\ proc'[q].pc = "bind" => Old \in proc'[q].ring.keys
  <2>0. /\ i \in Present /\ Versioned(rows[i]) /\ rows[i].key = Old /\ i \in Ids /\ i > 0
        /\ proc[q].at \in Nat /\ Moves(q)
    BY <1>0, <1>3, <1>4, MovesStep, OfProcess DEF Present, Ids
  <2>1. CASE proc'[q].pc = "bindScan" /\ i <= proc'[q].at
    <3>1. CASE proc'[q] = proc[q]
      BY <2>0, <2>1, <3>1 DEF RegistryInv
    <3>2. CASE proc'[q].at = 0
      <4>1. i \in Nat
        BY <2>0, IdsFinite
      <4> QED BY <2>0, <2>1, <3>2, <4>1
    <3>3. CASE /\ ScanBatch(q) /\ Turns(q, proc[q].pc, proc[q].pc) /\ Batch(proc[q].at) # {}
               /\ proc'[q].found = Found(q) /\ proc'[q].at = Last(Batch(proc[q].at))
               /\ proc'[q].ring = proc[q].ring
      <4>1. CASE i <= proc[q].at
        BY <2>0, <2>1, <3>3, <4>1 DEF RegistryInv, Turns, Found
      <4>2. CASE ~(i <= proc[q].at)
        <5>1. i \in Nat /\ proc[q].at < i
          BY <2>0, <4>2, IdsFinite
        <5>2. i \in Batch(proc[q].at)
          BY <2>0, <2>1, <3>3, <5>1, BatchesInOrder
        <5>3. Inspect(rows[i], proc[q].ring) \in Found(q)
          BY <5>2 DEF Found
        <5>4. Inspect(rows[i], proc[q].ring) = "failed" \/ Old \in proc[q].ring.keys
          BY <1>0, <2>0, InspectFinds
        <5> QED BY <2>1, <3>3, <5>3, <5>4
      <4> QED BY <4>1, <4>2
    <3>4. ~Concludes(q, proc'[q].pc) /\ ~Passes(q) /\ ~Turns(q, "walk", "finalScan") /\ ~Turns(q, "bindScan", "bind")
      BY <2>1 DEF Concludes, Passes, Turns
    <3> QED BY <2>0, <2>1, <3>1, <3>2, <3>3, <3>4 DEF Moves
  <2>2. CASE proc'[q].pc = "bind"
    <3>1. CASE proc'[q] = proc[q]
      BY <2>0, <2>2, <3>1 DEF RegistryInv
    <3>2. CASE /\ Turns(q, "bindScan", "bind") /\ "failed" \notin proc[q].found
               /\ (\A j \in Present : j <= proc[q].at) /\ proc'[q].ring = proc[q].ring
      BY <2>0, <3>2 DEF RegistryInv, Turns
    <3>3. ~Concludes(q, proc'[q].pc) /\ ~Admits(q, proc'[q].pc)
      BY <2>2 DEF Concludes, Admits
    <3>4. ~(ScanBatch(q) /\ Turns(q, proc[q].pc, proc[q].pc))
      BY <2>2 DEF ScanBatch, Turns, Scans
    <3> QED BY <2>0, <2>2, <3>1, <3>2, <3>3, <3>4 DEF Moves, Passes, Turns
  <2> QED BY <2>1, <2>2
<1> QED BY <1>1, <1>2, <1>3, <1>4 DEF RegistryInv

LEMMA RingsBind ==
  ASSUME TypeOK, PlanInv, RingInv, NEW p \in Procs, proc[p].op # "none"
  PROVE  /\ ~({Old, Stray} \subseteq proc[p].ring.keys)
         /\ proc[p].op # "activate" => proc[p].ring.active \in proc[p].ring.keys
         /\ proc[p].ring = StrayRing \/ proc[p].ring.keys \subseteq file.keys
<1>1. CASE p \in Servers
  <2>1. proc[p].op = "serve"
    BY <1>1 DEF PlanInv
  <2>2. StrayRing.active = Stray /\ StrayRing.keys = {Stray}
    BY DEF StrayRing
  <2> QED BY <1>1, <2>1, <2>2 DEF RingInv
<1>2. CASE p = Admin
  BY <1>2 DEF RingInv
<1> QED BY <1>1, <1>2 DEF Procs

LEMMA Binding ==
  ASSUME Others4, RingInv, RegistryInv, [Next]_vars, NEW p \in Procs, Bind(p), registry = NoRegistry
  PROVE  RegistryInv'
<1>0. TypeOK /\ PlanInv /\ Admin \in Procs
  BY DEF Others4, Procs
<1>1. /\ registry' = [phase |-> BoundPhase(proc[p].found), checks |-> proc[p].ring.keys]
      /\ proc[p].pc = "bind" /\ UNCHANGED <<rows, file>>
  BY DEF Bind, data
<1>2. registry'.phase \in {"ready", "pending"} /\ registry'.checks = proc[p].ring.keys
  BY <1>1 DEF BoundPhase
<1>3. registry' # NoRegistry
  BY <1>2 DEF NoRegistry
<1>4. IsAt(p, "begin", proc[p].phase, {}, 0, {}) /\ proc[p].op \in {"serve", "migrate", "remove"}
  BY <1>0, BindTo, <1>1, StagesOf
<1>5. ~({Old, Stray} \subseteq proc[p].ring.keys)
  BY <1>0, <1>4, RingsBind
<1>6. Present' = Present /\ \A i \in Present : Versioned(rows[i]) => rows[i].key \in proc[p].ring.keys
  BY <1>1 DEF Present, RegistryInv
<1>7. \A q \in Procs : proc'[q].pc \in Early \/ (proc'[q].op \in {"prune", "mark"} /\ proc'[q].op = proc[q].op)
  BY <1>4 DEF IsAt, Others, Early, RegistryInv
<1>8. \A q \in Procs : ~Seals(q)'
  BY <1>7 DEF Seals, Early
<1>9. file'.active = Old
  BY <1>1 DEF RegistryInv
<1> QED BY <1>0, <1>1, <1>2, <1>3, <1>5, <1>6, <1>7, <1>8, <1>9 DEF RegistryInv

LEMMA Registered ==
  ASSUME Others4, RingInv, RegistryInv, [Next]_vars, registry # NoRegistry
  PROVE  RegistryInv'
<1>0. TypeOK /\ PlanInv /\ TextInv /\ ScanInv /\ Admin \in Procs
  BY DEF Others4, Procs
<1>1. /\ registry'.phase # "uninitialized" /\ registry.checks \subseteq registry'.checks
      /\ registry'.checks \subseteq registry.checks \cup {New}
  <2>1. registry \in [phase: {"uninitialized", "pending", "ready"}, checks: SUBSET Keys]
    BY <1>0 DEF TypeOK
  <2>2. CASE UNCHANGED registry
    BY <2>2 DEF RegistryInv
  <2>3. CASE Insert
    BY <2>1, <2>3 DEF Insert, RegistryInv
  <2>4. ASSUME NEW p \in Procs, Bind(p) PROVE UNCHANGED registry
    BY <2>4 DEF Bind
  <2>5. ASSUME NEW p \in Procs, SetPending(p) \/ SetReady(p)
        PROVE  registry'.phase \in {"pending", "ready"} /\ registry'.checks = registry.checks
    BY <2>1, <2>5 DEF SetPending, SetReady
  <2> QED BY <2>2, <2>3, <2>4, <2>5, RegistrySteps
<1>2. registry' # NoRegistry
  BY <1>1 DEF NoRegistry
<1>3. ~({Old, Stray} \subseteq registry'.checks)
  BY <1>1 DEF RegistryInv
<1>4. ASSUME NEW i \in Present', Versioned(rows'[i]) PROVE rows'[i].key \in registry'.checks
  <2>1. CASE i \in Present /\ rows'[i] = rows[i]
    BY <1>1, <1>4, <2>1 DEF RegistryInv
  <2>2. CASE Resealed(i)
    BY <1>1, <2>2 DEF Resealed, RegistryInv
  <2>3. CASE Marked(i)
    BY <1>4, <2>3 DEF Marked
  <2> QED BY <1>0, <2>1, <2>2, <2>3, RowsFrom
<1>5. ASSUME NEW q \in Procs, Seals(q)' PROVE proc'[q].ring.active \in registry'.checks
  <2>1. Moves(q)
    BY <1>0, MovesStep
  <2>2. CASE Seals(q) /\ proc'[q].ring = proc[q].ring
    BY <1>1, <2>2 DEF RegistryInv
  <2>3. CASE Admits(q, proc'[q].pc) /\ proc'[q].ring = proc[q].ring /\ proc'[q].op = proc[q].op
    <3>1. ActiveFits(proc[q].ring)
      BY <1>2, <1>5, <2>3 DEF Seals, Admits, Early
    <3>2. proc[q].ring.active \in proc[q].ring.keys
      BY <1>0, <1>5, <2>3, RingsBind DEF Seals
    <3> QED BY <1>1, <2>3, <3>1, <3>2 DEF ActiveFits, Fits
  <2>4. CASE proc'[q].op = proc[q].op /\ proc[q].pc \notin Early /\ proc'[q].ring = proc[q].ring
    BY <1>5, <2>2, <2>4 DEF Seals
  <2>5. proc'[q].op \in {"serve", "migrate", "rewrap", "convert"} /\ proc'[q].pc \notin Early
    BY <1>5 DEF Seals
  <2>6. Concludes(q, proc'[q].pc) \/ Turns(q, "walk", "finalScan") \/ Passes(q) => proc[q].pc \notin Early
    BY DEF Concludes, Turns, Passes, Early
  <2>7. Turns(q, proc[q].pc, proc[q].pc) => proc[q].pc \notin Early
    BY <2>5 DEF Turns
  <2> QED BY <2>1, <2>2, <2>3, <2>4, <2>5, <2>6, <2>7, <1>5 DEF Moves, Seals, Early, Turns
<1>6. ASSUME Stray \in registry'.checks
      PROVE  file'.active = Old /\ (proc'[Admin].op \in {"activate", "register"} => proc'[Admin].pc \in Early)
  <2>1. /\ Stray \in registry.checks /\ file.active = Old
        /\ proc[Admin].op \in {"activate", "register"} => proc[Admin].pc \in Early
    BY <1>1, <1>6 DEF RegistryInv
  <2>2. ~WriteKeyring
    <3> SUFFICES ASSUME WriteKeyring PROVE FALSE
      OBVIOUS
    <3>1. proc[Admin].pc = "write" /\ proc[Admin].op \in {"activate", "remove"}
      BY <1>0, StagesOf DEF WriteKeyring
    <3> QED BY <2>1, <3>1 DEF RingInv, Early
  <2>3. file'.active = Old
    <3>1. CASE AddKey
      BY <1>0, <2>1, <3>1 DEF AddKey, TypeOK, Ring
    <3> QED BY <2>1, <2>2, <3>1, FileKept
  <2>4. ASSUME proc'[Admin].op \in {"activate", "register"} PROVE proc'[Admin].pc \in Early
    <3>1. Moves(Admin)
      BY <1>0, MovesStep
    <3>2. CASE Admits(Admin, proc'[Admin].pc) /\ proc'[Admin].op = proc[Admin].op
      <4>1. Fits(proc[Admin].ring)
        BY <2>4, <3>2 DEF Admits, ActiveFits
      <4>2. Old \in proc[Admin].ring.keys
        BY <2>1, <2>4, <3>2 DEF RingInv
      <4>3. Stray = Old
        BY <2>1, <4>1, <4>2 DEF Fits, Id
      <4> QED BY <4>3
    <3>3. CASE proc'[Admin].op = proc[Admin].op /\ proc[Admin].pc \notin Early
      BY <2>1, <2>4, <3>3
    <3>4. Concludes(Admin, proc'[Admin].pc) \/ Turns(Admin, "walk", "finalScan") \/ Passes(Admin)
             => proc[Admin].pc \notin Early
      BY DEF Concludes, Turns, Passes, Early
    <3>5. CASE Turns(Admin, proc[Admin].pc, proc[Admin].pc) /\ proc'[Admin].op = proc[Admin].op
      BY <2>1, <2>4, <3>5 DEF Turns
    <3>6. CASE proc'[Admin] = proc[Admin]
      BY <2>1, <2>4, <3>6
    <3> QED BY <2>4, <3>1, <3>2, <3>3, <3>4, <3>5, <3>6 DEF Moves, Turns, Early
  <2> QED BY <2>3, <2>4
<1> QED BY <1>1, <1>2, <1>3, <1>4, <1>5, <1>6 DEF RegistryInv

LEMMA RegistryStep ==
  ASSUME Others4, RingInv, RegistryInv, [Next]_vars
  PROVE  RegistryInv'
<1>1. CASE registry # NoRegistry
  BY <1>1, Registered
<1>2. CASE registry = NoRegistry /\ registry' = NoRegistry
  BY <1>2, Unregistered
<1>3. CASE registry = NoRegistry /\ registry' # NoRegistry
  <2>0. TypeOK /\ PlanInv /\ Admin \in Procs
    BY DEF Others4, Procs
  <2>1. ~Insert
    <3> SUFFICES ASSUME Insert PROVE FALSE
      OBVIOUS
    <3>1. proc[Admin].pc = "insert" /\ proc[Admin].op = "register"
      BY <2>0, StagesOf DEF Insert
    <3> QED BY <1>3, <2>0, <3>1 DEF RegistryInv, Early
  <2>2. ASSUME NEW p \in Procs, SetPending(p) \/ SetReady(p) PROVE FALSE
    <3>1. proc[p].pc \in {"pending", "ready"} /\ proc[p].op \in {"serve", "migrate"}
      BY <2>0, <2>2, StagesOf DEF SetPending, SetReady
    <3> QED BY <1>3, <3>1 DEF RegistryInv, Early
  <2>3. PICK p \in Procs : Bind(p)
    BY <1>3, <2>1, <2>2, RegistrySteps
  <2> QED BY <1>3, <2>3, Binding
<1> QED BY <1>1, <1>2, <1>3

-----------------------------------------------------------------------------
(* Scans and what they establish. *)

(* Processes that seal rows at the same time can read each other's.        *)
LEMMA SealersAgree ==
  ASSUME TypeOK, PlanInv, RingInv, RegistryInv, NEW p \in Procs, NEW q \in Procs, Seals(p), Seals(q)
  PROVE  proc[q].ring.active \in proc[p].ring.keys
<1>1. registry # NoRegistry /\ proc[p].op # "none" /\ proc[q].op # "none"
  BY DEF Seals, RegistryInv
<1>2. /\ proc[p].ring.active \in registry.checks /\ proc[q].ring.active \in registry.checks
      /\ Stray \in registry.checks => file.active = Old /\ Old \notin registry.checks
  BY <1>1 DEF RegistryInv
<1>3. ASSUME NEW x \in Procs, Seals(x)
      PROVE  \/ proc[x].ring.active = Stray /\ Stray \in proc[x].ring.keys
             \/ /\ proc[x].ring.active = file.active /\ proc[x].ring.active # Stray
                /\ proc[x].ring.active \in proc[x].ring.keys
  <2>1. CASE x \in Servers
    <3>1. StrayRing.active = Stray /\ StrayRing.keys = {Stray}
      BY DEF StrayRing
    <3>2. proc[x].op = "serve"
      BY <1>3, <2>1 DEF PlanInv, Seals
    <3> QED BY <2>1, <3>1, <3>2 DEF RingInv
  <2>2. CASE x = Admin
    BY <1>3, <2>2 DEF RingInv, Seals
  <2> QED BY <2>1, <2>2 DEF Procs
<1> QED BY <1>2, <1>3

(* Beside a process that seals rows only sealers scan. *)
LEMMA OthersSeal ==
  ASSUME TypeOK, PlanInv, NEW p \in Procs, NEW q \in Procs, Seals(q),
         proc[q].pc \in {"walk", "put", "serving"},
         proc[p].pc \in {"statusScan", "finalScan", "ready", "write"}
  PROVE  Seals(p) /\ proc[p].op # "remove"
<1>1. proc[p].op # "none" /\ proc[p].pc \notin Early
  BY StagesOf DEF Early
<1>2. CASE p \in Servers
  BY <1>1, <1>2 DEF PlanInv, Seals
<1>3. CASE p = Admin
  <2>1. q \in Servers
    BY <1>3 DEF Procs
  <2>2. proc[q].op = "serve"
    BY <2>1 DEF PlanInv, Seals
  <2>3. proc[p].op \in {"rewrap", "convert"}
    BY <1>1, <1>3, <2>1, <2>2 DEF PlanInv
  <2> QED BY <1>1, <2>3 DEF Seals
<1> QED BY <1>2, <1>3 DEF Procs

LEMMA NoScanBesideMark ==
  ASSUME TypeOK, PlanInv, NEW p \in Procs, proc[Admin].op = "mark",
         proc[p].pc \in {"statusScan", "finalScan"}
  PROVE  FALSE
<1>1. CASE p = Admin
  BY <1>1, StagesOf
<1>2. CASE p \in Servers
  <2>1. proc[p].op = "none"
    BY <1>2 DEF PlanInv
  <2> QED BY <2>1, StagesOf
<1> QED BY <1>1, <1>2 DEF Procs

(* What the scan of p has found out about the row at i. *)
Seen(p, i) ==
  /\ Versioned(rows[i]) \/ proc[p].found \cap Dirty # {}
  /\ Versioned(rows[i]) => rows[i].key \in proc[p].ring.keys \/ "failed" \in proc[p].found
  /\ proc[p].op = "remove" /\ rows[i].key = Old => proc[p].found \cap (Failures \cup {Old}) # {}

LEMMA SeenStep ==
  ASSUME Others4, RingInv, RegistryInv, [Next]_vars, NEW p \in Procs, NEW i \in Present',
         proc'[p].pc \in {"statusScan", "finalScan"}, i <= proc'[p].at
  PROVE  Seen(p, i)'
<1>0. TypeOK /\ PlanInv /\ TextInv /\ ScanInv /\ proc[p].at \in Nat /\ i \in Nat /\ i > 0
  <2>1. TypeOK /\ PlanInv /\ TextInv /\ ScanInv /\ proc[p].at \in Nat
    BY OfProcess DEF Others4
  <2>2. i \in Ids
    BY DEF Present
  <2> QED BY <2>1, <2>2 DEF Ids
<1>1. CASE ScanBatch(p) /\ Turns(p, proc[p].pc, proc[p].pc) /\ Batch(proc[p].at) # {}
           /\ proc'[p].found = Found(p) /\ proc'[p].at = Last(Batch(proc[p].at))
           /\ proc'[p].ring = proc[p].ring /\ proc'[p].op = proc[p].op
  <2>1. rows' = rows /\ i \in Present
    BY <1>1 DEF ScanBatch, data, Present
  <2>2. CASE i <= proc[p].at
    <3>1. Seen(p, i)
      BY <1>0, <1>1, <2>1, <2>2 DEF ScanInv, Seen, Turns, Dirty
    <3>2. proc[p].found \subseteq Found(p)
      BY DEF Found
    <3> QED BY <1>1, <2>1, <3>1, <3>2 DEF Seen
  <2>3. CASE ~(i <= proc[p].at)
    <3>1. proc[p].at < i
      BY <1>0, <2>3
    <3>2. i \in Batch(proc[p].at)
      BY <1>0, <1>1, <2>1, <3>1, BatchesInOrder
    <3> DEFINE f == Inspect(rows[i], proc[p].ring)
    <3>3. f \in Found(p)
      BY <3>2 DEF Found
    <3>4. /\ Versioned(rows[i]) => f = "failed" \/ (f = rows[i].key /\ rows[i].key \in proc[p].ring.keys)
          /\ ~Versioned(rows[i]) => f \in Dirty
      BY <1>0, <2>1, InspectFinds
    <3>5. ~Versioned(rows[i]) => rows[i].key = None
      BY <1>0, <2>1, RowTyped, RowIs DEF Versioned
    <3> HIDE DEF f
    <3>6. "failed" \in Failures /\ Old # None
      BY DEF Failures
    <3> QED BY <1>1, <2>1, <3>3, <3>4, <3>5, <3>6 DEF Seen
  <2> QED BY <2>2, <2>3
<1>2. CASE proc'[p] = proc[p]
  <2>1. CASE i \in Present /\ rows'[i] = rows[i]
    <3>1. Seen(p, i)
      BY <1>0, <1>2, <2>1 DEF ScanInv, Seen, Dirty
    <3> QED BY <1>2, <2>1, <3>1 DEF Seen
  <2>2. CASE Resealed(i)
    <3>1. PICK q \in Procs : /\ Seals(q) /\ proc[q].pc \in {"walk", "put", "serving"}
                             /\ rows'[i].key = proc[q].ring.active
      BY <2>2 DEF Resealed
    <3>2. Seals(p) /\ proc[p].op # "remove"
      BY <1>0, <1>2, <3>1, OthersSeal
    <3>3. rows'[i].key \in proc[p].ring.keys
      BY <1>0, <3>1, <3>2, SealersAgree
    <3> QED BY <1>2, <2>2, <3>2, <3>3 DEF Seen, Resealed, Versioned
  <2>3. CASE Marked(i)
    BY <1>0, <1>2, <2>3, NoScanBesideMark DEF Marked
  <2> QED BY <1>0, <2>1, <2>2, <2>3, RowsFrom
<1>3. proc'[p].at # 0
  BY <1>0
<1>4. ~Concludes(p, proc'[p].pc) /\ ~Passes(p) /\ ~Turns(p, "bindScan", "bind")
  BY DEF Concludes, Passes, Turns
<1>5. Moves(p)
  BY <1>0, MovesStep
<1> QED BY <1>1, <1>2, <1>3, <1>4, <1>5 DEF Moves

(* The stages that a clean scan leads to, and those after them. *)
Cleared(p) ==
  \/ proc[p].pc \in {"serving", "ready", "write"}
  \/ proc[p].op = "rewrap" /\ proc[p].pc = "walk"
  \/ proc[p].op = "convert" /\ proc[p].pc \in {"get", "put"}

(* What is then known of the row at i. *)
Clear(p, i) ==
  /\ Versioned(rows[i])
  /\ proc[p].pc \in {"serving", "ready"} => rows[i].key \in proc[p].ring.keys
  /\ proc[p].op = "remove" /\ proc[p].pc = "write" => rows[i].key # Old

LEMMA ClearStep ==
  ASSUME Others4, RingInv, RegistryInv, [Next]_vars, NEW p \in Procs, NEW i \in Present', Cleared(p)'
  PROVE  Clear(p, i)'
<1>0. TypeOK /\ PlanInv /\ TextInv /\ ScanInv
  BY DEF Others4
<1>1. CASE EndScan(p) /\ Concludes(p, proc'[p].pc) /\ (\A j \in Present : j <= proc[p].at)
           /\ proc'[p].ring = proc[p].ring /\ proc'[p].op = proc[p].op
  <2>1. rows' = rows /\ i \in Present
    BY <1>1 DEF EndScan, data, Present
  <2>2. proc[p].pc \in {"statusScan", "finalScan"}
    BY <1>1 DEF Concludes
  <2>3. Seen(p, i)
    BY <1>0, <1>1, <2>1, <2>2 DEF ScanInv, Seen, Dirty
  <2>4. proc[p].found \cap Dirty = {} /\ (proc[p].op = "remove" => Old \notin proc[p].found)
    <3>1. proc[p].pc = "finalScan" => proc[p].op \in {"serve", "migrate"}
      BY <1>0, StagesOf
    <3> QED BY <1>1, <3>1 DEF Concludes, Cleared
  <2>5. "failed" \in Dirty /\ Failures \subseteq Dirty
    BY DEF Dirty, Failures
  <2>6. Versioned(rows[i]) /\ rows[i].key \in proc[p].ring.keys
    BY <2>3, <2>4, <2>5 DEF Seen
  <2>7. proc[p].op = "remove" => rows[i].key # Old
    BY <2>3, <2>4, <2>5 DEF Seen
  <2> QED BY <1>1, <2>1, <2>6, <2>7 DEF Clear, Versioned
<1>2. CASE /\ proc'[p].op = proc[p].op /\ proc'[p].ring = proc[p].ring /\ Cleared(p)
           /\ proc'[p].pc \in {"serving", "ready"} => proc[p].pc \in {"serving", "ready"}
           /\ proc'[p].pc = "write" => proc[p].pc = "write"
  <2>1. \A j \in Present : Clear(p, j)
    BY <1>0, <1>2 DEF ScanInv, Cleared, Clear, AllVersioned
  <2>2. CASE i \in Present /\ rows'[i] = rows[i]
    <3>1. Clear(p, i)
      BY <2>1, <2>2
    <3> QED BY <1>2, <2>2, <3>1 DEF Clear, Versioned
  <2>3. CASE Resealed(i)
    <3>1. PICK q \in Procs : /\ Seals(q) /\ proc[q].pc \in {"walk", "put", "serving"}
                             /\ rows'[i].key = proc[q].ring.active
      BY <2>3 DEF Resealed
    <3>2. proc[p].pc \in {"serving", "ready"} => Seals(p)
      BY <1>0, StagesOf DEF Seals, Early
    <3>3. proc[p].pc \in {"serving", "ready"} => rows'[i].key \in proc[p].ring.keys
      BY <1>0, <3>1, <3>2, SealersAgree
    <3>4. proc[p].pc = "write" => proc[p].op # "remove"
      BY <1>0, <3>1, OthersSeal
    <3> QED BY <1>2, <2>3, <3>3, <3>4 DEF Clear, Resealed, Versioned
  <2>4. ~Marked(i)
    BY <2>1 DEF Marked, Clear
  <2> QED BY <1>0, <2>2, <2>3, <2>4, RowsFrom
<1>3. Moves(p)
  BY <1>0, MovesStep
<1>4. CASE proc'[p] = proc[p]
  <2>1. Cleared(p)
    BY <1>4 DEF Cleared
  <2> QED BY <1>2, <1>4, <2>1
<1>5. CASE Passes(p) /\ proc'[p].op = proc[p].op /\ proc'[p].ring = proc[p].ring
  <2>1. proc[p].pc = "pending" => proc[p].op # "rewrap"
    BY <1>0, StagesOf
  <2>2. Cleared(p)
    BY <1>5, <2>1 DEF Cleared, Passes, Turns
  <2> QED BY <1>2, <1>5, <2>2 DEF Passes, Turns
<1>6. proc'[p].pc \notin {"begin", "down", "refused", "statusScan", "finalScan", "bindScan", "bind"}
  BY DEF Cleared
<1>7. ~Admits(p, proc'[p].pc) \/ proc'[p].op # proc[p].op
  BY DEF Admits, Cleared
<1>8. ~(ScanBatch(p) /\ Turns(p, proc[p].pc, proc[p].pc))
  BY <1>6 DEF ScanBatch, Turns, Scans
<1> QED BY <1>1, <1>3, <1>4, <1>5, <1>6, <1>7, <1>8 DEF Moves, Turns

LEMMA ScanStep ==
  ASSUME Others4, RingInv, RegistryInv, [Next]_vars
  PROVE  ScanInv'
<1>0. TypeOK /\ PlanInv /\ TextInv /\ ScanInv
  BY DEF Others4
<1>1. ASSUME NEW p \in Procs, NEW i \in Present', proc'[p].pc \in {"statusScan", "finalScan"}, i <= proc'[p].at
      PROVE  /\ Versioned(rows'[i]) \/ proc'[p].found \cap (Failures \cup {"raw", "plain"}) # {}
             /\ Versioned(rows'[i]) => rows'[i].key \in proc'[p].ring.keys \/ "failed" \in proc'[p].found
             /\ proc'[p].op = "remove" /\ rows'[i].key = Old => proc'[p].found \cap (Failures \cup {Old}) # {}
  <2>1. Seen(p, i)'
    BY <1>1, SeenStep
  <2> QED BY <2>1 DEF Seen, Dirty
<1>2. ASSUME NEW p \in Procs
      PROVE  /\ proc'[p].pc \in {"serving", "ready", "write"} => AllVersioned'
             /\ proc'[p].op = "rewrap" /\ proc'[p].pc = "walk" => AllVersioned'
             /\ proc'[p].op = "convert" /\ proc'[p].pc \in {"get", "put"} => AllVersioned'
             /\ proc'[p].pc \in {"serving", "ready"} => \A i \in Present' : rows'[i].key \in proc'[p].ring.keys
             /\ proc'[p].op = "remove" /\ proc'[p].pc = "write" => \A i \in Present' : rows'[i].key # Old
  <2>1. Cleared(p)' => \A i \in Present' : Clear(p, i)'
    BY ClearStep
  <2> QED BY <2>1 DEF Cleared, Clear, AllVersioned
<1>3. ASSUME NEW p \in Procs, NEW e \in proc'[p].batch
      PROVE  /\ proc'[p].op = "rewrap" => Versioned(e.row)
             /\ proc'[p].op = "mark" => e.row.form \in {"note16", "loose"}
  <2>1. CASE e \in proc[p].batch /\ proc'[p].op = proc[p].op
    BY <1>0, <2>1 DEF ScanInv
  <2>2. ASSUME proc'[p].op = proc[p].op, NEW i \in Present, e = [id |-> i, row |-> rows[i]],
               \/ proc[p].pc = "walk" /\ proc[p].op \in {"serve", "migrate", "rewrap", "prune"}
               \/ /\ proc[p].pc = "get"
                  /\ proc[p].op = "mark" => rows[i].form \in {"note16", "loose"}
        PROVE  /\ proc'[p].op = "rewrap" => Versioned(e.row)
               /\ proc'[p].op = "mark" => e.row.form \in {"note16", "loose"}
    <3>1. proc[p].pc = "get" => proc[p].op # "rewrap"
      BY <1>0, StagesOf
    <3>2. proc[p].pc = "walk" /\ proc[p].op = "rewrap" => Versioned(rows[i])
      BY <1>0 DEF ScanInv, AllVersioned
    <3> QED BY <2>2, <3>1, <3>2
  <2> QED BY <1>0, <1>3, <2>1, <2>2, BatchesFrom
<1> QED BY <1>1, <1>2, <1>3 DEF ScanInv

-----------------------------------------------------------------------------
(* No key that was removed is in use. *)
RemovedInv == Old \in removed => \A i \in Present : rows[i].key # Old

LEMMA RemovedStep ==
  ASSUME Others4, RingInv, RegistryInv, RemovedInv, [Next]_vars
  PROVE  RemovedInv'
<1>0. TypeOK /\ PlanInv /\ TextInv /\ ScanInv /\ Admin \in Procs
  BY DEF Others4, Procs
<1>1. CASE WriteKeyring
  <2>1. rows' = rows
    BY <1>1 DEF WriteKeyring, data
  <2>2. CASE proc[Admin].op = "remove"
    <3>1. proc[Admin].pc = "write"
      BY <1>1 DEF WriteKeyring
    <3>2. \A i \in Present : rows[i].key # Old
      BY <1>0, <2>2, <3>1 DEF ScanInv
    <3> QED BY <2>1, <3>2 DEF RemovedInv, Present
  <2>3. CASE proc[Admin].op # "remove"
    <3>1. proc[Admin].op = "activate"
      BY <1>0, <1>1, <2>3, StagesOf DEF WriteKeyring
    <3> QED BY <1>1, <2>1, <3>1 DEF RemovedInv, Present, WriteKeyring
  <2> QED BY <2>2, <2>3
<1>2. CASE ~WriteKeyring
  <2> SUFFICES ASSUME Old \in removed', NEW i \in Present' PROVE rows'[i].key # Old
    BY DEF RemovedInv
  <2>1. removed' = removed
    BY <1>2, FileKept DEF AddKey
  <2>2. Old \notin file.keys /\ file.active # Old
    BY <2>1 DEF RingInv
  <2>3. CASE i \in Present /\ rows'[i] = rows[i]
    BY <2>1, <2>3 DEF RemovedInv
  <2>4. CASE Resealed(i)
    <3>1. PICK q \in Procs : Seals(q) /\ rows'[i].key = proc[q].ring.active
      BY <2>4 DEF Resealed
    <3>2. CASE q \in Servers
      <4>1. StrayRing.active = Stray
        BY DEF StrayRing
      <4>2. proc[q].op = "serve"
        BY <1>0, <3>1, <3>2 DEF PlanInv, Seals
      <4> QED BY <2>2, <3>1, <3>2, <4>1, <4>2 DEF RingInv
    <3>3. CASE q = Admin
      BY <2>2, <3>1, <3>3 DEF RingInv, Seals
    <3> QED BY <3>2, <3>3 DEF Procs
  <2>5. CASE Marked(i)
    BY <2>5 DEF Marked
  <2> QED BY <1>0, <2>3, <2>4, <2>5, RowsFrom
<1> QED BY <1>1, <1>2

-----------------------------------------------------------------------------
IInv == Others4 /\ RingInv /\ RegistryInv /\ RemovedInv

LEMMA InitialRows ==
  ASSUME Init
  PROVE  \A i \in Ids : rows[i] = NoRow \/ \E form \in {"tagged", "note16", "loose", "cipher", "wrapped", "native"} :
                                              rows[i] = Original(form, i)
<1>1. PICK h \in [1..N -> Histories] :
       rows = [i \in Ids |->
         LET form == IF i \in HashIds THEN h[N + 1 - i \div 2][2] ELSE h[i \div 2][1] IN
         IF form = "absent" THEN NoRow ELSE Original(form, i)]
  BY DEF Init
<1>2. \A x \in Histories : /\ x[1] \in {"absent", "tagged", "note16", "loose", "cipher", "wrapped", "native"}
                           /\ x[2] \in {"absent", "tagged", "note16", "loose", "cipher", "wrapped", "native"}
  BY DEF Histories
<1> SUFFICES ASSUME NEW i \in Ids
             PROVE  rows[i] = NoRow \/ \E form \in {"tagged", "note16", "loose", "cipher", "wrapped", "native"} :
                                          rows[i] = Original(form, i)
  OBVIOUS
<1> DEFINE form == IF i \in HashIds THEN h[N + 1 - i \div 2][2] ELSE h[i \div 2][1]
<1>3. i \div 2 \in 1..N
  BY DEF Ids
<1>4. N + 1 - i \div 2 \in 1..N
  BY <1>3
<1>5. h[N + 1 - i \div 2] \in Histories /\ h[i \div 2] \in Histories
  BY <1>3, <1>4
<1>6. form \in {"absent", "tagged", "note16", "loose", "cipher", "wrapped", "native"}
  BY <1>2, <1>5
<1>7. rows[i] = IF form = "absent" THEN NoRow ELSE Original(form, i)
  BY <1>1
<1> HIDE DEF form
<1> QED BY <1>6, <1>7

LEMMA OriginalRow ==
  ASSUME NEW i \in Ids, NEW form \in {"tagged", "note16", "loose", "cipher", "wrapped", "native"}
  PROVE  /\ Original(form, i) \in Row /\ Original(form, i).form = form /\ Original(form, i).text = i
         /\ Versioned(Original(form, i)) => Original(form, i).key = Old
<1>1. i \in Texts
  BY DEF Ids, Texts
<1>2. CASE form \in {"wrapped", "native"}
  BY <1>1, <1>2 DEF Original, Row, Envelopes, Keys, Versioned
<1>3. CASE form \in {"tagged", "note16", "loose", "cipher"}
  BY <1>1, <1>3 DEF Original, Row, Forms, Envelopes, Versioned
<1> QED BY <1>2, <1>3

LEMMA InitInv ==
  ASSUME Init
  PROVE  IInv
<1>1. \A i \in Present : /\ i \in Ids /\ rows[i] \in Row /\ rows[i].form # "wrecked" /\ rows[i].text = i
                         /\ Versioned(rows[i]) => rows[i].key = Old
  <2> SUFFICES ASSUME NEW i \in Present
               PROVE  /\ i \in Ids /\ rows[i] \in Row /\ rows[i].form # "wrecked" /\ rows[i].text = i
                      /\ Versioned(rows[i]) => rows[i].key = Old
    OBVIOUS
  <2>1. i \in Ids /\ rows[i] # NoRow
    BY DEF Present
  <2>2. PICK form \in {"tagged", "note16", "loose", "cipher", "wrapped", "native"} : rows[i] = Original(form, i)
    BY <2>1, InitialRows
  <2> QED BY <2>1, <2>2, OriginalRow
<1>2. rows \in [Ids -> Row \cup {NoRow}]
  <2>1. \A i \in Ids : rows[i] \in Row \cup {NoRow}
    BY <1>1 DEF Present
  <2>2. \E f : rows = [i \in Ids |-> f[i]]
    <3>1. PICK h : rows = [i \in Ids |->
             LET form == IF i \in HashIds THEN h[N + 1 - i \div 2][2] ELSE h[i \div 2][1] IN
             IF form = "absent" THEN NoRow ELSE Original(form, i)]
      BY DEF Init
    <3>2. rows = [i \in Ids |-> rows[i]]
      BY <3>1
    <3> QED BY <3>2
  <2> QED BY <2>1, <2>2
<1>3. /\ expected = {rows[i].text : i \in Present} /\ writes = 0 /\ runs = 0 /\ removed = {}
      /\ proc = [p \in Procs |-> Down] /\ file = [active |-> Old, keys |-> {Old}]
  BY DEF Init, Procs
<1>4. \/ registry = NoRegistry
      \/ registry.phase \in {"ready", "pending"} /\ registry.checks = {Old}
         /\ registry = [phase |-> registry.phase, checks |-> {Old}]
  <2> DEFINE ph == IF \A i \in Present : Versioned(rows[i]) THEN "ready" ELSE "pending"
  <2>1. registry = NoRegistry \/ registry = [phase |-> ph, checks |-> {Old}]
    BY DEF Init
  <2>2. ph \in {"ready", "pending"}
    OBVIOUS
  <2> HIDE DEF ph
  <2> QED BY <2>1, <2>2
<1>5. TypeOK
  <2>1. proc \in [Procs -> Process]
    BY <1>3, DownTyped
  <2>2. registry \in [phase: {"uninitialized", "pending", "ready"}, checks: SUBSET Keys]
    BY <1>4 DEF NoRegistry, Keys
  <2>3. file \in Ring
    BY <1>3 DEF Ring, Keys
  <2>4. expected \subseteq Texts
    BY <1>1, <1>3, RowIs
  <2> QED BY <1>2, <1>3, <2>1, <2>2, <2>3, <2>4 DEF TypeOK, Procs
<1>6. Admin \in Procs /\ Servers \subseteq Procs
      /\ \A p \in Procs : /\ proc[p] = Down /\ proc[p].op = "none" /\ proc[p].pc = "down" /\ proc[p].batch = {}
  BY <1>3, DownTyped DEF Procs
<1>7. PlanInv
  BY <1>6, PlanOf DEF PlanInv
<1>8. TextInv
  <2>1. \A i \in Present : rows[i].text < 2 * N + 2 + writes
    BY <1>1, <1>3 DEF Ids
  <2>2. \A i \in Present : \A j \in Present \ {i} : rows[j].text # rows[i].text
    BY <1>1
  <2> QED BY <1>1, <1>3, <1>6, <2>1, <2>2 DEF TextInv
<1>9. ScanInv
  BY <1>6 DEF ScanInv
<1>10. RingInv
  BY <1>3, <1>6 DEF RingInv
<1>11. RegistryInv
  <2>1. \A p \in Procs : ~Seals(p) /\ proc[p].pc \in Early
    BY <1>6 DEF Seals, Early
  <2> QED BY <1>1, <1>3, <1>4, <1>6, <2>1 DEF RegistryInv
<1>12. RemovedInv
  BY <1>3 DEF RemovedInv
<1> QED BY <1>5, <1>7, <1>8, <1>9, <1>10, <1>11, <1>12 DEF IInv, Others4

LEMMA StepInv ==
  ASSUME IInv, [Next]_vars
  PROVE  IInv'
<1>1. Others4 /\ TypeOK /\ PlanInv /\ TextInv /\ ScanInv /\ RingInv /\ RegistryInv /\ RemovedInv
  BY DEF IInv, Others4
<1>2. TypeOK' /\ PlanInv' /\ TextInv' /\ RingInv'
  BY <1>1, TypeStep, PlanStep, TextStep, RingStep
<1>3. ScanInv' /\ RegistryInv' /\ RemovedInv'
  BY <1>1, ScanStep, RegistryStep, RemovedStep
<1> QED BY <1>2, <1>3 DEF IInv, Others4

LEMMA Inductive == Spec => []IInv
  BY InitInv, StepInv, PTL DEF Spec

(* Every row, process, keyring and registry entry is of its kind: in       *)
(* particular no command puts a key on a row that is not an envelope.      *)
THEOREM TypeCorrect == Spec => []TypeOK
<1>1. IInv => TypeOK
  BY DEF IInv, Others4
<1> QED BY <1>1, Inductive, PTL

(* Starts, commands and crashes in any order lose no text that clients     *)
(* left (ConvertLegacy, Replace and Delete compare what they read).        *)
THEOREM TextsStay == Spec => []NothingLost
<1>1. IInv => NothingLost
  BY DEF IInv, Others4, TextInv, NothingLost
<1> QED BY <1>1, Inductive, PTL

(* They bring none back, and leave none in two rows.                       *)
THEOREM TextsEnd == Spec => []NothingComesBack
<1>1. IInv => NothingComesBack
  BY DEF IInv, Others4, TextInv, NothingComesBack
<1> QED BY <1>1, Inductive, PTL

(* An installation has one key under an ID, and every envelope is under a  *)
(* registered key (Initialize, Register).                                  *)
THEOREM Registration == Spec => []KeysAreRegistered
<1>1. IInv => KeysAreRegistered
  <2> SUFFICES ASSUME IInv, registry # NoRegistry
               PROVE  /\ \A a, b \in registry.checks : Id(a) = Id(b) => a = b
                      /\ \A i \in Present : Versioned(rows[i]) => rows[i].key \in registry.checks
    BY DEF KeysAreRegistered
  <2>1. registry.checks \subseteq Keys /\ ~({Old, Stray} \subseteq registry.checks)
    BY DEF IInv, Others4, TypeOK, RegistryInv
  <2>2. \A a, b \in registry.checks : Id(a) = Id(b) => a = b
    BY <2>1 DEF Keys, Id
  <2> QED BY <2>2 DEF IInv, RegistryInv
<1> QED BY <1>1, Inductive, PTL

(* A replica that serves can read every row, whatever other replicas and   *)
(* commands do meanwhile (MigrateIfNeeded, PrepareServe).                  *)
THEOREM ServersRead == Spec => []ServersReadEverything
<1>1. IInv => ServersReadEverything
  <2> SUFFICES ASSUME IInv, NEW s \in Servers, proc[s].pc = "serving", NEW i \in Present
               PROVE  Versioned(rows[i]) /\ rows[i].key \in proc[s].ring.keys
    BY DEF ServersReadEverything
  <2>1. s \in Procs /\ ScanInv
    BY DEF Procs, IInv, Others4
  <2> QED BY <2>1 DEF ScanInv, AllVersioned
<1> QED BY <1>1, Inductive, PTL

(* A key that was removed from the keyring is under no row, then or later  *)
(* (CanRemove).                                                            *)
THEOREM RemovedUnused == Spec => []RemovedKeysUnused
<1>1. IInv => RemovedKeysUnused
  BY DEF IInv, RingInv, RemovedInv, RemovedKeysUnused
<1> QED BY <1>1, Inductive, PTL

-----------------------------------------------------------------------------
LEMMA Parts ==
  ASSUME IInv
  PROVE  /\ TypeOK /\ PlanInv /\ TextInv /\ ScanInv /\ RingInv /\ RegistryInv /\ RemovedInv
         /\ Admin \in Procs /\ Servers \subseteq Procs /\ Admin \notin Servers
  BY DEF IInv, Others4, Procs

(* Plaintext is under the slug of a v0.1.6 note, never under a hash.       *)
PlainInv == \A i \in Present : rows[i].form \in PlainForms => i \notin HashIds

LEMMA PlainForm ==
  ASSUME NEW r
  PROVE  /\ Versioned(r) => r.form \notin PlainForms /\ r.form \notin {"tagged", "cipher"}
         /\ r.form = "tagged" => r.form \in PlainForms
         /\ r.form \in Forms => Versioned(r) \/ r.form \in PlainForms \/ r.form = "cipher"
  BY DEF Versioned, Envelopes, PlainForms, Forms

LEMMA TargetHashed ==
  ASSUME NEW i \in Ids
  PROVE  Target(i) \in HashIds
<1>1. i \div 2 \in 1..N
  BY DEF Ids
<1> QED BY <1>1 DEF Target, HashIds

(* Plaintext stays where it is. *)
LEMMA PlainStep ==
  ASSUME IInv, PlainInv, [Next]_vars
  PROVE  PlainInv'
<1> SUFFICES ASSUME NEW i \in Present', rows'[i].form \in PlainForms PROVE i \notin HashIds
  BY DEF PlainInv
<1>1. ~Resealed(i)
  BY PlainForm DEF Resealed
<1>2. (i \in Present /\ rows'[i] = rows[i]) \/ Marked(i)
  BY <1>1, Parts, RowsFrom
<1> QED BY <1>2 DEF PlainInv, Marked

LEMMA InitPlain ==
  ASSUME Init
  PROVE  PlainInv
<1> SUFFICES ASSUME NEW i \in Present, i \in HashIds PROVE rows[i].form \notin PlainForms
  BY DEF PlainInv
<1>1. PICK h \in [1..N -> Histories] :
     rows = [j \in Ids |->
       LET form == IF j \in HashIds THEN h[N + 1 - j \div 2][2] ELSE h[j \div 2][1] IN
       IF form = "absent" THEN NoRow ELSE Original(form, j)]
  BY DEF Init
<1> DEFINE form == h[N + 1 - i \div 2][2]
<1>2. i \in Ids /\ i \div 2 \in 1..N
  BY DEF Present, Ids
<1>3. N + 1 - i \div 2 \in 1..N
  BY <1>2
<1>4. form \in {"absent", "cipher", "wrapped", "native"}
  <2>1. h[N + 1 - i \div 2] \in Histories
    BY <1>3
  <2> QED BY <2>1 DEF Histories
<1>5. rows[i] = IF form = "absent" THEN NoRow ELSE Original(form, i)
  BY <1>1, <1>2
<1> HIDE DEF form
<1> QED BY <1>4, <1>5 DEF NoRow, Original, PlainForms

-----------------------------------------------------------------------------
(***************************************************************************)
(* The database that clients see: under each slug the texts of its rows,   *)
(* at the ID of a v0.1.6 note and at its hash, that can be read.           *)
(***************************************************************************)
SlugOf(i) == IF i \in HashIds THEN N + 1 - i \div 2 ELSE i \div 2

TextOf(s, i) == i \in Present /\ SlugOf(i) = s /\ rows[i].form # "wrecked"
Contents == [s \in 1..N |-> {rows[i].text : i \in {j \in Ids : TextOf(s, j)}}]
Given == {t \in Texts : t < 2 * N + 2 + writes}

Store == INSTANCE TextStore WITH Slugs <- 1..N, texts <- Contents, seen <- Given

StoreInv == IInv /\ PlainInv

LEMMA ContentsAre ==
  ASSUME IInv, NEW s \in 1..N, NEW t
  PROVE  t \in Contents[s] <=> \E i \in Present : SlugOf(i) = s /\ rows[i].text = t
  BY Parts DEF Contents, TextOf, TextInv, Present

LEMMA ContentsBecome ==
  ASSUME IInv', NEW s \in 1..N, NEW t
  PROVE  t \in Contents'[s] <=> \E i \in Present' : SlugOf(i) = s /\ rows'[i].text = t
<1>1. \A i \in Present' : rows'[i].form # "wrecked"
  BY DEF IInv, Others4, TextInv
<1> QED BY <1>1 DEF Contents, TextOf, Present

LEMMA SlugTyped ==
  ASSUME NEW i \in Ids
  PROVE  SlugOf(i) \in 1..N /\ (i \notin HashIds => SlugOf(Target(i)) = SlugOf(i))
<1>1. i \div 2 \in 1..N
  BY DEF Ids
<1> DEFINE h == i \div 2
<1>2. h \in 1..N /\ SlugOf(i) = IF i \in HashIds THEN N + 1 - h ELSE h
  BY <1>1 DEF SlugOf
<1>3. Target(i) = 2 * (N + 1 - h) + 1 /\ Target(i) \in HashIds
  BY TargetHashed DEF Target, Hash
<1> HIDE DEF h
<1>4. (2 * (N + 1 - h) + 1) \div 2 = N + 1 - h
  BY <1>2
<1>5. SlugOf(Target(i)) = N + 1 - (N + 1 - h)
  BY <1>3, <1>4 DEF SlugOf
<1> QED BY <1>2, <1>5

(* A step that carries a row within its slug shows nothing. *)
LEMMA CarryShowsNothing ==
  ASSUME IInv, IInv', NEW i, NEW j, NEW r, Carry(i, j, r), SlugOf(j) = SlugOf(i)
  PROVE  Contents' = Contents
<1>1. /\ i \in Present /\ j \in Ids /\ r # NoRow /\ r.text = rows[i].text
      /\ rows' = [[rows EXCEPT ![i] = NoRow] EXCEPT ![j] = r]
  BY RowIs DEF Carry, Present
<1>2. /\ rows'[j] = r /\ Present' = (Present \ {i}) \cup {j}
      /\ \A l \in Present \ {i} : rows'[l] = rows[l] /\ l # j
  <2>1. rows'[j] = r /\ \A l \in Ids \ {i, j} : rows'[l] = rows[l]
    BY <1>1, Parts DEF TypeOK
  <2>2. i # j => rows'[i] = NoRow
    BY <1>1, Parts DEF TypeOK, Present
  <2>3. j = i \/ j \notin Present
    BY DEF Carry, Present
  <2> QED BY <1>1, <2>1, <2>2, <2>3 DEF Present
<1>3. ASSUME NEW s \in 1..N, NEW t
      PROVE  (\E l \in Present : SlugOf(l) = s /\ rows[l].text = t)
               <=> (\E l \in Present' : SlugOf(l) = s /\ rows'[l].text = t)
  BY <1>1, <1>2
<1>4. \A s \in 1..N : Contents'[s] = Contents[s]
  <2> SUFFICES ASSUME NEW s \in 1..N, NEW t
               PROVE  t \in Contents'[s] <=> t \in Contents[s]
    BY DEF Contents
  <2>1. t \in Contents'[s] <=> \E l \in Present' : SlugOf(l) = s /\ rows'[l].text = t
    BY ContentsBecome
  <2> QED BY <1>3, <2>1, ContentsAre
<1> QED BY <1>4 DEF Contents

(* One that takes a row away takes its text from its slug. *)
LEMMA RemovalDiscards ==
  ASSUME IInv, IInv', NEW i \in Present, rows' = [rows EXCEPT ![i] = NoRow],
         writes' \in Nat, writes' >= writes
  PROVE  Store!Next
<1>0. TypeOK /\ TextInv /\ i \in Ids /\ SlugOf(i) \in 1..N
  BY Parts, SlugTyped DEF Present
<1>1. Present' = Present \ {i} /\ \A l \in Present \ {i} : rows'[l] = rows[l]
  BY <1>0 DEF TypeOK, Present
<1>2. rows[i].text \in Contents[SlugOf(i)] /\ rows[i].text \in Texts
  BY <1>0, ContentsAre, RowTyped, RowIs
<1>3. \A s \in 1..N : Contents'[s] = IF s = SlugOf(i) THEN Contents[s] \ {rows[i].text} ELSE Contents[s]
  <2> SUFFICES ASSUME NEW s \in 1..N, NEW t
               PROVE  t \in Contents'[s] <=> t \in IF s = SlugOf(i) THEN Contents[s] \ {rows[i].text}
                                                                    ELSE Contents[s]
    BY DEF Contents
  <2>1. t \in Contents'[s] <=> \E l \in Present' : SlugOf(l) = s /\ rows'[l].text = t
    BY ContentsBecome
  <2>2. t \in Contents[s] <=> \E l \in Present : SlugOf(l) = s /\ rows[l].text = t
    BY ContentsAre
  <2>3. \A l \in Present \ {i} : rows[l].text # rows[i].text
    BY <1>0 DEF TextInv
  <2> QED BY <1>1, <2>1, <2>2, <2>3
<1>4. Contents' = [Contents EXCEPT ![SlugOf(i)] = @ \ {rows[i].text}]
  BY <1>3 DEF Contents
<1>5. Given \subseteq Given' /\ Given' \subseteq Texts
  <2>1. writes \in Nat /\ \A t \in Texts : t \in Nat
    BY <1>0 DEF Texts, TypeOK
  <2>2. \A t \in Texts : t < 2 * N + 2 + writes => t < 2 * N + 2 + writes'
    BY <2>1
  <2> QED BY <2>2 DEF Given
<1>6. Store!Discard(SlugOf(i), rows[i].text)
  BY <1>2, <1>4, <1>5 DEF Store!Discard
<1> QED BY <1>0, <1>2, <1>6 DEF Store!Next

(* A client's text appears under its slug, in the place of one or beside   *)
(* those there are.                                                        *)
LEMMA WriteStores ==
  ASSUME IInv, IInv', NEW s \in Servers, NEW i \in HashIds, Write(s, i)
  PROVE  Store!Next
<1>0. TypeOK /\ TextInv /\ i \in Ids /\ SlugOf(i) \in 1..N /\ writes \in Nat /\ writes' = writes + 1
  BY Parts, SlugTyped, WriteTo DEF TypeOK
<1>1. CASE rows[i] # NoRow /\ rows' = [rows EXCEPT ![i] = NoRow]
  <2>1. i \in Present /\ writes' \in Nat /\ writes' >= writes
    BY <1>0, <1>1 DEF Present
  <2> QED BY <1>1, <2>1, RemovalDiscards
<1>2. CASE rows' = [rows EXCEPT ![i] = NewRow(s)]
  <2> DEFINE t == NewRow(s).text
             old == {rows[l].text : l \in {i} \cap Present}
  <2>1. /\ rows'[i] = NewRow(s) /\ Present' = Present \cup {i}
        /\ \A l \in Present \ {i} : rows'[l] = rows[l]
    BY <1>0, <1>2, WriteTo DEF TypeOK, Present
  <2>2. t \in Texts /\ t = 2 * N + 2 + writes
    BY <1>0, WriteTo, RowIs
  <2>3. t \notin Given /\ Given' = Given \cup {t}
    <3>1. \A u \in Texts : u \in Nat
      BY DEF Texts
    <3> HIDE DEF t
    <3>2. \A u \in Texts : u < 2 * N + 2 + writes' <=> u < 2 * N + 2 + writes \/ u = t
      BY <1>0, <2>2, <3>1
    <3>3. ~(t < 2 * N + 2 + writes)
      BY <1>0, <2>2
    <3> QED BY <2>2, <3>2, <3>3 DEF Given
  <2>4. old \in {{}} \cup {{u} : u \in Contents[SlugOf(i)]}
    <3>1. CASE i \in Present
      <4>1. rows[i].text \in Contents[SlugOf(i)]
        BY <1>0, <3>1, ContentsAre
      <4>2. old = {rows[i].text}
        BY <3>1
      <4> HIDE DEF old
      <4> QED BY <4>1, <4>2
    <3>2. CASE i \notin Present
      <4>1. old = {}
        BY <3>2
      <4> HIDE DEF old
      <4> QED BY <4>1
    <3> QED BY <3>1, <3>2
  <2>5. \A z \in 1..N : Contents'[z] = IF z = SlugOf(i) THEN (Contents[z] \ old) \cup {t} ELSE Contents[z]
    <3> SUFFICES ASSUME NEW z \in 1..N, NEW u
                 PROVE  u \in Contents'[z] <=> u \in IF z = SlugOf(i) THEN (Contents[z] \ old) \cup {t}
                                                                      ELSE Contents[z]
      BY DEF Contents
    <3>1. u \in Contents'[z] <=> \E l \in Present' : SlugOf(l) = z /\ rows'[l].text = u
      BY ContentsBecome
    <3>2. u \in Contents[z] <=> \E l \in Present : SlugOf(l) = z /\ rows[l].text = u
      BY ContentsAre
    <3>3. u \in old <=> i \in Present /\ u = rows[i].text
      OBVIOUS
    <3>4. \A l \in Present \ {i} : i \in Present => rows[l].text # rows[i].text
      BY <1>0 DEF TextInv
    <3> HIDE DEF old
    <3> QED BY <2>1, <3>1, <3>2, <3>3, <3>4
  <2>6. Contents' = [Contents EXCEPT ![SlugOf(i)] = (@ \ old) \cup {t}]
    <3> HIDE DEF t, old
    <3> QED BY <2>5 DEF Contents
  <2>7. Store!Put(SlugOf(i), t)
    <3> HIDE DEF t, old
    <3> QED BY <2>3, <2>4, <2>6 DEF Store!Put
  <2> HIDE DEF t, old
  <2>8. SlugOf(i) \in 1..N /\ t \in Texts
    BY <1>0, <2>2
  <2> QED BY <2>7, <2>8 DEF Store!Next
<1> QED BY <1>0, <1>1, <1>2, WriteTo

LEMMA StoreStep ==
  ASSUME StoreInv, [Next]_vars
  PROVE  StoreInv' /\ [Store!Next]_(Store!vars)
<1>1. IInv /\ PlainInv /\ IInv' /\ PlainInv' /\ TypeOK
  BY StepInv, PlainStep, Parts DEF StoreInv
<1>2. ASSUME rows' = rows, writes' = writes PROVE UNCHANGED Store!vars
  <2>1. Contents' = Contents
    BY <1>2 DEF Contents, TextOf, Present
  <2> QED BY <1>2, <2>1 DEF Store!vars, Given
<1>3. ASSUME NEW k, Sealing(k), writes' = writes PROVE UNCHANGED Store!vars
  <2> SUFFICES ASSUME NEW i, NEW j, NEW r, Carry(i, j, r), Sealable(i, j) PROVE UNCHANGED Store!vars
    BY <1>2, <1>3 DEF Sealing
  <2>1. SlugOf(j) = SlugOf(i)
    <3>1. i \in Ids /\ i \in Present
      BY DEF Carry, Present
    <3>2. CASE i # j
      <4>1. rows[i].form \in PlainForms /\ j = Target(i)
        BY <3>2 DEF Sealable, PlainForms
      <4> QED BY <1>1, <3>1, <4>1, SlugTyped DEF PlainInv
    <3> QED BY <3>2
  <2> QED BY <1>1, <1>3, <2>1, CarryShowsNothing DEF Store!vars, Given
<1>4. ASSUME Tagging, writes' = writes PROVE UNCHANGED Store!vars
  BY <1>1, <1>2, <1>4, CarryShowsNothing DEF Tagging, Store!vars, Given
<1>5. ASSUME Pruning, writes' = writes PROVE [Store!Next]_(Store!vars)
  <2>1. writes' \in Nat /\ writes' >= writes
    BY <1>1, <1>5 DEF TypeOK
  <2> QED BY <1>1, <1>2, <1>5, <2>1, RemovalDiscards DEF Pruning
<1>6. [Store!Next]_(Store!vars)
  BY <1>1, <1>2, <1>3, <1>4, <1>5, Parts, RowsStep, WriteStores DEF RowSteps
<1> QED BY <1>1, <1>6 DEF StoreInv

LEMMA StoreInit ==
  ASSUME Init
  PROVE  StoreInv /\ Store!Init
<1>1. IInv /\ PlainInv /\ TypeOK /\ TextInv
  BY InitInv, InitPlain, Parts
<1>2. \A s \in 1..N : \A t : t \in Contents[s] => t \in Given
  BY <1>1, ContentsAre, RowTyped, RowIs DEF TextInv, Given
<1>3. \A s, z \in 1..N : \A t : t \in Contents[s] /\ t \in Contents[z] => s = z
  BY <1>1, ContentsAre DEF TextInv
<1>4. Given \subseteq Texts
  BY DEF Given
<1>5. Contents \in [1..N -> SUBSET Texts]
  BY <1>2, <1>4 DEF Contents
<1> QED BY <1>1, <1>2, <1>3, <1>4, <1>5 DEF StoreInv, Store!Init

(* Behind the clients' backs nothing happens to their texts: migrations,   *)
(* conversions to hashed IDs, rewraps, new and removed keys, and crashes   *)
(* in between leave each text under its own slug, and only writes,         *)
(* deletions and prune change what a slug has.                             *)
THEOREM ImplementsTextStore == Spec => Store!Spec
  BY StoreInit, StoreStep, PTL DEF Spec, Store!Spec
=============================================================================
