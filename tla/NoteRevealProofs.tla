--------------------------- MODULE NoteRevealProofs ---------------------------
(* Proofs about NoteReveal, for any number of requests, replicas and       *)
(* versions of the note.                                                   *)
EXTENDS NoteReveal, TLAPS

USE RevealAssumption

(* What holds of a request at each stage, given whether there are accounts *)
(* (the function's argument): what it carries, what a read without intent  *)
(* may go on with, and what a page that used no token may go on with.      *)
Request ==
  [pc: Stages, shape: Shape, at: Replicas \cup {None}, snap: Note \cup {NoRow},
   used: Requests \cup {None}, served: Note \cup {NoRow}, html: Version]

Carries(q) ==
  /\ q.pc \in Loaded => q.snap \in Note
  /\ q.pc \in {"render", "store", "show"} => q.served \in Note
  /\ q.pc = "render" => q.shape.html
  /\ q.shape.html => q.at \in Replicas
  /\ q.html = IF q.pc \in {"store", "show"} THEN q.served.ver ELSE 0

Intends(q) ==
  q.shape.method = "GET" /\ ~q.shape.explicit =>
    /\ q.pc \notin {"token", "consume", "timer", "refetch"}
    /\ q.pc \in {"interstitial", "read", "policy", "expire"} => q.snap # NoRow /\ ~Burns(q.snap)

Confirms(q) ==
  q.shape.html =>
    /\ q.pc \in {"intent", "interstitial"} => q.snap # NoRow
    /\ q.pc \in {"read", "policy", "expire"} =>
         q.used # None \/ (q.snap # NoRow /\ q.snap.kind # "immediate")
    /\ q.pc \in {"timer", "refetch"} => q.snap.kind = "grace"
    /\ q.pc = "consume" => q.used # None

Good == [a \in BOOLEAN |->
          {q \in Request : Carries(q) /\ Intends(q) /\ (a => Confirms(q))}]

(* Entries of a cache are what they say they are. *)
Entry == {e \in [ver: Version, html: Version] : e.html = e.ver}

GateInv ==
  /\ auth \in BOOLEAN
  /\ row \in Note \cup {NoRow}
  /\ lastVersion \in Version
  /\ passed \in SUBSET (1..MaxVersion)
  /\ token \in [Requests -> {"none", "live", "spent"}]
  /\ cache \in [Replicas -> Entry]
  /\ req \in [Requests -> Good[auth]]

LEMMA NoRowIsNoNote == NoRow \notin Note /\ NoRow.kind = "plain" /\ ~Burns(NoRow)
  BY DEF NoRow, Note, Burns

LEMMA StageNames ==
  /\ {"idle", "intent", "interstitial", "token", "read", "policy", "expire"} \subseteq Stages
  /\ {"consume", "timer", "refetch", "render", "store", "show", "done"} \subseteq Stages
  BY DEF Stages

LEMMA InGood ==
  ASSUME NEW a \in BOOLEAN, NEW q \in Request, Carries(q), Intends(q), a => Confirms(q)
  PROVE  q \in Good[a]
  BY DEF Good

LEMMA OfGood ==
  ASSUME NEW a \in BOOLEAN, NEW q \in Good[a]
  PROVE  q \in Request /\ Carries(q) /\ Intends(q) /\ (a => Confirms(q))
  BY DEF Good

(* A request that is over. *)
LEMMA DoneIsGood ==
  ASSUME NEW a \in BOOLEAN, NEW u \in Requests \cup {None}
  PROVE  [Idle EXCEPT !.pc = "done", !.used = u] \in Good[a]
<1> DEFINE q == [Idle EXCEPT !.pc = "done", !.used = u]
<1>1. [method |-> "GET", html |-> FALSE, explicit |-> FALSE] \in Shape /\ 0 \in Version
  BY DEF Shape, Version
<1>2. Idle \in Request
  BY <1>1, StageNames DEF Idle, Request
<1>3. q \in Request
  BY <1>2, StageNames DEF Request
<1>4. q.pc = "done" /\ q.shape = Idle.shape /\ q.html = Idle.html
  BY <1>2 DEF Request
<1>5. Idle.html = 0 /\ Idle.shape.html = FALSE
  BY DEF Idle
<1> HIDE DEF q
<1>6. Carries(q) /\ Intends(q) /\ Confirms(q)
  BY <1>4, <1>5 DEF Carries, Intends, Confirms, Loaded
<1> QED BY <1>3, <1>6, InGood DEF q

(* A request that goes on to a stage where it carries no more than before. *)
LEMMA GoesOn ==
  ASSUME NEW a \in BOOLEAN, NEW p \in Good[a], NEW pc \in Stages,
         p.pc \notin {"store", "show"}, pc \notin {"render", "store", "show"},
         pc \in Loaded => p.snap \in Note,
         Intends([p EXCEPT !.pc = pc]),
         a => Confirms([p EXCEPT !.pc = pc])
  PROVE  [p EXCEPT !.pc = pc] \in Good[a]
<1> DEFINE q == [p EXCEPT !.pc = pc]
<1>1. p \in Request /\ Carries(p)
  BY OfGood
<1>2. q \in Request
  BY <1>1 DEF Request
<1>3. /\ q.pc = pc /\ q.shape = p.shape /\ q.at = p.at /\ q.snap = p.snap
      /\ q.used = p.used /\ q.served = p.served /\ q.html = p.html
  BY <1>1 DEF Request
<1>4. Carries(q)
  BY <1>1, <1>3 DEF Carries
<1> HIDE DEF q
<1> QED BY <1>2, <1>4, InGood DEF q

(* A request that keeps a note that it has read. *)
LEMMA HoldsOn ==
  ASSUME NEW a \in BOOLEAN, NEW p \in Good[a], NEW pc \in {"interstitial", "policy"}, NEW note \in Note,
         p.pc \notin {"store", "show"},
         Intends([p EXCEPT !.pc = pc, !.snap = note]),
         a => Confirms([p EXCEPT !.pc = pc, !.snap = note])
  PROVE  [p EXCEPT !.pc = pc, !.snap = note] \in Good[a]
<1> DEFINE q == [p EXCEPT !.pc = pc, !.snap = note]
<1>1. p \in Request /\ Carries(p)
  BY OfGood
<1>2. q \in Request
  BY <1>1, StageNames DEF Request
<1>3. /\ q.pc = pc /\ q.shape = p.shape /\ q.at = p.at /\ q.snap = note
      /\ q.used = p.used /\ q.served = p.served /\ q.html = p.html
  BY <1>1 DEF Request
<1>4. Carries(q)
  BY <1>1, <1>3 DEF Carries
<1> HIDE DEF q
<1> QED BY <1>2, <1>4, InGood DEF q

(* One request changes, and nothing else that GateInv is about does. *)
LEMMA OneMoves ==
  ASSUME GateInv, NEW r \in Requests, NEW q \in Good[auth],
         req' = [req EXCEPT ![r] = q],
         auth' = auth
  PROVE  auth' \in BOOLEAN /\ req' \in [Requests -> Good[auth']]
  BY DEF GateInv

LEMMA ServesIsGood ==
  ASSUME GateInv, NEW r \in Requests, NEW note \in Note, Serves(r, note),
         req[r].pc \in Loaded, auth' = auth
  PROVE  req' \in [Requests -> Good[auth']]
<1> DEFINE p == req[r]
           q == [p EXCEPT !.pc = "render", !.snap = NoRow, !.served = note]
<1>1. auth \in BOOLEAN /\ p \in Good[auth]
  BY DEF GateInv
<1>2. p \in Request /\ Carries(p)
  BY <1>1, OfGood
<1>3. CASE ~p.shape.html
  <2>1. req' = [req EXCEPT ![r] = [Idle EXCEPT !.pc = "done", !.used = p.used]]
    BY <1>3 DEF Serves, Goes
  <2>2. p.used \in Requests \cup {None}
    BY <1>2 DEF Request
  <2> QED BY <1>1, <2>1, <2>2, DoneIsGood, OneMoves
<1>4. CASE p.shape.html
  <2>1. req' = [req EXCEPT ![r] = q]
    BY <1>4 DEF Serves, GateInv
  <2>2. q \in Request
    BY <1>2, StageNames DEF Request
  <2>3. /\ q.pc = "render" /\ q.shape = p.shape /\ q.at = p.at /\ q.snap = NoRow
        /\ q.used = p.used /\ q.served = note /\ q.html = p.html
    BY <1>2 DEF Request
  <2>4. Carries(q) /\ Intends(q) /\ Confirms(q)
    BY <1>2, <1>4, <2>3 DEF Carries, Intends, Confirms, Loaded
  <2> HIDE DEF q
  <2>5. q \in Good[auth]
    BY <1>1, <2>2, <2>4, InGood
  <2> QED BY <1>1, <2>1, <2>5, OneMoves
<1> QED BY <1>3, <1>4

LEMMA EndsIsGood ==
  ASSUME GateInv, NEW r \in Requests, Goes(r, "done"), auth' = auth
  PROVE  req' \in [Requests -> Good[auth']]
<1>1. auth \in BOOLEAN /\ req[r] \in Good[auth]
  BY DEF GateInv
<1>2. req[r].used \in Requests \cup {None}
  BY <1>1, OfGood DEF Request
<1>3. req' = [req EXCEPT ![r] = [Idle EXCEPT !.pc = "done", !.used = req[r].used]]
  BY DEF Goes
<1> QED BY <1>1, <1>2, <1>3, DoneIsGood, OneMoves

LEMMA GoesIsGood ==
  ASSUME GateInv, NEW r \in Requests, NEW pc \in Stages, Goes(r, pc), auth' = auth,
         pc # "done", [req[r] EXCEPT !.pc = pc] \in Good[auth]
  PROVE  req' \in [Requests -> Good[auth']]
<1>1. req' = [req EXCEPT ![r] = [req[r] EXCEPT !.pc = pc]]
  BY DEF Goes, GateInv
<1> QED BY <1>1, OneMoves

LEMMA AuthStep ==
  ASSUME GateInv, NEW r \in Requests, NEW shape \in Shape, NEW x \in Replicas,
         HandlePrivateAuth(r, shape, x)
  PROVE  req' \in [Requests -> Good[auth']]
<1> DEFINE pc == IF shape.method = "POST" THEN "token" ELSE "intent"
           q == [Idle EXCEPT !.pc = pc, !.shape = shape, !.at = IF shape.html THEN x ELSE None,
                             !.snap = IF auth THEN row ELSE NoRow]
<1>1. auth' = auth /\ auth \in BOOLEAN /\ req[r].pc = "idle"
  BY DEF HandlePrivateAuth, GateInv
<1>2. CASE Goes(r, "done")
  BY <1>1, <1>2, EndsIsGood
<1>3. CASE (auth => Present) /\ req' = [req EXCEPT ![r] = q]
  <2>1. [method |-> "GET", html |-> FALSE, explicit |-> FALSE] \in Shape /\ 0 \in Version
    BY DEF Shape, Version
  <2>2. Idle \in Request /\ Idle.html = 0 /\ pc \in Stages
    BY <2>1, StageNames DEF Idle, Request
  <2>3. q \in Request
    BY <2>2 DEF Request, GateInv
  <2>4. /\ q.pc = pc /\ q.shape = shape /\ q.at = (IF shape.html THEN x ELSE None)
        /\ q.snap = (IF auth THEN row ELSE NoRow) /\ q.html = 0
    BY <2>2 DEF Request
  <2>5. shape.method = "POST" => shape.html
    BY DEF Shape
  <2>6. shape.method = "GET" => pc = "intent"
    OBVIOUS
  <2>7. auth => q.snap # NoRow
    BY <1>3, <2>4 DEF Present
  <2>8. pc \in {"token", "intent"}
    OBVIOUS
  <2> HIDE DEF q, pc
  <2>9. Carries(q) /\ Intends(q) /\ (auth => Confirms(q))
    BY <2>4, <2>6, <2>7, <2>8 DEF Carries, Intends, Confirms, Loaded
  <2> QED BY <1>1, <1>3, <2>3, <2>9, InGood, OneMoves
<1> QED BY <1>2, <1>3 DEF HandlePrivateAuth

LEMMA IntentStep ==
  ASSUME GateInv, NEW r \in Requests, RefuseImplicitBurnRead(r)
  PROVE  req' \in [Requests -> Good[auth']]
<1> DEFINE p == req[r]
           note == IF p.snap = NoRow THEN row ELSE p.snap
<1>1. auth' = auth /\ auth \in BOOLEAN /\ p.pc = "intent" /\ p \in Good[auth]
  BY DEF RefuseImplicitBurnRead, GateInv
<1>2. p \in Request /\ Carries(p) /\ Intends(p) /\ (auth => Confirms(p))
  BY <1>1, OfGood
<1>3. CASE p.shape.explicit /\ Goes(r, "interstitial")
  <2> DEFINE q == [p EXCEPT !.pc = "interstitial"]
  <2>1. q.pc = "interstitial" /\ q.shape = p.shape /\ q.snap = p.snap
    BY <1>2 DEF Request
  <2> HIDE DEF q
  <2>2. Intends(q) /\ (auth => Confirms(q))
    BY <1>1, <1>2, <1>3, <2>1 DEF Intends, Confirms
  <2>3. q \in Good[auth]
    BY <1>1, <2>2, GoesOn, StageNames DEF q, Loaded
  <2> QED BY <1>1, <1>3, <2>3, GoesIsGood, StageNames DEF q
<1>4. CASE Goes(r, "done")
  BY <1>1, <1>4, EndsIsGood
<1>5. CASE note # NoRow /\ ~Burns(note) /\ Holds(r, "interstitial", Checked(r, note))
  <2> DEFINE q == [p EXCEPT !.pc = "interstitial", !.snap = note]
  <2>1. note \in Note
    BY <1>2, <1>5 DEF Request, GateInv
  <2>2. q.pc = "interstitial" /\ q.shape = p.shape /\ q.snap = note
    BY <1>2 DEF Request
  <2>3. req' = [req EXCEPT ![r] = q]
    BY <1>5 DEF Holds, Checked, GateInv
  <2> HIDE DEF q, note
  <2>4. Intends(q) /\ Confirms(q)
    BY <1>5, <2>2 DEF Intends, Confirms
  <2>5. q \in Good[auth]
    BY <1>1, <2>1, <2>4, HoldsOn DEF q
  <2> QED BY <1>1, <2>3, <2>5, OneMoves
<1> QED BY <1>3, <1>4, <1>5 DEF RefuseImplicitBurnRead

LEMMA InterstitialStep ==
  ASSUME GateInv, NEW r \in Requests, HandleBurnInterstitial(r)
  PROVE  req' \in [Requests -> Good[auth']]
<1> DEFINE p == req[r]
           q == [p EXCEPT !.pc = "read"]
<1>1. auth' = auth /\ auth \in BOOLEAN /\ p.pc = "interstitial" /\ p \in Good[auth]
  BY DEF HandleBurnInterstitial, GateInv
<1>2. p \in Request /\ Carries(p) /\ Intends(p) /\ (auth => Confirms(p))
  BY <1>1, OfGood
<1>3. CASE Goes(r, "done")
  BY <1>1, <1>3, EndsIsGood
<1>4. CASE /\ Goes(r, "read")
           /\ p.shape.html => ~NeedsConfirmation(IF p.snap = NoRow THEN row ELSE p.snap)
  <2>1. q.pc = "read" /\ q.shape = p.shape /\ q.snap = p.snap
    BY <1>2 DEF Request
  <2> HIDE DEF q
  <2>2. Intends(q) /\ (auth => Confirms(q))
    BY <1>1, <1>2, <1>4, <2>1 DEF Intends, Confirms, NeedsConfirmation
  <2>3. q \in Good[auth]
    BY <1>1, <2>2, GoesOn, StageNames DEF q, Loaded
  <2> QED BY <1>1, <1>4, <2>3, GoesIsGood, StageNames DEF q
<1> QED BY <1>3, <1>4 DEF HandleBurnInterstitial

LEMMA TokenStep ==
  ASSUME GateInv, NEW r \in Requests, NEW t \in Requests, ConsumeToken(r, t)
  PROVE  req' \in [Requests -> Good[auth']]
<1> DEFINE p == req[r]
           q == [p EXCEPT !.pc = "read", !.used = t]
<1>1. auth' = auth /\ auth \in BOOLEAN /\ p.pc = "token" /\ p \in Good[auth]
  BY DEF ConsumeToken, GateInv
<1>2. p \in Request /\ Carries(p) /\ Intends(p)
  BY <1>1, OfGood
<1>3. CASE Goes(r, "done")
  BY <1>1, <1>3, EndsIsGood
<1>4. CASE req' = [req EXCEPT ![r] = q]
  <2>1. q \in Request
    BY <1>2, StageNames DEF Request
  <2>2. /\ q.pc = "read" /\ q.shape = p.shape /\ q.at = p.at /\ q.snap = p.snap
        /\ q.used = t /\ q.served = p.served /\ q.html = p.html
    BY <1>2 DEF Request
  <2>3. t # None
    OBVIOUS
  <2> HIDE DEF q
  <2>4. Carries(q) /\ Intends(q) /\ Confirms(q)
    BY <1>1, <1>2, <2>2, <2>3 DEF Carries, Intends, Confirms, Loaded
  <2> QED BY <1>1, <1>4, <2>1, <2>4, InGood, OneMoves
<1> QED BY <1>3, <1>4 DEF ConsumeToken, GateInv

LEMMA GetStep ==
  ASSUME GateInv, NEW r \in Requests, Get(r)
  PROVE  req' \in [Requests -> Good[auth']]
<1> DEFINE p == req[r]
           note == IF p.snap = NoRow THEN row ELSE p.snap
           q == [p EXCEPT !.pc = "policy", !.snap = note]
<1>1. auth' = auth /\ auth \in BOOLEAN /\ p.pc = "read" /\ p \in Good[auth]
  BY DEF Get, GateInv
<1>2. p \in Request /\ Carries(p) /\ Intends(p) /\ (auth => Confirms(p))
  BY <1>1, OfGood
<1>3. CASE Goes(r, "done")
  BY <1>1, <1>3, EndsIsGood
<1>4. CASE note # NoRow /\ Holds(r, "policy", note)
  <2>1. note \in Note
    BY <1>2, <1>4 DEF Request, GateInv
  <2>2. q.pc = "policy" /\ q.shape = p.shape /\ q.snap = note /\ q.used = p.used
    BY <1>2 DEF Request
  <2>3. req' = [req EXCEPT ![r] = q]
    BY <1>4 DEF Holds, GateInv
  <2>4. p.snap # NoRow => note = p.snap
    OBVIOUS
  <2> HIDE DEF q, note
  <2>5. Intends(q) /\ (auth => Confirms(q))
    BY <1>1, <1>2, <1>4, <2>2, <2>4 DEF Intends, Confirms
  <2>6. q \in Good[auth]
    BY <1>1, <2>1, <2>5, HoldsOn DEF q
  <2> QED BY <1>1, <2>3, <2>6, OneMoves
<1> QED BY <1>3, <1>4 DEF Get

LEMMA PolicyStep ==
  ASSUME GateInv, NEW r \in Requests, ApplyPolicy(r)
  PROVE  req' \in [Requests -> Good[auth']]
<1> DEFINE p == req[r]
<1>1. auth' = auth /\ auth \in BOOLEAN /\ p.pc = "policy" /\ p \in Good[auth]
  BY DEF ApplyPolicy, GateInv
<1>2. p \in Request /\ Carries(p) /\ Intends(p) /\ (auth => Confirms(p)) /\ p.snap \in Note
  BY <1>1, OfGood DEF Carries, Loaded
<1>3. ASSUME NEW pc \in {"consume", "timer"}, Burns(p.snap), Goes(r, pc),
             p.snap.kind = IF pc = "consume" THEN "immediate" ELSE "grace"
      PROVE  req' \in [Requests -> Good[auth']]
  <2> DEFINE q == [p EXCEPT !.pc = pc]
  <2>1. q.pc = pc /\ q.shape = p.shape /\ q.snap = p.snap /\ q.used = p.used
    BY <1>2 DEF Request
  <2> HIDE DEF q
  <2>2. Intends(q) /\ (auth => Confirms(q))
    BY <1>1, <1>2, <1>3, <2>1 DEF Intends, Confirms
  <2>3. q \in Good[auth]
    BY <1>1, <1>2, <2>2, GoesOn, StageNames DEF q
  <2> QED BY <1>1, <1>3, <2>3, GoesIsGood, StageNames DEF q
<1>4. CASE p.snap.kind = "immediate" /\ Goes(r, "consume")
  BY <1>3, <1>4 DEF Burns
<1>5. CASE p.snap.kind = "grace" /\ Goes(r, "timer")
  BY <1>3, <1>5 DEF Burns
<1>6. CASE Serves(r, p.snap)
  BY <1>1, <1>2, <1>6, ServesIsGood DEF Loaded
<1>7. CASE Goes(r, "expire")
  <2> DEFINE q == [p EXCEPT !.pc = "expire"]
  <2>1. q.pc = "expire" /\ q.shape = p.shape /\ q.snap = p.snap /\ q.used = p.used
    BY <1>2 DEF Request
  <2> HIDE DEF q
  <2>2. Intends(q) /\ (auth => Confirms(q))
    BY <1>1, <1>2, <2>1 DEF Intends, Confirms
  <2>3. q \in Good[auth]
    BY <1>1, <1>2, <2>2, GoesOn, StageNames DEF q
  <2> QED BY <1>1, <1>7, <2>3, GoesIsGood, StageNames DEF q
<1> QED BY <1>4, <1>5, <1>6, <1>7 DEF ApplyPolicy

LEMMA TimerStep ==
  ASSUME GateInv, NEW r \in Requests, SetBurnExpiry(r)
  PROVE  req' \in [Requests -> Good[auth']] /\ row' \in Note \cup {NoRow}
<1> DEFINE p == req[r]
           started == [row EXCEPT !.kind = IF @ = "grace" THEN "counting" ELSE "plain",
                                  !.expires = row.ver]
           q == [p EXCEPT !.pc = "refetch"]
<1>1. auth' = auth /\ auth \in BOOLEAN /\ p.pc = "timer" /\ p \in Good[auth]
  BY DEF SetBurnExpiry, GateInv
<1>2. p \in Request /\ Carries(p) /\ Intends(p) /\ (auth => Confirms(p)) /\ p.snap \in Note
  BY <1>1, OfGood DEF Carries, Loaded
<1>3. CASE Burns(row) /\ row' = started /\ Serves(r, started)
  <2>1. row \in Note
    BY <1>3, NoRowIsNoNote DEF GateInv
  <2>2. row.ver \in Version
    BY <2>1 DEF Note, Version
  <2>3. started \in Note
    BY <2>1, <2>2 DEF Note, Kinds
  <2> HIDE DEF started
  <2> QED BY <1>1, <1>3, <2>3, ServesIsGood DEF Loaded
<1>4. CASE row' = row /\ Goes(r, "refetch")
  <2>1. q.pc = "refetch" /\ q.shape = p.shape /\ q.snap = p.snap
    BY <1>2 DEF Request
  <2> HIDE DEF q
  <2>2. Intends(q) /\ (auth => Confirms(q))
    BY <1>1, <1>2, <2>1 DEF Intends, Confirms
  <2>3. q \in Good[auth]
    BY <1>1, <1>2, <2>2, GoesOn, StageNames DEF q
  <2> QED BY <1>1, <1>4, <2>3, GoesIsGood, StageNames DEF q, GateInv
<1> QED BY <1>3, <1>4 DEF SetBurnExpiry

(* What is shown is what was rendered, or an entry made of that version. *)
LEMMA RenderStep ==
  ASSUME GateInv, NEW r \in Requests, RenderNote(r)
  PROVE  req' \in [Requests -> Good[auth']]
<1> DEFINE p == req[r]
           x == p.at
           hit == Cacheable(p.served) /\ Hit(x, p.served)
           html == IF hit THEN cache[x].html ELSE p.served.ver
<1>1. auth' = auth /\ auth \in BOOLEAN /\ p.pc = "render" /\ p \in Good[auth]
  BY DEF RenderNote, GateInv
<1>2. p \in Request /\ Carries(p) /\ Intends(p) /\ p.served \in Note /\ x \in Replicas
  BY <1>1, OfGood DEF Carries, Loaded
<1>3. html = p.served.ver
  BY <1>2 DEF GateInv, Entry, Hit
<1>4. PICK pc \in {"show", "store"} : req' = [req EXCEPT ![r].pc = pc, ![r].html = html]
  BY DEF RenderNote
<1> HIDE DEF html
<1> DEFINE q == [p EXCEPT !.pc = pc, !.html = html]
<1>5. req' = [req EXCEPT ![r] = q]
  BY <1>4 DEF GateInv
<1>6. html \in Version
  BY <1>2, <1>3 DEF Note, Version
<1>7. q \in Request
  BY <1>2, <1>6, StageNames DEF Request
<1>8. /\ q.pc = pc /\ q.shape = p.shape /\ q.at = p.at /\ q.served = p.served /\ q.html = html
  BY <1>2 DEF Request
<1> HIDE DEF q
<1>9. Carries(q) /\ Intends(q) /\ Confirms(q)
  BY <1>1, <1>2, <1>3, <1>8 DEF Carries, Intends, Confirms, Loaded
<1> QED BY <1>1, <1>5, <1>7, <1>9, InGood, OneMoves

LEMMA StoreStep ==
  ASSUME GateInv, NEW r \in Requests, StoreRendered(r)
  PROVE  req' \in [Requests -> Good[auth']] /\ cache' \in [Replicas -> Entry]
<1> DEFINE p == req[r]
           q == [p EXCEPT !.pc = "show"]
           e == [ver |-> p.served.ver, html |-> p.html]
<1>1. auth' = auth /\ auth \in BOOLEAN /\ p.pc = "store" /\ p \in Good[auth]
  BY DEF StoreRendered, GateInv
<1>2. p \in Request /\ Carries(p) /\ Intends(p) /\ p.served \in Note /\ p.html = p.served.ver
  BY <1>1, OfGood DEF Carries
<1>3. e \in Entry
  BY <1>2 DEF Entry, Note, Version
<1>4. cache' = [cache EXCEPT ![p.at] = e] /\ Goes(r, "show")
  BY DEF StoreRendered
<1>5. q \in Request
  BY <1>2, StageNames DEF Request
<1>6. /\ q.pc = "show" /\ q.shape = p.shape /\ q.at = p.at /\ q.served = p.served /\ q.html = p.html
  BY <1>2 DEF Request
<1> HIDE DEF q, e
<1>7. Carries(q) /\ Intends(q) /\ Confirms(q)
  BY <1>1, <1>2, <1>6 DEF Carries, Intends, Confirms, Loaded
<1>8. q \in Good[auth]
  BY <1>1, <1>5, <1>7, InGood
<1>9. cache' \in [Replicas -> Entry]
  BY <1>3, <1>4 DEF GateInv
<1> QED BY <1>1, <1>4, <1>8, <1>9, GoesIsGood, StageNames DEF q

LEMMA GateInit == Init => GateInv
<1> SUFFICES ASSUME Init PROVE GateInv
  OBVIOUS
<1>1. 0 \in Version /\ [method |-> "GET", html |-> FALSE, explicit |-> FALSE] \in Shape
  BY DEF Version, Shape
<1>2. Idle \in Request
  BY <1>1, StageNames DEF Idle, Request
<1>3. Carries(Idle) /\ Intends(Idle) /\ Confirms(Idle)
  BY DEF Carries, Intends, Confirms, Idle, Loaded
<1>4. auth \in BOOLEAN /\ Idle \in Good[auth]
  BY <1>2, <1>3, InGood DEF Init
<1>5. [ver |-> 0, html |-> 0] \in Entry
  BY <1>1 DEF Entry
<1> HIDE DEF GateInv
<1> QED BY <1>1, <1>4, <1>5 DEF Init, GateInv

(* The strengthening is inductive. *)
LEMMA GateStep == GateInv /\ [Next]_vars => GateInv'
<1> SUFFICES ASSUME GateInv, [Next]_vars PROVE GateInv'
  OBVIOUS
<1>1. CASE UNCHANGED vars
  BY <1>1 DEF GateInv, vars
<1>2. ASSUME NEW kind \in Kinds, Put(kind) PROVE GateInv'
  <2>1. Deadlines(kind) \subseteq Version
    BY <1>2 DEF Put, Deadlines, Kept, GateInv, Version, Note, NoRow
  <2>2. lastVersion + 1 \in Version /\ row' \in Note /\ lastVersion' = lastVersion + 1
    BY <1>2, <2>1 DEF Put, GateInv, Version, Note
  <2> QED BY <1>2, <2>2 DEF Put, GateInv
<1>3. CASE Delete
  BY <1>3 DEF Delete, GateInv
<1>4. ASSUME NEW x \in Replicas, Evict(x) PROVE GateInv'
  <2>1. [ver |-> 0, html |-> 0] \in Entry
    BY DEF Entry, Version
  <2> QED BY <1>4, <2>1 DEF Evict, GateInv
<1>5. ASSUME NEW t \in Requests, ExpireToken(t) PROVE GateInv'
  BY <1>5 DEF ExpireToken, GateInv
<1>6. ASSUME NEW r \in Requests, Gates(r) PROVE GateInv'
  <2>1. ASSUME NEW shape \in Shape, NEW x \in Replicas, HandlePrivateAuth(r, shape, x) PROVE GateInv'
    BY <2>1, AuthStep DEF HandlePrivateAuth, GateInv
  <2>2. CASE RefuseImplicitBurnRead(r)
    BY <2>2, IntentStep DEF RefuseImplicitBurnRead, GateInv
  <2>3. CASE HandleBurnInterstitial(r)
    <3>1. token' \in [Requests -> {"none", "live", "spent"}]
      BY <2>3 DEF HandleBurnInterstitial, GateInv
    <3> QED BY <2>3, <3>1, InterstitialStep DEF HandleBurnInterstitial, GateInv
  <2>4. ASSUME NEW t \in Requests, ConsumeToken(r, t) PROVE GateInv'
    <3>1. token' \in [Requests -> {"none", "live", "spent"}]
      BY <2>4 DEF ConsumeToken, GateInv
    <3> QED BY <2>4, <3>1, TokenStep DEF ConsumeToken, GateInv
  <2> QED BY <1>6, <2>1, <2>2, <2>3, <2>4 DEF Gates
<1>7. ASSUME NEW r \in Requests, Read(r) PROVE GateInv'
  <2>1. CASE Get(r)
    BY <2>1, GetStep DEF Get, GateInv
  <2>2. CASE ApplyPolicy(r)
    BY <2>2, PolicyStep DEF ApplyPolicy, GateInv
  <2>3. CASE Consume(r)
    <3>1. auth' = auth /\ req[r].pc \in Loaded
      BY <2>3 DEF Consume, Loaded
    <3>2. CASE (Burns(row) \/ Expired(row)) /\ row' = NoRow /\ Serves(r, row)
      <4>1. row \in Note
        BY <3>2, NoRowIsNoNote DEF GateInv, Expired, NoRow
      <4>2. req' \in [Requests -> Good[auth']]
        BY <3>1, <3>2, <4>1, ServesIsGood
      <4> QED BY <2>3, <3>2, <4>2 DEF Consume, GateInv
    <3>3. CASE row' = row /\ Goes(r, "done")
      BY <2>3, <3>1, <3>3, EndsIsGood DEF Consume, GateInv
    <3> QED BY <2>3, <3>2, <3>3 DEF Consume
  <2>4. CASE SetBurnExpiry(r)
    BY <2>4, TimerStep DEF SetBurnExpiry, GateInv
  <2>5. CASE HandleSetExpiryErr(r)
    <3>1. auth' = auth /\ req[r].pc \in Loaded
      BY <2>5 DEF HandleSetExpiryErr, Loaded
    <3>2. req' \in [Requests -> Good[auth']]
      BY <2>5, <3>1, ServesIsGood, EndsIsGood DEF HandleSetExpiryErr, Present, GateInv
    <3> QED BY <2>5, <3>2 DEF HandleSetExpiryErr, GateInv
  <2>6. CASE RenderNote(r)
    BY <2>6, RenderStep DEF RenderNote, GateInv
  <2>7. CASE StoreRendered(r)
    BY <2>7, StoreStep DEF StoreRendered, GateInv
  <2>8. CASE EnforceExpiry(r)
    BY <2>8, EndsIsGood DEF EnforceExpiry, GateInv
  <2> QED BY <1>7, <2>1, <2>2, <2>3, <2>4, <2>5, <2>6, <2>7, <2>8 DEF Read
<1>8. ASSUME NEW r \in Requests, End(r) PROVE GateInv'
  BY <1>8, EndsIsGood DEF End, GateInv
<1>9. ASSUME NEW d \in 1..MaxVersion, Lapse(d) PROVE GateInv'
  BY <1>9 DEF Lapse, GateInv
<1> QED BY <1>1, <1>2, <1>3, <1>4, <1>5, <1>6, <1>7, <1>8, <1>9 DEF Next

LEMMA GatesHold == Spec => []GateInv
  BY GateInit, GateStep, PTL DEF Spec

(* Every state is well typed: what a stage of a read uses is there.        *)
THEOREM TypeCorrect == Spec => []TypeOK
<1>1. GateInv => TypeOK
  <2> SUFFICES ASSUME GateInv PROVE TypeOK
    OBVIOUS
  <2>1. \A r \in Requests : req[r] \in Request /\ Carries(req[r])
    BY OfGood DEF GateInv
  <2>2. req \in [Requests -> Request]
    BY <2>1 DEF GateInv
  <2>3. cache \in [Replicas -> [ver: Version, html: Version]]
    BY DEF GateInv, Entry
  <2> QED BY <2>1, <2>2, <2>3 DEF GateInv, TypeOK, Request, Carries
<1> QED BY <1>1, GatesHold, PTL

(* The HTML shown to a reader is that of the version it was given.         *)
THEOREM HtmlCorrect == Spec => []HtmlIsOfTheNote
<1>1. GateInv => HtmlIsOfTheNote
  <2> SUFFICES ASSUME GateInv, NEW r \in Requests, req[r].html # 0
               PROVE  req[r].html = req[r].served.ver
    BY DEF HtmlIsOfTheNote
  <2>1. Carries(req[r])
    BY OfGood DEF GateInv
  <2> QED BY <2>1 DEF Carries
<1> QED BY <1>1, GatesHold, PTL

-----------------------------------------------------------------------------
(* Snapshots.  One of the version that the row holds is the row, unless    *)
(* that version's timer was started since.  A request that is about to     *)
(* delete found its snapshot expired.                                      *)
Matches(note) == note.ver = row.ver => note = row \/ (Burns(note) /\ ~Burns(row))

SnapInv ==
  /\ row.ver <= lastVersion
  /\ \A r \in Requests :
       /\ req[r].snap.ver <= lastVersion
       /\ Matches(req[r].snap)
       /\ req[r].pc = "expire" => Expired(req[r].snap)

LEMMA GoesKeepsSnap ==
  ASSUME GateInv, NEW r \in Requests, NEW pc, Goes(r, pc)
  PROVE  /\ \A q \in Requests \ {r} : req'[q] = req[q]
         /\ req'[r].pc = pc
         /\ req'[r].snap = IF pc = "done" THEN NoRow ELSE req[r].snap
<1>1. req[r] \in Request
  BY OfGood DEF GateInv
<1> QED BY <1>1 DEF Goes, GateInv, Request, Idle

LEMMA HoldsKeepsSnap ==
  ASSUME GateInv, NEW r \in Requests, NEW pc, NEW note, Holds(r, pc, note)
  PROVE  /\ \A q \in Requests \ {r} : req'[q] = req[q]
         /\ req'[r].pc = pc /\ req'[r].snap = note
<1>1. req[r] \in Request
  BY OfGood DEF GateInv
<1> QED BY <1>1 DEF Holds, GateInv, Request

LEMMA ServesKeepsSnap ==
  ASSUME GateInv, NEW r \in Requests, NEW note, Serves(r, note)
  PROVE  /\ \A q \in Requests \ {r} : req'[q] = req[q]
         /\ req'[r].pc = IF req[r].shape.html THEN "render" ELSE "done"
         /\ req'[r].snap = NoRow
         /\ req[r].shape.html => req'[r].served = note
<1>1. req[r] \in Request
  BY OfGood DEF GateInv
<1>2. CASE req[r].shape.html
  BY <1>1, <1>2 DEF Serves, GateInv, Request
<1> QED BY <1>2, GoesKeepsSnap DEF Serves

(* What a step of a request does to the snapshots. *)
LEMMA StepSnaps ==
  ASSUME GateInv, NEW r \in Requests, Gates(r) \/ Read(r) \/ End(r)
  PROVE  /\ lastVersion' = lastVersion /\ passed' = passed
         /\ \A q \in Requests \ {r} : req'[q] = req[q]
         /\ req'[r].snap \in {req[r].snap, NoRow} \/ (req'[r].snap = row /\ row' = row)
         /\ req'[r].pc = "expire" => req'[r].snap = req[r].snap /\ Expired(req[r].snap)
         /\ \/ row' = row
            \/ EnforceExpiry(r) /\ row' = NoRow
            \/ Consume(r) /\ row' = NoRow
            \/ SetBurnExpiry(r) /\ Burns(row)
<1>0. req[r] \in Request
  BY OfGood DEF GateInv
<1>1. ASSUME NEW shape \in Shape, NEW x \in Replicas, HandlePrivateAuth(r, shape, x)
      PROVE  /\ lastVersion' = lastVersion /\ passed' = passed /\ row' = row
             /\ \A q \in Requests \ {r} : req'[q] = req[q]
             /\ req'[r].snap \in {row, NoRow} /\ req'[r].pc # "expire"
  <2> DEFINE next == IF shape.method = "POST" THEN "token" ELSE "intent"
             q == [Idle EXCEPT !.pc = next, !.shape = shape, !.at = IF shape.html THEN x ELSE None,
                               !.snap = IF auth THEN row ELSE NoRow]
  <2>1. UNCHANGED <<row, lastVersion, passed>>
    BY <1>1 DEF HandlePrivateAuth
  <2>2. CASE Goes(r, "done")
    BY <2>1, <2>2, GoesKeepsSnap
  <2>3. CASE req' = [req EXCEPT ![r] = q]
    <3>1. q.snap = (IF auth THEN row ELSE NoRow) /\ q.pc = next
      BY DEF Idle
    <3>2. next # "expire"
      OBVIOUS
    <3> HIDE DEF q, next
    <3> QED BY <2>1, <2>3, <3>1, <3>2 DEF GateInv
  <2> QED BY <1>1, <2>2, <2>3 DEF HandlePrivateAuth
<1>2. CASE RefuseImplicitBurnRead(r)
  BY <1>2, GoesKeepsSnap, HoldsKeepsSnap DEF RefuseImplicitBurnRead, Checked
<1>3. CASE HandleBurnInterstitial(r)
  BY <1>3, GoesKeepsSnap DEF HandleBurnInterstitial
<1>4. ASSUME NEW t \in Requests, ConsumeToken(r, t)
      PROVE  /\ lastVersion' = lastVersion /\ passed' = passed /\ row' = row
             /\ \A q \in Requests \ {r} : req'[q] = req[q]
             /\ req'[r].snap \in {req[r].snap, NoRow} /\ req'[r].pc # "expire"
  <2>1. CASE Goes(r, "done")
    BY <1>4, <2>1, GoesKeepsSnap DEF ConsumeToken
  <2>2. CASE req' = [req EXCEPT ![r].pc = "read", ![r].used = t]
    BY <1>0, <1>4, <2>2 DEF ConsumeToken, GateInv, Request
  <2> QED BY <1>4, <2>1, <2>2 DEF ConsumeToken
<1>5. CASE Get(r)
  BY <1>5, GoesKeepsSnap, HoldsKeepsSnap DEF Get
<1>6. CASE ApplyPolicy(r)
  <2>1. UNCHANGED <<row, lastVersion, passed>>
    BY <1>6 DEF ApplyPolicy
  <2>2. CASE Expired(req[r].snap) /\ Goes(r, "expire")
    BY <2>1, <2>2, GoesKeepsSnap
  <2>3. CASE Goes(r, "consume") \/ Goes(r, "timer")
    BY <2>1, <2>3, GoesKeepsSnap
  <2>4. CASE Serves(r, req[r].snap)
    BY <2>1, <2>4, ServesKeepsSnap
  <2> QED BY <1>6, <2>2, <2>3, <2>4 DEF ApplyPolicy
<1>7. CASE EnforceExpiry(r)
  BY <1>7, GoesKeepsSnap DEF EnforceExpiry
<1>8. CASE Consume(r)
  BY <1>8, GoesKeepsSnap, ServesKeepsSnap DEF Consume
<1>9. CASE SetBurnExpiry(r)
  BY <1>9, GoesKeepsSnap, ServesKeepsSnap DEF SetBurnExpiry
<1>10. CASE HandleSetExpiryErr(r)
  BY <1>10, GoesKeepsSnap, ServesKeepsSnap DEF HandleSetExpiryErr
<1>11. CASE RenderNote(r)
  <2> DEFINE note == req[r].served
             html == IF Cacheable(note) /\ Hit(req[r].at, note) THEN cache[req[r].at].html ELSE note.ver
  <2>1. UNCHANGED <<row, lastVersion, passed>>
    BY <1>11 DEF RenderNote
  <2>2. PICK pc \in {"show", "store"} : req' = [req EXCEPT ![r].pc = pc, ![r].html = html]
    BY <1>11 DEF RenderNote
  <2> HIDE DEF html
  <2> QED BY <1>0, <2>1, <2>2 DEF GateInv, Request
<1>12. CASE StoreRendered(r)
  BY <1>12, GoesKeepsSnap DEF StoreRendered
<1>13. CASE End(r)
  BY <1>13, GoesKeepsSnap DEF End
<1> QED BY <1>1, <1>2, <1>3, <1>4, <1>5, <1>6, <1>7, <1>8, <1>9, <1>10, <1>11, <1>12, <1>13
        DEF Gates, Read

LEMMA SnapStep == GateInv /\ SnapInv /\ [Next]_vars => SnapInv'
<1> SUFFICES ASSUME GateInv, SnapInv, [Next]_vars PROVE SnapInv'
  OBVIOUS
<1>0. /\ \A r \in Requests : req[r].snap \in Note \cup {NoRow}
      /\ row \in Note \cup {NoRow} /\ lastVersion \in Nat
  BY OfGood DEF GateInv, Request, Version
<1>1. \A note \in Note \cup {NoRow} :
        note.ver \in Nat /\ (note.ver = 0 <=> note = NoRow)
  BY DEF Note, NoRow
<1>2. CASE UNCHANGED <<row, lastVersion, req>> /\ passed \subseteq passed'
  BY <1>2 DEF SnapInv, Matches, Burns, Expired
<1>3. ASSUME NEW kind \in Kinds, Put(kind) PROVE SnapInv'
  <2>1. row'.ver = lastVersion + 1 /\ lastVersion' = lastVersion + 1
    BY <1>3 DEF Put
  <2>2. UNCHANGED <<req, passed>>
    BY <1>3 DEF Put
  <2>3. \A r \in Requests : req[r].snap.ver <= lastVersion
    BY DEF SnapInv
  <2> QED BY <1>0, <1>1, <2>1, <2>2, <2>3 DEF SnapInv, Matches, Expired
<1>4. CASE Delete
  BY <1>0, <1>1, <1>4 DEF Delete, SnapInv, Matches, Expired, NoRow
<1>5. ASSUME NEW r \in Requests, Gates(r) \/ Read(r) \/ End(r) PROVE SnapInv'
  <2>1. /\ lastVersion' = lastVersion /\ passed' = passed
        /\ \A q \in Requests \ {r} : req'[q] = req[q]
        /\ req'[r].snap \in {req[r].snap, NoRow} \/ (req'[r].snap = row /\ row' = row)
        /\ req'[r].pc = "expire" => req'[r].snap = req[r].snap /\ Expired(req[r].snap)
    BY <1>5, StepSnaps
  <2>2. CASE row' = row
    BY <1>0, <1>1, <2>1, <2>2 DEF SnapInv, Matches, Expired, Burns
  <2>3. CASE row' = NoRow
    <3>1. row'.ver = 0
      BY <2>3 DEF NoRow
    <3> QED BY <1>0, <1>1, <2>1, <2>3, <3>1 DEF SnapInv, Matches, Expired
  <2>4. CASE SetBurnExpiry(r) /\ Burns(row)
    <3>1. row \in Note
      BY <1>0, <2>4, NoRowIsNoNote
    <3>2. row'.ver = row.ver /\ ~Burns(row')
      BY <2>4, <3>1 DEF SetBurnExpiry, Burns, Note, Kinds
    <3>3. \A q \in Requests : req'[q].snap \in {req[q].snap, NoRow}
      BY <2>1, <2>4, GoesKeepsSnap, ServesKeepsSnap DEF SetBurnExpiry
    <3>4. row.ver # 0
      BY <1>1, <3>1, NoRowIsNoNote
    <3> QED BY <1>0, <1>1, <2>1, <2>4, <3>2, <3>3, <3>4 DEF SnapInv, Matches, Expired
  <2> QED BY <1>5, <2>2, <2>3, <2>4, StepSnaps
<1> QED BY <1>2, <1>3, <1>4, <1>5 DEF Next, vars, Evict, ExpireToken, Lapse

LEMMA SnapshotsHold == Spec => []SnapInv
<1>1. Init => SnapInv
  BY DEF Init, SnapInv, Matches, Idle, NoRow
<1> QED BY <1>1, SnapStep, GatesHold, PTL DEF Spec

(* With accounts, a page that used no token touches an immediate-burn note *)
(* only in a later version than that which it had found expired or with a  *)
(* grace period.                                                           *)
THEOREM RevealsAreConfirmed == Spec => BrowsersConfirm
<1> DEFINE Touches(r) ==
      /\ auth /\ req[r].shape.html /\ req[r].used = None
      /\ req'[r].pc # req[r].pc
      /\ row.kind = "immediate"
      /\ row' # row \/ (req'[r].pc = "render" /\ req'[r].served.ver = row.ver)
<1>1. GateInv /\ SnapInv /\ [Next]_vars =>
        [\A r \in Requests : Touches(r) =>
           LET note == req[r].snap IN
           /\ row.ver # note.ver
           /\ Expired(note) \/ note.kind = "grace"]_vars
  <2> SUFFICES ASSUME GateInv, SnapInv, Next, NEW r \in Requests, Touches(r)
               PROVE  /\ row.ver # req[r].snap.ver
                      /\ Expired(req[r].snap) \/ req[r].snap.kind = "grace"
    OBVIOUS
  <2>1. Confirms(req[r]) /\ Carries(req[r]) /\ Matches(req[r].snap)
    BY OfGood DEF GateInv, SnapInv
  <2>2. Gates(r) \/ Read(r) \/ End(r)
    BY StepSnaps DEF Next, Put, Delete, Lapse, Evict, ExpireToken
  <2>3. row \in Note /\ Burns(row)
    BY NoRowIsNoNote DEF GateInv, Burns
  <2>4. row.ver # req[r].snap.ver \/ req[r].snap = row
    BY <2>1, <2>3 DEF Matches
  <2>5. CASE EnforceExpiry(r)
    <3>1. Expired(req[r].snap) /\ req[r].snap.kind # "immediate"
      BY <2>1, <2>5 DEF EnforceExpiry, SnapInv, Confirms
    <3> QED BY <2>4, <3>1
  <2>6. CASE SetBurnExpiry(r) \/ HandleSetExpiryErr(r)
    <3>1. req[r].snap.kind = "grace"
      BY <2>1, <2>6 DEF SetBurnExpiry, HandleSetExpiryErr, Confirms
    <3> QED BY <2>4, <3>1
  <2>7. ~Consume(r)
    BY <2>1 DEF Consume, Confirms
  <2>8. CASE row' = row /\ req'[r].pc = "render" /\ req'[r].served.ver = row.ver
    <3>1. ASSUME NEW pc, Goes(r, pc), pc # "render" PROVE FALSE
      BY <2>8, <3>1, GoesKeepsSnap
    <3>2. ASSUME NEW pc, NEW note, Holds(r, pc, note), pc # "render" PROVE FALSE
      BY <2>8, <3>2, HoldsKeepsSnap
    <3>3. ~Gates(r)
      <4>1. ASSUME NEW shape \in Shape, NEW x \in Replicas, HandlePrivateAuth(r, shape, x) PROVE FALSE
        <5> DEFINE next == IF shape.method = "POST" THEN "token" ELSE "intent"
                   q == [Idle EXCEPT !.pc = next, !.shape = shape, !.at = IF shape.html THEN x ELSE None,
                                     !.snap = IF auth THEN row ELSE NoRow]
        <5>1. q.pc = next
          BY DEF Idle
        <5>2. next # "render"
          OBVIOUS
        <5>3. ~Goes(r, "done")
          BY <3>1
        <5>4. req' = [req EXCEPT ![r] = q]
          BY <4>1, <5>3 DEF HandlePrivateAuth
        <5> HIDE DEF q, next
        <5> QED BY <2>8, <5>1, <5>2, <5>4 DEF GateInv
      <4>2. ASSUME NEW t \in Requests, ConsumeToken(r, t) PROVE FALSE
        <5>1. req[r] \in Request
          BY OfGood DEF GateInv
        <5> QED BY <2>8, <3>1, <4>2, <5>1 DEF ConsumeToken, GateInv, Request
      <4>3. ~RefuseImplicitBurnRead(r)
        BY <3>1, <3>2 DEF RefuseImplicitBurnRead
      <4>4. ~HandleBurnInterstitial(r)
        BY <3>1 DEF HandleBurnInterstitial
      <4> QED BY <4>1, <4>2, <4>3, <4>4 DEF Gates
    <3>4. ~Get(r) /\ ~RenderNote(r) /\ ~StoreRendered(r) /\ ~End(r)
      BY <2>8, <3>1, <3>2 DEF Get, RenderNote, StoreRendered, End
    <3>5. CASE ApplyPolicy(r)
      <4>1. Serves(r, req[r].snap) /\ req[r].snap.kind # "immediate"
        BY <2>1, <3>1, <3>5 DEF ApplyPolicy, Confirms
      <4>2. req[r].snap.ver = row.ver /\ ~Burns(req[r].snap)
        BY <2>8, <3>1, <3>5, <4>1, ServesKeepsSnap DEF ApplyPolicy, Burns
      <4> QED BY <2>3, <2>4, <4>1, <4>2
    <3> QED BY <2>2, <2>5, <2>6, <2>7, <3>3, <3>4, <3>5 DEF Read
  <2> QED BY <2>2, <2>5, <2>6, <2>7, <2>8, StepSnaps
<1> QED BY <1>1, GatesHold, SnapshotsHold, PTL DEF Spec, BrowsersConfirm

(* A read without intent neither burns a note nor starts a timer; what it  *)
(* deletes is the expired note that it checked, or a later version.        *)
THEOREM ImplicitReadsSafe == Spec => ImplicitReadsBurnNothing
<1>1. GateInv /\ SnapInv /\ [Next]_vars =>
        [\A r \in Requests :
           /\ req'[r].pc # req[r].pc
           /\ req[r].shape.method = "GET" /\ ~req[r].shape.explicit
           /\ row' # row
           => LET note == req[r].snap IN
              /\ row' = NoRow
              /\ Expired(note) /\ ~Burns(note)
              /\ row = note \/ row.ver # note.ver]_vars
  <2> SUFFICES ASSUME GateInv, SnapInv, Next, NEW r \in Requests, req'[r].pc # req[r].pc,
                      req[r].shape.method = "GET", ~req[r].shape.explicit, row' # row
               PROVE  /\ row' = NoRow
                      /\ Expired(req[r].snap) /\ ~Burns(req[r].snap)
                      /\ row = req[r].snap \/ row.ver # req[r].snap.ver
    OBVIOUS
  <2>1. Intends(req[r])
    BY OfGood DEF GateInv
  <2>2. Gates(r) \/ Read(r) \/ End(r)
    BY StepSnaps DEF Next, Put, Delete, Lapse, Evict, ExpireToken
  <2>3. ~Consume(r) /\ ~SetBurnExpiry(r)
    BY <2>1 DEF Consume, SetBurnExpiry, Intends
  <2>4. EnforceExpiry(r) /\ row' = NoRow
    BY <2>2, <2>3, StepSnaps
  <2>5. Expired(req[r].snap) /\ ~Burns(req[r].snap) /\ Matches(req[r].snap)
    BY <2>1, <2>4 DEF EnforceExpiry, SnapInv, Intends
  <2> QED BY <2>4, <2>5 DEF Matches
<1> QED BY <1>1, GatesHold, SnapshotsHold, PTL DEF Spec, ImplicitReadsBurnNothing

-----------------------------------------------------------------------------
(* Tokens.  A request that has issued one is over, so it issues no other;  *)
(* a token that let a request through is spent, and let no other through.  *)
TokenInv ==
  /\ \A r \in Requests : token[r] # "none" => req[r].pc = "done"
  /\ \A r \in Requests : req[r].used # None => token[req[r].used] = "spent"
  /\ TokenRevealsOnce

LEMMA TokenStepKeeps == GateInv /\ TokenInv /\ [Next]_vars => TokenInv'
<1> SUFFICES ASSUME GateInv, TokenInv, [Next]_vars PROVE TokenInv'
  OBVIOUS
<1> USE DEF TokenInv, TokenRevealsOnce
<1>0. \A r \in Requests : req[r] \in Request
  BY OfGood DEF GateInv
(* Steps of requests that neither issue a token nor use one. *)
<1>1. ASSUME NEW r \in Requests, token' = token, req[r].pc # "done",
             \A q \in Requests \ {r} : req'[q] = req[q],
             req'[r].used \in {req[r].used, None}
      PROVE  TokenInv'
  BY <1>1 DEF GateInv
<1>2. CASE UNCHANGED <<token, req>>
  BY <1>2
<1>3. ASSUME NEW r \in Requests, NEW pc, Goes(r, pc)
      PROVE  /\ \A q \in Requests \ {r} : req'[q] = req[q]
             /\ req'[r].used = req[r].used
  BY <1>3, <1>0 DEF Goes, GateInv, Request, Idle
<1>4. ASSUME NEW r \in Requests, NEW note, Serves(r, note)
      PROVE  /\ \A q \in Requests \ {r} : req'[q] = req[q]
             /\ req'[r].used = req[r].used
  <2>1. CASE req[r].shape.html
    BY <1>0, <1>4, <2>1 DEF Serves, GateInv, Request
  <2> QED BY <1>3, <1>4, <2>1 DEF Serves
<1>5. ASSUME NEW r \in Requests, NEW pc, NEW note, Holds(r, pc, note)
      PROVE  /\ \A q \in Requests \ {r} : req'[q] = req[q]
             /\ req'[r].used = req[r].used
  BY <1>0, <1>5 DEF Holds, GateInv, Request
<1>6. ASSUME NEW t \in Requests, ExpireToken(t) PROVE TokenInv'
  BY <1>6, <1>0 DEF ExpireToken, GateInv, Request
<1>7. ASSUME NEW r \in Requests, Gates(r) PROVE TokenInv'
  <2>1. ASSUME NEW shape \in Shape, NEW x \in Replicas, HandlePrivateAuth(r, shape, x) PROVE TokenInv'
    <3>1. /\ token' = token /\ req[r].pc # "done"
          /\ \A q \in Requests \ {r} : req'[q] = req[q]
          /\ req'[r].used \in {req[r].used, None}
      <4> DEFINE next == IF shape.method = "POST" THEN "token" ELSE "intent"
                 q == [Idle EXCEPT !.pc = next, !.shape = shape, !.at = IF shape.html THEN x ELSE None,
                                   !.snap = IF auth THEN row ELSE NoRow]
      <4>1. token' = token /\ req[r].pc = "idle"
        BY <2>1 DEF HandlePrivateAuth
      <4>2. CASE Goes(r, "done")
        BY <1>3, <4>1, <4>2
      <4>3. CASE req' = [req EXCEPT ![r] = q]
        <5>1. Idle.used = None /\ Idle \in [pc: {"idle"}, shape: {Idle.shape}, at: {None}, snap: {NoRow},
                                           used: {None}, served: {NoRow}, html: {0}]
          BY DEF Idle
        <5>2. q.used = None
          BY <5>1
        <5> HIDE DEF q
        <5> QED BY <4>1, <4>3, <5>2 DEF GateInv
      <4> QED BY <2>1, <4>2, <4>3 DEF HandlePrivateAuth
    <3> QED BY <1>1, <3>1
  <2>2. CASE RefuseImplicitBurnRead(r)
    <3>1. /\ token' = token /\ req[r].pc # "done"
          /\ \A q \in Requests \ {r} : req'[q] = req[q]
          /\ req'[r].used = req[r].used
      BY <1>3, <1>5, <2>2 DEF RefuseImplicitBurnRead
    <3> QED BY <1>1, <3>1
  <2>3. CASE HandleBurnInterstitial(r)
    <3>1. CASE token' = token
      <4>1. /\ req[r].pc # "done"
            /\ \A q \in Requests \ {r} : req'[q] = req[q]
            /\ req'[r].used = req[r].used
        BY <1>3, <2>3 DEF HandleBurnInterstitial
      <4> QED BY <1>1, <3>1, <4>1
    <3>2. CASE token' = [token EXCEPT ![r] = "live"] /\ Goes(r, "done")
      <4>1. token[r] = "none"
        BY <2>3 DEF HandleBurnInterstitial
      <4>2. req'[r].pc = "done" /\ req'[r].used = req[r].used
        BY <1>3, <3>2 DEF Goes, Idle, GateInv
      <4>3. \A q \in Requests : req'[q].used = req[q].used /\ (q # r => req'[q] = req[q])
        BY <1>3, <3>2
      <4>4. \A q \in Requests : req[q].used # r
        BY <1>0, <4>1
      <4>5. \A q \in Requests : req[q].used # None => req[q].used \in Requests
        BY <1>0 DEF Request
      <4>6. \A t \in Requests \ {r} : token'[t] = token[t]
        BY <3>2 DEF GateInv
      <4> QED BY <4>2, <4>3, <4>4, <4>5, <4>6
    <3> QED BY <2>3, <3>1, <3>2 DEF HandleBurnInterstitial
  <2>4. ASSUME NEW t \in Requests, ConsumeToken(r, t) PROVE TokenInv'
    <3>1. CASE token' = token
      <4>1. /\ req[r].pc # "done"
            /\ ~TokenLive(t) => /\ \A q \in Requests \ {r} : req'[q] = req[q]
                                /\ req'[r].used = req[r].used
        BY <1>3, <2>4 DEF ConsumeToken
      <4>2. ~TokenLive(t)
        BY <2>4, <3>1 DEF ConsumeToken, TokenLive, GateInv
      <4> QED BY <1>1, <3>1, <4>1, <4>2
    <3>2. CASE /\ TokenLive(t) /\ token' = [token EXCEPT ![t] = "spent"]
               /\ req' = [req EXCEPT ![r].pc = "read", ![r].used = t]
      <4>1. req[r].pc = "token"
        BY <2>4 DEF ConsumeToken
      <4>2. /\ \A q \in Requests \ {r} : req'[q] = req[q]
            /\ req'[r].used = t
        BY <1>0, <3>2 DEF GateInv, Request
      <4>3. \A q \in Requests : req[q].used # t
        BY <3>2 DEF TokenLive
      <4>4. token[r] = "none" /\ r # t
        BY <3>2, <4>1 DEF TokenLive
      <4>5. token'[t] = "spent" /\ \A u \in Requests \ {t} : token'[u] = token[u]
        BY <3>2 DEF GateInv
      <4>6. token[t] # "none"
        BY <3>2 DEF TokenLive
      <4>7. \A q \in Requests : req[q].used # None => req[q].used \in Requests
        BY <1>0 DEF Request
      <4> QED BY <4>2, <4>3, <4>4, <4>5, <4>6, <4>7
    <3> QED BY <2>4, <3>1, <3>2 DEF ConsumeToken
  <2> QED BY <1>7, <2>1, <2>2, <2>3, <2>4 DEF Gates
<1>8. ASSUME NEW r \in Requests, Read(r) PROVE TokenInv'
  <2>1. token' = token /\ req[r].pc # "done"
    BY <1>8 DEF Read, Get, ApplyPolicy, EnforceExpiry, Consume, SetBurnExpiry, HandleSetExpiryErr, RenderNote, StoreRendered
  <2>2. /\ \A q \in Requests \ {r} : req'[q] = req[q]
        /\ req'[r].used = req[r].used
    <3>1. CASE Get(r)
      BY <1>3, <1>5, <3>1 DEF Get
    <3>2. CASE ApplyPolicy(r)
      BY <1>3, <1>4, <3>2 DEF ApplyPolicy
    <3>3. CASE Consume(r)
      BY <1>3, <1>4, <3>3 DEF Consume
    <3>4. CASE SetBurnExpiry(r)
      BY <1>3, <1>4, <3>4 DEF SetBurnExpiry
    <3>5. CASE HandleSetExpiryErr(r)
      BY <1>3, <1>4, <3>5 DEF HandleSetExpiryErr
    <3>6. CASE RenderNote(r)
      BY <1>0, <3>6 DEF RenderNote, GateInv, Request
    <3>7. CASE StoreRendered(r)
      BY <1>3, <3>7 DEF StoreRendered
    <3>8. CASE EnforceExpiry(r)
      BY <1>3, <3>8 DEF EnforceExpiry
    <3> QED BY <1>8, <3>1, <3>2, <3>3, <3>4, <3>5, <3>6, <3>7, <3>8 DEF Read
  <2> QED BY <1>1, <2>1, <2>2
<1>9. ASSUME NEW r \in Requests, End(r) PROVE TokenInv'
  <2>1. token' = token /\ req[r].pc # "done" /\ Goes(r, "done")
    BY <1>9 DEF End
  <2> QED BY <1>1, <1>3, <2>1
<1> QED BY <1>2, <1>6, <1>7, <1>8, <1>9 DEF Next, vars, Put, Delete, Lapse, Evict

(* One token lets one request through. *)
THEOREM TokensRevealOnce == Spec => []TokenRevealsOnce
<1>1. Init => TokenInv
  BY DEF Init, TokenInv, TokenRevealsOnce, Idle
<1>2. TokenInv => TokenRevealsOnce
  BY DEF TokenInv
<1> QED BY <1>1, <1>2, TokenStepKeeps, GatesHold, PTL DEF Spec
=============================================================================
