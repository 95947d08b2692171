------------------------------ MODULE NoteReveal ------------------------------
(* adapters/web: a read of one note through the web gates, the one-time    *)
(* tokens of the reveal page, and the render cache of each replica.  Each  *)
(* step of a request is one storage statement.  Content is a version       *)
(* number, fresh at each write; it stands for updated_at, too, which two   *)
(* versions are assumed not to share.  A deadline has passed or has not;   *)
(* its instants, the gap between the SELECT and the UPDATE of an update    *)
(* and view counts are left to NoteLifecycle.                              *)
EXTENDS Naturals

CONSTANTS
  Requests,   \* each runs once, and names the reveal token that it issues
  Replicas,
  None,
  MaxVersion  \* bound: versions of the note

ASSUME RevealAssumption == None \notin Requests /\ MaxVersion \in Nat

VARIABLES
  auth,     \* whether the account system is attached
  row,      \* NoRow when there is none
  lastVersion,
  passed,   \* the deadlines that have passed
  token,    \* reveal_tokens, by the request that issued each
  cache,    \* per replica, the note's entry in the render cache
  req

vars == <<auth, row, lastVersion, passed, token, cache, req>>

Version == 0..MaxVersion

(* burn_after_reading with and without a grace period; counting: with a    *)
(* grace period whose timer has been started, which cleared the flag.      *)
Kinds == {"plain", "immediate", "grace", "counting"}
(* expires names a deadline by the version that set it: the hard expiry    *)
(* it was written with, or its burn timer.  0: it never expires.           *)
Note  == [ver: 1..MaxVersion, kind: Kinds, expires: Version]
NoRow == [ver |-> 0, kind |-> "plain", expires |-> 0]

Present == row # NoRow
Burns(note) == note.kind \in {"immediate", "grace"}
Expired(note) == note.expires \in passed

(* explicit: explicitRead or legacyAPIRead; a POST comes from a form.      *)
Shape == [method: {"GET"}, html: BOOLEAN, explicit: BOOLEAN]
           \cup {[method |-> "POST", html |-> TRUE, explicit |-> FALSE]}

Stages == {"idle", "intent", "interstitial", "token", "read", "policy", "expire", "consume",
           "timer", "refetch", "render", "store", "show", "done"}

Idle == [pc |-> "idle", shape |-> [method |-> "GET", html |-> FALSE, explicit |-> FALSE],
         at |-> None, snap |-> NoRow, used |-> None, served |-> NoRow, html |-> 0]

Loaded == {"policy", "expire", "consume", "timer", "refetch"}

(* A stage that uses the note that was read has one (preloaded is not nil). *)
TypeOK ==
  /\ auth \in BOOLEAN
  /\ row \in Note \cup {NoRow}
  /\ lastVersion \in Version
  /\ passed \subseteq 1..MaxVersion
  /\ token \in [Requests -> {"none", "live", "spent"}]
  /\ cache \in [Replicas -> [ver: Version, html: Version]]
  /\ req \in [Requests -> [pc: Stages, shape: Shape, at: Replicas \cup {None},
                           snap: Note \cup {NoRow}, used: Requests \cup {None},
                           served: Note \cup {NoRow}, html: Version]]
  /\ \A r \in Requests :
       /\ req[r].pc \in Loaded => req[r].snap \in Note
       /\ req[r].pc \in {"render", "store", "show"} => req[r].served \in Note

Init ==
  /\ auth \in BOOLEAN
  /\ row = NoRow
  /\ lastVersion = 0
  /\ passed = {}
  /\ token = [r \in Requests |-> "none"]
  /\ cache = [x \in Replicas |-> [ver |-> 0, html |-> 0]]
  /\ req = [r \in Requests |-> Idle]

(* A request that is over keeps the token that it used. *)
Goes(r, pc) ==
  req' = [req EXCEPT ![r] = IF pc = "done" THEN [Idle EXCEPT !.pc = pc, !.used = req[r].used]
                            ELSE [@ EXCEPT !.pc = pc]]
Holds(r, pc, note) == req' = [req EXCEPT ![r].pc = pc, ![r].snap = note]

-----------------------------------------------------------------------------
(* The owner, and the clock. *)

(* resolveExpiryTime: what an update that sets no expiry leaves.  Giving   *)
(* up a burn_ttl drops its timer.                                          *)
Kept(kind) == IF row.kind \in {"grace", "counting"} /\ kind # "grace" THEN 0 ELSE row.expires

(* A create sets no expiry; an update may set or clear it without burn.    *)
Deadlines(kind) ==
  IF ~Present THEN {0}
  ELSE {Kept(kind)} \cup (IF kind = "plain" THEN {0, lastVersion + 1} ELSE {})

(* Create, Update and Delete of notes.Manager, each by its last statement. *)
Put(kind) ==
  /\ lastVersion < MaxVersion
  /\ lastVersion' = lastVersion + 1
  /\ \E d \in Deadlines(kind) : row' = [ver |-> lastVersion + 1, kind |-> kind, expires |-> d]
  /\ UNCHANGED <<auth, passed, token, cache, req>>

Delete ==
  /\ Present
  /\ row' = NoRow
  /\ UNCHANGED <<auth, lastVersion, passed, token, cache, req>>

(* A deadline passes that somebody may yet test. *)
Lapse(d) ==
  /\ d \in {row.expires} \cup {req[r].snap.expires : r \in Requests}
  /\ d \notin passed \cup {0}
  /\ passed' = passed \cup {d}
  /\ UNCHANGED <<auth, row, lastVersion, token, cache, req>>

(* renderCache.Delete after an update or a delete, on one replica; the     *)
(* time to live; the LRU.                                                  *)
Evict(x) ==
  /\ cache' = [cache EXCEPT ![x] = [ver |-> 0, html |-> 0]]
  /\ UNCHANGED <<auth, row, lastVersion, passed, token, req>>

-----------------------------------------------------------------------------
(* The gates. *)

(* handlePrivateAuth: with accounts, Peek, and keep the note unless it is  *)
(* not visible to the caller, whoever that is.                             *)
HandlePrivateAuth(r, shape, x) ==
  LET next == IF shape.method = "POST" THEN "token" ELSE "intent" IN
  /\ req[r].pc = "idle"
  /\ \/ /\ auth => Present
        /\ req' = [req EXCEPT ![r] =
             [Idle EXCEPT !.pc = next, !.shape = shape, !.at = IF shape.html THEN x ELSE None,
                          !.snap = IF auth THEN row ELSE NoRow]]
     \/ auth /\ Goes(r, "done")
  /\ UNCHANGED <<auth, row, lastVersion, passed, token, cache>>

KeepsPreloaded(r, note) == req[r].snap
(* The note that was checked is the one that is read. *)
Checked(r, note) == note

(* refuseImplicitBurnRead: Peek, unless the note is there already.         *)
RefuseImplicitBurnRead(r) ==
  LET note == IF req[r].snap = NoRow THEN row ELSE req[r].snap IN
  /\ req[r].pc = "intent"
  /\ IF req[r].shape.explicit THEN Goes(r, "interstitial")
     ELSE IF note = NoRow \/ Burns(note) THEN Goes(r, "done")
     ELSE Holds(r, "interstitial", Checked(r, note))
  /\ UNCHANGED <<auth, row, lastVersion, passed, token, cache>>

NeverConfirmed(note) == FALSE
(* The interstitial is only for immediate burn. *)
NeedsConfirmation(note) == note.kind = "immediate"

(* handleBurnInterstitial: the page carries a token that Issue inserted;   *)
(* a note that had to be loaded here is not kept.                          *)
HandleBurnInterstitial(r) ==
  LET note == IF req[r].snap = NoRow THEN row ELSE req[r].snap IN
  /\ req[r].pc = "interstitial"
  /\ IF ~req[r].shape.html THEN Goes(r, "read") /\ UNCHANGED token
     ELSE IF note = NoRow THEN Goes(r, "done") /\ UNCHANGED token
     ELSE IF NeedsConfirmation(note)
       THEN token' = [token EXCEPT ![r] = "live"] /\ Goes(r, "done")
     ELSE Goes(r, "read") /\ UNCHANGED token
  /\ UNCHANGED <<auth, row, lastVersion, passed, cache>>

TokenKnown(t) == token[t] # "none"
TokenLive(t) == token[t] = "live"

(* HandleReveal: Consume marks a live token of this note used. *)
ConsumeToken(r, t) ==
  /\ req[r].pc = "token"
  /\ IF TokenLive(t)
       THEN /\ token' = [token EXCEPT ![t] = "spent"]
            /\ req' = [req EXCEPT ![r].pc = "read", ![r].used = t]
       ELSE Goes(r, "done") /\ UNCHANGED token
  /\ UNCHANGED <<auth, row, lastVersion, passed, cache>>

(* A token expires; the sweep of a later Issue deletes what is spent.      *)
ExpireToken(t) ==
  /\ token[t] = "live"
  /\ token' = [token EXCEPT ![t] = "spent"]
  /\ UNCHANGED <<auth, row, lastVersion, passed, cache, req>>

-----------------------------------------------------------------------------
(* notes.Manager. *)

GetUnchecked(r) ==
  /\ req[r].pc = "read"
  /\ Holds(r, "policy", IF req[r].snap = NoRow THEN row ELSE req[r].snap)
  /\ UNCHANGED <<auth, row, lastVersion, passed, token, cache>>
(* View, which reads the row, or ViewPreloaded. *)
Get(r) ==
  LET note == IF req[r].snap = NoRow THEN row ELSE req[r].snap IN
  /\ req[r].pc = "read"
  /\ IF note = NoRow THEN Goes(r, "done") ELSE Holds(r, "policy", note)
  /\ UNCHANGED <<auth, row, lastVersion, passed, token, cache>>

Serves(r, note) ==
  IF req[r].shape.html
    THEN req' = [req EXCEPT ![r].pc = "render", ![r].snap = NoRow, ![r].served = note]
    ELSE Goes(r, "done")

(* applyPolicy decides on the note as it was read.                         *)
ApplyPolicy(r) ==
  LET note == req[r].snap IN
  /\ req[r].pc = "policy"
  /\ CASE Expired(note) -> Goes(r, "expire")
       [] ~Expired(note) /\ note.kind = "immediate" -> Goes(r, "consume")
       [] ~Expired(note) /\ note.kind = "grace" -> Goes(r, "timer")
       [] OTHER -> Serves(r, note)
  /\ UNCHANGED <<auth, row, lastVersion, passed, token, cache>>

(* DELETE WHERE id, whatever the row has become; the answer is ErrExpired. *)
EnforceExpiry(r) ==
  /\ req[r].pc = "expire"
  /\ row' = NoRow
  /\ Goes(r, "done")
  /\ UNCHANGED <<auth, lastVersion, passed, token, cache>>

(* DELETE WHERE id AND (burn_after_reading OR expired) RETURNING.          *)
Consume(r) ==
  /\ req[r].pc = "consume"
  /\ IF Burns(row) \/ Expired(row) THEN row' = NoRow /\ Serves(r, row)
                                  ELSE UNCHANGED row /\ Goes(r, "done")
  /\ UNCHANGED <<auth, lastVersion, passed, token, cache>>

(* UPDATE WHERE id AND burn_after_reading RETURNING, which sets expires_at *)
(* and clears the flag; burn_ttl stays.                                    *)
SetBurnExpiry(r) ==
  LET started == [row EXCEPT !.kind = IF @ = "grace" THEN "counting" ELSE "plain",
                             !.expires = row.ver] IN
  /\ req[r].pc = "timer"
  /\ IF Burns(row) THEN row' = started /\ Serves(r, started)
                   ELSE UNCHANGED row /\ Goes(r, "refetch")
  /\ UNCHANGED <<auth, lastVersion, passed, token, cache>>

(* The row is served as it is by then. *)
HandleSetExpiryErr(r) ==
  /\ req[r].pc = "refetch"
  /\ IF Present THEN Serves(r, row) ELSE Goes(r, "done")
  /\ UNCHANGED <<auth, row, lastVersion, passed, token, cache>>

-----------------------------------------------------------------------------
(* renderNote. *)

(* What is rendered for one of these is kept if it is not too large. *)
Cacheable(note) == note.kind = "plain"

HitAny(x, note) == cache[x].ver # 0
(* The entry was rendered at exactly updatedAt. *)
Hit(x, note) == cache[x].ver = note.ver

RenderNote(r) ==
  LET note == req[r].served
      hit  == Cacheable(note) /\ Hit(req[r].at, note) IN
  /\ req[r].pc = "render"
  /\ \E pc \in {"show"} \cup (IF Cacheable(note) /\ ~hit THEN {"store"} ELSE {}) :
       req' = [req EXCEPT ![r].pc = pc,
                          ![r].html = IF hit THEN cache[req[r].at].html ELSE note.ver]
  /\ UNCHANGED <<auth, row, lastVersion, passed, token, cache>>

StoreRendered(r) ==
  /\ req[r].pc = "store"
  /\ cache' = [cache EXCEPT ![req[r].at] = [ver |-> req[r].served.ver, html |-> req[r].html]]
  /\ Goes(r, "show")
  /\ UNCHANGED <<auth, row, lastVersion, passed, token>>

(* The page is sent, or the request ends early: it is cancelled, storage   *)
(* fails, or the process dies.                                             *)
End(r) ==
  /\ req[r].pc \notin {"idle", "done"}
  /\ Goes(r, "done")
  /\ UNCHANGED <<auth, row, lastVersion, passed, token, cache>>

-----------------------------------------------------------------------------
Gates(r) ==
  \/ \E shape \in Shape, x \in Replicas : HandlePrivateAuth(r, shape, x)
  \/ RefuseImplicitBurnRead(r)
  \/ HandleBurnInterstitial(r)
  \/ \E t \in Requests : ConsumeToken(r, t)

Read(r) ==
  \/ Get(r) \/ ApplyPolicy(r) \/ EnforceExpiry(r)
  \/ Consume(r) \/ SetBurnExpiry(r) \/ HandleSetExpiryErr(r)
  \/ RenderNote(r) \/ StoreRendered(r)

Next ==
  \/ \E kind \in Kinds \ {"counting"} : Put(kind)
  \/ Delete
  \/ \E d \in 1..MaxVersion : Lapse(d)
  \/ \E x \in Replicas : Evict(x)
  \/ \E t \in Requests : ExpireToken(t)
  \/ \E r \in Requests : Gates(r) \/ Read(r) \/ End(r)

Spec == Init /\ [][Next]_vars

-----------------------------------------------------------------------------
(* A read without explicit intent neither burns a note nor starts a timer, *)
(* whatever the note has become since the request checked it (README:      *)
(* "Only an intentional read burns a note").  All that it may change is    *)
(* that it deletes the row, having found the note it checked expired: that *)
(* note, or what its owner has put in its place since (enforceExpiry).     *)
ImplicitReadsBurnNothing ==
  [][\A r \in Requests :
       /\ req'[r].pc # req[r].pc
       /\ req[r].shape.method = "GET" /\ ~req[r].shape.explicit
       /\ row' # row
       => LET note == req[r].snap IN
          /\ row' = NoRow
          /\ Expired(note) /\ ~Burns(note)
          /\ row = note \/ row.ver # note.ver]_vars

(* With accounts, a page for which no token was used (README: "Browsers    *)
(* get a "reveal" confirmation page first") neither changes an             *)
(* immediate-burn note nor shows it, with one exception: its owner made it *)
(* so after the gates, out of a note that the request had found expired or *)
(* with a grace period, since the statements that follow name only the id  *)
(* and the flag (EnforceExpiry, SetBurnExpiry, HandleSetExpiryErr).        *)
BrowsersConfirm ==
  [][\A r \in Requests :
       /\ auth /\ req[r].shape.html /\ req[r].used = None
       /\ req'[r].pc # req[r].pc
       /\ row.kind = "immediate"
       /\ row' # row \/ (req'[r].pc = "render" /\ req'[r].served.ver = row.ver)
       => LET note == req[r].snap IN
          /\ row.ver # note.ver
          /\ Expired(note) \/ note.kind = "grace"]_vars

(* One token lets one request through (Consume), though a form is sent     *)
(* twice or to two replicas.                                               *)
TokenRevealsOnce ==
  \A r, s \in Requests : req[r].used # None /\ req[r].used = req[s].used => r = s

(* The HTML that a reader gets is that of the version it was given, though *)
(* other versions were rendered on the replica, before or meanwhile, and   *)
(* updates on another replica evict nothing here (rendercache.Get).        *)
HtmlIsOfTheNote == \A r \in Requests : req[r].html # 0 => req[r].html = req[r].served.ver
=============================================================================
