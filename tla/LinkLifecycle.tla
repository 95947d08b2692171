--------------------------- MODULE LinkLifecycle ---------------------------
(***************************************************************************)
(* The life of one short link: its row, the replicas that keep decrypted   *)
(* targets in memory, and the requests that follow, update, delete and     *)
(* re-create it concurrently.                                              *)
(*                                                                         *)
(* A target URL and its ciphertext are abstracted to a version number,     *)
(* fresh at each write, as encryption draws a fresh nonce.  Deadlines are  *)
(* named by the version that set them and pass in any order.  Click counts *)
(* are left out.  Each request runs once, on one replica.                  *)
(***************************************************************************)
EXTENDS Naturals

CONSTANTS
  Readers,     \* redirects: links.Manager.Follow, or Redirect with no accounts
  Writers,     \* authorised PUT and DELETE requests
  Replicas,    \* server processes, each with a link cache and a slug lock
  Anonymous,   \* the caller without an account
  None,
  home,        \* the replica of each request
  caller,      \* as whom each reader asks, where the server has accounts
  Creates,     \* settings a POST may carry
  Payloads,    \* settings a PUT may carry
  MaxVersion   \* bound: how many targets are ever written

Privacy == {"public", "authenticated", "owner"}
Omitted == "omitted"
Never   == 0

ASSUME LinkAssumption ==
  /\ home \in [Readers \cup Writers -> Replicas]
  /\ \A p \in Creates : /\ p.burn \in BOOLEAN /\ p.expires \in BOOLEAN
                        /\ p.privacy \in Privacy
  /\ \A p \in Payloads : /\ p.expires \in {"keep", "set", "clear"}
                         /\ p.privacy \in Privacy \cup {Omitted}
  /\ MaxVersion \in Nat
  /\ None \notin Readers \cup Writers
  /\ Readers \cap Writers = {}

VARIABLES
  accounts,     \* whether the servers run with accounts; fixed at the start
  row,          \* the links row of the slug; version 0 when there is none
  passed,       \* the deadlines that have passed
  cache,        \* per replica, the version whose target it remembers; 0 if none
  holder,       \* per replica, the request holding the lock on the slug
  reader,
  writer,
  lastVersion,  \* history: the last version written
  audience,     \* history: who may see each version
  begun,        \* history: the oldest version a read may still return
  served,       \* history: the version and incarnation each reader was sent to
  floor         \* history: per replica, the last version it updated to and evicted

storage == <<accounts, row, passed>>
requests == <<reader, writer>>
history == <<lastVersion, audience, begun, served, floor>>
vars == <<storage, cache, holder, requests, history>>

Version == 0..MaxVersion
Callers == {Anonymous} \cup {caller[r] : r \in Readers} \cup {p.owner : p \in Creates}

Row == [ver: Version, inc: Version, burn: BOOLEAN, expiry: Version,
        privacy: Privacy, owner: Callers]

NoRow == [ver |-> 0, inc |-> 0, burn |-> FALSE, expiry |-> Never,
          privacy |-> "public", owner |-> Anonymous]

ReaderPC == {"idle", "get", "fill", "policy", "expire", "evict", "consume", "count", "done"}
WriterPC == {"idle", "get", "put", "evict", "delete", "evictDeleted", "done"}
Unserved == [ver |-> 0, inc |-> 0, burn |-> FALSE]

TypeOK ==
  /\ accounts \in BOOLEAN
  /\ row \in Row
  /\ passed \subseteq 1..MaxVersion
  /\ cache \in [Replicas -> Version]
  /\ holder \in [Replicas -> Readers \cup Writers \cup {None}]
  /\ reader \in [Readers -> [pc: ReaderPC, note: Row, target: Version]]
  /\ writer \in [Writers -> [pc: WriterPC, note: Row, sets: BOOLEAN]]
  /\ lastVersion \in Version
  /\ audience \in [1..MaxVersion -> Privacy \X Callers]
  /\ begun \in [Readers -> 0..(MaxVersion + 1)]
  /\ served \in [Readers -> [ver: Version, inc: Version, burn: BOOLEAN]]
  /\ floor \in [Replicas -> Version]

Init ==
  /\ accounts \in BOOLEAN
  /\ row = NoRow
  /\ passed = {}
  /\ cache = [p \in Replicas |-> 0]
  /\ holder = [p \in Replicas |-> None]
  /\ reader = [r \in Readers |-> [pc |-> "idle", note |-> NoRow, target |-> 0]]
  /\ writer = [w \in Writers |-> [pc |-> "idle", note |-> NoRow, sets |-> FALSE]]
  /\ lastVersion = 0
  /\ audience = [v \in 1..MaxVersion |-> <<"public", Anonymous>>]
  /\ begun = [r \in Readers |-> 0]
  /\ served = [r \in Readers |-> Unserved]
  /\ floor = [p \in Replicas |-> 0]

Present == row.ver # 0
Expired(link) == link.expiry # Never /\ link.expiry \in passed

(* Link.VisibleTo, and the WHERE that repeats it in ConsumeVisible and     *)
(* IncrementViewsVisible.                                                  *)
VisibleTo(privacy, owner, who) ==
  \/ privacy = "public"
  \/ privacy = "authenticated" /\ who # Anonymous
  \/ privacy = "owner" /\ who = owner /\ who # Anonymous

(* Without accounts every request is anonymous, and redirects are not      *)
(* authorised at all: Redirect and RedirectWithoutBurn in place of Follow. *)
Principal(c) == IF accounts THEN c ELSE Anonymous
Sees(r, link) == accounts => VisibleTo(link.privacy, link.owner, Principal(caller[r]))

Record(link) ==
  /\ lastVersion < MaxVersion
  /\ lastVersion' = lastVersion + 1
  /\ audience' = [audience EXCEPT ![lastVersion + 1] = <<link.privacy, link.owner>>]

-----------------------------------------------------------------------------
(* Create, whose slug checks are in SlugNamespace: one INSERT under the    *)
(* lock of the replica.                                                    *)
Create(p, at) ==
  /\ ~Present
  /\ holder[at] = None
  /\ p.privacy = "owner" => Principal(p.owner) # Anonymous
  /\ row' = [ver |-> lastVersion + 1, inc |-> lastVersion + 1, burn |-> p.burn,
             expiry |-> IF p.expires THEN lastVersion + 1 ELSE Never,
             privacy |-> p.privacy, owner |-> Principal(p.owner)]
  /\ Record(row')
  /\ UNCHANGED <<accounts, passed, cache, holder, requests, begun, served, floor>>

Deadlines ==
  ({row.expiry} \cup {reader[r].note.expiry : r \in Readers}
                \cup {writer[w].note.expiry : w \in Writers}) \ {Never}

(* A deadline passes. *)
Lapse ==
  /\ \E d \in Deadlines \ passed : passed' = passed \cup {d}
  /\ UNCHANGED <<accounts, row, cache, holder, requests, history>>

(* The cache drops its entry: the LRU is full or the 30 seconds are over. *)
Forget(at) ==
  /\ cache[at] # 0
  /\ cache' = [cache EXCEPT ![at] = 0]
  /\ UNCHANGED <<storage, holder, requests, history>>

-----------------------------------------------------------------------------
(* The redirect. *)

(* A request that has ended holds nothing. *)
ReadEnded == [pc |-> "done", note |-> NoRow, target |-> 0]
ReaderGoes(r, pc) ==
  reader' = [reader EXCEPT ![r] = IF pc = "done" THEN ReadEnded ELSE [@ EXCEPT !.pc = pc]]

Serve(r, ver, link) ==
  served' = [served EXCEPT ![r] = [ver |-> ver, inc |-> link.inc, burn |-> link.burn]]

LockIgnored(q) == TRUE
LockFree(q) == holder[home[q]] = None

(* resolveLink takes the slug lock, for the cache's sake. *)
ResolveLock(r) ==
  /\ reader[r].pc = "idle"
  /\ LockFree(r)
  /\ holder' = [holder EXCEPT ![home[r]] = r]
  /\ begun' = [begun EXCEPT ![r] = IF Present THEN row.ver ELSE lastVersion + 1]
  /\ ReaderGoes(r, "get")
  /\ UNCHANGED <<storage, cache, writer, lastVersion, audience, served, floor>>

ResolveGet(r) ==
  /\ reader[r].pc = "get"
  /\ IF Present
       THEN /\ reader' = [reader EXCEPT ![r].pc = "fill", ![r].note = row]
            /\ UNCHANGED holder
       ELSE /\ ReaderGoes(r, "done")
            /\ holder' = [holder EXCEPT ![home[r]] = None]
  /\ UNCHANGED <<storage, cache, writer, history>>

Cacheable(link) == link.privacy = "public" /\ ~link.burn /\ ~Expired(link)

HitAny(at, link) == cache[at] # 0
(* Cache.Get: the entry's fingerprint is that of the ciphertext just read. *)
Hit(at, link) == cache[at] = link.ver

(* The cached target is used or the decrypted one is cached, and the lock  *)
(* goes.                                                                   *)
ResolveFill(r) ==
  LET at == home[r]
      link == reader[r].note IN
  /\ reader[r].pc = "fill"
  /\ \/ /\ Cacheable(link) /\ Hit(at, link)
        /\ reader' = [reader EXCEPT ![r].pc = "policy", ![r].target = cache[at]]
        /\ UNCHANGED cache
     \/ /\ ~(Cacheable(link) /\ Hit(at, link))
        /\ reader' = [reader EXCEPT ![r].pc = "policy", ![r].target = link.ver]
        /\ cache' = IF Cacheable(link) THEN [cache EXCEPT ![at] = link.ver] ELSE cache
  /\ holder' = [holder EXCEPT ![at] = None]
  /\ UNCHANGED <<storage, writer, history>>

(* Follow's check, and redirectLink's decision on the snapshot.  Whether   *)
(* the request may burn the link is its own matter (explicitRead).         *)
RedirectLink(r) ==
  LET link == reader[r].note IN
  /\ reader[r].pc = "policy"
  /\ \/ ~Sees(r, link) /\ ReaderGoes(r, "done")
     \/ /\ Sees(r, link)
        /\ \E allowBurn \in BOOLEAN :
             ReaderGoes(r, IF Expired(link) THEN "expire"
                           ELSE IF ~link.burn THEN "count"
                           ELSE IF allowBurn THEN "consume" ELSE "done")
  /\ UNCHANGED <<storage, cache, holder, writer, history>>

ExpirableAny(r) == Present
(* ConsumeVisible without burn for Follow, a plain DELETE for Redirect. *)
Expirable(r) == Present /\ (accounts => Expired(row) /\ Sees(r, row))

(* expireLink: a Follow that finds no such row any more stops there. *)
ExpireLink(r) ==
  /\ reader[r].pc = "expire"
  /\ row' = IF Expirable(r) THEN NoRow ELSE row
  /\ ReaderGoes(r, IF Expirable(r) \/ ~accounts THEN "evict" ELSE "done")
  /\ UNCHANGED <<accounts, passed, cache, holder, writer, history>>

EvictExpired(r) ==
  /\ reader[r].pc = "evict"
  /\ cache' = [cache EXCEPT ![home[r]] = 0]
  /\ ReaderGoes(r, "done")
  /\ UNCHANGED <<storage, holder, writer, history>>

ConsumableUnseen(r) == Present /\ (row.burn \/ Expired(row))
(* The WHERE of Consume, and of ConsumeVisible with burn. *)
Consumable(r) ==
  /\ Present
  /\ row.burn \/ Expired(row)
  /\ Sees(r, row)

ConsumeKeepsRow(r) ==
  /\ reader[r].pc = "consume"
  /\ IF Consumable(r) THEN Serve(r, row.ver, row) ELSE UNCHANGED served
  /\ ReaderGoes(r, "done")
  /\ UNCHANGED <<storage, cache, holder, writer, lastVersion, audience, begun, floor>>

(* consumeLink; the target is decrypted after the row is gone. *)
ConsumeLink(r) ==
  /\ reader[r].pc = "consume"
  /\ IF Consumable(r)
       THEN row' = NoRow /\ (Serve(r, row.ver, row) \/ UNCHANGED served)
       ELSE UNCHANGED <<row, served>>
  /\ ReaderGoes(r, "done")
  /\ UNCHANGED <<accounts, passed, cache, holder, writer, lastVersion, audience, begun, floor>>

(* incrementRedirectViews: the reader is redirected, also when storage     *)
(* fails, which is only logged; but Follow is refused when the row is gone *)
(* or no longer visible.                                                   *)
IncrementRedirectViews(r) ==
  /\ reader[r].pc = "count"
  /\ \/ Serve(r, reader[r].target, reader[r].note)
     \/ accounts /\ ~(Present /\ Sees(r, row)) /\ UNCHANGED served
  /\ ReaderGoes(r, "done")
  /\ UNCHANGED <<storage, cache, holder, writer, lastVersion, audience, begun, floor>>

Releases(q) == holder' = [p \in Replicas |-> IF holder[p] = q THEN None ELSE holder[p]]

(* A cancelled context, a storage error or a failed decryption; the        *)
(* deferred unlock runs.                                                   *)
AbortRead(r) ==
  /\ reader[r].pc \notin {"idle", "done"}
  /\ ReaderGoes(r, "done")
  /\ Releases(r)
  /\ UNCHANGED <<storage, cache, writer, history>>

-----------------------------------------------------------------------------
(* The writing requests. *)

WriteEnded == [pc |-> "done", note |-> NoRow, sets |-> FALSE]
WriterGoes(w, pc) ==
  writer' = [writer EXCEPT ![w] = IF pc = "done" THEN WriteEnded ELSE [@ EXCEPT !.pc = pc]]

UpdateLock(w) ==
  /\ writer[w].pc = "idle"
  /\ holder[home[w]] = None
  /\ holder' = [holder EXCEPT ![home[w]] = w]
  /\ WriterGoes(w, "get")
  /\ UNCHANGED <<storage, cache, reader, history>>

PrivacyAsSent(p, link) == p.privacy
PrivacyAfter(p, link) == IF p.privacy = Omitted THEN link.privacy ELSE p.privacy

(* GetByID, authorisation, applyUpdateOptions and validateLink.  sets      *)
(* announces a deadline of its own, named by the version to be written.    *)
UpdateGet(w, p) ==
  /\ writer[w].pc = "get"
  /\ Present
  /\ PrivacyAfter(p, row) = "owner" => row.owner # Anonymous
  /\ writer' = [writer EXCEPT ![w] =
       [pc |-> "put", sets |-> p.expires = "set",
        note |-> [row EXCEPT !.privacy = PrivacyAfter(p, row),
                             !.expiry = IF p.expires = "clear" THEN Never ELSE @]]]
  /\ UNCHANGED <<storage, cache, holder, reader, history>>

(* UPDATE of target, expiry, privacy and redirect mode WHERE id. *)
UpdatePut(w) ==
  LET link == writer[w].note IN
  /\ writer[w].pc = "put"
  /\ Present
  /\ row' = [row EXCEPT !.ver = lastVersion + 1, !.privacy = link.privacy,
                        !.expiry = IF writer[w].sets THEN lastVersion + 1 ELSE link.expiry]
  /\ Record(row')
  /\ writer' = [writer EXCEPT ![w].pc = "evict", ![w].note = row']
  /\ UNCHANGED <<accounts, passed, cache, holder, reader, begun, served, floor>>

(* evictCache and the deferred unlock. *)
UpdateEvict(w) ==
  /\ writer[w].pc = "evict"
  /\ cache' = [cache EXCEPT ![home[w]] = 0]
  /\ floor' = [floor EXCEPT ![home[w]] = writer[w].note.ver]
  /\ holder' = [holder EXCEPT ![home[w]] = None]
  /\ WriterGoes(w, "done")
  /\ UNCHANGED <<storage, reader, lastVersion, audience, begun, served>>

(* Delete takes no lock. *)
DeleteGet(w) ==
  /\ writer[w].pc = "idle"
  /\ Present
  /\ WriterGoes(w, "delete")
  /\ UNCHANGED <<storage, cache, holder, reader, history>>

DeletePut(w) ==
  /\ writer[w].pc = "delete"
  /\ row' = NoRow
  /\ WriterGoes(w, "evictDeleted")
  /\ UNCHANGED <<accounts, passed, cache, holder, reader, history>>

DeleteEvict(w) ==
  /\ writer[w].pc = "evictDeleted"
  /\ cache' = [cache EXCEPT ![home[w]] = 0]
  /\ WriterGoes(w, "done")
  /\ UNCHANGED <<storage, holder, reader, history>>

AbortWrite(w) ==
  /\ writer[w].pc \in {"get", "put", "delete"}
  /\ WriterGoes(w, "done")
  /\ Releases(w)
  /\ UNCHANGED <<storage, cache, reader, history>>

(* A process dies with its cache, its locks and its requests. *)
Restart(at) ==
  /\ cache' = [cache EXCEPT ![at] = 0]
  /\ holder' = [holder EXCEPT ![at] = None]
  /\ reader' = [r \in Readers |->
       IF home[r] = at THEN ReadEnded ELSE reader[r]]
  /\ writer' = [w \in Writers |->
       IF home[w] = at THEN WriteEnded ELSE writer[w]]
  /\ UNCHANGED <<storage, history>>

-----------------------------------------------------------------------------
Redirect(r) ==
  \/ ResolveLock(r)
  \/ ResolveGet(r)
  \/ ResolveFill(r)
  \/ RedirectLink(r)
  \/ ExpireLink(r)
  \/ EvictExpired(r)
  \/ ConsumeLink(r)
  \/ IncrementRedirectViews(r)
  \/ AbortRead(r)

Write(w) ==
  \/ UpdateLock(w)
  \/ \E p \in Payloads : UpdateGet(w, p)
  \/ UpdatePut(w)
  \/ UpdateEvict(w)
  \/ DeleteGet(w)
  \/ DeletePut(w)
  \/ DeleteEvict(w)
  \/ AbortWrite(w)

Next ==
  \/ \E p \in Creates, at \in Replicas : Create(p, at)
  \/ Lapse
  \/ \E at \in Replicas : Forget(at) \/ Restart(at)
  \/ \E r \in Readers : Redirect(r)
  \/ \E w \in Writers : Write(w)

Spec == Init /\ [][Next]_vars

-----------------------------------------------------------------------------
(* A read that begins after an update or a delete and re-creation took     *)
(* effect, on any replica, never yields an older target (README: "Updates  *)
(* and deletes therefore take effect on the next read by any replica").    *)
ReadsAreCurrent == \A r \in Readers : served[r].ver # 0 => served[r].ver >= begun[r]

(* A burn-after-click link sends at most one reader to its target, whether *)
(* or not the target is replaced meanwhile (Redirect: "true 'exactly once' *)
(* semantics").                                                            *)
BurnLinkOnce ==
  \A r1, r2 \in Readers :
    served[r1].burn /\ served[r2].burn /\ served[r1].inc = served[r2].inc => r1 = r2

(* Follow sends a reader only to targets that were written for an audience *)
(* it belongs to, even when privacy changes between its check and the      *)
(* DELETE that returns the row (Follow: "checks access on the same         *)
(* snapshot that supplies the target URL").                                *)
AudienceRespected ==
  \A r \in Readers : accounts /\ served[r].ver # 0 =>
    LET a == audience[served[r].ver] IN VisibleTo(a[1], a[2], caller[r])

(* Follow destroys a link only if the row, as it is by then, is visible to *)
(* the reader and either expired or burning for a deliberate access        *)
(* (Follow: "a concurrent privacy change cannot make an authorized public  *)
(* read consume or update a private replacement").                         *)
FollowDestroysOnlyDueLinks ==
  [][\A r \in Readers :
       accounts /\ Present /\ row'.ver = 0 /\ reader'[r] # reader[r]
         => Sees(r, row) /\ (Expired(row) \/ (row.burn /\ reader[r].pc = "consume"))]_vars

(* Once an update has evicted its link, the cache of that replica never    *)
(* again holds an older target (resolveLink: "a concurrent cache miss      *)
(* cannot re-fill the cache").                                             *)
NoStaleRefill == \A at \in Replicas : cache[at] # 0 => cache[at] >= floor[at]
=============================================================================
