# padmark: TLA+ models and proofs

padmark is a self-hosted server for markdown notes and short links. It keeps both in SQLite or
PostgreSQL, encrypts them at rest, can delete a note on its first read, and can run as several
processes on one database. This directory holds TLA+ modules translated from the Go source under
`src/`, the TLC configurations that check them on small instances, and TLAPS proofs of theorems
about them for every value of the constants. `PROJECT.json` maps each definition to the lines it
models and lists the hazards of the code with the properties that answer to them.

    tlc -config note_once.cfg MCNote.tla       # one line per run of PROJECT.json
    tlapm NoteLifecycleProofs.tla

## 1. The system

| Component | State it keeps | Operations | What makes it correct |
|---|---|---|---|
| Note lifecycle: `usecases/notes/{manager,burn}.go`, note repositories | a row per note: content, burn flag, grace period, expiry, privacy, views, owner, edit code | Create, Peek, Get, View, ViewPreloaded, Update, Delete | an immediate-burn note reaches one reader and never returns; a grace timer starts once and before anybody reads for free; nobody's edit loses another's view counts or privacy; a read deletes only what is due |
| Link lifecycle: `usecases/links/*.go`, link repositories | a row per link: encrypted target, burn flag, expiry, privacy, redirect mode, clicks | Create, Follow, Redirect, RedirectWithoutBurn, Update, Delete | a read returns no target older than the one in the table when it began; a burn link sends one reader on; privacy is checked again where the row is changed |
| Link target cache: `infra/linkcache` | an LRU of decrypted targets per process, 30 s | Get, Set, Delete | an entry is used only for the ciphertext it was made from; no refill after an eviction |
| Slug namespace: `resolveUniqueSlug`, migration `20261025000001` and its triggers | tables `notes`, `links`, `slug_namespace` | creation, deletion, expiry sweep | one resource per slug, across processes; reservations match rows |
| Keyed lock: `infra/lock` | a map of reference-counted mutexes per process | Lock, release | exclusion per key, no entry dropped early, none leaked, no waiter starved |
| Render cache: `infra/rendercache` | rendered HTML, keyed by note and `updated_at` | Get, Set | the page shown is that of the version read |
| Web read gate and reveal tokens: `web_note.go`, `reveal_repository.go` | single-use tokens | issue, consume, sweep | a burn note is not consumed by a link preview; a token reveals once |
| Sessions, passwords, TOTP: `usecases/auth/session.go` | users, sessions, sealed TOTP secrets, last counter | Login, Logout, GetSession, ChangePassword, VerifyStepUp; re-sealing of the secret at a login or step-up | one use per code; a password change ends the other sessions and leaves the secret readable |
| Accounts: `onboarding.go`, `user_admin.go`, `api_token.go`, `step_up.go` | users, invites, API tokens | IsEmpty, AcceptFirstAdmin, GenerateInvite, AcceptInvite; ListUsers, RevokeUser; CreateAPIToken, ResolveAPIToken, ListAPITokens, RevokeAPIToken | one first admin; an invite serves once; at most twenty tokens; no token outlives its issuer's revocation |
| Content keys: `usecases/contentkeys`, `infra/storage/contentkeys` | key registry, wrapped keys, conversion progress | provision, migrate, rewrap, prune | each value is converted once, no concurrent write is lost, no key in use is pruned |
| Lockouts and rate limits: `adapters/web/middleware` | failure counts, locked keys, token buckets | test, record, reset | a locked key stays locked; the bounded sets evict what may go |
| Argon2 budget: `infra/crypto/argon2_budget.go` | a weighted semaphore | acquire, release | the memory bound holds, no derivation waits for ever |
| Cryptography, markdown rendering, HTTP parsing, server wiring, CLI, MCP, generated API | none shared, or outside this code | | |

How they interact. A request enters through a handler, which authenticates it and calls a
manager. Managers hold no transaction across storage calls: each operation is a SELECT, a decision
on the snapshot, and one conditional statement (`INSERT`, `UPDATE ... WHERE`,
`DELETE ... WHERE ... RETURNING`). Notes and links share one `Locker` and the slug namespace;
links also share the target cache with nobody but their own process. Different processes share
only the database.

What is hard here: other requests run between the statements of one request; two processes do not
see each other's locks and caches; deadlines pass between a check and the statement that acts on
it; a slug can be deleted and taken again while an operation on it is half way; a process can die
with requests, locks and cache entries in flight. Nothing else in the core is concurrent.

## 2. The modules

| Module | Models |
|---|---|
| `NoteLifecycle` | one note row and all requests on it, statement by statement |
| `BurnOnce` | what a note promises its readers, with no snapshots, clocks or storage; implemented by `NoteLifecycle` |
| `SlugNamespace` | how notes and links are created on several replicas: locks, checks, INSERT triggers, deletes, sweeps |
| `SlugRegistry` | the promise: a slug is claimed when free and released with its resource; implemented by `SlugNamespace` |
| `KeyedLock` | `infra/lock.Locker` |
| `AtomicLock` | the promise of a lock per key; implemented by `KeyedLock`, and all that `SlugNamespace` uses |
| `LinkLifecycle` | one link row, the caches and locks of the replicas, all requests on it |
| `NoteReveal` | a read of one note through the web gates, the reveal tokens and the render caches |
| `AuthSessions` | the credentials of an account: accounts, invites, sessions, one-time codes, password changes, API tokens |
| `ContentKeys` | the encrypted rows, the registry, replicas that migrate when they start, the maintenance commands, key rotation |
| `TextStore` | what a database promises its clients: the texts under each slug are theirs; implemented by `ContentKeys` |
| `MCNote`, `MCSlugs`, `MCLock`, `MCLinks`, `MCReveal`, `MCAuth`, `MCKeys` | the instances TLC checks |
| `NoteLifecycleProofs`, `SlugNamespaceProofs`, `KeyedLockProofs`, `LinkLifecycleProofs`, `NoteRevealProofs`, `AuthSessionsProofs`, `ContentKeysProofs`, `ContentKeysRefusals` | theorems |

**NoteLifecycle.** `row` is the storage row; a statement addresses one id, so one row stands for
all. Content, title and ciphertext are a version number, fresh at each write. `inc`, the version
written by the POST, stands for what an update cannot change (owner, edit code, creation time).
Each reader goes `Peek` (SELECT), `ApplyPolicy` (decide on the snapshot), then one of
`EnforceExpiry` (DELETE by id), `SetBurnExpiry` (conditional UPDATE) with its miss and re-fetch,
`Consume` (conditional DELETE ... RETURNING), or is served the snapshot, and last
`ApplyViewIncrement`. Each writer goes `UpdateGet`, `UpdatePut` or `DeleteGet`, `DeletePut`.
Errors, cancellation and crashes are `AbortRead` and `AbortWrite`, between any two statements;
decryption after a destructive statement may fail, so `Deliver` may answer with an error although
the row is gone. `now` is a clock that ticks between any two steps; the policy compares strictly
(`After`) and the DELETE does not (`<=`), and the model keeps both comparisons. `lastVersion`,
`written` and `served` are history. The settings of a request are restricted as the HTTP handlers
restrict them (`CreateSettings`, `UpdateSettings`).

**SlugNamespace.** A creator draws a candidate, takes the lock of its replica on it, checks the
other table (links check both), and inserts: `Admits` is the primary key and the trigger
together. A rejected generated link slug is tried again; a note's, or an alias, is not. Deletions
of any origin are `Delete`, each one statement whose trigger frees the slug; a link create ends
with `Sweep`. The lock is an atomic one here: `UsesAtomicLock` proves that a creator asks no more
of it than `AtomicLock` allows, and `ImplementsAtomicLock` that the code's lock is such a lock.

**KeyedLock.** The two sections under `l.mu` are one step each; a goroutine has a mere pointer to
its entry between them. Entries are addresses that the garbage collector hands out again once
nothing points to them, so a lost entry would be reused.

**LinkLifecycle.** As for notes, with a `cache` and a `holder` of the slug's lock per replica.
`accounts` says whether the server authorises redirects (Follow) or not (Redirect). Deadlines are
named by the version that set them and may pass in any order and at any step, so the two
comparisons at the very instant of a deadline are not told apart here. `Restart` ends a process
with its cache, locks and requests. A cache is always attached, as `server.go` does; without one,
`resolveLink` would take no lock. `begun`, `served`, `audience` and `floor` are history.

**NoteReveal.** The route of a browser or API client to a note. With accounts `HandlePrivateAuth`
peeks at the row, judges the audience and keeps the note (`snap`); then
`RefuseImplicitBurnRead` turns away a plain API read that shows no intent,
`HandleBurnInterstitial` answers a browser with a page that carries a fresh token (named by the
request that issued it), and a POST uses a token up with `ConsumeToken`. Behind the gates is the
read of `NoteLifecycle`, shortened to what happens to the row (`ApplyPolicy`, `EnforceExpiry`,
`Consume`, `SetBurnExpiry` with its re-fetch), and then `RenderNote` and `StoreRendered` with the cache of the
replica. `ApplyPolicy` looks at the expiry of the note as it was read, and `EnforceExpiry` deletes by
id whatever is there by then. A deadline is named by the version that set it, as in `LinkLifecycle`,
and `Lapse` makes one pass that the row or a snapshot has; an update keeps, sets or drops it
(`Deadlines`). The owner's `Put` and `Delete` are single steps here, the last statements of the
managers; the gap between the SELECT and the UPDATE of an update, and view counts, are left to
`NoteLifecycle`. `Evict` may happen at any time, which stands for the LRU, the time to live and
`renderCache.Delete`. The audience is judged nondeterministically, and two versions are assumed not
to share `updated_at`, by which the cache tells them apart. The editor's page peeks and enforces the
expiry by the same two steps, and is not a request of its own here.

**AuthSessions.** `user` is the row of one account besides the admin; passwords, hashes and salts
are one generation number, and `seal` is the generation under which the TOTP secret is sealed. A
request reads the row (`ReadUser`), checks password and code against that snapshot and stores the
counter with a conditional UPDATE (`VerifyFactors`), and goes on statement by statement: a login
perhaps re-seals (`ResealTOTPSecret`, after `RaiseCost`) and creates its session; a password change
writes hash, salt and seal, then its new session, then deletes the other sessions, and then the
tokens; a token is minted for a session or for another token, under the token's foreign key and
the limit. `AcceptFirstAdmin` is a check and an INSERT under a unique index, the redemption of an
invite one transaction. `RevokeUser` deletes the account with all that refers to it. `Abort` stops
a request between any two statements, by an error or a crash. A session that expires is
`EndSession`; an expired token stays in its table and counts towards the limit, so the model need
not tell it from a live one. `accepted`, `admitted` and `before` are history.

**ContentKeys.** A row is its form (which release wrote it), a text and the key it is under; an id
is a v0.1.6 slug or a hash, numbered so that the scans, which go by id, meet a slug before or
after its hash. A process is a replica that starts or a command of an admin. It reads the registry
(`ReadRegistry`), scans in batches (`ScanBatch`, `EndScan`), binds the keyring (`Bind`), and walks the
rows in batches, writing each row only if it still holds what was read (`VisitRow`). Clients of a
serving replica write and delete at any step. `Start` may come with the installed keyring or with
one made afresh under the same ID (`Stray`). The maintenance window is that of README.md:861-866 of
the repository: servers are down for commands, of which one runs at a time. Rewrap and convert also
run here beside replicas with the installed keyring, since the same lines say that "CAS protects
individual rows against a racing update/delete".
`Crash` ends any process at any step, and a replica that refused to start is started again by its
supervisor. Dry runs, and the status that commands print at the end, write nothing and are left
out, as are the second scan of `CanRemove` and the second `initialize` of a migration, which
repeat the first. `removed` and `expected` are history: the keys removed, and the texts that
clients left.

Choices that hold for all modules: each request runs once, which is no loss since the number of
requests is a parameter; authorisation by edit code or owner is assumed for the writers of notes and links, a refused
writer being `AbortWrite`; the statements are those of the SQLite repositories, which the
PostgreSQL ones repeat.

## 3. The runs

| Run | Instance | Shows |
|---|---|---|
| `note_once` | 3 readers, 2 writers, 3 versions, reuse of the slug; notes that burn at once or not at all | an immediate-burn version is read once and never comes back; view counts survive updates; reads delete only what is due; the row refines `BurnOnce` |
| `note_grace` | 3 readers, 1 writer, 5 ticks; a 2-tick grace period, edits that stop the burning with or without a hard expiry | the timer starts once, never moves, and nobody has read a version whose timer does not run |
| `lock` | 3 goroutines, 2 keys, 3 entries, for ever | exclusion, no entry lost or leaked, no waiter starved |
| `slugs` | 2 replicas, a note and a link that want one alias, a link and a note with generated slugs, 2 slugs, 2 tries | one resource per slug, reservations that match rows, checks that hold until the INSERT, the refinement of `SlugRegistry`, creates that end |
| `links` | 2 replicas, 2 redirects sharing a cache, an update on each replica, 3 versions, restarts | reads are current, burn links send one reader on, privacy holds, no stale refill, Follow destroys only what is due |
| `reveal` | 3 requests of any shape, 2 versions of 4 kinds and their deadlines, tokens, 2 replicas with their caches, with accounts and without | reads without intent burn nothing, and delete only having found a note expired; without a token a page touches an immediate-burn note only if its snapshot was expired or had a grace period; a token lets one request through; the page is that of the version read |
| `sessions` | 2 logins, a password change, 2 token requests, 2 redemptions of one invite, 2 bootstraps, up to 4 of them in a behaviour; 3 codes, 2 generations | a code is accepted once; nothing outlives its account, its issuer or a completed password change; one first admin, one account per invite |
| `content_keys` | databases of every release on 2 slugs, 2 replicas, 4 starts and commands, one write, batches of 2 | replicas that serve read everything, no text is lost or comes back, keys in use stay, a start-up is refused only for a cause |
| `note_timer_race` | violation, finding 1 | |
| `note_renewed` | violation, finding 2 | |
| `note_privacy` | violation, finding 3 | |
| `sessions_reseal` | violation, finding 4 | |

Why the bounds are enough. Every race here is between a request that holds a snapshot, one that
changes the row, and one that profits: two readers and a writer, and the third reader or second
writer of each run lets two of them be of one kind. Three versions are a first one, its
replacement, and a re-creation or a second replacement. The clock of `note_grace` allows a grace
period to start, be raced and lapse. Two slugs and four creators make every pair of kinds and of
replicas meet on one slug; two tries, where the code has five, let a link be rejected, retry and
give up. Two keys and three goroutines let an entry be dropped while another key's entry is reused.
In `reveal` a token is issued by one request and shown by two others, on two replicas. Its two versions
are one that a request reads and one that the owner puts in its place, by an update or after a
deletion; every exception that its two properties of the gates allow is reached with them (a timer
that runs out under a snapshot, and a note that is made an immediate burn before each of the three
statements). With three versions the states exceed what a run may take. In `sessions` each race is between two requests
of one kind, or a password change and two others that use or extend what it revokes, or a chain of
two tokens and the end of their account: four requests cover them. Two password changes of one
account are possible in the module and not in the instance, whose states would be too many; the
code does not say which of them wins. In `content_keys` two slugs are four ids, so that a row and
the place it is to move to fall into one batch of two or into different ones; four runs let a
migration crash, resume on the other replica, and a key be added, activated and removed. The
largest runs are `content_keys` with 2.2 million states, `links` and `reveal` with 1.7 and `sessions`
with 0.9, a minute or two each. `RequestSymmetry` and `ServerSymmetry` are used where only interchangeable
requests or replicas are permuted and no liveness is checked. `lock` checks deadlock; the other runs
end when all requests have run, so they do not.

Fairness. Safety needs none. `SlugNamespace` assumes that a request that can take its next step
does (WF per creator): creators hold at most one lock, run once and draw a bounded number of
candidates, so no lock is contended for ever. `KeyedLock` assumes WF of `Unlock` and `Drop`, as
every caller defers the release, and SF of `Take`: `sync.Mutex` enters starvation mode after one
millisecond and hands over to the longest waiter, so a waiter is not passed over infinitely often.
Nothing is assumed of a goroutine that has not called Lock.

## 4. Findings

1. `note_timer_race`: a first reader of a grace-period note decides on its snapshot to start the
   timer. If the owner turns the note into an immediate burn meanwhile, `SetBurnExpiry` still
   matches (it tests `burn_after_reading`, not `burn_ttl`), clears the flag of the new version, and
   this version is served until the old grace period ends. README.md:75 says such a note is
   deleted the moment it is first read. The web gates do not help: in `reveal` a browser that was let
   through with a snapshot of the grace-period note is shown the immediate-burn version by
   `SetBurnExpiry`, or by the re-fetch when somebody else has started the timer, without the page that
   README.md:80 promises. `BrowsersConfirm` leaves that exception open.
2. `note_renewed`: `enforceExpiry` deletes by id alone. A note whose expiry its owner extends or
   clears between the SELECT and the DELETE is deleted although it is not expired. Links under
   Follow, and Consume, test the expiry again in the statement. `ReadsDestroyOnlyDueNotes` holds
   in `note_once`, whose notes have no hard expiry. No read destroys anything else:
   `ReadsHaveCause` proves that the row had expired, burns, or has another deadline than the one the
   read found expired; `RedirectsHaveCause` says the same of links under Redirect. The web gates do not
   help here either: they pass a snapshot that is expired and does not burn, and in `reveal` the DELETE
   of an implicit read, or of a page load, then destroys the burn note that the owner has put in its
   place, unread, without intent or token. The comment at web_note.go:511-512 says that such a note
   "is answered 409 and stays intact". `ImplicitReadsBurnNothing` and `BrowsersConfirm` leave that
   exception open, and `ImplicitReadsSafe` and `RevealsAreConfirmed` prove that there is no other.
3. `note_privacy`: Update copies the privacy it read into the note before the `COALESCE` that is
   meant to keep the stored one, so an edit without privacy reverts a privacy change stored since
   its SELECT. The comment at manager.go:394 says the stored value is kept.
   `PrivacyKept` proves that an update that no other write overtook keeps it.
4. `sessions_reseal`: after the argon2 cost was raised, a login re-seals the TOTP secret with the
   password it was given and the salt it read, and stores the seal by user id alone. If a password
   change has stored a new hash, salt and seal since, the stale seal replaces the new one, and
   the secret opens neither with the old password nor with the new one. The comment at
   session.go:365 says "The KDF salt is unchanged, so only totp_secret moves". `SecretLostByRace`
   proves that this is the only way to lose the secret, and `SecretKept` that it needs a raised cost
   and a changed password.

Two gaps the modules show and no property states. Without accounts `handlePrivateAuth` keeps no
note, so the interstitial and the read look at the row one after the other: a browser whose GET
races an update to an immediate burn consumes the note without the page that README.md:80 of the
repository promises; `BrowsersConfirm` is therefore stated for servers with accounts. And
`prune` deletes a row by id and value, without the tag that `mark-legacy` sets, so the two commands
must not run at once, which the repository's README asks for.

## 5. What is proved

For any number of requests, replicas, slugs, keys and versions, and from the constants'
assumptions alone unless said otherwise (the structure of a module stays: one account besides the
admin, and the three keys of `ContentKeys`):

| Theorem | States |
|---|---|
| `NoteLifecycleProofs!TypeCorrect`, `HistoryCorrect` | types; every version held or served was written |
| `DeadlineFixed`, `ViewsKept` | `GraceDeadlineFixed`, `ViewsSurviveUpdates`, for any settings |
| `BurnOnceForAll`, `BurnedForGood` | `ImmediateBurnAtMostOnce`, `ServedBurnIsGone`, under `NoGracePeriods` |
| `ImplementsBurnOnce` | `NoteLifecycle` refines `BurnOnce`, under `NoGracePeriods` |
| `SlugNamespaceProofs!TypeCorrect`, `NamespaceCorrect`, `SlugsUnique`, `ChecksHold` | `TypeOK`, `NamespaceAgrees`, `OneResourcePerSlug`, `CheckStillHolds` |
| `ImplementsRegistry` | `SlugNamespace` refines `SlugRegistry` |
| `UsesAtomicLock` | the locks of all processes, as creators use them, refine `AtomicLock` |
| `NoteLifecycleProofs!GraceTimed` | `GraceReadStartsTimer`, under `NeverRearmed` |
| `FirstVersionBurnsOnce` | `ImmediateBurnAtMostOnce`, `ServedBurnIsGone`, the refinement of `BurnOnce`, under `OnlyCreatesBurn` |
| `ReadsHaveCause`, `PrivacyKept` | what findings 2 and 3 leave intact, for any settings |
| `ReadsDestroyDue` | `ReadsDestroyOnlyDueNotes`, under `NoDeadlines` |
| `KeyedLockProofs!LockExcludes`, `EntriesKept` | `MutualExclusion`, `EntriesMatchUsers` |
| `ImplementsAtomicLock` | `KeyedLock` refines `AtomicLock` |
| `LinkLifecycleProofs!TypeCorrect`, `Currency`, `BurnsOnce` | `TypeOK`, `ReadsAreCurrent`, `BurnLinkOnce` |
| `AudienceHolds`, `DestroysDue`, `RefillsAreFresh` | `AudienceRespected`, `FollowDestroysOnlyDueLinks`, `NoStaleRefill` |
| `RedirectsHaveCause` | a redirect destroys only a link that has expired, burns for a deliberate access, or fell to a delete by id after its deadline moved; for any settings |
| `UpdatesPreserve` | an update overwrites the row that it read, under `OneProcess` |
| `NoteRevealProofs!TypeCorrect`, `HtmlCorrect`, `RevealsAreConfirmed` | `TypeOK`, `HtmlIsOfTheNote`, `BrowsersConfirm` |
| `ImplicitReadsSafe`, `TokensRevealOnce` | `ImplicitReadsBurnNothing`, `TokenRevealsOnce` |
| `AuthSessionsProofs!TypeCorrect`, `CodesOnce`, `OriginsOnce` | `TypeOK`, `CodesAcceptedOnce`, `OriginsServeOnce` |
| `CredentialsFollow`, `OldCredentialsGone` | `CredentialsFollowOwners`, `OldCredentialsEnd` |
| `SecretKept`, `SecretLostByRace` | what finding 4 leaves intact |
| `ContentKeysProofs!TypeCorrect`, `TextsStay`, `TextsEnd` | `TypeOK`, `NothingLost`, `NothingComesBack` |
| `Registration`, `ServersRead`, `RemovedUnused` | `KeysAreRegistered`, `ServersReadEverything`, `RemovedKeysUnused` |
| `ImplementsTextStore` | `ContentKeys` refines `TextStore` |
| `ContentKeysRefusals!RefusalsHaveCause` | `RefusedForCause` |

The arguments:

- *Burning.* `NoGracePeriods` (no request carries a grace period) is needed: finding 1 refutes the
  theorem without it. Neither property is inductive. `OnceInv` adds that versions only grow
  (`VersionsWritten`), that no reader is on the timer path (`NoTimers`), that the burn flag of the
  row and of a reader's snapshot at the policy step says how its version was written
  (`FlagsTrue`), and that a reader on its way has been served nothing (`Unserved`). So a version
  that burns is served by the deletion of its row and by nothing else, and a deleted version is
  older than whatever is written later.
- *Burning with grace periods.* `OnlyCreatesBurn` (a slug is not used again, and a request with the
  burn flag has a grace period unless it is the POST) is what excludes finding 1: an immediate burn
  is then version 1. `FirstInv` says that the flag and grace period of the row, and of a snapshot at the
  policy step, still tell whether it is that version, that no reader holds it on the path of the
  timer, and that no snapshot is newer than the row, so a timer meant for another version cannot
  clear its flag.
- *What reads destroy.* `DueInv`: a reader that is about to delete by id holds a snapshot whose deadline
  has passed, and time does not go back. So the row it deletes has the same deadline, or another one.
  `NoDeadlines` removes both, and leaves the notes that burn.
- *Privacy.* `FilledIn`: an update that omitted the privacy carries that of the version it read, as
  long as this is the version in the row.
- *Slugs.* `NamespaceAgrees` is inductive with typing and gives `OneResourcePerSlug` at once, since
  a reservation has one kind. `ChecksHold` needs the lock: `Holding` (from the check to the release a
  creator holds the lock on its candidate) and `Checked` (while it does, what it has found free
  can be filled only from another replica, or, where notes do not look, by a note). The refinement
  maps the owner of a slug to whoever inserted its row; it needs that a creator inserts once
  (`WonOnce`).
- *Lock.* `LockInv`: a goroutine past Enter points to the entry the map has for its key
  (`Pointing`), no entry serves two keys (`OneKeyEach`), and the count of an entry is the number of
  goroutines that point to it (`Counted`), so the last one to count out really is the last.
  `ImplementsAtomicLock` maps the holder of a key to the owner of the mutex its entry has (`Holder`).
  It also needs `OwnedInv`: a mutex that is taken belongs to a goroutine that has that entry, so one that
  is dropped and given to another key is free. The other half is `LocalInv` of the slugs:
  whoever has the lock of a slug is a creator on its way with it (`HeldByUsers`), so a creator that
  draws another candidate holds none. Mutual exclusion, no deadlock between two slugs and no slug
  left locked by an error path follow from the two together.
- *Grace.* `NeverRearmed` (a slug is not used again, and no update asks for an immediate burn) is
  needed: with either, a reader that lost the race for the timer is served a re-fetched row that
  starts no timer (`HandleSetExpiryErr` does not look at its flag). The invariant says that a row
  whose burn flag is cleared runs its timer or no longer burns.
- *Links.* `RowInv`: the row has the last version, and each version the audience of the row that had
  it first. `ReadInv`: what a reader holds was written and is no older than what it began with.
  `LockInv`: on one replica an update, from its read to its eviction, and a redirect that reads and
  refills exclude each other. `RefillInv`: what a cache holds, or is about to be given, is no older
  than the last update that its replica made. `LapsedInv`: a redirect that is about to delete holds an
  expired snapshot. `OneProcess` (one replica) is the condition that the comment in update.go names;
  with it `SnapshotInv` (from its read to its UPDATE, the snapshot of an update is the row, or the row is
  gone) follows from the lock.
- *Reveal.* `GateInv`: a request past a gate was let through for the note that it holds, and a cache
  entry is what it says. `SnapInv`: a snapshot of the version in the row is the row, but for a timer
  started since, and whoever is about to delete by id found its snapshot expired. So a note that a
  request could not have been let through for, and that it nevertheless changes, is a later version,
  and the request is on the path of an expired note or of a timer. `TokenInv`: a request that issued a token is over and issues no other, and
  a token that let a request through is spent.
- *Credentials.* `CodesInv`: whoever accepts a code raises the counter of the account to it, and no
  account has the number of an earlier one. `OriginInv`: an invite that led to an account is spent.
  `FollowInv`: sessions and tokens belong to the account that lives, and the line of a token holds
  those of all its issuers. `EndInv` (through `Ending`, one conjunct per stage) says what a password
  change has done with so far: with the sessions it found, then with their tokens; `CleanStays`
  says that what is gone stays gone, since a session cannot be created again under its key and a
  token needs an issuer that is there. `SealInv`: a snapshot is no newer than the account it is of,
  and nobody re-seals before the cost is raised, so only a password change can be between a stale
  re-seal and the row.
- *Content keys.* `PlanInv`: each process follows the plan of its operation, and only rewrap and
  convert run beside replicas. `RingInv` relates the keyrings of processes to the file.
  `RegistryInv`: whoever seals has a registered key, and Old and Stray, which share an ID, are never
  both registered (`SealersAgree`). `ScanInv` says what a scan that is half way has seen, and what a
  clean scan establishes while others write: all rows that it has passed, and all rows that are
  written since, are envelopes under keys it knows. `TextInv` (one row per text, conversions keep
  texts, a walk changes only rows that are as it read them) gives `NothingLost` and
  `NothingComesBack`; `RemovedInv` is the removed key's part. `StoreInv` adds `PlainInv` (no row
  in a plaintext form has a hash for its id), so a conversion moves its row to the hash of the slug
  that it had: texts of two slugs are not exchanged, which `NothingLost` would not notice.
- *Refusals.* `RInv` adds to this `KeyInv` (New is not used before it is active; a start-up with the
  installed keyring has Old as long as the file does) and `StartInv`, which follows one start-up:
  what its scans found wrong is still so (`Remaining`), whatever others have written since; the
  rows that its walk has passed are converted, but for marked notes whose hash is taken (`Walked`);
  and so are all when the last scan begins (`WalkedAll`). The assumption of `ContentKeys`
  says for this that the names of keys are not those of forms.

Only model-checked: the liveness properties `CreatesEnd` and `WaitersServed`, since fairness and
ENABLED are out of the provers' reach. Every other property of a passing run has a theorem. The
proofs of burning, of grace periods, of deadlines and of `UpdatesPreserve` restrict the constants by the
named conditions above, because TLC refutes the statements without them; the theorems without a
condition hold for all settings that the handlers let through.

## 6. What is not modelled, and why

- PostgreSQL: the repositories repeat the statements of the SQLite ones with another driver and
  an advisory lock where SQLite has one writer, so a module of theirs would be the same module.
- Lockouts: counters in the memory of one process. A bucket is locked after ten consecutive failures
  (`maxFailedAttempts`, faillock.go:16-18); attempts that pass the test together may exceed that, and
  the comment at faillock.go:24-26 calls counters below it best-effort. When the set of locked buckets
  is full, expired ones are dropped first, then the one closest to its expiry. Not modelled so far.
- Rate limits and the Argon2 budget: token buckets and a semaphore of libraries, with single
  expressions around them.
- Ciphers and hashes are data here: the modules name generations, versions and keys instead.
- Markdown rendering, request parsing, formats chosen from headers, page layout: no shared state.
- Flags, start-up and shutdown of the process, the CLI and MCP clients.
- Generated code: most of the lines under `src/` are generated from the OpenAPI document and only
  encode and decode, so `PROJECT.json` maps a small share of all lines although it covers the
  use cases and repositories named above.

Left out of modelled parts: reads for metadata only, titles, types and lengths of notes; the click
counts and redirect mode of links; the last-used and last-login times and lists of accounts and
tokens (the token limit is enforced in the transaction that inserts, a single step, so no property
states it); links as plaintext rows (the conversion of
legacy plaintext is for notes only); a clock coarse enough for two versions to
share `updated_at`. A reveal token is bound to the id of its note and not to the incarnation, and
the destructive statements of notes do not repeat the privacy check of the gate; the code promises
neither, so no property asks for it.

What could follow: liveness of a restarted migration; two racing
password changes, if the code is given a rule for them; a module for the lockouts, to bound by how
much concurrent attempts exceed the ten.
