--------------------------- MODULE SlugNamespace ---------------------------
(***************************************************************************)
(* How notes.Manager.Create and links.Manager.Create share one namespace   *)
(* of slugs.  In each process they check for a taken slug under a lock on  *)
(* it (KeyedLock); the processes share nothing but the database, whose     *)
(* INSERT triggers have the last word.                                     *)
(*                                                                         *)
(* A slug stands for its hash.  Deletions of any origin (DELETE requests,  *)
(* burns, expired reads) are a single action: each is one statement, and   *)
(* its trigger frees the slug.                                             *)
(***************************************************************************)
EXTENDS Naturals

CONSTANTS
  Creators,        \* POST requests
  Slugs,
  Replicas,        \* server processes
  None,
  home,            \* the replica that serves each creator
  kind,            \* what it creates, "notes" or "links"
  custom,          \* the alias it asks for, None to have one generated
  MaxHashRetries   \* candidates a link tries; 5 in the code

Resources == {"notes", "links"}
Free == "free"

ASSUME CreatorsAssumption ==
  /\ home \in [Creators -> Replicas]
  /\ kind \in [Creators -> Resources]
  /\ custom \in [Creators -> Slugs \cup {None}]
  /\ None \notin Creators \cup Slugs
  /\ MaxHashRetries \in Nat \ {0}

VARIABLES
  table,      \* the notes and links tables: who inserted the row of each slug
  namespace,  \* the slug_namespace table
  stale,      \* slugs of the links past their expiry
  holder,     \* per replica and slug, the creator holding its lock
  pc,
  slug,       \* the candidate each creator is trying
  tries,      \* how many it has drawn
  won         \* history: the slug each creator inserted, None if none

vars == <<table, namespace, stale, holder, pc, slug, tries, won>>
storage == <<table, namespace, stale>>

PC == {"resolve", "lock", "checkNotes", "checkLinks", "insert", "sweep", "unlock", "done"}
Locked == {"checkNotes", "checkLinks", "insert", "sweep", "unlock"}

TypeOK ==
  /\ table \in [Resources -> [Slugs -> Creators \cup {None}]]
  /\ namespace \in [Slugs -> Resources \cup {Free}]
  /\ stale \subseteq Slugs
  /\ holder \in [Replicas -> [Slugs -> Creators \cup {None}]]
  /\ pc \in [Creators -> PC]
  /\ slug \in [Creators -> Slugs \cup {None}]
  /\ tries \in [Creators -> 0..MaxHashRetries]
  /\ won \in [Creators -> Slugs \cup {None}]

Init ==
  /\ table = [k \in Resources |-> [s \in Slugs |-> None]]
  /\ namespace = [s \in Slugs |-> Free]
  /\ stale = {}
  /\ holder = [r \in Replicas |-> [s \in Slugs |-> None]]
  /\ pc = [c \in Creators |-> "resolve"]
  /\ slug = [c \in Creators |-> None]
  /\ tries = [c \in Creators |-> 0]
  /\ won = [c \in Creators |-> None]

Goes(c, where) == pc' = [pc EXCEPT ![c] = where]

-----------------------------------------------------------------------------
ResolveOneMore(c) ==
  /\ pc[c] = "resolve"
  /\ tries[c] <= MaxHashRetries
  /\ \E s \in IF custom[c] = None THEN Slugs ELSE {custom[c]} :
       slug' = [slug EXCEPT ![c] = s]
  /\ tries' = [tries EXCEPT ![c] = @ + 1]
  /\ Goes(c, "lock")
  /\ UNCHANGED <<storage, holder, won>>

(* domain.ResolveSlug: the alias asked for, or a random one.  Only a link  *)
(* comes here again, and only with a random one.                           *)
Resolve(c) ==
  /\ pc[c] = "resolve"
  /\ tries[c] < MaxHashRetries
  /\ \E s \in IF custom[c] = None THEN Slugs ELSE {custom[c]} :
       slug' = [slug EXCEPT ![c] = s]
  /\ tries' = [tries EXCEPT ![c] = @ + 1]
  /\ Goes(c, "lock")
  /\ UNCHANGED <<storage, holder, won>>

(* ErrHashCollision, a cancelled context or an alias that is refused. *)
GiveUp(c) ==
  /\ pc[c] = "resolve"
  /\ Goes(c, "done")
  /\ UNCHANGED <<storage, holder, slug, tries, won>>

LockIgnored(c) == TRUE
LockAvailable(c) == holder[home[c]][slug[c]] = None

Lock(c) ==
  /\ pc[c] = "lock"
  /\ LockAvailable(c)
  /\ holder' = [holder EXCEPT ![home[c]][slug[c]] = c]
  /\ Goes(c, IF kind[c] = "links" THEN "checkNotes" ELSE "checkLinks")
  /\ UNCHANGED <<storage, slug, tries, won>>

RejectHolding(c) ==
  /\ Goes(c, IF kind[c] = "links" /\ custom[c] = None THEN "resolve" ELSE "done")
  /\ UNCHANGED <<storage, holder, slug, tries, won>>

(* The candidate is taken.  The lock goes first; a generated link slug is  *)
(* tried again, anything else answers ErrSlugConflict.                     *)
Reject(c) ==
  /\ holder' = [holder EXCEPT ![home[c]][slug[c]] = None]
  /\ Goes(c, IF kind[c] = "links" /\ custom[c] = None THEN "resolve" ELSE "done")
  /\ UNCHANGED <<storage, slug, tries, won>>

(* slugTaken of links, first half. *)
CheckNotes(c) ==
  /\ pc[c] = "checkNotes"
  /\ IF table["notes"][slug[c]] # None
       THEN Reject(c)
       ELSE Goes(c, "checkLinks") /\ UNCHANGED <<storage, holder, slug, tries, won>>

(* Its second half, and all that notes check before they insert. *)
CheckLinks(c) ==
  /\ pc[c] = "checkLinks"
  /\ IF table["links"][slug[c]] # None
       THEN Reject(c)
       ELSE Goes(c, "insert") /\ UNCHANGED <<storage, holder, slug, tries, won>>

AdmitsOwnTable(k, s) == table[k][s] = None
AdmitsAny(k, s) == TRUE

(* The row's primary key, and the trigger that reserves the slug in the    *)
(* namespace or aborts the INSERT.                                         *)
Admits(k, s) == table[k][s] = None /\ namespace[s] = Free

(* Storage.Create. *)
Insert(c) ==
  LET k == kind[c]
      s == slug[c] IN
  /\ pc[c] = "insert"
  /\ IF Admits(k, s)
       THEN /\ table' = [table EXCEPT ![k][s] = c]
            /\ namespace' = [namespace EXCEPT ![s] = k]
            /\ won' = [won EXCEPT ![c] = s]
            /\ Goes(c, IF k = "links" THEN "sweep" ELSE "unlock")
       ELSE /\ Goes(c, "unlock")
            /\ UNCHANGED <<table, namespace, won>>
  /\ UNCHANGED <<stale, holder, slug, tries>>

FreesNothing(k, gone) == namespace

(* The AFTER DELETE triggers. *)
Frees(k, gone) ==
  [s \in Slugs |-> IF s \in gone /\ namespace[s] = k THEN Free ELSE namespace[s]]

DeleteRows(k, gone) ==
  /\ table' = [table EXCEPT ![k] = [s \in Slugs |-> IF s \in gone THEN None ELSE @[s]]]
  /\ namespace' = Frees(k, gone)
  /\ stale' = IF k = "links" THEN stale \ gone ELSE stale

(* Create of a link ends with a DELETE of the other links past their       *)
(* expiry, whose failure is only logged.                                   *)
Sweep(c) ==
  /\ pc[c] = "sweep"
  /\ DeleteRows("links", stale \ {slug[c]}) \/ UNCHANGED storage
  /\ Goes(c, "unlock")
  /\ UNCHANGED <<holder, slug, tries, won>>

(* The deferred unlock. *)
Unlock(c) ==
  /\ pc[c] = "unlock"
  /\ holder' = [holder EXCEPT ![home[c]][slug[c]] = None]
  /\ Goes(c, "done")
  /\ UNCHANGED <<storage, slug, tries, won>>

(* A storage error, a cancelled context or a failed encryption: the lock   *)
(* is released on the way out.                                             *)
Fail(c) ==
  /\ pc[c] \in {"checkNotes", "checkLinks", "insert"}
  /\ Goes(c, "unlock")
  /\ UNCHANGED <<storage, holder, slug, tries, won>>

(* Rows go, and links expire, whatever the creators do. *)
Delete(k, s) ==
  /\ table[k][s] # None
  /\ DeleteRows(k, {s})
  /\ UNCHANGED <<holder, pc, slug, tries, won>>

Expire(s) ==
  /\ table["links"][s] # None
  /\ s \notin stale
  /\ stale' = stale \cup {s}
  /\ UNCHANGED <<table, namespace, holder, pc, slug, tries, won>>

-----------------------------------------------------------------------------
Step(c) ==
  \/ Resolve(c)
  \/ GiveUp(c)
  \/ Lock(c)
  \/ CheckNotes(c)
  \/ CheckLinks(c)
  \/ Insert(c)
  \/ Sweep(c)
  \/ Unlock(c)
  \/ Fail(c)

Next ==
  \/ \E c \in Creators : Step(c)
  \/ \E k \in Resources, s \in Slugs : Delete(k, s)
  \/ \E s \in Slugs : Expire(s)

(* A request that can take its next step does.  Creators run once and draw *)
(* a bounded number of candidates, so locks need no stronger fairness.     *)
Fairness == \A c \in Creators : WF_vars(Step(c))

Spec == Init /\ [][Next]_vars /\ Fairness

-----------------------------------------------------------------------------
(* A slug names a note or a link, never both, on any replica (manager.go:  *)
(* "slugs are globally unique across both").                               *)
OneResourcePerSlug ==
  \A s \in Slugs : table["notes"][s] = None \/ table["links"][s] = None

(* The namespace table reserves exactly the slugs in use: none is taken by *)
(* a row that is gone, and no row is without its reservation.              *)
NamespaceAgrees ==
  \A s \in Slugs, k \in Resources : namespace[s] = k <=> table[k][s] # None

(* The lock is held from the check to the INSERT: by then the slug can     *)
(* have been taken only through another replica, or by a note racing a     *)
(* note, which do not check for each other.                                *)
CheckStillHolds ==
  \A c \in Creators, k \in Resources :
    /\ pc[c] = "insert"
    /\ kind[c] = "links" \/ k = "links"
    /\ table[k][slug[c]] # None
    => home[table[k][slug[c]]] # home[c]

(* Every create ends, whatever the others hold or fail at. *)
CreatesEnd == \A c \in Creators : <>(pc[c] = "done")

Registry == INSTANCE SlugRegistry WITH
  owner <- [s \in Slugs |-> IF table["notes"][s] # None THEN table["notes"][s]
                            ELSE table["links"][s]]

(* Slugs are given and freed as SlugRegistry promises: a creator gets one  *)
(* that was free, and keeps it until its resource is deleted.              *)
KeepsRegistry == Registry!Spec
=============================================================================
