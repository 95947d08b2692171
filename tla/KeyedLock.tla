----------------------------- MODULE KeyedLock -----------------------------
(***************************************************************************)
(* infra/lock.Locker: mutual exclusion per key inside one process.  Each   *)
(* key in use has one reference-counted entry; the last goroutine to       *)
(* release the key drops the entry from the map.                           *)
(*                                                                         *)
(* The two critical sections under l.mu touch memory only and are one step *)
(* each.  Between them a goroutine holds nothing but a pointer to its      *)
(* entry, and that is where entries may be dropped and allocated.          *)
(***************************************************************************)
EXTENDS Naturals, FiniteSets

CONSTANTS
  Goroutines,  \* callers of Lock; each may call it again and again
  Keys,        \* hashed slugs
  Entries,     \* addresses for *entry; collected when nothing points to them
  None

ASSUME LockAssumption ==
  /\ IsFiniteSet(Goroutines)
  /\ None \notin Goroutines \cup Keys \cup Entries

VARIABLES
  locks,  \* l.locks
  refs,   \* the reference count in each entry
  owner,  \* the goroutine holding each entry's mutex
  pc,     \* where each goroutine is
  key,    \* the key it asked for
  ent     \* the entry it points to

vars == <<locks, refs, owner, pc, key, ent>>

PC == {"idle", "waiting", "held", "dropping"}

TypeOK ==
  /\ locks \in [Keys -> Entries \cup {None}]
  /\ refs \in [Entries -> Nat]
  /\ owner \in [Entries -> Goroutines \cup {None}]
  /\ pc \in [Goroutines -> PC]
  /\ key \in [Goroutines -> Keys \cup {None}]
  /\ ent \in [Goroutines -> Entries \cup {None}]

Init ==
  /\ locks = [k \in Keys |-> None]
  /\ refs = [e \in Entries |-> 0]
  /\ owner = [e \in Entries |-> None]
  /\ pc = [g \in Goroutines |-> "idle"]
  /\ key = [g \in Goroutines |-> None]
  /\ ent = [g \in Goroutines |-> None]

Users(e) == {g \in Goroutines : ent[g] = e}
Garbage == {e \in Entries : Users(e) = {} /\ \A k \in Keys : locks[k] # e}

(* The first section of Lock: find the entry or make one, and count in. *)
Enter(g, k) ==
  /\ pc[g] = "idle"
  /\ \E e \in IF locks[k] = None THEN Garbage ELSE {locks[k]} :
       /\ locks' = [locks EXCEPT ![k] = e]
       /\ refs' = [refs EXCEPT ![e] = IF locks[k] = None THEN 1 ELSE @ + 1]
       /\ owner' = IF locks[k] = None THEN [owner EXCEPT ![e] = None] ELSE owner
       /\ ent' = [ent EXCEPT ![g] = e]
  /\ key' = [key EXCEPT ![g] = k]
  /\ pc' = [pc EXCEPT ![g] = "waiting"]

(* ent.mu.Lock *)
Take(g) ==
  /\ pc[g] = "waiting"
  /\ owner[ent[g]] = None
  /\ owner' = [owner EXCEPT ![ent[g]] = g]
  /\ pc' = [pc EXCEPT ![g] = "held"]
  /\ UNCHANGED <<locks, refs, key, ent>>

UnlockNothing(g) ==
  /\ pc[g] = "held"
  /\ pc' = [pc EXCEPT ![g] = "dropping"]
  /\ UNCHANGED <<locks, refs, owner, key, ent>>

(* ent.mu.Unlock: the next waiter may run before this one counts out. *)
Unlock(g) ==
  /\ pc[g] = "held"
  /\ owner' = [owner EXCEPT ![ent[g]] = None]
  /\ pc' = [pc EXCEPT ![g] = "dropping"]
  /\ UNCHANGED <<locks, refs, key, ent>>

LastOneAlways(g) == TRUE
LastOneNever(g) == FALSE
LastOne(g) == refs[ent[g]] = 1

(* The second section: count out, and drop the entry with its last user. *)
Drop(g) ==
  /\ pc[g] = "dropping"
  /\ refs' = [refs EXCEPT ![ent[g]] = @ - 1]
  /\ locks' = IF LastOne(g) THEN [locks EXCEPT ![key[g]] = None] ELSE locks
  /\ pc' = [pc EXCEPT ![g] = "idle"]
  /\ key' = [key EXCEPT ![g] = None]
  /\ ent' = [ent EXCEPT ![g] = None]
  /\ UNCHANGED owner

Proceed(g) == Take(g) \/ Unlock(g) \/ Drop(g)

Next == \E g \in Goroutines : Proceed(g) \/ \E k \in Keys : Enter(g, k)

(* A goroutine may stop calling Lock, but it finishes what it began: every *)
(* caller defers the release.  sync.Mutex hands over to the longest waiter *)
(* after one millisecond (its starvation mode), so a waiter cannot be      *)
(* passed over forever.                                                    *)
Fairness == \A g \in Goroutines : SF_vars(Take(g)) /\ WF_vars(Unlock(g)) /\ WF_vars(Drop(g))

Spec == Init /\ [][Next]_vars /\ Fairness

-----------------------------------------------------------------------------
(* No two goroutines hold the same key, though they may have found it      *)
(* through different entries (Locker: "serializes access to arbitrary      *)
(* string keys").                                                          *)
MutualExclusion ==
  \A g, h \in Goroutines : pc[g] = "held" /\ pc[h] = "held" /\ key[g] = key[h] => g = h

(* The map holds an entry exactly for the keys somebody holds, waits for   *)
(* or is about to count out of: none is dropped under a waiter, none leaks *)
(* ("so Locker can drop the map entry once nobody references it").         *)
EntriesMatchUsers ==
  \A k \in Keys : locks[k] # None <=> \E g \in Goroutines : key[g] = k

(* Whoever asks for a key gets it. *)
WaitersServed == \A g \in Goroutines : pc[g] = "waiting" ~> pc[g] = "held"
=============================================================================
