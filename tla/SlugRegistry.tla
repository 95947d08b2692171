--------------------------- MODULE SlugRegistry ---------------------------
(***************************************************************************)
(* What slug creation promises: one namespace for notes and links, where   *)
(* a slug is given to one creator while it is free, and never taken from   *)
(* its owner to be given to another.                                       *)
(***************************************************************************)
CONSTANTS Creators, Slugs, None

VARIABLES
  owner,  \* whose resource each slug names now, None if free
  won     \* the slug each creator was given, None if it has none

vars == <<owner, won>>

Init ==
  /\ owner = [s \in Slugs |-> None]
  /\ won = [c \in Creators |-> None]

Claim(c, s) ==
  /\ owner[s] = None /\ won[c] = None
  /\ owner' = [owner EXCEPT ![s] = c]
  /\ won' = [won EXCEPT ![c] = s]

Release(gone) ==
  /\ owner' = [s \in Slugs |-> IF s \in gone THEN None ELSE owner[s]]
  /\ UNCHANGED won

Next ==
  \/ \E c \in Creators, s \in Slugs : Claim(c, s)
  \/ \E gone \in SUBSET Slugs : Release(gone)

Spec == Init /\ [][Next]_vars
=============================================================================
