------------------------------ MODULE BurnOnce ------------------------------
(***************************************************************************)
(* What a note promises its readers, with no storage, snapshots or clocks: *)
(* at any time one version of the note is current; a version published as  *)
(* burn-after-reading is given to a reader only by the step that takes it  *)
(* away; any other version may be given to readers again and again, also   *)
(* by a reader who looked just before it was replaced.                     *)
(***************************************************************************)
EXTENDS Naturals

CONSTANTS Readers, Versions       \* Versions are positive numbers; 0 is none

VARIABLES
  current,    \* the version a reader finds now, 0 if none
  published,  \* every version there ever was
  fragile,    \* the published versions that burn on their first read
  served      \* what each reader got, 0 if nothing

vars == <<current, published, fragile, served>>

Init ==
  /\ current = 0
  /\ published = {}
  /\ fragile = {}
  /\ served = [r \in Readers |-> 0]

Publish(v) ==
  /\ v \notin published
  /\ current' = v
  /\ published' = published \cup {v}
  /\ fragile' \in {fragile, fragile \cup {v}}
  /\ UNCHANGED served

Take(r) ==
  /\ current # 0
  /\ served' = [served EXCEPT ![r] = current]
  /\ current' = 0
  /\ UNCHANGED <<published, fragile>>

Look(r, v) ==
  /\ v \in published \ fragile
  /\ served' = [served EXCEPT ![r] = v]
  /\ UNCHANGED <<current, published, fragile>>

Remove ==
  /\ current # 0
  /\ current' = 0
  /\ UNCHANGED <<published, fragile, served>>

Next ==
  \/ \E v \in Versions : Publish(v)
  \/ \E r \in Readers : served[r] = 0 /\ (Take(r) \/ \E v \in Versions : Look(r, v))
  \/ Remove

Spec == Init /\ [][Next]_vars
=============================================================================
