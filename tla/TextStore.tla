----------------------------- MODULE TextStore -----------------------------
(***************************************************************************)
(* What a database promises its clients, without keys, formats or record   *)
(* IDs: the texts under each slug change only when a client writes or      *)
(* deletes one there, or an operator discards one.  A text is written      *)
(* once, so one that has gone never comes back.                            *)
(***************************************************************************)
CONSTANTS Slugs, Texts

VARIABLES
  texts,  \* the texts under each slug
  seen    \* all there have been; a text may also be given up unused

vars == <<texts, seen>>

Init ==
  /\ texts \in [Slugs -> SUBSET Texts]
  /\ seen \in SUBSET Texts
  /\ \A s \in Slugs : texts[s] \subseteq seen
  /\ \A s, z \in Slugs : s # z => texts[s] \cap texts[z] = {}

(* The new text may take the place of one that the slug had.               *)
Put(s, t) ==
  /\ t \notin seen
  /\ seen' = seen \cup {t}
  /\ \E old \in {{}} \cup {{u} : u \in texts[s]} :
       texts' = [texts EXCEPT ![s] = (@ \ old) \cup {t}]

Discard(s, t) ==
  /\ t \in texts[s]
  /\ texts' = [texts EXCEPT ![s] = @ \ {t}]
  /\ seen \subseteq seen' /\ seen' \subseteq Texts

Next == \E s \in Slugs, t \in Texts : Put(s, t) \/ Discard(s, t)

Spec == Init /\ [][Next]_vars
=============================================================================
