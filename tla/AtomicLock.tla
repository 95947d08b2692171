---------------------------- MODULE AtomicLock ----------------------------
(***************************************************************************)
(* What a lock per key promises, without entries, counts or a map: a free  *)
(* key is given to one caller that holds no other, and comes back from     *)
(* that caller only.                                                       *)
(***************************************************************************)
CONSTANTS Callers, Keys, None

VARIABLE holder  \* who holds each key, None if it is free

Init == holder = [k \in Keys |-> None]

Acquire(c, k) ==
  /\ holder[k] = None
  /\ \A j \in Keys : holder[j] # c
  /\ holder' = [holder EXCEPT ![k] = c]

Release(c, k) ==
  /\ holder[k] = c
  /\ holder' = [holder EXCEPT ![k] = None]

Next == \E c \in Callers, k \in Keys : Acquire(c, k) \/ Release(c, k)

Spec == Init /\ [][Next]_holder
=============================================================================
