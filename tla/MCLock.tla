------------------------------- MODULE MCLock -------------------------------
(* Three goroutines and two keys; an entry per goroutine is all that can   *)
(* ever be pointed to, since each holds one pointer and the map only keeps *)
(* entries that are in use.                                                *)
EXTENDS KeyedLock
=============================================================================
