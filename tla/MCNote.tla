------------------------------- MODULE MCNote -------------------------------
(* Settings for the runs of NoteLifecycle: which notes are created and     *)
(* which updates their owners send.                                        *)
EXTENDS NoteLifecycle, TLC

Plain(priv) == [burn |-> FALSE, ttl |-> 0, life |-> 0, clear |-> FALSE, privacy |-> priv]
Immediate(priv) == [Plain(priv) EXCEPT !.burn = TRUE]
Grace(ttl, priv) == [Immediate(priv) EXCEPT !.ttl = ttl]
Expiring(life, priv) == [Plain(priv) EXCEPT !.life = life]
Cleared(priv) == [Plain(priv) EXCEPT !.clear = TRUE]

(* note_once: versions that burn on the first read, and plain ones. *)
OnceCreates == {Plain("public"), Immediate("public")}
OncePayloads == {Plain(Omitted), Immediate(Omitted)}

(* note_grace: a grace-period note whose owner may switch burning off,     *)
(* with or without a hard expiry.                                          *)
GraceCreates == {Grace(2, "public")}
GracePayloads == {Plain(Omitted), Expiring(2, Omitted)}

(* note_timer_race: the owner turns the grace period into immediate burn.  *)
RearmPayloads == {Immediate(Omitted)}

(* note_renewed: an owner drops a hard expiry that has just passed. *)
RenewedCreates == {Plain("public")}
RenewedPayloads == {Expiring(1, Omitted), Cleared(Omitted)}

(* note_privacy: one owner edit restricts the note, another edits its text. *)
PrivacyPayloads == {Plain("owner"), Plain(Omitted)}

RequestSymmetry == Permutations(Readers) \cup Permutations(Writers)
=============================================================================
