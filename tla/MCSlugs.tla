------------------------------ MODULE MCSlugs ------------------------------
(* Two replicas.  A note and a link ask for the alias "a" on different     *)
(* ones, while a link and a note with generated slugs, which may turn out  *)
(* to be "a" as well, are created beside them.  Records serve as the       *)
(* functions on creators.                                                  *)
EXTENDS SlugNamespace

RunHome   == [noteA |-> "left",  linkA |-> "right", linkR |-> "left",  noteR |-> "left"]
RunKind   == [noteA |-> "notes", linkA |-> "links", linkR |-> "links", noteR |-> "notes"]
RunCustom == [noteA |-> "a",     linkA |-> "a",     linkR |-> "none",  noteR |-> "none"]

RunCreators == DOMAIN RunHome
=============================================================================
