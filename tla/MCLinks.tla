------------------------------ MODULE MCLinks ------------------------------
(* Two replicas: an anonymous redirect, the owner's redirect and an update *)
(* on the left, whose cache the two readers share, and another update on   *)
(* the right.                                                              *)
EXTENDS LinkLifecycle

RunReaders == {"guest", "owner"}
RunWriters == {"edit", "edit2"}

RunHome == [guest |-> "left", edit |-> "left", owner |-> "left", edit2 |-> "right"]
RunCaller == [guest |-> "anon", owner |-> "ann"]

RunCreates == {
  [burn |-> FALSE, expires |-> TRUE,  privacy |-> "public", owner |-> "ann"],
  [burn |-> TRUE,  expires |-> FALSE, privacy |-> "public", owner |-> "ann"]}

RunPayloads == {
  [expires |-> "keep",  privacy |-> "owner"],
  [expires |-> "clear", privacy |-> Omitted]}
=============================================================================
