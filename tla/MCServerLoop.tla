---------------------------- MODULE MCServerLoop ----------------------------
(* What each client of ServerLoop sends: some all there is, others commands   *)
(* only.                                                                      *)
EXTENDS ServerLoop

CONSTANT Mixed  \* the clients that send all

MCCommands ==
  [c \in Conns |-> IF c \in Mixed THEN {"cmd", "con", "junk"} ELSE {"cmd"}]
=============================================================================
