--------------------------- MODULE MCSessionManager ---------------------------
(* A small instance of SessionManager for TLC.                             *)
EXTENDS SessionManager, TLC

MCDefault == [idleTimeout |-> 1, absoluteTtl |-> 2, bindAgent |-> TRUE]
MCLoose == [idleTimeout |-> 2, absoluteTtl |-> 2, bindAgent |-> FALSE]
MCConfigs == {MCDefault, MCLoose}
MCSymmetry == Permutations(SessionIds) \cup Permutations(Users)
===============================================================================
