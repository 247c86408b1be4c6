---------------------------- MODULE MCBootstrap ----------------------------
(* Small instances of Bootstrap: the older release lacks the last file. *)
EXTENDS Bootstrap

CONSTANTS old, new

MCRank == [f \in Files |-> f]
MCRelease == [e \in Engines |-> IF e = old THEN Files \ {3} ELSE Files]
=============================================================================
