---------------------------- MODULE MCMembership ----------------------------
(* Small instances of Membership: two projects that share a team, and a third
   of a team of its own. *)
EXTENDS Membership

CONSTANTS a, u, p1, p2, q, s, t

MCTeamOf == [p \in Projects |-> IF p = q THEN s ELSE t]
=============================================================================
