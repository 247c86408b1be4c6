-------------------------- MODULE MCNotifications --------------------------
(* Small instances of Notifications: both streams are u1's, and u2, who has none
   open, is sent notifications too. *)
EXTENDS Notifications

CONSTANTS u1, u2, s1, s2

MCOwnerOf == [s \in Streams |-> u1]
=============================================================================
