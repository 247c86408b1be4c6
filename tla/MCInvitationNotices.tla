------------------------ MODULE MCInvitationNotices ------------------------
(* Small instances of InvitationNotices: the stream is the administrator's, who
   invites. *)
EXTENDS InvitationNotices

CONSTANTS a, u, p1, t

MCTeamOf == [p \in Projects |-> t]
MCOwnerOf == [s \in Streams |-> a]
=============================================================================
