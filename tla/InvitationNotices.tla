------------------------- MODULE InvitationNotices -------------------------
(***************************************************************************)
(* Invitations and the notifications that announce them, composed: the     *)
(* handlers of Membership send through Notifications, whose Redis, thread  *)
(* and streams run beside them, and a stop of the engine ends both.  The   *)
(* checks of roles take no part and are left out.                          *)
(***************************************************************************)
EXTENDS Membership

CONSTANTS
    Streams, OwnerOf,  \* as in Notifications
    MaxPublished       \* bound: notifications, more than the handlers can send

VARIABLES
    published, commands, inbox, subscribed, connections, phase, closed,
    handlers, received, owed, lost,  \* as in Notifications
    notices  \* what the notifications to each user say: <<type, invitation>>

N == INSTANCE Notifications

delivery == <<published, commands, inbox, subscribed, connections, phase, closed,
              handlers, received, owed, lost>>
allVars == <<vars, delivery, notices>>

InitAll == Init /\ N!Init /\ notices = [u \in Users |-> <<>>]

-----------------------------------------------------------------------------
Send(user, type, i) ==
    /\ N!SendNotification(user)
    /\ notices' = [notices EXCEPT ![user] = Append(@, <<type, i>>)]

Silent == UNCHANGED <<delivery, notices>>

(* InvitationService::sendInvitation: the receiver is told once the row is there,
   unless the answer to its INSERT is lost. *)
SendAndTell(w, from, to, project, r) ==
    /\ SendInvitation(w, from, to, project, r)
    /\ \/ Send(to, "invitation", Len(invitations) + 1)
       \/ AnswersLost /\ Silent

(* Mutant: the receiver, who has just answered, is told instead of the inviter. *)
TellReceiver(w) ==
    /\ Notify(w)
    /\ Send(invitations[row[w]].to, "invitation_accepted", row[w])

(* InvitationService::accept: the inviter is told. *)
TellInviter(w) ==
    /\ Notify(w)
    /\ Send(invitations[row[w]].from, "invitation_accepted", row[w])

Respond(w) == (UpdateStatus(w) \/ AddMember(w)) /\ Silent

Deliver ==
    /\ \/ N!Publish \/ N!Dispatch \/ N!Subscribe \/ N!Drop
       \/ \E s \in Streams : N!Store(s) \/ N!Close(s) \/ N!Setup(s)
    /\ UNCHANGED <<vars, notices>>

Stop == Restart /\ N!Restart /\ UNCHANGED notices

NextAll ==
    \/ \E w \in Workers :
         \/ \E from, to \in Users, p \in Projects, r \in Offered : SendAndTell(w, from, to, p, r)
         \/ \E u \in Users, i \in Ids, a \in {"accepted", "rejected"} :
               FindPending(w, u, i, a) /\ Silent
         \/ Respond(w) \/ TellInviter(w)
    \/ Deliver
    \/ Stop

SpecAll == InitAll /\ [][NextAll]_allVars

(* Handlers, Redis, the subscriber's thread and the streams' callbacks run on. *)
FairSpecAll ==
    /\ SpecAll
    /\ \A w \in Workers : WF_allVars(Respond(w) \/ TellInviter(w))
    /\ WF_allVars(N!Publish /\ UNCHANGED <<vars, notices>>)
    /\ WF_allVars(N!Dispatch /\ UNCHANGED <<vars, notices>>)
    /\ WF_allVars(N!Subscribe /\ UNCHANGED <<vars, notices>>)

-----------------------------------------------------------------------------
(* What an invitation's notifications should guarantee. *)

(* Whoever reads on a stream that an invitation was accepted has sent it, and
   its role has been given to its receiver: whatever fails, whenever the engine
   stops, and also where the invitation is rejected at the same time. *)
ToldMeansMember ==
    \A s \in Streams : \A m \in {received[s][j] : j \in DOMAIN received[s]} :
        LET notice == notices[m[1]][m[2]]
            inv == invitations[notice[2]] IN
        notice[1] = "invitation_accepted" =>
            inv.from = OwnerOf[s] /\ inv.role \in held[SlotOf(<<inv.project, inv.to>>)]

Open(s) == phase[s] # "new" /\ s \notin closed

Announced(s, i) ==
    \E n \in DOMAIN notices[OwnerOf[s]] :
        /\ notices[OwnerOf[s]][n] = <<"invitation_accepted", i>>
        /\ \/ <<OwnerOf[s], n>> \in lost
           \/ \E j \in DOMAIN received[s] : received[s][j] = <<OwnerOf[s], n>>

(* An inviter whose stream is open when the invitation's acceptance has its
   membership reads of it there, unless the message is lost on the way or the
   stream closes. *)
InviterIsTold ==
    \A w \in Workers, s \in Streams, i \in 1..MaxInvitations :
        /\ pc[w] = "notify" /\ row[w] = i
        /\ invitations[i].from = OwnerOf[s] /\ Open(s)
        ~> s \in closed \/ Announced(s, i)
=============================================================================
