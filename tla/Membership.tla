----------------------------- MODULE Membership -----------------------------
(***************************************************************************)
(* Invitations to a project, the team membership an accepted invitation    *)
(* creates, and the project role the engine reads back through its cache.  *)
(*                                                                         *)
(* A handler issues one SQL statement after the other, each in a           *)
(* transaction of its own: findPendingForUser, updateStatus and addMember  *)
(* are separate steps, between which another handler may run, a statement  *)
(* may fail or the engine may stop.                                        *)
(***************************************************************************)
EXTENDS Naturals, Sequences, Capabilities

CONSTANTS
    Users,           \* rows of the users table
    Admins,          \* the users whose X-User-Role is "admin"
    Projects,        \* rows of the projects table
    Teams,           \* rows of the teams table
    TeamOf,          \* projects.team_id
    Offered,         \* roles that are asked for in POST /api/invitations
    Workers,         \* threads that run request handlers (one by default)
    Responders,      \* bound: the threads among them that answer invitations
    DbFails,         \* TRUE: an SQL statement may fail
    AnswersLost,     \* TRUE: the answer to an INSERT or UPDATE may be lost
    Restarts,        \* TRUE: the engine may stop and start again
    MaxInvitations   \* bound: rows of the invitations table

ASSUME TeamAssumption == TeamOf \in [Projects -> Teams]
ASSUME AdminAssumption == Admins \subseteq Users
ASSUME OfferAssumption == Offered \subseteq UserRole
ASSUME LimitAssumption == MaxInvitations \in Nat

VARIABLES
    invitations,  \* rows of the invitations table; the id is the position
    members,      \* role column of team_members
    roleCache,    \* project_role:<project>:<user> in Redis
    pc,           \* what each worker does next
    row,          \* the invitation the worker read, by id
    answer,       \* what it was asked to make of it
    asked,        \* <<project, user>> whose role the worker resolves
    role,         \* the role it resolved
    held          \* roles each membership ever had

vars == <<invitations, members, roleCache, pc, row, answer, asked, role, held>>
handling == <<row, answer>>
checking == <<asked, role>>

(* The check constraints of team_members.role and invitations.role. *)
SchemaRole == {"owner", "backend_dev", "frontend_dev", "viewer"}

Status == {"pending", "accepted", "rejected"}
Invitation == [from : Users, to : Users, project : Projects, role : SchemaRole, status : Status]
Slot == Teams \X Users
Key == Projects \X Users
SlotOf(key) == <<TeamOf[key[1]], key[2]>>
Ids == 1..Len(invitations)

ASSUME KeyAssumption == Key # {}

(* What a handler's locals hold when it has resolved no role yet. *)
SomeKey == CHOOSE k \in Key : TRUE

TypeOK ==
    /\ invitations \in Seq(Invitation)
    /\ members \in [Slot -> SchemaRole \cup {NoRole}]
    /\ roleCache \in [Key -> UserRole \cup {NoRole}]
    /\ pc \in [Workers -> {"idle", "updateStatus", "addMember", "notify",
                           "readRole", "storeRole", "decide"}]
    /\ row \in [Workers -> Nat]
    /\ answer \in [Workers -> {"accepted", "rejected"}]
    /\ asked \in [Workers -> Key]
    /\ role \in [Workers -> UserRole \cup {NoRole}]
    /\ held \in [Slot -> SUBSET (SchemaRole \cup {NoRole})]

(* No code creates teams: their rows, and their owners', are put in by hand. *)
Init ==
    /\ invitations = <<>>
    /\ members \in [Slot -> {"owner", NoRole}]
    /\ roleCache = [k \in Key |-> NoRole]
    /\ pc = [w \in Workers |-> "idle"]
    /\ row = [w \in Workers |-> 0]
    /\ answer = [w \in Workers |-> "rejected"]
    /\ asked = [w \in Workers |-> SomeKey]
    /\ role = [w \in Workers |-> NoRole]
    /\ held = [s \in Slot |-> {members[s]}]

Goto(w, step) == pc' = [pc EXCEPT ![w] = step]

(* The handler returns, and its locals are gone. *)
Return(w) ==
    /\ Goto(w, "idle")
    /\ row' = [row EXCEPT ![w] = 0] /\ answer' = [answer EXCEPT ![w] = "rejected"]
    /\ asked' = [asked EXCEPT ![w] = SomeKey] /\ role' = [role EXCEPT ![w] = NoRole]

-----------------------------------------------------------------------------
(* POST /api/invitations: a row whose role the schema refuses is not stored. *)
SendInvitation(w, from, to, project, r) ==
    /\ pc[w] = "idle" /\ Len(invitations) < MaxInvitations
    /\ HasCapability(IF from \in Admins THEN "admin" ELSE "viewer", "ManageTeam")
    /\ r \in SchemaRole
    /\ invitations' = Append(invitations, [from |-> from, to |-> to, project |-> project,
                                           role |-> r, status |-> "pending"])
    /\ UNCHANGED <<members, roleCache, pc, handling, checking, held>>

(* Mutant: the SELECT asks for the receiver's invitations, pending or not. *)
FindAny(w, user, i, a) ==
    /\ pc[w] = "idle" /\ w \in Responders
    /\ i \in Ids /\ invitations[i].to = user
    /\ row' = [row EXCEPT ![w] = i]
    /\ answer' = [answer EXCEPT ![w] = a]
    /\ Goto(w, "updateStatus")
    /\ UNCHANGED <<invitations, members, roleCache, checking, held>>

(* accept and reject start alike: the caller's pending invitations are read and
   the one asked for is looked up among them. *)
FindPending(w, user, i, a) ==
    /\ pc[w] = "idle" /\ w \in Responders
    /\ i \in Ids /\ invitations[i].to = user /\ invitations[i].status = "pending"
    /\ row' = [row EXCEPT ![w] = i]
    /\ answer' = [answer EXCEPT ![w] = a]
    /\ Goto(w, "updateStatus")
    /\ UNCHANGED <<invitations, members, roleCache, checking, held>>

(* Mutant: an acceptance is answered and announced without a membership. *)
UpdateStatusOnly(w) ==
    /\ pc[w] = "updateStatus"
    /\ invitations' = [invitations EXCEPT ![row[w]].status = answer[w]]
    /\ \/ answer[w] = "accepted" /\ Goto(w, "notify") /\ UNCHANGED <<handling, checking>>
       \/ answer[w] = "rejected" /\ Return(w)
    /\ UNCHANGED <<members, roleCache, held>>

(* Mutant: a rejection, too, goes on to the membership. *)
UpdateStatusAndAdd(w) ==
    /\ pc[w] = "updateStatus"
    /\ invitations' = [invitations EXCEPT ![row[w]].status = answer[w]]
    /\ Goto(w, "addMember")
    /\ UNCHANGED <<members, roleCache, handling, checking, held>>

(* The UPDATE names the id only: it does not ask for a pending row again.  Where
   its answer is lost it is taken for one that failed. *)
UpdateStatus(w) ==
    /\ pc[w] = "updateStatus"
    /\ \/ /\ invitations' = [invitations EXCEPT ![row[w]].status = answer[w]]
          /\ \/ answer[w] = "accepted" /\ Goto(w, "addMember") /\ UNCHANGED <<handling, checking>>
             \/ (answer[w] = "rejected" \/ AnswersLost) /\ Return(w)
       \/ DbFails /\ Return(w) /\ UNCHANGED invitations
    /\ UNCHANGED <<members, roleCache, held>>

(* The membership of the project's team is inserted, or its role replaced; the
   inviter is told unless this fails, or its answer is lost. *)
AddMember(w) ==
    /\ pc[w] = "addMember"
    /\ \/ LET inv == invitations[row[w]]
              slot == SlotOf(<<inv.project, inv.to>>)
              r == RoleFromString(inv.role) IN
          /\ r \in SchemaRole
          /\ members' = [members EXCEPT ![slot] = r]
          /\ held' = [held EXCEPT ![slot] = @ \cup {r}]
          /\ \/ Goto(w, "notify") /\ UNCHANGED <<handling, checking>>
             \/ AnswersLost /\ Return(w)
       \/ DbFails /\ Return(w) /\ UNCHANGED <<members, held>>
    /\ UNCHANGED <<invitations, roleCache>>

(* The inviter is sent a notification: what becomes of it is in
   InvitationNotices. *)
Notify(w) ==
    /\ pc[w] = "notify"
    /\ Return(w)
    /\ UNCHANGED <<invitations, members, roleCache, held>>

-----------------------------------------------------------------------------
(* RoleService::getProjectRole, which every endpoint route asks. *)
GetProjectRole(w, key) ==
    /\ pc[w] = "idle"
    /\ asked' = [asked EXCEPT ![w] = key]
    /\ role' = [role EXCEPT ![w] = roleCache[key]]
    /\ Goto(w, IF roleCache[key] = NoRole THEN "readRole" ELSE "decide")
    /\ UNCHANGED <<invitations, members, roleCache, handling, held>>

(* findRoleForUser: no row and a failed statement both read as no role. *)
FindRoleForUser(w) ==
    /\ pc[w] = "readRole"
    /\ \E found \in {members[SlotOf(asked[w])]} \cup (IF DbFails THEN {NoRole} ELSE {}) :
         /\ role' = [role EXCEPT ![w] = IF found = NoRole THEN NoRole ELSE RoleFromString(found)]
         /\ Goto(w, IF found = NoRole THEN "decide" ELSE "storeRole")
    /\ UNCHANGED <<invitations, members, roleCache, handling, asked, held>>

(* Mutant: the cache key leaves the user out. *)
StoreRoleOfProject(w) ==
    /\ pc[w] = "storeRole"
    /\ roleCache' = [k \in Key |-> IF k[1] = asked[w][1] THEN role[w] ELSE roleCache[k]]
    /\ Goto(w, "decide")
    /\ UNCHANGED <<invitations, members, handling, checking, held>>

(* The SETEX is not waited for and its failure is ignored. *)
StoreRole(w) ==
    /\ pc[w] = "storeRole"
    /\ roleCache' \in {roleCache, [roleCache EXCEPT ![asked[w]] = role[w]]}
    /\ Goto(w, "decide")
    /\ UNCHANGED <<invitations, members, handling, checking, held>>

(* hasCapability answers by role[w]. *)
Decide(w) ==
    /\ pc[w] = "decide"
    /\ Return(w)
    /\ UNCHANGED <<invitations, members, roleCache, held>>

(* Mutant: the copy is stored by SET, without a TTL. *)
KeepRole(key) == roleCache[key] # NoRole /\ UNCHANGED vars

ExpireRole(key) ==
    /\ roleCache[key] # NoRole
    /\ roleCache' = [roleCache EXCEPT ![key] = NoRole]
    /\ UNCHANGED <<invitations, members, pc, handling, checking, held>>

Restart ==
    /\ Restarts
    /\ pc' = [w \in Workers |-> "idle"]
    /\ row' = [w \in Workers |-> 0] /\ answer' = [w \in Workers |-> "rejected"]
    /\ asked' = [w \in Workers |-> SomeKey] /\ role' = [w \in Workers |-> NoRole]
    /\ UNCHANGED <<invitations, members, roleCache, held>>

-----------------------------------------------------------------------------
Work(w) ==
    \/ UpdateStatus(w) \/ AddMember(w) \/ Notify(w)
    \/ FindRoleForUser(w) \/ StoreRole(w) \/ Decide(w)

Next ==
    \/ \E w \in Workers :
         \/ \E from, to \in Users, p \in Projects, r \in Offered : SendInvitation(w, from, to, p, r)
         \/ \E u \in Users, i \in Ids, a \in {"accepted", "rejected"} : FindPending(w, u, i, a)
         \/ \E k \in Key : GetProjectRole(w, k)
         \/ Work(w)
    \/ \E k \in Key : ExpireRole(k)
    \/ Restart

Spec == Init /\ [][Next]_vars

(* A started handler runs on and a cached role's 300 s run out. *)
FairSpec ==
    /\ Spec
    /\ \A w \in Workers : WF_vars(Work(w))
    /\ \A k \in Key : WF_vars(ExpireRole(k))

-----------------------------------------------------------------------------
(* What invitations and roles should guarantee. *)

Responding(i) == \E w \in Workers : pc[w] \in {"updateStatus", "addMember"} /\ row[w] = i

(* Accepting an invitation makes its receiver a member of the project's team. *)
AcceptedIsMember ==
    \A i \in Ids : invitations[i].status = "accepted" /\ ~Responding(i) =>
        members[SlotOf(<<invitations[i].project, invitations[i].to>>)] # NoRole

(* Every role of a member was offered in an invitation that the member accepted
   and that still counts as accepted, or was there from the start. *)
MembershipIsInvited ==
    \A s \in Slot : members[s] \in {"owner", NoRole} \/
        \E i \in Ids : /\ SlotOf(<<invitations[i].project, invitations[i].to>>) = s
                       /\ invitations[i].role = members[s]
                       /\ invitations[i].status = "accepted"

(* An answered invitation keeps its answer. *)
AnsweredOnce ==
    [][\A i \in Ids : invitations[i].status # "pending" => invitations'[i] = invitations[i]]_vars

(* The role a route is decided by is one this member had in this project's team
   at some time, however old the copy in Redis: no other user's, no other team's. *)
DecidedByOwnRole ==
    \A w \in Workers : pc[w] = "decide" /\ role[w] # NoRole =>
        \E r \in held[SlotOf(asked[w])] : r # NoRole /\ RoleFromString(r) = role[w]

(* A copy of a role that was replaced leaves Redis: no check renews it for ever. *)
RoleBecomesCurrent ==
    \A k \in Key :
        <>[](roleCache[k] # NoRole => roleCache[k] = RoleFromString(members[SlotOf(k)]))
=============================================================================
