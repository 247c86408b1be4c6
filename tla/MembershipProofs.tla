-------------------------- MODULE MembershipProofs --------------------------
(***************************************************************************)
(* Membership for any users, projects, teams and invitations: a route is   *)
(* decided by a role that this member had in this team, with any number of *)
(* workers and whatever fails; with one of them that answers, invitations  *)
(* keep their answers and the accepted ones have members; and composed     *)
(* with Notifications, an acceptance that is announced has been given.     *)
(***************************************************************************)
EXTENDS InvitationNotices, SequenceTheorems, TLAPS

(* The role r as the engine reads it: one the slot's member had. *)
Had(s, r) == \E x \in held[s] : x # NoRole /\ RoleFromString(x) = r

RolesHad ==
    /\ held \in [Slot -> SUBSET (SchemaRole \cup {NoRole})]
    /\ \A s \in Slot : members[s] \in held[s]
    /\ asked \in [Workers -> Key] /\ pc = [w \in Workers |-> pc[w]]
    /\ role = [w \in Workers |-> role[w]] /\ roleCache = [k \in Key |-> roleCache[k]]
    /\ members = [s \in Slot |-> members[s]]
    /\ \A k \in Key : roleCache[k] # NoRole => Had(SlotOf(k), roleCache[k])
    /\ \A w \in Workers : pc[w] \in {"storeRole", "decide"} /\ role[w] # NoRole =>
         Had(SlotOf(asked[w]), role[w])

LEMMA KeyFacts ==
    /\ SomeKey \in Key
    /\ \A k \in Key : SlotOf(k) \in Slot
  BY KeyAssumption, TeamAssumption DEF SomeKey, Key, Slot, SlotOf

-----------------------------------------------------------------------------
(* Type correctness. *)

(* Who answers an invitation has read one. *)
TypeInv ==
    /\ TypeOK
    /\ \A w \in Workers : pc[w] \in {"updateStatus", "addMember"} => row[w] \in Ids

LEMMA InitType == Init => TypeInv
<1> SUFFICES ASSUME Init PROVE TypeInv
  OBVIOUS
<1>1. members \in [Slot -> SchemaRole \cup {NoRole}]
  BY DEF Init, SchemaRole
<1>2. held \in [Slot -> SUBSET (SchemaRole \cup {NoRole})]
  BY <1>1 DEF Init
<1>. QED  BY <1>1, <1>2, KeyFacts, EmptySeq DEF Init, TypeInv, TypeOK

LEMMA NextType == TypeInv /\ [Next]_vars => TypeInv'
<1> SUFFICES ASSUME TypeInv, [Next]_vars PROVE TypeInv'
  OBVIOUS
<1>. USE KeyFacts DEF TypeInv, TypeOK, Goto, Return, handling, checking
<1>0. /\ Len(invitations) \in Nat /\ Ids = 1..Len(invitations)
      /\ \A i \in Ids : invitations[i] \in Invitation
  BY ElementOfSeq DEF Ids
<1>1. ASSUME NEW w \in Workers, NEW from \in Users, NEW to \in Users, NEW p \in Projects,
             NEW r \in Offered, SendInvitation(w, from, to, p, r)
      PROVE  TypeInv'
  <2>1. [from |-> from, to |-> to, project |-> p, role |-> r, status |-> "pending"] \in Invitation
    BY <1>1 DEF SendInvitation, Invitation, Status
  <2>2. invitations' \in Seq(Invitation) /\ Len(invitations') = Len(invitations) + 1
    BY <1>1, <2>1, AppendProperties DEF SendInvitation
  <2>3. UNCHANGED <<members, roleCache, pc, handling, checking, held>>
    BY <1>1 DEF SendInvitation
  <2>4. Ids \subseteq Ids'
    BY <1>0, <2>2 DEF Ids
  <2>. QED  BY <2>2, <2>3, <2>4
<1>2. ASSUME NEW w \in Workers, NEW u \in Users, NEW i \in Ids, NEW a \in {"accepted", "rejected"},
             FindPending(w, u, i, a)
      PROVE  TypeInv'
  <2>1. i \in Nat /\ Ids' = Ids
    BY <1>0, <1>2 DEF FindPending, Ids
  <2>. QED  BY <1>2, <2>1 DEF FindPending
<1>3. ASSUME NEW w \in Workers, UpdateStatus(w) PROVE TypeInv'
  <2>. DEFINE new == [invitations EXCEPT ![row[w]].status = answer[w]]
  <2>1. /\ row[w] \in 1..Len(invitations) /\ invitations[row[w]] \in Invitation
        /\ answer[w] \in Status
    BY <1>0, <1>3 DEF UpdateStatus, Status
  <2>2. [invitations[row[w]] EXCEPT !.status = answer[w]] \in Invitation
    BY <2>1 DEF Invitation
  <2>3. /\ [invitations EXCEPT ![row[w]] = [invitations[row[w]] EXCEPT !.status = answer[w]]]
              \in Seq(Invitation)
        /\ Len([invitations EXCEPT ![row[w]] = [invitations[row[w]] EXCEPT !.status = answer[w]]])
              = Len(invitations)
    BY <2>1, <2>2, ExceptSeq
  <2>4. new \in Seq(Invitation) /\ Len(new) = Len(invitations)
    BY <2>3
  <2>. HIDE DEF new
  <2>5. invitations' \in {new, invitations} /\ UNCHANGED <<members, roleCache, held>>
    BY <1>3 DEF UpdateStatus, new
  <2>6. invitations' \in Seq(Invitation) /\ Ids' = Ids
    BY <2>4, <2>5 DEF Ids
  <2>7. \/ Goto(w, "addMember") /\ UNCHANGED <<handling, checking>>
        \/ Return(w)
    BY <1>3 DEF UpdateStatus
  <2>8. CASE Goto(w, "addMember") /\ UNCHANGED <<handling, checking>>
    BY <1>0, <2>1, <2>5, <2>6, <2>8
  <2>9. CASE Return(w)
    BY <2>5, <2>6, <2>9
  <2>. QED  BY <2>7, <2>8, <2>9
<1>4. ASSUME NEW w \in Workers, AddMember(w) PROVE TypeInv'
  <2>1. UNCHANGED <<invitations, roleCache>> /\ Ids' = Ids
    BY <1>4 DEF AddMember, Ids
  <2>2. invitations[row[w]] \in Invitation
    BY <1>0, <1>4 DEF AddMember
  <2>3. SlotOf(<<invitations[row[w]].project, invitations[row[w]].to>>) \in Slot
    BY <2>2, TeamAssumption DEF Invitation, SlotOf, Slot
  <2>4. /\ members' \in [Slot -> SchemaRole \cup {NoRole}]
        /\ held' \in [Slot -> SUBSET (SchemaRole \cup {NoRole})]
    <3>. DEFINE slot == SlotOf(<<invitations[row[w]].project, invitations[row[w]].to>>)
                r == RoleFromString(invitations[row[w]].role)
    <3>1. \/ UNCHANGED <<members, held>>
          \/ /\ r \in SchemaRole /\ members' = [members EXCEPT ![slot] = r]
             /\ held' = [held EXCEPT ![slot] = @ \cup {r}]
      BY <1>4 DEF AddMember
    <3>. HIDE DEF slot, r
    <3>2. slot \in Slot
      BY <2>3 DEF slot
    <3>. QED  BY <3>1, <3>2
  <2>5. \/ Goto(w, "notify") /\ UNCHANGED <<handling, checking>>
        \/ Return(w)
    BY <1>4 DEF AddMember
  <2>6. CASE Goto(w, "notify") /\ UNCHANGED <<handling, checking>>
    BY <2>1, <2>4, <2>6
  <2>7. CASE Return(w)
    BY <2>1, <2>4, <2>7
  <2>. QED  BY <2>5, <2>6, <2>7
<1>5. ASSUME NEW w \in Workers, Notify(w) \/ Decide(w) PROVE TypeInv'
  <2>1. Return(w) /\ UNCHANGED <<invitations, members, roleCache, held>>
    BY <1>5 DEF Notify, Decide
  <2>2. Ids' = Ids
    BY <2>1 DEF Ids
  <2>. QED  BY <2>1, <2>2
<1>6. ASSUME NEW w \in Workers, NEW k \in Key, GetProjectRole(w, k) PROVE TypeInv'
  BY <1>6 DEF GetProjectRole, Ids
<1>7. ASSUME NEW w \in Workers, FindRoleForUser(w) PROVE TypeInv'
  <2>1. role' \in [Workers -> UserRole \cup {NoRole}]
    BY <1>7 DEF FindRoleForUser, RoleFromString, UserRole
  <2>2. /\ pc' \in [Workers -> {"idle", "updateStatus", "addMember", "notify",
                                "readRole", "storeRole", "decide"}]
        /\ \A v \in Workers : pc'[v] \in {pc[v], "decide", "storeRole"}
    BY <1>7 DEF FindRoleForUser
  <2>. QED  BY <1>7, <2>1, <2>2 DEF FindRoleForUser, Ids
<1>8. ASSUME NEW w \in Workers, StoreRole(w) PROVE TypeInv'
  BY <1>8 DEF StoreRole, Ids
<1>9. ASSUME NEW k \in Key, ExpireRole(k) PROVE TypeInv'
  BY <1>9 DEF ExpireRole, Ids
<1>10. CASE Restart
  BY <1>10 DEF Restart, Ids
<1>11. CASE UNCHANGED vars
  BY <1>11 DEF vars, Ids
<1>. QED
  BY <1>1, <1>2, <1>3, <1>4, <1>5, <1>6, <1>7, <1>8, <1>9, <1>10, <1>11 DEF Next, Work

(* Every variable keeps its type: no role that the schema refuses is stored. *)
THEOREM TypeCorrect == Spec => []TypeOK
<1>1. TypeInv => TypeOK
  BY DEF TypeInv
<1>. QED  BY <1>1, InitType, NextType, PTL DEF Spec

-----------------------------------------------------------------------------
(* Roles, for any number of workers. *)

LEMMA InitRoles == Init => RolesHad
<1> SUFFICES ASSUME Init PROVE RolesHad
  OBVIOUS
<1>1. held \in [Slot -> SUBSET (SchemaRole \cup {NoRole})]
  BY DEF Init, SchemaRole
<1>2. \A s \in Slot : members[s] \in held[s]
  BY DEF Init
<1>3. \A k \in Key : roleCache[k] = NoRole
  BY DEF Init
<1>4. \A w \in Workers : role[w] = NoRole
  BY DEF Init
<1>5. asked \in [Workers -> Key]
  BY KeyFacts DEF Init
<1>6. members = [s \in Slot |-> members[s]]
  BY DEF Init
<1>7. /\ pc = [w \in Workers |-> pc[w]] /\ role = [w \in Workers |-> role[w]]
      /\ roleCache = [k \in Key |-> roleCache[k]]
  BY DEF Init
<1>. QED  BY <1>1, <1>2, <1>3, <1>4, <1>5, <1>6, <1>7 DEF RolesHad

(* Who keeps the roles that were had keeps what follows from them. *)
LEMMA StepRoles ==
    ASSUME RolesHad,
           held' \in [Slot -> SUBSET (SchemaRole \cup {NoRole})],
           \A s \in Slot : held[s] \subseteq held'[s] /\ members'[s] \in held'[s],
           members' = [s \in Slot |-> members'[s]],
           asked' \in [Workers -> Key], pc' = [w \in Workers |-> pc'[w]],
           role' = [w \in Workers |-> role'[w]], roleCache' = [k \in Key |-> roleCache'[k]],
           \A k \in Key : \/ roleCache'[k] \in {NoRole, roleCache[k]}
                          \/ Had(SlotOf(k), roleCache'[k]),
           \A w \in Workers : pc'[w] \in {"storeRole", "decide"} =>
              \/ role'[w] = NoRole
              \/ pc[w] \in {"storeRole", "decide"} /\ role'[w] = role[w] /\ asked'[w] = asked[w]
              \/ Had(SlotOf(asked'[w]), role'[w])
    PROVE  RolesHad'
<1>1. ASSUME NEW s \in Slot, NEW r, Had(s, r) PROVE Had(s, r)'
  BY <1>1 DEF Had
<1>2. \A k \in Key : SlotOf(k)' = SlotOf(k) /\ SlotOf(k) \in Slot
  BY KeyFacts DEF SlotOf
<1>3. ASSUME NEW k \in Key, roleCache'[k] # NoRole PROVE Had(SlotOf(k), roleCache[k])'
  BY <1>1, <1>2, <1>3 DEF RolesHad
<1>4. ASSUME NEW w \in Workers, pc'[w] \in {"storeRole", "decide"}, role'[w] # NoRole
      PROVE  Had(SlotOf(asked[w]), role[w])'
  BY <1>1, <1>2, <1>4 DEF RolesHad
<1>. QED  BY <1>3, <1>4 DEF RolesHad

LEMMA NextRoles == RolesHad /\ [Next]_vars => RolesHad'
<1> SUFFICES ASSUME RolesHad, [Next]_vars PROVE RolesHad'
  OBVIOUS
<1>. USE KeyFacts DEF RolesHad, Goto, Return, handling, checking
<1>1. CASE UNCHANGED <<members, roleCache, pc, checking, held>>
  BY <1>1, StepRoles
<1>2. ASSUME NEW w \in Workers, pc' = [pc EXCEPT ![w] = pc'[w]],
             UNCHANGED <<members, roleCache, held>>,
             \/ pc'[w] \notin {"storeRole", "decide"} /\ UNCHANGED checking
             \/ Return(w)
      PROVE  RolesHad'
  BY <1>2, StepRoles
<1>3. ASSUME NEW w \in Workers, NEW u \in Users, NEW i \in Ids, NEW a \in {"accepted", "rejected"},
             FindPending(w, u, i, a)
      PROVE  RolesHad'
  BY <1>2, <1>3 DEF FindPending
<1>4. ASSUME NEW w \in Workers, UpdateStatus(w) \/ Notify(w) \/ Decide(w) PROVE RolesHad'
  BY <1>2, <1>4 DEF UpdateStatus, Notify, Decide
<1>5. ASSUME NEW w \in Workers, AddMember(w) PROVE RolesHad'
  BY <1>2, <1>5, StepRoles DEF AddMember
<1>6. ASSUME NEW w \in Workers, NEW k \in Key, GetProjectRole(w, k) PROVE RolesHad'
  BY <1>6, StepRoles DEF GetProjectRole
<1>7. ASSUME NEW w \in Workers, FindRoleForUser(w) PROVE RolesHad'
  <2>1. members[SlotOf(asked[w])] # NoRole =>
            Had(SlotOf(asked[w]), RoleFromString(members[SlotOf(asked[w])]))
    BY DEF Had
  <2>2. PICK found \in {members[SlotOf(asked[w])], NoRole} :
          /\ role' = [role EXCEPT ![w] = IF found = NoRole THEN NoRole ELSE RoleFromString(found)]
          /\ pc' = [pc EXCEPT ![w] = IF found = NoRole THEN "decide" ELSE "storeRole"]
          /\ UNCHANGED <<members, roleCache, asked, held>>
    BY <1>7 DEF FindRoleForUser
  <2>3. role'[w] = NoRole \/ Had(SlotOf(asked'[w]), role'[w])
    BY <2>1, <2>2
  <2>4. \A v \in Workers \ {w} : pc'[v] = pc[v] /\ role'[v] = role[v] /\ asked'[v] = asked[v]
    BY <2>2
  <2>5. /\ pc' = [v \in Workers |-> pc'[v]] /\ role' = [v \in Workers |-> role'[v]]
        /\ held' \in [Slot -> SUBSET (SchemaRole \cup {NoRole})]
    BY <2>2
  <2>. QED  BY <2>2, <2>3, <2>4, <2>5, StepRoles
<1>8. ASSUME NEW w \in Workers, StoreRole(w) PROVE RolesHad'
  BY <1>8, StepRoles DEF StoreRole
<1>9. ASSUME NEW k \in Key, ExpireRole(k) PROVE RolesHad'
  BY <1>9, StepRoles DEF ExpireRole
<1>10. CASE Restart
  BY <1>10, StepRoles DEF Restart
<1>11. ASSUME NEW w \in Workers, NEW from \in Users, NEW to \in Users, NEW p \in Projects,
              NEW r \in Offered, SendInvitation(w, from, to, p, r)
       PROVE  RolesHad'
  BY <1>1, <1>11 DEF SendInvitation
<1>. QED
  BY <1>1, <1>3, <1>4, <1>5, <1>6, <1>7, <1>8, <1>9, <1>10, <1>11 DEF Next, Work, vars

(* A route is decided by a role that this user had in this project's team, with
   any number of handlers, whatever fails and however old the copies in Redis. *)
THEOREM DecisionCorrect == Spec => []DecidedByOwnRole
<1>1. RolesHad => DecidedByOwnRole
  BY DEF RolesHad, DecidedByOwnRole, Had
<1>. QED  BY <1>1, InitRoles, NextRoles, PTL DEF Spec

-----------------------------------------------------------------------------
(* One thread that answers: an invitation is answered by who read it pending. *)

OneResponder == \A v, w \in Responders : v = w
Answering == {"updateStatus", "addMember"}

(* A row passed both checks: the one of the schema and the one of the engine. *)
Row == [from : Users, to : Users, project : Projects,
        role : SchemaRole \cap UserRole, status : Status]

Typed ==
    /\ invitations \in Seq(Row)
    /\ members \in [Slot -> SchemaRole \cup {NoRole}]
    /\ row \in [Workers -> Nat] /\ answer \in [Workers -> {"accepted", "rejected"}]
    /\ pc = [w \in Workers |-> pc[w]]
    /\ \A w \in Workers : pc[w] \in Answering => w \in Responders /\ row[w] \in Ids

Answered ==
    /\ Typed
    /\ \A w \in Workers :
         /\ pc[w] = "updateStatus" => invitations[row[w]].status = "pending"
         /\ pc[w] = "addMember" => invitations[row[w]].status = "accepted"
    /\ MembershipIsInvited

LEMMA InitAnswered == Init => Answered /\ AcceptedIsMember
<1> SUFFICES ASSUME Init PROVE Answered /\ AcceptedIsMember
  OBVIOUS
<1>1. invitations \in Seq(Row) /\ Ids = {}
  BY DEF Init, Ids
<1>2. /\ members \in [Slot -> SchemaRole \cup {NoRole}]
      /\ \A s \in Slot : members[s] \in {"owner", NoRole}
  BY DEF Init, SchemaRole
<1>3. /\ row \in [Workers -> Nat] /\ answer \in [Workers -> {"accepted", "rejected"}]
      /\ pc = [w \in Workers |-> pc[w]] /\ \A w \in Workers : pc[w] = "idle"
  BY DEF Init
<1>. QED
  BY <1>1, <1>2, <1>3 DEF Answered, Typed, Answering, MembershipIsInvited, AcceptedIsMember

(* What an answer does to the invitations. *)
LEMMA Answer ==
    ASSUME NEW rows \in Seq(Row), NEW i \in 1..Len(rows), NEW a \in Status
    PROVE  LET new == [rows EXCEPT ![i].status = a] IN
           /\ new \in Seq(Row) /\ Len(new) = Len(rows)
           /\ \A j \in 1..Len(rows) :
                /\ j # i => new[j] = rows[j]
                /\ new[j].project = rows[j].project /\ new[j].to = rows[j].to
                /\ new[j].role = rows[j].role /\ new[j].from = rows[j].from
           /\ new[i].status = a
<1>1. rows[i] \in Row
  OBVIOUS
<1>2. DEFINE e == [rows[i] EXCEPT !.status = a]
<1>3. /\ e \in Row /\ e.status = a /\ e.project = rows[i].project /\ e.to = rows[i].to
      /\ e.role = rows[i].role /\ e.from = rows[i].from
  BY <1>1 DEF Row
<1>4. [rows EXCEPT ![i].status = a] = [rows EXCEPT ![i] = e]
  OBVIOUS
<1>. HIDE DEF e
<1>5. /\ [rows EXCEPT ![i] = e] \in Seq(Row) /\ Len([rows EXCEPT ![i] = e]) = Len(rows)
      /\ \A j \in 1..Len(rows) : [rows EXCEPT ![i] = e][j] = IF j = i THEN e ELSE rows[j]
  BY <1>3, ExceptSeq
<1>. QED  BY <1>3, <1>4, <1>5

(* A step that neither answers an invitation nor adds a member. *)
LEMMA QuietStep ==
    ASSUME Answered, UNCHANGED <<invitations, members>>,
           row' \in [Workers -> Nat], answer' \in [Workers -> {"accepted", "rejected"}],
           pc' = [w \in Workers |-> pc'[w]],
           \A w \in Workers : pc'[w] \in Answering =>
              \/ pc'[w] = pc[w] /\ row'[w] = row[w]
              \/ /\ pc'[w] = "updateStatus" /\ w \in Responders /\ row'[w] \in Ids
                 /\ invitations[row'[w]].status = "pending"
    PROVE  Answered'
<1>1. Typed'
  BY DEF Answered, Typed, Ids
<1>2. MembershipIsInvited'
  BY DEF Answered, MembershipIsInvited, Ids, SlotOf
<1>. QED  BY <1>1, <1>2 DEF Answered, Answering

LEMMA SendAnswered ==
    ASSUME Answered, NEW w \in Workers, NEW from \in Users, NEW to \in Users,
           NEW p \in Projects, NEW r \in Offered, SendInvitation(w, from, to, p, r)
    PROVE  /\ Answered'
           /\ \A i \in Ids : invitations'[i] = invitations[i]
           /\ Ids' = Ids \cup {Len(invitations) + 1}
           /\ invitations'[Len(invitations) + 1].status = "pending"
<1>. DEFINE new == [from |-> from, to |-> to, project |-> p, role |-> r, status |-> "pending"]
<1>1. new \in Row /\ new.status = "pending" /\ invitations' = Append(invitations, new)
  BY OfferAssumption DEF SendInvitation, Row, Status
<1>2. invitations \in Seq(Row)
  BY DEF Answered, Typed
<1>. HIDE DEF new
<1>3. /\ invitations' \in Seq(Row) /\ Len(invitations') = Len(invitations) + 1
      /\ \A i \in Ids : invitations'[i] = invitations[i]
      /\ invitations'[Len(invitations) + 1] = new
  BY <1>1, <1>2, AppendProperties DEF Ids
<1>4. Len(invitations) \in Nat /\ Ids' = Ids \cup {Len(invitations) + 1}
  BY <1>2, <1>3 DEF Ids
<1>5. UNCHANGED <<members, pc, row, answer>>
  BY DEF SendInvitation, handling
<1>6. Typed'
  BY <1>3, <1>4, <1>5 DEF Answered, Typed
<1>7. MembershipIsInvited'
  BY <1>3, <1>4, <1>5 DEF Answered, MembershipIsInvited, SlotOf
<1>8. \A v \in Workers : pc[v] \in Answering => invitations'[row'[v]] = invitations[row[v]]
  BY <1>3, <1>5 DEF Answered, Typed
<1>. QED  BY <1>1, <1>3, <1>4, <1>5, <1>6, <1>7, <1>8 DEF Answered, Answering

LEMMA UpdateAnswered ==
    ASSUME OneResponder, Answered, NEW w \in Workers, UpdateStatus(w)
    PROVE  /\ Answered' /\ Ids' = Ids
           /\ \A i \in Ids : \/ invitations'[i] = invitations[i]
                             \/ /\ invitations[i].status = "pending" /\ row[w] = i
                                /\ \/ invitations'[i].status = "rejected"
                                   \/ pc'[w] = "addMember" /\ row'[w] = i
                                   \/ AnswersLost
<1>. DEFINE new == [invitations EXCEPT ![row[w]].status = answer[w]]
<1>1. /\ pc[w] = "updateStatus" /\ row[w] \in Ids /\ invitations[row[w]].status = "pending"
      /\ invitations \in Seq(Row) /\ answer[w] \in Status /\ row[w] \in Nat
  BY DEF UpdateStatus, Answered, Typed, Answering, Status
<1>2. /\ new \in Seq(Row) /\ Len(new) = Len(invitations)
      /\ \A j \in Ids : /\ j # row[w] => new[j] = invitations[j]
                        /\ new[j].project = invitations[j].project /\ new[j].to = invitations[j].to
                        /\ new[j].role = invitations[j].role
      /\ new[row[w]].status = answer[w]
  BY <1>1, Answer DEF Ids
<1>3. \A v \in Workers : pc[v] \in Answering => v = w
  BY <1>1 DEF OneResponder, Answered, Typed, Answering
<1>. HIDE DEF new
<1>4. ASSUME invitations' = new, UNCHANGED members,
             row' \in [Workers -> Nat], answer' \in [Workers -> {"accepted", "rejected"}],
             pc' = [pc EXCEPT ![w] = pc'[w]],
             \/ pc'[w] = "addMember" /\ row'[w] = row[w] /\ answer[w] = "accepted"
             \/ pc'[w] = "idle"
      PROVE  Answered' /\ Ids' = Ids
  <2>1. /\ Ids' = Ids /\ pc' = [v \in Workers |-> pc'[v]] /\ w \in Responders
        /\ \A v \in Workers : pc'[v] \in Answering => v = w
    BY <1>1, <1>2, <1>3, <1>4 DEF Ids, Answered, Typed, Answering
  <2>2. Typed'
    BY <1>1, <1>2, <1>3, <1>4, <2>1 DEF Answered, Typed, Answering
  <2>3. \A i \in Ids : invitations[i].status = "accepted" => invitations'[i] = invitations[i]
    BY <1>1, <1>2, <1>4
  <2>4. ASSUME NEW s \in Slot, members'[s] \notin {"owner", NoRole}
        PROVE  \E i \in Ids' : /\ SlotOf(<<invitations'[i].project, invitations'[i].to>>) = s
                              /\ invitations'[i].role = members'[s]
                              /\ invitations'[i].status = "accepted"
    <3>1. members'[s] = members[s]
      BY <1>4
    <3>2. PICK i \in Ids : /\ SlotOf(<<invitations[i].project, invitations[i].to>>) = s
                           /\ invitations[i].role = members[s]
                           /\ invitations[i].status = "accepted"
      BY <2>4, <3>1 DEF Answered, MembershipIsInvited
    <3>. QED  BY <2>1, <2>3, <3>1, <3>2
  <2>5. MembershipIsInvited'
    BY <2>4 DEF MembershipIsInvited, SlotOf
  <2>. QED  BY <1>1, <1>2, <1>4, <2>1, <2>2, <2>5 DEF Answered, Answering
<1>5. CASE invitations' = new /\ answer[w] = "accepted" /\ Goto(w, "addMember")
             /\ UNCHANGED <<handling, members>>
  BY <1>1, <1>2, <1>4, <1>5 DEF Goto, handling, Answered, Typed
<1>6. CASE /\ invitations' = new /\ Return(w) /\ UNCHANGED members
           /\ answer[w] = "rejected" \/ AnswersLost
  BY <1>1, <1>2, <1>4, <1>6 DEF Return, Goto, Answered, Typed
<1>7. CASE Return(w) /\ UNCHANGED <<invitations, members>>
  <2>1. Answered'
    BY <1>1, <1>3, <1>7, QuietStep DEF Return, Goto, Answered, Typed, Answering
  <2>. QED  BY <1>7, <2>1 DEF Ids
<1>. QED  BY <1>1, <1>5, <1>6, <1>7 DEF UpdateStatus, new

LEMMA AddAnswered ==
    ASSUME OneResponder, Answered, NEW w \in Workers, AddMember(w)
    PROVE  /\ Answered' /\ UNCHANGED invitations
           /\ \A s \in Slot : members[s] # NoRole => members'[s] # NoRole
           /\ \/ DbFails
              \/ members'[SlotOf(<<invitations[row[w]].project, invitations[row[w]].to>>)] # NoRole
<1>1. /\ pc[w] = "addMember" /\ row[w] \in Ids /\ invitations[row[w]].status = "accepted"
      /\ invitations \in Seq(Row) /\ row[w] \in Nat
  BY DEF AddMember, Answered, Typed, Answering
<1>. DEFINE inv == invitations[row[w]]
            slot == SlotOf(<<inv.project, inv.to>>)
<1>2. inv \in Row
  BY <1>1 DEF Ids
<1>3. inv.role \in SchemaRole /\ inv.role # NoRole /\ RoleFromString(inv.role) = inv.role
  BY <1>2 DEF Row, RoleFromString, SchemaRole, NoRole
<1>4. slot \in Slot /\ slot = SlotOf(<<inv.project, inv.to>>)
  BY <1>2, TeamAssumption DEF Row, SlotOf, Slot
<1>5. \A v \in Workers : pc[v] \in Answering => v = w
  BY <1>1 DEF OneResponder, Answered, Typed, Answering
<1>6. CASE Return(w) /\ DbFails /\ UNCHANGED <<invitations, members>>
  <2>1. Answered'
    BY <1>5, <1>6, QuietStep DEF Return, Goto, Answered, Typed, Answering
  <2>. QED  BY <1>6, <2>1
<1>7. CASE /\ members' = [members EXCEPT ![slot] = inv.role] /\ UNCHANGED invitations
           /\ (Goto(w, "notify") /\ UNCHANGED handling) \/ Return(w)
  <2>. HIDE DEF inv, slot
  <2>1. /\ members' \in [Slot -> SchemaRole \cup {NoRole}]
        /\ members'[slot] = inv.role /\ \A s \in Slot \ {slot} : members'[s] = members[s]
    BY <1>3, <1>4, <1>7 DEF Answered, Typed
  <2>2. Typed' /\ pc'[w] \in {"notify", "idle"}
    <3>1. CASE Goto(w, "notify") /\ UNCHANGED handling
      BY <1>1, <1>5, <1>7, <2>1, <3>1 DEF Goto, handling, Answered, Typed, Answering, Ids
    <3>2. CASE Return(w)
      <4>1. /\ row' \in [Workers -> Nat] /\ answer' \in [Workers -> {"accepted", "rejected"}]
            /\ pc' = [pc EXCEPT ![w] = "idle"]
        BY <3>2 DEF Return, Goto, Answered, Typed
      <4>2. \A v \in Workers : pc'[v] \notin Answering
        BY <1>5, <4>1 DEF Answered, Typed, Answering
      <4>. QED  BY <1>1, <1>7, <2>1, <4>1, <4>2 DEF Answered, Typed, Answering, Ids
    <3>. QED  BY <1>7, <3>1, <3>2
  <2>3. MembershipIsInvited'
    <3>1. ASSUME NEW s \in Slot, s # slot, members'[s] \notin {"owner", NoRole}
          PROVE  \E i \in Ids : /\ SlotOf(<<invitations[i].project, invitations[i].to>>) = s
                               /\ invitations[i].role = members[s]
                               /\ invitations[i].status = "accepted"
      BY <2>1, <3>1 DEF Answered, MembershipIsInvited
    <3>2. /\ SlotOf(<<invitations[row[w]].project, invitations[row[w]].to>>) = slot
          /\ invitations[row[w]].role = members'[slot]
          /\ invitations[row[w]].status = "accepted"
      BY <1>1, <1>4, <2>1 DEF inv
    <3>. QED  BY <1>1, <1>7, <2>1, <3>1, <3>2 DEF MembershipIsInvited, Ids, SlotOf
  <2>4. \A v \in Workers : pc'[v] \notin Answering
    BY <1>5, <1>7, <2>2 DEF Goto, Return, Answered, Typed, Answering
  <2>. QED  BY <1>3, <1>4, <1>7, <2>1, <2>2, <2>3, <2>4 DEF Answered, Answering, inv, slot
<1>. QED  BY <1>1, <1>3, <1>6, <1>7 DEF AddMember

(* The steps that neither answer an invitation nor add a member, and where they
   may leave a handler. *)
LEMMA OtherSteps ==
    ASSUME OneResponder, Answered, [Next]_vars
    PROVE  \/ \E w \in Workers, from, to \in Users, p \in Projects, r \in Offered :
                SendInvitation(w, from, to, p, r)
           \/ \E w \in Workers : UpdateStatus(w) \/ AddMember(w)
           \/ /\ Answered' /\ UNCHANGED <<invitations, members>>
              /\ \/ Restarts
                 \/ \A w \in Workers : pc[w] \in Answering =>
                      pc'[w] = pc[w] /\ row'[w] = row[w]
<1>. USE DEF Goto, Return, handling, checking, Answering
<1>1. ASSUME NEW w \in Workers, UNCHANGED <<invitations, members>>,
             pc[w] \notin Answering, pc'[w] \notin Answering,
             pc' = [pc EXCEPT ![w] = pc'[w]], UNCHANGED handling \/ Return(w)
      PROVE  Answered' /\ UNCHANGED <<invitations, members>> /\
             \A v \in Workers : pc[v] \in Answering => pc'[v] = pc[v] /\ row'[v] = row[v]
  <2>1. /\ row' \in [Workers -> Nat] /\ answer' \in [Workers -> {"accepted", "rejected"}]
        /\ \A v \in Workers \ {w} : row'[v] = row[v]
    <3>1. row \in [Workers -> Nat] /\ answer \in [Workers -> {"accepted", "rejected"}]
      BY DEF Answered, Typed
    <3>2. CASE UNCHANGED handling
      BY <3>1, <3>2
    <3>3. CASE Return(w)
      BY <3>1, <3>3
    <3>. QED  BY <1>1, <3>2, <3>3
  <2>2. /\ pc' = [v \in Workers |-> pc'[v]] /\ \A v \in Workers \ {w} : pc'[v] = pc[v]
    BY <1>1 DEF Answered, Typed
  <2>3. \A v \in Workers : v = w \/ v \in Workers \ {w}
    OBVIOUS
  <2>4. Answered'
    BY <1>1, <2>1, <2>2, <2>3, QuietStep
  <2>. QED  BY <1>1, <2>1, <2>2, <2>3, <2>4
<1>2. ASSUME NEW w \in Workers, Notify(w) \/ Decide(w) \/ StoreRole(w)
      PROVE  Answered' /\ UNCHANGED <<invitations, members>> /\
             \A v \in Workers : pc[v] \in Answering => pc'[v] = pc[v] /\ row'[v] = row[v]
  BY <1>1, <1>2 DEF Notify, Decide, StoreRole, Answered, Typed
<1>3. ASSUME NEW w \in Workers, FindRoleForUser(w)
      PROVE  Answered' /\ UNCHANGED <<invitations, members>> /\
             \A v \in Workers : pc[v] \in Answering => pc'[v] = pc[v] /\ row'[v] = row[v]
  <2>1. /\ pc[w] = "readRole" /\ pc'[w] \in {"decide", "storeRole"}
        /\ pc' = [pc EXCEPT ![w] = pc'[w]] /\ UNCHANGED <<invitations, members, handling>>
    BY <1>3 DEF FindRoleForUser, Answered, Typed
  <2>. QED  BY <1>1, <2>1
<1>4. ASSUME NEW w \in Workers, NEW k \in Key, GetProjectRole(w, k)
      PROVE  Answered' /\ UNCHANGED <<invitations, members>> /\
             \A v \in Workers : pc[v] \in Answering => pc'[v] = pc[v] /\ row'[v] = row[v]
  <2>1. /\ pc[w] = "idle" /\ pc'[w] \in {"decide", "readRole"}
        /\ pc' = [pc EXCEPT ![w] = pc'[w]] /\ UNCHANGED <<invitations, members, handling>>
    BY <1>4 DEF GetProjectRole, Answered, Typed
  <2>. QED  BY <1>1, <2>1
<1>5. ASSUME NEW w \in Workers, NEW u \in Users, NEW i \in Ids, NEW a \in {"accepted", "rejected"},
             FindPending(w, u, i, a)
      PROVE  Answered' /\ UNCHANGED <<invitations, members>> /\
             \A v \in Workers : pc[v] \in Answering => pc'[v] = pc[v] /\ row'[v] = row[v]
  <2>1. i \in Nat /\ pc[w] = "idle" /\ pc'[w] = "updateStatus" /\ row'[w] = i
    BY <1>5 DEF FindPending, Ids, Answered, Typed
  <2>2. Answered'
    BY <1>5, <2>1, QuietStep DEF FindPending, Answered, Typed
  <2>. QED  BY <1>5, <2>1, <2>2 DEF FindPending
<1>6. ASSUME NEW k \in Key, ExpireRole(k) PROVE
             Answered' /\ UNCHANGED <<invitations, members, pc, row>>
  BY <1>6, QuietStep DEF ExpireRole, Answered, Typed
<1>7. CASE Restart
  <2>1. /\ pc' = [w \in Workers |-> pc'[w]] /\ \A w \in Workers : pc'[w] = "idle"
        /\ row' \in [Workers -> Nat] /\ answer' \in [Workers -> {"accepted", "rejected"}]
        /\ UNCHANGED <<invitations, members>> /\ Restarts
    BY <1>7 DEF Restart
  <2>. QED  BY <2>1, QuietStep
<1>8. CASE UNCHANGED vars
  BY <1>8, QuietStep DEF vars, Answered, Typed
<1>. QED
  BY <1>2, <1>3, <1>4, <1>5, <1>6, <1>7, <1>8 DEF Next, Work

LEMMA NextAnswered == OneResponder /\ Answered /\ [Next]_vars => Answered'
  BY OtherSteps, SendAnswered, UpdateAnswered, AddAnswered

LEMMA NextKept ==
    OneResponder /\ Answered /\ [Next]_vars =>
        \A i \in Ids : invitations[i].status # "pending" => invitations'[i] = invitations[i]
  BY OtherSteps, SendAnswered, UpdateAnswered, AddAnswered

(* A step that leaves every accepted invitation with its member or its handler. *)
LEMMA NextMember ==
    ASSUME OneResponder, ~DbFails, ~AnswersLost, ~Restarts, Answered, AcceptedIsMember, [Next]_vars
    PROVE  AcceptedIsMember'
<1>. USE DEF Answering
<1>1. CASE \E w \in Workers, from, to \in Users, p \in Projects, r \in Offered :
             SendInvitation(w, from, to, p, r)
  <2>1. UNCHANGED <<members, pc, row>>
    BY <1>1 DEF SendInvitation, handling
  <2>. QED
    BY <1>1, <2>1, SendAnswered DEF AcceptedIsMember, Responding, SlotOf
<1>2. ASSUME NEW w \in Workers, UpdateStatus(w) PROVE AcceptedIsMember'
  <2>1. /\ Ids' = Ids /\ UNCHANGED members /\ pc[w] = "updateStatus"
        /\ \A v \in Workers : pc[v] \in Answering => v = w
    BY <1>2, UpdateAnswered DEF UpdateStatus, OneResponder, Answered, Typed
  <2>2. ASSUME NEW i \in Ids, invitations'[i].status = "accepted", ~Responding(i)'
        PROVE  invitations'[i] = invitations[i] /\ ~Responding(i)
    <3>1. invitations'[i] = invitations[i]
      BY <1>2, <2>2, UpdateAnswered DEF Responding
    <3>2. Responding(i) => invitations[i].status = "pending"
      BY <2>1 DEF Responding, Answered
    <3>. QED  BY <2>2, <3>1, <3>2
  <2>. QED  BY <2>1, <2>2 DEF AcceptedIsMember, SlotOf
<1>3. ASSUME NEW w \in Workers, AddMember(w) PROVE AcceptedIsMember'
  <2>1. /\ UNCHANGED invitations /\ Ids' = Ids /\ invitations \in Seq(Row)
        /\ \A v \in Workers : pc[v] \in Answering => v = w
    BY <1>3, AddAnswered DEF Ids, AddMember, OneResponder, Answered, Typed
  <2>2. ASSUME NEW i \in Ids, invitations[i].status = "accepted"
        PROVE  members'[SlotOf(<<invitations[i].project, invitations[i].to>>)] # NoRole
    <3>1. CASE row[w] = i
      BY <1>3, <3>1, AddAnswered
    <3>2. CASE row[w] # i
      <4>1. ~Responding(i)
        BY <2>1, <3>2 DEF Responding
      <4>2. SlotOf(<<invitations[i].project, invitations[i].to>>) \in Slot
        <5>1. invitations[i] \in Row
          BY <2>1 DEF Ids
        <5>. QED  BY <5>1, TeamAssumption DEF Row, SlotOf, Slot
      <4>. QED  BY <1>3, <2>2, <4>1, <4>2, AddAnswered DEF AcceptedIsMember
    <3>. QED  BY <3>1, <3>2
  <2>. QED  BY <2>1, <2>2 DEF AcceptedIsMember, SlotOf
<1>4. CASE /\ UNCHANGED <<invitations, members>>
           /\ \A w \in Workers : pc[w] \in Answering => pc'[w] = pc[w] /\ row'[w] = row[w]
  BY <1>4 DEF AcceptedIsMember, Responding, Ids, SlotOf
<1>. QED  BY <1>1, <1>2, <1>3, <1>4, OtherSteps

(* With one thread that answers, whatever fails: the roles of members come from
   invitations they accepted ... *)
THEOREM MembershipCorrect ==
    ASSUME OneResponder
    PROVE  Spec => []MembershipIsInvited
<1>1. Init => Answered
  BY InitAnswered
<1>2. Answered => MembershipIsInvited
  BY DEF Answered
<1>3. Answered /\ [Next]_vars => Answered'
  BY NextAnswered
<1>. QED  BY <1>1, <1>2, <1>3, PTL DEF Spec

(* ... and no answer is ever changed. *)
THEOREM AnswersCorrect ==
    ASSUME OneResponder
    PROVE  Spec => AnsweredOnce
<1>. DEFINE Kept == \A i \in Ids : invitations[i].status # "pending" =>
                       invitations'[i] = invitations[i]
<1>1. Init => Answered
  BY InitAnswered
<1>2. Answered /\ [Next]_vars => Answered' /\ [Kept]_vars
  BY NextAnswered, NextKept
<1>. QED  BY <1>1, <1>2, PTL DEF Spec, AnsweredOnce

(* And where no statement fails, no answer is lost and the engine runs on, an accepted invitation
   makes its receiver a member: what an INSERT that fails takes away. *)
THEOREM AcceptanceCorrect ==
    ASSUME OneResponder, ~DbFails, ~AnswersLost, ~Restarts
    PROVE  Spec => []AcceptedIsMember
<1>1. Init => Answered /\ AcceptedIsMember
  BY InitAnswered
<1>2. Answered /\ AcceptedIsMember /\ [Next]_vars =>
        Answered' /\ AcceptedIsMember'
  BY NextAnswered, NextMember
<1>. QED  BY <1>1, <1>2, PTL DEF Spec

-----------------------------------------------------------------------------
(* Invitations and their notifications, with any number of workers. *)

(* The role of the invitation i has been given to its receiver. *)
Given(i) ==
    /\ i \in Ids
    /\ invitations[i].role \in held[SlotOf(<<invitations[i].project, invitations[i].to>>)]

GivenInv ==
    /\ TypeInv /\ invitations \in Seq(Row)
    /\ \A w \in Workers : pc[w] = "notify" => Given(row[w])

(* What is between sendNotification and the streams has been sent, and a stream
   receives what was sent to its owner. *)
Sent == {m \in Users \X Nat : m[2] \in 1..published[m[1]]}
SentTo(u) == {m \in Sent : m[1] = u}

Delivered ==
    /\ published \in [Users -> Nat] /\ connections \in [Streams -> Nat]
    /\ commands \in Seq(Sent) /\ inbox \in Seq(Sent)
    /\ received = [s \in Streams |-> received[s]]
    /\ \A s \in Streams : received[s] \in Seq(SentTo(OwnerOf[s]))

(* What a notification says has happened. *)
NoticesTrue ==
    /\ notices \in [Users -> Seq({"invitation", "invitation_accepted"} \X Nat)]
    /\ \A u \in Users : Len(notices[u]) = published[u]
    /\ \A u \in Users : \A n \in 1..published[u] :
         notices[u][n][1] = "invitation_accepted" =>
            Given(notices[u][n][2]) /\ invitations[notices[u][n][2]].from = u

NoticesInv == GivenInv /\ Delivered /\ NoticesTrue

(* Rows are only added and answered, and what was given is remembered. *)
LEMMA NextRows ==
    ASSUME TypeInv, invitations \in Seq(Row), [Next]_vars
    PROVE  /\ invitations' \in Seq(Row)
           /\ \A i \in Ids : /\ i \in Ids'
                             /\ invitations'[i].from = invitations[i].from
                             /\ invitations'[i].to = invitations[i].to
                             /\ invitations'[i].project = invitations[i].project
                             /\ invitations'[i].role = invitations[i].role
           /\ \A s \in Slot : held[s] \subseteq held'[s]
<1>1. ASSUME NEW w \in Workers, NEW from \in Users, NEW to \in Users, NEW p \in Projects,
             NEW r \in Offered, SendInvitation(w, from, to, p, r)
      PROVE  /\ invitations' \in Seq(Row)
             /\ \A i \in Ids : i \in Ids' /\ invitations'[i] = invitations[i]
             /\ held' = held
  <2>. DEFINE new == [from |-> from, to |-> to, project |-> p, role |-> r, status |-> "pending"]
  <2>1. new \in Row
    BY <1>1, OfferAssumption DEF SendInvitation, Row, Status
  <2>2. invitations' = Append(invitations, new) /\ held' = held
    BY <1>1 DEF SendInvitation
  <2>. HIDE DEF new
  <2>. QED  BY <2>1, <2>2, AppendProperties, LenProperties DEF Ids
<1>2. ASSUME NEW w \in Workers, UpdateStatus(w), invitations' # invitations
      PROVE  /\ invitations' \in Seq(Row) /\ held' = held
             /\ \A i \in Ids : /\ i \in Ids'
                               /\ invitations'[i].from = invitations[i].from
                               /\ invitations'[i].to = invitations[i].to
                               /\ invitations'[i].project = invitations[i].project
                               /\ invitations'[i].role = invitations[i].role
  <2>1. /\ invitations' = [invitations EXCEPT ![row[w]].status = answer[w]]
        /\ held' = held /\ row[w] \in 1..Len(invitations) /\ answer[w] \in Status
    BY <1>2 DEF UpdateStatus, TypeInv, TypeOK, Ids, Status
  <2>. QED  BY <2>1, Answer DEF Ids
<1>3. ASSUME NEW w \in Workers, AddMember(w)
      PROVE  UNCHANGED invitations /\ \A s \in Slot : held[s] \subseteq held'[s]
  BY <1>3 DEF AddMember, TypeInv, TypeOK
<1>4. \/ \E w \in Workers, from, to \in Users, p \in Projects, r \in Offered :
            SendInvitation(w, from, to, p, r)
      \/ \E w \in Workers : UpdateStatus(w) /\ invitations' # invitations
      \/ \E w \in Workers : AddMember(w)
      \/ UNCHANGED <<invitations, held>>
  BY DEF Next, Work, FindPending, UpdateStatus, Notify, GetProjectRole, FindRoleForUser,
         StoreRole, Decide, ExpireRole, Restart, vars
<1>. QED  BY <1>1, <1>2, <1>3, <1>4 DEF Ids

LEMMA StillGiven ==
    ASSUME TypeInv, invitations \in Seq(Row), [Next]_vars, NEW i, Given(i)
    PROVE  Given(i)' /\ invitations'[i].from = invitations[i].from
<1>1. invitations[i] \in Row
  BY ElementOfSeq DEF Given, Ids
<1>2. SlotOf(<<invitations[i].project, invitations[i].to>>) \in Slot
  BY <1>1, TeamAssumption DEF Row, SlotOf, Slot
<1>. QED  BY <1>2, NextRows DEF Given, SlotOf

LEMMA NextGiven ==
    ASSUME GivenInv, [Next]_vars
    PROVE  GivenInv'
<1>1. TypeInv' /\ invitations' \in Seq(Row)
  BY NextType, NextRows DEF GivenInv
<1>2. ASSUME NEW w \in Workers, pc'[w] = "notify" PROVE Given(row[w])'
  <2>1. CASE pc[w] = "notify" /\ row'[w] = row[w]
    <3>1. PICK i : i = row[w]
      OBVIOUS
    <3>2. Given(i)'
      BY <2>1, <3>1, StillGiven DEF GivenInv
    <3>. QED  BY <2>1, <3>1, <3>2 DEF Given, Ids
  <2>2. CASE AddMember(w)
    <3>. DEFINE inv == invitations[row[w]]
    <3>1. row[w] \in Ids /\ inv \in Row /\ inv = invitations'[row[w]]
      BY <2>2, ElementOfSeq DEF AddMember, GivenInv, TypeInv, Ids
    <3>2. RoleFromString(inv.role) = inv.role /\ SlotOf(<<inv.project, inv.to>>) \in Slot
      BY <3>1, TeamAssumption DEF Row, RoleFromString, SlotOf, Slot
    <3>3. UNCHANGED <<invitations, row>>
          /\ held' = [held EXCEPT ![SlotOf(<<inv.project, inv.to>>)] =
                                     @ \cup {RoleFromString(inv.role)}]
      BY <1>2, <2>2 DEF AddMember, Return, Goto, handling, GivenInv, TypeInv, TypeOK
    <3>4. held \in [Slot -> SUBSET (SchemaRole \cup {NoRole})]
      BY DEF GivenInv, TypeInv, TypeOK
    <3>5. inv.role \in held'[SlotOf(<<inv.project, inv.to>>)]
      BY <3>2, <3>3, <3>4
    <3>. QED  BY <3>1, <3>3, <3>5 DEF Given, Ids, SlotOf
  <2>3. QED
    <3>. USE DEF GivenInv, TypeInv, TypeOK, Goto, Return, handling
    <3>1. CASE Restart \/ UNCHANGED vars \/ \E k \in Key : ExpireRole(k)
      BY <1>2, <2>1, <3>1 DEF Restart, vars, ExpireRole
    <3>2. CASE \E v \in Workers : AddMember(v)
      BY <1>2, <2>1, <2>2, <3>2 DEF AddMember
    <3>3. CASE \E v \in Workers : UpdateStatus(v) \/ Notify(v) \/ Decide(v) \/ StoreRole(v)
      BY <1>2, <2>1, <3>3 DEF UpdateStatus, Notify, Decide, StoreRole
    <3>4. CASE \E v \in Workers : FindRoleForUser(v) \/ \E k \in Key : GetProjectRole(v, k)
      BY <1>2, <2>1, <3>4 DEF FindRoleForUser, GetProjectRole
    <3>5. CASE \E v \in Workers, from, to \in Users, p \in Projects, r \in Offered :
                  SendInvitation(v, from, to, p, r)
      BY <1>2, <2>1, <3>5 DEF SendInvitation
    <3>6. CASE \E v \in Workers, u \in Users, i \in Ids, a \in {"accepted", "rejected"} :
                  FindPending(v, u, i, a)
      BY <1>2, <2>1, <3>6 DEF FindPending
    <3>. QED  BY <3>1, <3>2, <3>3, <3>4, <3>5, <3>6 DEF Next, Work
<1>. QED  BY <1>1, <1>2 DEF GivenInv

(* What was sent stays sent. *)
LEMMA StillSent ==
    ASSUME published \in [Users -> Nat], published' \in [Users -> Nat],
           \A u \in Users : published[u] <= published'[u]
    PROVE  /\ Sent \subseteq Sent' /\ \A u : SentTo(u) \subseteq SentTo(u)'
           /\ \A q \in Seq(Sent) : q \in Seq(Sent')
           /\ \A u : \A q \in Seq(SentTo(u)) : q \in Seq(SentTo(u)')
<1>1. Sent \subseteq Sent'
  BY DEF Sent
<1>2. \A u : SentTo(u) \subseteq SentTo(u)'
  BY <1>1 DEF SentTo
<1>. QED  BY <1>1, <1>2, SeqMonotonic

(* Delivery hands on what was sent, to the streams of its user. *)
LEMMA DispatchDelivered == Delivered /\ N!Dispatch => Delivered'
<1> SUFFICES ASSUME Delivered, N!Dispatch PROVE Delivered'
  OBVIOUS
<1>1. /\ Head(inbox) \in Sent /\ inbox' = Tail(inbox) /\ Tail(inbox) \in Seq(Sent)
      /\ UNCHANGED <<published, connections, commands>>
  BY HeadTailProperties DEF N!Dispatch, N!table, Delivered
<1>2. Sent' = Sent /\ \A u : SentTo(u)' = SentTo(u)
  BY <1>1 DEF Sent, SentTo
<1>3. ASSUME NEW s \in Streams PROVE received'[s] \in Seq(SentTo(OwnerOf[s]))
  <2>. DEFINE copies == [i \in 1..connections[s] |-> Head(inbox)]
  <2>1. received[s] \in Seq(SentTo(OwnerOf[s])) /\ connections[s] \in Nat
    BY DEF Delivered
  <2>2. CASE OwnerOf[s] = Head(inbox)[1] /\ s \notin closed
    <3>1. Head(inbox) \in SentTo(OwnerOf[s])
      BY <1>1, <2>2 DEF SentTo
    <3>2. copies \in Seq(SentTo(OwnerOf[s]))
      BY <2>1, <3>1, SeqDef
    <3>3. received'[s] = received[s] \o copies
      BY <2>2 DEF N!Dispatch
    <3>. QED  BY <2>1, <3>2, <3>3, ConcatProperties
  <2>3. CASE ~(OwnerOf[s] = Head(inbox)[1] /\ s \notin closed)
    BY <2>1, <2>3 DEF N!Dispatch
  <2>. QED  BY <2>2, <2>3
<1>4. received' = [s \in Streams |-> received'[s]]
  BY DEF N!Dispatch
<1>. QED  BY <1>1, <1>2, <1>3, <1>4 DEF Delivered

LEMMA DeliverDelivered == Delivered /\ (Deliver \/ Stop) => Delivered'
<1> SUFFICES ASSUME Delivered, Deliver \/ Stop PROVE Delivered'
  OBVIOUS
<1>1. published' = published
  BY DEF Deliver, Stop, N!Publish, N!Dispatch, N!Subscribe, N!Drop, N!Store, N!Close,
         N!Setup, N!Greet, N!RemoveConnection, N!Restart, N!channel
<1>2. Sent' = Sent /\ \A u : SentTo(u)' = SentTo(u)
  BY <1>1 DEF Sent, SentTo
<1>3. CASE N!Publish
  <2>1. /\ Head(commands) \in Sent /\ commands' = Tail(commands) /\ Tail(commands) \in Seq(Sent)
        /\ inbox' \in {inbox, Append(inbox, Head(commands))}
        /\ UNCHANGED <<connections, received>>
    BY <1>3, HeadTailProperties DEF N!Publish, N!table, Delivered
  <2>2. inbox' \in Seq(Sent)
    <3>1. inbox \in Seq(Sent) /\ Head(commands) \in Sent
      BY <2>1 DEF Delivered
    <3>2. Append(inbox, Head(commands)) \in Seq(Sent)
      BY <3>1, AppendProperties
    <3>. QED  BY <2>1, <3>1, <3>2
  <2>. QED  BY <1>1, <1>2, <2>1, <2>2 DEF Delivered
<1>4. CASE N!Subscribe \/ N!Drop
  <2>1. /\ inbox' \in {inbox, <<>>} /\ UNCHANGED <<connections, commands, received>>
    BY <1>4 DEF N!Subscribe, N!Drop, N!table
  <2>2. <<>> \in Seq(Sent)
    BY EmptySeq
  <2>. QED  BY <1>1, <1>2, <2>1, <2>2 DEF Delivered
<1>5. ASSUME NEW s \in Streams, N!Store(s) \/ N!Close(s) \/ N!Setup(s)
      PROVE  Delivered'
  <2>1. /\ connections' \in [Streams -> Nat] /\ UNCHANGED <<commands, inbox, received>>
    <3>1. /\ \/ UNCHANGED connections
             \/ connections' = [connections EXCEPT ![s] = @ + 1]
             \/ connections' = [connections EXCEPT ![s] = 0]
          /\ UNCHANGED <<commands, inbox, received>>
      BY <1>5 DEF N!Store, N!Close, N!Setup, N!Greet, N!RemoveConnection, N!channel
    <3>. QED  BY <3>1 DEF Delivered
  <2>. QED  BY <1>1, <1>2, <2>1 DEF Delivered
<1>6. CASE N!Restart
  BY <1>1, <1>2, <1>6, EmptySeq DEF N!Restart, Delivered
<1>. QED  BY <1>3, <1>4, <1>5, <1>6, DispatchDelivered DEF Deliver, Stop

(* A notification is sent: it is true, and so are those before. *)
LEMMA SendTrue ==
    ASSUME NoticesInv, [Next]_vars, NEW user \in Users, NEW i \in Nat,
           NEW type \in {"invitation", "invitation_accepted"}, Send(user, type, i),
           type = "invitation_accepted" => Given(i) /\ invitations[i].from = user
    PROVE  Delivered' /\ NoticesTrue'
<1>. DEFINE Notice == {"invitation", "invitation_accepted"} \X Nat
<1>1. /\ published' = [published EXCEPT ![user] = @ + 1]
      /\ commands' = Append(commands, <<user, published[user] + 1>>)
      /\ UNCHANGED <<inbox, connections, received>>
      /\ notices' = [notices EXCEPT ![user] = Append(@, <<type, i>>)]
  BY DEF Send, N!SendNotification, N!table
<1>2. /\ published \in [Users -> Nat] /\ notices \in [Users -> Seq(Notice)]
      /\ \A u \in Users : Len(notices[u]) = published[u]
  BY DEF NoticesInv, Delivered, NoticesTrue
<1>3. /\ published' \in [Users -> Nat] /\ published'[user] = published[user] + 1
      /\ \A u \in Users \ {user} : published'[u] = published[u] /\ notices'[u] = notices[u]
      /\ notices'[user] = Append(notices[user], <<type, i>>)
  BY <1>1, <1>2
<1>4. Delivered'
  <2>1. <<user, published[user] + 1>> \in Sent'
    BY <1>2, <1>3 DEF Sent
  <2>2. /\ commands \in Seq(Sent') /\ inbox \in Seq(Sent')
        /\ \A s \in Streams : received[s] \in Seq(SentTo(OwnerOf[s])')
    <3>1. \A u \in Users : published[u] <= published'[u]
      <4>1. \A u \in Users : published[u] \in Nat
        BY <1>2
      <4>2. published'[user] = published[user] + 1
            /\ \A u \in Users \ {user} : published'[u] = published[u]
        BY <1>3
      <4>. QED  BY <4>1, <4>2
    <3>2. \A q \in Seq(Sent) : q \in Seq(Sent')
      BY <1>2, <1>3, <3>1, StillSent
    <3>3. \A u : \A q \in Seq(SentTo(u)) : q \in Seq(SentTo(u)')
      BY <1>2, <1>3, <3>1, StillSent
    <3>. QED  BY <3>2, <3>3 DEF NoticesInv, Delivered
  <2>3. commands' \in Seq(Sent')
    BY <1>1, <2>1, <2>2, AppendProperties
  <2>. QED  BY <1>1, <1>3, <2>2, <2>3 DEF NoticesInv, Delivered
<1>5. /\ notices' \in [Users -> Seq(Notice)] /\ Len(notices'[user]) = published'[user]
      /\ \A n \in 1..published[user] : notices'[user][n] = notices[user][n]
      /\ notices'[user][published[user] + 1] = <<type, i>>
  <2>1. <<type, i>> \in Notice /\ notices[user] \in Seq(Notice)
    BY <1>2
  <2>. HIDE DEF Notice
  <2>2. /\ Append(notices[user], <<type, i>>) \in Seq(Notice)
        /\ Len(Append(notices[user], <<type, i>>)) = Len(notices[user]) + 1
        /\ \A n \in 1..Len(notices[user]) : Append(notices[user], <<type, i>>)[n] = notices[user][n]
        /\ Append(notices[user], <<type, i>>)[Len(notices[user]) + 1] = <<type, i>>
    BY <2>1, AppendProperties
  <2>. QED  BY <1>1, <1>2, <1>3, <2>2
<1>6. ASSUME NEW u \in Users, NEW n \in 1..published'[u],
             notices'[u][n][1] = "invitation_accepted"
      PROVE  Given(notices[u][n][2])' /\ invitations'[notices'[u][n][2]].from = u
  <2>. PICK j : j = notices'[u][n][2]
    OBVIOUS
  <2>1. CASE u = user /\ n = published[user] + 1
    <3>1. j = i /\ Given(j) /\ invitations[j].from = u
      BY <1>5, <1>6, <2>1
    <3>. QED  BY <3>1, StillGiven DEF NoticesInv, GivenInv, Given, Ids
  <2>2. CASE n \in 1..published[u]
    <3>1. notices'[u][n] = notices[u][n]
      BY <1>3, <1>5, <2>2
    <3>2. Given(j) /\ invitations[j].from = u
      BY <1>6, <2>2, <3>1 DEF NoticesInv, NoticesTrue
    <3>. QED  BY <3>2, StillGiven DEF NoticesInv, GivenInv, Given, Ids
  <2>. QED  BY <1>2, <1>3, <2>1, <2>2
<1>. QED  BY <1>2, <1>3, <1>4, <1>5, <1>6 DEF NoticesTrue

(* No notification is sent. *)
LEMMA SilentTrue ==
    ASSUME NoticesInv, [Next]_vars, UNCHANGED <<published, notices>>
    PROVE  NoticesTrue'
<1>1. ASSUME NEW u \in Users, NEW n \in 1..published[u],
             notices[u][n][1] = "invitation_accepted"
      PROVE  Given(notices[u][n][2])' /\ invitations'[notices[u][n][2]].from = u
  <2>. PICK j : j = notices[u][n][2]
    OBVIOUS
  <2>1. Given(j) /\ invitations[j].from = u
    BY <1>1 DEF NoticesInv, NoticesTrue
  <2>. QED  BY <2>1, StillGiven DEF NoticesInv, GivenInv, Given, Ids
<1>. QED  BY <1>1 DEF NoticesInv, NoticesTrue

LEMMA NextNotices == NoticesInv /\ [NextAll]_allVars => NoticesInv'
<1> SUFFICES ASSUME NoticesInv, [NextAll]_allVars PROVE NoticesInv'
  OBVIOUS
<1>1. [Next]_vars
  BY DEF NextAll, SendAndTell, Respond, TellInviter, Deliver, Stop, allVars, Next, Work
<1>2. GivenInv'
  BY <1>1, NextGiven DEF NoticesInv
<1>3. ASSUME NEW w \in Workers, NEW from \in Users, NEW to \in Users, NEW p \in Projects,
             NEW r \in Offered, SendAndTell(w, from, to, p, r)
      PROVE  NoticesInv'
  <2>1. Len(invitations) + 1 \in Nat
    BY LenProperties DEF NoticesInv, GivenInv
  <2>2. CASE Send(to, "invitation", Len(invitations) + 1)
    BY <1>1, <1>2, <2>1, <2>2, SendTrue DEF NoticesInv
  <2>3. CASE Silent
    BY <1>1, <1>2, <2>3, SilentTrue DEF Silent, delivery, NoticesInv, Delivered, Sent, SentTo
  <2>. QED  BY <1>3, <2>2, <2>3 DEF SendAndTell
<1>4. ASSUME NEW w \in Workers, TellInviter(w) PROVE NoticesInv'
  <2>1. Given(row[w]) /\ invitations[row[w]] \in Row /\ row[w] \in Nat
    BY <1>4, ElementOfSeq, LenProperties DEF TellInviter, Notify, NoticesInv, GivenInv, Given, Ids
  <2>2. invitations[row[w]].from \in Users
    BY <2>1 DEF Row
  <2>. QED  BY <1>1, <1>2, <1>4, <2>1, <2>2, SendTrue DEF TellInviter, NoticesInv
<1>5. CASE Silent
  <2>1. Delivered'
    BY <1>5 DEF Silent, delivery, NoticesInv, Delivered, Sent, SentTo
  <2>. QED  BY <1>1, <1>2, <1>5, <2>1, SilentTrue DEF Silent, delivery, NoticesInv
<1>6. CASE Deliver \/ Stop
  <2>1. UNCHANGED <<published, notices>>
    BY <1>6 DEF Deliver, Stop, N!Publish, N!Dispatch, N!Subscribe, N!Drop, N!Store, N!Close,
           N!Setup, N!Greet, N!RemoveConnection, N!Restart, N!channel
  <2>. QED  BY <1>1, <1>2, <1>6, <2>1, SilentTrue, DeliverDelivered DEF NoticesInv
<1>. QED
  BY <1>3, <1>4, <1>5, <1>6 DEF NextAll, Respond, Silent, allVars

LEMMA InitNotices == InitAll => NoticesInv
<1> SUFFICES ASSUME InitAll PROVE NoticesInv
  OBVIOUS
<1>1. GivenInv
  BY InitType, EmptySeq DEF InitAll, Init, GivenInv
<1>2. Delivered /\ NoticesTrue
  BY EmptySeq DEF InitAll, N!Init, Delivered, NoticesTrue
<1>. QED  BY <1>1, <1>2 DEF NoticesInv

(* Whoever reads on a stream that an invitation was accepted has sent it, and its
   role has been given, for any users, workers and streams, whatever fails. *)
THEOREM NoticesCorrect == SpecAll => []ToldMeansMember
<1>1. NoticesInv => ToldMeansMember
  <2> SUFFICES ASSUME NoticesInv, NEW s \in Streams, NEW j \in DOMAIN received[s],
                      NEW m, m = received[s][j],
                      NEW i, i = notices[m[1]][m[2]][2],
                      notices[m[1]][m[2]][1] = "invitation_accepted"
               PROVE  Given(i) /\ invitations[i].from = OwnerOf[s]
    BY DEF ToldMeansMember, Given
  <2>1. m \in SentTo(OwnerOf[s])
    BY LenProperties, ElementOfSeq DEF NoticesInv, Delivered
  <2>2. m[1] = OwnerOf[s] /\ OwnerOf[s] \in Users /\ m[2] \in 1..published[OwnerOf[s]]
    BY <2>1 DEF SentTo, Sent
  <2>. QED  BY <2>2 DEF NoticesInv, NoticesTrue
<1>. QED  BY <1>1, InitNotices, NextNotices, PTL DEF SpecAll
=============================================================================
