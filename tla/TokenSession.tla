---------------------------- MODULE TokenSession ----------------------------
(***************************************************************************)
(* Login, bearer-token validation and logout of the Nexustal engine.       *)
(*                                                                         *)
(* A user's row in PostgreSQL holds token_version; a token carries the     *)
(* version it was issued under, and is accepted while that version is the  *)
(* current one.  Redis keeps a copy of the version and of the user's role. *)
(* Every copy is written by a fire-and-forget command on the engine's one  *)
(* Redis connection, in the order the commands were sent; only GET waits   *)
(* for its answer.                                                         *)
(***************************************************************************)
EXTENDS Integers, Sequences, FiniteSets

CONSTANTS
    Users,       \* rows of the users table
    Admins,      \* the users whose row has is_admin
    Active,      \* the users whose row has is_active
    Workers,     \* threads that run request handlers (one by default)
    HasCache,    \* FALSE: Redis could not be set up and cache_ is null
    RedisFails,  \* TRUE: a Redis command may fail
    DbFails,     \* TRUE: a statement on the users table may fail
    AnswersLost, \* TRUE: the answer to an UPDATE of users may be lost
    Restarts,    \* TRUE: the engine may stop and start again
    MaxVersion,  \* bound: token versions generated by rotations
    MaxQueue     \* bound: commands in the Redis connection at a request's start

ASSUME UsersAssumption == Admins \subseteq Users /\ Active \subseteq Users
ASSUME SwitchAssumption ==
    {HasCache, RedisFails, DbFails, AnswersLost, Restarts} \subseteq BOOLEAN
ASSUME BoundAssumption == MaxVersion \in Nat /\ MaxQueue \in Nat

VARIABLES
    version,    \* token_version of each row
    generated,  \* versions generated so far: each is new, as a UUID is
    verCache,   \* user_token_version:<id> in Redis
    roleCache,  \* user_role:<id> in Redis
    queue,      \* commands sent on the Redis connection, not yet executed
    tokens,     \* tokens handed to clients and not expired
    pc,         \* what each worker does next
    user,       \* the user whose request the worker handles
    presented,  \* the version in the request's token
    found,      \* the version read from Redis or the row
    role,       \* the X-User-Role the filter resolved
    wants,      \* "use": any protected route; "logout": the logout route
    loggedOut,  \* tokens whose logout was answered with success
    rotated     \* those among them whose logout replaced the version

store == <<version, generated>>
redis == <<verCache, roleCache, queue>>
locals == <<pc, user, presented, found, role, wants>>
history == <<loggedOut, rotated>>
vars == <<version, generated, verCache, roleCache, queue, tokens, pc, user,
          presented, found, role, wants, loggedOut, rotated>>

NoVersion == 0
NoRole == "none"
Version == Nat \ {NoVersion}
Role == {"admin", "viewer"}
Token == Users \X Nat
Op == {"GetVersion", "SetVersion", "DelVersion", "GetRole", "SetRole"}
Command == [op : Op, user : Users, ver : Nat, role : Role \cup {NoRole}, by : Workers]
Step == {"idle", "issue", "getVersion", "load", "populate", "compare", "getRole",
         "loadRole", "handle", "findUser", "update", "delete"}

TypeOK ==
    /\ version \in [Users -> Version]
    /\ generated \in Nat
    /\ verCache \in [Users -> Nat]
    /\ roleCache \in [Users -> Role \cup {NoRole}]
    /\ queue \in Seq(Command)
    /\ tokens \subseteq Token
    /\ pc \in [Workers -> Step]
    /\ user \in [Workers -> Users]
    /\ presented \in [Workers -> Nat]
    /\ found \in [Workers -> Nat]
    /\ role \in [Workers -> Role \cup {NoRole}]
    /\ wants \in [Workers -> {"use", "logout"}]
    /\ loggedOut \subseteq Token
    /\ rotated \subseteq loggedOut

Init ==
    /\ version = [u \in Users |-> 1]
    /\ generated = 1
    /\ verCache = [u \in Users |-> NoVersion]
    /\ roleCache = [u \in Users |-> NoRole]
    /\ queue = <<>>
    /\ tokens = {}
    /\ pc = [w \in Workers |-> "idle"]
    /\ user \in [Workers -> Users]
    /\ presented = [w \in Workers |-> NoVersion]
    /\ found = [w \in Workers |-> NoVersion]
    /\ role = [w \in Workers |-> NoRole]
    /\ wants = [w \in Workers |-> "use"]
    /\ loggedOut = {}
    /\ rotated = {}

-----------------------------------------------------------------------------
(* Commands on the Redis connection. *)

Cmd(op, w, ver, r) ==
    [op |-> op, user |-> user[w], ver |-> ver, role |-> r, by |-> w]

Send(cmd) == queue' = IF HasCache THEN Append(queue, cmd) ELSE queue

Goto(w, step) == pc' = [pc EXCEPT ![w] = step]

(* AuthService::login: the row is read and checked before anything is sent. *)
LoginRead(w, u) ==
    /\ pc[w] = "idle" /\ Len(queue) < MaxQueue
    /\ u \in Active
    /\ user' = [user EXCEPT ![w] = u]
    /\ found' = [found EXCEPT ![w] = version[u]]
    /\ wants' = [wants EXCEPT ![w] = "use"]
    /\ Goto(w, "issue")
    /\ UNCHANGED <<store, redis, tokens, presented, role, history>>

(* createTokens: the version read above goes to Redis and into the token. *)
LoginIssue(w) ==
    /\ pc[w] = "issue"
    /\ Send(Cmd("SetVersion", w, found[w], NoRole))
    /\ tokens' = tokens \cup {<<user[w], found[w]>>}
    /\ Goto(w, "idle")
    /\ UNCHANGED <<store, verCache, roleCache, user, presented, found, role, wants, history>>

LoggingOut == {w \in Workers : pc[w] # "idle" /\ wants[w] = "logout"}

(* A request with a bearer token: JwtAuthFilter::doFilter starts. *)
Request(w, t, route) ==
    /\ pc[w] = "idle" /\ Len(queue) < MaxQueue
    /\ t \in tokens
    /\ route = "logout" => generated + Cardinality(LoggingOut) < MaxVersion
    /\ user' = [user EXCEPT ![w] = t[1]]
    /\ presented' = [presented EXCEPT ![w] = t[2]]
    /\ wants' = [wants EXCEPT ![w] = route]
    /\ Send([op |-> "GetVersion", user |-> t[1], ver |-> NoVersion, role |-> NoRole, by |-> w])
    /\ Goto(w, IF HasCache THEN "getVersion" ELSE "load")
    /\ UNCHANGED <<store, verCache, roleCache, tokens, found, role, history>>

(* fetchCurrentVersion after a miss: the row, or a refusal when the lookup fails. *)
LoadVersion(w) ==
    /\ pc[w] = "load"
    /\ \/ /\ found' = [found EXCEPT ![w] = version[user[w]]]
          /\ Goto(w, "populate")
       \/ DbFails /\ Goto(w, "idle") /\ UNCHANGED found
    /\ UNCHANGED <<store, redis, tokens, user, presented, role, wants, history>>

(* Mutant: caches the version the token claims, not the one of the row. *)
PopulateClaimed(w) ==
    /\ pc[w] = "populate"
    /\ Send(Cmd("SetVersion", w, presented[w], NoRole))
    /\ Goto(w, "compare")
    /\ UNCHANGED <<store, verCache, roleCache, tokens, user, presented, found, role, wants, history>>

PopulateVersion(w) ==
    /\ pc[w] = "populate"
    /\ Send(Cmd("SetVersion", w, found[w], NoRole))
    /\ Goto(w, "compare")
    /\ UNCHANGED <<store, verCache, roleCache, tokens, user, presented, found, role, wants, history>>

(* The end of validateAccessToken; an accepted request goes on to resolveRole. *)
Reject(w) ==
    /\ pc[w] = "compare" /\ found[w] # presented[w]
    /\ Goto(w, "idle")
    /\ UNCHANGED <<store, redis, tokens, user, presented, found, role, wants, history>>

Accept(w) ==
    /\ pc[w] = "compare" /\ found[w] = presented[w]
    /\ Send(Cmd("GetRole", w, NoVersion, NoRole))
    /\ Goto(w, IF HasCache THEN "getRole" ELSE "loadRole")
    /\ UNCHANGED <<store, verCache, roleCache, tokens, user, presented, found, role, wants, history>>

(* Mutant: every user that can be looked up is an administrator. *)
LoadRoleUnchecked(w) ==
    /\ pc[w] = "loadRole"
    /\ role' = [role EXCEPT ![w] = "admin"]
    /\ Send(Cmd("SetRole", w, NoVersion, "admin"))
    /\ Goto(w, "handle")
    /\ UNCHANGED <<store, verCache, roleCache, tokens, user, presented, found, wants, history>>

(* resolveRole after a miss.  A failed lookup is not told from a user who is
   not an administrator: "viewer" is resolved, and cached. *)
LoadRole(w) ==
    /\ pc[w] = "loadRole"
    /\ \E ok \in {TRUE} \cup {~DbFails} :
         LET r == IF ok /\ user[w] \in Admins THEN "admin" ELSE "viewer" IN
         /\ role' = [role EXCEPT ![w] = r]
         /\ Send(Cmd("SetRole", w, NoVersion, r))
    /\ Goto(w, "handle")
    /\ UNCHANGED <<store, verCache, roleCache, tokens, user, presented, found, wants, history>>

(* passCallback: the route's handler.  Any but logout leaves this state alone. *)
Handle(w) ==
    /\ pc[w] = "handle"
    /\ Goto(w, IF wants[w] = "logout" THEN "findUser" ELSE "idle")
    /\ UNCHANGED <<store, redis, tokens, user, presented, found, role, wants, history>>

-----------------------------------------------------------------------------
(* AuthService::logout answers success whatever rotateVersion managed to do. *)

AnswerLogout(w, tokensRotated) ==
    /\ loggedOut' = loggedOut \cup {<<user[w], presented[w]>>}
    /\ rotated' = rotated \cup tokensRotated
    /\ Goto(w, "idle")

FindUser(w) ==
    /\ pc[w] = "findUser"
    /\ \/ Goto(w, "update") /\ UNCHANGED history
       \/ DbFails /\ AnswerLogout(w, {})
    /\ UNCHANGED <<store, redis, tokens, user, presented, found, role, wants>>

(* An UPDATE whose answer is lost has replaced the version, but is taken for one
   that failed: the copy in Redis is not deleted. *)
UpdateRow(w) ==
    /\ pc[w] = "update"
    /\ \/ /\ generated < MaxVersion
          /\ generated' = generated + 1
          /\ version' = [version EXCEPT ![user[w]] = generated + 1]
          /\ \/ Goto(w, "delete") /\ UNCHANGED history
             \/ AnswersLost /\ AnswerLogout(w, {<<user[w], presented[w]>>})
       \/ DbFails /\ AnswerLogout(w, {}) /\ UNCHANGED store
    /\ UNCHANGED <<redis, tokens, user, presented, found, role, wants>>

(* Mutant: the copy in Redis is left to its TTL. *)
DeleteForgotten(w) ==
    /\ pc[w] = "delete"
    /\ AnswerLogout(w, {<<user[w], presented[w]>>})
    /\ UNCHANGED <<store, redis, tokens, user, presented, found, role, wants>>

DeleteCached(w) ==
    /\ pc[w] = "delete"
    /\ Send(Cmd("DelVersion", w, NoVersion, NoRole))
    /\ AnswerLogout(w, {<<user[w], presented[w]>>})
    /\ UNCHANGED <<store, verCache, roleCache, tokens, user, presented, found, role, wants>>

-----------------------------------------------------------------------------
(* Redis executes the oldest command; a GET answers the worker that waits. *)

ExecSetVersion ==
    /\ queue # <<>> /\ Head(queue).op = "SetVersion"
    /\ verCache' = [verCache EXCEPT ![Head(queue).user] = Head(queue).ver]
    /\ queue' = Tail(queue)
    /\ UNCHANGED <<store, roleCache, tokens, locals, history>>

ExecDelVersion ==
    /\ queue # <<>> /\ Head(queue).op = "DelVersion"
    /\ verCache' = [verCache EXCEPT ![Head(queue).user] = NoVersion]
    /\ queue' = Tail(queue)
    /\ UNCHANGED <<store, roleCache, tokens, locals, history>>

ExecSetRole ==
    /\ queue # <<>> /\ Head(queue).op = "SetRole"
    /\ roleCache' = [roleCache EXCEPT ![Head(queue).user] = Head(queue).role]
    /\ queue' = Tail(queue)
    /\ UNCHANGED <<store, verCache, tokens, locals, history>>

(* Mutant: a missing key is an error that refuses the token. *)
ExecGetVersionStrict ==
    /\ queue # <<>> /\ Head(queue).op = "GetVersion"
    /\ LET w == Head(queue).by
           cached == verCache[Head(queue).user] IN
       /\ found' = [found EXCEPT ![w] = cached]
       /\ Goto(w, IF cached # NoVersion THEN "compare" ELSE "idle")
    /\ queue' = Tail(queue)
    /\ UNCHANGED <<store, verCache, roleCache, tokens, user, presented, role, wants, history>>

(* asString of a missing key throws: the caller falls back to the row. *)
ExecGetVersion ==
    /\ queue # <<>> /\ Head(queue).op = "GetVersion"
    /\ LET w == Head(queue).by
           cached == verCache[Head(queue).user] IN
       /\ found' = IF cached # NoVersion THEN [found EXCEPT ![w] = cached] ELSE found
       /\ Goto(w, IF cached # NoVersion THEN "compare" ELSE "load")
    /\ queue' = Tail(queue)
    /\ UNCHANGED <<store, verCache, roleCache, tokens, user, presented, role, wants, history>>

ExecGetRole ==
    /\ queue # <<>> /\ Head(queue).op = "GetRole"
    /\ LET w == Head(queue).by
           cached == roleCache[Head(queue).user] IN
       /\ role' = IF cached # NoRole THEN [role EXCEPT ![w] = cached] ELSE role
       /\ Goto(w, IF cached # NoRole THEN "handle" ELSE "loadRole")
    /\ queue' = Tail(queue)
    /\ UNCHANGED <<store, verCache, roleCache, tokens, user, presented, found, wants, history>>

(* A failed command changes nothing; a failed GET is caught and read as a miss. *)
FailCommand ==
    /\ RedisFails /\ queue # <<>>
    /\ queue' = Tail(queue)
    /\ pc' = CASE Head(queue).op = "GetVersion" -> [pc EXCEPT ![Head(queue).by] = "load"]
               [] Head(queue).op = "GetRole" -> [pc EXCEPT ![Head(queue).by] = "loadRole"]
               [] OTHER -> pc
    /\ UNCHANGED <<store, verCache, roleCache, tokens, user, presented, found, role, wants, history>>

(* Mutant: the copy is stored by SET, without a TTL. *)
KeepVersion(u) == verCache[u] # NoVersion /\ UNCHANGED vars

(* The passing of time: 3600 s for a copy in Redis, 900 s for a token. *)
ExpireVersion(u) ==
    /\ verCache[u] # NoVersion
    /\ verCache' = [verCache EXCEPT ![u] = NoVersion]
    /\ UNCHANGED <<store, roleCache, queue, tokens, locals, history>>

ExpireRole(u) ==
    /\ roleCache[u] # NoRole
    /\ roleCache' = [roleCache EXCEPT ![u] = NoRole]
    /\ UNCHANGED <<store, verCache, queue, tokens, locals, history>>

ExpireToken(t) ==
    /\ t \in tokens
    /\ tokens' = tokens \ {t}
    /\ UNCHANGED <<store, redis, locals, history>>

(* The engine stops: requests and unsent commands are lost, Redis is not. *)
Restart ==
    /\ Restarts
    /\ queue' = <<>>
    /\ pc' = [w \in Workers |-> "idle"]
    /\ UNCHANGED <<store, verCache, roleCache, tokens, user, presented, found, role, wants, history>>

-----------------------------------------------------------------------------
Work(w) ==
    \/ LoginIssue(w) \/ LoadVersion(w) \/ PopulateVersion(w) \/ Reject(w) \/ Accept(w)
    \/ LoadRole(w) \/ Handle(w) \/ FindUser(w) \/ UpdateRow(w) \/ DeleteCached(w)

Redis ==
    \/ ExecSetVersion \/ ExecDelVersion \/ ExecSetRole
    \/ ExecGetVersion \/ ExecGetRole \/ FailCommand

Next ==
    \/ \E w \in Workers : \/ \E u \in Users : LoginRead(w, u)
                          \/ \E t \in tokens, r \in {"use", "logout"} : Request(w, t, r)
                          \/ Work(w)
    \/ Redis
    \/ \E u \in Users : ExpireVersion(u) \/ ExpireRole(u)
    \/ \E t \in tokens : ExpireToken(t)
    \/ Restart

Spec == Init /\ [][Next]_vars

(* A started handler runs on, Redis answers, and a TTL runs out.  Nothing makes
   clients send requests or the engine restart. *)
FairSpec ==
    /\ Spec
    /\ \A w \in Workers : WF_vars(Work(w))
    /\ WF_vars(Redis)
    /\ \A u \in Users : WF_vars(ExpireVersion(u)) /\ WF_vars(ExpireRole(u))

-----------------------------------------------------------------------------
(* What the session should guarantee. *)

(* Past the filter's version check, before the request's own logout if it is one. *)
PassedFilter(w) == pc[w] \in {"getRole", "loadRole", "handle"}

(* The version a token is compared with is the one in the user's row, although
   it comes from Redis, which is only ever told of a change afterwards. *)
VerdictIsCurrent ==
    \A w \in Workers : pc[w] = "compare" => found[w] = version[user[w]]

(* A token whose logout replaced the version is refused: a copy of the replaced
   version, written before or on the way, is never what a token is compared with. *)
RotatedNeverAccepted ==
    \A w \in Workers : PassedFilter(w) => <<user[w], presented[w]>> \notin rotated

(* A handler is told the role of its user's row, not a leftover or a default. *)
RoleIsExact ==
    \A w \in Workers : pc[w] = "handle" => (role[w] = "admin" <=> user[w] \in Admins)

(* The request a worker handles, as a client sees it. *)
RequestOf(w) ==
    IF pc[w] \in {"idle", "issue", "delete"} THEN [phase |-> "none"]
    ELSE [phase |-> IF pc[w] \in {"getVersion", "load", "populate", "compare"}
                    THEN "presented" ELSE "accepted",
          token |-> <<user[w], presented[w]>>,
          route |-> wants[w]]

Authority == INSTANCE TokenAuthority WITH
    used <- 1..generated,
    request <- [w \in Workers |-> RequestOf(w)]

(* To clients the copies in Redis do not exist: tokens are issued, accepted,
   refused and revoked as if the user's row were asked each time. *)
RowDecides == Authority!Spec

(* However handlers interleave and whatever command is lost, a replaced version
   does not stay in Redis: no copy of it is renewed for ever. *)
CopyBecomesCurrent ==
    \A u \in Users : <>[](verCache[u] \in {NoVersion, version[u]})
=============================================================================
