------------------------- MODULE TokenSessionProofs -------------------------
(***************************************************************************)
(* Type correctness of TokenSession for every choice of its constants. For *)
(* an engine with one worker whose Redis commands are executed: the        *)
(* version a token is compared with is the one in the user's row, and a    *)
(* token replaced by a logout is refused, for any number of users, tokens  *)
(* and queued commands, with or without a cache, even when statements on   *)
(* the users table fail, as long as no UPDATE is taken for a failed one    *)
(* because its answer is lost; so that to clients there is no cache at     *)
(* all, and the session implements TokenAuthority. For any number of       *)
(* workers: the role that a handler is told is that of its user's row,     *)
(* unless a statement fails.                                               *)
(***************************************************************************)
EXTENDS TokenSession, SequenceTheorems, TLAPS

(* A version grows with every rotation, and what a worker holds between two
   steps agrees with the row of the user it serves. *)
LocalInv ==
    /\ \A u \in Users : version[u] <= generated
    /\ \A t \in rotated : t[2] < version[t[1]]
    /\ \A w \in Workers :
         /\ pc[w] \in {"issue", "populate", "compare"} => found[w] = version[user[w]]
         /\ PassedFilter(w) \/ pc[w] \in {"findUser", "update"} => presented[w] = version[user[w]]
         /\ pc[w] = "delete" => presented[w] < version[user[w]]

(* The worker that waits for a GET sent the last command of the queue. *)
GetsLast ==
    \A i \in 1..Len(queue) :
        /\ queue[i].op = "GetVersion" =>
              i = Len(queue) /\ pc[queue[i].by] = "getVersion" /\ user[queue[i].by] = queue[i].user
        /\ queue[i].op = "GetRole" =>
              i = Len(queue) /\ pc[queue[i].by] = "getRole" /\ user[queue[i].by] = queue[i].user

Cleared(i, u) ==
    \E j \in (i + 1)..Len(queue) : queue[j].op = "DelVersion" /\ queue[j].user = u

BeingDeleted(u) == \E w \in Workers : pc[w] = "delete" /\ user[w] = u

(* A replaced version in Redis or on its way there is followed by a DEL. *)
StaleCleared ==
    \A u \in Users : ~BeingDeleted(u) =>
        /\ verCache[u] \notin {NoVersion, version[u]} => Cleared(0, u)
        /\ \A i \in 1..Len(queue) :
              queue[i].op = "SetVersion" /\ queue[i].user = u /\ queue[i].ver # version[u]
                => Cleared(i, u)

(* Without a Redis client nothing is sent and nothing is cached. *)
NoCache == ~HasCache => queue = <<>> /\ \A u \in Users : verCache[u] = NoVersion

IInv == TypeOK /\ LocalInv /\ GetsLast /\ StaleCleared /\ NoCache

-----------------------------------------------------------------------------
(* Sequences: what appending to the queue and taking its head leave. *)

LEMMA AppendFacts ==
    ASSUME NEW S, NEW q \in Seq(S), NEW e \in S
    PROVE  /\ Append(q, e) \in Seq(S)
           /\ Len(Append(q, e)) = Len(q) + 1
           /\ \A i \in 1..Len(q) : Append(q, e)[i] = q[i]
           /\ Append(q, e)[Len(q) + 1] = e
  OBVIOUS

LEMMA TailFacts ==
    ASSUME NEW S, NEW q \in Seq(S), q # <<>>
    PROVE  /\ Tail(q) \in Seq(S)
           /\ Len(Tail(q)) = Len(q) - 1
           /\ Len(q) \in Nat \ {0}
           /\ \A i \in 1..Len(Tail(q)) : Tail(q)[i] = q[i + 1]
           /\ Head(q) = q[1]
           /\ Head(q) \in S
  OBVIOUS

LEMMA SendType ==
    ASSUME TypeOK, NEW c \in Command, Send(c)
    PROVE  queue' \in Seq(Command)
  BY AppendFacts DEF Send, TypeOK

LEMMA CmdType ==
    ASSUME TypeOK, NEW w \in Workers, NEW op \in Op, NEW v \in Nat, NEW r \in Role \cup {NoRole}
    PROVE  Cmd(op, w, v, r) \in Command
  BY DEF Cmd, Command, TypeOK

-----------------------------------------------------------------------------
(* Type correctness. *)

LEMMA InitType == Init => TypeOK
  BY DEF Init, TypeOK, Version, NoVersion, NoRole, Step, Role

LEMMA WorkType ==
    ASSUME TypeOK, NEW w \in Workers, Work(w)
    PROVE  TypeOK'
<1> USE DEF NoVersion, NoRole, Goto, store, redis, history
<1> /\ {"SetVersion", "DelVersion", "GetRole", "SetRole"} \subseteq Op
    /\ 0 \in Nat /\ NoRole \in Role \cup {NoRole} /\ found[w] \in Nat /\ user[w] \in Users
    /\ Step = {"idle", "issue", "getVersion", "load", "populate", "compare", "getRole",
         "loadRole", "handle", "findUser", "update", "delete"}
    /\ Role = {"admin", "viewer"}
  BY DEF Op, TypeOK, Step, Role
<1>1. CASE LoginIssue(w)
  <2>1. queue' \in Seq(Command)
    BY <1>1, SendType, CmdType DEF LoginIssue
  <2>. QED  BY <1>1, <2>1 DEF LoginIssue, TypeOK, Token
<1>2. CASE LoadVersion(w)
  <2>1. ASSUME found' = [found EXCEPT ![w] = version[user[w]]], Goto(w, "populate") PROVE TypeOK'
    BY <1>2, <2>1 DEF LoadVersion, TypeOK, Version
  <2>2. ASSUME Goto(w, "idle"), UNCHANGED found PROVE TypeOK'
    BY <1>2, <2>2 DEF LoadVersion, TypeOK
  <2>. QED  BY <1>2, <2>1, <2>2 DEF LoadVersion
<1>3. CASE PopulateVersion(w)
  <2>1. queue' \in Seq(Command)
    BY <1>3, SendType, CmdType DEF PopulateVersion
  <2>. QED  BY <1>3, <2>1 DEF PopulateVersion, TypeOK
<1>4. CASE Reject(w)
  BY <1>4 DEF Reject, TypeOK
<1>5. CASE Accept(w)
  <2>1. queue' \in Seq(Command)
    BY <1>5, SendType, CmdType DEF Accept
  <2>. QED  BY <1>5, <2>1 DEF Accept, TypeOK
<1>6. CASE LoadRole(w)
  <2>1. PICK r \in Role : Send(Cmd("SetRole", w, NoVersion, r)) /\ role' = [role EXCEPT ![w] = r]
    BY <1>6 DEF LoadRole
  <2>2. queue' \in Seq(Command)
    BY <2>1, SendType, CmdType
  <2>. QED  BY <1>6, <2>1, <2>2 DEF LoadRole, TypeOK
<1>7. CASE Handle(w)
  BY <1>7 DEF Handle, TypeOK
<1>8. CASE FindUser(w)
  <2>1. ASSUME Goto(w, "update"), UNCHANGED <<loggedOut, rotated>> PROVE TypeOK'
    BY <1>8, <2>1 DEF FindUser, TypeOK
  <2>2. ASSUME AnswerLogout(w, {}) PROVE TypeOK'
    BY <1>8, <2>2 DEF FindUser, AnswerLogout, TypeOK, Token
  <2>. QED  BY <1>8, <2>1, <2>2 DEF FindUser
<1>9. CASE UpdateRow(w)
  <2>1. ASSUME generated' = generated + 1, version' = [version EXCEPT ![user[w]] = generated + 1],
               Goto(w, "delete"), UNCHANGED <<loggedOut, rotated>>
        PROVE TypeOK'
    BY <1>9, <2>1 DEF UpdateRow, TypeOK, Version
  <2>2. ASSUME AnswerLogout(w, {}), UNCHANGED <<version, generated>> PROVE TypeOK'
    BY <1>9, <2>2 DEF UpdateRow, AnswerLogout, TypeOK, Token
  <2>3. ASSUME generated' = generated + 1, version' = [version EXCEPT ![user[w]] = generated + 1],
               AnswerLogout(w, {<<user[w], presented[w]>>})
        PROVE TypeOK'
    BY <1>9, <2>3 DEF UpdateRow, AnswerLogout, TypeOK, Token, Version
  <2>. QED  BY <1>9, <2>1, <2>2, <2>3 DEF UpdateRow
<1>10. CASE DeleteCached(w)
  <2>1. queue' \in Seq(Command)
    BY <1>10, SendType, CmdType DEF DeleteCached
  <2>. QED  BY <1>10, <2>1 DEF DeleteCached, AnswerLogout, TypeOK, Token
<1>. QED
  BY <1>1, <1>2, <1>3, <1>4, <1>5, <1>6, <1>7, <1>8, <1>9, <1>10 DEF Work

LEMMA RedisType ==
    ASSUME TypeOK, Redis
    PROVE  TypeOK'
<1> USE DEF NoVersion, NoRole, Goto, store, locals, history
<1>1. queue # <<>> /\ queue' = Tail(queue)
  BY DEF Redis, ExecSetVersion, ExecDelVersion, ExecSetRole, ExecGetVersion, ExecGetRole, FailCommand
<1>2. Head(queue) \in Command /\ queue' \in Seq(Command)
  BY <1>1, TailFacts DEF TypeOK
<1>3. CASE ExecSetVersion
  BY <1>2, <1>3 DEF ExecSetVersion, TypeOK, Command
<1>4. CASE ExecDelVersion
  BY <1>2, <1>4 DEF ExecDelVersion, TypeOK, Command
<1>5. CASE ExecSetRole
  BY <1>2, <1>5 DEF ExecSetRole, TypeOK, Command
<1>6. CASE ExecGetVersion
  BY <1>2, <1>6 DEF ExecGetVersion, TypeOK, Command, Step
<1>7. CASE ExecGetRole
  BY <1>2, <1>7 DEF ExecGetRole, TypeOK, Command, Step
<1>8. CASE FailCommand
  BY <1>2, <1>8 DEF FailCommand, TypeOK, Command, Step
<1>. QED
  BY <1>3, <1>4, <1>5, <1>6, <1>7, <1>8 DEF Redis

LEMMA NextType == TypeOK /\ [Next]_vars => TypeOK'
<1> SUFFICES ASSUME TypeOK, [Next]_vars PROVE TypeOK'
  OBVIOUS
<1> USE DEF NoVersion, NoRole, Goto, store, redis, locals, history
<1>1. CASE UNCHANGED vars
  BY <1>1 DEF vars, TypeOK
<1>2. ASSUME NEW w \in Workers, NEW u \in Users, LoginRead(w, u) PROVE TypeOK'
  BY <1>2 DEF LoginRead, TypeOK, Step, Version
<1>3. ASSUME NEW w \in Workers, NEW t \in tokens, NEW r \in {"use", "logout"}, Request(w, t, r)
      PROVE TypeOK'
  <2>1. t[1] \in Users /\ t[2] \in Nat
    BY DEF TypeOK, Token
  <2>2. [op |-> "GetVersion", user |-> t[1], ver |-> 0, role |-> NoRole, by |-> w] \in Command
    BY <2>1 DEF Command, Op
  <2>3. queue' \in Seq(Command)
    BY <1>3, <2>2, SendType DEF Request
  <2>. QED  BY <1>3, <2>1, <2>3 DEF Request, TypeOK, Step
<1>4. ASSUME NEW u \in Users, ExpireVersion(u) \/ ExpireRole(u) PROVE TypeOK'
  <2>1. CASE ExpireVersion(u)
    BY <2>1 DEF ExpireVersion, TypeOK
  <2>2. CASE ExpireRole(u)
    BY <2>2 DEF ExpireRole, TypeOK
  <2>. QED  BY <1>4, <2>1, <2>2
<1>5. ASSUME NEW t \in tokens, ExpireToken(t) PROVE TypeOK'
  BY <1>5 DEF ExpireToken, TypeOK
<1>6. CASE Restart
  BY <1>6, EmptySeq DEF Restart, TypeOK, Step
<1>. QED
  BY <1>1, <1>2, <1>3, <1>4, <1>5, <1>6, WorkType, RedisType DEF Next

(* Every variable keeps its type: versions are never empty, and only tokens
   presented at a logout count as rotated by it. *)
THEOREM TypeCorrect == Spec => []TypeOK
<1>1. Init => TypeOK
  BY InitType
<1>2. TypeOK /\ [Next]_vars => TypeOK'
  BY NextType
<1>. QED
  BY <1>1, <1>2, PTL DEF Spec

-----------------------------------------------------------------------------
(* One worker, a Redis that executes every command, a database whose UPDATE of a
   row is not taken for a failed one, and no restart. *)

OneWorker == \E w : Workers = {w}
Reliable == ~RedisFails /\ ~AnswersLost /\ ~Restarts

(* A command stays covered by the DEL behind it when another is sent and when
   the head of the queue is executed. *)
LEMMA ClearedBySend ==
    ASSUME TypeOK, NEW c \in Command, queue' = Append(queue, c),
           NEW i \in Nat, NEW u \in Users,
           Cleared(i, u) \/ (i <= Len(queue) /\ c.op = "DelVersion" /\ c.user = u)
    PROVE  Cleared(i, u)'
<1>1. /\ Len(queue') = Len(queue) + 1 /\ Len(queue) \in Nat
      /\ \A j \in 1..Len(queue) : queue'[j] = queue[j]
      /\ queue'[Len(queue) + 1] = c
  BY AppendFacts, LenProperties DEF TypeOK
<1>2. CASE Cleared(i, u)
  <2>1. PICK j \in (i + 1)..Len(queue) : queue[j].op = "DelVersion" /\ queue[j].user = u
    BY <1>2 DEF Cleared
  <2>2. j \in (i + 1)..Len(queue') /\ queue'[j] = queue[j]
    BY <1>1, <2>1
  <2>. QED  BY <2>1, <2>2 DEF Cleared
<1>3. CASE i <= Len(queue) /\ c.op = "DelVersion" /\ c.user = u
  <2>1. Len(queue) + 1 \in (i + 1)..Len(queue')
    BY <1>1, <1>3
  <2>. QED  BY <1>1, <1>3, <2>1 DEF Cleared
<1>. QED  BY <1>2, <1>3

LEMMA ClearedByTail ==
    ASSUME TypeOK, queue # <<>>, queue' = Tail(queue),
           NEW i \in Nat, NEW u \in Users, Cleared(i + 1, u)
    PROVE  Cleared(i, u)'
<1>1. PICK j \in (i + 2)..Len(queue) : queue[j].op = "DelVersion" /\ queue[j].user = u
  BY DEF Cleared
<1>2. j - 1 \in (i + 1)..Len(queue') /\ queue'[j - 1] = queue[j]
  BY <1>1, TailFacts DEF TypeOK
<1>. QED  BY <1>1, <1>2 DEF Cleared

(* No GET is queued while the only worker waits for none. *)
LEMMA NoGetQueued ==
    ASSUME IInv, OneWorker, NEW w \in Workers, pc[w] \notin {"getVersion", "getRole"}
    PROVE  \A i \in 1..Len(queue) : queue[i].op \notin {"GetVersion", "GetRole"}
<1> SUFFICES ASSUME NEW i \in 1..Len(queue) PROVE queue[i].op \notin {"GetVersion", "GetRole"}
  OBVIOUS
<1>1. queue[i] \in Command
  BY ElementOfSeq DEF IInv, TypeOK
<1>2. queue[i].by = w
  BY <1>1 DEF Command, OneWorker
<1>. QED  BY <1>2 DEF IInv, GetsLast

LEMMA SendKeepsGets ==
    ASSUME TypeOK, NEW c \in Command, Send(c),
           \A i \in 1..Len(queue) : queue[i].op \notin {"GetVersion", "GetRole"},
           HasCache /\ c.op = "GetVersion" => pc'[c.by] = "getVersion" /\ user'[c.by] = c.user,
           HasCache /\ c.op = "GetRole" => pc'[c.by] = "getRole" /\ user'[c.by] = c.user
    PROVE  GetsLast'
<1>1. CASE HasCache
  <2>1. queue' = Append(queue, c)
    BY <1>1 DEF Send
  <2>2. \A i \in 1..Len(queue') : i \in 1..Len(queue) \/ i = Len(queue) + 1
    BY <2>1, AppendFacts DEF TypeOK
  <2>3. \A i \in 1..Len(queue) : queue'[i].op \notin {"GetVersion", "GetRole"}
    BY <2>1, AppendFacts DEF TypeOK
  <2>4. Len(queue') = Len(queue) + 1 /\ queue'[Len(queue) + 1] = c
    BY <2>1, AppendFacts DEF TypeOK
  <2>. QED  BY <1>1, <2>2, <2>3, <2>4 DEF GetsLast
<1>2. CASE ~HasCache
  <2>1. queue' = queue
    BY <1>2 DEF Send
  <2>. QED  BY <2>1 DEF GetsLast
<1>. QED  BY <1>1, <1>2

(* Sending a command that carries no replaced version leaves every replaced one
   covered; sending the DEL covers those of the user whose row was rotated. *)
LEMMA SendKeepsCleared ==
    ASSUME TypeOK, StaleCleared, NoCache, NEW c \in Command, Send(c),
           UNCHANGED <<version, verCache>>,
           c.op = "SetVersion" => c.ver = version[c.user],
           \A u \in Users : BeingDeleted(u) => BeingDeleted(u)' \/ (c.op = "DelVersion" /\ c.user = u)
    PROVE  StaleCleared' /\ NoCache'
<1>1. NoCache'
  BY DEF NoCache, Send
<1>2. CASE ~HasCache
  <2>1. queue' = <<>> /\ queue = <<>> /\ \A u \in Users : verCache'[u] = NoVersion
    BY <1>2 DEF NoCache, Send
  <2>2. Len(queue') = 0
    BY <2>1, EmptySeq
  <2>. QED  BY <1>1, <2>1, <2>2 DEF StaleCleared
<1>3. CASE HasCache
  <2>1. queue' = Append(queue, c)
    BY <1>3 DEF Send
  <2>2. SUFFICES ASSUME NEW u \in Users, ~BeingDeleted(u)'
                 PROVE  /\ verCache'[u] \notin {NoVersion, version'[u]} => Cleared(0, u)'
                        /\ \A i \in 1..Len(queue') :
                              queue'[i].op = "SetVersion" /\ queue'[i].user = u /\ queue'[i].ver # version'[u]
                                => Cleared(i, u)'
    BY <1>1 DEF StaleCleared
  <2>3. \A i \in Nat : Cleared(i, u) \/ (i <= Len(queue) /\ c.op = "DelVersion" /\ c.user = u)
                          => Cleared(i, u)'
    BY <2>1, ClearedBySend
  <2>4. ~BeingDeleted(u) \/ (c.op = "DelVersion" /\ c.user = u)
    BY <2>2
  <2>5. verCache'[u] \notin {NoVersion, version'[u]} => Cleared(0, u)'
    <3>1. 0 \in Nat /\ 0 <= Len(queue)
      BY LenProperties DEF TypeOK
    <3>. QED  BY <2>3, <2>4, <3>1 DEF StaleCleared
  <2>6. ASSUME NEW i \in 1..Len(queue'),
               queue'[i].op = "SetVersion", queue'[i].user = u, queue'[i].ver # version'[u]
        PROVE  Cleared(i, u)'
    <3>1. i \in Nat /\ i <= Len(queue) + 1 /\ (i # Len(queue) + 1 => i \in 1..Len(queue) /\ queue'[i] = queue[i])
      BY <2>1, AppendFacts, LenProperties DEF TypeOK
    <3>2. i # Len(queue) + 1
      BY <2>1, <2>6, AppendFacts DEF TypeOK
    <3>. QED  BY <2>3, <2>4, <2>6, <3>1, <3>2 DEF StaleCleared
  <2>. QED  BY <2>5, <2>6
<1>. QED  BY <1>2, <1>3

(* Steps that send nothing keep the queue's facts when no row and no copy changes. *)
LEMMA QuietKeepsQueue ==
    ASSUME IInv, UNCHANGED <<version, verCache, queue>>,
           \A w \in Workers : pc[w] \in {"getVersion", "getRole"} =>
                                pc'[w] = pc[w] /\ user'[w] = user[w],
           \A u \in Users : BeingDeleted(u) => BeingDeleted(u)'
    PROVE  GetsLast' /\ StaleCleared' /\ NoCache'
<1>1. GetsLast'
  <2>1. \A i \in 1..Len(queue) : queue[i] \in Command
    BY ElementOfSeq DEF IInv, TypeOK
  <2>2. \A i \in 1..Len(queue) : queue[i].by \in Workers
    BY <2>1 DEF Command
  <2>. QED  BY <2>2 DEF IInv, GetsLast
<1>2. StaleCleared'
  BY DEF IInv, StaleCleared, Cleared
<1>3. NoCache'
  BY DEF IInv, NoCache
<1>. QED  BY <1>1, <1>2, <1>3

(* The steps of a worker. *)
LEMMA WorkInv ==
    ASSUME IInv, OneWorker, Reliable, TypeOK', NEW w \in Workers, Work(w)
    PROVE  IInv'
<1> USE DEF NoVersion, NoRole, Goto, store, redis, history
<1> DEFINE Free == pc[w] \notin {"getVersion", "getRole"}
<1>1. Workers = {w} /\ TypeOK /\ user[w] \in Users /\ found[w] \in Nat /\ presented[w] \in Nat
  BY DEF OneWorker, IInv, TypeOK
<1>2. Free
  BY DEF Work, LoginIssue, LoadVersion, PopulateVersion, Reject, Accept, LoadRole, Handle,
         FindUser, UpdateRow, DeleteCached
<1>3. \A i \in 1..Len(queue) : queue[i].op \notin {"GetVersion", "GetRole"}
  BY <1>1, <1>2, NoGetQueued
<1>4. CASE LoginIssue(w)
  <2>1. LocalInv'
    BY <1>1, <1>4 DEF LoginIssue, IInv, LocalInv, PassedFilter
  <2>. DEFINE c == Cmd("SetVersion", w, found[w], NoRole)
  <2>2. c \in Command /\ Send(c) /\ c.op = "SetVersion" /\ c.user = user[w] /\ c.ver = version[user[w]]
    BY <1>1, <1>4, CmdType DEF LoginIssue, Cmd, Op, IInv, LocalInv
  <2>3. GetsLast'
    BY <1>1, <1>3, <2>2, SendKeepsGets
  <2>4. \A u \in Users : ~BeingDeleted(u)
    BY <1>1, <1>4 DEF LoginIssue, BeingDeleted
  <2>5. StaleCleared' /\ NoCache'
    BY <1>1, <1>4, <2>2, <2>4, SendKeepsCleared DEF LoginIssue, IInv
  <2>. QED  BY <2>1, <2>3, <2>5 DEF IInv
<1>5. CASE LoadVersion(w) \/ Reject(w) \/ Handle(w) \/ FindUser(w)
  <2>1. /\ UNCHANGED <<version, generated, verCache, queue, presented, user>>
        /\ pc[w] \in {"load", "compare", "handle", "findUser"}
        /\ rotated' = rotated
    BY <1>5 DEF LoadVersion, Reject, Handle, FindUser, AnswerLogout
  <2>2. \/ pc' = [pc EXCEPT ![w] = "populate"] /\ found' = [found EXCEPT ![w] = version[user[w]]]
        \/ pc' = [pc EXCEPT ![w] = "idle"]
        \/ pc' = [pc EXCEPT ![w] = "findUser"] /\ pc[w] = "handle"
        \/ pc' = [pc EXCEPT ![w] = "update"] /\ pc[w] = "findUser"
    <3>1. CASE LoadVersion(w)
      BY <3>1 DEF LoadVersion
    <3>2. CASE Reject(w) \/ Handle(w)
      BY <3>2 DEF Reject, Handle
    <3>3. CASE FindUser(w)
      BY <3>3 DEF FindUser, AnswerLogout
    <3>. QED  BY <1>5, <3>1, <3>2, <3>3
  <2>3. LocalInv'
    BY <1>1, <2>1, <2>2 DEF IInv, LocalInv, PassedFilter, TypeOK
  <2>4. \A u \in Users : ~BeingDeleted(u)
    BY <1>1, <2>1 DEF BeingDeleted
  <2>5. GetsLast' /\ StaleCleared' /\ NoCache'
    BY <1>1, <2>1, <2>4, QuietKeepsQueue
  <2>. QED  BY <2>3, <2>5 DEF IInv
<1>6. CASE PopulateVersion(w)
  <2>1. LocalInv'
    BY <1>1, <1>6 DEF PopulateVersion, IInv, LocalInv, PassedFilter, TypeOK
  <2>. DEFINE c == Cmd("SetVersion", w, found[w], NoRole)
  <2>2. c \in Command /\ Send(c) /\ c.op = "SetVersion" /\ c.user = user[w] /\ c.ver = version[user[w]]
    BY <1>1, <1>6, CmdType DEF PopulateVersion, Cmd, Op, IInv, LocalInv
  <2>3. GetsLast'
    BY <1>1, <1>3, <2>2, SendKeepsGets
  <2>4. \A u \in Users : ~BeingDeleted(u)
    BY <1>1, <1>6 DEF PopulateVersion, BeingDeleted
  <2>5. StaleCleared' /\ NoCache'
    BY <1>1, <1>6, <2>2, <2>4, SendKeepsCleared DEF PopulateVersion, IInv
  <2>. QED  BY <2>1, <2>3, <2>5 DEF IInv
<1>7. CASE Accept(w)
  <2>1. LocalInv'
    BY <1>1, <1>7 DEF Accept, IInv, LocalInv, PassedFilter, TypeOK
  <2>. DEFINE c == Cmd("GetRole", w, NoVersion, NoRole)
  <2>2. c \in Command /\ Send(c) /\ c.op = "GetRole" /\ c.user = user[w] /\ c.by = w
    BY <1>1, <1>7, CmdType DEF Accept, Cmd, Op
  <2>3. HasCache => pc'[w] = "getRole" /\ user'[w] = user[w]
    BY <1>1, <1>7 DEF Accept, TypeOK
  <2>4. GetsLast'
    BY <1>1, <1>3, <2>2, <2>3, SendKeepsGets
  <2>5. \A u \in Users : ~BeingDeleted(u)
    BY <1>1, <1>7 DEF Accept, BeingDeleted
  <2>6. StaleCleared' /\ NoCache'
    BY <1>1, <1>7, <2>2, <2>5, SendKeepsCleared DEF Accept, IInv
  <2>. QED  BY <2>1, <2>4, <2>6 DEF IInv
<1>8. CASE LoadRole(w)
  <2>1. LocalInv'
    BY <1>1, <1>8 DEF LoadRole, IInv, LocalInv, PassedFilter, TypeOK
  <2>2. PICK r \in Role : Send(Cmd("SetRole", w, NoVersion, r))
    BY <1>8 DEF LoadRole, Role
  <2>. DEFINE c == Cmd("SetRole", w, NoVersion, r)
  <2>3. c \in Command /\ Send(c) /\ c.op = "SetRole" /\ c.user = user[w]
    BY <1>1, <2>2, CmdType DEF Cmd, Op
  <2>4. GetsLast'
    BY <1>1, <1>3, <2>3, SendKeepsGets
  <2>5. \A u \in Users : ~BeingDeleted(u)
    BY <1>1, <1>8 DEF LoadRole, BeingDeleted
  <2>6. StaleCleared' /\ NoCache'
    BY <1>1, <1>8, <2>3, <2>5, SendKeepsCleared DEF LoadRole, IInv
  <2>. QED  BY <2>1, <2>4, <2>6 DEF IInv
<1>9. CASE UpdateRow(w)
  <2>1. CASE /\ generated' = generated + 1 /\ version' = [version EXCEPT ![user[w]] = generated + 1]
             /\ Goto(w, "delete") /\ UNCHANGED history
    <3>1. UNCHANGED <<verCache, queue, user, presented, found>>
      BY <1>9 DEF UpdateRow
    <3>2. generated \in Nat /\ \A u \in Users : version[u] \in Nat /\ version[u] <= generated
      BY <1>1 DEF IInv, LocalInv, TypeOK, Version
    <3>3. \A u \in Users : version'[u] \in Nat /\ version[u] <= version'[u]
                            /\ version'[u] <= generated' /\ (u # user[w] => version'[u] = version[u])
      <4>1. \A u \in Users : version'[u] = IF u = user[w] THEN generated + 1 ELSE version[u]
        BY <1>1, <2>1 DEF TypeOK
      <4>. QED  BY <2>1, <3>2, <4>1
    <3>4. version[user[w]] < version'[user[w]] /\ presented[w] = version[user[w]] /\ pc'[w] = "delete"
      BY <1>1, <1>9, <2>1, <3>2 DEF UpdateRow, IInv, LocalInv, TypeOK
    <3>5. \A t \in rotated : t[2] < version'[t[1]]
      <4>1. \A t \in rotated : t[1] \in Users /\ t[2] \in Nat /\ t[2] < version[t[1]]
        BY <1>1 DEF IInv, LocalInv, TypeOK, Token
      <4>. QED  BY <3>2, <3>3, <4>1
    <3>6. LocalInv'
      BY <1>1, <2>1, <3>1, <3>3, <3>4, <3>5 DEF LocalInv, PassedFilter
    <3>7. GetsLast'
      BY <1>3, <3>1 DEF GetsLast
    <3>8. BeingDeleted(user[w])' /\ \A u \in Users : ~BeingDeleted(u)
      BY <1>1, <1>9, <3>1, <3>4 DEF BeingDeleted, UpdateRow
    <3>9. StaleCleared' /\ NoCache'
      BY <1>1, <3>1, <3>3, <3>8 DEF IInv, StaleCleared, NoCache, Cleared
    <3>. QED  BY <3>6, <3>7, <3>9 DEF IInv
  <2>2. CASE AnswerLogout(w, {}) /\ UNCHANGED <<version, generated>>
    <3>1. /\ UNCHANGED <<version, generated, verCache, queue, user, presented, found>>
          /\ pc' = [pc EXCEPT ![w] = "idle"] /\ rotated' = rotated /\ pc[w] = "update"
      BY <1>9, <2>2 DEF UpdateRow, AnswerLogout
    <3>2. LocalInv'
      BY <1>1, <3>1 DEF IInv, LocalInv, PassedFilter, TypeOK
    <3>3. \A u \in Users : ~BeingDeleted(u)
      BY <1>1, <3>1 DEF BeingDeleted
    <3>4. GetsLast' /\ StaleCleared' /\ NoCache'
      BY <1>1, <3>1, <3>3, QuietKeepsQueue
    <3>. QED  BY <3>2, <3>4 DEF IInv
  <2>. QED  BY <1>9, <2>1, <2>2 DEF UpdateRow, Reliable
<1>10. CASE DeleteCached(w)
  <2>1. /\ UNCHANGED <<version, generated, verCache, user, presented, found>> /\ pc[w] = "delete"
        /\ pc' = [pc EXCEPT ![w] = "idle"] /\ rotated' = rotated \cup {<<user[w], presented[w]>>}
    BY <1>10 DEF DeleteCached, AnswerLogout
  <2>2. LocalInv'
    BY <1>1, <2>1 DEF IInv, LocalInv, PassedFilter, TypeOK
  <2>. DEFINE c == Cmd("DelVersion", w, NoVersion, NoRole)
  <2>3. c \in Command /\ Send(c) /\ c.op = "DelVersion" /\ c.user = user[w]
    BY <1>1, <1>10, CmdType DEF DeleteCached, Cmd, Op
  <2>4. GetsLast'
    BY <1>1, <1>3, <2>3, SendKeepsGets
  <2>5. \A u \in Users : BeingDeleted(u) => u = user[w]
    BY <1>1 DEF BeingDeleted
  <2>6. StaleCleared' /\ NoCache'
    BY <1>1, <2>1, <2>3, <2>5, SendKeepsCleared DEF IInv
  <2>. QED  BY <2>2, <2>4, <2>6 DEF IInv
<1>. QED
  BY <1>4, <1>5, <1>6, <1>7, <1>8, <1>9, <1>10 DEF Work

(* The steps of Redis: the head of the queue is executed. *)
LEMMA RedisInv ==
    ASSUME IInv, OneWorker, Reliable, TypeOK', Redis
    PROVE  IInv'
<1> USE DEF NoVersion, NoRole, Goto, store, locals, history
<1>1. TypeOK /\ LocalInv /\ GetsLast /\ StaleCleared /\ NoCache
  BY DEF IInv
<1>2. /\ queue # <<>> /\ queue' = Tail(queue) /\ Head(queue) = queue[1] /\ Head(queue) \in Command
      /\ Len(queue) \in Nat \ {0} /\ Len(queue') = Len(queue) - 1
      /\ \A i \in 1..Len(queue') : queue'[i] = queue[i + 1] /\ i + 1 \in 1..Len(queue)
  <2>1. queue # <<>> /\ queue' = Tail(queue)
    BY DEF Redis, ExecSetVersion, ExecDelVersion, ExecSetRole, ExecGetVersion, ExecGetRole,
           FailCommand, Reliable
  <2>. QED  BY <1>1, <2>1, TailFacts DEF TypeOK
<1>3. HasCache /\ NoCache'
  BY <1>1, <1>2, SwitchAssumption DEF NoCache
<1>4. \A i \in Nat, u \in Users : Cleared(i + 1, u) => Cleared(i, u)'
  BY <1>1, <1>2, ClearedByTail
<1>5. ASSUME UNCHANGED version, \A u \in Users : BeingDeleted(u) => BeingDeleted(u)',
             \A u \in Users : ~BeingDeleted(u) /\ verCache'[u] \notin {NoVersion, version[u]}
                                => Cleared(0, u)'
      PROVE  StaleCleared'
  <2>1. SUFFICES ASSUME NEW u \in Users, ~BeingDeleted(u), NEW i \in 1..Len(queue'),
                        queue'[i].op = "SetVersion", queue'[i].user = u, queue'[i].ver # version[u]
                 PROVE  Cleared(i, u)'
    BY <1>5 DEF StaleCleared
  <2>2. Cleared(i + 1, u)
    BY <1>1, <1>2, <2>1 DEF StaleCleared
  <2>. QED  BY <1>4, <2>2
<1>6. ASSUME NEW u \in Users, Cleared(0, u),
             ~(queue[1].op = "DelVersion" /\ queue[1].user = u)
      PROVE  Cleared(0, u)'
  <2>1. PICK j \in 1..Len(queue) : queue[j].op = "DelVersion" /\ queue[j].user = u
    BY <1>6 DEF Cleared
  <2>2. j - 1 \in 1..Len(queue') /\ queue'[j - 1] = queue[j]
    BY <1>2, <1>6, <2>1
  <2>. QED  BY <2>1, <2>2 DEF Cleared
<1>11. ASSUME UNCHANGED <<pc, user>> PROVE GetsLast'
  <2>1. ASSUME NEW i \in 1..Len(queue')
        PROVE  /\ i + 1 \in 1..Len(queue) /\ queue'[i] = queue[i + 1]
               /\ i + 1 = Len(queue) <=> i = Len(queue')
    BY <1>2
  <2>2. ASSUME NEW i \in 1..Len(queue'), queue'[i].op = "GetVersion"
        PROVE  i = Len(queue') /\ pc'[queue'[i].by] = "getVersion" /\ user'[queue'[i].by] = queue'[i].user
    BY <1>1, <1>11, <2>1, <2>2 DEF GetsLast
  <2>3. ASSUME NEW i \in 1..Len(queue'), queue'[i].op = "GetRole"
        PROVE  i = Len(queue') /\ pc'[queue'[i].by] = "getRole" /\ user'[queue'[i].by] = queue'[i].user
    BY <1>1, <1>11, <2>1, <2>3 DEF GetsLast
  <2>. QED  BY <2>2, <2>3 DEF GetsLast
<1>7. CASE ExecSetVersion
  <2>1. /\ queue[1].op = "SetVersion" /\ UNCHANGED <<version, generated, pc, user, presented, found, rotated>>
        /\ verCache' = [verCache EXCEPT ![queue[1].user] = queue[1].ver]
    BY <1>2, <1>7 DEF ExecSetVersion
  <2>2. LocalInv'
    BY <1>1, <2>1 DEF LocalInv, PassedFilter
  <2>. GetsLast'
    BY <1>1, <1>2, <2>1, <1>11
  <2>3. \A u \in Users : BeingDeleted(u)' <=> BeingDeleted(u)
    BY <2>1 DEF BeingDeleted
  <2>4. ASSUME NEW u \in Users, ~BeingDeleted(u), verCache'[u] \notin {NoVersion, version[u]}
        PROVE  Cleared(0, u)'
    <3>1. CASE u = queue[1].user
      <4>1. Cleared(1, u)
        BY <1>1, <1>2, <2>1, <2>4, <3>1 DEF StaleCleared, TypeOK
      <4>. QED  BY <1>4, <4>1
    <3>2. CASE u # queue[1].user
      <4>1. Cleared(0, u)
        BY <1>1, <2>1, <2>4, <3>2 DEF StaleCleared, TypeOK
      <4>. QED  BY <1>6, <2>1, <4>1
    <3>. QED  BY <3>1, <3>2
  <2>5. StaleCleared'
    BY <1>5, <2>1, <2>3, <2>4
  <2>. QED  BY <1>3, <2>2, <2>5 DEF IInv
<1>8. CASE ExecDelVersion
  <2>1. /\ queue[1].op = "DelVersion" /\ UNCHANGED <<version, generated, pc, user, presented, found, rotated>>
        /\ verCache' = [verCache EXCEPT ![queue[1].user] = NoVersion]
    BY <1>2, <1>8 DEF ExecDelVersion
  <2>2. LocalInv'
    BY <1>1, <2>1 DEF LocalInv, PassedFilter
  <2>. GetsLast'
    BY <1>1, <1>2, <2>1, <1>11
  <2>3. \A u \in Users : BeingDeleted(u)' <=> BeingDeleted(u)
    BY <2>1 DEF BeingDeleted
  <2>4. ASSUME NEW u \in Users, ~BeingDeleted(u), verCache'[u] \notin {NoVersion, version[u]}
        PROVE  Cleared(0, u)'
    <3>1. u # queue[1].user
      BY <1>1, <2>1, <2>4 DEF TypeOK
    <3>2. Cleared(0, u)
      BY <1>1, <2>1, <2>4, <3>1 DEF StaleCleared, TypeOK
    <3>. QED  BY <1>6, <3>1, <3>2
  <2>5. StaleCleared'
    BY <1>5, <2>1, <2>3, <2>4
  <2>. QED  BY <1>3, <2>2, <2>5 DEF IInv
<1>9. CASE ExecSetRole
  <2>1. /\ queue[1].op = "SetRole"
        /\ UNCHANGED <<version, generated, verCache, pc, user, presented, found, rotated>>
    BY <1>2, <1>9 DEF ExecSetRole
  <2>2. LocalInv'
    BY <1>1, <2>1 DEF LocalInv, PassedFilter
  <2>. GetsLast'
    BY <1>1, <1>2, <2>1, <1>11
  <2>3. \A u \in Users : BeingDeleted(u)' <=> BeingDeleted(u)
    BY <2>1 DEF BeingDeleted
  <2>4. ASSUME NEW u \in Users, ~BeingDeleted(u), verCache'[u] \notin {NoVersion, version[u]}
        PROVE  Cleared(0, u)'
    <3>1. Cleared(0, u)
      BY <1>1, <2>1, <2>4 DEF StaleCleared
    <3>. QED  BY <1>6, <2>1, <3>1
  <2>5. StaleCleared'
    BY <1>5, <2>1, <2>3, <2>4
  <2>. QED  BY <1>3, <2>2, <2>5 DEF IInv
<1>10. CASE ExecGetVersion \/ ExecGetRole
  <2>. DEFINE w == queue[1].by
  <2>1. queue[1].op \in {"GetVersion", "GetRole"} /\ UNCHANGED <<version, generated, verCache, user, presented, rotated>>
    BY <1>2, <1>10 DEF ExecGetVersion, ExecGetRole
  <2>2. w \in Workers /\ Workers = {w} /\ user[w] \in Users
    BY <1>1, <1>2 DEF OneWorker, Command, TypeOK
  <2>3. /\ Len(queue) = 1 /\ Len(queue') = 0
        /\ user[w] = queue[1].user
        /\ pc[w] = IF queue[1].op = "GetVersion" THEN "getVersion" ELSE "getRole"
    <3>1. 1 \in 1..Len(queue)
      BY <1>2
    <3>2. Len(queue) = 1 /\ user[w] = queue[1].user
          /\ pc[w] = IF queue[1].op = "GetVersion" THEN "getVersion" ELSE "getRole"
      BY <1>1, <2>1, <3>1 DEF GetsLast
    <3>3. Len(queue') = 0
      BY <1>2, <3>2
    <3>. QED  BY <3>2, <3>3
  <2>4. \A u \in Users : ~BeingDeleted(u) /\ ~Cleared(0, u)
    BY <2>1, <2>2, <2>3 DEF BeingDeleted, Cleared
  <2>5. \A u \in Users : verCache[u] \in {NoVersion, version[u]}
    BY <1>1, <2>4 DEF StaleCleared
  <2>6. GetsLast' /\ StaleCleared'
    BY <2>1, <2>3, <2>4, <2>5 DEF GetsLast, StaleCleared
  <2>7. LocalInv'
    <3>1. CASE ExecGetVersion
      <4>1. \/ pc' = [pc EXCEPT ![w] = "compare"] /\ found' = [found EXCEPT ![w] = version[user[w]]]
            \/ pc' = [pc EXCEPT ![w] = "load"]
        BY <1>2, <2>2, <2>3, <2>5, <3>1 DEF ExecGetVersion
      <4>. QED  BY <1>1, <2>1, <2>2, <4>1 DEF LocalInv, PassedFilter, TypeOK
    <3>2. CASE ExecGetRole
      <4>1. /\ pc' = [pc EXCEPT ![w] = "handle"] \/ pc' = [pc EXCEPT ![w] = "loadRole"]
            /\ found' = found /\ pc[w] = "getRole"
        BY <1>2, <2>3, <3>2 DEF ExecGetRole
      <4>. QED  BY <1>1, <2>1, <2>2, <4>1 DEF LocalInv, PassedFilter, TypeOK
    <3>. QED  BY <1>10, <3>1, <3>2
  <2>. QED  BY <1>3, <2>6, <2>7 DEF IInv
<1>. QED
  BY <1>7, <1>8, <1>9, <1>10 DEF Redis, FailCommand, Reliable

LEMMA NextInv ==
    ASSUME OneWorker, Reliable
    PROVE  IInv /\ [Next]_vars => IInv'
<1> SUFFICES ASSUME IInv, [Next]_vars PROVE IInv'
  OBVIOUS
<1> USE DEF NoVersion, NoRole, Goto, store, redis, locals, history
<1>1. TypeOK /\ LocalInv /\ GetsLast /\ StaleCleared /\ NoCache /\ TypeOK'
  BY NextType DEF IInv
<1>2. CASE UNCHANGED vars
  BY <1>1, <1>2 DEF vars, IInv, LocalInv, GetsLast, StaleCleared, NoCache, PassedFilter, Cleared, BeingDeleted
<1>3. ASSUME NEW w \in Workers, NEW u \in Users, LoginRead(w, u) PROVE IInv'
  <2>1. /\ UNCHANGED <<version, generated, verCache, queue, presented, rotated>> /\ pc[w] = "idle"
        /\ pc' = [pc EXCEPT ![w] = "issue"] /\ user' = [user EXCEPT ![w] = u]
        /\ found' = [found EXCEPT ![w] = version[u]]
    BY <1>3 DEF LoginRead
  <2>2. Workers = {w}
    BY DEF OneWorker
  <2>3. LocalInv'
    BY <1>1, <2>1, <2>2 DEF LocalInv, PassedFilter, TypeOK
  <2>4. \A v \in Users : ~BeingDeleted(v)
    BY <2>1, <2>2 DEF BeingDeleted
  <2>5. GetsLast' /\ StaleCleared' /\ NoCache'
    BY <2>1, <2>2, <2>4, QuietKeepsQueue
  <2>. QED  BY <1>1, <2>3, <2>5 DEF IInv
<1>4. ASSUME NEW w \in Workers, NEW t \in tokens, NEW r \in {"use", "logout"}, Request(w, t, r)
      PROVE IInv'
  <2>. DEFINE c == [op |-> "GetVersion", user |-> t[1], ver |-> NoVersion, role |-> NoRole, by |-> w]
  <2>1. /\ UNCHANGED <<version, generated, verCache, found, rotated>> /\ pc[w] = "idle"
        /\ pc' = [pc EXCEPT ![w] = IF HasCache THEN "getVersion" ELSE "load"]
        /\ user' = [user EXCEPT ![w] = t[1]] /\ Send(c)
        /\ presented' = [presented EXCEPT ![w] = t[2]]
    BY <1>4 DEF Request
  <2>2. Workers = {w}
    BY DEF OneWorker
  <2>3. c \in Command /\ c.op = "GetVersion" /\ c.user = t[1] /\ c.by = w
    BY <1>1 DEF Command, Op, TypeOK, Token
  <2>4. \A i \in 1..Len(queue) : queue[i].op \notin {"GetVersion", "GetRole"}
    BY <2>1, NoGetQueued
  <2>5. HasCache => pc'[w] = "getVersion" /\ user'[w] = t[1]
    BY <1>1, <2>1 DEF TypeOK
  <2>6. GetsLast'
    BY <1>1, <2>1, <2>3, <2>4, <2>5, SendKeepsGets
  <2>7. LocalInv'
    BY <1>1, <2>1, <2>2 DEF LocalInv, PassedFilter, TypeOK
  <2>8. \A v \in Users : ~BeingDeleted(v)
    BY <2>1, <2>2 DEF BeingDeleted
  <2>9. StaleCleared' /\ NoCache'
    BY <1>1, <2>1, <2>3, <2>8, SendKeepsCleared
  <2>. QED  BY <1>1, <2>6, <2>7, <2>9 DEF IInv
<1>5. ASSUME NEW u \in Users, ExpireVersion(u) PROVE IInv'
  <2>1. /\ UNCHANGED <<version, generated, queue, pc, user, presented, found, rotated>>
        /\ verCache' = [verCache EXCEPT ![u] = NoVersion]
    BY <1>5 DEF ExpireVersion
  <2>2. LocalInv' /\ GetsLast' /\ NoCache'
    BY <1>1, <2>1 DEF LocalInv, GetsLast, NoCache, PassedFilter, TypeOK
  <2>3. \A v \in Users : verCache'[v] \in {NoVersion, verCache[v]} /\ (BeingDeleted(v)' <=> BeingDeleted(v))
    BY <1>1, <2>1 DEF BeingDeleted, TypeOK
  <2>4. \A i \in Nat, v \in Users : Cleared(i, v)' <=> Cleared(i, v)
    BY <2>1 DEF Cleared
  <2>5. ASSUME NEW v \in Users, ~BeingDeleted(v)', verCache'[v] \notin {NoVersion, version'[v]}
        PROVE  Cleared(0, v)'
    BY <1>1, <2>1, <2>3, <2>4, <2>5 DEF StaleCleared
  <2>6. ASSUME NEW v \in Users, ~BeingDeleted(v)', NEW i \in 1..Len(queue'),
               queue'[i].op = "SetVersion", queue'[i].user = v, queue'[i].ver # version'[v]
        PROVE  Cleared(i, v)'
    <3>1. i \in Nat /\ i \in 1..Len(queue)
      BY <1>1, <2>1, LenProperties DEF TypeOK
    <3>. QED  BY <1>1, <2>1, <2>3, <2>4, <2>6, <3>1 DEF StaleCleared
  <2>7. StaleCleared'
    BY <2>5, <2>6 DEF StaleCleared
  <2>. QED  BY <1>1, <2>2, <2>7 DEF IInv
<1>6. ASSUME UNCHANGED <<version, generated, verCache, queue, pc, user, presented, found, rotated>>
      PROVE  IInv'
  BY <1>1, <1>6 DEF IInv, LocalInv, GetsLast, StaleCleared, NoCache, PassedFilter, Cleared, BeingDeleted
<1>7. ASSUME NEW u \in Users, ExpireRole(u) PROVE IInv'
  BY <1>6, <1>7 DEF ExpireRole
<1>8. ASSUME NEW t \in tokens, ExpireToken(t) PROVE IInv'
  BY <1>6, <1>8 DEF ExpireToken
<1>. QED
  BY <1>1, <1>2, <1>3, <1>4, <1>5, <1>7, <1>8, WorkInv, RedisInv DEF Next, Restart, Reliable

LEMMA InitInv == Init => IInv
<1> SUFFICES ASSUME Init PROVE IInv
  OBVIOUS
<1>1. TypeOK
  BY InitType
<1>2. LocalInv
  BY DEF Init, LocalInv, PassedFilter
<1>3. Len(queue) = 0 /\ queue = <<>>
  BY EmptySeq DEF Init
<1>4. GetsLast /\ StaleCleared /\ NoCache
  BY <1>3 DEF Init, GetsLast, StaleCleared, NoCache
<1>. QED  BY <1>1, <1>2, <1>4 DEF IInv

LEMMA SerialInvariant ==
    ASSUME OneWorker, Reliable
    PROVE  Spec => []IInv
<1>1. Init => IInv
  BY InitInv
<1>2. IInv /\ [Next]_vars => IInv'
  BY NextInv
<1>. QED
  BY <1>1, <1>2, PTL DEF Spec

(* With one worker, a Redis that executes its commands and an UPDATE that is not
   taken for a failed one, the version every token is compared with is the one in
   the user's row, also where statements fail. *)
THEOREM VerdictCorrect ==
    ASSUME OneWorker, Reliable
    PROVE  Spec => []VerdictIsCurrent
<1>1. IInv => VerdictIsCurrent
  BY DEF IInv, LocalInv, VerdictIsCurrent
<1>. QED
  BY <1>1, SerialInvariant, PTL

(* ... and a token whose logout replaced the version is never accepted again,
   whichever statements fail in the database. *)
THEOREM RevocationCorrect ==
    ASSUME OneWorker, Reliable
    PROVE  Spec => []RotatedNeverAccepted
<1>1. IInv => RotatedNeverAccepted
  <2> SUFFICES ASSUME IInv, NEW w \in Workers, PassedFilter(w), <<user[w], presented[w]>> \in rotated
               PROVE  FALSE
    BY DEF RotatedNeverAccepted
  <2>1. presented[w] < version[user[w]] /\ presented[w] = version[user[w]]
    BY DEF IInv, LocalInv
  <2>. QED  BY <2>1 DEF IInv, TypeOK, Version
<1>. QED
  BY <1>1, SerialInvariant, PTL

-----------------------------------------------------------------------------
(* The session implements TokenAuthority. *)

(* Who is issued a token is active, and only the logout route rotates. *)
RouteInv ==
    \A w \in Workers :
        /\ pc[w] = "issue" => user[w] \in Active
        /\ pc[w] \in {"findUser", "update"} => wants[w] = "logout"

LEMMA NextRoute ==
    ASSUME TypeOK, RouteInv, [Next]_vars
    PROVE  RouteInv'
<1> USE DEF Goto, store, redis, locals, history
<1>1. ASSUME NEW w \in Workers, pc'[w] # "issue",
             pc'[w] \in {"findUser", "update"} => wants'[w] = "logout",
             \A v \in Workers \ {w} : pc'[v] = pc[v] /\ user'[v] = user[v] /\ wants'[v] = wants[v]
      PROVE  RouteInv'
  BY <1>1 DEF RouteInv
<1>2. ASSUME NEW w \in Workers, NEW u \in Users, LoginRead(w, u) PROVE RouteInv'
  BY <1>2 DEF LoginRead, RouteInv, TypeOK
<1>3. ASSUME NEW w \in Workers, NEW t \in tokens, NEW r \in {"use", "logout"}, Request(w, t, r)
      PROVE  RouteInv'
  BY <1>1, <1>3 DEF Request, TypeOK
<1>4. ASSUME NEW w \in Workers, Work(w) PROVE RouteInv'
  BY <1>1, <1>4 DEF Work, LoginIssue, LoadVersion, PopulateVersion, Reject, Accept, LoadRole,
     Handle, FindUser, UpdateRow, DeleteCached, AnswerLogout, TypeOK, RouteInv
<1>5. CASE Redis
  <2>1. queue # <<>>
    BY <1>5 DEF Redis, ExecSetVersion, ExecDelVersion, ExecSetRole, ExecGetVersion, ExecGetRole,
       FailCommand
  <2>2. Head(queue) \in Command
    BY <2>1, TailFacts DEF TypeOK
  <2>3. Head(queue).by \in Workers
    BY <2>2 DEF Command
  <2>4. /\ UNCHANGED <<user, wants>>
        /\ UNCHANGED pc \/ (/\ pc'[Head(queue).by] \notin {"issue", "findUser", "update"}
                            /\ \A v \in Workers \ {Head(queue).by} : pc'[v] = pc[v])
    BY <1>5, <2>3 DEF Redis, ExecSetVersion, ExecDelVersion, ExecSetRole, ExecGetVersion,
       ExecGetRole, FailCommand, TypeOK
  <2>. QED  BY <1>1, <2>3, <2>4 DEF RouteInv
<1>6. CASE UNCHANGED <<pc, user, wants>>
  BY <1>6 DEF RouteInv
<1>7. CASE Restart
  BY <1>7 DEF Restart, RouteInv
<1>. QED
  BY <1>2, <1>3, <1>4, <1>5, <1>6, <1>7
     DEF Next, vars, ExpireVersion, ExpireRole, ExpireToken

(* A step of a worker is a turn of its request, or none. *)
LEMMA Turns ==
    ASSUME NEW w \in Workers, NEW r, RequestOf(w)' = r,
           \A v \in Workers \ {w} : RequestOf(v)' = RequestOf(v)
    PROVE  Authority!Turn(w, r)
  BY DEF Authority!Turn

LEMMA SameRequests ==
    ASSUME \A w \in Workers : RequestOf(w)' = RequestOf(w), UNCHANGED <<version, generated, tokens>>
    PROVE  UNCHANGED <<version, 1..generated, tokens, [w \in Workers |-> RequestOf(w)]>>
  OBVIOUS

AuthorityVars == <<version, 1..generated, tokens, [w \in Workers |-> RequestOf(w)]>>

LEMMA WorkDecides ==
    ASSUME IInv, RouteInv, OneWorker, Reliable, NEW w \in Workers, Work(w)
    PROVE  Authority!Next \/ UNCHANGED AuthorityVars
<1> USE DEF Goto, store, redis, history
<1>1. /\ Workers = {w} /\ user[w] \in Users /\ generated \in Nat
      /\ version \in [Users -> Nat] /\ \A u \in Users : version[u] <= generated
  BY DEF OneWorker, IInv, TypeOK, LocalInv, Version
<1>2. pc \in [Workers -> Step] /\ presented \in [Workers -> Nat] /\ wants \in [Workers -> {"use", "logout"}]
  BY DEF IInv, TypeOK
<1>. DEFINE t == <<user[w], presented[w]>>
<1>3. ASSUME UNCHANGED <<version, generated, tokens>>, RequestOf(w)' = RequestOf(w)
      PROVE  UNCHANGED AuthorityVars
  BY <1>1, <1>3, SameRequests DEF AuthorityVars
<1>4. \A r : RequestOf(w)' = r => Authority!Turn(w, r)
  BY <1>1, Turns
<1>5. [v \in Workers |-> RequestOf(v)][w] = RequestOf(w)
  OBVIOUS
<1>6. CASE LoginIssue(w)
  <2>1. /\ pc[w] = "issue" /\ pc'[w] = "idle" /\ UNCHANGED <<version, generated>>
        /\ tokens' = tokens \cup {<<user[w], version[user[w]]>>}
    BY <1>2, <1>6 DEF LoginIssue, IInv, LocalInv
  <2>2. RequestOf(w)' = RequestOf(w)
    BY <2>1 DEF RequestOf
  <2>3. Authority!Issue(user[w])
    BY <1>1, <2>1, <2>2 DEF Authority!Issue, RouteInv
  <2>. QED  BY <1>1, <2>3 DEF Authority!Next
<1>7. CASE LoadVersion(w)
  <2>1. pc[w] = "load" /\ UNCHANGED <<version, generated, tokens, user, presented, wants>>
    BY <1>7 DEF LoadVersion
  <2>2. CASE pc'[w] = "populate"
    BY <1>3, <2>1, <2>2 DEF RequestOf
  <2>3. CASE DbFails /\ pc'[w] = "idle"
    <3>1. RequestOf(w).phase = "presented" /\ RequestOf(w)' = [phase |-> "none"]
      BY <2>1, <2>3 DEF RequestOf
    <3>2. Authority!Refuse(w)
      BY <1>4, <1>5, <2>1, <2>3, <3>1 DEF Authority!Refuse, Authority!None
    <3>. QED  BY <3>2 DEF Authority!Next
  <2>. QED  BY <1>2, <1>7, <2>2, <2>3 DEF LoadVersion
<1>8. CASE PopulateVersion(w)
  BY <1>2, <1>3, <1>8 DEF PopulateVersion, RequestOf
<1>9. CASE Reject(w)
  <2>1. /\ pc[w] = "compare" /\ pc'[w] = "idle" /\ version[user[w]] # presented[w]
        /\ UNCHANGED <<version, generated, tokens>>
    BY <1>2, <1>9 DEF Reject, IInv, LocalInv
  <2>2. /\ RequestOf(w).phase = "presented" /\ RequestOf(w).token = t
        /\ RequestOf(w)' = [phase |-> "none"]
    BY <2>1 DEF RequestOf
  <2>3. Authority!Refuse(w)
    BY <1>4, <1>5, <2>1, <2>2 DEF Authority!Refuse, Authority!None, Authority!Current
  <2>. QED  BY <2>3 DEF Authority!Next
<1>10. CASE Accept(w)
  <2>1. /\ pc[w] = "compare" /\ pc'[w] \in {"getRole", "loadRole"} /\ version[user[w]] = presented[w]
        /\ UNCHANGED <<version, generated, tokens, user, presented, wants>>
    BY <1>2, <1>10 DEF Accept, IInv, LocalInv
  <2>2. /\ RequestOf(w).phase = "presented" /\ RequestOf(w).token = t /\ RequestOf(w).route = wants[w]
        /\ RequestOf(w)' = Authority!Held(t, "accepted", wants[w])
    BY <2>1 DEF RequestOf, Authority!Held
  <2>3. Authority!Accept(w)
    BY <1>4, <1>5, <2>1, <2>2 DEF Authority!Accept, Authority!Current
  <2>. QED  BY <2>3 DEF Authority!Next
<1>11. CASE LoadRole(w)
  BY <1>2, <1>3, <1>11 DEF LoadRole, RequestOf
<1>12. CASE Handle(w)
  <2>1. /\ pc[w] = "handle" /\ pc'[w] = IF wants[w] = "logout" THEN "findUser" ELSE "idle"
        /\ UNCHANGED <<version, generated, tokens, user, presented, wants>>
    BY <1>2, <1>12 DEF Handle
  <2>2. CASE wants[w] = "logout"
    BY <1>3, <2>1, <2>2 DEF RequestOf
  <2>3. CASE wants[w] # "logout"
    <3>1. /\ RequestOf(w).phase = "accepted" /\ RequestOf(w).route = wants[w]
          /\ RequestOf(w)' = [phase |-> "none"]
      BY <2>1, <2>3 DEF RequestOf
    <3>2. Authority!End(w)
      BY <1>4, <1>5, <2>1, <2>3, <3>1 DEF Authority!End, Authority!None
    <3>. QED  BY <3>2 DEF Authority!Next
  <2>. QED  BY <2>2, <2>3
<1>13. ASSUME pc[w] \in {"findUser", "update"}, pc'[w] = "idle", DbFails,
              UNCHANGED <<version, generated, tokens>>
       PROVE  Authority!Next
  <2>1. RequestOf(w).phase = "accepted" /\ RequestOf(w)' = [phase |-> "none"]
    BY <1>13 DEF RequestOf
  <2>2. Authority!End(w)
    BY <1>4, <1>5, <1>13, <2>1 DEF Authority!End, Authority!None
  <2>. QED  BY <2>2 DEF Authority!Next
<1>14. CASE FindUser(w)
  <2>1. pc[w] = "findUser" /\ UNCHANGED <<version, generated, tokens, user, presented, wants>>
    BY <1>14 DEF FindUser
  <2>2. pc'[w] = "update" \/ (pc'[w] = "idle" /\ DbFails)
    BY <1>2, <1>14 DEF FindUser, AnswerLogout
  <2>3. CASE pc'[w] = "update"
    BY <1>3, <2>1, <2>3 DEF RequestOf
  <2>. QED  BY <1>13, <2>1, <2>2, <2>3
<1>15. CASE UpdateRow(w)
  <2>1. pc[w] = "update" /\ UNCHANGED <<tokens, user, presented, wants>>
    BY <1>15 DEF UpdateRow
  <2>2. CASE /\ generated' = generated + 1 /\ pc'[w] = "delete"
             /\ version' = [version EXCEPT ![user[w]] = generated + 1]
    <3>1. /\ version'[user[w]] = generated + 1 /\ generated + 1 \notin 1..generated
          /\ (1..generated)' = (1..generated) \cup {generated + 1}
      BY <1>1, <2>2
    <3>2. wants[w] = "logout"
      BY <2>1 DEF RouteInv
    <3>3. /\ RequestOf(w) = Authority!Held(t, "accepted", wants[w])
          /\ RequestOf(w)' = [phase |-> "none"]
      BY <2>1, <2>2 DEF RequestOf, Authority!Held
    <3>4. presented[w] = version[user[w]]
      BY <2>1 DEF IInv, LocalInv
    <3>5. /\ RequestOf(w).phase = "accepted" /\ RequestOf(w).route = "logout"
          /\ RequestOf(w).token = t
      BY <3>2, <3>3 DEF Authority!Held
    <3>6. /\ Authority!Current(t) /\ t[1] = user[w] /\ UNCHANGED tokens
          /\ Authority!Turn(w, Authority!None)
      BY <1>4, <2>1, <3>3, <3>4 DEF Authority!Current, Authority!None
    <3>7. /\ version'[user[w]] \notin 1..generated
          /\ version' = [version EXCEPT ![user[w]] = version'[user[w]]]
          /\ (1..generated)' = (1..generated) \cup {version'[user[w]]}
      BY <2>2, <3>1
    <3>8. Authority!Revoke(w)
      BY <1>5, <3>5, <3>6, <3>7 DEF Authority!Revoke
    <3>. QED  BY <3>8 DEF Authority!Next
  <2>3. CASE DbFails /\ AnswerLogout(w, {}) /\ UNCHANGED <<version, generated>>
    BY <1>2, <1>13, <2>1, <2>3 DEF AnswerLogout
  <2>. QED  BY <1>2, <1>15, <2>2, <2>3 DEF UpdateRow, Reliable
<1>16. CASE DeleteCached(w)
  BY <1>2, <1>3, <1>16 DEF DeleteCached, AnswerLogout, RequestOf
<1>. QED
  BY <1>6, <1>7, <1>8, <1>9, <1>10, <1>11, <1>12, <1>14, <1>15, <1>16 DEF Work

LEMMA RedisDecides ==
    ASSUME IInv, OneWorker, Redis
    PROVE  UNCHANGED AuthorityVars
<1> USE DEF Goto, store, locals, history
<1>1. queue # <<>>
  BY DEF Redis, ExecSetVersion, ExecDelVersion, ExecSetRole, ExecGetVersion, ExecGetRole, FailCommand
<1>2. /\ Head(queue) \in Command /\ Head(queue) = queue[1] /\ 1 \in 1..Len(queue)
  BY <1>1, TailFacts DEF IInv, TypeOK
<1>3. UNCHANGED <<version, generated, tokens, user, presented, wants>>
  BY DEF Redis, ExecSetVersion, ExecDelVersion, ExecSetRole, ExecGetVersion, ExecGetRole, FailCommand
<1>4. PICK w : Workers = {w}
  BY DEF OneWorker
<1>5. Head(queue).by = w
  BY <1>2, <1>4 DEF Command
<1>6. /\ Head(queue).op = "GetVersion" => pc[w] = "getVersion"
      /\ Head(queue).op = "GetRole" => pc[w] = "getRole"
  BY <1>2, <1>5 DEF IInv, GetsLast
<1>7. \/ UNCHANGED pc
      \/ Head(queue).op = "GetVersion" /\ pc'[w] \in {"compare", "load"}
      \/ Head(queue).op = "GetRole" /\ pc'[w] \in {"handle", "loadRole"}
  BY <1>4, <1>5 DEF Redis, ExecSetVersion, ExecDelVersion, ExecSetRole, ExecGetVersion,
     ExecGetRole, FailCommand, IInv, TypeOK
<1>8. RequestOf(w)' = RequestOf(w)
  BY <1>3, <1>6, <1>7 DEF RequestOf
<1>. QED  BY <1>3, <1>4, <1>8, SameRequests DEF AuthorityVars

LEMMA NextDecides ==
    ASSUME IInv, RouteInv, OneWorker, Reliable, [Next]_vars
    PROVE  Authority!Next \/ UNCHANGED AuthorityVars
<1> USE DEF Goto, store, redis, locals, history
<1>1. ASSUME NEW w \in Workers, NEW u \in Users, LoginRead(w, u) PROVE UNCHANGED AuthorityVars
  <2>1. pc[w] = "idle" /\ pc'[w] = "issue" /\ Workers = {w} /\ UNCHANGED <<version, generated, tokens>>
    BY <1>1 DEF LoginRead, OneWorker, IInv, TypeOK
  <2>2. RequestOf(w)' = RequestOf(w)
    BY <2>1 DEF RequestOf
  <2>. QED  BY <2>1, <2>2, SameRequests DEF AuthorityVars
<1>2. ASSUME NEW w \in Workers, NEW t \in tokens, NEW r \in {"use", "logout"}, Request(w, t, r)
      PROVE  Authority!Next
  <2>1. /\ pc[w] = "idle" /\ pc'[w] \in {"getVersion", "load"} /\ user'[w] = t[1]
        /\ presented'[w] = t[2] /\ wants'[w] = r /\ Workers = {w}
        /\ UNCHANGED <<version, generated, tokens>>
    BY <1>2 DEF Request, OneWorker, IInv, TypeOK
  <2>2. t = <<t[1], t[2]>>
    BY DEF IInv, TypeOK, Token
  <2>3. RequestOf(w) = Authority!None /\ RequestOf(w)' = Authority!Held(t, "presented", r)
    BY <2>1, <2>2 DEF RequestOf, Authority!None, Authority!Held
  <2>4. Authority!Turn(w, Authority!Held(t, "presented", r))
    BY <2>1, <2>3, Turns
  <2>5. Authority!Present(w, t, r)
    BY <2>1, <2>3, <2>4 DEF Authority!Present
  <2>. QED  BY <2>5 DEF Authority!Next
<1>3. CASE UNCHANGED <<version, generated, tokens, pc, user, presented, wants>>
  <2>1. \A w \in Workers : RequestOf(w)' = RequestOf(w)
    BY <1>3 DEF RequestOf
  <2>. QED  BY <1>3, <2>1, SameRequests DEF AuthorityVars
<1>4. ASSUME NEW t \in tokens, ExpireToken(t) PROVE Authority!Next
  <2>1. /\ tokens' = tokens \ {t}
        /\ UNCHANGED <<version, generated, pc, user, presented, wants>>
    BY <1>4 DEF ExpireToken
  <2>2. \A w \in Workers : RequestOf(w)' = RequestOf(w)
    BY <2>1 DEF RequestOf
  <2>3. Authority!Expire(t)
    BY <2>1, <2>2 DEF Authority!Expire
  <2>. QED  BY <2>3 DEF Authority!Next
<1>. QED
  BY <1>1, <1>2, <1>3, <1>4, WorkDecides, RedisDecides
     DEF Next, vars, ExpireVersion, ExpireRole, Restart, Reliable

(* To clients the copies in Redis do not exist: with one worker, a Redis that
   executes its commands and an UPDATE that is not taken for a failed one, every step of logins, requests, logouts, Redis and time
   is one of a session that asks the user's row, or invisible. *)
THEOREM SessionCorrect ==
    ASSUME OneWorker, Reliable
    PROVE  Spec => RowDecides
<1>1. Init => IInv /\ RouteInv /\ Authority!Init
  <2> SUFFICES ASSUME Init PROVE IInv /\ RouteInv /\ Authority!Init
    OBVIOUS
  <2>1. \A w \in Workers : RequestOf(w) = Authority!None
    BY DEF Init, RequestOf, Authority!None
  <2>2. Authority!Init
    BY <2>1 DEF Init, Authority!Init
  <2>. QED  BY <2>2, InitInv DEF Init, RouteInv
<1>2. IInv /\ RouteInv /\ [Next]_vars => (IInv /\ RouteInv)'
  BY NextInv, NextRoute DEF IInv
<1>3. IInv /\ RouteInv /\ [Next]_vars => Authority!Next \/ UNCHANGED AuthorityVars
  BY NextDecides
<1>. QED
  BY <1>1, <1>2, <1>3, PTL DEF Spec, RowDecides, Authority!Spec, AuthorityVars

-----------------------------------------------------------------------------
(* Any number of workers, any failing Redis command and any restart: roles only
   need the statements on the users table to succeed. *)

Exact(u) == IF u \in Admins THEN "admin" ELSE "viewer"
Gets == {"GetVersion", "GetRole"}

(* Whatever is on its way: a role that is stored is the row's, and a GET has the
   one worker that waits for it. *)
QueueExact ==
    /\ \A i \in 1..Len(queue) :
         /\ queue[i].op = "SetRole" => queue[i].role = Exact(queue[i].user)
         /\ queue[i].op = "GetVersion" => pc[queue[i].by] = "getVersion"
         /\ queue[i].op = "GetRole" =>
               pc[queue[i].by] = "getRole" /\ user[queue[i].by] = queue[i].user
    /\ \A i, j \in 1..Len(queue) :
         queue[i].op \in Gets /\ queue[j].op \in Gets /\ queue[i].by = queue[j].by => i = j

RoleInv ==
    /\ TypeOK /\ QueueExact
    /\ \A u \in Users : roleCache[u] \in {NoRole, Exact(u)}
    /\ \A w \in Workers : pc[w] = "handle" => role[w] = Exact(user[w])

LEMMA QueuedBy ==
    ASSUME TypeOK
    PROVE  \A i \in 1..Len(queue) : queue[i] \in Command /\ queue[i].by \in Workers
<1>1. \A i \in 1..Len(queue) : queue[i] \in Command
  BY DEF TypeOK
<1>. QED  BY <1>1 DEF Command

(* A worker that waits for no GET goes on without a command ... *)
LEMMA QuietRoles ==
    ASSUME RoleInv, TypeOK', NEW w \in Workers, pc[w] \notin {"getVersion", "getRole"},
           UNCHANGED <<queue, roleCache>>,
           \A v \in Workers \ {w} : pc'[v] = pc[v] /\ user'[v] = user[v] /\ role'[v] = role[v],
           pc'[w] = "handle" => role'[w] = Exact(user'[w])
    PROVE  RoleInv'
<1>1. \A i \in 1..Len(queue) : queue[i].by \in Workers /\ (queue[i].op \in Gets => queue[i].by # w)
  BY QueuedBy DEF RoleInv, QueueExact, Gets
<1>2. QueueExact'
  BY <1>1 DEF RoleInv, QueueExact, Gets
<1>. QED  BY <1>2 DEF RoleInv

(* ... or with one. *)
LEMMA SendRoles ==
    ASSUME RoleInv, TypeOK', NEW w \in Workers, pc[w] \notin {"getVersion", "getRole"},
           NEW c \in Command, Send(c), c.by = w, UNCHANGED roleCache,
           c.op = "SetRole" => c.role = Exact(c.user),
           HasCache /\ c.op = "GetVersion" => pc'[w] = "getVersion",
           HasCache /\ c.op = "GetRole" => pc'[w] = "getRole" /\ user'[w] = c.user,
           \A v \in Workers \ {w} : pc'[v] = pc[v] /\ user'[v] = user[v] /\ role'[v] = role[v],
           pc'[w] = "handle" => role'[w] = Exact(user'[w])
    PROVE  RoleInv'
<1>1. CASE ~HasCache
  BY <1>1, QuietRoles DEF Send
<1>2. CASE HasCache
  <2>1. /\ \A i \in 1..Len(queue') : i \in 1..Len(queue) \/ i = Len(queue) + 1
        /\ \A i \in 1..Len(queue) : queue'[i] = queue[i]
        /\ queue'[Len(queue) + 1] = c
    <3>1. queue \in Seq(Command) /\ queue' = Append(queue, c)
      BY <1>2 DEF Send, RoleInv, TypeOK
    <3>2. Len(queue) \in Nat /\ Len(queue') = Len(queue) + 1
      BY <3>1, AppendFacts
    <3>3. \A i \in 1..Len(queue') : i \in 1..Len(queue) \/ i = Len(queue) + 1
      BY <3>2
    <3>. QED  BY <3>1, <3>3, AppendFacts
  <2>2. \A i \in 1..Len(queue) : queue[i].by \in Workers /\ (queue[i].op \in Gets => queue[i].by # w)
    BY QueuedBy DEF RoleInv, QueueExact, Gets
  <2>3. ASSUME NEW i \in 1..Len(queue')
        PROVE  /\ queue'[i].op = "SetRole" => queue'[i].role = Exact(queue'[i].user)
               /\ queue'[i].op = "GetVersion" => pc'[queue'[i].by] = "getVersion"
               /\ queue'[i].op = "GetRole" =>
                     pc'[queue'[i].by] = "getRole" /\ user'[queue'[i].by] = queue'[i].user
    <3>1. CASE i \in 1..Len(queue)
      BY <2>1, <2>2, <3>1 DEF RoleInv, QueueExact, Gets
    <3>2. CASE i = Len(queue) + 1
      BY <1>2, <2>1, <3>2
    <3>. QED  BY <2>1, <3>1, <3>2
  <2>4. ASSUME NEW i \in 1..Len(queue'), NEW j \in 1..Len(queue'),
               queue'[i].op \in Gets, queue'[j].op \in Gets, queue'[i].by = queue'[j].by
        PROVE  i = j
    BY <2>1, <2>2, <2>4 DEF RoleInv, QueueExact
  <2>5. QueueExact'
    BY <2>3, <2>4 DEF QueueExact, Exact
  <2>. QED  BY <2>5 DEF RoleInv, Exact
<1>. QED  BY <1>1, <1>2

LEMMA WorkRoles ==
    ASSUME RoleInv, ~DbFails, TypeOK', NEW w \in Workers, Work(w)
    PROVE  RoleInv'
<1> USE DEF Goto, store, redis, history
<1>0. TypeOK /\ user[w] \in Users /\ found[w] \in Nat /\ NoVersion \in Nat
  BY DEF RoleInv, TypeOK, NoVersion
<1>1. ASSUME NEW c \in Command, Send(c), c.by = w, pc[w] \notin {"getVersion", "getRole"},
             pc' = [pc EXCEPT ![w] = pc'[w]], c.op \notin {"GetVersion", "GetRole", "SetRole"},
             pc'[w] # "handle", UNCHANGED <<roleCache, user, role>>
      PROVE  RoleInv'
  BY <1>0, <1>1, SendRoles DEF TypeOK
<1>2. ASSUME NEW op \in {"SetVersion", "DelVersion"}, NEW v \in Nat
      PROVE  LET c == Cmd(op, w, v, NoRole) IN c \in Command /\ c.by = w /\ c.op = op
  BY <1>0, CmdType DEF Cmd, Op
<1>3. CASE LoginIssue(w)
  BY <1>0, <1>1, <1>2, <1>3 DEF LoginIssue, TypeOK
<1>4. CASE PopulateVersion(w)
  BY <1>0, <1>1, <1>2, <1>4 DEF PopulateVersion, TypeOK
<1>5. CASE DeleteCached(w)
  BY <1>0, <1>1, <1>2, <1>5 DEF DeleteCached, AnswerLogout, TypeOK
<1>6. CASE LoadVersion(w) \/ Reject(w) \/ Handle(w) \/ FindUser(w) \/ UpdateRow(w)
  <2>1. /\ UNCHANGED <<queue, roleCache, user, role>>
        /\ pc[w] \in {"load", "compare", "handle", "findUser", "update"}
    BY <1>6 DEF LoadVersion, Reject, Handle, FindUser, UpdateRow
  <2>2. pc'[w] # "handle" /\ \A v \in Workers \ {w} : pc'[v] = pc[v]
    BY <1>0, <1>6 DEF LoadVersion, Reject, Handle, FindUser, UpdateRow, AnswerLogout, TypeOK
  <2>. QED  BY <2>1, <2>2, QuietRoles
<1>7. CASE Accept(w)
  <2>. DEFINE c == Cmd("GetRole", w, NoVersion, NoRole)
  <2>1. c \in Command /\ c.by = w /\ c.op = "GetRole" /\ c.user = user[w]
    BY <1>0, CmdType DEF Cmd, Op
  <2>2. /\ pc[w] = "compare" /\ Send(c) /\ UNCHANGED <<roleCache, user, role>>
        /\ pc'[w] = IF HasCache THEN "getRole" ELSE "loadRole"
        /\ \A v \in Workers \ {w} : pc'[v] = pc[v]
    BY <1>0, <1>7 DEF Accept, TypeOK
  <2>. HIDE DEF c
  <2>. QED  BY <2>1, <2>2, SendRoles
<1>8. CASE LoadRole(w)
  <2>. DEFINE c == Cmd("SetRole", w, NoVersion, Exact(user[w]))
  <2>1. /\ c \in Command /\ c.by = w /\ c.op = "SetRole" /\ c.user = user[w]
        /\ c.role = Exact(user[w])
    BY <1>0, CmdType DEF Cmd, Op, Exact, Role
  <2>2. /\ pc[w] = "loadRole" /\ Send(c) /\ UNCHANGED <<roleCache, user>>
        /\ pc'[w] = "handle" /\ role'[w] = Exact(user[w])
        /\ \A v \in Workers \ {w} : pc'[v] = pc[v] /\ role'[v] = role[v]
    BY <1>0, <1>8 DEF LoadRole, Exact, TypeOK
  <2>. HIDE DEF c
  <2>. QED  BY <2>1, <2>2, SendRoles
<1>. QED  BY <1>3, <1>4, <1>5, <1>6, <1>7, <1>8 DEF Work

(* Redis executes or fails the oldest command, and its worker alone goes on. *)
LEMMA RedisRoles ==
    ASSUME RoleInv, TypeOK', Redis
    PROVE  RoleInv'
<1> USE DEF Goto, store, locals, history
<1>1. queue # <<>> /\ queue' = Tail(queue)
  BY DEF Redis, ExecSetVersion, ExecDelVersion, ExecSetRole, ExecGetVersion, ExecGetRole, FailCommand
<1>2. /\ 1 \in 1..Len(queue) /\ Head(queue) = queue[1] /\ Head(queue) \in Command
      /\ \A i \in 1..Len(queue') : i + 1 \in 1..Len(queue) /\ queue'[i] = queue[i + 1]
  BY <1>1, TailFacts DEF RoleInv, TypeOK
<1>. DEFINE c == Head(queue)
            w == Head(queue).by
<1>3. w \in Workers /\ c.user \in Users
  BY <1>2 DEF Command
<1>4. \A i \in 1..Len(queue') : queue'[i].by \in Workers
  BY <1>2, QueuedBy DEF RoleInv
<1>5. c.op \in Gets => \A i \in 1..Len(queue') : queue'[i].op \in Gets => queue'[i].by # w
  BY <1>2 DEF RoleInv, QueueExact
<1>6. ASSUME UNCHANGED <<pc, user>> \/ (c.op \in Gets /\ UNCHANGED user /\
                \A v \in Workers \ {w} : pc'[v] = pc[v])
      PROVE  QueueExact'
  <2>. HIDE DEF c, w
  <2>1. ASSUME NEW i \in 1..Len(queue')
        PROVE  /\ queue'[i].op = "SetRole" => queue'[i].role = Exact(queue'[i].user)
               /\ queue'[i].op = "GetVersion" => pc'[queue'[i].by] = "getVersion"
               /\ queue'[i].op = "GetRole" =>
                     pc'[queue'[i].by] = "getRole" /\ user'[queue'[i].by] = queue'[i].user
    <3>1. /\ queue'[i].op = "SetRole" => queue'[i].role = Exact(queue'[i].user)
          /\ queue'[i].op = "GetVersion" => pc[queue'[i].by] = "getVersion"
          /\ queue'[i].op = "GetRole" =>
                pc[queue'[i].by] = "getRole" /\ user[queue'[i].by] = queue'[i].user
      BY <1>2 DEF RoleInv, QueueExact
    <3>2. queue'[i].op \in Gets => pc'[queue'[i].by] = pc[queue'[i].by]
      BY <1>4, <1>5, <1>6
    <3>. QED  BY <1>6, <3>1, <3>2 DEF Gets
  <2>2. ASSUME NEW i \in 1..Len(queue'), NEW j \in 1..Len(queue'),
               queue'[i].op \in Gets, queue'[j].op \in Gets, queue'[i].by = queue'[j].by
        PROVE  i = j
    <3>1. i + 1 = j + 1
      BY <1>2, <2>2 DEF RoleInv, QueueExact
    <3>. QED  BY <3>1
  <2>. QED  BY <2>1, <2>2 DEF QueueExact, Exact
<1>7. CASE ExecSetVersion \/ ExecDelVersion
  <2>1. UNCHANGED <<pc, user, role, roleCache>>
    BY <1>7 DEF ExecSetVersion, ExecDelVersion
  <2>. QED  BY <1>6, <2>1 DEF RoleInv, Exact
<1>8. CASE ExecSetRole
  <2>1. c.op = "SetRole" /\ c.role = Exact(c.user) /\ roleCache' = [roleCache EXCEPT ![c.user] = c.role]
        /\ UNCHANGED <<pc, user, role>>
    BY <1>2, <1>8 DEF ExecSetRole, RoleInv, QueueExact
  <2>. QED  BY <1>3, <1>6, <2>1 DEF RoleInv, TypeOK, Exact
<1>9. CASE ExecGetVersion
  <2>1. /\ c.op \in Gets /\ UNCHANGED <<user, role, roleCache>> /\ pc'[w] \in {"compare", "load"}
        /\ \A v \in Workers \ {w} : pc'[v] = pc[v]
    BY <1>3, <1>9 DEF ExecGetVersion, Gets, RoleInv, TypeOK
  <2>. QED  BY <1>6, <2>1 DEF RoleInv, Exact
<1>10. CASE ExecGetRole
  <2>1. /\ c.op \in Gets /\ UNCHANGED <<user, roleCache>> /\ user[w] = c.user
        /\ \A v \in Workers \ {w} : pc'[v] = pc[v] /\ role'[v] = role[v]
        /\ \/ pc'[w] = "loadRole"
           \/ roleCache[c.user] # NoRole /\ role'[w] = roleCache[c.user]
    BY <1>2, <1>3, <1>10 DEF ExecGetRole, Gets, RoleInv, QueueExact, TypeOK
  <2>. QED  BY <1>3, <1>6, <2>1 DEF RoleInv, Exact
<1>11. CASE FailCommand
  <2>1. CASE c.op \in Gets
    <3>1. /\ UNCHANGED <<user, role, roleCache>> /\ pc'[w] \in {"loadRole", "load"}
          /\ \A v \in Workers \ {w} : pc'[v] = pc[v]
      BY <1>3, <1>11, <2>1 DEF FailCommand, Gets, RoleInv, TypeOK
    <3>. QED  BY <1>6, <2>1, <3>1 DEF RoleInv, Exact
  <2>2. CASE c.op \notin Gets
    <3>1. UNCHANGED <<pc, user, role, roleCache>>
      BY <1>11, <2>2 DEF FailCommand, Gets
    <3>. QED  BY <1>6, <3>1 DEF RoleInv, Exact
  <2>. QED  BY <2>1, <2>2
<1>. QED  BY <1>7, <1>8, <1>9, <1>10, <1>11 DEF Redis

LEMMA NextRoles ==
    ASSUME RoleInv, ~DbFails, [Next]_vars
    PROVE  RoleInv'
<1> USE DEF Goto, store, redis, locals, history
<1>0. TypeOK /\ TypeOK'
  BY NextType DEF RoleInv
<1>1. ASSUME UNCHANGED <<queue, pc, user, role>>,
             \A u \in Users : roleCache'[u] \in {NoRole, roleCache[u]}
      PROVE  RoleInv'
  BY <1>0, <1>1 DEF RoleInv, QueueExact, Exact
<1>2. ASSUME NEW w \in Workers, NEW u \in Users, LoginRead(w, u) PROVE RoleInv'
  <2>1. /\ pc[w] = "idle" /\ pc'[w] = "issue" /\ UNCHANGED <<queue, roleCache, role>>
        /\ \A v \in Workers \ {w} : pc'[v] = pc[v] /\ user'[v] = user[v]
    BY <1>0, <1>2 DEF LoginRead, TypeOK
  <2>. QED  BY <1>0, <2>1, QuietRoles
<1>3. ASSUME NEW w \in Workers, NEW t \in tokens, NEW r \in {"use", "logout"}, Request(w, t, r)
      PROVE  RoleInv'
  <2>. DEFINE c == [op |-> "GetVersion", user |-> t[1], ver |-> NoVersion, role |-> NoRole, by |-> w]
  <2>1. c \in Command /\ c.by = w /\ c.op = "GetVersion"
    BY <1>0 DEF TypeOK, Token, Command, Op, NoVersion
  <2>2. /\ pc[w] = "idle" /\ Send(c) /\ UNCHANGED <<roleCache, role>>
        /\ pc'[w] = IF HasCache THEN "getVersion" ELSE "load"
        /\ \A v \in Workers \ {w} : pc'[v] = pc[v] /\ user'[v] = user[v]
    BY <1>0, <1>3 DEF Request, TypeOK
  <2>. HIDE DEF c
  <2>. QED  BY <1>0, <2>1, <2>2, SendRoles
<1>4. ASSUME NEW u \in Users, ExpireVersion(u) \/ ExpireRole(u) PROVE RoleInv'
  BY <1>0, <1>1, <1>4 DEF ExpireVersion, ExpireRole, TypeOK
<1>5. ASSUME NEW t \in tokens, ExpireToken(t) PROVE RoleInv'
  BY <1>1, <1>5 DEF ExpireToken
<1>6. CASE Restart
  <2>1. queue' = <<>> /\ Len(queue') = 0
    BY <1>6, EmptySeq DEF Restart
  <2>2. QueueExact'
    BY <2>1 DEF QueueExact
  <2>. QED  BY <1>0, <1>6, <2>2 DEF Restart, RoleInv, Exact
<1>7. CASE UNCHANGED vars
  BY <1>1, <1>7 DEF vars
<1>. QED
  BY <1>0, <1>2, <1>3, <1>4, <1>5, <1>6, <1>7, WorkRoles, RedisRoles DEF Next

(* A handler is told the role of its user's row, by whichever of Redis and the
   row it is resolved and however many handlers share the connection, unless a
   statement fails. *)
THEOREM RoleCorrect ==
    ASSUME ~DbFails
    PROVE  Spec => []RoleIsExact
<1>1. Init => RoleInv
  <2> SUFFICES ASSUME Init PROVE RoleInv
    OBVIOUS
  <2>1. QueueExact
    BY EmptySeq DEF Init, QueueExact
  <2>. QED  BY <2>1, InitType DEF Init, RoleInv
<1>2. RoleInv /\ [Next]_vars => RoleInv'
  BY NextRoles
<1>3. RoleInv => RoleIsExact
  BY DEF RoleInv, RoleIsExact, Exact
<1>. QED  BY <1>1, <1>2, <1>3, PTL DEF Spec
=============================================================================
