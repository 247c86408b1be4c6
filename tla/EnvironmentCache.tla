-------------------------- MODULE EnvironmentCache --------------------------
(***************************************************************************)
(* The rows of environments in PostgreSQL and EnvironmentCache before      *)
(* them, which keeps copies in Redis.  All commands go over one            *)
(* connection, first in first out: get waits for the answer to its GET, a  *)
(* SETEX or DEL is sent and not waited for.  Between the lookup of a row   *)
(* and the SETEX with what it found, others may write.                     *)
(***************************************************************************)
EXTENDS Naturals, Sequences, Functions

CONSTANTS
    Envs,       \* ids of environments
    Values,     \* names and variables of an environment
    NoValue,    \* no row, no copy, nothing found
    Readers,    \* threads that resolve variables
    DbFails,    \* TRUE: a statement may fail
    RedisFails, \* TRUE: a command may fail
    Restarts,   \* TRUE: the engine may stop and start again
    MaxWrites,  \* bound: changes of rows
    MaxQueue    \* bound: commands on the connection

ASSUME ValueAssumption == NoValue \notin Values
ASSUME EnvAssumption == Envs # {}
ASSUME BoundAssumption == MaxWrites \in Nat /\ MaxQueue \in Nat

VARIABLES
    row,       \* rows of environments
    copy,      \* environment:<id> in Redis
    commands,  \* commands sent and not yet executed
    reading,   \* how far the get of each reader has come
    env,       \* its argument
    found,     \* the environment it read from the table
    answer,    \* what it returns
    writes     \* changes of rows so far

readers == <<reading, env, found, answer>>
cacheVars == <<row, copy, commands, readers, writes>>

Content == Values \cup {NoValue}
GetOf(r, e) == [op |-> "get", env |-> e, reader |-> r]
SetEx(e, v) == [op |-> "set", env |-> e, value |-> v]
Del(e) == SetEx(e, NoValue)
Abandoned == [op |-> "none"]  \* nobody waits for its answer any more
Command == [op : {"get"}, env : Envs, reader : Readers]
             \cup [op : {"set"}, env : Envs, value : Content] \cup {Abandoned}

CacheTypeOK ==
    /\ row \in [Envs -> Content] /\ copy \in [Envs -> Content]
    /\ commands \in Seq(Command)
    /\ reading \in [Readers -> {"idle", "wait", "find", "put", "answered"}]
    /\ env \in [Readers -> Envs]
    /\ found \in [Readers -> Content] /\ answer \in [Readers -> Content]
    /\ writes \in 0..MaxWrites

(* Environments that are there already count as written first. *)
CacheInit ==
    /\ row = [e \in Envs |-> NoValue]
    /\ copy = [e \in Envs |-> NoValue]
    /\ commands = <<>>
    /\ reading = [r \in Readers |-> "idle"]
    /\ env = [r \in Readers |-> CHOOSE e \in Envs : TRUE]
    /\ found = [r \in Readers |-> NoValue] /\ answer = [r \in Readers |-> NoValue]
    /\ writes = 0

Room == Len(commands) < MaxQueue
Reads(r, step) == reading' = [reading EXCEPT ![r] = step]

-----------------------------------------------------------------------------
(* EnvironmentCache::get: GET first. *)
Get(r, e) ==
    /\ reading[r] = "idle" /\ Room
    /\ env' = [env EXCEPT ![r] = e]
    /\ commands' = Append(commands, GetOf(r, e))
    /\ Reads(r, "wait")
    /\ UNCHANGED <<row, copy, found, answer, writes>>

(* Mutant: what was found in Redis is put there again, with a new TTL. *)
AnswerFromRedisAndRenew ==
    /\ commands # <<>> /\ Head(commands).op = "get"
    /\ LET r == Head(commands).reader
           hit == copy[Head(commands).env] IN
       \/ /\ hit # NoValue
          /\ found' = [found EXCEPT ![r] = hit]
          /\ Reads(r, "put")
       \/ hit = NoValue /\ Reads(r, "find") /\ UNCHANGED found
    /\ commands' = Tail(commands)
    /\ UNCHANGED <<row, copy, env, answer, writes>>

(* The answer to the GET: a copy is returned, without one the row is looked up. *)
AnswerFromRedis ==
    /\ commands # <<>> /\ Head(commands).op = "get"
    /\ LET r == Head(commands).reader
           hit == copy[Head(commands).env] IN
       \/ /\ hit # NoValue
          /\ answer' = [answer EXCEPT ![r] = hit]
          /\ Reads(r, "answered")
       \/ hit = NoValue /\ Reads(r, "find") /\ UNCHANGED answer
    /\ commands' = Tail(commands)
    /\ UNCHANGED <<row, copy, env, found, writes>>

(* findById: no row and a failed statement both read as no environment. *)
FindById(r) ==
    /\ reading[r] = "find"
    /\ \/ /\ row[env[r]] # NoValue
          /\ found' = [found EXCEPT ![r] = row[env[r]]]
          /\ Reads(r, "put")
          /\ UNCHANGED answer
       \/ /\ row[env[r]] = NoValue \/ DbFails
          /\ answer' = [answer EXCEPT ![r] = NoValue]
          /\ Reads(r, "answered")
          /\ UNCHANGED found
    /\ UNCHANGED <<row, copy, commands, env, writes>>

(* set, with what was found, which is also what get returns. *)
Put(r) ==
    /\ reading[r] = "put" /\ Room
    /\ commands' = Append(commands, SetEx(env[r], found[r]))
    /\ answer' = [answer EXCEPT ![r] = found[r]]
    /\ found' = [found EXCEPT ![r] = NoValue]
    /\ Reads(r, "answered")
    /\ UNCHANGED <<row, copy, env, writes>>

(* get returns. *)
Return(r) ==
    /\ reading[r] = "answered"
    /\ answer' = [answer EXCEPT ![r] = NoValue]
    /\ Reads(r, "idle")
    /\ UNCHANGED <<row, copy, commands, env, found, writes>>

-----------------------------------------------------------------------------
(* Mutant: the key does not name the environment. *)
ExecuteForAll ==
    /\ commands # <<>> /\ Head(commands).op = "set"
    /\ copy' = [e \in Envs |-> Head(commands).value]
    /\ commands' = Tail(commands)
    /\ UNCHANGED <<row, readers, writes>>

(* Redis executes a SETEX or a DEL. *)
Execute ==
    /\ commands # <<>> /\ Head(commands).op = "set"
    /\ copy' = [copy EXCEPT ![Head(commands).env] = Head(commands).value]
    /\ commands' = Tail(commands)
    /\ UNCHANGED <<row, readers, writes>>

ExecuteAbandoned ==
    /\ commands # <<>> /\ Head(commands) = Abandoned
    /\ commands' = Tail(commands)
    /\ UNCHANGED <<row, copy, readers, writes>>

(* A command fails, or there is no Redis: a GET reads as a miss. *)
Fail ==
    /\ RedisFails /\ commands # <<>>
    /\ commands' = Tail(commands)
    /\ IF Head(commands).op = "get" THEN Reads(Head(commands).reader, "find")
                                    ELSE UNCHANGED reading
    /\ UNCHANGED <<row, copy, env, found, answer, writes>>

(* A copy's 600 s are over. *)
Expire(e) ==
    /\ copy[e] # NoValue
    /\ copy' = [copy EXCEPT ![e] = NoValue]
    /\ UNCHANGED <<row, commands, readers, writes>>

Invalidate(e) ==
    /\ Room
    /\ commands' = Append(commands, Del(e))
    /\ UNCHANGED <<row, copy, readers, writes>>

(* create, update and remove of the repository: one statement each. *)
Write(e, v) ==
    /\ writes < MaxWrites /\ writes' = writes + 1
    /\ row' = [row EXCEPT ![e] = v]
    /\ UNCHANGED <<copy, commands, readers>>

Create(e, v) == row[e] = NoValue /\ v \in Values /\ Write(e, v)
Update(e, v) == row[e] # NoValue /\ v \in Values /\ Write(e, v)
RemoveRow(e) == row[e] # NoValue /\ Write(e, NoValue)

(* The engine stops; Redis still executes what it has received. *)
Restart ==
    /\ Restarts
    /\ reading' = [r \in Readers |-> "idle"]
    /\ found' = [r \in Readers |-> NoValue] /\ answer' = [r \in Readers |-> NoValue]
    /\ commands' = [i \in DOMAIN commands |->
                      IF commands[i].op = "get" THEN Abandoned ELSE commands[i]]
    /\ UNCHANGED <<row, copy, env, writes>>

-----------------------------------------------------------------------------
Serve == AnswerFromRedis \/ Execute \/ ExecuteAbandoned \/ Fail

CacheNext ==
    \/ \E r \in Readers :
         \/ \E e \in Envs : Get(r, e)
         \/ FindById(r) \/ Put(r) \/ Return(r)
    \/ \E e \in Envs :
         \/ \E v \in Values : Create(e, v) \/ Update(e, v)
         \/ RemoveRow(e) \/ Invalidate(e) \/ Expire(e)
    \/ Serve
    \/ Restart

CacheSpec == CacheInit /\ [][CacheNext]_cacheVars

-----------------------------------------------------------------------------
(* What the cache should guarantee. *)

Kept(e) ==
    {v \in Content :
        \/ v \in {row[e], copy[e], NoValue}
        \/ SetEx(e, v) \in Range(commands)
        \/ \E r \in Readers : env[r] = e /\ found[r] = v}

(* What get returns was in the row when it was asked or is older and has been
   kept ever since, in Redis, on the way there or by a reader that is about to
   put it there.  What all of these have lost is never served again. *)
History == INSTANCE EnvironmentHistory WITH
    row <- row, servable <- [e \in Envs |-> Kept(e)], env <- env, answer <- answer
ServesHistory == History!Spec

(* A reader may put a copy into Redis that a writer has overtaken, and no writer
   deletes it: but it goes, for no reader renews it. *)
CopyBecomesCurrent ==
    \A e \in Envs : <>[](copy[e] # NoValue => copy[e] = row[e])
=============================================================================
