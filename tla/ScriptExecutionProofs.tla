----------------------- MODULE ScriptExecutionProofs -----------------------
(***************************************************************************)
(* EnvironmentCache implements EnvironmentHistory, and ScriptExecution,    *)
(* which composes it with scripts, keeps that promise, times and tests     *)
(* scripts for themselves, and lets no script read what its environment    *)
(* has never held: for any number of environments, readers, commands,      *)
(* tests and values, whatever fails and whenever the engine stops.         *)
(***************************************************************************)
EXTENDS ScriptExecution, SequenceTheorems, TLAPS

(* A GET on its way has a reader that waits for it, for the environment it asks
   for, and no other GET does. *)
GetsAwaited ==
    /\ \A i \in DOMAIN commands : commands[i].op = "get" =>
         /\ reading[commands[i].reader] = "wait"
         /\ env[commands[i].reader] = commands[i].env
    /\ \A i, j \in DOMAIN commands :
         commands[i].op = "get" /\ commands[j].op = "get" /\ commands[i].reader = commands[j].reader
           => i = j

(* Only a reader that is about to put it there holds what it found. *)
FoundToPut == \A r \in Readers : reading[r] # "put" => found[r] = NoValue

CacheInv == CacheTypeOK /\ GetsAwaited /\ FoundToPut

-----------------------------------------------------------------------------
(* What appending a command and taking the first one leave. *)

LEMMA AppendFacts ==
    ASSUME NEW S, NEW q \in Seq(S), NEW c \in S
    PROVE  /\ Append(q, c) \in Seq(S)
           /\ DOMAIN q = 1..Len(q) /\ Len(q) \in Nat
           /\ DOMAIN Append(q, c) = 1..(Len(q) + 1)
           /\ \A i \in 1..Len(q) : Append(q, c)[i] = q[i]
           /\ Append(q, c)[Len(q) + 1] = c
  OBVIOUS

LEMMA TailFacts ==
    ASSUME NEW S, NEW q \in Seq(S), q # <<>>
    PROVE  /\ Tail(q) \in Seq(S)
           /\ DOMAIN q = 1..Len(q) /\ Len(q) \in Nat \ {0}
           /\ DOMAIN Tail(q) = 1..(Len(q) - 1)
           /\ \A i \in 1..(Len(q) - 1) : Tail(q)[i] = q[i + 1]
           /\ Head(q) = q[1] /\ Head(q) \in S /\ 1 \in DOMAIN q
  OBVIOUS

LEMMA AppendRange ==
    ASSUME NEW S, NEW q \in Seq(S), NEW c \in S
    PROVE  Range(Append(q, c)) = Range(q) \cup {c}
  BY AppendFacts DEF Range

LEMMA TailRange ==
    ASSUME NEW S, NEW q \in Seq(S), q # <<>>
    PROVE  Range(Tail(q)) \subseteq Range(q) /\ Head(q) \in Range(q)
<1>1. ASSUME NEW x \in Range(Tail(q)) PROVE x \in Range(q)
  <2>1. PICK i \in DOMAIN Tail(q) : x = Tail(q)[i]
    BY DEF Range
  <2>2. i + 1 \in DOMAIN q /\ q[i + 1] = x
    BY <2>1, TailFacts
  <2>. QED  BY <2>2 DEF Range
<1>2. Head(q) \in Range(q)
  BY TailFacts DEF Range
<1>. QED  BY <1>1, <1>2

(* The three kinds of commands, told apart by their first field. *)
LEMMA CommandFacts ==
    /\ \A c \in Command : c.op = "get" => c.env \in Envs /\ c.reader \in Readers
    /\ \A c \in Command : c.op = "set" => c.env \in Envs /\ c.value \in Content
                                             /\ c = SetEx(c.env, c.value)
    /\ \A r \in Readers, e \in Envs : GetOf(r, e) \in Command
    /\ \A e \in Envs, v \in Content : SetEx(e, v) \in Command
    /\ Abandoned \in Command
  BY DEF Command, GetOf, SetEx, Abandoned

-----------------------------------------------------------------------------
(* The invariant. *)

LEMMA InitInv == CacheInit => CacheInv
  BY EnvAssumption, BoundAssumption, EmptySeq
     DEF CacheInit, CacheInv, CacheTypeOK, GetsAwaited, FoundToPut, Content

(* The first command is executed or lost: what may become of the readers. *)
LEMMA TailInv ==
    ASSUME CacheInv, commands # <<>>, commands' = Tail(commands),
           env' = env,
           NEW r \in Readers, NEW step \in {"find", "answered"},
           \/ Head(commands).op # "get" /\ reading' = reading
           \/ Head(commands).op = "get" /\ Head(commands).reader = r
                /\ reading' = [reading EXCEPT ![r] = step]
    PROVE  commands' \in Seq(Command) /\ GetsAwaited'
<1>1. /\ commands \in Seq(Command) /\ reading = [x \in Readers |-> reading[x]]
      /\ env \in [Readers -> Envs]
  BY DEF CacheInv, CacheTypeOK
<1>2. ASSUME NEW i \in DOMAIN commands', commands'[i].op = "get"
      PROVE  /\ reading'[commands'[i].reader] = "wait"
             /\ env'[commands'[i].reader] = commands'[i].env
  <2>1. /\ i + 1 \in DOMAIN commands /\ commands'[i] = commands[i + 1]
        /\ 1 \in DOMAIN commands /\ Head(commands) = commands[1] /\ i + 1 # 1
    BY <1>1, TailFacts
  <2>2. commands[i + 1].reader = commands[1].reader => commands[1].op # "get"
    BY <1>2, <2>1 DEF CacheInv, GetsAwaited
  <2>3. /\ commands[i + 1].reader \in Readers
        /\ reading[commands[i + 1].reader] = "wait"
        /\ env[commands[i + 1].reader] = commands[i + 1].env
    BY <1>1, <1>2, <2>1, ElementOfSeq, CommandFacts DEF CacheInv, GetsAwaited
  <2>4. reading'[commands[i + 1].reader] = reading[commands[i + 1].reader]
    BY <1>1, <2>1, <2>2, <2>3
  <2>. QED  BY <2>1, <2>3, <2>4
<1>3. ASSUME NEW i \in DOMAIN commands', NEW j \in DOMAIN commands',
             commands'[i].op = "get", commands'[j].op = "get",
             commands'[i].reader = commands'[j].reader
      PROVE  i = j
  <2>1. /\ i + 1 \in DOMAIN commands /\ commands'[i] = commands[i + 1] /\ i \in Nat
        /\ j + 1 \in DOMAIN commands /\ commands'[j] = commands[j + 1] /\ j \in Nat
    BY <1>1, TailFacts
  <2>2. i + 1 = j + 1
    BY <1>3, <2>1 DEF CacheInv, GetsAwaited
  <2>. QED  BY <2>1, <2>2
<1>. QED  BY <1>1, <1>2, <1>3, TailFacts DEF GetsAwaited

(* A SETEX or a DEL is sent. *)
LEMMA SendInv ==
    ASSUME CacheInv, NEW c \in Command, c.op = "set", commands' = Append(commands, c), env' = env,
           \A r \in Readers : reading[r] = "wait" => reading'[r] = "wait"
    PROVE  commands' \in Seq(Command) /\ GetsAwaited'
<1>1. commands \in Seq(Command)
  BY DEF CacheInv, CacheTypeOK
<1>2. /\ commands' \in Seq(Command)
      /\ \A i \in DOMAIN commands' : commands'[i].op = "get" =>
            i \in DOMAIN commands /\ commands'[i] = commands[i] /\ commands[i] \in Command
  BY <1>1, AppendFacts, ElementOfSeq
<1>. QED  BY <1>2, CommandFacts DEF CacheInv, GetsAwaited

LEMMA NextType == CacheInv /\ [CacheNext]_cacheVars => CacheTypeOK'
<1> SUFFICES ASSUME CacheInv, [CacheNext]_cacheVars PROVE CacheTypeOK'
  OBVIOUS
<1>. USE CommandFacts DEF CacheInv, CacheTypeOK, readers, cacheVars, Reads
<1>1. ASSUME NEW r \in Readers, NEW e \in Envs, Get(r, e) PROVE CacheTypeOK'
  <2>1. commands' \in Seq(Command)
    BY <1>1, AppendFacts DEF Get
  <2>. QED  BY <1>1, <2>1 DEF Get
<1>2. ASSUME NEW r \in Readers, FindById(r) PROVE CacheTypeOK'
  BY <1>2 DEF FindById, Content
<1>3. ASSUME NEW r \in Readers, Put(r) PROVE CacheTypeOK'
  <2>1. commands' \in Seq(Command)
    BY <1>3, AppendFacts DEF Put
  <2>. QED  BY <1>3, <2>1 DEF Put, Content
<1>4. ASSUME NEW r \in Readers, Return(r) PROVE CacheTypeOK'
  BY <1>4 DEF Return, Content
<1>5. ASSUME NEW e \in Envs, NEW v \in Content, Write(e, v) PROVE CacheTypeOK'
  BY <1>5, BoundAssumption DEF Write
<1>6. ASSUME NEW e \in Envs, Invalidate(e) PROVE CacheTypeOK'
  <2>1. commands' \in Seq(Command)
    BY <1>6, AppendFacts DEF Invalidate, Del, Content
  <2>. QED  BY <1>6, <2>1 DEF Invalidate
<1>7. ASSUME NEW e \in Envs, Expire(e) PROVE CacheTypeOK'
  BY <1>7 DEF Expire, Content
<1>8. ASSUME Serve PROVE CacheTypeOK'
  <2>1. /\ commands # <<>> /\ commands' = Tail(commands)
        /\ commands' \in Seq(Command) /\ Head(commands) \in Command
    BY <1>8, TailFacts DEF Serve, AnswerFromRedis, Execute, ExecuteAbandoned, Fail
  <2>2. CASE AnswerFromRedis
    BY <2>1, <2>2 DEF AnswerFromRedis
  <2>3. CASE Execute
    BY <2>1, <2>3 DEF Execute
  <2>4. CASE ExecuteAbandoned
    BY <2>1, <2>4 DEF ExecuteAbandoned
  <2>5. CASE Fail
    BY <2>1, <2>5 DEF Fail
  <2>. QED  BY <1>8, <2>2, <2>3, <2>4, <2>5 DEF Serve
<1>9. CASE Restart
  <2>1. commands' \in Seq(Command)
    <3>1. \A i \in DOMAIN commands : commands[i] \in Command
      BY ElementOfSeq
    <3>2. DOMAIN commands = 1..Len(commands) /\ Len(commands) \in Nat
      BY LenProperties
    <3>. QED  BY <1>9, <3>1, <3>2 DEF Restart
  <2>. QED  BY <1>9, <2>1 DEF Restart, Content
<1>10. CASE UNCHANGED cacheVars
  BY <1>10
<1>. QED
  BY <1>1, <1>2, <1>3, <1>4, <1>5, <1>6, <1>7, <1>8, <1>9, <1>10
     DEF CacheNext, Create, Update, RemoveRow, Content

LEMMA NextAwaited == CacheInv /\ [CacheNext]_cacheVars => GetsAwaited'
<1> SUFFICES ASSUME CacheInv, [CacheNext]_cacheVars PROVE GetsAwaited'
  OBVIOUS
<1>. USE DEF readers, cacheVars, Reads
<1>1. /\ commands \in Seq(Command) /\ reading = [x \in Readers |-> reading[x]]
      /\ env = [x \in Readers |-> env[x]]
  BY DEF CacheInv, CacheTypeOK
<1>2. \A i \in DOMAIN commands : commands[i] \in Command
  BY <1>1, ElementOfSeq
<1>3. ASSUME UNCHANGED <<commands, env>>,
             \A r \in Readers : reading[r] = "wait" => reading'[r] = "wait"
      PROVE  GetsAwaited'
  BY <1>2, <1>3, CommandFacts DEF CacheInv, GetsAwaited
<1>4. ASSUME NEW r \in Readers, NEW e \in Envs, Get(r, e) PROVE GetsAwaited'
  <2>1. /\ DOMAIN commands' = 1..(Len(commands) + 1) /\ Len(commands) \in Nat
        /\ DOMAIN commands = 1..Len(commands)
        /\ \A i \in 1..Len(commands) : commands'[i] = commands[i]
        /\ commands'[Len(commands) + 1] = GetOf(r, e)
    BY <1>1, <1>4, AppendFacts, CommandFacts DEF Get
  <2>2. \A i \in DOMAIN commands : commands[i].op = "get" =>
            commands[i].reader \in Readers /\ commands[i].reader # r
    BY <1>2, <1>4, CommandFacts DEF Get, CacheInv, GetsAwaited
  <2>3. GetOf(r, e).reader = r /\ GetOf(r, e).env = e
    BY DEF GetOf
  <2>4. /\ reading'[r] = "wait" /\ env'[r] = e
        /\ \A x \in Readers : x # r => reading'[x] = reading[x] /\ env'[x] = env[x]
    BY <1>1, <1>4 DEF Get
  <2>5. ASSUME NEW i \in DOMAIN commands', commands'[i].op = "get"
        PROVE  /\ reading'[commands'[i].reader] = "wait"
               /\ env'[commands'[i].reader] = commands'[i].env
    BY <2>1, <2>2, <2>3, <2>4, <2>5 DEF CacheInv, GetsAwaited
  <2>6. ASSUME NEW i \in DOMAIN commands', NEW j \in DOMAIN commands',
               commands'[i].op = "get", commands'[j].op = "get",
               commands'[i].reader = commands'[j].reader
        PROVE  i = j
    BY <2>1, <2>2, <2>3, <2>6 DEF CacheInv, GetsAwaited
  <2>. QED  BY <2>5, <2>6 DEF GetsAwaited
<1>5. ASSUME NEW r \in Readers, FindById(r) \/ Return(r) PROVE GetsAwaited'
  BY <1>1, <1>3, <1>5 DEF FindById, Return
<1>6. ASSUME NEW r \in Readers, Put(r) PROVE GetsAwaited'
  <2>1. SetEx(env[r], found[r]) \in Command /\ SetEx(env[r], found[r]).op = "set"
    BY CommandFacts DEF SetEx, CacheInv, CacheTypeOK
  <2>2. \A x \in Readers : reading[x] = "wait" => reading'[x] = "wait"
    BY <1>1, <1>6 DEF Put
  <2>. QED  BY <1>6, <2>1, <2>2, SendInv DEF Put
<1>7. ASSUME NEW e \in Envs, Invalidate(e) PROVE GetsAwaited'
  <2>1. Del(e) \in Command /\ Del(e).op = "set"
    BY CommandFacts DEF Del, SetEx, Content
  <2>. QED  BY <1>7, <2>1, SendInv DEF Invalidate
<1>8. ASSUME NEW e \in Envs, NEW v \in Content, Write(e, v) \/ Expire(e) PROVE GetsAwaited'
  BY <1>3, <1>8 DEF Write, Expire
<1>9. CASE Serve
  <2>1. commands # <<>> /\ Head(commands) \in Command
    BY <1>1, <1>9, TailFacts DEF Serve, AnswerFromRedis, Execute, ExecuteAbandoned, Fail
  <2>2. CASE Head(commands).op = "get"
    <3>1. PICK r \in Readers : r = Head(commands).reader
      BY <2>1, <2>2, CommandFacts
    <3>2. /\ commands' = Tail(commands) /\ env' = env
          /\ \E step \in {"find", "answered"} : reading' = [reading EXCEPT ![r] = step]
      BY <1>9, <2>2, <3>1
         DEF Serve, AnswerFromRedis, Execute, ExecuteAbandoned, Abandoned, Fail
    <3>. QED  BY <2>1, <2>2, <3>1, <3>2, TailInv
  <2>3. CASE Head(commands).op # "get" /\ Readers # {}
    <3>1. commands' = Tail(commands) /\ env' = env /\ reading' = reading
      BY <1>9, <2>3 DEF Serve, AnswerFromRedis, Execute, ExecuteAbandoned, Fail
    <3>. QED  BY <2>1, <2>3, <3>1, TailInv
  <2>4. CASE Head(commands).op # "get" /\ Readers = {}
    <3>1. commands' = Tail(commands)
      BY <1>9 DEF Serve, AnswerFromRedis, Execute, ExecuteAbandoned, Fail
    <3>2. \A i \in DOMAIN commands' : commands'[i] \in Command
      BY <1>1, <2>1, <3>1, TailFacts, ElementOfSeq
    <3>. QED  BY <2>4, <3>2, CommandFacts DEF GetsAwaited
  <2>. QED  BY <2>2, <2>3, <2>4
<1>10. CASE Restart
  <2>1. \A i \in DOMAIN commands' : commands'[i].op # "get"
    BY <1>10 DEF Restart, Abandoned
  <2>. QED  BY <2>1 DEF GetsAwaited
<1>11. CASE UNCHANGED cacheVars
  BY <1>3, <1>11
<1>. QED
  BY <1>4, <1>5, <1>6, <1>7, <1>8, <1>9, <1>10, <1>11
     DEF CacheNext, Create, Update, RemoveRow, Content

LEMMA NextFound == CacheInv /\ [CacheNext]_cacheVars => FoundToPut'
<1> SUFFICES ASSUME CacheInv, [CacheNext]_cacheVars, NEW r \in Readers PROVE
               reading'[r] # "put" => found'[r] = NoValue
  BY DEF FoundToPut
<1>1. /\ reading = [x \in Readers |-> reading[x]] /\ found = [x \in Readers |-> found[x]]
      /\ reading[r] # "put" => found[r] = NoValue
  BY DEF CacheInv, CacheTypeOK, FoundToPut
<1>2. ASSUME NEW x \in Readers, NEW e \in Envs,
             Get(x, e) \/ FindById(x) \/ Put(x) \/ Return(x)
      PROVE  reading'[r] # "put" => found'[r] = NoValue
  BY <1>1, <1>2 DEF Get, FindById, Put, Return, Reads
<1>3. CASE Serve
  <2>1. found' = found
    BY <1>3 DEF Serve, AnswerFromRedis, Execute, ExecuteAbandoned, Fail, readers
  <2>2. reading[r] = "put" => reading'[r] = "put"
    <3>1. CASE Head(commands).op # "get"
      BY <1>3, <3>1 DEF Serve, AnswerFromRedis, Execute, ExecuteAbandoned, Fail, readers
    <3>2. CASE Head(commands).op = "get"
      <4>1. commands # <<>> /\ commands \in Seq(Command)
        BY <1>3 DEF Serve, AnswerFromRedis, Execute, ExecuteAbandoned, Fail, CacheInv, CacheTypeOK
      <4>2. reading[Head(commands).reader] = "wait"
        BY <3>2, <4>1, TailFacts DEF CacheInv, GetsAwaited
      <4>. QED
        BY <1>1, <1>3, <3>2, <4>2
           DEF Serve, AnswerFromRedis, Execute, ExecuteAbandoned, Abandoned, Fail, Reads
    <3>. QED  BY <3>1, <3>2
  <2>. QED  BY <1>1, <2>1, <2>2
<1>4. CASE Restart
  BY <1>4 DEF Restart
<1>5. ASSUME NEW e \in Envs, NEW v \in Content, Write(e, v) \/ Expire(e) \/ Invalidate(e)
      PROVE  reading'[r] # "put" => found'[r] = NoValue
  BY <1>1, <1>5 DEF Write, Expire, Invalidate, readers
<1>6. CASE UNCHANGED cacheVars
  BY <1>1, <1>6 DEF cacheVars, readers
<1>. QED
  BY <1>2, <1>3, <1>4, <1>5, <1>6, EnvAssumption
     DEF CacheNext, Create, Update, RemoveRow, Content

LEMMA Invariance == CacheSpec => []CacheInv
<1>1. CacheInit => CacheInv
  BY InitInv
<1>2. CacheInv /\ [CacheNext]_cacheVars => CacheInv'
  BY NextType, NextAwaited, NextFound DEF CacheInv
<1>. QED  BY <1>1, <1>2, PTL DEF CacheSpec

-----------------------------------------------------------------------------
(* The refinement: what is kept is what may be served. *)

kept == [e \in Envs |-> Kept(e)]
historyVars == <<row, kept, env, answer>>

LEMMA KeptFacts ==
    /\ \A e \in Envs, v \in Content :
         v \in Kept(e) <=> \/ v \in {row[e], copy[e], NoValue}
                          \/ SetEx(e, v) \in Range(commands)
                          \/ \E r \in Readers : env[r] = e /\ found[r] = v
    /\ \A e \in Envs : Kept(e) \subseteq Content
  BY DEF Kept

(* Nothing is kept that was not kept before or is now in the table: the part of
   each step that is the same for all of them. *)
LEMMA FadeRule ==
    ASSUME CacheInv,
           \A e \in Envs, v \in Content : SetEx(e, v) \in Range(commands)' => v \in Kept(e) \cup {row'[e]},
           \A e \in Envs : copy'[e] \in Kept(e) \cup {row'[e]},
           \A r \in Readers : found'[r] = NoValue \/ found'[r] = row'[env'[r]]
                               \/ (env'[r] = env[r] /\ found'[r] = found[r])
    PROVE  \A e \in Envs : kept'[e] \subseteq kept[e] \cup {row'[e]}
<1> SUFFICES ASSUME NEW e \in Envs, NEW v \in Content, v \in Kept(e)'
             PROVE  v \in Kept(e) \cup {row'[e]}
  BY DEF kept, Kept
<1>1. NoValue \in Kept(e)
  BY DEF Kept, Content
<1>2. CASE v \in {row'[e], copy'[e], NoValue}
  BY <1>1, <1>2
<1>3. CASE SetEx(e, v) \in Range(commands)'
  BY <1>3
<1>4. ASSUME NEW r \in Readers, env'[r] = e, found'[r] = v PROVE v \in Kept(e) \cup {row'[e]}
  BY <1>1, <1>4 DEF Kept
<1>. QED  BY <1>2, <1>3, <1>4 DEF Kept

LEMMA InitRefines == CacheInit => History!Init
<1> SUFFICES ASSUME CacheInit PROVE History!Init
  OBVIOUS
<1>1. \A e \in Envs : Kept(e) = {row[e], NoValue}
  BY DEF CacheInit, Kept, Content, Range
<1>. QED  BY <1>1, EnvAssumption DEF CacheInit, History!Init

LEMMA NextRefines ==
    CacheInv /\ [CacheNext]_cacheVars => [History!Next]_historyVars
<1> SUFFICES ASSUME CacheInv, [CacheNext]_cacheVars PROVE [History!Next]_historyVars
  OBVIOUS
<1>. USE DEF readers, cacheVars
<1>1. /\ commands \in Seq(Command) /\ copy \in [Envs -> Content] /\ row \in [Envs -> Content]
      /\ env \in [Readers -> Envs] /\ found \in [Readers -> Content]
      /\ answer \in [Readers -> Content]
  BY DEF CacheInv, CacheTypeOK
<1>2. \A e \in Envs : copy[e] \in Kept(e) /\ NoValue \in Kept(e) /\ row[e] \in Kept(e)
  BY <1>1 DEF Kept, Content
<1>3. \A r \in Readers : found[r] \in Kept(env[r])
  BY <1>1 DEF Kept
<1>4. \A e \in Envs, v \in Content : SetEx(e, v) \in Range(commands) => v \in Kept(e)
  BY DEF Kept
<1>5. \A c \in Range(commands) : c \in Command
  BY <1>1, ElementOfSeq DEF Range
<1>6. ASSUME NEW r \in Readers, NEW e \in Envs, Get(r, e) PROVE History!Ask(r, e)
  <2>1. Range(commands)' = Range(commands) \cup {GetOf(r, e)}
    BY <1>1, <1>6, AppendRange, CommandFacts DEF Get
  <2>2. \A d \in Envs, v \in Content : SetEx(d, v) # GetOf(r, e)
    BY DEF SetEx, GetOf
  <2>3. \A x \in Readers : found'[x] = NoValue \/ (env'[x] = env[x] /\ found'[x] = found[x])
    BY <1>1, <1>6 DEF Get, CacheInv, FoundToPut
  <2>4. \A d \in Envs : kept'[d] \subseteq kept[d] \cup {row'[d]}
    BY <1>2, <1>4, <1>6, <2>1, <2>2, <2>3, FadeRule DEF Get
  <2>. QED  BY <1>6, <2>4 DEF Get, History!Ask, History!Fade, kept
<1>7. ASSUME NEW r \in Readers, FindById(r)
      PROVE  History!Forget \/ History!Answer(r)
  <2>1. \A x \in Readers : found'[x] = row'[env'[x]] \/ (env'[x] = env[x] /\ found'[x] = found[x])
    BY <1>1, <1>7 DEF FindById
  <2>2. \A d \in Envs : kept'[d] \subseteq kept[d] \cup {row'[d]}
    BY <1>2, <1>4, <1>7, <2>1, FadeRule DEF FindById
  <2>. QED
    BY <1>1, <1>2, <1>7, <2>2 DEF FindById, History!Forget, History!Answer, History!Fade, kept
<1>8. ASSUME NEW r \in Readers, Put(r) PROVE History!Answer(r)
  <2>1. Range(commands)' = Range(commands) \cup {SetEx(env[r], found[r])}
    BY <1>1, <1>8, AppendRange, CommandFacts DEF Put
  <2>2. \A d \in Envs, v \in Content : SetEx(d, v) \in Range(commands)' => v \in Kept(d)
    BY <1>3, <1>4, <2>1 DEF SetEx
  <2>3. \A x \in Readers : found'[x] = NoValue \/ (env'[x] = env[x] /\ found'[x] = found[x])
    BY <1>1, <1>8 DEF Put
  <2>4. \A d \in Envs : kept'[d] \subseteq kept[d] \cup {row'[d]}
    BY <1>2, <1>8, <2>2, <2>3, FadeRule DEF Put
  <2>. QED  BY <1>1, <1>3, <1>8, <2>4 DEF Put, History!Answer, History!Fade, kept
<1>9. ASSUME NEW r \in Readers, Return(r) PROVE History!Answer(r)
  <2>1. \A d \in Envs : kept'[d] \subseteq kept[d] \cup {row'[d]}
    BY <1>2, <1>4, <1>9, FadeRule DEF Return
  <2>. QED  BY <1>1, <1>2, <1>9, <2>1 DEF Return, History!Answer, History!Fade, kept
<1>10. ASSUME NEW e \in Envs, NEW v \in Content, Write(e, v) PROVE History!Write(e)
  <2>1. \A d \in Envs : kept'[d] \subseteq kept[d] \cup {row'[d]}
    BY <1>2, <1>4, <1>10, FadeRule DEF Write
  <2>. QED  BY <1>1, <1>10, <2>1 DEF Write, History!Write, History!Fade, kept
<1>11. ASSUME NEW e \in Envs, Invalidate(e) PROVE History!Forget
  <2>1. Range(commands)' = Range(commands) \cup {SetEx(e, NoValue)}
    BY <1>1, <1>11, AppendRange, CommandFacts DEF Invalidate, Del, Content
  <2>2. \A d \in Envs, v \in Content : SetEx(d, v) \in Range(commands)' => v \in Kept(d)
    BY <1>2, <1>4, <2>1 DEF SetEx
  <2>3. \A d \in Envs : kept'[d] \subseteq kept[d] \cup {row'[d]}
    BY <1>2, <1>11, <2>2, FadeRule DEF Invalidate
  <2>. QED  BY <1>11, <2>3 DEF Invalidate, History!Forget, History!Fade, kept
<1>12. ASSUME NEW e \in Envs, Expire(e) PROVE History!Forget
  <2>1. \A d \in Envs : copy'[d] \in Kept(d)
    BY <1>1, <1>2, <1>12 DEF Expire
  <2>2. \A d \in Envs : kept'[d] \subseteq kept[d] \cup {row'[d]}
    BY <1>4, <1>12, <2>1, FadeRule DEF Expire
  <2>. QED  BY <1>12, <2>2 DEF Expire, History!Forget, History!Fade, kept
<1>13. CASE Serve
  <2>1. /\ commands # <<>> /\ commands' = Tail(commands)
        /\ UNCHANGED <<row, env, found>>
    BY <1>13 DEF Serve, AnswerFromRedis, Execute, ExecuteAbandoned, Fail
  <2>2. /\ Range(commands)' \subseteq Range(commands)
        /\ Head(commands) \in Range(commands) /\ Head(commands) \in Command
    BY <1>1, <1>5, <2>1, TailRange
  <2>3. \A d \in Envs : copy'[d] \in Kept(d)
    <3>1. CASE Execute
      <4>1. /\ Head(commands).env \in Envs /\ Head(commands).value \in Content
            /\ SetEx(Head(commands).env, Head(commands).value) \in Range(commands)
        BY <2>2, <3>1, CommandFacts DEF Execute
      <4>. QED  BY <1>1, <1>2, <1>4, <3>1, <4>1 DEF Execute
    <3>. QED  BY <1>2, <1>13, <3>1 DEF Serve, AnswerFromRedis, ExecuteAbandoned, Fail
  <2>4. \A d \in Envs : kept'[d] \subseteq kept[d] \cup {row'[d]}
    BY <1>4, <2>1, <2>2, <2>3, FadeRule
  <2>5. CASE answer' = answer
    BY <2>1, <2>4, <2>5 DEF History!Next, History!Forget, History!Fade, kept
  <2>6. CASE AnswerFromRedis /\ answer' # answer
    <3>1. PICK r \in Readers : r = Head(commands).reader
      BY <2>2, <2>6, CommandFacts DEF AnswerFromRedis
    <3>2. env[r] = Head(commands).env
      BY <1>1, <2>1, <2>6, <3>1, TailFacts DEF AnswerFromRedis, CacheInv, GetsAwaited
    <3>3. answer' = [answer EXCEPT ![r] = copy[env[r]]]
      BY <2>6, <3>1, <3>2 DEF AnswerFromRedis
    <3>4. History!Answer(r)
      BY <1>1, <1>2, <2>1, <2>4, <3>3 DEF History!Answer, History!Fade, kept
    <3>. QED  BY <3>4 DEF History!Next
  <2>. QED  BY <1>13, <2>5, <2>6 DEF Serve, Execute, ExecuteAbandoned, Fail
<1>14. CASE Restart
  <2>1. \A c \in Range(commands)' : c \in Range(commands) \/ c = Abandoned
    BY <1>14 DEF Restart, Range
  <2>2. \A d \in Envs, v \in Content : SetEx(d, v) # Abandoned
    BY DEF SetEx, Abandoned
  <2>3. /\ \A x \in Readers : found'[x] = NoValue
        /\ \A d \in Envs : copy'[d] \in Kept(d)
        /\ \A d \in Envs, v \in Content : SetEx(d, v) \in Range(commands)' => v \in Kept(d)
    BY <1>2, <1>4, <1>14, <2>1, <2>2 DEF Restart
  <2>4. \A d \in Envs : kept'[d] \subseteq kept[d] \cup {row'[d]}
    BY <2>3, FadeRule
  <2>. QED  BY <1>14, <2>4 DEF Restart, History!Next, History!Stop, History!Fade, kept
<1>15. CASE UNCHANGED cacheVars
  BY <1>15 DEF historyVars, kept, Kept
<1>. QED
  BY <1>6, <1>7, <1>8, <1>9, <1>10, <1>11, <1>12, <1>13, <1>14, <1>15
     DEF CacheNext, Create, Update, RemoveRow, Content, History!Next

(* What EnvironmentCache::get answers is what the row holds, or an older
   environment that has been kept ever since. *)
THEOREM CacheImplementsHistory == CacheSpec => ServesHistory
<1>1. CacheInit => History!Init
  BY InitRefines
<1>2. CacheInv /\ [CacheNext]_cacheVars
        => [History!Next]_<<row, [e \in Envs |-> Kept(e)], env, answer>>
  BY NextRefines DEF historyVars, kept
<1>. QED  BY <1>1, <1>2, Invariance, PTL DEF CacheSpec, ServesHistory, History!Spec

-----------------------------------------------------------------------------
(* The cache under scripts. *)

(* The clock of the interpreter and the one that began with the script agree
   while the script runs. *)
ClockInv ==
    /\ clock \in 0..(Timeout + 1) /\ age \in 0..(Timeout + 1)
    /\ pc \in Script!Running => clock = age
    /\ pc = "interrupted" => age > Timeout

(* The context that tests ask is that of the script's own request. *)
ContextInv ==
    /\ pc \in Script!Running => context = IF stage = "post" THEN response ELSE 0
    /\ pc = "test" => asserted \in Statuses
    /\ recorded \in Seq([status : Nat, passed : BOOLEAN])
    /\ ScriptSeesOwnResponse

(* What is kept of an environment has been in its row, and so has what its
   readers are answered. *)
PastInv ==
    /\ past = [e \in Envs |-> past[e]]
    /\ \A e \in Envs : Kept(e) \subseteq past[e] \cup {NoValue}
    /\ \A r \in Readers :
         /\ answer[r] \in past[env[r]] \cup {NoValue}
         /\ reading[r] = "idle" => answer[r] = NoValue
    /\ ScriptReadsItsEnvironment

-----------------------------------------------------------------------------
(* The scripts: every step keeps the clocks and the contexts. *)

LEMMA NextClock == ClockInv /\ [Next]_vars => ClockInv'
<1> SUFFICES ASSUME ClockInv, [Next]_vars PROVE ClockInv'
  OBVIOUS
<1>. USE TimeoutAssumption DEF ClockInv, Script!Running, Script!Never, scripts,
       Script!interpreter, Script!history
<1>1. CASE Resolve
  BY <1>1 DEF Resolve, Script!Begin
<1>2. CASE CacheStep
  BY <1>2 DEF CacheStep
<1>3. CASE Script!Step
  <2>1. ASSUME NEW s \in Statuses, Script!Transport(s) \/ Script!BeginTest(s) PROVE ClockInv'
    BY <2>1 DEF Script!Transport, Script!BeginTest
  <2>2. CASE Script!Construct \/ Script!Install \/ Script!Execute
    BY <2>2 DEF Script!Construct, Script!Install, Script!Execute, Script!InjectTests
  <2>3. ASSUME NEW v \in ScriptValues, Script!SetVariable(v) PROVE ClockInv'
    BY <2>3 DEF Script!SetVariable
  <2>4. CASE Script!EndTest \/ Script!Throw \/ Script!Return \/ Script!Interrupt
    BY <2>4 DEF Script!EndTest, Script!Throw, Script!Return, Script!Interrupt
  <2>5. CASE Script!Tick
    BY <2>5 DEF Script!Tick, Script!Later
  <2>6. CASE Script!End
    BY <2>6 DEF Script!End, Script!Clear
  <2>. QED  BY <1>3, <2>1, <2>2, <2>3, <2>4, <2>5, <2>6 DEF Script!Step
<1>4. CASE Stop
  BY <1>4 DEF Stop, Script!Clear
<1>5. CASE UNCHANGED vars
  BY <1>5 DEF vars
<1>. QED  BY <1>1, <1>2, <1>3, <1>4, <1>5 DEF Next, ScriptStep

LEMMA NextContext == ContextInv /\ [Next]_vars => ContextInv'
<1> SUFFICES ASSUME ContextInv, [Next]_vars PROVE ContextInv'
  OBVIOUS
<1>. USE StatusAssumption DEF ContextInv, ScriptSeesOwnResponse, Script!ScriptSeesOwnResponse,
       Script!Running, Script!NoStatus, scripts, Script!interpreter, Script!history
<1>1. CASE Resolve
  BY <1>1 DEF Resolve, Script!Begin
<1>2. CASE CacheStep
  BY <1>2 DEF CacheStep
<1>3. CASE Script!Step
  <2>1. ASSUME NEW s \in Statuses, Script!Transport(s) \/ Script!BeginTest(s) PROVE ContextInv'
    BY <2>1 DEF Script!Transport, Script!BeginTest
  <2>2. CASE Script!Construct \/ Script!Install
    BY <2>2 DEF Script!Construct, Script!Install
  <2>7. CASE Script!Execute
    BY <2>7, EmptySeq DEF Script!Execute
  <2>3. ASSUME NEW v \in ScriptValues, Script!SetVariable(v) PROVE ContextInv'
    BY <2>3 DEF Script!SetVariable
  <2>4. CASE Script!EndTest
    <3>1. DEFINE result == [status |-> asserted, passed |-> asserted = context]
    <3>2. /\ result \in [status : Nat, passed : BOOLEAN]
          /\ recorded' = Append(recorded, result)
      BY <2>4 DEF Script!EndTest
    <3>3. result.passed <=> stage = "post" /\ result.status = response
      BY <2>4 DEF Script!EndTest
    <3>. HIDE DEF result
    <3>4. /\ recorded' \in Seq([status : Nat, passed : BOOLEAN])
          /\ \A i \in DOMAIN recorded' :
                recorded'[i] = result \/ (i \in DOMAIN recorded /\ recorded'[i] = recorded[i])
      BY <3>2, AppendFacts
    <3>. QED  BY <2>4, <3>3, <3>4 DEF Script!EndTest
  <2>5. CASE Script!Throw \/ Script!Return \/ Script!Interrupt \/ Script!Tick
    BY <2>5 DEF Script!Throw, Script!Return, Script!Interrupt, Script!Tick
  <2>6. CASE Script!End
    BY <2>6 DEF Script!End, Script!Clear
  <2>. QED  BY <1>3, <2>1, <2>2, <2>3, <2>4, <2>5, <2>6, <2>7 DEF Script!Step
<1>4. CASE Stop
  BY <1>4 DEF Stop, Script!Clear
<1>5. CASE UNCHANGED vars
  BY <1>5 DEF vars
<1>. QED  BY <1>1, <1>2, <1>3, <1>4, <1>5 DEF Next, ScriptStep

(* Verdicts are about the response to the script's own request. *)
THEOREM VerdictsCorrect == Spec => []ScriptSeesOwnResponse
<1>1. Init => ContextInv
  BY EmptySeq DEF Init, Script!ScriptInit, ContextInv, ScriptSeesOwnResponse,
       Script!ScriptSeesOwnResponse, Script!Running
<1>2. ContextInv => ScriptSeesOwnResponse
  BY DEF ContextInv
<1>. QED  BY <1>1, <1>2, NextContext, PTL DEF Spec

(* No script is interrupted for the time that others took. *)
THEOREM InterruptsCorrect == Spec => []InterruptedOnlyLate
<1>1. Init => ClockInv
  BY TimeoutAssumption DEF Init, Script!ScriptInit, ClockInv, Script!Running
<1>2. ClockInv => InterruptedOnlyLate
  BY DEF ClockInv, InterruptedOnlyLate, Script!InterruptedOnlyLate
<1>. QED  BY <1>1, <1>2, NextClock, PTL DEF Spec

-----------------------------------------------------------------------------
(* The cache beneath: its theorem holds of the composition. *)

LEMMA NextIsCacheNext == [Next]_vars => [CacheNext]_cacheVars
  BY ExecutorAssumption
     DEF Next, Resolve, CacheStep, ScriptStep, Stop, Ask, CacheNext, vars

LEMMA CacheUnderScripts == Spec => CacheSpec
<1>1. Init => CacheInit
  BY DEF Init
<1>. QED  BY <1>1, NextIsCacheNext, PTL DEF Spec, CacheSpec

(* While scripts run too, the cache serves only what has been kept. *)
THEOREM HistoryServed == Spec => ServesHistory
  BY CacheUnderScripts, CacheImplementsHistory, PTL

-----------------------------------------------------------------------------
(* Scripts and the environments. *)

(* A step that asks for no environment answers what is kept. *)
LEMMA AnswersKept ==
    ASSUME CacheInv, [CacheNext]_cacheVars, env' = env, NEW r \in Readers
    PROVE  answer'[r] \in {answer[r], NoValue} \cup Kept(env[r])
<1>1. [History!Next]_historyVars
  BY NextRefines
<1>2. env \in [Readers -> Envs] /\ answer \in [Readers -> Content]
  BY DEF CacheInv, CacheTypeOK
<1>3. ASSUME NEW x \in Readers, History!Answer(x)
      PROVE  answer'[r] \in {answer[r], NoValue} \cup Kept(env[r])
  BY <1>2, <1>3 DEF History!Answer
<1>4. CASE History!Stop
  BY <1>4 DEF History!Stop
<1>. QED
  BY <1>1, <1>3, <1>4
     DEF History!Next, History!Write, History!Ask, History!Forget, historyVars

(* Nothing else is kept than before and what the row holds now. *)
LEMMA KeptFades ==
    ASSUME CacheInv, [CacheNext]_cacheVars, NEW e \in Envs
    PROVE  Kept(e)' \subseteq Kept(e) \cup {row'[e]}
<1>1. [History!Next]_historyVars
  BY NextRefines
<1>2. CASE History!Next
  BY <1>2 DEF History!Next, History!Write, History!Ask, History!Answer, History!Forget,
       History!Stop, History!Fade
<1>3. CASE UNCHANGED historyVars
  BY <1>3 DEF historyVars, kept
<1>. QED  BY <1>1, <1>2, <1>3

(* A reader that has been answered is not idle, and one that is idle has no answer. *)
LEMMA IdleReaders ==
    ASSUME CacheInv, PastInv, [CacheNext]_cacheVars, NEW r \in Readers
    PROVE  reading'[r] = "idle" => answer'[r] = NoValue
<1>. USE DEF PastInv, readers, cacheVars, Reads
<1>1. /\ reading = [x \in Readers |-> reading[x]] /\ answer = [x \in Readers |-> answer[x]]
      /\ reading[r] = "idle" => answer[r] = NoValue
  BY DEF CacheInv, CacheTypeOK
<1>2. ASSUME NEW x \in Readers, NEW e \in Envs,
             Get(x, e) \/ FindById(x) \/ Put(x) \/ Return(x)
      PROVE  reading'[r] = "idle" => answer'[r] = NoValue
  BY <1>1, <1>2 DEF Get, FindById, Put, Return
<1>3. CASE Serve
  BY <1>1, <1>3 DEF Serve, AnswerFromRedis, Execute, ExecuteAbandoned, Fail
<1>4. CASE Restart
  BY <1>4 DEF Restart
<1>5. ASSUME NEW e \in Envs, NEW v \in Content, Write(e, v) \/ Expire(e) \/ Invalidate(e)
      PROVE  reading'[r] = "idle" => answer'[r] = NoValue
  BY <1>1, <1>5 DEF Write, Expire, Invalidate
<1>6. CASE UNCHANGED cacheVars
  BY <1>1, <1>6
<1>. QED
  BY <1>2, <1>3, <1>4, <1>5, <1>6, EnvAssumption
     DEF CacheNext, Create, Update, RemoveRow, Content

(* Who asks for another environment has no answer yet. *)
LEMMA AnswersPast ==
    ASSUME CacheInv, PastInv, [CacheNext]_cacheVars, NEW r \in Readers,
           \A e \in Envs : past[e] \subseteq past'[e]
    PROVE  answer'[r] \in past'[env'[r]] \cup {NoValue}
<1>1. env \in [Readers -> Envs] /\ answer \in [Readers -> Content]
  BY DEF CacheInv, CacheTypeOK
<1>2. CASE env' = env
  BY <1>1, <1>2, AnswersKept DEF PastInv
<1>3. ASSUME NEW x \in Readers, NEW e \in Envs, Get(x, e)
      PROVE  answer'[r] \in past'[env'[r]] \cup {NoValue}
  BY <1>1, <1>3 DEF Get, PastInv
<1>4. env' = env \/ \E x \in Readers, e \in Envs : Get(x, e)
  BY DEF CacheNext, cacheVars, readers, FindById, Put, Return, Create, Update, RemoveRow, Write,
       Invalidate, Expire, Serve, AnswerFromRedis, Execute, ExecuteAbandoned, Fail, Restart
<1>. QED  BY <1>2, <1>3, <1>4

LEMMA NextPast == CacheInv /\ PastInv /\ [Next]_vars => PastInv'
<1> SUFFICES ASSUME CacheInv, PastInv, [Next]_vars PROVE PastInv'
  OBVIOUS
<1>1. [CacheNext]_cacheVars
  BY NextIsCacheNext
<1>2. /\ env \in [Readers -> Envs] /\ row \in [Envs -> Content]
      /\ \A e \in Envs : row[e] \in Kept(e)
  BY DEF CacheInv, CacheTypeOK, Kept
<1>3. \/ past' = past /\ row' = row
      \/ Remember /\ UNCHANGED scripts
  BY DEF Next, Resolve, CacheStep, ScriptStep, Stop, Restart, Return, vars, cacheVars
<1>4. /\ past' = [e \in Envs |-> past'[e]]
      /\ \A e \in Envs : past[e] \subseteq past'[e] /\ row'[e] \in past'[e] \cup {NoValue}
  BY <1>2, <1>3 DEF PastInv, Remember
<1>5. \A e \in Envs : Kept(e)' \subseteq past'[e] \cup {NoValue}
  BY <1>1, <1>4, KeptFades DEF PastInv
<1>6. \A r \in Readers : /\ answer'[r] \in past'[env'[r]] \cup {NoValue}
                         /\ reading'[r] = "idle" => answer'[r] = NoValue
  BY <1>1, <1>4, AnswersPast, IdleReaders
<1>7. ScriptReadsItsEnvironment'
  <2>. USE ExecutorAssumption DEF ScriptReadsItsEnvironment, PastInv, scripts
  <2>1. CASE Resolve
    BY <1>2, <2>1 DEF Resolve, Return, Script!Begin, cacheVars, readers
  <2>2. CASE CacheStep
    <3>1. pc # "idle" => env'[Executor] = env[Executor]
      BY <1>2, <2>2
         DEF CacheStep, Ask, Get, FindById, Put, Return, Create, Update, RemoveRow, Write, Invalidate,
             Expire, Serve, AnswerFromRedis, Execute, ExecuteAbandoned, Fail, readers
    <3>. QED  BY <1>2, <1>4, <2>2, <3>1 DEF CacheStep
  <2>3. CASE ScriptStep
    <3>1. pc' # "idle" => pc # "idle" /\ variable' \in {variable} \cup ScriptValues
      BY <2>3 DEF ScriptStep, Script!Step, Script!Transport, Script!Construct, Script!Install,
             Script!Execute, Script!SetVariable, Script!BeginTest, Script!EndTest, Script!Throw,
             Script!Return, Script!Interrupt, Script!Tick, Script!End, Script!Running, Script!Ended
    <3>. QED  BY <2>3, <3>1 DEF ScriptStep, cacheVars, readers
  <2>4. CASE Stop
    BY <2>4 DEF Stop
  <2>5. CASE UNCHANGED vars
    BY <2>5 DEF vars, cacheVars, readers
  <2>. QED  BY <2>1, <2>2, <2>3, <2>4, <2>5 DEF Next
<1>. QED  BY <1>4, <1>5, <1>6, <1>7 DEF PastInv

(* A script reads what its own environment has held, or what it has set itself,
   whoever reads, writes and invalidates environments meanwhile. *)
THEOREM EnvironmentsCorrect == Spec => []ScriptReadsItsEnvironment
<1>1. Init => PastInv
  BY DEF Init, CacheInit, Script!ScriptInit, PastInv, ScriptReadsItsEnvironment, Kept, Range
<1>2. PastInv => ScriptReadsItsEnvironment
  BY DEF PastInv
<1>3. Spec => []CacheInv
  BY CacheUnderScripts, Invariance, PTL
<1>. QED  BY <1>1, <1>2, <1>3, NextPast, PTL DEF Spec
=============================================================================
