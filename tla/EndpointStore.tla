--------------------------- MODULE EndpointStore ---------------------------
(***************************************************************************)
(* The endpoint catalog in PostgreSQL: a row of endpoints, and one of the  *)
(* table of its protocol type with the details.                            *)
(*                                                                         *)
(* Statements go through a pool of connections.  A plain statement borrows *)
(* one while it runs; a transaction keeps one from newTransaction to its   *)
(* end.  PostgresEndpointRepository::update opens a transaction and then   *)
(* looks the endpoint up through the pool, not through the transaction.    *)
(***************************************************************************)
EXTENDS Naturals, FiniteSets, Capabilities

CONSTANTS
    Ids,        \* ids that endpoints get when they are created
    Types,      \* protocol types in use
    Payloads,   \* details a client sends
    Users,      \* members of the project
    RoleOf,     \* the project role of each
    Workers,    \* threads that run request handlers (one by default)
    Absent,     \* no row
    PoolSize,   \* connections of the pool (one: main.cpp)
    DbFails,    \* TRUE: a statement may fail, which rolls its transaction back
    Restarts    \* TRUE: the engine may stop and start again

Status == {"draft", "published"}

ASSUME RoleAssumption == RoleOf \in [Users -> UserRole]
ASSUME PoolAssumption == PoolSize \in Nat /\ Workers # {} /\ IsFiniteSet(Workers)
ASSUME TypesAssumption == Types # {} /\ Types \subseteq {"REST", "GRAPHQL", "SOAP", "WEBSOCKET"}
ASSUME IdsAssumption == Ids # {}

VARIABLES
    base,      \* rows of endpoints
    details,   \* the row of each protocol table
    created,   \* ids handed out so far
    lock,      \* the worker whose transaction has updated the row
    inUse,     \* connections that transactions keep
    pc,        \* what each worker does next
    id,        \* the endpoint of the worker's request
    wanted,    \* the row and details it wants to store
    existing,  \* the type update() read for the stored details
    disturbed, \* history: workers whose endpoint another changed meanwhile
    overtaken  \* history: endpoints that a disturbed worker has then written

vars == <<base, details, created, lock, inUse, pc, id, wanted, existing, disturbed, overtaken>>
history == <<disturbed, overtaken>>
stored == <<base, details, created>>
request == <<id, wanted>>

Free == "free"
Default == "default"  \* the details of a default-constructed struct
Content == Payloads \cup {Default}
ASSUME AbsentAssumption ==
    Absent \notin Content /\ Absent \notin [type : Types, status : Status]
ASSUME FreeAssumption == Free \notin Workers

(* The row and details a request asks for; source tells a client's from those
   that publish reads back. *)
Wanted == [type : Types, status : Status, content : Content, source : {"client", "store"}]
Transaction == {"findExisting", "lockRow", "rewrite"}

(* The locals of a worker that has no request. *)
AnyId == CHOOSE e \in Ids : TRUE
AnyType == CHOOSE t \in Types : TRUE
AnyWanted == CHOOSE x \in Wanted : TRUE

TypeOK ==
    /\ base \in [Ids -> [type : Types, status : Status] \cup {Absent}]
    /\ details \in [Ids -> [Types -> Content \cup {Absent}]]
    /\ created \subseteq Ids
    /\ lock \in [Ids -> Workers \cup {Free}]
    /\ inUse \in Nat
    /\ pc \in [Workers -> {"idle", "readDetails", "begin"} \cup Transaction]
    /\ id \in [Workers -> Ids]
    /\ wanted \in [Workers -> Wanted]
    /\ existing \in [Workers -> Types]
    /\ disturbed \subseteq {w \in Workers : pc[w] # "idle"}
    /\ overtaken \subseteq created

Init ==
    /\ base = [e \in Ids |-> Absent]
    /\ details = [e \in Ids |-> [t \in Types |-> Absent]]
    /\ created = {}
    /\ lock = [e \in Ids |-> Free]
    /\ inUse = 0
    /\ pc = [w \in Workers |-> "idle"]
    /\ id = [w \in Workers |-> AnyId]
    /\ wanted = [w \in Workers |-> AnyWanted]
    /\ existing = [w \in Workers |-> AnyType]
    /\ disturbed = {} /\ overtaken = {}

Goto(w, step) == pc' = [pc EXCEPT ![w] = step]

(* The handler answers, and its locals are gone. *)
Answer(w) ==
    /\ Goto(w, "idle")
    /\ id' = [id EXCEPT ![w] = AnyId]
    /\ wanted' = [wanted EXCEPT ![w] = AnyWanted]
    /\ existing' = [existing EXCEPT ![w] = AnyType]

(* A statement outside a transaction waits for a connection that is not kept. *)
Connection == inUse < PoolSize

Exists(e) == base[e] # Absent

(* Who else is at work on e while w changes it. *)
Others(w, e) == {v \in Workers \ {w} : pc[v] # "idle" /\ id[v] = e}

-----------------------------------------------------------------------------
(* POST /api/projects/{id}/endpoints: both rows in one transaction. *)
Create(w, e, u, x) ==
    /\ pc[w] = "idle" /\ Connection
    /\ HasCapability(RoleOf[u], "EditEndpoints")
    /\ e \notin created
    /\ created' = created \cup {e}
    /\ base' = [base EXCEPT ![e] = [type |-> x.type, status |-> x.status]]
    /\ details' = [details EXCEPT ![e][x.type] = x.content]
    /\ UNCHANGED <<lock, inUse, pc, request, existing, history>>

(* PUT /api/endpoints/{id}: of the endpoint that is looked up before, only that
   it exists and its project, which never changes, are used. *)
Update(w, e, u, x) ==
    /\ pc[w] = "idle" /\ Connection
    /\ Exists(e)
    /\ HasCapability(RoleOf[u], "EditEndpoints")
    /\ id' = [id EXCEPT ![w] = e]
    /\ wanted' = [wanted EXCEPT ![w] = x]
    /\ Goto(w, "begin")
    /\ UNCHANGED <<stored, lock, inUse, existing, history>>

(* POST /api/endpoints/{id}/publish: the whole endpoint is read, its row by one
   statement and its details by another, to be written back as published. *)
PublishRead(w, e, u) ==
    /\ pc[w] = "idle" /\ Connection
    /\ Exists(e)
    /\ HasCapability(RoleOf[u], "PublishEndpoints")
    /\ id' = [id EXCEPT ![w] = e]
    /\ wanted' = [wanted EXCEPT ![w] =
                    [type |-> base[e].type, status |-> "published", content |-> Default,
                     source |-> "store"]]
    /\ Goto(w, "readDetails")
    /\ UNCHANGED <<stored, lock, inUse, existing, history>>

(* Mutant: only the row is read, and published with empty details. *)
ReadNoDetails(w) ==
    /\ pc[w] = "readDetails"
    /\ Goto(w, "begin")
    /\ UNCHANGED <<stored, lock, inUse, request, existing, history>>

ReadDetails(w) ==
    /\ pc[w] = "readDetails" /\ Connection
    /\ LET found == details[id[w]][wanted[w].type] IN
       \/ /\ wanted' = [wanted EXCEPT ![w].content = IF found = Absent THEN Default ELSE found]
          /\ Goto(w, "begin")
          /\ UNCHANGED <<id, existing, disturbed>>
       \/ DbFails /\ Answer(w) /\ disturbed' = disturbed \ {w}
    /\ UNCHANGED <<stored, lock, inUse, overtaken>>

(* DELETE /api/endpoints/{id} waits for a transaction that has the row, and
   cascades to the details. *)
Remove(w, e, u) ==
    /\ pc[w] = "idle" /\ Connection
    /\ Exists(e) /\ lock[e] = Free
    /\ HasCapability(RoleOf[u], "DeleteEndpoints")
    /\ base' = [base EXCEPT ![e] = Absent]
    /\ details' = [details EXCEPT ![e] = [t \in Types |-> Absent]]
    /\ disturbed' = disturbed \cup Others(w, e)
    /\ UNCHANGED <<created, lock, inUse, pc, request, existing, overtaken>>

-----------------------------------------------------------------------------
(* PostgresEndpointRepository::update. *)

NewTransaction(w) ==
    /\ pc[w] = "begin" /\ Connection
    /\ inUse' = inUse + 1
    /\ Goto(w, "findExisting")
    /\ UNCHANGED <<stored, lock, request, existing, history>>

(* What the end of an update disturbs, and whether it was itself disturbed. *)
History(w) ==
    LET writes == <<base, details>>' # <<base, details>> IN
    /\ disturbed' = (disturbed \ {w}) \cup (IF writes THEN Others(w, id[w]) ELSE {})
    /\ overtaken' = overtaken \cup (IF writes /\ w \in disturbed THEN {id[w]} ELSE {})

(* Commit or rollback: the connection goes back and the row is let go. *)
EndTransaction(w) ==
    /\ inUse' = inUse - 1
    /\ lock' = [e \in Ids |-> IF lock[e] = w THEN Free ELSE lock[e]]
    /\ Answer(w)
    /\ History(w)

(* Mutant: an update whose endpoint is gone returns with its transaction open. *)
FindExistingLeaks(w) ==
    /\ pc[w] = "findExisting" /\ Connection
    /\ UNCHANGED stored
    /\ \/ /\ Exists(id[w])
          /\ existing' = [existing EXCEPT ![w] = base[id[w]].type]
          /\ Goto(w, "lockRow") /\ UNCHANGED <<request, history>>
       \/ /\ ~Exists(id[w]) \/ DbFails
          /\ Answer(w) /\ History(w)
    /\ UNCHANGED <<inUse, lock>>

(* findById through the pool, while the transaction's connection is kept. *)
FindExisting(w) ==
    /\ pc[w] = "findExisting" /\ Connection
    /\ UNCHANGED stored
    /\ \/ /\ Exists(id[w])
          /\ existing' = [existing EXCEPT ![w] = base[id[w]].type]
          /\ Goto(w, "lockRow")
          /\ UNCHANGED <<inUse, lock, request, history>>
       \/ (~Exists(id[w]) \/ DbFails) /\ EndTransaction(w)

(* The UPDATE waits for another transaction's; without a row it changes none. *)
LockRow(w) ==
    /\ pc[w] = "lockRow" /\ lock[id[w]] = Free
    /\ lock' = IF Exists(id[w]) THEN [lock EXCEPT ![id[w]] = w] ELSE lock
    /\ Goto(w, "rewrite")
    /\ UNCHANGED <<stored, inUse, request, existing, history>>

(* Mutant: the details that were stored are left, of whatever type. *)
RewriteKeeps(w) ==
    /\ pc[w] = "rewrite"
    /\ LET e == id[w]
           x == wanted[w] IN
       \/ /\ Exists(e)
          /\ base' = [base EXCEPT ![e] = [type |-> x.type, status |-> x.status]]
          /\ details' = [details EXCEPT ![e][x.type] = x.content]
       \/ ~Exists(e) /\ UNCHANGED <<base, details>>
    /\ EndTransaction(w)
    /\ UNCHANGED created

(* Mutant: the wanted details are inserted before the stored ones are deleted. *)
RewriteSwapped(w) ==
    /\ pc[w] = "rewrite"
    /\ LET e == id[w]
           x == wanted[w]
           written == [details[e] EXCEPT ![x.type] = x.content] IN
       /\ base' = IF Exists(e) THEN [base EXCEPT ![e] = [type |-> x.type, status |-> x.status]]
                ELSE base
       /\ details' = [details EXCEPT ![e] = [written EXCEPT ![existing[w]] = Absent]]
    /\ EndTransaction(w)
    /\ UNCHANGED created

(* Mutant: the detail tables have no foreign key. *)
RewriteNoKey(w) ==
    /\ pc[w] = "rewrite"
    /\ LET e == id[w]
           x == wanted[w]
           cleared == [details[e] EXCEPT ![existing[w]] = Absent] IN
       /\ base' = IF Exists(e) THEN [base EXCEPT ![e] = [type |-> x.type, status |-> x.status]]
                ELSE base
       /\ details' = [details EXCEPT ![e] = [cleared EXCEPT ![x.type] = x.content]]
    /\ EndTransaction(w)
    /\ UNCHANGED created

(* The details of the type read before go, the wanted ones come, and all is
   committed; the insert is refused, and nothing kept, when the endpoint is gone
   or its table already holds a row of it. *)
Rewrite(w) ==
    /\ pc[w] = "rewrite"
    /\ LET e == id[w]
           x == wanted[w]
           cleared == [details[e] EXCEPT ![existing[w]] = Absent] IN
       \/ /\ Exists(e) /\ cleared[x.type] = Absent
          /\ base' = [base EXCEPT ![e] = [type |-> x.type, status |-> x.status]]
          /\ details' = [details EXCEPT ![e] = [cleared EXCEPT ![x.type] = x.content]]
       \/ /\ ~Exists(e) \/ cleared[x.type] # Absent \/ DbFails
          /\ UNCHANGED <<base, details>>
    /\ EndTransaction(w)
    /\ UNCHANGED created

(* The engine stops: PostgreSQL rolls its transactions back. *)
Restart ==
    /\ Restarts
    /\ pc' = [w \in Workers |-> "idle"]
    /\ lock' = [e \in Ids |-> Free]
    /\ inUse' = 0
    /\ id' = [w \in Workers |-> AnyId] /\ wanted' = [w \in Workers |-> AnyWanted]
    /\ existing' = [w \in Workers |-> AnyType]
    /\ disturbed' = {}
    /\ UNCHANGED <<stored, overtaken>>

-----------------------------------------------------------------------------
Work(w) ==
    ReadDetails(w) \/ NewTransaction(w) \/ FindExisting(w) \/ LockRow(w) \/ Rewrite(w)

Payload == [type : Types, status : Status, content : Payloads, source : {"client"}]

Next ==
    \/ \E w \in Workers, u \in Users, e \in Ids :
         \/ \E x \in Payload : Create(w, e, u, x) \/ Update(w, e, u, x)
         \/ PublishRead(w, e, u)
         \/ Remove(w, e, u)
    \/ \E w \in Workers : Work(w)
    \/ Restart

Spec == Init /\ [][Next]_vars

(* A started handler runs on.  The pool and PostgreSQL serve those who wait for
   a connection or a row in their order: fairness is strong. *)
FairSpec == Spec /\ \A w \in Workers : SF_vars(Work(w))

-----------------------------------------------------------------------------
(* What the catalog should guarantee. *)

(* An endpoint always has the details its type calls for, so that no reader
   falls back to empty ones, whatever fails and however updates interleave. *)
OwnTypeHasDetails ==
    \A e \in Ids : Exists(e) => details[e][base[e].type] # Absent

(* There are no other details, which a later change of the type would run into,
   unless the endpoint was written by an update that another had overtaken: it
   deletes the details of the type it read before. *)
OnlyOwnTypeHasDetails ==
    \A e \in Ids \ overtaken, t \in Types :
        details[e][t] # Absent => Exists(e) /\ base[e].type = t

(* Details never outlive their endpoint: an update overtaken by a deletion does
   not put them back. *)
DetailsHaveEndpoint ==
    \A e \in Ids, t \in Types : details[e][t] # Absent => Exists(e)

(* A lookup inside a transaction finds a connection: no update waits for itself
   or for others that wait as it does. *)
LookupFindsConnection ==
    \A w \in Workers : pc[w] = "findExisting" => Connection

(* Publishing changes an endpoint's status and nothing else, although it writes
   the whole endpoint back: unless, that is, another worker has changed the
   endpoint since it was read. *)
PublishKeepsDetails ==
    [][\A w \in Workers :
         /\ pc[w] = "rewrite" /\ pc'[w] = "idle"
         /\ wanted[w].source = "store" /\ w \notin disturbed
         => base'[id[w]].type = base[id[w]].type /\ details' = details]_vars

(* Every update and every publication is answered in the end. *)
UpdateAnswered == \A w \in Workers : pc[w] = "begin" ~> pc[w] = "idle"
=============================================================================
