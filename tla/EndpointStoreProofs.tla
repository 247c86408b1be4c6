------------------------ MODULE EndpointStoreProofs ------------------------
(***************************************************************************)
(* EndpointStore for any number of endpoints and workers, any pool and     *)
(* whatever fails: the details of an endpoint are those of its type, none  *)
(* outlive it, and what the lookup inside a transaction does to the pool:  *)
(* when it finds no connection, that it then never finds one, and that in  *)
(* a pool of one it never does.                                            *)
(***************************************************************************)
EXTENDS EndpointStore, FiniteSetTheorems, TLAPS

(* Whose connection a transaction keeps. *)
Keepers == {w \in Workers : pc[w] \in Transaction}

ConnectionsCounted == inUse = Cardinality(Keepers)

(* What a worker read of its endpoint is still so unless it was disturbed. *)
ReadIsCurrent ==
    /\ \A e \in Ids : Exists(e) => e \in created
    /\ \A w \in Workers : pc[w] # "idle" => id[w] \in created
    /\ \A w \in Workers : pc[w] \in {"lockRow", "rewrite"} /\ w \notin disturbed =>
         Exists(id[w]) /\ existing[w] = base[id[w]].type

IInv ==
    /\ TypeOK /\ ConnectionsCounted /\ ReadIsCurrent
    /\ OwnTypeHasDetails /\ DetailsHaveEndpoint /\ OnlyOwnTypeHasDetails

-----------------------------------------------------------------------------
LEMMA AnyFacts ==
    AnyId \in Ids /\ AnyType \in Types /\ AnyWanted \in Wanted
<1>1. AnyId \in Ids /\ AnyType \in Types
  BY IdsAssumption, TypesAssumption DEF AnyId, AnyType
<1>2. [type |-> AnyType, status |-> "draft", content |-> Default, source |-> "client"] \in Wanted
  BY <1>1 DEF Wanted, Status, Content
<1>. QED  BY <1>1, <1>2 DEF AnyWanted

LEMMA PayloadIsWanted == Payload \subseteq Wanted
  BY DEF Payload, Wanted, Content

(* Connections are kept by workers one by one. *)
LEMMA KeepersFinite ==
    /\ IsFiniteSet(Keepers) /\ Cardinality(Keepers) \in Nat
    /\ Cardinality(Keepers) <= Cardinality(Workers) /\ Cardinality(Workers) \in Nat
  BY PoolAssumption, FS_Subset, FS_CardinalityType DEF Keepers

LEMMA InitInv == Init => IInv
<1> SUFFICES ASSUME Init PROVE IInv
  OBVIOUS
<1>1. TypeOK
  BY AnyFacts, FreeAssumption DEF Init, TypeOK
<1>2. ConnectionsCounted
  <2>1. Keepers = {}
    BY DEF Init, Keepers, Transaction
  <2>. QED  BY <2>1, FS_EmptySet DEF Init, ConnectionsCounted
<1>. QED
  BY <1>1, <1>2 DEF IInv, Init, ReadIsCurrent, OwnTypeHasDetails, DetailsHaveEndpoint,
       OnlyOwnTypeHasDetails, Exists

-----------------------------------------------------------------------------
(* Connections: taken at the beginning of a transaction, given back at its end. *)

LEMMA TakeConnection ==
    ASSUME IInv, NEW w \in Workers, w \notin Keepers, pc' = [pc EXCEPT ![w] = "findExisting"],
           inUse' = inUse + 1
    PROVE  ConnectionsCounted' /\ inUse' \in Nat
<1>1. Keepers' = Keepers \cup {w}
  BY DEF Keepers, Transaction, IInv, TypeOK
<1>. QED  BY <1>1, KeepersFinite, FS_AddElement DEF ConnectionsCounted, IInv

LEMMA GiveConnection ==
    ASSUME IInv, NEW w \in Workers, w \in Keepers, pc' = [pc EXCEPT ![w] = "idle"],
           inUse' = inUse - 1
    PROVE  ConnectionsCounted' /\ inUse' \in Nat
<1>1. Keepers' = Keepers \ {w}
  BY DEF Keepers, Transaction, IInv, TypeOK
<1>2. IsFiniteSet(Keepers \ {w}) /\ Cardinality(Keepers \ {w}) = Cardinality(Keepers) - 1
  BY KeepersFinite, FS_RemoveElement
<1>3. Cardinality(Keepers \ {w}) \in Nat
  BY <1>2, FS_CardinalityType
<1>. QED  BY <1>1, <1>2, <1>3 DEF ConnectionsCounted, IInv

LEMMA KeepConnection ==
    ASSUME IInv, UNCHANGED inUse, Keepers' = Keepers
    PROVE  ConnectionsCounted' /\ inUse' \in Nat
  BY DEF IInv, ConnectionsCounted, TypeOK

LEMMA NextConnections == IInv /\ [Next]_vars => ConnectionsCounted' /\ inUse' \in Nat
<1> SUFFICES ASSUME IInv, [Next]_vars PROVE ConnectionsCounted' /\ inUse' \in Nat
  OBVIOUS
<1>. USE DEF Goto, request, stored, history, Answer
<1>1. pc = [w \in Workers |-> pc[w]]
  BY DEF IInv, TypeOK
<1>2. ASSUME NEW w \in Workers, NEW u \in Users, NEW e \in Ids,
             \/ \E x \in Payload : Create(w, e, u, x) \/ Update(w, e, u, x)
             \/ PublishRead(w, e, u) \/ Remove(w, e, u)
      PROVE  ConnectionsCounted' /\ inUse' \in Nat
  <2>1. Keepers' = Keepers /\ UNCHANGED inUse
    BY <1>1, <1>2 DEF Create, Update, PublishRead, Remove, Keepers, Transaction
  <2>. QED  BY <2>1, KeepConnection
<1>3. ASSUME NEW w \in Workers, ReadDetails(w) \/ LockRow(w)
      PROVE  ConnectionsCounted' /\ inUse' \in Nat
  <2>1. Keepers' = Keepers /\ UNCHANGED inUse
    BY <1>1, <1>3 DEF ReadDetails, LockRow, Keepers, Transaction
  <2>. QED  BY <2>1, KeepConnection
<1>4. ASSUME NEW w \in Workers, NewTransaction(w) PROVE ConnectionsCounted' /\ inUse' \in Nat
  <2>1. w \notin Keepers
    BY <1>4 DEF NewTransaction, Keepers, Transaction
  <2>. QED  BY <1>4, <2>1, TakeConnection DEF NewTransaction
<1>5. ASSUME NEW w \in Workers, w \in Keepers, EndTransaction(w)
      PROVE  ConnectionsCounted' /\ inUse' \in Nat
  BY <1>5, GiveConnection DEF EndTransaction
<1>6. ASSUME NEW w \in Workers, FindExisting(w) PROVE ConnectionsCounted' /\ inUse' \in Nat
  <2>1. w \in Keepers
    BY <1>6 DEF FindExisting, Keepers, Transaction
  <2>2. CASE EndTransaction(w)
    BY <1>5, <2>1, <2>2
  <2>3. CASE ~EndTransaction(w)
    <3>1. Keepers' = Keepers /\ UNCHANGED inUse
      BY <1>1, <1>6, <2>3 DEF FindExisting, Keepers, Transaction
    <3>. QED  BY <3>1, KeepConnection
  <2>. QED  BY <2>2, <2>3
<1>7. ASSUME NEW w \in Workers, Rewrite(w) PROVE ConnectionsCounted' /\ inUse' \in Nat
  BY <1>5, <1>7 DEF Rewrite, Keepers, Transaction
<1>8. CASE Restart
  <2>1. Keepers' = {}
    BY <1>8 DEF Restart, Keepers, Transaction
  <2>. QED  BY <1>8, <2>1, FS_EmptySet DEF Restart, ConnectionsCounted
<1>9. CASE UNCHANGED vars
  BY <1>9, KeepConnection DEF vars, Keepers
<1>. QED
  BY <1>2, <1>3, <1>4, <1>6, <1>7, <1>8, <1>9 DEF Next, Work

-----------------------------------------------------------------------------
(* Types. *)

LEMMA EndTransactionType ==
    ASSUME IInv, NEW w \in Workers, EndTransaction(w)
    PROVE  /\ lock' \in [Ids -> Workers \cup {Free}]
           /\ pc' \in [Workers -> {"idle", "readDetails", "begin"} \cup Transaction]
           /\ id' \in [Workers -> Ids] /\ wanted' \in [Workers -> Wanted]
           /\ existing' \in [Workers -> Types]
           /\ disturbed' \subseteq {v \in Workers : pc'[v] # "idle"}
           /\ overtaken' \subseteq overtaken \cup {id[w]}
<1>. USE DEF EndTransaction, IInv, TypeOK
<1>1. lock' \in [Ids -> Workers \cup {Free}]
  OBVIOUS
<1>2. /\ pc' \in [Workers -> {"idle", "readDetails", "begin"} \cup Transaction]
      /\ id' \in [Workers -> Ids] /\ wanted' \in [Workers -> Wanted]
      /\ existing' \in [Workers -> Types]
  BY AnyFacts DEF Answer, Goto
<1>3. disturbed' \subseteq {v \in Workers : pc'[v] # "idle"}
  BY DEF History, Others, Answer, Goto
<1>4. overtaken' \subseteq overtaken \cup {id[w]}
  BY DEF History
<1>. QED  BY <1>1, <1>2, <1>3, <1>4

LEMMA NextType == IInv /\ [Next]_vars => TypeOK'
<1> SUFFICES ASSUME IInv, [Next]_vars PROVE TypeOK'
  OBVIOUS
<1>. USE DEF IInv, TypeOK, Goto, request, stored, history
<1>1. inUse' \in Nat
  BY NextConnections
<1>2. ASSUME NEW w \in Workers, NEW e \in Ids, NEW u \in Users, NEW x \in Payload,
             Create(w, e, u, x)
      PROVE  TypeOK'
  <2>1. x.type \in Types /\ x.status \in Status /\ x.content \in Content
    BY DEF Payload, Content
  <2>. QED  BY <1>1, <1>2, <2>1 DEF Create
<1>3. ASSUME NEW w \in Workers, NEW e \in Ids, NEW u \in Users, NEW x \in Payload,
             Update(w, e, u, x)
      PROVE  TypeOK'
  BY <1>1, <1>3, PayloadIsWanted DEF Update
<1>4. ASSUME NEW w \in Workers, NEW e \in Ids, NEW u \in Users, PublishRead(w, e, u)
      PROVE  TypeOK'
  <2>1. base[e] \in [type : Types, status : Status]
    BY <1>4 DEF PublishRead, Exists
  <2>2. [type |-> base[e].type, status |-> "published", content |-> Default, source |-> "store"]
          \in Wanted
    BY <2>1 DEF Wanted, Status, Content
  <2>. QED  BY <1>1, <1>4, <2>2 DEF PublishRead
<1>5. ASSUME NEW w \in Workers, ReadDetails(w) PROVE TypeOK'
  <2>1. /\ wanted[w] \in Wanted /\ wanted[w].type \in Types
        /\ details[id[w]][wanted[w].type] \in Content \cup {Absent}
    BY DEF Wanted
  <2>2. CASE Answer(w) /\ disturbed' = disturbed \ {w}
    BY <1>1, <1>5, <2>2, AnyFacts DEF ReadDetails, Answer
  <2>3. CASE /\ UNCHANGED <<id, existing, disturbed>> /\ Goto(w, "begin")
             /\ \E c \in Content : wanted' = [wanted EXCEPT ![w].content = c]
    <3>1. \A c \in Content : [wanted[w] EXCEPT !.content = c] \in Wanted
      BY <2>1 DEF Wanted
    <3>2. wanted' \in [Workers -> Wanted]
      BY <2>3, <3>1
    <3>. QED  BY <1>1, <1>5, <2>3, <3>2 DEF ReadDetails
  <2>. QED  BY <1>5, <2>1, <2>2, <2>3 DEF ReadDetails, Content
<1>6. ASSUME NEW w \in Workers, NEW e \in Ids, NEW u \in Users, Remove(w, e, u)
      PROVE  TypeOK'
  BY <1>1, <1>6 DEF Remove, Others
<1>7. ASSUME NEW w \in Workers, NewTransaction(w) PROVE TypeOK'
  BY <1>1, <1>7 DEF NewTransaction, Transaction
<1>8. ASSUME NEW w \in Workers, FindExisting(w) PROVE TypeOK'
  <2>1. CASE EndTransaction(w)
    <3>1. overtaken' \subseteq created
      BY <1>8, <2>1 DEF EndTransaction, History, FindExisting, ReadIsCurrent
    <3>. QED  BY <1>1, <1>8, <2>1, <3>1, EndTransactionType DEF FindExisting
  <2>2. CASE ~EndTransaction(w)
    BY <1>1, <1>8, <2>2 DEF FindExisting, Transaction, Exists
  <2>. QED  BY <2>1, <2>2
<1>9. ASSUME NEW w \in Workers, LockRow(w) PROVE TypeOK'
  BY <1>1, <1>9 DEF LockRow, Transaction
<1>10. ASSUME NEW w \in Workers, Rewrite(w) PROVE TypeOK'
  <2>1. /\ wanted[w].type \in Types /\ wanted[w].status \in Status
        /\ wanted[w].content \in Content
    BY DEF Wanted
  <2>2. base' \in [Ids -> [type : Types, status : Status] \cup {Absent}]
    BY <1>10, <2>1 DEF Rewrite
  <2>3. details' \in [Ids -> [Types -> Content \cup {Absent}]]
    <3> DEFINE cleared == [details[id[w]] EXCEPT ![existing[w]] = Absent]
               written == [cleared EXCEPT ![wanted[w].type] = wanted[w].content]
    <3>1. written \in [Types -> Content \cup {Absent}]
      BY <2>1
    <3>2. details' = details \/ details' = [details EXCEPT ![id[w]] = written]
      BY <1>10 DEF Rewrite
    <3>. HIDE DEF written
    <3>. QED  BY <3>1, <3>2
  <2>4. overtaken' \subseteq created
    BY <1>10 DEF Rewrite, EndTransaction, History, ReadIsCurrent
  <2>. QED  BY <1>1, <1>10, <2>2, <2>3, <2>4, EndTransactionType DEF Rewrite
<1>11. CASE Restart
  BY <1>1, <1>11, AnyFacts DEF Restart
<1>12. CASE UNCHANGED vars
  BY <1>12 DEF vars
<1>. QED
  BY <1>2, <1>3, <1>4, <1>5, <1>6, <1>7, <1>8, <1>9, <1>10, <1>11, <1>12 DEF Next, Work

-----------------------------------------------------------------------------
(* What workers have read. *)

LEMMA EndKeepsRead ==
    ASSUME IInv, NEW w \in Workers, EndTransaction(w), UNCHANGED created,
           \A e \in Ids : e # id[w] => base'[e] = base[e],
           base'[id[w]] # Absent => base[id[w]] # Absent
    PROVE  ReadIsCurrent'
<1>. USE DEF IInv, TypeOK, EndTransaction, Answer, Goto, ReadIsCurrent, Exists
<1>1. \A e \in Ids : Exists(e)' => e \in created'
  OBVIOUS
<1>2. \A v \in Workers : pc'[v] # "idle" =>
        v # w /\ pc'[v] = pc[v] /\ id'[v] = id[v] /\ existing'[v] = existing[v]
  OBVIOUS
<1>3. ASSUME NEW v \in Workers, pc'[v] \in {"lockRow", "rewrite"}, v \notin disturbed'
      PROVE  base'[id[v]] # Absent /\ existing[v] = base'[id[v]].type
  <2>1. v # w /\ pc[v] \in {"lockRow", "rewrite"} /\ v \notin disturbed
    BY <1>2, <1>3 DEF History
  <2>2. base'[id[v]] = base[id[v]]
    BY <1>3, <2>1 DEF History, Others
  <2>. QED  BY <2>1, <2>2
<1>. QED  BY <1>1, <1>2, <1>3

LEMMA NextRead == IInv /\ [Next]_vars => ReadIsCurrent'
<1> SUFFICES ASSUME IInv, [Next]_vars PROVE ReadIsCurrent'
  OBVIOUS
<1>. USE DEF IInv, TypeOK, Goto, request, stored, history, Exists
<1>1. ASSUME NEW w \in Workers, NEW e \in Ids, NEW u \in Users, NEW x \in Payload,
             Create(w, e, u, x)
      PROVE  ReadIsCurrent'
  <2>1. \A d \in Ids : d # e => base'[d] = base[d]
    BY <1>1 DEF Create
  <2>. QED  BY <1>1, <2>1 DEF Create, ReadIsCurrent
<1>2. ASSUME NEW w \in Workers, NEW e \in Ids, NEW u \in Users, NEW x \in Payload,
             Update(w, e, u, x)
      PROVE  ReadIsCurrent'
  BY <1>2 DEF Update, ReadIsCurrent
<1>3. ASSUME NEW w \in Workers, NEW e \in Ids, NEW u \in Users, PublishRead(w, e, u)
      PROVE  ReadIsCurrent'
  BY <1>3 DEF PublishRead, ReadIsCurrent
<1>4. ASSUME NEW w \in Workers, ReadDetails(w) PROVE ReadIsCurrent'
  BY <1>4 DEF ReadDetails, ReadIsCurrent, Answer
<1>5. ASSUME NEW w \in Workers, NEW e \in Ids, NEW u \in Users, Remove(w, e, u)
      PROVE  ReadIsCurrent'
  <2>1. \A v \in Workers : pc'[v] \in {"lockRow", "rewrite"} /\ v \notin disturbed' =>
            pc[v] = pc'[v] /\ v \notin disturbed /\ id[v] # e
    BY <1>5 DEF Remove, Others
  <2>. QED  BY <1>5, <2>1 DEF Remove, ReadIsCurrent
<1>6. ASSUME NEW w \in Workers, NewTransaction(w) \/ LockRow(w) PROVE ReadIsCurrent'
  BY <1>6 DEF NewTransaction, LockRow, ReadIsCurrent
<1>7. ASSUME NEW w \in Workers, FindExisting(w) PROVE ReadIsCurrent'
  <2>1. CASE EndTransaction(w)
    BY <1>7, <2>1, EndKeepsRead DEF FindExisting
  <2>2. CASE /\ base[id[w]] # Absent
             /\ existing' = [existing EXCEPT ![w] = base[id[w]].type]
             /\ pc' = [pc EXCEPT ![w] = "lockRow"]
             /\ UNCHANGED <<base, created, id, disturbed>>
    BY <2>2 DEF ReadIsCurrent
  <2>. QED  BY <1>7, <2>1, <2>2 DEF FindExisting
<1>8. ASSUME NEW w \in Workers, Rewrite(w) PROVE ReadIsCurrent'
  <2>1. /\ \A e \in Ids : e # id[w] => base'[e] = base[e]
        /\ base'[id[w]] # Absent => base[id[w]] # Absent
    BY <1>8 DEF Rewrite
  <2>. QED  BY <1>8, <2>1, EndKeepsRead DEF Rewrite
<1>9. CASE Restart
  BY <1>9 DEF Restart, ReadIsCurrent
<1>10. CASE UNCHANGED vars
  BY <1>10 DEF vars, ReadIsCurrent
<1>. QED
  BY <1>1, <1>2, <1>3, <1>4, <1>5, <1>6, <1>7, <1>8, <1>9, <1>10 DEF Next, Work

-----------------------------------------------------------------------------
(* Details. *)

DetailsInv == OwnTypeHasDetails /\ DetailsHaveEndpoint /\ OnlyOwnTypeHasDetails

LEMMA KeepDetails ==
    ASSUME DetailsInv, UNCHANGED <<base, details>>, overtaken \subseteq overtaken'
    PROVE  DetailsInv'
  BY DEF DetailsInv, OwnTypeHasDetails, DetailsHaveEndpoint, OnlyOwnTypeHasDetails, Exists

(* A transaction that commits: the wanted details are in, those of the type that
   was read are out, and no other worker has changed the type since then, or the
   endpoint is overtaken. *)
LEMMA RewriteDetails ==
    ASSUME IInv, NEW w \in Workers, Rewrite(w)
    PROVE  DetailsInv'
<1>. PICK e \in Ids : e = id[w]
  BY DEF IInv, TypeOK
<1>. DEFINE x == wanted[w]
            cleared == [details[e] EXCEPT ![existing[w]] = Absent]
<1>1. /\ x.type \in Types /\ x.content \in Content
      /\ existing[w] \in Types
      /\ x.status \in Status
  BY DEF IInv, TypeOK, Wanted
<1>2. /\ overtaken \subseteq overtaken'
      /\ <<base, details>>' # <<base, details>> /\ w \in disturbed => e \in overtaken'
  BY DEF Rewrite, EndTransaction, History
<1>3. CASE UNCHANGED <<base, details>>
  BY <1>2, <1>3, KeepDetails DEF IInv, DetailsInv
<1>4. CASE ~UNCHANGED <<base, details>>
  <2>1. /\ Exists(e) /\ cleared[x.type] = Absent
        /\ base' = [base EXCEPT ![e] = [type |-> x.type, status |-> x.status]]
        /\ details' = [details EXCEPT ![e] = [cleared EXCEPT ![x.type] = x.content]]
    BY <1>4 DEF Rewrite
  <2>2. cleared \in [Types -> Content \cup {Absent}]
    BY <1>1 DEF IInv, TypeOK
  <2>3. /\ base'[e] # Absent /\ base'[e].type = x.type
        /\ details'[e][x.type] # Absent
        /\ \A t \in Types : t # x.type => details'[e][t] = cleared[t]
    <3>. HIDE DEF cleared
    <3>. QED  BY <1>1, <2>1, <2>2, AbsentAssumption DEF IInv, TypeOK, Exists
  <2>4. \A d \in Ids : d # e => base'[d] = base[d] /\ details'[d] = details[d]
    BY <2>1 DEF IInv, TypeOK
  <2>5. e \notin overtaken' => \A t \in Types : cleared[t] = Absent
    <3>1. SUFFICES ASSUME e \notin overtaken', NEW t \in Types PROVE cleared[t] = Absent
      OBVIOUS
    <3>2. existing[w] = base[e].type /\ e \notin overtaken
      BY <1>2, <1>4, <3>1 DEF IInv, ReadIsCurrent, Rewrite
    <3>. QED  BY <1>1, <3>2 DEF IInv, TypeOK, OnlyOwnTypeHasDetails
  <2>. HIDE DEF cleared
  <2>6. OwnTypeHasDetails' /\ DetailsHaveEndpoint'
    BY <2>3, <2>4 DEF IInv, OwnTypeHasDetails, DetailsHaveEndpoint, Exists
  <2>7. OnlyOwnTypeHasDetails'
    BY <1>2, <2>3, <2>4, <2>5 DEF IInv, OnlyOwnTypeHasDetails, Exists
  <2>. QED  BY <2>6, <2>7 DEF DetailsInv
<1>. QED  BY <1>3, <1>4

LEMMA NextDetails == IInv /\ [Next]_vars => DetailsInv'
<1> SUFFICES ASSUME IInv, [Next]_vars PROVE DetailsInv'
  OBVIOUS
<1>1. DetailsInv
  BY DEF IInv, DetailsInv
<1>2. ASSUME NEW w \in Workers, NEW e \in Ids, NEW u \in Users, NEW x \in Payload,
             Create(w, e, u, x)
      PROVE  DetailsInv'
  <2>1. x.type \in Types /\ x.content \in Content /\ x.status \in Status
    BY DEF Payload, Content
  <2>2. ~Exists(e) /\ \A t \in Types : details[e][t] = Absent
    BY <1>2 DEF Create, IInv, ReadIsCurrent, DetailsHaveEndpoint
  <2>3. /\ Exists(e)' /\ base'[e].type = x.type /\ details'[e][x.type] = x.content
        /\ \A t \in Types : t # x.type => details'[e][t] = Absent
        /\ \A d \in Ids : d # e => base'[d] = base[d] /\ details'[d] = details[d]
    BY <1>2, <2>1, <2>2, AbsentAssumption DEF Create, IInv, TypeOK, Exists
  <2>. QED
    BY <1>1, <1>2, <2>1, <2>3, AbsentAssumption
       DEF Create, history, DetailsInv, OwnTypeHasDetails, DetailsHaveEndpoint,
           OnlyOwnTypeHasDetails, Exists
<1>3. ASSUME NEW w \in Workers, NEW e \in Ids, NEW u \in Users, Remove(w, e, u)
      PROVE  DetailsInv'
  BY <1>1, <1>3
     DEF Remove, IInv, TypeOK, DetailsInv, OwnTypeHasDetails, DetailsHaveEndpoint,
         OnlyOwnTypeHasDetails, Exists
<1>4. ASSUME NEW w \in Workers, NEW e \in Ids, NEW u \in Users,
             \/ \E x \in Payload : Update(w, e, u, x)
             \/ PublishRead(w, e, u)
      PROVE  DetailsInv'
  BY <1>1, <1>4, KeepDetails DEF Update, PublishRead, stored, history
<1>5. ASSUME NEW w \in Workers,
             ReadDetails(w) \/ NewTransaction(w) \/ FindExisting(w) \/ LockRow(w)
      PROVE  DetailsInv'
  BY <1>1, <1>5, KeepDetails
     DEF ReadDetails, NewTransaction, FindExisting, LockRow, EndTransaction, History, stored, history
<1>6. CASE Restart \/ UNCHANGED vars
  BY <1>1, <1>6, KeepDetails DEF Restart, vars, stored
<1>. QED
  BY <1>2, <1>3, <1>4, <1>5, <1>6, RewriteDetails DEF Next, Work

-----------------------------------------------------------------------------
LEMMA Invariance == Spec => []IInv
<1>1. IInv /\ [Next]_vars => IInv'
  BY NextType, NextConnections, NextRead, NextDetails DEF IInv, DetailsInv
<1>. QED  BY <1>1, InitInv, PTL DEF Spec

(* Types, of what is stored and of what workers hold. *)
THEOREM TypeCorrect == Spec => []TypeOK
  BY Invariance, PTL DEF IInv

(* An endpoint has the details of its type, however updates, publications and
   deletions interleave, fail and are cut short. *)
THEOREM OwnDetailsCorrect == Spec => []OwnTypeHasDetails
  BY Invariance, PTL DEF IInv

(* Details do not outlive their endpoint. *)
THEOREM DetailsOwned == Spec => []DetailsHaveEndpoint
  BY Invariance, PTL DEF IInv

(* Other details are left only by an update that another one has overtaken. *)
THEOREM NoOtherDetails == Spec => []OnlyOwnTypeHasDetails
  BY Invariance, PTL DEF IInv

-----------------------------------------------------------------------------
(* Publications. *)

(* What a publication has read of its endpoint is still so unless it was disturbed. *)
StoreIsCurrent ==
    \A w \in Workers :
        /\ pc[w] # "idle" /\ wanted[w].source = "store" /\ w \notin disturbed
        => /\ Exists(id[w]) /\ wanted[w].type = base[id[w]].type
           /\ pc[w] # "readDetails" =>
                wanted[w].content = details[id[w]][base[id[w]].type]

(* A publication that nobody has overtaken writes the details it has read. *)
LEMMA RewriteStores ==
    ASSUME IInv, StoreIsCurrent, NEW w \in Workers, Rewrite(w),
           wanted[w].source = "store", w \notin disturbed
    PROVE  base'[id[w]].type = base[id[w]].type /\ details' = details
<1>. PICK e \in Ids : e = id[w]
  BY DEF IInv, TypeOK
<1>. DEFINE x == wanted[w]
            t == base[e].type
            cleared == [details[e] EXCEPT ![existing[w]] = Absent]
<1>1. existing[w] = t /\ x.type = t /\ x.content = details[e][t] /\ t \in Types /\ Exists(e)
  BY DEF IInv, TypeOK, ReadIsCurrent, StoreIsCurrent, Rewrite
<1>2. details[e] = [cleared EXCEPT ![x.type] = x.content]
  BY <1>1 DEF IInv, TypeOK
<1>3. /\ base' = base \/ base' = [base EXCEPT ![e] = [type |-> x.type, status |-> x.status]]
      /\ details' = details \/ details' = [details EXCEPT ![e] = [cleared EXCEPT ![x.type] = x.content]]
  BY DEF Rewrite
<1>4. base'[e].type = t
  BY <1>1, <1>3 DEF IInv, TypeOK
<1>5. details' = details
  <2>. HIDE DEF cleared, x
  <2>. QED  BY <1>2, <1>3 DEF IInv, TypeOK
<1>. QED  BY <1>4, <1>5

(* A step that takes no publication further, and disturbs those it overtakes. *)
LEMMA OthersStore ==
    ASSUME IInv, StoreIsCurrent,
           \A v \in Workers : pc'[v] # "idle" /\ wanted'[v].source = "store" /\ v \notin disturbed' =>
             /\ pc[v] # "idle" /\ v \notin disturbed
             /\ id'[v] = id[v] /\ wanted'[v] = wanted[v]
             /\ pc'[v] = "readDetails" \/ pc[v] # "readDetails"
             /\ base'[id[v]] = base[id[v]] /\ details'[id[v]] = details[id[v]]
    PROVE  StoreIsCurrent'
  BY DEF StoreIsCurrent, Exists

LEMMA NextStore == IInv /\ StoreIsCurrent /\ [Next]_vars => StoreIsCurrent'
<1> SUFFICES ASSUME IInv, StoreIsCurrent, [Next]_vars PROVE StoreIsCurrent'
  OBVIOUS
<1>. USE DEF IInv, TypeOK, Goto, request, stored, history
<1>1. ASSUME NEW w \in Workers, NEW e \in Ids, NEW u \in Users, NEW x \in Payload,
             Create(w, e, u, x)
      PROVE  StoreIsCurrent'
  <2>1. \A v \in Workers : pc[v] # "idle" => id[v] # e
    BY <1>1 DEF Create, ReadIsCurrent
  <2>. QED  BY <1>1, <2>1, OthersStore DEF Create
<1>2. ASSUME NEW w \in Workers, NEW e \in Ids, NEW u \in Users, NEW x \in Payload,
             Update(w, e, u, x)
      PROVE  StoreIsCurrent'
  <2>1. x.source = "client"
    BY DEF Payload
  <2>. QED  BY <1>2, <2>1, OthersStore DEF Update
<1>3. ASSUME NEW w \in Workers, NEW e \in Ids, NEW u \in Users, PublishRead(w, e, u)
      PROVE  StoreIsCurrent'
  <2>1. ASSUME NEW v \in Workers, v # w
        PROVE  pc'[v] = pc[v] /\ id'[v] = id[v] /\ wanted'[v] = wanted[v]
    BY <1>3, <2>1 DEF PublishRead
  <2>2. /\ id'[w] = e /\ wanted'[w].type = base[e].type /\ pc'[w] = "readDetails"
        /\ Exists(e) /\ UNCHANGED <<base, details, disturbed>>
    BY <1>3 DEF PublishRead
  <2>. QED  BY <2>1, <2>2 DEF StoreIsCurrent, Exists
<1>4. ASSUME NEW w \in Workers, ReadDetails(w) PROVE StoreIsCurrent'
  <2>1. CASE Answer(w) /\ disturbed' = disturbed \ {w}
    BY <1>4, <2>1, OthersStore DEF ReadDetails, Answer
  <2>2. CASE ~(Answer(w) /\ disturbed' = disturbed \ {w})
    <3> DEFINE found == details[id[w]][wanted[w].type]
    <3>1. /\ wanted' = [wanted EXCEPT ![w].content = IF found = Absent THEN Default ELSE found]
          /\ pc' = [pc EXCEPT ![w] = "begin"] /\ pc[w] = "readDetails"
          /\ UNCHANGED <<id, disturbed, base, details>>
      BY <1>4, <2>2 DEF ReadDetails
    <3>2. wanted[w] \in Wanted
      OBVIOUS
    <3>3. /\ wanted'[w].type = wanted[w].type /\ wanted'[w].source = wanted[w].source
          /\ found # Absent => wanted'[w].content = found
      BY <3>1, <3>2 DEF Wanted
    <3>4. wanted[w].source = "store" /\ w \notin disturbed =>
            found = details[id[w]][base[id[w]].type] /\ found # Absent
      BY <3>1 DEF StoreIsCurrent, OwnTypeHasDetails
    <3>5. \A v \in Workers \ {w} : pc'[v] = pc[v] /\ wanted'[v] = wanted[v]
      BY <3>1
    <3>. HIDE DEF found
    <3>. QED  BY <3>1, <3>3, <3>4, <3>5 DEF StoreIsCurrent, Exists
  <2>. QED  BY <2>1, <2>2
<1>5. ASSUME NEW w \in Workers, NEW e \in Ids, NEW u \in Users, Remove(w, e, u)
      PROVE  StoreIsCurrent'
  <2>1. \A v \in Workers : pc'[v] # "idle" /\ v \notin disturbed' =>
            pc[v] = pc'[v] /\ v \notin disturbed /\ id[v] # e
    BY <1>5 DEF Remove, Others
  <2>. QED  BY <1>5, <2>1, OthersStore DEF Remove
<1>6. ASSUME NEW w \in Workers, NewTransaction(w) \/ LockRow(w) PROVE StoreIsCurrent'
  BY <1>6, OthersStore DEF NewTransaction, LockRow
<1>7. ASSUME NEW w \in Workers, EndTransaction(w),
             \A e \in Ids : e # id[w] => base'[e] = base[e] /\ details'[e] = details[e]
      PROVE  StoreIsCurrent'
  <2>1. ASSUME NEW v \in Workers, pc'[v] # "idle", v \notin disturbed'
        PROVE  /\ pc'[v] = pc[v] /\ v \notin disturbed /\ id'[v] = id[v] /\ wanted'[v] = wanted[v]
               /\ base'[id[v]] = base[id[v]] /\ details'[id[v]] = details[id[v]]
    <3>1. v # w /\ pc'[v] = pc[v] /\ id'[v] = id[v] /\ wanted'[v] = wanted[v]
      BY <1>7, <2>1 DEF EndTransaction, Answer
    <3>2. v \notin disturbed /\ (<<base, details>>' # <<base, details>> => id[v] # id[w])
      BY <1>7, <2>1, <3>1 DEF EndTransaction, History, Others
    <3>. QED  BY <1>7, <3>1, <3>2
  <2>. QED  BY <2>1, OthersStore
<1>8. ASSUME NEW w \in Workers, FindExisting(w) PROVE StoreIsCurrent'
  <2>1. CASE EndTransaction(w)
    BY <1>7, <1>8, <2>1 DEF FindExisting
  <2>2. CASE ~EndTransaction(w)
    BY <1>8, <2>2, OthersStore DEF FindExisting
  <2>. QED  BY <2>1, <2>2
<1>9. ASSUME NEW w \in Workers, Rewrite(w) PROVE StoreIsCurrent'
  <2>1. \A e \in Ids : e # id[w] => base'[e] = base[e] /\ details'[e] = details[e]
    BY <1>9 DEF Rewrite
  <2>. QED  BY <1>7, <1>9, <2>1 DEF Rewrite
<1>10. CASE Restart
  BY <1>10 DEF Restart, StoreIsCurrent
<1>11. CASE UNCHANGED vars
  BY <1>11, OthersStore DEF vars
<1>. QED
  BY <1>1, <1>2, <1>3, <1>4, <1>5, <1>6, <1>8, <1>9, <1>10, <1>11 DEF Next, Work

(* Publishing an endpoint leaves its type and its details, unless another worker
   has changed them since they were read. *)
THEOREM PublicationCorrect == Spec => PublishKeepsDetails
<1>. DEFINE Kept == \A w \in Workers :
                       /\ pc[w] = "rewrite" /\ pc'[w] = "idle"
                       /\ wanted[w].source = "store" /\ w \notin disturbed
                       => base'[id[w]].type = base[id[w]].type /\ details' = details
<1>1. Init => StoreIsCurrent
  BY DEF Init, StoreIsCurrent
<1>2. IInv /\ StoreIsCurrent /\ [Next]_vars => [Kept]_vars
  <2> SUFFICES ASSUME IInv, StoreIsCurrent, Next, NEW w \in Workers,
                      pc[w] = "rewrite", pc'[w] = "idle",
                      wanted[w].source = "store", w \notin disturbed
               PROVE  base'[id[w]].type = base[id[w]].type /\ details' = details
    OBVIOUS
  <2>1. Rewrite(w) \/ Restart
    <3>. USE DEF IInv, TypeOK, Goto
    <3>1. ASSUME NEW v \in Workers, NEW e \in Ids, NEW u \in Users, NEW x \in Payload,
                 Create(v, e, u, x) \/ Update(v, e, u, x)
          PROVE  FALSE
      BY <3>1 DEF Create, Update
    <3>2. ASSUME NEW v \in Workers, NEW e \in Ids, NEW u \in Users,
                 PublishRead(v, e, u) \/ Remove(v, e, u)
          PROVE  FALSE
      BY <3>2 DEF PublishRead, Remove
    <3>3. ASSUME NEW v \in Workers, NewTransaction(v) \/ LockRow(v) PROVE FALSE
      BY <3>3 DEF NewTransaction, LockRow
    <3>4. ASSUME NEW v \in Workers, v # w, Answer(v) PROVE FALSE
      BY <3>4 DEF Answer
    <3>5. ASSUME NEW v \in Workers, ReadDetails(v) PROVE FALSE
      BY <3>4, <3>5 DEF ReadDetails
    <3>6. ASSUME NEW v \in Workers, FindExisting(v) PROVE FALSE
      BY <3>4, <3>6 DEF FindExisting, EndTransaction
    <3>7. ASSUME NEW v \in Workers, Rewrite(v) PROVE v = w
      BY <3>4, <3>7 DEF Rewrite, EndTransaction
    <3>. QED  BY <3>1, <3>2, <3>3, <3>5, <3>6, <3>7 DEF Next, Work
  <2>2. CASE Restart
    BY <2>2 DEF Restart, stored
  <2>. QED  BY <2>1, <2>2, RewriteStores
<1>. QED  BY <1>1, <1>2, NextStore, Invariance, PTL DEF Spec, PublishKeepsDetails

-----------------------------------------------------------------------------
(* Connections of the pool. *)

PoolBound == inUse <= PoolSize

LEMMA Ends ==
    ASSUME IInv, NEW w \in Workers, EndTransaction(w)
    PROVE  inUse' <= inUse
  BY DEF EndTransaction, IInv, TypeOK

LEMMA NextPool == IInv /\ PoolBound /\ [Next]_vars => PoolBound'
<1> SUFFICES ASSUME IInv, PoolBound, [Next]_vars PROVE PoolBound'
  OBVIOUS
<1>. USE PoolAssumption, NextConnections DEF PoolBound, IInv, TypeOK
<1>1. ASSUME NEW w \in Workers, NEW u \in Users, NEW e \in Ids,
             \/ \E x \in Payload : Create(w, e, u, x) \/ Update(w, e, u, x)
             \/ PublishRead(w, e, u) \/ Remove(w, e, u)
      PROVE  PoolBound'
  BY <1>1 DEF Create, Update, PublishRead, Remove
<1>2. ASSUME NEW w \in Workers, ReadDetails(w) \/ NewTransaction(w) \/ LockRow(w)
      PROVE  PoolBound'
  BY <1>2 DEF ReadDetails, NewTransaction, LockRow, Connection
<1>3. ASSUME NEW w \in Workers, FindExisting(w) \/ Rewrite(w) PROVE PoolBound'
  BY <1>3, Ends DEF FindExisting, Rewrite
<1>4. CASE Restart \/ UNCHANGED vars
  BY <1>4 DEF Restart, vars
<1>. QED  BY <1>1, <1>2, <1>3, <1>4 DEF Next, Work

LEMMA PoolInvariance == Spec => [](IInv /\ PoolBound)
<1>1. Init => PoolBound
  BY PoolAssumption DEF Init, PoolBound
<1>. QED  BY <1>1, NextPool, Invariance, PTL DEF Spec

(* In any pool, of one connection as main.cpp makes it or of more, the lookup
   inside a transaction finds a connection unless every connection is kept by a
   transaction, its own among them: that takes as many workers at work on updates
   as the pool has connections. *)
THEOREM LookupCorrect ==
    Spec => [](\/ LookupFindsConnection
               \/ Cardinality(Keepers) = PoolSize /\ PoolSize <= Cardinality(Workers))
<1>1. IInv /\ PoolBound =>
        \/ LookupFindsConnection
        \/ Cardinality(Keepers) = PoolSize /\ PoolSize <= Cardinality(Workers)
  <2> SUFFICES ASSUME IInv, PoolBound, ~LookupFindsConnection
               PROVE  Cardinality(Keepers) = PoolSize /\ PoolSize <= Cardinality(Workers)
    OBVIOUS
  <2>1. ~(inUse < PoolSize) /\ inUse <= PoolSize /\ inUse = Cardinality(Keepers)
    BY DEF IInv, ConnectionsCounted, PoolBound, LookupFindsConnection, Connection
  <2>2. PoolSize \in Nat
    BY PoolAssumption
  <2>. QED  BY <2>1, <2>2, KeepersFinite
<1>. QED  BY <1>1, PoolInvariance, PTL

(* Updates that wait for a second connection, and whether they keep the pool. *)
AtLookup == {w \in Workers : pc[w] = "findExisting"}
Starved == Cardinality(AtLookup) >= PoolSize

(* Then nobody keeps a connection but they, and none is left. *)
LEMMA StarvedFacts ==
    ASSUME IInv, PoolBound, Starved
    PROVE  ~Connection /\ Keepers = AtLookup
<1>1. AtLookup \subseteq Keepers
  BY DEF AtLookup, Keepers, Transaction
<1>2. /\ Cardinality(AtLookup) \in Nat /\ Cardinality(AtLookup) <= Cardinality(Keepers)
      /\ Cardinality(AtLookup) = Cardinality(Keepers) => AtLookup = Keepers
  BY <1>1, KeepersFinite, FS_Subset, FS_CardinalityType
<1>3. /\ inUse = Cardinality(Keepers) /\ inUse <= PoolSize
      /\ PoolSize <= Cardinality(AtLookup) /\ PoolSize \in Nat
  BY PoolAssumption DEF IInv, ConnectionsCounted, PoolBound, Starved
<1>. QED  BY <1>2, <1>3, KeepersFinite DEF Connection

(* In any pool: once as many updates wait for their lookup as there are
   connections, no handler reaches the database again until the engine is
   restarted, neither theirs nor any other. *)
THEOREM StarvedForever == Spec => [][Starved => Restart]_vars
<1>1. IInv /\ PoolBound /\ [Next]_vars => [Starved => Restart]_vars
  <2> SUFFICES ASSUME IInv, PoolBound, Starved, Next PROVE Restart
    OBVIOUS
  <2>1. ~Connection /\ Keepers = AtLookup
    BY StarvedFacts
  <2>2. \A w \in Workers : pc[w] \notin {"lockRow", "rewrite"}
    BY <2>1 DEF Keepers, AtLookup, Transaction
  <2>3. ASSUME NEW w \in Workers, NEW e \in Ids, NEW u \in Users
        PROVE  /\ \A x \in Payload : ~Create(w, e, u, x) /\ ~Update(w, e, u, x)
               /\ ~PublishRead(w, e, u) /\ ~Remove(w, e, u)
    BY <2>1 DEF Create, Update, PublishRead, Remove
  <2>4. ASSUME NEW w \in Workers PROVE ~Work(w)
    BY <2>1, <2>2 DEF Work, ReadDetails, NewTransaction, FindExisting, LockRow, Rewrite
  <2>. QED  BY <2>3, <2>4 DEF Next
<1>. QED  BY <1>1, PoolInvariance, PTL DEF Spec

(* In the pool of one that main.cpp makes no update or publication gets past its
   lookup: none ever changes an endpoint. *)
NoUpdatePasses == \A w \in Workers : pc[w] \notin {"lockRow", "rewrite"}

THEOREM PoolOfOneNeverUpdates ==
    ASSUME PoolSize = 1
    PROVE  Spec => []NoUpdatePasses
<1>1. Init => NoUpdatePasses
  BY DEF Init, NoUpdatePasses
<1>2. IInv /\ NoUpdatePasses /\ [Next]_vars => NoUpdatePasses'
  <2> SUFFICES ASSUME IInv, NoUpdatePasses, [Next]_vars PROVE NoUpdatePasses'
    OBVIOUS
  <2>. USE DEF NoUpdatePasses, IInv, TypeOK, Goto
  <2>1. ASSUME NEW w \in Workers PROVE ~FindExisting(w)
    <3>1. SUFFICES ASSUME pc[w] = "findExisting", Connection PROVE FALSE
      BY DEF FindExisting
    <3>2. {w} \subseteq Keepers /\ Cardinality({w}) = 1
      BY <3>1, FS_Singleton DEF Keepers, Transaction
    <3>3. inUse >= 1
      BY <3>2, KeepersFinite, FS_Subset DEF ConnectionsCounted
    <3>. QED  BY <3>1, <3>3 DEF Connection
  <2>2. ASSUME NEW w \in Workers, NEW e \in Ids, NEW u \in Users,
               \/ \E x \in Payload : Create(w, e, u, x) \/ Update(w, e, u, x)
               \/ PublishRead(w, e, u) \/ Remove(w, e, u)
        PROVE  NoUpdatePasses'
    BY <2>2 DEF Create, Update, PublishRead, Remove
  <2>3. ASSUME NEW w \in Workers, ReadDetails(w) \/ NewTransaction(w) PROVE NoUpdatePasses'
    BY <2>3 DEF ReadDetails, NewTransaction, Answer
  <2>4. ASSUME NEW w \in Workers PROVE ~LockRow(w) /\ ~Rewrite(w)
    BY DEF LockRow, Rewrite
  <2>5. CASE Restart \/ UNCHANGED vars
    BY <2>5 DEF Restart, vars
  <2>. QED  BY <2>1, <2>2, <2>3, <2>4, <2>5 DEF Next, Work
<1>. QED  BY <1>1, <1>2, Invariance, PTL DEF Spec
=============================================================================
