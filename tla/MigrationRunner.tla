-------------------------- MODULE MigrationRunner --------------------------
(***************************************************************************)
(* The engine's bootstrap applies the migration files that                 *)
(* schema_migrations does not list, each between a BEGIN and a COMMIT that *)
(* are statements of their own.  Engines may boot at the same time, be of  *)
(* different releases, and stop at any point.                              *)
(***************************************************************************)
EXTENDS Naturals, Sequences, FiniteSets, SequencesExt

CONSTANTS
    Files,     \* migration files, numbered in the order of their versions
    Rank,      \* where the database's collation puts each file's name
    Engines,   \* engine processes, each with a pool of one connection
    Release,   \* the files each engine is shipped with
    DbFails,   \* TRUE: a statement may fail
    Restarts   \* TRUE: an engine may stop and start again

(* A collation is a total order: PostgreSQL tells names that compare equal apart
   by their bytes. *)
ASSUME FileAssumption ==
    /\ Files \subseteq Nat \ {0}
    /\ Rank \in [Files -> Nat] /\ \A f, g \in Files : Rank[f] = Rank[g] => f = g
ASSUME ReleaseAssumption ==
    \A e \in Engines : Release[e] \subseteq Files /\ IsFiniteSet(Release[e])
ASSUME SwitchAssumption == {DbFails, Restarts} \subseteq BOOLEAN

VARIABLES
    recorded,  \* committed rows of schema_migrations
    effects,   \* how often each file's statements were committed
    ran,       \* the files whose statements ran in each engine's transaction
    rows,      \* the rows of schema_migrations it inserted
    pc,        \* what each engine does next
    listed,    \* the versions it read from schema_migrations
    todo       \* the files it has still to look at, in order

schema == <<recorded, effects>>
transaction == <<ran, rows>>
lists == <<listed, todo>>
vars == <<recorded, effects, ran, rows, pc, listed, todo>>

Step == {"boot", "next", "begin", "contents", "insert", "commit", "rollback", "up", "failed"}

TypeOK ==
    /\ recorded \subseteq Files
    /\ effects \in [Files -> Nat]
    /\ ran \in [Engines -> SUBSET Files] /\ rows \in [Engines -> SUBSET Files]
    /\ pc \in [Engines -> Step]
    /\ listed \in [Engines -> Seq(Files)] /\ todo \in [Engines -> Seq(Files)]

Init ==
    /\ recorded = {}
    /\ effects = [f \in Files |-> 0]
    /\ ran = [e \in Engines |-> {}] /\ rows = [e \in Engines |-> {}]
    /\ pc = [e \in Engines |-> "boot"]
    /\ listed = [e \in Engines |-> <<>>] /\ todo = [e \in Engines |-> <<>>]

Goto(e, step) == pc' = [pc EXCEPT ![e] = step]

(* What COMMIT makes of the transaction, and what closes it either way. *)
Publish(e) ==
    /\ recorded' = recorded \cup rows[e]
    /\ effects' = [f \in Files |-> IF f \in ran[e] THEN effects[f] + 1 ELSE effects[f]]

CloseTransaction(e) == ran' = [ran EXCEPT ![e] = {}] /\ rows' = [rows EXCEPT ![e] = {}]

-----------------------------------------------------------------------------
(* Mutant: the search may stop on the version after the one it looks for. *)
LowerBoundPast(list, x) ==
    LET bound[count \in 0..Len(list)] ==
          [first \in Nat |->
             IF count = 0 THEN first
             ELSE LET half == count \div 2 IN
                  IF list[first + half] <= x
                  THEN bound[count - half - 1][first + half + 1]
                  ELSE bound[half][first]]
    IN bound[Len(list)][1]

(* std::lower_bound and std::binary_search, by the bytes of the names: what is
   left of the search are count versions from first on. *)
LowerBound(list, x) ==
    LET bound[count \in 0..Len(list)] ==
          [first \in Nat |->
             IF count = 0 THEN first
             ELSE LET half == count \div 2 IN
                  IF list[first + half] < x
                  THEN bound[count - half - 1][first + half + 1]
                  ELSE bound[half][first]]
    IN bound[Len(list)][1]

BinarySearch(list, x) ==
    LET i == LowerBound(list, x) IN i <= Len(list) /\ ~(x < list[i])

(* The files of S, the smaller first by what order says of their names. *)
Sorted(S, order) ==
    CHOOSE s \in [1..Cardinality(S) -> S] :
        \A i, j \in DOMAIN s : i < j => order[s[i]] < order[s[j]]

ByBytes == [f \in Files |-> f]

(* Mutant: the directory's entries are taken in no particular order. *)
ListUnsorted(e) ==
    /\ pc[e] = "boot"
    /\ todo' = [todo EXCEPT ![e] = Reverse(Sorted(Release[e], ByBytes))]
    /\ listed' = [listed EXCEPT ![e] = Sorted(recorded, Rank)]
    /\ Goto(e, "next")
    /\ UNCHANGED <<schema, transaction>>

(* run: discover sorts what the directory iterator yields, appliedVersions lets
   the database sort; either may throw. *)
List(e) ==
    /\ pc[e] = "boot"
    /\ \/ /\ todo' = [todo EXCEPT ![e] = Sorted(Release[e], ByBytes)]
          /\ listed' = [listed EXCEPT ![e] = Sorted(recorded, Rank)]
          /\ Goto(e, "next")
       \/ DbFails /\ Goto(e, "failed") /\ UNCHANGED lists
    /\ UNCHANGED <<schema, transaction>>

(* The loop of run: done, a file that is listed, or one to apply. *)
Finish(e) ==
    /\ pc[e] = "next" /\ todo[e] = <<>>
    /\ Goto(e, "up")
    /\ UNCHANGED <<schema, transaction, lists>>

Skip(e) ==
    /\ pc[e] = "next" /\ todo[e] # <<>> /\ BinarySearch(listed[e], Head(todo[e]))
    /\ todo' = [todo EXCEPT ![e] = Tail(@)]
    /\ UNCHANGED <<schema, transaction, pc, listed>>

Apply(e) ==
    /\ pc[e] = "next" /\ todo[e] # <<>> /\ ~BinarySearch(listed[e], Head(todo[e]))
    /\ Goto(e, "begin")
    /\ UNCHANGED <<schema, transaction, lists>>

-----------------------------------------------------------------------------
(* applyMigration. *)

Current(e) == Head(todo[e])

(* The file cannot be read, BEGIN fails, or the transaction starts. *)
Begin(e) ==
    /\ pc[e] = "begin"
    /\ Goto(e, "contents") \/ (DbFails /\ Goto(e, "failed"))
    /\ UNCHANGED <<schema, transaction, lists>>

(* Mutant: without BEGIN the file's statements commit by themselves. *)
RunContentsAlone(e) ==
    /\ pc[e] = "contents"
    /\ effects' = [effects EXCEPT ![Current(e)] = @ + 1]
    /\ Goto(e, "insert")
    /\ UNCHANGED <<recorded, transaction, lists>>

RunContents(e) ==
    /\ pc[e] = "contents"
    /\ \/ ran' = [ran EXCEPT ![e] = @ \cup {Current(e)}] /\ Goto(e, "insert")
       \/ DbFails /\ Goto(e, "rollback") /\ UNCHANGED ran
    /\ UNCHANGED <<schema, rows, lists>>

(* Mutant: the row holds the version of the file, its stem, which names no file. *)
InsertVersionStem(e) ==
    /\ pc[e] = "insert"
    /\ rows' = [rows EXCEPT ![e] = @ \cup {Len(todo[e]) + 100}]
    /\ Goto(e, "commit")
    /\ UNCHANGED <<schema, ran, lists>>

(* The primary key: the insert waits for another transaction's row of the same
   version, and is refused when the row is there. *)
InsertVersion(e) ==
    /\ pc[e] = "insert"
    /\ \A other \in Engines \ {e} : Current(e) \notin rows[other]
    /\ \/ /\ Current(e) \notin recorded
          /\ rows' = [rows EXCEPT ![e] = @ \cup {Current(e)}]
          /\ Goto(e, "commit")
       \/ (Current(e) \in recorded \/ DbFails) /\ Goto(e, "rollback") /\ UNCHANGED rows
    /\ UNCHANGED <<schema, ran, lists>>

(* A COMMIT whose answer is lost may have taken effect or not. *)
Commit(e) ==
    /\ pc[e] = "commit"
    /\ \/ /\ Publish(e) /\ CloseTransaction(e)
          /\ todo' = [todo EXCEPT ![e] = Tail(@)]
          /\ Goto(e, "next")
       \/ DbFails /\ Publish(e) /\ CloseTransaction(e) /\ Goto(e, "rollback") /\ UNCHANGED todo
       \/ DbFails /\ Goto(e, "rollback") /\ UNCHANGED <<schema, transaction, todo>>
    /\ UNCHANGED listed

(* The exception goes on to main, which ends the process: should ROLLBACK fail,
   the connection's end has its effect. *)
Rollback(e) ==
    /\ pc[e] = "rollback"
    /\ CloseTransaction(e)
    /\ Goto(e, "failed")
    /\ UNCHANGED <<schema, lists>>

(* An engine stops, at any point, and boots again. *)
Restart(e) ==
    /\ Restarts /\ pc[e] # "boot"
    /\ CloseTransaction(e)
    /\ Goto(e, "boot")
    /\ listed' = [listed EXCEPT ![e] = <<>>] /\ todo' = [todo EXCEPT ![e] = <<>>]
    /\ UNCHANGED schema

-----------------------------------------------------------------------------
Boot(e) ==
    \/ List(e) \/ Finish(e) \/ Skip(e) \/ Apply(e) \/ Begin(e)
    \/ RunContents(e) \/ InsertVersion(e) \/ Commit(e) \/ Rollback(e)

Next == \E e \in Engines : Boot(e) \/ Restart(e)

Spec == Init /\ [][Next]_vars

-----------------------------------------------------------------------------
(* What the bootstrap should guarantee. *)

(* Each file takes effect once, in order, with its row, although its statements
   and its row are written by statements of their own: SchemaHistory. *)
History == INSTANCE SchemaHistory WITH
    Files <- Files, recorded <- recorded, effects <- effects
KeepsHistory == History!Spec

(* An engine serves requests only when all its migrations are in effect. *)
UpMeansMigrated ==
    \A e \in Engines : pc[e] = "up" =>
        \A f \in Release[e] : f \in recorded /\ effects[f] = 1

(* A file that was recorded when the engine booted is not begun again: the
   search finds it in the list, which another program sorted. *)
ListedIsSkipped ==
    \A e \in Engines : pc[e] = "begin" => Current(e) \notin Range(listed[e])
=============================================================================
