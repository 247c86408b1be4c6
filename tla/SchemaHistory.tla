--------------------------- MODULE SchemaHistory ---------------------------
(***************************************************************************)
(* What the schema migrations promise: each file takes effect once, in the *)
(* order of the versions, and together with its row of schema_migrations.  *)
(***************************************************************************)
EXTENDS Naturals

CONSTANT Files   \* the migration files, numbered in the order of their versions

VARIABLES
    recorded,    \* rows of schema_migrations
    effects      \* how often each file's statements took effect

Init == recorded = {} /\ effects = [f \in Files |-> 0]

Apply(f) ==
    /\ f \notin recorded /\ \A g \in Files : g < f => g \in recorded
    /\ recorded' = recorded \cup {f}
    /\ effects' = [effects EXCEPT ![f] = @ + 1]

Next == \E f \in Files : Apply(f)

Spec == Init /\ [][Next]_<<recorded, effects>>
=============================================================================
