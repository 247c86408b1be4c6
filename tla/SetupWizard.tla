---------------------------- MODULE SetupWizard ----------------------------
(***************************************************************************)
(* WizardService and the table of users it writes to.  The progress of the *)
(* wizard is kept in the process, the administrator in the database:       *)
(* createAdmin looks for the name and inserts in two statements, between   *)
(* which other requests run, and either of which may fail.                 *)
(***************************************************************************)
EXTENDS Naturals

CONSTANTS
    Names,      \* usernames
    Workers,    \* requests handled at a time
    DbFails,    \* TRUE: statements may fail, answers of statements be lost
    Restarts    \* TRUE: the engine may stop and start again

VARIABLES
    users,         \* the usernames in the table
    configured,    \* configuredDatabase_ has a value
    adminCreated,  \* adminCreated_
    company,       \* companyProfile_ has a value
    pc,            \* where the createAdmin of each worker is
    name,          \* credentials.username of each worker
    created,       \* history: the names inserted by createAdmin
    successes      \* history: how often createAdmin answered true for a name

NoName == "none"  \* of a worker that has no request

memory == <<configured, adminCreated, company>>
history == <<created, successes>>
vars == <<users, memory, pc, name, history>>

TypeOK ==
    /\ users \subseteq Names
    /\ configured \in BOOLEAN /\ adminCreated \in BOOLEAN /\ company \in BOOLEAN
    /\ pc \in [Workers -> {"idle", "find", "insert"}]
    /\ name \in [Workers -> Names \cup {NoName}]
    /\ created \subseteq users
    /\ successes \in [Names -> Nat]

(* The users of an earlier installation may be there already. *)
Init ==
    /\ users \in SUBSET Names
    /\ configured = FALSE /\ adminCreated = FALSE /\ company = FALSE
    /\ pc = [w \in Workers |-> "idle"]
    /\ name = [w \in Workers |-> NoName]
    /\ created = {}
    /\ successes = [n \in Names |-> 0]

(* createAdmin returns. *)
Return(w) ==
    /\ pc' = [pc EXCEPT ![w] = "idle"]
    /\ name' = [name EXCEPT ![w] = NoName]

-----------------------------------------------------------------------------
(* getStatus: the first step that is not done. *)
Step == IF ~configured THEN 0
        ELSE IF ~adminCreated THEN 1
        ELSE IF ~company THEN 2 ELSE 3

ConfigureDatabase ==
    /\ configured' = TRUE
    /\ UNCHANGED <<users, adminCreated, company, pc, name, history>>

RegisterCompany ==
    /\ company' = TRUE
    /\ UNCHANGED <<users, configured, adminCreated, pc, name, history>>

(* createAdmin with a username and a password; without, it changes nothing. *)
CreateAdmin(w, n) ==
    /\ pc[w] = "idle"
    /\ pc' = [pc EXCEPT ![w] = "find"]
    /\ name' = [name EXCEPT ![w] = n]
    /\ UNCHANGED <<users, memory, history>>

(* findByUsername: a query that fails reads as a name that is free. *)
FindByUsername(w) ==
    /\ pc[w] = "find"
    /\ \/ name[w] \in users /\ Return(w)
       \/ /\ name[w] \notin users \/ DbFails
          /\ pc' = [pc EXCEPT ![w] = "insert"] /\ UNCHANGED name
    /\ UNCHANGED <<users, memory, history>>

(* Mutant: ON CONFLICT DO UPDATE, which returns an id for a name that is taken. *)
InsertOrUpdate(w) ==
    /\ pc[w] = "insert"
    /\ Return(w)
    /\ users' = users \cup {name[w]} /\ created' = created \cup {name[w]}
    /\ adminCreated' = TRUE
    /\ successes' = [successes EXCEPT ![name[w]] = @ + 1]
    /\ UNCHANGED <<configured, company>>

(* Mutant: adminCreated_ is set before the row is inserted. *)
InsertAfterFlag(w) ==
    /\ pc[w] = "insert"
    /\ Return(w)
    /\ adminCreated' = TRUE
    /\ IF name[w] \in users THEN UNCHANGED <<users, history>>
       ELSE \/ /\ users' = users \cup {name[w]} /\ created' = created \cup {name[w]}
               /\ successes' = [successes EXCEPT ![name[w]] = @ + 1]
            \/ DbFails /\ UNCHANGED <<users, history>>
    /\ UNCHANGED <<configured, company>>

(* Mutant: an exception of the repository is caught and answered false. *)
InsertCaught(w) ==
    /\ pc[w] = "insert"
    /\ Return(w)
    /\ IF name[w] \in users
       THEN adminCreated' = FALSE /\ UNCHANGED <<users, history>>
       ELSE /\ users' = users \cup {name[w]} /\ created' = created \cup {name[w]}
            /\ adminCreated' = TRUE
            /\ successes' = [successes EXCEPT ![name[w]] = @ + 1]
    /\ UNCHANGED <<configured, company>>

(* create: the id of the new row sets adminCreated_; an exception, of the unique
   username or of the database, leaves it as it is, even if the row is there. *)
Insert(w) ==
    /\ pc[w] = "insert"
    /\ Return(w)
    /\ \/ /\ name[w] \notin users
          /\ users' = users \cup {name[w]} /\ created' = created \cup {name[w]}
          /\ \/ /\ adminCreated' = TRUE
                /\ successes' = [successes EXCEPT ![name[w]] = @ + 1]
             \/ DbFails /\ UNCHANGED <<adminCreated, successes>>
       \/ /\ name[w] \in users \/ DbFails
          /\ UNCHANGED <<users, adminCreated, history>>
    /\ UNCHANGED <<configured, company>>

(* The process starts with an empty wizard and the table as it is. *)
Restart ==
    /\ Restarts
    /\ configured' = FALSE /\ adminCreated' = FALSE /\ company' = FALSE
    /\ pc' = [w \in Workers |-> "idle"] /\ name' = [w \in Workers |-> NoName]
    /\ UNCHANGED <<users, history>>

Request ==
    \/ ConfigureDatabase \/ RegisterCompany
    \/ \E w \in Workers :
          \/ \E n \in Names : CreateAdmin(w, n)
          \/ FindByUsername(w) \/ Insert(w)

Next == Request \/ Restart

Spec == Init /\ [][Next]_vars

-----------------------------------------------------------------------------
(* The wizard goes past its second step only with an administrator that it has
   created and that is in the table, whatever fails and however often the
   engine stops. *)
AdminIsThere == Step >= 2 => created # {}

(* Of all the requests to create one administrator, at any time and from any
   run of the engine, at most one is answered with success. *)
CreatedOnce == \A n \in Names : successes[n] <= 1

(* While the engine runs, the wizard never goes back a step: a request that is
   refused or fails does not undo what an earlier one has done. *)
NeverGoesBack == [][Step' >= Step \/ ~configured']_vars
=============================================================================
