----------------------------- MODULE Bootstrap -----------------------------
(***************************************************************************)
(* main: the engine migrates the schema, and only then listens and serves  *)
(* the setup wizard, whose progress lasts as long as the process.  Other   *)
(* engines may boot on the same database meanwhile.                        *)
(***************************************************************************)
EXTENDS MigrationRunner

CONSTANTS
    Server,         \* the engine whose wizard is used
    Names, Workers  \* as in SetupWizard

ASSUME ServerAssumption == Server \in Engines

VARIABLES
    users, configured, adminCreated, company,
    wizardPc, name, created, successes        \* as in SetupWizard

Wizard == INSTANCE SetupWizard WITH pc <- wizardPc

wizard == <<users, configured, adminCreated, company, wizardPc, name, created, successes>>
allVars == <<vars, wizard>>

(* A database without migrations is a new one. *)
InitAll == Init /\ Wizard!Init /\ users = {}

-----------------------------------------------------------------------------
(* Mutant: an exception of the migrations is reported, and main goes on. *)
ListeningAnyway == pc[Server] \in {"up", "failed"}

(* main runs the app after the last migration: an exception before ends it. *)
Listening == pc[Server] = "up"

Serve == Listening /\ Wizard!Request /\ UNCHANGED vars

Migrate(e) == Boot(e) /\ UNCHANGED wizard

(* The wizard's progress goes with the process that is stopped. *)
Stop(e) ==
    /\ Restart(e)
    /\ \/ e = Server /\ Wizard!Restart
       \/ e # Server /\ UNCHANGED wizard

NextAll == Serve \/ \E e \in Engines : Migrate(e) \/ Stop(e)

SpecAll == InitAll /\ [][NextAll]_allVars

-----------------------------------------------------------------------------
(* What the wizard promises, with the process that it lives in: see SetupWizard. *)
AdminIsThere == Wizard!AdminIsThere
CreatedOnce == Wizard!CreatedOnce
NeverGoesBack == Wizard!NeverGoesBack

(* Nobody is stored in a schema that is not the one the engine was written for:
   while a user is created, every file the engine is shipped with has taken
   effect, once, whatever other engines do to the schema at the same time. *)
StoredInSchema ==
    [][users' # users =>
          \A f \in Release[Server] : f \in recorded /\ effects[f] = 1]_allVars
=============================================================================
