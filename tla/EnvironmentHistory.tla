------------------------- MODULE EnvironmentHistory -------------------------
(***************************************************************************)
(* What the cache of environments promises: an environment that is served  *)
(* is the one in the table, or one that was there and has been kept ever   *)
(* since.  What has once been forgotten is not served again.               *)
(***************************************************************************)
CONSTANTS Envs, Values, NoValue, Readers

VARIABLES
    row,       \* what the table holds of each environment
    servable,  \* what may be served of it
    env,       \* the environment each reader asks for
    answer     \* what it is answered

Init ==
    /\ row \in [Envs -> Values \cup {NoValue}]
    /\ servable = [e \in Envs |-> {row[e], NoValue}]
    /\ env \in [Readers -> Envs]
    /\ answer = [r \in Readers |-> NoValue]

(* Only what the table holds is added to what may be served. *)
Fade == \A e \in Envs : servable'[e] \subseteq servable[e] \cup {row'[e]}

Write(e) ==
    /\ row' = [row EXCEPT ![e] = row'[e]]
    /\ Fade
    /\ UNCHANGED <<env, answer>>

Forget == Fade /\ UNCHANGED <<row, env, answer>>

Ask(r, e) ==
    /\ env' = [env EXCEPT ![r] = e]
    /\ Fade
    /\ UNCHANGED <<row, answer>>

Answer(r) ==
    /\ \E v \in servable[env[r]] : answer' = [answer EXCEPT ![r] = v]
    /\ Fade
    /\ UNCHANGED <<row, env>>

(* The readers are gone, and what they would have kept with them. *)
Stop ==
    /\ answer' = [r \in Readers |-> NoValue]
    /\ Fade
    /\ UNCHANGED <<row, env>>

Next ==
    \/ \E e \in Envs : Write(e)
    \/ \E r \in Readers, e \in Envs : Ask(r, e)
    \/ \E r \in Readers : Answer(r)
    \/ Forget \/ Stop

Spec == Init /\ [][Next]_<<row, servable, env, answer>>
=============================================================================
