--------------------------- MODULE TokenAuthority ---------------------------
(***************************************************************************)
(* What the session promises: the user's row decides.  A token is accepted *)
(* if and only if the version it carries is the one of the row when it is  *)
(* judged, only active users are issued tokens, and a version is replaced  *)
(* only by a logout with an accepted token, by one that nobody ever had.   *)
(* There is no cache here.                                                 *)
(***************************************************************************)
CONSTANTS Users, Active, Workers, DbFails

VARIABLES
    version,   \* the current version of each user
    used,      \* every version there has been
    tokens,    \* the tokens that clients hold: a user and a version
    request    \* the request each worker handles

None == [phase |-> "none"]

Held(t, phase, route) == [phase |-> phase, token |-> t, route |-> route]

Current(t) == version[t[1]] = t[2]

Turn(w, r) == request' = [request EXCEPT ![w] = r]

Init ==
    /\ version \in [Users -> used]
    /\ tokens = {}
    /\ request = [w \in Workers |-> None]

Issue(u) ==
    /\ u \in Active
    /\ tokens' = tokens \cup {<<u, version[u]>>}
    /\ UNCHANGED <<version, used, request>>

Expire(t) ==
    /\ tokens' = tokens \ {t}
    /\ UNCHANGED <<version, used, request>>

Present(w, t, route) ==
    /\ request[w] = None
    /\ t \in tokens
    /\ Turn(w, Held(t, "presented", route))
    /\ UNCHANGED <<version, used, tokens>>

Accept(w) ==
    /\ request[w].phase = "presented" /\ Current(request[w].token)
    /\ Turn(w, Held(request[w].token, "accepted", request[w].route))
    /\ UNCHANGED <<version, used, tokens>>

(* A lookup that fails refuses a token, whatever its version. *)
Refuse(w) ==
    /\ request[w].phase = "presented" /\ (DbFails \/ ~Current(request[w].token))
    /\ Turn(w, None)
    /\ UNCHANGED <<version, used, tokens>>

(* The handler of a route has ended; a logout that replaces nothing has failed. *)
End(w) ==
    /\ request[w].phase = "accepted" /\ (DbFails \/ request[w].route # "logout")
    /\ Turn(w, None)
    /\ UNCHANGED <<version, used, tokens>>

Revoke(w) ==
    /\ request[w].phase = "accepted" /\ request[w].route = "logout"
    /\ LET u == request[w].token[1] IN
       /\ Current(request[w].token)
       /\ version'[u] \notin used
       /\ version' = [version EXCEPT ![u] = version'[u]]
       /\ used' = used \cup {version'[u]}
    /\ Turn(w, None)
    /\ UNCHANGED tokens

Next ==
    \/ \E u \in Users : Issue(u)
    \/ \E t \in tokens : Expire(t)
    \/ \E w \in Workers : \/ \E t \in tokens, route \in {"use", "logout"} : Present(w, t, route)
                          \/ Accept(w) \/ Refuse(w) \/ End(w) \/ Revoke(w)

Spec == Init /\ [][Next]_<<version, used, tokens, request>>
=============================================================================
