-------------------------- MODULE MCEndpointStore --------------------------
(* Small instances of EndpointStore: members of the roles that matter. *)
EXTENDS EndpointStore

MCRoleOf == [u \in Users |-> u]
=============================================================================
