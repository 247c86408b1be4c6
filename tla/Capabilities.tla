---------------------------- MODULE Capabilities ----------------------------
(* The roles of a user and what each of them may do. *)

NoRole == "none"
UserRole == {"admin", "backend_dev", "frontend_dev", "viewer"}

RoleFromString(s) == IF s \in UserRole THEN s ELSE "viewer"

CapabilitiesForRole(r) ==
    {"ViewEndpoints", "RunTests"}
      \cup (IF r \in {"admin", "backend_dev", "frontend_dev"} THEN {"EditEndpoints"} ELSE {})
      \cup (IF r \in {"admin", "backend_dev"} THEN {"PublishEndpoints"} ELSE {})
      \cup (IF r = "admin" THEN {"DeleteEndpoints", "ManageTeam"} ELSE {})

HasCapability(r, c) == r # NoRole /\ c \in CapabilitiesForRole(r)
=============================================================================
