------------------------------- MODULE Acceso --------------------------------
(***************************************************************************)
(* The @Roles of each endpoint of SolicitudesController and the RolesGuard *)
(* that compares them with the roles of the token.                         *)
(***************************************************************************)
CONSTANTS
  Usuarios,   \* the users of the in-memory directory
  RolesDe     \* the roles each user's token carries

Roles == {"ASESOR", "SUPERVISOR", "ADMIN"}

ASSUME RolesAssumption == RolesDe \in [Usuarios -> SUBSET Roles]

\* finalizar left open to every role.
RolesRequeridos_FinalizarAbierto ==
  [ crear |-> Roles, actualizar |-> Roles, abandonar |-> Roles, finalizar |-> Roles,
    aprobar |-> {"SUPERVISOR", "ADMIN"}, rechazar |-> {"SUPERVISOR", "ADMIN"} ]

\* The @Roles decorators of the mutating endpoints.
RolesRequeridos ==
  [ crear      |-> Roles,
    actualizar |-> Roles,
    abandonar  |-> Roles,
    aprobar    |-> {"SUPERVISOR", "ADMIN"},
    rechazar   |-> {"SUPERVISOR", "ADMIN"},
    finalizar  |-> {"SUPERVISOR", "ADMIN"} ]

\* RolesGuard.canActivate: some role of the user is among the required ones.
Autorizado(u, operacion) == \E rol \in RolesDe[u] : rol \in RolesRequeridos[operacion]

\* The users that may decide on a solicitud (approve, reject, open at the Core).
Supervisores == {u \in Usuarios : RolesDe[u] \cap {"SUPERVISOR", "ADMIN"} # {}}

=============================================================================
