--------------------------- MODULE EstadoSolicitud ---------------------------
(***************************************************************************)
(* The value object EstadoSolicitud: the states of a solicitud and the     *)
(* transitions the public operations may take.                             *)
(***************************************************************************)

Estados == {"DRAFT", "IN_REVIEW", "APPROVED", "REJECTED", "FINALIZED", "ABANDONED"}

\* Allowed as it would be if a finalized solicitud could still be abandoned.
Allowed_FinalizadaAbandonable ==
  [ DRAFT     |-> {"IN_REVIEW", "ABANDONED"},
    IN_REVIEW |-> {"APPROVED", "REJECTED", "ABANDONED"},
    APPROVED  |-> {"FINALIZED", "ABANDONED"},
    REJECTED  |-> {},
    FINALIZED |-> {"ABANDONED"},
    ABANDONED |-> {} ]

\* The table ALLOWED.
Allowed == [ DRAFT     |-> {"IN_REVIEW", "ABANDONED"},
             IN_REVIEW |-> {"APPROVED", "REJECTED", "ABANDONED"},
             APPROVED  |-> {"FINALIZED", "ABANDONED"},
             REJECTED  |-> {},
             FINALIZED |-> {},
             ABANDONED |-> {} ]

\* TERMINAL_STATES, a second table kept beside ALLOWED.
TerminalStates == {"REJECTED", "FINALIZED", "ABANDONED"}

\* transitionTo answers ok exactly when this holds.
CanTransitionTo(estado, target) == target \in Allowed[estado]

=============================================================================
