----------------------------- MODULE CicloDeVida ------------------------------
(***************************************************************************)
(* What a person who looks at one solicitud at a time is promised: the     *)
(* states of the solicitudes and the products they end with, each change   *)
(* one atomic step.  It knows nothing of requests, snapshots, calls or     *)
(* failures.                                                               *)
(***************************************************************************)
EXTENDS EstadoSolicitud

CONSTANT Ids

VARIABLES
  estado,      \* the state of each solicitud, Inexistente before it is created
  conProducto  \* the solicitudes whose product is open and on file

Inexistente == "INEXISTENTE"

cdv == <<estado, conProducto>>

Init ==
  /\ estado = [id \in Ids |-> Inexistente]
  /\ conProducto = {}

Nace(id) ==
  /\ estado[id] = Inexistente
  /\ estado' = [estado EXCEPT ![id] = "DRAFT"]
  /\ UNCHANGED conProducto

Avanza(id, a) ==
  /\ estado[id] # Inexistente
  /\ CanTransitionTo(estado[id], a)
  /\ estado' = [estado EXCEPT ![id] = a]
  /\ conProducto' = IF a = "FINALIZED" THEN conProducto \cup {id} ELSE conProducto

\* The only way back, when the Core refuses an approved solicitud.
Retorna(id) ==
  /\ estado[id] = "APPROVED"
  /\ estado' = [estado EXCEPT ![id] = "IN_REVIEW"]
  /\ UNCHANGED conProducto

Next == \E id \in Ids : Nace(id) \/ Retorna(id) \/ \E a \in Estados : Avanza(id, a)

Spec == Init /\ [][Next]_cdv
=============================================================================
