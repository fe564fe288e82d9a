------------------------------ MODULE Solicitud ------------------------------
(***************************************************************************)
(* The aggregate root Solicitud as a record, and its mutators as operators *)
(* from the record before to the record after.  A mutator that answers err *)
(* leaves the entity alone, so its condition is an operator of its own     *)
(* (PuedeTransicionar, PuedeActualizarDatos) that the use cases put in     *)
(* their guards.                                                           *)
(*                                                                         *)
(* Left out of the record: cliente, productoCodigo, correlationId,         *)
(* createdAt and updatedAt, which no decision of the code reads.  A        *)
(* numeroProducto is the number of the Core call that opened the product,  *)
(* SinProducto standing for undefined.                                     *)
(***************************************************************************)
EXTENDS EstadoSolicitud, Integers, Sequences

SinProducto == 0          \* numeroProducto undefined
SinMotivo   == "ninguno"  \* motivo or motivoRechazo undefined (or empty)

\* Where a motive comes from: typed by the person, or the detail sent by the Core.
Motivos == {SinMotivo, "usuario", "core"}

CambioEstado(anterior, nuevo, actor) ==
  [estadoAnterior |-> anterior, estadoNuevo |-> nuevo, actor |-> actor]

\* static crear: starts in DRAFT with a DRAFT -> DRAFT entry in the history.
CrearSolicitud(clave, datos, actor) ==
  [ estado          |-> "DRAFT",
    datosFormulario |-> datos,
    historico       |-> <<CambioEstado("DRAFT", "DRAFT", actor)>>,
    idempotencyKey  |-> clave,
    numeroProducto  |-> SinProducto,
    motivoRechazo   |-> SinMotivo,
    pendiente       |-> FALSE,
    version         |-> 0 ]

Touch(s) == [s EXCEPT !.version = @ + 1]

\* The form left open while the solicitud is under review.
PuedeActualizarDatos_NoTerminal(s) == s.estado \notin TerminalStates

PuedeActualizarDatos(s) == s.estado = "DRAFT"

\* The data replaced without a touch.
ActualizarDatos_SinTouch(s, datos) == [s EXCEPT !.datosFormulario = datos]

ActualizarDatos(s, datos) == Touch([s EXCEPT !.datosFormulario = datos])

PuedeTransicionar(s, target) == CanTransitionTo(s.estado, target)

\* The history entry written after the state has changed.
Transicionar_EntradaTarde(s, target, actor, motivo) ==
  Touch([s EXCEPT !.estado = target,
                  !.historico = Append(@, CambioEstado(target, target, actor)),
                  !.motivoRechazo = IF target = "REJECTED" THEN motivo ELSE @])

\* The history replaced by the last change.
Transicionar_SinPasado(s, target, actor, motivo) ==
  Touch([s EXCEPT !.estado = target,
                  !.historico = <<CambioEstado(s.estado, target, actor)>>,
                  !.motivoRechazo = IF target = "REJECTED" THEN motivo ELSE @])

\* The motive is kept only for a rejection, and only when one is given.
Transicionar(s, target, actor, motivo) ==
  Touch([s EXCEPT
    !.estado        = target,
    !.historico     = Append(@, CambioEstado(s.estado, target, actor)),
    !.motivoRechazo = IF target = "REJECTED" /\ motivo # SinMotivo THEN motivo ELSE @])

\* The retry flag left up, and the product forgotten.
MarcarFinalizada_SigueLaMarca(s, numeroProducto, actor) ==
  Touch([Transicionar(s, "FINALIZED", actor, SinMotivo) EXCEPT !.numeroProducto = numeroProducto])

MarcarFinalizada_SinProducto(s, numeroProducto, actor) ==
  Touch([Transicionar(s, "FINALIZED", actor, SinMotivo) EXCEPT !.pendiente = FALSE])

\* Touches twice: once in transicionar, once for the product.
MarcarFinalizada(s, numeroProducto, actor) ==
  Touch([Transicionar(s, "FINALIZED", actor, SinMotivo) EXCEPT
    !.numeroProducto = numeroProducto,
    !.pendiente      = FALSE])

MarcarPendienteEnvioCore(s) == Touch([s EXCEPT !.pendiente = TRUE])

PuedeRegresarARevision(s) == s.estado = "APPROVED"

\* The step back written with a state the table does not know, or down to DRAFT.
RegresarARevisionPorRechazoCore_Desconocido(s, actor) ==
  Touch([s EXCEPT !.estado = "REVIEW", !.motivoRechazo = "core",
                  !.historico = Append(@, CambioEstado(s.estado, "IN_REVIEW", actor))])

RegresarARevisionPorRechazoCore_ADraft(s, actor) ==
  Touch([s EXCEPT !.estado = "DRAFT", !.motivoRechazo = "core",
                  !.historico = Append(@, CambioEstado(s.estado, "DRAFT", actor))])

\* The step back without the detail of the refusal.
RegresarARevisionPorRechazoCore_SinMotivo(s, actor) ==
  Touch([s EXCEPT !.estado = "IN_REVIEW",
                  !.historico = Append(@, CambioEstado(s.estado, "IN_REVIEW", actor))])

\* The controlled step back APPROVED -> IN_REVIEW; pendienteEnvioCore is left as it is.
RegresarARevisionPorRechazoCore(s, actor) ==
  Touch([s EXCEPT
    !.estado        = "IN_REVIEW",
    !.historico     = Append(@, CambioEstado(s.estado, "IN_REVIEW", actor)),
    !.motivoRechazo = "core"])

=============================================================================
