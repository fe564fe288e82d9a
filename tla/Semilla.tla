------------------------------- MODULE Semilla --------------------------------
(***************************************************************************)
(* The four sample solicitudes of the seed script (scripts/seed.ts), as    *)
(* documents: what the script writes straight to the collection, without   *)
(* going through the aggregate Solicitud.                                  *)
(***************************************************************************)
EXTENDS Solicitud

CONSTANTS
  Asesor, Supervisor,   \* usr_asesor_001 and usr_super_001, the actors of the samples
  ProductoSemilla       \* BCS-SEED12345, a number no Core gave

\* The walk of a sample: created by the adviser, and the steps that follow.
Recorrido(pasos) == <<CambioEstado("DRAFT", "DRAFT", Asesor)>> \o pasos

Revisada   == CambioEstado("DRAFT", "IN_REVIEW", Asesor)
Aprobada   == CambioEstado("IN_REVIEW", "APPROVED", Supervisor)
Finalizada == CambioEstado("APPROVED", "FINALIZED", Supervisor)

\* A sample; the version is the number of steps its history tells of.
Muestra(estado, pasos, producto, clave, datos) ==
  [ estado          |-> estado,
    datosFormulario |-> datos,
    historico       |-> Recorrido(pasos),
    idempotencyKey  |-> clave,
    numeroProducto  |-> producto,
    motivoRechazo   |-> SinMotivo,
    pendiente       |-> FALSE,
    version         |-> Len(pasos) ]

\* SAMPLES with a state the table does not know.
Muestras_OtroEstado(clave, datos) ==
  << Muestra("DRAFT", << >>, SinProducto, clave, datos),
     Muestra("REVIEW", <<Revisada>>, SinProducto, clave, datos),
     Muestra("APPROVED", <<Revisada, Aprobada>>, SinProducto, clave, datos),
     Muestra("FINALIZED", <<Revisada, Aprobada, Finalizada>>, ProductoSemilla, clave, datos) >>

\* SAMPLES, in the order the script creates them.
Muestras(clave, datos) ==
  << Muestra("DRAFT", << >>, SinProducto, clave, datos),
     Muestra("IN_REVIEW", <<Revisada>>, SinProducto, clave, datos),
     Muestra("APPROVED", <<Revisada, Aprobada>>, SinProducto, clave, datos),
     Muestra("FINALIZED", <<Revisada, Aprobada, Finalizada>>, ProductoSemilla, clave, datos) >>

\* minutesAgo of each sample's createdAt, in quarters of an hour: none is the newest or
\* the oldest by its place in the list.
Hace == <<4, 3, 2, 8>>

=============================================================================
