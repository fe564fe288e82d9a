------------------------------- MODULE Metricas --------------------------------
(***************************************************************************)
(* The gauge solicitudes_estado_actual of MetricsService beside the        *)
(* service that feeds it.  A use case records the change after its         *)
(* guardar, so what it will record is remembered with the request; only    *)
(* TransicionarSolicitudUseCase and the success of finalizar record one.   *)
(*                                                                         *)
(* The registry is that of one process, gone when it dies, so this is the  *)
(* service of one process that stays up: no Interrumpir.  A write that     *)
(* MongoDB refuses would leave the document and the gauge both unmoved.    *)
(***************************************************************************)
EXTENDS SolicitudesProps

VARIABLES
  solicitudesEstado,  \* the gauge, from states to integers
  porRegistrar        \* what each request records once its guardar is done

varsMetricas == <<docs, peticion, llamadas, solicitudesEstado, porRegistrar>>

Nada == <<>>

\* The state before the transition not remembered.
Cambio_SinAnterior(anterior, nuevo) == <<nuevo>>

\* The states before and after a transition (previousEstado and the current one).
Cambio(anterior, nuevo) == <<anterior, nuevo>>

TypeOKMetricas ==
  /\ solicitudesEstado \in [Estados -> Int]
  /\ porRegistrar \in [Peticiones -> {Nada} \cup (Estados \X Estados)]

InitMetricas ==
  /\ Init
  /\ solicitudesEstado = [e \in Estados |-> 0]
  /\ porRegistrar = [r \in Peticiones |-> Nada]

Anota(r, metrica) ==
  /\ porRegistrar' = [porRegistrar EXCEPT ![r] = metrica]
  /\ UNCHANGED solicitudesEstado

\* The gauge raised only.
RecordCambioEstado_SinDec(anterior, nuevo) ==
  solicitudesEstado' = [solicitudesEstado EXCEPT ![nuevo] = @ + 1]

RecordCambioEstado(anterior, nuevo) ==
  solicitudesEstado' =
    [e \in Estados |-> solicitudesEstado[e]
       + (IF e = nuevo THEN 1 ELSE 0)
       - (IF e = anterior /\ anterior # nuevo THEN 1 ELSE 0)]

\* A request comes in, with the change its use case will record.
SolicitaYAnota(r) ==
  \E u \in Usuarios, id \in Ids :
    \/ /\ \/ \E clave \in Claves, datos \in Datos : Crear(r, u, clave, datos, id)
          \/ \E datos \in Datos \cup {SinDatos}, enviar \in BOOLEAN :
               Actualizar(r, u, id, datos, enviar)
          \/ FinalizarLlama(r, u, id)
          \/ FinalizarSinCore(r, u, id)
       /\ Anota(r, Nada)
    \/ /\ \/ Aprobar(r, u, id)
          \/ \E motivo \in {SinMotivo, "usuario"} : Rechazar(r, u, id, motivo)
          \/ Abandonar(r, u, id)
       /\ Anota(r, Cambio(docs[id].estado, peticion'[r].sol.estado))

\* finalizar hears from the Core; only its success will be recorded.
OyeAlCore(r) ==
  \/ CoreOk(r) /\ Anota(r, Cambio("APPROVED", "FINALIZED"))
  \/ (CoreNegocio(r) \/ CoreFalla(r)) /\ Anota(r, Nada)

\* guardar is done, and the use case records its change.
GuardarYRegistrar(r) ==
  /\ Guardar(r)
  /\ IF porRegistrar[r] = Nada
     THEN UNCHANGED solicitudesEstado
     ELSE RecordCambioEstado(porRegistrar[r][1], porRegistrar[r][2])
  /\ porRegistrar' = [porRegistrar EXCEPT ![r] = Nada]

NextMetricas ==
  \/ \E r \in Peticiones :
       \/ SolicitaYAnota(r)
       \/ OyeAlCore(r)
       \/ GuardarYRegistrar(r)
  \/ /\ \E k \in DOMAIN llamadas, respuesta \in RespuestasCore : CoreDecide(k, respuesta)
     /\ UNCHANGED <<solicitudesEstado, porRegistrar>>

SpecMetricas == InitMetricas /\ [][NextMetricas]_varsMetricas

\* The same, when its requests never meet.
SpecMetricasSinConflicto == InitMetricas /\ [][NextMetricas /\ SinConflicto']_varsMetricas

-----------------------------------------------------------------------------
(* Properties.                                                             *)

EnReposo == \A r \in Peticiones : peticion[r] = Libre

\* Where a recorded change can lead.
EstadosRegistrados == {"APPROVED", "REJECTED", "ABANDONED", "FINALIZED"}

\* The recorded changes of the stored histories, each by its solicitud and its place.
Registrados(coleccion) ==
  UNION {{id} \X {i \in DOMAIN coleccion[id].historico :
                   coleccion[id].historico[i].estadoNuevo \in EstadosRegistrados} :
           id \in DOMAIN coleccion}

Entrantes(coleccion, e) ==
  {p \in Registrados(coleccion) : coleccion[p[1]].historico[p[2]].estadoNuevo = e}

Salientes(coleccion, e) ==
  {p \in Registrados(coleccion) : coleccion[p[1]].historico[p[2]].estadoAnterior = e}

\* When requests do not meet and no process dies the gauge tells the terminal states right, and
\* of the live ones it tells the difference between the recorded changes of the histories:
\* creation, the PATCH to review and the step back of the Core are the only ones missing.  So
\* it is not the number of solicitudes in each state its help speaks of.
GaugeSigueAlHistorial ==
  EnReposo =>
    \A e \in Estados :
      solicitudesEstado[e] = Cardinality(Entrantes(docs, e)) - Cardinality(Salientes(docs, e))
=============================================================================
