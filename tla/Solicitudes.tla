----------------------------- MODULE Solicitudes -----------------------------
(***************************************************************************)
(* The solicitudes service: the six use cases that change a solicitud, the *)
(* MongoDB collection they read and write, and the Core that opens the     *)
(* products.                                                               *)
(*                                                                         *)
(* Every use case is a read of one document (buscarPorId), a mutation of   *)
(* the entity in memory, and a write of the whole entity (guardar), with   *)
(* an await between the read and the write - and, in finalizar, the call   *)
(* to the Core between them too.  So a request is in one of three states:  *)
(*                                                                         *)
(*   "libre"    no request uses the slot;                                  *)
(*   "core"     finalizar holds its snapshot and awaits the Core;          *)
(*   "guardar"  the entity is mutated and guardar is on its way to MongoDB.*)
(*                                                                         *)
(* The code between two awaits runs alone (one JavaScript thread per       *)
(* process) and touches nothing shared, so it is one step together with    *)
(* the database operation before it.  A request that answers an error, or  *)
(* that only reads, changes no state and is no step of the model.          *)
(***************************************************************************)
EXTENDS Solicitud, Acceso, FiniteSets

CONSTANTS
  Peticiones,    \* the requests in flight at once, over all the replicas
  Ids,           \* the ids nanoid may generate
  Claves,        \* the Idempotency-Key headers of the clients
  Datos,         \* the values of datosFormulario
  SinDatos,      \* a PATCH without datosFormulario
  MaxVersion,    \* bound: a document this old is not changed any more
  MaxLlamadas,   \* bound: calls made to the Core
  Caidas         \* TRUE when a process may die, or a write fail, between two steps

ASSUME ConstantsAssumption ==
  /\ MaxVersion \in Nat
  /\ MaxLlamadas \in Nat
  /\ Caidas \in BOOLEAN
  /\ SinDatos \notin Datos

VARIABLES
  docs,        \* the collection: a function from the stored ids to the documents
  peticion,    \* what each request slot is doing
  llamadas     \* the calls sent to the Core, in order; call k carries a key of its own

vars == <<docs, peticion, llamadas>>

-----------------------------------------------------------------------------
(* Types.                                                                  *)

Cambios == [estadoAnterior : Estados, estadoNuevo : Estados, actor : Usuarios]

Entidades ==
  [ estado : Estados, datosFormulario : Datos, historico : Seq(Cambios),
    idempotencyKey : Claves, numeroProducto : Nat, motivoRechazo : Motivos,
    pendiente : BOOLEAN, version : Nat ]

Libre == [pc |-> "libre"]

EnCore == [pc : {"core"}, id : Ids, sol : Entidades, actor : Usuarios, llamada : Nat]

PorGuardar == [pc : {"guardar"}, id : Ids, sol : Entidades]

\* A call is answered by the Core at most once, whatever the retries: they carry its key.
RespuestasCore == {"abierta", "rechazada", "otro4xx"}

Llamadas == [sol : Ids, respuesta : RespuestasCore \cup {"enviada"}]

TypeOK ==
  /\ DOMAIN docs \subseteq Ids
  /\ docs \in [DOMAIN docs -> Entidades]
  /\ peticion \in [Peticiones -> {Libre} \cup EnCore \cup PorGuardar]
  /\ llamadas \in Seq(Llamadas)

-----------------------------------------------------------------------------
(* The repository.                                                         *)

\* The ids nanoid has already given out.
IdsUsados == DOMAIN docs \cup {peticion[r].id : r \in {q \in Peticiones : peticion[q] # Libre}}

\* The write of a driver that stores the undefined fields as absent.
Fusion_BorraIndefinidos(doc, sol) == sol

\* updateOne with $set of every field: Mongoose drops the undefined ones, so a
\* numeroProducto or a motivoRechazo already stored survives an entity without it.
Fusion(doc, sol) ==
  [sol EXCEPT
    !.numeroProducto = IF @ = SinProducto THEN doc.numeroProducto ELSE @,
    !.motivoRechazo  = IF @ = SinMotivo THEN doc.motivoRechazo ELSE @]

\* guardar with upsert: the last writer wins, whatever version it had read.
GuardarDocumento(id, sol) ==
  docs' = [d \in DOMAIN docs \cup {id} |->
             IF d # id THEN docs[d]
             ELSE IF id \in DOMAIN docs THEN Fusion(docs[id], sol) ELSE sol]

-----------------------------------------------------------------------------
(* The use cases, from the HTTP request to the await of guardar.           *)

\* The request is let in by the guards and finds its document; the bound on versions.
Atiende(r, u, operacion, id) ==
  /\ peticion[r] = Libre
  /\ Autorizado(u, operacion)
  /\ id \in DOMAIN docs
  /\ docs[id].version < MaxVersion

EnviarAGuardar(r, id, sol) ==
  peticion' = [peticion EXCEPT ![r] = [pc |-> "guardar", id |-> id, sol |-> sol]]

\* Creation without the lookup of the key.
Crear_SinBuscarClave(r, u, clave, datos, id) ==
  /\ peticion[r] = Libre
  /\ Autorizado(u, "crear")
  /\ id \notin IdsUsados
  /\ EnviarAGuardar(r, id, CrearSolicitud(clave, datos, u))
  /\ UNCHANGED <<docs, llamadas>>

\* A key already stored answers the stored solicitud and changes nothing.
Crear(r, u, clave, datos, id) ==
  /\ peticion[r] = Libre
  /\ Autorizado(u, "crear")
  /\ \A d \in DOMAIN docs : docs[d].idempotencyKey # clave
  /\ id \notin IdsUsados
  /\ EnviarAGuardar(r, id, CrearSolicitud(clave, datos, u))
  /\ UNCHANGED <<docs, llamadas>>

\* PATCH: the data, the transition to IN_REVIEW, both or neither; it saves in every case.
Actualizar(r, u, id, datos, enviarARevision) ==
  LET conDatos == IF datos = SinDatos THEN docs[id] ELSE ActualizarDatos(docs[id], datos)
      sol == IF enviarARevision
             THEN Transicionar(conDatos, "IN_REVIEW", u, SinMotivo)
             ELSE conDatos
  IN /\ Atiende(r, u, "actualizar", id)
     /\ datos # SinDatos => PuedeActualizarDatos(docs[id])
     /\ enviarARevision => PuedeTransicionar(conDatos, "IN_REVIEW")
     /\ EnviarAGuardar(r, id, sol)
     /\ UNCHANGED <<docs, llamadas>>

\* TransicionarSolicitudUseCase behind the three endpoints that call it.
TransicionarUseCase(r, u, operacion, id, target, motivo) ==
  /\ Atiende(r, u, operacion, id)
  /\ PuedeTransicionar(docs[id], target)
  /\ EnviarAGuardar(r, id, Transicionar(docs[id], target, u, motivo))
  /\ UNCHANGED <<docs, llamadas>>

Aprobar(r, u, id) == TransicionarUseCase(r, u, "aprobar", id, "APPROVED", SinMotivo)

\* The motive is optional in the DTO.
Rechazar(r, u, id, motivo) == TransicionarUseCase(r, u, "rechazar", id, "REJECTED", motivo)

Abandonar(r, u, id) == TransicionarUseCase(r, u, "abandonar", id, "ABANDONED", SinMotivo)

\* finalizar that lets through what is still under review.
FinalizarAtiende_EnRevision(r, u, id) ==
  /\ Atiende(r, u, "finalizar", id)
  /\ docs[id].estado \in {"IN_REVIEW", "APPROVED"}

\* finalizar lets only an APPROVED snapshot through.
FinalizarAtiende(r, u, id) ==
  /\ Atiende(r, u, "finalizar", id)
  /\ docs[id].estado = "APPROVED"

\* finalizar calls the Core; the key ends in a fresh nanoid(6), so every call has its own.
FinalizarLlama(r, u, id) ==
  /\ FinalizarAtiende(r, u, id)
  /\ Len(llamadas) < MaxLlamadas
  /\ llamadas' = Append(llamadas, [sol |-> id, respuesta |-> "enviada"])
  /\ peticion' = [peticion EXCEPT ![r] =
       [pc |-> "core", id |-> id, sol |-> docs[id], actor |-> u, llamada |-> Len(llamadas) + 1]]
  /\ UNCHANGED docs

\* finalizar with the circuit open: no call leaves, the solicitud is marked at once.
FinalizarSinCore(r, u, id) ==
  /\ FinalizarAtiende(r, u, id)
  /\ EnviarAGuardar(r, id, MarcarPendienteEnvioCore(docs[id]))
  /\ UNCHANGED <<docs, llamadas>>

-----------------------------------------------------------------------------
(* The Core and its answers.                                               *)

\* The Core decides on a call it received, perhaps long after its sender gave up.
CoreDecide(k, respuesta) ==
  /\ llamadas[k].respuesta = "enviada"
  /\ llamadas' = [llamadas EXCEPT ![k].respuesta = respuesta]
  /\ UNCHANGED <<docs, peticion>>

Espera(r) == peticion[r].pc = "core"

RespuestaDe(r) == llamadas[peticion[r].llamada].respuesta

\* Any answer of the Core taken for a 201.
CoreOk_CualquierRespuesta(r) ==
  /\ Espera(r)
  /\ RespuestaDe(r) # "enviada"
  /\ LET p == peticion[r]
     IN EnviarAGuardar(r, p.id, MarcarFinalizada(p.sol, p.llamada, p.actor))
  /\ UNCHANGED <<docs, llamadas>>

\* 201: the product is opened and its number arrives.
CoreOk(r) ==
  /\ Espera(r)
  /\ RespuestaDe(r) = "abierta"
  /\ LET p == peticion[r]
     IN EnviarAGuardar(r, p.id, MarcarFinalizada(p.sol, p.llamada, p.actor))
  /\ UNCHANGED <<docs, llamadas>>

\* 422, the only answer the adapter maps to CoreBankingBusinessError; the documents want
\* every 4xx here.
CoreNegocio(r) ==
  /\ Espera(r)
  /\ RespuestaDe(r) = "rechazada"
  /\ LET p == peticion[r]
     IN /\ PuedeRegresarARevision(p.sol)
        /\ EnviarAGuardar(r, p.id, RegresarARevisionPorRechazoCore(p.sol, p.actor))
  /\ UNCHANGED <<docs, llamadas>>

\* Any error of the port taken for a refusal.
CoreFalla_ARevision(r) ==
  /\ Espera(r)
  /\ LET p == peticion[r]
     IN EnviarAGuardar(r, p.id, RegresarARevisionPorRechazoCore(p.sol, p.actor))
  /\ UNCHANGED <<docs, llamadas>>

\* A failure saved without the mark for the deferred retry.
CoreFalla_SinMarca(r) ==
  /\ Espera(r)
  /\ EnviarAGuardar(r, peticion[r].id, Touch(peticion[r].sol))
  /\ UNCHANGED <<docs, llamadas>>

\* Every other outcome: another 4xx, a 5xx after the retries, a network error or the
\* timeout of the breaker - the last two whatever the Core does with the call.
CoreFalla(r) ==
  /\ Espera(r)
  /\ LET p == peticion[r]
     IN EnviarAGuardar(r, p.id, MarcarPendienteEnvioCore(p.sol))
  /\ UNCHANGED <<docs, llamadas>>

-----------------------------------------------------------------------------
(* The end of a request.                                                   *)

\* The write of guardar reaches MongoDB and the request is answered.
Guardar(r) ==
  /\ peticion[r].pc = "guardar"
  /\ GuardarDocumento(peticion[r].id, peticion[r].sol)
  /\ peticion' = [peticion EXCEPT ![r] = Libre]
  /\ UNCHANGED llamadas

\* The process dies or MongoDB refuses the write: what was in memory is lost.
Interrumpir(r) ==
  /\ Caidas
  /\ peticion[r] # Libre
  /\ peticion' = [peticion EXCEPT ![r] = Libre]
  /\ UNCHANGED <<docs, llamadas>>

-----------------------------------------------------------------------------
Init ==
  /\ docs = << >>
  /\ peticion = [r \in Peticiones |-> Libre]
  /\ llamadas = << >>

\* A person's request comes in.
Solicita(r) ==
  \E u \in Usuarios, id \in Ids :
    \/ \E clave \in Claves, datos \in Datos : Crear(r, u, clave, datos, id)
    \/ \E datos \in Datos \cup {SinDatos}, enviar \in BOOLEAN : Actualizar(r, u, id, datos, enviar)
    \/ Aprobar(r, u, id)
    \/ \E motivo \in {SinMotivo, "usuario"} : Rechazar(r, u, id, motivo)
    \/ Abandonar(r, u, id)
    \/ FinalizarLlama(r, u, id)
    \/ FinalizarSinCore(r, u, id)

\* A client of the Core without timeout.
Continua_SinTimeout(r) == CoreOk(r) \/ CoreNegocio(r) \/ Guardar(r)

\* What moves a request on once it is in.
Continua(r) == CoreOk(r) \/ CoreNegocio(r) \/ CoreFalla(r) \/ Guardar(r)

Next ==
  \/ \E r \in Peticiones : Solicita(r) \/ Continua(r) \/ Interrumpir(r)
  \/ \E k \in DOMAIN llamadas, respuesta \in RespuestasCore : CoreDecide(k, respuesta)

Spec == Init /\ [][Next]_vars

\* The breaker times out every call, and MongoDB answers every write while it is up: a
\* request in flight goes on.  Nothing makes a person send one, or the Core decide.
Fairness == \A r \in Peticiones : WF_vars(Continua(r))

FairSpec == Spec /\ Fairness

=============================================================================
