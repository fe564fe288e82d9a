----------------------------- MODULE ClientesHttp -----------------------------
(***************************************************************************)
(* The HTTP request around productos-elegibles, the audit events it leaves *)
(* and the correlation id that follows it.                                 *)
(*                                                                         *)
(* The middlewares give the request an id, which lives in an               *)
(* AsyncLocalStorage store; the handler reads it once, before its await,   *)
(* for the Core and the audit event; the exceptions filter reads it again  *)
(* at the end for the problem it answers.  Meanwhile other requests run on *)
(* the same thread.                                                        *)
(*                                                                         *)
(* nestjs-pino and CorrelationIdMiddleware both set the x-correlation-id   *)
(* of the answer, each with an id of its own making when the client sends  *)
(* none.  Nest decides which of them runs last; here either may.           *)
(***************************************************************************)
EXTENDS ClientesCache, Errores, Sequences

CONSTANTS
  IdsCliente,   \* the x-correlation-id headers the clients send
  SinCabecera   \* a request without that header

ASSUME CabecerasAssumption == SinCabecera \notin IdsCliente

VARIABLES
  http,       \* each request: its header, the one of its answer, its fate
  contexto,   \* requestContext: the store the code of each request sees
  auditoria   \* the inserts in auditoria_eventos of each request, those that ended

varsHttp == <<reloj, cache, consulta, exito, visto, http, contexto, auditoria>>

\* An id is the header of a client, or one that genReqId or the middleware made for a request.
IdsHttp == [de : {"cliente"}, valor : IdsCliente] \cup [de : {"pino", "middleware"}, valor : Consultas]

\* What getCorrelationId answers without a store.
SinContexto == [de |-> "no-correlation-id", valor |-> SinCabecera]

\* capturado is the id the handler read for the Core and the audit, problema the one the
\* filter read for the answer; llamado, of the history, that the port was called.
SinPeticion == [fase |-> "libre", entrante |-> SinCabecera, cabecera |-> SinContexto,
                capturado |-> SinContexto, problema |-> SinContexto, status |-> 0,
                llamado |-> FALSE]

Cabeceras == IdsCliente \cup {SinCabecera}
IdsVistos == IdsHttp \cup {SinContexto}
EstadosHttp == {0, 200, 401, 404, 429, 502}

PeticionesHttp ==
  [ fase : {"libre", "guardias", "manejador", "contestada"}, entrante : Cabeceras,
    cabecera : IdsVistos, capturado : IdsVistos, problema : IdsVistos, status : EstadosHttp,
    llamado : BOOLEAN ]

\* An insert, and whether MongoDB stored the document.
Eventos == [accion : Acciones, guardada : BOOLEAN]

TypeOKHttp ==
  /\ TypeOK
  /\ http \in [Consultas -> PeticionesHttp]
  /\ contexto \in [Consultas -> IdsVistos]
  /\ auditoria \in [Consultas -> Seq(Eventos)]

InitHttp ==
  /\ Init
  /\ http = [r \in Consultas |-> SinPeticion]
  /\ contexto = [r \in Consultas |-> SinContexto]
  /\ auditoria = [r \in Consultas |-> << >>]

-----------------------------------------------------------------------------
\* getCorrelationId.
CorrelationId(r) == contexto[r]

\* The id genReqId reuses or makes, and the one the middleware does.
IdDe(quien, r, entrante) ==
  IF entrante = SinCabecera THEN [de |-> quien, valor |-> r] ELSE [de |-> "cliente", valor |-> entrante]

\* One store for the process instead of one per request.
AbreContexto_Global(r, id) == contexto' = [s \in Consultas |-> id]

\* requestContext.run.
AbreContexto(r, id) == contexto' = [contexto EXCEPT ![r] = id]

\* The request comes in through both middlewares, whichever of them is the last to set the
\* header of the answer.
Entra(r, entrante) ==
  /\ http[r].fase = "libre" /\ consulta[r] = Libre
  /\ \E ultimo \in {"pino", "middleware"} :
       http' = [http EXCEPT ![r] = [SinPeticion EXCEPT
         !.fase = "guardias", !.entrante = entrante, !.cabecera = IdDe(ultimo, r, entrante)]]
  /\ AbreContexto(r, IdDe("middleware", r, entrante))
  /\ UNCHANGED <<vars, auditoria>>

\* AllExceptionsFilter: the answer is a problem that carries the id of the context.
Problema(r, excepcion) ==
  http' = [http EXCEPT ![r] = [@ EXCEPT
    !.fase = "contestada", !.status = StatusHttp(excepcion), !.problema = CorrelationId(r)]]

\* The throttler or JwtAuthGuard stops the request; the third guard, of the roles, lets every
\* role of the directory through to this endpoint.
Rechaza(r, status) ==
  /\ http[r].fase = "guardias"
  /\ Problema(r, HttpException(status))
  /\ UNCHANGED <<vars, contexto, auditoria>>

\* The handler: it takes the id of the context, and answers from the cache or calls the port.
Maneja(r, c) ==
  /\ http[r].fase = "guardias"
  /\ \/ Acierta(r, c) /\ http' = [http EXCEPT ![r] = [@ EXCEPT
          !.fase = "contestada", !.status = 200, !.capturado = CorrelationId(r)]]
     \/ Falta(r, c) /\ http' = [http EXCEPT ![r] = [@ EXCEPT
          !.fase = "manejador", !.capturado = CorrelationId(r), !.llamado = TRUE]]
  /\ UNCHANGED <<contexto, auditoria>>

\* The port answers.
Responde(r) ==
  /\ \/ CoreResponde(r) /\ http' = [http EXCEPT ![r] = [@ EXCEPT !.fase = "contestada", !.status = 200]]
     \/ \E code \in ErroresCore : CoreFalla(r) /\ Problema(r, ToHttpClientes(code))
  /\ UNCHANGED <<contexto, auditoria>>

\* The audit insert of an answered request ends; no other attempt follows one that failed.
Audita(r) ==
  /\ Registra(r)
  /\ \E guardada \in BOOLEAN :
       auditoria' = [auditoria EXCEPT
         ![r] = Append(@, [accion |-> consulta[r].accion, guardada |-> guardada])]
  /\ UNCHANGED <<http, contexto>>

\* Nothing of an answered request is left running; its events are on file, and its slot
\* goes to another one.
Cierra(r) ==
  /\ http[r].fase = "contestada" /\ consulta[r] = Libre
  /\ http' = [http EXCEPT ![r] = SinPeticion]
  /\ contexto' = [contexto EXCEPT ![r] = SinContexto]
  /\ auditoria' = [auditoria EXCEPT ![r] = << >>]
  /\ UNCHANGED vars

ReiniciaHttp ==
  /\ Reinicia
  /\ http' = [r \in Consultas |-> SinPeticion]
  /\ contexto' = [r \in Consultas |-> SinContexto]
  /\ auditoria' = [r \in Consultas |-> << >>]

NextHttp ==
  \/ \E r \in Consultas :
       \/ \E entrante \in Cabeceras : Entra(r, entrante)
       \/ \E status \in {401, 429} : Rechaza(r, status)
       \/ \E c \in Clientes : Maneja(r, c)
       \/ CoreLee(r) /\ UNCHANGED <<http, contexto, auditoria>>
       \/ Responde(r)
       \/ Audita(r)
       \/ Cierra(r)
  \/ ReiniciaHttp
  \/ Tick /\ UNCHANGED <<http, contexto, auditoria>>

SpecHttp == InitHttp /\ [][NextHttp]_varsHttp

-----------------------------------------------------------------------------
(* Properties.                                                             *)

IdPropio(r) == IdDe("middleware", r, http[r].entrante)

\* HANDBOOK HU-001 CA#5 and 2.4: one id goes through a request.  What the handler passes to
\* the Core and to the audit, and what the problem carries when it fails long after, is the
\* id the client sent, or the one made for this request and for no other in flight; an id
\* the client sent is also the one of the answer's header.
UnSoloId ==
  \A r \in Consultas :
    /\ {http[r].capturado, http[r].problema} \subseteq {SinContexto, IdPropio(r)}
    /\ http[r].entrante # SinCabecera => http[r].cabecera = IdPropio(r)

\* The request was answered with products, and its insert is over.
Servida(r) == http[r].status = 200 /\ consulta[r] = Libre

\* What the code keeps of HANDBOOK HU-001 CA#4 and CA#5, which ask for an event of any valid
\* consultation: every answer with products is recorded once, with where the products came
\* from.  A consultation the guards stop, or the Core fails, records nothing, and an insert
\* MongoDB refuses is not repeated (recordAudit runs after the result is examined, and
\* record swallows its error).
UnEventoPorRespuesta ==
  \A r \in Consultas :
    IF Servida(r)
    THEN /\ Len(auditoria[r]) = 1
         /\ auditoria[r][1].accion = IF http[r].llamado THEN "cache-miss" ELSE "cache-hit"
    ELSE auditoria[r] = << >>
=============================================================================
