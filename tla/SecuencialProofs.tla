--------------------------- MODULE SecuencialProofs ----------------------------
(***************************************************************************)
(* What the solicitudes service keeps when the requests of one solicitud   *)
(* come one after the other, for any number of requests in flight, users,  *)
(* ids and calls: the promises of the second part of SolicitudesProps, and *)
(* that it implements CicloDeVida.                                         *)
(*                                                                         *)
(* When requests do not meet, nobody writes a document between the read of *)
(* a request and its guardar, so the entity on its way to MongoDB is a     *)
(* successor of the document it will replace: that is what SInv adds to    *)
(* IInv.                                                                   *)
(***************************************************************************)
EXTENDS SolicitudesProofs

Coherente(s) == s.numeroProducto # SinProducto <=> s.estado = "FINALIZED"

\* What one request may make of a document d.
Sucesor(d, s) ==
  /\ s.idempotencyKey = d.idempotencyKey
  /\ IsPrefix(d.historico, s.historico)
  /\ s # d => s.version > d.version
  /\ s.datosFormulario # d.datosFormulario => d.estado = "DRAFT"
  /\ \/ s.estado = d.estado
     \/ CanTransitionTo(d.estado, s.estado)
     \/ d.estado = "APPROVED" /\ s.estado = "IN_REVIEW"
  /\ Coherente(s)
  /\ s.motivoRechazo = SinMotivo => d.motivoRechazo = SinMotivo

\* A solicitud about to be created.
Nueva(s) ==
  /\ s.estado = "DRAFT" /\ Coherente(s)
  /\ \A d \in DOMAIN docs : docs[d].idempotencyKey # s.idempotencyKey

Preparada(id, s) == IF id \in DOMAIN docs THEN Sucesor(docs[id], s) ELSE Nueva(s)

Aprobada(s) == \E i \in DOMAIN s.historico : s.historico[i].estadoNuevo = "APPROVED"

TurnoOK(p) ==
  /\ p.pc = "core" => p.id \in DOMAIN docs /\ p.sol = docs[p.id]
  /\ p.pc = "guardar" => Preparada(p.id, p.sol)

SInv ==
  /\ ClaveUnica
  /\ \A id \in DOMAIN docs : Coherente(docs[id])
  /\ \A k \in DOMAIN llamadas : llamadas[k].sol \in DOMAIN docs /\ Aprobada(docs[llamadas[k].sol])
  /\ \A r \in Peticiones : TurnoOK(peticion[r])

-----------------------------------------------------------------------------
(* Prefixes.                                                               *)

LEMMA PrefijoMismo ==
  ASSUME NEW S, NEW h \in Seq(S)
  PROVE  IsPrefix(h, h)
BY DEF IsPrefix

LEMMA PrefijoAppend ==
  ASSUME NEW S, NEW h \in Seq(S), NEW c \in S
  PROVE  IsPrefix(h, Append(h, c))
<1> DEFINE g == Append(h, c)
<1>1. /\ g \in Seq(S) /\ Len(g) = Len(h) + 1 /\ Len(h) \in Nat
      /\ \A i \in 1 .. Len(h) : g[i] = h[i]
  OBVIOUS
<1> HIDE DEF g
<1>2. SubSeq(h, 1, Len(h)) = SubSeq(g, 1, Len(h))
  BY <1>1
<1> QED BY <1>1, <1>2 DEF IsPrefix, g

\* What a prefix holds, the longer sequence holds at the same place.
LEMMA PrefijoConserva ==
  ASSUME NEW S, NEW g \in Seq(S), NEW h \in Seq(S), IsPrefix(g, h), NEW i \in DOMAIN g
  PROVE  i \in DOMAIN h /\ h[i] = g[i]
<1>1. Len(g) \in Nat /\ Len(h) \in Nat /\ Len(g) <= Len(h) /\ i \in 1 .. Len(g)
  BY DEF IsPrefix
<1>2. SubSeq(g, 1, Len(g))[i] = g[i] /\ SubSeq(h, 1, Len(g))[i] = h[i]
  BY <1>1
<1> QED BY <1>1, <1>2 DEF IsPrefix

-----------------------------------------------------------------------------
(* What the mutators make of a document.                                   *)

LEMMA SucesorMismo ==
  ASSUME NEW d \in Entidades, Coherente(d)
  PROVE  Sucesor(d, d)
<1>1. IsPrefix(d.historico, d.historico)
  BY PrefijoMismo DEF Entidades
<1> QED BY <1>1 DEF Sucesor

LEMMA SucesorDatos ==
  ASSUME NEW d \in Entidades, Coherente(d), NEW datos \in Datos, PuedeActualizarDatos(d)
  PROVE  LET s == ActualizarDatos(d, datos)
         IN Sucesor(d, s) /\ s \in Entidades /\ s.estado = d.estado /\ s.historico = d.historico
<1> DEFINE s == ActualizarDatos(d, datos)
<1>1. IsPrefix(d.historico, d.historico) /\ d.version \in Nat
  BY PrefijoMismo DEF Entidades
<1>2. /\ s \in Entidades /\ s.estado = d.estado /\ s.historico = d.historico
      /\ s.numeroProducto = d.numeroProducto /\ s.idempotencyKey = d.idempotencyKey
      /\ s.motivoRechazo = d.motivoRechazo /\ s.version = d.version + 1
  BY ActualizarDatosCampos
<1> HIDE DEF s
<1>3. Sucesor(d, s)
  BY <1>1, <1>2 DEF Sucesor, Coherente, PuedeActualizarDatos
<1> QED BY <1>2, <1>3 DEF s

\* A change of state that is legal and settles the product as Coherente asks.
LEMMA SucesorCambio ==
  ASSUME NEW d \in Entidades, NEW s \in Entidades, NEW u \in Usuarios,
         s.historico = Append(d.historico, CambioEstado(d.estado, s.estado, u)),
         \/ CanTransitionTo(d.estado, s.estado)
         \/ d.estado = "APPROVED" /\ s.estado = "IN_REVIEW",
         s.idempotencyKey = d.idempotencyKey, s.datosFormulario = d.datosFormulario,
         s.version > d.version, Coherente(s),
         s.motivoRechazo = SinMotivo => d.motivoRechazo = SinMotivo
  PROVE  Sucesor(d, s)
<1>1. d.historico \in Seq(Cambios) /\ CambioEstado(d.estado, s.estado, u) \in Cambios
  BY DEF Entidades, Cambios, CambioEstado
<1>2. IsPrefix(d.historico, s.historico)
  BY <1>1, PrefijoAppend
<1> QED BY <1>2 DEF Sucesor

LEMMA SucesorTransicion ==
  ASSUME NEW d \in Entidades, Coherente(d), NEW a \in Estados \ {"FINALIZED"},
         NEW u \in Usuarios, NEW m \in Motivos, PuedeTransicionar(d, a)
  PROVE  Sucesor(d, Transicionar(d, a, u, m)) /\ Transicionar(d, a, u, m) \in Entidades
<1> DEFINE s == Transicionar(d, a, u, m)
<1>1. /\ s \in Entidades /\ s.estado = a
      /\ s.historico = Append(d.historico, CambioEstado(d.estado, a, u))
      /\ s.numeroProducto = d.numeroProducto
      /\ s.datosFormulario = d.datosFormulario /\ s.idempotencyKey = d.idempotencyKey
      /\ s.motivoRechazo = SinMotivo => d.motivoRechazo = SinMotivo
      /\ s.version = d.version + 1
  BY TransicionarCampos
<1>2. d.version \in Nat /\ CanTransitionTo(d.estado, a)
  BY DEF Entidades, PuedeTransicionar
<1> HIDE DEF s
<1>3. d.estado # "FINALIZED"
  BY <1>2 DEF CanTransitionTo, Allowed
<1>4. Coherente(s) /\ s.version > d.version
  BY <1>1, <1>2, <1>3 DEF Coherente
<1> QED BY <1>1, <1>2, <1>4, SucesorCambio DEF s

LEMMA SucesorFinalizada ==
  ASSUME NEW d \in Entidades, d.estado = "APPROVED",
         NEW n \in Nat \ {SinProducto}, NEW u \in Usuarios
  PROVE  Sucesor(d, MarcarFinalizada(d, n, u)) /\ MarcarFinalizada(d, n, u) \in Entidades
<1> DEFINE s == MarcarFinalizada(d, n, u)
<1>1. /\ s \in Entidades /\ s.estado = "FINALIZED"
      /\ s.historico = Append(d.historico, CambioEstado(d.estado, "FINALIZED", u))
      /\ s.numeroProducto = n
      /\ s.datosFormulario = d.datosFormulario /\ s.idempotencyKey = d.idempotencyKey
      /\ s.motivoRechazo = d.motivoRechazo /\ s.version = d.version + 2
  BY MarcarFinalizadaCampos
<1> HIDE DEF s
<1>2. CanTransitionTo(d.estado, "FINALIZED")
  BY DEF CanTransitionTo, Allowed
<1>3. Coherente(s) /\ s.version > d.version
  BY <1>1 DEF Coherente, Entidades
<1> QED BY <1>1, <1>2, <1>3, SucesorCambio DEF s

LEMMA SucesorDevuelta ==
  ASSUME NEW d \in Entidades, Coherente(d), PuedeRegresarARevision(d), NEW u \in Usuarios
  PROVE  /\ Sucesor(d, RegresarARevisionPorRechazoCore(d, u))
         /\ RegresarARevisionPorRechazoCore(d, u) \in Entidades
<1> DEFINE s == RegresarARevisionPorRechazoCore(d, u)
<1>1. /\ s \in Entidades /\ s.estado = "IN_REVIEW"
      /\ s.historico = Append(d.historico, CambioEstado(d.estado, "IN_REVIEW", u))
      /\ s.numeroProducto = d.numeroProducto
      /\ s.datosFormulario = d.datosFormulario /\ s.idempotencyKey = d.idempotencyKey
      /\ s.motivoRechazo = "core" /\ s.version = d.version + 1
  BY RegresarCampos
<1> HIDE DEF s
<1>2. Coherente(s) /\ s.version > d.version /\ s.motivoRechazo # SinMotivo
  BY <1>1 DEF Coherente, Entidades, PuedeRegresarARevision, SinMotivo
<1> QED BY <1>1, <1>2, SucesorCambio DEF PuedeRegresarARevision, s

LEMMA SucesorPendiente ==
  ASSUME NEW d \in Entidades, Coherente(d)
  PROVE  /\ Sucesor(d, MarcarPendienteEnvioCore(d))
         /\ MarcarPendienteEnvioCore(d) \in Entidades
<1> DEFINE s == MarcarPendienteEnvioCore(d)
<1>1. IsPrefix(d.historico, d.historico) /\ d.version \in Nat
  BY PrefijoMismo DEF Entidades
<1>2. /\ s \in Entidades /\ s.estado = d.estado /\ s.historico = d.historico
      /\ s.numeroProducto = d.numeroProducto /\ s.idempotencyKey = d.idempotencyKey
      /\ s.datosFormulario = d.datosFormulario
      /\ s.motivoRechazo = d.motivoRechazo /\ s.version = d.version + 1
  BY MarcarPendienteCampos
<1> HIDE DEF s
<1>3. Sucesor(d, s)
  BY <1>1, <1>2 DEF Sucesor, Coherente
<1> QED BY <1>2, <1>3 DEF s

\* The PATCH that fills the form and sends it to review changes twice what it read.
LEMMA SucesorCompuesto ==
  ASSUME NEW d \in Entidades, NEW c \in Entidades, NEW s \in Entidades,
         Sucesor(d, c), c.estado = d.estado, c.historico = d.historico, Sucesor(c, s)
  PROVE  Sucesor(d, s)
<1>1. s # d => s.version > d.version
  <2>1. d.version \in Nat /\ c.version \in Nat /\ s.version \in Nat
    BY DEF Entidades
  <2> QED BY <2>1 DEF Sucesor
<1> QED BY <1>1 DEF Sucesor

\* guardar finds nothing to keep of the document it replaces with a successor.
LEMMA FusionDeSucesor ==
  ASSUME NEW d \in Entidades, Coherente(d), NEW s \in Entidades, Sucesor(d, s)
  PROVE  Fusion(d, s) = s
<1>1. s.numeroProducto = SinProducto => d.numeroProducto = SinProducto
  BY DEF Sucesor, Coherente, CanTransitionTo, Allowed
<1>2. s.motivoRechazo = SinMotivo => d.motivoRechazo = SinMotivo
  BY DEF Sucesor
<1> DEFINE n == IF s.numeroProducto = SinProducto THEN d.numeroProducto ELSE s.numeroProducto
           m == IF s.motivoRechazo = SinMotivo THEN d.motivoRechazo ELSE s.motivoRechazo
<1>3. n = s.numeroProducto /\ m = s.motivoRechazo
  BY <1>1, <1>2
<1>4. Fusion(d, s) = [s EXCEPT !.numeroProducto = n, !.motivoRechazo = m]
  BY DEF Fusion
<1> HIDE DEF n, m
<1> QED BY <1>3, <1>4 DEF Entidades

\* An approval in the history of a document stays in the history of its successors.
LEMMA AprobadaPerdura ==
  ASSUME NEW d \in Entidades, NEW s \in Entidades, Sucesor(d, s), Aprobada(d)
  PROVE  Aprobada(s)
<1>1. d.historico \in Seq(Cambios) /\ s.historico \in Seq(Cambios)
      /\ IsPrefix(d.historico, s.historico)
  BY DEF Entidades, Sucesor
<1>2. PICK i \in DOMAIN d.historico : d.historico[i].estadoNuevo = "APPROVED"
  BY DEF Aprobada
<1>3. i \in DOMAIN s.historico /\ s.historico[i] = d.historico[i]
  BY <1>1, PrefijoConserva
<1> QED BY <1>2, <1>3 DEF Aprobada

-----------------------------------------------------------------------------
(* The steps of the service.                                               *)

LEMMA TurnoUnico ==
  ASSUME IInv, SInv, NEW id \in DOMAIN docs
  PROVE  docs[id] \in Entidades /\ Coherente(docs[id]) /\ EntidadOK(docs[id])
BY DEF IInv, SInv, EntidadOK

\* The turn of a request depends on nothing but itself and the collection.
LEMMA TurnoSigue ==
  ASSUME SInv, NEW q \in Peticiones, peticion'[q] = peticion[q], docs' = docs
  PROVE  TurnoOK(peticion[q])'
BY DEF SInv, TurnoOK, Preparada, Nueva

\* Every use case ends its step by handing guardar what it prepared.
LEMMA EnviarSecuencial ==
  ASSUME IInv, SInv, NEW r \in Peticiones, NEW id, NEW s,
         Preparada(id, s), EnviarAGuardar(r, id, s), UNCHANGED <<docs, llamadas>>
  PROVE  SInv'
<1> DEFINE p == [pc |-> "guardar", id |-> id, sol |-> s]
<1>1. peticion'[r] = p
  BY DEF EnviarAGuardar, IInv, TypeOK
<1>2. ASSUME NEW q \in Peticiones PROVE TurnoOK(peticion[q])'
  <2>1. CASE q = r
    <3>1. Preparada(id, s)'
      BY DEF Preparada, Nueva
    <3> QED BY <1>1, <2>1, <3>1 DEF TurnoOK
  <2>2. CASE q # r
    BY <2>2, TurnoSigue DEF EnviarAGuardar, IInv, TypeOK
  <2> QED BY <2>1, <2>2
<1>3. ClaveUnica' /\ \A d \in DOMAIN docs' : Coherente(docs'[d])
  BY DEF SInv, ClaveUnica
<1>4. \A k \in DOMAIN llamadas' :
        llamadas'[k].sol \in DOMAIN docs' /\ Aprobada(docs'[llamadas'[k].sol])
  BY DEF SInv
<1> QED BY <1>2, <1>3, <1>4 DEF SInv

LEMMA CrearSecuencial ==
  ASSUME IInv, SInv, NEW r \in Peticiones, NEW u \in Usuarios, NEW clave \in Claves,
         NEW datos \in Datos, NEW id \in Ids, Crear(r, u, clave, datos, id)
  PROVE  SInv'
<1> DEFINE s == CrearSolicitud(clave, datos, u)
<1>1. s.estado = "DRAFT" /\ Coherente(s) /\ s.idempotencyKey = clave
  BY DEF CrearSolicitud, Coherente
<1> HIDE DEF s
<1>2. Preparada(id, s)
  BY <1>1 DEF Crear, IdsUsados, Preparada, Nueva
<1> QED BY <1>2, EnviarSecuencial DEF Crear, s

LEMMA ActualizarSecuencial ==
  ASSUME IInv, SInv, NEW r \in Peticiones, NEW u \in Usuarios, NEW id \in Ids,
         NEW datos \in Datos \cup {SinDatos}, NEW enviar \in BOOLEAN,
         Actualizar(r, u, id, datos, enviar)
  PROVE  SInv'
<1> DEFINE d == docs[id]
           c == IF datos = SinDatos THEN d ELSE ActualizarDatos(d, datos)
           s == IF enviar THEN Transicionar(c, "IN_REVIEW", u, SinMotivo) ELSE c
<1>1. id \in DOMAIN docs /\ d \in Entidades /\ Coherente(d)
  BY TurnoUnico DEF Actualizar, Atiende
<1>2. Sucesor(d, c) /\ c \in Entidades /\ c.estado = d.estado /\ c.historico = d.historico
  <2>1. CASE datos = SinDatos
    BY <1>1, <2>1, SucesorMismo
  <2>2. CASE datos # SinDatos
    <3>1. datos \in Datos /\ PuedeActualizarDatos(d)
      BY <2>2 DEF Actualizar
    <3> QED BY <1>1, <2>2, <3>1, SucesorDatos
  <2> QED BY <2>1, <2>2
<1>3. Sucesor(d, s)
  <2>1. CASE ~enviar
    BY <1>2, <2>1
  <2>2. CASE enviar
    <3> DEFINE t == Transicionar(c, "IN_REVIEW", u, SinMotivo)
    <3>1. PuedeTransicionar(c, "IN_REVIEW")
      BY <2>2 DEF Actualizar
    <3>2. "IN_REVIEW" \in Estados \ {"FINALIZED"} /\ SinMotivo \in Motivos /\ Coherente(c)
      BY <1>2 DEF Estados, Motivos, Sucesor
    <3> HIDE DEF c
    <3>3. Sucesor(c, t) /\ t \in Entidades
      BY <1>2, <3>1, <3>2, SucesorTransicion
    <3> HIDE DEF t, d
    <3>4. Sucesor(d, t)
      BY <1>1, <1>2, <3>3, SucesorCompuesto
    <3> QED BY <2>2, <3>4 DEF t
  <2> QED BY <2>1, <2>2
<1>4. EnviarAGuardar(r, id, s) /\ UNCHANGED <<docs, llamadas>>
  BY DEF Actualizar
<1> HIDE DEF s
<1>5. Preparada(id, s)
  BY <1>1, <1>3 DEF Preparada
<1> QED BY <1>4, <1>5, EnviarSecuencial

LEMMA TransicionarSecuencial ==
  ASSUME IInv, SInv, NEW r \in Peticiones, NEW u \in Usuarios, NEW id \in Ids,
         NEW op, NEW a \in {"APPROVED", "REJECTED", "ABANDONED"}, NEW m \in Motivos,
         TransicionarUseCase(r, u, op, id, a, m)
  PROVE  SInv'
<1> DEFINE s == Transicionar(docs[id], a, u, m)
<1>1. id \in DOMAIN docs /\ docs[id] \in Entidades /\ Coherente(docs[id])
      /\ PuedeTransicionar(docs[id], a) /\ a \in Estados \ {"FINALIZED"}
  BY TurnoUnico DEF TransicionarUseCase, Atiende, Estados
<1>2. Preparada(id, s)
  BY <1>1, SucesorTransicion DEF Preparada
<1> QED BY <1>2, EnviarSecuencial DEF TransicionarUseCase

LEMMA FinalizarSinCoreSecuencial ==
  ASSUME IInv, SInv, NEW r \in Peticiones, NEW u \in Usuarios, NEW id \in Ids,
         FinalizarSinCore(r, u, id)
  PROVE  SInv'
<1> DEFINE s == MarcarPendienteEnvioCore(docs[id])
<1>1. id \in DOMAIN docs /\ docs[id] \in Entidades /\ Coherente(docs[id])
  BY TurnoUnico DEF FinalizarSinCore, FinalizarAtiende, Atiende
<1>2. Preparada(id, s)
  BY <1>1, SucesorPendiente DEF Preparada
<1> QED BY <1>2, EnviarSecuencial DEF FinalizarSinCore

\* The call is for a solicitud whose history ends in its approval.
LEMMA FinalizarLlamaSecuencial ==
  ASSUME IInv, SInv, NEW r \in Peticiones, NEW u \in Usuarios, NEW id \in Ids,
         FinalizarLlama(r, u, id)
  PROVE  SInv'
<1> DEFINE c == [sol |-> id, respuesta |-> "enviada"]
           p == [pc |-> "core", id |-> id, sol |-> docs[id], actor |-> u,
                 llamada |-> Len(llamadas) + 1]
<1>1. /\ id \in DOMAIN docs /\ EntidadOK(docs[id]) /\ docs[id].estado = "APPROVED"
      /\ peticion' = [peticion EXCEPT ![r] = p]
      /\ llamadas' = Append(llamadas, c)
      /\ docs' = docs /\ llamadas \in Seq(Llamadas)
  BY TurnoUnico DEF FinalizarLlama, FinalizarAtiende, Atiende, IInv, TypeOK
<1>2. Aprobada(docs[id])
  <2> DEFINE h == docs[id].historico
  <2>1. h # << >> /\ h \in Seq(Cambios) /\ h[Len(h)].estadoNuevo = "APPROVED"
    BY <1>1 DEF EntidadOK, HistorialOK, EsCamino, Entidades
  <2>2. Len(h) \in DOMAIN h
    <3> HIDE DEF h
    <3> QED BY <2>1
  <2> QED BY <2>1, <2>2 DEF Aprobada
<1>3. ASSUME NEW k \in DOMAIN llamadas'
      PROVE  llamadas'[k].sol \in DOMAIN docs' /\ Aprobada(docs'[llamadas'[k].sol])
  <2>1. c \in Llamadas
    BY DEF Llamadas
  <2>2. (k \in DOMAIN llamadas /\ llamadas'[k] = llamadas[k]) \/ llamadas'[k] = c
    <3> HIDE DEF c
    <3> QED BY <1>1, <2>1
  <2> QED BY <1>1, <1>2, <2>2 DEF SInv
<1>4. ASSUME NEW q \in Peticiones PROVE TurnoOK(peticion[q])'
  <2>1. CASE q = r
    <3>1. peticion'[q] = p
      BY <1>1, <2>1 DEF IInv, TypeOK
    <3> QED BY <1>1, <3>1 DEF TurnoOK
  <2>2. CASE q # r
    BY <1>1, <2>2, TurnoSigue DEF IInv, TypeOK
  <2> QED BY <2>1, <2>2
<1> QED BY <1>1, <1>3, <1>4 DEF SInv, ClaveUnica

LEMMA CoreSecuencial ==
  ASSUME IInv, SInv, NEW r \in Peticiones,
         CoreOk(r) \/ CoreNegocio(r) \/ CoreFalla(r)
  PROVE  SInv'
<1> DEFINE p == peticion[r]
<1>1. peticion[r] # Libre /\ p.pc = "core" /\ UNCHANGED <<docs, llamadas>>
  BY DEF CoreOk, CoreNegocio, CoreFalla, Espera, Libre
<1>2. /\ p.id \in DOMAIN docs /\ p.sol = docs[p.id]
      /\ p.sol \in Entidades /\ Coherente(p.sol)
  BY <1>1, TurnoUnico DEF SInv, TurnoOK
<1>3. LlamadaOK(p)
  BY <1>1, EnVueloOK
<1>4. p.sol.estado = "APPROVED" /\ p.actor \in Usuarios /\ p.llamada \in Nat \ {SinProducto}
  <2>1. llamadas \in Seq(Llamadas)
    BY DEF IInv, TypeOK
  <2>2. p.llamada \in 1 .. Len(llamadas)
    BY <1>3, <2>1 DEF LlamadaOK
  <2> QED BY <1>3, <2>1, <2>2 DEF LlamadaOK, Supervisores, SinProducto
<1>5. CASE CoreOk(r)
  <2>1. EnviarAGuardar(r, p.id, MarcarFinalizada(p.sol, p.llamada, p.actor))
    BY <1>5 DEF CoreOk
  <2>2. Preparada(p.id, MarcarFinalizada(p.sol, p.llamada, p.actor))
    BY <1>2, <1>4, SucesorFinalizada DEF Preparada
  <2> QED BY <1>1, <2>1, <2>2, EnviarSecuencial
<1>6. CASE CoreNegocio(r)
  <2>1. EnviarAGuardar(r, p.id, RegresarARevisionPorRechazoCore(p.sol, p.actor))
    BY <1>6 DEF CoreNegocio
  <2>2. Preparada(p.id, RegresarARevisionPorRechazoCore(p.sol, p.actor))
    BY <1>2, <1>4, SucesorDevuelta DEF Preparada, PuedeRegresarARevision
  <2> QED BY <1>1, <2>1, <2>2, EnviarSecuencial
<1>7. CASE CoreFalla(r)
  <2>1. EnviarAGuardar(r, p.id, MarcarPendienteEnvioCore(p.sol))
    BY <1>7 DEF CoreFalla
  <2>2. Preparada(p.id, MarcarPendienteEnvioCore(p.sol))
    BY <1>2, SucesorPendiente DEF Preparada
  <2> QED BY <1>1, <2>1, <2>2, EnviarSecuencial
<1> QED BY <1>5, <1>6, <1>7

LEMMA CoreDecideSecuencial ==
  ASSUME IInv, SInv, NEW k \in DOMAIN llamadas, NEW x \in RespuestasCore, CoreDecide(k, x)
  PROVE  SInv'
<1>1. /\ llamadas' = [llamadas EXCEPT ![k].respuesta = x]
      /\ docs' = docs /\ peticion' = peticion
      /\ llamadas \in Seq(Llamadas)
  BY DEF CoreDecide, IInv, TypeOK
<1>2. DOMAIN llamadas' = DOMAIN llamadas
  BY <1>1
<1>3. ASSUME NEW j \in DOMAIN llamadas PROVE llamadas'[j].sol = llamadas[j].sol
  <2>1. llamadas[j] \in Llamadas
    BY <1>1
  <2> QED BY <1>1, <2>1 DEF Llamadas
<1> QED BY <1>1, <1>2, <1>3 DEF SInv, ClaveUnica, TurnoOK, Preparada, Nueva

\* What guardar stores is what the request prepared.
LEMMA GuardarEscribe ==
  ASSUME IInv, SInv, NEW r \in Peticiones, Guardar(r)
  PROVE  LET id == peticion[r].id
             s  == peticion[r].sol
         IN /\ s \in Entidades /\ Preparada(id, s)
            /\ DOMAIN docs' = DOMAIN docs \cup {id}
            /\ docs'[id] = s
            /\ \A d \in DOMAIN docs : d # id => docs'[d] = docs[d]
            /\ llamadas' = llamadas
<1> DEFINE id == peticion[r].id
           s  == peticion[r].sol
           f  == IF id \in DOMAIN docs THEN Fusion(docs[id], s) ELSE s
<1>1. peticion[r] # Libre /\ peticion[r].pc = "guardar" /\ llamadas' = llamadas
  BY DEF Guardar, Libre
<1>2. s \in Entidades /\ Preparada(id, s)
  BY <1>1, EnVueloOK DEF SInv, TurnoOK, EntidadOK
<1>3. f = s
  BY <1>2, TurnoUnico, FusionDeSucesor DEF Preparada
<1>4. docs' = [d \in DOMAIN docs \cup {id} |-> IF d # id THEN docs[d] ELSE f]
  BY DEF Guardar, GuardarDocumento
<1> HIDE DEF f, id, s
<1>5. /\ DOMAIN docs' = DOMAIN docs \cup {id} /\ docs'[id] = f
      /\ \A d \in DOMAIN docs : d # id => docs'[d] = docs[d]
  BY <1>4
<1> QED BY <1>1, <1>2, <1>3, <1>5 DEF id, s

LEMMA GuardarSecuencial ==
  ASSUME IInv, SInv, SinConflicto, NEW r \in Peticiones, Guardar(r)
  PROVE  SInv'
<1> DEFINE id == peticion[r].id
           s  == peticion[r].sol
<1>1. /\ s \in Entidades /\ Preparada(id, s)
      /\ DOMAIN docs' = DOMAIN docs \cup {id}
      /\ docs'[id] = s
      /\ \A d \in DOMAIN docs : d # id => docs'[d] = docs[d]
      /\ llamadas' = llamadas
  BY GuardarEscribe
<1> HIDE DEF id, s
<1>2. Coherente(s)
  BY <1>1 DEF Preparada, Sucesor, Nueva
<1>3. \A d \in DOMAIN docs' : Coherente(docs'[d])
  BY <1>1, <1>2 DEF SInv
<1>4. ClaveUnica'
  <2>1. CASE id \in DOMAIN docs
    <3>1. s.idempotencyKey = docs[id].idempotencyKey
      BY <1>1, <2>1 DEF Preparada, Sucesor
    <3> QED BY <1>1, <2>1, <3>1 DEF SInv, ClaveUnica
  <2>2. CASE id \notin DOMAIN docs
    <3>1. \A d \in DOMAIN docs : docs[d].idempotencyKey # s.idempotencyKey
      BY <1>1, <2>2 DEF Preparada, Nueva
    <3> QED BY <1>1, <2>2, <3>1 DEF SInv, ClaveUnica
  <2> QED BY <2>1, <2>2
<1>5. ASSUME NEW k \in DOMAIN llamadas'
      PROVE  llamadas'[k].sol \in DOMAIN docs' /\ Aprobada(docs'[llamadas'[k].sol])
  <2> DEFINE d == llamadas[k].sol
  <2>1. llamadas'[k].sol = d /\ d \in DOMAIN docs /\ Aprobada(docs[d]) /\ docs[d] \in Entidades
    BY <1>1, TurnoUnico DEF SInv
  <2> HIDE DEF d
  <2>2. CASE d = id
    <3>1. Sucesor(docs[d], s)
      BY <1>1, <2>1, <2>2 DEF Preparada
    <3> QED BY <1>1, <2>1, <2>2, <3>1, AprobadaPerdura
  <2>3. CASE d # id
    BY <1>1, <2>1, <2>3
  <2> QED BY <2>2, <2>3
<1>6. ASSUME NEW q \in Peticiones PROVE TurnoOK(peticion[q])'
  <2>1. CASE q = r
    <3>1. peticion'[q] = Libre
      BY <2>1 DEF Guardar, IInv, TypeOK
    <3> QED BY <3>1 DEF TurnoOK, Libre
  <2>2. CASE q # r /\ peticion[q] = Libre
    <3>1. peticion'[q] = Libre
      BY <2>2 DEF Guardar, IInv, TypeOK
    <3> QED BY <3>1 DEF TurnoOK, Libre
  <2>3. CASE q # r /\ peticion[q] # Libre
    <3> PICK p : p = peticion[q]
      OBVIOUS
    <3>1. peticion'[q] = p /\ peticion[r] # Libre
      BY <2>3 DEF Guardar, IInv, TypeOK, Libre
    <3>2. p.id # id /\ p.sol.idempotencyKey # s.idempotencyKey /\ TurnoOK(p)
      BY <2>3, <3>1 DEF SInv, SinConflicto, id, s
    <3>3. p.pc = "core" => p.id \in DOMAIN docs' /\ p.sol = docs'[p.id]
      BY <1>1, <3>2 DEF TurnoOK
    <3>4. p.pc = "guardar" => Preparada(p.id, p.sol)'
      <4>1. CASE p.id \in DOMAIN docs
        BY <1>1, <3>2, <4>1 DEF TurnoOK, Preparada
      <4>2. CASE p.id \notin DOMAIN docs
        BY <1>1, <3>2, <4>2 DEF TurnoOK, Preparada, Nueva
      <4> QED BY <4>1, <4>2
    <3> QED BY <3>1, <3>3, <3>4 DEF TurnoOK
  <2> QED BY <2>1, <2>2, <2>3
<1> QED BY <1>3, <1>4, <1>5, <1>6 DEF SInv

LEMMA InterrumpirSecuencial ==
  ASSUME IInv, SInv, NEW r \in Peticiones, Interrumpir(r)
  PROVE  SInv'
<1>1. docs' = docs /\ llamadas' = llamadas
  BY DEF Interrumpir
<1>2. ASSUME NEW q \in Peticiones PROVE TurnoOK(peticion[q])'
  <2>1. CASE q = r
    <3>1. peticion'[q] = Libre
      BY <2>1 DEF Interrumpir, IInv, TypeOK
    <3> QED BY <3>1 DEF TurnoOK, Libre
  <2>2. CASE q # r
    BY <1>1, <2>2, TurnoSigue DEF Interrumpir, IInv, TypeOK
  <2> QED BY <2>1, <2>2
<1> QED BY <1>1, <1>2 DEF SInv, ClaveUnica

LEMMA NextSecuencial == IInv /\ SInv /\ SinConflicto /\ [Next]_vars => SInv'
<1> SUFFICES ASSUME IInv, SInv, SinConflicto, [Next]_vars PROVE SInv'
  OBVIOUS
<1>1. ASSUME NEW r \in Peticiones, Solicita(r) PROVE SInv'
  <2> PICK u \in Usuarios, id \in Ids :
        \/ \E clave \in Claves, datos \in Datos : Crear(r, u, clave, datos, id)
        \/ \E datos \in Datos \cup {SinDatos}, enviar \in BOOLEAN :
              Actualizar(r, u, id, datos, enviar)
        \/ Aprobar(r, u, id)
        \/ \E motivo \in {SinMotivo, "usuario"} : Rechazar(r, u, id, motivo)
        \/ Abandonar(r, u, id)
        \/ FinalizarLlama(r, u, id)
        \/ FinalizarSinCore(r, u, id)
    BY <1>1 DEF Solicita
  <2>1. ASSUME NEW clave \in Claves, NEW datos \in Datos, Crear(r, u, clave, datos, id)
        PROVE  SInv'
    BY <2>1, CrearSecuencial
  <2>2. ASSUME NEW datos \in Datos \cup {SinDatos}, NEW enviar \in BOOLEAN,
               Actualizar(r, u, id, datos, enviar)
        PROVE  SInv'
    BY <2>2, ActualizarSecuencial
  <2>3. CASE Aprobar(r, u, id)
    BY <2>3, TransicionarSecuencial DEF Aprobar, Motivos
  <2>4. ASSUME NEW m \in {SinMotivo, "usuario"}, Rechazar(r, u, id, m) PROVE SInv'
    BY <2>4, TransicionarSecuencial DEF Rechazar, Motivos
  <2>5. CASE Abandonar(r, u, id)
    BY <2>5, TransicionarSecuencial DEF Abandonar, Motivos
  <2>6. CASE FinalizarLlama(r, u, id)
    BY <2>6, FinalizarLlamaSecuencial
  <2>7. CASE FinalizarSinCore(r, u, id)
    BY <2>7, FinalizarSinCoreSecuencial
  <2> QED BY <2>1, <2>2, <2>3, <2>4, <2>5, <2>6, <2>7
<1>2. ASSUME NEW r \in Peticiones, Continua(r) PROVE SInv'
  BY <1>2, CoreSecuencial, GuardarSecuencial DEF Continua
<1>3. ASSUME NEW r \in Peticiones, Interrumpir(r) PROVE SInv'
  BY <1>3, InterrumpirSecuencial
<1>4. ASSUME NEW k \in DOMAIN llamadas, NEW x \in RespuestasCore, CoreDecide(k, x) PROVE SInv'
  BY <1>4, CoreDecideSecuencial
<1>5. CASE UNCHANGED vars
  BY <1>5 DEF vars, SInv, ClaveUnica, TurnoOK, Preparada, Nueva
<1> QED BY <1>1, <1>2, <1>3, <1>4, <1>5 DEF Next

LEMMA InitSecuencial == Init => SInv
BY DEF Init, SInv, ClaveUnica, TurnoOK, Libre

\* Only guardar writes the collection.
LEMMA SoloGuardarEscribe ==
  ASSUME Next, \A r \in Peticiones : ~Guardar(r)
  PROVE  docs' = docs
<1>1. ASSUME NEW r \in Peticiones, Solicita(r) PROVE docs' = docs
  BY <1>1 DEF Solicita, Crear, Actualizar, Aprobar, Rechazar, Abandonar,
              TransicionarUseCase, FinalizarLlama, FinalizarSinCore
<1>2. ASSUME NEW r \in Peticiones, Continua(r) PROVE docs' = docs
  BY <1>2 DEF Continua, CoreOk, CoreNegocio, CoreFalla
<1>3. ASSUME NEW r \in Peticiones, Interrumpir(r) PROVE docs' = docs
  BY <1>3 DEF Interrumpir
<1> QED BY <1>1, <1>2, <1>3 DEF Next, CoreDecide

\* A step leaves every document where it was or takes it to a successor.
LEMMA PasoDocumento ==
  ASSUME IInv, SInv, [Next]_vars, NEW id \in DOMAIN docs
  PROVE  id \in DOMAIN docs' /\ Sucesor(docs[id], docs'[id])
<1>1. Sucesor(docs[id], docs[id])
  BY TurnoUnico, SucesorMismo
<1>2. CASE \E r \in Peticiones : Next /\ Guardar(r)
  <2> PICK r \in Peticiones : Guardar(r)
    BY <1>2
  <2> QED BY <1>1, GuardarEscribe DEF Preparada
<1>3. CASE Next /\ \A r \in Peticiones : ~Guardar(r)
  BY <1>1, <1>3, SoloGuardarEscribe
<1>4. CASE UNCHANGED vars
  BY <1>1, <1>4 DEF vars
<1> QED BY <1>2, <1>3, <1>4

-----------------------------------------------------------------------------
(* The theorems.                                                           *)

\* Spec as far as its requests never meet.
LEMMA EsSpec == SpecSinConflicto => Spec /\ []SinConflicto
<1>1. Init => SinConflicto
  BY DEF Init, SinConflicto
<1>2. SinConflicto /\ [Next /\ SinConflicto']_vars => SinConflicto'
  BY DEF SinConflicto, vars
<1> QED BY <1>1, <1>2, PTL DEF Spec, SpecSinConflicto

\* With a single slot for requests they never meet: what follows holds of such a service.
LEMMA UnaPeticionNoConflicta ==
  ASSUME \A q, r \in Peticiones : q = r
  PROVE  Spec => SpecSinConflicto
<1>1. [Next]_vars => [Next /\ SinConflicto']_vars
  BY DEF SinConflicto
<1> QED BY <1>1, PTL DEF Spec, SpecSinConflicto

\* When requests do not meet, what is in flight is always a successor of what is stored.
THEOREM InvarianteSecuencial == SpecSinConflicto => [](IInv /\ SInv)
<1>1. Init => IInv /\ SInv
  BY InitOK, InitSecuencial
<1>2. IInv /\ SInv /\ SinConflicto /\ [Next]_vars => (IInv /\ SInv)'
  BY NextOK, NextSecuencial
<1> QED BY <1>1, <1>2, EsSpec, PTL DEF Spec

\* Two solicitudes never carry the same Idempotency-Key: crear looks it up first.
THEOREM ClaveUnicaSecuencial == SpecSinConflicto => []ClaveUnica
<1>1. SInv => ClaveUnica
  BY DEF SInv
<1> QED BY <1>1, InvarianteSecuencial, PTL

\* A product number is on file exactly when the solicitud is FINALIZED.
THEOREM ProductoSecuencial == SpecSinConflicto => []ProductoSoloFinalizada
<1>1. SInv => ProductoSoloFinalizada
  BY DEF SInv, ProductoSoloFinalizada, Coherente
<1> QED BY <1>1, InvarianteSecuencial, PTL

\* Every product the Core opened is of a solicitud with an approval in its history.
THEOREM AperturaSecuencial == SpecSinConflicto => []AperturaTrasAprobacion
<1>1. SInv => AperturaTrasAprobacion
  BY DEF SInv, AperturaTrasAprobacion, Aprobada
<1> QED BY <1>1, InvarianteSecuencial, PTL

\* The state of a document in a terminal state never changes again.
THEOREM TerminalSecuencial == SpecSinConflicto => TerminalEsFinal
<1> DEFINE A == \A id \in DOMAIN docs :
                  docs[id].estado \in TerminalStates => docs'[id].estado = docs[id].estado
<1>1. IInv /\ SInv /\ [Next]_vars => [A]_vars
  <2> SUFFICES ASSUME IInv, SInv, [Next]_vars, NEW id \in DOMAIN docs,
                      docs[id].estado \in TerminalStates
               PROVE  docs'[id].estado = docs[id].estado
    OBVIOUS
  <2> QED BY PasoDocumento DEF Sucesor, CanTransitionTo, Allowed, TerminalStates
<1>2. SpecSinConflicto => [][A]_vars
  BY <1>1, InvarianteSecuencial, EsSpec, PTL DEF Spec
<1> QED BY <1>2 DEF TerminalEsFinal

\* The form of a document changes only while it is a DRAFT.
THEOREM DatosSecuencial == SpecSinConflicto => DatosSoloEnDraft
<1> DEFINE A == \A id \in DOMAIN docs :
                  docs'[id].datosFormulario # docs[id].datosFormulario => docs[id].estado = "DRAFT"
<1>1. IInv /\ SInv /\ [Next]_vars => [A]_vars
  <2> SUFFICES ASSUME IInv, SInv, [Next]_vars, NEW id \in DOMAIN docs
               PROVE  docs'[id].datosFormulario # docs[id].datosFormulario => docs[id].estado = "DRAFT"
    OBVIOUS
  <2> QED BY PasoDocumento DEF Sucesor
<1>2. SpecSinConflicto => [][A]_vars
  BY <1>1, InvarianteSecuencial, EsSpec, PTL DEF Spec
<1> QED BY <1>2 DEF DatosSoloEnDraft

\* The stored history only grows: what it held it holds, at the same place.
THEOREM HistorialSecuencial == SpecSinConflicto => HistorialSoloCrece
<1> DEFINE A == \A id \in DOMAIN docs : IsPrefix(docs[id].historico, docs'[id].historico)
<1>1. IInv /\ SInv /\ [Next]_vars => [A]_vars
  <2> SUFFICES ASSUME IInv, SInv, [Next]_vars, NEW id \in DOMAIN docs
               PROVE  IsPrefix(docs[id].historico, docs'[id].historico)
    OBVIOUS
  <2> QED BY PasoDocumento DEF Sucesor
<1>2. SpecSinConflicto => [][A]_vars
  BY <1>1, InvarianteSecuencial, EsSpec, PTL DEF Spec
<1> QED BY <1>2 DEF HistorialSoloCrece

\* A document that changes gets a version above the one it had.
THEOREM VersionSecuencial == SpecSinConflicto => CadaCambioSubeVersion
<1> DEFINE A == \A id \in DOMAIN docs :
                  docs'[id] # docs[id] => docs'[id].version > docs[id].version
<1>1. IInv /\ SInv /\ [Next]_vars => [A]_vars
  <2> SUFFICES ASSUME IInv, SInv, [Next]_vars, NEW id \in DOMAIN docs
               PROVE  docs'[id] # docs[id] => docs'[id].version > docs[id].version
    OBVIOUS
  <2> QED BY PasoDocumento DEF Sucesor
<1>2. SpecSinConflicto => [][A]_vars
  BY <1>1, InvarianteSecuencial, EsSpec, PTL DEF Spec
<1> QED BY <1>2 DEF CadaCambioSubeVersion

-----------------------------------------------------------------------------
(* The refinement: what CicloDeVida sees of the service.                   *)

EstadoVisto == [id \in Ids |-> IF id \in DOMAIN docs THEN docs[id].estado ELSE "INEXISTENTE"]

ConProducto == {id \in DOMAIN docs : docs[id].numeroProducto # SinProducto}

LEMMA InitCiclo == Init => Ciclo!Init
BY DEF Init, Ciclo!Init, Ciclo!Inexistente

\* The write of guardar is one step of CicloDeVida, or none.
LEMMA GuardarCiclo ==
  ASSUME IInv, SInv, NEW r \in Peticiones, Guardar(r)
  PROVE  [Ciclo!Next]_(Ciclo!cdv)
<1> DEFINE s == peticion[r].sol
           e == EstadoVisto
           c == ConProducto
<1>1. PICK id \in Ids : id = peticion[r].id
  <2>1. peticion[r] # Libre
    BY DEF Guardar, Libre
  <2> QED BY <2>1, EnVueloOK
<1>2. /\ s \in Entidades /\ Preparada(id, s)
      /\ DOMAIN docs' = DOMAIN docs \cup {id}
      /\ docs'[id] = s
      /\ \A d \in DOMAIN docs : d # id => docs'[d] = docs[d]
  BY <1>1, GuardarEscribe
<1>3. /\ e \in [Ids -> Estados \cup {"INEXISTENTE"}]
      /\ DOMAIN docs \subseteq Ids
  BY TurnoUnico DEF EstadoVisto, IInv, TypeOK, Entidades
<1> HIDE DEF s, e, c
<1>4. e' = [e EXCEPT ![id] = s.estado]
  BY <1>2, <1>3 DEF EstadoVisto, e
<1>5. c' = IF s.estado = "FINALIZED" THEN c \cup {id} ELSE c \ {id}
  <2>1. s.numeroProducto # SinProducto <=> s.estado = "FINALIZED"
    BY <1>2 DEF Preparada, Sucesor, Nueva, Coherente
  <2> QED BY <1>2, <2>1 DEF ConProducto, c
<1>6. s.estado \in Estados
  BY <1>2 DEF Entidades
<1>7. CASE id \notin DOMAIN docs
  <2>1. e[id] = "INEXISTENTE" /\ s.estado = "DRAFT" /\ id \notin c
    BY <1>2, <1>7 DEF EstadoVisto, ConProducto, Preparada, Nueva, e, c
  <2>2. e' = [e EXCEPT ![id] = "DRAFT"] /\ c' = c
    BY <1>4, <1>5, <2>1
  <2>3. Ciclo!Nace(id)
    BY <2>1, <2>2 DEF Ciclo!Nace, Ciclo!Inexistente, EstadoVisto, ConProducto, e, c
  <2> QED BY <2>3 DEF Ciclo!Next
<1>8. CASE id \in DOMAIN docs
  <2>1. /\ e[id] = docs[id].estado /\ Sucesor(docs[id], s)
        /\ id \in c <=> docs[id].estado = "FINALIZED"
    BY <1>2, <1>8, TurnoUnico DEF EstadoVisto, ConProducto, Preparada, Coherente, e, c
  <2>2. docs[id].estado \in Estados
    BY <1>8, TurnoUnico DEF Entidades
  <2>3. CASE s.estado = docs[id].estado
    <3>1. e' = e /\ c' = c
      BY <1>3, <1>4, <1>5, <2>1, <2>3
    <3> QED BY <3>1 DEF Ciclo!cdv, EstadoVisto, ConProducto, e, c
  <2>4. CASE s.estado # docs[id].estado /\ CanTransitionTo(docs[id].estado, s.estado)
    <3>1. id \notin c /\ e[id] # "INEXISTENTE"
      BY <2>1, <2>2, <2>4 DEF CanTransitionTo, Allowed, Estados
    <3>2. c' = IF s.estado = "FINALIZED" THEN c \cup {id} ELSE c
      BY <1>5, <3>1
    <3>3. PICK a \in Ciclo!Estados : a = s.estado
      BY <1>6 DEF Ciclo!Estados, Estados
    <3>4. Ciclo!CanTransitionTo(e[id], a)
      BY <2>1, <2>4, <3>3 DEF Ciclo!CanTransitionTo, CanTransitionTo, Ciclo!Allowed, Allowed
    <3>5. Ciclo!Avanza(id, a)
      BY <1>4, <3>1, <3>2, <3>3, <3>4
         DEF Ciclo!Avanza, Ciclo!Inexistente, EstadoVisto, ConProducto, e, c
    <3> QED BY <3>5 DEF Ciclo!Next
  <2>5. CASE docs[id].estado = "APPROVED" /\ s.estado = "IN_REVIEW"
    <3>1. id \notin c /\ c' = c
      BY <1>5, <2>1, <2>5
    <3>2. Ciclo!Retorna(id)
      BY <1>4, <2>1, <2>5, <3>1 DEF Ciclo!Retorna, EstadoVisto, ConProducto, e, c
    <3> QED BY <3>2 DEF Ciclo!Next
  <2> QED BY <2>1, <2>3, <2>4, <2>5 DEF Sucesor
<1> QED BY <1>7, <1>8

LEMMA NextCiclo ==
  ASSUME IInv, SInv, [Next]_vars
  PROVE  [Ciclo!Next]_(Ciclo!cdv)
<1>1. CASE \E r \in Peticiones : Next /\ Guardar(r)
  BY <1>1, GuardarCiclo
<1>2. CASE docs' = docs
  BY <1>2 DEF Ciclo!cdv
<1>3. CASE UNCHANGED vars
  BY <1>2, <1>3 DEF vars
<1> QED BY <1>1, <1>2, <1>3, SoloGuardarEscribe

\* When requests do not meet, the service implements CicloDeVida: every step of it is
\* a step of that specification for one solicitud, or changes nothing a person sees.
THEOREM RefinaCicloDeVida == SpecSinConflicto => ImplementaCicloDeVida
<1>1. Init => Ciclo!Init
  BY InitCiclo
<1>2. IInv /\ SInv /\ [Next]_vars => [Ciclo!Next]_(Ciclo!cdv)
  BY NextCiclo
<1>3. SpecSinConflicto => Ciclo!Spec
  BY <1>1, <1>2, InvarianteSecuencial, EsSpec, PTL DEF Spec, Ciclo!Spec
<1> QED BY <1>3 DEF ImplementaCicloDeVida
=============================================================================
