-------------------------- MODULE SolicitudesProofs ---------------------------
(***************************************************************************)
(* The safety of the solicitudes service for any number of requests,       *)
(* users, ids and calls.                                                   *)
(*                                                                         *)
(* The properties speak of the stored documents, but guardar stores an     *)
(* entity read before other requests wrote, so none of them is inductive.  *)
(* The invariant IInv asks of the entities in flight what the properties   *)
(* ask of the documents, and ties the request that awaits the Core to its  *)
(* call.                                                                   *)
(***************************************************************************)
EXTENDS SolicitudesProps, TLAPS

\* What holds of an entity whatever happens around it.
EntidadOK(s) ==
  /\ s \in Entidades
  /\ HistorialOK(s)
  /\ DecisionesOK(s)
  /\ FinalizadaOK(s)

ProductoOK(id, s) == s.numeroProducto # SinProducto => Abierta(id, s.numeroProducto)

LlamadaOK(p) ==
  /\ p.sol.estado = "APPROVED"
  /\ p.actor \in Supervisores
  /\ p.llamada \in DOMAIN llamadas
  /\ llamadas[p.llamada].sol = p.id

PeticionOK(p) ==
  /\ p # Libre => EntidadOK(p.sol) /\ ProductoOK(p.id, p.sol)
  /\ p.pc = "core" => LlamadaOK(p)

IInv ==
  /\ TypeOK
  /\ \A id \in DOMAIN docs : EntidadOK(docs[id]) /\ ProductoOK(id, docs[id])
  /\ \A r \in Peticiones : PeticionOK(peticion[r])

-----------------------------------------------------------------------------
(* The mutators of the entity.                                             *)

\* A change that the state machine or the Core allows extends the history.
LEMMA HistorialCrece ==
  ASSUME NEW s \in Entidades, NEW a \in Estados, NEW u \in Usuarios,
         HistorialOK(s), DecisionesOK(s),
         PasoLegal(CambioEstado(s.estado, a, u)),
         EsDecision(CambioEstado(s.estado, a, u)) => u \in Supervisores,
         NEW t \in Entidades,
         t.estado = a,
         t.historico = Append(s.historico, CambioEstado(s.estado, a, u))
  PROVE  HistorialOK(t) /\ DecisionesOK(t)
<1> DEFINE c == CambioEstado(s.estado, a, u)
           h == s.historico
           g == t.historico
<1>1. /\ h \in Seq(Cambios) /\ c \in Cambios /\ h # << >>
      /\ g = Append(h, c)
  BY DEF Entidades, Cambios, CambioEstado, HistorialOK, EsCamino
<1>2. /\ Len(g) = Len(h) + 1 /\ Len(h) \in Nat /\ Len(h) > 0
      /\ DOMAIN g = 1 .. Len(h) + 1 /\ DOMAIN h = 1 .. Len(h)
      /\ g[Len(h) + 1] = c
      /\ \A i \in 1 .. Len(h) : g[i] = h[i]
  <2> HIDE DEF c, h, g
  <2> QED BY <1>1
<1>3. g[Len(g)].estadoNuevo = t.estado
  BY <1>2 DEF CambioEstado
<1>4. EsCamino(g)
  <2>1. g # << >> /\ g[1].estadoAnterior = "DRAFT" /\ g[1].estadoNuevo = "DRAFT"
    BY <1>1, <1>2 DEF HistorialOK, EsCamino
  <2>2. ASSUME NEW i \in 2 .. Len(g)
        PROVE  g[i].estadoAnterior = g[i - 1].estadoNuevo /\ PasoLegal(g[i])
    <3>1. CASE i = Len(h) + 1
      <4>1. g[i] = c /\ g[i - 1] = h[Len(h)]
        <5> HIDE DEF c, h, g
        <5> QED BY <1>2, <3>1
      <4>2. h[Len(h)].estadoNuevo = s.estado
        BY DEF HistorialOK
      <4> QED BY <4>1, <4>2 DEF CambioEstado
    <3>2. CASE i # Len(h) + 1
      <4>1. i \in 2 .. Len(h) /\ g[i] = h[i] /\ g[i - 1] = h[i - 1]
        <5> HIDE DEF c, h, g
        <5> QED BY <1>2, <3>2
      <4> QED BY <4>1 DEF HistorialOK, EsCamino
    <3> QED BY <3>1, <3>2
  <2> QED BY <2>1, <2>2 DEF EsCamino
<1>5. DecisionesOK(t)
  <2> SUFFICES ASSUME NEW i \in DOMAIN g, EsDecision(g[i]) PROVE g[i].actor \in Supervisores
    BY DEF DecisionesOK
  <2>1. CASE i = Len(h) + 1
    <3>1. g[i] = c
      BY <1>2, <2>1
    <3> QED BY <3>1 DEF CambioEstado
  <2>2. CASE i # Len(h) + 1
    <3>1. i \in DOMAIN h /\ g[i] = h[i]
      <4> HIDE DEF c, h, g
      <4> QED BY <1>2, <2>2
    <3> QED BY <3>1 DEF DecisionesOK
  <2> QED BY <2>1, <2>2
<1> QED BY <1>3, <1>4, <1>5 DEF HistorialOK

\* touch changes the version alone.
LEMMA TouchOK ==
  ASSUME NEW s \in Entidades
  PROVE  LET t == Touch(s)
         IN /\ t \in Entidades /\ t.estado = s.estado /\ t.historico = s.historico
            /\ t.numeroProducto = s.numeroProducto /\ t.pendiente = s.pendiente
            /\ t.datosFormulario = s.datosFormulario /\ t.idempotencyKey = s.idempotencyKey
            /\ t.motivoRechazo = s.motivoRechazo /\ t.version = s.version + 1
BY DEF Touch, Entidades

\* The fields each mutator leaves, whatever the entity.
LEMMA ActualizarDatosCampos ==
  ASSUME NEW s \in Entidades, NEW datos \in Datos
  PROVE  LET t == ActualizarDatos(s, datos)
         IN /\ t \in Entidades /\ t.estado = s.estado /\ t.historico = s.historico
            /\ t.numeroProducto = s.numeroProducto /\ t.idempotencyKey = s.idempotencyKey
            /\ t.pendiente = s.pendiente
            /\ t.motivoRechazo = s.motivoRechazo /\ t.version = s.version + 1
<1> DEFINE e == [s EXCEPT !.datosFormulario = datos]
<1>1. /\ e \in Entidades /\ e.estado = s.estado /\ e.historico = s.historico
      /\ e.numeroProducto = s.numeroProducto /\ e.idempotencyKey = s.idempotencyKey
      /\ e.pendiente = s.pendiente
      /\ e.motivoRechazo = s.motivoRechazo /\ e.version = s.version
  BY DEF Entidades
<1> HIDE DEF e
<1> QED BY <1>1, TouchOK DEF ActualizarDatos, e

LEMMA MarcarPendienteCampos ==
  ASSUME NEW s \in Entidades
  PROVE  LET t == MarcarPendienteEnvioCore(s)
         IN /\ t \in Entidades /\ t.estado = s.estado /\ t.historico = s.historico
            /\ t.numeroProducto = s.numeroProducto /\ t.idempotencyKey = s.idempotencyKey
            /\ t.datosFormulario = s.datosFormulario /\ t.pendiente
            /\ t.motivoRechazo = s.motivoRechazo /\ t.version = s.version + 1
<1> DEFINE e == [s EXCEPT !.pendiente = TRUE]
<1>1. /\ e \in Entidades /\ e.estado = s.estado /\ e.historico = s.historico
      /\ e.numeroProducto = s.numeroProducto /\ e.idempotencyKey = s.idempotencyKey
      /\ e.datosFormulario = s.datosFormulario /\ e.pendiente
      /\ e.motivoRechazo = s.motivoRechazo /\ e.version = s.version
  BY DEF Entidades
<1> HIDE DEF e
<1> QED BY <1>1, TouchOK DEF MarcarPendienteEnvioCore, e

LEMMA TransicionarCampos ==
  ASSUME NEW s \in Entidades, NEW a \in Estados, NEW u \in Usuarios, NEW m \in Motivos
  PROVE  LET t == Transicionar(s, a, u, m)
         IN /\ t \in Entidades /\ t.estado = a
            /\ t.historico = Append(s.historico, CambioEstado(s.estado, a, u))
            /\ t.numeroProducto = s.numeroProducto /\ t.pendiente = s.pendiente
            /\ t.datosFormulario = s.datosFormulario /\ t.idempotencyKey = s.idempotencyKey
            /\ t.motivoRechazo \in {s.motivoRechazo, m}
            /\ t.motivoRechazo = SinMotivo => s.motivoRechazo = SinMotivo
            /\ t.version = s.version + 1
<1> DEFINE h == Append(s.historico, CambioEstado(s.estado, a, u))
           x == IF a = "REJECTED" /\ m # SinMotivo THEN m ELSE s.motivoRechazo
           e == [s EXCEPT !.estado = a, !.historico = h, !.motivoRechazo = x]
           t == Transicionar(s, a, u, m)
<1>1. CambioEstado(s.estado, a, u) \in Cambios
  BY DEF CambioEstado, Cambios, Entidades
<1>2. /\ h \in Seq(Cambios) /\ x \in Motivos /\ x \in {s.motivoRechazo, m}
      /\ x = SinMotivo => s.motivoRechazo = SinMotivo
  BY <1>1 DEF Entidades
<1>3. t = Touch(e)
  BY DEF Transicionar
<1>4. /\ e \in Entidades /\ e.estado = a /\ e.historico = h
      /\ e.numeroProducto = s.numeroProducto /\ e.pendiente = s.pendiente
      /\ e.datosFormulario = s.datosFormulario /\ e.idempotencyKey = s.idempotencyKey
      /\ e.motivoRechazo = x /\ e.version = s.version
  <2> HIDE DEF h, x
  <2> QED BY <1>2 DEF Entidades
<1> HIDE DEF e, t, x
<1>5. /\ t \in Entidades /\ t.estado = a /\ t.historico = h
      /\ t.numeroProducto = s.numeroProducto /\ t.pendiente = s.pendiente
      /\ t.datosFormulario = s.datosFormulario /\ t.idempotencyKey = s.idempotencyKey
      /\ t.motivoRechazo = x /\ t.version = s.version + 1
  BY <1>3, <1>4, TouchOK
<1> QED BY <1>2, <1>5 DEF t

LEMMA MarcarFinalizadaCampos ==
  ASSUME NEW s \in Entidades, NEW n \in Nat, NEW u \in Usuarios
  PROVE  LET t == MarcarFinalizada(s, n, u)
         IN /\ t \in Entidades /\ t.estado = "FINALIZED"
            /\ t.historico = Append(s.historico, CambioEstado(s.estado, "FINALIZED", u))
            /\ t.numeroProducto = n /\ ~t.pendiente
            /\ t.datosFormulario = s.datosFormulario /\ t.idempotencyKey = s.idempotencyKey
            /\ t.motivoRechazo = s.motivoRechazo /\ t.version = s.version + 2
<1> DEFINE h == Append(s.historico, CambioEstado(s.estado, "FINALIZED", u))
           f == Transicionar(s, "FINALIZED", u, SinMotivo)
           e == [f EXCEPT !.numeroProducto = n, !.pendiente = FALSE]
           t == MarcarFinalizada(s, n, u)
<1>1. "FINALIZED" \in Estados /\ SinMotivo \in Motivos
  BY DEF Estados, Motivos
<1>2. f.motivoRechazo = s.motivoRechazo
  BY <1>1, TransicionarCampos DEF Transicionar, Touch, Entidades
<1>3. /\ f \in Entidades /\ f.estado = "FINALIZED" /\ f.historico = h
      /\ f.datosFormulario = s.datosFormulario /\ f.idempotencyKey = s.idempotencyKey
      /\ f.version = s.version + 1
  BY <1>1, TransicionarCampos
<1>4. t = Touch(e)
  BY DEF MarcarFinalizada
<1> HIDE DEF f
<1>5. /\ e \in Entidades /\ e.estado = f.estado /\ e.historico = f.historico
      /\ e.numeroProducto = n /\ e.pendiente = FALSE
      /\ e.datosFormulario = f.datosFormulario /\ e.idempotencyKey = f.idempotencyKey
      /\ e.motivoRechazo = f.motivoRechazo /\ e.version = f.version
  BY <1>3 DEF Entidades
<1>6. s.version \in Nat
  BY DEF Entidades
<1> HIDE DEF e, t, h
<1>7. /\ t \in Entidades /\ t.estado = e.estado /\ t.historico = e.historico
      /\ t.numeroProducto = e.numeroProducto /\ t.pendiente = e.pendiente
      /\ t.datosFormulario = e.datosFormulario /\ t.idempotencyKey = e.idempotencyKey
      /\ t.motivoRechazo = e.motivoRechazo /\ t.version = e.version + 1
  BY <1>4, <1>5, TouchOK
<1> QED BY <1>2, <1>3, <1>5, <1>6, <1>7 DEF t, h

LEMMA RegresarCampos ==
  ASSUME NEW s \in Entidades, NEW u \in Usuarios
  PROVE  LET t == RegresarARevisionPorRechazoCore(s, u)
         IN /\ t \in Entidades /\ t.estado = "IN_REVIEW"
            /\ t.historico = Append(s.historico, CambioEstado(s.estado, "IN_REVIEW", u))
            /\ t.numeroProducto = s.numeroProducto /\ t.pendiente = s.pendiente
            /\ t.datosFormulario = s.datosFormulario /\ t.idempotencyKey = s.idempotencyKey
            /\ t.motivoRechazo = "core" /\ t.version = s.version + 1
<1> DEFINE h == Append(s.historico, CambioEstado(s.estado, "IN_REVIEW", u))
           e == [s EXCEPT !.estado = "IN_REVIEW", !.historico = h, !.motivoRechazo = "core"]
           t == RegresarARevisionPorRechazoCore(s, u)
<1>1. "IN_REVIEW" \in Estados /\ "core" \in Motivos
  BY DEF Estados, Motivos
<1>2. CambioEstado(s.estado, "IN_REVIEW", u) \in Cambios
  BY <1>1 DEF CambioEstado, Cambios, Entidades
<1>3. h \in Seq(Cambios)
  BY <1>2 DEF Entidades
<1>4. t = Touch(e)
  BY DEF RegresarARevisionPorRechazoCore
<1>5. /\ e \in Entidades /\ e.estado = "IN_REVIEW" /\ e.historico = h
      /\ e.numeroProducto = s.numeroProducto /\ e.pendiente = s.pendiente
      /\ e.datosFormulario = s.datosFormulario /\ e.idempotencyKey = s.idempotencyKey
      /\ e.motivoRechazo = "core" /\ e.version = s.version
  <2> HIDE DEF h
  <2> QED BY <1>1, <1>3 DEF Entidades
<1> HIDE DEF e, t
<1> QED BY <1>4, <1>5, TouchOK DEF t

\* A new solicitud is in order.
LEMMA CrearOK ==
  ASSUME NEW clave \in Claves, NEW datos \in Datos, NEW u \in Usuarios
  PROVE  EntidadOK(CrearSolicitud(clave, datos, u))
<1> DEFINE c == CambioEstado("DRAFT", "DRAFT", u)
           s == CrearSolicitud(clave, datos, u)
<1>1. c \in Cambios
  BY DEF CambioEstado, Cambios, Estados
<1>2. /\ s.historico = <<c>> /\ <<c>> \in Seq(Cambios)
      /\ Len(<<c>>) = 1 /\ DOMAIN <<c>> = {1} /\ <<c>>[1] = c
  BY <1>1 DEF CrearSolicitud
<1>3. s \in Entidades
  BY <1>2 DEF CrearSolicitud, Entidades, Estados, Motivos, SinMotivo, SinProducto
<1>4. HistorialOK(s)
  BY <1>2 DEF HistorialOK, EsCamino, CrearSolicitud, CambioEstado
<1>5. DecisionesOK(s) /\ FinalizadaOK(s)
  BY <1>2 DEF DecisionesOK, FinalizadaOK, EsDecision, PasoDelCore, CrearSolicitud, CambioEstado
<1> QED BY <1>3, <1>4, <1>5 DEF EntidadOK

\* Changes that leave the state and the history alone.
LEMMA SinTransicionOK ==
  ASSUME NEW s, EntidadOK(s)
  PROVE  /\ \A datos \in Datos :
              LET t == ActualizarDatos(s, datos)
              IN /\ PuedeActualizarDatos(s) => EntidadOK(t)
                 /\ t.estado = s.estado /\ t.numeroProducto = s.numeroProducto
         /\ LET t == MarcarPendienteEnvioCore(s)
            IN /\ s.estado # "FINALIZED" => EntidadOK(t)
               /\ t.numeroProducto = s.numeroProducto
<1>1. s \in Entidades
  BY DEF EntidadOK
<1>2. ASSUME NEW datos \in Datos
      PROVE  LET t == ActualizarDatos(s, datos)
             IN /\ PuedeActualizarDatos(s) => EntidadOK(t)
                /\ t.estado = s.estado /\ t.numeroProducto = s.numeroProducto
  BY <1>1, ActualizarDatosCampos
     DEF EntidadOK, HistorialOK, DecisionesOK, FinalizadaOK, PuedeActualizarDatos
<1>3. LET t == MarcarPendienteEnvioCore(s)
      IN /\ s.estado # "FINALIZED" => EntidadOK(t)
         /\ t.numeroProducto = s.numeroProducto
  BY <1>1, MarcarPendienteCampos DEF EntidadOK, HistorialOK, DecisionesOK, FinalizadaOK
<1> QED BY <1>2, <1>3

\* A transition of the table keeps everything but the product of a FINALIZED entity,
\* which marcarFinalizada supplies.
LEMMA TransicionarOK ==
  ASSUME NEW s, EntidadOK(s), NEW a \in Estados, NEW u \in Usuarios, NEW m \in Motivos,
         PuedeTransicionar(s, a),
         a \in {"APPROVED", "REJECTED", "FINALIZED"} => u \in Supervisores
  PROVE  LET t == Transicionar(s, a, u, m)
         IN /\ t \in Entidades /\ HistorialOK(t) /\ DecisionesOK(t)
            /\ t.estado = a /\ t.numeroProducto = s.numeroProducto
<1> DEFINE c == CambioEstado(s.estado, a, u)
           t == Transicionar(s, a, u, m)
<1>1. s \in Entidades /\ HistorialOK(s) /\ DecisionesOK(s)
  BY DEF EntidadOK
<1>2. t \in Entidades
      /\ t.estado = a /\ t.historico = Append(s.historico, c)
      /\ t.numeroProducto = s.numeroProducto
  BY <1>1, TransicionarCampos
<1>3. PasoLegal(c)
  BY DEF PasoLegal, PuedeTransicionar, CambioEstado
<1>4. EsDecision(c) => u \in Supervisores
  BY DEF EsDecision, PasoDelCore, PuedeTransicionar, CanTransitionTo, Allowed, CambioEstado
<1> HIDE DEF t
<1>5. HistorialOK(t) /\ DecisionesOK(t)
  BY <1>1, <1>2, <1>3, <1>4, HistorialCrece
<1> QED BY <1>2, <1>5 DEF t

\* The outcomes of finalizar.
LEMMA MarcarFinalizadaOK ==
  ASSUME NEW s, EntidadOK(s), s.estado = "APPROVED", NEW u \in Supervisores,
         NEW n \in Nat \ {SinProducto}
  PROVE  LET t == MarcarFinalizada(s, n, u) IN EntidadOK(t) /\ t.numeroProducto = n
<1> DEFINE c == CambioEstado(s.estado, "FINALIZED", u)
           t == MarcarFinalizada(s, n, u)
<1>1. s \in Entidades /\ HistorialOK(s) /\ DecisionesOK(s)
      /\ u \in Usuarios /\ "FINALIZED" \in Estados
  BY DEF EntidadOK, Supervisores, Estados
<1>2. /\ t \in Entidades /\ t.estado = "FINALIZED" /\ t.historico = Append(s.historico, c)
      /\ t.numeroProducto = n /\ ~t.pendiente
  BY <1>1, MarcarFinalizadaCampos
<1>3. PasoLegal(c)
  BY DEF PasoLegal, CanTransitionTo, Allowed, CambioEstado
<1> HIDE DEF t
<1>4. HistorialOK(t) /\ DecisionesOK(t)
  BY <1>1, <1>2, <1>3, HistorialCrece
<1>5. EntidadOK(t)
  BY <1>2, <1>4 DEF EntidadOK, FinalizadaOK
<1> QED BY <1>2, <1>5 DEF t

LEMMA RegresarOK ==
  ASSUME NEW s, EntidadOK(s), PuedeRegresarARevision(s), NEW u \in Supervisores
  PROVE  LET t == RegresarARevisionPorRechazoCore(s, u)
         IN EntidadOK(t) /\ t.numeroProducto = s.numeroProducto
<1> DEFINE c == CambioEstado(s.estado, "IN_REVIEW", u)
           t == RegresarARevisionPorRechazoCore(s, u)
<1>1. s \in Entidades /\ HistorialOK(s) /\ DecisionesOK(s)
      /\ u \in Usuarios /\ "IN_REVIEW" \in Estados
  BY DEF EntidadOK, Supervisores, Estados
<1>2. /\ t \in Entidades /\ t.estado = "IN_REVIEW" /\ t.historico = Append(s.historico, c)
      /\ t.numeroProducto = s.numeroProducto
  BY <1>1, RegresarCampos
<1>3. PasoLegal(c)
  BY DEF PasoLegal, PasoDelCore, PuedeRegresarARevision, CambioEstado
<1> HIDE DEF t
<1>4. HistorialOK(t) /\ DecisionesOK(t)
  BY <1>1, <1>2, <1>3, HistorialCrece
<1> QED BY <1>2, <1>4 DEF EntidadOK, FinalizadaOK, t

-----------------------------------------------------------------------------
(* The steps of the service.                                               *)

\* Every use case ends its step by handing a sound entity to guardar.
LEMMA EnviarOK ==
  ASSUME IInv, NEW r \in Peticiones, NEW id \in Ids, NEW s,
         EntidadOK(s), ProductoOK(id, s),
         EnviarAGuardar(r, id, s), UNCHANGED <<docs, llamadas>>
  PROVE  IInv'
<1> DEFINE p == [pc |-> "guardar", id |-> id, sol |-> s]
<1>1. /\ TypeOK
      /\ peticion' = [peticion EXCEPT ![r] = p]
      /\ p \in PorGuardar
  BY DEF IInv, EnviarAGuardar, PorGuardar, EntidadOK
<1>2. TypeOK'
  <2>1. peticion' \in [Peticiones -> {Libre} \cup EnCore \cup PorGuardar]
    <3> HIDE DEF p
    <3> QED BY <1>1 DEF TypeOK
  <2> QED BY <1>1, <2>1 DEF TypeOK
<1>3. ASSUME NEW q \in Peticiones PROVE PeticionOK(peticion[q])'
  <2>1. CASE q = r
    <3>1. peticion'[q] = p
      BY <1>1, <2>1 DEF TypeOK
    <3>2. p.pc = "guardar" /\ p.id = id /\ p.sol = s
      OBVIOUS
    <3>3. ProductoOK(id, s)'
      BY DEF ProductoOK, Abierta
    <3> QED BY <3>1, <3>2, <3>3 DEF PeticionOK, ProductoOK
  <2>2. CASE q # r
    <3>1. peticion'[q] = peticion[q]
      BY <1>1, <2>2 DEF TypeOK
    <3> QED BY <3>1 DEF IInv, PeticionOK, ProductoOK, Abierta, LlamadaOK
  <2> QED BY <2>1, <2>2
<1>4. \A d \in DOMAIN docs' : EntidadOK(docs'[d]) /\ ProductoOK(d, docs[d])'
  BY DEF IInv, ProductoOK, Abierta
<1> QED BY <1>2, <1>3, <1>4 DEF IInv

\* A request in the middle of its work holds a sound entity.
LEMMA EnVueloOK ==
  ASSUME IInv, NEW r \in Peticiones, peticion[r] # Libre
  PROVE  /\ peticion[r].id \in Ids
         /\ EntidadOK(peticion[r].sol)
         /\ ProductoOK(peticion[r].id, peticion[r].sol)
         /\ peticion[r].pc = "core" => LlamadaOK(peticion[r])
         /\ peticion[r].pc \in {"core", "guardar"}
<1>1. peticion[r] \in EnCore \cup PorGuardar
  BY DEF IInv, TypeOK
<1> QED BY <1>1 DEF EnCore, PorGuardar, IInv, PeticionOK

\* The guard of the three decisions lets only supervisors and administrators in.
LEMMA AutorizadoOK ==
  ASSUME NEW u \in Usuarios, NEW op \in {"aprobar", "rechazar", "finalizar"}, Autorizado(u, op)
  PROVE  u \in Supervisores
BY DEF Autorizado, RolesRequeridos, Supervisores

LEMMA CrearPaso ==
  ASSUME IInv, NEW r \in Peticiones, NEW u \in Usuarios, NEW clave \in Claves,
         NEW datos \in Datos, NEW id \in Ids, Crear(r, u, clave, datos, id)
  PROVE  IInv'
<1>1. ProductoOK(id, CrearSolicitud(clave, datos, u))
  BY DEF ProductoOK, CrearSolicitud
<1> QED BY <1>1, CrearOK, EnviarOK DEF Crear

LEMMA ActualizarPaso ==
  ASSUME IInv, NEW r \in Peticiones, NEW u \in Usuarios, NEW id \in Ids,
         NEW datos \in Datos \cup {SinDatos}, NEW enviar \in BOOLEAN,
         Actualizar(r, u, id, datos, enviar)
  PROVE  IInv'
<1> DEFINE s == docs[id]
           c == IF datos = SinDatos THEN s ELSE ActualizarDatos(s, datos)
           t == IF enviar THEN Transicionar(c, "IN_REVIEW", u, SinMotivo) ELSE c
<1>1. id \in DOMAIN docs /\ EntidadOK(s) /\ ProductoOK(id, s)
  BY DEF Actualizar, Atiende, IInv
<1>2. EntidadOK(c) /\ c.numeroProducto = s.numeroProducto
  <2>1. CASE datos = SinDatos
    BY <1>1, <2>1
  <2>2. CASE datos # SinDatos
    <3>1. datos \in Datos /\ PuedeActualizarDatos(s)
      BY <2>2 DEF Actualizar
    <3> QED BY <1>1, <2>2, <3>1, SinTransicionOK
  <2> QED BY <2>1, <2>2
<1>3. EntidadOK(t) /\ t.numeroProducto = s.numeroProducto
  <2>1. CASE ~enviar
    BY <1>2, <2>1
  <2>2. CASE enviar
    <3>1. PuedeTransicionar(c, "IN_REVIEW")
      BY <2>2 DEF Actualizar
    <3>2. "IN_REVIEW" \in Estados /\ SinMotivo \in Motivos
      BY DEF Estados, Motivos
    <3> HIDE DEF c
    <3>3. LET f == Transicionar(c, "IN_REVIEW", u, SinMotivo)
          IN /\ f \in Entidades /\ HistorialOK(f) /\ DecisionesOK(f)
             /\ f.estado = "IN_REVIEW" /\ f.numeroProducto = c.numeroProducto
      BY <1>2, <3>1, <3>2, TransicionarOK
    <3> QED BY <1>2, <2>2, <3>3 DEF EntidadOK, FinalizadaOK
  <2> QED BY <2>1, <2>2
<1>4. ProductoOK(id, t)
  BY <1>1, <1>3 DEF ProductoOK
<1>5. EnviarAGuardar(r, id, t) /\ UNCHANGED <<docs, llamadas>>
  BY DEF Actualizar
<1> HIDE DEF t
<1> QED BY <1>3, <1>4, <1>5, EnviarOK

LEMMA TransicionarPaso ==
  ASSUME IInv, NEW r \in Peticiones, NEW u \in Usuarios, NEW id \in Ids,
         NEW op, NEW a \in {"APPROVED", "REJECTED", "ABANDONED"}, NEW m \in Motivos,
         a \in {"APPROVED", "REJECTED"} => op \in {"aprobar", "rechazar"},
         TransicionarUseCase(r, u, op, id, a, m)
  PROVE  IInv'
<1> DEFINE s == docs[id]
           t == Transicionar(s, a, u, m)
<1>1. EntidadOK(s) /\ ProductoOK(id, s) /\ PuedeTransicionar(s, a) /\ a \in Estados
  BY DEF TransicionarUseCase, Atiende, IInv, Estados
<1>2. a \in {"APPROVED", "REJECTED", "FINALIZED"} => u \in Supervisores
  BY AutorizadoOK DEF TransicionarUseCase, Atiende
<1>3. /\ t \in Entidades /\ HistorialOK(t) /\ DecisionesOK(t)
      /\ t.estado = a /\ t.numeroProducto = s.numeroProducto
  BY <1>1, <1>2, TransicionarOK
<1>4. EnviarAGuardar(r, id, t) /\ UNCHANGED <<docs, llamadas>>
  BY DEF TransicionarUseCase
<1> HIDE DEF t
<1>5. EntidadOK(t) /\ ProductoOK(id, t)
  BY <1>1, <1>3 DEF EntidadOK, FinalizadaOK, ProductoOK
<1> QED BY <1>4, <1>5, EnviarOK

LEMMA FinalizarSinCorePaso ==
  ASSUME IInv, NEW r \in Peticiones, NEW u \in Usuarios, NEW id \in Ids,
         FinalizarSinCore(r, u, id)
  PROVE  IInv'
<1> DEFINE t == MarcarPendienteEnvioCore(docs[id])
<1>1. EntidadOK(docs[id]) /\ ProductoOK(id, docs[id]) /\ docs[id].estado = "APPROVED"
  BY DEF FinalizarSinCore, FinalizarAtiende, Atiende, IInv
<1>2. EntidadOK(t) /\ t.numeroProducto = docs[id].numeroProducto
  BY <1>1, SinTransicionOK
<1>3. EnviarAGuardar(r, id, t) /\ UNCHANGED <<docs, llamadas>>
  BY DEF FinalizarSinCore
<1> HIDE DEF t
<1> QED BY <1>1, <1>2, <1>3, EnviarOK DEF ProductoOK

\* The calls of before are as they were when finalizar sends one more.
LEMMA FinalizarLlamaPaso ==
  ASSUME IInv, NEW r \in Peticiones, NEW u \in Usuarios, NEW id \in Ids,
         FinalizarLlama(r, u, id)
  PROVE  IInv'
<1> DEFINE c == [sol |-> id, respuesta |-> "enviada"]
           n == Len(llamadas) + 1
           p == [pc |-> "core", id |-> id, sol |-> docs[id], actor |-> u, llamada |-> n]
<1>1. /\ TypeOK
      /\ EntidadOK(docs[id]) /\ ProductoOK(id, docs[id]) /\ docs[id].estado = "APPROVED"
      /\ peticion' = [peticion EXCEPT ![r] = p]
      /\ llamadas' = Append(llamadas, c)
      /\ docs' = docs
  BY DEF FinalizarLlama, FinalizarAtiende, Atiende, IInv
<1>2. u \in Supervisores
  BY AutorizadoOK DEF FinalizarLlama, FinalizarAtiende, Atiende
<1>3. c \in Llamadas /\ llamadas \in Seq(Llamadas) /\ n \in Nat
  BY <1>1 DEF Llamadas, TypeOK
<1>4. /\ llamadas' \in Seq(Llamadas)
      /\ n \in DOMAIN llamadas' /\ llamadas'[n] = c
      /\ \A k \in DOMAIN llamadas : k \in DOMAIN llamadas' /\ llamadas'[k] = llamadas[k]
  <2> HIDE DEF c
  <2> QED BY <1>1, <1>3
<1>5. p \in EnCore
  BY <1>1, <1>3 DEF EnCore, EntidadOK
<1>6. TypeOK'
  <2>1. peticion' \in [Peticiones -> {Libre} \cup EnCore \cup PorGuardar]
    <3> HIDE DEF p
    <3> QED BY <1>1, <1>5 DEF TypeOK
  <2> QED BY <1>1, <1>4, <2>1 DEF TypeOK
<1>7. ProductoOK(id, docs[id])'
  BY <1>1, <1>4 DEF ProductoOK, Abierta
<1>8. ASSUME NEW q \in Peticiones PROVE PeticionOK(peticion[q])'
  <2>1. CASE q = r
    <3>1. peticion'[q] = p
      BY <1>1, <2>1 DEF TypeOK
    <3>2. /\ peticion'[q].pc = "core" /\ peticion'[q].id = id /\ peticion'[q].sol = docs[id]
          /\ peticion'[q].actor = u /\ peticion'[q].llamada = n
      BY <3>1
    <3>3. LlamadaOK(peticion[q])'
      BY <1>1, <1>2, <1>4, <3>2 DEF LlamadaOK
    <3>4. ProductoOK(peticion[q].id, peticion[q].sol)'
      BY <1>1, <1>7, <3>2 DEF ProductoOK, Abierta
    <3> QED BY <1>1, <3>2, <3>3, <3>4 DEF PeticionOK
  <2>2. CASE q # r
    <3>1. peticion'[q] = peticion[q]
      BY <1>1, <2>2 DEF TypeOK
    <3>2. PeticionOK(peticion[q])
      BY DEF IInv
    <3> QED BY <1>4, <3>1, <3>2 DEF PeticionOK, ProductoOK, Abierta, LlamadaOK
  <2> QED BY <2>1, <2>2
<1>9. \A d \in DOMAIN docs' : EntidadOK(docs'[d]) /\ ProductoOK(d, docs[d])'
  BY <1>1, <1>4 DEF IInv, ProductoOK, Abierta
<1> QED BY <1>6, <1>8, <1>9 DEF IInv

\* The Core answers a call once, so an opened product stays open.
LEMMA CoreDecidePaso ==
  ASSUME IInv, NEW k \in DOMAIN llamadas, NEW x \in RespuestasCore, CoreDecide(k, x)
  PROVE  IInv'
<1>1. /\ TypeOK /\ llamadas[k].respuesta = "enviada"
      /\ llamadas' = [llamadas EXCEPT ![k].respuesta = x]
      /\ docs' = docs /\ peticion' = peticion
  BY DEF CoreDecide, IInv
<1>2. llamadas \in Seq(Llamadas)
  BY <1>1 DEF TypeOK
<1>3. /\ llamadas' \in Seq(Llamadas) /\ DOMAIN llamadas' = DOMAIN llamadas
      /\ \A j \in DOMAIN llamadas : /\ llamadas'[j].sol = llamadas[j].sol
                                    /\ j # k => llamadas'[j] = llamadas[j]
  <2>1. llamadas[k] \in Llamadas /\ x \in RespuestasCore
    BY <1>2
  <2> DEFINE c == [llamadas[k] EXCEPT !.respuesta = x]
  <2>2. c \in Llamadas /\ c.sol = llamadas[k].sol
    BY <2>1 DEF Llamadas
  <2>3. llamadas' = [llamadas EXCEPT ![k] = c]
    BY <1>1
  <2> HIDE DEF c
  <2> QED BY <1>2, <2>2, <2>3
<1>4. TypeOK'
  BY <1>1, <1>3 DEF TypeOK
<1>5. \A d, n : Abierta(d, n) => Abierta(d, n)'
  BY <1>1, <1>3 DEF Abierta
<1>6. \A q \in Peticiones : PeticionOK(peticion[q])'
  BY <1>1, <1>3, <1>5 DEF IInv, PeticionOK, ProductoOK, LlamadaOK
<1>7. \A d \in DOMAIN docs' : EntidadOK(docs'[d]) /\ ProductoOK(d, docs[d])'
  BY <1>1, <1>5 DEF IInv, ProductoOK
<1> QED BY <1>4, <1>6, <1>7 DEF IInv

\* The three outcomes of the call.
LEMMA CoreOkPaso ==
  ASSUME IInv, NEW r \in Peticiones, CoreOk(r)
  PROVE  IInv'
<1> DEFINE p == peticion[r]
           t == MarcarFinalizada(p.sol, p.llamada, p.actor)
<1>1. peticion[r] # Libre /\ p.pc = "core" /\ RespuestaDe(r) = "abierta"
  BY DEF CoreOk, Espera, Libre
<1>2. p.id \in Ids /\ EntidadOK(p.sol) /\ LlamadaOK(p)
  BY <1>1, EnVueloOK
<1>3. /\ llamadas \in Seq(Llamadas)
      /\ p.llamada \in Nat \ {SinProducto}
      /\ llamadas[p.llamada] = [sol |-> p.id, respuesta |-> "abierta"]
  <2>1. llamadas \in Seq(Llamadas)
    BY DEF IInv, TypeOK
  <2>2. p.llamada \in 1 .. Len(llamadas)
    BY <1>2, <2>1 DEF LlamadaOK
  <2>3. llamadas[p.llamada] \in Llamadas
    BY <2>1, <2>2
  <2>4. llamadas[p.llamada].sol = p.id /\ llamadas[p.llamada].respuesta = "abierta"
    BY <1>1, <1>2 DEF LlamadaOK, RespuestaDe
  <2> QED BY <2>1, <2>2, <2>3, <2>4 DEF Llamadas, SinProducto
<1>4. EntidadOK(t) /\ t.numeroProducto = p.llamada
  BY <1>2, <1>3, MarcarFinalizadaOK DEF LlamadaOK
<1>5. ProductoOK(p.id, t)
  BY <1>2, <1>3, <1>4 DEF ProductoOK, Abierta, LlamadaOK
<1>6. EnviarAGuardar(r, p.id, t) /\ UNCHANGED <<docs, llamadas>>
  BY DEF CoreOk
<1> HIDE DEF t, p
<1> QED BY <1>2, <1>4, <1>5, <1>6, EnviarOK

LEMMA CoreNegocioPaso ==
  ASSUME IInv, NEW r \in Peticiones, CoreNegocio(r)
  PROVE  IInv'
<1> DEFINE p == peticion[r]
           t == RegresarARevisionPorRechazoCore(p.sol, p.actor)
<1>1. peticion[r] # Libre /\ p.pc = "core" /\ PuedeRegresarARevision(p.sol)
  BY DEF CoreNegocio, Espera, Libre
<1>2. p.id \in Ids /\ EntidadOK(p.sol) /\ ProductoOK(p.id, p.sol) /\ p.actor \in Supervisores
  BY <1>1, EnVueloOK DEF LlamadaOK
<1>3. EntidadOK(t) /\ t.numeroProducto = p.sol.numeroProducto
  BY <1>1, <1>2, RegresarOK
<1>4. EnviarAGuardar(r, p.id, t) /\ UNCHANGED <<docs, llamadas>>
  BY DEF CoreNegocio
<1> HIDE DEF t, p
<1> QED BY <1>2, <1>3, <1>4, EnviarOK DEF ProductoOK

LEMMA CoreFallaPaso ==
  ASSUME IInv, NEW r \in Peticiones, CoreFalla(r)
  PROVE  IInv'
<1> DEFINE p == peticion[r]
           t == MarcarPendienteEnvioCore(p.sol)
<1>1. peticion[r] # Libre /\ p.pc = "core"
  BY DEF CoreFalla, Espera, Libre
<1>2. p.id \in Ids /\ EntidadOK(p.sol) /\ ProductoOK(p.id, p.sol) /\ p.sol.estado = "APPROVED"
  BY <1>1, EnVueloOK DEF LlamadaOK
<1>3. EntidadOK(t) /\ t.numeroProducto = p.sol.numeroProducto
  BY <1>2, SinTransicionOK
<1>4. EnviarAGuardar(r, p.id, t) /\ UNCHANGED <<docs, llamadas>>
  BY DEF CoreFalla
<1> HIDE DEF t, p
<1> QED BY <1>2, <1>3, <1>4, EnviarOK DEF ProductoOK

\* What MongoDB stores: a sound entity, or its merge with the sound document it replaces.
LEMMA FusionOK ==
  ASSUME NEW id, NEW d, EntidadOK(d), ProductoOK(id, d),
         NEW s, EntidadOK(s), ProductoOK(id, s)
  PROVE  EntidadOK(Fusion(d, s)) /\ ProductoOK(id, Fusion(d, s))
<1> DEFINE n == IF s.numeroProducto = SinProducto THEN d.numeroProducto ELSE s.numeroProducto
           m == IF s.motivoRechazo = SinMotivo THEN d.motivoRechazo ELSE s.motivoRechazo
           t == [s EXCEPT !.numeroProducto = n, !.motivoRechazo = m]
<1>1. Fusion(d, s) = t
  BY DEF Fusion
<1>2. n \in Nat /\ m \in Motivos
  BY DEF EntidadOK, Entidades
<1>3. /\ s.numeroProducto # SinProducto => n = s.numeroProducto
      /\ n \in {s.numeroProducto, d.numeroProducto}
  OBVIOUS
<1> HIDE DEF n, m
<1>4. /\ t \in Entidades /\ t.estado = s.estado /\ t.historico = s.historico
      /\ t.pendiente = s.pendiente /\ t.numeroProducto = n
  BY <1>2 DEF EntidadOK, Entidades
<1> HIDE DEF t
<1>5. EntidadOK(t)
  BY <1>3, <1>4 DEF EntidadOK, HistorialOK, DecisionesOK, FinalizadaOK
<1>6. ProductoOK(id, t)
  BY <1>3, <1>4 DEF ProductoOK
<1> QED BY <1>1, <1>5, <1>6

LEMMA GuardarPaso ==
  ASSUME IInv, NEW r \in Peticiones, Guardar(r)
  PROVE  IInv'
<1> DEFINE id == peticion[r].id
           s == peticion[r].sol
           f == IF id \in DOMAIN docs THEN Fusion(docs[id], s) ELSE s
<1>1. /\ TypeOK /\ peticion[r] # Libre
      /\ peticion' = [peticion EXCEPT ![r] = Libre]
      /\ llamadas' = llamadas
  BY DEF Guardar, IInv, Libre
<1>2. id \in Ids /\ EntidadOK(s) /\ ProductoOK(id, s)
  BY <1>1, EnVueloOK
<1>3. EntidadOK(f) /\ ProductoOK(id, f)
  <2>1. CASE id \in DOMAIN docs
    <3>1. EntidadOK(docs[id]) /\ ProductoOK(id, docs[id])
      BY <2>1 DEF IInv
    <3> QED BY <1>2, <2>1, <3>1, FusionOK
  <2>2. CASE id \notin DOMAIN docs
    BY <1>2, <2>2
  <2> QED BY <2>1, <2>2
<1>4. docs' = [d \in DOMAIN docs \cup {id} |-> IF d # id THEN docs[d] ELSE f]
  BY DEF Guardar, GuardarDocumento
<1> HIDE DEF f, id, s
<1>5. /\ DOMAIN docs' = DOMAIN docs \cup {id}
      /\ docs'[id] = f
      /\ \A d \in DOMAIN docs : d # id => docs'[d] = docs[d]
  BY <1>4
<1>6. ASSUME NEW d \in DOMAIN docs'
      PROVE  EntidadOK(docs'[d]) /\ ProductoOK(d, docs[d])'
  <2>1. CASE d = id
    BY <1>1, <1>3, <1>5, <2>1 DEF ProductoOK, Abierta
  <2>2. CASE d # id
    <3>1. d \in DOMAIN docs /\ docs'[d] = docs[d]
      BY <1>5, <2>2
    <3> QED BY <1>1, <3>1 DEF IInv, ProductoOK, Abierta
  <2> QED BY <2>1, <2>2
<1>7. TypeOK'
  <2>1. DOMAIN docs' \subseteq Ids
    BY <1>1, <1>2, <1>5 DEF TypeOK
  <2>2. docs' \in [DOMAIN docs' -> Entidades]
    BY <1>4, <1>5, <1>6 DEF EntidadOK
  <2>3. peticion' \in [Peticiones -> {Libre} \cup EnCore \cup PorGuardar]
    BY <1>1 DEF TypeOK
  <2> QED BY <1>1, <2>1, <2>2, <2>3 DEF TypeOK
<1>8. ASSUME NEW q \in Peticiones PROVE PeticionOK(peticion[q])'
  <2>1. CASE q = r
    BY <1>1, <2>1 DEF TypeOK, PeticionOK, Libre
  <2>2. CASE q # r
    <3>1. peticion'[q] = peticion[q]
      BY <1>1, <2>2 DEF TypeOK
    <3> QED BY <1>1, <3>1 DEF IInv, PeticionOK, ProductoOK, Abierta, LlamadaOK
  <2> QED BY <2>1, <2>2
<1> QED BY <1>6, <1>7, <1>8 DEF IInv

LEMMA InterrumpirPaso ==
  ASSUME IInv, NEW r \in Peticiones, Interrumpir(r)
  PROVE  IInv'
<1>1. /\ TypeOK /\ peticion' = [peticion EXCEPT ![r] = Libre]
      /\ docs' = docs /\ llamadas' = llamadas
  BY DEF Interrumpir, IInv
<1>2. TypeOK'
  BY <1>1 DEF TypeOK
<1>3. ASSUME NEW q \in Peticiones PROVE PeticionOK(peticion[q])'
  <2>1. CASE q = r
    BY <1>1, <2>1 DEF TypeOK, PeticionOK, Libre
  <2>2. CASE q # r
    <3>1. peticion'[q] = peticion[q]
      BY <1>1, <2>2 DEF TypeOK
    <3> QED BY <1>1, <3>1 DEF IInv, PeticionOK, ProductoOK, Abierta, LlamadaOK
  <2> QED BY <2>1, <2>2
<1> QED BY <1>1, <1>2, <1>3 DEF IInv, ProductoOK, Abierta

-----------------------------------------------------------------------------
(* The theorems.                                                           *)

\* No step breaks the invariant: one case per action of Next.
LEMMA NextOK == IInv /\ [Next]_vars => IInv'
<1> SUFFICES ASSUME IInv, [Next]_vars PROVE IInv'
  OBVIOUS
<1>1. ASSUME NEW r \in Peticiones, Solicita(r) PROVE IInv'
  <2> PICK u \in Usuarios, id \in Ids :
        \/ \E clave \in Claves, datos \in Datos : Crear(r, u, clave, datos, id)
        \/ \E datos \in Datos \cup {SinDatos}, enviar \in BOOLEAN :
              Actualizar(r, u, id, datos, enviar)
        \/ Aprobar(r, u, id)
        \/ \E motivo \in {SinMotivo, "usuario"} : Rechazar(r, u, id, motivo)
        \/ Abandonar(r, u, id)
        \/ FinalizarLlama(r, u, id)
        \/ FinalizarSinCore(r, u, id)
    BY <1>1 DEF Solicita
  <2>1. ASSUME NEW clave \in Claves, NEW datos \in Datos, Crear(r, u, clave, datos, id)
        PROVE  IInv'
    BY <2>1, CrearPaso
  <2>2. ASSUME NEW datos \in Datos \cup {SinDatos}, NEW enviar \in BOOLEAN,
               Actualizar(r, u, id, datos, enviar)
        PROVE  IInv'
    BY <2>2, ActualizarPaso
  <2>3. CASE Aprobar(r, u, id)
    BY <2>3, TransicionarPaso DEF Aprobar, Motivos
  <2>4. ASSUME NEW m \in {SinMotivo, "usuario"}, Rechazar(r, u, id, m) PROVE IInv'
    BY <2>4, TransicionarPaso DEF Rechazar, Motivos
  <2>5. CASE Abandonar(r, u, id)
    BY <2>5, TransicionarPaso DEF Abandonar, Motivos
  <2>6. CASE FinalizarLlama(r, u, id)
    BY <2>6, FinalizarLlamaPaso
  <2>7. CASE FinalizarSinCore(r, u, id)
    BY <2>7, FinalizarSinCorePaso
  <2> QED BY <2>1, <2>2, <2>3, <2>4, <2>5, <2>6, <2>7
<1>2. ASSUME NEW r \in Peticiones, Continua(r) PROVE IInv'
  BY <1>2, CoreOkPaso, CoreNegocioPaso, CoreFallaPaso, GuardarPaso DEF Continua
<1>3. ASSUME NEW r \in Peticiones, Interrumpir(r) PROVE IInv'
  BY <1>3, InterrumpirPaso
<1>4. ASSUME NEW k \in DOMAIN llamadas, NEW x \in RespuestasCore, CoreDecide(k, x) PROVE IInv'
  BY <1>4, CoreDecidePaso
<1>5. CASE UNCHANGED vars
  BY <1>5 DEF vars, IInv, TypeOK, PeticionOK, ProductoOK, Abierta, LlamadaOK
<1> QED BY <1>1, <1>2, <1>3, <1>4, <1>5 DEF Next

LEMMA InitOK == Init => IInv
<1> SUFFICES ASSUME Init PROVE IInv
  OBVIOUS
<1>1. DOMAIN docs = {} /\ docs \in [{} -> Entidades] /\ llamadas \in Seq(Llamadas)
  BY DEF Init
<1>2. \A r \in Peticiones : peticion[r] = Libre
  BY DEF Init
<1> QED BY <1>1, <1>2 DEF Init, IInv, TypeOK, PeticionOK, Libre

\* The inductive invariant holds of every reachable state.
THEOREM Invariante == Spec => []IInv
BY InitOK, NextOK, PTL DEF Spec

\* Every variable keeps its type, for any number of requests, users, ids and calls.
THEOREM TiposCorrectos == Spec => []TypeOK
<1>1. IInv => TypeOK
  BY DEF IInv
<1> QED BY <1>1, Invariante, PTL

\* However the requests interleave, the stored history is a walk of the state machine
\* that ends in the stored state.
THEOREM HistorialCorrecto == Spec => []HistorialEsCamino
<1>1. IInv => HistorialEsCamino
  BY DEF IInv, HistorialEsCamino, EntidadOK
<1> QED BY <1>1, Invariante, PTL

\* A stored product number is that of a product the Core opened for that solicitud.
THEOREM ProductoCorrecto == Spec => []ProductoEsDeLaSolicitud
<1>1. IInv => ProductoEsDeLaSolicitud
  BY DEF IInv, ProductoEsDeLaSolicitud, ProductoOK
<1> QED BY <1>1, Invariante, PTL

\* A FINALIZED solicitud has its product and is not marked for the deferred retry.
THEOREM FinalizadaCorrecta == Spec => []FinalizadaTieneProducto
<1>1. IInv => FinalizadaTieneProducto
  BY DEF IInv, FinalizadaTieneProducto, EntidadOK
<1> QED BY <1>1, Invariante, PTL

\* Every decision in a stored history is a supervisor's or an administrator's.
THEOREM DecisionesCorrectas == Spec => []DecideUnSupervisor
<1>1. IInv => DecideUnSupervisor
  BY DEF IInv, DecideUnSupervisor, EntidadOK
<1> QED BY <1>1, Invariante, PTL

\* No write erases a stored product number.
THEOREM ProductoPerdura == Spec => ProductoNoSeBorra
<1> DEFINE Conserva ==
      \A id \in DOMAIN docs :
        docs[id].numeroProducto # SinProducto => docs'[id].numeroProducto # SinProducto
<1>1. IInv /\ [Next]_vars => [Conserva]_vars
  <2> SUFFICES ASSUME IInv, Next PROVE Conserva
    OBVIOUS
  <2>1. CASE \E r \in Peticiones : Guardar(r)
    <3> PICK r \in Peticiones : Guardar(r)
      BY <2>1
    <3> DEFINE i == peticion[r].id
               s == peticion[r].sol
    <3>1. s \in Entidades
      <4>1. peticion[r] # Libre
        BY DEF Guardar, Libre
      <4> QED BY <4>1, EnVueloOK DEF EntidadOK
    <3>2. ASSUME NEW d \in DOMAIN docs, docs[d].numeroProducto # SinProducto
          PROVE  docs'[d].numeroProducto # SinProducto
      <4>1. CASE d = i
        <5>1. docs'[d] = Fusion(docs[d], s)
          BY <4>1 DEF Guardar, GuardarDocumento
        <5> HIDE DEF s
        <5>2. docs'[d].numeroProducto \in {docs[d].numeroProducto, s.numeroProducto} \ {SinProducto}
          BY <3>1, <3>2, <5>1 DEF Fusion, Entidades
        <5> QED BY <5>2
      <4>2. CASE d # i
        <5>1. docs'[d] = docs[d]
          BY <4>2 DEF Guardar, GuardarDocumento
        <5> QED BY <3>2, <5>1
      <4> QED BY <4>1, <4>2
    <3> QED BY <3>2
  <2>2. CASE ~\E r \in Peticiones : Guardar(r)
    <3>1. ASSUME NEW r \in Peticiones, Solicita(r) PROVE docs' = docs
      BY <3>1 DEF Solicita, Crear, Actualizar, Aprobar, Rechazar, Abandonar,
                  TransicionarUseCase, FinalizarLlama, FinalizarSinCore
    <3>2. ASSUME NEW r \in Peticiones, Continua(r) PROVE docs' = docs
      BY <2>2, <3>2 DEF Continua, CoreOk, CoreNegocio, CoreFalla
    <3>3. ASSUME NEW r \in Peticiones, Interrumpir(r) PROVE docs' = docs
      BY <3>3 DEF Interrumpir
    <3>4. docs' = docs
      BY <3>1, <3>2, <3>3 DEF Next, CoreDecide
    <3> QED BY <3>4
  <2> QED BY <2>1, <2>2
<1>2. Spec => [][Conserva]_vars
  BY <1>1, Invariante, PTL DEF Spec
<1> QED BY <1>2 DEF ProductoNoSeBorra
=============================================================================
