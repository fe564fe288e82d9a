---------------------------- MODULE RechazoProofs -----------------------------
(***************************************************************************)
(* The refusals of the Core and the traces they leave, however the         *)
(* requests interleave and for any number of them.                         *)
(*                                                                         *)
(* An answer 422 may arrive while the request that waits for it still      *)
(* holds the entity it read, so between the decision of the Core and the   *)
(* step back there is one refusal more than returns.  RInv counts the      *)
(* refusals of a solicitud without the call an entity in flight is         *)
(* waiting for: that one is what pays for the return it may bring.         *)
(***************************************************************************)
EXTENDS SolicitudesProofs, FiniteSetTheorems

Rechazos(L, id) == {k \in DOMAIN L : L[k] = [sol |-> id, respuesta |-> "rechazada"]}

Retornos(h) == Pasos(h, "APPROVED", "IN_REVIEW")

\* What backs the returns and the motive of an entity, the call x left out.
RespaldoOK(L, id, x, s) ==
  /\ s.motivoRechazo = "core" => Rechazos(L, id) # {}
  /\ Retornos(s.historico) # {} => s.motivoRechazo # SinMotivo
  /\ Cardinality(Retornos(s.historico)) <= Cardinality(Rechazos(L, id) \ {x})

\* No call has the number 0.
Ninguna == 0

EnCurso(p) == IF p.pc = "core" THEN p.llamada ELSE Ninguna

RInv ==
  /\ \A id \in DOMAIN docs : RespaldoOK(llamadas, id, Ninguna, docs[id])
  /\ \A r \in Peticiones : LET p == peticion[r]
       IN p # Libre => RespaldoOK(llamadas, p.id, EnCurso(p), p.sol)

-----------------------------------------------------------------------------
(* Counting.                                                               *)

LEMMA RechazosFinitos ==
  ASSUME NEW L \in Seq(Llamadas), NEW id, NEW x
  PROVE  IsFiniteSet(Rechazos(L, id)) /\ IsFiniteSet(Rechazos(L, id) \ {x})
<1>1. Len(L) \in Nat /\ DOMAIN L = 1 .. Len(L)
  OBVIOUS
<1>2. IsFiniteSet(1 .. Len(L))
  BY <1>1, FS_Interval
<1>3. Rechazos(L, id) \subseteq 1 .. Len(L) /\ Rechazos(L, id) \ {x} \subseteq 1 .. Len(L)
  BY <1>1 DEF Rechazos
<1> QED BY <1>2, <1>3, FS_Subset

LEMMA RetornosFinitos ==
  ASSUME NEW h \in Seq(Cambios)
  PROVE  IsFiniteSet(Retornos(h)) /\ Cardinality(Retornos(h)) \in Nat
<1>1. Len(h) \in Nat /\ DOMAIN h = 1 .. Len(h)
  OBVIOUS
<1>2. IsFiniteSet(1 .. Len(h))
  BY <1>1, FS_Interval
<1>3. Retornos(h) \subseteq 1 .. Len(h)
  BY <1>1 DEF Retornos, Pasos
<1> QED BY <1>2, <1>3, FS_Subset, FS_CardinalityType

\* No refusal is withdrawn when the calls move on.
LEMMA RechazosCrecen ==
  ASSUME NEW L \in Seq(Llamadas), NEW M \in Seq(Llamadas), NEW id, NEW x,
         \A k \in DOMAIN L :
           k \in DOMAIN M /\ (L[k].respuesta = "rechazada" => M[k] = L[k])
  PROVE  /\ Rechazos(L, id) \subseteq Rechazos(M, id)
         /\ Cardinality(Rechazos(L, id) \ {x}) <= Cardinality(Rechazos(M, id) \ {x})
<1>1. Rechazos(L, id) \subseteq Rechazos(M, id)
  BY DEF Rechazos
<1>2. Rechazos(L, id) \ {x} \subseteq Rechazos(M, id) \ {x}
  BY <1>1
<1> QED BY <1>1, <1>2, RechazosFinitos, FS_Subset

LEMMA RespaldoPerdura ==
  ASSUME NEW L \in Seq(Llamadas), NEW M \in Seq(Llamadas), NEW id, NEW x,
         \A k \in DOMAIN L :
           k \in DOMAIN M /\ (L[k].respuesta = "rechazada" => M[k] = L[k]),
         NEW s \in Entidades, RespaldoOK(L, id, x, s)
  PROVE  RespaldoOK(M, id, x, s)
<1>1. /\ Rechazos(L, id) \subseteq Rechazos(M, id)
      /\ Cardinality(Rechazos(L, id) \ {x}) <= Cardinality(Rechazos(M, id) \ {x})
  BY RechazosCrecen
<1>2. /\ Cardinality(Rechazos(L, id) \ {x}) \in Nat
      /\ Cardinality(Rechazos(M, id) \ {x}) \in Nat
      /\ Cardinality(Retornos(s.historico)) \in Nat
  BY RechazosFinitos, RetornosFinitos, FS_CardinalityType DEF Entidades
<1> QED BY <1>1, <1>2 DEF RespaldoOK

\* A call in flight is one refusal at most.
LEMMA RespaldoDeLaLlamada ==
  ASSUME NEW L \in Seq(Llamadas), NEW id, NEW x, NEW s \in Entidades, RespaldoOK(L, id, x, s)
  PROVE  RespaldoOK(L, id, Ninguna, s)
<1>1. Rechazos(L, id) \ {x} \subseteq Rechazos(L, id) \ {Ninguna}
  BY DEF Rechazos, Ninguna
<1>2. Cardinality(Rechazos(L, id) \ {x}) <= Cardinality(Rechazos(L, id) \ {Ninguna})
  BY <1>1, RechazosFinitos, FS_Subset
<1>3. /\ Cardinality(Rechazos(L, id) \ {x}) \in Nat
      /\ Cardinality(Rechazos(L, id) \ {Ninguna}) \in Nat
      /\ Cardinality(Retornos(s.historico)) \in Nat
  BY RechazosFinitos, RetornosFinitos, FS_CardinalityType DEF Entidades
<1> QED BY <1>2, <1>3 DEF RespaldoOK

\* The returns of a history with one change more.
LEMMA RetornosDeAppend ==
  ASSUME NEW h \in Seq(Cambios), NEW c \in Cambios
  PROVE  /\ ~PasoDelCore(c) => Retornos(Append(h, c)) = Retornos(h)
         /\ PasoDelCore(c) => Cardinality(Retornos(Append(h, c))) = Cardinality(Retornos(h)) + 1
<1> DEFINE g == Append(h, c)
           n == Len(h) + 1
<1>1. /\ Len(h) \in Nat /\ n = Len(h) + 1
      /\ DOMAIN h = 1 .. Len(h) /\ DOMAIN g = 1 .. n
      /\ g[n] = c /\ \A i \in 1 .. Len(h) : g[i] = h[i]
  OBVIOUS
<1> HIDE DEF g, n
<1>2. ~PasoDelCore(c) => Retornos(g) = Retornos(h)
  BY <1>1 DEF Retornos, Pasos, PasoDelCore
<1>3. ASSUME PasoDelCore(c)
      PROVE  Cardinality(Retornos(g)) = Cardinality(Retornos(h)) + 1
  <2>1. Retornos(g) = Retornos(h) \cup {n} /\ n \notin Retornos(h)
    BY <1>1, <1>3 DEF Retornos, Pasos, PasoDelCore
  <2> QED BY <2>1, RetornosFinitos, FS_AddElement
<1> QED BY <1>2, <1>3 DEF g

-----------------------------------------------------------------------------
(* What the mutators do to what backs an entity.                           *)

\* A mutator that adds no return and brings no word of the Core keeps it backed.
LEMMA RespaldoSinRetorno ==
  ASSUME NEW L, NEW id, NEW x, NEW d \in Entidades, RespaldoOK(L, id, x, d), NEW s \in Entidades,
         Retornos(s.historico) = Retornos(d.historico),
         s.motivoRechazo = "core" => d.motivoRechazo = "core",
         s.motivoRechazo = SinMotivo => d.motivoRechazo = SinMotivo
  PROVE  RespaldoOK(L, id, x, s)
BY DEF RespaldoOK

LEMMA RespaldoTransicion ==
  ASSUME NEW L, NEW id, NEW x, NEW d \in Entidades, RespaldoOK(L, id, x, d),
         NEW a \in Estados, NEW u \in Usuarios, NEW m \in {SinMotivo, "usuario"},
         PuedeTransicionar(d, a)
  PROVE  LET s == Transicionar(d, a, u, m) IN RespaldoOK(L, id, x, s) /\ s \in Entidades
<1> DEFINE c == CambioEstado(d.estado, a, u)
           s == Transicionar(d, a, u, m)
<1>1. m \in Motivos /\ m # "core" /\ SinMotivo # "core"
  BY DEF Motivos, SinMotivo
<1>2. /\ s \in Entidades /\ s.historico = Append(d.historico, c)
      /\ s.motivoRechazo \in {d.motivoRechazo, m}
      /\ s.motivoRechazo = SinMotivo => d.motivoRechazo = SinMotivo
  BY <1>1, TransicionarCampos
<1>3. c \in Cambios /\ ~PasoDelCore(c) /\ d.historico \in Seq(Cambios)
  BY DEF CambioEstado, Cambios, PasoDelCore, PuedeTransicionar, CanTransitionTo, Allowed, Entidades
<1> HIDE DEF s, c
<1>4. Retornos(s.historico) = Retornos(d.historico)
  BY <1>2, <1>3, RetornosDeAppend
<1> QED BY <1>1, <1>2, <1>4, RespaldoSinRetorno DEF s

LEMMA RespaldoDatos ==
  ASSUME NEW L, NEW id, NEW x, NEW d \in Entidades, RespaldoOK(L, id, x, d), NEW datos \in Datos
  PROVE  LET s == ActualizarDatos(d, datos) IN RespaldoOK(L, id, x, s) /\ s \in Entidades
BY ActualizarDatosCampos, RespaldoSinRetorno

LEMMA RespaldoPendiente ==
  ASSUME NEW L, NEW id, NEW x, NEW d \in Entidades, RespaldoOK(L, id, x, d)
  PROVE  LET s == MarcarPendienteEnvioCore(d) IN RespaldoOK(L, id, x, s) /\ s \in Entidades
BY MarcarPendienteCampos, RespaldoSinRetorno

LEMMA RespaldoFinalizada ==
  ASSUME NEW L, NEW id, NEW x, NEW d \in Entidades, RespaldoOK(L, id, x, d),
         NEW n \in Nat, NEW u \in Usuarios
  PROVE  LET s == MarcarFinalizada(d, n, u) IN RespaldoOK(L, id, x, s) /\ s \in Entidades
<1> DEFINE c == CambioEstado(d.estado, "FINALIZED", u)
           s == MarcarFinalizada(d, n, u)
<1>1. /\ s \in Entidades /\ s.historico = Append(d.historico, c)
      /\ s.motivoRechazo = d.motivoRechazo
  BY MarcarFinalizadaCampos
<1>2. c \in Cambios /\ ~PasoDelCore(c) /\ d.historico \in Seq(Cambios)
  BY DEF CambioEstado, Cambios, PasoDelCore, Entidades, Estados
<1> HIDE DEF s, c
<1>3. Retornos(s.historico) = Retornos(d.historico)
  BY <1>1, <1>2, RetornosDeAppend
<1> QED BY <1>1, <1>3, RespaldoSinRetorno DEF s

\* The step back spends the refusal that brought it.
LEMMA RespaldoDevuelta ==
  ASSUME NEW L \in Seq(Llamadas), NEW id, NEW x \in Rechazos(L, id),
         NEW d \in Entidades, RespaldoOK(L, id, x, d), d.estado = "APPROVED", NEW u \in Usuarios
  PROVE  LET s == RegresarARevisionPorRechazoCore(d, u)
         IN RespaldoOK(L, id, Ninguna, s) /\ s \in Entidades
<1> DEFINE c == CambioEstado(d.estado, "IN_REVIEW", u)
           s == RegresarARevisionPorRechazoCore(d, u)
<1>1. /\ s \in Entidades /\ s.historico = Append(d.historico, c) /\ s.motivoRechazo = "core"
  BY RegresarCampos
<1>2. c \in Cambios /\ PasoDelCore(c) /\ d.historico \in Seq(Cambios)
  BY DEF CambioEstado, Cambios, PasoDelCore, Entidades, Estados
<1> HIDE DEF s, c
<1>3. Cardinality(Retornos(s.historico)) = Cardinality(Retornos(d.historico)) + 1
  BY <1>1, <1>2, RetornosDeAppend
<1>4. Rechazos(L, id) \ {Ninguna} = Rechazos(L, id)
  BY DEF Rechazos, Ninguna
<1>5. Cardinality(Rechazos(L, id) \ {x}) = Cardinality(Rechazos(L, id)) - 1
  BY RechazosFinitos, FS_RemoveElement
<1>6. /\ Cardinality(Rechazos(L, id)) \in Nat
      /\ Cardinality(Retornos(d.historico)) \in Nat
      /\ Cardinality(Retornos(d.historico)) <= Cardinality(Rechazos(L, id) \ {x})
  BY <1>2, RechazosFinitos, RetornosFinitos, FS_CardinalityType DEF RespaldoOK
<1>7. Cardinality(Retornos(s.historico)) <= Cardinality(Rechazos(L, id) \ {Ninguna})
  <2>1. \A a, b, e, f \in Int : a = b + 1 /\ b <= e /\ e = f - 1 => a <= f
    OBVIOUS
  <2>2. Cardinality(Retornos(s.historico)) <= Cardinality(Rechazos(L, id))
    BY <1>3, <1>5, <1>6, <2>1
  <2> QED BY <1>4, <2>2
<1>8. Rechazos(L, id) # {} /\ s.motivoRechazo # SinMotivo
  BY <1>1 DEF SinMotivo
<1>9. RespaldoOK(L, id, Ninguna, s)
  BY <1>7, <1>8 DEF RespaldoOK
<1> QED BY <1>1, <1>9 DEF s

LEMMA RespaldoFusion ==
  ASSUME NEW L, NEW id, NEW d \in Entidades, RespaldoOK(L, id, Ninguna, d),
         NEW s \in Entidades, RespaldoOK(L, id, Ninguna, s)
  PROVE  RespaldoOK(L, id, Ninguna, Fusion(d, s))
<1> DEFINE n == IF s.numeroProducto = SinProducto THEN d.numeroProducto ELSE s.numeroProducto
           m == IF s.motivoRechazo = SinMotivo THEN d.motivoRechazo ELSE s.motivoRechazo
           t == [s EXCEPT !.numeroProducto = n, !.motivoRechazo = m]
<1>1. Fusion(d, s) = t
  BY DEF Fusion
<1>2. n \in Nat /\ m \in Motivos
  BY DEF Entidades
<1>3. /\ m = SinMotivo => s.motivoRechazo = SinMotivo
      /\ m = "core" => s.motivoRechazo = "core" \/ d.motivoRechazo = "core"
  BY DEF SinMotivo
<1> HIDE DEF n, m
<1>4. t.historico = s.historico /\ t.motivoRechazo = m
  BY <1>2 DEF Entidades
<1> HIDE DEF t
<1> QED BY <1>1, <1>3, <1>4 DEF RespaldoOK

-----------------------------------------------------------------------------
(* The steps of the service.                                               *)

LEMMA RespaldoDeDocumento ==
  ASSUME IInv, RInv, NEW id \in DOMAIN docs
  PROVE  docs[id] \in Entidades /\ RespaldoOK(llamadas, id, Ninguna, docs[id])
BY DEF IInv, RInv, EntidadOK

LEMMA EnviarRechazo ==
  ASSUME IInv, RInv, NEW r \in Peticiones, NEW id, NEW s, RespaldoOK(llamadas, id, Ninguna, s),
         EnviarAGuardar(r, id, s), UNCHANGED <<docs, llamadas>>
  PROVE  RInv'
<1> DEFINE p == [pc |-> "guardar", id |-> id, sol |-> s]
<1>1. peticion' = [peticion EXCEPT ![r] = p]
  BY DEF EnviarAGuardar
<1>2. ASSUME NEW q \in Peticiones, peticion'[q] # Libre
      PROVE  RespaldoOK(llamadas', peticion'[q].id, EnCurso(peticion'[q]), peticion'[q].sol)
  <2>1. CASE q = r
    <3>1. peticion'[q] = p
      BY <1>1, <2>1 DEF IInv, TypeOK
    <3> QED BY <3>1 DEF EnCurso
  <2>2. CASE q # r
    <3>1. peticion'[q] = peticion[q]
      BY <1>1, <2>2 DEF IInv, TypeOK
    <3> QED BY <1>2, <3>1 DEF RInv
  <2> QED BY <2>1, <2>2
<1> QED BY <1>2 DEF RInv

LEMMA CrearRechazo ==
  ASSUME IInv, RInv, NEW r \in Peticiones, NEW u \in Usuarios, NEW clave \in Claves,
         NEW datos \in Datos, NEW id \in Ids, Crear(r, u, clave, datos, id)
  PROVE  RInv'
<1> DEFINE c == CambioEstado("DRAFT", "DRAFT", u)
           s == CrearSolicitud(clave, datos, u)
<1>1. s.historico = <<c>> /\ s.motivoRechazo = SinMotivo
  BY DEF CrearSolicitud
<1>2. Retornos(s.historico) = {}
  BY <1>1 DEF Retornos, Pasos, CambioEstado
<1>3. Cardinality(Retornos(s.historico)) = 0
  BY <1>2, FS_EmptySet
<1>4. Cardinality(Rechazos(llamadas, id) \ {Ninguna}) \in Nat
  BY RechazosFinitos, FS_CardinalityType DEF IInv, TypeOK
<1> HIDE DEF s
<1>5. RespaldoOK(llamadas, id, Ninguna, s)
  BY <1>1, <1>2, <1>3, <1>4 DEF RespaldoOK, SinMotivo
<1> QED BY <1>5, EnviarRechazo DEF Crear, s

LEMMA ActualizarRechazo ==
  ASSUME IInv, RInv, NEW r \in Peticiones, NEW u \in Usuarios, NEW id \in Ids,
         NEW datos \in Datos \cup {SinDatos}, NEW enviar \in BOOLEAN,
         Actualizar(r, u, id, datos, enviar)
  PROVE  RInv'
<1> DEFINE d == docs[id]
           c == IF datos = SinDatos THEN d ELSE ActualizarDatos(d, datos)
           t == Transicionar(c, "IN_REVIEW", u, SinMotivo)
           s == IF enviar THEN t ELSE c
<1>1. d \in Entidades /\ RespaldoOK(llamadas, id, Ninguna, d)
  BY RespaldoDeDocumento DEF Actualizar, Atiende
<1>2. RespaldoOK(llamadas, id, Ninguna, c) /\ c \in Entidades
  <2>1. CASE datos = SinDatos
    BY <1>1, <2>1
  <2>2. CASE datos # SinDatos
    BY <1>1, <2>2, RespaldoDatos
  <2> QED BY <2>1, <2>2
<1>3. ASSUME enviar PROVE RespaldoOK(llamadas, id, Ninguna, t)
  <2>1. PuedeTransicionar(c, "IN_REVIEW") /\ "IN_REVIEW" \in Estados
    BY <1>3 DEF Actualizar, Estados
  <2> HIDE DEF c
  <2> QED BY <1>2, <2>1, RespaldoTransicion
<1>4. EnviarAGuardar(r, id, s) /\ UNCHANGED <<docs, llamadas>>
  BY DEF Actualizar
<1> HIDE DEF c, t
<1>5. RespaldoOK(llamadas, id, Ninguna, s)
  BY <1>2, <1>3
<1> QED BY <1>4, <1>5, EnviarRechazo

LEMMA TransicionarRechazo ==
  ASSUME IInv, RInv, NEW r \in Peticiones, NEW u \in Usuarios, NEW id \in Ids,
         NEW op, NEW a \in Estados, NEW m \in {SinMotivo, "usuario"},
         TransicionarUseCase(r, u, op, id, a, m)
  PROVE  RInv'
<1>1. /\ docs[id] \in Entidades /\ RespaldoOK(llamadas, id, Ninguna, docs[id])
      /\ PuedeTransicionar(docs[id], a)
  BY RespaldoDeDocumento DEF TransicionarUseCase, Atiende
<1>2. RespaldoOK(llamadas, id, Ninguna, Transicionar(docs[id], a, u, m))
  BY <1>1, RespaldoTransicion
<1> QED BY <1>2, EnviarRechazo DEF TransicionarUseCase

LEMMA FinalizarSinCoreRechazo ==
  ASSUME IInv, RInv, NEW r \in Peticiones, NEW u \in Usuarios, NEW id \in Ids,
         FinalizarSinCore(r, u, id)
  PROVE  RInv'
<1>1. docs[id] \in Entidades /\ RespaldoOK(llamadas, id, Ninguna, docs[id])
  BY RespaldoDeDocumento DEF FinalizarSinCore, FinalizarAtiende, Atiende
<1>2. RespaldoOK(llamadas, id, Ninguna, MarcarPendienteEnvioCore(docs[id]))
  BY <1>1, RespaldoPendiente
<1> QED BY <1>2, EnviarRechazo DEF FinalizarSinCore

\* A step of the calls in which no refusal is withdrawn and the slots stay.
LEMMA RespaldoTrasLlamadas ==
  ASSUME IInv, RInv, llamadas' \in Seq(Llamadas), docs' = docs,
         \A k \in DOMAIN llamadas : /\ k \in DOMAIN llamadas'
                                    /\ llamadas[k].respuesta = "rechazada" => llamadas'[k] = llamadas[k]
  PROVE  /\ \A id \in DOMAIN docs' : RespaldoOK(llamadas', id, Ninguna, docs'[id])
         /\ \A r \in Peticiones : LET p == peticion[r]
              IN p # Libre => RespaldoOK(llamadas', p.id, EnCurso(p), p.sol)
<1>1. llamadas \in Seq(Llamadas)
  BY DEF IInv, TypeOK
<1>2. ASSUME NEW id \in DOMAIN docs PROVE RespaldoOK(llamadas', id, Ninguna, docs[id])
  BY <1>1, RespaldoDeDocumento, RespaldoPerdura
<1>3. ASSUME NEW r \in Peticiones, peticion[r] # Libre
      PROVE  RespaldoOK(llamadas', peticion[r].id, EnCurso(peticion[r]), peticion[r].sol)
  <2> DEFINE p == peticion[r]
             x == EnCurso(p)
  <2>1. p.sol \in Entidades /\ RespaldoOK(llamadas, p.id, x, p.sol)
    BY <1>3, EnVueloOK DEF EntidadOK, RInv
  <2> HIDE DEF p, x
  <2>2. RespaldoOK(llamadas', p.id, x, p.sol)
    BY <1>1, <2>1, RespaldoPerdura
  <2> QED BY <2>2 DEF p, x
<1> QED BY <1>2, <1>3

LEMMA FinalizarLlamaRechazo ==
  ASSUME IInv, RInv, NEW r \in Peticiones, NEW u \in Usuarios, NEW id \in Ids,
         FinalizarLlama(r, u, id)
  PROVE  RInv'
<1> DEFINE c == [sol |-> id, respuesta |-> "enviada"]
           n == Len(llamadas) + 1
           p == [pc |-> "core", id |-> id, sol |-> docs[id], actor |-> u, llamada |-> n]
<1>1. /\ llamadas \in Seq(Llamadas) /\ llamadas' = Append(llamadas, c)
      /\ peticion' = [peticion EXCEPT ![r] = p] /\ docs' = docs
      /\ id \in DOMAIN docs /\ c \in Llamadas
  BY DEF FinalizarLlama, FinalizarAtiende, Atiende, IInv, TypeOK, Llamadas
<1>2. /\ llamadas' \in Seq(Llamadas) /\ DOMAIN llamadas' = 1 .. n /\ llamadas'[n] = c
      /\ n \notin DOMAIN llamadas
      /\ \A k \in DOMAIN llamadas : k \in DOMAIN llamadas' /\ llamadas'[k] = llamadas[k]
  <2> HIDE DEF c
  <2> QED BY <1>1
<1>3. /\ \A d \in DOMAIN docs' : RespaldoOK(llamadas', d, Ninguna, docs'[d])
      /\ \A q \in Peticiones : LET o == peticion[q]
           IN o # Libre => RespaldoOK(llamadas', o.id, EnCurso(o), o.sol)
  BY <1>1, <1>2, RespaldoTrasLlamadas
<1>4. RespaldoOK(llamadas', id, n, docs[id])
  <2>1. n \notin Rechazos(llamadas', id) /\ Ninguna \notin Rechazos(llamadas', id)
    BY <1>2 DEF Rechazos, Ninguna
  <2>2. Rechazos(llamadas', id) \ {n} = Rechazos(llamadas', id) \ {Ninguna}
    BY <2>1
  <2> QED BY <1>1, <1>3, <2>2 DEF RespaldoOK
<1>5. ASSUME NEW q \in Peticiones, peticion'[q] # Libre
      PROVE  RespaldoOK(llamadas', peticion'[q].id, EnCurso(peticion'[q]), peticion'[q].sol)
  <2>1. CASE q = r
    <3>1. peticion'[q] = p
      BY <1>1, <2>1 DEF IInv, TypeOK
    <3> QED BY <1>4, <3>1 DEF EnCurso
  <2>2. CASE q # r
    <3>1. peticion'[q] = peticion[q]
      BY <1>1, <2>2 DEF IInv, TypeOK
    <3> QED BY <1>3, <1>5, <3>1
  <2> QED BY <2>1, <2>2
<1> QED BY <1>3, <1>5 DEF RInv

LEMMA CoreDecideRechazo ==
  ASSUME IInv, RInv, NEW k \in DOMAIN llamadas, NEW x \in RespuestasCore, CoreDecide(k, x)
  PROVE  RInv'
<1>1. /\ llamadas' = [llamadas EXCEPT ![k].respuesta = x]
      /\ llamadas[k].respuesta = "enviada"
      /\ docs' = docs /\ peticion' = peticion
      /\ llamadas \in Seq(Llamadas) /\ llamadas[k] \in Llamadas
  BY DEF CoreDecide, IInv, TypeOK
<1> DEFINE c == [llamadas[k] EXCEPT !.respuesta = x]
<1>2. c \in Llamadas /\ llamadas' = [llamadas EXCEPT ![k] = c]
  BY <1>1 DEF Llamadas
<1> HIDE DEF c
<1>3. /\ llamadas' \in Seq(Llamadas)
      /\ \A j \in DOMAIN llamadas :
           j \in DOMAIN llamadas' /\ (llamadas[j].respuesta = "rechazada" => llamadas'[j] = llamadas[j])
  BY <1>1, <1>2
<1> QED BY <1>1, <1>3, RespaldoTrasLlamadas DEF RInv

LEMMA CoreRechazo ==
  ASSUME IInv, RInv, NEW r \in Peticiones, CoreOk(r) \/ CoreNegocio(r) \/ CoreFalla(r)
  PROVE  RInv'
<1> DEFINE p == peticion[r]
<1>1. /\ p # Libre /\ p.pc = "core" /\ UNCHANGED <<docs, llamadas>>
      /\ llamadas \in Seq(Llamadas)
  BY DEF CoreOk, CoreNegocio, CoreFalla, Espera, Libre, IInv, TypeOK
<1>2. p.sol \in Entidades /\ LlamadaOK(p) /\ p.actor \in Usuarios
  BY <1>1, EnVueloOK DEF EntidadOK, LlamadaOK, Supervisores
<1>3. RespaldoOK(llamadas, p.id, p.llamada, p.sol)
  BY <1>1 DEF RInv, EnCurso
<1>4. RespaldoOK(llamadas, p.id, Ninguna, p.sol)
  BY <1>1, <1>2, <1>3, RespaldoDeLaLlamada
<1>5. CASE CoreOk(r)
  <2>1. EnviarAGuardar(r, p.id, MarcarFinalizada(p.sol, p.llamada, p.actor))
    BY <1>5 DEF CoreOk
  <2>2. p.llamada \in Nat
    BY <1>1, <1>2 DEF LlamadaOK
  <2>3. RespaldoOK(llamadas, p.id, Ninguna, MarcarFinalizada(p.sol, p.llamada, p.actor))
    BY <1>2, <1>4, <2>2, RespaldoFinalizada
  <2> QED BY <1>1, <2>1, <2>3, EnviarRechazo
<1>6. CASE CoreNegocio(r)
  <2>1. EnviarAGuardar(r, p.id, RegresarARevisionPorRechazoCore(p.sol, p.actor))
    BY <1>6 DEF CoreNegocio
  <2>2. p.llamada \in Rechazos(llamadas, p.id) /\ p.sol.estado = "APPROVED"
    <3>1. /\ llamadas[p.llamada] \in Llamadas /\ llamadas[p.llamada].sol = p.id
          /\ llamadas[p.llamada].respuesta = "rechazada" /\ p.llamada \in DOMAIN llamadas
      BY <1>1, <1>2, <1>6 DEF LlamadaOK, CoreNegocio, RespuestaDe
    <3> QED BY <1>2, <3>1 DEF Rechazos, Llamadas, LlamadaOK
  <2>3. RespaldoOK(llamadas, p.id, Ninguna, RegresarARevisionPorRechazoCore(p.sol, p.actor))
    BY <1>1, <1>2, <1>3, <2>2, RespaldoDevuelta
  <2> QED BY <1>1, <2>1, <2>3, EnviarRechazo
<1>7. CASE CoreFalla(r)
  <2>1. EnviarAGuardar(r, p.id, MarcarPendienteEnvioCore(p.sol))
    BY <1>7 DEF CoreFalla
  <2>2. RespaldoOK(llamadas, p.id, Ninguna, MarcarPendienteEnvioCore(p.sol))
    BY <1>2, <1>4, RespaldoPendiente
  <2> QED BY <1>1, <2>1, <2>2, EnviarRechazo
<1> QED BY <1>5, <1>6, <1>7

LEMMA LiberarRechazo ==
  ASSUME IInv, RInv, NEW r \in Peticiones, peticion' = [peticion EXCEPT ![r] = Libre],
         llamadas' = llamadas
  PROVE  \A q \in Peticiones : LET p == peticion'[q]
           IN p # Libre => RespaldoOK(llamadas', p.id, EnCurso(p), p.sol)
<1> SUFFICES ASSUME NEW q \in Peticiones, peticion'[q] # Libre
             PROVE  RespaldoOK(llamadas, peticion'[q].id, EnCurso(peticion'[q]), peticion'[q].sol)
  OBVIOUS
<1>1. peticion'[q] = peticion[q]
  BY DEF IInv, TypeOK
<1> QED BY <1>1 DEF RInv

LEMMA GuardarRechazo ==
  ASSUME IInv, RInv, NEW r \in Peticiones, Guardar(r)
  PROVE  RInv'
<1> DEFINE id == peticion[r].id
           s  == peticion[r].sol
           f  == IF id \in DOMAIN docs THEN Fusion(docs[id], s) ELSE s
<1>1. /\ peticion[r] # Libre /\ peticion[r].pc = "guardar" /\ llamadas' = llamadas
      /\ peticion' = [peticion EXCEPT ![r] = Libre]
  BY DEF Guardar, Libre
<1>2. s \in Entidades /\ RespaldoOK(llamadas, id, Ninguna, s)
  BY <1>1, EnVueloOK DEF EntidadOK, RInv, EnCurso
<1>3. docs' = [d \in DOMAIN docs \cup {id} |-> IF d # id THEN docs[d] ELSE f]
  BY DEF Guardar, GuardarDocumento
<1>4. RespaldoOK(llamadas, id, Ninguna, f)
  <2>1. CASE id \in DOMAIN docs
    BY <1>2, <2>1, RespaldoDeDocumento, RespaldoFusion
  <2>2. CASE id \notin DOMAIN docs
    BY <1>2, <2>2
  <2> QED BY <2>1, <2>2
<1> HIDE DEF f, id, s
<1>5. \A d \in DOMAIN docs' : RespaldoOK(llamadas', d, Ninguna, docs'[d])
  BY <1>1, <1>3, <1>4 DEF RInv
<1> QED BY <1>1, <1>5, LiberarRechazo DEF RInv

LEMMA NextRechazo == IInv /\ RInv /\ [Next]_vars => RInv'
<1> SUFFICES ASSUME IInv, RInv, [Next]_vars PROVE RInv'
  OBVIOUS
<1>1. ASSUME NEW r \in Peticiones, Solicita(r) PROVE RInv'
  <2> PICK u \in Usuarios, id \in Ids :
        \/ \E clave \in Claves, datos \in Datos : Crear(r, u, clave, datos, id)
        \/ \E datos \in Datos \cup {SinDatos}, enviar \in BOOLEAN :
              Actualizar(r, u, id, datos, enviar)
        \/ Aprobar(r, u, id)
        \/ \E motivo \in {SinMotivo, "usuario"} : Rechazar(r, u, id, motivo)
        \/ Abandonar(r, u, id)
        \/ FinalizarLlama(r, u, id)
        \/ FinalizarSinCore(r, u, id)
    BY <1>1 DEF Solicita
  <2>1. ASSUME NEW clave \in Claves, NEW datos \in Datos, Crear(r, u, clave, datos, id)
        PROVE  RInv'
    BY <2>1, CrearRechazo
  <2>2. ASSUME NEW datos \in Datos \cup {SinDatos}, NEW enviar \in BOOLEAN,
               Actualizar(r, u, id, datos, enviar)
        PROVE  RInv'
    BY <2>2, ActualizarRechazo
  <2>3. CASE Aprobar(r, u, id)
    BY <2>3, TransicionarRechazo DEF Aprobar, Estados
  <2>4. ASSUME NEW m \in {SinMotivo, "usuario"}, Rechazar(r, u, id, m) PROVE RInv'
    BY <2>4, TransicionarRechazo DEF Rechazar, Estados
  <2>5. CASE Abandonar(r, u, id)
    BY <2>5, TransicionarRechazo DEF Abandonar, Estados
  <2>6. CASE FinalizarLlama(r, u, id)
    BY <2>6, FinalizarLlamaRechazo
  <2>7. CASE FinalizarSinCore(r, u, id)
    BY <2>7, FinalizarSinCoreRechazo
  <2> QED BY <2>1, <2>2, <2>3, <2>4, <2>5, <2>6, <2>7
<1>2. ASSUME NEW r \in Peticiones, Continua(r) PROVE RInv'
  BY <1>2, CoreRechazo, GuardarRechazo DEF Continua
<1>3. ASSUME NEW r \in Peticiones, Interrumpir(r) PROVE RInv'
  BY <1>3, LiberarRechazo DEF Interrumpir, RInv
<1>4. ASSUME NEW k \in DOMAIN llamadas, NEW x \in RespuestasCore, CoreDecide(k, x) PROVE RInv'
  BY <1>4, CoreDecideRechazo
<1>5. CASE UNCHANGED vars
  BY <1>5 DEF vars, RInv
<1> QED BY <1>1, <1>2, <1>3, <1>4, <1>5 DEF Next

LEMMA InitRechazo == Init => RInv
BY DEF Init, RInv, Libre

-----------------------------------------------------------------------------
(* The theorems.                                                           *)

\* Whatever a stored entity or one in flight says of the Core, the Core said.
THEOREM InvarianteRechazo == Spec => [](IInv /\ RInv)
<1>1. Init => IInv /\ RInv
  BY InitOK, InitRechazo
<1>2. IInv /\ RInv /\ [Next]_vars => (IInv /\ RInv)'
  BY NextOK, NextRechazo
<1> QED BY <1>1, <1>2, PTL DEF Spec

\* A stored history has no more steps back than the Core has refused calls for it.
THEOREM RetornosConRechazo == Spec => []CadaRetornoTieneRechazo
<1>1. IInv /\ RInv => CadaRetornoTieneRechazo
  <2> SUFFICES ASSUME IInv, RInv, NEW id \in DOMAIN docs
               PROVE  Cardinality(Retornos(docs[id].historico)) <= Cardinality(Rechazos(llamadas, id))
    BY DEF CadaRetornoTieneRechazo, Retornos, Rechazos
  <2>1. Rechazos(llamadas, id) \ {Ninguna} = Rechazos(llamadas, id)
    BY DEF Rechazos, Ninguna, IInv, TypeOK
  <2> QED BY <2>1, RespaldoDeDocumento DEF RespaldoOK
<1> QED BY <1>1, InvarianteRechazo, PTL

\* A reason of the Core on file has its refusal, and a solicitud sent back has a reason.
THEOREM MotivosConOrigen == Spec => []MotivoTieneOrigen
<1>1. IInv /\ RInv => MotivoTieneOrigen
  <2> SUFFICES ASSUME IInv, RInv, NEW id \in DOMAIN docs
               PROVE  MotivoOK(id, docs[id])
    BY DEF MotivoTieneOrigen
  <2>1. RespaldoOK(llamadas, id, Ninguna, docs[id])
    BY RespaldoDeDocumento
  <2> QED BY <2>1 DEF RespaldoOK, MotivoOK, Rechazos, Retornos, Pasos, PasoDelCore
<1> QED BY <1>1, InvarianteRechazo, PTL
=============================================================================
