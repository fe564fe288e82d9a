---------------------------- MODULE MetricasProofs ----------------------------
(***************************************************************************)
(* The gauge of MetricsService for any number of users, ids and calls.     *)
(*                                                                         *)
(* The gauge only observes: a step of SpecMetricas is a step of the        *)
(* service.  When requests do not meet, what a request will record is the  *)
(* one change its entity adds to the stored history (Apunta), so writing   *)
(* the document and moving the gauge keep GaugeOK; and a call the Core may *)
(* still open, or has opened, is of a solicitud that carries a mark, or    *)
(* soon will (Seguida).                                                    *)
(***************************************************************************)
EXTENDS Metricas, SecuencialProofs, FiniteSetTheorems

Anotaciones == {Nada} \cup (Estados \X Estados)

\* A solicitud with a product on file or with the deferred retry pending.
Marcada(s) == s.numeroProducto # SinProducto \/ s.pendiente

\* The stored history a request found.
HistoriaDe(id) == IF id \in DOMAIN docs THEN docs[id].historico ELSE << >>

\* A change the use cases record, as they record it.
Anotado(c) == IF c.estadoNuevo \in EstadosRegistrados
              THEN Cambio(c.estadoAnterior, c.estadoNuevo) ELSE Nada

\* The history g is h with at most one change more, and m is what is to be recorded of it.
Apunta(h, g, m) ==
  \/ g = h /\ m = Nada
  \/ \E c \in Cambios :
       /\ g = Append(h, c) /\ m = Anotado(c)
       /\ m # Nada => c.estadoAnterior # c.estadoNuevo

AvanceOK(p, m) ==
  p.pc = "guardar" =>
    /\ (p.id \in DOMAIN docs /\ Marcada(docs[p.id])) => Marcada(p.sol)
    /\ Apunta(HistoriaDe(p.id), p.sol.historico, m)

\* The Core has opened the product of the call k, or may still do so.
Viva(k) == llamadas[k].respuesta \in {"enviada", "abierta"}

\* Somebody waits for the call k, or its solicitud carries the mark or soon will.
Seguida(k) ==
  \/ \E r \in Peticiones : Espera(r) /\ peticion[r].llamada = k
  \/ \E r \in Peticiones : /\ peticion[r].pc = "guardar" /\ peticion[r].id = llamadas[k].sol
                           /\ Marcada(peticion[r].sol)
  \/ Marcada(docs[llamadas[k].sol])

GaugeOK ==
  \A e \in Estados :
    solicitudesEstado[e] = Cardinality(Entrantes(docs, e)) - Cardinality(Salientes(docs, e))

MInv ==
  /\ TypeOKMetricas
  /\ IsFiniteSet(Registrados(docs))
  /\ GaugeOK
  /\ \A r \in Peticiones : AvanceOK(peticion[r], porRegistrar[r])
  /\ \A k \in DOMAIN llamadas : Viva(k) => Seguida(k)

-----------------------------------------------------------------------------
(* Counting the changes of a collection.                                   *)

\* The places of the histories whose change is in K.
Lugares(D, K) ==
  UNION {{id} \X {i \in DOMAIN D[id].historico : D[id].historico[i] \in K} : id \in DOMAIN D}

QueRegistra == {c \in Cambios : c.estadoNuevo \in EstadosRegistrados}
QueEntra(e) == {c \in QueRegistra : c.estadoNuevo = e}
QueSale(e)  == {c \in QueRegistra : c.estadoAnterior = e}

\* The histories of D hold changes.
Conocida(D) == \A id \in DOMAIN D : D[id].historico \in Seq(Cambios)

LEMMA EnLugares ==
  ASSUME NEW D, NEW K
  PROVE  /\ \A id \in DOMAIN D : \A i \in DOMAIN D[id].historico :
              D[id].historico[i] \in K => <<id, i>> \in Lugares(D, K)
         /\ \A p \in Lugares(D, K) :
              /\ p = <<p[1], p[2]>> /\ p[1] \in DOMAIN D /\ p[2] \in DOMAIN D[p[1]].historico
              /\ D[p[1]].historico[p[2]] \in K
<1> DEFINE P(id) == {i \in DOMAIN D[id].historico : D[id].historico[i] \in K}
<1>1. Lugares(D, K) = UNION {{id} \X P(id) : id \in DOMAIN D}
  BY DEF Lugares
<1>2. ASSUME NEW id \in DOMAIN D, NEW i \in DOMAIN D[id].historico, D[id].historico[i] \in K
      PROVE  <<id, i>> \in Lugares(D, K)
  <2>1. i \in P(id)
    BY <1>2
  <2> HIDE DEF P
  <2>2. <<id, i>> \in {id} \X P(id)
    BY <2>1
  <2> QED BY <1>1, <2>2
<1>3. ASSUME NEW p \in Lugares(D, K)
      PROVE  /\ p = <<p[1], p[2]>> /\ p[1] \in DOMAIN D /\ p[2] \in DOMAIN D[p[1]].historico
             /\ D[p[1]].historico[p[2]] \in K
  <2> HIDE DEF P
  <2>1. PICK id \in DOMAIN D : p \in {id} \X P(id)
    BY <1>1, <1>3
  <2>2. p = <<p[1], p[2]>> /\ p[1] = id /\ p[2] \in P(id)
    BY <2>1
  <2> QED BY <2>2 DEF P
<1> QED BY <1>2, <1>3

LEMMA LugaresDeProps ==
  ASSUME NEW D, Conocida(D)
  PROVE  /\ Registrados(D) = Lugares(D, QueRegistra)
         /\ \A e : Entrantes(D, e) = Lugares(D, QueEntra(e))
         /\ \A e : Salientes(D, e) = Lugares(D, QueSale(e))
<1>1. \A id \in DOMAIN D : \A i \in DOMAIN D[id].historico : D[id].historico[i] \in Cambios
  BY DEF Conocida
<1>2. Registrados(D) = Lugares(D, QueRegistra)
  <2> DEFINE R(id) == {i \in DOMAIN D[id].historico :
                         D[id].historico[i].estadoNuevo \in EstadosRegistrados}
             P(id) == {i \in DOMAIN D[id].historico : D[id].historico[i] \in QueRegistra}
  <2>1. \A id \in DOMAIN D : R(id) = P(id)
    BY <1>1 DEF QueRegistra
  <2>2. Registrados(D) = UNION {{id} \X R(id) : id \in DOMAIN D}
    BY DEF Registrados
  <2>3. Lugares(D, QueRegistra) = UNION {{id} \X P(id) : id \in DOMAIN D}
    BY DEF Lugares
  <2> HIDE DEF R, P
  <2> QED BY <2>1, <2>2, <2>3
<1>3. ASSUME NEW K, NEW L, K \subseteq L
      PROVE  Lugares(D, K) = {p \in Lugares(D, L) : D[p[1]].historico[p[2]] \in K}
  <2> DEFINE F == {p \in Lugares(D, L) : D[p[1]].historico[p[2]] \in K}
  <2>1. ASSUME NEW p \in Lugares(D, K) PROVE p \in F
    <3>1. /\ p = <<p[1], p[2]>> /\ p[1] \in DOMAIN D /\ p[2] \in DOMAIN D[p[1]].historico
          /\ D[p[1]].historico[p[2]] \in K /\ D[p[1]].historico[p[2]] \in L
      BY <1>3, <2>1, EnLugares
    <3>2. p \in Lugares(D, L)
      BY <3>1, EnLugares
    <3> QED BY <3>1, <3>2
  <2>2. ASSUME NEW p \in F PROVE p \in Lugares(D, K)
    <3>1. /\ p = <<p[1], p[2]>> /\ p[1] \in DOMAIN D /\ p[2] \in DOMAIN D[p[1]].historico
          /\ D[p[1]].historico[p[2]] \in K
      BY <2>2, EnLugares
    <3> QED BY <3>1, EnLugares
  <2> QED BY <2>1, <2>2
<1>4. ASSUME NEW p \in Lugares(D, QueRegistra)
      PROVE  LET c == D[p[1]].historico[p[2]]
             IN \A e : /\ c \in QueEntra(e) <=> c.estadoNuevo = e
                       /\ c \in QueSale(e) <=> c.estadoAnterior = e
  <2>1. D[p[1]].historico[p[2]] \in QueRegistra
    BY <1>4, EnLugares
  <2> QED BY <2>1 DEF QueEntra, QueSale
<1>5. ASSUME NEW e
      PROVE  /\ Entrantes(D, e) = Lugares(D, QueEntra(e))
             /\ Salientes(D, e) = Lugares(D, QueSale(e))
  <2>1. QueEntra(e) \subseteq QueRegistra /\ QueSale(e) \subseteq QueRegistra
    BY DEF QueEntra, QueSale
  <2>2. /\ Lugares(D, QueEntra(e)) =
             {p \in Lugares(D, QueRegistra) : D[p[1]].historico[p[2]] \in QueEntra(e)}
        /\ Lugares(D, QueSale(e)) =
             {p \in Lugares(D, QueRegistra) : D[p[1]].historico[p[2]] \in QueSale(e)}
    BY <1>3, <2>1
  <2>3. /\ Entrantes(D, e) =
             {p \in Lugares(D, QueRegistra) : D[p[1]].historico[p[2]].estadoNuevo = e}
        /\ Salientes(D, e) =
             {p \in Lugares(D, QueRegistra) : D[p[1]].historico[p[2]].estadoAnterior = e}
    BY <1>2 DEF Entrantes, Salientes
  <2> QED BY <1>4, <2>2, <2>3
<1> QED BY <1>2, <1>5

\* Two collections with the same histories, but for empty ones, have the same places.
LEMMA LugaresIguales ==
  ASSUME NEW D, NEW E, NEW K,
         DOMAIN D \subseteq DOMAIN E,
         \A id \in DOMAIN D : E[id].historico = D[id].historico,
         \A id \in DOMAIN E \ DOMAIN D : E[id].historico = << >>
  PROVE  Lugares(E, K) = Lugares(D, K)
<1>1. ASSUME NEW p \in Lugares(D, K) PROVE p \in Lugares(E, K)
  <2>1. /\ p = <<p[1], p[2]>> /\ p[1] \in DOMAIN E /\ p[2] \in DOMAIN E[p[1]].historico
        /\ E[p[1]].historico[p[2]] \in K
    BY <1>1, EnLugares
  <2> QED BY <2>1, EnLugares
<1>2. ASSUME NEW p \in Lugares(E, K) PROVE p \in Lugares(D, K)
  <2>1. /\ p = <<p[1], p[2]>> /\ p[1] \in DOMAIN E /\ p[2] \in DOMAIN E[p[1]].historico
        /\ E[p[1]].historico[p[2]] \in K
    BY <1>2, EnLugares
  <2>2. p[1] \in DOMAIN D
    <3>1. DOMAIN << >> = {}
      OBVIOUS
    <3> QED BY <2>1, <3>1
  <2>3. /\ p[2] \in DOMAIN D[p[1]].historico /\ D[p[1]].historico[p[2]] \in K
    BY <2>1, <2>2
  <2> QED BY <2>1, <2>2, <2>3, EnLugares
<1> QED BY <1>1, <1>2

\* E is D with the history h of id, empty if D has no id, grown by the change c.
Crece(D, E, id, h, c) ==
  /\ h \in Seq(Cambios) /\ c \in Cambios
  /\ DOMAIN E = DOMAIN D \cup {id}
  /\ \A d \in DOMAIN D : d # id => E[d] = D[d]
  /\ id \in DOMAIN D => D[id].historico = h
  /\ id \notin DOMAIN D => h = << >>
  /\ E[id].historico = Append(h, c)

\* A history with one change more has one place more.
LEMMA LugaresDeAppend ==
  ASSUME NEW D, NEW E, NEW K, NEW id, NEW h, NEW c, Crece(D, E, id, h, c)
  PROVE  LET p == <<id, Len(h) + 1>>
         IN /\ p \notin Lugares(D, K)
            /\ Lugares(E, K) = IF c \in K THEN Lugares(D, K) \cup {p} ELSE Lugares(D, K)
<1> DEFINE n == Len(h) + 1
           g == Append(h, c)
           p == <<id, n>>
<1>0. /\ h \in Seq(Cambios) /\ c \in Cambios
      /\ DOMAIN E = DOMAIN D \cup {id}
      /\ \A d \in DOMAIN D : d # id => E[d] = D[d]
      /\ id \in DOMAIN D => D[id].historico = h
      /\ id \notin DOMAIN D => h = << >>
      /\ E[id].historico = g
  BY DEF Crece
<1>1. /\ Len(h) \in Nat /\ n = Len(h) + 1
      /\ DOMAIN h = 1 .. Len(h) /\ DOMAIN g = 1 .. n
      /\ g[n] = c /\ \A i \in 1 .. Len(h) : g[i] = h[i]
  BY <1>0
<1>2. E[id].historico = g /\ id \in DOMAIN E
  BY <1>0
<1> HIDE DEF n, g
<1>3. /\ n \notin DOMAIN h /\ n \in DOMAIN g
      /\ \A i \in DOMAIN g : i # n => i \in DOMAIN h /\ g[i] = h[i]
      /\ \A i \in DOMAIN h : i \in DOMAIN g /\ g[i] = h[i]
  BY <1>1
<1>4. p[1] = id /\ p[2] = n
  OBVIOUS
<1>5. p \notin Lugares(D, K)
  BY <1>0, <1>3, <1>4, EnLugares
<1>6. ASSUME NEW q \in Lugares(D, K) PROVE q \in Lugares(E, K)
  <2>1. /\ q = <<q[1], q[2]>> /\ q[1] \in DOMAIN D /\ q[2] \in DOMAIN D[q[1]].historico
        /\ D[q[1]].historico[q[2]] \in K
    BY <1>6, EnLugares
  <2>2. q[1] \in DOMAIN E /\ q[2] \in DOMAIN E[q[1]].historico
        /\ E[q[1]].historico[q[2]] \in K
    <3>1. CASE q[1] = id
      <4>1. q[2] \in DOMAIN h /\ h[q[2]] \in K
        BY <1>0, <2>1, <3>1
      <4>2. q[2] \in DOMAIN g /\ g[q[2]] = h[q[2]]
        BY <1>3, <4>1
      <4> QED BY <1>2, <3>1, <4>1, <4>2
    <3>2. CASE q[1] # id
      BY <1>0, <2>1, <3>2
    <3> QED BY <3>1, <3>2
  <2> QED BY <2>1, <2>2, EnLugares
<1>7. ASSUME NEW q \in Lugares(E, K) PROVE q \in Lugares(D, K) \/ (q = p /\ c \in K)
  <2>1. /\ q = <<q[1], q[2]>> /\ q[1] \in DOMAIN E /\ q[2] \in DOMAIN E[q[1]].historico
        /\ E[q[1]].historico[q[2]] \in K
    BY <1>7, EnLugares
  <2>2. CASE q[1] # id
    <3>1. /\ q[1] \in DOMAIN D /\ q[2] \in DOMAIN D[q[1]].historico
          /\ D[q[1]].historico[q[2]] \in K
      BY <1>0, <2>1, <2>2
    <3> QED BY <2>1, <3>1, EnLugares
  <2>3. CASE q[1] = id /\ q[2] = n
    BY <1>1, <1>2, <2>1, <2>3
  <2>4. CASE q[1] = id /\ q[2] # n
    <3>1. q[2] \in DOMAIN h /\ h[q[2]] \in K
      BY <1>2, <1>3, <2>1, <2>4
    <3>2. id \in DOMAIN D
      <4>1. DOMAIN << >> = {}
        OBVIOUS
      <4> QED BY <1>0, <3>1, <4>1
    <3> QED BY <1>0, <2>1, <2>4, <3>1, <3>2, EnLugares
  <2> QED BY <2>2, <2>3, <2>4
<1>8. c \in K => p \in Lugares(E, K)
  BY <1>1, <1>2, <1>3, EnLugares
<1> QED BY <1>5, <1>6, <1>7, <1>8 DEF n

Uno(condicion) == IF condicion THEN 1 ELSE 0

\* What one change more does to the counts of each state.
LEMMA CuentasDeAppend ==
  ASSUME NEW D, NEW E, NEW id, NEW h, NEW c, Crece(D, E, id, h, c),
         Conocida(D), Conocida(E), IsFiniteSet(Registrados(D))
  PROVE  /\ IsFiniteSet(Registrados(E))
         /\ \A e : /\ Cardinality(Entrantes(D, e)) \in Nat /\ Cardinality(Salientes(D, e)) \in Nat
                   /\ Cardinality(Entrantes(E, e)) =
                        Cardinality(Entrantes(D, e)) + Uno(c \in QueEntra(e))
                   /\ Cardinality(Salientes(E, e)) =
                        Cardinality(Salientes(D, e)) + Uno(c \in QueSale(e))
<1> DEFINE p == <<id, Len(h) + 1>>
<1>1. ASSUME NEW K
      PROVE  /\ p \notin Lugares(D, K)
             /\ Lugares(E, K) = IF c \in K THEN Lugares(D, K) \cup {p} ELSE Lugares(D, K)
  BY LugaresDeAppend
<1> HIDE DEF p
<1>2. ASSUME NEW K, IsFiniteSet(Lugares(D, K))
      PROVE  /\ IsFiniteSet(Lugares(E, K)) /\ Cardinality(Lugares(D, K)) \in Nat
             /\ Cardinality(Lugares(E, K)) = Cardinality(Lugares(D, K)) + Uno(c \in K)
  <2>1. Cardinality(Lugares(D, K)) \in Nat
    BY <1>2, FS_CardinalityType
  <2>2. CASE c \in K
    <3>1. Lugares(E, K) = Lugares(D, K) \cup {p} /\ p \notin Lugares(D, K)
      BY <1>1, <2>2
    <3>2. /\ IsFiniteSet(Lugares(E, K))
          /\ Cardinality(Lugares(E, K)) = Cardinality(Lugares(D, K)) + 1
      BY <1>2, <3>1, FS_AddElement
    <3> QED BY <2>1, <2>2, <3>2 DEF Uno
  <2>3. CASE c \notin K
    <3>1. Lugares(E, K) = Lugares(D, K)
      BY <1>1, <2>3
    <3> QED BY <1>2, <2>1, <2>3, <3>1 DEF Uno
  <2> QED BY <2>2, <2>3
<1>3. IsFiniteSet(Registrados(E))
  BY <1>2, LugaresDeProps
<1>4. ASSUME NEW e
      PROVE  /\ Cardinality(Entrantes(D, e)) \in Nat /\ Cardinality(Salientes(D, e)) \in Nat
             /\ Cardinality(Entrantes(E, e)) =
                  Cardinality(Entrantes(D, e)) + Uno(c \in QueEntra(e))
             /\ Cardinality(Salientes(E, e)) =
                  Cardinality(Salientes(D, e)) + Uno(c \in QueSale(e))
  <2>1. Entrantes(D, e) \subseteq Registrados(D) /\ Salientes(D, e) \subseteq Registrados(D)
    BY DEF Entrantes, Salientes
  <2>2. IsFiniteSet(Entrantes(D, e)) /\ IsFiniteSet(Salientes(D, e))
    BY <2>1, FS_Subset
  <2>3. /\ Entrantes(D, e) = Lugares(D, QueEntra(e)) /\ Entrantes(E, e) = Lugares(E, QueEntra(e))
        /\ Salientes(D, e) = Lugares(D, QueSale(e)) /\ Salientes(E, e) = Lugares(E, QueSale(e))
    BY LugaresDeProps
  <2> QED BY <1>2, <2>2, <2>3
<1> QED BY <1>3, <1>4

-----------------------------------------------------------------------------
(* The gauge observes.                                                     *)

\* A step with the gauge is a step of the service.
LEMMA MetricasObserva == [NextMetricas]_varsMetricas => [Next]_vars
<1> SUFFICES ASSUME [NextMetricas]_varsMetricas PROVE [Next]_vars
  OBVIOUS
<1>1. ASSUME NEW r \in Peticiones, SolicitaYAnota(r) PROVE Solicita(r)
  BY <1>1 DEF SolicitaYAnota, Solicita
<1>2. ASSUME NEW r \in Peticiones, OyeAlCore(r) \/ GuardarYRegistrar(r) PROVE Continua(r)
  BY <1>2 DEF OyeAlCore, GuardarYRegistrar, Continua
<1>3. CASE \E k \in DOMAIN llamadas, respuesta \in RespuestasCore : CoreDecide(k, respuesta)
  BY <1>3 DEF Next
<1>4. CASE UNCHANGED varsMetricas
  BY <1>4 DEF varsMetricas, vars
<1> QED BY <1>1, <1>2, <1>3, <1>4 DEF NextMetricas, Next

LEMMA AnotaOK ==
  ASSUME TypeOKMetricas, NEW r \in Peticiones, NEW m \in Anotaciones, Anota(r, m)
  PROVE  /\ TypeOKMetricas' /\ porRegistrar'[r] = m /\ solicitudesEstado' = solicitudesEstado
         /\ \A q \in Peticiones : q # r => porRegistrar'[q] = porRegistrar[q]
BY DEF TypeOKMetricas, Anotaciones, Anota

\* What a transition notes is the change it makes.
LEMMA TransicionAnota ==
  ASSUME IInv, NEW r \in Peticiones, NEW u \in Usuarios, NEW id \in Ids,
         NEW op, NEW a \in {"APPROVED", "REJECTED", "ABANDONED"}, NEW m \in Motivos,
         TransicionarUseCase(r, u, op, id, a, m)
  PROVE  /\ docs[id].estado \in Estados /\ docs[id].estado # a
         /\ peticion'[r].sol.estado = a /\ a \in Estados
<1> DEFINE s == Transicionar(docs[id], a, u, m)
<1>1. docs[id] \in Entidades /\ PuedeTransicionar(docs[id], a) /\ a \in Estados
  BY DEF TransicionarUseCase, Atiende, IInv, EntidadOK, Estados
<1>2. s.estado = a
  BY <1>1, TransicionarCampos
<1>3. peticion' = [peticion EXCEPT ![r] = [pc |-> "guardar", id |-> id, sol |-> s]]
  BY DEF TransicionarUseCase, EnviarAGuardar
<1> HIDE DEF s
<1>4. peticion'[r].sol = s
  BY <1>3 DEF IInv, TypeOK
<1>5. docs[id].estado \in Estados
  BY <1>1 DEF Entidades
<1>6. docs[id].estado # a
  BY <1>1, <1>5 DEF PuedeTransicionar, CanTransitionTo, Allowed, Estados
<1> QED BY <1>1, <1>2, <1>4, <1>5, <1>6

\* The three endpoints of TransicionarSolicitudUseCase.
LEMMA TresTransiciones ==
  ASSUME NEW r, NEW u, NEW id,
         \/ Aprobar(r, u, id)
         \/ \E motivo \in {SinMotivo, "usuario"} : Rechazar(r, u, id, motivo)
         \/ Abandonar(r, u, id)
  PROVE  \E op \in {"aprobar", "rechazar", "abandonar"},
            a \in {"APPROVED", "REJECTED", "ABANDONED"}, m \in Motivos :
           TransicionarUseCase(r, u, op, id, a, m)
BY DEF Aprobar, Rechazar, Abandonar, Motivos

LEMMA RegistrarOK ==
  ASSUME TypeOKMetricas, NEW r \in Peticiones, GuardarYRegistrar(r)
  PROVE  TypeOKMetricas'
<1>1. porRegistrar' \in [Peticiones -> Anotaciones]
  BY DEF TypeOKMetricas, GuardarYRegistrar, Anotaciones
<1>2. solicitudesEstado' \in [Estados -> Int]
  <2>1. CASE porRegistrar[r] = Nada
    BY <2>1 DEF TypeOKMetricas, GuardarYRegistrar
  <2>2. CASE porRegistrar[r] # Nada
    <3> DEFINE a == porRegistrar[r][1]
               b == porRegistrar[r][2]
    <3>1. RecordCambioEstado(a, b)
      BY <2>2 DEF GuardarYRegistrar
    <3> HIDE DEF a, b
    <3>2. solicitudesEstado \in [Estados -> Int]
      BY DEF TypeOKMetricas
    <3>3. \A e \in Estados : solicitudesEstado[e] \in Int
      BY <3>2
    <3> QED BY <3>1, <3>3 DEF RecordCambioEstado
  <2> QED BY <2>1, <2>2
<1> QED BY <1>1, <1>2 DEF TypeOKMetricas, Anotaciones

LEMMA TiposMetricasPaso ==
  IInv /\ TypeOKMetricas /\ [NextMetricas]_varsMetricas => TypeOKMetricas'
<1> SUFFICES ASSUME IInv, TypeOKMetricas, [NextMetricas]_varsMetricas PROVE TypeOKMetricas'
  OBVIOUS
<1>1. Nada \in Anotaciones /\ Cambio("APPROVED", "FINALIZED") \in Anotaciones
  BY DEF Anotaciones, Cambio, Estados
<1>2. ASSUME NEW r \in Peticiones, NEW m \in Anotaciones, Anota(r, m) PROVE TypeOKMetricas'
  BY <1>2, AnotaOK
<1>3. ASSUME NEW r \in Peticiones, SolicitaYAnota(r) PROVE TypeOKMetricas'
  <2> PICK u \in Usuarios, id \in Ids :
        \/ Anota(r, Nada)
        \/ /\ \/ Aprobar(r, u, id)
              \/ \E motivo \in {SinMotivo, "usuario"} : Rechazar(r, u, id, motivo)
              \/ Abandonar(r, u, id)
           /\ Anota(r, Cambio(docs[id].estado, peticion'[r].sol.estado))
    BY <1>3 DEF SolicitaYAnota
  <2>1. CASE Anota(r, Nada)
    BY <1>1, <1>2, <2>1
  <2>2. CASE /\ \/ Aprobar(r, u, id)
                \/ \E motivo \in {SinMotivo, "usuario"} : Rechazar(r, u, id, motivo)
                \/ Abandonar(r, u, id)
             /\ Anota(r, Cambio(docs[id].estado, peticion'[r].sol.estado))
    <3> DEFINE m == Cambio(docs[id].estado, peticion'[r].sol.estado)
    <3>1. docs[id].estado \in Estados /\ peticion'[r].sol.estado \in Estados
      BY <2>2, TresTransiciones, TransicionAnota
    <3>2. m \in Anotaciones
      BY <3>1 DEF Cambio, Anotaciones
    <3>3. Anota(r, m)
      BY <2>2
    <3> HIDE DEF m
    <3> QED BY <1>2, <3>2, <3>3
  <2> QED BY <2>1, <2>2
<1>4. ASSUME NEW r \in Peticiones, OyeAlCore(r) PROVE TypeOKMetricas'
  BY <1>1, <1>2, <1>4 DEF OyeAlCore
<1>5. ASSUME NEW r \in Peticiones, GuardarYRegistrar(r) PROVE TypeOKMetricas'
  BY <1>5, RegistrarOK
<1>6. CASE UNCHANGED varsMetricas
  BY <1>6 DEF varsMetricas, TypeOKMetricas
<1>7. CASE UNCHANGED <<solicitudesEstado, porRegistrar>>
  BY <1>7 DEF TypeOKMetricas
<1> QED BY <1>3, <1>4, <1>5, <1>6, <1>7 DEF NextMetricas

-----------------------------------------------------------------------------
(* Requests that do not meet.                                              *)

LEMMA DocumentoLeido ==
  ASSUME IInv, NEW id \in DOMAIN docs
  PROVE  docs[id] \in Entidades /\ HistoriaDe(id) = docs[id].historico
         /\ docs[id].historico \in Seq(Cambios)
BY DEF IInv, EntidadOK, HistoriaDe, Entidades

\* What a request will record depends on nothing but itself and the collection.
LEMMA AvanceSigue ==
  ASSUME MInv, NEW q \in Peticiones, peticion'[q] = peticion[q],
         porRegistrar'[q] = porRegistrar[q], docs' = docs
  PROVE  AvanceOK(peticion[q], porRegistrar[q])'
BY DEF MInv, AvanceOK, HistoriaDe

\* Every use case hands guardar an entity that keeps the mark and has the change to record.
LEMMA EnviarMetricas ==
  ASSUME IInv, SInv, MInv, NEW r \in Peticiones, NEW id, NEW s,
         NEW m \in Anotaciones,
         peticion[r].pc # "guardar", EnviarAGuardar(r, id, s), UNCHANGED <<docs, llamadas>>,
         Anota(r, m),
         (id \in DOMAIN docs /\ Marcada(docs[id])) => Marcada(s),
         Apunta(HistoriaDe(id), s.historico, m),
         (Espera(r) /\ Viva(peticion[r].llamada)) =>
            Marcada(s) /\ llamadas[peticion[r].llamada].sol = id
  PROVE  MInv'
<1> DEFINE p == [pc |-> "guardar", id |-> id, sol |-> s]
<1>1. /\ peticion'[r] = p /\ docs' = docs /\ llamadas' = llamadas
      /\ \A q \in Peticiones : q # r => peticion'[q] = peticion[q]
  BY DEF EnviarAGuardar, IInv, TypeOK
<1>2. /\ TypeOKMetricas' /\ porRegistrar'[r] = m /\ solicitudesEstado' = solicitudesEstado
      /\ \A q \in Peticiones : q # r => porRegistrar'[q] = porRegistrar[q]
  BY AnotaOK DEF MInv
<1>3. IsFiniteSet(Registrados(docs))' /\ GaugeOK'
  BY <1>1, <1>2 DEF MInv, GaugeOK
<1>4. p.pc = "guardar" /\ p.id = id /\ p.sol = s
  OBVIOUS
<1> HIDE DEF p
<1>5. ASSUME NEW q \in Peticiones PROVE AvanceOK(peticion[q], porRegistrar[q])'
  <2>1. CASE q = r
    <3>1. peticion'[q] = p /\ porRegistrar'[q] = m
      BY <1>1, <1>2, <2>1
    <3> QED BY <1>1, <1>4, <3>1 DEF AvanceOK, HistoriaDe
  <2>2. CASE q # r
    BY <1>1, <1>2, <2>2, AvanceSigue
  <2> QED BY <2>1, <2>2
<1>6. ASSUME NEW k \in DOMAIN llamadas', Viva(k)' PROVE Seguida(k)'
  <2>1. Viva(k) /\ Seguida(k) /\ k \in DOMAIN llamadas
    BY <1>1, <1>6 DEF Viva, MInv
  <2>2. CASE Espera(r) /\ peticion[r].llamada = k
    <3>1. Marcada(s) /\ llamadas[k].sol = id
      BY <2>1, <2>2
    <3> QED BY <1>1, <1>4, <3>1 DEF Seguida
  <2>3. CASE Marcada(docs[llamadas[k].sol])
    BY <1>1, <2>3 DEF Seguida
  <2>4. ASSUME NEW q \in Peticiones, q # r,
               \/ Espera(q) /\ peticion[q].llamada = k
               \/ /\ peticion[q].pc = "guardar" /\ peticion[q].id = llamadas[k].sol
                  /\ Marcada(peticion[q].sol)
        PROVE  Seguida(k)'
    <3>1. peticion'[q] = peticion[q]
      BY <1>1, <2>4
    <3> QED BY <1>1, <2>4, <3>1 DEF Seguida, Espera
  <2> QED BY <2>1, <2>2, <2>3, <2>4 DEF Seguida
<1> QED BY <1>2, <1>3, <1>5, <1>6 DEF MInv

\* A change that adds itself to the history is what is noted.
LEMMA ApuntaCambio ==
  ASSUME NEW d \in Entidades, NEW a \in Estados, NEW u \in Usuarios,
         NEW m, m = Anotado(CambioEstado(d.estado, a, u)), m # Nada => d.estado # a
  PROVE  Apunta(d.historico, Append(d.historico, CambioEstado(d.estado, a, u)), m)
<1> DEFINE c == CambioEstado(d.estado, a, u)
<1>1. c \in Cambios /\ c.estadoAnterior = d.estado /\ c.estadoNuevo = a
  BY DEF CambioEstado, Cambios, Entidades
<1> HIDE DEF c
<1>2. m = Anotado(c) /\ (m # Nada => c.estadoAnterior # c.estadoNuevo)
  BY <1>1 DEF c
<1>3. Apunta(d.historico, Append(d.historico, c), m)
  BY <1>1, <1>2 DEF Apunta
<1> QED BY <1>3 DEF c

LEMMA CrearMetricas ==
  ASSUME IInv, SInv, MInv, NEW r \in Peticiones, NEW u \in Usuarios,
         NEW clave \in Claves, NEW datos \in Datos, NEW id \in Ids,
         Crear(r, u, clave, datos, id), Anota(r, Nada)
  PROVE  MInv'
<1> DEFINE c == CambioEstado("DRAFT", "DRAFT", u)
           s == CrearSolicitud(clave, datos, u)
<1>1. /\ peticion[r] = Libre /\ id \notin DOMAIN docs
      /\ EnviarAGuardar(r, id, s) /\ UNCHANGED <<docs, llamadas>>
  BY DEF Crear, IdsUsados
<1>2. c \in Cambios /\ Anotado(c) = Nada /\ s.historico = <<c>>
  BY DEF CambioEstado, Cambios, Estados, Anotado, EstadosRegistrados, CrearSolicitud
<1>3. peticion[r].pc # "guardar" /\ ~Espera(r) /\ Nada \in Anotaciones
  BY <1>1 DEF Libre, Espera, Anotaciones
<1> HIDE DEF s, c
<1>4. HistoriaDe(id) = << >> /\ <<c>> = Append(<< >>, c)
  BY <1>1 DEF HistoriaDe
<1>5. Apunta(HistoriaDe(id), s.historico, Nada)
  BY <1>2, <1>4 DEF Apunta
<1> QED BY <1>1, <1>3, <1>5, EnviarMetricas

LEMMA ActualizarMetricas ==
  ASSUME IInv, SInv, MInv, NEW r \in Peticiones, NEW u \in Usuarios, NEW id \in Ids,
         NEW datos \in Datos \cup {SinDatos}, NEW enviar \in BOOLEAN,
         Actualizar(r, u, id, datos, enviar), Anota(r, Nada)
  PROVE  MInv'
<1> DEFINE d == docs[id]
           c == IF datos = SinDatos THEN d ELSE ActualizarDatos(d, datos)
           t == Transicionar(c, "IN_REVIEW", u, SinMotivo)
           s == IF enviar THEN t ELSE c
<1>1. /\ peticion[r] = Libre /\ id \in DOMAIN docs /\ d \in Entidades
      /\ EnviarAGuardar(r, id, s) /\ UNCHANGED <<docs, llamadas>>
  BY DocumentoLeido DEF Actualizar, Atiende
<1>2. /\ c \in Entidades /\ c.historico = d.historico /\ c.estado = d.estado
      /\ c.numeroProducto = d.numeroProducto /\ c.pendiente = d.pendiente
  <2>1. CASE datos = SinDatos
    BY <1>1, <2>1
  <2>2. CASE datos # SinDatos
    <3>1. datos \in Datos
      BY <2>2
    <3> QED BY <1>1, <2>2, <3>1, ActualizarDatosCampos
  <2> QED BY <2>1, <2>2
<1>3. "IN_REVIEW" \in Estados /\ SinMotivo \in Motivos
  BY DEF Estados, Motivos
<1> HIDE DEF c
<1>4. /\ t.historico = Append(c.historico, CambioEstado(c.estado, "IN_REVIEW", u))
      /\ t.numeroProducto = c.numeroProducto /\ t.pendiente = c.pendiente
  BY <1>2, <1>3, TransicionarCampos
<1>5. Apunta(c.historico, t.historico, Nada)
  <2>1. Anotado(CambioEstado(c.estado, "IN_REVIEW", u)) = Nada
    BY DEF Anotado, CambioEstado, EstadosRegistrados
  <2> QED BY <1>2, <1>3, <1>4, <2>1, ApuntaCambio
<1> HIDE DEF t
<1>6. Apunta(HistoriaDe(id), s.historico, Nada)
  <2>1. HistoriaDe(id) = c.historico
    BY <1>1, <1>2, DocumentoLeido
  <2>2. CASE enviar
    BY <1>5, <2>1, <2>2
  <2>3. CASE ~enviar
    BY <2>1, <2>3 DEF Apunta
  <2> QED BY <2>2, <2>3
<1>7. Marcada(d) => Marcada(s)
  BY <1>2, <1>4 DEF Marcada
<1>8. peticion[r].pc # "guardar" /\ ~Espera(r) /\ Nada \in Anotaciones
  BY <1>1 DEF Libre, Espera, Anotaciones
<1> HIDE DEF s
<1> QED BY <1>1, <1>6, <1>7, <1>8, EnviarMetricas

LEMMA TransicionarMetricas ==
  ASSUME IInv, SInv, MInv, NEW r \in Peticiones, NEW u \in Usuarios, NEW id \in Ids,
         NEW op, NEW a \in {"APPROVED", "REJECTED", "ABANDONED"}, NEW m \in Motivos,
         TransicionarUseCase(r, u, op, id, a, m),
         Anota(r, Cambio(docs[id].estado, peticion'[r].sol.estado))
  PROVE  MInv'
<1> DEFINE d == docs[id]
           s == Transicionar(d, a, u, m)
           x == Cambio(d.estado, a)
<1>1. /\ peticion[r] = Libre /\ id \in DOMAIN docs /\ d \in Entidades
      /\ EnviarAGuardar(r, id, s) /\ UNCHANGED <<docs, llamadas>>
  BY DocumentoLeido DEF TransicionarUseCase, Atiende
<1>2. d.estado \in Estados /\ d.estado # a /\ peticion'[r].sol.estado = a /\ a \in Estados
  BY TransicionAnota
<1>3. Anota(r, x)
  BY <1>2
<1>4. x \in Anotaciones
  BY <1>2 DEF Cambio, Anotaciones
<1>5. /\ s.historico = Append(d.historico, CambioEstado(d.estado, a, u))
      /\ s.numeroProducto = d.numeroProducto /\ s.pendiente = d.pendiente
  BY <1>1, <1>2, TransicionarCampos
<1>6. x = Anotado(CambioEstado(d.estado, a, u))
  BY DEF Anotado, CambioEstado, EstadosRegistrados
<1> HIDE DEF x, s
<1>7. Apunta(HistoriaDe(id), s.historico, x)
  BY <1>1, <1>2, <1>5, <1>6, ApuntaCambio, DocumentoLeido
<1>8. Marcada(d) => Marcada(s)
  BY <1>5 DEF Marcada
<1>9. peticion[r].pc # "guardar" /\ ~Espera(r)
  BY <1>1 DEF Libre, Espera
<1> QED BY <1>1, <1>3, <1>4, <1>7, <1>8, <1>9, EnviarMetricas

LEMMA FinalizarSinCoreMetricas ==
  ASSUME IInv, SInv, MInv, NEW r \in Peticiones, NEW u \in Usuarios, NEW id \in Ids,
         FinalizarSinCore(r, u, id), Anota(r, Nada)
  PROVE  MInv'
<1> DEFINE d == docs[id]
           s == MarcarPendienteEnvioCore(d)
<1>1. /\ peticion[r] = Libre /\ id \in DOMAIN docs /\ d \in Entidades
      /\ EnviarAGuardar(r, id, s) /\ UNCHANGED <<docs, llamadas>>
  BY DocumentoLeido DEF FinalizarSinCore, FinalizarAtiende, Atiende
<1>2. s.historico = d.historico /\ s.pendiente
  BY <1>1, MarcarPendienteCampos
<1>3. peticion[r].pc # "guardar" /\ ~Espera(r) /\ Nada \in Anotaciones
  BY <1>1 DEF Libre, Espera, Anotaciones
<1> HIDE DEF s
<1>4. Apunta(HistoriaDe(id), s.historico, Nada) /\ Marcada(s)
  BY <1>1, <1>2, DocumentoLeido DEF Apunta, Marcada
<1> QED BY <1>1, <1>3, <1>4, EnviarMetricas

\* The call just sent is followed by the request that waits for it.
LEMMA FinalizarLlamaMetricas ==
  ASSUME IInv, SInv, MInv, NEW r \in Peticiones, NEW u \in Usuarios, NEW id \in Ids,
         FinalizarLlama(r, u, id), Anota(r, Nada)
  PROVE  MInv'
<1> DEFINE c == [sol |-> id, respuesta |-> "enviada"]
           n == Len(llamadas) + 1
           p == [pc |-> "core", id |-> id, sol |-> docs[id], actor |-> u, llamada |-> n]
<1>1. /\ peticion[r] = Libre /\ peticion'[r] = p
      /\ llamadas' = Append(llamadas, c) /\ docs' = docs /\ llamadas \in Seq(Llamadas)
      /\ \A q \in Peticiones : q # r => peticion'[q] = peticion[q]
  BY DEF FinalizarLlama, FinalizarAtiende, Atiende, IInv, TypeOK
<1>2. /\ TypeOKMetricas' /\ porRegistrar'[r] = Nada /\ solicitudesEstado' = solicitudesEstado
      /\ \A q \in Peticiones : q # r => porRegistrar'[q] = porRegistrar[q]
  BY AnotaOK DEF MInv, Anotaciones
<1>3. IsFiniteSet(Registrados(docs))' /\ GaugeOK'
  BY <1>1, <1>2 DEF MInv, GaugeOK
<1>4. p.pc = "core" /\ p.llamada = n
  OBVIOUS
<1>5. c \in Llamadas
  BY DEF Llamadas
<1> HIDE DEF p, c
<1>6. \A k \in DOMAIN llamadas' :
        k = n \/ (k \in DOMAIN llamadas /\ llamadas'[k] = llamadas[k])
  BY <1>1, <1>5
<1> HIDE DEF n
<1>7. ASSUME NEW q \in Peticiones PROVE AvanceOK(peticion[q], porRegistrar[q])'
  <2>1. CASE q = r
    <3>1. peticion'[q] = p
      BY <1>1, <2>1
    <3> QED BY <1>4, <3>1 DEF AvanceOK
  <2>2. CASE q # r
    BY <1>1, <1>2, <2>2, AvanceSigue
  <2> QED BY <2>1, <2>2
<1>8. ASSUME NEW k \in DOMAIN llamadas', Viva(k)' PROVE Seguida(k)'
  <2>1. CASE k = n
    BY <1>1, <1>4, <2>1 DEF Seguida, Espera
  <2>2. CASE k # n
    <3>1. k \in DOMAIN llamadas /\ llamadas'[k] = llamadas[k]
      BY <1>6, <2>2
    <3>2. Viva(k) /\ Seguida(k)
      BY <1>8, <3>1 DEF Viva, MInv
    <3>3. ~Espera(r) /\ peticion[r].pc # "guardar"
      BY <1>1 DEF Espera, Libre
    <3>4. CASE Marcada(docs[llamadas[k].sol])
      BY <1>1, <3>1, <3>4 DEF Seguida
    <3>5. ASSUME NEW q \in Peticiones,
                 \/ Espera(q) /\ peticion[q].llamada = k
                 \/ /\ peticion[q].pc = "guardar" /\ peticion[q].id = llamadas[k].sol
                    /\ Marcada(peticion[q].sol)
          PROVE  Seguida(k)'
      <4>1. peticion'[q] = peticion[q]
        BY <1>1, <3>3, <3>5
      <4> QED BY <3>1, <3>5, <4>1 DEF Seguida, Espera
    <3> QED BY <3>2, <3>4, <3>5 DEF Seguida
  <2> QED BY <2>1, <2>2
<1> QED BY <1>2, <1>3, <1>7, <1>8 DEF MInv

\* Whatever the Core answers, the entity keeps or takes the mark of its solicitud.
LEMMA CoreMetricas ==
  ASSUME IInv, SInv, MInv, NEW r \in Peticiones, OyeAlCore(r)
  PROVE  MInv'
<1> DEFINE p == peticion[r]
           d == p.sol
<1>1. /\ p # Libre /\ p.pc = "core" /\ UNCHANGED <<docs, llamadas>>
  BY DEF OyeAlCore, CoreOk, CoreNegocio, CoreFalla, Espera, Libre
<1>2. /\ p.id \in DOMAIN docs /\ d = docs[p.id] /\ d \in Entidades
      /\ HistoriaDe(p.id) = d.historico
  BY <1>1, DocumentoLeido DEF SInv, TurnoOK
<1>3. LlamadaOK(p)
  BY <1>1, EnVueloOK
<1>4. /\ d.estado = "APPROVED" /\ p.actor \in Usuarios /\ p.llamada \in Nat \ {SinProducto}
      /\ llamadas[p.llamada].sol = p.id
  <2>1. llamadas \in Seq(Llamadas)
    BY DEF IInv, TypeOK
  <2>2. p.llamada \in 1 .. Len(llamadas)
    BY <1>3, <2>1 DEF LlamadaOK
  <2> QED BY <1>3, <2>1, <2>2 DEF LlamadaOK, Supervisores, SinProducto
<1>5. Nada \in Anotaciones /\ Cambio("APPROVED", "FINALIZED") \in Anotaciones
      /\ "FINALIZED" \in Estados /\ "IN_REVIEW" \in Estados
  BY DEF Anotaciones, Cambio, Estados
<1>6. CASE CoreOk(r) /\ Anota(r, Cambio("APPROVED", "FINALIZED"))
  <2> DEFINE s == MarcarFinalizada(d, p.llamada, p.actor)
             m == Cambio("APPROVED", "FINALIZED")
  <2>1. EnviarAGuardar(r, p.id, s) /\ Anota(r, m) /\ m \in Anotaciones
    BY <1>5, <1>6 DEF CoreOk
  <2>2. /\ s.historico = Append(d.historico, CambioEstado(d.estado, "FINALIZED", p.actor))
        /\ s.numeroProducto = p.llamada
    BY <1>2, <1>4, MarcarFinalizadaCampos
  <2>3. m = Anotado(CambioEstado(d.estado, "FINALIZED", p.actor))
    BY <1>4 DEF Anotado, CambioEstado, EstadosRegistrados
  <2> HIDE DEF s, m
  <2>4. Apunta(d.historico, s.historico, m) /\ Marcada(s)
    BY <1>2, <1>4, <1>5, <2>2, <2>3, ApuntaCambio DEF Marcada
  <2> QED BY <1>1, <1>2, <1>4, <2>1, <2>4, EnviarMetricas
<1>7. CASE CoreNegocio(r) /\ Anota(r, Nada)
  <2> DEFINE s == RegresarARevisionPorRechazoCore(d, p.actor)
  <2>1. EnviarAGuardar(r, p.id, s) /\ ~Viva(p.llamada)
    BY <1>7 DEF CoreNegocio, RespuestaDe, Viva
  <2>2. /\ s.historico = Append(d.historico, CambioEstado(d.estado, "IN_REVIEW", p.actor))
        /\ s.numeroProducto = d.numeroProducto /\ s.pendiente = d.pendiente
    BY <1>2, <1>4, RegresarCampos
  <2>3. Anotado(CambioEstado(d.estado, "IN_REVIEW", p.actor)) = Nada
    BY DEF Anotado, CambioEstado, EstadosRegistrados
  <2> HIDE DEF s
  <2>4. Apunta(d.historico, s.historico, Nada) /\ (Marcada(d) => Marcada(s))
    BY <1>2, <1>4, <1>5, <2>2, <2>3, ApuntaCambio DEF Marcada
  <2> QED BY <1>1, <1>2, <1>5, <1>7, <2>1, <2>4, EnviarMetricas
<1>8. CASE CoreFalla(r) /\ Anota(r, Nada)
  <2> DEFINE s == MarcarPendienteEnvioCore(d)
  <2>1. EnviarAGuardar(r, p.id, s)
    BY <1>8 DEF CoreFalla
  <2>2. s.historico = d.historico /\ s.pendiente
    BY <1>2, MarcarPendienteCampos
  <2> HIDE DEF s
  <2>3. Apunta(d.historico, s.historico, Nada) /\ Marcada(s)
    BY <2>2 DEF Apunta, Marcada
  <2> QED BY <1>1, <1>2, <1>4, <1>5, <1>8, <2>1, <2>3, EnviarMetricas
<1> QED BY <1>6, <1>7, <1>8 DEF OyeAlCore

LEMMA CoreDecideMetricas ==
  ASSUME IInv, SInv, MInv, NEW k \in DOMAIN llamadas, NEW x \in RespuestasCore,
         CoreDecide(k, x), UNCHANGED <<solicitudesEstado, porRegistrar>>
  PROVE  MInv'
<1>1. /\ llamadas' = [llamadas EXCEPT ![k].respuesta = x]
      /\ docs' = docs /\ peticion' = peticion
      /\ llamadas \in Seq(Llamadas) /\ llamadas[k].respuesta = "enviada"
  BY DEF CoreDecide, IInv, TypeOK
<1>2. DOMAIN llamadas' = DOMAIN llamadas
  BY <1>1
<1>3. ASSUME NEW j \in DOMAIN llamadas, Viva(j)'
      PROVE  Viva(j) /\ llamadas'[j].sol = llamadas[j].sol
  <2>1. llamadas[j] \in Llamadas
    BY <1>1
  <2> QED BY <1>1, <1>3, <2>1 DEF Llamadas, Viva
<1>4. ASSUME NEW j \in DOMAIN llamadas', Viva(j)' PROVE Seguida(j)'
  <2>1. Seguida(j) /\ llamadas'[j].sol = llamadas[j].sol
    BY <1>2, <1>3, <1>4 DEF MInv
  <2> QED BY <1>1, <2>1 DEF Seguida, Espera
<1>5. TypeOKMetricas' /\ IsFiniteSet(Registrados(docs))' /\ GaugeOK'
  BY <1>1 DEF MInv, TypeOKMetricas, GaugeOK
<1>6. \A q \in Peticiones : AvanceOK(peticion[q], porRegistrar[q])'
  BY <1>1 DEF MInv, AvanceOK, HistoriaDe
<1> QED BY <1>4, <1>5, <1>6 DEF MInv

\* What guardar writes is what is recorded.
LEMMA GuardarGauge ==
  ASSUME IInv, SInv, MInv, NEW r \in Peticiones, GuardarYRegistrar(r), IInv'
  PROVE  IsFiniteSet(Registrados(docs))' /\ GaugeOK'
<1> DEFINE id == peticion[r].id
           s  == peticion[r].sol
           m  == porRegistrar[r]
           h  == HistoriaDe(id)
<1>1. /\ DOMAIN docs' = DOMAIN docs \cup {id}
      /\ docs'[id] = s
      /\ \A d \in DOMAIN docs : d # id => docs'[d] = docs[d]
  BY GuardarEscribe DEF GuardarYRegistrar
<1>2. Conocida(docs) /\ Conocida(docs')
  BY DEF Conocida, IInv, EntidadOK, Entidades
<1>3. Apunta(h, s.historico, m)
  BY DEF MInv, AvanceOK, GuardarYRegistrar, Guardar
<1>4. /\ id \in DOMAIN docs => docs[id].historico = h
      /\ id \notin DOMAIN docs => h = << >>
      /\ h \in Seq(Cambios)
  BY DocumentoLeido DEF HistoriaDe
<1>5. IF m = Nada THEN UNCHANGED solicitudesEstado ELSE RecordCambioEstado(m[1], m[2])
  BY DEF GuardarYRegistrar
<1>6. \A e \in Estados : solicitudesEstado[e] \in Int
  BY DEF MInv, TypeOKMetricas
<1>7. /\ IsFiniteSet(Registrados(docs))
      /\ \A e \in Estados : solicitudesEstado[e] =
           Cardinality(Entrantes(docs, e)) - Cardinality(Salientes(docs, e))
  BY DEF MInv, GaugeOK
<1> HIDE DEF id, s, m, h
<1>8. CASE s.historico = h /\ m = Nada
  <2>1. \A d \in DOMAIN docs : docs'[d].historico = docs[d].historico
    BY <1>1, <1>4, <1>8
  <2>2. \A d \in DOMAIN docs' \ DOMAIN docs : docs'[d].historico = << >>
    BY <1>1, <1>4, <1>8
  <2>3. DOMAIN docs \subseteq DOMAIN docs'
    BY <1>1
  <2>4. ASSUME NEW K PROVE Lugares(docs', K) = Lugares(docs, K)
    BY <2>1, <2>2, <2>3, LugaresIguales
  <2>5. /\ Registrados(docs') = Registrados(docs)
        /\ \A e : Entrantes(docs', e) = Entrantes(docs, e) /\ Salientes(docs', e) = Salientes(docs, e)
    BY <1>2, <2>4, LugaresDeProps
  <2>6. solicitudesEstado' = solicitudesEstado
    BY <1>5, <1>8
  <2> QED BY <1>7, <2>5, <2>6 DEF GaugeOK
<1>9. ASSUME NEW c \in Cambios, s.historico = Append(h, c), m = Anotado(c),
             m # Nada => c.estadoAnterior # c.estadoNuevo
      PROVE  IsFiniteSet(Registrados(docs))' /\ GaugeOK'
  <2>1. /\ IsFiniteSet(Registrados(docs'))
        /\ \A e : /\ Cardinality(Entrantes(docs, e)) \in Nat
                  /\ Cardinality(Salientes(docs, e)) \in Nat
                  /\ Cardinality(Entrantes(docs', e)) =
                       Cardinality(Entrantes(docs, e)) + Uno(c \in QueEntra(e))
                  /\ Cardinality(Salientes(docs', e)) =
                       Cardinality(Salientes(docs, e)) + Uno(c \in QueSale(e))
    <3>1. Crece(docs, docs', id, h, c)
      BY <1>1, <1>4, <1>9 DEF Crece
    <3> QED BY <1>2, <1>7, <3>1, CuentasDeAppend
  <2>2. ASSUME NEW e \in Estados
        PROVE  solicitudesEstado'[e] =
                 solicitudesEstado[e] + Uno(c \in QueEntra(e)) - Uno(c \in QueSale(e))
    <3>1. CASE c.estadoNuevo \notin EstadosRegistrados
      <4>1. m = Nada /\ Uno(c \in QueEntra(e)) = 0 /\ Uno(c \in QueSale(e)) = 0
        BY <1>9, <3>1 DEF Anotado, QueEntra, QueSale, QueRegistra, Uno
      <4> QED BY <1>5, <1>6, <4>1
    <3>2. CASE c.estadoNuevo \in EstadosRegistrados
      <4> DEFINE a == c.estadoAnterior
                 b == c.estadoNuevo
      <4>1. m = <<a, b>>
        BY <1>9, <3>2 DEF Anotado, Cambio
      <4>2. <<a, b>> # << >>
        OBVIOUS
      <4>3. m # Nada /\ m[1] = a /\ m[2] = b /\ a # b
        BY <1>9, <4>1, <4>2 DEF Nada
      <4>4. Uno(c \in QueEntra(e)) = Uno(e = b) /\ Uno(c \in QueSale(e)) = Uno(e = a)
        BY <1>9, <3>2 DEF QueEntra, QueSale, QueRegistra, Uno
      <4> HIDE DEF a, b
      <4>5. solicitudesEstado'[e] = solicitudesEstado[e] + Uno(e = b) - Uno(e = a)
        BY <1>5, <1>6, <4>3 DEF RecordCambioEstado, Uno
      <4> QED BY <4>4, <4>5
    <3> QED BY <3>1, <3>2
  <2>3. ASSUME NEW e \in Estados
        PROVE  solicitudesEstado'[e] =
                 Cardinality(Entrantes(docs', e)) - Cardinality(Salientes(docs', e))
    <3>1. \A g, x, y, i, j \in Int : g = x - y => g + i - j = (x + i) - (y + j)
      OBVIOUS
    <3>2. Uno(c \in QueEntra(e)) \in Int /\ Uno(c \in QueSale(e)) \in Int
      BY DEF Uno
    <3> QED BY <1>6, <1>7, <2>1, <2>2, <3>1, <3>2
  <2> QED BY <2>1, <2>3 DEF GaugeOK
<1> QED BY <1>3, <1>8, <1>9 DEF Apunta

LEMMA GuardarMetricas ==
  ASSUME IInv, SInv, MInv, SinConflicto, NEW r \in Peticiones, GuardarYRegistrar(r), IInv'
  PROVE  MInv'
<1> DEFINE id == peticion[r].id
           s  == peticion[r].sol
<1>1. /\ docs'[id] = s /\ llamadas' = llamadas /\ DOMAIN docs' = DOMAIN docs \cup {id}
      /\ \A d \in DOMAIN docs : d # id => docs'[d] = docs[d]
  BY GuardarEscribe DEF GuardarYRegistrar
<1>2. /\ peticion'[r] = Libre /\ peticion[r].pc = "guardar"
      /\ \A q \in Peticiones : q # r => /\ peticion'[q] = peticion[q]
                                       /\ porRegistrar'[q] = porRegistrar[q]
  BY DEF GuardarYRegistrar, Guardar, IInv, TypeOK, MInv, TypeOKMetricas
<1>3. TypeOKMetricas' /\ IsFiniteSet(Registrados(docs))' /\ GaugeOK'
  BY RegistrarOK, GuardarGauge DEF MInv
<1>4. ASSUME NEW q \in Peticiones PROVE AvanceOK(peticion[q], porRegistrar[q])'
  <2>1. CASE peticion'[q] = Libre
    BY <2>1 DEF AvanceOK, Libre
  <2>2. CASE peticion'[q] # Libre
    <3> PICK p, m : p = peticion[q] /\ m = porRegistrar[q]
      OBVIOUS
    <3>1. q # r /\ peticion'[q] = p /\ porRegistrar'[q] = m /\ peticion[r] # Libre
      BY <1>2, <2>2 DEF Libre
    <3>2. p.id # id /\ AvanceOK(p, m)
      BY <2>2, <3>1 DEF SinConflicto, MInv
    <3>3. /\ p.id \in DOMAIN docs' => p.id \in DOMAIN docs /\ docs'[p.id] = docs[p.id]
          /\ HistoriaDe(p.id)' = HistoriaDe(p.id)
      BY <1>1, <3>2 DEF HistoriaDe
    <3> QED BY <3>1, <3>2, <3>3 DEF AvanceOK
  <2> QED BY <2>1, <2>2
<1>5. (id \in DOMAIN docs /\ Marcada(docs[id])) => Marcada(s)
  BY <1>2 DEF MInv, AvanceOK
<1> HIDE DEF id, s
<1>6. ASSUME NEW k \in DOMAIN llamadas', Viva(k)' PROVE Seguida(k)'
  <2> DEFINE d == llamadas[k].sol
  <2>1. Viva(k) /\ Seguida(k) /\ d \in DOMAIN docs
    BY <1>1, <1>6 DEF Viva, MInv, SInv
  <2>2. CASE d = id /\ (Marcada(docs[d]) \/ Marcada(s))
    <3>1. Marcada(s)
      BY <1>5, <2>1, <2>2
    <3> QED BY <1>1, <2>2, <3>1 DEF Seguida
  <2>3. CASE d # id /\ Marcada(docs[d])
    BY <1>1, <2>1, <2>3 DEF Seguida
  <2>4. ASSUME NEW q \in Peticiones, q # r,
               \/ Espera(q) /\ peticion[q].llamada = k
               \/ peticion[q].pc = "guardar" /\ peticion[q].id = d /\ Marcada(peticion[q].sol)
        PROVE  Seguida(k)'
    <3>1. peticion'[q] = peticion[q]
      BY <1>2, <2>4
    <3> QED BY <1>1, <2>4, <3>1 DEF Seguida, Espera
  <2>5. ~Espera(r)
    BY <1>2 DEF Espera
  <2> QED BY <2>1, <2>2, <2>3, <2>4, <2>5 DEF Seguida, id, s
<1> QED BY <1>3, <1>4, <1>6 DEF MInv

LEMMA NextMetricasPaso ==
  IInv /\ SInv /\ MInv /\ SinConflicto /\ [NextMetricas]_varsMetricas => MInv'
<1> SUFFICES ASSUME IInv, SInv, MInv, SinConflicto, [NextMetricas]_varsMetricas PROVE MInv'
  OBVIOUS
<1>1. ASSUME NEW r \in Peticiones, SolicitaYAnota(r) PROVE MInv'
  <2> PICK u \in Usuarios, id \in Ids :
        \/ /\ \/ \E clave \in Claves, datos \in Datos : Crear(r, u, clave, datos, id)
              \/ \E datos \in Datos \cup {SinDatos}, enviar \in BOOLEAN :
                   Actualizar(r, u, id, datos, enviar)
              \/ FinalizarLlama(r, u, id)
              \/ FinalizarSinCore(r, u, id)
           /\ Anota(r, Nada)
        \/ /\ \/ Aprobar(r, u, id)
              \/ \E motivo \in {SinMotivo, "usuario"} : Rechazar(r, u, id, motivo)
              \/ Abandonar(r, u, id)
           /\ Anota(r, Cambio(docs[id].estado, peticion'[r].sol.estado))
    BY <1>1 DEF SolicitaYAnota
  <2>1. ASSUME NEW clave \in Claves, NEW datos \in Datos,
               Crear(r, u, clave, datos, id), Anota(r, Nada)
        PROVE  MInv'
    BY <2>1, CrearMetricas
  <2>2. ASSUME NEW datos \in Datos \cup {SinDatos}, NEW enviar \in BOOLEAN,
               Actualizar(r, u, id, datos, enviar), Anota(r, Nada)
        PROVE  MInv'
    BY <2>2, ActualizarMetricas
  <2>3. CASE FinalizarLlama(r, u, id) /\ Anota(r, Nada)
    BY <2>3, FinalizarLlamaMetricas
  <2>4. CASE FinalizarSinCore(r, u, id) /\ Anota(r, Nada)
    BY <2>4, FinalizarSinCoreMetricas
  <2>5. CASE /\ \/ Aprobar(r, u, id)
                \/ \E motivo \in {SinMotivo, "usuario"} : Rechazar(r, u, id, motivo)
                \/ Abandonar(r, u, id)
             /\ Anota(r, Cambio(docs[id].estado, peticion'[r].sol.estado))
    <3> PICK op \in {"aprobar", "rechazar", "abandonar"},
             a \in {"APPROVED", "REJECTED", "ABANDONED"}, m \in Motivos :
               TransicionarUseCase(r, u, op, id, a, m)
      BY <2>5, TresTransiciones
    <3> QED BY <2>5, TransicionarMetricas
  <2> QED BY <2>1, <2>2, <2>3, <2>4, <2>5
<1>2. ASSUME NEW r \in Peticiones, OyeAlCore(r) PROVE MInv'
  BY <1>2, CoreMetricas
<1>3. ASSUME NEW r \in Peticiones, GuardarYRegistrar(r) PROVE MInv'
  <2>1. IInv'
    BY MetricasObserva, NextOK
  <2> QED BY <1>3, <2>1, GuardarMetricas
<1>4. CASE /\ \E k \in DOMAIN llamadas, respuesta \in RespuestasCore : CoreDecide(k, respuesta)
           /\ UNCHANGED <<solicitudesEstado, porRegistrar>>
  BY <1>4, CoreDecideMetricas
<1>5. CASE UNCHANGED varsMetricas
  BY <1>5 DEF varsMetricas, MInv, TypeOKMetricas, GaugeOK, AvanceOK, HistoriaDe, Viva, Seguida,
              Espera
<1> QED BY <1>1, <1>2, <1>3, <1>4, <1>5 DEF NextMetricas

LEMMA InitMetricasOK == InitMetricas => Init /\ TypeOKMetricas /\ MInv
<1> SUFFICES ASSUME InitMetricas PROVE Init /\ TypeOKMetricas /\ MInv
  OBVIOUS
<1>1. Init /\ TypeOKMetricas
  BY DEF InitMetricas, TypeOKMetricas
<1>2. DOMAIN docs = {} /\ DOMAIN llamadas = {}
  BY <1>1 DEF Init
<1>3. Registrados(docs) = {}
  BY <1>2 DEF Registrados
<1>4. \A e : Entrantes(docs, e) = {} /\ Salientes(docs, e) = {}
  BY <1>3 DEF Entrantes, Salientes
<1>5. IsFiniteSet(Registrados(docs)) /\ GaugeOK
  <2>1. IsFiniteSet({}) /\ Cardinality({}) = 0
    BY FS_EmptySet
  <2>2. \A e \in Estados : solicitudesEstado[e] = 0
    BY DEF InitMetricas
  <2> QED BY <1>3, <1>4, <2>1, <2>2 DEF GaugeOK
<1>6. \A r \in Peticiones : AvanceOK(peticion[r], porRegistrar[r])
  BY <1>1 DEF Init, AvanceOK, Libre
<1> QED BY <1>1, <1>2, <1>5, <1>6 DEF MInv

-----------------------------------------------------------------------------
(* The theorems.                                                           *)

\* The gauge changes nothing of the service: a behaviour with it is one without.
THEOREM MetricasSoloObserva == SpecMetricas => Spec
<1>1. InitMetricas => Init
  BY DEF InitMetricas
<1> QED BY <1>1, MetricasObserva, PTL DEF SpecMetricas, Spec

\* The gauge holds an integer for each state, and what waits to be recorded is a change.
THEOREM TiposMetricas == SpecMetricas => []TypeOKMetricas
<1>1. InitMetricas => IInv /\ TypeOKMetricas
  BY InitOK, InitMetricasOK
<1>2. IInv /\ TypeOKMetricas /\ [NextMetricas]_varsMetricas => (IInv /\ TypeOKMetricas)'
  BY MetricasObserva, NextOK, TiposMetricasPaso
<1> QED BY <1>1, <1>2, PTL DEF SpecMetricas

\* SpecMetricas as far as its requests never meet.
LEMMA EsMetricas == SpecMetricasSinConflicto => SpecMetricas /\ []SinConflicto
<1>1. InitMetricas => SinConflicto
  BY DEF InitMetricas, Init, SinConflicto
<1>2. SinConflicto /\ [NextMetricas /\ SinConflicto']_varsMetricas => SinConflicto'
  BY DEF SinConflicto, varsMetricas
<1> QED BY <1>1, <1>2, PTL DEF SpecMetricas, SpecMetricasSinConflicto

\* With a single slot for requests they never meet.
LEMMA UnaPeticionMetricas ==
  ASSUME \A q, r \in Peticiones : q = r
  PROVE  SpecMetricas => SpecMetricasSinConflicto
<1>1. [NextMetricas]_varsMetricas => [NextMetricas /\ SinConflicto']_varsMetricas
  BY DEF SinConflicto
<1> QED BY <1>1, PTL DEF SpecMetricas, SpecMetricasSinConflicto

\* When requests do not meet, the gauge and the marks follow the documents.
THEOREM InvarianteMetricas == SpecMetricasSinConflicto => [](IInv /\ SInv /\ MInv)
<1>1. InitMetricas => IInv /\ SInv /\ MInv
  BY InitOK, InitSecuencial, InitMetricasOK
<1>2. IInv /\ SInv /\ MInv /\ SinConflicto /\ [NextMetricas]_varsMetricas
        => (IInv /\ SInv /\ MInv)'
  BY MetricasObserva, NextOK, NextSecuencial, NextMetricasPaso
<1> QED BY <1>1, <1>2, EsMetricas, PTL DEF SpecMetricas

\* The gauge counts the changes recorded in the stored histories, no more and no less.
THEOREM GaugeSecuencial == SpecMetricasSinConflicto => []GaugeSigueAlHistorial
<1>1. MInv => GaugeSigueAlHistorial
  BY DEF MInv, GaugeOK, GaugeSigueAlHistorial
<1> QED BY <1>1, InvarianteMetricas, PTL

\* A product opened after its call timed out is of a solicitud that carries a mark.
THEOREM HuerfanoSecuencial == SpecMetricasSinConflicto => []HuerfanoDejaMarca
<1>1. MInv => HuerfanoDejaMarca
  BY DEF MInv, Viva, Seguida, Marcada, EnVuelo, HuerfanoDejaMarca
<1> QED BY <1>1, InvarianteMetricas, PTL
=============================================================================
