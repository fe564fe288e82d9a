---------------------------- MODULE ClientesProofs ----------------------------
(***************************************************************************)
(* How old an answer of productos-elegibles may be, when the Core is asked *)
(* again, which answers are recorded and whose id a request carries, for   *)
(* any number of clients and requests, any expiry and any deadline of the  *)
(* port.                                                                   *)
(*                                                                         *)
(* The properties speak of the answers; the invariant IInv carries them    *)
(* through the cache: an entry is no older than a call when it is set, and *)
(* nobody has seen a datum newer than it by more than a call.              *)
(***************************************************************************)
EXTENDS ClientesHttp, TLAPS

\* An entry expires with the last success, was read at most a call before it was set, and
\* is at most a call behind what has been seen.
EntradaOK(c) ==
  /\ cache[c].leido <= reloj
  /\ cache[c].expiresAt <= cache[c].leido + Plazo + TTL
  /\ visto[c] <= cache[c].leido + Plazo

ClienteOK(c) ==
  /\ visto[c] <= reloj
  /\ c \in DOMAIN cache => EntradaOK(c)
  /\ exito[c] # Nunca => c \in DOMAIN cache /\ cache[c].expiresAt = exito[c] + TTL

EnPlazo(q) ==
  /\ q.inicio <= reloj /\ reloj <= q.inicio + Plazo
  /\ q.leido # Nunca => q.inicio <= q.leido /\ q.leido <= reloj

ServidaOK(q) == q.servido - q.leido < TTL + Plazo

ConsultaOK(q) == (q.pc = "core" => EnPlazo(q)) /\ (q.pc = "auditando" => ServidaOK(q))

IInv ==
  /\ TypeOK
  /\ \A c \in Clientes : ClienteOK(c)
  /\ \A r \in Consultas : ConsultaOK(consulta[r])

-----------------------------------------------------------------------------
LEMMA Constantes ==
  /\ MaxReloj \in Nat /\ TTL \in Nat /\ TTL > 0 /\ Plazo \in Nat /\ Plazo > 0
  /\ Nunca \in Int /\ Nunca < 0 /\ \A i \in Instantes : i \in Nat
BY CacheAssumption DEF Nunca, Instantes

\* What a request is doing tells the shape of its record.
LEMMA Forma ==
  ASSUME TypeOK, NEW r \in Consultas
  PROVE  /\ consulta[r].pc = "libre" => consulta[r] = Libre
         /\ consulta[r].pc = "core" => consulta[r] \in EnCore
         /\ consulta[r].pc = "auditando" => consulta[r] \in Auditando
<1>1. consulta[r] \in {Libre} \cup EnCore \cup Auditando
  BY DEF TypeOK
<1> QED BY <1>1 DEF Libre, EnCore, Auditando

\* A step that only changes what one request is doing.
LEMMA UnaConsulta ==
  ASSUME IInv, NEW r \in Consultas, NEW q,
         q \in {Libre} \cup EnCore \cup Auditando, ConsultaOK(q),
         consulta' = [consulta EXCEPT ![r] = q],
         UNCHANGED <<reloj, cache, exito, visto>>
  PROVE  IInv'
<1>1. TypeOK'
  BY DEF IInv, TypeOK
<1>2. \A c \in Clientes : ClienteOK(c)'
  BY DEF IInv, ClienteOK, EntradaOK
<1>3. ASSUME NEW s \in Consultas PROVE ConsultaOK(consulta[s])'
  <2>1. consulta'[s] = IF s = r THEN q ELSE consulta[s]
    BY DEF IInv, TypeOK
  <2> QED BY <2>1 DEF IInv, ConsultaOK, EnPlazo, ServidaOK
<1> QED BY <1>1, <1>2, <1>3 DEF IInv

\* An answer leaves with a datum that is a call behind what was seen, or less.
LEMMA ContestaOK ==
  ASSUME IInv, NEW r \in Consultas, NEW c \in Clientes, NEW accion \in Acciones,
         NEW leido \in Instantes, leido <= reloj,
         reloj - leido < TTL + Plazo,
         Contesta(r, c, accion, leido), UNCHANGED reloj
  PROVE  /\ consulta' \in [Consultas -> {Libre} \cup EnCore \cup Auditando]
         /\ visto' \in [Clientes -> Instantes \cup {Nunca}]
         /\ \A s \in Consultas : ConsultaOK(consulta[s])'
         /\ visto'[c] = IF leido > visto[c] THEN leido ELSE visto[c]
         /\ \A d \in Clientes \ {c} : visto'[d] = visto[d]
<1> DEFINE q == [pc |-> "auditando", cliente |-> c, accion |-> accion, leido |-> leido, servido |-> reloj]
<1>1. /\ consulta' = [consulta EXCEPT ![r] = q]
      /\ visto' = [visto EXCEPT ![c] = IF leido > @ THEN leido ELSE @]
  BY DEF Contesta
<1>2. reloj \in Instantes /\ visto \in [Clientes -> Instantes \cup {Nunca}]
  BY DEF IInv, TypeOK
<1>3. q \in Auditando
  BY <1>2 DEF Auditando
<1>4. \A d \in Clientes : visto'[d] = IF d = c THEN (IF leido > visto[c] THEN leido ELSE visto[c]) ELSE visto[d]
  BY <1>1, <1>2
<1>5. ASSUME NEW s \in Consultas PROVE ConsultaOK(consulta[s])'
  <2>1. CASE s = r
    <3>1. consulta'[s] = q
      BY <1>1, <2>1 DEF IInv, TypeOK
    <3>2. q.pc = "auditando" /\ q.servido = reloj /\ q.leido = leido /\ q.cliente = c
      OBVIOUS
    <3> HIDE DEF q
    <3> QED BY <3>1, <3>2 DEF ConsultaOK, ServidaOK
  <2>2. CASE s # r
    <3>1. consulta'[s] = consulta[s]
      BY <1>1, <2>2 DEF IInv, TypeOK
    <3> QED BY <3>1 DEF IInv, ConsultaOK, EnPlazo, ServidaOK
  <2> QED BY <2>1, <2>2
<1>6. consulta' \in [Consultas -> {Libre} \cup EnCore \cup Auditando]
  BY <1>1, <1>3 DEF IInv, TypeOK
<1>7. visto' \in [Clientes -> Instantes \cup {Nunca}]
  BY <1>1, <1>2
<1> QED BY <1>4, <1>5, <1>6, <1>7

-----------------------------------------------------------------------------
(* The steps.                                                              *)

LEMMA AciertaPaso ==
  ASSUME IInv, NEW r \in Consultas, NEW c \in Clientes, Acierta(r, c)
  PROVE  IInv'
<1> DEFINE leido == cache[c].leido
<1>1. /\ c \in DOMAIN cache /\ cache[c] \in Entradas /\ reloj < cache[c].expiresAt
      /\ EntradaOK(c) /\ reloj \in Instantes
  BY DEF IInv, TypeOK, Acierta, Vigente, ClienteOK, Entradas
<1>2. leido \in Instantes /\ leido <= reloj /\ reloj - leido < TTL + Plazo
  BY <1>1, Constantes DEF EntradaOK, Entradas, Instantes
<1>3. /\ Contesta(r, c, "cache-hit", leido)
      /\ UNCHANGED <<reloj, cache, exito>>
  BY DEF Acierta
<1>4. "cache-hit" \in Acciones
  BY DEF Acciones
<1> HIDE DEF leido
<1>5. /\ consulta' \in [Consultas -> {Libre} \cup EnCore \cup Auditando]
      /\ visto' \in [Clientes -> Instantes \cup {Nunca}]
      /\ \A s \in Consultas : ConsultaOK(consulta[s])'
      /\ visto'[c] = IF leido > visto[c] THEN leido ELSE visto[c]
      /\ \A d \in Clientes \ {c} : visto'[d] = visto[d]
  BY <1>2, <1>3, <1>4, ContestaOK
<1>6. TypeOK'
  BY <1>3, <1>5 DEF IInv, TypeOK
<1>7. ASSUME NEW d \in Clientes PROVE ClienteOK(d)'
  <2>1. CASE d = c
    BY <1>1, <1>2, <1>3, <1>5, <2>1, Constantes DEF IInv, ClienteOK, EntradaOK, leido, Instantes
  <2>2. CASE d # c
    BY <1>3, <1>5, <2>2 DEF IInv, ClienteOK, EntradaOK
  <2> QED BY <2>1, <2>2
<1> QED BY <1>5, <1>6, <1>7 DEF IInv

LEMMA FaltaPaso ==
  ASSUME IInv, NEW r \in Consultas, NEW c \in Clientes, Falta(r, c)
  PROVE  IInv'
<1> DEFINE q == [pc |-> "core", cliente |-> c, inicio |-> reloj, leido |-> Nunca]
<1>1. reloj \in Instantes
  BY DEF IInv, TypeOK
<1>2. q \in EnCore
  BY <1>1 DEF EnCore
<1>3. ConsultaOK(q)
  BY <1>1, Constantes DEF ConsultaOK, EnPlazo, Instantes
<1>4. consulta' = [consulta EXCEPT ![r] = q] /\ UNCHANGED <<reloj, cache, exito, visto>>
  BY DEF Falta
<1> HIDE DEF q
<1> QED BY <1>2, <1>3, <1>4, UnaConsulta

LEMMA CoreLeePaso ==
  ASSUME IInv, NEW r \in Consultas, CoreLee(r)
  PROVE  IInv'
<1> DEFINE q == [consulta[r] EXCEPT !.leido = reloj]
<1>1. reloj \in Instantes /\ consulta[r] \in EnCore /\ EnPlazo(consulta[r])
  BY Forma DEF IInv, TypeOK, CoreLee, ConsultaOK
<1>2. q \in EnCore /\ q.inicio = consulta[r].inicio /\ q.leido = reloj
  BY <1>1 DEF EnCore
<1>3. q.pc = "core"
  BY <1>2 DEF EnCore
<1>4. consulta' = [consulta EXCEPT ![r] = q] /\ UNCHANGED <<reloj, cache, exito, visto>>
  BY DEF CoreLee
<1> HIDE DEF q
<1>5. ConsultaOK(q)
  BY <1>1, <1>2, <1>3 DEF ConsultaOK, EnPlazo, Instantes
<1> QED BY <1>2, <1>4, <1>5, UnaConsulta

\* A miss that is answered: its datum is no older than its call, and its call than Plazo.
LEMMA RespuestaFresca ==
  ASSUME IInv, NEW r \in Consultas, CoreContesta(r)
  PROVE  /\ consulta[r] \in EnCore /\ consulta[r].cliente \in Clientes
         /\ consulta[r].leido \in Instantes /\ consulta[r].leido <= reloj
         /\ reloj <= consulta[r].leido + Plazo
<1>1. consulta[r] \in EnCore /\ EnPlazo(consulta[r]) /\ consulta[r].leido # Nunca
  BY Forma DEF IInv, CoreContesta, ConsultaOK
<1> QED BY <1>1, Constantes DEF EnCore, EnPlazo, IInv, TypeOK, Instantes

LEMMA CoreRespondePaso ==
  ASSUME IInv, NEW r \in Consultas, CoreResponde(r)
  PROVE  IInv'
<1> DEFINE c == consulta[r].cliente
           leido == consulta[r].leido
<1>1. /\ c \in Clientes /\ leido \in Instantes /\ leido <= reloj /\ reloj <= leido + Plazo
      /\ reloj \in Instantes
  BY RespuestaFresca DEF CoreResponde, IInv, TypeOK
<1>2. /\ cache' = [d \in DOMAIN cache \cup {c} |->
                     IF d = c THEN [leido |-> leido, expiresAt |-> reloj + TTL] ELSE cache[d]]
      /\ exito' = [exito EXCEPT ![c] = reloj]
      /\ Contesta(r, c, "cache-miss", leido)
      /\ UNCHANGED reloj
  BY DEF CoreResponde, PueblaCache, Pone, Entrada
<1>3. "cache-miss" \in Acciones /\ reloj - leido < TTL + Plazo
  BY <1>1, Constantes DEF Acciones, Instantes
<1> HIDE DEF c, leido
<1>4. /\ consulta' \in [Consultas -> {Libre} \cup EnCore \cup Auditando]
      /\ visto' \in [Clientes -> Instantes \cup {Nunca}]
      /\ \A s \in Consultas : ConsultaOK(consulta[s])'
      /\ visto'[c] = IF leido > visto[c] THEN leido ELSE visto[c]
      /\ \A d \in Clientes \ {c} : visto'[d] = visto[d]
  BY <1>1, <1>2, <1>3, ContestaOK
<1>5. /\ DOMAIN cache' = DOMAIN cache \cup {c}
      /\ cache'[c].leido = leido /\ cache'[c].expiresAt = reloj + TTL
      /\ \A d \in DOMAIN cache \ {c} : cache'[d] = cache[d]
  BY <1>2
<1>6. TypeOK'
  <2>1. [leido |-> leido, expiresAt |-> reloj + TTL] \in Entradas
    BY <1>1, Constantes DEF Entradas, Instantes
  <2>2. cache' \in [DOMAIN cache' -> Entradas] /\ DOMAIN cache' \subseteq Clientes
    BY <1>1, <1>2, <2>1 DEF IInv, TypeOK
  <2>3. exito' \in [Clientes -> Instantes \cup {Nunca}]
    BY <1>1, <1>2 DEF IInv, TypeOK
  <2> QED BY <1>2, <1>4, <2>2, <2>3 DEF IInv, TypeOK
<1>7. ASSUME NEW d \in Clientes PROVE ClienteOK(d)'
  <2>1. CASE d = c
    <3>1. visto[c] <= reloj /\ exito'[c] = reloj
      BY <1>1, <1>2 DEF IInv, TypeOK, ClienteOK
    <3>2. visto[c] \in Int
      BY <1>1, Constantes DEF IInv, TypeOK, Instantes
    <3> QED BY <1>1, <1>2, <1>4, <1>5, <2>1, <3>1, <3>2, Constantes
            DEF ClienteOK, EntradaOK, Instantes
  <2>2. CASE d # c
    <3>1. exito'[d] = exito[d]
      BY <1>2, <2>2 DEF IInv, TypeOK
    <3> QED BY <1>2, <1>4, <1>5, <2>2, <3>1 DEF IInv, ClienteOK, EntradaOK
  <2> QED BY <2>1, <2>2
<1> QED BY <1>4, <1>6, <1>7 DEF IInv

\* The ends of a request that leave the cache alone.
LEMMA FinPaso ==
  ASSUME IInv, NEW r \in Consultas, CoreFalla(r) \/ Registra(r)
  PROVE  IInv'
<1>1. ConsultaOK(Libre)
  BY DEF ConsultaOK, Libre
<1> QED BY <1>1, UnaConsulta DEF CoreFalla, Registra

LEMMA ReiniciaPaso ==
  ASSUME IInv, Reinicia
  PROVE  IInv'
<1>1. DOMAIN cache' = {} /\ cache' \in [DOMAIN cache' -> Entradas]
  BY DEF Reinicia
<1>2. TypeOK'
  BY <1>1 DEF IInv, TypeOK, Reinicia
<1>3. \A c \in Clientes : ClienteOK(c)'
  BY <1>1 DEF IInv, ClienteOK, Reinicia
<1>4. \A r \in Consultas : ConsultaOK(consulta[r])'
  BY DEF ConsultaOK, Libre, Reinicia
<1> QED BY <1>2, <1>3, <1>4 DEF IInv

LEMMA TickPaso ==
  ASSUME IInv, Tick
  PROVE  IInv'
<1>1. reloj \in Instantes /\ reloj' = reloj + 1 /\ reloj' \in Instantes
  BY Constantes DEF IInv, TypeOK, Tick, Instantes
<1>2. UNCHANGED <<cache, consulta, exito, visto>>
  BY DEF Tick
<1>3. TypeOK'
  BY <1>1, <1>2 DEF IInv, TypeOK
<1>4. ASSUME NEW c \in Clientes PROVE ClienteOK(c)'
  <2>1. visto[c] \in Int /\ (c \in DOMAIN cache => cache[c].leido \in Int)
    BY Constantes DEF IInv, TypeOK, Entradas, Instantes
  <2> QED BY <1>1, <1>2, <2>1 DEF IInv, ClienteOK, EntradaOK, Instantes
<1>5. ASSUME NEW r \in Consultas PROVE ConsultaOK(consulta[r])'
  <2>1. consulta[r].pc = "core" => /\ consulta[r].inicio \in Int /\ consulta[r].leido \in Int
                                   /\ reloj < consulta[r].inicio + Plazo
    BY Forma, Constantes DEF IInv, EnCore, Tick, Instantes
  <2> QED BY <1>1, <1>2, <2>1, Constantes DEF IInv, ConsultaOK, EnPlazo, ServidaOK, Instantes
<1> QED BY <1>3, <1>4, <1>5 DEF IInv

LEMMA NextOK == IInv /\ [Next]_vars => IInv'
<1> SUFFICES ASSUME IInv, [Next]_vars PROVE IInv'
  OBVIOUS
<1>1. CASE UNCHANGED vars
  BY <1>1 DEF vars, IInv, TypeOK, ClienteOK, EntradaOK, ConsultaOK, EnPlazo, ServidaOK
<1>2. ASSUME NEW r \in Consultas, NEW c \in Clientes, Acierta(r, c) \/ Falta(r, c) PROVE IInv'
  BY <1>2, AciertaPaso, FaltaPaso
<1>3. ASSUME NEW r \in Consultas,
             CoreLee(r) \/ CoreResponde(r) \/ CoreFalla(r) \/ Registra(r)
      PROVE  IInv'
  BY <1>3, CoreLeePaso, CoreRespondePaso, FinPaso
<1> QED BY <1>1, <1>2, <1>3, ReiniciaPaso, TickPaso DEF Next

LEMMA InitOK == Init => IInv
<1> SUFFICES ASSUME Init PROVE IInv
  OBVIOUS
<1>1. DOMAIN cache = {} /\ cache \in [DOMAIN cache -> Entradas]
  BY DEF Init
<1>2. TypeOK
  BY <1>1, Constantes DEF Init, TypeOK, Instantes
<1>3. ASSUME NEW c \in Clientes PROVE ClienteOK(c)
  <2>1. visto[c] = Nunca /\ exito[c] = Nunca /\ reloj = 0
    BY DEF Init
  <2> QED BY <1>1, <2>1, Constantes DEF ClienteOK
<1>4. \A r \in Consultas : ConsultaOK(consulta[r])
  BY DEF Init, ConsultaOK, Libre
<1> QED BY <1>2, <1>3, <1>4 DEF IInv

\* Behind the middlewares, the guards and the filter, the cache takes the steps of ClientesCache.
LEMMA PasoDeCache == [NextHttp]_varsHttp => [Next]_vars
<1> SUFFICES ASSUME [NextHttp]_varsHttp PROVE [Next]_vars
  OBVIOUS
<1>1. CASE UNCHANGED varsHttp
  BY <1>1 DEF varsHttp, vars
<1>2. ASSUME NEW r \in Consultas, NEW c \in Clientes, Maneja(r, c) PROVE Next
  BY <1>2 DEF Maneja, Next
<1>3. ASSUME NEW r \in Consultas, CoreLee(r) \/ Responde(r) \/ Audita(r) PROVE Next
  BY <1>3 DEF Responde, Audita, Next
<1>4. ASSUME NEW r \in Consultas, NEW entrante, NEW status,
             Entra(r, entrante) \/ Rechaza(r, status) \/ Cierra(r)
      PROVE  UNCHANGED vars
  BY <1>4 DEF Entra, Rechaza, Cierra
<1>5. ReiniciaHttp \/ Tick => Next
  BY DEF ReiniciaHttp, Next
<1> QED BY <1>1, <1>2, <1>3, <1>4, <1>5 DEF NextHttp

-----------------------------------------------------------------------------
(* The ids and the audit inserts.                                          *)

\* A request before its answer sees its own id in its store, and the port is only awaited
\* by a handler.
PeticionOK(r) ==
  /\ http[r].fase \in {"guardias", "manejador"} => contexto[r] = IdPropio(r)
  /\ consulta[r].pc = "core" => http[r].fase = "manejador"

EventoOK(r) ==
  IF Servida(r)
  THEN /\ Len(auditoria[r]) = 1
       /\ auditoria[r][1].accion = IF http[r].llamado THEN "cache-miss" ELSE "cache-hit"
  ELSE auditoria[r] = << >>

\* An insert on its way is of an answer with products and says where they came from; the
\* handler of a request in the guards has not called the port, one that awaits it has.
AuditOK(r) ==
  /\ EventoOK(r)
  /\ consulta[r].pc = "auditando" =>
       /\ http[r].status = 200
       /\ consulta[r].accion = IF http[r].llamado THEN "cache-miss" ELSE "cache-hit"
  /\ http[r].fase # "contestada" => http[r].status = 0
  /\ http[r].fase = "guardias" => ~http[r].llamado
  /\ http[r].fase = "manejador" => http[r].llamado

HInv ==
  /\ http \in [Consultas -> PeticionesHttp]
  /\ contexto \in [Consultas -> IdsVistos]
  /\ auditoria \in [Consultas -> Seq(Eventos)]
  /\ \A r \in Consultas : PeticionOK(r)
  /\ UnSoloId
  /\ \A r \in Consultas : AuditOK(r)

\* What holds of one request does not depend on what the others do.
UnIdOK(r) ==
  /\ {http[r].capturado, http[r].problema} \subseteq {SinContexto, IdPropio(r)}
  /\ http[r].entrante # SinCabecera => http[r].cabecera = IdPropio(r)

\* A step that changes what one request sees and does.
LEMMA UnaPeticion ==
  ASSUME HInv, NEW r \in Consultas, NEW h \in PeticionesHttp, NEW x \in IdsVistos,
         NEW a \in Seq(Eventos),
         http' = [http EXCEPT ![r] = h], contexto' = [contexto EXCEPT ![r] = x],
         auditoria' = [auditoria EXCEPT ![r] = a],
         \A s \in Consultas \ {r} : consulta'[s] = consulta[s],
         PeticionOK(r)', UnIdOK(r)', AuditOK(r)'
  PROVE  HInv'
<1>1. ASSUME NEW s \in Consultas PROVE PeticionOK(s)' /\ UnIdOK(s)' /\ AuditOK(s)'
  <2>1. CASE s # r
    <3>1. /\ http'[s] = http[s] /\ contexto'[s] = contexto[s] /\ auditoria'[s] = auditoria[s]
          /\ consulta'[s] = consulta[s]
      BY <2>1 DEF HInv
    <3>2. PeticionOK(s)' /\ UnIdOK(s)'
      BY <3>1 DEF HInv, PeticionOK, UnSoloId, UnIdOK, IdPropio
    <3>3. AuditOK(s)
      BY DEF HInv
    <3>4. AuditOK(s)'
      BY <3>1, <3>3 DEF AuditOK, EventoOK, Servida
    <3> QED BY <3>2, <3>4
  <2> QED BY <2>1
<1>2. /\ http' \in [Consultas -> PeticionesHttp] /\ contexto' \in [Consultas -> IdsVistos]
      /\ auditoria' \in [Consultas -> Seq(Eventos)]
  BY DEF HInv
<1> QED BY <1>1, <1>2 DEF HInv, UnSoloId, UnIdOK

\* The answers of the filter have a status of the type, and none is a 200.
LEMMA Estados ==
  ASSUME NEW excepcion, \/ \E status \in {401, 429} : excepcion = HttpException(status)
                        \/ \E code \in ErroresCore : excepcion = ToHttpClientes(code)
  PROVE  StatusHttp(excepcion) \in EstadosHttp \ {0, 200}
<1>1. ASSUME NEW status \in {401, 404, 429, 502} PROVE StatusHttp(HttpException(status)) = status
  BY DEF StatusHttp, HttpException
<1>2. \A code : ToHttpClientes(code) \in {HttpException(404), HttpException(502)}
  BY DEF ToHttpClientes
<1> QED BY <1>1, <1>2 DEF EstadosHttp

LEMMA Ids ==
  ASSUME NEW r \in Consultas, NEW quien \in {"pino", "middleware"},
         NEW entrante \in Cabeceras
  PROVE  IdDe(quien, r, entrante) \in IdsVistos
BY DEF IdDe, IdsVistos, IdsHttp, Cabeceras

\* What the actions make of the record of a request.
Recibida(p, e, x) == [p EXCEPT !.fase = "guardias", !.entrante = e, !.cabecera = x]
Fallida(p, s, x) == [p EXCEPT !.fase = "contestada", !.status = s, !.problema = x]
EnManejador(p, x) == [p EXCEPT !.fase = "manejador", !.capturado = x, !.llamado = TRUE]
DesdeCache(p, s, x) == [p EXCEPT !.fase = "contestada", !.status = s, !.capturado = x]
DesdeCore(p, s) == [p EXCEPT !.fase = "contestada", !.status = s]

LEMMA RecibidaOK ==
  ASSUME NEW p \in PeticionesHttp, NEW e \in Cabeceras, NEW x \in IdsVistos
  PROVE  /\ Recibida(p, e, x) \in PeticionesHttp
         /\ Recibida(p, e, x).fase = "guardias" /\ Recibida(p, e, x).entrante = e
         /\ Recibida(p, e, x).cabecera = x /\ Recibida(p, e, x).capturado = p.capturado
         /\ Recibida(p, e, x).problema = p.problema
         /\ Recibida(p, e, x).status = p.status /\ Recibida(p, e, x).llamado = p.llamado
BY DEF PeticionesHttp, Recibida

LEMMA FallidaOK ==
  ASSUME NEW p \in PeticionesHttp, NEW s \in EstadosHttp, NEW x \in IdsVistos
  PROVE  /\ Fallida(p, s, x) \in PeticionesHttp
         /\ Fallida(p, s, x).fase = "contestada" /\ Fallida(p, s, x).problema = x
         /\ Fallida(p, s, x).capturado = p.capturado /\ Fallida(p, s, x).entrante = p.entrante
         /\ Fallida(p, s, x).cabecera = p.cabecera /\ Fallida(p, s, x).status = s
BY DEF PeticionesHttp, Fallida

LEMMA EnManejadorOK ==
  ASSUME NEW p \in PeticionesHttp, NEW x \in IdsVistos
  PROVE  /\ EnManejador(p, x) \in PeticionesHttp
         /\ EnManejador(p, x).fase = "manejador" /\ EnManejador(p, x).capturado = x
         /\ EnManejador(p, x).problema = p.problema /\ EnManejador(p, x).entrante = p.entrante
         /\ EnManejador(p, x).cabecera = p.cabecera
         /\ EnManejador(p, x).status = p.status /\ EnManejador(p, x).llamado
BY DEF PeticionesHttp, EnManejador

LEMMA DesdeCacheOK ==
  ASSUME NEW p \in PeticionesHttp, NEW s \in EstadosHttp, NEW x \in IdsVistos
  PROVE  /\ DesdeCache(p, s, x) \in PeticionesHttp /\ DesdeCache(p, s, x).capturado = x
         /\ DesdeCache(p, s, x).problema = p.problema /\ DesdeCache(p, s, x).entrante = p.entrante
         /\ DesdeCache(p, s, x).cabecera = p.cabecera
         /\ DesdeCache(p, s, x).fase = "contestada" /\ DesdeCache(p, s, x).status = s
         /\ DesdeCache(p, s, x).llamado = p.llamado
BY DEF PeticionesHttp, DesdeCache

LEMMA DesdeCoreOK ==
  ASSUME NEW p \in PeticionesHttp, NEW s \in EstadosHttp
  PROVE  /\ DesdeCore(p, s) \in PeticionesHttp /\ DesdeCore(p, s).capturado = p.capturado
         /\ DesdeCore(p, s).problema = p.problema /\ DesdeCore(p, s).entrante = p.entrante
         /\ DesdeCore(p, s).cabecera = p.cabecera
         /\ DesdeCore(p, s).fase = "contestada" /\ DesdeCore(p, s).status = s
         /\ DesdeCore(p, s).llamado = p.llamado
BY DEF PeticionesHttp, DesdeCore

LEMMA EntraHttp ==
  ASSUME HInv, NEW r \in Consultas, NEW entrante \in Cabeceras, Entra(r, entrante)
  PROVE  HInv'
<1>1. PICK ultimo \in {"pino", "middleware"} :
        http' = [http EXCEPT ![r] = [SinPeticion EXCEPT
          !.fase = "guardias", !.entrante = entrante, !.cabecera = IdDe(ultimo, r, entrante)]]
  BY DEF Entra
<1> DEFINE h == Recibida(SinPeticion, entrante, IdDe(ultimo, r, entrante))
           x == IdDe("middleware", r, entrante)
<1>2. SinPeticion \in PeticionesHttp
  BY DEF SinPeticion, PeticionesHttp, Cabeceras, IdsVistos, EstadosHttp
<1>3. x \in IdsVistos
  BY Ids
<1>4. /\ http' = [http EXCEPT ![r] = h] /\ contexto' = [contexto EXCEPT ![r] = x]
      /\ UNCHANGED consulta /\ auditoria' = [auditoria EXCEPT ![r] = auditoria[r]]
      /\ auditoria[r] \in Seq(Eventos)
  BY <1>1 DEF Entra, AbreContexto, vars, Recibida, HInv
<1>5. /\ h \in PeticionesHttp
      /\ h.fase = "guardias" /\ h.entrante = entrante /\ h.cabecera = IdDe(ultimo, r, entrante)
      /\ h.capturado = SinContexto /\ h.problema = SinContexto /\ h.status = 0 /\ h.llamado = FALSE
  <2>1. /\ SinPeticion.capturado = SinContexto /\ SinPeticion.problema = SinContexto
        /\ SinPeticion.status = 0 /\ SinPeticion.llamado = FALSE
    BY DEF SinPeticion
  <2>2. IdDe(ultimo, r, entrante) \in IdsVistos
    BY Ids
  <2> QED BY <1>2, <2>1, <2>2, RecibidaOK
<1>6. entrante # SinCabecera => IdDe(ultimo, r, entrante) = x
  BY DEF IdDe
<1>7. consulta[r].pc = "libre" /\ http[r].fase = "libre" /\ AuditOK(r)
  BY DEF Entra, Libre, HInv
<1> HIDE DEF h, x
<1>8. http'[r] = h /\ contexto'[r] = x
  BY <1>4 DEF HInv
<1>9. IdPropio(r)' = x
  BY <1>5, <1>8 DEF IdPropio, x
<1>10. PeticionOK(r)'
  BY <1>4, <1>7, <1>8, <1>9 DEF PeticionOK
<1>11. UnIdOK(r)'
  BY <1>5, <1>6, <1>8, <1>9 DEF UnIdOK
<1>12. AuditOK(r)'
  <2>1. auditoria[r] = << >>
    BY <1>7 DEF AuditOK, EventoOK, Servida
  <2> QED BY <1>4, <1>5, <1>7, <1>8, <2>1 DEF AuditOK, EventoOK, Servida
<1> QED BY <1>3, <1>4, <1>5, <1>10, <1>11, <1>12, UnaPeticion

\* The filter answers: the id it reads is the one of the request's store.
LEMMA ProblemaHttp ==
  ASSUME HInv, NEW r \in Consultas, NEW excepcion, Problema(r, excepcion),
         StatusHttp(excepcion) \in EstadosHttp \ {0, 200},
         http[r].fase \in {"guardias", "manejador"},
         consulta'[r].pc = "libre", \A s \in Consultas \ {r} : consulta'[s] = consulta[s],
         UNCHANGED <<contexto, auditoria>>
  PROVE  HInv'
<1> DEFINE h == Fallida(http[r], StatusHttp(excepcion), contexto[r])
<1>1. /\ http[r] \in PeticionesHttp /\ contexto[r] \in IdsVistos
      /\ contexto[r] = IdPropio(r) /\ UnIdOK(r)
  BY DEF HInv, PeticionOK, UnSoloId, UnIdOK
<1>3. /\ h \in PeticionesHttp
      /\ h.fase = "contestada" /\ h.problema = contexto[r] /\ h.capturado = http[r].capturado
      /\ h.entrante = http[r].entrante /\ h.cabecera = http[r].cabecera
      /\ h.status = StatusHttp(excepcion)
  BY <1>1, FallidaOK
<1>4. /\ http' = [http EXCEPT ![r] = h] /\ contexto' = [contexto EXCEPT ![r] = contexto[r]]
      /\ auditoria' = [auditoria EXCEPT ![r] = auditoria[r]] /\ auditoria[r] \in Seq(Eventos)
  BY DEF Problema, CorrelationId, HInv, Fallida
<1> HIDE DEF h
<1>5. http'[r] = h
  BY <1>4 DEF HInv
<1>6. IdPropio(r)' = IdPropio(r)
  BY <1>3, <1>5 DEF IdPropio
<1>7. PeticionOK(r)' /\ UnIdOK(r)'
  BY <1>1, <1>3, <1>5, <1>6 DEF PeticionOK, UnIdOK
<1>8. AuditOK(r)'
  <2>1. auditoria[r] = << >>
    BY DEF HInv, AuditOK, EventoOK, Servida
  <2>2. auditoria'[r] = << >> /\ http'[r].status # 200 /\ http'[r].fase = "contestada"
    BY <1>3, <1>5, <2>1
  <2> QED BY <2>2 DEF AuditOK, EventoOK, Servida
<1> QED BY <1>1, <1>3, <1>4, <1>7, <1>8, UnaPeticion

\* The handler takes the id of its store, or an answer leaves with the ids it had.
LEMMA SigueHttp ==
  ASSUME HInv, NEW r \in Consultas, NEW h \in PeticionesHttp,
         http[r].fase \in {"guardias", "manejador"},
         h.capturado \in {http[r].capturado, contexto[r]}, h.problema = http[r].problema,
         h.entrante = http[r].entrante, h.cabecera = http[r].cabecera,
         http' = [http EXCEPT ![r] = h],
         consulta'[r].pc = "core" => h.fase = "manejador",
         \A s \in Consultas \ {r} : consulta'[s] = consulta[s],
         UNCHANGED <<contexto, auditoria>>, AuditOK(r)'
  PROVE  HInv'
<1>1. contexto[r] \in IdsVistos /\ contexto[r] = IdPropio(r) /\ UnIdOK(r)
  BY DEF HInv, PeticionOK, UnSoloId, UnIdOK
<1>2. /\ http'[r] = h /\ contexto' = [contexto EXCEPT ![r] = contexto[r]]
      /\ auditoria' = [auditoria EXCEPT ![r] = auditoria[r]] /\ auditoria[r] \in Seq(Eventos)
  BY DEF HInv
<1>3. IdPropio(r)' = IdPropio(r)
  BY <1>2 DEF IdPropio
<1>4. PeticionOK(r)' /\ UnIdOK(r)'
  BY <1>1, <1>2, <1>3 DEF PeticionOK, UnIdOK
<1> QED BY <1>1, <1>2, <1>4, UnaPeticion

LEMMA ManejaHttp ==
  ASSUME IInv, HInv, NEW r \in Consultas, NEW c \in Clientes, Maneja(r, c)
  PROVE  HInv'
<1> DEFINE h1 == DesdeCache(http[r], 200, contexto[r])
           h2 == EnManejador(http[r], contexto[r])
<1>1. /\ http[r] \in PeticionesHttp /\ contexto[r] \in IdsVistos /\ 200 \in EstadosHttp
      /\ AuditOK(r) /\ http[r].fase = "guardias" /\ auditoria'[r] = auditoria[r]
  BY DEF HInv, EstadosHttp, Maneja
<1>2. /\ h1 \in PeticionesHttp /\ h1.capturado = contexto[r] /\ h1.problema = http[r].problema
      /\ h1.entrante = http[r].entrante /\ h1.cabecera = http[r].cabecera
      /\ h1.fase = "contestada" /\ h1.status = 200 /\ h1.llamado = http[r].llamado
  BY <1>1, DesdeCacheOK
<1>3. /\ h2 \in PeticionesHttp /\ h2.capturado = contexto[r] /\ h2.problema = http[r].problema
      /\ h2.entrante = http[r].entrante /\ h2.cabecera = http[r].cabecera
      /\ h2.fase = "manejador" /\ h2.status = http[r].status /\ h2.llamado
  BY <1>1, EnManejadorOK
<1>5. \A s \in Consultas \ {r} : consulta'[s] = consulta[s]
  BY DEF Maneja, Acierta, Falta, Contesta, IInv, TypeOK
<1>6. CASE Acierta(r, c) /\ http' = [http EXCEPT ![r] = h1]
  <2>1. consulta'[r].pc = "auditando" /\ consulta'[r].accion = "cache-hit" /\ consulta'[r] # Libre
    BY <1>6 DEF Acierta, Contesta, Libre, IInv, TypeOK
  <2> HIDE DEF h1
  <2>2. http'[r] = h1
    BY <1>6 DEF HInv
  <2>3. AuditOK(r)'
    BY <1>1, <1>2, <2>1, <2>2 DEF AuditOK, EventoOK, Servida
  <2> QED BY <1>1, <1>2, <1>5, <1>6, <2>1, <2>3, SigueHttp DEF Maneja
<1>7. CASE Falta(r, c) /\ http' = [http EXCEPT ![r] = h2]
  <2>1. consulta'[r].pc = "core" /\ consulta'[r] # Libre
    BY <1>7 DEF Falta, Libre, IInv, TypeOK
  <2> HIDE DEF h2
  <2>2. http'[r] = h2
    BY <1>7 DEF HInv
  <2>3. AuditOK(r)'
    BY <1>1, <1>3, <2>1, <2>2 DEF AuditOK, EventoOK, Servida
  <2> QED BY <1>1, <1>3, <1>5, <1>7, <2>3, SigueHttp DEF Maneja
<1> QED BY <1>6, <1>7 DEF Maneja, CorrelationId, DesdeCache, EnManejador

LEMMA RespondeHttp ==
  ASSUME IInv, HInv, NEW r \in Consultas, Responde(r)
  PROVE  HInv'
<1>1. consulta[r].pc = "core"
  BY DEF Responde, CoreResponde, CoreContesta, CoreFalla
<1>2. /\ http[r].fase = "manejador" /\ http[r] \in PeticionesHttp /\ AuditOK(r)
      /\ UNCHANGED <<contexto, auditoria>>
  BY <1>1 DEF HInv, PeticionOK, Responde
<1>3. \A s \in Consultas \ {r} : consulta'[s] = consulta[s]
  BY DEF Responde, CoreResponde, CoreFalla, Contesta, IInv, TypeOK
<1>4. CASE CoreResponde(r) /\ http' = [http EXCEPT ![r] = [@ EXCEPT !.fase = "contestada", !.status = 200]]
  <2> DEFINE h == DesdeCore(http[r], 200)
  <2>1. /\ h \in PeticionesHttp /\ h.capturado = http[r].capturado /\ h.problema = http[r].problema
        /\ h.entrante = http[r].entrante /\ h.cabecera = http[r].cabecera
        /\ h.fase = "contestada" /\ h.status = 200 /\ h.llamado = http[r].llamado
    BY <1>2, DesdeCoreOK DEF EstadosHttp
  <2>2. consulta'[r].pc = "auditando" /\ consulta'[r].accion = "cache-miss" /\ consulta'[r] # Libre
    BY <1>4 DEF CoreResponde, Contesta, Libre, IInv, TypeOK
  <2>3. http' = [http EXCEPT ![r] = h]
    BY <1>4 DEF DesdeCore
  <2> HIDE DEF h
  <2>4. http'[r] = h
    BY <2>3 DEF HInv
  <2>5. AuditOK(r)'
    BY <1>2, <2>1, <2>2, <2>4 DEF AuditOK, EventoOK, Servida
  <2> QED BY <1>2, <1>3, <2>1, <2>2, <2>3, <2>5, SigueHttp
<1>5. ASSUME NEW code \in ErroresCore, CoreFalla(r), Problema(r, ToHttpClientes(code))
      PROVE  HInv'
  <2>1. StatusHttp(ToHttpClientes(code)) \in EstadosHttp \ {0, 200}
    BY Estados
  <2>2. consulta'[r].pc = "libre"
    BY <1>5 DEF CoreFalla, Libre, IInv, TypeOK
  <2> QED BY <1>2, <1>3, <1>5, <2>1, <2>2, ProblemaHttp
<1> QED BY <1>4, <1>5 DEF Responde

LEMMA RechazaHttp ==
  ASSUME IInv, HInv, NEW r \in Consultas, NEW status \in {401, 429}, Rechaza(r, status)
  PROVE  HInv'
<1>1. StatusHttp(HttpException(status)) \in EstadosHttp \ {0, 200}
  BY Estados
<1>2. /\ http[r].fase = "guardias" /\ UNCHANGED consulta /\ UNCHANGED <<contexto, auditoria>>
      /\ Problema(r, HttpException(status))
  BY DEF Rechaza, vars
<1>3. consulta[r].pc = "libre"
  <2>1. consulta[r].pc \notin {"core", "auditando"}
    BY <1>2 DEF HInv, PeticionOK, AuditOK
  <2> QED BY <2>1 DEF IInv, TypeOK, Libre, EnCore, Auditando
<1> QED BY <1>1, <1>2, <1>3, ProblemaHttp

LEMMA CierraHttp ==
  ASSUME HInv, NEW r \in Consultas, Cierra(r)
  PROVE  HInv'
<1>1. /\ SinPeticion \in PeticionesHttp /\ SinContexto \in IdsVistos
      /\ SinPeticion.fase = "libre" /\ SinPeticion.capturado = SinContexto
      /\ SinPeticion.problema = SinContexto /\ SinPeticion.entrante = SinCabecera
      /\ SinPeticion.status = 0
  BY DEF SinPeticion, PeticionesHttp, Cabeceras, IdsVistos, EstadosHttp
<1>2. /\ http' = [http EXCEPT ![r] = SinPeticion] /\ contexto' = [contexto EXCEPT ![r] = SinContexto]
      /\ auditoria' = [auditoria EXCEPT ![r] = << >>] /\ << >> \in Seq(Eventos)
      /\ UNCHANGED consulta /\ consulta[r].pc = "libre"
  BY DEF Cierra, vars, Libre
<1>3. http'[r] = SinPeticion /\ auditoria'[r] = << >>
  BY <1>2 DEF HInv
<1>4. PeticionOK(r)' /\ UnIdOK(r)'
  BY <1>1, <1>2, <1>3 DEF PeticionOK, UnIdOK
<1>5. AuditOK(r)'
  BY <1>1, <1>2, <1>3 DEF AuditOK, EventoOK, Servida
<1> QED BY <1>1, <1>2, <1>4, <1>5, UnaPeticion

\* The insert of an answer ends: the first of its request, and the last.
LEMMA AuditaHttp ==
  ASSUME IInv, HInv, NEW r \in Consultas, Audita(r)
  PROVE  HInv'
<1>1. PICK guardada \in BOOLEAN :
        auditoria' = [auditoria EXCEPT
          ![r] = Append(@, [accion |-> consulta[r].accion, guardada |-> guardada])]
  BY DEF Audita
<1> DEFINE e == [accion |-> consulta[r].accion, guardada |-> guardada]
<1>2. /\ consulta[r].pc = "auditando" /\ consulta[r] # Libre /\ consulta'[r] = Libre
      /\ UNCHANGED <<http, contexto>> /\ AuditOK(r) /\ PeticionOK(r) /\ UnIdOK(r)
      /\ \A s \in Consultas \ {r} : consulta'[s] = consulta[s]
  BY DEF Audita, Registra, Libre, HInv, IInv, TypeOK, UnSoloId, UnIdOK
<1>3. auditoria[r] = << >>
  BY <1>2 DEF AuditOK, EventoOK, Servida
<1>4. e \in Eventos /\ e.accion = consulta[r].accion
  BY <1>2, Forma DEF IInv, Auditando, Eventos
<1> HIDE DEF e
<1>5. Append(<< >>, e) \in Seq(Eventos) /\ Len(Append(<< >>, e)) = 1 /\ Append(<< >>, e)[1] = e
  BY <1>4
<1>6. auditoria' = [auditoria EXCEPT ![r] = Append(<< >>, e)] /\ auditoria'[r] = Append(<< >>, e)
  BY <1>1, <1>3 DEF HInv, e
<1>7. AuditOK(r)'
  BY <1>2, <1>4, <1>5, <1>6 DEF AuditOK, EventoOK, Servida, Libre
<1>8. PeticionOK(r)' /\ UnIdOK(r)'
  BY <1>2 DEF PeticionOK, UnIdOK, IdPropio, Libre
<1>9. /\ http' = [http EXCEPT ![r] = http[r]] /\ http[r] \in PeticionesHttp
      /\ contexto' = [contexto EXCEPT ![r] = contexto[r]] /\ contexto[r] \in IdsVistos
  BY <1>2 DEF HInv
<1> QED BY <1>2, <1>5, <1>6, <1>7, <1>8, <1>9, UnaPeticion

\* The steps that leave the requests, their stores and their events alone.
LEMMA MismoHttp ==
  ASSUME HInv, UNCHANGED <<http, contexto, auditoria>>,
         \A s \in Consultas : \/ consulta'[s] = consulta[s]
                              \/ consulta[s].pc = "core" /\ consulta'[s].pc = "core"
  PROVE  HInv'
<1>1. ASSUME NEW s \in Consultas PROVE PeticionOK(s)' /\ AuditOK(s)'
  <2>1. PeticionOK(s)'
    BY DEF HInv, PeticionOK, IdPropio
  <2>2. AuditOK(s)
    BY DEF HInv
  <2>3. CASE consulta'[s] = consulta[s]
    BY <2>1, <2>2, <2>3 DEF AuditOK, EventoOK, Servida
  <2>4. CASE consulta[s].pc = "core" /\ consulta'[s].pc = "core"
    BY <2>1, <2>2, <2>4 DEF AuditOK, EventoOK, Servida, Libre
  <2> QED BY <2>1, <2>3, <2>4
<1> QED BY <1>1 DEF HInv, UnSoloId, IdPropio

LEMMA NextHttpOK == IInv /\ HInv /\ [NextHttp]_varsHttp => HInv'
<1> SUFFICES ASSUME IInv, HInv, [NextHttp]_varsHttp PROVE HInv'
  OBVIOUS
<1>1. CASE UNCHANGED varsHttp
  BY <1>1, MismoHttp DEF varsHttp
<1>2. ASSUME NEW r \in Consultas,
             \/ \E entrante \in Cabeceras : Entra(r, entrante)
             \/ \E status \in {401, 429} : Rechaza(r, status)
             \/ \E c \in Clientes : Maneja(r, c)
             \/ Responde(r) \/ Cierra(r)
      PROVE  HInv'
  BY <1>2, EntraHttp, RechazaHttp, ManejaHttp, RespondeHttp, CierraHttp
<1>3. ASSUME NEW r \in Consultas, CoreLee(r), UNCHANGED <<http, contexto, auditoria>>
      PROVE  HInv'
  <2>1. consulta[r] \in EnCore /\ consulta'[r] = [consulta[r] EXCEPT !.leido = reloj]
    BY <1>3, Forma DEF CoreLee, IInv, TypeOK
  <2>2. consulta[r].pc = "core" /\ consulta'[r].pc = "core"
    BY <2>1 DEF EnCore
  <2>3. \A s \in Consultas \ {r} : consulta'[s] = consulta[s]
    BY <1>3 DEF CoreLee, IInv, TypeOK
  <2> QED BY <1>3, <2>2, <2>3, MismoHttp
<1>4. ASSUME NEW r \in Consultas, Audita(r) PROVE HInv'
  BY <1>4, AuditaHttp
<1>5. CASE ReiniciaHttp
  <2>1. /\ SinPeticion \in PeticionesHttp /\ SinContexto \in IdsVistos
        /\ SinPeticion.fase = "libre" /\ SinPeticion.capturado = SinContexto
        /\ SinPeticion.problema = SinContexto /\ SinPeticion.entrante = SinCabecera
        /\ SinPeticion.status = 0
    BY DEF SinPeticion, PeticionesHttp, Cabeceras, IdsVistos, EstadosHttp
  <2>2. /\ http' = [r \in Consultas |-> SinPeticion] /\ contexto' = [r \in Consultas |-> SinContexto]
        /\ auditoria' = [r \in Consultas |-> << >>] /\ << >> \in Seq(Eventos)
        /\ \A r \in Consultas : consulta'[r].pc = "libre"
    BY <1>5 DEF ReiniciaHttp, Reinicia, Libre
  <2> HIDE DEF SinPeticion
  <2>3. \A r \in Consultas : AuditOK(r)'
    BY <2>1, <2>2 DEF AuditOK, EventoOK, Servida
  <2> QED BY <2>1, <2>2, <2>3 DEF HInv, PeticionOK, UnSoloId
<1>6. CASE Tick /\ UNCHANGED <<http, contexto, auditoria>>
  BY <1>6, MismoHttp DEF Tick
<1> QED BY <1>1, <1>2, <1>3, <1>4, <1>5, <1>6 DEF NextHttp

LEMMA InitHttpOK == InitHttp => HInv
<1> SUFFICES ASSUME InitHttp PROVE HInv
  OBVIOUS
<1>1. /\ SinPeticion \in PeticionesHttp /\ SinContexto \in IdsVistos
      /\ SinPeticion.fase = "libre" /\ SinPeticion.capturado = SinContexto
      /\ SinPeticion.problema = SinContexto /\ SinPeticion.entrante = SinCabecera
      /\ SinPeticion.status = 0
  BY DEF SinPeticion, PeticionesHttp, Cabeceras, IdsVistos, EstadosHttp
<1>2. /\ http = [r \in Consultas |-> SinPeticion] /\ contexto = [r \in Consultas |-> SinContexto]
      /\ auditoria = [r \in Consultas |-> << >>] /\ << >> \in Seq(Eventos)
      /\ \A r \in Consultas : consulta[r].pc = "libre"
  BY DEF InitHttp, Init, Libre
<1> HIDE DEF SinPeticion
<1>3. \A r \in Consultas : AuditOK(r)
  BY <1>1, <1>2 DEF AuditOK, EventoOK, Servida
<1> QED BY <1>1, <1>2, <1>3 DEF HInv, PeticionOK, UnSoloId

-----------------------------------------------------------------------------
(* The theorems.                                                           *)

LEMMA Invariantes == SpecHttp => [](IInv /\ HInv)
<1>1. InitHttp => IInv /\ HInv
  BY InitOK, InitHttpOK DEF InitHttp
<1>2. IInv /\ HInv /\ [NextHttp]_varsHttp => (IInv /\ HInv)'
  BY NextOK, NextHttpOK, PasoDeCache
<1> QED BY <1>1, <1>2, PTL DEF SpecHttp

\* Every reachable state of the endpoint is of its type.
THEOREM TiposHttp == SpecHttp => []TypeOKHttp
<1>1. IInv /\ HInv => TypeOKHttp
  BY DEF IInv, HInv, TypeOKHttp
<1> QED BY <1>1, Invariantes, PTL

\* No answer, of the cache or of the Core, is as old as an entry's life and a call's deadline.
THEOREM Frescura == SpecHttp => []FrescuraAcotada
<1>1. IInv => FrescuraAcotada
  BY DEF IInv, ConsultaOK, ServidaOK, FrescuraAcotada
<1> QED BY <1>1, Invariantes, PTL

\* An answer with products leaves one audit insert, of a hit or of a miss as it was; a request
\* stopped by the guards or failed by the Core leaves none.
THEOREM AuditoriaExacta == SpecHttp => []UnEventoPorRespuesta
<1>1. HInv => UnEventoPorRespuesta
  BY DEF HInv, AuditOK, EventoOK, UnEventoPorRespuesta
<1> QED BY <1>1, Invariantes, PTL

\* One id follows a request to the Core, the audit and the problem it answers.
THEOREM IdUnico == SpecHttp => []UnSoloId
<1>1. HInv => UnSoloId
  BY DEF HInv
<1> QED BY <1>1, Invariantes, PTL

\* Who leaves the idle state for the Core is a miss.
LEMMA AlCoreSoloFalta ==
  ASSUME IInv, Next, NEW r \in Consultas,
         consulta[r] = Libre, consulta'[r] # Libre, consulta'[r].pc = "core"
  PROVE  \E c \in Clientes : Falta(r, c)
<1>1. ASSUME NEW s \in Consultas, NEW c \in Clientes, Acierta(s, c) PROVE FALSE
  BY <1>1 DEF Acierta, Contesta, IInv, TypeOK
<1>2. ASSUME NEW s \in Consultas, NEW c \in Clientes, Falta(s, c) PROVE s = r
  BY <1>2 DEF Falta, IInv, TypeOK
<1>3. ASSUME NEW s \in Consultas, CoreLee(s) PROVE FALSE
  BY <1>3 DEF CoreLee, Libre, IInv, TypeOK
<1>4. ASSUME NEW s \in Consultas, CoreResponde(s) PROVE FALSE
  BY <1>4 DEF CoreResponde, Contesta, Libre, IInv, TypeOK
<1>5. ASSUME NEW s \in Consultas, CoreFalla(s) \/ Registra(s) PROVE FALSE
  BY <1>5 DEF CoreFalla, Registra, IInv, TypeOK
<1>6. ~Reinicia /\ ~Tick
  BY DEF Reinicia, Tick
<1> QED BY <1>1, <1>2, <1>3, <1>4, <1>5, <1>6 DEF Next

\* Who answers is a hit of a good entry or the answer of the port.
LEMMA RespondeAciertoOCore ==
  ASSUME IInv, Next, NEW r \in Consultas,
         consulta'[r] # consulta[r], consulta'[r].pc = "auditando"
  PROVE  (\E c \in Clientes : Acierta(r, c)) \/ CoreResponde(r)
<1>1. ASSUME NEW s \in Consultas, NEW c \in Clientes, Acierta(s, c) PROVE s = r
  BY <1>1 DEF Acierta, Contesta, IInv, TypeOK
<1>2. ASSUME NEW s \in Consultas, NEW c \in Clientes, Falta(s, c) PROVE FALSE
  BY <1>2 DEF Falta, IInv, TypeOK
<1>3. ASSUME NEW s \in Consultas, CoreLee(s) PROVE FALSE
  <2>1. s = r
    BY <1>3 DEF CoreLee, IInv, TypeOK
  <2>2. consulta[r] \in EnCore
    BY <1>3, <2>1, Forma DEF CoreLee, IInv
  <2>3. consulta'[r].pc = consulta[r].pc
    BY <1>3, <2>1, <2>2 DEF CoreLee, IInv, TypeOK, EnCore
  <2> QED BY <1>3, <2>1, <2>3 DEF CoreLee
<1>4. ASSUME NEW s \in Consultas, CoreResponde(s) PROVE s = r
  BY <1>4 DEF CoreResponde, Contesta, IInv, TypeOK
<1>5. ASSUME NEW s \in Consultas, CoreFalla(s) \/ Registra(s) PROVE FALSE
  BY <1>5 DEF CoreFalla, Registra, Libre, IInv, TypeOK
<1>6. ~Reinicia /\ ~Tick
  BY DEF Reinicia, Tick, Libre
<1> QED BY <1>1, <1>2, <1>3, <1>4, <1>5, <1>6 DEF Next

\* Less than TTL after a success the Core is not asked again for that client.
THEOREM HitTrasExito == SpecHttp => ExitoRecienteEsHit
<1> DEFINE Reciente ==
      \A r \in Consultas :
        consulta[r] = Libre /\ consulta'[r] # Libre /\ consulta'[r].pc = "core" =>
          LET c == consulta'[r].cliente
          IN exito[c] = Nunca \/ reloj >= exito[c] + TTL
<1>1. ASSUME IInv, Next, NEW r \in Consultas,
             consulta[r] = Libre, consulta'[r] # Libre, consulta'[r].pc = "core"
      PROVE  LET c == consulta'[r].cliente
             IN exito[c] = Nunca \/ reloj >= exito[c] + TTL
  <2>1. PICK c \in Clientes : Falta(r, c)
    BY <1>1, AlCoreSoloFalta
  <2>2. consulta'[r].cliente = c /\ ~Vigente(c) /\ ClienteOK(c)
    BY <1>1, <2>1 DEF Falta, IInv, TypeOK
  <2>3. c \in DOMAIN cache => cache[c].expiresAt \in Int
    BY <1>1, Constantes DEF IInv, TypeOK, Entradas
  <2>4. reloj \in Int /\ (exito[c] # Nunca => exito[c] \in Int)
    BY <1>1, Constantes DEF IInv, TypeOK, Instantes
  <2> QED BY <2>2, <2>3, <2>4, Constantes DEF Vigente, ClienteOK
<1>2. IInv /\ [Next]_vars => [Reciente]_vars
  BY <1>1
<1>3. SpecHttp => [][Reciente]_vars
  BY <1>2, PasoDeCache, Invariantes, PTL DEF SpecHttp
<1> QED BY <1>3 DEF ExitoRecienteEsHit

\* A client is never served a datum older than one seen before by more than a call.
THEOREM Retroceso == SpecHttp => RetrocesoAcotado
<1> DEFINE Acotado ==
      \A r \in Consultas :
        consulta'[r] # consulta[r] /\ consulta'[r].pc = "auditando" =>
          consulta'[r].leido >= visto[consulta'[r].cliente] - Plazo
<1>1. ASSUME IInv, Next, NEW r \in Consultas,
             consulta'[r] # consulta[r], consulta'[r].pc = "auditando"
      PROVE  consulta'[r].leido >= visto[consulta'[r].cliente] - Plazo
  <2>1. \A c \in Clientes : visto[c] \in Int /\ visto[c] <= reloj
    BY <1>1, Constantes DEF IInv, TypeOK, ClienteOK, Instantes
  <2>2. ASSUME NEW c \in Clientes, Acierta(r, c)
        PROVE  consulta'[r].leido >= visto[consulta'[r].cliente] - Plazo
    <3>1. consulta'[r].cliente = c /\ consulta'[r].leido = cache[c].leido
      BY <1>1, <2>2 DEF Acierta, Contesta, IInv, TypeOK
    <3>2. visto[c] <= cache[c].leido + Plazo /\ cache[c].leido \in Int
      BY <1>1, <2>2, Constantes DEF Acierta, Vigente, IInv, TypeOK, Entradas, Instantes, ClienteOK, EntradaOK
    <3> QED BY <2>1, <3>1, <3>2, Constantes
  <2>3. CASE CoreResponde(r)
    <3>1. consulta'[r].cliente = consulta[r].cliente /\ consulta'[r].leido = consulta[r].leido
      BY <1>1, <2>3 DEF CoreResponde, Contesta, IInv, TypeOK
    <3>2. /\ consulta[r].cliente \in Clientes /\ consulta[r].leido \in Int
          /\ reloj \in Int /\ reloj <= consulta[r].leido + Plazo
      BY <1>1, <2>3, RespuestaFresca, Constantes DEF CoreResponde, IInv, TypeOK, Instantes
    <3> QED BY <2>1, <3>1, <3>2, Constantes
  <2> QED BY <1>1, <2>2, <2>3, RespondeAciertoOCore
<1>2. IInv /\ [Next]_vars => [Acotado]_vars
  BY <1>1
<1>3. SpecHttp => [][Acotado]_vars
  BY <1>2, PasoDeCache, Invariantes, PTL DEF SpecHttp
<1> QED BY <1>3 DEF RetrocesoAcotado
=============================================================================
