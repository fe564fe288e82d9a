---------------------------- MODULE ClientesCache -----------------------------
(***************************************************************************)
(* GET productos-elegibles: the cache of ClientesController in front of    *)
(* the Core, up to the audit insert an answer starts.                      *)
(*                                                                         *)
(* The datum of a client is the instant at which the Core read it, so how  *)
(* old an answer is can be told.  The cache is a Map of one process; an    *)
(* expired entry stays in it until a new one replaces it.  Between the     *)
(* lookup and the set there is the await of the port, and nothing stops a  *)
(* second request of the same client from missing too.                     *)
(***************************************************************************)
EXTENDS Integers

CONSTANTS
  Clientes,
  Consultas,   \* the requests in flight at once in the process
  TTL,         \* CACHE_TTL_MS, in ticks
  Plazo,       \* the longest the port takes: the timeout of its breaker, in ticks
  MaxReloj     \* bound: when the clock stops

ASSUME CacheAssumption == MaxReloj \in Nat /\ {TTL, Plazo} \subseteq Nat \ {0}

VARIABLES
  reloj,      \* Date.now()
  cache,      \* the Map, from the clients it has to their entries
  consulta,   \* what each request is doing
  exito,      \* history: when the Core last answered this process for each client
  visto       \* history: the newest datum each client's callers have seen

vars == <<reloj, cache, consulta, exito, visto>>

Instantes == 0 .. MaxReloj
Nunca == -1

Acciones == {"cache-hit", "cache-miss"}

Libre == [pc |-> "libre"]

\* Awaiting the port since inicio; leido is when the Core read its answer.
EnCore == [pc : {"core"}, cliente : Clientes, inicio : Instantes, leido : Instantes \cup {Nunca}]

\* Answered at servido with the datum leido; the audit event is on its way to MongoDB.
Auditando == [pc : {"auditando"}, cliente : Clientes, accion : Acciones,
              leido : Instantes, servido : Instantes]

Entradas == [leido : Instantes, expiresAt : 0 .. MaxReloj + TTL]

TypeOK ==
  /\ reloj \in Instantes
  /\ DOMAIN cache \subseteq Clientes
  /\ cache \in [DOMAIN cache -> Entradas]
  /\ consulta \in [Consultas -> {Libre} \cup EnCore \cup Auditando]
  /\ {exito, visto} \subseteq [Clientes -> Instantes \cup {Nunca}]

Init ==
  /\ reloj = 0
  /\ cache = << >>
  /\ consulta = [r \in Consultas |-> Libre]
  /\ exito = [c \in Clientes |-> Nunca]
  /\ visto = [c \in Clientes |-> Nunca]

-----------------------------------------------------------------------------
Vigente(c) == c \in DOMAIN cache /\ cache[c].expiresAt > reloj

\* The answer leaves with the datum leido, and record starts without being awaited.
Contesta(r, c, accion, leido) ==
  /\ consulta' = [consulta EXCEPT ![r] =
       [pc |-> "auditando", cliente |-> c, accion |-> accion, leido |-> leido, servido |-> reloj]]
  /\ visto' = [visto EXCEPT ![c] = IF leido > @ THEN leido ELSE @]

\* cache.set of a client.
Entrada(leido, expira) == [leido |-> leido, expiresAt |-> expira]

Pone(c, entrada) == [d \in DOMAIN cache \cup {c} |-> IF d = c THEN entrada ELSE cache[d]]

\* A hit that renews the entry, as a sliding expiry would.
Acierta_Renueva(r, c) ==
  /\ consulta[r] = Libre
  /\ Vigente(c)
  /\ Contesta(r, c, "cache-hit", cache[c].leido)
  /\ cache' = Pone(c, Entrada(cache[c].leido, reloj + TTL))
  /\ UNCHANGED <<reloj, exito>>

Acierta(r, c) ==
  /\ consulta[r] = Libre
  /\ Vigente(c)
  /\ Contesta(r, c, "cache-hit", cache[c].leido)
  /\ UNCHANGED <<reloj, cache, exito>>

\* Absent or expired: the port is called.
Falta(r, c) ==
  /\ consulta[r] = Libre
  /\ ~Vigente(c)
  /\ consulta' = [consulta EXCEPT ![r] =
       [pc |-> "core", cliente |-> c, inicio |-> reloj, leido |-> Nunca]]
  /\ UNCHANGED <<reloj, cache, exito, visto>>

\* The Core reads the products of the client.
CoreLee(r) ==
  /\ consulta[r].pc = "core"
  /\ consulta[r].leido = Nunca
  /\ consulta' = [consulta EXCEPT ![r].leido = reloj]
  /\ UNCHANGED <<reloj, cache, exito, visto>>

\* The answer of the port used without awaiting it.
CoreContesta_SinEsperar(r) == consulta[r].pc = "core"

\* The await of the port is over.
CoreContesta(r) == consulta[r].pc = "core" /\ consulta[r].leido # Nunca

\* An entry that is still good is not replaced.
PueblaCache_SinPisar(c, leido) ==
  cache' = IF Vigente(c) THEN cache ELSE Pone(c, Entrada(leido, reloj + TTL))

\* set replaces whatever is there, also an entry newer than the answer that arrives.
PueblaCache(c, leido) == cache' = Pone(c, Entrada(leido, reloj + TTL))

\* The expiry counted from the call and not from its answer.
CoreResponde_DesdeInicio(r) ==
  /\ CoreContesta(r)
  /\ LET p == consulta[r]
     IN /\ cache' = Pone(p.cliente, Entrada(p.leido, p.inicio + TTL))
        /\ exito' = [exito EXCEPT ![p.cliente] = reloj]
        /\ Contesta(r, p.cliente, "cache-miss", p.leido)
  /\ UNCHANGED reloj

\* The port answers ok.
CoreResponde(r) ==
  /\ CoreContesta(r)
  /\ LET p == consulta[r]
     IN /\ PueblaCache(p.cliente, p.leido)
        /\ exito' = [exito EXCEPT ![p.cliente] = reloj]
        /\ Contesta(r, p.cliente, "cache-miss", p.leido)
  /\ UNCHANGED reloj

\* The event recorded whatever the port answered.
CoreFalla_Audita(r) ==
  /\ consulta[r].pc = "core"
  /\ consulta' = [consulta EXCEPT ![r] =
       [pc |-> "auditando", cliente |-> consulta[r].cliente, accion |-> "cache-miss",
        leido |-> consulta[r].inicio, servido |-> reloj]]
  /\ UNCHANGED <<reloj, cache, exito, visto>>

\* The port answers an error: 404 or 502, nothing is cached and nothing audited.
CoreFalla(r) ==
  /\ consulta[r].pc = "core"
  /\ consulta' = [consulta EXCEPT ![r] = Libre]
  /\ UNCHANGED <<reloj, cache, exito, visto>>

\* The audit insert is over, well or not: record logs a failure of MongoDB and goes on.
Registra(r) ==
  /\ consulta[r].pc = "auditando"
  /\ consulta' = [consulta EXCEPT ![r] = Libre]
  /\ UNCHANGED <<reloj, cache, exito, visto>>

\* The process dies and starts again with an empty cache.
Reinicia ==
  /\ cache' = << >>
  /\ consulta' = [r \in Consultas |-> Libre]
  /\ exito' = [c \in Clientes |-> Nunca]
  /\ UNCHANGED <<reloj, visto>>

\* A call of the port does not outlast its breaker.
Tick ==
  /\ reloj < MaxReloj
  /\ \A r \in Consultas : consulta[r].pc = "core" => reloj < consulta[r].inicio + Plazo
  /\ reloj' = reloj + 1
  /\ UNCHANGED <<cache, consulta, exito, visto>>

Next ==
  \/ \E r \in Consultas :
       \/ \E c \in Clientes : Acierta(r, c) \/ Falta(r, c)
       \/ CoreLee(r) \/ CoreResponde(r) \/ CoreFalla(r)
       \/ Registra(r)
  \/ Reinicia
  \/ Tick

Spec == Init /\ [][Next]_vars

-----------------------------------------------------------------------------
(* Properties.                                                             *)

\* No answer is older than the life of an entry and the longest call that fills it
\* (getProductosElegibles: the expiry is fixed when the entry is set, and never renewed).
FrescuraAcotada ==
  \A r \in Consultas :
    consulta[r].pc = "auditando" => consulta[r].servido - consulta[r].leido < TTL + Plazo

\* HANDBOOK HU-001 CA#4: less than TTL after the Core answered for a client the process
\* does not ask it again, also when other answers for it arrived in between.
ExitoRecienteEsHit ==
  [][\A r \in Consultas :
       consulta[r] = Libre /\ consulta'[r] # Libre /\ consulta'[r].pc = "core" =>
         LET c == consulta'[r].cliente
         IN exito[c] = Nunca \/ reloj >= exito[c] + TTL]_vars

\* Concurrent misses may serve a client an older datum than the one seen before, but
\* never older by more than one call: a late answer does not outlive the newer ones.
RetrocesoAcotado ==
  [][\A r \in Consultas :
       consulta'[r] # consulta[r] /\ consulta'[r].pc = "auditando" =>
         consulta'[r].leido >= visto[consulta'[r].cliente] - Plazo]_vars
=============================================================================
