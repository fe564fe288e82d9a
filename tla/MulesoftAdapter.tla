--------------------------- MODULE MulesoftAdapter ----------------------------
(***************************************************************************)
(* MulesoftAdapter: an axios request with its timeout, the retries of      *)
(* axios-retry around it, and the opossum breaker around both.  The four   *)
(* operations of the port all go this way (withBreaker), each with a       *)
(* breaker of its own, so a module is one operation: several executions    *)
(* share its breaker, as the requests of one process do.                   *)
(*                                                                         *)
(* The breaker answers the caller when its own timeout fires and forgets   *)
(* the execution, but nothing cancels the axios request under it: the      *)
(* attempts go on, and so does the Core.  An execution is therefore a      *)
(* chain of attempts and, apart from it, the answer of its caller.         *)
(*                                                                         *)
(* Time is a clock of ticks per execution and per attempt.  A timer of     *)
(* Node fires when it is due: Tick may not pass a deadline.                *)
(***************************************************************************)
EXTENDS Integers, FiniteSets, Errores

CONSTANTS
  Ejecuciones,       \* calls of the operation in flight at once in the process
  MaxRetries,        \* CORE_BANKING_MAX_RETRIES
  Timeout,           \* CORE_BANKING_TIMEOUT_MS, in ticks
  Margen,            \* the 1000 ms the breaker adds to it, in ticks
  MaxEspera,         \* bound: longest backoff between two attempts, in ticks
  Volumen,           \* volumeThreshold
  MaxDisparos,       \* bound: executions counted in one rolling window
  DecisionesCore     \* bound: the decisions the Core takes in the instance

VARIABLES
  ejecucion,   \* each execution: its attempts, its clocks, its answer
  circuito,    \* the state of the breaker
  sonda,       \* pendingClose: the half-open breaker will let one execution through
  disparos,    \* executions fired in the rolling window
  fallos       \* of which failed

vars == <<ejecucion, circuito, sonda, disparos, fallos>>

PlazoBreaker == Timeout + Margen

\* How an attempt ends.  "ilegible" is a 2xx with a body the mapper cannot read; "timeout"
\* is axios giving up (ECONNABORTED); "destino" a network error that says the host cannot
\* be reached at all (ENOTFOUND, a certificate), "red" any other one.
Resultados == {"2xx", "ilegible", "404", "422", "otro4xx", "5xx", "red", "destino", "timeout"}

\* What the Core may do with a call.
Decisiones == {"abierta", "404", "rechazada", "otro4xx"}

ASSUME AdapterAssumption ==
  /\ {MaxRetries, MaxEspera, MaxDisparos} \subseteq Nat
  /\ {Timeout, Margen, Volumen} \subseteq Nat \ {0}
  /\ DecisionesCore \subseteq Decisiones

\* A client that takes only the 2xx for an answer (the default validateStatus).
Resuelve_Solo2xx(resultado) == resultado = "2xx"

\* validateStatus: below 500 the promise of axios resolves, and so does the function of
\* the operation unless its mapper throws.
Resuelve(resultado) == resultado \in {"2xx", "404", "422", "otro4xx"}

\* Timeouts retried too.
Reintentable_Timeout(resultado) == resultado \in {"5xx", "red", "timeout"}

\* The retryCondition: isNetworkError leaves ECONNABORTED and the hopeless ones out.
Reintentable(resultado) == resultado \in {"5xx", "red"}

\* The status not looked at: whatever resolves is an answer.
RespuestaDe_SinMirarStatus(resultado) == "ok"

\* handle and toDomainError: the Result the caller gets of an attempt that resolves.  Of the
\* 4xx only the 422 is a refusal of the business.
RespuestaDe(resultado) ==
  CASE resultado = "2xx"     -> "ok"
    [] resultado = "404"     -> "CORE_NOT_FOUND"
    [] resultado = "422"     -> "CORE_BUSINESS_VALIDATION"
    [] resultado = "otro4xx" -> "CORE_UPSTREAM_UNAVAILABLE"

\* What the caller gets of an attempt that does not: the fallback of the breaker throws
\* CoreBankingCircuitOpenError whatever the failure was.
RespuestaDeFallback == "CORE_CIRCUIT_OPEN"

Respuestas == {"ninguna", "ok"} \cup ErroresCore

\* The answers its decision gives to every attempt that carries the call's key.
ResultadosDe(decision) ==
  CASE decision = "abierta"   -> {"2xx", "ilegible"}
    [] decision = "rechazada" -> {"422"}
    [] decision \in {"404", "otro4xx"} -> {decision}
    [] OTHER -> {}

-----------------------------------------------------------------------------
Fases == {"libre", "intento", "espera"}

EjecucionNueva ==
  [ fase |-> "libre", intentos |-> 0, reloj |-> 0, relojFase |-> 0,
    core |-> "sin llamada", ultimo |-> "ninguno", respuesta |-> "ninguna" ]

TypeOK ==
  /\ ejecucion \in [Ejecuciones ->
       [ fase : Fases, intentos : 0 .. MaxRetries + 1, reloj : 0 .. PlazoBreaker,
         relojFase : 0 .. Timeout + MaxEspera,
         core : {"sin llamada", "nada"} \cup Decisiones,
         ultimo : {"5xx", "red", "ninguno"}, respuesta : Respuestas ]]
  /\ circuito \in {"closed", "open", "halfOpen"}
  /\ sonda \in BOOLEAN
  /\ disparos \in 0 .. MaxDisparos
  /\ fallos \in 0 .. MaxDisparos

Init ==
  /\ ejecucion = [e \in Ejecuciones |-> EjecucionNueva]
  /\ circuito = "closed"
  /\ sonda = FALSE
  /\ disparos = 0
  /\ fallos = 0

\* The breaker holds the call of e and has not answered its caller.
Pendiente(e) == ejecucion[e].fase # "libre" /\ ejecucion[e].respuesta = "ninguna"

-----------------------------------------------------------------------------
(* The breaker (opossum, with the options of getBreaker).                  *)

\* Opening and closing both withdraw a probe that was not used.
CambiaCircuito(nuevo) ==
  /\ circuito' = nuevo
  /\ sonda' = (sonda /\ nuevo = circuito)

\* The failure of an execution: over half of a window of at least Volumen opens the
\* circuit, and any failure opens it again while it is half-open.  The count stops at
\* MaxDisparos: already all the executions of the window failed.
FallaEnBreaker ==
  /\ fallos' = IF fallos < MaxDisparos THEN fallos + 1 ELSE fallos
  /\ CambiaCircuito(IF circuito = "halfOpen" \/ (disparos >= Volumen /\ 2 * fallos' > disparos)
                    THEN "open" ELSE circuito)
  /\ UNCHANGED disparos

\* A success closes a half-open circuit, whichever execution it is of.
ExitoEnBreaker ==
  /\ CambiaCircuito(IF circuito = "halfOpen" THEN "closed" ELSE circuito)
  /\ UNCHANGED <<disparos, fallos>>

\* resetTimeout: the open circuit will try one execution.
PasaASemiabierto ==
  /\ circuito = "open"
  /\ circuito' = "halfOpen"
  /\ sonda' = TRUE
  /\ UNCHANGED <<ejecucion, disparos, fallos>>

\* The rolling window moves on and forgets its oldest buckets; an execution in flight
\* may still fail in a window that does not count it any more.
GiraVentana(d, f) ==
  /\ d < disparos \/ f < fallos
  /\ disparos' = d
  /\ fallos' = f
  /\ UNCHANGED <<ejecucion, circuito, sonda>>

-----------------------------------------------------------------------------
(* An execution.                                                           *)

\* An operation is called: breaker.fire with the circuit closed, or as the probe of the half-open one.
Dispara(e) ==
  /\ ejecucion[e].fase = "libre"
  /\ disparos < MaxDisparos
  /\ circuito = "closed" \/ sonda
  /\ ejecucion' = [ejecucion EXCEPT ![e] =
       [EjecucionNueva EXCEPT !.fase = "intento", !.intentos = 1, !.core = "nada"]]
  /\ disparos' = disparos + 1
  /\ sonda' = FALSE
  /\ UNCHANGED <<circuito, fallos>>

\* breaker.fire with the circuit open: the fallback at once, and no request leaves.
DisparaEnVano(e) ==
  /\ ejecucion[e].fase = "libre"
  /\ disparos < MaxDisparos
  /\ circuito # "closed" /\ ~sonda
  /\ ejecucion' = [ejecucion EXCEPT ![e] = [EjecucionNueva EXCEPT !.respuesta = RespuestaDeFallback]]
  /\ disparos' = disparos + 1
  /\ UNCHANGED <<circuito, sonda, fallos>>

\* The Core decides on the call: any attempt that reached it carries the same key.
CoreDecide(e, decision) ==
  /\ ejecucion[e].core = "nada"
  /\ ejecucion' = [ejecucion EXCEPT ![e].core = decision]
  /\ UNCHANGED <<circuito, sonda, disparos, fallos>>

\* What the attempt in flight of e may end with now.
ResultadosPosibles(e) ==
  {"5xx", "red", "destino"} \cup {r \in {"timeout"} : ejecucion[e].relojFase = Timeout}
                 \cup ResultadosDe(ejecucion[e].core)

\* Retries without their limit.
Reintenta_SinLimite(e, resultado) ==
  /\ ejecucion[e].fase = "intento"
  /\ resultado \in ResultadosPosibles(e)
  /\ Reintentable(resultado)
  /\ ejecucion' = [ejecucion EXCEPT ![e].fase = "espera", ![e].relojFase = 0, ![e].ultimo = resultado]
  /\ UNCHANGED <<circuito, sonda, disparos, fallos>>

\* An attempt fails and axios-retry schedules the next one.
Reintenta(e, resultado) ==
  /\ ejecucion[e].fase = "intento"
  /\ resultado \in ResultadosPosibles(e)
  /\ Reintentable(resultado)
  /\ ejecucion[e].intentos <= MaxRetries
  /\ ejecucion' = [ejecucion EXCEPT ![e].fase = "espera", ![e].relojFase = 0, ![e].ultimo = resultado]
  /\ UNCHANGED <<circuito, sonda, disparos, fallos>>

\* The backoff is over; shouldResetTimeout gives the new attempt a whole timeout.
NuevoIntento(e) ==
  /\ ejecucion[e].fase = "espera"
  /\ ejecucion' = [ejecucion EXCEPT ![e].fase = "intento", ![e].relojFase = 0,
                                    ![e].intentos = @ + 1, ![e].ultimo = "ninguno"]
  /\ UNCHANGED <<circuito, sonda, disparos, fallos>>

\* The chain ends with an attempt that is not retried.  When the breaker had answered
\* already it drops the result.
Termina(e, resultado) ==
  /\ ejecucion[e].fase = "intento"
  /\ resultado \in ResultadosPosibles(e)
  /\ Reintentable(resultado) => ejecucion[e].intentos = MaxRetries + 1
  /\ LET respuesta == IF ~Pendiente(e) THEN ejecucion[e].respuesta
                      ELSE IF Resuelve(resultado) THEN RespuestaDe(resultado)
                      ELSE RespuestaDeFallback
     IN ejecucion' = [ejecucion EXCEPT ![e].fase = "libre", ![e].intentos = 0,
                                       ![e].respuesta = respuesta,
                                       ![e].reloj = 0, ![e].relojFase = 0]
  /\ IF ~Pendiente(e) THEN UNCHANGED <<circuito, sonda, disparos, fallos>>
     ELSE IF Resuelve(resultado) THEN ExitoEnBreaker
     ELSE FallaEnBreaker

\* A timeout answered to the caller but not counted as a failure.
VenceBreaker_NoCuenta(e) ==
  /\ Pendiente(e)
  /\ ejecucion[e].reloj = PlazoBreaker
  /\ ejecucion' = [ejecucion EXCEPT ![e].respuesta = RespuestaDeFallback, ![e].reloj = 0]
  /\ UNCHANGED <<circuito, sonda, disparos, fallos>>

\* The timeout of the breaker: the caller gets the fallback, the chain goes on.
VenceBreaker(e) ==
  /\ Pendiente(e)
  /\ ejecucion[e].reloj = PlazoBreaker
  /\ ejecucion' = [ejecucion EXCEPT ![e].respuesta = RespuestaDeFallback, ![e].reloj = 0]
  /\ FallaEnBreaker

\* The next deadline of e is not now.
PuedeEsperar(e) ==
  /\ Pendiente(e) => ejecucion[e].reloj < PlazoBreaker
  /\ ejecucion[e].fase = "intento" => ejecucion[e].relojFase < Timeout
  /\ ejecucion[e].fase = "espera" => ejecucion[e].relojFase < MaxEspera

Tick ==
  /\ \E e \in Ejecuciones : ejecucion[e].fase # "libre"
  /\ \A e \in Ejecuciones : PuedeEsperar(e)
  /\ ejecucion' = [e \in Ejecuciones |->
       [ejecucion[e] EXCEPT
          !.reloj     = IF Pendiente(e) THEN @ + 1 ELSE @,
          !.relojFase = IF ejecucion[e].fase = "libre" THEN @ ELSE @ + 1]]
  /\ UNCHANGED <<circuito, sonda, disparos, fallos>>

-----------------------------------------------------------------------------
\* A client and a breaker without their timeouts.
Vence_SinPlazos(e) == NuevoIntento(e)

\* What the timers of Node do for an execution: the backoff, the timeout of axios and the
\* one of the breaker.
Vence(e) == NuevoIntento(e) \/ VenceBreaker(e) \/ Termina(e, "timeout")

\* What the network does, an answer or a failure, and the retries that follow.
Llega(e) ==
  \/ \E resultado \in Resultados : Reintenta(e, resultado)
  \/ \E resultado \in Resultados \ {"timeout"} : Termina(e, resultado)

Next ==
  \/ \E e \in Ejecuciones :
       \/ Dispara(e)
       \/ DisparaEnVano(e)
       \/ Vence(e)
       \/ Llega(e)
       \/ \E decision \in DecisionesCore : CoreDecide(e, decision)
  \/ Tick
  \/ PasaASemiabierto
  \/ \E d \in 0 .. disparos, f \in 0 .. fallos : GiraVentana(d, f)

Spec == Init /\ [][Next]_vars

\* Time passes and the timers of Node fire.  The network and the Core owe nothing.
Fairness == WF_vars(Tick) /\ \A e \in Ejecuciones : WF_vars(Vence(e))

FairSpec == Spec /\ Fairness

-----------------------------------------------------------------------------
(* Properties.                                                             *)

\* A half-open circuit has its probe at hand or in flight; otherwise nothing would ever
\* close it and the process would refuse every call until it is restarted.
SemiabiertoTieneSonda ==
  circuito = "halfOpen" => sonda \/ \E e \in Ejecuciones : Pendiente(e)

Negocio == {"404", "422", "otro4xx"}

\* A refusal of the Core, a business outcome, never opens the circuit for the others
\* (validateStatus lets it resolve).
NegocioNoAbreCircuito ==
  [][\A e \in Ejecuciones, resultado \in Negocio :
       Termina(e, resultado) /\ circuito' = "open" => circuito = "open"]_vars

\* An attempt that got its answer, or timed out, is not repeated: only a 5xx or a network
\* error is (retryCondition).
SoloReintentaLoTransitorio ==
  [][\A e \in Ejecuciones :
       ejecucion[e].fase # "libre" /\ ejecucion'[e].intentos > ejecucion[e].intentos
         => /\ ejecucion[e].ultimo \in {"5xx", "red"}
            /\ ejecucion'[e].intentos <= MaxRetries + 1]_vars

\* Every caller gets an answer, although the attempts together may outlast any deadline.
TodaLlamadaResponde == \A e \in Ejecuciones : Pendiente(e) ~> ~Pendiente(e)

\* The answer seen by finalizar.
Desenlace(respuesta) ==
  CASE respuesta = "ninguna"       -> "ninguna"
    [] respuesta = "ok"            -> "ok"
    [] respuesta = "CORE_BUSINESS_VALIDATION" -> "negocio"
    [] OTHER                       -> "falla"

\* A call that never left has no more of the Core than one it has not decided on.
DecisionVista(decision) == IF decision = "sin llamada" THEN "nada" ELSE decision

Puerto ==
  INSTANCE PuertoCore WITH
    core      <- [e \in Ejecuciones |-> DecisionVista(ejecucion[e].core)],
    respuesta <- [e \in Ejecuciones |-> Desenlace(ejecucion[e].respuesta)]

\* With its retries, timeouts and breaker the adapter is the port Solicitudes assumes: one
\* answer per call, ok only for a product the Core opened, and a refusal of the business only
\* for a call the Core refused with what toDomainError takes for one, a 422: never for a
\* failure, a timeout or an open circuit.  The documents want more (RechazoEsNegocio).
ImplementaPuerto == Puerto!Spec

\* HANDBOOK 2.5 and 2.4: a 4xx of the Core is an error of the business, which sends the
\* solicitud back to IN_REVIEW.  The contract of the Core has a 400 and a 401 for
\* solicitarApertura beside the 422.
RechazoEsNegocio ==
  [][\A e \in Ejecuciones :
       Pendiente(e) /\ Termina(e, "otro4xx") =>
         Desenlace(ejecucion'[e].respuesta) = "negocio"]_vars

\* HANDBOOK HU-002 CA#3 and HU-001 CA#2: when the Core answers 5xx to the last attempt
\* too, the caller of finalizar gets a 502 and that of productos-elegibles a 503.
EstadosDelHandbook ==
  [][\A e \in Ejecuciones :
       Pendiente(e) /\ Termina(e, "5xx") =>
         /\ StatusHttp(ToHttpSolicitudes(ejecucion'[e].respuesta)) = 502
         /\ StatusHttp(ToHttpClientes(ejecucion'[e].respuesta)) = 503]_vars

=============================================================================
