--------------------------- MODULE AdaptadorProofs -----------------------------
(***************************************************************************)
(* The safety of MulesoftAdapter for any number of calls in flight, any    *)
(* number of retries, any timeouts and any size of the rolling window, and *)
(* that it implements PuertoCore, the view of a call that Solicitudes has. *)
(***************************************************************************)
EXTENDS MulesoftAdapter, TLAPS

\* The type of an execution, its components named so that the provers need not open them.
Intentos    == 0 .. MaxRetries + 1
Relojes     == 0 .. PlazoBreaker
RelojesFase == 0 .. Timeout + MaxEspera
Cores       == {"sin llamada", "nada"} \cup Decisiones
Ultimos     == {"5xx", "red", "ninguno"}

Registro ==
  [ fase : Fases, intentos : Intentos, reloj : Relojes, relojFase : RelojesFase,
    core : Cores, ultimo : Ultimos, respuesta : Respuestas ]

\* Between two attempts there is one left, and the last one failed for a while only.
EsperaOK(x) == x.fase = "espera" => x.intentos <= MaxRetries /\ x.ultimo \in {"5xx", "red"}

AInv ==
  /\ TypeOK
  /\ SemiabiertoTieneSonda
  /\ \A e \in Ejecuciones : EsperaOK(ejecucion[e])

LEMMA Constantes ==
  /\ MaxRetries \in Nat /\ MaxEspera \in Nat /\ MaxDisparos \in Nat
  /\ Timeout \in Nat \ {0} /\ Margen \in Nat \ {0} /\ Volumen \in Nat \ {0}
  /\ PlazoBreaker \in Nat \ {0} /\ DecisionesCore \subseteq Decisiones
BY AdapterAssumption DEF PlazoBreaker

LEMMA Tipos == TypeOK <=> /\ ejecucion \in [Ejecuciones -> Registro]
                          /\ circuito \in {"closed", "open", "halfOpen"}
                          /\ sonda \in BOOLEAN
                          /\ disparos \in 0 .. MaxDisparos
                          /\ fallos \in 0 .. MaxDisparos
BY DEF TypeOK, Registro, Intentos, Relojes, RelojesFase, Cores, Ultimos

-----------------------------------------------------------------------------
(* What each step does to an execution.                                    *)

LEMMA Valores ==
  /\ 0 \in Intentos /\ 1 \in Intentos /\ 0 \in Relojes /\ 0 \in RelojesFase
  /\ {"libre", "intento", "espera"} = Fases
  /\ "nada" \in Cores /\ "sin llamada" \in Cores
  /\ "ninguno" \in Ultimos /\ "5xx" \in Ultimos /\ "red" \in Ultimos
  /\ "ninguna" \in Respuestas /\ RespuestaDeFallback \in Respuestas
BY Constantes DEF Intentos, Relojes, RelojesFase, Fases, Cores, Ultimos, Respuestas,
                  RespuestaDeFallback, ErroresCore

\* The execution e alone moves, to x.
SoloCambia(e, x) == ejecucion' = [ejecucion EXCEPT ![e] = x]

LEMMA NuevaOK ==
  /\ EjecucionNueva \in Registro
  /\ EjecucionNueva.fase = "libre" /\ EjecucionNueva.intentos = 0
  /\ EjecucionNueva.core = "sin llamada" /\ EjecucionNueva.respuesta = "ninguna"
BY Valores DEF EjecucionNueva, Registro

LEMMA DisparaCambia ==
  ASSUME NEW e \in Ejecuciones, Dispara(e)
  PROVE  \E x \in Registro :
           /\ SoloCambia(e, x)
           /\ x.fase = "intento" /\ x.intentos = 1
           /\ x.core = "nada" /\ x.respuesta = "ninguna"
<1> DEFINE x == [EjecucionNueva EXCEPT !.fase = "intento", !.intentos = 1, !.core = "nada"]
<1>1. /\ x \in Registro /\ x.fase = "intento" /\ x.intentos = 1
      /\ x.core = "nada" /\ x.respuesta = "ninguna"
  BY NuevaOK, Valores DEF Registro
<1>2. SoloCambia(e, x)
  BY DEF Dispara, SoloCambia
<1> HIDE DEF x
<1> QED BY <1>1, <1>2

LEMMA ReintentaCambia ==
  ASSUME TypeOK, NEW e \in Ejecuciones, NEW resultado, Reintenta(e, resultado)
  PROVE  \E x \in Registro :
           /\ SoloCambia(e, x)
           /\ x.fase = "espera" /\ x.intentos = ejecucion[e].intentos /\ x.ultimo = resultado
           /\ x.core = ejecucion[e].core /\ x.respuesta = ejecucion[e].respuesta
<1> DEFINE r == ejecucion[e]
           x == [r EXCEPT !.fase = "espera", !.relojFase = 0, !.ultimo = resultado]
<1>1. r \in Registro /\ ejecucion \in [Ejecuciones -> Registro]
  BY Tipos
<1>2. resultado \in {"5xx", "red"} /\ resultado \in Ultimos
  BY Valores DEF Reintenta, Reintentable
<1>3. ejecucion' = [ejecucion EXCEPT ![e] = x]
  BY <1>1 DEF Reintenta
<1> HIDE DEF r
<1>4. /\ x \in Registro /\ x.fase = "espera" /\ x.intentos = r.intentos /\ x.ultimo = resultado
      /\ x.core = r.core /\ x.respuesta = r.respuesta
  BY <1>1, <1>2, Valores DEF Registro
<1> HIDE DEF x
<1> QED BY <1>3, <1>4 DEF SoloCambia, r

LEMMA DisparaEnVanoCambia ==
  ASSUME NEW e \in Ejecuciones, DisparaEnVano(e)
  PROVE  \E x \in Registro :
           /\ SoloCambia(e, x)
           /\ x.fase = "libre" /\ x.intentos = 0
           /\ x.core = "sin llamada" /\ x.respuesta = RespuestaDeFallback
<1> DEFINE x == [EjecucionNueva EXCEPT !.respuesta = RespuestaDeFallback]
<1>1. /\ x \in Registro /\ x.fase = "libre" /\ x.intentos = 0
      /\ x.core = "sin llamada" /\ x.respuesta = RespuestaDeFallback
  BY NuevaOK, Valores DEF Registro
<1>2. SoloCambia(e, x)
  BY DEF DisparaEnVano, SoloCambia
<1> HIDE DEF x
<1> QED BY <1>1, <1>2

LEMMA CoreDecideCambia ==
  ASSUME TypeOK, NEW e \in Ejecuciones, NEW d \in DecisionesCore, CoreDecide(e, d)
  PROVE  \E x \in Registro :
           /\ SoloCambia(e, x)
           /\ x.fase = ejecucion[e].fase /\ x.intentos = ejecucion[e].intentos
           /\ x.ultimo = ejecucion[e].ultimo
           /\ x.core = d /\ x.respuesta = ejecucion[e].respuesta
<1> DEFINE r == ejecucion[e]
           x == [r EXCEPT !.core = d]
<1>1. r \in Registro /\ ejecucion \in [Ejecuciones -> Registro]
  BY Tipos
<1>2. d \in Cores
  BY Constantes DEF Cores
<1>3. ejecucion' = [ejecucion EXCEPT ![e] = x]
  BY <1>1 DEF CoreDecide
<1> HIDE DEF r
<1>4. /\ x \in Registro /\ x.fase = r.fase /\ x.intentos = r.intentos /\ x.ultimo = r.ultimo
      /\ x.core = d /\ x.respuesta = r.respuesta
  BY <1>1, <1>2 DEF Registro
<1> HIDE DEF x
<1> QED BY <1>3, <1>4 DEF SoloCambia, r

LEMMA NuevoIntentoCambia ==
  ASSUME TypeOK, NEW e \in Ejecuciones, EsperaOK(ejecucion[e]), NuevoIntento(e)
  PROVE  \E x \in Registro :
           /\ SoloCambia(e, x)
           /\ x.fase = "intento" /\ x.intentos = ejecucion[e].intentos + 1
           /\ x.core = ejecucion[e].core /\ x.respuesta = ejecucion[e].respuesta
<1> DEFINE r == ejecucion[e]
           n == r.intentos + 1
           x == [r EXCEPT !.fase = "intento", !.relojFase = 0, !.intentos = n, !.ultimo = "ninguno"]
<1>1. r \in Registro /\ ejecucion \in [Ejecuciones -> Registro]
  BY Tipos
<1>2. n \in Intentos
  BY <1>1, Constantes DEF NuevoIntento, EsperaOK, Registro, Intentos
<1>3. ejecucion' = [ejecucion EXCEPT ![e] = x]
  BY <1>1 DEF NuevoIntento
<1> HIDE DEF r, n
<1>4. /\ x \in Registro /\ x.fase = "intento" /\ x.intentos = n
      /\ x.core = r.core /\ x.respuesta = r.respuesta
  BY <1>1, <1>2, Valores DEF Registro
<1> HIDE DEF x
<1> QED BY <1>3, <1>4 DEF SoloCambia, r, n

\* What an attempt that ends the chain makes of the answer of its caller.
Contestada(e, resultado) ==
  IF ~Pendiente(e) THEN ejecucion[e].respuesta
  ELSE IF Resuelve(resultado) THEN RespuestaDe(resultado)
  ELSE RespuestaDeFallback

LEMMA RespuestaDeOK ==
  ASSUME NEW resultado, Resuelve(resultado)
  PROVE  /\ RespuestaDe(resultado) \in Respuestas
         /\ RespuestaDe(resultado) # "ninguna"
         /\ RespuestaDe(resultado) = "ok" => resultado = "2xx"
         /\ RespuestaDe(resultado) = "CORE_BUSINESS_VALIDATION" => resultado = "422"
<1>1. resultado \in {"2xx", "404", "422", "otro4xx"}
  BY DEF Resuelve
<1>2. /\ RespuestaDe("2xx") = "ok" /\ RespuestaDe("404") = "CORE_NOT_FOUND"
      /\ RespuestaDe("422") = "CORE_BUSINESS_VALIDATION"
      /\ RespuestaDe("otro4xx") = "CORE_UPSTREAM_UNAVAILABLE"
  BY DEF RespuestaDe
<1> QED BY <1>1, <1>2 DEF Respuestas, ErroresCore

LEMMA TerminaCambia ==
  ASSUME TypeOK, NEW e \in Ejecuciones, NEW resultado, Termina(e, resultado)
  PROVE  \E x \in Registro :
           /\ SoloCambia(e, x)
           /\ x.fase = "libre" /\ x.intentos = 0
           /\ x.core = ejecucion[e].core /\ x.respuesta = Contestada(e, resultado)
<1> DEFINE r == ejecucion[e]
           y == Contestada(e, resultado)
           x == [r EXCEPT !.fase = "libre", !.intentos = 0, !.respuesta = y,
                          !.reloj = 0, !.relojFase = 0]
<1>1. r \in Registro /\ ejecucion \in [Ejecuciones -> Registro]
  BY Tipos
<1>2. y \in Respuestas
  BY <1>1, RespuestaDeOK, Valores DEF Contestada, Registro
<1>3. ejecucion' = [ejecucion EXCEPT ![e] = x]
  BY <1>1 DEF Termina, Contestada
<1> HIDE DEF r, y
<1>4. /\ x \in Registro /\ x.fase = "libre" /\ x.intentos = 0
      /\ x.core = r.core /\ x.respuesta = y
  BY <1>1, <1>2, Valores DEF Registro
<1> HIDE DEF x
<1> QED BY <1>3, <1>4 DEF SoloCambia, r, y

LEMMA VenceBreakerCambia ==
  ASSUME TypeOK, NEW e \in Ejecuciones, VenceBreaker(e)
  PROVE  \E x \in Registro :
           /\ SoloCambia(e, x)
           /\ x.fase = ejecucion[e].fase /\ x.intentos = ejecucion[e].intentos
           /\ x.ultimo = ejecucion[e].ultimo
           /\ x.core = ejecucion[e].core /\ x.respuesta = RespuestaDeFallback
<1> DEFINE r == ejecucion[e]
           x == [r EXCEPT !.respuesta = RespuestaDeFallback, !.reloj = 0]
<1>1. r \in Registro /\ ejecucion \in [Ejecuciones -> Registro]
  BY Tipos
<1>2. ejecucion' = [ejecucion EXCEPT ![e] = x]
  BY <1>1 DEF VenceBreaker
<1> HIDE DEF r
<1>3. /\ x \in Registro /\ x.fase = r.fase /\ x.intentos = r.intentos /\ x.ultimo = r.ultimo
      /\ x.core = r.core /\ x.respuesta = RespuestaDeFallback
  BY <1>1, Valores DEF Registro
<1> HIDE DEF x
<1> QED BY <1>2, <1>3 DEF SoloCambia, r

\* Time moves the clocks alone, and none past its deadline.
LEMMA TickCambia ==
  ASSUME TypeOK, Tick
  PROVE  /\ ejecucion' \in [Ejecuciones -> Registro]
         /\ \A e \in Ejecuciones : LET x == ejecucion'[e] IN
              /\ x.fase = ejecucion[e].fase /\ x.intentos = ejecucion[e].intentos
              /\ x.ultimo = ejecucion[e].ultimo
              /\ x.core = ejecucion[e].core /\ x.respuesta = ejecucion[e].respuesta
<1> SUFFICES ASSUME NEW e \in Ejecuciones
             PROVE  LET x == ejecucion'[e] IN
                    /\ x \in Registro
                    /\ x.fase = ejecucion[e].fase /\ x.intentos = ejecucion[e].intentos
                    /\ x.ultimo = ejecucion[e].ultimo
                    /\ x.core = ejecucion[e].core /\ x.respuesta = ejecucion[e].respuesta
  BY DEF Tick
<1> DEFINE r == ejecucion[e]
           a == IF Pendiente(e) THEN r.reloj + 1 ELSE r.reloj
           b == IF r.fase = "libre" THEN r.relojFase ELSE r.relojFase + 1
           x == [r EXCEPT !.reloj = a, !.relojFase = b]
<1>1. r \in Registro /\ PuedeEsperar(e)
  BY Tipos DEF Tick
<1>2. a \in Relojes
  <2>1. r.reloj \in 0 .. PlazoBreaker
    BY <1>1 DEF Registro, Relojes
  <2>2. Pendiente(e) => r.reloj < PlazoBreaker
    BY <1>1 DEF PuedeEsperar
  <2> QED BY <2>1, <2>2, Constantes DEF Relojes
<1>3. b \in RelojesFase
  <2>1. r.relojFase \in 0 .. Timeout + MaxEspera /\ r.fase \in {"libre", "intento", "espera"}
    BY <1>1 DEF Registro, RelojesFase, Fases
  <2>2. /\ r.fase = "intento" => r.relojFase < Timeout
        /\ r.fase = "espera" => r.relojFase < MaxEspera
    BY <1>1 DEF PuedeEsperar
  <2> QED BY <2>1, <2>2, Constantes DEF RelojesFase
<1>4. ejecucion'[e] = x
  BY DEF Tick
<1> HIDE DEF r, a, b
<1>5. /\ x \in Registro /\ x.fase = r.fase /\ x.intentos = r.intentos /\ x.ultimo = r.ultimo
      /\ x.core = r.core /\ x.respuesta = r.respuesta
  BY <1>1, <1>2, <1>3 DEF Registro
<1> HIDE DEF x
<1> QED BY <1>4, <1>5 DEF r

LEMMA SoloCambiaOK ==
  ASSUME TypeOK, NEW e \in Ejecuciones, NEW x \in Registro, SoloCambia(e, x)
  PROVE  /\ ejecucion' \in [Ejecuciones -> Registro]
         /\ ejecucion'[e] = x
         /\ \A f \in Ejecuciones : f # e => ejecucion'[f] = ejecucion[f]
BY Tipos DEF SoloCambia

\* An execution that fails or succeeds decides the half-open circuit.
LEMMA BreakerDecide ==
  ASSUME TypeOK, FallaEnBreaker \/ ExitoEnBreaker
  PROVE  /\ circuito' \in {"closed", "open"} /\ sonda' \in BOOLEAN
         /\ disparos' \in 0 .. MaxDisparos /\ fallos' \in 0 .. MaxDisparos
<1>1. CASE FallaEnBreaker
  <2>1. fallos' \in 0 .. MaxDisparos /\ disparos' \in 0 .. MaxDisparos
    BY <1>1, Tipos, Constantes DEF FallaEnBreaker
  <2>2. circuito' \in {"closed", "open"}
    BY <1>1, Tipos DEF FallaEnBreaker, CambiaCircuito
  <2>3. sonda' \in BOOLEAN
    BY <1>1 DEF FallaEnBreaker, CambiaCircuito
  <2> QED BY <2>1, <2>2, <2>3
<1>2. CASE ExitoEnBreaker
  <2>1. circuito' \in {"closed", "open"} /\ disparos' = disparos /\ fallos' = fallos
    BY <1>2, Tipos DEF ExitoEnBreaker, CambiaCircuito
  <2>2. sonda' \in BOOLEAN
    BY <1>2 DEF ExitoEnBreaker, CambiaCircuito
  <2> QED BY <2>1, <2>2, Tipos
<1> QED BY <1>1, <1>2

-----------------------------------------------------------------------------
(* The invariant.                                                          *)

\* A step of one execution that leaves the breaker alone and the call pending as it was.
LEMMA PasoSinBreaker ==
  ASSUME AInv, NEW e \in Ejecuciones, NEW x \in Registro, SoloCambia(e, x), EsperaOK(x),
         Pendiente(e) => x.fase # "libre" /\ x.respuesta = "ninguna",
         UNCHANGED <<circuito, sonda, disparos, fallos>>
  PROVE  AInv'
<1>1. /\ ejecucion' \in [Ejecuciones -> Registro] /\ ejecucion'[e] = x
      /\ \A f \in Ejecuciones : f # e => ejecucion'[f] = ejecucion[f]
  BY SoloCambiaOK DEF AInv
<1>2. TypeOK'
  BY <1>1, Tipos DEF AInv, TypeOK, Registro, Intentos, Relojes, RelojesFase, Cores, Ultimos
<1>3. \A f \in Ejecuciones : Pendiente(f) => Pendiente(f)'
  BY <1>1 DEF Pendiente
<1>4. SemiabiertoTieneSonda'
  BY <1>3 DEF AInv, SemiabiertoTieneSonda
<1>5. \A f \in Ejecuciones : EsperaOK(ejecucion'[f])
  BY <1>1 DEF AInv
<1> QED BY <1>2, <1>4, <1>5 DEF AInv

\* A step that lets the breaker decide.
LEMMA PasoConBreaker ==
  ASSUME AInv, NEW e \in Ejecuciones, NEW x \in Registro, SoloCambia(e, x), EsperaOK(x),
         FallaEnBreaker \/ ExitoEnBreaker
  PROVE  AInv'
<1>1. /\ ejecucion' \in [Ejecuciones -> Registro] /\ ejecucion'[e] = x
      /\ \A f \in Ejecuciones : f # e => ejecucion'[f] = ejecucion[f]
  BY SoloCambiaOK DEF AInv
<1>2. /\ circuito' \in {"closed", "open"} /\ sonda' \in BOOLEAN
      /\ disparos' \in 0 .. MaxDisparos /\ fallos' \in 0 .. MaxDisparos
  BY BreakerDecide DEF AInv
<1>3. TypeOK'
  BY <1>1, <1>2 DEF TypeOK, Registro, Intentos, Relojes, RelojesFase, Cores, Ultimos
<1>4. \A f \in Ejecuciones : EsperaOK(ejecucion'[f])
  BY <1>1 DEF AInv
<1> QED BY <1>2, <1>3, <1>4 DEF AInv, SemiabiertoTieneSonda

LEMMA DisparaPaso ==
  ASSUME AInv, NEW e \in Ejecuciones, Dispara(e)
  PROVE  AInv'
<1>1. PICK x \in Registro : /\ SoloCambia(e, x) /\ x.fase = "intento" /\ x.intentos = 1
                            /\ x.core = "nada" /\ x.respuesta = "ninguna"
  BY DisparaCambia
<1>2. /\ ejecucion' \in [Ejecuciones -> Registro] /\ ejecucion'[e] = x
      /\ \A f \in Ejecuciones : f # e => ejecucion'[f] = ejecucion[f]
  BY <1>1, SoloCambiaOK DEF AInv
<1>3. /\ sonda' = FALSE /\ disparos' \in 0 .. MaxDisparos
      /\ circuito' = circuito /\ fallos' = fallos
  BY Tipos, Constantes DEF Dispara, AInv
<1>4. TypeOK'
  BY <1>2, <1>3, Tipos DEF AInv, TypeOK, Registro, Intentos, Relojes, RelojesFase, Cores, Ultimos
<1>5. Pendiente(e)'
  BY <1>1, <1>2 DEF Pendiente
<1>6. \A f \in Ejecuciones : EsperaOK(ejecucion'[f])
  BY <1>1, <1>2 DEF AInv, EsperaOK
<1> QED BY <1>4, <1>5, <1>6 DEF AInv, SemiabiertoTieneSonda

LEMMA DisparaEnVanoPaso ==
  ASSUME AInv, NEW e \in Ejecuciones, DisparaEnVano(e)
  PROVE  AInv'
<1>1. PICK x \in Registro : /\ SoloCambia(e, x) /\ x.fase = "libre" /\ x.intentos = 0
                            /\ x.core = "sin llamada" /\ x.respuesta = RespuestaDeFallback
  BY DisparaEnVanoCambia
<1>2. /\ ejecucion' \in [Ejecuciones -> Registro] /\ ejecucion'[e] = x
      /\ \A f \in Ejecuciones : f # e => ejecucion'[f] = ejecucion[f]
  BY <1>1, SoloCambiaOK DEF AInv
<1>3. /\ sonda' = sonda /\ disparos' \in 0 .. MaxDisparos
      /\ circuito' = circuito /\ fallos' = fallos
  BY Tipos, Constantes DEF DisparaEnVano, AInv
<1>4. TypeOK'
  BY <1>2, <1>3, Tipos DEF AInv, TypeOK, Registro, Intentos, Relojes, RelojesFase, Cores, Ultimos
<1>5. \A f \in Ejecuciones : Pendiente(f) => Pendiente(f)'
  BY <1>2 DEF Pendiente, DisparaEnVano
<1>6. \A f \in Ejecuciones : EsperaOK(ejecucion'[f])
  BY <1>1, <1>2 DEF AInv, EsperaOK
<1> QED BY <1>3, <1>4, <1>5, <1>6 DEF AInv, SemiabiertoTieneSonda

LEMMA TerminaPaso ==
  ASSUME AInv, NEW e \in Ejecuciones, NEW resultado, Termina(e, resultado)
  PROVE  AInv'
<1>1. PICK x \in Registro : /\ SoloCambia(e, x) /\ x.fase = "libre" /\ x.intentos = 0
                            /\ x.core = ejecucion[e].core /\ x.respuesta = Contestada(e, resultado)
  BY TerminaCambia DEF AInv
<1>2. EsperaOK(x)
  BY <1>1 DEF EsperaOK
<1>3. CASE Pendiente(e)
  BY <1>1, <1>2, <1>3, PasoConBreaker DEF Termina
<1>4. CASE ~Pendiente(e)
  BY <1>1, <1>2, <1>4, PasoSinBreaker DEF Termina
<1> QED BY <1>3, <1>4

LEMMA NextAdaptador == AInv /\ [Next]_vars => AInv'
<1> SUFFICES ASSUME AInv, [Next]_vars PROVE AInv'
  OBVIOUS
<1> USE DEF EsperaOK
<1>1. ASSUME NEW e \in Ejecuciones, NEW resultado, Reintenta(e, resultado) PROVE AInv'
  <2>1. PICK x \in Registro :
          /\ SoloCambia(e, x)
          /\ x.fase = "espera" /\ x.intentos = ejecucion[e].intentos /\ x.ultimo = resultado
          /\ x.core = ejecucion[e].core /\ x.respuesta = ejecucion[e].respuesta
    BY <1>1, ReintentaCambia DEF AInv
  <2> QED BY <1>1, <2>1, PasoSinBreaker DEF Reintenta, Reintentable, Pendiente
<1>2. ASSUME NEW e \in Ejecuciones, NuevoIntento(e) PROVE AInv'
  <2>1. PICK x \in Registro :
          /\ SoloCambia(e, x)
          /\ x.fase = "intento" /\ x.intentos = ejecucion[e].intentos + 1
          /\ x.core = ejecucion[e].core /\ x.respuesta = ejecucion[e].respuesta
    BY <1>2, NuevoIntentoCambia DEF AInv
  <2> QED BY <1>2, <2>1, PasoSinBreaker DEF NuevoIntento, Pendiente
<1>3. ASSUME NEW e \in Ejecuciones, VenceBreaker(e) PROVE AInv'
  <2>1. PICK x \in Registro :
          /\ SoloCambia(e, x)
          /\ x.fase = ejecucion[e].fase /\ x.intentos = ejecucion[e].intentos
          /\ x.ultimo = ejecucion[e].ultimo
          /\ x.core = ejecucion[e].core /\ x.respuesta = RespuestaDeFallback
    BY <1>3, VenceBreakerCambia DEF AInv
  <2>2. EsperaOK(x)
    BY <2>1 DEF AInv
  <2> QED BY <1>3, <2>1, <2>2, PasoConBreaker DEF VenceBreaker
<1>4. ASSUME NEW e \in Ejecuciones, NEW d \in DecisionesCore, CoreDecide(e, d) PROVE AInv'
  <2>1. PICK x \in Registro :
          /\ SoloCambia(e, x)
          /\ x.fase = ejecucion[e].fase /\ x.intentos = ejecucion[e].intentos
          /\ x.ultimo = ejecucion[e].ultimo
          /\ x.core = d /\ x.respuesta = ejecucion[e].respuesta
    BY <1>4, CoreDecideCambia DEF AInv
  <2>2. EsperaOK(x)
    BY <2>1 DEF AInv
  <2> QED BY <1>4, <2>1, <2>2, PasoSinBreaker DEF CoreDecide, Pendiente
<1>5. CASE Tick
  <2>1. /\ ejecucion' \in [Ejecuciones -> Registro]
        /\ \A e \in Ejecuciones : LET x == ejecucion'[e] IN
             /\ x.fase = ejecucion[e].fase /\ x.intentos = ejecucion[e].intentos
             /\ x.ultimo = ejecucion[e].ultimo
             /\ x.core = ejecucion[e].core /\ x.respuesta = ejecucion[e].respuesta
    BY <1>5, TickCambia DEF AInv
  <2>2. UNCHANGED <<circuito, sonda, disparos, fallos>>
    BY <1>5 DEF Tick
  <2>3. TypeOK'
    BY <2>1, <2>2, Tipos DEF AInv, TypeOK, Registro, Intentos, Relojes, RelojesFase, Cores, Ultimos
  <2>4. \A e \in Ejecuciones : Pendiente(e) => Pendiente(e)'
    BY <2>1 DEF Pendiente
  <2>5. \A e \in Ejecuciones : EsperaOK(ejecucion'[e])
    BY <2>1 DEF AInv
  <2> QED BY <2>2, <2>3, <2>4, <2>5 DEF AInv, SemiabiertoTieneSonda
<1>6. CASE PasaASemiabierto
  BY <1>6 DEF PasaASemiabierto, AInv, TypeOK, SemiabiertoTieneSonda
<1>7. ASSUME NEW d \in 0 .. disparos, NEW f \in 0 .. fallos, GiraVentana(d, f) PROVE AInv'
  <2>1. disparos' \in 0 .. MaxDisparos /\ fallos' \in 0 .. MaxDisparos
    BY <1>7, Tipos, Constantes DEF GiraVentana, AInv
  <2>2. ejecucion' = ejecucion /\ circuito' = circuito /\ sonda' = sonda
    BY <1>7 DEF GiraVentana
  <2> QED BY <2>1, <2>2 DEF AInv, TypeOK, SemiabiertoTieneSonda, Pendiente
<1>8. CASE UNCHANGED vars
  BY <1>8 DEF vars, AInv, TypeOK, SemiabiertoTieneSonda, Pendiente
<1> QED
  BY <1>1, <1>2, <1>3, <1>4, <1>5, <1>6, <1>7, <1>8, DisparaPaso, DisparaEnVanoPaso, TerminaPaso
     DEF Next, Vence, Llega

LEMMA InitAdaptador == Init => AInv
<1> SUFFICES ASSUME Init PROVE AInv
  OBVIOUS
<1>1. \A e \in Ejecuciones : ejecucion[e] = EjecucionNueva
  BY DEF Init
<1>2. ejecucion \in [Ejecuciones -> Registro]
  BY NuevaOK DEF Init
<1>3. 0 \in 0 .. MaxDisparos
  BY Constantes
<1>4. TypeOK
  BY <1>2, <1>3, Tipos DEF Init
<1> QED BY <1>1, <1>4, NuevaOK DEF AInv, SemiabiertoTieneSonda, EsperaOK, Init

-----------------------------------------------------------------------------
(* The theorems.                                                           *)

\* The invariant of the adapter holds of every reachable state.
THEOREM InvarianteAdaptador == Spec => []AInv
BY InitAdaptador, NextAdaptador, PTL DEF Spec

\* Clocks, attempts, answers and counters stay in their ranges: no clock passes its
\* deadline and no chain has more attempts than one plus the retries.
THEOREM TiposAdaptador == Spec => []TypeOK
<1>1. AInv => TypeOK
  BY DEF AInv
<1> QED BY <1>1, InvarianteAdaptador, PTL

\* A half-open breaker has its probe to give away or an execution that will decide.
THEOREM SondaSiempre == Spec => []SemiabiertoTieneSonda
<1>1. AInv => SemiabiertoTieneSonda
  BY DEF AInv
<1> QED BY <1>1, InvarianteAdaptador, PTL

\* A 4xx of the Core never moves the breaker to open, for the callers that share it.
THEOREM NegocioNoAbre == Spec => NegocioNoAbreCircuito
<1> DEFINE A == \A e \in Ejecuciones, resultado \in Negocio :
                  Termina(e, resultado) /\ circuito' = "open" => circuito = "open"
<1>1. [Next]_vars => [A]_vars
  <2> SUFFICES ASSUME NEW e \in Ejecuciones, NEW resultado \in Negocio,
                      Termina(e, resultado), circuito' = "open"
               PROVE  circuito = "open"
    OBVIOUS
  <2>1. Resuelve(resultado)
    BY DEF Negocio, Resuelve
  <2>2. ExitoEnBreaker \/ circuito' = circuito
    BY <2>1 DEF Termina
  <2> QED BY <2>2 DEF ExitoEnBreaker, CambiaCircuito
<1>2. Spec => [][A]_vars
  BY <1>1, PTL DEF Spec
<1> QED BY <1>2 DEF NegocioNoAbreCircuito

\* An attempt follows another only after a 5xx or a network error, and within the retries.
THEOREM ReintentoTransitorio == Spec => SoloReintentaLoTransitorio
<1> DEFINE B(e) == /\ ejecucion[e].ultimo \in {"5xx", "red"}
                   /\ ejecucion'[e].intentos <= MaxRetries + 1
           A == \A e \in Ejecuciones :
                  ejecucion[e].fase # "libre" /\ ejecucion'[e].intentos > ejecucion[e].intentos
                    => B(e)
<1>1. AInv /\ [Next]_vars => [A]_vars
  <2> SUFFICES ASSUME AInv, Next, NEW e \in Ejecuciones, ejecucion[e].fase # "libre",
                      ejecucion'[e].intentos > ejecucion[e].intentos
               PROVE  B(e)
    OBVIOUS
  <2>1. ejecucion[e] \in Registro /\ ejecucion[e].intentos \in Nat
    BY Tipos, Constantes DEF AInv, Registro, Intentos
  <2>2. \A i \in Nat : ~(i > i) /\ ~(0 > i)
    OBVIOUS
  <2>3. ASSUME NEW f \in Ejecuciones, NEW x \in Registro, SoloCambia(f, x)
        PROVE  f = e /\ x.intentos > ejecucion[e].intentos
    <3>1. /\ ejecucion'[f] = x
          /\ \A g \in Ejecuciones : g # f => ejecucion'[g] = ejecucion[g]
      BY <2>3, SoloCambiaOK DEF AInv
    <3> QED BY <2>1, <2>2, <3>1
  <2>4. ASSUME NEW f \in Ejecuciones, NuevoIntento(f) PROVE B(e)
    <3>1. PICK x \in Registro : SoloCambia(f, x)
      BY <2>4, NuevoIntentoCambia DEF AInv
    <3>2. f = e /\ ejecucion'[e] = x
      BY <2>3, <3>1, SoloCambiaOK DEF AInv
    <3>3. ejecucion[e].ultimo \in {"5xx", "red"}
      BY <2>4, <3>2 DEF NuevoIntento, AInv, EsperaOK
    <3>4. ejecucion'[e].intentos \in 0 .. MaxRetries + 1
      BY <3>2 DEF Registro, Intentos
    <3> QED BY <3>3, <3>4, Constantes
  <2>5. ASSUME NEW f \in Ejecuciones, Dispara(f) PROVE FALSE
    <3>1. PICK x \in Registro : SoloCambia(f, x)
      BY <2>5, DisparaCambia
    <3> QED BY <2>3, <2>5, <3>1 DEF Dispara
  <2>6. ASSUME NEW f \in Ejecuciones, DisparaEnVano(f) PROVE FALSE
    <3>1. PICK x \in Registro : SoloCambia(f, x)
      BY <2>6, DisparaEnVanoCambia
    <3> QED BY <2>3, <2>6, <3>1 DEF DisparaEnVano
  <2>7. ASSUME NEW f \in Ejecuciones, NEW resultado, Termina(f, resultado) PROVE FALSE
    <3>1. PICK x \in Registro : SoloCambia(f, x) /\ x.intentos = 0
      BY <2>7, TerminaCambia DEF AInv
    <3> QED BY <2>1, <2>2, <2>3, <3>1
  <2>8. ASSUME NEW f \in Ejecuciones, NEW resultado, Reintenta(f, resultado) PROVE FALSE
    <3>1. PICK x \in Registro : SoloCambia(f, x) /\ x.intentos = ejecucion[f].intentos
      BY <2>8, ReintentaCambia DEF AInv
    <3> QED BY <2>1, <2>2, <2>3, <3>1
  <2>9. ASSUME NEW f \in Ejecuciones, VenceBreaker(f) PROVE FALSE
    <3>1. PICK x \in Registro : SoloCambia(f, x) /\ x.intentos = ejecucion[f].intentos
      BY <2>9, VenceBreakerCambia DEF AInv
    <3> QED BY <2>1, <2>2, <2>3, <3>1
  <2>10. ASSUME NEW f \in Ejecuciones, NEW d \in DecisionesCore, CoreDecide(f, d) PROVE FALSE
    <3>1. PICK x \in Registro : SoloCambia(f, x) /\ x.intentos = ejecucion[f].intentos
      BY <2>10, CoreDecideCambia DEF AInv
    <3> QED BY <2>1, <2>2, <2>3, <3>1
  <2>11. CASE Tick
    <3>1. ejecucion'[e].intentos = ejecucion[e].intentos
      BY <2>11, TickCambia DEF AInv
    <3> QED BY <2>1, <2>2, <3>1
  <2>12. ASSUME ejecucion' = ejecucion PROVE FALSE
    BY <2>1, <2>2, <2>12
  <2> HIDE DEF B
  <2> QED
    BY <2>4, <2>5, <2>6, <2>7, <2>8, <2>9, <2>10, <2>11, <2>12
       DEF Next, Vence, Llega, PasaASemiabierto, GiraVentana
<1>2. Spec => [][A]_vars
  BY <1>1, InvarianteAdaptador, PTL DEF Spec
<1> QED BY <1>2 DEF SoloReintentaLoTransitorio

-----------------------------------------------------------------------------
(* The refinement: what PuertoCore sees of the adapter.                    *)

CoreVisto == [e \in Ejecuciones |-> DecisionVista(ejecucion[e].core)]

RespuestaVista == [e \in Ejecuciones |-> Desenlace(ejecucion[e].respuesta)]

LEMMA Desenlaces ==
  /\ Desenlace("ninguna") = "ninguna" /\ Desenlace("ok") = "ok"
  /\ Desenlace("CORE_BUSINESS_VALIDATION") = "negocio"
  /\ \A r : r \notin {"ninguna", "ok", "CORE_BUSINESS_VALIDATION"} => Desenlace(r) = "falla"
BY DEF Desenlace

LEMMA InitPuerto == Init => Puerto!Init
<1> SUFFICES ASSUME Init PROVE Puerto!Init
  OBVIOUS
<1>1. \A e \in Ejecuciones : ejecucion[e].core = "sin llamada" /\ ejecucion[e].respuesta = "ninguna"
  BY NuevaOK DEF Init
<1>2. \A e \in Ejecuciones : /\ DecisionVista(ejecucion[e].core) = "nada"
                             /\ Desenlace(ejecucion[e].respuesta) = "ninguna"
  BY <1>1, Desenlaces DEF DecisionVista
<1> QED BY <1>2 DEF Puerto!Init

\* A step of one execution, seen from the port.
LEMMA SoloCambiaVisto ==
  ASSUME TypeOK, NEW e \in Ejecuciones, NEW x \in Registro, SoloCambia(e, x)
  PROVE  /\ CoreVisto' = [CoreVisto EXCEPT ![e] = DecisionVista(x.core)]
         /\ RespuestaVista' = [RespuestaVista EXCEPT ![e] = Desenlace(x.respuesta)]
BY SoloCambiaOK DEF CoreVisto, RespuestaVista

LEMMA NadaVisto ==
  ASSUME \A e \in Ejecuciones : /\ ejecucion'[e].core = ejecucion[e].core
                                /\ ejecucion'[e].respuesta = ejecucion[e].respuesta
  PROVE  [Puerto!Next]_(Puerto!puerto)
<1>1. CoreVisto' = CoreVisto /\ RespuestaVista' = RespuestaVista
  BY DEF CoreVisto, RespuestaVista
<1> QED BY <1>1 DEF Puerto!puerto, CoreVisto, RespuestaVista

LEMMA SoloCambiaNadaVisto ==
  ASSUME TypeOK, NEW e \in Ejecuciones, NEW x \in Registro, SoloCambia(e, x),
         x.core = ejecucion[e].core, x.respuesta = ejecucion[e].respuesta
  PROVE  [Puerto!Next]_(Puerto!puerto)
BY SoloCambiaOK, NadaVisto

\* An answer to a caller that waited for it, with its reason in what the Core did.
LEMMA ContestaVisto ==
  ASSUME TypeOK, NEW e \in Ejecuciones, NEW x \in Registro, SoloCambia(e, x),
         x.core = ejecucion[e].core, Pendiente(e), x.respuesta # "ninguna",
         x.respuesta = "ok" => ejecucion[e].core = "abierta",
         x.respuesta = "CORE_BUSINESS_VALIDATION" => ejecucion[e].core = "rechazada"
  PROVE  Puerto!Next
<1> DEFINE r == Desenlace(x.respuesta)
           c == CoreVisto
           s == RespuestaVista
<1>1. /\ r \in {"ok", "negocio", "falla"}
      /\ r = "ok" => ejecucion[e].core = "abierta"
      /\ r = "negocio" => ejecucion[e].core = "rechazada"
  BY Desenlaces
<1>2. s[e] = "ninguna" /\ c[e] = DecisionVista(ejecucion[e].core)
  BY Desenlaces DEF RespuestaVista, CoreVisto, Pendiente
<1>3. c' = [c EXCEPT ![e] = c[e]] /\ s' = [s EXCEPT ![e] = r]
  BY <1>2, SoloCambiaVisto
<1>4. c' = c
  BY <1>3 DEF CoreVisto
<1>5. \/ r = "ok" /\ c[e] = "abierta"
      \/ r = "negocio" /\ c[e] = "rechazada"
      \/ r = "falla"
  BY <1>1, <1>2 DEF DecisionVista
<1> HIDE DEF r
<1>6. Puerto!Contesta(e, r)
  BY <1>2, <1>3, <1>4, <1>5 DEF Puerto!Contesta, CoreVisto, RespuestaVista
<1> QED BY <1>1, <1>6 DEF Puerto!Next

\* A resolved attempt carries the decision of the Core.
LEMMA DecisionDelResultado ==
  ASSUME TypeOK, NEW e \in Ejecuciones, NEW resultado \in {"2xx", "422"},
         resultado \in ResultadosPosibles(e)
  PROVE  /\ resultado = "2xx" => ejecucion[e].core = "abierta"
         /\ resultado = "422" => ejecucion[e].core = "rechazada"
<1> DEFINE d == ejecucion[e].core
<1>1. d \in {"sin llamada", "nada", "abierta", "404", "rechazada", "otro4xx"}
  BY Tipos DEF Registro, Cores, Decisiones
<1>2. resultado \in ResultadosDe(d)
  BY DEF ResultadosPosibles
<1> HIDE DEF d
<1>3. /\ d = "abierta" => ResultadosDe(d) = {"2xx", "ilegible"}
      /\ d = "rechazada" => ResultadosDe(d) = {"422"}
      /\ d \in {"404", "otro4xx"} => ResultadosDe(d) = {d}
      /\ d \in {"sin llamada", "nada"} => ResultadosDe(d) = {}
  BY DEF ResultadosDe
<1> QED BY <1>1, <1>2, <1>3 DEF d

LEMMA TerminaVisto ==
  ASSUME AInv, NEW e \in Ejecuciones, NEW resultado, Termina(e, resultado)
  PROVE  [Puerto!Next]_(Puerto!puerto)
<1>1. TypeOK
  BY DEF AInv
<1>2. PICK x \in Registro :
        /\ SoloCambia(e, x) /\ x.core = ejecucion[e].core /\ x.respuesta = Contestada(e, resultado)
  BY <1>1, TerminaCambia
<1>3. CASE ~Pendiente(e)
  BY <1>1, <1>2, <1>3, SoloCambiaNadaVisto DEF Contestada
<1>4. CASE Pendiente(e)
  <2>1. CASE Resuelve(resultado)
    <3>1. x.respuesta = RespuestaDe(resultado)
      BY <1>2, <1>4, <2>1 DEF Contestada
    <3>2. /\ x.respuesta # "ninguna"
          /\ x.respuesta = "ok" => resultado = "2xx"
          /\ x.respuesta = "CORE_BUSINESS_VALIDATION" => resultado = "422"
      BY <2>1, <3>1, RespuestaDeOK
    <3>3. /\ x.respuesta = "ok" => ejecucion[e].core = "abierta"
          /\ x.respuesta = "CORE_BUSINESS_VALIDATION" => ejecucion[e].core = "rechazada"
      BY <1>1, <3>2, DecisionDelResultado DEF Termina
    <3> QED BY <1>1, <1>2, <1>4, <3>2, <3>3, ContestaVisto
  <2>2. CASE ~Resuelve(resultado)
    <3>1. x.respuesta = "CORE_CIRCUIT_OPEN"
      BY <1>2, <1>4, <2>2 DEF Contestada, RespuestaDeFallback
    <3> QED BY <1>1, <1>2, <1>4, <3>1, ContestaVisto
  <2> QED BY <2>1, <2>2
<1> QED BY <1>3, <1>4

LEMMA NextPuerto == AInv /\ [Next]_vars => [Puerto!Next]_(Puerto!puerto)
<1> SUFFICES ASSUME AInv, [Next]_vars PROVE [Puerto!Next]_(Puerto!puerto)
  OBVIOUS
<1> DEFINE Visto == [Puerto!Next]_(Puerto!puerto)
           c == CoreVisto
           s == RespuestaVista
<1>0. TypeOK
  BY DEF AInv
<1>1. ASSUME NEW e \in Ejecuciones, Dispara(e) PROVE Visto
  <2>1. PICK x \in Registro : SoloCambia(e, x) /\ x.core = "nada" /\ x.respuesta = "ninguna"
    BY <1>1, DisparaCambia
  <2>2. c' = [c EXCEPT ![e] = "nada"] /\ s' = [s EXCEPT ![e] = "ninguna"]
    BY <1>0, <2>1, SoloCambiaVisto, Desenlaces DEF DecisionVista
  <2>3. Puerto!Llama(e, "ninguna")
    BY <2>2 DEF Puerto!Llama, CoreVisto, RespuestaVista
  <2> QED BY <2>3 DEF Puerto!Next
<1>2. ASSUME NEW e \in Ejecuciones, DisparaEnVano(e) PROVE Visto
  <2>1. PICK x \in Registro :
          SoloCambia(e, x) /\ x.core = "sin llamada" /\ x.respuesta = "CORE_CIRCUIT_OPEN"
    BY <1>2, DisparaEnVanoCambia DEF RespuestaDeFallback
  <2>2. Desenlace("CORE_CIRCUIT_OPEN") = "falla" /\ DecisionVista("sin llamada") = "nada"
    BY Desenlaces DEF DecisionVista
  <2>3. c' = [c EXCEPT ![e] = "nada"] /\ s' = [s EXCEPT ![e] = "falla"]
    BY <1>0, <2>1, <2>2, SoloCambiaVisto
  <2>4. Puerto!Llama(e, "falla")
    BY <2>3 DEF Puerto!Llama, CoreVisto, RespuestaVista
  <2> QED BY <2>4 DEF Puerto!Next
<1>3. ASSUME NEW e \in Ejecuciones, NEW d \in DecisionesCore, CoreDecide(e, d) PROVE Visto
  <2>1. PICK x \in Registro :
          SoloCambia(e, x) /\ x.core = d /\ x.respuesta = ejecucion[e].respuesta
    BY <1>0, <1>3, CoreDecideCambia
  <2>2. d \in Decisiones /\ DecisionVista(d) = d
    BY Constantes DEF Decisiones, DecisionVista
  <2>3. c[e] = "nada" /\ s[e] = Desenlace(ejecucion[e].respuesta)
    BY <1>3 DEF CoreDecide, CoreVisto, RespuestaVista, DecisionVista
  <2>4. c' = [c EXCEPT ![e] = d] /\ s' = [s EXCEPT ![e] = s[e]]
    BY <1>0, <2>1, <2>2, <2>3, SoloCambiaVisto
  <2>5. s' = s
    BY <2>4 DEF RespuestaVista
  <2>6. Puerto!Decide(e, d)
    BY <2>3, <2>4, <2>5 DEF Puerto!Decide, CoreVisto, RespuestaVista
  <2>7. d \in Puerto!Decisiones
    BY <2>2 DEF Puerto!Decisiones, Decisiones
  <2> QED BY <2>6, <2>7 DEF Puerto!Next
<1>4. ASSUME NEW e \in Ejecuciones, NEW resultado, Reintenta(e, resultado) PROVE Visto
  BY <1>0, <1>4, ReintentaCambia, SoloCambiaNadaVisto
<1>5. ASSUME NEW e \in Ejecuciones, NuevoIntento(e) PROVE Visto
  BY <1>0, <1>5, NuevoIntentoCambia, SoloCambiaNadaVisto DEF AInv
<1>6. ASSUME NEW e \in Ejecuciones, VenceBreaker(e) PROVE Visto
  <2>1. PICK x \in Registro : /\ SoloCambia(e, x) /\ x.core = ejecucion[e].core
                              /\ x.respuesta = "CORE_CIRCUIT_OPEN"
    BY <1>0, <1>6, VenceBreakerCambia DEF RespuestaDeFallback
  <2> QED BY <1>0, <1>6, <2>1, ContestaVisto DEF VenceBreaker
<1>7. CASE Tick
  BY <1>0, <1>7, TickCambia, NadaVisto
<1>8. ASSUME ejecucion' = ejecucion PROVE Visto
  BY <1>8, NadaVisto
<1> HIDE DEF Visto
<1>9. Next => Visto
  BY <1>1, <1>2, <1>3, <1>4, <1>5, <1>6, <1>7, <1>8, TerminaVisto
     DEF Next, Vence, Llega, PasaASemiabierto, GiraVentana, Visto
<1> QED BY <1>8, <1>9 DEF vars, Visto

\* With its retries, timeouts and breaker the adapter implements the port of the Core:
\* one answer per call, which says of the Core no more than what the Core did.
THEOREM RefinaPuerto == Spec => ImplementaPuerto
<1>1. Spec => Puerto!Spec
  BY InitPuerto, NextPuerto, InvarianteAdaptador, PTL DEF Spec, Puerto!Spec
<1> QED BY <1>1 DEF ImplementaPuerto
=============================================================================
