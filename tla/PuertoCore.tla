------------------------------ MODULE PuertoCore ------------------------------
(***************************************************************************)
(* What an operation of CoreBankingPort promises to its caller: one        *)
(* answer per call, which agrees with what the Core did with the call when *)
(* it says so, and says nothing about it when it is a failure.  This is    *)
(* the view of a call that Solicitudes takes.                              *)
(***************************************************************************)
CONSTANT Ejecuciones

VARIABLES
  core,       \* what the Core did with the call of each execution
  respuesta   \* what its caller was told

Decisiones == {"abierta", "404", "rechazada", "otro4xx"}

puerto == <<core, respuesta>>

Init ==
  /\ core = [e \in Ejecuciones |-> "nada"]
  /\ respuesta = [e \in Ejecuciones |-> "ninguna"]

\* A new call, which the open circuit may fail at once.
Llama(e, r) ==
  /\ core' = [core EXCEPT ![e] = "nada"]
  /\ respuesta' = [respuesta EXCEPT ![e] = r]

Decide(e, d) ==
  /\ core[e] = "nada"
  /\ core' = [core EXCEPT ![e] = d]
  /\ UNCHANGED respuesta

Contesta(e, r) ==
  /\ respuesta[e] = "ninguna"
  /\ \/ r = "ok" /\ core[e] = "abierta"
     \/ r = "negocio" /\ core[e] = "rechazada"
     \/ r = "falla"
  /\ respuesta' = [respuesta EXCEPT ![e] = r]
  /\ UNCHANGED core

Next ==
  \E e \in Ejecuciones :
    \/ \E r \in {"ninguna", "falla"} : Llama(e, r)
    \/ \E d \in Decisiones : Decide(e, d)
    \/ \E r \in {"ok", "negocio", "falla"} : Contesta(e, r)

Spec == Init /\ [][Next]_puerto
=============================================================================
