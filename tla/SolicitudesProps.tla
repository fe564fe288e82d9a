-------------------------- MODULE SolicitudesProps ---------------------------
(***************************************************************************)
(* What the solicitudes service promises.  The properties of the first     *)
(* part hold whatever the interleaving of the requests; those of the       *)
(* second need the requests of one solicitud to come one after the other,  *)
(* because guardar writes a whole entity without looking at the version it *)
(* was read with; those of the third are promises of the documents that    *)
(* the code does not keep.                                                 *)
(***************************************************************************)
EXTENDS Solicitudes, SequencesExt

-----------------------------------------------------------------------------
(* Any interleaving.                                                       *)

PasoDelCore(c) == c.estadoAnterior = "APPROVED" /\ c.estadoNuevo = "IN_REVIEW"

PasoLegal(c) == CanTransitionTo(c.estadoAnterior, c.estadoNuevo) \/ PasoDelCore(c)

EsCamino(h) ==
  /\ h # << >>
  /\ h[1].estadoAnterior = "DRAFT" /\ h[1].estadoNuevo = "DRAFT"
  /\ \A i \in 2 .. Len(h) : /\ h[i].estadoAnterior = h[i - 1].estadoNuevo
                            /\ PasoLegal(h[i])

\* The history of an entity is such a walk, and ends where the entity is.
HistorialOK(s) ==
  EsCamino(s.historico) /\ s.historico[Len(s.historico)].estadoNuevo = s.estado

\* The stored history is a walk through the state machine that starts in DRAFT and ends
\* in the stored state, also after a stale entity has overwritten a newer one: a lost
\* update loses steps of the history but never leaves a history that contradicts the
\* state (transicionar and guardar).
HistorialEsCamino == \A id \in DOMAIN docs : HistorialOK(docs[id])

Abierta(id, producto) ==
  /\ producto \in DOMAIN llamadas
  /\ llamadas[producto] = [sol |-> id, respuesta |-> "abierta"]

\* A numeroProducto is never invented or crossed: the Core opened that very product for
\* that very solicitud (finalizar, and the merge of guardar with the stored number).
ProductoEsDeLaSolicitud ==
  \A id \in DOMAIN docs :
    docs[id].numeroProducto # SinProducto => Abierta(id, docs[id].numeroProducto)

FinalizadaOK(s) ==
  s.estado = "FINALIZED" => s.numeroProducto # SinProducto /\ ~s.pendiente

\* A FINALIZED solicitud has its product and no deferred retry pending, so the retry of
\* HANDBOOK 8.6 never opens a second one for it (marcarFinalizada).
FinalizadaTieneProducto == \A id \in DOMAIN docs : FinalizadaOK(docs[id])

Pasos(h, de, a) == {i \in DOMAIN h : h[i].estadoAnterior = de /\ h[i].estadoNuevo = a}

\* Every step back to IN_REVIEW in a history answers a refusal of its own: none is counted
\* twice, and no failure of the Core, timeout or open circuit sends a solicitud back.  A
\* refusal is what the code takes for one, a 422 (finalizar and toDomainError); that the
\* documents mean every 4xx is RechazoEsNegocio of the adapter.
CadaRetornoTieneRechazo ==
  \A id \in DOMAIN docs :
    Cardinality(Pasos(docs[id].historico, "APPROVED", "IN_REVIEW")) <=
      Cardinality({k \in DOMAIN llamadas : llamadas[k] = [sol |-> id, respuesta |-> "rechazada"]})

MotivoOK(id, s) ==
  /\ s.motivoRechazo = "core" => \E k \in DOMAIN llamadas : llamadas[k] = [sol |-> id, respuesta |-> "rechazada"]
  /\ (\E i \in DOMAIN s.historico : PasoDelCore(s.historico[i])) => s.motivoRechazo # SinMotivo

\* A reason on file that speaks for the Core comes from a refusal (a 422, as above) of that
\* very solicitud, never from a failure or another solicitud's refusal, and one the Core ever
\* sent back has a reason, although a later rejection may replace it or not and a stale
\* entity without it may be written over it (transicionar, the step back of the Core, and
\* guardar dropping undefined fields).
MotivoTieneOrigen == \A id \in DOMAIN docs : MotivoOK(id, docs[id])

EsDecision(c) == c.estadoNuevo \in {"APPROVED", "REJECTED", "FINALIZED"} \/ PasoDelCore(c)

DecisionesOK(s) ==
  \A i \in DOMAIN s.historico : EsDecision(s.historico[i]) => s.historico[i].actor \in Supervisores

\* Whoever approved, rejected, finalized or sent back a solicitud was a supervisor or an
\* administrator, even when the document was written later by somebody else's stale copy
\* (the @Roles of the endpoints).
DecideUnSupervisor == \A id \in DOMAIN docs : DecisionesOK(docs[id])

\* A product number once stored may be replaced but is never erased, although a stale
\* entity without it may still be written (guardar drops undefined fields).
ProductoNoSeBorra ==
  [][\A id \in DOMAIN docs :
       docs[id].numeroProducto # SinProducto => docs'[id].numeroProducto # SinProducto]_vars

\* A request in flight ends, whatever the Core does: the answer of the breaker is at the
\* latest its timeout, and guardar follows it.
TodaPeticionTermina == \A r \in Peticiones : peticion[r] # Libre ~> peticion[r] = Libre

\* While no process dies, a finalizar that calls the Core leaves its outcome on the
\* document: finalized, sent back, or marked for the deferred retry.
FinalizarDejaRastro ==
  \A r \in Peticiones, id \in Ids :
    (peticion[r] # Libre /\ peticion[r].pc = "core" /\ peticion[r].id = id)
      ~> (/\ id \in DOMAIN docs
          /\ docs[id].estado \in {"FINALIZED", "IN_REVIEW"} \/ docs[id].pendiente)

-----------------------------------------------------------------------------
(* Requests that do not meet.                                              *)

\* No two requests in flight are of the same solicitud or carry the same Idempotency-Key.
SinConflicto ==
  \A q, r \in Peticiones :
    q # r /\ peticion[q] # Libre /\ peticion[r] # Libre =>
      /\ peticion[q].id # peticion[r].id
      /\ peticion[q].sol.idempotencyKey # peticion[r].sol.idempotencyKey

\* The service when its requests never meet, however many are in flight.
SpecSinConflicto == Init /\ [][Next /\ SinConflicto']_vars

\* A terminal state is never left.
TerminalEsFinal ==
  [][\A id \in DOMAIN docs :
       docs[id].estado \in TerminalStates => docs'[id].estado = docs[id].estado]_vars

\* The form is what it was when the solicitud left DRAFT (actualizarDatos).
DatosSoloEnDraft ==
  [][\A id \in DOMAIN docs :
       docs'[id].datosFormulario # docs[id].datosFormulario => docs[id].estado = "DRAFT"]_vars

\* The audit trail is append-only.
HistorialSoloCrece ==
  [][\A id \in DOMAIN docs : IsPrefix(docs[id].historico, docs'[id].historico)]_vars

\* Every change of a document raises its version.
CadaCambioSubeVersion ==
  [][\A id \in DOMAIN docs :
       docs'[id] # docs[id] => docs'[id].version > docs[id].version]_vars

\* Two solicitudes never carry the same Idempotency-Key (crear looks it up first).
ClaveUnica ==
  \A d, e \in DOMAIN docs : docs[d].idempotencyKey = docs[e].idempotencyKey => d = e

\* A product is on file exactly when the solicitud is FINALIZED.
ProductoSoloFinalizada ==
  \A id \in DOMAIN docs :
    docs[id].numeroProducto # SinProducto <=> docs[id].estado = "FINALIZED"

\* Whatever product the Core opened, the history of its solicitud holds an approval
\* (finalizar reads APPROVED before it calls).
AperturaTrasAprobacion ==
  \A k \in DOMAIN llamadas :
    llamadas[k].respuesta = "abierta" =>
      \E i \in DOMAIN docs[llamadas[k].sol].historico :
        docs[llamadas[k].sol].historico[i].estadoNuevo = "APPROVED"

EnVuelo(k) ==
  \E r \in Peticiones :
    \/ Espera(r) /\ peticion[r].llamada = k
    \/ peticion[r].pc = "guardar" /\ peticion[r].id = llamadas[k].sol

\* While no process dies, a product the Core opened too late - its call had timed out -
\* leaves a mark: its solicitud stays pendiente, or is finalized with another product.
HuerfanoDejaMarca ==
  \A k \in DOMAIN llamadas :
    llamadas[k].respuesta = "abierta" =>
      \/ EnVuelo(k)
      \/ docs[llamadas[k].sol].numeroProducto # SinProducto
      \/ docs[llamadas[k].sol].pendiente

\* The life of a solicitud as CicloDeVida tells it, read off the collection.
Ciclo ==
  INSTANCE CicloDeVida WITH
    estado      <- [id \in Ids |-> IF id \in DOMAIN docs THEN docs[id].estado ELSE "INEXISTENTE"],
    conProducto <- {id \in DOMAIN docs : docs[id].numeroProducto # SinProducto}

\* When requests do not meet, the service implements CicloDeVida: every step of a
\* solicitud is one of the state machine's, terminal states are final, and the product is
\* stored in the very step that finalizes, also when processes die and answers come late.
ImplementaCicloDeVida == Ciclo!Spec

-----------------------------------------------------------------------------
(* What the documents say and the code does not do.                        *)

\* HANDBOOK CA#4: the Core does not open two products for the same solicitud.
UnSoloProducto ==
  \A j, k \in DOMAIN llamadas :
    (/\ llamadas[j].respuesta = "abierta" /\ llamadas[k].respuesta = "abierta"
     /\ llamadas[j].sol = llamadas[k].sol) => j = k

=============================================================================
