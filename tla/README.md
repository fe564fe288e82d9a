# Verification of the solicitudes service

TLA+ models of `bcs-solicitudes-api`: a NestJS service in which advisers and
supervisors take a *solicitud* (an application for a bank product) from draft to an
open product, over a MongoDB collection and a Core Banking system reached through the
Mulesoft gateway. TLC checks the models on small instances; TLAPS proves every safety
property of them, and both refinements, for every instance.

## 1. The system

| Part | State it keeps | Operations | Talks to |
|---|---|---|---|
| `EstadoSolicitud` (value object) | none | the table `ALLOWED`, `transitionTo` | used by the entity |
| `Solicitud` (aggregate root) | one solicitud in memory: state, form, history, product, motive, retry mark, version | `crear`, `actualizarDatos`, `transicionar`, `marcarFinalizada`, `marcarPendienteEnvioCore`, `regresarARevisionPorRechazoCore` | use cases |
| Use cases (`crear`, `actualizar`, `transicionar`, `finalizar`) | the entity each request read | one read, one mutation, one write; `finalizar` calls the Core in between | repository, Core port |
| `SolicitudMongoRepository` | the collection `solicitudes` | `guardar` (upsert of the whole entity), `buscarPorId`, `buscarPorIdempotencyKey`, `listar` | MongoDB |
| `SolicitudesController`, `RolesGuard` | none | endpoints with their roles | use cases |
| Listing (`ListarSolicitudesUseCase`, `listar`) | none | a page and its total, two queries | MongoDB |
| `MulesoftAdapter` | one opossum breaker per operation | `solicitarApertura` and three more calls, with timeout, retries and breaker | the Core |
| `AllExceptionsFilter`, `toHttp` of the controllers | none | error to HTTP status, with the correlation id | every endpoint |
| `CorrelationIdMiddleware`, `LoggerModule` | one `AsyncLocalStorage` store per request | give a request its id; read by the handlers, the adapter and the filter | every endpoint |
| `ClientesController` | a `Map` with a 60 s expiry per client | eligible products | Core port, audit |
| `AuditoriaService` | collection of audit events | `record`, fire and forget | MongoDB |
| `MetricsService` | counters, the gauge of solicitudes per state | called by three use cases | Prometheus |
| `scripts/seed.ts` | none; a process of its own | deletes its samples and writes them again | MongoDB |
| Authentication | users in memory | login, JWT, guards | |
| Catalogue, health, configuration, logging, tracing | constants | | |

### What is hard about it

* **Interleaving.** Every use case reads a document, awaits, and writes the *whole*
  entity back with `updateOne({_id})`. Nothing compares the `version` it read. Two
  requests on one solicitud, in one process or in two replicas, overwrite each other.
* **A call between the read and the write.** `finalizar` keeps its snapshot for as long
  as the call to the Core takes, up to the breaker's timeout.
* **Late answers.** The breaker answers the caller, but neither axios nor the Core is
  cancelled: a product may be opened that nobody has the number of.
* **Crashes.** Between the 201 of the Core and `guardar` there is no record at all.
* **Merging writes.** Mongoose drops `undefined` fields of `$set`, so `guardar` can
  replace a product number but not erase one.
* **A breaker shared by executions** whose attempts outlive it.
* **Two queries for one answer.** A page and its total are read at two moments, and a walk
  through the pages sees each of them at another.
* **A script beside the service.** `guardar` upserts: a document that `seed` deletes while
  a request holds its entity comes back.
* **Ambient state across an await.** The correlation id is not passed along: each reader
  takes it from the store of whatever request the thread is running.

The full list, each at its line, is under `hazards` in `PROJECT.json`.

### What makes each part correct

* state machine: terminal states are final; the only way back is the Core's refusal;
* entity: the history is a path of that machine and ends in the current state;
* use cases and collection: product numbers are real, are of that solicitud and are
  never lost; a finalized solicitud has its product and no pending retry; supervisors
  decide; every request ends; a failed call leaves a mark; one key, one solicitud;
* adapter: one answer per call that agrees with the Core, a refusal for a 422 and never for a failure, only transient failures are
  retried, refusals do not open the circuit, a half-open circuit is never stuck;
* listing: a walk misses no more documents than left its filter meanwhile, a page and its total differ by no more than
  what changed between their queries;
* seed script: after a run that ends, its four samples and no older one;
* errors: the status the documents give to each failure (this one the code does not keep);
* correlation id: one id from the request to the Core, the audit and the problem;
* cache and audit: an answer is never older than the life of an entry and one call, a
  client answered less than the TTL ago is not asked for again, an answer with products is
  recorded once and a failed consultation never;
* metrics: the gauge tells the difference between the recorded changes of the histories.

## 2. Modules

| Module | What it is | Code |
|---|---|---|
| `EstadoSolicitud` | the two tables and the transition test | `estado-solicitud.vo.ts` |
| `Solicitud` | the entity as a record; a mutator is an operator from record to record, and the condition under which it answers ok is an operator of its own | `solicitud.entity.ts` |
| `Acceso` | the roles of the endpoints and the guard | `solicitudes.controller.ts`, `roles.guard.ts` |
| `Solicitudes` | the system: collection, requests, calls to the Core | use cases, repository, controller |
| `SolicitudesProps` | its properties | |
| `CicloDeVida` | abstract specification: the life of a solicitud in atomic steps | |
| `SolicitudesProofs` | the proofs of what any interleaving keeps | |
| `RechazoProofs` | the proofs about the refusals of the Core and their traces, any interleaving | |
| `SecuencialProofs` | the proofs of what requests that do not meet keep, and of the refinement of `CicloDeVida` | |
| `Errores` | which error each `toHttp` turns into an HttpException, and the status the filter gives it | `all-exceptions.filter.ts`, the controllers |
| `MulesoftAdapter` | executions, attempts, clocks and the breaker of one operation, with its properties | `mulesoft.adapter.ts`, `mulesoft.mappers.ts` |
| `PuertoCore` | abstract specification: one call of the port and its answer | `core-banking.port.ts` |
| `AdaptadorProofs` | the proofs about the adapter, and of the refinement of `PuertoCore` | |
| `ClientesCache` | the cache of productos elegibles, up to the audit insert each answer starts, with its properties | `clientes.controller.ts`, `auditoria.service.ts` |
| `ClientesHttp` | the HTTP request around it: middlewares, guards, handler, filter, the audit events it leaves and the id that follows it | `correlation-id.*.ts`, `logger.module.ts`, `all-exceptions.filter.ts`, `jwt-auth.guard.ts`, `auditoria.service.ts` |
| `ClientesProofs` | the proofs about both | |
| `Semilla` | the four samples of the script, as documents | `scripts/seed.ts` |
| `Listado` | a walk through the pages beside writing requests and the script, with its properties | `listar` and `guardar` of the repository, `listar-solicitudes.usecase.ts`, `scripts/seed.ts` |
| `ListadoProofs` | the proofs about the walk and the script | |
| `Metricas` | the gauge of solicitudes per state beside `Solicitudes`, with its property | `metrics.service.ts` and its callers |
| `MetricasProofs` | the proofs about the gauge, and about what a late product leaves behind | |
| `MC*` | the small instances | |

`Solicitudes` EXTENDS `Solicitud` (which EXTENDS `EstadoSolicitud`) and `Acceso`. It sees
the Core as `PuertoCore` describes it: `CoreOk` needs an opened product, `CoreNegocio` a
refusal, `CoreFalla` may come at any time. `MulesoftAdapter` is shown to implement
`PuertoCore`, which is what joins the two.

`Metricas` EXTENDS `SolicitudesProps` and runs its actions with what each use case records.
`ClientesHttp` EXTENDS `ClientesCache` and `Errores`: each of its steps is a step of the
cache with what happens to the request around it, or one of the request alone. The port is
one of its steps, bounded by the breaker's timeout, as the adapter's runs show.
`MulesoftAdapter` uses `Errores` too, to tell which status a caller ends up with.
`Listado` EXTENDS `Semilla`, which EXTENDS `Solicitud`.

Definitions named `X_Suffix` are the mutated forms of `X` that `PROJECT.json` uses to
check that each property can fail; no specification uses them.

### How `Solicitudes` reads the code

A request slot is `libre`, awaiting the Core (`core`, with its snapshot), or awaiting
MongoDB (`guardar`, with the mutated entity). JavaScript runs the code between two awaits
alone, and that code touches nothing shared, so a database read and the code after it are
one step, the write of `guardar` another, and in `finalizar` the call and its answer two
more. Slots stand for requests of any replica. Operations that answer an error or only
read change nothing and are no steps. `Interrumpir` loses what a request has in memory: a
process that dies or a write MongoDB refuses. The Core decides once per call
(`CoreDecide`), at any time after it was sent, also after `CoreFalla` gave up. A call is
its index in `llamadas`, because `finalizar` builds each key with a fresh `nanoid(6)`; the
`numeroProducto` of a solicitud is the index of the call that opened it.

A 201 is taken to carry the `numeroProducto` its contract requires; `mapAperturaResponse`
(`mulesoft.mappers.ts:62-70`) does not check it, and a 201 without one would finalize a
solicitud without a product.

Abstracted: cliente, productoCodigo, correlationId and timestamps (no decision reads
them), the contents of forms and motives (members of small sets), and the collision of
nanoid ids (an id is fresh). The Core's
reason for a refusal is left out with the client and the product it depends on.

### How `MulesoftAdapter` reads the code

An execution has its chain of attempts and, apart from it, the answer of its caller. Time
is in ticks; a timer fires when it is due, so `Tick` never passes a deadline. The four
operations share no breaker, so the module is one operation, whichever: the Core may open,
refuse, not find or answer another 4xx (`DecisionesCore` bounds which of them an instance
takes). A 2xx whose body the mapper cannot read (`ilegible`) is a failure of the function
the breaker runs, although the Core did its part. The breaker
follows opossum as the options of `getBreaker` set it up: it opens when over half of at
least `Volumen` executions of the window failed, lets one probe through after
`resetTimeout`, and closes or opens again with the next execution that ends. When the
rolling window drops buckets is left open (`GiraVentana`).

### How `ClientesCache`, `ClientesHttp` and `Metricas` read the code

The datum of a client is the instant the Core read it, which is what lets a property say how
old an answer is. A lookup and the code up to the await of the port are one step, the answer
and `cache.set` another; nothing stops a second miss in between. The audit insert runs on
after the answer and may fail. `exito` and `visto` are history: no action reads them.
`auditoria` of `ClientesHttp` keeps the inserts of the request in each slot, whether MongoDB
stored them or not: `record` swallows a refusal, so both go on alike. With the slot the
events of earlier requests are left behind, as nothing reads or changes them any more.

In `ClientesHttp` an id is a record that tells where it comes from: the header of the
client (which two requests may share), `genReqId` of pino, or the middleware. Without a
header the two make different ids for one request; which of them sets `x-correlation-id` of
the answer last depends on the order in which Nest mounts them, so either may. The id the
handler takes before its await, the one the filter takes after it, and the one of the
answer are kept apart (`capturado`, `problema`, `cabecera`). The third guard, of the roles,
never refuses here: the endpoint admits every role there is. An empty header is left out
(`genReqId` keeps it and the middleware replaces it), and so is `userId` of the store, which
nothing sets.

In `Metricas` a request remembers the change it will record, and records it in the step
that ends `guardar`. `GaugeSigueAlHistorial` counts the recorded changes of the stored
histories by solicitud and place (`Registrados`), those that lead to a state and those
that leave it.

### How `Listado` reads the code

Each of the two queries sees one moment of the collection, in either order. A page holds
what comes at its place in descending `createdAt`; documents of one millisecond come in any
order, another one in each query. The client walks from page 1 until a page comes short;
one that stops by the total instead may miss documents whenever the total is read late, and
is not modelled. A request may hold an entity across anything the script does. `deleteMany`
takes its documents one by one in the order of the index on `correlationId`, and a document
that comes back behind it stays; the creates follow. A run may die at any step, and starts
again from nothing. Of a document only `createdAt`, the state and the prefix of its
correlationId are kept; `historia` is a history variable of what the walk should have seen.

What the walk should have seen leaves out the ties. While two documents of the filter
share a `createdAt`, each query may put either first, so one of them may stand behind the
walk in one query and before it in the next although nobody wrote anything; with the
partner gone from the filter afterwards the one departure would have cost two documents.
`OmisionAcotada` therefore counts the documents that tied with no other of the filter at
any moment of the walk (`SinEmpate`).

## 3. Runs

All bounds are constants: `MaxVersion` and `MaxLlamadas` in `Solicitudes`, `MaxDisparos`,
`MaxEspera` and `DecisionesCore` in `MulesoftAdapter`, `MaxReloj` in `ClientesCache`,
`MaxAltas`, `MaxCambios`, `MaxCorridas`, `Destinos` and `Desfases` in `Listado`. They are
guards: a document at `MaxVersion` is not touched any more. The runs of `Solicitudes` and
`Metricas` say `CHECK_DEADLOCK FALSE` because there the service may really stop: when every
solicitud is terminal, or old, and every id is used, no request changes anything. So does
that of `Listado`: once nobody writes any more, a client that waits for nothing need not
start another walk.

| Run | Instance | Shows |
|---|---|---|
| `concurrente` | 2 requests, 1 solicitud, version 5, 2 calls, crashes | what survives every interleaving: types, `HistorialEsCamino`, `ProductoEsDeLaSolicitud`, `FinalizadaTieneProducto`, `CadaRetornoTieneRechazo`, `MotivoTieneOrigen`, `ProductoNoSeBorra` |
| `secuencial` | 2 requests that do not meet, 2 solicitudes, 2 keys, 2 forms, crashes | `ImplementaCicloDeVida`, `TerminalEsFinal`, `HistorialSoloCrece`, `CadaCambioSubeVersion`, `DatosSoloEnDraft`, `ClaveUnica`, `ProductoSoloFinalizada`, `AperturaTrasAprobacion` |
| `un_proceso` | adviser and supervisor, 1 request, version 8, 3 calls, no crash, with the gauge | `DecideUnSupervisor`, `HuerfanoDejaMarca`, `GaugeSigueAlHistorial` |
| `progreso` | 2 requests, version 3, fairness | `TodaPeticionTermina`, `FinalizarDejaRastro` |
| `adaptador` | 2 executions, 1 retry, timeouts of 1 and 2 ticks, fairness | `SemiabiertoTieneSonda`, `NegocioNoAbreCircuito`, `SoloReintentaLoTransitorio`, `ImplementaPuerto`, `TodaLlamadaResponde` |
| `cache` | 2 requests, 1 client, 1 header, TTL of 3 ticks, calls of up to 2, clock of 7 | `FrescuraAcotada`, `ExitoRecienteEsHit`, `RetrocesoAcotado`, `UnEventoPorRespuesta`, `UnSoloId` |
| `listado` | pages of 2, two filters, 1 creation, 1 change of state, 1 run of the script over what an earlier one left | `OmisionAcotada`, `PaginaCuadraConTotal`, `SemillaExacta` |

Version 5 is what the shortest life to FINALIZED needs (review, approval, and the double
touch of `marcarFinalizada`) with one step to spare for the other request; two requests
are enough for a lost update, two calls for a product opened twice or late. Version 8 and
three calls let a solicitud be refused, approved again and finalized. Two executions are
the fewest that meet in a half-open circuit, and one retry each is what lets an attempt
outlive the answer of its caller. Seven ticks hold the life of an entry, the call that
filled it and the next one; clients share nothing but the Map, so one is enough; one header
that both requests may send is the case in which two of them share an id. In `listado` two
pages of two hold the samples, a third one what a creation adds; one creation and one
change are what moves a document across a page boundary or brings a deleted one back; the
creation (`Desfases`) may tie with a sample of the script, whose `createdAt` lies in the hours
before its run; the states of `Destinos` are the one the client filters by and
one outside. Symmetry is used where requests, ids, keys
and forms are interchangeable, and never with liveness.

What an instance is too small for, its theorem covers: with one solicitud in `concurrente`
no product can be crossed with another's (`ProductoEsDeLaSolicitud`), and with one request
slot in `un_proceso` nobody's stale copy is written over a decision (`DecideUnSupervisor`);
`ProductoCorrecto` and `DecisionesCorrectas` prove both for any number.

**Requests that meet.** `secuencial` runs `SpecSinConflicto`: `Spec` as far as no two
requests in flight are of the same solicitud or carry the same `Idempotency-Key`
(`SinConflicto`). Requests on different solicitudes overlap there as they like, and
processes die. Its properties are *not* true when requests meet: `terminal_reabierto` and
`clave_duplicada` show it for two of them, and the counterexamples of the others are the
same lost update. Nothing in the code keeps requests apart, so `SinConflicto` is a condition
on those who use the service, and a lock or a version check per solicitud (and a unique index
on the key) is what would make it true. That line, between what the service guarantees
whatever its users do and what it guarantees only when their requests do not meet, is the
main result of the project. `un_proceso` has one request slot, where requests cannot meet:
with two solicitudes and both users the instance would be too large for histories as long.

**Fairness.** `progreso` assumes weak fairness of the continuation of each request in
flight: the breaker times out every call and MongoDB answers every write. Nobody owes a
new request, and the Core owes no decision. `adaptador` derives the first of these
from less: time passes and Node's timers fire, while the network and the Core owe nothing.

### Disagreements with the documents

| Run | What the documents say | What the code does |
|---|---|---|
| `dos_productos` | HANDBOOK CA#4: same key on a second attempt, one product | a fresh key per attempt: two products, with one request at a time |
| `clave_duplicada` | the header avoids duplicates | two concurrent creations with one key both store |
| `terminal_reabierto` | REJECTED, FINALIZED and ABANDONED are terminal | a stale write leaves them |
| `rechazo_4xx` | a 4xx of the Core is an error of the business and sends the solicitud back to IN_REVIEW (HANDBOOK:167, 188, 191, `solicitudes.controller.ts:227`) | only a 422 does; a 400 or a 401, which `openapi/core-banking.yaml:216-219` lists for the call, is a `CoreBankingUpstreamError`: the solicitud stays APPROVED with the mark for a retry, and finalizar answers 502 |
| `error_502` | after persistent 5xx finalizar answers 502 (HANDBOOK:988-992) and productos-elegibles 503 (HANDBOOK:865) | finalizar answers 503, because the fallback turns every failure into `CORE_CIRCUIT_OPEN`, and productos-elegibles 502, because its `toHttp` knows no other status |

`CadaRetornoTieneRechazo`, `MotivoTieneOrigen` and `ImplementaPuerto` state what the code
takes for a refusal, the 422. What they guard against is the same under either reading: a
timeout, a 5xx or an open circuit that sends a solicitud back while the Core opens its
product, and one refusal counted twice.

Three more have no run of their own, because a property that holds says exactly what the
code does instead:

* **The gauge.** Its help (`metrics.module.ts:39`) is "Cantidad de solicitudes en cada
  estado (sample tras cada cambio)" and HANDBOOK:1049 has it rise for IN_REVIEW when the Core
  refuses. `recordCambioEstado` is called for approvals, rejections, abandonments and
  finalizations only: a first approval takes IN_REVIEW to -1, and the step back moves
  nothing. `GaugeSigueAlHistorial` is what it counts.
* **The audit.** HANDBOOK:881-883 has an event inserted for any valid consultation, and :943
  "1 documento por consulta". A consultation that the Core fails, also with the 404 of a
  client it does not know, leaves none; nor does one whose insert MongoDB refuses, which is
  only logged. `UnEventoPorRespuesta` is what is recorded: each answer with products, once.
* **The history of a failed finalizar.** HANDBOOK:1017-1020 (CA#8) may be read as asking for
  a history entry of every attempt. A failed one only raises the mark, as CA#3 has it;
  `FinalizarDejaRastro` says that this much always happens, as long as no process dies.

## 4. Proofs

Seven modules hold the proofs. None assumes more of the constants than the module it is
about declares, and every safety property of a passing run is the statement of a theorem.

| Module | Specification | Hypothesis on the constants | What it states |
|---|---|---|---|
| `SolicitudesProofs` | `Spec` | none | `TypeOK`, `HistorialEsCamino`, `ProductoEsDeLaSolicitud`, `FinalizadaTieneProducto`, `DecideUnSupervisor`, `ProductoNoSeBorra` |
| `RechazoProofs` | `Spec` | none | `CadaRetornoTieneRechazo`, `MotivoTieneOrigen` |
| `SecuencialProofs` | `SpecSinConflicto` | none | `ClaveUnica`, `ProductoSoloFinalizada`, `AperturaTrasAprobacion`, `TerminalEsFinal`, `DatosSoloEnDraft`, `HistorialSoloCrece`, `CadaCambioSubeVersion`, `ImplementaCicloDeVida` |
| `MetricasProofs` | `SpecMetricas` | none | `TypeOKMetricas`; and that `SpecMetricas` implies `Spec` |
| | `SpecMetricasSinConflicto` | none | `GaugeSigueAlHistorial`, `HuerfanoDejaMarca` |
| `AdaptadorProofs` | `Spec` | none | `TypeOK`, `SemiabiertoTieneSonda`, `NegocioNoAbreCircuito`, `SoloReintentaLoTransitorio`, `ImplementaPuerto` |
| `ListadoProofs` | `Spec` | none | `TypeOK`, `OmisionAcotada`, `PaginaCuadraConTotal`, `SemillaExacta` |
| `ClientesProofs` | `SpecHttp` | none | `TypeOKHttp`, `FrescuraAcotada`, `UnEventoPorRespuesta`, `UnSoloId`, `ExitoRecienteEsHit`, `RetrocesoAcotado` |

`SpecSinConflicto` and `SpecMetricasSinConflicto` restrict behaviours, not constants: each
step leads to a state where the requests in flight do not meet (`SinConflicto`, §3). Users,
solicitudes, keys, calls, crashes and requests in flight may be as many as one likes. The
condition cannot be dropped: `clave_duplicada` and `terminal_reabierto` are the
counterexamples for `ClaveUnica` and `TerminalEsFinal`. `UnaPeticionNoConflicta` and
`UnaPeticionMetricas` say that a service with a single request slot meets it by itself, so
what is proved holds of the instance `un_proceso` as it stands.

### Any interleaving: `SolicitudesProofs` and `RechazoProofs`

`SolicitudesProofs` holds for any sets of requests, ids, keys, users and forms, any bounds
and with or without crashes. The assumptions are those on the constants: `RolesAssumption`
(roles are a function from users to sets of roles) and `ConstantsAssumption` (bounds are
naturals, `SinDatos` is not a form).

**Argument.** None of these is inductive on `docs` alone: `guardar` writes an entity that a
request has held for some time. `IInv` therefore says of *every* entity, stored or in the
memory of a request, that its history is a path that ends in its state, that its product
is one the Core opened for its id, that a finalized one has a product and no mark, and that
its decisions are a supervisor's; and of a request that awaits the Core, that its snapshot
is APPROVED, that its actor is a supervisor and that its call was made for its solicitud.
With that, a lost update replaces one good document by another good one. Two more facts
carry the proof: the mutators preserve each of the four (lemmas on `Transicionar`,
`MarcarFinalizada` and `RegresarARevisionPorRechazoCore`), and a decided call keeps its
decision. The merge of `guardar` needs care: it may keep a product number of the stored
document under the state of the stale entity, which is harmless because both are of the
same solicitud.

`RechazoProofs` is about counting. Between the 422 of the Core and the step back there is
one refusal more than returns, and a crash leaves it so for good; while a stale entity may
take returns off the history again. `RInv` says of every entity, stored or held, that its
returns to IN_REVIEW are no more than the refusals of its solicitud *without the call it is
still waiting for*. That call is what pays for the return its answer brings. `RInv` also
says that an entity with a return has a reason, and one with the reason of the Core a
refusal; `guardar` keeps both over a stale entity, for it takes the history of the new
entity and drops a motive only to keep the stored one.

### Requests that do not meet: `SecuencialProofs` and `MetricasProofs`

When requests do not meet, nobody writes a document between the read of a request and its
`guardar`. `SInv` says what follows: the entity on its way to MongoDB is a *successor* of the document it will
replace (`Sucesor`: same key, longer history, higher version, a legal change of state or
none, the form touched only in DRAFT), or, when there is none, a draft with a key nobody
has; the snapshot of a request that awaits the Core still is the document; and whatever was
called for was approved. Every property of the run `secuencial` is read off `Sucesor`:
`PasoDocumento` says that a step takes each document to itself or to a successor, and that
step is the step of `CicloDeVida` of the refinement theorem `RefinaCicloDeVida`. `Fusion`
does nothing there (`FusionDeSucesor`), which is the exact sense in which the merge of
`guardar` matters only when requests meet. `SinConflicto` is used in the lemmas of
`guardar` alone (`GuardarSecuencial`, `GuardarMetricas`), which says what it is for: the
write of one request must leave the others with a true snapshot, a successor of the
document they read and a key still unused.
Everything else of a step touches only its own request (`TurnoSigue`, `AvanceSigue`).

`MetricasProofs` first shows that the gauge observes (`MetricasSoloObserva`), so `IInv` and
`SInv` hold beside it. `MInv` adds that what a request will record is the one change its
entity appends to the stored history, or nothing when that change is none of the four
recorded (`Apunta`). The write of the document and the move of the gauge are one step, so
both sides of `GaugeSigueAlHistorial` move together; the lemmas `LugaresDeAppend` and
`CuentasDeAppend` count what one appended change does to each state. For
`HuerfanoDejaMarca` it adds that every call which opened a product, *or may still open
one*, is waited for or belongs to a solicitud with a mark or about to get it: the second
half is what makes it inductive, for the Core may decide long after the breaker answered.

### The adapter: `AdaptadorProofs`

For any number of executions, retries, timeouts and any window, under `AdapterAssumption`.
`AInv` is the types, that a half-open circuit has its probe at hand or in flight, and that
between two attempts there is one left and the last one failed with a 5xx or on the
network: what a timer that fires later needs to know of why it was set. The refinement
theorem `RefinaPuerto` maps every step of retries, timers and breaker to a step of
`PuertoCore` or to none, so what `Solicitudes` assumes of the port is what the adapter does.

### The listing and the script: `ListadoProofs`

For any page size, any filters, any number of creations, changes and runs, under
`ListadoAssumption`. For the walk, `LInv` counts the documents the walk should have seen and
has not, and which now stand within the places it has gone over; they are no more than the
documents that left the filter. An arrival only pushes documents on, towards pages still to
come. A departure pulls every later one a place forward, and of those only one, the first
behind the border, comes to stand within it: two untied documents have different numbers of
newer ones. A short page puts every document within the places gone over. For the
script it says where every sample on file comes from: the run will still delete it, has
written it, or a request brought it back.

### The cache and its requests: `ClientesProofs`

`ClientesProofs` proves of `SpecHttp`, for any sets of clients, requests and headers, any
expiry, any deadline of the port and any bound of the clock:

* `TiposHttp`: `TypeOKHttp`;
* `Frescura`: `FrescuraAcotada`;
* `AuditoriaExacta`: `UnEventoPorRespuesta`;
* `IdUnico`: `UnSoloId`;
* `HitTrasExito` and `Retroceso`: `ExitoRecienteEsHit` and `RetrocesoAcotado`, action
  properties.

The assumptions are `CacheAssumption` (the expiry and the deadline are positive) and
`CabecerasAssumption` (no header is not a header).

**Argument.** The properties speak of answers, and an answer may come out of an entry set
long before, so `IInv` speaks of the entries: each was read at most `Plazo` before it was
set, expires at the last success plus `TTL`, and is at most `Plazo` behind the newest datum
anybody has seen. The last of these is what bounds `RetrocesoAcotado`: `set` may put an
older datum over a newer one, but a call that is answered now began at most `Plazo` ago, and
nobody can have seen the future. `HitTrasExito` needs the second: whoever misses found no
entry, or one past its expiry, and either way no success was that recent. `HInv` says of a
request before its answer that its store holds its own id; that is what makes the id the
filter reads after the await the one the handler read before it. Of the audit it says that
an insert on its way belongs to an answer with products and names its kind, and that none
was made before it: an insert is the first of its request, and nothing can follow it. The
two invariants meet in
the step lemma `PasoDeCache`: behind the middlewares, the guards and the filter the cache
takes the steps of `ClientesCache`.

### Only model-checked

* `TodaPeticionTermina`, `FinalizarDejaRastro` and `TodaLlamadaResponde`: liveness under
  fairness, out of the prover's reach.
* The violations of section 3: a counterexample needs no proof.

## 5. Not modelled

* The composition of `Solicitudes` with `MulesoftAdapter`: too many states for TLC. The
  refinement of `PuertoCore` stands for it, since `Solicitudes` takes the port at its word.
* The counter and the histogram of metrics: they only grow.
* The login, bcrypt and the signature of a token: stateless library calls. The count of the
  throttler: its refusal is a step that may come at any time.
* DTO validation, the length of a key, the host allowlist, the hash of an audited document,
  the title and layout of a problem: data only. `abandonarSolicitud` of the port is never
  called.
* The growth of the cache's `Map`: nothing in the code bounds it, so nothing can be checked.
* That a client could send a correlation id with the prefix of the seed, and lose the
  solicitud to the script: the filter of `deleteMany` is the whole of it.
* Health, configuration, tracing, the OpenAPI contract, the smoke script, the catalogue:
  wiring, pure I/O and constants.
* A crash between the 201 of the Core and `guardar`: the runs with crashes take the step, and
  what it leaves, an open product and no mark, is a state nothing on file tells from one that
  never called. `HuerfanoDejaMarca` is about processes that do not die.
* The retry job of HANDBOOK 8.6 is not in the code; `pendiente` is checked because that job
  will rely on it.

## 6. Plan

1. *(done)* state machine, entity, use cases and collection, access; interleavings and
   crashes; proofs of the concurrent invariants.
2. *(done)* adapter and breaker, refinement of the port, mappers, error statuses.
3. *(done)* cache, audit, correlation id and HTTP request, with their proofs; `Metricas`, the
   gauge over `Solicitudes`; the listing and the seed script.
4. *(done)* proofs about `Solicitudes`: the refusals and motives, and when
   requests do not meet the seven properties of `secuencial` and the refinement of
   `CicloDeVida`; the gauge and the late product.
5. *(done)* proofs about the adapter with the refinement of `PuertoCore`, and about the
   listing and the script.
6. The gauge with the conditions under which it does count states: every change recorded.
