------------------------------- MODULE Listado --------------------------------
(***************************************************************************)
(* GET /solicitudes read page by page while the collection moves: the      *)
(* other requests insert solicitudes and change their state, and the seed  *)
(* script deletes its samples and writes them again.                       *)
(*                                                                         *)
(* A page is two queries sent together, find and countDocuments, each of   *)
(* which sees one moment of the collection.  A client walks the pages of   *)
(* one filter from the first until a page comes short.  The script is a    *)
(* process of its own: nothing stops it while requests hold a document it  *)
(* deletes, and guardar upserts.                                           *)
(*                                                                         *)
(* Of a document only what the listing and the script read is kept: its    *)
(* createdAt, its state, and whether its correlationId is one of the seed. *)
(* Ids are numbers given out in order, as nanoid never repeats one.        *)
(***************************************************************************)
EXTENDS Semilla, FiniteSets

CONSTANTS
  Tam,           \* the size a client asks for
  MaxTam,        \* 100, the largest the DTO lets in
  Filtros,       \* the states a client filters by, and Todos
  Todos,         \* no filter
  Desfases,      \* how far the creations between two runs lie from the first, in ticks
  Destinos,      \* bound: the states a request may leave a document in
  MaxAltas,      \* bound: solicitudes created by requests
  MaxCambios,    \* bound: changes of state by requests
  MaxCorridas    \* bound: runs of the seed script

ASSUME ListadoAssumption ==
  /\ Tam \in 1 .. MaxTam
  /\ {MaxTam, MaxAltas, MaxCambios, MaxCorridas} \subseteq Nat
  /\ Filtros \subseteq Estados \cup {Todos}
  /\ Todos \notin Estados
  /\ Destinos \subseteq Estados
  /\ Desfases \subseteq Nat

VARIABLES
  docs,        \* the collection
  escritor,    \* a request that holds an entity and has not saved it
  script,      \* the seed script
  lectura,     \* the walk of the client and the page it awaits
  usados,      \* ids given out, creations and changes so far
  historia     \* history: what the walk should have seen, and what the script lost

vars == <<docs, escritor, script, lectura, usados, historia>>

-----------------------------------------------------------------------------
\* The runs are far apart: the oldest sample of one is newer than the run before it.
Ahora(corrida) == 10 * corrida

Documento(creada, estado, seed) == [creada |-> creada, estado |-> estado, seed |-> seed]

\* A run of the script writes its samples into the hours before it.
DocumentoMuestra(n, corrida) ==
  Documento(Ahora(corrida) - Hace[n], Muestras("seed", "seed")[n].estado, TRUE)

Libre == [pc |-> "libre"]

Sembrados == {id \in DOMAIN docs : docs[id].seed}

\* The filter of listar.
Coincide(doc, filtro) == filtro = Todos \/ doc.estado = filtro

Coinciden(coleccion, filtro) == {id \in DOMAIN coleccion : Coincide(coleccion[id], filtro)}

\* What comes at a place of its own in the listing: nothing else of its millisecond.
SinEmpate(coleccion, filtro) ==
  LET ids == Coinciden(coleccion, filtro)
  IN {id \in ids : \A otro \in ids \ {id} : coleccion[otro].creada # coleccion[id].creada}

SinLectura == [fase |-> "fuera", filtro |-> Todos, pagina |-> 0, items |-> -1, total |-> -1]

TypeOK ==
  /\ docs \in [DOMAIN docs -> [creada : Int, estado : Estados, seed : BOOLEAN]]
  /\ DOMAIN docs \subseteq 1 .. usados.ids
  /\ escritor = Libre \/ escritor \in [pc : {"guardar"}, id : 1 .. usados.ids,
                                       doc : [creada : Int, estado : Estados, seed : BOOLEAN]]
  /\ script \in [fase : {"fuera", "corre", "fin"}, pendientes : SUBSET (1 .. usados.ids),
                 creadas : Seq(1 .. usados.ids), corridas : 0 .. MaxCorridas]
  /\ lectura \in [fase : {"fuera", "pagina"}, filtro : Estados \cup {Todos}, pagina : Nat,
                  items : 0 .. Tam \cup {-1}, total : Nat \cup {-1}]
  /\ usados \in [ids : Nat, altas : 0 .. MaxAltas, cambios : 0 .. MaxCambios]
  /\ historia \in [faltan : SUBSET (1 .. usados.ids), salidas : Nat, cambios : Nat,
                   revividas : SUBSET (1 .. usados.ids)]

\* A collection in which an earlier run of the script wrote its first samples, perhaps all.
Init ==
  /\ \E n \in 0 .. Len(Hace) :
       /\ docs = [id \in 1 .. n |-> DocumentoMuestra(id, 0)]
       /\ usados = [ids |-> n, altas |-> 0, cambios |-> 0]
  /\ escritor = Libre
  /\ script = [fase |-> "fuera", pendientes |-> {}, creadas |-> << >>, corridas |-> 0]
  /\ lectura = SinLectura
  /\ historia = [faltan |-> {}, salidas |-> 0, cambios |-> 0, revividas |-> {}]

\* One of the two queries of a page has been answered and not the other.
EntreConsultas == (lectura.items # -1) # (lectura.total # -1)

\* The collection becomes nuevos; the walk in progress is told what leaves its filter, and
\* no longer waits for what ties with another.
CambiaColeccion(nuevos, revividas) ==
  LET antes == Coinciden(docs, lectura.filtro)
      ahora == Coinciden(nuevos, lectura.filtro)
  IN /\ docs' = nuevos
     /\ historia' = [historia EXCEPT
          !.faltan    = @ \cap SinEmpate(nuevos, lectura.filtro),
          !.salidas   = IF lectura.fase = "pagina" THEN @ + Cardinality(antes \ ahora) ELSE @,
          !.cambios   = IF EntreConsultas /\ antes # ahora THEN @ + 1 ELSE @,
          !.revividas = revividas]

Con(coleccion, id, doc) ==
  [d \in DOMAIN coleccion \cup {id} |-> IF d = id THEN doc ELSE coleccion[d]]

Sin(coleccion, id) == [d \in DOMAIN coleccion \ {id} |-> coleccion[d]]

-----------------------------------------------------------------------------
(* The other requests.                                                     *)

\* The entity is created now; its insert may come after that of a newer one.
Alta ==
  /\ escritor = Libre
  /\ usados.altas < MaxAltas
  /\ \E d \in Desfases :
       escritor' = [pc |-> "guardar", id |-> usados.ids + 1,
                    doc |-> Documento(Ahora(script.corridas) + d, "DRAFT", FALSE)]
  /\ usados' = [usados EXCEPT !.ids = @ + 1, !.altas = @ + 1]
  /\ UNCHANGED <<docs, script, lectura, historia>>

\* A use case reads a document and moves it: a transition, the step back the Core orders,
\* or a save that leaves its state.
Mueve(id, estado) ==
  /\ escritor = Libre
  /\ usados.cambios < MaxCambios
  /\ \/ CanTransitionTo(docs[id].estado, estado)
     \/ docs[id].estado = "APPROVED" /\ estado \in {"APPROVED", "IN_REVIEW"}
     \/ docs[id].estado = estado /\ estado = "DRAFT"
  /\ escritor' = [pc |-> "guardar", id |-> id, doc |-> [docs[id] EXCEPT !.estado = estado]]
  /\ usados' = [usados EXCEPT !.cambios = @ + 1]
  /\ UNCHANGED <<docs, script, lectura, historia>>

\* guardar upserts: a document deleted since it was read comes back, whole.
Guarda ==
  /\ escritor # Libre
  /\ CambiaColeccion(Con(docs, escritor.id, escritor.doc),
                     historia.revividas \cup
                       {id \in {escritor.id} : escritor.doc.seed /\ id \notin DOMAIN docs})
  /\ escritor' = Libre
  /\ UNCHANGED <<script, lectura, usados>>

-----------------------------------------------------------------------------
(* The seed script.                                                        *)

\* A script that only adds.
SiembraEmpieza_SinBorrar ==
  /\ script.fase \in {"fuera", "fin"}
  /\ script.corridas < MaxCorridas
  /\ script' = [fase |-> "corre", pendientes |-> {}, creadas |-> << >>, corridas |-> script.corridas + 1]
  /\ historia' = [historia EXCEPT !.revividas = {}]
  /\ UNCHANGED <<docs, escritor, lectura, usados>>

\* deleteMany starts on what carries a correlationId of the seed.
SiembraEmpieza ==
  /\ script.fase \in {"fuera", "fin"}
  /\ script.corridas < MaxCorridas
  /\ script' = [fase |-> "corre", pendientes |-> Sembrados, creadas |-> << >>,
                corridas |-> script.corridas + 1]
  /\ historia' = [historia EXCEPT !.revividas = {}]
  /\ UNCHANGED <<docs, escritor, lectura, usados>>

\* deleteMany removes its documents one by one, in the order of the index on correlationId;
\* one that comes back behind it stays.
SiembraBorra ==
  /\ script.fase = "corre"
  /\ \E id \in script.pendientes :
       /\ \A otro \in script.pendientes : id <= otro
       /\ CambiaColeccion(Sin(docs, id), historia.revividas)
       /\ script' = [script EXCEPT !.pendientes = @ \ {id}]
  /\ UNCHANGED <<escritor, lectura, usados>>

\* deleteMany is over, and so are the creates before this one.
SiembraCrea ==
  LET n == Len(script.creadas) + 1
      id == usados.ids + 1
  IN /\ script.fase = "corre" /\ script.pendientes = {}
     /\ CambiaColeccion(Con(docs, id, DocumentoMuestra(n, script.corridas)), historia.revividas)
     /\ usados' = [usados EXCEPT !.ids = id]
     /\ script' = [script EXCEPT !.creadas = Append(@, id),
                                 !.fase = IF n = Len(Hace) THEN "fin" ELSE @]
     /\ UNCHANGED <<escritor, lectura>>

\* MongoDB refuses a step, or the script dies: what it did stays.
SiembraFalla ==
  /\ script.fase = "corre"
  /\ script' = [script EXCEPT !.fase = "fuera", !.pendientes = {}, !.creadas = << >>]
  /\ UNCHANGED <<docs, escritor, lectura, usados, historia>>

-----------------------------------------------------------------------------
(* The listing.                                                            *)

\* The documents that may come first: a set no document outside is newer than.
Primeros(ids, n) ==
  {A \in SUBSET ids :
     /\ Cardinality(A) = IF n < Cardinality(ids) THEN n ELSE Cardinality(ids)
     /\ \A a \in A, b \in ids \ A : docs[a].creada >= docs[b].creada}

\* skip a page too many.
Omitidos_UnaDeMas(pagina, tam) == pagina * tam

Omitidos(pagina, tam) == (pagina - 1) * tam

\* ListarSolicitudesUseCase clamps what the controller hands it.
Acotado(tam) == IF tam > MaxTam THEN MaxTam ELSE IF tam < 1 THEN 1 ELSE tam

\* sort by createdAt, skip and limit.  Ties come in any order, another one in each query.
Paginas(ids, pagina, tam) ==
  LET antes == Omitidos(pagina, tam)
  IN UNION {{Q \ A : Q \in {P \in Primeros(ids, antes + tam) : A \subseteq P}} :
              A \in Primeros(ids, antes)}

PidePagina(pagina, filtro) ==
  lectura' = [SinLectura EXCEPT !.fase = "pagina", !.pagina = pagina, !.filtro = filtro]

Empieza(filtro) ==
  /\ lectura.fase = "fuera"
  /\ PidePagina(1, filtro)
  /\ historia' = [historia EXCEPT !.faltan = SinEmpate(docs, filtro)]
  /\ UNCHANGED <<docs, escritor, script, usados>>

\* find.
Halla ==
  /\ lectura.fase = "pagina" /\ lectura.items = -1
  /\ \E items \in Paginas(Coinciden(docs, lectura.filtro), lectura.pagina, Acotado(Tam)) :
       /\ lectura' = [lectura EXCEPT !.items = Cardinality(items)]
       /\ historia' = [historia EXCEPT !.faltan = @ \ items]
  /\ UNCHANGED <<docs, escritor, script, usados>>

\* countDocuments without the filter.
Cuenta_Todo ==
  /\ lectura.fase = "pagina" /\ lectura.total = -1
  /\ lectura' = [lectura EXCEPT !.total = Cardinality(DOMAIN docs)]
  /\ UNCHANGED <<docs, escritor, script, usados, historia>>

\* countDocuments, before or after find.
Cuenta ==
  /\ lectura.fase = "pagina" /\ lectura.total = -1
  /\ lectura' = [lectura EXCEPT !.total = Cardinality(Coinciden(docs, lectura.filtro))]
  /\ UNCHANGED <<docs, escritor, script, usados, historia>>

Respondida == lectura.items # -1 /\ lectura.total # -1

UltimaPagina == Respondida /\ lectura.items < Tam

\* The answer reaches the client: a whole page asks for the next one.
Responde ==
  /\ Respondida
  /\ IF UltimaPagina
     THEN /\ lectura' = SinLectura
          /\ historia' = [historia EXCEPT !.faltan = {}, !.salidas = 0, !.cambios = 0]
     ELSE /\ PidePagina(lectura.pagina + 1, lectura.filtro)
          /\ historia' = [historia EXCEPT !.cambios = 0]
  /\ UNCHANGED <<docs, escritor, script, usados>>

-----------------------------------------------------------------------------
Next ==
  \/ Alta
  \/ \E id \in DOMAIN docs, estado \in Destinos : Mueve(id, estado)
  \/ Guarda
  \/ SiembraEmpieza
  \/ SiembraBorra
  \/ SiembraCrea
  \/ SiembraFalla
  \/ \E filtro \in Filtros : Empieza(filtro)
  \/ Halla
  \/ Cuenta
  \/ Responde

Spec == Init /\ [][Next]_vars

-----------------------------------------------------------------------------
(* Properties.                                                             *)

\* A client that walks the pages to a short one misses of what was there all along no more
\* documents than left its filter meanwhile: insertions, wherever they fall, may repeat a
\* document and never hide one (listar: skip and limit over a descending createdAt).  A
\* document that shared its millisecond with another of the filter, if only for a while, is
\* no part of the promise: each query may have put the other one in its place.
OmisionAcotada == UltimaPagina => Cardinality(historia.faltan) <= historia.salidas

\* The page and the total of one answer differ at most by what the collection changed
\* between their two queries (the Promise.all of listar).
PaginaCuadraConTotal ==
  Respondida =>
    LET hasta == Omitidos(lectura.pagina, Tam) + lectura.items
    IN /\ lectura.items > 0 => hasta <= lectura.total + historia.cambios
       /\ lectura.items < Tam => lectura.total <= hasta + historia.cambios

\* After a run of the script that ends, also one that follows a run that did not, its four
\* samples are there, and any other sample is one a request in flight brought back.
SemillaExacta ==
  script.fase = "fin" =>
    LET creadas == {script.creadas[i] : i \in DOMAIN script.creadas}
    IN creadas \subseteq Sembrados /\ Sembrados \ creadas \subseteq historia.revividas

=============================================================================
