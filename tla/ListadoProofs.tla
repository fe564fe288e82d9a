---------------------------- MODULE ListadoProofs -----------------------------
(***************************************************************************)
(* The safety of Listado for any page size, any number of solicitudes, of  *)
(* changes and of runs of the seed script.                                 *)
(*                                                                         *)
(* A walk through the pages has gone over a number of places of the        *)
(* listing.  A document it should have seen, has not seen and no longer    *)
(* will is one with fewer newer documents than that: LecturaOK counts      *)
(* them.  A document that leaves the filter brings at most one more to     *)
(* this side, for no two of them share a createdAt.                        *)
(***************************************************************************)
EXTENDS Listado, FiniteSetTheorems, TLAPS

Documentos == [creada : Int, estado : Estados, seed : BOOLEAN]
Fases      == {"fuera", "corre", "fin"}

Escritores(n) == [pc : {"guardar"}, id : 1 .. n, doc : Documentos]
Scripts(n)    == [fase : Fases, pendientes : SUBSET (1 .. n), creadas : Seq(1 .. n),
                  corridas : 0 .. MaxCorridas]
Lecturas      == [fase : {"fuera", "pagina"}, filtro : Estados \cup {Todos}, pagina : Nat,
                  items : 0 .. Tam \cup {-1}, total : Nat \cup {-1}]
Cuentas       == [ids : Nat, altas : 0 .. MaxAltas, cambios : 0 .. MaxCambios]
Historias(n)  == [faltan : SUBSET (1 .. n), salidas : Nat, cambios : Nat,
                  revividas : SUBSET (1 .. n)]

ColeccionOK(D, n) == D \in [DOMAIN D -> Documentos] /\ DOMAIN D \subseteq 1 .. n

\* The entity a request holds is the document it read, if that one is still there.
EscritorOK(D, e, n) ==
  \/ e = Libre
  \/ /\ e \in Escritores(n)
     /\ e.id \in DOMAIN D => D[e.id].creada = e.doc.creada /\ D[e.id].seed = e.doc.seed

Escritas(s) == {s.creadas[i] : i \in DOMAIN s.creadas}

\* Every sample on file is one the script will still delete, has written, or was brought back.
ScriptOK(D, s, n, revividas) ==
  /\ s \in Scripts(n)
  /\ s.fase = "corre" => Len(s.creadas) < Len(Hace)
  /\ s.fase = "fin" \/ s.creadas # << >> => s.pendientes = {}
  /\ \A id \in Escritas(s) : s.fase # "fuera" => id \in DOMAIN D /\ D[id].seed
  /\ \A id \in DOMAIN D : D[id].seed /\ s.fase # "fuera" =>
       id \in s.pendientes \/ id \in Escritas(s) \/ id \in revividas

\* The documents of ids that come before id in the listing.
Antes(D, ids, id) == {o \in ids : D[o].creada > D[id].creada}

\* Those of F within the first k places of the listing.
Perdidos(D, ids, F, k) == {id \in F : Cardinality(Antes(D, ids, id)) < k}

\* The places the walk has gone over.
Pasados(l) == IF l.items = -1 THEN Omitidos(l.pagina, Tam) ELSE Omitidos(l.pagina + 1, Tam)

RecorridoOK(D, l, h) ==
  l.fase = "pagina" =>
    /\ l.pagina >= 1
    /\ h.faltan \subseteq SinEmpate(D, l.filtro)
    /\ Cardinality(Perdidos(D, Coinciden(D, l.filtro), h.faltan, Pasados(l))) <= h.salidas
    /\ l.items # -1 /\ l.items < Tam => Cardinality(h.faltan) <= h.salidas

\* The documents of a page of a listing of n that skips k.
EnPagina(n, k) == IF n <= k THEN 0 ELSE IF n < k + Tam THEN n - k ELSE Tam

\* What the second query of a page saw was no further from the first than the changes between.
CuentaOK(D, l, h) ==
  LET n == IF l.total = -1 THEN Cardinality(Coinciden(D, l.filtro)) ELSE l.total
  IN /\ l.fase = "fuera" => l.items = -1 /\ l.total = -1
     /\ l.items = -1 /\ l.total = -1 => h.cambios = 0
     /\ l.items = -1 /\ l.total # -1 =>
          LET m == Cardinality(Coinciden(D, l.filtro))
          IN m <= l.total + h.cambios /\ l.total <= m + h.cambios
     /\ l.items # -1 =>
          \E m \in Nat : /\ l.items = EnPagina(m, Omitidos(l.pagina, Tam))
                         /\ m <= n + h.cambios /\ n <= m + h.cambios

LInv ==
  /\ usados \in Cuentas
  /\ lectura \in Lecturas
  /\ historia \in Historias(usados.ids)
  /\ ColeccionOK(docs, usados.ids)
  /\ EscritorOK(docs, escritor, usados.ids)
  /\ ScriptOK(docs, script, usados.ids, historia.revividas)
  /\ RecorridoOK(docs, lectura, historia)
  /\ CuentaOK(docs, lectura, historia)

LEMMA Constantes ==
  /\ Tam \in Nat \ {0} /\ Acotado(Tam) = Tam /\ MaxTam \in Nat
  /\ MaxAltas \in Nat /\ MaxCambios \in Nat /\ MaxCorridas \in Nat
  /\ Filtros \subseteq Estados \cup {Todos} /\ Destinos \subseteq Estados /\ Desfases \subseteq Nat
BY ListadoAssumption DEF Acotado

LEMMA Saltos ==
  ASSUME NEW p \in Nat \ {0}
  PROVE  /\ Omitidos(p, Tam) \in Nat /\ Omitidos(p + 1, Tam) \in Nat
         /\ Omitidos(p + 1, Tam) = Omitidos(p, Tam) + Tam
         /\ Omitidos(1, Tam) = 0
<1>1. Tam \in Nat \ {0}
  BY Constantes
<1>2. \A t \in Nat \ {0} : (p - 1) * t \in Nat /\ (p + 1 - 1) * t \in Nat
                           /\ (p + 1 - 1) * t = (p - 1) * t + t /\ (1 - 1) * t = 0
  OBVIOUS
<1> QED BY <1>1, <1>2 DEF Omitidos

-----------------------------------------------------------------------------
(* Counting.                                                               *)

LEMMA Contar ==
  ASSUME NEW S, IsFiniteSet(S), NEW T \in SUBSET S
  PROVE  /\ IsFiniteSet(T) /\ Cardinality(T) \in Nat /\ Cardinality(S) \in Nat
         /\ Cardinality(T) <= Cardinality(S)
         /\ Cardinality(T) = Cardinality(S) => T = S
BY FS_Subset, FS_CardinalityType

\* One element more or less is one place more or less.
LEMMA UnoMas ==
  ASSUME NEW S, NEW T, IsFiniteSet(S), IsFiniteSet(T), NEW x, T \subseteq S \cup {x}
  PROVE  /\ Cardinality(T) \in Nat /\ Cardinality(S) \in Nat
         /\ Cardinality(T) <= Cardinality(S) + 1
<1>1. /\ Cardinality(S) \in Nat /\ Cardinality(T) \in Nat /\ IsFiniteSet(S \cup {x})
      /\ Cardinality(S \cup {x}) \in {Cardinality(S), Cardinality(S) + 1}
  BY FS_AddElement, FS_CardinalityType
<1>2. Cardinality(T) <= Cardinality(S \cup {x})
  BY <1>1, FS_Subset
<1> QED BY <1>1, <1>2

LEMMA Coleccion ==
  ASSUME NEW n \in Nat, NEW D, ColeccionOK(D, n), NEW f
  PROVE  /\ IsFiniteSet(DOMAIN D) /\ IsFiniteSet(Coinciden(D, f))
         /\ Coinciden(D, f) \subseteq DOMAIN D /\ DOMAIN D \subseteq 1 .. n
         /\ \A o \in DOMAIN D :
              D[o] \in Documentos /\ D[o].creada \in Int /\ D[o].seed \in BOOLEAN
<1>1. DOMAIN D \subseteq 1 .. n /\ \A o \in DOMAIN D : D[o] \in Documentos
  BY DEF ColeccionOK
<1>2. Coinciden(D, f) \subseteq DOMAIN D
  BY DEF Coinciden
<1>3. IsFiniteSet(1 .. n)
  BY FS_Interval
<1>4. IsFiniteSet(DOMAIN D)
  BY <1>1, <1>3, FS_Subset
<1>5. IsFiniteSet(Coinciden(D, f))
  BY <1>2, <1>4, FS_Subset
<1> QED BY <1>1, <1>2, <1>4, <1>5 DEF Documentos

\* Two documents with places of their own have different numbers of newer ones.
LEMMA PuestosDistintos ==
  ASSUME NEW n \in Nat, NEW D, ColeccionOK(D, n), NEW f,
         NEW u \in SinEmpate(D, f), NEW v \in SinEmpate(D, f), u # v
  PROVE  Cardinality(Antes(D, Coinciden(D, f), u)) # Cardinality(Antes(D, Coinciden(D, f), v))
<1> DEFINE ids == Coinciden(D, f)
<1>1. /\ \A o \in ids : D[o].creada \in Int
      /\ IsFiniteSet(ids)
  BY Coleccion
<1>2. u \in ids /\ v \in ids /\ D[u].creada # D[v].creada
  BY DEF SinEmpate
<1> HIDE DEF ids
<1>3. \A a, b \in ids : D[a].creada > D[b].creada =>
        Cardinality(Antes(D, ids, a)) # Cardinality(Antes(D, ids, b))
  <2> SUFFICES ASSUME NEW a \in ids, NEW b \in ids, D[a].creada > D[b].creada
               PROVE  Cardinality(Antes(D, ids, a)) # Cardinality(Antes(D, ids, b))
    OBVIOUS
  <2>1. /\ Antes(D, ids, a) \subseteq Antes(D, ids, b)
        /\ a \in Antes(D, ids, b) /\ a \notin Antes(D, ids, a)
        /\ Antes(D, ids, b) \subseteq ids
    BY <1>1 DEF Antes
  <2>2. IsFiniteSet(Antes(D, ids, b))
    BY <1>1, <2>1, FS_Subset
  <2> QED BY <2>1, <2>2, Contar
<1>4. D[u].creada > D[v].creada \/ D[v].creada > D[u].creada
  BY <1>1, <1>2
<1> QED BY <1>2, <1>3, <1>4 DEF ids

\* Between D and E only the document x came, left or changed its state.
SoloMueve(D, E, x) ==
  /\ \A id \in (DOMAIN D \cup DOMAIN E) \ {x} : id \in DOMAIN D /\ id \in DOMAIN E /\ E[id] = D[id]
  /\ x \in DOMAIN D /\ x \in DOMAIN E => E[x].creada = D[x].creada

LEMMA Movidos ==
  ASSUME NEW D, NEW E, NEW x, SoloMueve(D, E, x), NEW f
  PROVE  /\ \A id \in Coinciden(D, f) : id # x => id \in Coinciden(E, f)
         /\ \A id \in Coinciden(E, f) : id # x => id \in Coinciden(D, f)
         /\ \A id \in Coinciden(D, f) \cap Coinciden(E, f) : E[id].creada = D[id].creada
BY DEF SoloMueve, Coinciden, Coincide

\* The size of a listing changes by one at most.
LEMMA ListaCambiaEnUno ==
  ASSUME NEW n \in Nat, NEW D, ColeccionOK(D, n), NEW m \in Nat, NEW E, ColeccionOK(E, m),
         NEW x, SoloMueve(D, E, x), NEW f
  PROVE  LET a == Cardinality(Coinciden(D, f))
             b == Cardinality(Coinciden(E, f))
         IN /\ a \in Nat /\ b \in Nat /\ a <= b + 1 /\ b <= a + 1
            /\ Coinciden(D, f) = Coinciden(E, f) => a = b
            /\ Cardinality(Coinciden(D, f) \ Coinciden(E, f)) \in Nat
<1>1. /\ IsFiniteSet(Coinciden(D, f)) /\ IsFiniteSet(Coinciden(E, f))
      /\ Coinciden(D, f) \subseteq Coinciden(E, f) \cup {x}
      /\ Coinciden(E, f) \subseteq Coinciden(D, f) \cup {x}
  BY Coleccion, Movidos
<1>2. Cardinality(Coinciden(D, f) \ Coinciden(E, f)) \in Nat
  BY <1>1, Contar
<1> QED BY <1>1, <1>2, UnoMas

\* A document that leaves the listing brings one of the others at most among the first k.
LEMMA PerdidosCrecen ==
  ASSUME NEW n \in Nat, NEW D, ColeccionOK(D, n), NEW m \in Nat, NEW E, ColeccionOK(E, m),
         NEW x, SoloMueve(D, E, x), NEW f, NEW F \in SUBSET SinEmpate(D, f), NEW k \in Nat
  PROVE  Cardinality(Perdidos(E, Coinciden(E, f), F \cap SinEmpate(E, f), k))
           <= Cardinality(Perdidos(D, Coinciden(D, f), F, k))
              + Cardinality(Coinciden(D, f) \ Coinciden(E, f))
<1> DEFINE ids == Coinciden(D, f)
           nids == Coinciden(E, f)
           G == F \cap SinEmpate(E, f)
           P == Perdidos(D, ids, F, k)
           Q == Perdidos(E, nids, G, k)
<1>1. /\ IsFiniteSet(ids) /\ IsFiniteSet(nids) /\ F \subseteq ids /\ G \subseteq ids \cap nids
      /\ \A id \in ids : id # x => id \in nids
      /\ \A id \in nids : id # x => id \in ids
      /\ \A id \in ids \cap nids : E[id].creada = D[id].creada
  BY Coleccion, Movidos DEF SinEmpate
<1>2. P \subseteq F /\ Q \subseteq G /\ G \subseteq F
  BY DEF Perdidos
<1>3. IsFiniteSet(P) /\ IsFiniteSet(Q) /\ Cardinality(P) \in Nat /\ Cardinality(Q) \in Nat
  BY <1>1, <1>2, FS_Subset, FS_CardinalityType
<1>4. \A u, v \in F : u # v => Cardinality(Antes(D, ids, u)) # Cardinality(Antes(D, ids, v))
  BY PuestosDistintos
<1>5. \A id \in G :
        /\ Antes(D, ids, id) \subseteq Antes(E, nids, id) \cup {x}
        /\ x \in ids => x \in nids \/ x \notin Antes(E, nids, id)
        /\ IsFiniteSet(Antes(D, ids, id)) /\ IsFiniteSet(Antes(E, nids, id))
        /\ Cardinality(Antes(D, ids, id)) \in Nat /\ Cardinality(Antes(E, nids, id)) \in Nat
  <2> SUFFICES ASSUME NEW id \in G
               PROVE  /\ Antes(D, ids, id) \subseteq Antes(E, nids, id) \cup {x}
                      /\ IsFiniteSet(Antes(D, ids, id)) /\ IsFiniteSet(Antes(E, nids, id))
    BY FS_CardinalityType DEF Antes
  <2> HIDE DEF ids, nids, G
  <2>1. Antes(D, ids, id) \subseteq Antes(E, nids, id) \cup {x}
    BY <1>1 DEF Antes
  <2>2. Antes(D, ids, id) \subseteq ids /\ Antes(E, nids, id) \subseteq nids
    BY DEF Antes
  <2> QED BY <1>1, <2>1, <2>2, FS_Subset
<1>6. CASE x \in ids \ nids
  <2>1. ids \ nids = {x}
    BY <1>1, <1>6
  <2>2. Cardinality(ids \ nids) = 1
    BY <2>1, FS_Singleton
  <2>3. \A id \in Q \ P : Cardinality(Antes(D, ids, id)) = k
    <3> SUFFICES ASSUME NEW id \in Q \ P
                 PROVE  Cardinality(Antes(D, ids, id)) = k
      OBVIOUS
    <3>1. /\ id \in G /\ ~ (Cardinality(Antes(D, ids, id)) < k)
          /\ Cardinality(Antes(E, nids, id)) < k
      BY <1>2 DEF Perdidos
    <3>2. Cardinality(Antes(D, ids, id)) <= Cardinality(Antes(E, nids, id)) + 1
      BY <1>5, <3>1, UnoMas
    <3> QED BY <1>5, <3>1, <3>2
  <2>4. PICK w : Q \subseteq P \cup {w}
    <3>1. CASE Q \ P = {}
      BY <3>1
    <3>2. CASE Q \ P # {}
      <4>1. PICK u \in Q \ P : TRUE
        BY <3>2
      <4>2. \A v \in Q \ P : v = u
        BY <1>2, <1>4, <2>3, <4>1
      <4> QED BY <4>2
    <3> QED BY <3>1, <3>2
  <2>5. Cardinality(Q) <= Cardinality(P) + 1
    BY <1>3, <2>4, UnoMas
  <2> QED BY <2>2, <2>5
<1>7. CASE x \notin ids \ nids
  <2>1. ids \subseteq nids /\ ids \ nids = {}
    BY <1>1, <1>7
  <2>2. \A id \in G : Antes(D, ids, id) \subseteq Antes(E, nids, id)
    <3> HIDE DEF ids, nids, G
    <3> QED BY <1>1, <2>1 DEF Antes
  <2>3. \A id \in G : Cardinality(Antes(D, ids, id)) <= Cardinality(Antes(E, nids, id))
    BY <1>5, <2>2, FS_Subset
  <2>4. Q \subseteq P
    BY <1>2, <1>5, <2>3 DEF Perdidos
  <2>5. Cardinality(ids \ nids) = 0
    BY <2>1, FS_EmptySet
  <2>6. Cardinality(Q) <= Cardinality(P)
    BY <1>3, <2>4, FS_Subset
  <2> QED BY <1>3, <2>5, <2>6
<1> QED BY <1>6, <1>7

-----------------------------------------------------------------------------
(* What a page holds.                                                      *)

\* The page that follows the first k holds every document it should: one that has a place
\* of its own among the next Tam and was not among the first k.
LEMMA PaginaSinHuecos ==
  ASSUME NEW n \in Nat, ColeccionOK(docs, n), NEW f, NEW k \in Nat,
         NEW A \in Primeros(Coinciden(docs, f), k),
         NEW Q \in Primeros(Coinciden(docs, f), k + Tam), A \subseteq Q,
         NEW F \in SUBSET SinEmpate(docs, f)
  PROVE  LET ids == Coinciden(docs, f)
         IN /\ Perdidos(docs, ids, F \ (Q \ A), k + Tam) \subseteq Perdidos(docs, ids, F, k)
            /\ Cardinality(Q \ A) = EnPagina(Cardinality(ids), k)
            /\ Cardinality(Q \ A) \in 0 .. Tam
            /\ Cardinality(Q \ A) < Tam => Perdidos(docs, ids, F, k + Tam) = F
<1> DEFINE ids == Coinciden(docs, f)
           t == Cardinality(ids)
<1>1. /\ IsFiniteSet(ids) /\ t \in Nat /\ Tam \in Nat \ {0}
      /\ \A o \in ids : docs[o].creada \in Int
  BY Coleccion, Constantes, FS_CardinalityType
<1>2. /\ A \subseteq ids /\ Q \subseteq ids
      /\ Cardinality(A) = IF k < t THEN k ELSE t
      /\ Cardinality(Q) = IF k + Tam < t THEN k + Tam ELSE t
      /\ \A a \in A, b \in ids \ A : docs[a].creada >= docs[b].creada
      /\ \A a \in Q, b \in ids \ Q : docs[a].creada >= docs[b].creada
  BY DEF Primeros
<1>3. /\ F \subseteq ids
      /\ \A u \in F : \A o \in ids \ {u} : docs[o].creada # docs[u].creada
  BY DEF SinEmpate
<1> HIDE DEF ids, t
<1>4. IsFiniteSet(A) /\ IsFiniteSet(Q) /\ \A id \in ids : IsFiniteSet(Antes(docs, ids, id))
  <2>1. \A id \in ids : Antes(docs, ids, id) \subseteq ids
    BY DEF Antes
  <2> QED BY <1>1, <1>2, <2>1, FS_Subset
<1>5. ASSUME NEW id \in F, Cardinality(Antes(docs, ids, id)) < k + Tam
      PROVE  id \in Q
  <2> SUFFICES ASSUME id \notin Q PROVE FALSE
    OBVIOUS
  <2>1. Q \subseteq Antes(docs, ids, id)
    BY <1>1, <1>2, <1>3 DEF Antes
  <2>2. /\ Cardinality(Q) <= Cardinality(Antes(docs, ids, id))
        /\ Cardinality(Antes(docs, ids, id)) \in Nat
    BY <1>3, <1>4, <2>1, FS_Subset, FS_CardinalityType
  <2>3. Cardinality(Q) = t
    BY <1>1, <1>2, <1>5, <2>2
  <2>4. Q = ids
    BY <1>1, <1>2, <2>3, Contar DEF t
  <2> QED BY <1>3, <2>4
<1>6. ASSUME NEW id \in F, id \in A
      PROVE  Cardinality(Antes(docs, ids, id)) < k
  <2>1. Antes(docs, ids, id) \subseteq A /\ id \notin Antes(docs, ids, id)
    BY <1>1, <1>2, <1>3, <1>6 DEF Antes
  <2>2. /\ Cardinality(Antes(docs, ids, id)) <= Cardinality(A)
        /\ Cardinality(Antes(docs, ids, id)) # Cardinality(A)
        /\ Cardinality(Antes(docs, ids, id)) \in Nat
    BY <1>4, <1>6, <2>1, Contar
  <2> QED BY <1>1, <1>2, <2>2
<1>7. Perdidos(docs, ids, F \ (Q \ A), k + Tam) \subseteq Perdidos(docs, ids, F, k)
  BY <1>5, <1>6 DEF Perdidos
<1>8. Cardinality(Q \ A) = Cardinality(Q) - Cardinality(A)
  <2>1. Cardinality(Q \ A) = Cardinality(Q) - Cardinality(Q \cap A)
    BY <1>4, FS_Difference
  <2>2. Q \cap A = A
    OBVIOUS
  <2> QED BY <2>1, <2>2
<1>9. Cardinality(Q \ A) = EnPagina(t, k) /\ Cardinality(Q \ A) \in 0 .. Tam
  BY <1>1, <1>2, <1>8 DEF EnPagina
<1>10. ASSUME Cardinality(Q \ A) < Tam
       PROVE  Perdidos(docs, ids, F, k + Tam) = F
  <2>1. t < k + Tam
    BY <1>1, <1>9, <1>10 DEF EnPagina
  <2>2. \A id \in F : Cardinality(Antes(docs, ids, id)) <= t
                      /\ Cardinality(Antes(docs, ids, id)) \in Nat
    <3>1. \A id \in F : Antes(docs, ids, id) \subseteq ids
      BY DEF Antes
    <3> QED BY <1>1, <3>1, Contar DEF t
  <2> QED BY <1>1, <2>1, <2>2 DEF Perdidos
<1> QED BY <1>7, <1>9, <1>10 DEF ids, t

LEMMA PaginaDe ==
  ASSUME NEW ids, NEW p, NEW items \in Paginas(ids, p, Tam)
  PROVE  \E A \in Primeros(ids, Omitidos(p, Tam)), Q \in Primeros(ids, Omitidos(p, Tam) + Tam) :
           A \subseteq Q /\ items = Q \ A
BY DEF Paginas

-----------------------------------------------------------------------------
(* What a change of the collection does to the walk.                       *)

LEMMA HistoriaCampos ==
  ASSUME NEW n, NEW h \in Historias(n)
  PROVE  /\ h.faltan \in SUBSET (1 .. n) /\ h.salidas \in Nat /\ h.cambios \in Nat
         /\ h.revividas \in SUBSET (1 .. n)
BY DEF Historias

LEMMA LecturaCampos ==
  ASSUME NEW l \in Lecturas
  PROVE  /\ l.fase \in {"fuera", "pagina"} /\ l.filtro \in Estados \cup {Todos} /\ l.pagina \in Nat
         /\ l.items \in 0 .. Tam \cup {-1} /\ l.total \in Nat \cup {-1}
BY DEF Lecturas

LEMMA HistoriaTrasCambio ==
  ASSUME NEW n \in Nat, NEW m \in Nat, n <= m, historia \in Historias(n), lectura \in Lecturas,
         ColeccionOK(docs, n), NEW nuevos, ColeccionOK(nuevos, m), NEW x,
         SoloMueve(docs, nuevos, x), NEW R \in SUBSET (1 .. m), CambiaColeccion(nuevos, R)
  PROVE  LET antes == Coinciden(docs, lectura.filtro)
             ahora == Coinciden(nuevos, lectura.filtro)
         IN /\ docs' = nuevos
            /\ historia' \in Historias(m)
            /\ historia'.faltan = historia.faltan \cap SinEmpate(nuevos, lectura.filtro)
            /\ historia'.salidas = IF lectura.fase = "pagina"
                                   THEN historia.salidas + Cardinality(antes \ ahora)
                                   ELSE historia.salidas
            /\ historia'.cambios = IF EntreConsultas /\ antes # ahora
                                   THEN historia.cambios + 1 ELSE historia.cambios
            /\ historia'.revividas = R
<1> DEFINE antes == Coinciden(docs, lectura.filtro)
           ahora == Coinciden(nuevos, lectura.filtro)
           F == historia.faltan \cap SinEmpate(nuevos, lectura.filtro)
           s == IF lectura.fase = "pagina" THEN historia.salidas + Cardinality(antes \ ahora)
                ELSE historia.salidas
           c == IF EntreConsultas /\ antes # ahora THEN historia.cambios + 1 ELSE historia.cambios
<1>1. /\ docs' = nuevos
      /\ historia' = [historia EXCEPT !.faltan = F, !.salidas = s, !.cambios = c, !.revividas = R]
  BY DEF CambiaColeccion
<1>2. Cardinality(antes \ ahora) \in Nat
  BY ListaCambiaEnUno
<1>3. s \in Nat /\ c \in Nat
  BY <1>2, HistoriaCampos
<1>4. F \in SUBSET (1 .. m)
  BY HistoriaCampos
<1> HIDE DEF F, s, c
<1>5. \A g : g = [historia EXCEPT !.faltan = F, !.salidas = s, !.cambios = c, !.revividas = R] =>
        /\ g \in Historias(m)
        /\ g.faltan = F /\ g.salidas = s /\ g.cambios = c /\ g.revividas = R
  <2>1. historia \in Historias(n) /\ R \in SUBSET (1 .. m)
    OBVIOUS
  <2> QED BY ONLY <1>3, <1>4, <2>1 DEF Historias
<1>6. /\ historia' \in Historias(m)
      /\ historia'.faltan = F /\ historia'.salidas = s /\ historia'.cambios = c
      /\ historia'.revividas = R
  BY <1>1, <1>5
<1> QED BY <1>1, <1>6 DEF F, s, c

LEMMA CambioRecorrido ==
  ASSUME NEW n \in Nat, NEW m \in Nat, n <= m, historia \in Historias(n), lectura \in Lecturas,
         ColeccionOK(docs, n), NEW nuevos, ColeccionOK(nuevos, m), NEW x,
         SoloMueve(docs, nuevos, x), NEW R \in SUBSET (1 .. m), CambiaColeccion(nuevos, R),
         RecorridoOK(docs, lectura, historia)
  PROVE  RecorridoOK(nuevos, lectura, historia')
<1> SUFFICES ASSUME lectura.fase = "pagina"
             PROVE  RecorridoOK(nuevos, lectura, historia')
  BY DEF RecorridoOK
<1> DEFINE f == lectura.filtro
           k == Pasados(lectura)
           F == historia.faltan
           G == historia.faltan \cap SinEmpate(nuevos, f)
           sale == Cardinality(Coinciden(docs, f) \ Coinciden(nuevos, f))
<1>1. /\ lectura.pagina >= 1 /\ F \in SUBSET SinEmpate(docs, f)
      /\ Cardinality(Perdidos(docs, Coinciden(docs, f), F, k)) <= historia.salidas
      /\ lectura.items # -1 /\ lectura.items < Tam => Cardinality(F) <= historia.salidas
  BY DEF RecorridoOK
<1>2. historia'.faltan = G /\ historia'.salidas = historia.salidas + sale
  BY HistoriaTrasCambio
<1>3. k \in Nat
  BY <1>1, LecturaCampos, Saltos DEF Pasados
<1>4. sale \in Nat /\ historia.salidas \in Nat
  BY ListaCambiaEnUno, HistoriaCampos
<1>5. IsFiniteSet(F)
  <2>1. F \subseteq Coinciden(docs, f)
    BY <1>1 DEF SinEmpate
  <2> QED BY <2>1, Coleccion, FS_Subset
<1>6. /\ Cardinality(F) \in Nat /\ Cardinality(G) \in Nat /\ Cardinality(G) <= Cardinality(F)
      /\ Cardinality(Perdidos(docs, Coinciden(docs, f), F, k)) \in Nat
      /\ Cardinality(Perdidos(nuevos, Coinciden(nuevos, f), G, k)) \in Nat
  <2>1. /\ G \subseteq F
        /\ Perdidos(docs, Coinciden(docs, f), F, k) \subseteq F
        /\ Perdidos(nuevos, Coinciden(nuevos, f), G, k) \subseteq F
    BY DEF Perdidos
  <2> QED BY <1>5, <2>1, Contar
<1>7. Cardinality(Perdidos(nuevos, Coinciden(nuevos, f), G, k))
        <= Cardinality(Perdidos(docs, Coinciden(docs, f), F, k)) + sale
  BY <1>1, <1>3, PerdidosCrecen
<1>8. G \subseteq SinEmpate(nuevos, f)
  OBVIOUS
<1> HIDE DEF k, F, G, sale
<1>9. Cardinality(Perdidos(nuevos, Coinciden(nuevos, f), G, k)) <= historia'.salidas
  BY <1>1, <1>2, <1>4, <1>6, <1>7
<1>10. lectura.items # -1 /\ lectura.items < Tam => Cardinality(G) <= historia'.salidas
  BY <1>1, <1>2, <1>4, <1>6
<1> QED BY <1>1, <1>2, <1>8, <1>9, <1>10 DEF RecorridoOK, k

LEMMA CambioCuenta ==
  ASSUME NEW n \in Nat, NEW m \in Nat, n <= m, historia \in Historias(n), lectura \in Lecturas,
         ColeccionOK(docs, n), NEW nuevos, ColeccionOK(nuevos, m), NEW x,
         SoloMueve(docs, nuevos, x), NEW R \in SUBSET (1 .. m), CambiaColeccion(nuevos, R),
         CuentaOK(docs, lectura, historia)
  PROVE  CuentaOK(nuevos, lectura, historia')
<1> DEFINE antes == Coinciden(docs, lectura.filtro)
           ahora == Coinciden(nuevos, lectura.filtro)
           a == Cardinality(antes)
           b == Cardinality(ahora)
<1>1. /\ a \in Nat /\ b \in Nat /\ a <= b + 1 /\ b <= a + 1
      /\ historia.cambios \in Nat
      /\ historia'.cambios = IF EntreConsultas /\ antes # ahora
                             THEN historia.cambios + 1 ELSE historia.cambios
  BY ListaCambiaEnUno, HistoriaTrasCambio, HistoriaCampos
<1>2. lectura.items \in 0 .. Tam \cup {-1} /\ lectura.total \in Nat \cup {-1} /\ Tam \in Nat
  BY LecturaCampos, Constantes
<1>3. antes = ahora => a = b
  OBVIOUS
<1> HIDE DEF antes, ahora, a, b
<1>4. CASE lectura.items = -1 /\ lectura.total = -1
  BY <1>1, <1>4 DEF CuentaOK, EntreConsultas
<1>5. CASE lectura.items = -1 /\ lectura.total # -1
  <2>1. a <= lectura.total + historia.cambios /\ lectura.total <= a + historia.cambios
    BY <1>5 DEF CuentaOK, a, antes
  <2>2. b <= lectura.total + historia'.cambios /\ lectura.total <= b + historia'.cambios
    BY <1>1, <1>2, <1>3, <1>5, <2>1 DEF EntreConsultas
  <2> QED BY <1>5, <2>2 DEF CuentaOK, b, ahora
<1>6. CASE lectura.items # -1 /\ lectura.total = -1
  <2>1. PICK k \in Nat : /\ lectura.items = EnPagina(k, Omitidos(lectura.pagina, Tam))
                         /\ k <= a + historia.cambios /\ a <= k + historia.cambios
    BY <1>6 DEF CuentaOK, a, antes
  <2>2. k <= b + historia'.cambios /\ b <= k + historia'.cambios
    BY <1>1, <1>2, <1>3, <1>6, <2>1 DEF EntreConsultas
  <2>3. lectura.fase # "fuera"
    BY <1>6 DEF CuentaOK
  <2> QED BY <1>6, <2>1, <2>2, <2>3 DEF CuentaOK, b, ahora
<1>7. CASE lectura.items # -1 /\ lectura.total # -1
  <2>1. historia'.cambios = historia.cambios
    BY <1>1, <1>7 DEF EntreConsultas
  <2> QED BY <1>7, <2>1 DEF CuentaOK
<1> QED BY <1>4, <1>5, <1>6, <1>7

-----------------------------------------------------------------------------
(* Documents that come and go.                                             *)

LEMMA DocumentoOK ==
  ASSUME NEW c \in Int, NEW e \in Estados, NEW s \in BOOLEAN
  PROVE  /\ Documento(c, e, s) \in Documentos
         /\ Documento(c, e, s).creada = c /\ Documento(c, e, s).seed = s
BY DEF Documento, Documentos

LEMMA MuestraOK ==
  ASSUME NEW i \in 1 .. Len(Hace), NEW corrida \in Nat
  PROVE  /\ DocumentoMuestra(i, corrida) \in Documentos
         /\ DocumentoMuestra(i, corrida).seed = TRUE
<1>1. Len(Hace) = 4 /\ Hace[i] \in Int
  BY DEF Hace
<1>2. Muestras("seed", "seed")[i].estado \in Estados
  <2>1. /\ Muestras("seed", "seed")[1].estado = "DRAFT"
        /\ Muestras("seed", "seed")[2].estado = "IN_REVIEW"
        /\ Muestras("seed", "seed")[3].estado = "APPROVED"
        /\ Muestras("seed", "seed")[4].estado = "FINALIZED"
    BY DEF Muestras, Muestra
  <2>2. i = 1 \/ i = 2 \/ i = 3 \/ i = 4
    BY <1>1
  <2> QED BY <2>1, <2>2 DEF Estados
<1>3. Ahora(corrida) - Hace[i] \in Int
  BY <1>1 DEF Ahora
<1> QED BY <1>2, <1>3, DocumentoOK DEF DocumentoMuestra

LEMMA ColeccionCon ==
  ASSUME NEW n \in Nat, NEW m \in Nat, n <= m, NEW D, ColeccionOK(D, n), NEW id \in 1 .. m,
         NEW d \in Documentos, id \in DOMAIN D => D[id].creada = d.creada
  PROVE  LET E == Con(D, id, d)
         IN /\ ColeccionOK(E, m) /\ SoloMueve(D, E, id)
            /\ DOMAIN E = DOMAIN D \cup {id} /\ E[id] = d
            /\ \A o \in DOMAIN D : o # id => E[o] = D[o]
<1> DEFINE E == Con(D, id, d)
<1>1. /\ DOMAIN E = DOMAIN D \cup {id} /\ E[id] = d
      /\ \A o \in DOMAIN D : o # id => E[o] = D[o]
      /\ E = [o \in DOMAIN E |-> E[o]]
  BY DEF Con
<1> HIDE DEF E
<1>2. SoloMueve(D, E, id)
  BY <1>1 DEF SoloMueve
<1>3. DOMAIN E \subseteq 1 .. m /\ \A o \in DOMAIN E : E[o] \in Documentos
  BY <1>1, Coleccion
<1>4. ColeccionOK(E, m)
  BY <1>1, <1>3 DEF ColeccionOK
<1> QED BY <1>1, <1>2, <1>4 DEF E

LEMMA ColeccionSin ==
  ASSUME NEW n \in Nat, NEW D, ColeccionOK(D, n), NEW id
  PROVE  LET E == Sin(D, id)
         IN /\ ColeccionOK(E, n) /\ SoloMueve(D, E, id)
            /\ DOMAIN E = DOMAIN D \ {id} /\ \A o \in DOMAIN E : E[o] = D[o]
<1> DEFINE E == Sin(D, id)
<1>1. /\ DOMAIN E = DOMAIN D \ {id} /\ \A o \in DOMAIN E : E[o] = D[o]
      /\ E = [o \in DOMAIN E |-> E[o]]
  BY DEF Sin
<1> HIDE DEF E
<1>2. SoloMueve(D, E, id)
  BY <1>1 DEF SoloMueve
<1>3. DOMAIN E \subseteq 1 .. n /\ \A o \in DOMAIN E : E[o] \in Documentos
  BY <1>1, Coleccion
<1>4. ColeccionOK(E, n)
  BY <1>1, <1>3 DEF ColeccionOK
<1> QED BY <1>1, <1>2, <1>4 DEF E

\* Ids are given out upwards, so what held for the first n holds for the first m.
LEMMA Crecen ==
  ASSUME NEW n \in Nat, NEW m \in Nat, n <= m
  PROVE  /\ Escritores(n) \subseteq Escritores(m)
         /\ Scripts(n) \subseteq Scripts(m)
         /\ Historias(n) \subseteq Historias(m)
<1>1. 1 .. n \subseteq 1 .. m
  OBVIOUS
<1>2. Escritores(n) \subseteq Escritores(m)
  BY <1>1 DEF Escritores
<1>3. Seq(1 .. n) \subseteq Seq(1 .. m) /\ SUBSET (1 .. n) \subseteq SUBSET (1 .. m)
  BY <1>1
<1>4. Scripts(n) \subseteq Scripts(m)
  BY <1>3 DEF Scripts
<1>5. Historias(n) \subseteq Historias(m)
  BY <1>3 DEF Historias
<1> QED BY <1>2, <1>4, <1>5

LEMMA ScriptCampos ==
  ASSUME NEW n \in Nat, NEW s \in Scripts(n)
  PROVE  /\ s.fase \in Fases /\ s.pendientes \in SUBSET (1 .. n) /\ s.creadas \in Seq(1 .. n)
         /\ s.corridas \in 0 .. MaxCorridas /\ s.corridas \in Nat
         /\ Escritas(s) \subseteq 1 .. n
<1>1. /\ s.fase \in Fases /\ s.pendientes \in SUBSET (1 .. n) /\ s.creadas \in Seq(1 .. n)
      /\ s.corridas \in 0 .. MaxCorridas
  BY DEF Scripts
<1>2. s.corridas \in Nat
  BY <1>1, Constantes
<1>3. Escritas(s) \subseteq 1 .. n
  BY <1>1 DEF Escritas
<1> QED BY <1>1, <1>2, <1>3

-----------------------------------------------------------------------------
(* The other requests.                                                     *)

LEMMA CuentasCampos ==
  ASSUME NEW u \in Cuentas
  PROVE  u.ids \in Nat /\ u.altas \in 0 .. MaxAltas /\ u.cambios \in 0 .. MaxCambios
BY DEF Cuentas

LEMMA PasoAlta ==
  ASSUME LInv, Alta
  PROVE  LInv'
<1> DEFINE n == usados.ids
<1>1. /\ usados \in Cuentas /\ ColeccionOK(docs, n) /\ n \in Nat /\ n <= n + 1
      /\ usados.altas \in 0 .. MaxAltas /\ usados.altas < MaxAltas /\ MaxAltas \in Nat
      /\ script \in Scripts(n) /\ historia \in Historias(n)
  BY CuentasCampos, Constantes DEF LInv, Alta, ScriptOK
<1>2. usados' \in Cuentas /\ usados'.ids = n + 1
  <2>1. usados' = [usados EXCEPT !.ids = n + 1, !.altas = usados.altas + 1]
    BY DEF Alta
  <2>2. n + 1 \in Nat /\ usados.altas + 1 \in 0 .. MaxAltas
    BY <1>1
  <2> HIDE DEF n
  <2> QED BY <1>1, <2>1, <2>2 DEF Cuentas
<1>3. PICK d \in Desfases :
        escritor' = [pc |-> "guardar", id |-> n + 1,
                     doc |-> Documento(Ahora(script.corridas) + d, "DRAFT", FALSE)]
  BY DEF Alta
<1>4. Documento(Ahora(script.corridas) + d, "DRAFT", FALSE) \in Documentos
  <2>1. script.corridas \in Nat /\ d \in Nat
    BY <1>1, ScriptCampos, Constantes
  <2>2. Ahora(script.corridas) + d \in Int /\ "DRAFT" \in Estados
    BY <2>1 DEF Ahora, Estados
  <2> QED BY <2>2, DocumentoOK
<1>5. escritor' \in Escritores(n + 1) /\ escritor'.id = n + 1
  <2> DEFINE w == Documento(Ahora(script.corridas) + d, "DRAFT", FALSE)
             m == n + 1
  <2>1. w \in Documentos
    BY <1>4
  <2>2. m \in 1 .. m
    <3>1. n \in Nat
      BY <1>1
    <3> HIDE DEF n
    <3> QED BY <3>1
  <2>3. escritor' = [pc |-> "guardar", id |-> m, doc |-> w]
    BY <1>3
  <2> HIDE DEF w, m
  <2>4. escritor' \in Escritores(m) /\ escritor'.id = m
    BY <2>1, <2>2, <2>3 DEF Escritores
  <2> QED BY <2>4 DEF m
<1>6. UNCHANGED <<docs, script, lectura, historia>>
  BY DEF Alta
<1>7. DOMAIN docs \subseteq 1 .. n + 1 /\ n + 1 \notin DOMAIN docs
  BY <1>1 DEF ColeccionOK
<1>8. ColeccionOK(docs, n + 1) /\ EscritorOK(docs, escritor', n + 1)
  BY <1>1, <1>5, <1>7 DEF ColeccionOK, EscritorOK
<1>9. script \in Scripts(n + 1) /\ historia \in Historias(n + 1)
  BY <1>1, Crecen
<1>10. ScriptOK(docs, script, n + 1, historia.revividas)
  BY <1>9 DEF LInv, ScriptOK
<1> HIDE DEF n
<1> QED BY <1>2, <1>6, <1>8, <1>9, <1>10 DEF LInv

LEMMA PasoMueve ==
  ASSUME LInv, NEW id \in DOMAIN docs, NEW estado \in Destinos, Mueve(id, estado)
  PROVE  LInv'
<1> DEFINE n == usados.ids
           d == [docs[id] EXCEPT !.estado = estado]
<1>1. /\ usados \in Cuentas /\ ColeccionOK(docs, n) /\ n \in Nat
      /\ usados.cambios \in 0 .. MaxCambios /\ usados.cambios < MaxCambios
  BY CuentasCampos DEF LInv, Mueve
<1>2. usados' \in Cuentas /\ usados'.ids = n
  <2>1. usados' = [usados EXCEPT !.cambios = usados.cambios + 1]
    BY DEF Mueve
  <2>2. usados.cambios + 1 \in 0 .. MaxCambios
    BY <1>1, Constantes
  <2> QED BY <1>1, <2>1, <2>2 DEF Cuentas
<1>3. d \in Documentos /\ d.creada = docs[id].creada /\ d.seed = docs[id].seed
  <2>1. docs[id] \in Documentos /\ estado \in Estados
    BY <1>1, Coleccion, Constantes
  <2> QED BY <2>1 DEF Documentos
<1>4. escritor' = [pc |-> "guardar", id |-> id, doc |-> d]
  BY DEF Mueve
<1>5. id \in 1 .. n
  BY <1>1 DEF ColeccionOK
<1> HIDE DEF d
<1>6. escritor' \in Escritores(n) /\ escritor'.id = id /\ escritor'.doc = d
  BY <1>3, <1>4, <1>5 DEF Escritores
<1>7. EscritorOK(docs, escritor', n)
  BY <1>3, <1>6 DEF EscritorOK
<1>8. UNCHANGED <<docs, script, lectura, historia>>
  BY DEF Mueve
<1> HIDE DEF n
<1> QED BY <1>2, <1>7, <1>8 DEF LInv, n

LEMMA EscritorCampos ==
  ASSUME NEW n, NEW e \in Escritores(n)
  PROVE  e.id \in 1 .. n /\ e.doc \in Documentos /\ e.doc.seed \in BOOLEAN /\ e.pc = "guardar"
BY DEF Escritores, Documentos

LEMMA PasoGuarda ==
  ASSUME LInv, Guarda
  PROVE  LInv'
<1> DEFINE n == usados.ids
           x == escritor.id
           d == escritor.doc
           E == Con(docs, x, d)
           R == historia.revividas \cup {id \in {x} : d.seed /\ id \notin DOMAIN docs}
<1>1. /\ usados \in Cuentas /\ ColeccionOK(docs, n) /\ n \in Nat /\ n <= n
      /\ historia \in Historias(n) /\ lectura \in Lecturas
      /\ RecorridoOK(docs, lectura, historia) /\ CuentaOK(docs, lectura, historia)
      /\ ScriptOK(docs, script, n, historia.revividas)
  BY CuentasCampos DEF LInv
<1>2. escritor \in Escritores(n)
  BY DEF LInv, EscritorOK, Guarda
<1>3. /\ x \in 1 .. n /\ d \in Documentos /\ d.seed \in BOOLEAN
      /\ x \in DOMAIN docs => docs[x].creada = d.creada /\ docs[x].seed = d.seed
  BY <1>2, EscritorCampos DEF LInv, EscritorOK, Guarda
<1>4. R \in SUBSET (1 .. n)
  BY <1>1, <1>3, HistoriaCampos
<1>5. CambiaColeccion(E, R) /\ escritor' = Libre /\ UNCHANGED <<script, lectura, usados>>
  BY DEF Guarda
<1> HIDE DEF n, x, d, E, R
<1>6. /\ ColeccionOK(E, n) /\ SoloMueve(docs, E, x)
      /\ DOMAIN E = DOMAIN docs \cup {x} /\ E[x] = d
      /\ \A o \in DOMAIN docs : o # x => E[o] = docs[o]
  BY <1>1, <1>3, ColeccionCon DEF E
<1>7. docs' = E /\ historia' \in Historias(n) /\ historia'.revividas = R
  BY <1>1, <1>4, <1>5, <1>6, HistoriaTrasCambio
<1>8. RecorridoOK(E, lectura, historia')
  BY <1>1, <1>4, <1>5, <1>6, CambioRecorrido
<1>9. CuentaOK(E, lectura, historia')
  BY <1>1, <1>4, <1>5, <1>6, CambioCuenta
<1>10. ScriptOK(E, script, n, R)
  <2>1. \A id \in Escritas(script) : script.fase # "fuera" => id \in DOMAIN E /\ E[id].seed
    BY <1>1, <1>3, <1>6 DEF ScriptOK
  <2>2. ASSUME NEW id \in DOMAIN E, E[id].seed, script.fase # "fuera"
        PROVE  id \in script.pendientes \/ id \in Escritas(script) \/ id \in R
    <3>1. CASE id \in DOMAIN docs
      <4>1. docs[id].seed
        BY <1>3, <1>6, <2>2, <3>1
      <4> QED BY <1>1, <2>2, <3>1, <4>1 DEF ScriptOK, R
    <3>2. CASE id \notin DOMAIN docs
      BY <1>6, <2>2, <3>2 DEF R
    <3> QED BY <3>1, <3>2
  <2> QED BY <1>1, <2>1, <2>2 DEF ScriptOK
<1>11. EscritorOK(E, escritor', n)
  BY <1>5 DEF EscritorOK
<1> QED BY <1>1, <1>5, <1>6, <1>7, <1>8, <1>9, <1>10, <1>11 DEF LInv, n

-----------------------------------------------------------------------------
(* The seed script.                                                        *)

LEMMA PasoSiembraEmpieza ==
  ASSUME LInv, SiembraEmpieza
  PROVE  LInv'
<1> DEFINE n == usados.ids
           p == Sembrados
           c == script.corridas + 1
<1>1. /\ usados \in Cuentas /\ ColeccionOK(docs, n) /\ n \in Nat
      /\ historia \in Historias(n) /\ script \in Scripts(n)
      /\ RecorridoOK(docs, lectura, historia) /\ CuentaOK(docs, lectura, historia)
  BY CuentasCampos DEF LInv, ScriptOK
<1>2. p \in SUBSET (1 .. n)
  BY <1>1, Coleccion DEF Sembrados
<1>3. c \in 0 .. MaxCorridas
  <2>1. script.corridas \in Nat /\ script.corridas < MaxCorridas /\ MaxCorridas \in Nat
    BY <1>1, ScriptCampos, Constantes DEF SiembraEmpieza
  <2> QED BY <2>1
<1>4. /\ script' = [fase |-> "corre", pendientes |-> p, creadas |-> << >>, corridas |-> c]
      /\ historia' = [historia EXCEPT !.revividas = {}]
      /\ UNCHANGED <<docs, escritor, lectura, usados>>
  BY DEF SiembraEmpieza
<1> HIDE DEF n, p, c
<1>5. /\ script' \in Scripts(n) /\ script'.fase = "corre" /\ script'.pendientes = p
      /\ script'.creadas = << >>
  <2>1. << >> \in Seq(1 .. n) /\ "corre" \in Fases
    BY DEF Fases
  <2> QED BY <1>2, <1>3, <1>4, <2>1 DEF Scripts
<1>6. /\ historia' \in Historias(n) /\ historia'.revividas = {}
      /\ historia'.faltan = historia.faltan /\ historia'.salidas = historia.salidas
      /\ historia'.cambios = historia.cambios
  BY <1>1, <1>4 DEF Historias
<1>7. ScriptOK(docs, script', n, {})
  <2>1. Escritas(script') = {} /\ Len(<< >>) = 0 /\ Len(Hace) = 4
    BY <1>5 DEF Escritas, Hace
  <2> QED BY <1>5, <2>1 DEF ScriptOK, p, Sembrados
<1>8. RecorridoOK(docs, lectura, historia') /\ CuentaOK(docs, lectura, historia')
  BY <1>1, <1>6 DEF RecorridoOK, CuentaOK
<1> QED BY <1>1, <1>4, <1>5, <1>6, <1>7, <1>8 DEF LInv, n

LEMMA PasoSiembraBorra ==
  ASSUME LInv, SiembraBorra
  PROVE  LInv'
<1> DEFINE n == usados.ids
           R == historia.revividas
<1>1. /\ usados \in Cuentas /\ ColeccionOK(docs, n) /\ n \in Nat /\ n <= n
      /\ historia \in Historias(n) /\ lectura \in Lecturas
      /\ RecorridoOK(docs, lectura, historia) /\ CuentaOK(docs, lectura, historia)
      /\ script \in Scripts(n) /\ ScriptOK(docs, script, n, R) /\ EscritorOK(docs, escritor, n)
  BY CuentasCampos DEF LInv, ScriptOK
<1>2. R \in SUBSET (1 .. n)
  BY <1>1, HistoriaCampos
<1>3. PICK id \in script.pendientes :
        /\ CambiaColeccion(Sin(docs, id), R)
        /\ script' = [script EXCEPT !.pendientes = script.pendientes \ {id}]
        /\ script.fase = "corre" /\ UNCHANGED <<escritor, lectura, usados>>
  BY DEF SiembraBorra
<1> DEFINE E == Sin(docs, id)
           q == script.pendientes \ {id}
<1>4. q \in SUBSET (1 .. n)
  BY <1>1, ScriptCampos
<1> HIDE DEF n, R, E, q
<1>5. /\ ColeccionOK(E, n) /\ SoloMueve(docs, E, id)
      /\ DOMAIN E = DOMAIN docs \ {id} /\ \A o \in DOMAIN E : E[o] = docs[o]
  BY <1>1, ColeccionSin DEF E
<1>6. CambiaColeccion(E, R) /\ script' = [script EXCEPT !.pendientes = q]
  BY <1>3 DEF E, q
<1>7. docs' = E /\ historia' \in Historias(n) /\ historia'.revividas = R
  BY <1>1, <1>2, <1>5, <1>6, HistoriaTrasCambio
<1>8. RecorridoOK(E, lectura, historia')
  BY <1>1, <1>2, <1>5, <1>6, CambioRecorrido
<1>9. CuentaOK(E, lectura, historia')
  BY <1>1, <1>2, <1>5, <1>6, CambioCuenta
<1>10. /\ script' \in Scripts(n) /\ script'.fase = "corre" /\ script'.pendientes = q
       /\ script'.creadas = script.creadas
  BY <1>1, <1>3, <1>4, <1>6 DEF Scripts
<1>11. script.creadas = << >> /\ Escritas(script) = {} /\ Escritas(script') = {}
  <2>1. script.creadas = << >>
    BY <1>1, <1>3 DEF ScriptOK
  <2> QED BY <1>10, <2>1 DEF Escritas
<1>12. ScriptOK(E, script', n, R)
  <2>1. ASSUME NEW o \in DOMAIN E, E[o].seed
        PROVE  o \in q \/ o \in R
    <3>1. o \in DOMAIN docs /\ o # id /\ docs[o].seed
      BY <1>5, <2>1
    <3> QED BY <1>1, <1>3, <1>11, <3>1 DEF ScriptOK, q
  <2>2. Len(script'.creadas) < Len(Hace)
    BY <1>1, <1>3, <1>10 DEF ScriptOK
  <2> QED BY <1>10, <1>11, <2>1, <2>2 DEF ScriptOK
<1>13. EscritorOK(E, escritor, n)
  BY <1>1, <1>5 DEF EscritorOK
<1> QED BY <1>1, <1>3, <1>5, <1>7, <1>8, <1>9, <1>10, <1>12, <1>13 DEF LInv, n

LEMMA PasoSiembraFalla ==
  ASSUME LInv, SiembraFalla
  PROVE  LInv'
<1> DEFINE n == usados.ids
<1>1. script \in Scripts(n) /\ ScriptOK(docs, script, n, historia.revividas)
  BY DEF LInv, ScriptOK
<1>2. /\ script' = [script EXCEPT !.fase = "fuera", !.pendientes = {}, !.creadas = << >>]
      /\ UNCHANGED <<docs, escritor, lectura, usados, historia>>
  BY DEF SiembraFalla
<1> HIDE DEF n
<1>3. /\ script' \in Scripts(n) /\ script'.fase = "fuera" /\ script'.pendientes = {}
      /\ script'.creadas = << >>
  <2>1. << >> \in Seq(1 .. n) /\ {} \in SUBSET (1 .. n) /\ "fuera" \in Fases
    BY DEF Fases
  <2> QED BY <1>1, <1>2, <2>1 DEF Scripts
<1>4. ScriptOK(docs, script', n, historia.revividas)
  BY <1>3 DEF ScriptOK
<1> QED BY <1>2, <1>4 DEF LInv, n

\* What a create of the script adds to what it has written.
LEMMA EscritasAppend ==
  ASSUME NEW n \in Nat, NEW s \in Scripts(n), NEW id, NEW s2,
         s2.creadas = Append(s.creadas, id)
  PROVE  Escritas(s2) = Escritas(s) \cup {id}
<1>1. s.creadas \in Seq(1 .. n)
  BY ScriptCampos
<1> DEFINE c == s.creadas
           g == Append(c, id)
<1>2. /\ Len(c) \in Nat /\ DOMAIN c = 1 .. Len(c) /\ DOMAIN g = 1 .. Len(c) + 1
      /\ g[Len(c) + 1] = id /\ \A i \in 1 .. Len(c) : g[i] = c[i]
  BY <1>1
<1> HIDE DEF c, g
<1>3. {g[i] : i \in DOMAIN g} = {c[i] : i \in DOMAIN c} \cup {id}
  BY <1>2
<1> QED BY <1>3 DEF Escritas, c, g

LEMMA PasoSiembraCrea ==
  ASSUME LInv, SiembraCrea
  PROVE  LInv'
<1> DEFINE n == usados.ids
           m == usados.ids + 1
           R == historia.revividas
           i == Len(script.creadas) + 1
           d == DocumentoMuestra(i, script.corridas)
           E == Con(docs, m, d)
           fase == IF i = Len(Hace) THEN "fin" ELSE script.fase
           g == Append(script.creadas, m)
<1>1. /\ usados \in Cuentas /\ ColeccionOK(docs, n) /\ n \in Nat
      /\ historia \in Historias(n) /\ lectura \in Lecturas
      /\ RecorridoOK(docs, lectura, historia) /\ CuentaOK(docs, lectura, historia)
      /\ script \in Scripts(n) /\ ScriptOK(docs, script, n, R) /\ EscritorOK(docs, escritor, n)
  BY CuentasCampos DEF LInv, ScriptOK
<1>2. /\ m \in Nat /\ n <= m /\ m = n + 1 /\ m \in 1 .. m
  BY <1>1
<1>3. /\ script.fase = "corre" /\ script.pendientes = {}
      /\ CambiaColeccion(E, R)
      /\ usados' = [usados EXCEPT !.ids = m]
      /\ script' = [script EXCEPT !.creadas = g, !.fase = fase]
      /\ UNCHANGED <<escritor, lectura>>
  BY DEF SiembraCrea
<1>4. /\ i \in 1 .. Len(Hace) /\ script.corridas \in Nat /\ script.creadas \in Seq(1 .. n)
      /\ Len(script.creadas) \in Nat /\ Len(g) = i
  <2>1. script.creadas \in Seq(1 .. n) /\ script.corridas \in Nat
    BY <1>1, ScriptCampos
  <2>2. Len(script.creadas) < Len(Hace) /\ Len(Hace) = 4
    BY <1>1, <1>3 DEF ScriptOK, Hace
  <2> HIDE DEF n, m
  <2> QED BY <2>1, <2>2
<1>5. d \in Documentos /\ d.seed = TRUE
  BY <1>4, MuestraOK
<1>6. R \in SUBSET (1 .. m) /\ script \in Scripts(m) /\ historia \in Historias(m)
  BY <1>1, <1>2, Crecen, HistoriaCampos
<1>7. m \notin DOMAIN docs
  BY <1>1, <1>2 DEF ColeccionOK
<1>8. g \in Seq(1 .. m) /\ fase \in Fases
  <2>1. script.creadas \in Seq(1 .. m)
    BY <1>6, ScriptCampos, <1>2
  <2>2. fase \in Fases
    BY <1>3 DEF Fases
  <2> HIDE DEF m
  <2> QED BY <1>2, <2>1, <2>2
<1> HIDE DEF n, m, R, d, E, g
<1>9. /\ ColeccionOK(E, m) /\ SoloMueve(docs, E, m)
      /\ DOMAIN E = DOMAIN docs \cup {m} /\ E[m] = d
      /\ \A o \in DOMAIN docs : o # m => E[o] = docs[o]
  <2>1. /\ n \in Nat /\ m \in Nat /\ n <= m /\ m \in 1 .. m /\ ColeccionOK(docs, n)
        /\ d \in Documentos /\ (m \in DOMAIN docs => docs[m].creada = d.creada)
    BY <1>1, <1>2, <1>5, <1>7
  <2> QED BY ONLY <2>1, ColeccionCon DEF E
<1>10. docs' = E /\ historia' \in Historias(m) /\ historia'.revividas = R
  BY <1>1, <1>2, <1>3, <1>6, <1>9, HistoriaTrasCambio
<1>11. RecorridoOK(E, lectura, historia')
  BY <1>1, <1>2, <1>3, <1>6, <1>9, CambioRecorrido
<1>12. CuentaOK(E, lectura, historia')
  BY <1>1, <1>2, <1>3, <1>6, <1>9, CambioCuenta
<1>13. usados' \in Cuentas /\ usados'.ids = m
  BY <1>1, <1>2, <1>3 DEF Cuentas
<1> HIDE DEF fase
<1>14. /\ script' \in Scripts(m) /\ script'.fase = fase /\ script'.pendientes = {}
       /\ script'.creadas = g
  BY <1>3, <1>6, <1>8 DEF Scripts
<1>15. Escritas(script') = Escritas(script) \cup {m}
  BY <1>1, <1>14, EscritasAppend DEF g
<1>16. ScriptOK(E, script', m, R)
  <2>1. \A o \in Escritas(script') : o \in DOMAIN E /\ E[o].seed
    BY <1>1, <1>3, <1>5, <1>7, <1>9, <1>15 DEF ScriptOK
  <2>2. ASSUME NEW o \in DOMAIN E, E[o].seed
        PROVE  o \in Escritas(script') \/ o \in R
    <3>1. CASE o = m
      BY <1>15, <3>1
    <3>2. CASE o # m
      <4>1. o \in DOMAIN docs /\ docs[o].seed
        BY <1>9, <2>2, <3>2
      <4> QED BY <1>1, <1>3, <1>15, <4>1 DEF ScriptOK
    <3> QED BY <3>1, <3>2
  <2>3. fase = "corre" => Len(g) < Len(Hace)
    <3>1. Len(Hace) = 4
      BY DEF Hace
    <3> QED BY <1>3, <1>4, <3>1 DEF fase, g
  <2> QED BY <1>14, <2>1, <2>2, <2>3 DEF ScriptOK
<1>17. EscritorOK(E, escritor, m)
  <2>1. CASE escritor = Libre
    BY <2>1 DEF EscritorOK
  <2>2. CASE escritor # Libre
    <3>1. escritor \in Escritores(n) /\ escritor.id \in 1 .. n
      BY <1>1, <2>2, EscritorCampos DEF EscritorOK
    <3>2. escritor \in Escritores(m) /\ escritor.id # m
      BY <1>1, <1>2, <3>1, Crecen
    <3>3. escritor.id \in DOMAIN E => escritor.id \in DOMAIN docs /\ E[escritor.id] = docs[escritor.id]
      BY <1>9, <3>2
    <3> QED BY <1>1, <2>2, <3>2, <3>3 DEF EscritorOK
  <2> QED BY <2>1, <2>2
<1>18. escritor' = escritor /\ lectura' = lectura
  BY <1>3
<1> QED BY <1>1, <1>9, <1>10, <1>11, <1>12, <1>13, <1>16, <1>17, <1>18 DEF LInv

-----------------------------------------------------------------------------
(* The listing.                                                            *)

LEMMA SinLecturaOK ==
  /\ SinLectura \in Lecturas /\ SinLectura.fase = "fuera"
  /\ SinLectura.items = -1 /\ SinLectura.total = -1
BY DEF SinLectura, Lecturas

LEMMA Pedida ==
  ASSUME NEW p \in Nat, NEW f \in Estados \cup {Todos}, PidePagina(p, f)
  PROVE  /\ lectura' \in Lecturas /\ lectura'.fase = "pagina"
         /\ lectura'.filtro = f /\ lectura'.pagina = p
         /\ lectura'.items = -1 /\ lectura'.total = -1
<1>1. lectura' = [SinLectura EXCEPT !.fase = "pagina", !.pagina = p, !.filtro = f]
  BY DEF PidePagina
<1>2. "pagina" \in {"fuera", "pagina"}
  OBVIOUS
<1> QED BY <1>1, <1>2, SinLecturaOK DEF Lecturas

LEMMA PasoEmpieza ==
  ASSUME LInv, NEW filtro \in Filtros, Empieza(filtro)
  PROVE  LInv'
<1> DEFINE n == usados.ids
           F == SinEmpate(docs, filtro)
<1>1. /\ n \in Nat /\ ColeccionOK(docs, n) /\ historia \in Historias(n)
      /\ filtro \in Estados \cup {Todos} /\ CuentaOK(docs, lectura, historia)
  BY CuentasCampos, Constantes DEF LInv
<1>2. /\ lectura.fase = "fuera" /\ PidePagina(1, filtro)
      /\ historia' = [historia EXCEPT !.faltan = F]
      /\ UNCHANGED <<docs, escritor, script, usados>>
  BY DEF Empieza
<1>3. F \subseteq Coinciden(docs, filtro)
  BY DEF SinEmpate
<1>4. F \in SUBSET (1 .. n) /\ IsFiniteSet(Coinciden(docs, filtro))
  BY <1>1, <1>3, Coleccion
<1> HIDE DEF n, F
<1>5. /\ lectura' \in Lecturas /\ lectura'.fase = "pagina"
      /\ lectura'.filtro = filtro /\ lectura'.pagina = 1
      /\ lectura'.items = -1 /\ lectura'.total = -1
  BY <1>1, <1>2, Pedida
<1>6. /\ historia' \in Historias(n) /\ historia'.faltan = F
      /\ historia'.salidas = historia.salidas /\ historia'.cambios = historia.cambios
      /\ historia'.revividas = historia.revividas
  BY <1>1, <1>2, <1>4 DEF Historias
<1>7. historia.cambios = 0
  BY <1>1, <1>2 DEF CuentaOK
<1>8. Pasados(lectura') = 0
  BY <1>5, Saltos DEF Pasados
<1>9. Perdidos(docs, Coinciden(docs, filtro), F, 0) = {}
  <2>1. \A id \in F : Cardinality(Antes(docs, Coinciden(docs, filtro), id)) \in Nat
    <3>1. \A id \in F : Antes(docs, Coinciden(docs, filtro), id) \subseteq Coinciden(docs, filtro)
      BY DEF Antes
    <3> QED BY <1>4, <3>1, Contar
  <2> QED BY <2>1 DEF Perdidos
<1>10. RecorridoOK(docs, lectura', historia')
  <2>1. historia.salidas \in Nat /\ Cardinality({}) = 0
    BY <1>1, HistoriaCampos, FS_EmptySet
  <2> QED BY <1>5, <1>6, <1>8, <1>9, <2>1 DEF RecorridoOK, F
<1>11. CuentaOK(docs, lectura', historia')
  BY <1>5, <1>6, <1>7 DEF CuentaOK
<1> QED BY <1>2, <1>5, <1>6, <1>10, <1>11 DEF LInv, n

LEMMA PasoHalla ==
  ASSUME LInv, Halla
  PROVE  LInv'
<1> DEFINE n == usados.ids
           f == lectura.filtro
           ids == Coinciden(docs, f)
           t == Cardinality(ids)
           k == Omitidos(lectura.pagina, Tam)
           F == historia.faltan
<1>1. /\ n \in Nat /\ ColeccionOK(docs, n) /\ historia \in Historias(n) /\ lectura \in Lecturas
      /\ RecorridoOK(docs, lectura, historia) /\ CuentaOK(docs, lectura, historia)
      /\ lectura.fase = "pagina" /\ lectura.items = -1
  BY CuentasCampos DEF LInv, Halla
<1>2. PICK items \in Paginas(ids, lectura.pagina, Tam) :
        /\ lectura' = [lectura EXCEPT !.items = Cardinality(items)]
        /\ historia' = [historia EXCEPT !.faltan = F \ items]
        /\ UNCHANGED <<docs, escritor, script, usados>>
  BY Constantes DEF Halla
<1>3. PICK A \in Primeros(ids, k), Q \in Primeros(ids, k + Tam) : A \subseteq Q /\ items = Q \ A
  BY PaginaDe
<1>4. /\ lectura.pagina \in Nat \ {0} /\ lectura.total \in Nat \cup {-1} /\ Tam \in Nat \ {0}
      /\ k \in Nat /\ Omitidos(lectura.pagina + 1, Tam) = k + Tam
      /\ F \in SUBSET SinEmpate(docs, f) /\ F \in SUBSET (1 .. n) /\ historia.salidas \in Nat
      /\ Cardinality(Perdidos(docs, ids, F, k)) <= historia.salidas
  <2>1. /\ lectura.pagina \in Nat \ {0} /\ lectura.total \in Nat \cup {-1}
        /\ F \in SUBSET (1 .. n) /\ historia.salidas \in Nat
    BY <1>1, LecturaCampos, HistoriaCampos DEF RecorridoOK
  <2>2. /\ F \in SUBSET SinEmpate(docs, f)
        /\ Cardinality(Perdidos(docs, ids, F, k)) <= historia.salidas
    BY <1>1 DEF RecorridoOK, Pasados
  <2> QED BY <2>1, <2>2, Constantes, Saltos
<1> DEFINE c == Cardinality(items)
           G == F \ items
<1>5. /\ Perdidos(docs, ids, G, k + Tam) \subseteq Perdidos(docs, ids, F, k)
      /\ c = EnPagina(t, k) /\ c \in 0 .. Tam
      /\ c < Tam => Perdidos(docs, ids, F, k + Tam) = F
  BY <1>1, <1>3, <1>4, PaginaSinHuecos
<1>6. t \in Nat /\ IsFiniteSet(ids) /\ G \in SUBSET (1 .. n) /\ F \subseteq ids /\ G \subseteq F
  BY <1>1, <1>4, Coleccion, FS_CardinalityType DEF SinEmpate
<1> HIDE DEF c, G, t, ids, k, n
<1>7. /\ lectura' \in Lecturas /\ lectura'.fase = "pagina" /\ lectura'.filtro = f
      /\ lectura'.pagina = lectura.pagina /\ lectura'.items = c /\ lectura'.total = lectura.total
      /\ c # -1
  <2>1. c \in 0 .. Tam \cup {-1} /\ c # -1
    BY <1>4, <1>5
  <2>2. lectura' = [lectura EXCEPT !.items = c]
    BY <1>2 DEF c
  <2> QED BY <1>1, <2>1, <2>2 DEF Lecturas
<1>8. /\ historia' \in Historias(n) /\ historia'.faltan = G
      /\ historia'.salidas = historia.salidas /\ historia'.cambios = historia.cambios
      /\ historia'.revividas = historia.revividas
  <2>1. historia' = [historia EXCEPT !.faltan = G]
    BY <1>2 DEF G
  <2> QED BY <1>1, <1>6, <2>1 DEF Historias
<1>9. Pasados(lectura') = k + Tam
  BY <1>4, <1>7 DEF Pasados
<1>10. RecorridoOK(docs, lectura', historia')
  <2>1. /\ IsFiniteSet(F) /\ IsFiniteSet(Perdidos(docs, ids, F, k))
        /\ Perdidos(docs, ids, G, k + Tam) \subseteq G
    <3>1. Perdidos(docs, ids, F, k) \subseteq F /\ Perdidos(docs, ids, G, k + Tam) \subseteq G
      BY DEF Perdidos
    <3> QED BY <1>6, <3>1, FS_Subset
  <2>2. /\ Cardinality(Perdidos(docs, ids, G, k + Tam)) <= historia.salidas
        /\ Cardinality(Perdidos(docs, ids, F, k)) \in Nat
    BY <1>4, <1>5, <2>1, Contar
  <2>3. c < Tam => Cardinality(G) <= historia.salidas
    <3> SUFFICES ASSUME c < Tam PROVE Cardinality(G) <= historia.salidas
      OBVIOUS
    <3>1. Perdidos(docs, ids, G, k + Tam) = G
      BY <1>5, <1>6 DEF Perdidos
    <3> QED BY <2>2, <3>1
  <2>4. G \subseteq SinEmpate(docs, f)
    BY <1>4, <1>6
  <2>5. lectura.pagina >= 1
    BY <1>4
  <2> QED BY <1>7, <1>8, <1>9, <2>2, <2>3, <2>4, <2>5 DEF RecorridoOK, ids
<1>11. CuentaOK(docs, lectura', historia')
  <2>1. historia.cambios \in Nat
    BY <1>1, HistoriaCampos
  <2>2. CASE lectura.total = -1
    <3>1. t <= t + historia.cambios
      BY <1>6, <2>1
    <3> QED BY <1>5, <1>6, <1>7, <1>8, <2>2, <3>1 DEF CuentaOK, t, ids, k
  <2>3. CASE lectura.total # -1
    <3>1. t <= lectura.total + historia.cambios /\ lectura.total <= t + historia.cambios
      BY <1>1, <2>3 DEF CuentaOK, t, ids
    <3> QED BY <1>5, <1>6, <1>7, <1>8, <2>3, <3>1 DEF CuentaOK, k
  <2> QED BY <2>2, <2>3
<1> QED BY <1>1, <1>2, <1>7, <1>8, <1>10, <1>11 DEF LInv, n

LEMMA PasoCuenta ==
  ASSUME LInv, Cuenta
  PROVE  LInv'
<1> DEFINE t == Cardinality(Coinciden(docs, lectura.filtro))
<1>1. /\ usados.ids \in Nat /\ ColeccionOK(docs, usados.ids) /\ lectura \in Lecturas
      /\ RecorridoOK(docs, lectura, historia) /\ CuentaOK(docs, lectura, historia)
      /\ lectura.fase = "pagina" /\ lectura.total = -1
  BY CuentasCampos DEF LInv, Cuenta
<1>2. /\ lectura' = [lectura EXCEPT !.total = t]
      /\ UNCHANGED <<docs, escritor, script, usados, historia>>
  BY DEF Cuenta
<1>3. t \in Nat
  BY <1>1, Coleccion, FS_CardinalityType
<1> HIDE DEF t
<1>4. /\ lectura' \in Lecturas /\ lectura'.fase = "pagina" /\ lectura'.filtro = lectura.filtro
      /\ lectura'.pagina = lectura.pagina /\ lectura'.items = lectura.items /\ lectura'.total = t
  BY <1>1, <1>2, <1>3 DEF Lecturas
<1>5. RecorridoOK(docs, lectura', historia)
  BY <1>1, <1>4 DEF RecorridoOK, Pasados
<1>6. CuentaOK(docs, lectura', historia)
  <2>1. t # -1 /\ historia.cambios \in Nat
    BY <1>3, HistoriaCampos DEF LInv
  <2>2. CASE lectura.items = -1
    <3>1. historia.cambios = 0
      BY <1>1, <2>2 DEF CuentaOK
    <3> QED BY <1>3, <1>4, <2>1, <2>2, <3>1 DEF CuentaOK, t
  <2>3. CASE lectura.items # -1
    BY <1>1, <1>4, <2>1, <2>3 DEF CuentaOK, t
  <2> QED BY <2>2, <2>3
<1> QED BY <1>2, <1>4, <1>5, <1>6 DEF LInv

LEMMA PasoResponde ==
  ASSUME LInv, Responde
  PROVE  LInv'
<1> DEFINE n == usados.ids
<1>1. /\ n \in Nat /\ lectura \in Lecturas /\ historia \in Historias(n)
      /\ RecorridoOK(docs, lectura, historia) /\ CuentaOK(docs, lectura, historia)
      /\ lectura.items # -1 /\ UNCHANGED <<docs, escritor, script, usados>>
  BY CuentasCampos DEF LInv, Responde, Respondida
<1> HIDE DEF n
<1>2. CASE UltimaPagina
  <2>1. /\ lectura' = SinLectura
        /\ historia' = [historia EXCEPT !.faltan = {}, !.salidas = 0, !.cambios = 0]
    BY <1>2 DEF Responde
  <2>2. /\ historia' \in Historias(n) /\ historia'.cambios = 0
        /\ historia'.revividas = historia.revividas
    <3>1. {} \in SUBSET (1 .. n) /\ 0 \in Nat
      OBVIOUS
    <3> QED BY <1>1, <2>1, <3>1 DEF Historias
  <2>3. RecorridoOK(docs, lectura', historia') /\ CuentaOK(docs, lectura', historia')
    BY <2>1, <2>2, SinLecturaOK DEF RecorridoOK, CuentaOK
  <2> QED BY <1>1, <2>1, <2>2, <2>3, SinLecturaOK DEF LInv, n
<1>3. CASE ~ UltimaPagina
  <2>1. /\ PidePagina(lectura.pagina + 1, lectura.filtro)
        /\ historia' = [historia EXCEPT !.cambios = 0]
    BY <1>3 DEF Responde
  <2>2. lectura.fase = "pagina" /\ lectura.pagina \in Nat /\ lectura.filtro \in Estados \cup {Todos}
    BY <1>1, LecturaCampos DEF CuentaOK
  <2>3. lectura.pagina + 1 \in Nat /\ lectura.pagina + 1 >= 1
    BY <2>2
  <2>4. /\ lectura' \in Lecturas /\ lectura'.fase = "pagina"
        /\ lectura'.filtro = lectura.filtro /\ lectura'.pagina = lectura.pagina + 1
        /\ lectura'.items = -1 /\ lectura'.total = -1
    BY <2>1, <2>2, <2>3, Pedida
  <2>5. /\ historia' \in Historias(n) /\ historia'.cambios = 0
        /\ historia'.faltan = historia.faltan /\ historia'.salidas = historia.salidas
        /\ historia'.revividas = historia.revividas
    <3>1. 0 \in Nat
      OBVIOUS
    <3> QED BY <1>1, <2>1, <3>1 DEF Historias
  <2>6. Pasados(lectura') = Pasados(lectura)
    BY <1>1, <2>4 DEF Pasados
  <2>7. RecorridoOK(docs, lectura', historia')
    BY <1>1, <2>2, <2>3, <2>4, <2>5, <2>6 DEF RecorridoOK
  <2>8. CuentaOK(docs, lectura', historia')
    BY <2>4, <2>5 DEF CuentaOK
  <2> QED BY <1>1, <2>4, <2>5, <2>7, <2>8 DEF LInv, n
<1> QED BY <1>2, <1>3

-----------------------------------------------------------------------------
(* The theorems.                                                           *)

LEMMA InitListado == Init => LInv
<1> SUFFICES ASSUME Init PROVE LInv
  OBVIOUS
<1>1. PICK n \in 0 .. Len(Hace) :
        /\ docs = [id \in 1 .. n |-> DocumentoMuestra(id, 0)]
        /\ usados = [ids |-> n, altas |-> 0, cambios |-> 0]
  BY DEF Init
<1>2. /\ escritor = Libre /\ lectura = SinLectura
      /\ script = [fase |-> "fuera", pendientes |-> {}, creadas |-> << >>, corridas |-> 0]
      /\ historia = [faltan |-> {}, salidas |-> 0, cambios |-> 0, revividas |-> {}]
  BY DEF Init
<1>3. n \in Nat /\ Len(Hace) = 4
  BY DEF Hace
<1>4. usados \in Cuentas /\ usados.ids = n
  BY <1>1, <1>3, Constantes DEF Cuentas
<1>5. ColeccionOK(docs, n)
  <2>1. \A id \in 1 .. n : DocumentoMuestra(id, 0) \in Documentos
    <3>1. 1 .. n \subseteq 1 .. Len(Hace)
      BY <1>3
    <3> QED BY <3>1, MuestraOK
  <2> QED BY <1>1, <2>1 DEF ColeccionOK
<1>6. historia \in Historias(n) /\ historia.cambios = 0
  BY <1>2 DEF Historias
<1>7. script \in Scripts(n) /\ script.fase = "fuera" /\ script.creadas = << >> /\ script.pendientes = {}
  <2>1. << >> \in Seq(1 .. n) /\ 0 \in 0 .. MaxCorridas /\ "fuera" \in Fases /\ {} \in SUBSET (1 .. n)
    BY Constantes DEF Fases
  <2> QED BY <1>2, <2>1 DEF Scripts
<1>8. ScriptOK(docs, script, n, historia.revividas)
  BY <1>7 DEF ScriptOK
<1>9. RecorridoOK(docs, lectura, historia) /\ CuentaOK(docs, lectura, historia)
  BY <1>2, <1>6, SinLecturaOK DEF RecorridoOK, CuentaOK
<1> QED BY <1>2, <1>4, <1>5, <1>6, <1>8, <1>9, SinLecturaOK DEF LInv, EscritorOK

LEMMA PasoListado == LInv /\ [Next]_vars => LInv'
<1> SUFFICES ASSUME LInv, [Next]_vars PROVE LInv'
  OBVIOUS
<1>1. CASE Alta
  BY <1>1, PasoAlta
<1>2. CASE \E id \in DOMAIN docs, estado \in Destinos : Mueve(id, estado)
  BY <1>2, PasoMueve
<1>3. CASE Guarda
  BY <1>3, PasoGuarda
<1>4. CASE SiembraEmpieza
  BY <1>4, PasoSiembraEmpieza
<1>5. CASE SiembraBorra
  BY <1>5, PasoSiembraBorra
<1>6. CASE SiembraCrea
  BY <1>6, PasoSiembraCrea
<1>7. CASE SiembraFalla
  BY <1>7, PasoSiembraFalla
<1>8. CASE \E filtro \in Filtros : Empieza(filtro)
  BY <1>8, PasoEmpieza
<1>9. CASE Halla
  BY <1>9, PasoHalla
<1>10. CASE Cuenta
  BY <1>10, PasoCuenta
<1>11. CASE Responde
  BY <1>11, PasoResponde
<1>12. CASE UNCHANGED vars
  BY <1>12 DEF vars, LInv
<1> QED BY <1>1, <1>2, <1>3, <1>4, <1>5, <1>6, <1>7, <1>8, <1>9, <1>10, <1>11, <1>12 DEF Next

\* The walk, the script and the requests beside them keep LInv.
THEOREM InvarianteListado == Spec => []LInv
BY InitListado, PasoListado, PTL DEF Spec

\* Every id on file, in flight or remembered by the script or the walk was given out.
THEOREM TiposListado == Spec => []TypeOK
<1>1. LInv => TypeOK
  <2> SUFFICES ASSUME LInv PROVE TypeOK
    OBVIOUS
  <2>1. docs \in [DOMAIN docs -> Documentos] /\ DOMAIN docs \subseteq 1 .. usados.ids
    BY DEF LInv, ColeccionOK
  <2>2. escritor = Libre \/ escritor \in Escritores(usados.ids)
    BY DEF LInv, EscritorOK
  <2>3. /\ script \in Scripts(usados.ids) /\ lectura \in Lecturas /\ usados \in Cuentas
        /\ historia \in Historias(usados.ids)
    BY DEF LInv, ScriptOK
  <2> QED BY <2>1, <2>2, <2>3
          DEF TypeOK, Documentos, Escritores, Scripts, Fases, Lecturas, Cuentas, Historias
<1> QED BY <1>1, InvarianteListado, PTL

\* A walk to a short page has missed, of the documents that were in its filter all along and
\* tied with none, no more than left the filter meanwhile.
THEOREM OmisionPagina == Spec => []OmisionAcotada
<1>1. LInv => OmisionAcotada
  <2> SUFFICES ASSUME LInv, UltimaPagina PROVE Cardinality(historia.faltan) <= historia.salidas
    BY DEF OmisionAcotada
  <2>1. lectura.items # -1 /\ lectura.items < Tam
    BY DEF UltimaPagina, Respondida
  <2>2. lectura.fase = "pagina"
    BY <2>1, LecturaCampos DEF LInv, CuentaOK
  <2> QED BY <2>1, <2>2 DEF LInv, RecorridoOK
<1> QED BY <1>1, InvarianteListado, PTL

\* A page and the total beside it differ by no more than changed between their two queries.
THEOREM PaginaYTotal == Spec => []PaginaCuadraConTotal
<1>1. LInv => PaginaCuadraConTotal
  <2> SUFFICES ASSUME LInv, Respondida PROVE PaginaCuadraConTotal
    BY DEF PaginaCuadraConTotal
  <2> DEFINE k == Omitidos(lectura.pagina, Tam)
  <2>1. lectura.items # -1 /\ lectura.total # -1
    BY DEF Respondida
  <2>2. /\ lectura.items \in Nat /\ lectura.total \in Nat /\ historia.cambios \in Nat
        /\ Tam \in Nat \ {0}
    BY <2>1, LecturaCampos, HistoriaCampos, Constantes DEF LInv
  <2>3. k \in Nat
    <3>1. lectura.pagina \in Nat \ {0}
      BY <2>1, LecturaCampos DEF LInv, CuentaOK, RecorridoOK
    <3> QED BY <3>1, Saltos
  <2>4. PICK m \in Nat : /\ lectura.items = EnPagina(m, k)
                         /\ m <= lectura.total + historia.cambios
                         /\ lectura.total <= m + historia.cambios
    <3>1. CuentaOK(docs, lectura, historia)
      BY DEF LInv
    <3> QED BY <2>1, <3>1 DEF CuentaOK
  <2> HIDE DEF k
  <2>5. lectura.items > 0 => k + lectura.items <= m
    BY <2>2, <2>3, <2>4 DEF EnPagina
  <2>6. lectura.items < Tam => m <= k + lectura.items
    BY <2>2, <2>3, <2>4 DEF EnPagina
  <2> QED BY <2>2, <2>3, <2>4, <2>5, <2>6 DEF PaginaCuadraConTotal, k
<1> QED BY <1>1, InvarianteListado, PTL

\* A run of the script that ends leaves its four samples and no other, save those a request
\* in flight brought back.
THEOREM SemillaTrasCorrida == Spec => []SemillaExacta
<1>1. LInv => SemillaExacta
  <2> SUFFICES ASSUME LInv, script.fase = "fin" PROVE SemillaExacta
    BY DEF SemillaExacta
  <2>1. Escritas(script) \subseteq Sembrados
    BY DEF LInv, ScriptOK, Sembrados
  <2>2. Sembrados \ Escritas(script) \subseteq historia.revividas
    BY DEF LInv, ScriptOK, Sembrados
  <2> QED BY <2>1, <2>2 DEF SemillaExacta, Escritas
<1> QED BY <1>1, InvarianteListado, PTL
=============================================================================
