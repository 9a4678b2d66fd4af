------------------------ MODULE ProductCache_proofs ------------------------
(***************************************************************************)
(* Proofs about the list half of ProductCache.tla, for all products,       *)
(* readers and writers, with and without crashes.                          *)
(***************************************************************************)
EXTENDS ProductCache, FiniteSetTheorems, TLAPS

\* Nothing is cached under a version that has not been reached.
FutureUnused == \A v \in Versions : v > version => lists[v] = Nothing

\* A revision that a writer produced, or that has settled, is in Postgres or
\* was replaced by a later one.
RowsGrow ==
    /\ \A p \in Products : row[p] <= clock
    /\ \A w \in Writers : \A p \in wrote[w] : stamp[w] <= row[p]
    /\ \A v \in Versions : AtLeast(row, settled[v])

\* A list that is cached, or about to be, shows what had settled under its
\* version and nothing that Postgres did not hold.
ListsBetween ==
    /\ \A v \in Versions :
          lists[v] # Nothing => AtLeast(lists[v], settled[v]) /\ AtLeast(row, lists[v])
    /\ \A r \in ListReaders :
          lpc[r] = "set" => AtLeast(got[r], settled[seen[r]]) /\ AtLeast(row, got[r])

\* A row that has not settled has a writer who will settle it, or died owing it.
RowsSettle ==
    \A p \in Products :
        \/ row[p] = settled[version][p]
        \/ \E w \in Owing : p \in wrote[w] /\ stamp[w] = row[p]

CacheInv == TypeOK /\ FutureUnused /\ RowsGrow /\ ListsBetween /\ RowsSettle

-----------------------------------------------------------------------------
\* The versions are the naturals up to the number of writers, and no more
\* versions than writers have been reached.
LEMMA PastBumpBound ==
    /\ Cardinality(Writers) \in Nat
    /\ Cardinality(PastBump) \in Nat
    /\ Cardinality(PastBump) <= Cardinality(Writers)
<1>1. PastBump \subseteq Writers
  BY DEF PastBump
<1> QED
  BY <1>1, WritersAssumption, FS_Subset, FS_CardinalityType

LEMMA VersionsBound ==
    ASSUME TypeOK
    PROVE  /\ version \in Versions
           /\ \A r \in ListReaders : seen[r] \in Versions
  BY PastBumpBound DEF TypeOK, Versions

\* A bump adds its writer to those that are past it.
LEMMA PastBumpGrows ==
    ASSUME TypeOK, NEW w \in Writers, wpc[w] = "bump",
           NEW x \in {"del", "done", "lost"}, wpc' = [wpc EXCEPT ![w] = x]
    PROVE  Cardinality(PastBump') = Cardinality(PastBump) + 1
<1>1. PastBump' = PastBump \cup {w}
  BY DEF TypeOK, PastBump
<1>2. w \notin PastBump
  BY DEF PastBump
<1>3. IsFiniteSet(PastBump)
  <2>1. PastBump \subseteq Writers
    BY DEF PastBump
  <2> QED
    BY <2>1, WritersAssumption, FS_Subset
<1> QED
  BY <1>1, <1>2, <1>3, FS_AddElement

\* Every writer's change of the catalogue is one Write.
LEMMA WriteSteps ==
    ASSUME TypeOK, NEW w \in Writers,
           \/ \E S \in SUBSET Products : ChangeProducts(w, S) \/ ChangeCategory(w, S)
           \/ \E p \in Products : CreateProduct(w, p) \/ RemoveProduct(w, p)
    PROVE  live' \subseteq Products /\ \E S, D \in SUBSET Products : Write(w, S, D)
<1>1. ASSUME NEW S \in SUBSET Products, ChangeProducts(w, S)
      PROVE live' \subseteq Products /\ Write(w, S, S)
  BY <1>1 DEF TypeOK, ChangeProducts
<1>2. ASSUME NEW S \in SUBSET Products, ChangeCategory(w, S)
      PROVE live' \subseteq Products /\ Write(w, S, {})
  BY <1>2 DEF TypeOK, ChangeCategory
<1>3. ASSUME NEW p \in Products, CreateProduct(w, p)
      PROVE live' \subseteq Products /\ Write(w, {p}, {})
  BY <1>3 DEF TypeOK, CreateProduct
<1>4. ASSUME NEW p \in Products, RemoveProduct(w, p)
      PROVE live' \subseteq Products /\ Write(w, {p}, {p})
  BY <1>4 DEF TypeOK, RemoveProduct
<1>5. {} \in SUBSET Products /\ \A p \in Products : {p} \in SUBSET Products
  OBVIOUS
<1> QED
  BY <1>1, <1>2, <1>3, <1>4, <1>5

-----------------------------------------------------------------------------
\* A change that has been committed, and will be bumped.
LEMMA WriteStep ==
    ASSUME CacheInv, NEW w \in Writers, NEW S \in SUBSET Products, NEW D \in SUBSET Products,
           Write(w, S, D), live' \subseteq Products
    PROVE  CacheInv'
<1> USE DEF CacheInv, Write
<1>1. /\ row' = [p \in Products |-> IF p \in S THEN clock + 1 ELSE row[p]]
      /\ row \in [Products -> Nat] /\ row' \in [Products -> Nat] /\ clock \in Nat
      /\ clock' = clock + 1
  BY DEF TypeOK, Revisions
<1>2. AtLeast(row', row)
  BY <1>1 DEF AtLeast, RowsGrow
<1>3. PastBump' = PastBump
  BY DEF TypeOK, PastBump
<1>4. Cardinality(PastBump)' = Cardinality(PastBump)
  BY <1>3
<1>5. TypeOK'
  BY <1>1, <1>4 DEF TypeOK, Revisions, Versions, listVars, detailVars
<1>6. FutureUnused'
  BY DEF FutureUnused, Versions
<1>7. RowsGrow'
  <2>1. \A p \in Products : row'[p] <= clock'
    BY <1>1 DEF RowsGrow
  <2>2. \A v \in Writers : \A p \in wrote'[v] : stamp'[v] <= row'[p]
    BY <1>1, <1>2 DEF RowsGrow, TypeOK, AtLeast
  <2>3. \A v \in Versions : AtLeast(row, settled[v]) /\ settled[v] \in [Products -> Nat]
    BY DEF RowsGrow, TypeOK, Revisions
  <2>4. \A v \in Versions : AtLeast(row', settled'[v])
    BY <1>1, <1>2, <2>3 DEF AtLeast
  <2> QED
    BY <2>1, <2>2, <2>4 DEF RowsGrow
<1>8. ListsBetween'
  <2>1. ASSUME NEW l \in [Products -> Nat], AtLeast(row, l) PROVE AtLeast(row', l)
    BY <1>1, <1>2, <2>1 DEF AtLeast
  <2>2. \A v \in Versions : lists[v] # Nothing => lists[v] \in [Products -> Nat]
    BY DEF TypeOK, Revisions
  <2>3. \A r \in ListReaders : lpc[r] = "set" => got[r] \in [Products -> Nat]
    BY DEF TypeOK, Revisions
  <2>4. UNCHANGED <<lists, settled, lpc, got, seen>>
    BY DEF listVars
  <2> QED
    BY <2>1, <2>2, <2>3, <2>4 DEF ListsBetween, AtLeast, Versions
<1>9. RowsSettle'
  <2> SUFFICES ASSUME NEW p \in Products
               PROVE  \/ row'[p] = settled'[version'][p]
                      \/ \E v \in Owing' : p \in wrote'[v] /\ stamp'[v] = row'[p]
    BY DEF RowsSettle
  <2>1. CASE p \in S
    <3>1. w \in Owing' /\ p \in wrote'[w] /\ stamp'[w] = row'[p]
      BY <1>1, <2>1 DEF TypeOK, Owing
    <3> QED
      BY <3>1
  <2>2. CASE p \notin S
    <3>1. row'[p] = row[p] /\ UNCHANGED <<settled, version>>
      BY <1>1, <2>2
    <3>2. ASSUME NEW v \in Owing, p \in wrote[v], stamp[v] = row[p]
          PROVE  v \in Owing' /\ p \in wrote'[v] /\ stamp'[v] = row'[p]
      BY <3>1, <3>2 DEF TypeOK, Owing
    <3> QED
      BY <3>1, <3>2 DEF RowsSettle
  <2> QED
    BY <2>1, <2>2
<1> QED
  BY <1>5, <1>6, <1>7, <1>8, <1>9

\* The bump settles what its writer wrote, under a version not used before.
LEMMA BumpStep ==
    ASSUME CacheInv, NEW w \in Writers, Bump(w)
    PROVE  CacheInv'
<1> USE DEF CacheInv, NextVersion
<1>1. /\ version' = version + 1 /\ version \in Nat
      /\ \E x \in {"del", "done"} : wpc' = [wpc EXCEPT ![w] = x]
      /\ wpc[w] = "bump"
  BY DEF Bump, TypeOK
<1>2. version' <= Cardinality(PastBump') /\ Cardinality(PastBump') <= Cardinality(Writers)
  <2>1. PICK x \in {"del", "done"} : wpc' = [wpc EXCEPT ![w] = x]
    BY <1>1
  <2>2. Cardinality(PastBump') = Cardinality(PastBump) + 1
    BY <1>1, <2>1, PastBumpGrows
  <2>3. version <= Cardinality(PastBump)
    BY DEF TypeOK
  <2>4. PastBump' \subseteq Writers
    BY DEF PastBump
  <2>5. Cardinality(PastBump') <= Cardinality(Writers)
    BY <2>4, WritersAssumption, FS_Subset
  <2> QED
    BY <1>1, <2>2, <2>3, <2>5, PastBumpBound
<1>3. SettledBy(w) \in [Products -> Nat]
  <2>1. version \in Versions
    BY VersionsBound
  <2> QED
    BY <2>1 DEF SettledBy, TypeOK, Revisions
<1>4. TypeOK'
  <2>1. settled' \in [Versions -> [Products -> Nat]]
    BY <1>3 DEF TypeOK, Bump, Revisions
  <2>2. wpc' \in [Writers -> {"idle", "bump", "del", "done", "lost"}]
    BY <1>1 DEF TypeOK
  <2>3. \A r \in ListReaders : seen[r] <= version'
    BY <1>1 DEF TypeOK
  <2>4. version' \in Nat
    BY <1>1
  <2>5. UNCHANGED <<row, live, clock, lists, detail, lpc, seen, got, dpc, asked, found,
                    dels, wrote, stamp>>
    BY DEF Bump, dbVars, listVars, detailVars
  <2> QED
    BY <1>2, <2>1, <2>2, <2>3, <2>4, <2>5 DEF TypeOK, Revisions, Versions
<1>5. version \in Versions /\ version' \in Versions
  <2>1. version \in Versions
    BY VersionsBound
  <2>2. version' <= Cardinality(Writers)
    <3>1. Cardinality(PastBump') \in Nat
      <4>1. PastBump' \subseteq Writers
        BY DEF PastBump
      <4> QED
        BY <4>1, WritersAssumption, FS_Subset, FS_CardinalityType
    <3> QED
      BY <1>1, <1>2, <3>1, PastBumpBound
  <2> QED
    BY <1>1, <2>1, <2>2, PastBumpBound DEF Versions
<1>6. /\ settled'[version'] = SettledBy(w)
      /\ \A v \in Versions : v # version' => settled'[v] = settled[v]
  BY <1>1, <1>5 DEF Bump, TypeOK
<1>7. AtLeast(row, SettledBy(w))
  BY <1>5 DEF AtLeast, SettledBy, RowsGrow
<1>8. UNCHANGED <<row, clock, lists, lpc, seen, got, wrote, stamp>>
  BY DEF Bump, dbVars, listVars
<1>9. FutureUnused' /\ lists[version'] = Nothing
  BY <1>1, <1>5, <1>8 DEF FutureUnused, Versions
<1>10. RowsGrow'
  BY <1>6, <1>7, <1>8 DEF RowsGrow, AtLeast, Versions
<1>11. ListsBetween'
  <2>1. \A r \in ListReaders : seen[r] \in Versions /\ seen[r] # version'
    BY <1>1, VersionsBound DEF TypeOK
  <2> QED
    BY <1>6, <1>8, <1>9, <2>1 DEF ListsBetween, AtLeast, Versions
<1>12. RowsSettle'
  <2> SUFFICES ASSUME NEW p \in Products
               PROVE  \/ row'[p] = settled'[version'][p]
                      \/ \E v \in Owing' : p \in wrote'[v] /\ stamp'[v] = row'[p]
    BY DEF RowsSettle
  <2>1. settled'[version'][p] = IF p \in wrote[w] /\ stamp[w] > settled[version][p]
                                THEN stamp[w] ELSE settled[version][p]
    BY <1>6 DEF SettledBy
  <2>2. /\ row[p] \in Nat /\ stamp[w] \in Nat /\ settled[version][p] \in Nat
        /\ settled[version][p] <= row[p]
        /\ p \in wrote[w] => stamp[w] <= row[p]
    BY <1>5 DEF TypeOK, Revisions, RowsGrow, AtLeast
  <2>3. CASE row[p] = settled[version][p]
    BY <1>8, <2>1, <2>2, <2>3
  <2>4. CASE p \in wrote[w] /\ stamp[w] = row[p]
    BY <1>8, <2>1, <2>2, <2>4
  <2>5. ASSUME NEW v \in Owing, v # w, p \in wrote[v], stamp[v] = row[p]
        PROVE  v \in Owing' /\ p \in wrote'[v] /\ stamp'[v] = row'[p]
    BY <1>1, <1>8, <2>5 DEF TypeOK, Owing
  <2> QED
    BY <2>3, <2>4, <2>5 DEF RowsSettle
<1> QED
  BY <1>4, <1>9, <1>10, <1>11, <1>12

\* The other steps: readers, deletions of detail keys, crashes and the TTL.
LEMMA ListReaderStep ==
    ASSUME CacheInv, NEW r \in ListReaders, ReadList(r)
    PROVE  CacheInv'
<1> USE DEF CacheInv, dbVars, detailVars, writerVars
<1>1. CASE ListVersion(r)
  <2> USE <1>1 DEF ListVersion
  <2>1. TypeOK'
    BY DEF TypeOK, Revisions, Versions, PastBump
  <2>2. FutureUnused' /\ RowsGrow' /\ RowsSettle'
    BY DEF FutureUnused, RowsGrow, RowsSettle, Owing, AtLeast, Versions
  <2>3. ListsBetween'
    BY DEF ListsBetween, AtLeast, Versions, TypeOK
  <2> QED
    BY <2>1, <2>2, <2>3
<1>2. CASE ListGet(r)
  <2> USE <1>2 DEF ListGet
  <2>1. TypeOK'
    BY DEF TypeOK, Revisions, Versions, PastBump
  <2>2. FutureUnused' /\ RowsGrow' /\ RowsSettle'
    BY DEF FutureUnused, RowsGrow, RowsSettle, Owing, AtLeast, Versions
  <2>3. ListsBetween'
    BY DEF ListsBetween, AtLeast, Versions, TypeOK
  <2> QED
    BY <2>1, <2>2, <2>3
<1>3. CASE ListQuery(r)
  <2> USE <1>3 DEF ListQuery
  <2>1. TypeOK'
    BY NothingAssumption DEF TypeOK, Revisions, Versions, PastBump
  <2>2. FutureUnused' /\ RowsGrow' /\ RowsSettle'
    BY DEF FutureUnused, RowsGrow, RowsSettle, Owing, AtLeast, Versions
  <2>3. AtLeast(row, settled[seen[r]]) /\ AtLeast(row, row)
    BY VersionsBound DEF RowsGrow, TypeOK, Revisions, AtLeast
  <2>4. ListsBetween'
    BY <2>3 DEF ListsBetween, AtLeast, Versions, TypeOK
  <2> QED
    BY <2>1, <2>2, <2>4
<1>4. CASE ListSet(r)
  <2> USE <1>4 DEF ListSet, ListKey
  <2>1. TypeOK'
    BY DEF TypeOK, Revisions, Versions, PastBump
  <2>2. seen[r] \in Versions /\ seen[r] <= version
    BY VersionsBound DEF TypeOK
  <2>3. \A v \in Versions : lists'[v] = IF v = seen[r] THEN got[r] ELSE lists[v]
    BY DEF TypeOK
  <2>4. FutureUnused'
    BY <2>2, <2>3 DEF FutureUnused, Versions, TypeOK
  <2>5. RowsGrow' /\ RowsSettle'
    BY DEF RowsGrow, RowsSettle, Owing, AtLeast, Versions
  <2>6. ListsBetween'
    BY <2>3 DEF ListsBetween, AtLeast, Versions, TypeOK
  <2> QED
    BY <2>1, <2>4, <2>5, <2>6
<1> QED
  BY <1>1, <1>2, <1>3, <1>4 DEF ReadList

LEMMA DetailReaderStep ==
    ASSUME CacheInv, NEW r \in DetailReaders, ReadDetail(r)
    PROVE  CacheInv'
<1> USE DEF CacheInv, dbVars, listVars, writerVars
<1>1. UNCHANGED <<row, live, clock, version, lists, lpc, seen, got, wpc, dels, wrote, stamp, settled>>
  BY DEF ReadDetail, DetailGet, DetailQuery, DetailSet
<1>2. FutureUnused' /\ RowsGrow' /\ ListsBetween' /\ RowsSettle'
  BY <1>1 DEF FutureUnused, RowsGrow, ListsBetween, RowsSettle, Owing, AtLeast, Versions
<1>3. PastBump' = PastBump
  BY <1>1 DEF PastBump
<1>4. ASSUME NEW p \in Products, DetailGet(r, p) PROVE TypeOK'
  BY <1>3, <1>4 DEF DetailGet, TypeOK, Revisions, Versions
<1>5. ASSUME DetailQuery(r) PROVE TypeOK'
  <2>1. asked[r] \in Products /\ row[asked[r]] \in Nat
    BY DEF TypeOK, Revisions
  <2>2. row[asked[r]] # Nothing
    BY <2>1, NothingAssumption
  <2>3. CASE asked[r] \in live
    BY <1>1, <1>3, <1>5, <2>1, <2>2, <2>3 DEF DetailQuery, TypeOK, Versions
  <2>4. CASE asked[r] \notin live
    BY <1>1, <1>3, <1>5, <2>4 DEF DetailQuery, TypeOK, Versions
  <2> QED
    BY <2>3, <2>4
<1>6. ASSUME DetailSet(r) PROVE TypeOK'
  BY <1>3, <1>6 DEF DetailSet, TypeOK, Revisions, Versions
<1> QED
  BY <1>2, <1>4, <1>5, <1>6 DEF ReadDetail

LEMMA CleanupStep ==
    ASSUME CacheInv,
           \/ \E w \in Writers : Lose(w) \/ \E p \in Products : Del(w, p)
           \/ \E v \in Versions : ExpireList(v)
           \/ \E p \in Products : ExpireDetail(p)
           \/ UNCHANGED vars
    PROVE  CacheInv'
<1> USE DEF CacheInv, dbVars, listVars, detailVars, writerVars
<1>1. ASSUME NEW w \in Writers, Lose(w) PROVE CacheInv'
  <2> USE <1>1 DEF Lose
  <2>1. UNCHANGED <<row, live, clock, version, lists, detail, lpc, seen, got, dpc, asked, found,
                    wrote, stamp, settled>>
    OBVIOUS
  <2>2. PastBump \subseteq PastBump' /\ PastBump' \subseteq Writers
    BY DEF TypeOK, PastBump
  <2>3. Cardinality(PastBump) <= Cardinality(PastBump') /\ Cardinality(PastBump') \in Nat
    <3>1. IsFiniteSet(PastBump')
      BY <2>2, WritersAssumption, FS_Subset
    <3> QED
      BY <2>2, <3>1, FS_Subset, FS_CardinalityType
  <2>4. version <= Cardinality(PastBump')
    BY <2>3, PastBumpBound DEF TypeOK
  <2>5. TypeOK'
    BY <2>1, <2>4 DEF TypeOK, Revisions, Versions
  <2>6. FutureUnused' /\ RowsGrow' /\ ListsBetween' /\ RowsSettle'
    <3>1. Owing' = Owing
      BY DEF TypeOK, Owing
    <3> QED
      BY <2>1, <3>1 DEF FutureUnused, RowsGrow, ListsBetween, RowsSettle, AtLeast, Versions
  <2> QED
    BY <2>5, <2>6
<1>2. ASSUME NEW w \in Writers, NEW p \in Products, Del(w, p) PROVE CacheInv'
  <2> USE <1>2 DEF Del
  <2>1. UNCHANGED <<row, live, clock, version, lists, lpc, seen, got, dpc, asked, found,
                    wrote, stamp, settled>>
    OBVIOUS
  <2>2. PastBump' = PastBump
    BY DEF TypeOK, PastBump
  <2>3. TypeOK'
    BY <2>1, <2>2 DEF TypeOK, Revisions, Versions
  <2>4. Owing' = Owing
    BY DEF TypeOK, Owing
  <2>5. FutureUnused' /\ RowsGrow' /\ ListsBetween' /\ RowsSettle'
    BY <2>1, <2>4 DEF FutureUnused, RowsGrow, ListsBetween, RowsSettle, Owing, AtLeast, Versions
  <2> QED
    BY <2>3, <2>5
<1>3. ASSUME NEW v \in Versions, ExpireList(v) PROVE CacheInv'
  <2> USE <1>3 DEF ExpireList
  <2>1. TypeOK'
    BY DEF TypeOK, Revisions, Versions, PastBump
  <2>2. \A x \in Versions : lists'[x] \in {Nothing, lists[x]}
    BY DEF TypeOK
  <2>3. FutureUnused' /\ RowsGrow' /\ ListsBetween' /\ RowsSettle'
    BY <2>2 DEF FutureUnused, RowsGrow, ListsBetween, RowsSettle, Owing, AtLeast, Versions
  <2> QED
    BY <2>1, <2>3
<1>4. ASSUME NEW p \in Products, ExpireDetail(p) PROVE CacheInv'
  <2> USE <1>4 DEF ExpireDetail
  <2>1. TypeOK'
    BY DEF TypeOK, Revisions, Versions, PastBump
  <2>2. FutureUnused' /\ RowsGrow' /\ ListsBetween' /\ RowsSettle'
    BY DEF FutureUnused, RowsGrow, ListsBetween, RowsSettle, Owing, AtLeast, Versions
  <2> QED
    BY <2>1, <2>2
<1>5. ASSUME UNCHANGED vars PROVE CacheInv'
  <2> USE <1>5 DEF vars
  <2>1. TypeOK'
    BY DEF TypeOK, Revisions, Versions, PastBump
  <2>2. FutureUnused' /\ RowsGrow' /\ ListsBetween' /\ RowsSettle'
    BY DEF FutureUnused, RowsGrow, ListsBetween, RowsSettle, Owing, AtLeast, Versions
  <2> QED
    BY <2>1, <2>2
<1> QED
  BY <1>1, <1>2, <1>3, <1>4, <1>5

-----------------------------------------------------------------------------
LEMMA InitCacheInv == Init => CacheInv
<1> SUFFICES ASSUME Init PROVE CacheInv
  OBVIOUS
<1>1. 0 <= Cardinality(PastBump)
  BY PastBumpBound
<1>2. TypeOK
  BY <1>1, NothingAssumption DEF Init, TypeOK, Revisions
<1>3. FutureUnused /\ ListsBetween
  BY DEF Init, FutureUnused, ListsBetween
<1>4. RowsGrow /\ RowsSettle
  BY VersionsBound, <1>2 DEF Init, RowsGrow, RowsSettle, AtLeast
<1> QED
  BY <1>2, <1>3, <1>4 DEF CacheInv

\* The inductive invariant of the theorems below.
THEOREM CacheInvHolds == Spec => []CacheInv
<1>1. CacheInv /\ [Next]_vars => CacheInv'
  <2> SUFFICES ASSUME CacheInv, [Next]_vars PROVE CacheInv'
    OBVIOUS
  <2>1. ASSUME NEW w \in Writers,
               \/ \E S \in SUBSET Products : ChangeProducts(w, S) \/ ChangeCategory(w, S)
               \/ \E p \in Products : CreateProduct(w, p) \/ RemoveProduct(w, p)
        PROVE  CacheInv'
    <3>1. TypeOK
      BY DEF CacheInv
    <3>2. live' \subseteq Products /\ \E S, D \in SUBSET Products : Write(w, S, D)
      BY <2>1, <3>1, WriteSteps
    <3> QED
      BY <3>2, WriteStep
  <2> QED
    BY <2>1, BumpStep, ListReaderStep, DetailReaderStep, CleanupStep DEF Next, Change
<1> QED
  BY <1>1, InitCacheInv, PTL DEF Spec

\* Every variable keeps its type, and the version never runs ahead.
THEOREM CacheTypeCorrect == Spec => []TypeOK
<1>1. CacheInv => TypeOK
  BY DEF CacheInv
<1> QED
  BY <1>1, CacheInvHolds, PTL

\* A list that a request is answered with shows every write whose writer had
\* bumped the version before the request began.
THEOREM AnswersSeeSettledWrites == Spec => []ListAnswersSeeSettledWrites
<1>1. CacheInv => ListAnswersSeeSettledWrites
  BY VersionsBound DEF CacheInv, ListsBetween, ListAnswersSeeSettledWrites
<1> QED
  BY <1>1, CacheInvHolds, PTL

\* The list cached under the current version is Postgres' whenever no writer
\* has a bump to make, or died before it.
THEOREM CurrentListIsFresh == Spec => []ListFresh
<1>1. CacheInv => ListFresh
  <2> SUFFICES ASSUME CacheInv, Owing = {},
                      lists[version] # Nothing
               PROVE  lists[version] = row
    BY DEF ListFresh
  <2>1. version \in Versions
    BY VersionsBound DEF CacheInv
  <2>2. lists[version] \in [Products -> Nat] /\ row \in [Products -> Nat]
    BY <2>1 DEF CacheInv, TypeOK, Revisions
  <2>3. \A p \in Products : row[p] = settled[version][p]
    BY DEF CacheInv, RowsSettle
  <2>4. \A p \in Products : settled[version][p] <= lists[version][p] /\ lists[version][p] <= row[p]
    BY <2>1 DEF CacheInv, ListsBetween, AtLeast
  <2>5. \A p \in Products : lists[version][p] = row[p]
    BY <2>2, <2>3, <2>4
  <2> QED
    BY <2>2, <2>5
<1> QED
  BY <1>1, CacheInvHolds, PTL
=============================================================================
