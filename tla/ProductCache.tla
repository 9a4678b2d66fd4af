---------------------------- MODULE ProductCache ----------------------------
(***************************************************************************)
(* The read-through cache of the catalogue (cache.service.ts,              *)
(* products.service.ts) and its invalidation by everything that changes a  *)
(* product: ProductsService, CategoriesService and the checkouts and       *)
(* cancellations of OrdersService.                                         *)
(*                                                                         *)
(* What a reader sees of a product (its row and its category) is           *)
(* abstracted to a revision: the number of the write that produced it.     *)
(* One list query stands for all of them: each has a key of its own under  *)
(* the same version.                                                       *)
(***************************************************************************)
EXTENDS Integers, FiniteSets

CONSTANTS
    Products,           \* product ids
    ListReaders,        \* requests of GET /products
    DetailReaders,      \* requests of GET /products/:id
    Writers,            \* requests that change the catalogue, one write each
    CategoryWriters,    \* those of them that change a category
    Nothing,            \* what Redis answers for a key that it does not hold
    Crashes             \* may a writer die between its commit and its end?

ASSUME WritersAssumption == IsFiniteSet(Writers) /\ CategoryWriters \subseteq Writers
ASSUME NothingAssumption == Nothing \notin [Products -> Nat] \cup Nat
ASSUME CrashesAssumption == Crashes \in BOOLEAN

Versions == 0 .. Cardinality(Writers)

VARIABLES
    row,        \* row[p]: revision of product p in Postgres
    live,       \* products that have a row
    clock,      \* revision of the last write
    version,    \* Redis: products:cache-version
    lists,      \* Redis: lists[v], the list cached under version v
    detail,     \* Redis: detail[p], what is cached under products:detail:p
    lpc,        \* lpc[r]: what list reader r does next
    seen,       \* seen[r]: the version in the key that r uses
    got,        \* got[r]: the list r received from Postgres
    dpc,        \* dpc[r]: what detail reader r does next
    asked,      \* asked[r]: the product r reads
    found,      \* found[r]: the revision of it that r received from Postgres
    wpc,        \* wpc[w]: what writer w does next
    dels,       \* dels[w]: detail keys w has yet to delete
    wrote,      \* history: wrote[w], the products w changed to revision stamp[w]
    stamp,
    settled     \* history: settled[v][p], the latest revision of p whose writer
                \* had bumped the version by the time it became v

dbVars == <<row, live, clock>>
listVars == <<lpc, seen, got>>
detailVars == <<dpc, asked, found>>
writerVars == <<wpc, dels, wrote, stamp, settled>>
vars == <<dbVars, version, lists, detail, listVars, detailVars, writerVars>>

Init ==
    /\ row = [p \in Products |-> 0]
    /\ live \in SUBSET Products
    /\ clock = 0
    /\ version = 0
    /\ lists = [v \in Versions |-> Nothing]
    /\ detail = [p \in Products |-> Nothing]
    /\ lpc = [r \in ListReaders |-> "idle"]
    /\ seen = [r \in ListReaders |-> 0]
    /\ got = [r \in ListReaders |-> Nothing]
    /\ dpc = [r \in DetailReaders |-> "idle"]
    /\ asked \in [DetailReaders -> Products]
    /\ found = [r \in DetailReaders |-> Nothing]
    /\ wpc = [w \in Writers |-> "idle"]
    /\ dels = [w \in Writers |-> {}]
    /\ wrote = [w \in Writers |-> {}]
    /\ stamp = [w \in Writers |-> 0]
    /\ settled = [v \in Versions |-> [p \in Products |-> 0]]

-----------------------------------------------------------------------------
(* ProductsService.findAll *)

\* getProductsVersion: the version becomes part of the key.
ListVersion(r) ==
    /\ lpc[r] = "idle"
    /\ seen' = [seen EXCEPT ![r] = version]
    /\ lpc' = [lpc EXCEPT ![r] = "get"]
    /\ UNCHANGED <<dbVars, version, lists, detail, got, detailVars, writerVars>>

\* cache.get: a hit is the answer.
ListGet(r) ==
    /\ lpc[r] = "get"
    /\ lpc' = [lpc EXCEPT ![r] = IF lists[seen[r]] = Nothing THEN "query" ELSE "idle"]
    /\ UNCHANGED <<dbVars, version, lists, detail, seen, got, detailVars, writerVars>>

\* repository.findMany
ListQuery(r) ==
    /\ lpc[r] = "query"
    /\ got' = [got EXCEPT ![r] = row]
    /\ lpc' = [lpc EXCEPT ![r] = "set"]
    /\ UNCHANGED <<dbVars, version, lists, detail, seen, detailVars, writerVars>>

\* Mutant of ListKey: the key is built when the list is stored.
CurrentKey(r) == version
ListKey(r) == seen[r]

\* cache.set, under the key built at the start; then the answer.
ListSet(r) ==
    /\ lpc[r] = "set"
    /\ lists' = [lists EXCEPT ![ListKey(r)] = got[r]]
    /\ got' = [got EXCEPT ![r] = Nothing]
    /\ lpc' = [lpc EXCEPT ![r] = "idle"]
    /\ UNCHANGED <<dbVars, version, detail, seen, detailVars, writerVars>>

-----------------------------------------------------------------------------
(* ProductsService.findOne *)

DetailGet(r, p) ==
    /\ dpc[r] = "idle"
    /\ asked' = [asked EXCEPT ![r] = p]
    /\ dpc' = [dpc EXCEPT ![r] = IF detail[p] = Nothing THEN "query" ELSE "idle"]
    /\ UNCHANGED <<dbVars, version, lists, detail, listVars, found, writerVars>>

\* Mutant of DetailQuery: the absence of the product is cached.
DetailQueryUnchecked(r) ==
    /\ dpc[r] = "query"
    /\ found' = [found EXCEPT ![r] = IF asked[r] \in live THEN row[asked[r]] ELSE Nothing]
    /\ dpc' = [dpc EXCEPT ![r] = "set"]
    /\ UNCHANGED <<dbVars, version, lists, detail, listVars, asked, writerVars>>

\* repository.findById; a product without a row is a 404, and not cached.
DetailQuery(r) ==
    /\ dpc[r] = "query"
    /\ IF asked[r] \in live
       THEN /\ found' = [found EXCEPT ![r] = row[asked[r]]]
            /\ dpc' = [dpc EXCEPT ![r] = "set"]
       ELSE /\ dpc' = [dpc EXCEPT ![r] = "idle"]
            /\ UNCHANGED found
    /\ UNCHANGED <<dbVars, version, lists, detail, listVars, asked, writerVars>>

DetailSet(r) ==
    /\ dpc[r] = "set"
    /\ detail' = [detail EXCEPT ![asked[r]] = found[r]]
    /\ found' = [found EXCEPT ![r] = Nothing]
    /\ dpc' = [dpc EXCEPT ![r] = "idle"]
    /\ UNCHANGED <<dbVars, version, lists, listVars, asked, writerVars>>

-----------------------------------------------------------------------------
(* Writers: a committed change, then the bump, then the detail keys. *)

\* w commits new revisions of the products in S, and will delete the detail
\* keys of D.
Write(w, S, D) ==
    /\ wpc[w] = "idle"
    /\ clock' = clock + 1
    /\ row' = [p \in Products |-> IF p \in S THEN clock + 1 ELSE row[p]]
    /\ wrote' = [wrote EXCEPT ![w] = S]
    /\ stamp' = [stamp EXCEPT ![w] = clock + 1]
    /\ dels' = [dels EXCEPT ![w] = D]
    /\ wpc' = [wpc EXCEPT ![w] = "bump"]
    /\ UNCHANGED <<version, lists, detail, listVars, detailVars, settled>>

\* ProductsService.update and setImageUrl of one product; the commit of a
\* checkout or of a cancellation, of all the products of the order.
ChangeProducts(w, S) ==
    /\ w \notin CategoryWriters
    /\ S # {} /\ S \subseteq live
    /\ Write(w, S, S)
    /\ UNCHANGED live

\* ProductsService.create; an id is used once.
CreateProduct(w, p) ==
    /\ w \notin CategoryWriters
    /\ p \notin live /\ row[p] = 0
    /\ Write(w, {p}, {})
    /\ live' = live \cup {p}

\* ProductsService.remove
RemoveProduct(w, p) ==
    /\ w \notin CategoryWriters
    /\ p \in live
    /\ Write(w, {p}, {p})
    /\ live' = live \ {p}

\* CategoriesService.create, update and remove: the list and the detail of
\* the products of a category show it, and their detail keys stay.
ChangeCategory(w, S) ==
    /\ w \in CategoryWriters
    /\ S \subseteq live
    /\ Write(w, S, {})
    /\ UNCHANGED live

\* The revisions that are settled once w has bumped the version.
SettledBy(w) ==
    [p \in Products |-> IF p \in wrote[w] /\ stamp[w] > settled[version][p]
                        THEN stamp[w] ELSE settled[version][p]]

\* Mutant of NextVersion: the writer does not bump the version.
SameVersion == version
NextVersion == version + 1

\* bumpProductsVersion: INCR
Bump(w) ==
    /\ wpc[w] = "bump"
    /\ version' = NextVersion
    /\ settled' = [settled EXCEPT ![NextVersion] = SettledBy(w)]
    /\ wpc' = [wpc EXCEPT ![w] = IF dels[w] = {} THEN "done" ELSE "del"]
    /\ UNCHANGED <<dbVars, lists, detail, listVars, detailVars, dels, wrote, stamp>>

\* cache.del of the detail keys, sent together and executed in any order.
Del(w, p) ==
    /\ wpc[w] = "del"
    /\ p \in dels[w]
    /\ detail' = [detail EXCEPT ![p] = Nothing]
    /\ dels' = [dels EXCEPT ![w] = @ \ {p}]
    /\ wpc' = [wpc EXCEPT ![w] = IF dels[w] = {p} THEN "done" ELSE "del"]
    /\ UNCHANGED <<dbVars, version, lists, listVars, detailVars, wrote, stamp, settled>>

\* The process dies, or Redis refuses, after the commit.
Lose(w) ==
    /\ Crashes
    /\ wpc[w] \in {"bump", "del"}
    /\ wpc' = [wpc EXCEPT ![w] = IF wpc[w] = "bump" THEN "lost" ELSE "done"]
    /\ dels' = [dels EXCEPT ![w] = {}]
    /\ UNCHANGED <<dbVars, version, lists, detail, listVars, detailVars, wrote, stamp, settled>>

-----------------------------------------------------------------------------
(* Redis: the TTL of every key is set with it. *)

ExpireList(v) ==
    /\ lists[v] # Nothing
    /\ lists' = [lists EXCEPT ![v] = Nothing]
    /\ UNCHANGED <<dbVars, version, detail, listVars, detailVars, writerVars>>

\* Mutant of Expires: the detail is stored without a TTL.
NeverExpires(p) == FALSE
Expires(p) == detail[p] # Nothing

ExpireDetail(p) ==
    /\ Expires(p)
    /\ detail' = [detail EXCEPT ![p] = Nothing]
    /\ UNCHANGED <<dbVars, version, lists, listVars, detailVars, writerVars>>

-----------------------------------------------------------------------------
ReadList(r) == ListVersion(r) \/ ListGet(r) \/ ListQuery(r) \/ ListSet(r)

ReadDetail(r) ==
    \/ \E p \in Products : DetailGet(r, p)
    \/ DetailQuery(r)
    \/ DetailSet(r)

Change(w) ==
    \/ \E S \in SUBSET Products : ChangeProducts(w, S) \/ ChangeCategory(w, S)
    \/ \E p \in Products : CreateProduct(w, p) \/ RemoveProduct(w, p) \/ Del(w, p)
    \/ Bump(w)
    \/ Lose(w)

Next ==
    \/ \E r \in ListReaders : ReadList(r)
    \/ \E r \in DetailReaders : ReadDetail(r)
    \/ \E w \in Writers : Change(w)
    \/ \E v \in Versions : ExpireList(v)
    \/ \E p \in Products : ExpireDetail(p)

Spec == Init /\ [][Next]_vars

\* A read that was started is finished, and a key that is due expires.  Nobody
\* has to read or to write.
FairSpec ==
    /\ Spec
    /\ \A r \in ListReaders : WF_vars(ListGet(r) \/ ListQuery(r) \/ ListSet(r))
    /\ \A r \in DetailReaders : WF_vars(DetailQuery(r) \/ DetailSet(r))
    /\ \A v \in Versions : WF_vars(ExpireList(v))
    /\ \A p \in Products : WF_vars(ExpireDetail(p))

-----------------------------------------------------------------------------
(* Properties *)

Revisions == [Products -> Nat]

\* The writers that have bumped the version, or died before they could.
PastBump == {w \in Writers : wpc[w] \in {"del", "done", "lost"}}

\* Those whose write no bump of their own has followed.
Owing == {w \in Writers : wpc[w] \in {"bump", "lost"}}

\* Every variable has its type; the version never runs ahead of the writers,
\* and a reader that is about to store has something to store.
TypeOK ==
    /\ row \in Revisions
    /\ live \subseteq Products
    /\ clock \in Nat
    /\ version \in Nat
    /\ lists \in [Versions -> Revisions \cup {Nothing}]
    /\ detail \in [Products -> Nat \cup {Nothing}]
    /\ lpc \in [ListReaders -> {"idle", "get", "query", "set"}]
    /\ seen \in [ListReaders -> Nat]
    /\ got \in [ListReaders -> Revisions \cup {Nothing}]
    /\ dpc \in [DetailReaders -> {"idle", "query", "set"}]
    /\ asked \in [DetailReaders -> Products]
    /\ found \in [DetailReaders -> Nat \cup {Nothing}]
    /\ wpc \in [Writers -> {"idle", "bump", "del", "done", "lost"}]
    /\ dels \in [Writers -> SUBSET Products]
    /\ wrote \in [Writers -> SUBSET Products]
    /\ stamp \in [Writers -> Nat]
    /\ settled \in [Versions -> Revisions]
    /\ version <= Cardinality(PastBump)
    /\ \A r \in ListReaders : seen[r] <= version
    /\ \A r \in ListReaders : lpc[r] = "set" <=> got[r] # Nothing
    /\ \A r \in DetailReaders : dpc[r] = "set" <=> found[r] # Nothing

AtLeast(l, m) == \A p \in Products : m[p] <= l[p]

\* The list that a request is answered with, from the cache or from Postgres,
\* shows every write whose writer had bumped the version before the request
\* began, whatever other readers store meanwhile.
ListAnswersSeeSettledWrites ==
    \A r \in ListReaders :
        /\ lpc[r] = "get" /\ lists[seen[r]] # Nothing
              => AtLeast(lists[seen[r]], settled[seen[r]])
        /\ lpc[r] = "set" => AtLeast(got[r], settled[seen[r]])

\* When no writer has a bump to make, or died before it, the list cached under
\* the current version is exactly what Postgres holds: no reader that was caught
\* by an invalidation can store an old list where new requests look.
ListFresh ==
    Owing = {} => lists[version] \in {Nothing, row}

\* orders.service.ts:42: once the writers are done, no detail key shows stock
\* that is not Postgres' any more.
DetailNeverStale ==
    (\A w \in Writers : wpc[w] \in {"idle", "done", "lost"})
        => \A p \in live : detail[p] \in {Nothing, row[p]}

\* Whatever races and crashes left in the cache, the TTL clears it: when the
\* writes have ceased, both caches end up showing what Postgres holds.
CachesConverge ==
    <>[](/\ \A p \in live : detail[p] \in {Nothing, row[p]}
         /\ lists[version] \in {Nothing, row})
=============================================================================
