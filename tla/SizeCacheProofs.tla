-------------------------- MODULE SizeCacheProofs --------------------------
(***************************************************************************)
(* Theorems about the sizes of a font, for any number of threads, requests, *)
(* kept sizes and caches, and any width of the fields of the hash.          *)
(***************************************************************************)
EXTENDS SizeCache, TLAPS

-----------------------------------------------------------------------------
(* The hash tells the sizes apart that are not over-size.                   *)
LEMMA FieldsApart ==
  ASSUME NEW F \in Nat \ {0}, NEW h \in Nat, NEW k \in Nat, NEW w \in Nat, NEW x \in Nat,
         w < F, x < F, h * F + w = k * F + x
  PROVE  h = k /\ w = x
<1>1. ASSUME NEW a \in Nat, NEW b \in Nat, NEW c \in Nat, NEW d \in Nat,
             c < F, d < F, a * F + c = b * F + d, a < b
      PROVE  FALSE
  <2>1. PICK e \in Nat : b = a + 1 + e
    <3>1. b - a - 1 \in Nat /\ b = a + 1 + (b - a - 1)
      BY <1>1
    <3> QED  BY <3>1
  <2>2. b * F = a * F + F + e * F
    BY <2>1
  <2>3. e * F \in Nat /\ a * F \in Nat
    OBVIOUS
  <2> DEFINE m == a * F
             n == e * F
  <2>4. m \in Nat /\ n \in Nat /\ b * F = m + F + n /\ m + c = b * F + d
    BY <1>1, <2>2, <2>3
  <2> HIDE DEF m, n
  <2> QED  BY <1>1, <2>4
<1>2. h = k
  BY <1>1
<1>3. h * F \in Nat
  OBVIOUS
<1> DEFINE m == h * F
<1>4. m \in Nat /\ m + w = m + x
  BY <1>2, <1>3
<1> HIDE DEF m
<1>5. w = x
  BY <1>4
<1> QED
  BY <1>2, <1>5

LEMMA HashDistinct ==
  ASSUME NEW r \in Requests, NEW q \in Requests, ~Oversize(r), ~Oversize(q),
         Hash(r) = Hash(q)
  PROVE  SameSize(r, q)
<1>1. /\ r.height \in Nat /\ Width(r) \in Nat /\ r.bold \in {0, 1} /\ r.italic \in {0, 1}
      /\ q.height \in Nat /\ Width(q) \in Nat /\ q.bold \in {0, 1} /\ q.italic \in {0, 1}
      /\ Field \in Nat \ {0}
  BY SizeCacheAssumption DEF Width
<1>2. /\ r.height < Field /\ Width(r) < Field /\ q.height < Field /\ Width(q) < Field
  BY SizeCacheAssumption DEF Oversize, Width
<1>3. r.height % Field = r.height /\ q.height % Field = q.height
  BY <1>1, <1>2
<1> DEFINE m == r.height * Field + Width(r)
           n == q.height * Field + Width(q)
<1>4. m \in Nat /\ n \in Nat
  BY <1>1
<1>5. m * 256 + 2 * r.bold + r.italic = n * 256 + 2 * q.bold + q.italic
  BY <1>3 DEF Hash
<1> HIDE DEF m, n
<1>6. m = n /\ r.bold = q.bold /\ r.italic = q.italic
  BY <1>1, <1>4, <1>5
<1>7. r.height = q.height /\ Width(r) = Width(q)
  <2>1. r.height * Field + Width(r) = q.height * Field + Width(q)
    BY <1>6 DEF m, n
  <2> DEFINE a == r.height
             b == q.height
             c == Width(r)
             d == Width(q)
  <2>2. a \in Nat /\ b \in Nat /\ c \in Nat /\ d \in Nat /\ c < Field /\ d < Field
    BY <1>1, <1>2
  <2>3. a * Field + c = b * Field + d
    BY <2>1
  <2> HIDE DEF a, b, c, d
  <2>4. a = b /\ c = d
    BY <2>2, <2>3, SizeCacheAssumption, FieldsApart
  <2> QED  BY <2>4 DEF a, b, c, d
<1> QED
  BY <1>6, <1>7 DEF SameSize

-----------------------------------------------------------------------------
(* The inductive invariant: besides the properties, every cache in the map  *)
(* is under the hash of the request it was made for, only a thread at its   *)
(* glyphs has a cache, no thread reloads meanwhile, and the counter of the  *)
(* font never runs ahead of the requests.                                   *)
Keyed ==
  \A h \in DOMAIN sizes :
    LET r == madeFor[sizes[h]] IN r \in Requests /\ ~Oversize(r) /\ Hash(r) = h

Placed ==
  \A t \in Threads :
    /\ pc[t] # "glyphs" => pftCache[t] = Nil
    /\ pc[t] = "reloading" => \A u \in Threads : pc[u] \notin {"drawing", "glyphs"}

Inv == TypeOK /\ OnceInMap /\ SizeServed /\ Keyed /\ Placed /\ added <= since

LEMMA InitInv == Init => Inv
  BY SizeCacheAssumption, CachesAssumption
  DEF Init, Inv, TypeOK, OnceInMap, SizeServed, Keyed, Placed

LEMMA CountTyped ==
  ASSUME Inv
  PROVE  /\ Count \in 0 .. MaxSizes /\ Since \in 0 .. MaxSizes /\ Count <= Since
         /\ Crowded => since = MaxSizes
  BY SizeCacheAssumption DEF Inv, TypeOK, Count, Since, Crowded

LEMMA KeptIn == Kept \subseteq DOMAIN sizes
  BY DEF Kept, CompactMap

LEMMA DroppedIn ==
  ASSUME Inv
  PROVE  /\ Dropped \subseteq live /\ live \ Dropped = {sizes[h] : h \in Kept}
         /\ \A h \in Kept : sizes[h] \notin Dropped
         /\ ~Crowded => Dropped = {}
<1>1. Kept \subseteq DOMAIN sizes
  BY KeptIn
<1>2. /\ live = {sizes[h] : h \in DOMAIN sizes}
      /\ \A h, k \in DOMAIN sizes : sizes[h] = sizes[k] => h = k
  BY DEF Inv, OnceInMap
<1>3. \A h \in Kept : sizes[h] \notin Dropped
  BY <1>1, <1>2 DEF Dropped
<1>4. Dropped \subseteq live
  BY <1>2 DEF Dropped
<1>5. live \ Dropped = {sizes[h] : h \in Kept}
  BY <1>1, <1>2, <1>3 DEF Dropped
<1>6. ~Crowded => Dropped = {}
  BY DEF Dropped, Kept
<1> QED
  BY <1>3, <1>4, <1>5, <1>6

(* What a request leaves of the caches of the others, and of its own.       *)
LEMMA AfterRequest ==
  ASSUME Inv, NEW t \in Threads, NEW r \in Requests, GetCache(t, r)
  PROVE  /\ \A u \in Threads \ {t} :
              /\ pftCache'[u] = IF pftCache[u] \in Dropped THEN Dangling ELSE pftCache[u]
              /\ pc'[u] = pc[u] /\ asked'[u] = asked[u]
         /\ pc[t] = "drawing" /\ pc'[t] = "glyphs" /\ asked'[t] = r
         /\ pftCache'[t] = Nil \/ (~Oversize(r) /\ Hash(r) \in DOMAIN sizes' /\ pftCache'[t] = sizes'[Hash(r)])
         /\ pftCache'[t] \in Caches \cup {Nil}
<1>1. pftCache \in [Threads -> Caches \cup {Nil, Dangling}]
  BY DEF Inv, TypeOK
<1>2. /\ \A u \in Threads \ {t} : pc'[u] = pc[u] /\ asked'[u] = asked[u]
      /\ pc[t] = "drawing" /\ pc'[t] = "glyphs" /\ asked'[t] = r
  BY DEF GetCache, Inv, TypeOK
<1>3. CASE TooLarge(t, r)
  BY <1>1, <1>2, <1>3 DEF TooLarge, Delete
<1>4. CASE Found(t, r)
  <2>1. sizes[Hash(r)] \in Caches
    BY <1>4, KeptIn DEF Found, Inv, TypeOK
  <2>2. sizes' = [h \in Kept |-> sizes[h]]
    BY <1>4 DEF Found
  <2> QED  BY <1>1, <1>2, <1>4, <2>1, <2>2 DEF Found, Delete
<1>5. CASE New(t, r)
  <2>1. PICK p \in Caches \ live :
          /\ sizes' = [h \in Kept \cup {Hash(r)} |-> IF h = Hash(r) THEN p ELSE sizes[h]]
          /\ pftCache' = [Delete(Dropped) EXCEPT ![t] = p]
    BY <1>5 DEF New
  <2> QED  BY <1>1, <1>2, <1>5, <2>1 DEF New, Delete
<1> QED
  BY <1>3, <1>4, <1>5 DEF GetCache

(* The caches of the map, after a request, are those that were kept, each   *)
(* made for what it was made for, and perhaps a new one.                    *)
LEMMA MapAfterRequest ==
  ASSUME Inv, NEW t \in Threads, NEW r \in Requests, GetCache(t, r)
  PROVE  /\ TypeOK' /\ OnceInMap' /\ Keyed' /\ added' <= since'
         /\ \A p \in live' : p \in live => madeFor'[p] = madeFor[p]
<1> USE DEF Inv
<1>1. /\ DOMAIN sizes \subseteq Hashes /\ sizes \in [DOMAIN sizes -> Caches]
      /\ live \subseteq Caches /\ active \subseteq Caches
      /\ pc \in [Threads -> {"idle", "drawing", "glyphs", "reloading"}]
      /\ pftCache \in [Threads -> Caches \cup {Nil, Dangling}]
      /\ asked \in [Threads -> Requests \cup {NoRequest}]
      /\ madeFor \in [Caches -> Requests \cup {NoRequest}]
  BY DEF TypeOK
<1>2. /\ Count \in 0 .. MaxSizes /\ Since \in 0 .. MaxSizes /\ Count <= Since
      /\ MaxSizes \in Nat \ {0}
  BY CountTyped, SizeCacheAssumption
<1>3. /\ Kept \subseteq DOMAIN sizes /\ live \ Dropped = {sizes[h] : h \in Kept}
      /\ \A h \in Kept : sizes[h] \notin Dropped /\ sizes[h] \in Caches
      /\ \A h, k \in DOMAIN sizes : sizes[h] = sizes[k] => h = k
      /\ StillActive \subseteq Caches
  BY <1>1, KeptIn, DroppedIn DEF OnceInMap, StillActive
<1>4. /\ since' = Since
      /\ pc' = [pc EXCEPT ![t] = "glyphs"] /\ asked' = [asked EXCEPT ![t] = r]
  BY DEF GetCache
<1>5. /\ added' \in -1 .. MaxSizes /\ added' <= since' /\ active' \subseteq Caches
  BY <1>1, <1>2, <1>3, <1>4 DEF GetCache, TooLarge, Found, New, Activate
<1>6. /\ pftCache' \in [Threads -> Caches \cup {Nil, Dangling}]
      /\ pc' \in [Threads -> {"idle", "drawing", "glyphs", "reloading"}]
      /\ asked' \in [Threads -> Requests \cup {NoRequest}]
  <2>1. Delete(Dropped) \in [Threads -> Caches \cup {Nil, Dangling}]
    BY <1>1 DEF Delete
  <2>2. /\ pc' \in [Threads -> {"idle", "drawing", "glyphs", "reloading"}]
        /\ asked' \in [Threads -> Requests \cup {NoRequest}]
    BY <1>1, <1>4
  <2>3. \E p \in Caches \cup {Nil} : pftCache' = [Delete(Dropped) EXCEPT ![t] = p]
    BY <1>3 DEF GetCache, TooLarge, Found, New
  <2> QED  BY <2>1, <2>2, <2>3
<1>7. Forget(Dropped) \in [Caches -> Requests \cup {NoRequest}]
  BY <1>1 DEF Forget
<1>8. \A p \in Caches : p \notin Dropped => Forget(Dropped)[p] = madeFor[p]
  BY DEF Forget
<1>9. CASE /\ sizes' = [h \in Kept |-> sizes[h]] /\ live' = live \ Dropped
           /\ madeFor' = Forget(Dropped)
  <2>1. TypeOK'
    BY <1>1, <1>2, <1>3, <1>4, <1>5, <1>6, <1>7, <1>9 DEF TypeOK
  <2>2. OnceInMap'
    BY <1>3, <1>9 DEF OnceInMap
  <2>3. Keyed'
    BY <1>3, <1>8, <1>9 DEF Keyed
  <2>4. \A p \in live' : p \in live => madeFor'[p] = madeFor[p]
    BY <1>1, <1>8, <1>9
  <2> QED  BY <1>5, <2>1, <2>2, <2>3, <2>4
<1>10. CASE New(t, r)
  <2>1. PICK p \in Caches \ live :
          /\ live' = (live \ Dropped) \cup {p}
          /\ sizes' = [h \in Kept \cup {Hash(r)} |-> IF h = Hash(r) THEN p ELSE sizes[h]]
          /\ madeFor' = [Forget(Dropped) EXCEPT ![p] = r]
    BY <1>10 DEF New
  <2>2. Hash(r) \notin Kept /\ ~Oversize(r) /\ Hash(r) \in Hashes
    BY <1>10 DEF New, Hashes
  <2>3. \A h \in Kept : sizes[h] \in live /\ sizes[h] # p
    BY <1>3, <2>1
  <2>4. TypeOK'
    BY <1>1, <1>2, <1>3, <1>4, <1>5, <1>6, <1>7, <2>1, <2>2 DEF TypeOK
  <2>5. OnceInMap'
    BY <1>3, <2>1, <2>2, <2>3 DEF OnceInMap
  <2>6. /\ madeFor'[p] = r
        /\ \A q \in Caches : q \notin Dropped /\ q # p => madeFor'[q] = madeFor[q]
    BY <1>7, <1>8, <2>1
  <2>7. Keyed'
    BY <1>3, <2>1, <2>2, <2>3, <2>6 DEF Keyed
  <2>8. \A q \in live' : q \in live => madeFor'[q] = madeFor[q]
    BY <1>1, <2>1, <2>6
  <2> QED  BY <1>5, <2>4, <2>5, <2>7, <2>8
<1> QED
  BY <1>9, <1>10 DEF GetCache, TooLarge, Found

LEMMA ServedAfterRequest ==
  ASSUME Inv, NEW t \in Threads, NEW r \in Requests, GetCache(t, r)
  PROVE  SizeServed'
<1>1. /\ OnceInMap' /\ Keyed'
      /\ \A p \in live' : p \in live => madeFor'[p] = madeFor[p]
  BY MapAfterRequest
<1>2. SUFFICES ASSUME NEW u \in Threads, pftCache'[u] \in Caches
               PROVE  pftCache'[u] \in live' /\ SameSize(madeFor'[pftCache'[u]], asked'[u])
  BY DEF SizeServed
<1>3. CASE u = t
  <2>1. /\ ~Oversize(r) /\ Hash(r) \in DOMAIN sizes'
        /\ pftCache'[t] = sizes'[Hash(r)] /\ asked'[t] = r
    BY <1>2, <1>3, AfterRequest, CachesAssumption
  <2>2. pftCache'[t] \in live'
    BY <1>1, <2>1 DEF OnceInMap
  <2> DEFINE q == madeFor'[sizes'[Hash(r)]]
  <2>3. q \in Requests /\ ~Oversize(q) /\ Hash(q) = Hash(r)
    BY <1>1, <2>1 DEF Keyed
  <2> HIDE DEF q
  <2>4. SameSize(q, r)
    BY <2>1, <2>3, HashDistinct
  <2> QED  BY <1>3, <2>1, <2>2, <2>4 DEF q
<1>4. CASE u # t
  <2>1. /\ pftCache'[u] = IF pftCache[u] \in Dropped THEN Dangling ELSE pftCache[u]
        /\ asked'[u] = asked[u]
    BY <1>4, AfterRequest
  <2>2. pftCache'[u] = pftCache[u] /\ pftCache[u] \notin Dropped
    BY <1>2, <2>1, CachesAssumption
  <2>3. pftCache[u] \in live /\ SameSize(madeFor[pftCache[u]], asked[u])
    BY <1>2, <2>2 DEF Inv, SizeServed
  <2>4. live \ Dropped \subseteq live'
    BY DEF GetCache, TooLarge, Found, New
  <2> QED  BY <1>1, <2>1, <2>2, <2>3, <2>4
<1> QED  BY <1>3, <1>4

LEMMA EraseInv ==
  ASSUME Inv, NEW t \in Threads, Erase(t)
  PROVE  Inv' /\ pftCache' = pftCache
<1>1. pftCache \in [Threads -> Caches \cup {Nil, Dangling}] /\ pc[t] = "reloading"
  BY DEF Erase, Inv, TypeOK
<1>2. \A u \in Threads : pftCache[u] = Nil
  BY <1>1 DEF Inv, Placed
<1>3. pftCache' = pftCache
  <2>1. Nil \notin {sizes[h] : h \in DOMAIN sizes}
    BY CachesAssumption DEF Inv, TypeOK
  <2> QED  BY <1>1, <1>2, <2>1 DEF Erase, Delete
<1>4. /\ sizes' = [h \in {} |-> Nil] /\ live' = {}
      /\ active' \subseteq active /\ pc' = [pc EXCEPT ![t] = "idle"]
      /\ UNCHANGED <<added, asked, since>>
      /\ madeFor' \in [Caches -> Requests \cup {NoRequest}]
  BY DEF Erase, Forget, Inv, TypeOK, OnceInMap
<1>5. TypeOK'
  BY <1>1, <1>3, <1>4 DEF Inv, TypeOK
<1>6. OnceInMap' /\ Keyed'
  BY <1>4 DEF OnceInMap, Keyed
<1>7. SizeServed'
  BY <1>2, <1>3, CachesAssumption DEF SizeServed
<1>8. Placed'
  BY <1>2, <1>3, <1>4 DEF Inv, Placed, TypeOK
<1>9. added' <= since'
  BY <1>4 DEF Inv
<1> QED  BY <1>3, <1>5, <1>6, <1>7, <1>8, <1>9 DEF Inv

LEMMA InvNext == Inv /\ [Next]_vars => Inv'
<1> SUFFICES ASSUME Inv, [Next]_vars PROVE Inv'
  OBVIOUS
<1>1. ASSUME NEW t \in Threads, BeginGlyphs(t) PROVE Inv'
  BY <1>1 DEF BeginGlyphs, Inv, TypeOK, OnceInMap, SizeServed, Keyed, Placed
<1>2. ASSUME NEW t \in Threads, EndGlyphs(t) PROVE Inv'
  <2>1. TypeOK' /\ OnceInMap' /\ Keyed' /\ added' <= since'
    BY <1>2 DEF EndGlyphs, Inv, TypeOK, OnceInMap, Keyed
  <2>2. SizeServed'
    BY <1>2, CachesAssumption DEF EndGlyphs, Inv, TypeOK, SizeServed
  <2>3. Placed'
    BY <1>2 DEF EndGlyphs, Inv, TypeOK, Placed
  <2> QED  BY <2>1, <2>2, <2>3 DEF Inv
<1>3. ASSUME NEW t \in Threads, NEW r \in Requests, GetCache(t, r) PROVE Inv'
  <2>1. Nil \notin Dropped
    BY DroppedIn, CachesAssumption DEF Inv, TypeOK
  <2>2. ASSUME NEW u \in Threads PROVE pc'[u] # "glyphs" => pftCache'[u] = Nil
    BY <1>3, <2>1, AfterRequest DEF Inv, Placed
  <2>3. ASSUME NEW u \in Threads, NEW v \in Threads, pc'[u] = "reloading"
        PROVE  pc'[v] \notin {"drawing", "glyphs"}
    BY <1>3, <2>3, AfterRequest DEF Inv, Placed
  <2>4. Placed'
    BY <2>2, <2>3 DEF Placed
  <2> QED  BY <1>3, <2>4, MapAfterRequest, ServedAfterRequest DEF Inv
<1>4. ASSUME NEW t \in Threads, BeginReload(t) PROVE Inv'
  BY <1>4 DEF BeginReload, Inv, TypeOK, OnceInMap, SizeServed, Keyed, Placed
<1>5. ASSUME NEW t \in Threads, Erase(t) PROVE Inv'
  BY <1>5, EraseInv
<1>6. CASE UNCHANGED vars
  BY <1>6 DEF vars, Inv, TypeOK, OnceInMap, SizeServed, Keyed, Placed
<1> QED
  BY <1>1, <1>2, <1>3, <1>4, <1>5, <1>6 DEF Next, Step

LEMMA InvHolds == Spec => []Inv
  BY InitInv, InvNext, PTL DEF Spec

-----------------------------------------------------------------------------
(* The variables have their types; the counter of the font stays between -1 *)
(* and MaxSizes, however many sizes are asked for.                          *)
THEOREM TypeCorrect == Spec => []TypeOK
<1>1. Inv => TypeOK
  BY DEF Inv
<1> QED  BY <1>1, InvHolds, PTL

(* A cache constructed and not deleted is in the map, and once only.        *)
THEOREM EveryCacheOnce == Spec => []OnceInMap
<1>1. Inv => OnceInMap
  BY DEF Inv
<1> QED  BY <1>1, InvHolds, PTL

(* No two sizes that GetCache serves meet in one hash, so each thread has   *)
(* the cache of the size it asked for.                                      *)
THEOREM RightSize == Spec => []SizeServed
<1>1. Inv => SizeServed
  BY DEF Inv
<1> QED  BY <1>1, InvHolds, PTL

(* The cache a thread uses is deleted under it by nothing but a request of  *)
(* another drawing thread that compacts the sizes.                          *)
THEOREM LostOnlyToDrawing == Spec => LostToDrawing
<1>1. ASSUME Inv, [Next]_vars, NEW t \in Threads,
             pftCache[t] # Dangling, pftCache'[t] = Dangling
      PROVE  Crowded /\ \E u \in Threads \ {t} : pc[u] = "drawing" /\ pc'[u] = "glyphs"
  <2>1. CASE \E u \in Threads, r \in Requests : GetCache(u, r)
    <3>1. PICK u \in Threads, r \in Requests : GetCache(u, r)
      BY <2>1
    <3>2. pc[u] = "drawing" /\ pc'[u] = "glyphs" /\ pftCache'[u] \in Caches \cup {Nil}
      BY <1>1, <3>1, AfterRequest
    <3>3. t # u
      BY <1>1, <3>2, CachesAssumption DEF Nil, Dangling
    <3>4. pftCache[t] \in Dropped
      BY <1>1, <3>1, <3>3, AfterRequest
    <3> QED  BY <1>1, <3>2, <3>3, <3>4, DroppedIn
  <2>2. CASE \E u \in Threads : Erase(u)
    BY <1>1, <2>2, EraseInv
  <2>3. CASE \E u \in Threads : EndGlyphs(u)
    BY <1>1, <2>3 DEF EndGlyphs, Inv, TypeOK, Nil, Dangling
  <2>4. CASE \E u \in Threads : BeginGlyphs(u) \/ BeginReload(u)
    BY <1>1, <2>4 DEF BeginGlyphs, BeginReload
  <2>5. CASE UNCHANGED vars
    BY <1>1, <2>5 DEF vars
  <2> QED  BY <1>1, <2>1, <2>2, <2>3, <2>4, <2>5 DEF Next, Step
<1>2. Inv /\ [Next]_vars =>
        [\A t \in Threads : pftCache[t] # Dangling /\ pftCache'[t] = Dangling =>
           Crowded /\ \E u \in Threads \ {t} : pc[u] = "drawing" /\ pc'[u] = "glyphs"]_vars
  BY <1>1
<1> QED  BY <1>2, InvHolds, PTL DEF Spec, LostToDrawing

(* A compaction is MaxSizes + 1 requests or more after the last one.        *)
THEOREM CompactionsSpaced == Spec => Spaced
<1>1. Inv /\ [Next]_vars => [Compacts => since = MaxSizes]_vars
  BY CountTyped DEF Compacts
<1> QED  BY <1>1, InvHolds, PTL DEF Spec, Spaced
=============================================================================
