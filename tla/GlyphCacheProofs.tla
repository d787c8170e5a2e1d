-------------------------- MODULE GlyphCacheProofs --------------------------
(***************************************************************************)
(* The bound on the glyph cache, for every FREETYPE_REQCOUNTMAX, every      *)
(* FREETYPE_GC_COUNTER, and any keys, glyphs and threads.                   *)
(***************************************************************************)
EXTENDS GlyphCache, FiniteSetTheorems, FunctionTheorems,
        SequenceTheorems, TLAPS

(* The entries that exceed what a compaction leaves were each counted by    *)
(* m_addcount since: the entry stored by the compacting call itself is the  *)
(* one that was not.                                                        *)
SizeInv ==
  /\ addCount \in 0..(ReqCountMax - 1)
  /\ IsFiniteSet(cached)
  /\ Cardinality(cached) <= GcCounter + 1 + addCount

LEMMA SizeInit == Init => SizeInv
BY GlyphCacheAssumption, FS_EmptySet DEF Init, SizeInv

(* What CompactMap leaves has at most GcCounter entries when it compacts.   *)
LEMMA Compacted ==
  ASSUME IsFiniteSet(cached), NEW drop \in SUBSET cached, Dropped(drop),
         addCount \in Nat
  PROVE  /\ IsFiniteSet(cached \ drop)
         /\ Cardinality(cached \ drop) <= Cardinality(cached)
         /\ MustCompact(addCount + 1) => Cardinality(cached \ drop) <= GcCounter
<1> IsFiniteSet(drop) /\ IsFiniteSet(cached \ drop)
  BY FS_Subset
<1> Cardinality(cached) \in Nat /\ Cardinality(cached \ drop) \in Nat
    /\ Cardinality(drop) \in Nat /\ GcCounter \in Nat
  BY FS_CardinalityType, GlyphCacheAssumption
<1>1. Cardinality(cached \ drop) <= Cardinality(cached)
  BY FS_Subset
<1>2. ASSUME MustCompact(addCount + 1) PROVE Cardinality(cached \ drop) <= GcCounter
  <2>1. CASE Cardinality(cached) > GcCounter
    <3>1. Cardinality(drop) = Cardinality(cached) - GcCounter
      BY <1>2, <2>1 DEF Dropped
    <3>2. cached \cap drop = drop
      OBVIOUS
    <3>3. Cardinality(cached \ drop) = Cardinality(cached) - Cardinality(drop)
      BY <3>2, FS_Difference
    <3>. QED BY <3>1, <3>3
  <2>2. CASE Cardinality(cached) <= GcCounter
    BY <2>2, <1>1
  <2>. QED BY <2>1, <2>2
<1>. QED BY <1>1, <1>2

LEMMA StoreKeepsSize == \A t \in Threads : SizeInv /\ Store(t) => SizeInv'
<1> SUFFICES ASSUME NEW t \in Threads, SizeInv, Store(t) PROVE SizeInv'
  OBVIOUS
<1> addCount \in Nat /\ GcCounter \in Nat /\ ReqCountMax \in Nat \ {0}
  BY GlyphCacheAssumption DEF SizeInv
<1>1. PICK drop \in SUBSET cached :
        Dropped(drop) /\ cached' = (cached \ drop) \cup {storing}
  BY DEF Store
<1>2. /\ IsFiniteSet(cached \ drop)
      /\ Cardinality(cached \ drop) <= Cardinality(cached)
      /\ MustCompact(addCount + 1) => Cardinality(cached \ drop) <= GcCounter
  BY <1>1, Compacted DEF SizeInv
<1> Cardinality(cached) \in Nat /\ Cardinality(cached \ drop) \in Nat
  BY <1>2, FS_CardinalityType DEF SizeInv
<1>3. IsFiniteSet(cached') /\ Cardinality(cached') \in Nat
      /\ Cardinality(cached') <= Cardinality(cached \ drop) + 1
  <2>1. /\ IsFiniteSet((cached \ drop) \cup {storing})
        /\ \/ Cardinality((cached \ drop) \cup {storing}) = Cardinality(cached \ drop)
           \/ Cardinality((cached \ drop) \cup {storing}) = Cardinality(cached \ drop) + 1
    BY <1>2, FS_AddElement
  <2>. QED BY <1>1, <2>1
<1>4. CASE MustCompact(addCount + 1)
  BY <1>2, <1>3, <1>4 DEF Store, AfterCompact, SizeInv
<1>5. CASE ~MustCompact(addCount + 1)
  BY <1>2, <1>3, <1>5 DEF Store, MustCompact, SizeInv
<1>. QED BY <1>4, <1>5

LEMMA SizeNext == SizeInv /\ [Next]_vars => SizeInv'
<1> SUFFICES ASSUME SizeInv, [Next]_vars PROVE SizeInv'
  OBVIOUS
<1>1. ASSUME NEW t \in Threads, Hit(t) PROVE SizeInv'
  BY <1>1 DEF Hit, SizeInv
<1>2. ASSUME NEW t \in Threads, Store(t) PROVE SizeInv'
  BY <1>2, StoreKeepsSize
<1>3. ASSUME NEW t \in Threads,
             BeginText(t) \/ Miss(t) \/ NotFound(t) \/ EndLoop(t) \/ Done(t) \/ EndText(t)
      PROVE SizeInv'
  BY <1>3 DEF BeginText, Miss, NotFound, EndLoop, Done, EndText, cache, SizeInv
<1>4. CASE EraseAll
  BY <1>4, GlyphCacheAssumption, FS_EmptySet DEF EraseAll, SizeInv
<1>5. CASE Faulted \/ UNCHANGED vars
  BY <1>5 DEF Faulted, vars, cache, SizeInv
<1>. QED BY <1>1, <1>2, <1>3, <1>4, <1>5 DEF Next

(* The cache stays within FREETYPE_GC_COUNTER + FREETYPE_REQCOUNTMAX        *)
(* entries: the resource bound AddCharData compacts for.                    *)
THEOREM Bounded == Spec => []CacheBounded
<1>1. SizeInv => CacheBounded
  BY FS_CardinalityType, GlyphCacheAssumption DEF SizeInv, CacheBounded
<1>. QED BY SizeInit, SizeNext, <1>1, PTL DEF Spec

-----------------------------------------------------------------------------
(* A thread about to store is the one in the section, has just appended     *)
(* its glyph and knows the key; what is not cached has no glyph.            *)
StoringInv ==
  \A t \in Threads :
    /\ pc[t] \in {"loop", "store"} => owner = t
    /\ pc[t] = "store" => text[t] # <<>> /\ storing \in Keys

NoGlyphOutside == \A k \in Keys \ cached : slot[k] = Empty

TypeInv == TypeOK /\ SizeInv /\ StoringInv /\ NoGlyphOutside

LEMMA TypeInit == Init => TypeInv
<1> SUFFICES ASSUME Init PROVE TypeInv
  OBVIOUS
<1>1. TypeOK
  BY GlyphCacheAssumption DEF Init, TypeOK, Empty
<1>. QED BY <1>1, SizeInit DEF Init, TypeInv, StoringInv, NoGlyphOutside

(* Holders of a glyph, in the cache or part of it, can be counted.          *)
LEMMA SlotsFinite ==
  ASSUME TypeInv, NEW g \in Glyphs, NEW keys \in {cached, Keys} \cup SUBSET cached
  PROVE  /\ IsFiniteSet(SlotsHolding(g, keys))
         /\ Cardinality(SlotsHolding(g, keys)) \in Nat
         /\ SlotsHolding(g, keys) \subseteq cached \X Modes
<1>1. SlotsHolding(g, keys) \subseteq cached \X Modes
  <2>1. keys \subseteq Keys
    BY DEF TypeInv, TypeOK
  <2>2. ASSUME NEW k \in keys, NEW m \in Modes, slot[k][m] = g PROVE k \in cached
    <3>1. Empty[m] = NoGlyph /\ g # NoGlyph
      BY GlyphCacheAssumption DEF Empty
    <3>. QED BY <2>1, <2>2, <3>1 DEF TypeInv, NoGlyphOutside
  <2>. QED BY <2>2 DEF SlotsHolding
<1>2. IsFiniteSet(cached \X Modes)
  BY FS_Product, GlyphCacheAssumption DEF TypeInv, SizeInv
<1>. QED BY <1>1, <1>2, FS_Subset, FS_CardinalityType

LEMMA StoreKeepsType ==
  ASSUME TypeInv, NEW t \in Threads, Store(t)
  PROVE  TypeOK' /\ StoringInv' /\ NoGlyphOutside'
<1> USE DEF TypeInv, TypeOK
<1>1. /\ owner = t /\ pc[t] = "store" /\ text[t] \in Seq(Glyphs \cup {NoGlyph})
      /\ text[t] # <<>> /\ storing \in Keys /\ UNCHANGED <<ownMode, owner, mode, sought, text>>
      /\ pc' = [pc EXCEPT ![t] = "loop"] /\ storing' = NoKey
  BY DEF Store, StoringInv, GoTo
<1>2. text[t][Len(text[t])] \in Glyphs \cup {NoGlyph}
  BY <1>1
<1>3. addCount' \in 0..(ReqCountMax - 1) /\ mruCount' \in Nat
  BY GlyphCacheAssumption DEF Store, MustCompact, AfterCompact
<1>4. PICK drop \in SUBSET cached :
        /\ cached' = (cached \ drop) \cup {storing}
        /\ SetGlyph(storing, mode, text[t][Len(text[t])], drop)
        /\ mru' = [k \in Keys |-> IF k = storing THEN mruCount'
                                 ELSE IF k \in drop THEN 0 ELSE mru[k]]
  BY DEF Store
<1>5. cached' \subseteq Keys /\ mru' \in [Keys -> Nat]
  BY <1>1, <1>3, <1>4
<1>6. slot' \in [Keys -> [Modes -> Glyphs \cup {NoGlyph}]]
  <2>1. \A k \in Keys : Left(k, drop) \in [Modes -> Glyphs \cup {NoGlyph}]
    BY DEF Left, Empty
  <2>. QED BY <1>2, <1>4, <2>1 DEF SetGlyph
<1>7. refs' \in [Glyphs -> Int]
  <2>1. \A g \in Glyphs : Cardinality(SlotsHolding(g, drop)) \in Nat
    BY SlotsFinite
  <2>2. \A g \in Glyphs : One(Left(storing, drop)[mode] = g) \in Nat
                        /\ One(g = text[t][Len(text[t])]) \in Nat
    BY DEF One
  <2>. QED BY <1>4, <2>1, <2>2 DEF SetGlyph
<1>8. NoGlyphOutside'
  BY <1>4, <1>5 DEF SetGlyph, Left, NoGlyphOutside
<1>9. StoringInv'
  BY <1>1 DEF StoringInv
<1>. QED BY <1>1, <1>3, <1>5, <1>6, <1>7, <1>8, <1>9

LEMMA TypeNext == TypeInv /\ [Next]_vars => TypeInv'
<1> SUFFICES ASSUME TypeInv, [Next]_vars PROVE TypeInv'
  OBVIOUS
<1> SUFFICES TypeOK' /\ StoringInv' /\ NoGlyphOutside'
  BY SizeNext DEF TypeInv
<1> USE DEF TypeInv, TypeOK, StoringInv, NoGlyphOutside
<1>1. ASSUME NEW t \in Threads, BeginText(t) PROVE TypeOK' /\ StoringInv' /\ NoGlyphOutside'
  BY <1>1, GlyphCacheAssumption DEF BeginText, GoTo, cache
<1>2. ASSUME NEW t \in Threads, Hit(t) PROVE TypeOK' /\ StoringInv' /\ NoGlyphOutside'
  <2>0. /\ owner = t /\ pc[t] = "loop"
        /\ UNCHANGED <<cached, slot, addCount, ownMode, owner, mode, sought, storing>>
    BY <1>2 DEF Hit, InLoop
  <2>1. PICK k \in cached :
          /\ mruCount' = mruCount + 1 /\ mru' = [mru EXCEPT ![k] = mruCount']
          /\ IF slot[k][mode] = NoGlyph
             THEN GoTo(t, "fault") /\ UNCHANGED <<refs, text>>
             ELSE /\ refs' = [refs EXCEPT ![slot[k][mode]] = @ + 1]
                  /\ AppendGlyph(t, slot[k][mode])
                  /\ UNCHANGED pc
    BY <1>2 DEF Hit
  <2>2. mruCount' \in Nat /\ mru' \in [Keys -> Nat]
    BY <2>1
  <2>3. slot[k][mode] \in Glyphs \cup {NoGlyph}
    OBVIOUS
  <2>4. CASE slot[k][mode] = NoGlyph
    BY <2>0, <2>1, <2>2, <2>4 DEF GoTo
  <2>5. CASE slot[k][mode] # NoGlyph
    <3>1. /\ refs' = [refs EXCEPT ![slot[k][mode]] = @ + 1] /\ UNCHANGED pc
          /\ text' = [text EXCEPT ![t] = Append(@, slot[k][mode])]
      BY <2>1, <2>5 DEF AppendGlyph
    <3>2. refs' \in [Glyphs -> Int] /\ text' \in [Threads -> Seq(Glyphs \cup {NoGlyph})]
      BY <2>3, <2>5, <3>1
    <3>. QED BY <2>0, <2>2, <3>1, <3>2
  <2>. QED BY <2>4, <2>5
<1>3. ASSUME NEW t \in Threads, Miss(t) PROVE TypeOK' /\ StoringInv' /\ NoGlyphOutside'
  <2>1. sought \subseteq Keys
    BY DEF Characters, Indexes
  <2>2. PICK k \in Keys, stored \in Keys, m \in Modes, g \in Glyphs :
          /\ refs' = [refs EXCEPT ![g] = 1] /\ AppendGlyph(t, g)
          /\ mode' = m /\ storing' = stored
    BY <1>3, <2>1 DEF Miss
  <2>. QED BY <1>3, <2>2 DEF Miss, InLoop, GoTo, AppendGlyph, cache
<1>4. ASSUME NEW t \in Threads, NotFound(t) PROVE TypeOK' /\ StoringInv' /\ NoGlyphOutside'
  BY <1>4 DEF NotFound, InLoop, GoTo, AppendGlyph, cache
<1>5. ASSUME NEW t \in Threads, Store(t) PROVE TypeOK' /\ StoringInv' /\ NoGlyphOutside'
  BY <1>5, StoreKeepsType
<1>6. ASSUME NEW t \in Threads, EndLoop(t) PROVE TypeOK' /\ StoringInv' /\ NoGlyphOutside'
  BY <1>6 DEF EndLoop, InLoop, GoTo, cache
<1>7. ASSUME NEW t \in Threads, Done(t) PROVE TypeOK' /\ StoringInv' /\ NoGlyphOutside'
  BY <1>7 DEF Done, cache
<1>8. ASSUME NEW t \in Threads, EndText(t) PROVE TypeOK' /\ StoringInv' /\ NoGlyphOutside'
  BY <1>8 DEF EndText, GoTo, cache
<1>9. CASE EraseAll
  <2>1. \A g \in Glyphs : Cardinality(SlotsHolding(g, cached)) \in Nat
    BY SlotsFinite
  <2>2. refs' \in [Glyphs -> Int]
    BY <1>9, <2>1 DEF EraseAll
  <2>. QED BY <1>9, <2>2, GlyphCacheAssumption DEF EraseAll, Empty
<1>10. CASE Faulted \/ UNCHANGED vars
  BY <1>10 DEF Faulted, vars, cache
<1>. QED BY <1>1, <1>2, <1>3, <1>4, <1>5, <1>6, <1>7, <1>8, <1>9, <1>10 DEF Next

(* Every state of the cache and of the loops that use it is of its type.    *)
THEOREM TypeCorrect == Spec => []TypeOK
<1>1. TypeInv => TypeOK
  BY DEF TypeInv
<1>. QED BY TypeInit, TypeNext, <1>1, PTL DEF Spec

-----------------------------------------------------------------------------
(* How the holders of a glyph change.  First the texts.                     *)
Texts == [Threads -> Seq(Glyphs \cup {NoGlyph})]
UsesIn(texts, g) ==
  {p \in Threads \X (Nat \ {0}) : p[2] <= Len(texts[p[1]]) /\ texts[p[1]][p[2]] = g}

LEMMA UsesAre ==
  ASSUME NEW texts \in Texts, NEW g
  PROVE  UNION {{<<t, i>> : i \in {j \in DOMAIN texts[t] : texts[t][j] = g}} : t \in Threads}
           = UsesIn(texts, g)
<1>1. \A t \in Threads : Len(texts[t]) \in Nat /\ DOMAIN texts[t] = 1..Len(texts[t])
  BY DEF Texts
<1>2. ASSUME NEW p \in UsesIn(texts, g)
      PROVE  p \in UNION {{<<t, i>> : i \in {j \in DOMAIN texts[t] : texts[t][j] = g}} : t \in Threads}
  <2>1. /\ p = <<p[1], p[2]>> /\ p[1] \in Threads
        /\ p[2] \in {j \in DOMAIN texts[p[1]] : texts[p[1]][j] = g}
    BY <1>1 DEF UsesIn
  <2>. QED BY <2>1
<1>3. ASSUME NEW t \in Threads, NEW i \in DOMAIN texts[t], texts[t][i] = g
      PROVE  <<t, i>> \in UsesIn(texts, g)
  BY <1>1, <1>3 DEF UsesIn
<1>. QED BY <1>2, <1>3

LEMMA UsesNow ==
  /\ TypeOK => text \in Texts /\ \A g : UsesOf(g) = UsesIn(text, g)
  /\ TypeOK' => text' \in Texts /\ \A g : UsesOf(g)' = UsesIn(text', g)
BY UsesAre DEF UsesOf, TypeOK, Texts

LEMMA UsesAfterAppend ==
  ASSUME NEW texts \in Texts, NEW g, IsFiniteSet(UsesIn(texts, g)),
         NEW t \in Threads, NEW last \in Glyphs \cup {NoGlyph},
         NEW new, new[t] = Append(texts[t], last),
         \A u \in Threads \ {t} : new[u] = texts[u]
  PROVE  /\ IsFiniteSet(UsesIn(new, g))
         /\ Cardinality(UsesIn(new, g)) = Cardinality(UsesIn(texts, g)) + One(last = g)
<1> DEFINE end == <<t, Len(texts[t]) + 1>>
<1>1. /\ texts[t] \in Seq(Glyphs \cup {NoGlyph}) /\ Len(texts[t]) \in Nat
      /\ new[t] = Append(texts[t], last)
      /\ \A u \in Threads \ {t} : new[u] = texts[u]
  BY DEF Texts
<1>2. /\ Len(new[t]) = Len(texts[t]) + 1 /\ new[t][Len(texts[t]) + 1] = last
      /\ \A i \in 1..Len(texts[t]) : new[t][i] = texts[t][i]
  BY <1>1
<1>3. end \notin UsesIn(texts, g)
  BY <1>1 DEF UsesIn
<1>4. ASSUME NEW p \in Threads \X (Nat \ {0}), p # end
      PROVE  p \in UsesIn(new, g) <=> p \in UsesIn(texts, g)
  <2>1. CASE p[1] = t
    <3>1. p[2] # Len(texts[t]) + 1
      BY <1>4, <2>1
    <3>. QED BY <1>1, <1>2, <2>1, <3>1 DEF UsesIn
  <2>2. CASE p[1] # t
    BY <1>1, <2>2 DEF UsesIn
  <2>. QED BY <2>1, <2>2
<1>5. end \in UsesIn(new, g) <=> last = g
  BY <1>1, <1>2 DEF UsesIn
<1>6. UsesIn(new, g) \subseteq Threads \X (Nat \ {0})
      /\ UsesIn(texts, g) \subseteq Threads \X (Nat \ {0})
  BY DEF UsesIn
<1> HIDE DEF end
<1>7. UsesIn(new, g) = IF last = g THEN UsesIn(texts, g) \cup {end} ELSE UsesIn(texts, g)
  <2>1. end \in Threads \X (Nat \ {0})
    BY <1>1 DEF end
  <2>2. CASE last = g
    BY <1>4, <1>5, <1>6, <2>1, <2>2, Zenon
  <2>3. CASE last # g
    <3>1. \A p : p \in UsesIn(new, g) <=> p \in UsesIn(texts, g)
      BY <1>3, <1>4, <1>5, <1>6, <2>3, Zenon
    <3>. QED BY <2>3, <3>1
  <2>. QED BY <2>2, <2>3
<1>8. Cardinality(UsesIn(texts, g)) \in Nat
  BY FS_CardinalityType
<1>9. CASE last = g
  <2>1. /\ IsFiniteSet(UsesIn(texts, g) \cup {end})
        /\ Cardinality(UsesIn(texts, g) \cup {end}) = Cardinality(UsesIn(texts, g)) + 1
    BY <1>3, FS_AddElement
  <2>. QED BY <1>7, <1>9, <2>1 DEF One
<1>10. CASE last # g
  BY <1>7, <1>8, <1>10 DEF One
<1>. QED BY <1>9, <1>10

(* Letting the first glyph of a text go moves the others up.                *)
LEMMA UsesAfterTail ==
  ASSUME NEW texts \in Texts, NEW g, IsFiniteSet(UsesIn(texts, g)),
         NEW t \in Threads, texts[t] # <<>>,
         NEW new, new[t] = Tail(texts[t]), \A u \in Threads \ {t} : new[u] = texts[u]
  PROVE  /\ IsFiniteSet(UsesIn(new, g))
         /\ Cardinality(UsesIn(new, g))
              = Cardinality(UsesIn(texts, g)) - One(Head(texts[t]) = g)
<1> DEFINE first == <<t, 1>>
           rest == UsesIn(texts, g) \ {first}
           up == [p \in rest |-> IF p[1] = t THEN <<t, p[2] - 1>> ELSE p]
<1>1. /\ texts[t] \in Seq(Glyphs \cup {NoGlyph}) /\ Len(texts[t]) \in Nat \ {0}
      /\ Head(texts[t]) = texts[t][1]
      /\ new[t] = Tail(texts[t])
      /\ \A u \in Threads \ {t} : new[u] = texts[u]
  BY DEF Texts
<1>2. /\ Len(new[t]) = Len(texts[t]) - 1
      /\ \A i \in 1..(Len(texts[t]) - 1) : new[t][i] = texts[t][i + 1]
  <2>1. /\ Len(Tail(texts[t])) = Len(texts[t]) - 1
        /\ \A i \in 1..Len(Tail(texts[t])) : Tail(texts[t])[i] = texts[t][i + 1]
    BY <1>1, HeadTailProperties
  <2>. QED BY <1>1, <2>1
<1>3. first \in UsesIn(texts, g) <=> Head(texts[t]) = g
  BY <1>1 DEF UsesIn
<1>4. \A p \in rest : /\ p = <<p[1], p[2]>> /\ p[1] \in Threads /\ p[2] \in Nat \ {0}
                      /\ p[1] = t => p[2] > 1
                      /\ p[2] <= Len(texts[p[1]]) /\ texts[p[1]][p[2]] = g
  BY DEF UsesIn
<1>5. ASSUME NEW p \in rest PROVE up[p] \in UsesIn(new, g)
  <2>1. CASE p[1] = t
    <3>1. /\ up[p] = <<t, p[2] - 1>> /\ p[2] - 1 \in 1..(Len(texts[t]) - 1)
          /\ texts[t][p[2]] = g
      BY <1>1, <1>4, <2>1
    <3>2. p[2] - 1 <= Len(new[t]) /\ new[t][p[2] - 1] = g
      BY <1>1, <1>2, <1>4, <2>1, <3>1
    <3> DEFINE i == p[2] - 1
    <3>3. i \in Nat \ {0} /\ i <= Len(new[t]) /\ new[t][i] = g
      BY <1>1, <3>1, <3>2
    <3> HIDE DEF i
    <3>4. <<t, i>> \in UsesIn(new, g)
      BY <3>3 DEF UsesIn
    <3>. QED BY <3>1, <3>4 DEF i
  <2>2. CASE p[1] # t
    BY <1>1, <1>4, <2>2 DEF UsesIn
  <2>. QED BY <2>1, <2>2
<1>6. \A p, q \in rest : up[p] = up[q] => p = q
  BY <1>4
<1>7. ASSUME NEW q \in UsesIn(new, g) PROVE \E p \in rest : up[p] = q
  <2>1. q = <<q[1], q[2]>> /\ q[1] \in Threads /\ q[2] \in Nat \ {0}
        /\ q[2] <= Len(new[q[1]]) /\ new[q[1]][q[2]] = g
    BY DEF UsesIn
  <2>2. CASE q[1] = t
    <3>1. <<t, q[2] + 1>> \in rest
      <4>1. PICK j \in Nat \ {0} : j = q[2]
        BY <2>1
      <4>2. j <= Len(texts[t]) - 1 /\ new[t][j] = g
        BY <1>2, <2>1, <2>2, <4>1
      <4>3. /\ j + 1 \in Nat \ {0} /\ j + 1 # 1 /\ j + 1 <= Len(texts[t])
            /\ j \in 1..(Len(texts[t]) - 1)
        BY <1>1, <4>2
      <4>4. texts[t][j + 1] = g
        BY <1>2, <4>2, <4>3
      <4>5. <<t, j + 1>> \in UsesIn(texts, g) /\ <<t, j + 1>> # first
        BY <4>3, <4>4 DEF UsesIn
      <4>. QED BY <4>1, <4>5
    <3>2. up[<<t, q[2] + 1>>] = q
      BY <2>1, <2>2, <3>1
    <3>. QED BY <3>1, <3>2
  <2>3. CASE q[1] # t
    <3>1. q \in rest
      BY <1>1, <2>1, <2>3 DEF UsesIn
    <3>. QED BY <2>3, <3>1
  <2>. QED BY <2>2, <2>3
<1>8. IsFiniteSet(rest)
      /\ Cardinality(rest) = Cardinality(UsesIn(texts, g)) - One(Head(texts[t]) = g)
  BY <1>3, FS_RemoveElement, FS_CardinalityType DEF One
<1>9. up \in Bijection(rest, UsesIn(new, g))
  <2>1. up \in [rest -> UsesIn(new, g)]
    BY <1>5
  <2> HIDE DEF up, rest
  <2>. QED BY <1>6, <1>7, <2>1, Fun_IsBij
<1> HIDE DEF up, rest
<1>10. ExistsBijection(rest, UsesIn(new, g))
  BY <1>9, Fun_ExistsBij
<1>. QED BY <1>8, <1>10, FS_Bijection

(* Then the cache.  Replacing the glyph of one mode of one entry, after     *)
(* others were dropped.                                                     *)
LEMMA SlotsAfterSet ==
  ASSUME TypeInv, NEW drop \in SUBSET cached, NEW key \in Keys, NEW m \in Modes,
         NEW new \in Glyphs \cup {NoGlyph}, SetGlyph(key, m, new, drop), NEW g \in Glyphs
  PROVE  Cardinality(SlotsHolding(g, Keys)')
           = Cardinality(SlotsHolding(g, Keys)) - Cardinality(SlotsHolding(g, drop))
             - One(Left(key, drop)[m] = g) + One(g = new)
<1> DEFINE all == SlotsHolding(g, Keys)
           gone == SlotsHolding(g, drop)
           after == SlotsHolding(g, Keys)'
           at == <<key, m>>
<1>1. drop \subseteq Keys /\ g # NoGlyph
  BY GlyphCacheAssumption DEF TypeInv, TypeOK
<1>2. /\ IsFiniteSet(all) /\ IsFiniteSet(gone) /\ IsFiniteSet(all \ gone)
      /\ Cardinality(all \ gone) = Cardinality(all) - Cardinality(gone)
      /\ Cardinality(all) \in Nat /\ Cardinality(gone) \in Nat
  <2>1. IsFiniteSet(all) /\ IsFiniteSet(gone)
        /\ Cardinality(all) \in Nat /\ Cardinality(gone) \in Nat
    BY SlotsFinite
  <2>2. all \cap gone = gone
    BY <1>1 DEF SlotsHolding
  <2> HIDE DEF all, gone
  <2>. QED BY <2>1, <2>2, FS_Difference
<1>3. ASSUME NEW k \in Keys, NEW n \in Modes
      PROVE  <<k, n>> \in all \ gone <=> Left(k, drop)[n] = g
  BY <1>1 DEF SlotsHolding, Left, Empty
<1>4. ASSUME NEW k \in Keys, NEW n \in Modes
      PROVE  <<k, n>> \in after <=>
               IF <<k, n>> = at THEN new = g ELSE Left(k, drop)[n] = g
  <2>1. slot'[k] = IF k = key THEN [Left(k, drop) EXCEPT ![m] = new] ELSE Left(k, drop)
    BY DEF SetGlyph
  <2>2. Left(k, drop) \in [Modes -> Glyphs \cup {NoGlyph}]
    BY DEF Left, Empty, TypeInv, TypeOK
  <2>3. slot'[k][n] = IF k = key /\ n = m THEN new ELSE Left(k, drop)[n]
    BY <2>1, <2>2
  <2>. QED BY <2>3 DEF SlotsHolding
<1>5. all \subseteq Keys \X Modes /\ after \subseteq Keys \X Modes /\ at \in Keys \X Modes
  BY DEF SlotsHolding
<1>6. at \in all \ gone <=> Left(key, drop)[m] = g
  BY <1>3
<1>7. at \in after <=> new = g
  BY <1>4
<1>8. \A s \in Keys \X Modes : s # at => (s \in after <=> s \in all \ gone)
  BY <1>3, <1>4
<1> HIDE DEF all, gone, after, at
<1>9. PICK rest, less : rest = all \ gone /\ less = rest \ {at}
  OBVIOUS
<1>10. after = IF new = g THEN less \cup {at} ELSE less
  BY <1>5, <1>7, <1>8, <1>9
<1>11. /\ IsFiniteSet(less)
       /\ Cardinality(less) = Cardinality(rest) - One(at \in rest)
  <2>1. IsFiniteSet(rest) /\ Cardinality(rest) \in Nat
    BY <1>2, <1>9, FS_CardinalityType
  <2>2. /\ IsFiniteSet(rest \ {at})
        /\ Cardinality(rest \ {at}) = IF at \in rest THEN Cardinality(rest) - 1
                                      ELSE Cardinality(rest)
    BY <2>1, FS_RemoveElement
  <2>. QED BY <1>9, <2>1, <2>2 DEF One
<1>12. Cardinality(less) \in Nat /\ at \notin less
  BY <1>9, <1>11, FS_CardinalityType
<1>13. Cardinality(after) = Cardinality(less) + One(g = new)
  <2>1. Cardinality(less \cup {at}) = Cardinality(less) + 1
    BY <1>11, <1>12, FS_AddElement
  <2>. QED BY <1>10, <1>12, <2>1 DEF One
<1>14. One(at \in rest) = One(Left(key, drop)[m] = g)
  BY <1>6, <1>9 DEF One
<1>. QED BY <1>2, <1>9, <1>11, <1>13, <1>14 DEF all, gone, after

(* The inductive form of RefsExact: a glyph has finitely many uses.         *)
CountInv ==
  \A g \in Glyphs :
    /\ IsFiniteSet(UsesIn(text, g))
    /\ refs[g] = Cardinality(SlotsHolding(g, Keys)) + Cardinality(UsesIn(text, g))

LEMMA CountInit == Init => CountInv
<1> SUFFICES ASSUME Init, NEW g \in Glyphs
             PROVE  /\ IsFiniteSet(UsesIn(text, g))
                    /\ refs[g] = Cardinality(SlotsHolding(g, Keys)) + Cardinality(UsesIn(text, g))
  BY DEF CountInv
<1>1. UsesIn(text, g) = {}
  BY DEF Init, UsesIn
<1>2. SlotsHolding(g, Keys) = {}
  BY GlyphCacheAssumption DEF Init, Empty, SlotsHolding
<1>3. Cardinality(UsesIn(text, g)) = 0 /\ IsFiniteSet(UsesIn(text, g))
  BY <1>1, FS_EmptySet
<1>4. Cardinality(SlotsHolding(g, Keys)) = 0
  BY <1>2, FS_EmptySet
<1>5. refs[g] = 0
  BY DEF Init
<1>. QED BY <1>3, <1>4, <1>5

LEMMA NumbersAreNaturals ==
  ASSUME TypeInv, CountInv, NEW g \in Glyphs
  PROVE  /\ Cardinality(SlotsHolding(g, Keys)) \in Nat
         /\ Cardinality(UsesIn(text, g)) \in Nat /\ IsFiniteSet(UsesIn(text, g))
         /\ refs[g] = Cardinality(SlotsHolding(g, Keys)) + Cardinality(UsesIn(text, g))
         /\ text \in Texts
BY SlotsFinite, FS_CardinalityType DEF CountInv, TypeInv, TypeOK, Texts

(* A text takes one more glyph, counted when there is one.                  *)
LEMMA TakenIsCounted ==
  ASSUME TypeInv, CountInv, NEW t \in Threads, NEW last \in Glyphs \cup {NoGlyph},
         AppendGlyph(t, last), UNCHANGED slot,
         \A g \in Glyphs : refs'[g] = refs[g] + One(last = g)
  PROVE  CountInv'
<1>1. \A g \in Glyphs : SlotsHolding(g, Keys)' = SlotsHolding(g, Keys)
  BY DEF SlotsHolding
<1>2. text' = [text EXCEPT ![t] = Append(@, last)]
  BY DEF AppendGlyph
<1>3. ASSUME NEW g \in Glyphs
      PROVE  /\ IsFiniteSet(UsesIn(text', g))
             /\ Cardinality(UsesIn(text', g)) = Cardinality(UsesIn(text, g)) + One(last = g)
  <2>1. text \in Texts /\ IsFiniteSet(UsesIn(text, g))
    BY NumbersAreNaturals
  <2>2. text'[t] = Append(text[t], last) /\ \A u \in Threads \ {t} : text'[u] = text[u]
    BY <1>2, <2>1 DEF Texts
  <2>. QED BY <2>1, <2>2, UsesAfterAppend
<1>4. \A g \in Glyphs : One(last = g) \in Nat
  BY DEF One
<1>. QED BY <1>1, <1>3, <1>4, NumbersAreNaturals DEF CountInv

LEMMA CountNext == TypeInv /\ CountInv /\ [Next]_vars => CountInv'
<1> SUFFICES ASSUME TypeInv, CountInv, [Next]_vars PROVE CountInv'
  OBVIOUS
<1>1. /\ refs \in [Glyphs -> Int] /\ text \in Texts /\ NoGlyph \notin Glyphs
      /\ slot \in [Keys -> [Modes -> Glyphs \cup {NoGlyph}]] /\ cached \subseteq Keys
      /\ mode \in Modes
  BY GlyphCacheAssumption DEF TypeInv, TypeOK, Texts
<1>2. CASE UNCHANGED <<slot, refs, text>>
  BY <1>2 DEF CountInv, SlotsHolding
<1>3. ASSUME NEW t \in Threads, Hit(t) PROVE CountInv'
  <2>1. PICK k \in cached :
          IF slot[k][mode] = NoGlyph
          THEN UNCHANGED <<refs, text>>
          ELSE /\ refs' = [refs EXCEPT ![slot[k][mode]] = @ + 1]
               /\ AppendGlyph(t, slot[k][mode])
    BY <1>3 DEF Hit
  <2>2. slot[k][mode] \in Glyphs \cup {NoGlyph} /\ UNCHANGED slot
    BY <1>1, <1>3 DEF Hit
  <2>3. CASE slot[k][mode] = NoGlyph
    BY <1>2, <2>1, <2>2, <2>3
  <2>4. CASE slot[k][mode] # NoGlyph
    <3>1. \A g \in Glyphs : refs'[g] = refs[g] + One(slot[k][mode] = g)
      BY <1>1, <2>1, <2>2, <2>4 DEF One
    <3>. QED BY <2>1, <2>2, <2>4, <3>1, TakenIsCounted
  <2>. QED BY <2>3, <2>4
<1>4. ASSUME NEW t \in Threads, Miss(t) PROVE CountInv'
  <2>1. PICK new \in Glyphs :
          refs[new] = 0 /\ refs' = [refs EXCEPT ![new] = 1] /\ AppendGlyph(t, new)
    BY <1>4 DEF Miss
  <2>2. UNCHANGED slot
    BY <1>4 DEF Miss, cache
  <2>3. \A g \in Glyphs : refs'[g] = refs[g] + One(new = g)
    BY <1>1, <2>1 DEF One
  <2>. QED BY <2>1, <2>2, <2>3, TakenIsCounted
<1>5. ASSUME NEW t \in Threads, NotFound(t) PROVE CountInv'
  <2>1. AppendGlyph(t, NoGlyph) /\ UNCHANGED <<slot, refs>>
    BY <1>5 DEF NotFound, cache
  <2>2. \A g \in Glyphs : refs'[g] = refs[g] + One(NoGlyph = g)
    BY <1>1, <2>1 DEF One
  <2>. QED BY <2>1, <2>2, TakenIsCounted
<1>6. ASSUME NEW t \in Threads, Store(t) PROVE CountInv'
  <2> DEFINE new == text[t][Len(text[t])]
  <2>1. /\ text[t] \in Seq(Glyphs \cup {NoGlyph}) /\ text[t] # <<>> /\ storing \in Keys
        /\ UNCHANGED text
    BY <1>6 DEF Store, TypeInv, TypeOK, StoringInv
  <2>2. new \in Glyphs \cup {NoGlyph}
    BY <2>1
  <2>3. PICK drop \in SUBSET cached : SetGlyph(storing, mode, new, drop)
    BY <1>6 DEF Store
  <2> HIDE DEF new
  <2>4. ASSUME NEW g \in Glyphs
        PROVE  refs'[g] = Cardinality(SlotsHolding(g, Keys)') + Cardinality(UsesIn(text, g))
    <3>1. Cardinality(SlotsHolding(g, Keys)')
            = Cardinality(SlotsHolding(g, Keys)) - Cardinality(SlotsHolding(g, drop))
              - One(Left(storing, drop)[mode] = g) + One(g = new)
      BY <1>1, <2>1, <2>2, <2>3, SlotsAfterSet
    <3>2. refs'[g] = refs[g] - Cardinality(SlotsHolding(g, drop))
                     - One(Left(storing, drop)[mode] = g) + One(g = new)
      BY <2>3 DEF SetGlyph
    <3>3. Cardinality(SlotsHolding(g, drop)) \in Nat
      BY SlotsFinite
    <3>4. One(Left(storing, drop)[mode] = g) \in Nat /\ One(g = new) \in Nat
      BY DEF One
    <3>. QED BY <3>1, <3>2, <3>3, <3>4, NumbersAreNaturals
  <2>. QED BY <2>1, <2>4 DEF CountInv
<1>7. ASSUME NEW t \in Threads, Done(t) PROVE CountInv'
  <2>1. /\ text[t] # <<>> /\ text' = [text EXCEPT ![t] = Tail(@)] /\ UNCHANGED slot
        /\ refs' = IF Head(text[t]) = NoGlyph THEN refs
                   ELSE [refs EXCEPT ![Head(text[t])] = @ - 1]
    BY <1>7 DEF Done, cache
  <2>2. \A g \in Glyphs : SlotsHolding(g, Keys)' = SlotsHolding(g, Keys)
    BY <2>1 DEF SlotsHolding
  <2>3. ASSUME NEW g \in Glyphs
        PROVE  /\ IsFiniteSet(UsesIn(text', g))
               /\ Cardinality(UsesIn(text', g))
                    = Cardinality(UsesIn(text, g)) - One(Head(text[t]) = g)
    <3>1. IsFiniteSet(UsesIn(text, g))
      BY NumbersAreNaturals
    <3>2. text'[t] = Tail(text[t]) /\ \A u \in Threads \ {t} : text'[u] = text[u]
      BY <1>1, <2>1 DEF Texts
    <3>3. text \in Texts /\ text[t] # <<>>
      BY <1>1, <2>1
    <3>. QED BY <3>1, <3>2, <3>3, UsesAfterTail
  <2>4. \A g \in Glyphs : refs'[g] = refs[g] - One(Head(text[t]) = g)
    BY <1>1, <2>1 DEF One
  <2>5. \A g \in Glyphs : One(Head(text[t]) = g) \in Nat
    BY DEF One
  <2>. QED BY <2>2, <2>3, <2>4, <2>5, NumbersAreNaturals DEF CountInv
<1>8. CASE EraseAll
  <2>1. /\ UNCHANGED text /\ slot' = [k \in Keys |-> Empty]
        /\ refs' = [g \in Glyphs |-> refs[g] - Cardinality(SlotsHolding(g, cached))]
    BY <1>8 DEF EraseAll
  <2>2. ASSUME NEW g \in Glyphs PROVE SlotsHolding(g, cached) = SlotsHolding(g, Keys)
    <3>1. SlotsHolding(g, Keys) \subseteq cached \X Modes
      BY SlotsFinite
    <3>. QED BY <1>1, <3>1 DEF SlotsHolding
  <2>3. ASSUME NEW g \in Glyphs PROVE Cardinality(SlotsHolding(g, Keys)') = 0
    <3>1. SlotsHolding(g, Keys)' = {}
      BY <1>1, <2>1 DEF SlotsHolding, Empty
    <3>. QED BY <3>1, FS_EmptySet
  <2>. QED BY <2>1, <2>2, <2>3, NumbersAreNaturals DEF CountInv
<1>9. ASSUME NEW t \in Threads, BeginText(t) \/ EndLoop(t) \/ EndText(t) PROVE CountInv'
  BY <1>2, <1>9 DEF BeginText, EndLoop, EndText, cache
<1>10. CASE Faulted \/ UNCHANGED vars
  BY <1>2, <1>10 DEF Faulted, vars, cache
<1>. QED BY <1>3, <1>4, <1>5, <1>6, <1>7, <1>8, <1>9, <1>10 DEF Next

(* The count of every glyph is the number of cache entries and texts that   *)
(* hold it (FT_Glyph_Ref_Copy, FT_Done_Ref_Glyph): nothing a text uses is   *)
(* freed by a compaction or by the deletion of the cache, nothing leaks.    *)
THEOREM Exact == Spec => []RefsExact
<1>1. TypeInv /\ CountInv => RefsExact
  BY UsesNow DEF TypeInv, CountInv, RefsExact
<1>. QED BY TypeInit, TypeNext, CountInit, CountNext, <1>1, PTL DEF Spec
=============================================================================
