----------------------------- MODULE GlyphCache -----------------------------
(***************************************************************************)
(* The glyph cache of one font size (FreeTypeFontCache, FreeTypeCharData of *)
(* src/src/core/fteng.cpp), the reference-counted glyphs it shares with the *)
(* texts being drawn (src/src/core/ftref.c), and the loop over a text that  *)
(* uses both (ForEachGetGlyphFT of src/src/core/ft.cpp).                    *)
(*                                                                         *)
(* One thread at a time is inside OCS_FREETYPE here (two drawing threads    *)
(* inside at once change a std::map without a lock, which is undefined);    *)
(* each keeps the glyphs of its text after it has left the section, while   *)
(* others refill, compact or erase the cache.                               *)
(***************************************************************************)
EXTENDS Integers, Sequences, FiniteSets

CONSTANTS Threads,
          Keys,         (* keys of m_GlyphCache: a character, or minus a     *)
                        (* glyph index                                      *)
          Modes,        (* the two glyphs of an entry: colour and mono       *)
          Glyphs,       (* the addresses malloc may return                   *)
          NoGlyph,      (* NULL                                             *)
          NoThread,     (* nobody owns OCS_FREETYPE                          *)
          ReqCountMax,  (* FREETYPE_REQCOUNTMAX                              *)
          GcCounter,    (* FREETYPE_GC_COUNTER                               *)
          MaxText,      (* bound on the length of a text                     *)
          MaxMru        (* bound on the MRU counter                          *)

NoKey == 0
Characters == {k \in Keys : k > 0}
Indexes == {k \in Keys : k < 0}
ASSUME GlyphCacheAssumption ==
  /\ Keys \subseteq Int \ {NoKey} /\ IsFiniteSet(Modes)
  /\ ReqCountMax \in Nat \ {0} /\ GcCounter \in Nat
  /\ MaxText \in Nat /\ MaxMru \in Nat
  /\ NoGlyph \notin Glyphs /\ NoThread \notin Threads

VARIABLES
  cached,      (* the keys in m_GlyphCache                                   *)
  slot,        (* m_glyph and m_glyphMono of each entry                      *)
  mru,         (* m_mrucounter of each entry                                 *)
  addCount, mruCount,  (* m_addcount and m_mrucount of the cache             *)
  refs,        (* refcount of each glyph, 0 when it is freed                 *)
  ownMode,     (* render mode of the font itself                             *)
  owner,       (* the thread in FreeTypeGetGlyph                             *)
  pc,          (* where each thread is in its drawing call                   *)
  mode,        (* render_mode, a local of the thread in the loop; ownMode    *)
               (* when nobody is                                            *)
  sought,      (* the keys the text in the loop may ask for, by bGlyphIndex  *)
  text,        (* GlyphArray                                                 *)
  storing      (* the key the glyph just made is to be cached under          *)

cache == <<cached, slot, mru, addCount, mruCount>>
vars == <<cache, refs, ownMode, owner, pc, mode, sought, text, storing>>

Empty == [m \in Modes |-> NoGlyph]

Init ==
  /\ cached = {}
  /\ slot = [k \in Keys |-> Empty]
  /\ mru = [k \in Keys |-> 0]
  /\ addCount = 0 /\ mruCount = 0
  /\ refs = [g \in Glyphs |-> 0]
  /\ ownMode \in Modes
  /\ owner = NoThread
  /\ pc = [t \in Threads |-> "idle"]
  /\ mode = ownMode /\ sought = Characters
  /\ text = [t \in Threads |-> <<>>]
  /\ storing = NoKey

GoTo(t, step) == pc' = [pc EXCEPT ![t] = step]
AppendGlyph(t, g) == text' = [text EXCEPT ![t] = Append(@, g)]
InLoop(t) == owner = t /\ pc[t] = "loop"

-----------------------------------------------------------------------------
(* FreeTypeGetGlyph enters the section, render_mode is that of the font;    *)
(* the text is one of characters, or of glyph indexes, which need no linked *)
(* font and keep the mode.                                                  *)
BeginText(t) ==
  /\ pc[t] = "idle" /\ owner = NoThread
  /\ owner' = t
  /\ sought' \in {Characters, Indexes}
  /\ GoTo(t, "loop")
  /\ UNCHANGED <<cache, refs, ownMode, mode, text, storing>>

(* The next character is cached.  FT_Glyph_Ref_Copy reads the glyph of the  *)
(* current mode without looking whether there is one.                       *)
Hit(t) ==
  /\ InLoop(t) /\ Len(text[t]) < MaxText /\ mruCount < MaxMru
  /\ \E k \in cached \cap sought :
       /\ mruCount' = mruCount + 1
       /\ mru' = [mru EXCEPT ![k] = mruCount']
       /\ IF slot[k][mode] = NoGlyph
          THEN GoTo(t, "fault") /\ UNCHANGED <<refs, text>>
          ELSE /\ refs' = [refs EXCEPT ![slot[k][mode]] = @ + 1]
               /\ AppendGlyph(t, slot[k][mode])
               /\ UNCHANGED pc
  /\ UNCHANGED <<cached, slot, addCount, ownMode, owner, mode, sought, storing>>

(* It is not: a linked font, or the font itself, makes a new glyph of a     *)
(* character in its own mode, which stays the mode of the loop.  A glyph    *)
(* index is cached under another one when a vertical form replaces it.      *)
Miss(t) ==
  /\ InLoop(t) /\ Len(text[t]) < MaxText /\ mruCount < MaxMru
  /\ \E k \in sought \ cached, stored \in sought, m \in Modes, g \in Glyphs :
       /\ IF sought = Indexes THEN m = mode ELSE stored = k
       /\ refs[g] = 0
       /\ refs' = [refs EXCEPT ![g] = 1]
       /\ AppendGlyph(t, g)
       /\ mode' = m
       /\ storing' = stored
  /\ GoTo(t, "store")
  /\ UNCHANGED <<cache, ownMode, owner, sought>>

(* Not drawable by FreeType: the glyph stays NULL.                          *)
NotFound(t) ==
  /\ InLoop(t) /\ Len(text[t]) < MaxText
  /\ AppendGlyph(t, NoGlyph)
  /\ UNCHANGED <<cache, refs, ownMode, owner, pc, mode, sought, storing>>

-----------------------------------------------------------------------------
(* AddCharData and AddGlyphData.                                            *)
MustCompactLate(count) == count > ReqCountMax     \* mutated form
MustCompact(count) == count >= ReqCountMax

CountWithoutReset(count) == count                 \* mutated form
AfterCompact(count) == 0                          \* ResetGCCounter

(* CompactMap: what exceeds GcCounter is deleted from the front of the map. *)
Dropped(drop) ==
  IF MustCompact(addCount + 1) /\ Cardinality(cached) > GcCounter
  THEN /\ Cardinality(drop) = Cardinality(cached) - GcCounter
       /\ \A k \in drop, j \in cached \ drop : k < j
  ELSE drop = {}

SlotsHolding(g, keys) == {s \in keys \X Modes : slot[s[1]][s[2]] = g}
One(condition) == IF condition THEN 1 ELSE 0

Left(k, drop) == IF k \in drop THEN Empty ELSE slot[k]

(* SetGlyph: the old glyph of the mode is let go, the new one counted.      *)
ReplaceLeaks(key, m, new, drop) ==                \* mutated form
  /\ slot' = [k \in Keys |-> IF k = key THEN [Left(k, drop) EXCEPT ![m] = new]
                             ELSE Left(k, drop)]
  /\ refs' = [g \in Glyphs |-> refs[g] - Cardinality(SlotsHolding(g, drop)) + One(g = new)]

SetGlyph(key, m, new, drop) ==
  /\ slot' = [k \in Keys |-> IF k = key THEN [Left(k, drop) EXCEPT ![m] = new]
                             ELSE Left(k, drop)]
  /\ refs' = [g \in Glyphs |-> refs[g] - Cardinality(SlotsHolding(g, drop))
                               - One(Left(key, drop)[m] = g) + One(g = new)]

Store(t) ==
  /\ owner = t /\ pc[t] = "store"
  /\ IF MustCompact(addCount + 1)
     THEN addCount' = AfterCompact(addCount + 1) /\ mruCount' = 1
     ELSE addCount' = addCount + 1 /\ mruCount' = mruCount + 1
  /\ \E drop \in SUBSET cached :
       /\ Dropped(drop)
       /\ cached' = (cached \ drop) \cup {storing}
       /\ SetGlyph(storing, mode, text[t][Len(text[t])], drop)
       /\ mru' = [k \in Keys |-> IF k = storing THEN mruCount'
                                ELSE IF k \in drop THEN 0 ELSE mru[k]]
  /\ storing' = NoKey
  /\ GoTo(t, "loop")
  /\ UNCHANGED <<ownMode, owner, mode, sought, text>>

-----------------------------------------------------------------------------
(* FreeTypeGetGlyph returns, early when a glyph cannot be loaded.           *)
EndLoop(t) ==
  /\ InLoop(t)
  /\ owner' = NoThread
  /\ mode' = ownMode /\ sought' = Characters
  /\ GoTo(t, "text")
  /\ UNCHANGED <<cache, refs, ownMode, text, storing>>

(* The text is drawn, then IMPL_ExtTextOutW lets its glyphs go one by one,  *)
(* in no section but OCS_DC.                                                *)
Done(t) ==
  /\ pc[t] = "text" /\ text[t] # <<>>
  /\ refs' = IF Head(text[t]) = NoGlyph THEN refs ELSE [refs EXCEPT ![Head(text[t])] = @ - 1]
  /\ text' = [text EXCEPT ![t] = Tail(@)]
  /\ UNCHANGED <<cache, ownMode, owner, pc, mode, sought, storing>>

EndText(t) ==
  /\ pc[t] = "text" /\ text[t] = <<>>
  /\ GoTo(t, "idle")
  /\ UNCHANGED <<cache, refs, ownMode, owner, mode, sought, text, storing>>

(* The cache is deleted and a new one made, by Compact of the font's sizes  *)
(* or by ReloadAll, which may change the mode of the font too.              *)
EraseAll ==
  /\ owner = NoThread
  /\ refs' = [g \in Glyphs |-> refs[g] - Cardinality(SlotsHolding(g, cached))]
  /\ cached' = {} /\ slot' = [k \in Keys |-> Empty] /\ mru' = [k \in Keys |-> 0]
  /\ addCount' = 0 /\ mruCount' = 0
  /\ ownMode' \in Modes /\ mode' = ownMode'
  /\ UNCHANGED <<owner, pc, sought, text, storing>>

(* A thread that faulted takes the process with it.                         *)
Faulted == (\E t \in Threads : pc[t] = "fault") /\ UNCHANGED vars

Next ==
  \/ \E t \in Threads : \/ BeginText(t) \/ Hit(t) \/ Miss(t) \/ NotFound(t) \/ Store(t)
                        \/ EndLoop(t) \/ Done(t) \/ EndText(t)
  \/ EraseAll
  \/ Faulted

Spec == Init /\ [][Next]_vars

-----------------------------------------------------------------------------
(* Types; the count of additions stays below the one that compacts.         *)
TypeOK ==
  /\ cached \subseteq Keys
  /\ slot \in [Keys -> [Modes -> Glyphs \cup {NoGlyph}]]
  /\ mru \in [Keys -> Nat]
  /\ addCount \in 0..(ReqCountMax - 1)
  /\ mruCount \in Nat
  /\ refs \in [Glyphs -> Int]
  /\ ownMode \in Modes /\ mode \in Modes /\ sought \in {Characters, Indexes}
  /\ owner \in Threads \cup {NoThread}
  /\ pc \in [Threads -> {"idle", "loop", "store", "text", "fault"}]
  /\ text \in [Threads -> Seq(Glyphs \cup {NoGlyph})]
  /\ storing \in Keys \cup {NoKey}

(* The count of a glyph is the number of cache entries and of texts that    *)
(* hold it: a glyph of a text being drawn is never freed under it, whatever *)
(* the cache drops meanwhile, and none is leaked.                           *)
UsesOf(g) == UNION {{<<t, i>> : i \in {j \in DOMAIN text[t] : text[t][j] = g}} : t \in Threads}

RefsExact ==
  \A g \in Glyphs : refs[g] = Cardinality(SlotsHolding(g, Keys)) + Cardinality(UsesOf(g))

(* The cache never holds more than the two constants together allow,        *)
(* although a hit does not count and a replaced entry counts as an addition. *)
CacheBounded == Cardinality(cached) <= GcCounter + ReqCountMax

(* A character that is found has its glyph ("if the cache has it ... if     *)
(* not, it is skipped for now and added later", fteng.h:89-91).             *)
HitHasGlyph == \A t \in Threads : pc[t] # "fault"

(* Compaction leaves the entries referenced last ("only the most recently   *)
(* referenced cache data remain", fteng.h:93-95).                           *)
KeepsRecent ==
  [][\A k \in cached \ cached', j \in cached \cap cached' : mru[k] <= mru[j]]_vars
=============================================================================
