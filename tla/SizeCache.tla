----------------------------- MODULE SizeCache -----------------------------
(***************************************************************************)
(* The sizes a font keeps: FreeTypeFontInfo::GetCache and Compact of        *)
(* src/src/core/fteng.cpp.  A drawing thread asks for the glyph cache of    *)
(* the size of its text under CS_FONTCACHE and goes on using it until       *)
(* FreeTypeGetGlyph ends, under OCS_FREETYPE only, which lets in the other  *)
(* drawing threads and keeps out a reload of the settings.                  *)
(***************************************************************************)
EXTENDS Integers, FiniteSets

CONSTANTS Threads,    (* the threads of the process                          *)
          Requests,   (* the sizes asked for                                 *)
          MaxSizes,   (* m_nMaxSizes                                         *)
          Field,      (* 2^12, the room of a height or width in the hash     *)
          Caches      (* addresses of a FreeTypeFontCache                    *)

(* height and width are those of the scaler; lfWidth tells whether the      *)
(* LOGFONT states a width, bold and italic are 0 or 1.                      *)
ASSUME SizeCacheAssumption ==
  /\ MaxSizes \in Nat \ {0} /\ Field \in Nat \ {0}
  /\ Requests \subseteq [height : Nat, width : Nat, lfWidth : BOOLEAN,
                         bold : {0, 1}, italic : {0, 1}]

Nil == "nil"            (* no cache                                          *)
Dangling == "dangling"  (* a cache deleted under the thread that uses it     *)
ASSUME CachesAssumption == Nil \notin Caches /\ Dangling \notin Caches

NoRequest == [height |-> -1, width |-> 0, lfWidth |-> FALSE, bold |-> 0, italic |-> 0]

(* The width a request is cached under, and getCacheHash.                   *)
Width(r) == IF r.lfWidth THEN r.width ELSE 0
Hash(r) == ((r.height % Field) * Field + Width(r)) * 256 + 2 * r.bold + r.italic
Hashes == {Hash(r) : r \in Requests}

NeverOversize(r) == FALSE                                      \* mutated form
Oversize(r) == r.height >= Field \/ r.width >= Field

VARIABLES
  sizes,     (* m_cache: hash -> cache                                       *)
  live,      (* the caches constructed and not deleted                       *)
  active,    (* those with m_active                                          *)
  added,     (* m_addcount of the font                                       *)
  pc,        (* where each thread is                                         *)
  pftCache,  (* the cache each drawing thread uses                           *)
  asked,     (* history: the request of each thread                          *)
  madeFor,   (* history: the request each cache was made for                 *)
  since      (* history: the requests since the last compaction, at most     *)
             (* MaxSizes of them                                             *)

vars == <<sizes, live, active, added, pc, pftCache, asked, madeFor, since>>

Init ==
  /\ sizes = [h \in {} |-> Nil] /\ live = {} /\ active = {}
  /\ added = 0 /\ since = 0
  /\ pc = [t \in Threads |-> "idle"]
  /\ pftCache = [t \in Threads |-> Nil]
  /\ asked = [t \in Threads |-> NoRequest]
  /\ madeFor = [p \in Caches |-> NoRequest]

(* OCS_FREETYPE admits the threads of one owner class.                      *)
BeginGlyphs(t) ==
  /\ pc[t] = "idle" /\ \A u \in Threads : pc[u] # "reloading"
  /\ pc' = [pc EXCEPT ![t] = "drawing"]
  /\ UNCHANGED <<sizes, live, active, added, pftCache, asked, madeFor, since>>

(* What deleting caches leaves to the threads that use them.                *)
Delete(dead) ==
  [t \in Threads |-> IF pftCache[t] \in dead THEN Dangling ELSE pftCache[t]]
Forget(dead) == [p \in Caches |-> IF p \in dead THEN NoRequest ELSE madeFor[p]]

(* CompactMap: the map is in the order of the hashes, and what is more than *)
(* MaxSizes goes from its front.                                            *)
CompactMap ==
  {h \in DOMAIN sizes : Cardinality({k \in DOMAIN sizes : k > h}) < MaxSizes}

Crowded == added + 1 > MaxSizes
Kept == IF Crowded THEN CompactMap ELSE DOMAIN sizes

(* The caches Compact deletes: those the map holds no more.                 *)
DroppedLeaking == {}                                           \* mutated form
Dropped == {sizes[h] : h \in DOMAIN sizes \ Kept}

(* The counters and flags as Compact leaves them, or as they were.          *)
CountKept == added + 1                                         \* mutated form
Count == IF Crowded THEN 0 ELSE added + 1
StillActive == IF Crowded THEN {} ELSE active

Since == IF Crowded THEN 0 ELSE IF since < MaxSizes THEN since + 1 ELSE since

(* An over-size font is not rendered, but its request was counted.          *)
TooLarge(t, r) ==
  /\ Oversize(r)
  /\ live' = live \ Dropped
  /\ sizes' = [h \in Kept |-> sizes[h]]
  /\ active' = StillActive /\ added' = Count
  /\ pftCache' = [Delete(Dropped) EXCEPT ![t] = Nil]
  /\ madeFor' = Forget(Dropped)

(* Activate and DecIncrement: the first use since the last compaction is    *)
(* not counted, every further one is, where the comment at fteng.cpp:475    *)
(* has it that re-use lowers the count.                                     *)
Activate(p) ==
  /\ added' = IF p \in StillActive THEN Count ELSE Count - 1
  /\ active' = StillActive \cup {p}

Found(t, r) ==
  /\ ~Oversize(r) /\ Hash(r) \in Kept
  /\ live' = live \ Dropped
  /\ sizes' = [h \in Kept |-> sizes[h]]
  /\ Activate(sizes[Hash(r)])
  /\ pftCache' = [Delete(Dropped) EXCEPT ![t] = sizes[Hash(r)]]
  /\ madeFor' = Forget(Dropped)

New(t, r) ==
  /\ ~Oversize(r) /\ Hash(r) \notin Kept
  /\ \E p \in Caches \ live :
       /\ live' = (live \ Dropped) \cup {p}
       /\ sizes' = [h \in Kept \cup {Hash(r)} |-> IF h = Hash(r) THEN p ELSE sizes[h]]
       /\ Activate(p)
       /\ pftCache' = [Delete(Dropped) EXCEPT ![t] = p]
       /\ madeFor' = [Forget(Dropped) EXCEPT ![p] = r]

GetCache(t, r) ==
  /\ pc[t] = "drawing"
  /\ TooLarge(t, r) \/ Found(t, r) \/ New(t, r)
  /\ since' = Since
  /\ pc' = [pc EXCEPT ![t] = "glyphs"]
  /\ asked' = [asked EXCEPT ![t] = r]

EndGlyphs(t) ==
  /\ pc[t] = "glyphs"
  /\ pc' = [pc EXCEPT ![t] = "idle"]
  /\ pftCache' = [pftCache EXCEPT ![t] = Nil]
  /\ asked' = [asked EXCEPT ![t] = NoRequest]
  /\ UNCHANGED <<sizes, live, active, added, madeFor, since>>

(* ReloadAll, which holds OCS_FREETYPE for its own owner class, and Erase.  *)
BeginReloadUnowned(t) ==                                       \* mutated form
  /\ pc[t] = "idle"
  /\ pc' = [pc EXCEPT ![t] = "reloading"]
  /\ UNCHANGED <<sizes, live, active, added, pftCache, asked, madeFor, since>>
BeginReload(t) ==
  /\ pc[t] = "idle" /\ \A u \in Threads : pc[u] \notin {"drawing", "glyphs"}
  /\ pc' = [pc EXCEPT ![t] = "reloading"]
  /\ UNCHANGED <<sizes, live, active, added, pftCache, asked, madeFor, since>>

Erase(t) ==
  /\ pc[t] = "reloading"
  /\ live' = live \ {sizes[h] : h \in DOMAIN sizes}
  /\ active' = active \ {sizes[h] : h \in DOMAIN sizes}
  /\ sizes' = [h \in {} |-> Nil]
  /\ pftCache' = Delete({sizes[h] : h \in DOMAIN sizes})
  /\ madeFor' = Forget({sizes[h] : h \in DOMAIN sizes})
  /\ pc' = [pc EXCEPT ![t] = "idle"]
  /\ UNCHANGED <<added, asked, since>>

Step(t) ==
  \/ BeginGlyphs(t) \/ EndGlyphs(t)
  \/ \E r \in Requests : GetCache(t, r)
  \/ BeginReload(t) \/ Erase(t)

Next == \E t \in Threads : Step(t)

Spec == Init /\ [][Next]_vars

-----------------------------------------------------------------------------
TypeOK ==
  /\ DOMAIN sizes \subseteq Hashes /\ sizes \in [DOMAIN sizes -> Caches]
  /\ live \subseteq Caches /\ active \subseteq Caches
  /\ added \in -1 .. MaxSizes /\ since \in 0 .. MaxSizes
  /\ pc \in [Threads -> {"idle", "drawing", "glyphs", "reloading"}]
  /\ pftCache \in [Threads -> Caches \cup {Nil, Dangling}]
  /\ asked \in [Threads -> Requests \cup {NoRequest}]
  /\ madeFor \in [Caches -> Requests \cup {NoRequest}]

(* A cache deleted by Compact or Erase is out of the map, and one in the    *)
(* map is there once: none is lost to the destructor, none deleted twice.   *)
OnceInMap ==
  /\ live = {sizes[h] : h \in DOMAIN sizes}
  /\ \A h, k \in DOMAIN sizes : sizes[h] = sizes[k] => h = k

(* A thread is given the cache of the height, width, weight and slant it    *)
(* asked for, whatever the fields of the hash have room for, and the map    *)
(* holds it as long as the thread has not lost it.                          *)
SameSize(r, q) ==
  /\ r.height = q.height /\ Width(r) = Width(q)
  /\ r.bold = q.bold /\ r.italic = q.italic
SizeServed ==
  \A t \in Threads : pftCache[t] \in Caches =>
    pftCache[t] \in live /\ SameSize(madeFor[pftCache[t]], asked[t])

(* A thread loses the cache it uses to no reload and to no request of its   *)
(* own: only the request of another drawing thread, which compacts the      *)
(* sizes, deletes it.  With one drawing thread the pointer that outlives    *)
(* CS_FONTCACHE is safe.                                                    *)
LostToDrawing ==
  [][\A t \in Threads : pftCache[t] # Dangling /\ pftCache'[t] = Dangling =>
       Crowded /\ \E u \in Threads \ {t} : pc[u] = "drawing" /\ pc'[u] = "glyphs"]_vars

(* Sizes are compacted at most once in MaxSizes + 1 requests.               *)
Compacts == Crowded /\ \E t \in Threads, r \in Requests : GetCache(t, r)
Spaced == [][Compacts => since = MaxSizes]_vars
=============================================================================
