----------------------------- MODULE FontEngine -----------------------------
(***************************************************************************)
(* The font registry of FreeTypeFontEngine (src/src/core/fteng.cpp and      *)
(* fteng.h) and the three calls that meet in it: a drawing thread           *)
(* (IMPL_ExtTextOutW, FreeTypeGetGlyph, FreeTypePrepare), a thread that     *)
(* removes a font file (IMPL_RemoveFontResourceExW), and one that reloads   *)
(* the settings of every font (ReloadAll).                                  *)
(*                                                                         *)
(* A FreeTypeFontInfo is named by its m_id.  FindFont and the Remove...     *)
(* helpers hold CS_FONTMAP from beginning to end and are one step each; the *)
(* calls that use them are not.  The two owned sections are the class locks *)
(* of module ClassLock, which theorem Implementation of OwnedCSProofs       *)
(* grants because each section is used here by one thread of each class.    *)
(***************************************************************************)
EXTENDS Integers, Sequences, FiniteSets

CONSTANTS Names,     (* lfFaceName values                                    *)
          NFull,     (* full names are 1..NFull, in the order of the map     *)
          MaxFaces   (* bound on the face ids handed out                     *)

ASSUME FontEngineAssumption == NFull \in Nat \ {0} /\ MaxFaces \in Nat \ {0}

Nil == 0             (* no font, the NULL slot and the empty full name       *)
FullNames == 1..NFull
Fonts == 1..MaxFaces

Regular == 400       (* FW_NORMAL and FW_BOLD *)
Bold == 700
CalcBoldWeight(weight) == IF weight < Bold THEN 0 ELSE Bold

Faces == Names \X {Regular, Bold}           (* a LOGFONT                     *)
FontKeys == Names \X {0, Regular, Bold}     (* a key of m_mfontMap           *)
Normal(lf) == <<lf[1], CalcBoldWeight(lf[2])>>

VARIABLES
  fontMap,     (* m_mfontMap: key -> font                                    *)
  fullMap,     (* m_mfullMap: full name -> font                              *)
  fontList,    (* m_mfontList: the font of each face id                      *)
  faceIds,     (* FaceIDHolder                                               *)
  live,        (* the fonts constructed and not deleted                      *)
  fullName,    (* m_fullname of each font                                    *)
  refs,        (* count of each font                                         *)
  links,       (* face_id_link of each font, {} before Createlink            *)
  engine       (* the engine object is there                                 *)

registry == <<fontMap, fullMap, fontList, faceIds, live, fullName, refs>>

VARIABLES
  drawPc, drawn,          (* the drawing thread and its FTInfo.pfi           *)
  removePc, face, result, wasLoaded, fid,  (* RemoveFont(file), its locals   *)
  reloadPc, cursor,       (* ReloadAll and its iterator over m_mfullMap      *)
  dcHeld, ftHeld          (* guards on OCS_DC and on OCS_FREETYPE            *)

drawer == <<drawPc, drawn>>
remover == <<removePc, face, result, wasLoaded, fid>>
reloader == <<reloadPc, cursor>>
sections == <<dcHeld, ftHeld>>
vars == <<registry, links, engine, drawer, remover, reloader, sections>>

Threads == {"draw", "remove", "reload"}
OwnerClass == [t \in Threads |-> IF t = "draw" THEN 1 ELSE 2]
DC == INSTANCE ClassLock WITH Class <- OwnerClass, MaxDepth <- 1, held <- dcHeld
FT == INSTANCE ClassLock WITH Class <- OwnerClass, MaxDepth <- 1, held <- ftHeld

Init ==
  /\ fontMap = [k \in FontKeys |-> Nil]
  /\ fullMap = [n \in FullNames |-> Nil]
  /\ fontList = <<>>
  /\ faceIds = 0
  /\ live = {}
  /\ fullName = [f \in Fonts |-> Nil]
  /\ refs = [f \in Fonts |-> 0]
  /\ links = [f \in Fonts |-> {}]
  /\ engine = TRUE
  /\ drawPc = "idle" /\ drawn = Nil
  /\ removePc = "idle" /\ face \in Faces
  /\ result = Nil /\ wasLoaded = FALSE /\ fid = Nil
  /\ reloadPc = "idle" /\ cursor = Nil
  /\ DC!Init /\ FT!Init

-----------------------------------------------------------------------------
(* The FreeTypeFontInfo constructor and both AddFont functions, under       *)
(* CS_FONTENG.  The full name is the one GDI reports, Nil for a bitmap      *)
(* font; when a font of that name is registered the new object is deleted   *)
(* and its face id given back, so only a font that stays takes an id.       *)
KnownAs(full) == fullMap[full] # Nil

TakeFaceId(full, font) ==
  /\ font = faceIds + 1 /\ font \in Fonts
  /\ faceIds' = font
  /\ fontList' = Append(fontList, font)
  /\ live' = live \cup {font}
  /\ fullName' = [fullName EXCEPT ![font] = full]

(* Mutated form: the id of the deleted duplicate is not released.           *)
ReuseLeaksFaceId(full, font) ==
  /\ font = fullMap[full]
  /\ faceIds' = faceIds + 1
  /\ UNCHANGED <<fontList, live, fullName>>

Reuse(full, font) ==
  /\ font = fullMap[full]
  /\ UNCHANGED <<faceIds, fontList, live, fullName>>

(* AddFont(lpFaceName, ...): loaded is what *bIsFontLoaded becomes.         *)
AddFontByName(key, full, font, loaded) ==
  /\ full # Nil
  /\ loaded = KnownAs(full)
  /\ IF loaded THEN Reuse(full, font) /\ UNCHANGED <<fullMap, refs>>
     ELSE /\ TakeFaceId(full, font)
          /\ fullMap' = [fullMap EXCEPT ![full] = font]
          /\ refs' = [refs EXCEPT ![font] = 1]
  /\ fontMap' = [fontMap EXCEPT ![key] = font]

(* Mutated form: the alias is entered without AddRef.                       *)
AliasWithoutRef(full, asked, font, base) ==
  /\ fullMap' = [fullMap EXCEPT ![full] = font, ![asked] = font]
  /\ refs' = [refs EXCEPT ![font] = base]

(* A font whose full name is not the one asked for is entered under both.   *)
Alias(full, asked, font, base) ==
  /\ fullMap' = [fullMap EXCEPT ![full] = font, ![asked] = font]
  /\ refs' = [refs EXCEPT ![font] = IF full = asked THEN base ELSE base + 1]

(* AddFont(params): the key keeps the weight of the LOGFONT as it is.       *)
AddFontByParams(lplf, asked, full, font) ==
  /\ full # Nil
  /\ IF KnownAs(full) THEN Reuse(full, font) /\ Alias(full, asked, font, refs[font])
     ELSE TakeFaceId(full, font) /\ Alias(full, asked, font, 1)
  /\ fontMap' = [fontMap EXCEPT ![lplf] = font]

(* FindFont(lpFaceName, ...), under CS_FONTMAP.  It adds the font it does   *)
(* not find whatever AddOnFind says.                                        *)
FindByName(lf, font, loaded) ==
  LET key == Normal(lf) IN
  \/ /\ fontMap[key] # Nil
     /\ font = fontMap[key] /\ loaded = TRUE
     /\ UNCHANGED registry
  \/ /\ fontMap[key] = Nil
     /\ \/ font = Nil /\ loaded = FALSE /\ UNCHANGED registry     \* bitmap font
        \/ \E full \in FullNames : AddFontByName(key, full, font, loaded)

(* FindFont(params), under CS_FONTMAP.                                      *)
FindByParams(lf, asked, font) ==
  \/ /\ KnownAs(asked) /\ fullName[fullMap[asked]] = asked
     /\ font = fullMap[asked]
     /\ UNCHANGED registry
  \/ /\ KnownAs(asked) /\ fullName[fullMap[asked]] # asked
     /\ \E loaded \in BOOLEAN : FindByName(lf, font, loaded)
  \/ /\ ~KnownAs(asked)
     /\ \/ font = Nil /\ UNCHANGED registry                       \* bitmap font
        \/ \E full \in FullNames : AddFontByParams(lf, asked, full, font)

(* FindFont(faceid): the slot of the id, NULL beyond the end.               *)
FindById(id) == IF id > Len(fontList) THEN Nil ELSE fontList[id]

-----------------------------------------------------------------------------
(* The drawing thread.  IMPL_ExtTextOutW owns OCS_DC for the whole call.    *)
BeginDraw ==
  /\ engine /\ drawPc = "idle"
  /\ DC!Acquire("draw")
  /\ drawPc' = "dc"
  /\ UNCHANGED <<registry, links, engine, drawn, remover, reloader, ftHeld>>

(* FreeTypeGetGlyph owns OCS_FREETYPE.                                      *)
BeginGlyphs ==
  /\ drawPc = "dc"
  /\ FT!Acquire("draw")
  /\ drawPc' = "prepare"
  /\ UNCHANGED <<registry, links, engine, drawn, remover, reloader, dcHeld>>

(* FreeTypePrepare: find the font, else give the text back to GDI.          *)
Prepare ==
  /\ drawPc = "prepare"
  /\ \E lf \in Faces, asked \in FullNames, font \in Fonts \cup {Nil} :
       /\ FindByParams(lf, asked, font)
       /\ drawn' = font
       /\ IF font = Nil
          THEN drawPc' = "text" /\ FT!Release("draw")
          ELSE drawPc' = "link" /\ UNCHANGED ftHeld
  /\ UNCHANGED <<links, engine, remover, reloader, dcHeld>>

(* GetFTLink: a font that has its links keeps them; Createlink begins with  *)
(* the font itself ...                                                      *)
LinkSelf ==
  /\ drawPc = "link"
  /\ IF links[drawn] = {}
     THEN links' = [links EXCEPT ![drawn] = {drawn}] /\ drawPc' = "linking"
     ELSE drawPc' = "glyphs" /\ UNCHANGED links
  /\ UNCHANGED <<registry, engine, drawn, remover, reloader, sections>>

(* ... looks up, or adds, each font it is linked to ...                     *)
LinkNext ==
  /\ drawPc = "linking"
  /\ \E name \in Names, font \in Fonts \cup {Nil}, loaded \in BOOLEAN :
       /\ FindByName(<<name, Regular>>, font, loaded)
       /\ links' = [links EXCEPT ![drawn] = @ \cup ({font} \ {Nil})]
  /\ UNCHANGED <<engine, drawer, remover, reloader, sections>>

(* ... and ends after the last name.                                        *)
LinkLast ==
  /\ drawPc = "linking"
  /\ drawPc' = "glyphs"
  /\ UNCHANGED <<registry, links, engine, drawn, remover, reloader, sections>>

(* The glyphs are taken, through any of the links; the text is put out from *)
(* them after OCS_FREETYPE is left.  A call may also throw before it asks   *)
(* for glyphs.                                                              *)
EndGlyphs ==
  /\ drawPc = "glyphs"
  /\ FT!Release("draw")
  /\ drawPc' = "text" /\ drawn' = Nil
  /\ UNCHANGED <<registry, links, engine, remover, reloader, dcHeld>>

EndDraw ==
  /\ drawPc \in {"dc", "text"}
  /\ DC!Release("draw")
  /\ drawPc' = "idle"
  /\ UNCHANGED <<registry, links, engine, drawn, remover, reloader, ftHeld>>

-----------------------------------------------------------------------------
(* UpdateFontSetting of a set of fonts: their links are forgotten.          *)
ForgetNoLinks(fonts) == UNCHANGED links           \* mutated form
ForgetLinks(fonts) == links' = [f \in Fonts |-> IF f \in fonts THEN {} ELSE links[f]]

(* An iterator to an erased entry is invalid from then on.                  *)
Dangling == NFull + 1
EraseNames(names) ==
  /\ fullMap' = [n \in FullNames |-> IF n \in names THEN Nil ELSE fullMap[n]]
  /\ cursor' = IF cursor \in names THEN Dangling ELSE cursor

(* Mutated form of the next: only the entry of its own full name goes.      *)
RemoveFontInfoAlias(font) ==
  /\ fontMap' = [k \in FontKeys |-> IF fontMap[k] = font THEN Nil ELSE fontMap[k]]
  /\ EraseNames({fullName[font]})
  /\ ForgetLinks({fullMap[n] : n \in FullNames})
  /\ live' = live \ {font}

(* RemoveFont(fontinfo), under CS_FONTMAP: every key of the font goes.      *)
RemoveFontInfo(font) ==
  /\ fontMap' = [k \in FontKeys |-> IF fontMap[k] = font THEN Nil ELSE fontMap[k]]
  /\ EraseNames({n \in FullNames : fullMap[n] = font})
  /\ ForgetLinks({fullMap[n] : n \in FullNames})       \* font's own go with it
  /\ live' = live \ {font}

(* RemoveThisFont(fontinfo, lg), under CS_FONTMAP: the one key of the face  *)
(* and the one full name of the font go.                                    *)
RemoveThisFont(font, lg) ==
  /\ fontMap' = [fontMap EXCEPT ![Normal(lg)] = Nil]
  /\ EraseNames({fullName[font]})
  /\ live' = live \ {font}
  /\ UNCHANGED links

(* RemoveFont(file): OCS_DC as owner 2.                                     *)
BeginRemove ==
  /\ engine /\ removePc = "idle"
  /\ DC!Acquire("remove")
  /\ removePc' = "find"
  /\ UNCHANGED <<registry, links, engine, drawer, face, result, wasLoaded, fid,
                 reloader, ftHeld>>

(* The next face of the file: look it up, adding it when it is not there.   *)
RemoveFind ==
  /\ removePc = "find"
  /\ \E lf \in Faces, font \in Fonts \cup {Nil}, loaded \in BOOLEAN :
       /\ FindByName(lf, font, loaded)
       /\ face' = lf /\ result' = font /\ wasLoaded' = loaded
       /\ fid' = font                       \* GetId() before the font goes
       /\ removePc' = IF font = Nil THEN "find" ELSE "remove"
  /\ UNCHANGED <<links, engine, drawer, reloader, sections>>

(* A font that was loaded goes whole, one just added by the look-up goes    *)
(* with the entries the look-up made.                                       *)
RemoveEntries ==
  /\ removePc = "remove"
  /\ IF wasLoaded THEN RemoveFontInfo(result) ELSE RemoveThisFont(result, face)
  /\ result' = Nil
  /\ removePc' = "clear"
  /\ UNCHANGED <<fontList, faceIds, fullName, refs, engine, drawer, face, wasLoaded,
                 fid, reloadPc, sections>>

(* The slot of the font id, under CS_FONTENG but not CS_FONTMAP.            *)
RemoveSlot ==
  /\ removePc = "clear"
  /\ fontList' = [fontList EXCEPT ![fid] = Nil]
  /\ fid' = Nil
  /\ removePc' = "find"
  /\ UNCHANGED <<fontMap, fullMap, faceIds, live, fullName, refs, links, engine,
                 drawer, face, result, wasLoaded, reloader, sections>>

EndRemove ==
  /\ removePc = "find"
  /\ DC!Release("remove")
  /\ removePc' = "idle"
  /\ UNCHANGED <<registry, links, engine, drawer, face, result, wasLoaded, fid,
                 reloader, ftHeld>>

-----------------------------------------------------------------------------
(* ReloadAll walks m_mfullMap in key order as owner 2 of OCS_FREETYPE and   *)
(* inside CS_LIBRARY, but not inside CS_FONTMAP.  An iterator at the end is *)
(* Nil.                                                                     *)
After(name) ==
  LET later == {n \in FullNames : n > name /\ fullMap[n] # Nil}
  IN  IF later = {} THEN Nil ELSE CHOOSE n \in later : \A m \in later : n <= m

BeginReloadUnowned ==                             \* mutated form
  /\ engine /\ reloadPc = "idle"
  /\ reloadPc' = "visit" /\ cursor' = After(0)
  /\ UNCHANGED <<registry, links, engine, drawer, remover, sections>>

BeginReload ==
  /\ engine /\ reloadPc = "idle"
  /\ FT!Acquire("reload")
  /\ reloadPc' = "visit" /\ cursor' = After(0)
  /\ UNCHANGED <<registry, links, engine, drawer, remover, dcHeld>>

(* Erase, SetFontSettings and UpdateFontSetting of the font at the          *)
(* iterator, then the next entry.                                           *)
ReloadVisit ==
  /\ reloadPc = "visit" /\ cursor \in FullNames
  /\ ForgetLinks({fullMap[cursor]})
  /\ cursor' = After(cursor)
  /\ UNCHANGED <<registry, engine, drawer, remover, reloadPc, sections>>

(* Advancing an invalid iterator: undefined, it may end up anywhere.        *)
ReloadAstray ==
  /\ reloadPc = "visit" /\ cursor = Dangling
  /\ cursor' \in {Nil} \cup {n \in FullNames : fullMap[n] # Nil}
  /\ UNCHANGED <<registry, links, engine, drawer, remover, reloadPc, sections>>

EndReload ==
  /\ reloadPc = "visit" /\ cursor = Nil
  /\ FT!Release("reload")
  /\ reloadPc' = "idle"
  /\ UNCHANGED <<registry, links, engine, drawer, remover, cursor, dcHeld>>

-----------------------------------------------------------------------------
(* ~FreeTypeFontEngine on the unloading of the library: one Release for     *)
(* each entry of m_mfullMap.                                                *)
EntriesOf(font) == {n \in FullNames : fullMap[n] = font}

DestroyEngine ==
  /\ engine
  /\ drawPc = "idle" /\ removePc = "idle" /\ reloadPc = "idle"
  /\ refs' = [f \in Fonts |-> refs[f] - Cardinality(EntriesOf(f))]
  /\ live' = {f \in live : refs'[f] # 0}
  /\ engine' = FALSE
  /\ UNCHANGED <<fontMap, fullMap, fontList, faceIds, fullName, links, drawer,
                 remover, reloader, sections>>

Unloaded == ~engine /\ UNCHANGED vars

Draw == \/ BeginDraw \/ BeginGlyphs \/ Prepare
        \/ LinkSelf \/ LinkNext \/ LinkLast
        \/ EndGlyphs \/ EndDraw
Remove == BeginRemove \/ RemoveFind \/ RemoveEntries \/ RemoveSlot \/ EndRemove
Reload == BeginReload \/ ReloadVisit \/ ReloadAstray \/ EndReload

Next == Draw \/ Remove \/ Reload \/ DestroyEngine \/ Unloaded

Spec == Init /\ [][Next]_vars
-----------------------------------------------------------------------------
(* Types, and that FaceIDHolder never runs ahead of the ids in use.         *)
TypeOK ==
  /\ fontMap \in [FontKeys -> Fonts \cup {Nil}]
  /\ fullMap \in [FullNames -> Fonts \cup {Nil}]
  /\ fontList \in Seq(Fonts \cup {Nil})
  /\ faceIds \in 0..MaxFaces
  /\ live \subseteq Fonts
  /\ fullName \in [Fonts -> FullNames \cup {Nil}]
  /\ refs \in [Fonts -> Int]
  /\ links \in [Fonts -> SUBSET Fonts]
  /\ engine \in BOOLEAN /\ wasLoaded \in BOOLEAN
  /\ {drawn, result, fid} \subseteq Fonts \cup {Nil}
  /\ face \in Faces
  /\ cursor \in FullNames \cup {Nil, Dangling}
  /\ drawPc \in {"idle", "dc", "prepare", "link", "linking", "glyphs", "text"}
  /\ removePc \in {"idle", "find", "remove", "clear"}
  /\ reloadPc \in {"idle", "visit"}

(* Both maps name only fonts that are not deleted, and no font is forgotten: *)
(* each one is entered under its own full name, whatever additions, aliases *)
(* and removals came before.                                                *)
RegistryLive ==
  engine =>
    /\ \A k \in FontKeys : fontMap[k] \in live \cup {Nil}
    /\ \A n \in FullNames : fullMap[n] \in live \cup {Nil}
    /\ \A f \in live : fullMap[fullName[f]] = f

(* FindFont(faceid) indexes m_mfontList by m_id - 1, which is right only as *)
(* long as the ids given out and given back stay in step with the list: the *)
(* slot of a font holds that font, or NULL once it is removed.              *)
FaceIdsMatch ==
  /\ faceIds = Len(fontList)
  /\ \A i \in DOMAIN fontList : fontList[i] \in {i, Nil}
  /\ engine => \A f \in live : f \in DOMAIN fontList /\ fontList[f] = f

(* face_requester asserts the font it looks up (ft.cpp:3247), and the glyph *)
(* loop uses it unchecked (ft.cpp:2048): while a thread takes glyphs, every *)
(* linked id resolves to a font that is not deleted, whatever a removing    *)
(* thread and a reloading thread are in the middle of.                      *)
LinksResolve ==
  drawPc = "glyphs" =>
    /\ drawn \in live /\ drawn \in links[drawn]
    /\ \A id \in links[drawn] : FindById(id) \in live

(* The glyph loop walks the array face_id_link of the font itself, with the *)
(* length it read before: nobody empties it while glyphs are taken.         *)
LinksStable ==
  [][drawPc = "glyphs" => links'[drawn] = links[drawn]]_vars

(* The destructor of the engine releases every font as often as it is       *)
(* entered: none is left over, none is released after it is gone.           *)
EngineFreesAll == ~engine => live = {} /\ \A f \in Fonts : refs[f] >= 0

(* ReloadAll reaches every font ("reload all fonts, that is, clear all font *)
(* caches", fteng.h:621): its iterator stays valid to the end of the map.   *)
ReloadReachesAll == cursor # Dangling
=============================================================================
