-------------------------- MODULE LockOrderProofs --------------------------
(***************************************************************************)
(* LockOrder never comes to a standstill, for any threads and any number of *)
(* calls.  The sections have ranks: whoever holds one waits for none of a   *)
(* lower rank, and for one of the same rank only if it is a plain section   *)
(* that it holds itself.  Of the threads that wait, one that waits for the  *)
(* highest rank is then not kept waiting, or the one that keeps it is not.  *)
(***************************************************************************)
EXTENDS LockOrder, SequenceTheorems, WellFoundedInduction, TLAPS

Owned == {"OCS_DC", "OCS_FREETYPE"}

Rank(s) ==
  CASE s = "none" -> 0
    [] s = "OCS_DC" -> 1
    [] s = "OCS_FREETYPE" -> 2
    [] s = "CS_FONTLINK" -> 3
    [] s = "CS_MANAGER" -> 4
    [] s = "CS_FONTMAP" -> 5
    [] s = "CS_FONTENG" -> 6
    [] s = "CS_LIBRARY" -> 7
    [] s = "CS_FONTCACHE" -> 8
    [] s = "CS_SETTING" -> 9
    [] s = "CS_CACHEDFONT" -> 10
    [] s = "CS_DCRELATION" -> 11

Sections == {"none", "OCS_DC", "OCS_FREETYPE", "CS_FONTLINK", "CS_MANAGER",
  "CS_FONTMAP", "CS_FONTENG", "CS_LIBRARY", "CS_FONTCACHE", "CS_SETTING",
  "CS_CACHEDFONT", "CS_DCRELATION"}

(* The least rank that a thread inside s may wait for: an owned section is  *)
(* never entered again.                                                     *)
Hold(s) == IF s \in Owned THEN Rank(s) + 1 ELSE Rank(s)

(* The least rank that f, or what it calls, waits for.                      *)
Least(f) ==
  CASE f \in {"IMPL_ExtTextOutW", "DrawText", "IMPL_RemoveFontResourceExW",
              "RemoveFontFile"} -> 1
    [] f \in {"FreeTypeGetGlyph", "ReloadConfig", "ReloadAll"} -> 2
    [] f \in {"FreeTypePrepare", "GetFTLink"} -> 3
    [] f \in {"ForEachGetGlyphFT", "GetFace", "GetOS2Table",
              "EmbeddedBmpExist", "RemoveFontsOfFile"} -> 4
    [] f \in {"Createlink", "FindFont", "FindFontByName", "FindFontById",
              "face_requester", "RemoveFont"} -> 5
    [] f \in {"AddFont", "RemoveFaceID"} -> 6
    [] f \in {"ForEachGetGlyphGGO", "CopyGlyph", "ReloadFonts", "Trace"} -> 7
    [] f \in {"GetCache", "CompactMap", "CompactChars", "FreeFontInfo",
              "Erase"} -> 8
    [] f \in {"NewFontInfo", "SysFontInit", "CreateFontIndirectExW",
              "GetInstance", "DelayedInit", "LoadSettings", "UpdateLcdFilter"} -> 9
    [] f \in {"CloseFace", "CopyForceFont", "DeleteObject", "AddToCachedFont",
              "DeleteCachedFont"} -> 10
    [] f \in {"DisplayFromDC", "ResetInit"} -> 11

LEMMA RankInjective ==
  ASSUME NEW r \in Sections, NEW s \in Sections
  PROVE  Rank(r) \in 0..11 /\ (Rank(r) = Rank(s) => r = s) /\ (Rank(s) = 0 => s = "none")
  BY DEF Sections, Rank

(* What holds of each function by itself, and with each of its callees.     *)
Placed(f) ==
  /\ Section(f) \in Sections
  /\ Code(f).class \in {0, 1, 2} /\ (Code(f).class = 0 <=> Section(f) \notin Owned)
  /\ Least(f) \in 1..11 /\ (Section(f) # "none" => Least(f) <= Rank(Section(f)))
  /\ Len(Callees(f)) \in Nat /\ DOMAIN Callees(f) = 1..Len(Callees(f))

Above(f, g) ==
  /\ g \in Functions
  /\ Least(f) <= Least(g) /\ Hold(Section(f)) <= Least(g)
  /\ g \in {"face_requester", "CloseFace"} => f = "RemoveFaceID" \/ Section(f) = "CS_MANAGER"
  /\ g = "RemoveFaceID" => Section(f) = "CS_MANAGER"
  /\ g = "RemoveFont" => f = "RemoveFontsOfFile"
  /\ g = "RemoveFontsOfFile" => f = "RemoveFontFile"
  /\ g = "ReloadFonts" => f = "ReloadAll"
  /\ g = "FreeTypeGetGlyph" => f = "DrawText"
  /\ g = "DelayedInit" => f = "GetInstance"

Nests(f) == \A i \in 1..Len(Callees(f)) : Above(f, Callees(f)[i])

LEMMA Programs ==
  /\ Code("IMPL_ExtTextOutW") = IMPL_ExtTextOutW
  /\ Code("DisplayFromDC") = DisplayFromDC
  /\ Code("DrawText") = DrawText
  /\ Code("FreeTypeGetGlyph") = FreeTypeGetGlyph
  /\ Code("FreeTypePrepare") = FreeTypePrepare
  /\ Code("ForEachGetGlyphFT") = ForEachGetGlyphFT
  /\ Code("ForEachGetGlyphGGO") = ForEachGetGlyphGGO
  /\ Code("GetFTLink") = GetFTLink
  /\ Code("Createlink") = Createlink
  /\ Code("GetFace") = GetFace
  /\ Code("GetOS2Table") = GetOS2Table
  /\ Code("EmbeddedBmpExist") = EmbeddedBmpExist
  /\ Code("CopyGlyph") = CopyGlyph
  /\ Code("GetCache") = GetCache
  /\ Code("CompactMap") = CompactMap
  /\ Code("CompactChars") = CompactChars
  /\ Code("FindFont") = FindFont
  /\ Code("FindFontByName") = FindFontByName
  /\ Code("FindFontById") = FindFontById
  /\ Code("AddFont") = AddFont
  /\ Code("NewFontInfo") = NewFontInfo
  /\ Code("FreeFontInfo") = FreeFontInfo
  /\ Code("Erase") = Erase
  /\ Code("face_requester") = face_requester
  /\ Code("SysFontInit") = SysFontInit
  /\ Code("CloseFace") = CloseFace
  /\ Code("CreateFontIndirectExW") = CreateFontIndirectExW
  /\ Code("CopyForceFont") = CopyForceFont
  /\ Code("DeleteObject") = DeleteObject
  /\ Code("AddToCachedFont") = AddToCachedFont
  /\ Code("DeleteCachedFont") = DeleteCachedFont
  /\ Code("IMPL_RemoveFontResourceExW") = IMPL_RemoveFontResourceExW
  /\ Code("RemoveFontFile") = RemoveFontFile
  /\ Code("RemoveFontsOfFile") = RemoveFontsOfFile
  /\ Code("RemoveFont") = RemoveFont
  /\ Code("RemoveFaceID") = RemoveFaceID
  /\ Code("GetInstance") = GetInstance
  /\ Code("DelayedInit") = DelayedInit
  /\ Code("ReloadConfig") = ReloadConfig
  /\ Code("Trace") = Trace
  /\ Code("LoadSettings") = LoadSettings
  /\ Code("ResetInit") = ResetInit
  /\ Code("UpdateLcdFilter") = UpdateLcdFilter
  /\ Code("ReloadAll") = ReloadAll
  /\ Code("ReloadFonts") = ReloadFonts
  BY DEF Code

LEMMA Placement == \A f \in Functions : Placed(f) /\ Nests(f)
<1>1. Placed("IMPL_ExtTextOutW") /\ Nests("IMPL_ExtTextOutW")
  BY Programs DEF IMPL_ExtTextOutW, Owns, Locks, Plain, Section, Callees, Placed, Nests, Above,
    Sections, Owned, Rank, Hold, Least, Functions
<1>2. Placed("DisplayFromDC") /\ Nests("DisplayFromDC")
  BY Programs DEF DisplayFromDC, Owns, Locks, Plain, Section, Callees, Placed, Nests, Above,
    Sections, Owned, Rank, Hold, Least, Functions
<1>3. Placed("DrawText") /\ Nests("DrawText")
  BY Programs DEF DrawText, Owns, Locks, Plain, Section, Callees, Placed, Nests, Above,
    Sections, Owned, Rank, Hold, Least, Functions
<1>4. Placed("FreeTypeGetGlyph") /\ Nests("FreeTypeGetGlyph")
  BY Programs DEF FreeTypeGetGlyph, Owns, Locks, Plain, Section, Callees, Placed, Nests, Above,
    Sections, Owned, Rank, Hold, Least, Functions
<1>5. Placed("FreeTypePrepare") /\ Nests("FreeTypePrepare")
  BY Programs DEF FreeTypePrepare, Owns, Locks, Plain, Section, Callees, Placed, Nests, Above,
    Sections, Owned, Rank, Hold, Least, Functions
<1>6. Placed("ForEachGetGlyphFT") /\ Nests("ForEachGetGlyphFT")
  BY Programs DEF ForEachGetGlyphFT, Owns, Locks, Plain, Section, Callees, Placed, Nests, Above,
    Sections, Owned, Rank, Hold, Least, Functions
<1>7. Placed("ForEachGetGlyphGGO") /\ Nests("ForEachGetGlyphGGO")
  BY Programs DEF ForEachGetGlyphGGO, Owns, Locks, Plain, Section, Callees, Placed, Nests, Above,
    Sections, Owned, Rank, Hold, Least, Functions
<1>8. Placed("GetFTLink") /\ Nests("GetFTLink")
  BY Programs DEF GetFTLink, Owns, Locks, Plain, Section, Callees, Placed, Nests, Above,
    Sections, Owned, Rank, Hold, Least, Functions
<1>9. Placed("Createlink") /\ Nests("Createlink")
  BY Programs DEF Createlink, Owns, Locks, Plain, Section, Callees, Placed, Nests, Above,
    Sections, Owned, Rank, Hold, Least, Functions
<1>10. Placed("GetFace") /\ Nests("GetFace")
  BY Programs DEF GetFace, Owns, Locks, Plain, Section, Callees, Placed, Nests, Above,
    Sections, Owned, Rank, Hold, Least, Functions
<1>11. Placed("GetOS2Table") /\ Nests("GetOS2Table")
  BY Programs DEF GetOS2Table, Owns, Locks, Plain, Section, Callees, Placed, Nests, Above,
    Sections, Owned, Rank, Hold, Least, Functions
<1>12. Placed("EmbeddedBmpExist") /\ Nests("EmbeddedBmpExist")
  BY Programs DEF EmbeddedBmpExist, Owns, Locks, Plain, Section, Callees, Placed, Nests, Above,
    Sections, Owned, Rank, Hold, Least, Functions
<1>13. Placed("CopyGlyph") /\ Nests("CopyGlyph")
  BY Programs DEF CopyGlyph, Owns, Locks, Plain, Section, Callees, Placed, Nests, Above,
    Sections, Owned, Rank, Hold, Least, Functions
<1>14. Placed("GetCache") /\ Nests("GetCache")
  BY Programs DEF GetCache, Owns, Locks, Plain, Section, Callees, Placed, Nests, Above,
    Sections, Owned, Rank, Hold, Least, Functions
<1>15. Placed("CompactMap") /\ Nests("CompactMap")
  BY Programs DEF CompactMap, Owns, Locks, Plain, Section, Callees, Placed, Nests, Above,
    Sections, Owned, Rank, Hold, Least, Functions
<1>16. Placed("CompactChars") /\ Nests("CompactChars")
  BY Programs DEF CompactChars, Owns, Locks, Plain, Section, Callees, Placed, Nests, Above,
    Sections, Owned, Rank, Hold, Least, Functions
<1>17. Placed("FindFont") /\ Nests("FindFont")
  BY Programs DEF FindFont, Owns, Locks, Plain, Section, Callees, Placed, Nests, Above,
    Sections, Owned, Rank, Hold, Least, Functions
<1>18. Placed("FindFontByName") /\ Nests("FindFontByName")
  BY Programs DEF FindFontByName, Owns, Locks, Plain, Section, Callees, Placed, Nests, Above,
    Sections, Owned, Rank, Hold, Least, Functions
<1>19. Placed("FindFontById") /\ Nests("FindFontById")
  BY Programs DEF FindFontById, Owns, Locks, Plain, Section, Callees, Placed, Nests, Above,
    Sections, Owned, Rank, Hold, Least, Functions
<1>20. Placed("AddFont") /\ Nests("AddFont")
  BY Programs DEF AddFont, Owns, Locks, Plain, Section, Callees, Placed, Nests, Above,
    Sections, Owned, Rank, Hold, Least, Functions
<1>21. Placed("NewFontInfo") /\ Nests("NewFontInfo")
  BY Programs DEF NewFontInfo, Owns, Locks, Plain, Section, Callees, Placed, Nests, Above,
    Sections, Owned, Rank, Hold, Least, Functions
<1>22. Placed("FreeFontInfo") /\ Nests("FreeFontInfo")
  BY Programs DEF FreeFontInfo, Owns, Locks, Plain, Section, Callees, Placed, Nests, Above,
    Sections, Owned, Rank, Hold, Least, Functions
<1>23. Placed("Erase") /\ Nests("Erase")
  BY Programs DEF Erase, Owns, Locks, Plain, Section, Callees, Placed, Nests, Above,
    Sections, Owned, Rank, Hold, Least, Functions
<1>24. Placed("face_requester") /\ Nests("face_requester")
  BY Programs DEF face_requester, Owns, Locks, Plain, Section, Callees, Placed, Nests, Above,
    Sections, Owned, Rank, Hold, Least, Functions
<1>25. Placed("SysFontInit") /\ Nests("SysFontInit")
  BY Programs DEF SysFontInit, Owns, Locks, Plain, Section, Callees, Placed, Nests, Above,
    Sections, Owned, Rank, Hold, Least, Functions
<1>26. Placed("CloseFace") /\ Nests("CloseFace")
  BY Programs DEF CloseFace, Owns, Locks, Plain, Section, Callees, Placed, Nests, Above,
    Sections, Owned, Rank, Hold, Least, Functions
<1>27. Placed("CreateFontIndirectExW") /\ Nests("CreateFontIndirectExW")
  BY Programs DEF CreateFontIndirectExW, Owns, Locks, Plain, Section, Callees, Placed, Nests, Above,
    Sections, Owned, Rank, Hold, Least, Functions
<1>28. Placed("CopyForceFont") /\ Nests("CopyForceFont")
  BY Programs DEF CopyForceFont, Owns, Locks, Plain, Section, Callees, Placed, Nests, Above,
    Sections, Owned, Rank, Hold, Least, Functions
<1>29. Placed("DeleteObject") /\ Nests("DeleteObject")
  BY Programs DEF DeleteObject, Owns, Locks, Plain, Section, Callees, Placed, Nests, Above,
    Sections, Owned, Rank, Hold, Least, Functions
<1>30. Placed("AddToCachedFont") /\ Nests("AddToCachedFont")
  BY Programs DEF AddToCachedFont, Owns, Locks, Plain, Section, Callees, Placed, Nests, Above,
    Sections, Owned, Rank, Hold, Least, Functions
<1>31. Placed("DeleteCachedFont") /\ Nests("DeleteCachedFont")
  BY Programs DEF DeleteCachedFont, Owns, Locks, Plain, Section, Callees, Placed, Nests, Above,
    Sections, Owned, Rank, Hold, Least, Functions
<1>32. Placed("IMPL_RemoveFontResourceExW") /\ Nests("IMPL_RemoveFontResourceExW")
  BY Programs DEF IMPL_RemoveFontResourceExW, Owns, Locks, Plain, Section, Callees, Placed, Nests, Above,
    Sections, Owned, Rank, Hold, Least, Functions
<1>33. Placed("RemoveFontFile") /\ Nests("RemoveFontFile")
  BY Programs DEF RemoveFontFile, Owns, Locks, Plain, Section, Callees, Placed, Nests, Above,
    Sections, Owned, Rank, Hold, Least, Functions
<1>34. Placed("RemoveFontsOfFile") /\ Nests("RemoveFontsOfFile")
  BY Programs DEF RemoveFontsOfFile, Owns, Locks, Plain, Section, Callees, Placed, Nests, Above,
    Sections, Owned, Rank, Hold, Least, Functions
<1>35. Placed("RemoveFont") /\ Nests("RemoveFont")
  BY Programs DEF RemoveFont, Owns, Locks, Plain, Section, Callees, Placed, Nests, Above,
    Sections, Owned, Rank, Hold, Least, Functions
<1>36. Placed("RemoveFaceID") /\ Nests("RemoveFaceID")
  BY Programs DEF RemoveFaceID, Owns, Locks, Plain, Section, Callees, Placed, Nests, Above,
    Sections, Owned, Rank, Hold, Least, Functions
<1>37. Placed("GetInstance") /\ Nests("GetInstance")
  BY Programs DEF GetInstance, Owns, Locks, Plain, Section, Callees, Placed, Nests, Above,
    Sections, Owned, Rank, Hold, Least, Functions
<1>38. Placed("DelayedInit") /\ Nests("DelayedInit")
  BY Programs DEF DelayedInit, Owns, Locks, Plain, Section, Callees, Placed, Nests, Above,
    Sections, Owned, Rank, Hold, Least, Functions
<1>39. Placed("ReloadConfig") /\ Nests("ReloadConfig")
  BY Programs DEF ReloadConfig, Owns, Locks, Plain, Section, Callees, Placed, Nests, Above,
    Sections, Owned, Rank, Hold, Least, Functions
<1>40. Placed("Trace") /\ Nests("Trace")
  BY Programs DEF Trace, Owns, Locks, Plain, Section, Callees, Placed, Nests, Above,
    Sections, Owned, Rank, Hold, Least, Functions
<1>41. Placed("LoadSettings") /\ Nests("LoadSettings")
  BY Programs DEF LoadSettings, Owns, Locks, Plain, Section, Callees, Placed, Nests, Above,
    Sections, Owned, Rank, Hold, Least, Functions
<1>42. Placed("ResetInit") /\ Nests("ResetInit")
  BY Programs DEF ResetInit, Owns, Locks, Plain, Section, Callees, Placed, Nests, Above,
    Sections, Owned, Rank, Hold, Least, Functions
<1>43. Placed("UpdateLcdFilter") /\ Nests("UpdateLcdFilter")
  BY Programs DEF UpdateLcdFilter, Owns, Locks, Plain, Section, Callees, Placed, Nests, Above,
    Sections, Owned, Rank, Hold, Least, Functions
<1>44. Placed("ReloadAll") /\ Nests("ReloadAll")
  BY Programs DEF ReloadAll, Owns, Locks, Plain, Section, Callees, Placed, Nests, Above,
    Sections, Owned, Rank, Hold, Least, Functions
<1>45. Placed("ReloadFonts") /\ Nests("ReloadFonts")
  BY Programs DEF ReloadFonts, Owns, Locks, Plain, Section, Callees, Placed, Nests, Above,
    Sections, Owned, Rank, Hold, Least, Functions
<1> QED
  BY <1>1, <1>2, <1>3, <1>4, <1>5, <1>6, <1>7, <1>8, <1>9, <1>10, <1>11,
       <1>12, <1>13, <1>14, <1>15, <1>16, <1>17, <1>18, <1>19, <1>20,
       <1>21, <1>22, <1>23, <1>24, <1>25, <1>26, <1>27, <1>28, <1>29,
       <1>30, <1>31, <1>32, <1>33, <1>34, <1>35, <1>36, <1>37, <1>38,
       <1>39, <1>40, <1>41, <1>42, <1>43, <1>44, <1>45 DEF Functions

-----------------------------------------------------------------------------
(* One stack: each frame was called by the one below it, from an entry      *)
(* point on, and waits, now or later, for no rank below the ones held.      *)
Chained(s) == \A i \in 1 .. Len(s) - 1 : HasCalled(s[i]) /\ s[i + 1].fn = Called(s[i])
Ordered(s) ==
  \A i, j \in 1 .. Len(s) : i < j => Hold(Section(s[i].fn)) <= Least(s[j].fn)
Grounded(s) == Len(s) > 0 => s[1].fn \in EntryPoints
StackOK(s) == s \in Seq(Frame) /\ Chained(s) /\ Ordered(s) /\ Grounded(s)

(* Two stacks: the threads share a section only as owners of one class.     *)
Together(t, f, u, g) ==
  Section(f) = Section(g) /\ Section(f) # "none" => SameOwner(t, f, u, g)
Apart(t, s, u, r) ==
  \A i \in 1 .. Len(s), j \in 1 .. Len(r) : Together(t, s[i].fn, u, r[j].fn)

Inv ==
  /\ TypeOK
  /\ \A t \in Threads : StackOK(stack[t])
  /\ \A t, u \in Threads : Apart(t, stack[t], u, stack[u])
  /\ \A t \in Threads : waiting[t] # "none" => Section(waiting[t]) # "none"

NewFrame(f) == [fn |-> f, done |-> 0]
Advanced(s, i) == [s EXCEPT ![Len(s)].done = i]

LEMMA RankTyped ==
  ASSUME NEW f \in Functions
  PROVE  Least(f) \in Nat /\ Hold(Section(f)) \in Nat /\ Rank(Section(f)) \in 0..11
<1>1. Section(f) \in Sections /\ Least(f) \in 1..11
  BY Placement DEF Placed
<1>2. Rank(Section(f)) \in 0..11
  BY <1>1, RankInjective
<1> QED
  BY <1>1, <1>2 DEF Hold

LEMMA FrameFacts ==
  ASSUME NEW r \in Frame
  PROVE  /\ r.fn \in Functions /\ r.done \in Nat
         /\ HasCalled(r) => Called(r) \in Functions /\ Above(r.fn, Called(r))
  BY Placement DEF Frame, HasCalled, Called, Nests, Placed, Above

LEMMA CallFacts ==
  ASSUME NEW f \in Functions, NEW i \in 1 .. Len(Callees(f))
  PROVE  Callees(f)[i] \in Functions /\ Above(f, Callees(f)[i])
  BY Placement DEF Nests, Above

LEMMA NewFrameTyped ==
  ASSUME NEW f \in Functions
  PROVE  NewFrame(f) \in Frame /\ NewFrame(f).fn = f
  BY DEF NewFrame, Frame

LEMMA AppendFacts ==
  ASSUME NEW s \in Seq(Frame), NEW r \in Frame
  PROVE  /\ Append(s, r) \in Seq(Frame)
         /\ Len(Append(s, r)) = Len(s) + 1
         /\ \A i \in 1 .. Len(s) : Append(s, r)[i] = s[i]
         /\ Append(s, r)[Len(s) + 1] = r
  OBVIOUS

(* A function has gone on to its i-th callee.                               *)
LEMMA AdvancedFacts ==
  ASSUME NEW s \in Seq(Frame), Len(s) > 0, NEW i \in Nat
  PROVE  /\ Advanced(s, i) \in Seq(Frame)
         /\ Len(Advanced(s, i)) = Len(s)
         /\ \A k \in 1 .. Len(s) - 1 : Advanced(s, i)[k] = s[k]
         /\ \A k \in 1 .. Len(s) : Advanced(s, i)[k].fn = s[k].fn
         /\ Advanced(s, i)[Len(s)].done = i
<1> DEFINE r == [s[Len(s)] EXCEPT !.done = i]
<1>1. r \in Frame /\ r.fn = s[Len(s)].fn /\ r.done = i
  <2>1. s[Len(s)] \in Frame
    OBVIOUS
  <2> QED  BY <2>1 DEF Frame
<1>2. Advanced(s, i) = [s EXCEPT ![Len(s)] = r]
  BY DEF Advanced
<1> HIDE DEF r
<1> QED
  BY <1>1, <1>2

LEMMA AdvancedOK ==
  ASSUME NEW s, StackOK(s), Len(s) > 0, NEW i \in Nat
  PROVE  StackOK(Advanced(s, i))
<1>1. s \in Seq(Frame)
  BY DEF StackOK
<1>2. Chained(Advanced(s, i))
  BY <1>1, AdvancedFacts DEF StackOK, Chained
<1>3. Ordered(Advanced(s, i)) /\ Grounded(Advanced(s, i))
  BY <1>1, AdvancedFacts DEF StackOK, Ordered, Grounded
<1> QED
  BY <1>1, <1>2, <1>3, AdvancedFacts DEF StackOK

(* The callee that the innermost function has gone on to begins.            *)
LEMMA CalledOK ==
  ASSUME NEW s, StackOK(s), Len(s) > 0, HasCalled(s[Len(s)])
  PROVE  StackOK(Append(s, NewFrame(Called(s[Len(s)]))))
<1> DEFINE f == Called(s[Len(s)])
           r == NewFrame(f)
           new == Append(s, r)
<1>1. s \in Seq(Frame) /\ Len(s) \in Nat /\ \A i \in 1 .. Len(s) : s[i] \in Frame
  BY DEF StackOK
<1>2. f \in Functions /\ Above(s[Len(s)].fn, f)
  BY <1>1, FrameFacts
<1>3. r \in Frame /\ r.fn = f
  BY <1>2, NewFrameTyped
<1> HIDE DEF f, r
<1>4. /\ new \in Seq(Frame) /\ Len(new) = Len(s) + 1
      /\ \A i \in 1 .. Len(s) : new[i] = s[i]
      /\ new[Len(s) + 1] = r
  BY <1>1, <1>3, AppendFacts
<1> HIDE DEF new
<1>5. Chained(new)
  <2> SUFFICES ASSUME NEW i \in 1 .. Len(s)
               PROVE  HasCalled(new[i]) /\ new[i + 1].fn = Called(new[i])
    BY <1>1, <1>4 DEF Chained
  <2>1. CASE i < Len(s)
    BY <2>1, <1>1, <1>4 DEF StackOK, Chained
  <2>2. CASE i = Len(s)
    BY <2>2, <1>1, <1>3, <1>4 DEF f
  <2> QED  BY <2>1, <2>2, <1>1
<1>6. Ordered(new)
  <2> SUFFICES ASSUME NEW i \in 1 .. Len(s) + 1, NEW j \in 1 .. Len(s) + 1, i < j
               PROVE  Hold(Section(new[i].fn)) <= Least(new[j].fn)
    BY <1>4 DEF Ordered
  <2>1. CASE j <= Len(s)
    BY <2>1, <1>1, <1>4 DEF StackOK, Ordered
  <2>2. CASE j = Len(s) + 1 /\ i = Len(s)
    BY <2>2, <1>1, <1>2, <1>3, <1>4 DEF Above
  <2>3. CASE j = Len(s) + 1 /\ i < Len(s)
    <3>1. Hold(Section(s[i].fn)) <= Least(s[Len(s)].fn)
      BY <2>3, <1>1 DEF StackOK, Ordered
    <3>2. Least(s[Len(s)].fn) <= Least(f)
      BY <1>2 DEF Above
    <3>3. Hold(Section(s[i].fn)) \in Int /\ Least(s[Len(s)].fn) \in Int /\ Least(f) \in Int
      <4>1. s[i].fn \in Functions /\ s[Len(s)].fn \in Functions
        BY <1>1, <2>3, FrameFacts
      <4> QED
        BY <4>1, <1>2, RankTyped
    <3> QED
      BY <2>3, <3>1, <3>2, <3>3, <1>1, <1>3, <1>4
  <2> QED  BY <2>1, <2>2, <2>3, <1>1
<1>7. Grounded(new)
  BY <1>1, <1>4 DEF StackOK, Grounded
<1> QED
  BY <1>4, <1>5, <1>6, <1>7 DEF StackOK, new, r, f

LEMMA StartedOK ==
  ASSUME NEW f \in EntryPoints
  PROVE  StackOK(Append(<<>>, NewFrame(f)))
<1> DEFINE new == Append(<<>>, NewFrame(f))
<1>1. f \in Functions
  BY DEF EntryPoints, Functions
<1>2. NewFrame(f) \in Frame /\ NewFrame(f).fn = f
  BY <1>1, NewFrameTyped
<1>3. new \in Seq(Frame) /\ Len(new) = 1 /\ new[1] = NewFrame(f)
  BY <1>2, AppendFacts
<1> QED
  BY <1>2, <1>3 DEF StackOK, Chained, Ordered, Grounded

LEMMA CutFacts ==
  ASSUME NEW s \in Seq(Frame), Len(s) > 0
  PROVE  /\ SubSeq(s, 1, Len(s) - 1) \in Seq(Frame)
         /\ Len(SubSeq(s, 1, Len(s) - 1)) = Len(s) - 1
         /\ \A i \in 1 .. Len(s) - 1 : SubSeq(s, 1, Len(s) - 1)[i] = s[i]
<1>1. PICK n \in Nat : n = Len(s) - 1
  OBVIOUS
<1>2. \A i \in 1 .. n : s[i] \in Frame
  BY <1>1
<1>3. /\ SubSeq(s, 1, n) \in Seq(Frame)
      /\ Len(SubSeq(s, 1, n)) = IF 1 <= n THEN n - 1 + 1 ELSE 0
      /\ \A i \in 1 .. n - 1 + 1 : SubSeq(s, 1, n)[i] = s[1 + i - 1]
  BY <1>2, SubSeqProperties
<1>4. Len(SubSeq(s, 1, n)) = n
  BY <1>3
<1>5. \A i \in 1 .. n : SubSeq(s, 1, n)[i] = s[i]
  <2> SUFFICES ASSUME NEW i \in 1 .. n PROVE SubSeq(s, 1, n)[i] = s[i]
    OBVIOUS
  <2>1. i \in 1 .. n - 1 + 1 /\ 1 + i - 1 = i
    OBVIOUS
  <2> QED  BY <2>1, <1>3
<1> QED
  BY <1>1, <1>3, <1>4, <1>5

LEMMA CutOK ==
  ASSUME NEW s, StackOK(s), Len(s) > 0
  PROVE  StackOK(SubSeq(s, 1, Len(s) - 1))
<1>1. s \in Seq(Frame) /\ Len(s) \in Nat
  BY DEF StackOK
<1> DEFINE new == SubSeq(s, 1, Len(s) - 1)
<1>2. /\ new \in Seq(Frame) /\ Len(new) = Len(s) - 1
      /\ \A i \in 1 .. Len(s) - 1 : new[i] = s[i]
  BY <1>1, CutFacts
<1> HIDE DEF new
<1>3. Chained(new)
  BY <1>1, <1>2 DEF StackOK, Chained
<1>4. Ordered(new)
  BY <1>1, <1>2 DEF StackOK, Ordered
<1>5. Grounded(new)
  BY <1>1, <1>2 DEF StackOK, Grounded
<1>6. StackOK(new)
  BY <1>2, <1>3, <1>4, <1>5 DEF StackOK
<1> QED
  BY <1>6 DEF new

-----------------------------------------------------------------------------
LEMMA TogetherSymmetric ==
  ASSUME NEW t, NEW u, NEW f \in Functions, NEW g \in Functions, Together(t, f, u, g)
  PROVE  Together(u, g, t, f)
  BY Placement DEF Together, SameOwner, Placed

LEMMA NamesTyped ==
  ASSUME NEW s \in Seq(Frame), NEW i \in 1 .. Len(s)
  PROVE  s[i].fn \in Functions
<1>1. s[i] \in Frame
  OBVIOUS
<1> QED  BY <1>1 DEF Frame

(* The guard of f is free: f is together with all that the threads hold.    *)
LEMMA FreeGuard ==
  ASSUME Inv, NEW t \in Threads, NEW f \in Functions,
         Section(f) = "none" \/ \A u \in Threads : ~Blocks(u, t, f),
         NEW u \in Threads, NEW j \in 1 .. Len(stack[u])
  PROVE  Together(t, f, u, stack[u][j].fn) /\ Together(u, stack[u][j].fn, t, f)
<1>1. stack[u] \in Seq(Frame)
  BY DEF Inv, TypeOK
<1>2. Together(t, f, u, stack[u][j].fn)
  BY <1>1 DEF Together, Blocks
<1>3. stack[u][j].fn \in Functions
  BY <1>1, NamesTyped
<1> QED
  BY <1>2, <1>3, TogetherSymmetric

(* Stacks: what a step that changes the stack of one thread leaves to show. *)
StacksOK ==
  /\ \A t \in Threads : StackOK(stack[t])
  /\ \A t, u \in Threads : Apart(t, stack[t], u, stack[u])

LEMMA OneStackChanges ==
  ASSUME Inv, NEW t \in Threads, NEW new, StackOK(new),
         stack' = [stack EXCEPT ![t] = new],
         Apart(t, new, t, new),
         \A u \in Threads \ {t} : Apart(t, new, u, stack[u]) /\ Apart(u, stack[u], t, new)
  PROVE  StacksOK' /\ stack' \in [Threads -> Seq(Frame)]
<1>1. stack \in [Threads -> Seq(Frame)] /\ new \in Seq(Frame)
  BY DEF Inv, TypeOK, StackOK
<1>2. stack'[t] = new /\ \A u \in Threads \ {t} : stack'[u] = stack[u]
  BY <1>1
<1>3. \A u \in Threads : StackOK(stack'[u])
  BY <1>2 DEF Inv
<1>4. ASSUME NEW u \in Threads, NEW v \in Threads
      PROVE  Apart(u, stack'[u], v, stack'[v])
  <2>1. CASE u = t /\ v = t
    BY <2>1, <1>2
  <2>2. CASE u = t /\ v # t
    BY <2>2, <1>2
  <2>3. CASE u # t /\ v = t
    BY <2>3, <1>2
  <2>4. CASE u # t /\ v # t
    BY <2>4, <1>2 DEF Inv
  <2> QED  BY <2>1, <2>2, <2>3, <2>4
<1> QED
  BY <1>1, <1>3, <1>4 DEF StacksOK

(* Function f begins on a stack of the same functions as the present one.   *)
LEMMA PushKeeps ==
  ASSUME Inv, NEW t \in Threads, NEW f \in Functions, NEW under,
         StackOK(Append(under, NewFrame(f))),
         under \in Seq(Frame), Len(under) = Len(stack[t]),
         \A k \in 1 .. Len(under) : under[k].fn = stack[t][k].fn,
         Section(f) = "none" \/ \A u \in Threads : ~Blocks(u, t, f),
         stack' = [stack EXCEPT ![t] = Append(under, NewFrame(f))]
  PROVE  StacksOK' /\ stack' \in [Threads -> Seq(Frame)]
<1> DEFINE new == Append(under, NewFrame(f))
<1>1. /\ Len(new) = Len(under) + 1
      /\ \A k \in 1 .. Len(under) : new[k].fn = stack[t][k].fn
      /\ new[Len(under) + 1].fn = f
      /\ Len(under) \in Nat
  BY NewFrameTyped, AppendFacts
<1> HIDE DEF new
<1>2. Apart(t, new, t, new)
  <2> SUFFICES ASSUME NEW i \in 1 .. Len(new), NEW j \in 1 .. Len(new)
               PROVE  Together(t, new[i].fn, t, new[j].fn)
    BY DEF Apart
  <2>1. CASE i <= Len(under) /\ j <= Len(under)
    <3>1. Apart(t, stack[t], t, stack[t])
      BY DEF Inv
    <3> QED  BY <3>1, <2>1, <1>1 DEF Apart
  <2>2. CASE i = Len(under) + 1 /\ j <= Len(under)
    BY <2>2, <1>1, FreeGuard
  <2>3. CASE i <= Len(under) /\ j = Len(under) + 1
    BY <2>3, <1>1, FreeGuard
  <2>4. CASE i = Len(under) + 1 /\ j = Len(under) + 1
    BY <2>4, <1>1 DEF Together, SameOwner
  <2> QED  BY <2>1, <2>2, <2>3, <2>4, <1>1
<1>3. ASSUME NEW u \in Threads \ {t}
      PROVE  Apart(t, new, u, stack[u]) /\ Apart(u, stack[u], t, new)
  <2>1. Apart(t, stack[t], u, stack[u]) /\ Apart(u, stack[u], t, stack[t])
    BY DEF Inv
  <2>2. ASSUME NEW i \in 1 .. Len(new), NEW j \in 1 .. Len(stack[u])
        PROVE  /\ Together(t, new[i].fn, u, stack[u][j].fn)
               /\ Together(u, stack[u][j].fn, t, new[i].fn)
    <3>1. CASE i <= Len(under)
      BY <3>1, <2>1, <1>1 DEF Apart
    <3>2. CASE i = Len(under) + 1
      BY <3>2, <1>1, FreeGuard
    <3> QED  BY <3>1, <3>2, <1>1
  <2> QED  BY <2>2 DEF Apart
<1> QED
  BY <1>2, <1>3, OneStackChanges DEF new

(* The stack of one thread is exchanged for one whose functions it holds    *)
(* already.                                                                 *)
LEMMA NoMoreHeld ==
  ASSUME Inv, NEW t \in Threads, NEW new, StackOK(new), Len(new) <= Len(stack[t]),
         \A k \in 1 .. Len(new) : new[k].fn = stack[t][k].fn,
         stack' = [stack EXCEPT ![t] = new]
  PROVE  StacksOK' /\ stack' \in [Threads -> Seq(Frame)]
<1>1. Len(new) \in Nat /\ Len(stack[t]) \in Nat
  BY DEF Inv, TypeOK, StackOK
<1>2. Apart(t, new, t, new)
  <2>1. Apart(t, stack[t], t, stack[t])
    BY DEF Inv
  <2> QED  BY <2>1, <1>1 DEF Apart
<1>3. ASSUME NEW u \in Threads \ {t}
      PROVE  Apart(t, new, u, stack[u]) /\ Apart(u, stack[u], t, new)
  <2>1. Apart(t, stack[t], u, stack[u]) /\ Apart(u, stack[u], t, stack[t])
    BY DEF Inv
  <2> QED  BY <2>1, <1>1 DEF Apart
<1> QED
  BY <1>2, <1>3, OneStackChanges

(* A thread that waits stands at a guard its innermost function has called. *)
WaitOK(t) ==
  waiting[t] # "none" =>
    /\ stack[t] # <<>> /\ HasCalled(Top(t)) /\ waiting[t] = Called(Top(t))
    /\ Section(waiting[t]) # "none"

LEMMA InvParts ==
  Inv <=> /\ stack \in [Threads -> Seq(Frame)]
          /\ waiting \in [Threads -> Functions \cup {"none"}]
          /\ calls \in [Threads -> 0..MaxCalls] /\ inited \in BOOLEAN
          /\ StacksOK /\ \A t \in Threads : WaitOK(t)
  BY DEF Inv, TypeOK, StacksOK, StackOK, Chained, WaitOK

LEMMA InvNext ==
  ASSUME stack' \in [Threads -> Seq(Frame)],
         waiting' \in [Threads -> Functions \cup {"none"}],
         calls' \in [Threads -> 0..MaxCalls], inited' \in BOOLEAN,
         StacksOK', \A t \in Threads : WaitOK(t)'
  PROVE  Inv'
<1>1. \A t \in Threads : StackOK(stack'[t]) /\ Chained(stack'[t])
  BY DEF StacksOK, StackOK
<1>2. TypeOK'
  BY <1>1 DEF TypeOK, WaitOK, Chained
<1> QED
  BY <1>1, <1>2 DEF Inv, StacksOK, WaitOK

LEMMA OthersWait ==
  ASSUME Inv, NEW t \in Threads, NEW new, stack' = [stack EXCEPT ![t] = new],
         NEW u \in Threads \ {t}, waiting'[u] = waiting[u]
  PROVE  WaitOK(u)'
<1>1. stack'[u] = stack[u]
  BY DEF Inv, TypeOK
<1> QED
  BY <1>1, InvParts DEF WaitOK, Top

LEMMA EntryPlain == \A f \in EntryPoints : f \in Functions /\ Section(f) = "none"
  BY Programs DEF EntryPoints, Functions, Section, Plain, Locks, Owns, IMPL_ExtTextOutW,
     CreateFontIndirectExW, DeleteObject, IMPL_RemoveFontResourceExW, ReloadConfig

LEMMA InitOK == Init => Inv
<1> SUFFICES ASSUME Init PROVE Inv
  OBVIOUS
<1>1. StackOK(<<>>)
  <2>1. <<>> \in Seq(Frame) /\ Len(<<>>) = 0
    OBVIOUS
  <2> QED  BY <2>1 DEF StackOK, Chained, Ordered, Grounded
<1>2. \A t, u \in Threads : Apart(t, <<>>, u, <<>>)
  BY DEF Apart
<1>3. stack \in [Threads -> Seq(Frame)] /\ \A t \in Threads : stack[t] = <<>>
  BY DEF Init
<1>4. StacksOK
  BY <1>1, <1>2, <1>3 DEF StacksOK
<1>5. waiting \in [Threads -> Functions \cup {"none"}] /\ \A t \in Threads : WaitOK(t)
  BY DEF Init, WaitOK
<1>6. calls \in [Threads -> 0..MaxCalls] /\ inited \in BOOLEAN
  <2>1. 0 \in 0..MaxCalls
    BY LockOrderAssumption
  <2> QED  BY <2>1 DEF Init
<1> QED
  BY <1>3, <1>4, <1>5, <1>6, InvParts

LEMMA BeginKeeps ==
  ASSUME Inv, NEW t \in Threads, Begin(t)
  PROVE  Inv'
<1>1. PICK f \in Operations :
        /\ stack[t] = <<>> /\ calls[t] < MaxCalls
        /\ calls' = [calls EXCEPT ![t] = @ + 1]
        /\ Push(<<>>, t, f)
        /\ waiting' = waiting
  BY DEF Begin
<1>2. f \in EntryPoints /\ f \in Functions /\ Section(f) = "none"
  BY LockOrderAssumption, EntryPlain
<1>3. stack' = [stack EXCEPT ![t] = Append(<<>>, NewFrame(f))]
  BY <1>1 DEF Push, NewFrame
<1>4. StackOK(Append(<<>>, NewFrame(f)))
  BY <1>2, StartedOK
<1>5. <<>> \in Seq(Frame) /\ Len(<<>>) = 0
  OBVIOUS
<1>6. StacksOK' /\ stack' \in [Threads -> Seq(Frame)]
  BY <1>1, <1>2, <1>3, <1>4, <1>5, PushKeeps
<1>7. waiting[t] = "none"
  BY <1>1, InvParts DEF WaitOK
<1>8. \A u \in Threads : WaitOK(u)'
  BY <1>1, <1>3, <1>7, OthersWait DEF WaitOK
<1>9. calls' \in [Threads -> 0..MaxCalls] /\ inited' \in BOOLEAN
  BY <1>1, InvParts, LockOrderAssumption DEF Push
<1>10. waiting' \in [Threads -> Functions \cup {"none"}]
  BY <1>1, InvParts
<1> QED
  BY <1>6, <1>8, <1>9, <1>10, InvNext

LEMMA CallKeeps ==
  ASSUME Inv, NEW t \in Threads, Call(t)
  PROVE  Inv'
<1> DEFINE s == stack[t]
<1>1. PICK i \in Top(t).done + 1 .. Len(Callees(Top(t).fn)) :
        LET f == Callees(Top(t).fn)[i]
            here == Advanced(s, i)
        IN \/ /\ Section(f) = "none" /\ Push(here, t, f) /\ waiting' = waiting
           \/ /\ Section(f) # "none" /\ stack' = [stack EXCEPT ![t] = here]
              /\ waiting' = [waiting EXCEPT ![t] = f] /\ inited' = inited
  BY DEF Call, Advanced
<1>2. calls' = calls /\ s # <<>> /\ waiting[t] = "none"
  BY DEF Call
<1>3. s \in Seq(Frame) /\ Len(s) \in Nat /\ Len(s) > 0 /\ StackOK(s)
  BY <1>2, InvParts DEF StacksOK
<1>4. Top(t) = s[Len(s)] /\ Top(t) \in Frame
  BY <1>3 DEF Top
<1>5. /\ Top(t).fn \in Functions /\ i \in 1 .. Len(Callees(Top(t).fn)) /\ i \in Nat
      /\ i \in DOMAIN Callees(Top(t).fn)
  BY <1>4, Placement DEF Frame, Placed
<1> DEFINE f == Callees(Top(t).fn)[i]
           here == Advanced(s, i)
<1>6. f \in Functions
  BY <1>5, CallFacts
<1>7. /\ here \in Seq(Frame) /\ Len(here) = Len(s)
      /\ \A k \in 1 .. Len(here) : here[k].fn = stack[t][k].fn
      /\ here[Len(here)].fn = Top(t).fn /\ here[Len(here)].done = i
  BY <1>3, <1>4, <1>5, AdvancedFacts
<1>8. StackOK(here)
  BY <1>3, <1>5, AdvancedOK
<1>9. HasCalled(here[Len(here)]) /\ Called(here[Len(here)]) = f
  BY <1>5, <1>7 DEF HasCalled, Called
<1> HIDE DEF here, f
<1>10. CASE Section(f) = "none" /\ Push(here, t, f) /\ waiting' = waiting
  <2>1. stack' = [stack EXCEPT ![t] = Append(here, NewFrame(f))]
    BY <1>10 DEF Push, NewFrame
  <2>2. StackOK(Append(here, NewFrame(f)))
    BY <1>3, <1>7, <1>8, <1>9, CalledOK
  <2>3. StacksOK' /\ stack' \in [Threads -> Seq(Frame)]
    BY <1>6, <1>7, <1>10, <2>1, <2>2, PushKeeps DEF s
  <2>4. \A u \in Threads : WaitOK(u)'
    BY <1>2, <1>10, <2>1, OthersWait DEF WaitOK
  <2>5. /\ waiting' \in [Threads -> Functions \cup {"none"}]
        /\ calls' \in [Threads -> 0..MaxCalls] /\ inited' \in BOOLEAN
    BY <1>2, <1>10, InvParts DEF Push
  <2> QED
    BY <2>3, <2>4, <2>5, InvNext
<1>11. CASE /\ Section(f) # "none" /\ stack' = [stack EXCEPT ![t] = here]
            /\ waiting' = [waiting EXCEPT ![t] = f] /\ inited' = inited
  <2>1. StacksOK' /\ stack' \in [Threads -> Seq(Frame)]
    <3>1. Len(here) <= Len(stack[t]) /\ stack' = [stack EXCEPT ![t] = here]
      BY <1>3, <1>7, <1>11
    <3> HIDE DEF s
    <3> QED  BY <1>7, <1>8, <3>1, NoMoreHeld
  <2>2. stack'[t] = here /\ waiting'[t] = f
    BY <1>11, InvParts
  <2>3. WaitOK(t)'
    BY <2>2, <1>3, <1>7, <1>9, <1>11 DEF WaitOK, Top
  <2>4. \A u \in Threads \ {t} : waiting'[u] = waiting[u]
    BY <1>11, InvParts
  <2>5. \A u \in Threads : WaitOK(u)'
    BY <1>11, <2>3, <2>4, OthersWait
  <2>6. /\ waiting' \in [Threads -> Functions \cup {"none"}]
        /\ calls' \in [Threads -> 0..MaxCalls] /\ inited' \in BOOLEAN
    BY <1>2, <1>6, <1>11, InvParts
  <2> QED
    BY <2>1, <2>5, <2>6, InvNext
<1> QED
  BY <1>1, <1>10, <1>11 DEF here, f

LEMMA EnterKeeps ==
  ASSUME Inv, NEW t \in Threads, Enter(t)
  PROVE  Inv'
<1> DEFINE s == stack[t]
           f == waiting[t]
<1>1. /\ f # "none" /\ \A u \in Threads : ~Blocks(u, t, f)
      /\ Push(s, t, f) /\ waiting' = [waiting EXCEPT ![t] = "none"] /\ calls' = calls
  BY DEF Enter
<1>2. /\ s \in Seq(Frame) /\ Len(s) \in Nat /\ StackOK(s) /\ f \in Functions
      /\ s # <<>> /\ HasCalled(s[Len(s)]) /\ f = Called(s[Len(s)])
  BY <1>1, InvParts DEF StacksOK, WaitOK, Top
<1> HIDE DEF f
<1>3. stack' = [stack EXCEPT ![t] = Append(s, NewFrame(f))]
  BY <1>1 DEF Push, NewFrame
<1>4. StackOK(Append(s, NewFrame(f)))
  BY <1>2, CalledOK
<1>5. StacksOK' /\ stack' \in [Threads -> Seq(Frame)]
  BY <1>1, <1>2, <1>3, <1>4, PushKeeps
<1>6. waiting'[t] = "none" /\ \A u \in Threads \ {t} : waiting'[u] = waiting[u]
  BY <1>1, InvParts
<1>7. \A u \in Threads : WaitOK(u)'
  BY <1>3, <1>6, OthersWait DEF WaitOK
<1>8. /\ waiting' \in [Threads -> Functions \cup {"none"}]
      /\ calls' \in [Threads -> 0..MaxCalls] /\ inited' \in BOOLEAN
  BY <1>1, InvParts DEF Push
<1> QED
  BY <1>5, <1>7, <1>8, InvNext

LEMMA ReturnKeeps ==
  ASSUME Inv, NEW t \in Threads, Return(t)
  PROVE  Inv'
<1> DEFINE s == stack[t]
           new == SubSeq(s, 1, Len(s) - 1)
<1>1. /\ s # <<>> /\ waiting[t] = "none" /\ stack' = [stack EXCEPT ![t] = new]
      /\ waiting' = waiting /\ calls' = calls /\ inited' = inited
  BY InvParts DEF Return
<1>2. s \in Seq(Frame) /\ Len(s) \in Nat /\ Len(s) > 0 /\ StackOK(s)
  BY <1>1, InvParts DEF StacksOK
<1>3. StackOK(new) /\ Len(new) = Len(s) - 1 /\ \A k \in 1 .. Len(s) - 1 : new[k] = s[k]
  BY <1>2, CutOK, CutFacts
<1> HIDE DEF new
<1>4. StacksOK' /\ stack' \in [Threads -> Seq(Frame)]
  <2>1. /\ Len(new) <= Len(stack[t]) /\ stack' = [stack EXCEPT ![t] = new]
        /\ \A k \in 1 .. Len(new) : new[k].fn = stack[t][k].fn
    BY <1>1, <1>2, <1>3
  <2> HIDE DEF s
  <2> QED  BY <1>3, <2>1, NoMoreHeld
<1>5. \A u \in Threads : WaitOK(u)'
  BY <1>1, OthersWait DEF WaitOK
<1>6. /\ waiting' \in [Threads -> Functions \cup {"none"}]
      /\ calls' \in [Threads -> 0..MaxCalls] /\ inited' \in BOOLEAN
  BY <1>1, InvParts
<1> QED
  BY <1>4, <1>5, <1>6, InvNext

LEMMA InvHolds == Spec => []Inv
<1>1. Init => Inv
  BY InitOK
<1>2. Inv /\ [Next]_vars => Inv'
  <2> SUFFICES ASSUME Inv, [Next]_vars PROVE Inv'
    OBVIOUS
  <2>1. ASSUME NEW t \in Threads, Step(t) PROVE Inv'
    BY <2>1, BeginKeeps, CallKeeps, EnterKeeps, ReturnKeeps DEF Step
  <2>2. CASE UNCHANGED vars
    BY <2>2 DEF vars, Inv, TypeOK, Top, Apart, StackOK, SameOwner, Together
  <2> QED  BY <2>1, <2>2 DEF Next, Finished
<1> QED  BY <1>1, <1>2, PTL DEF Spec

(* In every state the variables have their types, each frame of a stack was *)
(* called by the one below it, and a thread waits at the guard its          *)
(* innermost function has called.                                           *)
THEOREM TypeCorrect == Spec => []TypeOK
<1>1. Inv => TypeOK
  BY DEF Inv
<1> QED  BY <1>1, InvHolds, PTL

-----------------------------------------------------------------------------
(* What thread t waits for is above all it holds.                           *)
LEMMA WaitsAbove ==
  ASSUME Inv, NEW t \in Threads, waiting[t] # "none", NEW i \in 1 .. Len(stack[t])
  PROVE  /\ waiting[t] \in Functions /\ stack[t][i].fn \in Functions
         /\ Hold(Section(stack[t][i].fn)) <= Rank(Section(waiting[t]))
<1> DEFINE s == stack[t]
           f == waiting[t]
           n == Len(s)
<1>1. /\ s \in Seq(Frame) /\ n \in Nat /\ StackOK(s) /\ f \in Functions
      /\ s # <<>> /\ HasCalled(s[n]) /\ f = Called(s[n]) /\ Section(f) # "none"
  BY InvParts DEF StacksOK, WaitOK, Top
<1>2. s[n] \in Frame /\ s[i].fn \in Functions /\ s[n].fn \in Functions
  BY <1>1, NamesTyped
<1>3. Above(s[n].fn, f)
  BY <1>1, <1>2, FrameFacts
<1>4. waiting[t] = f
  OBVIOUS
<1> HIDE DEF f
<1>5. Least(f) <= Rank(Section(f))
  BY <1>1, Placement DEF Placed
<1>6. Hold(Section(s[i].fn)) <= Least(f)
  <2>1. CASE i = n
    BY <2>1, <1>3 DEF Above
  <2>2. CASE i < n
    <3>1. Hold(Section(s[i].fn)) <= Least(s[n].fn)
      BY <2>2, <1>1 DEF StackOK, Ordered
    <3>2. Least(s[n].fn) <= Least(f)
      BY <1>3 DEF Above
    <3> QED
      BY <3>1, <3>2, <1>1, <1>2, RankTyped
  <2> QED  BY <2>1, <2>2, <1>1
<1>7. /\ Least(f) \in Nat /\ Rank(Section(f)) \in Nat
      /\ Hold(Section(s[i].fn)) \in Nat
  <2>1. f \in Functions
    BY <1>1
  <2>2. Least(f) \in Nat /\ Rank(Section(f)) \in Nat
    BY <2>1, RankTyped
  <2>3. Hold(Section(s[i].fn)) \in Nat
    BY <1>2, RankTyped
  <2> QED  BY <2>2, <2>3
<1>8. Hold(Section(s[i].fn)) <= Rank(Section(f))
  BY <1>5, <1>6, <1>7
<1>9. stack[t][i].fn = s[i].fn
  OBVIOUS
<1> HIDE DEF s
<1> QED
  BY <1>1, <1>2, <1>8, <1>4, <1>9

(* If u keeps t waiting and waits for nothing higher itself, it waits to    *)
(* enter again the plain section it keeps t out of.                         *)
LEMMA SameSection ==
  ASSUME Inv, NEW t \in Threads, NEW u \in Threads,
         waiting[t] # "none", waiting[u] # "none", Blocks(u, t, waiting[t]),
         Rank(Section(waiting[u])) <= Rank(Section(waiting[t]))
  PROVE  /\ Section(waiting[u]) = Section(waiting[t])
         /\ Section(waiting[u]) \notin Owned
         /\ \E j \in 1 .. Len(stack[u]) : Section(stack[u][j].fn) = Section(waiting[u])
<1>1. stack[u] \in Seq(Frame) /\ waiting[t] \in Functions /\ waiting[u] \in Functions
  BY InvParts
<1>2. PICK j \in 1 .. Len(stack[u]) : Section(stack[u][j].fn) = Section(waiting[t])
  BY <1>1 DEF Blocks
<1>3. Hold(Section(waiting[t])) <= Rank(Section(waiting[u]))
  BY <1>2, WaitsAbove
<1>5. /\ Section(waiting[t]) \in Sections /\ Section(waiting[u]) \in Sections
      /\ Rank(Section(waiting[t])) \in 0..11 /\ Rank(Section(waiting[u])) \in 0..11
  BY <1>1, Placement, RankTyped DEF Placed
<1>6. Section(waiting[t]) \notin Owned
  BY <1>3, <1>5 DEF Hold
<1>7. Rank(Section(waiting[t])) = Rank(Section(waiting[u]))
  BY <1>3, <1>5, <1>6 DEF Hold
<1>8. Section(waiting[u]) = Section(waiting[t])
  BY <1>5, <1>7, RankInjective
<1> QED
  BY <1>2, <1>6, <1>8

(* A thread that holds a plain section is not kept waiting at it.           *)
LEMMA EntersAgain ==
  ASSUME Inv, NEW u \in Threads, NEW v \in Threads, waiting[u] # "none",
         Section(waiting[u]) \notin Owned,
         NEW j \in 1 .. Len(stack[u]), Section(stack[u][j].fn) = Section(waiting[u])
  PROVE  ~Blocks(v, u, waiting[u])
<1> SUFFICES ASSUME Blocks(v, u, waiting[u]) PROVE FALSE
  OBVIOUS
<1>1. /\ stack[u] \in Seq(Frame) /\ stack[v] \in Seq(Frame) /\ waiting[u] \in Functions
      /\ Section(waiting[u]) # "none"
  BY InvParts DEF WaitOK
<1>2. PICK i \in 1 .. Len(stack[v]) :
        /\ Section(stack[v][i].fn) = Section(waiting[u])
        /\ ~SameOwner(u, waiting[u], v, stack[v][i].fn)
  BY <1>1 DEF Blocks
<1>3. Together(u, stack[u][j].fn, v, stack[v][i].fn)
  <2>1. Apart(u, stack[u], v, stack[v])
    BY DEF Inv
  <2> QED  BY <2>1 DEF Apart
<1>5. SameOwner(u, stack[u][j].fn, v, stack[v][i].fn)
  BY <1>1, <1>2, <1>3 DEF Together
<1>6. stack[u][j].fn \in Functions
  BY <1>1, NamesTyped
<1>7. Code(stack[u][j].fn).class = 0 /\ Code(waiting[u]).class = 0
  BY <1>1, <1>6, Placement DEF Placed
<1> QED
  BY <1>2, <1>5, <1>7 DEF SameOwner

LEMMA LeastNatural ==
  ASSUME NEW S \in SUBSET Nat, S # {} PROVE \E x \in S : \A y \in S : x <= y
<1> DEFINE Less == OpToRel(<, Nat)
<1>1. IsWellFoundedOn(Less, Nat)
  BY NatLessThanWellFounded
<1>2. \A x, y \in Nat : x < y => <<x, y>> \in Less
  BY DEF OpToRel
<1> HIDE DEF Less
<1>3. PICK x \in S : \A y \in S : <<y, x>> \notin Less
  BY <1>1, WFMin
<1>5. \A y \in S : ~(y < x)
  BY <1>2, <1>3, Zenon
<1> QED  BY <1>5

LEMMA HighestWait ==
  ASSUME Inv, NEW T \in SUBSET Threads, T # {}, \A t \in T : waiting[t] # "none"
  PROVE  \E t \in T : \A u \in T : Rank(Section(waiting[u])) <= Rank(Section(waiting[t]))
<1> DEFINE R(t) == Rank(Section(waiting[t]))
           P == {11 - R(t) : t \in T}
<1>1. \A t \in T : R(t) \in 0..11
  BY InvParts, RankTyped
<1> HIDE DEF R
<1>2. P \subseteq Nat /\ P # {}
  BY <1>1
<1>3. PICK m \in P : \A k \in P : m <= k
  <2> HIDE DEF P
  <2> QED  BY <1>2, LeastNatural
<1>5. PICK t \in T : m = 11 - R(t)
  OBVIOUS
<1>6. ASSUME NEW u \in T PROVE R(u) <= R(t)
  <2>1. 11 - R(u) \in P
    OBVIOUS
  <2>2. m <= 11 - R(u)
    BY <1>3, <2>1
  <2>3. R(u) \in 0..11 /\ R(t) \in 0..11
    BY <1>1
  <2> QED  BY <2>2, <2>3, <1>5
<1> QED  BY <1>6 DEF R

(* Among any threads, of any number of threads, there is one that no other  *)
(* of them keeps waiting: no standstill in the sections.                    *)
THEOREM NoStandstill == Spec => []NoCircularWait
<1>1. Inv => NoCircularWait
  <2> SUFFICES ASSUME Inv, NEW T \in SUBSET Threads, T # {}
               PROVE  \E t \in T : \A u \in T :
                        waiting[t] = "none" \/ ~Blocks(u, t, waiting[t])
    BY DEF NoCircularWait
  <2>1. CASE \E t \in T : waiting[t] = "none"
    BY <2>1
  <2>2. CASE \A t \in T : waiting[t] # "none"
    <3>1. PICK t \in T : \A u \in T : Rank(Section(waiting[u])) <= Rank(Section(waiting[t]))
      BY <2>2, HighestWait
    <3>2. CASE \A u \in T : ~Blocks(u, t, waiting[t])
      BY <3>2
    <3>3. CASE \E u \in T : Blocks(u, t, waiting[t])
      <4>1. PICK u \in T : Blocks(u, t, waiting[t])
        BY <3>3
      <4>2. /\ Section(waiting[u]) \notin Owned
            /\ \E j \in 1 .. Len(stack[u]) : Section(stack[u][j].fn) = Section(waiting[u])
        BY <2>2, <3>1, <4>1, SameSection
      <4>3. \A v \in T : ~Blocks(v, u, waiting[u])
        BY <2>2, <4>2, EntersAgain
      <4> QED  BY <4>3
    <3> QED  BY <3>2, <3>3
  <2> QED  BY <2>1, <2>2
<1> QED  BY <1>1, InvHolds, PTL

-----------------------------------------------------------------------------
(* A function that is not called from outside was called by the one below.  *)
LEMMA CalledBy ==
  ASSUME Inv, NEW t \in Threads, NEW i \in 1 .. Len(stack[t]),
         stack[t][i].fn \notin EntryPoints
  PROVE  \E k \in 1 .. Len(stack[t]) : Above(stack[t][k].fn, stack[t][i].fn)
<1> DEFINE s == stack[t]
<1>1. s \in Seq(Frame) /\ Len(s) \in Nat /\ Chained(s) /\ Grounded(s)
  BY DEF Inv, StackOK
<1>2. i > 1
  BY <1>1 DEF Grounded
<1>3. PICK k \in 1 .. Len(s) - 1 : i = k + 1
  BY <1>1, <1>2
<1>4. HasCalled(s[k]) /\ s[k + 1].fn = Called(s[k]) /\ s[k] \in Frame
  BY <1>1 DEF Chained
<1> QED
  BY <1>1, <1>3, <1>4, FrameFacts

Holds(t, section) == \E i \in 1 .. Len(stack[t]) : Section(stack[t][i].fn) = section

LEMMA InsideIndex ==
  ASSUME Inv, NEW t \in Threads, NEW f, Inside(t, f)
  PROVE  \E i \in 1 .. Len(stack[t]) : stack[t][i].fn = f
  BY DEF Inv, TypeOK, Inside

(* A plain section is held by one thread.                                   *)
LEMMA OneHolder ==
  ASSUME Inv, NEW t \in Threads, NEW u \in Threads, NEW c \in Sections \ {"none"},
         c \notin Owned, Holds(t, c), Holds(u, c)
  PROVE  t = u
<1>1. PICK i \in 1 .. Len(stack[t]) : Section(stack[t][i].fn) = c
  BY DEF Holds
<1>2. PICK j \in 1 .. Len(stack[u]) : Section(stack[u][j].fn) = c
  BY DEF Holds
<1>3. Together(t, stack[t][i].fn, u, stack[u][j].fn)
  <2>1. Apart(t, stack[t], u, stack[u])
    BY DEF Inv
  <2> QED  BY <2>1 DEF Apart
<1>4. stack[t][i].fn \in Functions
  <2>1. stack[t] \in Seq(Frame)
    BY InvParts
  <2> QED  BY <2>1, NamesTyped
<1>5. Code(stack[t][i].fn).class = 0
  BY <1>1, <1>4, Placement DEF Placed
<1> QED
  BY <1>1, <1>2, <1>3, <1>5 DEF Together, SameOwner

LEMMA ManagerHeld ==
  ASSUME Inv, NEW t \in Threads, UsesManager(t)
  PROVE  Holds(t, "CS_MANAGER")
<1>1. PICK i \in 1 .. Len(stack[t]) : stack[t][i].fn \in {"face_requester", "CloseFace"}
  BY InsideIndex DEF UsesManager
<1>2. PICK k \in 1 .. Len(stack[t]) : Above(stack[t][k].fn, stack[t][i].fn)
  BY <1>1, CalledBy DEF EntryPoints
<1>3. CASE Section(stack[t][k].fn) = "CS_MANAGER"
  BY <1>3 DEF Holds
<1>4. CASE stack[t][k].fn = "RemoveFaceID"
  <2>1. PICK m \in 1 .. Len(stack[t]) : Above(stack[t][m].fn, stack[t][k].fn)
    BY <1>4, CalledBy DEF EntryPoints
  <2>2. Section(stack[t][m].fn) = "CS_MANAGER"
    BY <1>4, <2>1 DEF Above
  <2> QED  BY <2>2 DEF Holds
<1> QED
  BY <1>1, <1>2, <1>3, <1>4 DEF Above

(* One thread at a time is inside the cache manager of FreeType, opening or *)
(* closing a face, whichever of the guards on CS_MANAGER let it in.         *)
THEOREM ManagerToOne == Spec => []ManagerAlone
<1>1. Inv => ManagerAlone
  BY ManagerHeld, OneHolder DEF ManagerAlone, Sections, Owned
<1> QED  BY <1>1, InvHolds, PTL

(* Two functions that own a section for different classes are never in      *)
(* progress together.                                                       *)
LEMMA ClassesApart ==
  ASSUME Inv, NEW t \in Threads, NEW u \in Threads,
         NEW i \in 1 .. Len(stack[t]), NEW j \in 1 .. Len(stack[u]),
         Section(stack[t][i].fn) = Section(stack[u][j].fn), Section(stack[t][i].fn) # "none",
         Code(stack[t][i].fn).class # 0
  PROVE  Code(stack[t][i].fn).class = Code(stack[u][j].fn).class
<1>1. Apart(t, stack[t], u, stack[u])
  BY DEF Inv
<1>2. Together(t, stack[t][i].fn, u, stack[u][j].fn)
  BY <1>1 DEF Apart
<1> QED
  BY <1>2 DEF Together, SameOwner

LEMMA OwnedCode ==
  /\ Section("DrawText") = "OCS_DC" /\ Code("DrawText").class = 1
  /\ Section("RemoveFontFile") = "OCS_DC" /\ Code("RemoveFontFile").class = 2
  /\ Section("FreeTypeGetGlyph") = "OCS_FREETYPE" /\ Code("FreeTypeGetGlyph").class = 1
  /\ Section("ReloadAll") = "OCS_FREETYPE" /\ Code("ReloadAll").class = 2
  BY Programs DEF Section, DrawText, RemoveFontFile, FreeTypeGetGlyph, ReloadAll, Owns

LEMMA CallerIs ==
  ASSUME Inv, NEW t \in Threads, NEW i \in 1 .. Len(stack[t])
  PROVE  /\ stack[t][i].fn = "FreeTypeGetGlyph" =>
              \E k \in 1 .. Len(stack[t]) : stack[t][k].fn = "DrawText"
         /\ stack[t][i].fn = "ReloadFonts" =>
              \E k \in 1 .. Len(stack[t]) : stack[t][k].fn = "ReloadAll"
         /\ stack[t][i].fn = "RemoveFont" =>
              \E k \in 1 .. Len(stack[t]) : stack[t][k].fn = "RemoveFontsOfFile"
         /\ stack[t][i].fn = "RemoveFontsOfFile" =>
              \E k \in 1 .. Len(stack[t]) : stack[t][k].fn = "RemoveFontFile"
         /\ stack[t][i].fn = "DelayedInit" =>
              \E k \in 1 .. Len(stack[t]) : stack[t][k].fn = "GetInstance"
  BY CalledBy DEF EntryPoints, Above

(* No font is deleted, and none forgets its settings, while any thread is   *)
(* between the look-up of a font and the last glyph of a text.              *)
THEOREM FontsStayInPlace == Spec => []FontsStay
<1>1. Inv => FontsStay
  <2> SUFFICES ASSUME Inv, NEW t \in Threads, NEW u \in Threads,
                      Inside(u, "FreeTypeGetGlyph"),
                      Inside(t, "RemoveFont") \/ Inside(t, "ReloadFonts")
               PROVE  FALSE
    BY DEF FontsStay
  <2>1. PICK i \in 1 .. Len(stack[u]) : stack[u][i].fn = "FreeTypeGetGlyph"
    BY InsideIndex
  <2>2. CASE Inside(t, "RemoveFont")
    <3>1. PICK j \in 1 .. Len(stack[t]) : stack[t][j].fn = "RemoveFontFile"
      BY <2>2, InsideIndex, CallerIs
    <3>2. PICK k \in 1 .. Len(stack[u]) : stack[u][k].fn = "DrawText"
      BY <2>1, CallerIs
    <3>3. /\ Section(stack[t][j].fn) = Section(stack[u][k].fn)
          /\ Code(stack[t][j].fn).class = 2
      BY <3>1, <3>2, OwnedCode
    <3>4. Section(stack[t][j].fn) # "none"
      BY <3>1, OwnedCode
    <3>5. Code(stack[t][j].fn).class = Code(stack[u][k].fn).class
      BY <3>3, <3>4, ClassesApart
    <3> QED  BY <3>1, <3>2, <3>5, OwnedCode
  <2>3. CASE Inside(t, "ReloadFonts")
    <3>1. PICK j \in 1 .. Len(stack[t]) : stack[t][j].fn = "ReloadAll"
      BY <2>3, InsideIndex, CallerIs
    <3> QED  BY <2>1, <3>1, OwnedCode, ClassesApart
  <2> QED  BY <2>2, <2>3
<1> QED  BY <1>1, InvHolds, PTL

(* A thread that leaves GetInstance holds CS_SETTING, and so does one that  *)
(* is inside DelayedInit.                                                   *)
THEOREM SettingsComplete == Spec => SettingsReady
<1>1. ASSUME Inv, NEW t \in Threads, NEW u \in Threads, t # u, Inside(t, "GetInstance")
      PROVE  ~Inside(u, "DelayedInit")
  <2> SUFFICES ASSUME Inside(u, "DelayedInit") PROVE FALSE
    OBVIOUS
  <2>1. Section("GetInstance") = "CS_SETTING"
    BY Programs DEF Section, GetInstance, Locks, Owns
  <2>2. Holds(t, "CS_SETTING")
    BY <1>1, <2>1, InsideIndex DEF Holds
  <2>3. Holds(u, "CS_SETTING")
    <3>1. PICK i \in 1 .. Len(stack[u]) : stack[u][i].fn = "GetInstance"
      BY <1>1, InsideIndex, CallerIs
    <3> QED  BY <2>1, <3>1 DEF Holds
  <2> QED
    BY <1>1, <2>2, <2>3, OneHolder DEF Sections, Owned
<1>2. Inv => \A t, u \in Threads : t # u /\ Leaves(t, "GetInstance") => ~Inside(u, "DelayedInit")
  BY <1>1 DEF Leaves
<1> QED  BY <1>2, InvHolds, PTL DEF SettingsReady
=============================================================================
