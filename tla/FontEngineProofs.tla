-------------------------- MODULE FontEngineProofs --------------------------
(***************************************************************************)
(* Theorems about FontEngine, for any face names, any number of full names  *)
(* and any bound on the face ids.                                          *)
(***************************************************************************)
EXTENDS FontEngine, FiniteSetTheorems, SequenceTheorems, WellFoundedInduction, TLAPS

-----------------------------------------------------------------------------
(* The iterator of ReloadAll: After picks the least entry that is left.     *)
LEMMA LeastNatural ==
  ASSUME NEW S \in SUBSET Nat, S # {} PROVE \E x \in S : \A y \in S : x <= y
<1> DEFINE Less == OpToRel(<, Nat)
<1>1. IsWellFoundedOn(Less, Nat)
  BY NatLessThanWellFounded
<1>2. \A x, y \in Nat : x < y => <<x, y>> \in Less
  BY DEF OpToRel, Less
<1> HIDE DEF Less
<1>3. PICK x \in S : \A y \in S : <<y, x>> \notin Less
  BY <1>1, WFMin
<1>4. \A y \in S : ~ (y < x)
  BY <1>2, <1>3, Zenon
<1>5. \A y \in S : x <= y
  BY <1>4
<1>. QED BY <1>5

LEMMA AfterIsEntry ==
  ASSUME NEW n \in Nat
  PROVE  After(n) = Nil \/ (After(n) \in FullNames /\ fullMap[After(n)] # Nil)
<1> DEFINE later == {m \in FullNames : m > n /\ fullMap[m] # Nil}
<1>1. CASE later = {}
  BY <1>1 DEF After
<1>2. CASE later # {}
  <2>1. later \in SUBSET Nat
    BY FontEngineAssumption DEF FullNames
  <2>2. \E x \in later : \A y \in later : x <= y
    BY <1>2, <2>1, LeastNatural
  <2>3. After(n) = CHOOSE x \in later : \A y \in later : x <= y
    BY <1>2 DEF After
  <2>. QED BY <2>2, <2>3
<1>. QED BY <1>1, <1>2

-----------------------------------------------------------------------------
(* The registry alone, as FindFont and the Remove... helpers see it.        *)
RegistryTypes ==
  /\ fontMap \in [FontKeys -> Fonts \cup {Nil}]
  /\ fullMap \in [FullNames -> Fonts \cup {Nil}]
  /\ fontList \in Seq(Fonts \cup {Nil})
  /\ faceIds \in 0..MaxFaces
  /\ live \subseteq Fonts
  /\ fullName \in [Fonts -> FullNames \cup {Nil}]
  /\ refs \in [Fonts -> Int]

Entered ==
  /\ \A k \in FontKeys : fontMap[k] \in live \cup {Nil}
  /\ \A n \in FullNames : fullMap[n] \in live \cup {Nil}
  /\ \A f \in live : fullName[f] \in FullNames /\ fullMap[fullName[f]] = f

IdsInStep ==
  /\ faceIds = Len(fontList)
  /\ \A i \in DOMAIN fontList : fontList[i] \in {i, Nil}
  /\ \A f \in live : f \in DOMAIN fontList /\ fontList[f] = f

(* A font is counted once for each of its full names.                       *)
Counted ==
  /\ \A f \in Fonts : refs[f] >= 0
  /\ \A f \in live : refs[f] = Cardinality(EntriesOf(f))

Registered == RegistryTypes /\ Entered /\ IdsInStep /\ Counted

(* What a look-up does to the fonts: none goes, and the only one that may   *)
(* come is the next face id.                                                *)
LookedUp(font) ==
  /\ live \subseteq live' /\ live' \subseteq live \cup {faceIds + 1}
  /\ font \in live' \cup {Nil}
  /\ faceIds' >= faceIds

LEMMA NextIdIsFresh == Registered => faceIds + 1 \notin live
BY DEF Registered, RegistryTypes, IdsInStep, Fonts

LEMMA EntriesFinite == \A f : IsFiniteSet(EntriesOf(f)) /\ Cardinality(EntriesOf(f)) \in Nat
<1> TAKE f
<1>1. IsFiniteSet(FullNames)
  BY FS_Interval, FontEngineAssumption DEF FullNames
<1>2. EntriesOf(f) \in SUBSET FullNames
  BY DEF EntriesOf
<1>. QED BY <1>1, <1>2, FS_Subset, FS_CardinalityType

(* The type and the ids after TakeFaceId.                                   *)
LEMMA TakeFaceIdKeeps ==
  ASSUME Registered, NEW full \in FullNames, NEW font, TakeFaceId(full, font)
  PROVE  /\ font \in Fonts /\ font = faceIds + 1 /\ font \notin live
         /\ fontList' \in Seq(Fonts \cup {Nil}) /\ faceIds' \in 0..MaxFaces
         /\ live' = live \cup {font}
         /\ fullName' \in [Fonts -> FullNames \cup {Nil}]
         /\ fullName'[font] = full
         /\ \A f \in live : fullName'[f] = fullName[f]
         /\ IdsInStep'
<1> USE DEF Registered, RegistryTypes, TakeFaceId
<1>1. font \notin live
  BY NextIdIsFresh
<1>2. faceIds' \in 0..MaxFaces
  BY FontEngineAssumption DEF Fonts
<1>3. /\ fontList' \in Seq(Fonts \cup {Nil})
      /\ Len(fontList') = Len(fontList) + 1
      /\ \A i \in 1..Len(fontList) : fontList'[i] = fontList[i]
      /\ fontList'[Len(fontList) + 1] = font
  OBVIOUS
<1>4. IdsInStep'
  BY <1>3 DEF IdsInStep
<1>5. /\ fullName' \in [Fonts -> FullNames \cup {Nil}] /\ fullName'[font] = full
      /\ \A f \in live : fullName'[f] = fullName[f]
  BY <1>1
<1>. QED BY <1>1, <1>2, <1>3, <1>4, <1>5

(* One entry more under a name that was free.                               *)
NamesIn(map, font) == {n \in FullNames : map[n] = font}

LEMMA EntryAdded ==
  ASSUME NEW map \in [FullNames -> Fonts \cup {Nil}], NEW name \in FullNames,
         map[name] = Nil, NEW font \in Fonts,
         NEW new, new = [map EXCEPT ![name] = font]
  PROVE  Cardinality(NamesIn(new, font)) = Cardinality(NamesIn(map, font)) + 1
<1>1. IsFiniteSet(NamesIn(map, font))
  <2>1. NamesIn(map, font) \in SUBSET FullNames
    BY DEF NamesIn
  <2>. QED BY <2>1, FS_Interval, FS_Subset, FontEngineAssumption DEF FullNames
<1>2. name \notin NamesIn(map, font)
  BY DEF NamesIn, Nil, Fonts
<1>3. NamesIn(new, font) = NamesIn(map, font) \cup {name}
  BY DEF NamesIn
<1>. QED BY <1>1, <1>2, <1>3, FS_AddElement

LEMMA FreshHasNoEntry ==
  Registered => Cardinality(NamesIn(fullMap, faceIds + 1)) = 0
<1> SUFFICES ASSUME Registered PROVE NamesIn(fullMap, faceIds + 1) = {}
  BY FS_EmptySet
<1>1. faceIds + 1 # Nil
  BY DEF Registered, RegistryTypes, Nil
<1>. QED BY <1>1, NextIdIsFresh DEF NamesIn, Registered, Entered

(* AddFont(lpFaceName, ...) keeps the registry right.                       *)
LEMMA AddFontByNameKeeps ==
  ASSUME Registered, NEW key \in FontKeys, NEW full \in FullNames, NEW font, NEW loaded,
         AddFontByName(key, full, font, loaded)
  PROVE  /\ Registered' /\ LookedUp(font) /\ font \in live'
         /\ ~loaded => /\ font = faceIds + 1
                       /\ \A k \in FontKeys \ {key} : fontMap'[k] # font
                       /\ \A n \in FullNames \ {full} : fullMap'[n] # font
                       /\ fullName'[font] = full
<1>1. CASE KnownAs(full)
  <2>1. /\ loaded /\ font = fullMap[full] /\ fontMap' = [fontMap EXCEPT ![key] = font]
        /\ UNCHANGED <<fullMap, fontList, faceIds, live, fullName, refs>>
    BY <1>1 DEF AddFontByName, Reuse
  <2>2. font \in live
    BY <1>1, <2>1 DEF KnownAs, Registered, Entered
  <2>3. RegistryTypes' /\ Entered'
    BY <2>1, <2>2 DEF Registered, RegistryTypes, Entered
  <2>4. IdsInStep' /\ Counted'
    BY <2>1 DEF Registered, IdsInStep, Counted, EntriesOf
  <2>. QED BY <2>1, <2>2, <2>3, <2>4 DEF Registered, RegistryTypes, LookedUp
<1>2. CASE ~KnownAs(full)
  <2>1. /\ ~loaded /\ TakeFaceId(full, font)
        /\ fullMap[full] = Nil /\ fullMap' = [fullMap EXCEPT ![full] = font]
        /\ refs' = [refs EXCEPT ![font] = 1]
        /\ fontMap' = [fontMap EXCEPT ![key] = font]
    BY <1>2 DEF AddFontByName, KnownAs
  <2>2. /\ font \in Fonts /\ font = faceIds + 1 /\ font \notin live
        /\ fontList' \in Seq(Fonts \cup {Nil}) /\ faceIds' \in 0..MaxFaces
        /\ live' = live \cup {font}
        /\ fullName' \in [Fonts -> FullNames \cup {Nil}] /\ fullName'[font] = full
        /\ \A f \in live : fullName'[f] = fullName[f]
        /\ IdsInStep'
    BY <2>1, TakeFaceIdKeeps
  <2>3. RegistryTypes'
    <3>1. fontMap' \in [FontKeys -> Fonts \cup {Nil}]
      BY <2>1, <2>2 DEF Registered, RegistryTypes
    <3>2. fullMap' \in [FullNames -> Fonts \cup {Nil}]
      BY <2>1, <2>2 DEF Registered, RegistryTypes
    <3>3. refs' \in [Fonts -> Int]
      BY <2>1, <2>2 DEF Registered, RegistryTypes
    <3>4. live' \subseteq Fonts
      BY <2>1, <2>2 DEF Registered, RegistryTypes
    <3>. QED BY <2>2, <3>1, <3>2, <3>3, <3>4 DEF RegistryTypes
  <2>4. \A k \in FontKeys \ {key} : fontMap'[k] = fontMap[k]
    BY <2>1 DEF Registered, RegistryTypes
  <2>5. fontMap'[key] = font /\ fullMap'[full] = font
    BY <2>1 DEF Registered, RegistryTypes
  <2>6. \A n \in FullNames \ {full} : fullMap'[n] = fullMap[n]
    BY <2>1 DEF Registered, RegistryTypes
  <2>7. Entered'
    BY <2>1, <2>2, <2>4, <2>5, <2>6 DEF Registered, RegistryTypes, Entered, Nil, Fonts
  <2>8. Counted'
    <3>0. fullMap \in [FullNames -> Fonts \cup {Nil}] /\ live \subseteq Fonts
      BY DEF Registered, RegistryTypes
    <3>6. /\ fullMap[full] = Nil /\ font \in Fonts
          /\ fullMap' = [fullMap EXCEPT ![full] = font]
      BY <2>1, <2>2
    <3>1. Cardinality(NamesIn(fullMap', font)) = Cardinality(NamesIn(fullMap, font)) + 1
      BY ONLY full \in FullNames, <3>0, <3>6, EntryAdded DEF NamesIn
    <3>2. ASSUME NEW f \in Fonts \ {font}
          PROVE  NamesIn(fullMap', f) = NamesIn(fullMap, f)
      BY <3>0, <3>6 DEF NamesIn, Nil, Fonts
    <3>4. Cardinality(EntriesOf(font)') = 1
      BY <2>2, <3>1, FreshHasNoEntry DEF NamesIn, EntriesOf
    <3>5. \A f \in live : Cardinality(EntriesOf(f)') = Cardinality(EntriesOf(f))
      BY <2>2, <3>0, <3>2 DEF NamesIn, EntriesOf
    <3>3. refs'[font] = 1 /\ \A f \in Fonts \ {font} : refs'[f] = refs[f]
      BY <2>1, <2>2 DEF Registered, RegistryTypes
    <3>. QED BY <2>2, <3>0, <3>3, <3>4, <3>5 DEF Registered, Counted
  <2>9. /\ \A k \in FontKeys \ {key} : fontMap'[k] # font
        /\ \A n \in FullNames \ {full} : fullMap'[n] # font
    BY <2>2, <2>4, <2>6 DEF Registered, Entered, Nil, Fonts
  <2>10. LookedUp(font)
    BY <2>2 DEF Registered, RegistryTypes, LookedUp, IdsInStep
  <2>. QED BY <2>2, <2>3, <2>7, <2>8, <2>9, <2>10 DEF Registered
<1>. QED BY <1>1, <1>2

(* AddFont(params) keeps the registry right: the alias is counted.          *)
LEMMA AddFontByParamsKeeps ==
  ASSUME Registered, NEW lplf \in FontKeys, NEW asked \in FullNames, ~KnownAs(asked),
         NEW full \in FullNames, NEW font, AddFontByParams(lplf, asked, full, font)
  PROVE  Registered' /\ LookedUp(font) /\ font \in live'
<1>0. /\ fontMap \in [FontKeys -> Fonts \cup {Nil}] /\ live \subseteq Fonts
      /\ fullMap \in [FullNames -> Fonts \cup {Nil}] /\ refs \in [Fonts -> Int]
  BY DEF Registered, RegistryTypes
<1>1. /\ fontMap' = [fontMap EXCEPT ![lplf] = font]
      /\ fullMap' = [fullMap EXCEPT ![full] = font, ![asked] = font]
      /\ fullMap[asked] = Nil
  BY DEF AddFontByParams, Alias, KnownAs
<1>2. CASE KnownAs(full)
  <2>1. /\ font = fullMap[full] /\ UNCHANGED <<fontList, faceIds, live, fullName>>
        /\ refs' = [refs EXCEPT ![font] = refs[font] + 1]
    BY <1>1, <1>2 DEF AddFontByParams, Reuse, Alias, KnownAs
  <2>2. font \in live /\ font \in Fonts
    BY <1>0, <1>2, <2>1 DEF KnownAs, Registered, Entered
  <2>3. fullMap' = [fullMap EXCEPT ![asked] = font]
    BY <1>0, <1>1, <2>1
  <2>4. RegistryTypes'
    <3>1. fontMap' \in [FontKeys -> Fonts \cup {Nil}]
          /\ fullMap' \in [FullNames -> Fonts \cup {Nil}]
      BY <1>0, <1>1, <2>2
    <3>2. refs' \in [Fonts -> Int]
      BY <1>0, <2>1, <2>2
    <3>. QED BY <2>1, <3>1, <3>2 DEF Registered, RegistryTypes
  <2>5. Entered'
    BY <1>0, <1>1, <2>1, <2>2, <2>3 DEF Registered, Entered, Nil, Fonts
  <2>6. IdsInStep' /\ LookedUp(font)
    BY <2>1, <2>2 DEF Registered, RegistryTypes, IdsInStep, LookedUp
  <2>7. Counted'
    <3>1. Cardinality(NamesIn(fullMap', font)) = Cardinality(NamesIn(fullMap, font)) + 1
      BY <1>0, <1>1, <2>2, <2>3, EntryAdded DEF NamesIn
    <3>2. Cardinality(EntriesOf(font)') = Cardinality(EntriesOf(font)) + 1
      BY <3>1 DEF NamesIn, EntriesOf
    <3>3. ASSUME NEW f \in Fonts \ {font} PROVE EntriesOf(f)' = EntriesOf(f)
      BY <1>0, <1>1, <2>3 DEF EntriesOf, Nil, Fonts
    <3>4. refs'[font] = refs[font] + 1 /\ \A f \in Fonts \ {font} : refs'[f] = refs[f]
      BY <1>0, <2>1, <2>2
    <3>. QED BY <1>0, <2>1, <2>2, <3>2, <3>3, <3>4 DEF Registered, Counted
  <2>. QED BY <2>2, <2>1, <2>4, <2>5, <2>6, <2>7 DEF Registered
<1>3. CASE ~KnownAs(full)
  <2>1. /\ TakeFaceId(full, font) /\ fullMap[full] = Nil
        /\ refs' = [refs EXCEPT ![font] = IF full = asked THEN 1 ELSE 2]
    BY <1>3 DEF AddFontByParams, Alias, KnownAs
  <2>2. /\ font \in Fonts /\ font = faceIds + 1 /\ font \notin live
        /\ fontList' \in Seq(Fonts \cup {Nil}) /\ faceIds' \in 0..MaxFaces
        /\ live' = live \cup {font}
        /\ fullName' \in [Fonts -> FullNames \cup {Nil}] /\ fullName'[font] = full
        /\ \A f \in live : fullName'[f] = fullName[f]
        /\ IdsInStep'
    BY <2>1, TakeFaceIdKeeps
  <2>3. RegistryTypes'
    <3>1. fontMap' \in [FontKeys -> Fonts \cup {Nil}]
          /\ fullMap' \in [FullNames -> Fonts \cup {Nil}]
      BY <1>0, <1>1, <2>2
    <3>2. refs' \in [Fonts -> Int]
      BY <1>0, <2>1, <2>2
    <3>3. live' \subseteq Fonts
      BY <1>0, <2>2
    <3>. QED BY <2>2, <3>1, <3>2, <3>3 DEF RegistryTypes
  <2>4. /\ fontMap'[lplf] = font /\ \A k \in FontKeys \ {lplf} : fontMap'[k] = fontMap[k]
        /\ fullMap'[full] = font /\ fullMap'[asked] = font
        /\ \A n \in FullNames \ {full, asked} : fullMap'[n] = fullMap[n]
    BY <1>0, <1>1
  <2>5. Entered'
    BY <1>0, <1>1, <2>1, <2>2, <2>4 DEF Registered, Entered, Nil, Fonts
  <2>6. LookedUp(font)
    BY <2>2 DEF Registered, RegistryTypes, LookedUp, IdsInStep
  <2>7. Counted'
    <3>0. PICK mid : mid = [fullMap EXCEPT ![full] = font]
      OBVIOUS
    <3>1. /\ mid \in [FullNames -> Fonts \cup {Nil}]
          /\ fullMap' = [mid EXCEPT ![asked] = font]
          /\ asked # full => mid[asked] = Nil
      BY <1>0, <1>1, <2>2, <3>0
    <3>2. Cardinality(NamesIn(mid, font)) = 1
      <4>1. Cardinality(NamesIn(mid, font)) = Cardinality(NamesIn(fullMap, font)) + 1
        <5>1. fullMap[full] = Nil /\ font \in Fonts
          BY <2>1, <2>2
        <5>. QED BY <1>0, <3>0, <5>1, EntryAdded DEF NamesIn
      <4>. QED BY <2>2, <4>1, FreshHasNoEntry
    <3>3. Cardinality(NamesIn(fullMap', font)) = IF full = asked THEN 1 ELSE 2
      <4>1. CASE full = asked
        <5>1. fullMap' = mid
          BY <1>0, <1>1, <3>0, <4>1
        <5>. QED BY <3>2, <4>1, <5>1
      <4>2. CASE full # asked
        <5>1. Cardinality(NamesIn(fullMap', font)) = Cardinality(NamesIn(mid, font)) + 1
          BY <2>2, <3>1, <4>2, EntryAdded DEF NamesIn
        <5>. QED BY <3>2, <4>2, <5>1
      <4>. QED BY <4>1, <4>2
    <3>4. Cardinality(EntriesOf(font)') = refs'[font] /\ refs'[font] >= 0
      BY <1>0, <2>1, <2>2, <3>3 DEF NamesIn, EntriesOf
    <3>5. ASSUME NEW f \in Fonts \ {font} PROVE EntriesOf(f)' = EntriesOf(f)
      BY <1>0, <1>1, <2>1 DEF EntriesOf, Nil, Fonts
    <3>6. \A f \in Fonts \ {font} : refs'[f] = refs[f]
      BY <1>0, <2>1, <2>2
    <3>. QED BY <1>0, <2>2, <3>4, <3>5, <3>6 DEF Registered, Counted
  <2>. QED BY <2>2, <2>3, <2>5, <2>6, <2>7 DEF Registered
<1>. QED BY <1>2, <1>3

(* FindFont by name keeps the registry right.  A font it says was not       *)
(* loaded is new, and entered under one key and one full name.              *)
OnlyEntered(font, key) ==
  /\ \A k \in FontKeys \ {key} : fontMap[k] # font
  /\ \A n \in FullNames \ {fullName[font]} : fullMap[n] # font

LEMMA UnchangedKeeps ==
  ASSUME Registered, UNCHANGED registry, NEW font \in live \cup {Nil}
  PROVE  Registered' /\ LookedUp(font)
BY DEF Registered, RegistryTypes, Entered, IdsInStep, Counted, EntriesOf, LookedUp, registry

LEMMA NormalIsKey == \A lf \in Faces : lf \in FontKeys /\ Normal(lf) \in FontKeys
BY DEF Faces, FontKeys, Normal, CalcBoldWeight, Regular, Bold

LEMMA FindByNameKeeps ==
  ASSUME Registered, NEW lf \in Faces, NEW font, NEW loaded, FindByName(lf, font, loaded)
  PROVE  /\ Registered' /\ LookedUp(font)
         /\ ~loaded /\ font # Nil =>
              font = faceIds + 1 /\ OnlyEntered(font, Normal(lf))'
<1>1. Normal(lf) \in FontKeys
  BY NormalIsKey
<1>2. CASE fontMap[Normal(lf)] # Nil /\ font = fontMap[Normal(lf)] /\ loaded = TRUE
           /\ UNCHANGED registry
  <2>1. font \in live
    BY <1>1, <1>2 DEF Registered, Entered
  <2>. QED BY <1>2, <2>1, UnchangedKeeps
<1>3. CASE font = Nil /\ UNCHANGED registry
  BY <1>3, UnchangedKeeps
<1>4. ASSUME NEW full \in FullNames, AddFontByName(Normal(lf), full, font, loaded)
      PROVE  /\ Registered' /\ LookedUp(font)
             /\ ~loaded => font = faceIds + 1 /\ OnlyEntered(font, Normal(lf))'
  BY <1>1, <1>4, AddFontByNameKeeps DEF OnlyEntered
<1>. QED BY <1>2, <1>3, <1>4 DEF FindByName

(* FindFont by parameters keeps the registry right.                         *)
LEMMA FindByParamsKeeps ==
  ASSUME Registered, NEW lf \in Faces, NEW asked \in FullNames, NEW font,
         FindByParams(lf, asked, font)
  PROVE  Registered' /\ LookedUp(font)
<1>1. CASE KnownAs(asked) /\ font = fullMap[asked] /\ UNCHANGED registry
  <2>1. font \in live
    BY <1>1 DEF KnownAs, Registered, Entered
  <2>. QED BY <1>1, <2>1, UnchangedKeeps
<1>2. CASE \E loaded \in BOOLEAN : FindByName(lf, font, loaded)
  BY <1>2, FindByNameKeeps
<1>3. CASE font = Nil /\ UNCHANGED registry
  BY <1>3, UnchangedKeeps
<1>4. ASSUME ~KnownAs(asked), NEW full \in FullNames,
             AddFontByParams(lf, asked, full, font)
      PROVE  Registered' /\ LookedUp(font)
  BY <1>4, NormalIsKey, AddFontByParamsKeeps
<1>. QED BY <1>1, <1>2, <1>3, <1>4 DEF FindByParams

-----------------------------------------------------------------------------
(* The inductive invariant.  A thread inside a section holds it, and the    *)
(* classes exclude each other; nobody is inside once the engine is gone.    *)
SectionInv ==
  /\ dcHeld \in [Threads -> 0..1] /\ ftHeld \in [Threads -> 0..1]
  /\ drawPc # "idle" => dcHeld["draw"] = 1
  /\ removePc # "idle" => dcHeld["remove"] = 1
  /\ ~ (dcHeld["draw"] = 1 /\ dcHeld["remove"] = 1)
  /\ drawPc \in {"prepare", "link", "linking", "glyphs"} => ftHeld["draw"] = 1
  /\ reloadPc = "visit" => ftHeld["reload"] = 1
  /\ ~ (ftHeld["draw"] = 1 /\ ftHeld["reload"] = 1)
  /\ ~engine => drawPc = "idle" /\ removePc = "idle" /\ reloadPc = "idle"

RegistryInv ==
  /\ IdsInStep /\ Counted
  /\ engine => Entered
  /\ ~engine => live = {}

(* Between its steps a removing call knows its font: it is live until it is *)
(* removed, and if the look-up made it nobody is linked to it yet.          *)
RemoveInv ==
  /\ removePc = "remove" =>
       /\ result = fid /\ result \in live
       /\ ~wasLoaded =>
            /\ OnlyEntered(result, Normal(face))
            /\ \A f \in live \ {result} : result \notin links[f]
  /\ removePc = "clear" => fid \in DOMAIN fontList /\ fid \notin live

(* Live fonts are linked to live fonts, an unused id to nothing.            *)
LinkInv ==
  /\ \A f \in Fonts : links[f] # {} => f <= faceIds /\ f \in links[f]
  /\ \A f \in live : links[f] \subseteq live
  /\ drawPc \in {"link", "linking", "glyphs"} => drawn \in live
  /\ drawPc \in {"linking", "glyphs"} => drawn \in links[drawn]

Inv == TypeOK /\ SectionInv /\ RegistryInv /\ RemoveInv /\ LinkInv

(* The sections do their work: the class locks exclude classes 1 and 2.     *)
LEMMA Sections ==
  ASSUME SectionInv
  PROVE  /\ DC!Acquire("draw") => /\ dcHeld' \in [Threads -> 0..1] /\ dcHeld["remove"] = 0
                                  /\ dcHeld'["draw"] = 1 /\ dcHeld'["remove"] = 0
         /\ DC!Acquire("remove") => /\ dcHeld' \in [Threads -> 0..1] /\ dcHeld["draw"] = 0
                                    /\ dcHeld'["remove"] = 1 /\ dcHeld'["draw"] = 0
         /\ DC!Release("draw") => /\ dcHeld' \in [Threads -> 0..1]
                                  /\ dcHeld'["draw"] = 0 /\ dcHeld'["remove"] = dcHeld["remove"]
         /\ DC!Release("remove") => /\ dcHeld' \in [Threads -> 0..1]
                                    /\ dcHeld'["remove"] = 0 /\ dcHeld'["draw"] = dcHeld["draw"]
         /\ FT!Acquire("draw") => /\ ftHeld' \in [Threads -> 0..1] /\ ftHeld["reload"] = 0
                                  /\ ftHeld'["draw"] = 1 /\ ftHeld'["reload"] = 0
         /\ FT!Acquire("reload") => /\ ftHeld' \in [Threads -> 0..1] /\ ftHeld["draw"] = 0
                                    /\ ftHeld'["reload"] = 1 /\ ftHeld'["draw"] = 0
         /\ FT!Release("draw") => /\ ftHeld' \in [Threads -> 0..1]
                                  /\ ftHeld'["draw"] = 0 /\ ftHeld'["reload"] = ftHeld["reload"]
         /\ FT!Release("reload") => /\ ftHeld' \in [Threads -> 0..1]
                                    /\ ftHeld'["reload"] = 0 /\ ftHeld'["draw"] = ftHeld["draw"]
<1> USE DEF SectionInv, Threads, OwnerClass
<1>1. /\ dcHeld["draw"] \in {0, 1} /\ dcHeld["remove"] \in {0, 1} /\ dcHeld["reload"] \in {0, 1}
      /\ ftHeld["draw"] \in {0, 1} /\ ftHeld["remove"] \in {0, 1} /\ ftHeld["reload"] \in {0, 1}
  OBVIOUS
<1>2. /\ OwnerClass["draw"] = 1 /\ OwnerClass["remove"] = 2 /\ OwnerClass["reload"] = 2
  OBVIOUS
<1>. QED BY <1>1, <1>2 DEF DC!Acquire, DC!Release, FT!Acquire, FT!Release

LEMMA SectionNext == SectionInv /\ [Next]_vars => SectionInv'
<1> SUFFICES ASSUME SectionInv, [Next]_vars PROVE SectionInv'
  OBVIOUS
<1> USE Sections DEF SectionInv
<1>1. CASE BeginDraw
  BY <1>1 DEF BeginDraw, remover, reloader
<1>2. CASE BeginGlyphs
  BY <1>2 DEF BeginGlyphs, remover, reloader
<1>3. CASE Prepare
  BY <1>3 DEF Prepare, remover, reloader
<1>4. CASE LinkSelf \/ LinkNext \/ LinkLast
  BY <1>4 DEF LinkSelf, LinkNext, LinkLast, sections, drawer, remover, reloader
<1>5. CASE EndGlyphs
  BY <1>5 DEF EndGlyphs, remover, reloader
<1>6. CASE EndDraw
  BY <1>6 DEF EndDraw, remover, reloader
<1>7. CASE BeginRemove
  BY <1>7 DEF BeginRemove, drawer, reloader
<1>8. CASE RemoveFind
  BY <1>8 DEF RemoveFind, drawer, reloader, sections
<1>9. CASE RemoveEntries \/ RemoveSlot
  BY <1>9 DEF RemoveEntries, RemoveSlot, drawer, reloader, sections
<1>10. CASE EndRemove
  BY <1>10 DEF EndRemove, drawer, reloader
<1>11. CASE BeginReload
  BY <1>11 DEF BeginReload, drawer, remover
<1>12. CASE ReloadVisit \/ ReloadAstray
  BY <1>12 DEF ReloadVisit, ReloadAstray, drawer, remover, sections
<1>13. CASE EndReload
  BY <1>13 DEF EndReload, drawer, remover
<1>14. CASE DestroyEngine
  BY <1>14 DEF DestroyEngine, drawer, remover, reloader, sections
<1>15. CASE Unloaded \/ UNCHANGED vars
  BY <1>15 DEF Unloaded, vars, drawer, remover, reloader, sections
<1>. QED BY <1>1, <1>2, <1>3, <1>4, <1>5, <1>6, <1>7, <1>8, <1>9, <1>10, <1>11, <1>12,
            <1>13, <1>14, <1>15 DEF Next, Draw, Remove, Reload

LEMMA InUse == Inv /\ engine => Registered
BY DEF Inv, TypeOK, RegistryInv, Registered, RegistryTypes

(* Taking a font's entries out, all of its full names among them, keeps the *)
(* registry right.                                                          *)
LEMMA ErasureKeeps ==
  ASSUME Registered, NEW font \in live, NEW keys, NEW names,
         fontMap' = [k \in FontKeys |-> IF k \in keys THEN Nil ELSE fontMap[k]],
         fullMap' = [n \in FullNames |-> IF n \in names THEN Nil ELSE fullMap[n]],
         \A k \in FontKeys : fontMap[k] = font => k \in keys,
         \A n \in FullNames : fullMap[n] = font <=> n \in names,
         live' = live \ {font}, UNCHANGED <<fontList, faceIds, fullName, refs>>
  PROVE  Registered'
<1>1. RegistryTypes'
  BY DEF Registered, RegistryTypes
<1>2. Entered'
  BY DEF Registered, RegistryTypes, Entered
<1>3. IdsInStep'
  BY DEF Registered, IdsInStep
<1>4. Counted'
  <2>1. ASSUME NEW f \in live' PROVE EntriesOf(f)' = EntriesOf(f)
    BY DEF EntriesOf, Registered, RegistryTypes, Nil, Fonts
  <2>. QED BY <2>1 DEF Registered, Counted
<1>. QED BY <1>1, <1>2, <1>3, <1>4 DEF Registered

LEMMA RemoveEntriesKeeps ==
  ASSUME Inv, RemoveEntries PROVE Registered' /\ result \in live /\ live' = live \ {result}
<1>1. removePc = "remove" /\ engine
  BY DEF RemoveEntries, Inv, SectionInv
<1>2. Registered /\ result \in live /\ result \in Fonts /\ face \in Faces
  BY <1>1, InUse DEF Inv, RemoveInv, TypeOK
<1>3. UNCHANGED <<fontList, faceIds, fullName, refs>>
  BY DEF RemoveEntries
<1>4. CASE wasLoaded
  <2> DEFINE keys == {k \in FontKeys : fontMap[k] = result}
             names == {n \in FullNames : fullMap[n] = result}
  <2>1. /\ fontMap' = [k \in FontKeys |-> IF k \in keys THEN Nil ELSE fontMap[k]]
        /\ fullMap' = [n \in FullNames |-> IF n \in names THEN Nil ELSE fullMap[n]]
        /\ live' = live \ {result}
    BY <1>4 DEF RemoveEntries, RemoveFontInfo, EraseNames
  <2>2. /\ \A k \in FontKeys : fontMap[k] = result => k \in keys
        /\ \A n \in FullNames : fullMap[n] = result <=> n \in names
    OBVIOUS
  <2> HIDE DEF keys, names
  <2>. QED BY <1>2, <1>3, <2>1, <2>2, ErasureKeeps
<1>5. CASE ~wasLoaded
  <2> DEFINE keys == {Normal(face)}
             names == {fullName[result]}
  <2>1. OnlyEntered(result, Normal(face))
    BY <1>1, <1>5 DEF Inv, RemoveInv
  <2>2. /\ fontMap' = [fontMap EXCEPT ![Normal(face)] = Nil]
        /\ fullMap' = [n \in FullNames |-> IF n \in names THEN Nil ELSE fullMap[n]]
        /\ live' = live \ {result}
    BY <1>5 DEF RemoveEntries, RemoveThisFont, EraseNames
  <2>3. fontMap' = [k \in FontKeys |-> IF k \in keys THEN Nil ELSE fontMap[k]]
    BY <1>2, <2>2 DEF Registered, RegistryTypes
  <2>4. \A k \in FontKeys : fontMap[k] = result => k \in keys
    BY <2>1 DEF OnlyEntered
  <2>5. \A n \in FullNames : fullMap[n] = result <=> n \in names
    BY <1>2, <2>1 DEF OnlyEntered, Registered, Entered
  <2>. QED BY <1>2, <1>3, <2>2, <2>3, <2>4, <2>5, ErasureKeeps
<1>. QED BY <1>4, <1>5

LEMMA RemoveSlotKeeps == ASSUME Inv, RemoveSlot PROVE Registered'
<1>1. removePc = "clear" /\ engine
  BY DEF RemoveSlot, Inv, SectionInv
<1>2. Registered /\ fid \in DOMAIN fontList /\ fid \notin live
  BY <1>1, InUse DEF Inv, RemoveInv
<1>3. /\ fontList' = [fontList EXCEPT ![fid] = Nil]
      /\ UNCHANGED <<fontMap, fullMap, faceIds, live, fullName, refs>>
  BY DEF RemoveSlot
<1>4. /\ Len(fontList') = Len(fontList) /\ fontList' \in Seq(Fonts \cup {Nil})
      /\ \A i \in DOMAIN fontList : fontList'[i] = IF i = fid THEN Nil ELSE fontList[i]
      /\ DOMAIN fontList' = DOMAIN fontList
  <2>1. fontList \in Seq(Fonts \cup {Nil}) /\ Nil \in Fonts \cup {Nil}
    BY <1>2 DEF Registered, RegistryTypes
  <2>2. fid \in 1..Len(fontList)
    BY <1>2, <2>1
  <2>. QED BY <1>3, <2>1, <2>2, ExceptSeq
<1>5. RegistryTypes' /\ Entered'
  BY <1>2, <1>3, <1>4 DEF Registered, RegistryTypes, Entered
<1>6. IdsInStep'
  BY <1>2, <1>3, <1>4 DEF Registered, IdsInStep
<1>7. Counted'
  BY <1>2, <1>3 DEF Registered, Counted, EntriesOf
<1>. QED BY <1>5, <1>6, <1>7 DEF Registered

(* The three look-ups, in the steps that make them.                         *)
LEMMA PrepareLooksUp ==
  ASSUME Inv, Prepare PROVE engine /\ Registered' /\ LookedUp(drawn')
<1>1. Registered /\ engine
  BY InUse DEF Prepare, Inv, SectionInv
<1>2. PICK lf \in Faces, asked \in FullNames :
        FindByParams(lf, asked, drawn')
  BY DEF Prepare
<1>. QED BY <1>1, <1>2, FindByParamsKeeps

LEMMA LinkNextLooksUp ==
  ASSUME Inv, LinkNext
  PROVE  /\ engine /\ Registered' /\ drawn \in live /\ live \subseteq Fonts
         /\ \E font \in Fonts \cup {Nil} :
              LookedUp(font) /\ links' = [links EXCEPT ![drawn] = @ \cup ({font} \ {Nil})]
<1>1. Registered /\ engine /\ drawn \in live
  BY InUse DEF LinkNext, Inv, SectionInv, LinkInv
<1>2. PICK name \in Names, font \in Fonts \cup {Nil}, loaded \in BOOLEAN :
        /\ FindByName(<<name, Regular>>, font, loaded)
        /\ links' = [links EXCEPT ![drawn] = @ \cup ({font} \ {Nil})]
  BY DEF LinkNext
<1>3. <<name, Regular>> \in Faces
  BY DEF Faces
<1>4. Registered' /\ LookedUp(font)
  BY <1>1, <1>2, <1>3, FindByNameKeeps
<1>. QED BY <1>1, <1>2, <1>4 DEF Registered, RegistryTypes

LEMMA RemoveFindLooksUp ==
  ASSUME Inv, RemoveFind
  PROVE  /\ engine /\ Registered' /\ LookedUp(result')
         /\ face' \in Faces /\ wasLoaded' \in BOOLEAN /\ fid' = result'
         /\ removePc' = IF result' = Nil THEN "find" ELSE "remove"
         /\ ~wasLoaded' /\ result' # Nil =>
              result' = faceIds + 1 /\ OnlyEntered(result, Normal(face))'
<1>1. Registered /\ engine
  BY InUse DEF RemoveFind, Inv, SectionInv
<1>2. PICK lf \in Faces, font \in Fonts \cup {Nil}, loaded \in BOOLEAN :
        /\ FindByName(lf, font, loaded)
        /\ face' = lf /\ result' = font /\ wasLoaded' = loaded /\ fid' = font
        /\ removePc' = IF font = Nil THEN "find" ELSE "remove"
  BY DEF RemoveFind
<1>3. /\ Registered' /\ LookedUp(font)
      /\ ~loaded /\ font # Nil => font = faceIds + 1 /\ OnlyEntered(font, Normal(lf))'
  BY <1>1, <1>2, FindByNameKeeps
<1>4. ~loaded /\ font # Nil => OnlyEntered(result, Normal(face))'
  BY <1>2, <1>3 DEF OnlyEntered, Normal
<1>. QED BY <1>1, <1>2, <1>3, <1>4

(* The destructor releases each font once for each entry, so no count goes  *)
(* below zero and every live one reaches it.                                *)
LEMMA DestroyKeeps ==
  ASSUME Inv, DestroyEngine
  PROVE  RegistryTypes' /\ RegistryInv'
<1>1. Registered /\ engine
  BY InUse DEF DestroyEngine
<1>2. /\ refs' = [f \in Fonts |-> refs[f] - Cardinality(EntriesOf(f))]
      /\ live' = {f \in live : refs'[f] # 0} /\ ~engine'
      /\ UNCHANGED <<fontMap, fullMap, fontList, faceIds, fullName>>
  BY DEF DestroyEngine
<1>3. live' = {}
  BY <1>1, <1>2, EntriesFinite DEF Registered, RegistryTypes, Counted
<1>4. ASSUME NEW f \in Fonts PROVE refs'[f] \in Int /\ refs'[f] >= 0
  <2>1. CASE f \in live
    BY <1>1, <1>2, <2>1, EntriesFinite DEF Registered, RegistryTypes, Counted
  <2>2. CASE f \notin live
    <3>1. EntriesOf(f) = {}
      BY <1>1, <2>2 DEF EntriesOf, Registered, Entered, Nil, Fonts
    <3>2. Cardinality(EntriesOf(f)) = 0
      BY <3>1, FS_EmptySet
    <3>3. refs'[f] = refs[f] - 0
      BY <1>2, <3>2
    <3>. QED BY <1>1, <3>3 DEF Registered, RegistryTypes, Counted
  <2>. QED BY <2>1, <2>2
<1>5. RegistryTypes'
  BY <1>1, <1>2, <1>3, <1>4 DEF Registered, RegistryTypes
<1>6. IdsInStep' /\ Counted'
  BY <1>1, <1>2, <1>3, <1>4 DEF Registered, IdsInStep, Counted
<1>. QED BY <1>2, <1>3, <1>5, <1>6 DEF RegistryInv

LEMMA RegistryNext == Inv /\ [Next]_vars => RegistryTypes' /\ RegistryInv'
<1> SUFFICES ASSUME Inv, [Next]_vars PROVE RegistryTypes' /\ RegistryInv'
  OBVIOUS
<1>1. CASE Registered' /\ engine'
  BY <1>1 DEF Registered, RegistryInv
<1>2. CASE UNCHANGED registry /\ engine' = engine
  BY <1>2 DEF registry, Inv, TypeOK, RegistryTypes, RegistryInv, IdsInStep, Counted,
              Entered, EntriesOf
<1>3. CASE Prepare
  BY <1>1, <1>3, PrepareLooksUp DEF Prepare
<1>4. CASE LinkNext
  BY <1>1, <1>4, LinkNextLooksUp DEF LinkNext
<1>5. CASE RemoveFind
  BY <1>1, <1>5, RemoveFindLooksUp DEF RemoveFind
<1>6. CASE RemoveEntries
  BY <1>1, <1>6, RemoveEntriesKeeps DEF RemoveEntries, Inv, SectionInv
<1>7. CASE RemoveSlot
  BY <1>1, <1>7, RemoveSlotKeeps DEF RemoveSlot, Inv, SectionInv
<1>8. CASE DestroyEngine
  BY <1>8, DestroyKeeps
<1>9. CASE BeginDraw \/ BeginGlyphs \/ LinkSelf \/ LinkLast \/ EndGlyphs \/ EndDraw
  BY <1>2, <1>9 DEF BeginDraw, BeginGlyphs, LinkSelf, LinkLast, EndGlyphs, EndDraw
<1>10. CASE BeginRemove \/ EndRemove \/ Reload
  BY <1>2, <1>10 DEF BeginRemove, EndRemove, Reload, BeginReload, ReloadVisit,
                     ReloadAstray, EndReload
<1>11. CASE Unloaded \/ UNCHANGED vars
  BY <1>2, <1>11 DEF Unloaded, vars
<1>. QED BY <1>3, <1>4, <1>5, <1>6, <1>7, <1>8, <1>9, <1>10, <1>11 DEF Next, Draw, Remove

LEMMA TypeNext == Inv /\ [Next]_vars => TypeOK'
<1> SUFFICES ASSUME Inv, [Next]_vars PROVE TypeOK'
  OBVIOUS
<1> USE DEF TypeOK
<1>1. RegistryTypes' /\ RegistryTypes /\ TypeOK /\ live \subseteq Fonts
  BY RegistryNext DEF Inv, RegistryTypes
<1>2. \A n \in Nat : After(n) \in FullNames \cup {Nil}
  BY AfterIsEntry
<1>3. CASE Prepare
  <2>1. drawn' \in Fonts \cup {Nil} /\ drawPc' \in {"text", "link"}
    BY <1>3 DEF Prepare
  <2>. QED BY <1>1, <1>3, <2>1 DEF Prepare, RegistryTypes, remover, reloader
<1>4. CASE LinkSelf
  <2>1. drawn \in Fonts
    BY <1>1, <1>4 DEF LinkSelf, Inv, LinkInv
  <2>2. links' \in [Fonts -> SUBSET Fonts]
    BY <1>1, <1>4, <2>1 DEF LinkSelf
  <2>. QED BY <1>1, <1>4, <2>2 DEF LinkSelf, RegistryTypes, remover, reloader
<1>5. CASE LinkNext
  <2>1. links' \in [Fonts -> SUBSET Fonts]
    BY <1>1, <1>5, LinkNextLooksUp
  <2>. QED BY <1>1, <1>5, <2>1 DEF LinkNext, RegistryTypes, drawer, remover, reloader
<1>6. CASE BeginDraw \/ BeginGlyphs \/ LinkLast \/ EndGlyphs \/ EndDraw
  BY <1>1, <1>6 DEF BeginDraw, BeginGlyphs, LinkLast, EndGlyphs, EndDraw, RegistryTypes,
                    remover, reloader
<1>7. CASE RemoveFind
  <2>1. {result', fid'} \subseteq Fonts \cup {Nil} /\ removePc' \in {"find", "remove"}
    BY <1>7 DEF RemoveFind
  <2>. QED BY <1>1, <1>7, <2>1, RemoveFindLooksUp
           DEF RemoveFind, RegistryTypes, drawer, reloader
<1>8. CASE RemoveEntries
  <2>1. links' \in [Fonts -> SUBSET Fonts]
    BY <1>1, <1>8 DEF RemoveEntries, RemoveFontInfo, ForgetLinks, RemoveThisFont
  <2>2. cursor' \in FullNames \cup {Nil, Dangling}
    BY <1>1, <1>8 DEF RemoveEntries, RemoveFontInfo, EraseNames, RemoveThisFont
  <2>. QED BY <1>1, <1>8, <2>1, <2>2 DEF RemoveEntries, RegistryTypes, drawer
<1>9. CASE BeginRemove \/ RemoveSlot \/ EndRemove
  BY <1>1, <1>9 DEF BeginRemove, RemoveSlot, EndRemove, RegistryTypes, drawer, reloader
<1>10. CASE BeginReload
  BY <1>1, <1>2, <1>10 DEF BeginReload, RegistryTypes, drawer, remover
<1>11. CASE ReloadVisit
  <2>1. cursor \in Nat
    BY <1>11, FontEngineAssumption DEF ReloadVisit, FullNames
  <2>2. links' \in [Fonts -> SUBSET Fonts]
    BY <1>1, <1>11 DEF ReloadVisit, ForgetLinks
  <2>3. cursor' \in FullNames \cup {Nil}
    BY <1>2, <1>11, <2>1 DEF ReloadVisit
  <2>. QED BY <1>1, <1>11, <2>2, <2>3 DEF ReloadVisit, RegistryTypes, drawer, remover
<1>12. CASE ReloadAstray \/ EndReload
  BY <1>1, <1>12 DEF ReloadAstray, EndReload, RegistryTypes, drawer, remover
<1>13. CASE DestroyEngine
  BY <1>1, <1>13 DEF DestroyEngine, RegistryTypes, drawer, remover, reloader
<1>14. CASE Unloaded \/ UNCHANGED vars
  BY <1>1, <1>14 DEF Unloaded, vars, RegistryTypes, drawer, remover, reloader
<1>. QED BY <1>3, <1>4, <1>5, <1>6, <1>7, <1>8, <1>9, <1>10, <1>11, <1>12, <1>13, <1>14
         DEF Next, Draw, Remove, Reload

LEMMA RemoveNext == Inv /\ [Next]_vars => RemoveInv'
<1> SUFFICES ASSUME Inv, [Next]_vars PROVE RemoveInv'
  OBVIOUS
<1>1. SectionInv /\ RemoveInv /\ LinkInv /\ TypeOK
  BY DEF Inv
<1>2. CASE removePc' = "idle" \/ removePc' = "find"
  BY <1>2 DEF RemoveInv
<1>3. CASE UNCHANGED <<registry, links, removePc, face, result, wasLoaded, fid>>
  BY <1>1, <1>3 DEF registry, RemoveInv, OnlyEntered, Normal
<1>4. CASE Prepare \/ LinkSelf \/ LinkNext
  <2>1. removePc = "idle"
    BY <1>1, <1>4 DEF SectionInv, Prepare, LinkSelf, LinkNext
  <2>. QED BY <1>2, <1>4, <2>1 DEF Prepare, LinkSelf, LinkNext, remover
<1>5. CASE RemoveFind
  <2>1. UNCHANGED links /\ removePc' # "clear"
    BY <1>5 DEF RemoveFind
  <2>2. /\ Registered /\ LookedUp(result') /\ fid' = result'
        /\ removePc' = "remove" => result' # Nil
        /\ ~wasLoaded' /\ result' # Nil =>
             result' = faceIds + 1 /\ OnlyEntered(result, Normal(face))'
    BY <1>5, RemoveFindLooksUp, InUse
  <2>3. ASSUME removePc' = "remove", ~wasLoaded', NEW f \in live' \ {result'}
        PROVE  result' \notin links'[f]
    BY <1>1, <2>1, <2>2, <2>3, NextIdIsFresh DEF LookedUp, LinkInv
  <2>. QED BY <2>1, <2>2, <2>3 DEF RemoveInv, LookedUp
<1>6. CASE RemoveEntries
  <2>1. /\ removePc' = "clear" /\ UNCHANGED <<fontList, fid>>
        /\ result = fid /\ result \in live
    BY <1>1, <1>6 DEF RemoveEntries, RemoveInv
  <2>2. fid \in DOMAIN fontList
    BY <2>1 DEF Inv, RegistryInv, IdsInStep
  <2>3. live' = live \ {result}
    BY <1>6, RemoveEntriesKeeps
  <2>. QED BY <2>1, <2>2, <2>3 DEF RemoveInv
<1>7. CASE BeginRemove \/ RemoveSlot \/ EndRemove
  BY <1>2, <1>7 DEF BeginRemove, RemoveSlot, EndRemove
<1>8. CASE ReloadVisit
  <2>1. /\ UNCHANGED <<registry, removePc, face, result, wasLoaded, fid>>
        /\ \A f \in Fonts : links'[f] \subseteq links[f]
    BY <1>8 DEF ReloadVisit, ForgetLinks, remover
  <2>. QED BY <1>1, <2>1 DEF registry, RemoveInv, OnlyEntered, Normal, TypeOK
<1>9. CASE BeginReload \/ ReloadAstray \/ EndReload
  BY <1>3, <1>9 DEF BeginReload, ReloadAstray, EndReload, remover
<1>10. CASE DestroyEngine
  BY <1>2, <1>10 DEF DestroyEngine, remover
<1>11. CASE BeginDraw \/ BeginGlyphs \/ LinkLast \/ EndGlyphs \/ EndDraw
  BY <1>3, <1>11 DEF BeginDraw, BeginGlyphs, LinkLast, EndGlyphs, EndDraw, remover
<1>12. CASE Unloaded \/ UNCHANGED vars
  BY <1>3, <1>12 DEF Unloaded, vars, remover
<1>. QED BY <1>4, <1>5, <1>6, <1>7, <1>8, <1>9, <1>10, <1>11, <1>12
         DEF Next, Draw, Remove, Reload

LEMMA LinksNext == Inv /\ [Next]_vars => LinkInv'
<1> SUFFICES ASSUME Inv, [Next]_vars PROVE LinkInv'
  OBVIOUS
<1>1. /\ SectionInv /\ LinkInv /\ TypeOK /\ live \subseteq Fonts
      /\ links \in [Fonts -> SUBSET Fonts] /\ faceIds \in Nat /\ Fonts \subseteq Nat
  BY FontEngineAssumption DEF Inv, TypeOK, Fonts
<1>2. CASE UNCHANGED <<registry, links, drawPc, drawn>>
  BY <1>1, <1>2 DEF registry, LinkInv
(* A look-up brings at most one font, with an unused id and so no links.    *)
<1>3. ASSUME NEW font, Registered, LookedUp(font)
      PROVE  /\ \A f \in Fonts : links[f] # {} => f <= faceIds' /\ f \in links[f]
             /\ \A f \in live' : links[f] \subseteq live'
  <2>1. live \subseteq live' /\ live' \subseteq live \cup {faceIds + 1} /\ faceIds' >= faceIds
    BY <1>3 DEF LookedUp
  <2>2. faceIds' \in Nat /\ live' \subseteq Fonts
    BY RegistryNext, FontEngineAssumption DEF RegistryTypes
  <2>3. ASSUME NEW f \in Fonts, links[f] # {} PROVE f <= faceIds' /\ f \in links[f]
    BY <1>1, <2>1, <2>2, <2>3 DEF LinkInv
  <2>4. ASSUME NEW f \in live' PROVE links[f] \subseteq live'
    <3>1. CASE f \in live
      BY <1>1, <2>1, <3>1 DEF LinkInv
    <3>2. CASE f = faceIds + 1
      BY <1>1, <2>2, <3>2 DEF LinkInv
    <3>. QED BY <2>1, <3>1, <3>2
  <2>. QED BY <2>3, <2>4
<1>4. CASE Prepare
  <2>1. Registered /\ LookedUp(drawn') /\ UNCHANGED links
    BY <1>4, PrepareLooksUp, InUse DEF Prepare
  <2>2. drawPc' = IF drawn' = Nil THEN "text" ELSE "link"
    BY <1>4 DEF Prepare
  <2>. QED BY <1>3, <2>1, <2>2 DEF LinkInv, LookedUp
<1>5. CASE LinkSelf
  <2>1. drawn \in live /\ UNCHANGED <<live, faceIds, drawn>> /\ drawPc = "link"
    BY <1>1, <1>5 DEF LinkSelf, LinkInv, registry
  <2>2. drawn <= faceIds
    BY <2>1 DEF Inv, RegistryInv, IdsInStep, TypeOK
  <2>3. CASE links[drawn] = {}
    BY <1>1, <1>5, <2>1, <2>2, <2>3 DEF LinkSelf, LinkInv
  <2>4. CASE links[drawn] # {}
    BY <1>1, <1>5, <2>1, <2>4 DEF LinkSelf, LinkInv
  <2>. QED BY <2>3, <2>4
<1>6. CASE LinkNext
  <2>1. /\ Registered /\ drawn \in live /\ drawn \in links[drawn]
        /\ UNCHANGED <<drawn, drawPc>> /\ drawn \in Fonts
    BY <1>1, <1>6, LinkNextLooksUp, InUse DEF LinkNext, LinkInv, drawer
  <2>2. PICK font \in Fonts \cup {Nil} :
          LookedUp(font) /\ links' = [links EXCEPT ![drawn] = @ \cup ({font} \ {Nil})]
    BY <1>6, LinkNextLooksUp
  <2>3. /\ links'[drawn] = links[drawn] \cup ({font} \ {Nil})
        /\ \A f \in Fonts \ {drawn} : links'[f] = links[f]
    BY <1>1, <2>1, <2>2
  <2>4. /\ \A f \in Fonts : links[f] # {} => f <= faceIds' /\ f \in links[f]
        /\ \A f \in live' : links[f] \subseteq live'
        /\ live \subseteq live' /\ font \in live' \cup {Nil} /\ live' \subseteq Fonts
    BY <1>3, <2>1, <2>2, RegistryNext DEF LookedUp, RegistryTypes
  <2>. QED BY <2>1, <2>3, <2>4 DEF LinkInv
<1>7. CASE BeginDraw \/ BeginGlyphs
  BY <1>1, <1>7 DEF BeginDraw, BeginGlyphs, registry, LinkInv
<1>8. CASE LinkLast
  BY <1>1, <1>8 DEF LinkLast, registry, LinkInv
<1>9. CASE EndGlyphs \/ EndDraw
  BY <1>1, <1>9 DEF EndGlyphs, EndDraw, registry, LinkInv
<1>10. CASE RemoveFind
  <2>1. Registered /\ LookedUp(result') /\ UNCHANGED <<links, drawPc, drawn>>
    BY <1>10, RemoveFindLooksUp, InUse DEF RemoveFind, drawer
  <2>. QED BY <1>1, <1>3, <2>1 DEF LinkInv, LookedUp
<1>11. CASE RemoveEntries
  <2>1. /\ drawPc = "idle" /\ drawPc' = "idle" /\ UNCHANGED faceIds
        /\ removePc = "remove" /\ engine
    BY <1>1, <1>11 DEF RemoveEntries, SectionInv, drawer
  <2>2. live' = live \ {result}
    BY <1>11, RemoveEntriesKeeps
  <2>3. CASE wasLoaded
    <3>1. links' = [f \in Fonts |-> IF f \in {fullMap[n] : n \in FullNames}
                                    THEN {} ELSE links[f]]
      BY <1>11, <2>3 DEF RemoveEntries, RemoveFontInfo, ForgetLinks
    <3>2. \A f \in live : links'[f] = {}
      BY <1>1, <2>1, <3>1, InUse DEF Registered, Entered
    <3>. QED BY <1>1, <2>1, <2>2, <3>1, <3>2 DEF LinkInv
  <2>4. CASE ~wasLoaded
    <3>1. UNCHANGED links
      BY <1>11, <2>4 DEF RemoveEntries, RemoveThisFont
    <3>2. \A f \in live \ {result} : result \notin links[f]
      BY <2>1, <2>4 DEF Inv, RemoveInv
    <3>. QED BY <1>1, <2>1, <2>2, <3>1, <3>2 DEF LinkInv
  <2>. QED BY <2>3, <2>4
<1>12. CASE BeginRemove \/ RemoveSlot \/ EndRemove
  BY <1>1, <1>12 DEF BeginRemove, RemoveSlot, EndRemove, registry, drawer, LinkInv
<1>13. CASE ReloadVisit
  <2>1. UNCHANGED <<live, faceIds, drawPc, drawn>> /\ drawPc \notin {"link", "linking", "glyphs"}
    BY <1>1, <1>13 DEF ReloadVisit, SectionInv, registry, drawer
  <2>2. \A f \in Fonts : links'[f] = {} \/ links'[f] = links[f]
    BY <1>13 DEF ReloadVisit, ForgetLinks
  <2>. QED BY <1>1, <2>1, <2>2 DEF LinkInv
<1>14. CASE BeginReload \/ ReloadAstray \/ EndReload
  BY <1>2, <1>14 DEF BeginReload, ReloadAstray, EndReload, drawer
<1>15. CASE DestroyEngine
  <2>1. live' = {} /\ UNCHANGED <<links, faceIds>> /\ drawPc' = "idle"
    BY <1>15, DestroyKeeps DEF DestroyEngine, RegistryInv, drawer
  <2>. QED BY <1>1, <2>1 DEF LinkInv
<1>16. CASE Unloaded \/ UNCHANGED vars
  BY <1>2, <1>16 DEF Unloaded, vars, drawer
<1>. QED BY <1>4, <1>5, <1>6, <1>7, <1>8, <1>9, <1>10, <1>11, <1>12, <1>13, <1>14, <1>15,
            <1>16 DEF Next, Draw, Remove, Reload

LEMMA InvInit == Init => Inv
<1> SUFFICES ASSUME Init PROVE Inv
  OBVIOUS
<1> USE DEF Init
<1>1. TypeOK
  <2>1. fontList \in Seq(Fonts \cup {Nil})
    OBVIOUS
  <2>2. faceIds \in 0..MaxFaces
    BY FontEngineAssumption
  <2>3. /\ links \in [Fonts -> SUBSET Fonts] /\ refs \in [Fonts -> Int]
        /\ fullName \in [Fonts -> FullNames \cup {Nil}]
        /\ fontMap \in [FontKeys -> Fonts \cup {Nil}]
        /\ fullMap \in [FullNames -> Fonts \cup {Nil}]
    OBVIOUS
  <2>. QED BY <2>1, <2>2, <2>3 DEF TypeOK
<1>2. SectionInv
  BY DEF SectionInv, DC!Init, FT!Init, Threads
<1>3. RegistryInv
  BY DEF RegistryInv, IdsInStep, Counted, Entered
<1>4. RemoveInv /\ LinkInv
  BY DEF RemoveInv, LinkInv
<1>. QED BY <1>1, <1>2, <1>3, <1>4 DEF Inv

LEMMA InvNext == Inv /\ [Next]_vars => Inv'
BY TypeNext, SectionNext, RegistryNext, RemoveNext, LinksNext DEF Inv

LEMMA Invariant == Spec => []Inv
BY InvInit, InvNext, PTL DEF Spec

-----------------------------------------------------------------------------
(* Every state of the registry and of the three calls is of its type.       *)
THEOREM TypeCorrect == Spec => []TypeOK
<1>1. Inv => TypeOK
  BY DEF Inv
<1>. QED BY Invariant, <1>1, PTL

(* Both maps name live fonts only and forget none, after any additions,     *)
(* aliases and removals (AddFont, RemoveFont and RemoveThisFont).           *)
THEOREM Lively == Spec => []RegistryLive
<1>1. Inv => RegistryLive
  BY DEF Inv, TypeOK, RegistryInv, Entered, RegistryLive
<1>. QED BY Invariant, <1>1, PTL

(* FaceIDHolder and m_mfontList stay in step: slot m_id - 1 is the font's.  *)
THEOREM FaceIds == Spec => []FaceIdsMatch
<1>1. Inv => FaceIdsMatch
  BY DEF Inv, RegistryInv, IdsInStep, FaceIdsMatch
<1>. QED BY Invariant, <1>1, PTL

(* While a thread takes glyphs, every id of its font's links is the id of a *)
(* live font, whatever the removing and the reloading threads do.           *)
THEOREM Resolved == Spec => []LinksResolve
<1>1. Inv => LinksResolve
  <2> SUFFICES ASSUME Inv, drawPc = "glyphs" PROVE LinksResolve
    BY DEF LinksResolve
  <2>1. drawn \in live /\ drawn \in links[drawn] /\ links[drawn] \subseteq live
    BY DEF Inv, LinkInv
  <2>2. ASSUME NEW id \in live PROVE FindById(id) = id
    BY DEF Inv, RegistryInv, IdsInStep, TypeOK, FindById
  <2>. QED BY <2>1, <2>2 DEF LinksResolve
<1>. QED BY Invariant, <1>1, PTL

(* No step of any thread touches the link array the glyph loop walks.       *)
THEOREM Stable == Spec => LinksStable
<1>1. Inv /\ [Next]_vars => [drawPc = "glyphs" => links'[drawn] = links[drawn]]_vars
  <2> SUFFICES ASSUME Inv, Next, drawPc = "glyphs" PROVE UNCHANGED links
    OBVIOUS
  <2>1. removePc = "idle" /\ reloadPc # "visit"
    BY DEF Inv, SectionInv
  <2>2. CASE Draw
    BY <2>2 DEF Draw, BeginDraw, BeginGlyphs, Prepare, LinkSelf, LinkNext, LinkLast,
                EndGlyphs, EndDraw
  <2>3. CASE Remove
    BY <2>1, <2>3 DEF Remove, BeginRemove, RemoveFind, RemoveEntries, RemoveSlot, EndRemove
  <2>4. CASE Reload
    BY <2>1, <2>4 DEF Reload, BeginReload, ReloadVisit, ReloadAstray, EndReload
  <2>5. CASE DestroyEngine \/ Unloaded
    BY <2>5 DEF DestroyEngine, Unloaded, vars
  <2>. QED BY <2>2, <2>3, <2>4, <2>5 DEF Next
<1>. QED BY Invariant, <1>1, PTL DEF Spec, LinksStable

(* The destructor, one Release for each entry of m_mfullMap, deletes every  *)
(* font and never counts one below zero.                                    *)
THEOREM FreesAll == Spec => []EngineFreesAll
<1>1. Inv => EngineFreesAll
  BY DEF Inv, RegistryInv, Counted, EngineFreesAll
<1>. QED BY Invariant, <1>1, PTL
=============================================================================
