----------------------------- MODULE LockOrder -----------------------------
(***************************************************************************)
(* The critical sections of the DLL and the order in which the code takes   *)
(* them: the guards CCriticalSectionLock and COwnedCriticalSectionLock of   *)
(* src/src/utils/common.h, which live to the end of a scope, in the calls   *)
(* that draw a text, create and delete fonts, remove a font resource and    *)
(* reload the settings.                                                     *)
(*                                                                         *)
(* A function is its lock program: the section its guard enters, and the    *)
(* functions it then calls, in the order of the code.  A call behind a      *)
(* condition or an early return may be left out, and a loop is one turn,    *)
(* since the next turn takes the same sections again.  A part of a function *)
(* with a guard of its own is a program of its own.  A thread is the stack  *)
(* of the functions it is in, so it holds the sections of its frames.       *)
(***************************************************************************)
EXTENDS Integers, Sequences

CONSTANTS Threads,     (* the threads of the process                         *)
          Operations,  (* the functions a thread calls from outside          *)
          MaxCalls     (* bound on the calls of each thread                  *)

(* An owned section has an owner class, 1 to draw and 2 to remove or reload *)
(* fonts, whose threads share it; a plain one has class 0.                  *)
Owns(section, class, callees) ==
  [section |-> section, class |-> class, callees |-> callees]
Locks(section, callees) == Owns(section, 0, callees)
Plain(callees) == Locks("none", callees)

(* Drawing a text.  Each mutated form is one guard or one argument off.     *)
IMPL_ExtTextOutW == Plain(<<"GetInstance", "DisplayFromDC", "DrawText">>)
DisplayFromDC == Locks("CS_DCRELATION", <<>>)
DrawTextUnowned == Plain(<<"FreeTypeGetGlyph">>)               \* mutated form
DrawText == Owns("OCS_DC", 1,
  <<"CreateFontIndirectExW", "FreeTypeGetGlyph", "GetInstance", "DeleteObject">>)
FreeTypeGetGlyph == Owns("OCS_FREETYPE", 1,
  <<"FreeTypePrepare", "GetInstance", "ForEachGetGlyphFT", "ForEachGetGlyphGGO">>)
FreeTypePrepare == Plain(
  <<"GetInstance", "FindFont", "GetFTLink", "GetFace", "GetOS2Table", "GetCache">>)
ForEachGetGlyphFT == Plain(
  <<"GetInstance", "CopyGlyph", "EmbeddedBmpExist", "GetFace", "FindFontById",
    "CompactChars">>)
ForEachGetGlyphGGO == Plain(
  <<"GetInstance", "CreateFontIndirectExW", "CopyGlyph", "CompactChars",
    "DeleteObject">>)
GetFTLink == Locks("CS_FONTLINK", <<"Createlink">>)
Createlink == Plain(<<"GetInstance", "CopyForceFont", "FindFontByName">>)
GetFace == Locks("CS_MANAGER", <<"CloseFace", "face_requester">>)
GetOS2TableUnlocked == Plain(<<"CloseFace", "face_requester">>)  \* mutated form
GetOS2Table == Locks("CS_MANAGER", <<"CloseFace", "face_requester">>)
EmbeddedBmpExist == Locks("CS_MANAGER", <<"CloseFace", "face_requester">>)
CopyGlyph == Locks("CS_LIBRARY", <<>>)
GetCache == Locks("CS_FONTCACHE", <<"CompactMap">>)
CompactMap == Locks("CS_FONTCACHE", <<>>)
CompactChars == Locks("CS_FONTCACHE", <<>>)

(* The font registry; the face requester, through which the cache manager   *)
(* of FreeType opens a face, and the finalizer by which it closes one.      *)
FindFont == Locks("CS_FONTMAP", <<"FindFontByName", "AddFont">>)
FindFontByName == Locks("CS_FONTMAP", <<"AddFont">>)
FindFontById == Locks("CS_FONTMAP", <<>>)
AddFont == Locks("CS_FONTENG", <<"GetInstance", "NewFontInfo", "FreeFontInfo">>)
NewFontInfo == Plain(<<"GetInstance", "CreateFontIndirectExW">>)
FreeFontInfo == Plain(<<"Erase", "DeleteObject">>)
Erase == Locks("CS_FONTCACHE", <<>>)
face_requester == Plain(<<"FindFontById", "SysFontInit">>)
SysFontInit == Plain(<<"GetInstance", "CreateFontIndirectExW", "DeleteObject">>)
CloseFace == Plain(<<"DeleteObject">>)

(* Creating and deleting a font, which GDI turns over to the hooks.  The    *)
(* font CopyForceFont creates bears FONT_MAGIC_NUMBER: its hook returns at  *)
(* once.                                                                    *)
CreateFontIndirectExW == Plain(<<"GetInstance", "CopyForceFont", "AddToCachedFont">>)
CopyForceFont == Plain(<<"DeleteObject">>)
DeleteObject == Plain(<<"DeleteCachedFont">>)
AddToCachedFont == Locks("CS_CACHEDFONT", <<>>)
DeleteCachedFont == Locks("CS_CACHEDFONT", <<>>)

(* Removing a font resource.                                                *)
IMPL_RemoveFontResourceExW == Plain(<<"RemoveFontFile">>)
RemoveFontFile == Owns("OCS_DC", 2, <<"RemoveFontsOfFile">>)
RemoveFontsOfFile == Locks("CS_MANAGER", <<"FindFontByName", "RemoveFont", "RemoveFaceID">>)
RemoveFont == Locks("CS_FONTMAP", <<"FreeFontInfo">>)
RemoveFaceID == Locks("CS_FONTENG", <<"CloseFace">>)

(* The settings, initialised on first use, and their reload.  Trace is what *)
(* the TRACE macro calls in a debug build and nothing in a release build,   *)
(* the one modelled; the mutated form of DelayedInit is that of the debug   *)
(* build, in which AddIndividualFromSection traces each font it adds.       *)
GetInstanceUnlocked == Plain(<<"DelayedInit">>)                \* mutated form
GetInstance == Locks("CS_SETTING", <<"DelayedInit">>)
DelayedInitTraced == Plain(                                    \* mutated form
  <<"GetInstance", "CopyForceFont", "CreateFontIndirectExW", "Trace">>)
DelayedInit == Plain(<<"GetInstance", "CopyForceFont", "CreateFontIndirectExW">>)
ReloadConfig == Plain(
  <<"GetInstance", "LoadSettings", "ResetInit", "UpdateLcdFilter", "ReloadAll">>)
Trace == Locks("CS_LIBRARY", <<>>)
LoadSettings == Locks("CS_SETTING", <<>>)
ResetInit == Plain(<<>>)
UpdateLcdFilter == Plain(<<"GetInstance">>)
ReloadAll == Owns("OCS_FREETYPE", 2, <<"ReloadFonts">>)
ReloadFonts == Locks("CS_LIBRARY", <<"GetInstance", "Erase">>)

Functions == {"IMPL_ExtTextOutW", "DisplayFromDC", "DrawText",
  "FreeTypeGetGlyph", "FreeTypePrepare", "ForEachGetGlyphFT",
  "ForEachGetGlyphGGO", "GetFTLink", "Createlink", "GetFace", "GetOS2Table",
  "EmbeddedBmpExist", "CopyGlyph", "GetCache", "CompactMap", "CompactChars",
  "FindFont", "FindFontByName", "FindFontById", "AddFont", "NewFontInfo",
  "FreeFontInfo", "Erase", "face_requester", "SysFontInit", "CloseFace",
  "CreateFontIndirectExW", "CopyForceFont", "DeleteObject", "AddToCachedFont",
  "DeleteCachedFont", "IMPL_RemoveFontResourceExW", "RemoveFontFile",
  "RemoveFontsOfFile", "RemoveFont", "RemoveFaceID", "GetInstance",
  "DelayedInit", "ReloadConfig", "Trace", "LoadSettings", "ResetInit",
  "UpdateLcdFilter", "ReloadAll", "ReloadFonts"}

Code(f) ==
  CASE f = "IMPL_ExtTextOutW" -> IMPL_ExtTextOutW
    [] f = "DisplayFromDC" -> DisplayFromDC
    [] f = "DrawText" -> DrawText
    [] f = "FreeTypeGetGlyph" -> FreeTypeGetGlyph
    [] f = "FreeTypePrepare" -> FreeTypePrepare
    [] f = "ForEachGetGlyphFT" -> ForEachGetGlyphFT
    [] f = "ForEachGetGlyphGGO" -> ForEachGetGlyphGGO
    [] f = "GetFTLink" -> GetFTLink
    [] f = "Createlink" -> Createlink
    [] f = "GetFace" -> GetFace
    [] f = "GetOS2Table" -> GetOS2Table
    [] f = "EmbeddedBmpExist" -> EmbeddedBmpExist
    [] f = "CopyGlyph" -> CopyGlyph
    [] f = "GetCache" -> GetCache
    [] f = "CompactMap" -> CompactMap
    [] f = "CompactChars" -> CompactChars
    [] f = "FindFont" -> FindFont
    [] f = "FindFontByName" -> FindFontByName
    [] f = "FindFontById" -> FindFontById
    [] f = "AddFont" -> AddFont
    [] f = "NewFontInfo" -> NewFontInfo
    [] f = "FreeFontInfo" -> FreeFontInfo
    [] f = "Erase" -> Erase
    [] f = "face_requester" -> face_requester
    [] f = "SysFontInit" -> SysFontInit
    [] f = "CloseFace" -> CloseFace
    [] f = "CreateFontIndirectExW" -> CreateFontIndirectExW
    [] f = "CopyForceFont" -> CopyForceFont
    [] f = "DeleteObject" -> DeleteObject
    [] f = "AddToCachedFont" -> AddToCachedFont
    [] f = "DeleteCachedFont" -> DeleteCachedFont
    [] f = "IMPL_RemoveFontResourceExW" -> IMPL_RemoveFontResourceExW
    [] f = "RemoveFontFile" -> RemoveFontFile
    [] f = "RemoveFontsOfFile" -> RemoveFontsOfFile
    [] f = "RemoveFont" -> RemoveFont
    [] f = "RemoveFaceID" -> RemoveFaceID
    [] f = "GetInstance" -> GetInstance
    [] f = "DelayedInit" -> DelayedInit
    [] f = "ReloadConfig" -> ReloadConfig
    [] f = "Trace" -> Trace
    [] f = "LoadSettings" -> LoadSettings
    [] f = "ResetInit" -> ResetInit
    [] f = "UpdateLcdFilter" -> UpdateLcdFilter
    [] f = "ReloadAll" -> ReloadAll
    [] f = "ReloadFonts" -> ReloadFonts

Section(f) == Code(f).section
Callees(f) == Code(f).callees

(* What the program, GDI and the message window of the manager call.        *)
EntryPoints == {"IMPL_ExtTextOutW", "CreateFontIndirectExW", "DeleteObject",
  "IMPL_RemoveFontResourceExW", "ReloadConfig"}

ASSUME LockOrderAssumption == Operations \subseteq EntryPoints /\ MaxCalls \in Nat

VARIABLES
  stack,    (* the functions a thread is in, the innermost last, each with   *)
            (* the number of its callees that are behind it                  *)
  waiting,  (* the function whose guard a thread waits for, or "none"        *)
  calls,    (* the calls from outside each thread has begun                  *)
  inited    (* m_bDelayedInit of the settings                                *)

vars == <<stack, waiting, calls, inited>>

Init ==
  /\ stack = [t \in Threads |-> <<>>]
  /\ waiting = [t \in Threads |-> "none"]
  /\ calls = [t \in Threads |-> 0]
  /\ inited = FALSE

Top(t) == stack[t][Len(stack[t])]
Inside(t, f) == \E i \in DOMAIN stack[t] : stack[t][i].fn = f

(* A plain section admits one thread, which may enter it again; an owned    *)
(* one the threads of one class (module ClassLock).                         *)
SameOwner(t, f, u, g) ==
  IF Code(f).class = 0 THEN t = u ELSE Code(f).class = Code(g).class

(* Thread u keeps t out of the guard of f.                                  *)
Blocks(u, t, f) ==
  \E i \in DOMAIN stack[u] :
    LET g == stack[u][i].fn IN Section(g) = Section(f) /\ ~SameOwner(t, f, u, g)

(* Function f begins in thread t, its guard passed.  DelayedInit raises     *)
(* m_bDelayedInit before anything else; ReloadConfig clears it, in no       *)
(* section.                                                                 *)
Push(under, t, f) ==
  /\ stack' = [stack EXCEPT ![t] = Append(under, [fn |-> f, done |-> 0])]
  /\ inited' = (f = "DelayedInit" \/ (f # "ResetInit" /\ inited))

BeginUnbounded(t) ==                                           \* mutated form
  \E f \in Operations :
    /\ stack[t] = <<>>
    /\ calls' = [calls EXCEPT ![t] = @ + 1]
    /\ Push(<<>>, t, f)
    /\ UNCHANGED waiting

(* A call from outside; none of these functions has a guard of its own.     *)
Begin(t) ==
  \E f \in Operations :
    /\ stack[t] = <<>> /\ calls[t] < MaxCalls
    /\ calls' = [calls EXCEPT ![t] = @ + 1]
    /\ Push(<<>>, t, f)
    /\ UNCHANGED waiting

(* The innermost function goes on to its i-th callee: it is in it at once,  *)
(* or it stands at its guard.                                               *)
Call(t) ==
  /\ stack[t] # <<>> /\ waiting[t] = "none"
  /\ \E i \in Top(t).done + 1 .. Len(Callees(Top(t).fn)) :
       LET f == Callees(Top(t).fn)[i]
           here == [stack[t] EXCEPT ![Len(stack[t])].done = i]
       IN /\ f = "DelayedInit" => ~inited
          /\ \/ /\ Section(f) = "none"
                /\ Push(here, t, f)
                /\ UNCHANGED waiting
             \/ /\ Section(f) # "none"
                /\ stack' = [stack EXCEPT ![t] = here]
                /\ waiting' = [waiting EXCEPT ![t] = f]
                /\ UNCHANGED inited
  /\ UNCHANGED calls

(* The guard thread t stands at is passed.                                  *)
Enter(t) ==
  /\ waiting[t] # "none"
  /\ \A u \in Threads : ~Blocks(u, t, waiting[t])
  /\ Push(stack[t], t, waiting[t])
  /\ waiting' = [waiting EXCEPT ![t] = "none"]
  /\ UNCHANGED calls

(* The innermost function returns, and its guard leaves the section.        *)
(* GetInstance does not leave DelayedInit out, nor ReloadConfig ResetInit.  *)
Return(t) ==
  /\ stack[t] # <<>> /\ waiting[t] = "none"
  /\ Top(t).fn = "GetInstance" => inited \/ Top(t).done = 1
  /\ Top(t).fn = "ReloadConfig" => Top(t).done >= 3
  /\ stack' = [stack EXCEPT ![t] = SubSeq(@, 1, Len(@) - 1)]
  /\ UNCHANGED <<waiting, calls, inited>>

(* All the calls of the bound are made.                                     *)
Finished ==
  /\ \A t \in Threads : stack[t] = <<>> /\ calls[t] = MaxCalls
  /\ UNCHANGED vars

Step(t) == Begin(t) \/ Call(t) \/ Enter(t) \/ Return(t)

Next == (\E t \in Threads : Step(t)) \/ Finished

Spec == Init /\ [][Next]_vars

-----------------------------------------------------------------------------
(* Types, and the shape of a stack: each frame was called by the one below  *)
(* it, and a thread waits at the guard its innermost function has called.   *)
Frame == [fn : Functions, done : Nat]

Called(frame) == Callees(frame.fn)[frame.done]
HasCalled(frame) == frame.done \in DOMAIN Callees(frame.fn)

TypeOK ==
  /\ stack \in [Threads -> Seq(Frame)]
  /\ waiting \in [Threads -> Functions \cup {"none"}]
  /\ calls \in [Threads -> 0..MaxCalls]
  /\ inited \in BOOLEAN
  /\ \A t \in Threads :
       /\ \A i \in 1 .. Len(stack[t]) - 1 :
            HasCalled(stack[t][i]) /\ stack[t][i + 1].fn = Called(stack[t][i])
       /\ waiting[t] # "none" =>
            stack[t] # <<>> /\ HasCalled(Top(t)) /\ waiting[t] = Called(Top(t))

(* Among any threads there is one that no other of them keeps waiting: the  *)
(* sections nest in one order, in every path of the calls above, so the     *)
(* program cannot come to a standstill in them.                             *)
NoCircularWait ==
  \A T \in (SUBSET Threads) \ {{}} :
    \E t \in T : \A u \in T : waiting[t] = "none" \/ ~Blocks(u, t, waiting[t])

(* The cache manager of FreeType, which is not made for threads, calls back *)
(* (face_requester) and is told to drop a face (RemoveFaceID) by one thread *)
(* at a time, although the guards that see to it are in many functions.     *)
UsesManager(t) == Inside(t, "face_requester") \/ Inside(t, "CloseFace")
ManagerAlone == \A t, u \in Threads : UsesManager(t) /\ UsesManager(u) => t = u

(* No font is deleted and none forgets its settings while a drawing thread  *)
(* is between the look-up of its font and the last glyph: RemoveFont relies *)
(* on OCS_DC and ReloadAll on OCS_FREETYPE, two different sections.         *)
FontsStay ==
  \A t, u \in Threads :
    Inside(t, "RemoveFont") \/ Inside(t, "ReloadFonts") => ~Inside(u, "FreeTypeGetGlyph")

(* No thread gets the settings from GetInstance while another one is still  *)
(* initialising them, although m_bDelayedInit is raised at the beginning of *)
(* DelayedInit and not at its end.                                          *)
Leaves(t, f) == Inside(t, f) /\ ~Inside(t, f)'
SettingsReady ==
  [][\A t, u \in Threads :
       t # u /\ Leaves(t, "GetInstance") => ~Inside(u, "DelayedInit")]_vars
=============================================================================
