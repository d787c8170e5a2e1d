---------------------------- MODULE HookInstall ----------------------------
(***************************************************************************)
(* Installing and removing the hooks.  DllMain attaches the functions of    *)
(* GDI in one transaction of the hooking library and each export of d2d1    *)
(* and dwrite in one of its own (src/src/hooking/hook.cpp).  From then on   *)
(* every thread that creates an object of Direct2D or DirectWrite attaches  *)
(* the methods of it that are not hooked yet                                *)
(* (src/src/platform/directwrite.cpp), so that several threads, and the     *)
(* unloading thread, may be in transactions of the library at once.         *)
(*                                                                         *)
(* What a thread has still to do is a sequence of items [op, at], made from *)
(* tables of the functions' code.  Methods that are hooked in one place and *)
(* go on with the same code are one method, the first of them.              *)
(***************************************************************************)
EXTENDS Integers, Sequences

CONSTANTS Threads,   (* the threads of the program                           *)
          Loader,    (* the thread in DllMain                                *)
          Systems,   (* the sets of functions that a system may have         *)
          Unsure     (* the functions DetourAttach may be unable to patch    *)

None == "none"
Gdi == <<"TextOutW", "ExtTextOutW">>                     \* of hooklist.h
Exports == <<"DWriteCreateFactory", "D2D1CreateFactory", "D2D1CreateDevice",
             "D2D1CreateDeviceContext">>                 \* of dwrite, d2d1
FontFunctions == <<"CreateFontIndirectExW", "CreateFontIndirectW">>

ASSUME HookInstallAssumption ==
  /\ Loader \notin Threads /\ None \notin Threads \cup {Loader}
  /\ Systems \subseteq SUBSET STRING

-----------------------------------------------------------------------------
Items(op, names) == [i \in DOMAIN names |-> [op |-> op, at |-> names[i]]]
Item(op, name) == Items(op, <<name>>)

(* hook_demand_X: a transaction for one function.                           *)
Demand(f) == Item("begin", f) \o Item("attach", f) \o Item("commit", f)

(* The static locals that make a piece of hooking code run once.            *)
Categories == {"loaded1", "loaded2", "loaded3"}
Analyses == {"CreateGlyphRunAnalysis", "CreateGlyphRunAnalysis2",
             "CreateGlyphRunAnalysis3"}
Statics == {"HookFactory", "HookDevice", "HookRenderTarget", "hookDirectWrite",
            "GetGdiInterop", "CreateBitmapRenderTarget"} \cup Categories \cup Analyses

(* HookRenderTarget, for an object of one of three categories.              *)
HookRenderTarget(category) ==
  Item("static", "HookRenderTarget") \o Item("static", category)

CategoryMethods(category) ==
  CASE category = "loaded1" -> <<"D2D1RenderTarget_DrawText",
                                 "D2D1RenderTarget_DrawGlyphRun">>
    [] category = "loaded2" -> <<"D2D1RenderTarget_DrawText",
                                 "D2D1RenderTarget1_DrawGlyphRun">>
    [] category = "loaded3" -> <<"D2D1DeviceContext_DrawText",
                                 "D2D1DeviceContext_DrawGlyphRun">>

HookCategoryUnlocked(g) == Items("hook", CategoryMethods(g))   \* mutated form
HookCategory(g) ==
  Item("enter", "CS_DWRITE") \o Items("hook", CategoryMethods(g))
    \o Item("leave", "CS_DWRITE")

HookDeviceAndTarget ==                                         \* mutated form
  Item("hook", "CreateDeviceContext") \o Item("static", "HookRenderTarget")
HookDevice == Item("hook", "CreateDeviceContext")

(* What the initializer of a static local does.                             *)
Initializer(g) ==
  CASE g = "HookFactory" ->
         Items("hook", <<"CreateWicBitmapRenderTarget", "CreateHwndRenderTarget",
                         "CreateDevice1">>)
    [] g = "HookDevice" -> HookDevice
    [] g = "HookRenderTarget" ->
         Items("hook", <<"CreateCompatibleRenderTarget",
                         "D2D1RenderTarget_DrawTextLayout">>)
           \o Items("static", <<"HookFactory", "HookDevice">>)
    [] g \in Categories -> HookCategory(g)
    [] g = "hookDirectWrite" ->
         Items("hook", <<"CreateGlyphRunAnalysis", "GetGdiInterop">>)
           \o Item("call", "GetGdiInterop")
           \o Items("hook", <<"CreateTextFormat", "CreateFontFace",
                              "CreateGlyphRunAnalysis2", "CreateGlyphRunAnalysis3">>)
    [] g = "GetGdiInterop" -> Item("hook", "CreateBitmapRenderTarget")
    [] g = "CreateBitmapRenderTarget" -> Item("hook", "BitmapRenderTarget_DrawGlyphRun")
    [] g \in Analyses -> Item("hook", "GetAlphaBlendParams")

(* What the hook of a function does besides calling the function.           *)
IMPL(f) ==
  CASE f = "DWriteCreateFactory" -> Item("static", "hookDirectWrite")
    [] f = "D2D1CreateFactory" -> Item("static", "HookFactory")
    [] f \in {"D2D1CreateDevice", "CreateDevice1"} -> Item("static", "HookDevice")
    [] f \in {"D2D1CreateDeviceContext", "CreateDeviceContext"} ->
         HookRenderTarget("loaded3")
    [] f = "CreateWicBitmapRenderTarget" -> HookRenderTarget("loaded1")
    [] f \in {"CreateHwndRenderTarget", "CreateCompatibleRenderTarget"} ->
         HookRenderTarget("loaded2")
    [] f \in {"GetGdiInterop", "CreateBitmapRenderTarget", "CreateGlyphRunAnalysis3"} ->
         Item("static", f)
    [] f = "CreateGlyphRunAnalysis" ->
         Item("call", "CreateGlyphRunAnalysis2") \o Item("static", f)
    [] f = "CreateGlyphRunAnalysis2" ->
         Item("call", "CreateGlyphRunAnalysis3") \o Item("static", f)
    [] OTHER -> <<>>

(* DLL_PROCESS_ATTACH: hook_init, HookD2DDll and HookFontCreation.          *)
HookLibrary(names) == Items("set", names) \o Items("demand", names)
Attaching ==
  Item("begin", "hook_init") \o Items("init", Gdi) \o Item("hook_init", "hook_init")
    \o HookLibrary(Exports) \o HookLibrary(FontFunctions)

(* DLL_PROCESS_DETACH: hook_term, and the end of everything else.           *)
Detaching ==
  Item("begin", "hook_term") \o Item("detach", "hook_term")
    \o Item("hook_term", "hook_term") \o Item("unmap", "hook_term")

-----------------------------------------------------------------------------
VARIABLES
  system,   (* the functions that the system has                             *)
  dll,      (* what DllMain is at                                            *)
  todo,     (* what each thread has still to do                              *)
  static,   (* the state of each static local                                *)
  section,  (* the thread in CS_DWRITE, or None                              *)
  hooked,   (* IsHooked_X of each function                                   *)
  orig,     (* what ORIG_X of each function points to                        *)
  live,     (* the functions whose code jumps to their hook                  *)
  owner,    (* the thread whose transaction the library has, or None         *)
  pending,  (* the functions of that transaction                             *)
  error,    (* whether a call of that transaction has failed                 *)
  lost,     (* history: a function was marked hooked and not attached        *)
  busy      (* history: a call was in progress during hook_term              *)

code == <<static, section>>
hooks == <<hooked, orig, live>>
detours == <<owner, pending, error>>
history == <<lost, busy>>
vars == <<system, dll, todo, code, hooks, detours, history>>

All == Threads \cup {Loader}

Init ==
  /\ system \in Systems /\ dll = "loading"
  /\ todo = [t \in All |-> IF t = Loader THEN Attaching ELSE <<>>]
  /\ static = [g \in Statics |-> "no"] /\ section = None
  /\ hooked = [f \in system |-> FALSE]
  /\ orig = [f \in system |-> "function"]
  /\ live = {} /\ owner = None /\ pending = {} /\ error = FALSE
  /\ lost = FALSE /\ busy = FALSE

(* The next item of a thread, while the module is mapped.                   *)
At(t, op) == dll # "gone" /\ todo[t] # <<>> /\ Head(todo[t]).op = op
Name(t) == Head(todo[t]).at
Goes(t, items) == todo' = [todo EXCEPT ![t] = items \o Tail(@)]
Continue(t) == Goes(t, <<>>)

-----------------------------------------------------------------------------
(* A thread calls a function that is hooked.                                *)
Call(t) ==
  /\ dll # "gone" /\ todo[t] = <<>>
  /\ \E f \in live : IMPL(f) # <<>> /\ todo' = [todo EXCEPT ![t] = IMPL(f)]
  /\ busy' = (busy \/ dll = "leaving")
  /\ UNCHANGED <<system, dll, code, hooks, detours, lost>>

(* A call inside a hook that is made or not, and hooked or not.             *)
Inner(t) ==
  /\ At(t, "call")
  /\ \/ Name(t) \in live /\ Goes(t, IMPL(Name(t)))
     \/ Continue(t)
  /\ UNCHANGED <<system, dll, code, hooks, detours, history>>

(* A static local: the first thread runs the initializer, the others wait.  *)
Static(t) ==
  /\ At(t, "static")
  /\ \/ /\ static[Name(t)] = "no"
        /\ static' = [static EXCEPT ![Name(t)] = "busy"]
        /\ Goes(t, Initializer(Name(t)) \o Item("done", Name(t)))
     \/ /\ static[Name(t)] = "done"
        /\ Continue(t)
        /\ UNCHANGED static
  /\ UNCHANGED <<system, dll, section, hooks, detours, history>>

Done(t) ==
  /\ At(t, "done") /\ Continue(t)
  /\ static' = [static EXCEPT ![Name(t)] = "done"]
  /\ UNCHANGED <<system, dll, section, hooks, detours, history>>

(* CCriticalSectionLock(CS_DWRITE).                                         *)
Enter(t) ==
  /\ At(t, "enter") /\ section = None /\ Continue(t)
  /\ section' = t
  /\ UNCHANGED <<system, dll, static, hooks, detours, history>>

Leave(t) ==
  /\ At(t, "leave") /\ Continue(t)
  /\ section' = None
  /\ UNCHANGED <<system, dll, static, hooks, detours, history>>

(* HOOK: nothing if the function is marked hooked, else SET_VAL and         *)
(* hook_demand.                                                             *)
Hook(t) ==
  /\ At(t, "hook")
  /\ IF Name(t) \notin system \/ hooked[Name(t)]
     THEN Continue(t)
     ELSE Goes(t, Item("set", Name(t)) \o Demand(Name(t)))
  /\ UNCHANGED <<system, dll, code, hooks, detours, history>>

(* hook_demand for an export that GetProcAddress has found (GDI has the font *)
(* functions, which are passed over when no font is substituted).           *)
DemandExport(t) ==
  /\ At(t, "demand")
  /\ Goes(t, IF Name(t) \in system THEN Demand(Name(t)) ELSE <<>>)
  /\ UNCHANGED <<system, dll, code, hooks, detours, history>>

SetOriginal(t) ==
  /\ At(t, "set") /\ Continue(t)
  /\ orig' = [f \in system |-> IF f = Name(t) THEN "function" ELSE orig[f]]
  /\ UNCHANGED <<system, dll, code, hooked, live, detours, history>>

(* DetourTransactionBegin: one thread at a time, the others get an error    *)
(* that no caller looks at.                                                 *)
Begin(t) ==
  /\ At(t, "begin") /\ Continue(t)
  /\ IF owner = None
     THEN owner' = t /\ pending' = {} /\ error' = FALSE
     ELSE UNCHANGED detours
  /\ UNCHANGED <<system, dll, code, hooks, history>>

(* DetourAttach: fails in the transaction of another thread, for code that  *)
(* cannot be patched or that is patched already.                            *)
DetourAttach(t, f, ok) ==
  /\ ok => owner = t /\ f \notin live
  /\ ok \/ owner # t \/ f \in live \cup Unsure
  /\ pending' = IF ok THEN pending \cup {f} ELSE pending
  /\ error' = (error \/ (owner = t /\ ~ok))
  /\ UNCHANGED owner

(* hook_init marks what it attached.                                        *)
InitAttach(t) ==
  /\ At(t, "init") /\ Continue(t)
  /\ IF Name(t) \in system
     THEN \E ok \in BOOLEAN : /\ DetourAttach(t, Name(t), ok)
                             /\ hooked' = [hooked EXCEPT ![Name(t)] = ok]
     ELSE UNCHANGED <<hooked, detours>>
  /\ UNCHANGED <<system, dll, code, orig, live, history>>

(* hook_demand tests IsHooked_X, ...                                        *)
Attach(t) ==
  /\ At(t, "attach")
  /\ IF hooked[Name(t)]
     THEN Continue(t)
     ELSE Goes(t, Item("detour", Name(t)))
  /\ UNCHANGED <<system, dll, code, hooks, detours, history>>

(* ... attaches, ...                                                        *)
Detour(t) ==
  /\ At(t, "detour") /\ Goes(t, Item("mark", Name(t)))
  /\ \E ok \in BOOLEAN : DetourAttach(t, Name(t), ok) /\ lost' = (lost \/ ~ok)
  /\ UNCHANGED <<system, dll, code, hooks, busy>>

(* ... and marks the function whatever DetourAttach has returned.           *)
Mark(t) ==
  /\ At(t, "mark") /\ Continue(t)
  /\ hooked' = [hooked EXCEPT ![Name(t)] = TRUE]
  /\ UNCHANGED <<system, dll, code, orig, live, detours, history>>

(* DetourTransactionCommit: all of the transaction, or after an error none  *)
(* of it.                                                                   *)
Failed(t) == owner # t \/ error
Ends(t) ==
  /\ owner' = IF owner = t THEN None ELSE owner
  /\ pending' = IF owner = t THEN {} ELSE pending
  /\ error' = (error /\ owner # t)
CommitAttach(t) ==
  /\ Ends(t)
  /\ live' = IF Failed(t) THEN live ELSE live \cup pending
  /\ orig' = [f \in system |-> IF f \in live' \ live THEN "trampoline" ELSE orig[f]]

Commit(t) ==
  /\ At(t, "commit") /\ Continue(t) /\ CommitAttach(t)
  /\ UNCHANGED <<system, dll, code, hooked, history>>

(* The end of hook_init.  When it fails DllMain returns FALSE, and is       *)
(* called to detach.                                                        *)
CommitInit(t) ==
  /\ At(t, "hook_init") /\ CommitAttach(t)
  /\ \/ ~Failed(t) /\ Continue(t) /\ UNCHANGED dll
     \/ /\ Failed(t) /\ dll' = "leaving"
        /\ todo' = [todo EXCEPT ![t] = Detaching]
  /\ UNCHANGED <<system, code, hooked, history>>

-----------------------------------------------------------------------------
(* DllMain has attached; the module is unloaded later or never.             *)
Loaded ==
  /\ dll = "loading" /\ todo[Loader] = <<>>
  /\ dll' = "loaded"
  /\ UNCHANGED <<system, todo, code, hooks, detours, history>>

Unload ==
  /\ dll = "loaded" /\ dll' = "leaving"
  /\ todo' = [todo EXCEPT ![Loader] = Detaching]
  /\ busy' = (\E t \in Threads : todo[t] # <<>>)
  /\ UNCHANGED <<system, code, hooks, detours, lost>>

(* DetourDetach(&ORIG_X): an error unless ORIG_X points to the trampoline.  *)
Detachable == {f \in live : orig[f] = "trampoline"}

DetachLeavingExports(t) ==                                     \* mutated form
  /\ At(t, "detach") /\ Continue(t)
  /\ LET marked == {f \in system : hooked[f] /\ \E i \in DOMAIN Gdi : Gdi[i] = f} IN
       /\ pending' = IF owner = t THEN marked \cap Detachable ELSE pending
       /\ error' = (error \/ (owner = t /\ ~(marked \subseteq Detachable)))
  /\ hooked' = [f \in system |-> FALSE]
  /\ UNCHANGED <<system, dll, code, orig, live, owner, history>>

DetachUnbegun(t) ==                                            \* mutated form
  /\ At(t, "detach") /\ Continue(t)
  /\ LET marked == {f \in system : hooked[f]} IN
       /\ pending' = marked \cap Detachable
       /\ error' = (error \/ ~(marked \subseteq Detachable))
  /\ hooked' = [f \in system |-> FALSE]
  /\ UNCHANGED <<system, dll, code, orig, live, owner, history>>

(* hook_term detaches what is marked, and marks nothing any more.           *)
Detach(t) ==
  /\ At(t, "detach") /\ Continue(t)
  /\ LET marked == {f \in system : hooked[f]} IN
       /\ pending' = IF owner = t THEN marked \cap Detachable ELSE pending
       /\ error' = (error \/ (owner = t /\ ~(marked \subseteq Detachable)))
  /\ hooked' = [f \in system |-> FALSE]
  /\ UNCHANGED <<system, dll, code, orig, live, owner, history>>

(* HCounter counts nothing: the wait for calls in progress ends at once.    *)
CommitTerm(t) ==
  /\ At(t, "hook_term") /\ Continue(t) /\ Ends(t)
  /\ live' = IF Failed(t) THEN live ELSE live \ pending
  /\ orig' = [f \in system |-> IF f \in live \ live' THEN "function" ELSE orig[f]]
  /\ UNCHANGED <<system, dll, code, hooked, history>>

Unmap(t) ==
  /\ At(t, "unmap") /\ Continue(t)
  /\ dll' = "gone"
  /\ UNCHANGED <<system, code, hooks, detours, history>>

Run(t) ==
  \/ Inner(t) \/ Static(t) \/ Done(t) \/ Enter(t) \/ Leave(t)
  \/ Hook(t) \/ DemandExport(t) \/ SetOriginal(t) \/ Begin(t) \/ InitAttach(t)
  \/ Attach(t) \/ Detour(t) \/ Mark(t) \/ Commit(t) \/ CommitInit(t) \/ Detach(t)
  \/ CommitTerm(t) \/ Unmap(t)

Next ==
  \/ Loaded \/ Unload
  \/ \E t \in Threads : Call(t)
  \/ \E t \in All : Run(t)

(* The threads run; no thread need call, and the module need not be         *)
(* unloaded.                                                                *)
Spec == Init /\ [][Next]_vars /\ \A t \in All : WF_vars(Run(t))

-----------------------------------------------------------------------------
Ops == {"call", "static", "done", "enter", "leave", "hook", "demand", "set",
        "begin", "init", "attach", "detour", "mark", "commit", "hook_init", "detach",
        "hook_term", "unmap"}

TypeOK ==
  /\ dll \in {"loading", "loaded", "leaving", "gone"}
  /\ \A t \in All : \A i \in DOMAIN todo[t] : todo[t][i].op \in Ops
  /\ static \in [Statics -> {"no", "busy", "done"}] /\ section \in All \cup {None}
  /\ hooked \in [system -> BOOLEAN] /\ orig \in [system -> {"function", "trampoline"}]
  /\ live \subseteq system /\ owner \in All \cup {None} /\ pending \subseteq system
  /\ error \in BOOLEAN /\ lost \in BOOLEAN /\ busy \in BOOLEAN
  /\ owner = None => pending = {}

(* A hook that calls the original function gets past its own jump: no       *)
(* thread sets ORIG_X again after another one has attached X.  Not so for   *)
(* GetAlphaBlendParams, which three initializers hook without a section.    *)
OriginalKept ==
  dll \in {"loading", "loaded"} =>
    \A f \in live \ {"GetAlphaBlendParams"} : orig[f] = "trampoline"

(* A module that is unmapped leaves no jump to it behind, unless a hook was *)
(* lost, a call was in progress, or two threads have hooked                 *)
(* GetAlphaBlendParams at once and ORIG_ of it is the function again, which *)
(* fails the transaction of hook_term.                                      *)
CleanUnload ==
  dll = "gone" /\ ~lost /\ ~busy =>
    \/ live = {}
    \/ /\ "GetAlphaBlendParams" \in live
       /\ orig["GetAlphaBlendParams"] = "function"

(* A function that is marked hooked and was not attached, because two       *)
(* threads hooked at once, never gets its hook.  Not so for                 *)
(* GetAlphaBlendParams: a thread that is refused may mark it while another  *)
(* one has still to attach it.                                              *)
LostForGood ==
  [][\A f \in system \ {"GetAlphaBlendParams"} :
       hooked[f] /\ f \notin live \cup pending => f \notin live' \cup pending']_vars

(* hook_term takes away every hook or, because of a single one that was     *)
(* lost, none.                                                              *)
AllOrNothing == [][live \subseteq live' \/ live' = {}]_vars

(* Every call of a hooked function returns: the initializers and CS_DWRITE  *)
(* are waited for in one order.                                             *)
CallReturns == \A t \in All : todo[t] # <<>> ~> todo[t] = <<>> \/ dll = "gone"
=============================================================================
