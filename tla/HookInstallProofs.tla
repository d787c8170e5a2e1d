------------------------- MODULE HookInstallProofs -------------------------
(***************************************************************************)
(* What HookInstall keeps, for any threads and any systems.  Every method   *)
(* but one is hooked under something that only one thread has: a static     *)
(* local it initializes, or CS_DWRITE; every export and function of GDI is  *)
(* hooked by the loader alone.  So whoever is about to set ORIG_X finds X   *)
(* not attached.  The library's one transaction at a time says what is      *)
(* attached of what is marked.                                              *)
(***************************************************************************)
EXTENDS HookInstall, SequenceTheorems, TLAPS

Shared == "GetAlphaBlendParams"

DrawMethods ==
  {"D2D1RenderTarget_DrawText", "D2D1RenderTarget_DrawGlyphRun",
   "D2D1RenderTarget1_DrawGlyphRun", "D2D1DeviceContext_DrawText",
   "D2D1DeviceContext_DrawGlyphRun"}

(* The static local whose initializer hooks a method.                       *)
Under(f) ==
  CASE f \in {"CreateWicBitmapRenderTarget", "CreateHwndRenderTarget",
              "CreateDevice1"} -> "HookFactory"
    [] f = "CreateDeviceContext" -> "HookDevice"
    [] f \in {"CreateCompatibleRenderTarget",
              "D2D1RenderTarget_DrawTextLayout"} -> "HookRenderTarget"
    [] f \in {"CreateGlyphRunAnalysis", "GetGdiInterop", "CreateTextFormat",
              "CreateFontFace", "CreateGlyphRunAnalysis2",
              "CreateGlyphRunAnalysis3"} -> "hookDirectWrite"
    [] f = "CreateBitmapRenderTarget" -> "GetGdiInterop"
    [] f = "BitmapRenderTarget_DrawGlyphRun" -> "CreateBitmapRenderTarget"

InitializedMethods ==
  {"CreateWicBitmapRenderTarget", "CreateHwndRenderTarget", "CreateDevice1",
   "CreateDeviceContext", "CreateCompatibleRenderTarget",
   "D2D1RenderTarget_DrawTextLayout", "CreateGlyphRunAnalysis", "GetGdiInterop",
   "CreateTextFormat", "CreateFontFace", "CreateGlyphRunAnalysis2",
   "CreateGlyphRunAnalysis3", "CreateBitmapRenderTarget",
   "BitmapRenderTarget_DrawGlyphRun"}

Methods == InitializedMethods \cup DrawMethods \cup {Shared}
Manual == {"DWriteCreateFactory", "D2D1CreateFactory", "D2D1CreateDevice",
           "D2D1CreateDeviceContext", "CreateFontIndirectExW", "CreateFontIndirectW"}
GdiFunctions == {"TextOutW", "ExtTextOutW"}

-----------------------------------------------------------------------------
(* The items of a thread of the program, and of the loader.                 *)
Kind(ops, names) == [op : ops, at : names]

Called == {"GetGdiInterop", "CreateGlyphRunAnalysis2", "CreateGlyphRunAnalysis3"}

ThreadItem ==
  Kind({"call"}, Called)
    \cup Kind({"static", "done"}, Statics)
    \cup Kind({"enter", "leave"}, {"CS_DWRITE"})
    \cup Kind({"hook", "set", "begin", "attach", "detour", "mark", "commit"}, Methods)

LoaderItem ==
  Kind({"set", "demand", "begin", "attach", "detour", "mark", "commit"}, Manual)
    \cup Kind({"init"}, GdiFunctions)
    \cup Kind({"begin", "hook_init"}, {"hook_init"})
    \cup Kind({"begin", "detach", "hook_term", "unmap"}, {"hook_term"})

(* What is done inside a transaction, up to its end.                        *)
TransOps == {"init", "hook_init", "attach", "detour", "mark", "commit", "detach",
             "hook_term"}
Follows(s) ==
  \A i \in 1 .. Len(s) :
    s[i].op \in {"begin", "init", "attach", "detour", "mark", "detach"} =>
    i + 1 \in 1 .. Len(s) /\ s[i + 1].op \in TransOps

(* A method is hooked before the end of what only one thread does: of the   *)
(* initializer, or of the section that is entered already.                  *)
CoveredByStatic(s, i) ==
  \E j \in 1 .. Len(s) : i < j /\ s[j].op = "done" /\ s[j].at = Under(s[i].at)
CoveredBySection(s, i) ==
  \E j \in 1 .. Len(s) : /\ i < j /\ s[j].op = "leave"
                         /\ \A k \in 1 .. Len(s) : i < k /\ k < j => s[k].op # "enter"
Covered(s) ==
  \A i \in 1 .. Len(s) : s[i].op \in {"hook", "set", "attach", "detour", "mark"} =>
    /\ s[i].at \in InitializedMethods => CoveredByStatic(s, i)
    /\ s[i].at \in DrawMethods => CoveredBySection(s, i)

SetFirst(s) ==
  \A i \in 1 .. Len(s) : s[i].op \in {"set", "detour", "mark"} => i = 1
OneDone(s) ==
  \A i, j \in 1 .. Len(s) : s[i].op = "done" /\ s[j] = s[i] => i = j
OneLeave(s) ==
  \A i, j \in 1 .. Len(s) : s[i].op = "leave" /\ s[j].op = "leave" => i = j

(* The methods of a category are hooked last, and in no section yet.        *)
CategoryLast(s) ==
  \A i \in 1 .. Len(s) : s[i].op = "static" /\ s[i].at \in Categories =>
    i = Len(s) /\ \A j \in 1 .. Len(s) : s[j].op # "leave"

ThreadSeq(s) ==
  /\ s \in Seq(ThreadItem)
  /\ Follows(s) /\ Covered(s) /\ SetFirst(s)
  /\ OneDone(s) /\ OneLeave(s) /\ CategoryLast(s)

(* The loader sets ORIG_X before it attaches X.                             *)
SetBefore(s) ==
  \A i, j \in 1 .. Len(s) :
    /\ s[i].op \in {"demand", "attach", "detour", "mark"} /\ s[j].op = "set"
    /\ s[i].at = s[j].at
    => j < i
InitOnce(s) ==
  \A i, j \in 1 .. Len(s) : s[i].op \in {"init", "hook_init"} /\ s[j] = s[i] => i = j
Initializing(s) == \E i \in 1 .. Len(s) : s[i].op = "hook_init"
InitEnds(s) ==
  \A i \in 1 .. Len(s) : s[i].op = "init" =>
    \E j \in 1 .. Len(s) : i < j /\ s[j].op = "hook_init"
InitFirst(s) ==
  \A i, j \in 1 .. Len(s) : s[i].op = "hook_init" /\ j < i => s[j].op \in {"begin", "init"}
HeadFirst(s) == \A i \in 1 .. Len(s) : s[i].op \in {"detour", "mark"} => i = 1
LoaderSeq(s) ==
  /\ s \in Seq(LoaderItem)
  /\ Follows(s) /\ SetBefore(s) /\ HeadFirst(s)
  /\ InitOnce(s) /\ InitEnds(s) /\ InitFirst(s)

-----------------------------------------------------------------------------
Finishes(s, g) == \E i \in 1 .. Len(s) : s[i].op = "done" /\ s[i].at = g
Inside(s) ==
  \E j \in 1 .. Len(s) : /\ s[j].op = "leave"
                         /\ \A k \in 1 .. Len(s) : k < j => s[k].op # "enter"

(* One thread at a time has a static local, or the section.                 *)
Exclusive ==
  /\ \A t \in Threads, g \in Statics : Finishes(todo[t], g) => static[g] = "busy"
  /\ \A t, u \in Threads, g \in Statics :
       Finishes(todo[t], g) /\ Finishes(todo[u], g) => t = u
  /\ \A t \in Threads : Inside(todo[t]) => section = t

(* What DllMain has still to do.                                            *)
Detached == <<[op |-> "hook_term", at |-> "hook_term"], [op |-> "unmap", at |-> "hook_term"]>>
Begun == <<[op |-> "detach", at |-> "hook_term"], [op |-> "hook_term", at |-> "hook_term"],
           [op |-> "unmap", at |-> "hook_term"]>>
Committed == <<[op |-> "unmap", at |-> "hook_term"]>>
Phases ==
  /\ dll = "loading" => \A i \in 1 .. Len(todo[Loader]) :
       todo[Loader][i].op \notin {"detach", "hook_term", "unmap"}
  /\ dll = "loaded" => todo[Loader] = <<>>
  /\ dll = "leaving" => todo[Loader] \in {Detaching, Begun, Detached, Committed}
  /\ dll = "gone" => todo[Loader] = <<>>

Up == dll \in {"loading", "loaded"}
BeforeDetach == Up \/ todo[Loader] \in {Detaching, Begun}
Marked == {f \in system : hooked[f]}
Idle == \A t \in Threads : todo[t] = <<>>

Owning ==
  /\ owner # None => todo[owner] # <<>> /\ todo[owner][1].op \in TransOps
  /\ \A t \in All : \A i \in 1 .. Len(todo[t]) :
       todo[t][i].op \in {"attach", "detour", "mark"} => todo[t][i].at \in system

(* What is attached is marked, or about to be; what is not yet tried is not.*)
Marking(t) == {f \in system : todo[t] # <<>> /\ todo[t][1] = [op |-> "mark", at |-> f]}
Marks ==
  /\ BeforeDetach => live \subseteq Marked
  /\ BeforeDetach /\ owner # None => pending \subseteq Marked \cup Marking(owner)
  /\ \A i \in 1 .. Len(todo[Loader]) :
       todo[Loader][i].op = "init" => todo[Loader][i].at \notin Marked
  /\ Up => \A t \in All : \A i \in 1 .. Len(todo[t]) :
       todo[t][i].op = "set" /\ todo[t][i].at # Shared => todo[t][i].at \notin Marked
  /\ \A t \in All : \A i \in 1 .. Len(todo[t]) :
       todo[t][i].op = "detour" /\ todo[t][i].at # Shared => todo[t][i].at \notin Marked

(* Until DllMain has hooked nothing else is done.                           *)
Starting == Initializing(todo[Loader]) => Idle /\ live = {}

(* What is marked, or about to be, is attached, but for the losses.         *)
Losses ==
  Up => /\ lost \/ Marked \subseteq live \cup pending
        /\ lost \/ \A t \in All : Marking(t) \subseteq live \cup pending
        /\ error => lost \/ Initializing(todo[Loader])

(* hook_term has all hooks in its transaction, or fails.                    *)
Terminating == todo[Loader] = Detached /\ owner = Loader /\ ~error => live \subseteq pending

(* When nothing was lost and no call is in progress, hook_term leaves       *)
(* nothing attached, or the function whose ORIG_X was set again stops it.   *)
Reset == Shared \in live /\ orig[Shared] = "function"
Ready ==
  /\ Idle
  /\ todo[Loader] = Detaching => live = {} \/ Marked \subseteq live \cup pending
  /\ todo[Loader] = Begun =>
       /\ owner = Loader /\ pending = {} /\ ~error
       /\ live = {} \/ Marked \subseteq live
  /\ todo[Loader] \in {Detaching, Begun} =>
       \A f \in live \ {Shared} : orig[f] = "trampoline"
  /\ todo[Loader] = Detached => live = {} \/ Reset \/ (owner = Loader /\ ~error)
  /\ todo[Loader] \notin {Detaching, Begun, Detached} => live = {} \/ Reset
Leaving == ~Up /\ ~lost /\ ~busy => Ready

AnItem == ThreadItem \cup LoaderItem
Orderly ==
  /\ todo \in [All -> Seq(AnItem)]
  /\ \A t \in Threads : ThreadSeq(todo[t])
  /\ LoaderSeq(todo[Loader])

IInv ==
  /\ TypeOK /\ Orderly /\ Phases /\ Owning /\ Exclusive
  /\ Marks /\ Starting /\ Losses /\ Terminating /\ Leaving
  /\ OriginalKept

-----------------------------------------------------------------------------
(* The lists of items.                                                      *)
LEMMA FunctionIsSeq ==
  ASSUME NEW S, NEW n \in Nat, NEW g \in [1 .. n -> S]
  PROVE  g \in Seq(S) /\ Len(g) = n
<1>1. g \in Seq(S)
  BY SeqDef
<1>2. DOMAIN g = 1 .. Len(g) /\ Len(g) \in Nat
  BY <1>1, LenProperties
<1>3. DOMAIN g = 1 .. n
  OBVIOUS
<1> QED
  BY <1>1, <1>2, <1>3

LEMMA ItemsFacts ==
  ASSUME NEW op, NEW S, NEW names \in Seq(S)
  PROVE  /\ Items(op, names) \in Seq(Kind({op}, S))
         /\ Len(Items(op, names)) = Len(names)
         /\ \A i \in 1 .. Len(names) : Items(op, names)[i] = [op |-> op, at |-> names[i]]
<1>1. DOMAIN names = 1 .. Len(names) /\ Len(names) \in Nat
  OBVIOUS
<1>2. \A i \in 1 .. Len(names) : [op |-> op, at |-> names[i]] \in Kind({op}, S)
  BY DEF Kind
<1>3. /\ Items(op, names) \in [1 .. Len(names) -> Kind({op}, S)]
      /\ \A i \in 1 .. Len(names) : Items(op, names)[i] = [op |-> op, at |-> names[i]]
  BY <1>1, <1>2, Zenon DEF Items
<1> QED
  BY <1>1, <1>3, FunctionIsSeq

LEMMA ItemFacts ==
  ASSUME NEW op, NEW name
  PROVE  Item(op, name) = <<[op |-> op, at |-> name]>>
<1> DEFINE names == <<name>>
<1>1. names \in Seq({name}) /\ Len(names) = 1 /\ names[1] = name
  OBVIOUS
<1>2. Item(op, name) = Items(op, names)
  BY DEF Item
<1> HIDE DEF names
<1>3. /\ Items(op, names) \in Seq(Kind({op}, {name}))
      /\ Len(Items(op, names)) = Len(names)
      /\ \A i \in 1 .. Len(names) : Items(op, names)[i] = [op |-> op, at |-> names[i]]
  BY <1>1, ItemsFacts
<1> QED
  BY <1>1, <1>2, <1>3

LEMMA PairFacts ==
  ASSUME NEW op, NEW a, NEW b
  PROVE  Items(op, <<a, b>>) = <<[op |-> op, at |-> a], [op |-> op, at |-> b]>>
<1> DEFINE names == <<a, b>>
<1>1. names \in Seq({a, b}) /\ Len(names) = 2 /\ names[1] = a /\ names[2] = b
  OBVIOUS
<1> HIDE DEF names
<1>2. /\ Items(op, names) \in Seq(Kind({op}, {a, b}))
      /\ Len(Items(op, names)) = Len(names)
      /\ \A i \in 1 .. Len(names) : Items(op, names)[i] = [op |-> op, at |-> names[i]]
  BY <1>1, ItemsFacts
<1>3. Items(op, names) = <<[op |-> op, at |-> a], [op |-> op, at |-> b]>>
  BY <1>1, <1>2
<1> QED
  BY <1>3 DEF names

LEMMA OneAndOne ==
  ASSUME NEW v, NEW w
  PROVE  <<v>> \o <<w>> = <<v, w>>
<1> DEFINE S == {v, w} a == <<v>> b == <<w>> c == <<v, w>>
<1>1. /\ a \in Seq(S) /\ Len(a) = 1 /\ a[1] = v
      /\ b \in Seq(S) /\ Len(b) = 1 /\ b[1] = w
      /\ c \in Seq(S) /\ Len(c) = 2 /\ c[1] = v /\ c[2] = w
  OBVIOUS
<1> HIDE DEF S, a, b, c
<1>2. /\ a \o b \in Seq(S) /\ Len(a \o b) = Len(a) + Len(b)
      /\ \A i \in 1 .. Len(a) + Len(b) : (a \o b)[i] =
            IF i <= Len(a) THEN a[i] ELSE b[i - Len(a)]
  BY <1>1, ConcatProperties
<1>3. \A i \in 1 .. Len(c) : (a \o b)[i] = c[i]
  BY <1>1, <1>2
<1>4. a \o b \in Seq(S) /\ c \in Seq(S) /\ Len(a \o b) = Len(c)
  BY <1>1, <1>2
<1>5. a \o b = c
  BY <1>3, <1>4, SeqEqual
<1> QED
  BY <1>5 DEF a, b, c

LEMMA TwoAndOne ==
  ASSUME NEW v, NEW w, NEW x
  PROVE  <<v, w>> \o <<x>> = <<v, w, x>>
<1> DEFINE S == {v, w, x} a == <<v, w>> b == <<x>> c == <<v, w, x>>
<1>1. /\ a \in Seq(S) /\ Len(a) = 2 /\ a[1] = v /\ a[2] = w
      /\ b \in Seq(S) /\ Len(b) = 1 /\ b[1] = x
      /\ c \in Seq(S) /\ Len(c) = 3 /\ c[1] = v /\ c[2] = w /\ c[3] = x
  OBVIOUS
<1> HIDE DEF S, a, b, c
<1>2. /\ a \o b \in Seq(S) /\ Len(a \o b) = Len(a) + Len(b)
      /\ \A i \in 1 .. Len(a) + Len(b) : (a \o b)[i] =
            IF i <= Len(a) THEN a[i] ELSE b[i - Len(a)]
  BY <1>1, ConcatProperties
<1>3. \A i \in 1 .. Len(c) : (a \o b)[i] = c[i]
  BY <1>1, <1>2
<1>4. a \o b \in Seq(S) /\ c \in Seq(S) /\ Len(a \o b) = Len(c)
  BY <1>1, <1>2
<1>5. a \o b = c
  BY <1>3, <1>4, SeqEqual
<1> QED
  BY <1>5 DEF a, b, c

LEMMA OneAndTwo ==
  ASSUME NEW v, NEW w, NEW x
  PROVE  <<v>> \o <<w, x>> = <<v, w, x>>
<1> DEFINE S == {v, w, x} a == <<v>> b == <<w, x>> c == <<v, w, x>>
<1>1. /\ a \in Seq(S) /\ Len(a) = 1 /\ a[1] = v
      /\ b \in Seq(S) /\ Len(b) = 2 /\ b[1] = w /\ b[2] = x
      /\ c \in Seq(S) /\ Len(c) = 3 /\ c[1] = v /\ c[2] = w /\ c[3] = x
  OBVIOUS
<1> HIDE DEF S, a, b, c
<1>2. /\ a \o b \in Seq(S) /\ Len(a \o b) = Len(a) + Len(b)
      /\ \A i \in 1 .. Len(a) + Len(b) : (a \o b)[i] =
            IF i <= Len(a) THEN a[i] ELSE b[i - Len(a)]
  BY <1>1, ConcatProperties
<1>3. \A i \in 1 .. Len(c) : (a \o b)[i] = c[i]
  BY <1>1, <1>2
<1>4. a \o b \in Seq(S) /\ c \in Seq(S) /\ Len(a \o b) = Len(c)
  BY <1>1, <1>2
<1>5. a \o b = c
  BY <1>3, <1>4, SeqEqual
<1> QED
  BY <1>5 DEF a, b, c

LEMMA OneAndThree ==
  ASSUME NEW v, NEW w, NEW x, NEW y
  PROVE  <<v>> \o <<w, x, y>> = <<v, w, x, y>>
<1> DEFINE S == {v, w, x, y} a == <<v>> b == <<w, x, y>> c == <<v, w, x, y>>
<1>1. /\ a \in Seq(S) /\ Len(a) = 1 /\ a[1] = v
      /\ b \in Seq(S) /\ Len(b) = 3 /\ b[1] = w /\ b[2] = x /\ b[3] = y
      /\ c \in Seq(S) /\ Len(c) = 4 /\ c[1] = v /\ c[2] = w /\ c[3] = x /\ c[4] = y
  OBVIOUS
<1> HIDE DEF S, a, b, c
<1>2. /\ a \o b \in Seq(S) /\ Len(a \o b) = Len(a) + Len(b)
      /\ \A i \in 1 .. Len(a) + Len(b) : (a \o b)[i] =
            IF i <= Len(a) THEN a[i] ELSE b[i - Len(a)]
  BY <1>1, ConcatProperties
<1>3. \A i \in 1 .. Len(c) : (a \o b)[i] = c[i]
  BY <1>1, <1>2
<1>4. a \o b \in Seq(S) /\ c \in Seq(S) /\ Len(a \o b) = Len(c)
  BY <1>1, <1>2
<1>5. a \o b = c
  BY <1>3, <1>4, SeqEqual
<1> QED
  BY <1>5 DEF a, b, c

LEMMA ThreeAndOne ==
  ASSUME NEW v, NEW w, NEW x, NEW y
  PROVE  <<v, w, x>> \o <<y>> = <<v, w, x, y>>
<1> DEFINE S == {v, w, x, y} a == <<v, w, x>> b == <<y>> c == <<v, w, x, y>>
<1>1. /\ a \in Seq(S) /\ Len(a) = 3 /\ a[1] = v /\ a[2] = w /\ a[3] = x
      /\ b \in Seq(S) /\ Len(b) = 1 /\ b[1] = y
      /\ c \in Seq(S) /\ Len(c) = 4 /\ c[1] = v /\ c[2] = w /\ c[3] = x /\ c[4] = y
  OBVIOUS
<1> HIDE DEF S, a, b, c
<1>2. /\ a \o b \in Seq(S) /\ Len(a \o b) = Len(a) + Len(b)
      /\ \A i \in 1 .. Len(a) + Len(b) : (a \o b)[i] =
            IF i <= Len(a) THEN a[i] ELSE b[i - Len(a)]
  BY <1>1, ConcatProperties
<1>3. \A i \in 1 .. Len(c) : (a \o b)[i] = c[i]
  BY <1>1, <1>2
<1>4. a \o b \in Seq(S) /\ c \in Seq(S) /\ Len(a \o b) = Len(c)
  BY <1>1, <1>2
<1>5. a \o b = c
  BY <1>3, <1>4, SeqEqual
<1> QED
  BY <1>5 DEF a, b, c

LEMMA FourAndOne ==
  ASSUME NEW v, NEW w, NEW x, NEW y, NEW z
  PROVE  <<v, w, x, y>> \o <<z>> = <<v, w, x, y, z>>
<1> DEFINE S == {v, w, x, y, z} a == <<v, w, x, y>> b == <<z>> c == <<v, w, x, y, z>>
<1>1. /\ a \in Seq(S) /\ Len(a) = 4 /\ a[1] = v /\ a[2] = w /\ a[3] = x /\ a[4] = y
      /\ b \in Seq(S) /\ Len(b) = 1 /\ b[1] = z
      /\ c \in Seq(S) /\ Len(c) = 5 /\ c[1] = v /\ c[2] = w /\ c[3] = x /\ c[4] = y /\ c[5] = z
  OBVIOUS
<1> HIDE DEF S, a, b, c
<1>2. /\ a \o b \in Seq(S) /\ Len(a \o b) = Len(a) + Len(b)
      /\ \A i \in 1 .. Len(a) + Len(b) : (a \o b)[i] =
            IF i <= Len(a) THEN a[i] ELSE b[i - Len(a)]
  BY <1>1, ConcatProperties
<1>3. \A i \in 1 .. Len(c) : (a \o b)[i] = c[i]
  BY <1>1, <1>2
<1>4. a \o b \in Seq(S) /\ c \in Seq(S) /\ Len(a \o b) = Len(c)
  BY <1>1, <1>2
<1>5. a \o b = c
  BY <1>3, <1>4, SeqEqual
<1> QED
  BY <1>5 DEF a, b, c

LEMMA DemandFacts ==
  ASSUME NEW f
  PROVE  Demand(f) = <<[op |-> "begin", at |-> f], [op |-> "attach", at |-> f],
                       [op |-> "commit", at |-> f]>>
<1> DEFINE b == [op |-> "begin", at |-> f]
           a == [op |-> "attach", at |-> f]
           c == [op |-> "commit", at |-> f]
<1>1. Demand(f) = <<b>> \o <<a>> \o <<c>>
  BY ItemFacts, Zenon DEF Demand
<1> HIDE DEF b, a, c
<1>2. <<b>> \o <<a>> = <<b, a>> /\ <<b, a>> \o <<c>> = <<b, a, c>>
  BY OneAndOne, TwoAndOne
<1> QED
  BY <1>1, <1>2 DEF b, a, c

LEMMA SetDemandFacts ==
  ASSUME NEW f
  PROVE  Item("set", f) \o Demand(f) =
           <<[op |-> "set", at |-> f], [op |-> "begin", at |-> f],
             [op |-> "attach", at |-> f], [op |-> "commit", at |-> f]>>
<1> DEFINE s == [op |-> "set", at |-> f]
           b == [op |-> "begin", at |-> f]
           a == [op |-> "attach", at |-> f]
           c == [op |-> "commit", at |-> f]
<1>1. Item("set", f) = <<s>> /\ Demand(f) = <<b, a, c>>
  BY ItemFacts, DemandFacts
<1> HIDE DEF s, b, a, c
<1>2. <<s>> \o <<b, a, c>> = <<s, b, a, c>>
  BY OneAndThree
<1> QED
  BY <1>1, <1>2 DEF s, b, a, c

(* A thread goes on: the items of p come before the rest of s.              *)
LEMMA PushFacts ==
  ASSUME NEW S, NEW s \in Seq(S), s # <<>>, NEW p \in Seq(S),
         NEW q, q = p \o Tail(s)
  PROVE  /\ q \in Seq(S)
         /\ Len(q) = Len(p) + Len(s) - 1
         /\ \A i \in 1 .. Len(p) : q[i] = p[i]
         /\ \A i \in Len(p) + 1 .. Len(q) : q[i] = s[i - Len(p) + 1]
         /\ \A i \in 2 .. Len(s) : q[i + Len(p) - 1] = s[i]
         /\ Len(p) \in Nat /\ Len(s) \in Nat \ {0}
<1>1. /\ Tail(s) \in Seq(S) /\ Len(Tail(s)) = Len(s) - 1
      /\ \A i \in 1 .. Len(Tail(s)) : Tail(s)[i] = s[i + 1]
      /\ Len(p) \in Nat /\ Len(s) \in Nat \ {0}
  BY HeadTailProperties, EmptySeq
<1>2. /\ p \o Tail(s) \in Seq(S)
      /\ Len(p \o Tail(s)) = Len(p) + Len(Tail(s))
      /\ \A i \in 1 .. Len(p) + Len(Tail(s)) : (p \o Tail(s))[i] =
            IF i <= Len(p) THEN p[i] ELSE Tail(s)[i - Len(p)]
  BY <1>1, ConcatProperties
<1>3. /\ Len(q) = Len(p) + Len(s) - 1
      /\ \A i \in 1 .. Len(p) : q[i] = p[i]
      /\ \A i \in Len(p) + 1 .. Len(q) : q[i] = s[i - Len(p) + 1]
  BY <1>1, <1>2
<1>4. \A i \in 2 .. Len(s) : q[i + Len(p) - 1] = s[i]
  BY <1>1, <1>3
<1> QED
  BY <1>1, <1>2, <1>3, <1>4

(* A thread goes on with nothing before the rest.                           *)
LEMMA TailFacts ==
  ASSUME NEW S, NEW s \in Seq(S), s # <<>>
  PROVE  /\ Head(s) = s[1] /\ <<>> \o Tail(s) = Tail(s) /\ Tail(s) \in Seq(S)
         /\ Len(s) \in Nat \ {0} /\ Len(Tail(s)) = Len(s) - 1
         /\ \A i \in 1 .. Len(s) - 1 : Tail(s)[i] = s[i + 1]
BY HeadTailProperties, EmptySeq, ConcatEmptySeq

-----------------------------------------------------------------------------
(* What the initializer of a static local does, unless it enters CS_DWRITE. *)
Own(g) == {f \in InitializedMethods : Under(f) = g} \cup {Shared}
Free == Kind({"static"}, Statics \ Categories) \cup Kind({"call"}, Called)
OwnItem(g) == Kind({"hook"}, Own(g)) \cup Free

LEMMA InitializerFacts ==
  ASSUME NEW g \in Statics \ Categories
  PROVE  Initializer(g) \in Seq(OwnItem(g))
<1> USE DEF Own
<1> DEFINE H == Seq(Kind({"hook"}, Own(g))) T == Seq(OwnItem(g))
<1>a. \A x \in H : x \in T
  BY SeqMonotonic DEF OwnItem
<1>b. \A x \in T, y \in T : x \o y \in T
  BY ConcatProperties
<1>c. \A names \in Seq(Own(g)) : Items("hook", names) \in T
  BY <1>a, ItemsFacts
<1>d. \A f \in Own(g) : Item("hook", f) \in T
  <2> SUFFICES ASSUME NEW f \in Own(g) PROVE Item("hook", f) \in T
    OBVIOUS
  <2>1. <<f>> \in Seq(Own(g))
    OBVIOUS
  <2> QED  BY <2>1, <1>c DEF Item
<1> SUFFICES Initializer(g) \in T
  BY DEF T
<1>e. Kind({"static"}, Statics \ Categories) \subseteq OwnItem(g)
  BY DEF OwnItem, Free
<1>f. Kind({"call"}, Called) \subseteq OwnItem(g)
  BY DEF OwnItem, Free
<1> HIDE DEF H, T, Own
<1>1. CASE g = "HookFactory"
  <2>1. <<"CreateWicBitmapRenderTarget", "CreateHwndRenderTarget",
          "CreateDevice1">> \in Seq(Own(g))
    BY <1>1 DEF Own, InitializedMethods, Under
  <2> QED  BY <1>1, <2>1, <1>c DEF Initializer, Categories, Analyses
<1>2. CASE g = "HookDevice"
  <2>1. "CreateDeviceContext" \in Own(g)
    BY <1>2 DEF Own, InitializedMethods, Under
  <2> QED  BY <1>2, <2>1, <1>d DEF Initializer, HookDevice, Categories, Analyses
<1>3. CASE g = "HookRenderTarget"
  <2>1. <<"CreateCompatibleRenderTarget", "D2D1RenderTarget_DrawTextLayout">>
          \in Seq(Own(g))
    BY <1>3 DEF Own, InitializedMethods, Under
  <2>2. <<"HookFactory", "HookDevice">> \in Seq(Statics \ Categories)
    BY DEF Statics, Categories
  <2>3. Items("static", <<"HookFactory", "HookDevice">>) \in
          Seq(Kind({"static"}, Statics \ Categories))
    BY <2>2, ItemsFacts
  <2>4. Items("static", <<"HookFactory", "HookDevice">>) \in T
    BY <2>3, <1>e, SeqMonotonic DEF T
  <2>5. Items("hook", <<"CreateCompatibleRenderTarget",
          "D2D1RenderTarget_DrawTextLayout">>) \in T
    BY <2>1, <1>c
  <2> QED  BY <1>3, <2>4, <2>5, <1>b DEF Initializer, Categories, Analyses
<1>4. CASE g = "hookDirectWrite"
  <2>1. /\ <<"CreateGlyphRunAnalysis", "GetGdiInterop">> \in Seq(Own(g))
        /\ <<"CreateTextFormat", "CreateFontFace", "CreateGlyphRunAnalysis2",
             "CreateGlyphRunAnalysis3">> \in Seq(Own(g))
    BY <1>4 DEF Own, InitializedMethods, Under
  <2>2. <<"GetGdiInterop">> \in Seq(Called)
    BY DEF Called
  <2>3. Item("call", "GetGdiInterop") \in Seq(Kind({"call"}, Called))
    BY <2>2, ItemsFacts DEF Item
  <2>4. Item("call", "GetGdiInterop") \in T
    BY <2>3, <1>f, SeqMonotonic DEF T
  <2>5. /\ Items("hook", <<"CreateGlyphRunAnalysis", "GetGdiInterop">>) \in T
        /\ Items("hook", <<"CreateTextFormat", "CreateFontFace",
             "CreateGlyphRunAnalysis2", "CreateGlyphRunAnalysis3">>) \in T
    BY <2>1, <1>c
  <2> QED  BY <1>4, <2>4, <2>5, <1>b DEF Initializer, Categories, Analyses
<1>5. CASE g = "GetGdiInterop"
  <2>1. "CreateBitmapRenderTarget" \in Own(g)
    BY <1>5 DEF Own, InitializedMethods, Under
  <2> QED  BY <1>5, <2>1, <1>d DEF Initializer, Categories, Analyses
<1>6. CASE g = "CreateBitmapRenderTarget"
  <2>1. "BitmapRenderTarget_DrawGlyphRun" \in Own(g)
    BY <1>6 DEF Own, InitializedMethods, Under
  <2> QED  BY <1>6, <2>1, <1>d DEF Initializer, Categories, Analyses
<1>7. CASE g \in Analyses
  <2>1. "GetAlphaBlendParams" \in Own(g)
    BY DEF Own, Shared
  <2>2. Initializer(g) = Item("hook", "GetAlphaBlendParams")
    BY <1>7 DEF Initializer, Analyses, Categories
  <2> QED  BY <2>1, <2>2, <1>d
<1> QED
  BY <1>1, <1>2, <1>3, <1>4, <1>5, <1>6, <1>7 DEF Statics, T

LEMMA CategoryFacts ==
  ASSUME NEW g \in Categories
  PROVE  \E a, b \in DrawMethods :
           Initializer(g) \o Item("done", g) =
             <<[op |-> "enter", at |-> "CS_DWRITE"], [op |-> "hook", at |-> a],
               [op |-> "hook", at |-> b], [op |-> "leave", at |-> "CS_DWRITE"],
               [op |-> "done", at |-> g]>>
<1>1. PICK a \in DrawMethods, b \in DrawMethods : CategoryMethods(g) = <<a, b>>
  BY DEF Categories, CategoryMethods, DrawMethods
<1> DEFINE e == [op |-> "enter", at |-> "CS_DWRITE"]
           x == [op |-> "hook", at |-> a]
           y == [op |-> "hook", at |-> b]
           l == [op |-> "leave", at |-> "CS_DWRITE"]
           d == [op |-> "done", at |-> g]
<1>2. Initializer(g) = HookCategory(g)
  BY DEF Initializer, Categories, Analyses
<1>3. HookCategory(g) = <<e>> \o <<x, y>> \o <<l>> /\ Item("done", g) = <<d>>
  BY <1>1, ItemFacts, PairFacts, Zenon DEF HookCategory
<1> HIDE DEF e, x, y, l, d
<1>4. <<e>> \o <<x, y>> = <<e, x, y>> /\ <<e, x, y>> \o <<l>> = <<e, x, y, l>>
  BY OneAndTwo, ThreeAndOne
<1>5. <<e, x, y, l>> \o <<d>> = <<e, x, y, l, d>>
  BY FourAndOne
<1>6. Initializer(g) \o Item("done", g) = <<e, x, y, l, d>>
  BY <1>2, <1>3, <1>4, <1>5
<1> QED
  BY <1>6 DEF e, x, y, l, d

LEMMA FreeItems ==
  /\ \A g \in Statics \ Categories : Item("static", g) \in Seq(Free)
  /\ \A f \in Called : Item("call", f) \in Seq(Free)
  /\ \A p, q \in Seq(Free) : p \o q \in Seq(Free)
<1>1. ASSUME NEW g \in Statics \ Categories PROVE Item("static", g) \in Seq(Free)
  <2> DEFINE x == [op |-> "static", at |-> g]
  <2>1. x \in Free
    BY DEF Free, Kind
  <2>2. Item("static", g) = <<x>>
    BY ItemFacts
  <2> HIDE DEF x
  <2>3. <<x>> \in Seq(Free)
    BY <2>1
  <2> QED  BY <2>2, <2>3
<1>2. ASSUME NEW f \in Called PROVE Item("call", f) \in Seq(Free)
  <2> DEFINE x == [op |-> "call", at |-> f]
  <2>1. x \in Free
    BY DEF Free, Kind
  <2>2. Item("call", f) = <<x>>
    BY ItemFacts
  <2> HIDE DEF x
  <2>3. <<x>> \in Seq(Free)
    BY <2>1
  <2> QED  BY <2>2, <2>3
<1> QED
  BY <1>1, <1>2, ConcatProperties

(* The hook of a function goes on without a category, or ends with one.     *)
LEMMA IMPLFacts ==
  ASSUME NEW f
  PROVE  \/ IMPL(f) \in Seq(Free)
         \/ /\ f \notin Called
            /\ \E g \in Categories :
                 IMPL(f) = <<[op |-> "static", at |-> "HookRenderTarget"],
                             [op |-> "static", at |-> g]>>
<1>a. <<>> \in Seq(Free)
  OBVIOUS
<1>b. ASSUME NEW g \in Categories
      PROVE  HookRenderTarget(g) = <<[op |-> "static", at |-> "HookRenderTarget"],
                                     [op |-> "static", at |-> g]>>
  <2> DEFINE x == [op |-> "static", at |-> "HookRenderTarget"]
             y == [op |-> "static", at |-> g]
  <2>1. HookRenderTarget(g) = <<x>> \o <<y>>
    BY ItemFacts, Zenon DEF HookRenderTarget
  <2> HIDE DEF x, y
  <2>2. <<x>> \o <<y>> = <<x, y>>
    BY OneAndOne
  <2>3. HookRenderTarget(g) = <<x, y>>
    BY <2>1, <2>2
  <2> QED  BY <2>3 DEF x, y
<1>1. CASE f = "DWriteCreateFactory"
  <2>1. "hookDirectWrite" \in Statics \ Categories
    BY DEF Statics, Categories
  <2> QED  BY <1>1, <2>1, FreeItems DEF IMPL
<1>2. CASE f = "D2D1CreateFactory"
  <2>1. "HookFactory" \in Statics \ Categories
    BY DEF Statics, Categories
  <2> QED  BY <1>2, <2>1, FreeItems DEF IMPL
<1>3. CASE f \in {"D2D1CreateDevice", "CreateDevice1"}
  <2>1. "HookDevice" \in Statics \ Categories
    BY DEF Statics, Categories
  <2> QED  BY <1>3, <2>1, FreeItems DEF IMPL
<1>4. CASE f \in {"D2D1CreateDeviceContext", "CreateDeviceContext",
                  "CreateWicBitmapRenderTarget", "CreateHwndRenderTarget",
                  "CreateCompatibleRenderTarget"}
  <2>1. PICK g \in Categories : IMPL(f) = HookRenderTarget(g)
    BY <1>4 DEF IMPL, Categories
  <2>2. f \notin Called
    BY <1>4 DEF Called
  <2> QED  BY <2>1, <2>2, <1>b
<1>5. CASE f \in {"GetGdiInterop", "CreateBitmapRenderTarget", "CreateGlyphRunAnalysis3"}
  <2>1. f \in Statics \ Categories
    BY <1>5 DEF Statics, Categories, Analyses
  <2>2. IMPL(f) = Item("static", f)
    BY <1>5 DEF IMPL
  <2> QED  BY <2>1, <2>2, FreeItems
<1>6. CASE f \in {"CreateGlyphRunAnalysis", "CreateGlyphRunAnalysis2"}
  <2>1. f \in Statics \ Categories
    BY <1>6 DEF Statics, Categories, Analyses
  <2>2. PICK h \in Called : IMPL(f) = Item("call", h) \o Item("static", f)
    BY <1>6 DEF IMPL, Called
  <2>3. Item("call", h) \in Seq(Free) /\ Item("static", f) \in Seq(Free)
    BY <2>1, FreeItems
  <2>4. Item("call", h) \o Item("static", f) \in Seq(Free)
    BY <2>3, FreeItems
  <2> QED  BY <2>2, <2>4
<1>7. CASE f \notin {"DWriteCreateFactory", "D2D1CreateFactory", "D2D1CreateDevice",
        "CreateDevice1", "D2D1CreateDeviceContext", "CreateDeviceContext",
        "CreateWicBitmapRenderTarget", "CreateHwndRenderTarget",
        "CreateCompatibleRenderTarget", "GetGdiInterop", "CreateBitmapRenderTarget",
        "CreateGlyphRunAnalysis3", "CreateGlyphRunAnalysis", "CreateGlyphRunAnalysis2"}
  <2>1. IMPL(f) = <<>>
    BY <1>7 DEF IMPL
  <2> QED  BY <2>1, <1>a
<1> QED
  BY <1>1, <1>2, <1>3, <1>4, <1>5, <1>6, <1>7
-----------------------------------------------------------------------------
(* What a thread has still to do keeps its order, whatever it does first.   *)
LEMMA ThreadTail ==
  ASSUME NEW s, ThreadSeq(s), s # <<>>
  PROVE  /\ ThreadSeq(Tail(s))
         /\ \A g : Finishes(Tail(s), g) => Finishes(s, g)
         /\ s[1].op = "done" => ~Finishes(Tail(s), s[1].at)
         /\ s[1].op # "enter" /\ Inside(Tail(s)) => Inside(s)
         /\ s[1].op = "leave" => ~Inside(Tail(s)) /\ Inside(s)
<1> DEFINE r == Tail(s)
<1>1. /\ s \in Seq(ThreadItem) /\ r \in Seq(ThreadItem)
      /\ Len(s) \in Nat \ {0} /\ Len(r) = Len(s) - 1
      /\ \A i \in 1 .. Len(s) - 1 : r[i] = s[i + 1]
  BY TailFacts DEF ThreadSeq
<1>2. \A i \in 1 .. Len(r) : i + 1 \in 1 .. Len(s) /\ r[i] = s[i + 1]
  BY <1>1
<1>3. \A i \in 1 .. Len(s) : i # 1 => i - 1 \in 1 .. Len(r) /\ r[i - 1] = s[i]
  BY <1>1
<1> HIDE DEF r
<1>4. Follows(r)
  <2> SUFFICES ASSUME NEW i \in 1 .. Len(r),
                      r[i].op \in {"begin", "init", "attach", "detour", "mark", "detach"}
               PROVE  i + 1 \in 1 .. Len(r) /\ r[i + 1].op \in TransOps
    BY DEF Follows
  <2>1. i + 1 \in 1 .. Len(s) /\ r[i] = s[i + 1]
    BY <1>2
  <2>2. i + 1 + 1 \in 1 .. Len(s) /\ s[i + 1 + 1].op \in TransOps
    BY <2>1 DEF ThreadSeq, Follows
  <2>3. i + 1 \in 1 .. Len(r)
    BY <2>2, <1>1
  <2> QED  BY <2>2, <2>3, <1>2
<1>5. Covered(r)
  <2> SUFFICES ASSUME NEW i \in 1 .. Len(r), r[i].op \in {"hook", "set", "attach", "detour", "mark"}
               PROVE  /\ r[i].at \in InitializedMethods => CoveredByStatic(r, i)
                      /\ r[i].at \in DrawMethods => CoveredBySection(r, i)
    BY DEF Covered
  <2>1. /\ s[i + 1].at \in InitializedMethods => CoveredByStatic(s, i + 1)
        /\ s[i + 1].at \in DrawMethods => CoveredBySection(s, i + 1)
        /\ r[i] = s[i + 1]
    BY <1>2 DEF ThreadSeq, Covered
  <2>2. ASSUME CoveredByStatic(s, i + 1) PROVE CoveredByStatic(r, i)
    <3>1. PICK j \in 1 .. Len(s) : i + 1 < j /\ s[j].op = "done" /\ s[j].at = Under(s[i + 1].at)
      BY <2>2 DEF CoveredByStatic
    <3>2. j - 1 \in 1 .. Len(r) /\ i < j - 1 /\ r[j - 1] = s[j]
      BY <1>3, <3>1
    <3> QED  BY <2>1, <3>1, <3>2 DEF CoveredByStatic
  <2>3. ASSUME CoveredBySection(s, i + 1) PROVE CoveredBySection(r, i)
    <3>1. PICK j \in 1 .. Len(s) :
            /\ i + 1 < j /\ s[j].op = "leave"
            /\ \A k \in 1 .. Len(s) : i + 1 < k /\ k < j => s[k].op # "enter"
      BY <2>3 DEF CoveredBySection
    <3>2. j - 1 \in 1 .. Len(r) /\ i < j - 1 /\ r[j - 1] = s[j]
      BY <1>3, <3>1
    <3>3. ASSUME NEW k \in 1 .. Len(r), i < k, k < j - 1 PROVE r[k].op # "enter"
      <4>1. k + 1 \in 1 .. Len(s) /\ r[k] = s[k + 1] /\ i + 1 < k + 1 /\ k + 1 < j
        BY <3>3, <1>2
      <4> QED  BY <4>1, <3>1
    <3> QED  BY <3>1, <3>2, <3>3 DEF CoveredBySection
  <2> QED  BY <2>1, <2>2, <2>3
<1>6. SetFirst(r) /\ OneDone(r) /\ OneLeave(r)
  <2>1. SetFirst(r)
    <3> SUFFICES ASSUME NEW i \in 1 .. Len(r), r[i].op \in {"set", "detour", "mark"} PROVE FALSE
      BY DEF SetFirst
    <3>1. i + 1 = 1
      BY <1>2 DEF ThreadSeq, SetFirst
    <3> QED  BY <3>1
  <2>2. ASSUME NEW i \in 1 .. Len(r), NEW j \in 1 .. Len(r)
        PROVE  /\ r[i].op = "done" /\ r[j] = r[i] => i = j
               /\ r[i].op = "leave" /\ r[j].op = "leave" => i = j
    <3>1. /\ i + 1 \in 1 .. Len(s) /\ r[i] = s[i + 1]
          /\ j + 1 \in 1 .. Len(s) /\ r[j] = s[j + 1]
      BY <1>2
    <3>2. /\ r[i].op = "done" /\ r[j] = r[i] => i + 1 = j + 1
          /\ r[i].op = "leave" /\ r[j].op = "leave" => i + 1 = j + 1
      BY <3>1 DEF ThreadSeq, OneDone, OneLeave
    <3> QED  BY <3>2
  <2> QED  BY <2>1, <2>2 DEF OneDone, OneLeave
<1>7. CategoryLast(r)
  <2> SUFFICES ASSUME NEW i \in 1 .. Len(r), r[i].op = "static", r[i].at \in Categories
               PROVE  i = Len(r) /\ \A j \in 1 .. Len(r) : r[j].op # "leave"
    BY DEF CategoryLast
  <2>1. i + 1 \in 1 .. Len(s) /\ r[i] = s[i + 1]
    BY <1>2
  <2>2. i + 1 = Len(s) /\ \A j \in 1 .. Len(s) : s[j].op # "leave"
    BY <2>1 DEF ThreadSeq, CategoryLast
  <2>3. i = Len(r)
    BY <1>1, <2>2
  <2>4. \A j \in 1 .. Len(r) : r[j].op # "leave"
    BY <1>2, <2>2
  <2> QED  BY <2>3, <2>4
<1>8. \A g : Finishes(r, g) => Finishes(s, g)
  BY <1>2 DEF Finishes
<1>9. s[1].op = "done" => ~Finishes(r, s[1].at)
  <2> SUFFICES ASSUME s[1].op = "done", NEW i \in 1 .. Len(r),
                      r[i].op = "done", r[i].at = s[1].at
               PROVE  FALSE
    BY DEF Finishes
  <2>1. s[i + 1] \in ThreadItem /\ s[1] \in ThreadItem
    BY <1>1, <1>2
  <2>2. s[i + 1] = s[1]
    BY <2>1, <1>2 DEF ThreadItem, Kind
  <2> QED  BY <1>1, <1>2, <2>2 DEF ThreadSeq, OneDone
<1>10. s[1].op # "enter" /\ Inside(r) => Inside(s)
  <2> SUFFICES ASSUME s[1].op # "enter", NEW j \in 1 .. Len(r), r[j].op = "leave",
                      \A k \in 1 .. Len(r) : k < j => r[k].op # "enter"
               PROVE  Inside(s)
    BY DEF Inside
  <2>1. ASSUME NEW k \in 1 .. Len(s), k < j + 1 PROVE s[k].op # "enter"
    <3>1. CASE k # 1
      <4>1. k - 1 \in 1 .. Len(r) /\ r[k - 1] = s[k] /\ k - 1 < j
        BY <2>1, <3>1, <1>3
      <4> QED  BY <4>1
    <3> QED  BY <3>1
  <2> QED  BY <1>2, <2>1 DEF Inside
<1>11. ASSUME s[1].op = "leave" PROVE ~Inside(r) /\ Inside(s)
  <2>1. 1 \in 1 .. Len(s)
    BY <1>1
  <2>2. \A k \in 1 .. Len(s) : ~(k < 1)
    BY <1>1
  <2>3. Inside(s)
    BY <1>11, <2>1, <2>2 DEF Inside
  <2>4. ASSUME NEW k \in 1 .. Len(s), s[k].op = "leave" PROVE k = 1
    <3>1. OneLeave(s)
      BY DEF ThreadSeq
    <3> QED  BY <1>11, <2>1, <2>4, <3>1 DEF OneLeave
  <2>5. ASSUME NEW j \in 1 .. Len(r), r[j].op = "leave" PROVE FALSE
    <3>1. j + 1 \in 1 .. Len(s) /\ r[j] = s[j + 1]
      BY <1>2, Zenon
    <3>2. j + 1 # 1
      OBVIOUS
    <3> QED  BY <2>4, <2>5, <3>1, <3>2
  <2> QED  BY <2>3, <2>5 DEF Inside
<1> QED
  BY <1>1, <1>4, <1>5, <1>6, <1>7, <1>8, <1>9, <1>10, <1>11 DEF ThreadSeq, r

LEMMA ThreadHook ==
  ASSUME NEW s, ThreadSeq(s), s # <<>>, s[1].op = "hook", NEW f, f = s[1].at
  PROVE  LET new == Item("set", f) \o Demand(f) \o Tail(s) IN
         /\ ThreadSeq(new)
         /\ \A g : Finishes(new, g) => Finishes(s, g)
         /\ Inside(new) => Inside(s)
<1> DEFINE p == Item("set", f) \o Demand(f)
           new == p \o Tail(s)
<1>1. s \in Seq(ThreadItem) /\ Len(s) \in Nat \ {0} /\ f \in Methods
  <2>1. s \in Seq(ThreadItem) /\ Len(s) \in Nat \ {0}
    BY EmptySeq DEF ThreadSeq
  <2>2. s[1] \in ThreadItem
    BY <2>1
  <2> QED  BY <2>1, <2>2 DEF ThreadItem, Kind
<1>2. /\ Len(p) = 4 /\ p \in Seq(ThreadItem)
      /\ p[1] = [op |-> "set", at |-> f] /\ p[2] = [op |-> "begin", at |-> f]
      /\ p[3] = [op |-> "attach", at |-> f] /\ p[4] = [op |-> "commit", at |-> f]
  <2> DEFINE a == [op |-> "set", at |-> f]  b == [op |-> "begin", at |-> f]
             c == [op |-> "attach", at |-> f]  d == [op |-> "commit", at |-> f]
  <2>1. a \in ThreadItem /\ b \in ThreadItem /\ c \in ThreadItem /\ d \in ThreadItem
    BY <1>1 DEF ThreadItem, Kind
  <2>2. p = <<a, b, c, d>>
    BY SetDemandFacts
  <2> HIDE DEF a, b, c, d, p
  <2>3. /\ Len(p) = 4 /\ p \in Seq(ThreadItem)
        /\ p[1] = a /\ p[2] = b /\ p[3] = c /\ p[4] = d
    BY <2>1, <2>2
  <2> QED  BY <2>3 DEF a, b, c, d
<1>3. /\ new \in Seq(ThreadItem) /\ Len(new) = Len(s) + 3
      /\ \A i \in 1 .. 4 : new[i] = p[i]
      /\ \A i \in 5 .. Len(new) : new[i] = s[i - 3]
      /\ \A i \in 2 .. Len(s) : new[i + 3] = s[i]
  <2> HIDE DEF p
  <2>1. /\ new \in Seq(ThreadItem) /\ Len(new) = Len(p) + Len(s) - 1
        /\ \A i \in 1 .. Len(p) : new[i] = p[i]
        /\ \A i \in Len(p) + 1 .. Len(new) : new[i] = s[i - Len(p) + 1]
    <3>1. new = p \o Tail(s)
      OBVIOUS
    <3> HIDE DEF new
    <3>2. s \in Seq(ThreadItem) /\ p \in Seq(ThreadItem)
      BY <1>1, <1>2
    <3> QED  BY <3>1, <3>2, PushFacts, SMT
  <2>2. ASSUME NEW i \in 5 .. Len(new) PROVE new[i] = s[i - 3]
    <3>1. i \in Len(p) + 1 .. Len(new) /\ i - Len(p) + 1 = i - 3
      BY <1>1, <1>2, <2>1
    <3> QED  BY <3>1, <2>1
  <2>3. ASSUME NEW i \in 2 .. Len(s) PROVE new[i + 3] = s[i]
    <3>1. i + 3 \in 5 .. Len(new) /\ i + 3 - 3 = i
      BY <1>1, <1>2, <2>1
    <3> QED  BY <3>1, <2>2
  <2> QED  BY <1>1, <1>2, <2>1, <2>2, <2>3
<1> HIDE DEF p, new
<1>4. /\ new[1].op = "set" /\ new[2].op = "begin" /\ new[3].op = "attach" /\ new[4].op = "commit"
      /\ \A i \in 1 .. 4 : new[i].at = f
  BY <1>2, <1>3
<1>5. \A i \in 1 .. Len(new) : i \in 1 .. 4 \/ (i \in 5 .. Len(new) /\ i - 3 \in 2 .. Len(s))
  BY <1>1, <1>3
<1>6. Follows(new)
  <2> SUFFICES ASSUME NEW i \in 1 .. Len(new),
                      new[i].op \in {"begin", "init", "attach", "detour", "mark", "detach"}
               PROVE  i + 1 \in 1 .. Len(new) /\ new[i + 1].op \in TransOps
    BY DEF Follows
  <2>1. CASE i \in 1 .. 4
    BY <2>1, <1>1, <1>3, <1>4 DEF TransOps
  <2>2. CASE i \in 5 .. Len(new)
    <3>1. i - 3 \in 2 .. Len(s) /\ new[i] = s[i - 3]
      BY <2>2, <1>1, <1>3
    <3>2. i - 2 \in 1 .. Len(s) /\ s[i - 2].op \in TransOps
      BY <3>1 DEF ThreadSeq, Follows
    <3>a. i + 1 \in 5 .. Len(new) /\ i + 1 - 3 = i - 2
      BY <2>2, <3>2, <1>1, <1>3
    <3>3. i + 1 \in 5 .. Len(new) /\ new[i + 1] = s[i - 2]
      BY <3>a, <1>3
    <3> QED  BY <3>2, <3>3
  <2> QED  BY <2>1, <2>2, <1>5
<1>7. Covered(new)
  <2> SUFFICES ASSUME NEW i \in 1 .. Len(new), new[i].op \in {"hook", "set", "attach", "detour", "mark"}
               PROVE  /\ new[i].at \in InitializedMethods => CoveredByStatic(new, i)
                      /\ new[i].at \in DrawMethods => CoveredBySection(new, i)
    BY DEF Covered
  <2> DEFINE h == IF i \in 1 .. 4 THEN 1 ELSE i - 3
  <2>1. /\ h \in 1 .. Len(s) /\ s[h].op \in {"hook", "set", "attach", "detour", "mark"} /\ s[h].at = new[i].at
        /\ i <= h + 3 /\ (i = h + 3 \/ h = 1)
    BY <1>1, <1>3, <1>4, <1>5
  <2> HIDE DEF h
  <2>2. /\ s[h].at \in InitializedMethods => CoveredByStatic(s, h)
        /\ s[h].at \in DrawMethods => CoveredBySection(s, h)
    BY <2>1 DEF ThreadSeq, Covered
  <2>3. ASSUME CoveredByStatic(s, h) PROVE CoveredByStatic(new, i)
    <3>1. PICK j \in 1 .. Len(s) : h < j /\ s[j].op = "done" /\ s[j].at = Under(s[h].at)
      BY <2>3 DEF CoveredByStatic
    <3>2. j + 3 \in 1 .. Len(new) /\ i < j + 3 /\ new[j + 3] = s[j]
      BY <1>1, <1>3, <2>1, <3>1
    <3> QED  BY <2>1, <3>1, <3>2 DEF CoveredByStatic
  <2>4. ASSUME CoveredBySection(s, h) PROVE CoveredBySection(new, i)
    <3>1. PICK j \in 1 .. Len(s) :
            /\ h < j /\ s[j].op = "leave"
            /\ \A k \in 1 .. Len(s) : h < k /\ k < j => s[k].op # "enter"
      BY <2>4 DEF CoveredBySection
    <3>2. j + 3 \in 1 .. Len(new) /\ i < j + 3 /\ new[j + 3] = s[j]
      BY <1>1, <1>3, <2>1, <3>1
    <3>3. ASSUME NEW k \in 1 .. Len(new), i < k, k < j + 3 PROVE new[k].op # "enter"
      <4>1. CASE k \in 1 .. 4
        BY <4>1, <1>4
      <4>2. CASE k \in 5 .. Len(new)
        <5>1. k - 3 \in 1 .. Len(s) /\ h < k - 3 /\ k - 3 < j /\ new[k] = s[k - 3]
          BY <4>2, <3>3, <1>1, <1>3, <2>1
        <5> QED  BY <5>1, <3>1
      <4> QED  BY <4>1, <4>2, <1>5
    <3> QED  BY <3>1, <3>2, <3>3 DEF CoveredBySection
  <2> QED  BY <2>1, <2>2, <2>3, <2>4
<1>8. SetFirst(new)
  <2> SUFFICES ASSUME NEW i \in 1 .. Len(new), new[i].op \in {"set", "detour", "mark"} PROVE i = 1
    BY DEF SetFirst
  <2>1. CASE i \in 1 .. 4
    BY <2>1, <1>4
  <2>2. CASE i \in 5 .. Len(new)
    <3>1. i - 3 \in 2 .. Len(s) /\ s[i - 3].op \in {"set", "detour", "mark"}
      BY <2>2, <1>1, <1>3
    <3> QED  BY <3>1 DEF ThreadSeq, SetFirst
  <2> QED  BY <2>1, <2>2, <1>5
<1>9. \A i \in 1 .. Len(new) : new[i].op \in {"done", "leave", "enter", "static"} =>
        i \in 5 .. Len(new) /\ i - 3 \in 2 .. Len(s) /\ new[i] = s[i - 3]
  BY <1>3, <1>4, <1>5
<1>10. OneDone(new)
  <2> SUFFICES ASSUME NEW i \in 1 .. Len(new), NEW j \in 1 .. Len(new),
                      new[i].op = "done", new[j] = new[i]
               PROVE  i = j
    BY DEF OneDone
  <2>1. /\ i - 3 \in 1 .. Len(s) /\ new[i] = s[i - 3]
        /\ j - 3 \in 1 .. Len(s) /\ new[j] = s[j - 3]
    BY <1>9
  <2>2. i - 3 = j - 3
    BY <2>1 DEF ThreadSeq, OneDone
  <2> QED  BY <2>2
<1>11. OneLeave(new)
  <2> SUFFICES ASSUME NEW i \in 1 .. Len(new), NEW j \in 1 .. Len(new),
                      new[i].op = "leave", new[j].op = "leave"
               PROVE  i = j
    BY DEF OneLeave
  <2>1. /\ i - 3 \in 1 .. Len(s) /\ new[i] = s[i - 3]
        /\ j - 3 \in 1 .. Len(s) /\ new[j] = s[j - 3]
    BY <1>9
  <2>2. i - 3 = j - 3
    BY <2>1 DEF ThreadSeq, OneLeave
  <2> QED  BY <2>2
<1>12. CategoryLast(new)
  <2> SUFFICES ASSUME NEW i \in 1 .. Len(new), new[i].op = "static", new[i].at \in Categories
               PROVE  i = Len(new) /\ \A j \in 1 .. Len(new) : new[j].op # "leave"
    BY DEF CategoryLast
  <2>1. i - 3 \in 1 .. Len(s) /\ new[i] = s[i - 3]
    BY <1>9
  <2>2. i - 3 = Len(s) /\ \A j \in 1 .. Len(s) : s[j].op # "leave"
    BY <2>1 DEF ThreadSeq, CategoryLast
  <2> QED  BY <1>1, <1>3, <1>9, <2>2
<1>13. \A g : Finishes(new, g) => Finishes(s, g)
  BY <1>9 DEF Finishes
<1>14. Inside(new) => Inside(s)
  <2> SUFFICES ASSUME NEW j \in 1 .. Len(new), new[j].op = "leave",
                      \A k \in 1 .. Len(new) : k < j => new[k].op # "enter"
               PROVE  Inside(s)
    BY DEF Inside
  <2>1. j - 3 \in 2 .. Len(s) /\ s[j - 3].op = "leave"
    BY <1>9
  <2>2. ASSUME NEW k \in 1 .. Len(s), k < j - 3 PROVE s[k].op # "enter"
    <3>1. CASE k = 1
      BY <3>1
    <3>2. CASE k # 1
      <4>1. k + 3 \in 1 .. Len(new) /\ k + 3 < j /\ new[k + 3] = s[k]
        BY <2>2, <3>2, <1>1, <1>3
      <4> QED  BY <4>1
    <3> QED  BY <3>1, <3>2
  <2> QED  BY <2>1, <2>2 DEF Inside
<1> QED
  BY <1>3, <1>6, <1>7, <1>8, <1>10, <1>11, <1>12, <1>13, <1>14 DEF ThreadSeq, new, p

(* A thread in hook_demand goes on with the next thing it does to the same  *)
(* function.                                                                *)
LEMMA SwapFacts ==
  ASSUME NEW S, NEW s \in Seq(S), s # <<>>, NEW x \in S, NEW q, q = <<x>> \o Tail(s)
  PROVE  /\ q \in Seq(S) /\ Len(q) = Len(s) /\ Len(s) \in Nat \ {0} /\ q[1] = x
         /\ \A i \in 1 .. Len(s) : i # 1 => q[i] = s[i]
<1> DEFINE p == <<x>>
<1>1. p \in Seq(S) /\ Len(p) = 1 /\ p[1] = x
  OBVIOUS
<1>2. q = p \o Tail(s)
  OBVIOUS
<1> HIDE DEF p
<1>3. /\ q \in Seq(S) /\ Len(q) = Len(p) + Len(s) - 1
      /\ \A i \in 1 .. Len(p) : q[i] = p[i]
      /\ \A i \in 2 .. Len(s) : q[i + Len(p) - 1] = s[i]
      /\ Len(s) \in Nat \ {0}
  BY <1>1, <1>2, PushFacts
<1>4. Len(q) = Len(s) /\ q[1] = x
  BY <1>1, <1>3
<1>5. ASSUME NEW i \in 1 .. Len(s), i # 1 PROVE q[i] = s[i]
  <2>1. i \in 2 .. Len(s) /\ i + Len(p) - 1 = i
    BY <1>1, <1>3, <1>5
  <2> QED  BY <1>3, <2>1
<1> QED
  BY <1>3, <1>4, <1>5

LEMMA ThreadSwap ==
  ASSUME NEW s, ThreadSeq(s), s # <<>>, s[1].op \in {"attach", "detour"},
         NEW op \in {"detour", "mark"}, NEW q,
         q = <<[op |-> op, at |-> s[1].at]>> \o Tail(s)
  PROVE  /\ ThreadSeq(q)
         /\ \A g : Finishes(q, g) => Finishes(s, g)
         /\ Inside(q) => Inside(s)
<1> DEFINE x == [op |-> op, at |-> s[1].at]
<1>1. s \in Seq(ThreadItem) /\ s[1] \in ThreadItem /\ s[1].at \in Methods
  <2>1. s \in Seq(ThreadItem) /\ s[1] \in ThreadItem
    BY EmptySeq DEF ThreadSeq
  <2> QED  BY <2>1 DEF ThreadItem, Kind
<1>2. x \in ThreadItem
  BY <1>1 DEF ThreadItem, Kind
<1>3. x.op = op /\ x.at = s[1].at
  OBVIOUS
<1> HIDE DEF x
<1>4. /\ q \in Seq(ThreadItem) /\ Len(q) = Len(s) /\ Len(s) \in Nat \ {0} /\ q[1] = x
      /\ \A i \in 1 .. Len(s) : i # 1 => q[i] = s[i]
  <2>1. q = <<x>> \o Tail(s)
    BY DEF x
  <2> QED  BY <1>1, <1>2, <2>1, SwapFacts
<1>5. \A i \in 1 .. Len(s) : q[i].at = s[i].at
  BY <1>3, <1>4
<1>6. \A i \in 1 .. Len(s) :
        \/ q[i] = s[i] /\ i # 1
        \/ i = 1 /\ q[i].op = op /\ s[i].op \in {"attach", "detour"}
  BY <1>3, <1>4
<1>7. Follows(q)
  <2> SUFFICES ASSUME NEW i \in 1 .. Len(q),
                      q[i].op \in {"begin", "init", "attach", "detour", "mark", "detach"}
               PROVE  i + 1 \in 1 .. Len(q) /\ q[i + 1].op \in TransOps
    BY DEF Follows
  <2>1. s[i].op \in {"begin", "init", "attach", "detour", "mark", "detach"}
    BY <1>4, <1>6
  <2>2. i + 1 \in 1 .. Len(s) /\ s[i + 1].op \in TransOps
    BY <1>4, <2>1 DEF ThreadSeq, Follows
  <2>3. q[i + 1] = s[i + 1]
    BY <1>4, <2>2
  <2> QED  BY <1>4, <2>2, <2>3
<1>8. Covered(q)
  <2> SUFFICES ASSUME NEW i \in 1 .. Len(q),
                      q[i].op \in {"hook", "set", "attach", "detour", "mark"}
               PROVE  /\ q[i].at \in InitializedMethods => CoveredByStatic(q, i)
                      /\ q[i].at \in DrawMethods => CoveredBySection(q, i)
    BY DEF Covered
  <2>1. /\ i \in 1 .. Len(s) /\ q[i].at = s[i].at
        /\ s[i].op \in {"hook", "set", "attach", "detour", "mark"}
    BY <1>4, <1>5, <1>6
  <2>2. /\ s[i].at \in InitializedMethods => CoveredByStatic(s, i)
        /\ s[i].at \in DrawMethods => CoveredBySection(s, i)
    BY <2>1 DEF ThreadSeq, Covered
  <2>3. ASSUME CoveredByStatic(s, i) PROVE CoveredByStatic(q, i)
    <3>1. PICK j \in 1 .. Len(s) : i < j /\ s[j].op = "done" /\ s[j].at = Under(s[i].at)
      BY <2>3 DEF CoveredByStatic
    <3>2. q[j] = s[j] /\ j \in 1 .. Len(q)
      BY <1>4, <2>1, <3>1
    <3> QED  BY <2>1, <3>1, <3>2 DEF CoveredByStatic
  <2>4. ASSUME CoveredBySection(s, i) PROVE CoveredBySection(q, i)
    <3>1. PICK j \in 1 .. Len(s) :
            /\ i < j /\ s[j].op = "leave"
            /\ \A k \in 1 .. Len(s) : i < k /\ k < j => s[k].op # "enter"
      BY <2>4 DEF CoveredBySection
    <3>2. q[j] = s[j] /\ j \in 1 .. Len(q)
      BY <1>4, <2>1, <3>1
    <3>3. \A k \in 1 .. Len(q) : i < k /\ k < j => q[k].op # "enter"
      BY <1>4, <2>1, <3>1
    <3> QED  BY <3>1, <3>2, <3>3 DEF CoveredBySection
  <2> QED  BY <2>1, <2>2, <2>3, <2>4
<1>9. SetFirst(q)
  <2> SUFFICES ASSUME NEW i \in 1 .. Len(q), q[i].op \in {"set", "detour", "mark"}
               PROVE  i = 1
    BY DEF SetFirst
  <2>1. CASE q[i] = s[i]
    BY <1>4, <2>1 DEF ThreadSeq, SetFirst
  <2> QED  BY <1>4, <1>6, <2>1
<1>10. \A i \in 1 .. Len(q) : q[i].op \in {"done", "leave", "static", "enter"} =>
         i \in 1 .. Len(s) /\ q[i] = s[i]
  BY <1>4, <1>6
<1>11. \A i \in 1 .. Len(s) : s[i].op \in {"done", "leave", "static", "enter"} =>
         i \in 1 .. Len(q) /\ q[i] = s[i]
  BY <1>4, <1>6
<1>12. OneDone(q)
  BY <1>10 DEF ThreadSeq, OneDone
<1>13. OneLeave(q)
  BY <1>10 DEF ThreadSeq, OneLeave
<1>14. CategoryLast(q)
  <2> SUFFICES ASSUME NEW i \in 1 .. Len(q), q[i].op = "static", q[i].at \in Categories
               PROVE  i = Len(q) /\ \A j \in 1 .. Len(q) : q[j].op # "leave"
    BY DEF CategoryLast
  <2>1. i = Len(s) /\ \A j \in 1 .. Len(s) : s[j].op # "leave"
    BY <1>10 DEF ThreadSeq, CategoryLast
  <2> QED  BY <1>4, <1>10, <2>1
<1>15. \A g : Finishes(q, g) => Finishes(s, g)
  BY <1>10 DEF Finishes
<1>16. Inside(q) => Inside(s)
  <2> SUFFICES ASSUME NEW j \in 1 .. Len(q), q[j].op = "leave",
                      \A k \in 1 .. Len(q) : k < j => q[k].op # "enter"
               PROVE  Inside(s)
    BY DEF Inside
  <2>1. j \in 1 .. Len(s) /\ s[j].op = "leave"
    BY <1>10
  <2>2. \A k \in 1 .. Len(s) : k < j => s[k].op # "enter"
    BY <1>11
  <2> QED  BY <2>1, <2>2 DEF Inside
<1> QED
  BY <1>4, <1>7, <1>8, <1>9, <1>12, <1>13, <1>14, <1>15, <1>16 DEF ThreadSeq

(* Items that may come before the rest of s: no section is entered, and     *)
(* methods are hooked before the initializer of g ends.                     *)
Plain(p, g) ==
  /\ p \in Seq(ThreadItem)
  /\ \A i \in 1 .. Len(p) :
       /\ p[i].op \in {"hook", "static", "call", "done"}
       /\ p[i].op = "hook" => /\ p[i].at \notin DrawMethods
                              /\ p[i].at \in InitializedMethods => CoveredByStatic(p, i)
       /\ p[i].op = "static" => p[i].at \notin Categories
       /\ p[i].op = "done" => p[i].at = g /\ i = Len(p)

LEMMA ItemKinds ==
  /\ Free \subseteq ThreadItem
  /\ \A g \in Statics : OwnItem(g) \subseteq ThreadItem /\ [op |-> "done", at |-> g] \in ThreadItem
  /\ \A x \in Free : x.op \in {"static", "call"} /\ (x.op = "static" => x.at \notin Categories)
  /\ \A g : \A x \in OwnItem(g) :
       /\ x.op \in {"hook", "static", "call"}
       /\ x.op = "static" => x.at \notin Categories
       /\ x.op = "hook" => x.at \in Own(g)
BY DEF Free, OwnItem, ThreadItem, Kind, Own, Methods

LEMMA OwnFacts ==
  ASSUME NEW g, NEW f \in Own(g)
  PROVE  f \notin DrawMethods /\ (f \in InitializedMethods => Under(f) = g)
BY DEF Own, DrawMethods, InitializedMethods, Shared

LEMMA PlainInitializer ==
  ASSUME NEW g \in Statics \ Categories
  PROVE  Plain(Initializer(g) \o Item("done", g), g)
<1> DEFINE q == Initializer(g)  d == [op |-> "done", at |-> g]
           p == q \o <<d>>
<1>1. q \in Seq(OwnItem(g)) /\ OwnItem(g) \subseteq ThreadItem /\ d \in ThreadItem
  BY InitializerFacts, ItemKinds
<1>2. Item("done", g) = <<d>> /\ d.op = "done" /\ d.at = g
  BY ItemFacts
<1> HIDE DEF q, d
<1>3. q \in Seq(ThreadItem) /\ Len(q) \in Nat
  BY <1>1, SeqMonotonic
<1>4. /\ p \in Seq(ThreadItem) /\ Len(p) = Len(q) + 1
      /\ \A i \in 1 .. Len(q) : p[i] = q[i]
      /\ p[Len(q) + 1] = d
  BY <1>1, <1>3
<1> HIDE DEF p
<1>5. ASSUME NEW i \in 1 .. Len(p)
      PROVE  /\ p[i].op \in {"hook", "static", "call", "done"}
             /\ p[i].op = "hook" => /\ p[i].at \notin DrawMethods
                                    /\ p[i].at \in InitializedMethods => CoveredByStatic(p, i)
             /\ p[i].op = "static" => p[i].at \notin Categories
             /\ p[i].op = "done" => p[i].at = g /\ i = Len(p)
  <2>1. CASE i = Len(p)
    <3>1. p[i] = d
      BY <2>1, <1>4
    <3>2. p[i].op = "done" /\ p[i].at = g
      BY <3>1, <1>2
    <3>3. p[i].op # "hook"
      BY <3>2
    <3>4. p[i].op # "static"
      BY <3>2
    <3>5. p[i].op \in {"hook", "static", "call", "done"}
      BY <3>2
    <3> HIDE DEF d
    <3> QED  BY <2>1, <3>2, <3>3, <3>4, <3>5
  <2>2. CASE i # Len(p)
    <3>1. i \in 1 .. Len(q) /\ p[i] = q[i] /\ i < Len(p) /\ Len(p) \in 1 .. Len(p)
      BY <2>2, <1>3, <1>4
    <3>2. q[i] \in OwnItem(g)
      BY <3>1, <1>1
    <3>3. /\ p[i].op \in {"hook", "static", "call"}
          /\ p[i].op = "static" => p[i].at \notin Categories
          /\ p[i].op = "hook" => p[i].at \in Own(g)
      BY <3>1, <3>2, ItemKinds
    <3>4. p[i].op = "hook" => /\ p[i].at \notin DrawMethods
                              /\ p[i].at \in InitializedMethods => Under(p[i].at) = g
      BY <3>3, OwnFacts
    <3>5. p[Len(p)].op = "done" /\ p[Len(p)].at = g
      BY <1>2, <1>4
    <3>6. Under(p[i].at) = g => CoveredByStatic(p, i)
      BY <3>1, <3>5 DEF CoveredByStatic
    <3>7. p[i].op # "done" /\ p[i].op \in {"hook", "static", "call", "done"}
      BY <3>3
    <3>8. p[i].op = "hook" => /\ p[i].at \notin DrawMethods
                              /\ p[i].at \in InitializedMethods => CoveredByStatic(p, i)
      BY <3>4, <3>6
    <3> QED  BY <3>3, <3>7, <3>8
  <2> QED  BY <2>1, <2>2
<1>6. Plain(p, g)
  BY <1>4, <1>5 DEF Plain
<1> QED
  BY <1>2, <1>6 DEF p, q

LEMMA PlainFree ==
  ASSUME NEW p \in Seq(Free), NEW g
  PROVE  Plain(p, g) /\ \A i \in 1 .. Len(p) : p[i].op # "done"
<1>1. p \in Seq(ThreadItem)
  BY ItemKinds, SeqMonotonic
<1>2. \A i \in 1 .. Len(p) : p[i].op \in {"static", "call"} /\ (p[i].op = "static" => p[i].at \notin Categories)
  BY ItemKinds
<1> QED
  BY <1>1, <1>2 DEF Plain

Adds(new, s, p, g) ==
  /\ \A h : Finishes(new, h) => Finishes(s, h) \/ (h = g /\ Finishes(p, g))
  /\ Inside(new) => Inside(s)

LEMMA ThreadPrefix ==
  ASSUME NEW s, ThreadSeq(s), s # <<>>, s[1].op # "enter", NEW p, NEW g, Plain(p, g),
         \/ ~Finishes(s, g)
         \/ \A i \in 1 .. Len(p) : p[i].op # "done",
         NEW new, new = p \o Tail(s)
  PROVE  ThreadSeq(new) /\ Adds(new, s, p, g)
<1> DEFINE n == Len(p)
<1>1. s \in Seq(ThreadItem) /\ Len(s) \in Nat \ {0} /\ p \in Seq(ThreadItem) /\ n \in Nat
  BY EmptySeq DEF ThreadSeq, Plain
<1>2. /\ new \in Seq(ThreadItem) /\ Len(new) = n + Len(s) - 1
      /\ \A i \in 1 .. n : new[i] = p[i]
      /\ \A i \in n + 1 .. Len(new) : new[i] = s[i - n + 1]
  BY <1>1, PushFacts
<1> HIDE DEF n
<1>3. \A i \in 1 .. Len(new) : \/ i \in 1 .. n /\ new[i] = p[i]
                               \/ /\ i \in n + 1 .. Len(new) /\ i - n + 1 \in 2 .. Len(s)
                                  /\ i - n + 1 \in 1 .. Len(s)
                                  /\ new[i] = s[i - n + 1]
  <2> SUFFICES ASSUME NEW i \in 1 .. Len(new), i \notin 1 .. n
               PROVE  /\ i \in n + 1 .. Len(new) /\ i - n + 1 \in 2 .. Len(s)
                      /\ i - n + 1 \in 1 .. Len(s)
    BY <1>2
  <2> QED  BY <1>1, <1>2
<1>4. ASSUME NEW k \in 2 .. Len(s)
      PROVE  k + n - 1 \in n + 1 .. Len(new) /\ k + n - 1 \in 1 .. Len(new) /\ new[k + n - 1] = s[k]
  <2> DEFINE m == k + n - 1
  <2>1. m \in n + 1 .. Len(new) /\ m - n + 1 = k /\ m \in 1 .. Len(new)
    BY <1>1, <1>2
  <2> HIDE DEF m
  <2>2. new[m] = s[k]
    BY <2>1, <1>2
  <2> QED  BY <2>1, <2>2 DEF m
<1>5. \A i \in 1 .. n :
       /\ p[i].op \in {"hook", "static", "call", "done"}
       /\ p[i].op = "hook" => /\ p[i].at \notin DrawMethods
                              /\ p[i].at \in InitializedMethods => CoveredByStatic(p, i)
       /\ p[i].op = "static" => p[i].at \notin Categories
       /\ p[i].op = "done" => p[i].at = g /\ i = n
  BY DEF Plain, n
<1>6. Follows(new)
  <2> SUFFICES ASSUME NEW i \in 1 .. Len(new),
                      new[i].op \in {"begin", "init", "attach", "detour", "mark", "detach"}
               PROVE  i + 1 \in 1 .. Len(new) /\ new[i + 1].op \in TransOps
    BY DEF Follows
  <2>1. i \in n + 1 .. Len(new) /\ i - n + 1 \in 1 .. Len(s) /\ new[i] = s[i - n + 1]
    BY <1>3, <1>5
  <2>2. i - n + 1 + 1 \in 1 .. Len(s) /\ s[i - n + 1 + 1].op \in TransOps
    BY <2>1 DEF ThreadSeq, Follows
  <2>3. i - n + 1 + 1 \in 2 .. Len(s) /\ i - n + 1 + 1 + n - 1 = i + 1
    <3>1. n \in Nat /\ Len(s) \in Nat /\ i \in Nat /\ n < i
      BY <2>1, <1>1
    <3>2. i - n + 1 + 1 \in 2 .. Len(s)
      BY <3>1, <2>2
    <3> QED  BY <3>1, <3>2
  <2> QED  BY <2>2, <2>3, <1>4
<1>7. Covered(new)
  <2> SUFFICES ASSUME NEW i \in 1 .. Len(new), new[i].op \in {"hook", "set", "attach", "detour", "mark"}
               PROVE  /\ new[i].at \in InitializedMethods => CoveredByStatic(new, i)
                      /\ new[i].at \in DrawMethods => CoveredBySection(new, i)
    BY DEF Covered
  <2>1. CASE i \in 1 .. n
    <3>1. new[i] = p[i] /\ p[i].op = "hook"
      BY <2>1, <1>2, <1>5
    <3>2. /\ p[i].at \notin DrawMethods
          /\ p[i].at \in InitializedMethods => CoveredByStatic(p, i)
      BY <2>1, <3>1, <1>5
    <3>3. ASSUME CoveredByStatic(p, i) PROVE CoveredByStatic(new, i)
      <4>1. PICK j \in 1 .. n : i < j /\ p[j].op = "done" /\ p[j].at = Under(p[i].at)
        BY <3>3 DEF CoveredByStatic, n
      <4>2. j \in 1 .. Len(new) /\ new[j] = p[j]
        BY <1>1, <1>2
      <4> QED  BY <3>1, <4>1, <4>2 DEF CoveredByStatic
    <3> QED  BY <3>1, <3>2, <3>3
  <2>2. CASE i \in n + 1 .. Len(new)
    <3> DEFINE h == i - n + 1
    <3>1. h \in 2 .. Len(s) /\ h \in 1 .. Len(s) /\ new[i] = s[h] /\ h + n - 1 = i
      BY <2>2, <1>1, <1>2
    <3> HIDE DEF h
    <3>2. /\ s[h].at \in InitializedMethods => CoveredByStatic(s, h)
          /\ s[h].at \in DrawMethods => CoveredBySection(s, h)
      BY <3>1 DEF ThreadSeq, Covered
    <3>3. ASSUME CoveredByStatic(s, h) PROVE CoveredByStatic(new, i)
      <4>1. PICK j \in 1 .. Len(s) : h < j /\ s[j].op = "done" /\ s[j].at = Under(s[h].at)
        BY <3>3 DEF CoveredByStatic
      <4>2. j \in 2 .. Len(s) /\ i < j + n - 1
        BY <1>1, <3>1, <4>1
      <4> QED  BY <3>1, <4>1, <4>2, <1>4 DEF CoveredByStatic
    <3>4. ASSUME CoveredBySection(s, h) PROVE CoveredBySection(new, i)
      <4>1. PICK j \in 1 .. Len(s) :
              /\ h < j /\ s[j].op = "leave"
              /\ \A k \in 1 .. Len(s) : h < k /\ k < j => s[k].op # "enter"
        BY <3>4 DEF CoveredBySection
      <4>2. j \in 2 .. Len(s) /\ i < j + n - 1
        BY <1>1, <3>1, <4>1
      <4>3. ASSUME NEW k \in 1 .. Len(new), i < k, k < j + n - 1 PROVE new[k].op # "enter"
        <5>1. k \in n + 1 .. Len(new) /\ k - n + 1 \in 1 .. Len(s)
              /\ h < k - n + 1 /\ k - n + 1 < j /\ new[k] = s[k - n + 1]
          BY <4>3, <2>2, <1>1, <1>2, <3>1
        <5> QED  BY <5>1, <4>1
      <4> QED  BY <4>1, <4>2, <4>3, <1>4 DEF CoveredBySection
    <3> QED  BY <3>1, <3>2, <3>3, <3>4
  <2> QED  BY <2>1, <2>2, <1>3
<1>8. SetFirst(new)
  <2> SUFFICES ASSUME NEW i \in 1 .. Len(new), new[i].op \in {"set", "detour", "mark"} PROVE FALSE
    BY DEF SetFirst
  <2>1. i - n + 1 \in 2 .. Len(s) /\ i - n + 1 \in 1 .. Len(s) /\ s[i - n + 1].op \in {"set", "detour", "mark"}
    BY <1>3, <1>5
  <2> QED  BY <2>1 DEF ThreadSeq, SetFirst
<1>9. OneDone(new)
  <2> SUFFICES ASSUME NEW i \in 1 .. Len(new), NEW j \in 1 .. Len(new),
                      new[i].op = "done", new[j] = new[i]
               PROVE  i = j
    BY DEF OneDone
  <2>1. CASE i \in 1 .. n /\ j \in 1 .. n
    BY <2>1, <1>2, <1>5
  <2>2. CASE i \notin 1 .. n /\ j \notin 1 .. n
    <3>1. /\ i - n + 1 \in 1 .. Len(s) /\ new[i] = s[i - n + 1]
          /\ j - n + 1 \in 1 .. Len(s) /\ new[j] = s[j - n + 1]
      BY <2>2, <1>3
    <3>2. i - n + 1 = j - n + 1
      BY <3>1 DEF ThreadSeq, OneDone
    <3> QED  BY <3>2, <1>1
  <2>3. ASSUME NEW a \in 1 .. n, NEW b \in 1 .. Len(new), b \notin 1 .. n,
               p[a].op = "done", s[b - n + 1] = p[a]
        PROVE  FALSE
    <3>1. b - n + 1 \in 1 .. Len(s)
      BY <2>3, <1>3
    <3>2. p[a].at = g
      BY <2>3, <1>5
    <3>3. Finishes(s, g)
      BY <2>3, <3>1, <3>2 DEF Finishes
    <3> QED  BY <2>3, <3>3 DEF n
  <2>4. ASSUME NEW a \in 1 .. n, NEW b \in 1 .. Len(new), b \notin 1 .. n,
               new[a].op = "done", new[b] = new[a]
        PROVE  FALSE
    <3>1. new[a] = p[a] /\ new[b] = s[b - n + 1]
      BY <2>4, <1>2, <1>3
    <3> QED  BY <2>3, <2>4, <3>1
  <2>5. ~(i \in 1 .. n /\ j \notin 1 .. n)
    BY <2>4
  <2>6. ~(i \notin 1 .. n /\ j \in 1 .. n)
    BY <2>4
  <2> QED  BY <2>1, <2>2, <2>5, <2>6
<1>10. OneLeave(new)
  <2> SUFFICES ASSUME NEW i \in 1 .. Len(new), NEW j \in 1 .. Len(new),
                      new[i].op = "leave", new[j].op = "leave"
               PROVE  i = j
    BY DEF OneLeave
  <2>1. /\ i - n + 1 \in 1 .. Len(s) /\ s[i - n + 1].op = "leave"
        /\ j - n + 1 \in 1 .. Len(s) /\ s[j - n + 1].op = "leave"
    BY <1>3, <1>5
  <2>2. i - n + 1 = j - n + 1
    BY <2>1 DEF ThreadSeq, OneLeave
  <2> QED  BY <2>2, <1>1
<1>11. CategoryLast(new)
  <2> SUFFICES ASSUME NEW i \in 1 .. Len(new), new[i].op = "static", new[i].at \in Categories
               PROVE  i = Len(new) /\ \A j \in 1 .. Len(new) : new[j].op # "leave"
    BY DEF CategoryLast
  <2>1. i - n + 1 \in 1 .. Len(s) /\ new[i] = s[i - n + 1]
    BY <1>3, <1>5
  <2>2. i - n + 1 = Len(s) /\ \A j \in 1 .. Len(s) : s[j].op # "leave"
    BY <2>1 DEF ThreadSeq, CategoryLast
  <2>3. \A j \in 1 .. Len(new) : new[j].op # "leave"
    BY <2>2, <1>3, <1>5
  <2> QED  BY <1>1, <1>2, <2>2, <2>3
<1>12. ASSUME NEW h, Finishes(new, h) PROVE Finishes(s, h) \/ (h = g /\ Finishes(p, g))
  <2>1. PICK i \in 1 .. Len(new) : new[i].op = "done" /\ new[i].at = h
    BY <1>12 DEF Finishes
  <2>2. CASE i \in 1 .. n
    BY <2>1, <2>2, <1>2, <1>5 DEF Finishes, n
  <2>3. CASE i \notin 1 .. n
    <3>1. i - n + 1 \in 1 .. Len(s) /\ new[i] = s[i - n + 1]
      BY <2>3, <1>3
    <3> QED  BY <3>1, <2>1 DEF Finishes
  <2> QED  BY <2>2, <2>3
<1>13. ASSUME Inside(new) PROVE Inside(s)
  <2>1. PICK j \in 1 .. Len(new) : /\ new[j].op = "leave"
                                  /\ \A k \in 1 .. Len(new) : k < j => new[k].op # "enter"
    BY <1>13 DEF Inside
  <2>2. j - n + 1 \in 1 .. Len(s) /\ s[j - n + 1].op = "leave"
    BY <2>1, <1>3, <1>5
  <2>3. ASSUME NEW k \in 1 .. Len(s), k < j - n + 1 PROVE s[k].op # "enter"
    <3>1. CASE k = 1
      BY <3>1
    <3>2. CASE k # 1
      <4>1. k \in 2 .. Len(s) /\ k + n - 1 < j
        BY <3>2, <2>3, <1>1
      <4> QED  BY <4>1, <2>1, <1>4
    <3> QED  BY <3>1, <3>2
  <2> QED  BY <2>2, <2>3 DEF Inside
<1> QED
  BY <1>2, <1>6, <1>7, <1>8, <1>9, <1>10, <1>11, <1>12, <1>13 DEF ThreadSeq, Adds

(* The initializer of a category, which is the last thing to be done.       *)
Enters(new, g) == (\A h : Finishes(new, h) => h = g) /\ ~Inside(new)

LEMMA ThreadCategory ==
  ASSUME NEW s, ThreadSeq(s), s # <<>>, s[1].op = "static", NEW g \in Categories, s[1].at = g,
         NEW new, new = Initializer(g) \o Item("done", g) \o Tail(s)
  PROVE  ThreadSeq(new) /\ Enters(new, g)
<1>1. s \in Seq(ThreadItem) /\ Len(s) = 1 /\ Tail(s) = <<>>
  <2>1. s \in Seq(ThreadItem) /\ Len(s) \in Nat \ {0}
    BY EmptySeq DEF ThreadSeq
  <2>2. Len(s) = 1
    <3>1. 1 \in 1 .. Len(s)
      BY <2>1
    <3> QED  BY <3>1 DEF ThreadSeq, CategoryLast
  <2>3. Tail(s) \in Seq(ThreadItem) /\ Len(Tail(s)) = 0
    BY <2>1, <2>2, TailFacts
  <2> QED  BY <2>1, <2>2, <2>3, EmptySeq
<1>2. PICK a, b \in DrawMethods :
        Initializer(g) \o Item("done", g) =
          <<[op |-> "enter", at |-> "CS_DWRITE"], [op |-> "hook", at |-> a],
            [op |-> "hook", at |-> b], [op |-> "leave", at |-> "CS_DWRITE"],
            [op |-> "done", at |-> g]>>
  BY CategoryFacts
<1> DEFINE e == [op |-> "enter", at |-> "CS_DWRITE"]
           x == [op |-> "hook", at |-> a]
           y == [op |-> "hook", at |-> b]
           l == [op |-> "leave", at |-> "CS_DWRITE"]
           d == [op |-> "done", at |-> g]
           p == <<e, x, y, l, d>>
<1>3. e \in ThreadItem /\ x \in ThreadItem /\ y \in ThreadItem /\ l \in ThreadItem /\ d \in ThreadItem
  BY <1>2 DEF ThreadItem, Kind, Methods, Statics
<1>4. /\ e.op = "enter" /\ x.op = "hook" /\ y.op = "hook" /\ l.op = "leave"
      /\ d.op = "done" /\ d.at = g /\ x.at \in DrawMethods /\ y.at \in DrawMethods
  BY <1>2
<1>5. new = p \o <<>>
  BY <1>1, <1>2
<1> HIDE DEF e, x, y, l, d
<1>6. p \in Seq(ThreadItem) /\ Len(p) = 5 /\ p[1] = e /\ p[2] = x /\ p[3] = y /\ p[4] = l /\ p[5] = d
  BY <1>3
<1> HIDE DEF p
<1>7. new = p
  BY <1>5, <1>6, ConcatEmptySeq
<1>8. /\ new \in Seq(ThreadItem) /\ Len(new) = 5
      /\ new[1].op = "enter" /\ new[2].op = "hook" /\ new[3].op = "hook" /\ new[4].op = "leave"
      /\ new[5].op = "done" /\ new[5].at = g
      /\ new[2].at \in DrawMethods /\ new[3].at \in DrawMethods
  BY <1>4, <1>6, <1>7
<1>9. \A i \in 1 .. Len(new) : i = 1 \/ i = 2 \/ i = 3 \/ i = 4 \/ i = 5
  <2>1. Len(new) = 5
    BY <1>8
  <2> QED  BY <2>1
<1>10. ASSUME NEW i \in 1 .. Len(new)
       PROVE  /\ new[i].op = "enter" => i = 1
              /\ new[i].op = "leave" => i = 4
              /\ new[i].op = "done" => i = 5 /\ new[i].at = g
              /\ new[i].op = "hook" => i \in {2, 3} /\ new[i].at \in DrawMethods
              /\ new[i].op \in {"enter", "hook", "leave", "done"}
  <2>1. CASE i = 1
    BY <2>1, <1>8
  <2>2. CASE i = 2
    BY <2>2, <1>8
  <2>3. CASE i = 3
    BY <2>3, <1>8
  <2>4. CASE i = 4
    BY <2>4, <1>8
  <2>5. CASE i = 5
    BY <2>5, <1>8
  <2> QED  BY <1>9, <2>1, <2>2, <2>3, <2>4, <2>5
<1>11. \A i \in 1 .. Len(new) :
         /\ new[i].op \notin {"begin", "init", "attach", "detour", "mark", "detach"}
         /\ new[i].op \notin {"set", "detour", "mark"} /\ new[i].op # "static"
  <2> SUFFICES ASSUME NEW i \in 1 .. Len(new)
               PROVE  new[i].op \notin {"begin", "init", "attach", "detour", "mark", "detach", "set", "static"}
    OBVIOUS
  <2>1. new[i].op \in {"enter", "hook", "leave", "done"}
    BY <1>10
  <2> QED  BY <2>1
<1>12. Follows(new) /\ SetFirst(new) /\ CategoryLast(new)
  BY <1>11 DEF Follows, SetFirst, CategoryLast
<1>13. Covered(new)
  <2> SUFFICES ASSUME NEW i \in 1 .. Len(new), new[i].op \in {"hook", "set", "attach", "detour", "mark"}
               PROVE  /\ new[i].at \in InitializedMethods => CoveredByStatic(new, i)
                      /\ new[i].at \in DrawMethods => CoveredBySection(new, i)
    BY DEF Covered
  <2>1. new[i].op = "hook"
    BY <1>11
  <2>2. i \in {2, 3} /\ new[i].at \in DrawMethods
    BY <1>10, <2>1
  <2>3. new[i].at \notin InitializedMethods
    BY <2>2 DEF DrawMethods, InitializedMethods
  <2>4. 4 \in 1 .. Len(new) /\ i < 4
    BY <1>8, <2>2
  <2>5. ASSUME NEW k \in 1 .. Len(new), i < k PROVE new[k].op # "enter"
    <3>1. k # 1
      BY <2>2, <2>5
    <3> QED  BY <3>1, <1>10
  <2>6. CoveredBySection(new, i)
    <3>1. new[4].op = "leave" /\ \A k \in 1 .. Len(new) : i < k /\ k < 4 => new[k].op # "enter"
      BY <1>8, <2>5
    <3> SUFFICES \E j \in 1 .. Len(new) :
                   /\ i < j /\ new[j].op = "leave"
                   /\ \A k \in 1 .. Len(new) : i < k /\ k < j => new[k].op # "enter"
      BY DEF CoveredBySection
    <3> USE <2>4
    <3> WITNESS 4 \in 1 .. Len(new)
    <3> QED  BY <3>1
  <2> QED  BY <2>3, <2>6
<1>14. OneDone(new)
  <2> SUFFICES ASSUME NEW i \in 1 .. Len(new), NEW j \in 1 .. Len(new),
                      new[i].op = "done", new[j] = new[i]
               PROVE  i = j
    BY DEF OneDone
  <2>1. new[j].op = "done"
    OBVIOUS
  <2>2. i = 5 /\ j = 5
    BY <1>10, <2>1
  <2> QED  BY <2>2
<1>15. OneLeave(new)
  <2> SUFFICES ASSUME NEW i \in 1 .. Len(new), NEW j \in 1 .. Len(new),
                      new[i].op = "leave", new[j].op = "leave"
               PROVE  i = j
    BY DEF OneLeave
  <2>1. i = 4 /\ j = 4
    BY <1>10
  <2> QED  BY <2>1
<1>16. ASSUME NEW h, Finishes(new, h) PROVE h = g
  <2>1. PICK i \in 1 .. Len(new) : new[i].op = "done" /\ new[i].at = h
    BY <1>16 DEF Finishes
  <2>2. new[i].op = "done" => new[i].at = g
    BY <1>10
  <2> QED  BY <2>1, <2>2
<1>17. ASSUME Inside(new) PROVE FALSE
  <2>1. PICK j \in 1 .. Len(new) : /\ new[j].op = "leave"
                                   /\ \A k \in 1 .. Len(new) : k < j => new[k].op # "enter"
    BY <1>17, Zenon DEF Inside
  <2>2. j = 4
    BY <1>10, <2>1
  <2>3. 1 \in 1 .. Len(new) /\ 1 < j
    BY <1>8, <2>2
  <2>4. new[1].op # "enter"
    BY <2>1, <2>3
  <2> QED  BY <1>8, <2>4
<1> QED
  BY <1>8, <1>12, <1>13, <1>14, <1>15, <1>16, <1>17 DEF ThreadSeq, Enters

(* A thread that has nothing to do calls a function that is hooked.         *)
LEMMA ThreadBegins ==
  ASSUME NEW f
  PROVE  ThreadSeq(IMPL(f)) /\ (\A g : ~Finishes(IMPL(f), g)) /\ ~Inside(IMPL(f))
<1>1. ASSUME NEW p \in Seq(ThreadItem),
             \A i \in 1 .. Len(p) :
               /\ p[i].op \in {"static", "call"}
               /\ p[i].op = "static" /\ p[i].at \in Categories => i = Len(p)
      PROVE  ThreadSeq(p) /\ (\A g : ~Finishes(p, g)) /\ ~Inside(p)
  BY <1>1 DEF ThreadSeq, Follows, Covered, SetFirst, OneDone, OneLeave, CategoryLast,
              Finishes, Inside
<1>2. CASE IMPL(f) \in Seq(Free)
  <2> DEFINE p == IMPL(f)
  <2>1. p \in Seq(ThreadItem)
    BY <1>2, ItemKinds, SeqMonotonic
  <2>2. \A i \in 1 .. Len(p) : p[i].op \in {"static", "call"} /\ (p[i].op = "static" => p[i].at \notin Categories)
    BY <1>2, ItemKinds
  <2> HIDE DEF p
  <2>3. ThreadSeq(p) /\ (\A g : ~Finishes(p, g)) /\ ~Inside(p)
    BY <1>1, <2>1, <2>2
  <2> QED  BY <2>3 DEF p
<1>3. ASSUME NEW g \in Categories,
             IMPL(f) = <<[op |-> "static", at |-> "HookRenderTarget"],
                         [op |-> "static", at |-> g]>>
      PROVE  ThreadSeq(IMPL(f)) /\ (\A h : ~Finishes(IMPL(f), h)) /\ ~Inside(IMPL(f))
  <2> DEFINE x == [op |-> "static", at |-> "HookRenderTarget"]
             y == [op |-> "static", at |-> g]
             p == <<x, y>>
  <2>1. x \in ThreadItem /\ y \in ThreadItem
    BY DEF ThreadItem, Kind, Statics
  <2>2. x.op = "static" /\ x.at \notin Categories /\ y.op = "static"
    BY DEF Categories
  <2> HIDE DEF x, y
  <2>3. p \in Seq(ThreadItem) /\ Len(p) = 2 /\ p[1] = x /\ p[2] = y
    BY <2>1
  <2> HIDE DEF p
  <2>4. \A i \in 1 .. Len(p) : /\ p[i].op \in {"static", "call"}
                               /\ p[i].op = "static" /\ p[i].at \in Categories => i = Len(p)
    BY <2>2, <2>3
  <2>5. ThreadSeq(p) /\ (\A h : ~Finishes(p, h)) /\ ~Inside(p)
    BY <1>1, <2>3, <2>4
  <2>6. IMPL(f) = p
    BY <1>3 DEF p, x, y
  <2> QED  BY <2>5, <2>6
<1> QED
  BY <1>2, <1>3, IMPLFacts
-----------------------------------------------------------------------------
(* The loader does one list of items after another, or the rest of one.     *)
Apart(p, q) ==
  /\ ~Initializing(q) /\ \A j \in 1 .. Len(q) : q[j].op \notin {"detour", "mark"}
  /\ \A i \in 1 .. Len(p), j \in 1 .. Len(q) :
       p[i].op \in {"demand", "attach", "detour", "mark"} /\ q[j].op = "set" => p[i].at # q[j].at

Joins(r, p, q) ==
  /\ Initializing(r) => Initializing(p) \/ Initializing(q)
  /\ \A i \in 1 .. Len(r) :
       (\E j \in 1 .. Len(p) : r[i] = p[j]) \/ (\E j \in 1 .. Len(q) : r[i] = q[j])

LEMMA LoaderConcat ==
  ASSUME NEW p, LoaderSeq(p), NEW q, LoaderSeq(q), NEW r, r = p \o q, Apart(p, q)
  PROVE  LoaderSeq(r) /\ Joins(r, p, q)
<1> DEFINE n == Len(p)
<1>1. p \in Seq(LoaderItem) /\ q \in Seq(LoaderItem) /\ n \in Nat /\ Len(q) \in Nat
  BY DEF LoaderSeq
<1>2. /\ r \in Seq(LoaderItem) /\ Len(r) = n + Len(q)
      /\ \A i \in 1 .. n + Len(q) : r[i] = IF i <= n THEN p[i] ELSE q[i - n]
  BY <1>1, ConcatProperties
<1> HIDE DEF n
<1>3. ASSUME NEW i \in 1 .. Len(r)
      PROVE  \/ i \in 1 .. n /\ r[i] = p[i]
             \/ i \notin 1 .. n /\ i - n \in 1 .. Len(q) /\ r[i] = q[i - n]
  BY <1>1, <1>2
<1>4. ASSUME NEW i \in 1 .. n PROVE i \in 1 .. Len(r) /\ r[i] = p[i]
  BY <1>1, <1>2
<1>5. ASSUME NEW i \in 1 .. Len(q) PROVE i + n \in 1 .. Len(r) /\ r[i + n] = q[i]
  <2> DEFINE m == i + n
  <2>1. m \in 1 .. Len(r) /\ ~(m <= n) /\ m - n = i
    BY <1>1, <1>2
  <2> HIDE DEF m
  <2>2. r[m] = q[i]
    BY <2>1, <1>2
  <2> QED  BY <2>1, <2>2 DEF m
<1>6. Follows(r)
  <2> SUFFICES ASSUME NEW i \in 1 .. Len(r), r[i].op \in {"begin", "init", "attach", "detour", "mark", "detach"}
               PROVE  i + 1 \in 1 .. Len(r) /\ r[i + 1].op \in TransOps
    BY DEF Follows
  <2>1. CASE i \in 1 .. n /\ r[i] = p[i]
    <3>1. i + 1 \in 1 .. n /\ p[i + 1].op \in TransOps
      BY <2>1 DEF LoaderSeq, Follows, n
    <3> QED  BY <3>1, <1>4
  <2>2. CASE i \notin 1 .. n /\ i - n \in 1 .. Len(q) /\ r[i] = q[i - n]
    <3>1. i - n + 1 \in 1 .. Len(q) /\ q[i - n + 1].op \in TransOps
      BY <2>2 DEF LoaderSeq, Follows
    <3>2. i - n + 1 + n \in 1 .. Len(r) /\ r[i - n + 1 + n] = q[i - n + 1]
      BY <3>1, <1>5
    <3>3. i - n + 1 + n = i + 1
      BY <1>1
    <3> QED  BY <3>1, <3>2, <3>3
  <2> QED  BY <2>1, <2>2, <1>3
<1>7. SetBefore(r)
  <2> SUFFICES ASSUME NEW i \in 1 .. Len(r), NEW j \in 1 .. Len(r),
                      r[i].op \in {"demand", "attach", "detour", "mark"}, r[j].op = "set", r[i].at = r[j].at
               PROVE  j < i
    BY DEF SetBefore
  <2>1. CASE i \in 1 .. n /\ j \in 1 .. n
    <3>1. r[i] = p[i] /\ r[j] = p[j]
      BY <2>1, <1>4
    <3> QED  BY <2>1, <3>1 DEF LoaderSeq, SetBefore, n
  <2>2. CASE i \notin 1 .. n /\ j \notin 1 .. n
    <3>1. /\ i - n \in 1 .. Len(q) /\ r[i] = q[i - n]
          /\ j - n \in 1 .. Len(q) /\ r[j] = q[j - n]
      BY <2>2, <1>3
    <3>2. j - n < i - n
      BY <3>1 DEF LoaderSeq, SetBefore
    <3> QED  BY <3>2, <1>1
  <2>3. CASE i \in 1 .. n /\ j \notin 1 .. n
    <3>1. r[i] = p[i] /\ j - n \in 1 .. Len(q) /\ r[j] = q[j - n]
      BY <2>3, <1>3
    <3> QED  BY <2>3, <3>1 DEF Apart, n
  <2>4. CASE i \notin 1 .. n /\ j \in 1 .. n
    BY <2>4, <1>1
  <2> QED  BY <2>1, <2>2, <2>3, <2>4
<1>8. ASSUME NEW s, InitEnds(s), NEW i \in 1 .. Len(s), s[i].op \in {"init", "hook_init"}
      PROVE  Initializing(s)
  BY <1>8 DEF InitEnds, Initializing
<1>9. InitOnce(r)
  <2> SUFFICES ASSUME NEW i \in 1 .. Len(r), NEW j \in 1 .. Len(r),
                      r[i].op \in {"init", "hook_init"}, r[j] = r[i]
               PROVE  i = j
    BY DEF InitOnce
  <2>1. CASE i \in 1 .. n /\ j \in 1 .. n
    <3>1. r[i] = p[i] /\ r[j] = p[j]
      BY <2>1, <1>4
    <3> QED  BY <2>1, <3>1 DEF LoaderSeq, InitOnce, n
  <2>2. CASE i \notin 1 .. n /\ j \notin 1 .. n
    <3>1. /\ i - n \in 1 .. Len(q) /\ r[i] = q[i - n]
          /\ j - n \in 1 .. Len(q) /\ r[j] = q[j - n]
      BY <2>2, <1>3
    <3>2. i - n = j - n
      BY <3>1 DEF LoaderSeq, InitOnce
    <3> QED  BY <3>2, <1>1
  <2>3. ASSUME NEW a \in 1 .. n, NEW b \in 1 .. Len(q),
               p[a].op \in {"init", "hook_init"}, q[b].op \in {"init", "hook_init"}
        PROVE  FALSE
    <3>1. Initializing(q)
      BY <2>3, <1>8 DEF LoaderSeq
    <3> QED  BY <3>1 DEF Apart
  <2>4. CASE i \in 1 .. n /\ j \notin 1 .. n
    BY <2>3, <2>4, <1>3
  <2>5. CASE i \notin 1 .. n /\ j \in 1 .. n
    BY <2>3, <2>5, <1>3
  <2> QED  BY <2>1, <2>2, <2>4, <2>5
<1>10. InitEnds(r)
  <2> SUFFICES ASSUME NEW i \in 1 .. Len(r), r[i].op = "init"
               PROVE  \E j \in 1 .. Len(r) : i < j /\ r[j].op = "hook_init"
    BY DEF InitEnds
  <2>1. CASE i \in 1 .. n /\ r[i] = p[i]
    <3>1. PICK j \in 1 .. n : i < j /\ p[j].op = "hook_init"
      BY <2>1 DEF LoaderSeq, InitEnds, n
    <3> QED  BY <3>1, <1>4
  <2>2. CASE i \notin 1 .. n /\ i - n \in 1 .. Len(q) /\ r[i] = q[i - n]
    <3>1. PICK j \in 1 .. Len(q) : i - n < j /\ q[j].op = "hook_init"
      BY <2>2 DEF LoaderSeq, InitEnds
    <3>2. i < j + n
      BY <3>1, <1>1
    <3> QED  BY <3>1, <3>2, <1>5
  <2> QED  BY <2>1, <2>2, <1>3
<1>11. \A i \in 1 .. Len(r) :
           (\E j \in 1 .. n : r[i] = p[j]) \/ (\E j \in 1 .. Len(q) : r[i] = q[j])
  BY <1>3
<1>12. Initializing(r) => Initializing(p) \/ Initializing(q)
  BY <1>11 DEF Initializing, n
<1>13. InitFirst(r)
  <2> SUFFICES ASSUME NEW i \in 1 .. Len(r), NEW j \in 1 .. Len(r),
                      r[i].op = "hook_init", j < i
               PROVE  r[j].op \in {"begin", "init"}
    BY DEF InitFirst
  <2>1. i \in 1 .. n
    <3> SUFFICES ASSUME i \notin 1 .. n PROVE FALSE
      OBVIOUS
    <3>1. i - n \in 1 .. Len(q) /\ q[i - n].op = "hook_init"
      BY <1>3
    <3> QED  BY <3>1 DEF Apart, Initializing
  <2>2. j \in 1 .. n
    BY <2>1, <1>1
  <2>3. r[i] = p[i] /\ r[j] = p[j]
    BY <2>1, <2>2, <1>4
  <2> QED  BY <2>1, <2>2, <2>3 DEF LoaderSeq, InitFirst, n
<1>14. HeadFirst(r)
  <2> SUFFICES ASSUME NEW i \in 1 .. Len(r), r[i].op \in {"detour", "mark"} PROVE i = 1
    BY DEF HeadFirst
  <2>1. CASE i \in 1 .. n /\ r[i] = p[i]
    BY <2>1 DEF LoaderSeq, HeadFirst, n
  <2>2. CASE i \notin 1 .. n /\ i - n \in 1 .. Len(q) /\ r[i] = q[i - n]
    BY <2>2 DEF Apart
  <2> QED  BY <2>1, <2>2, <1>3
<1> QED
  BY <1>2, <1>6, <1>7, <1>9, <1>10, <1>11, <1>12, <1>13, <1>14 DEF LoaderSeq, Joins, n

LEMMA LoaderTail ==
  ASSUME NEW s, LoaderSeq(s), s # <<>>
  PROVE  /\ LoaderSeq(Tail(s))
         /\ Initializing(Tail(s)) => Initializing(s)
         /\ s[1].op = "hook_init" => ~Initializing(Tail(s)) /\ Initializing(s)
         /\ s[1].op # "hook_init" /\ Initializing(s) =>
              Initializing(Tail(s)) /\ s[1].op \in {"begin", "init"}
         /\ s[1].op = "init" => Initializing(s)
<1> DEFINE r == Tail(s)
<1>1. /\ s \in Seq(LoaderItem) /\ r \in Seq(LoaderItem)
      /\ Len(s) \in Nat \ {0} /\ Len(r) = Len(s) - 1
      /\ \A i \in 1 .. Len(s) - 1 : r[i] = s[i + 1]
  BY TailFacts DEF LoaderSeq
<1>2. \A i \in 1 .. Len(r) : i + 1 \in 1 .. Len(s) /\ r[i] = s[i + 1]
  BY <1>1
<1>3. \A i \in 1 .. Len(s) : i # 1 => i - 1 \in 1 .. Len(r) /\ r[i - 1] = s[i]
  BY <1>1
<1> HIDE DEF r
<1>4. Follows(r)
  <2> SUFFICES ASSUME NEW i \in 1 .. Len(r),
                      r[i].op \in {"begin", "init", "attach", "detour", "mark", "detach"}
               PROVE  i + 1 \in 1 .. Len(r) /\ r[i + 1].op \in TransOps
    BY DEF Follows
  <2>1. i + 1 \in 1 .. Len(s) /\ r[i] = s[i + 1]
    BY <1>2
  <2>2. i + 1 + 1 \in 1 .. Len(s) /\ s[i + 1 + 1].op \in TransOps
    BY <2>1 DEF LoaderSeq, Follows
  <2>3. i + 1 \in 1 .. Len(r)
    BY <2>2, <1>1
  <2> QED  BY <2>2, <2>3, <1>2
<1>5. ASSUME NEW i \in 1 .. Len(r), NEW j \in 1 .. Len(r)
      PROVE  /\ r[i].op \in {"demand", "attach", "detour", "mark"} /\ r[j].op = "set" /\ r[i].at = r[j].at => j < i
             /\ r[i].op \in {"init", "hook_init"} /\ r[j] = r[i] => i = j
  <2>1. /\ i + 1 \in 1 .. Len(s) /\ r[i] = s[i + 1]
        /\ j + 1 \in 1 .. Len(s) /\ r[j] = s[j + 1]
    BY <1>2
  <2>2. r[i].op \in {"demand", "attach", "detour", "mark"} /\ r[j].op = "set" /\ r[i].at = r[j].at => j + 1 < i + 1
    BY <2>1 DEF LoaderSeq, SetBefore
  <2>3. r[i].op \in {"init", "hook_init"} /\ r[j] = r[i] => i + 1 = j + 1
    BY <2>1 DEF LoaderSeq, InitOnce
  <2> QED  BY <2>2, <2>3
<1>6. SetBefore(r) /\ InitOnce(r)
  BY <1>5 DEF SetBefore, InitOnce
<1>7. InitEnds(r)
  <2> SUFFICES ASSUME NEW i \in 1 .. Len(r), r[i].op = "init"
               PROVE  \E j \in 1 .. Len(r) : i < j /\ r[j].op = "hook_init"
    BY DEF InitEnds
  <2>1. PICK j \in 1 .. Len(s) : i + 1 < j /\ s[j].op = "hook_init"
    BY <1>2 DEF LoaderSeq, InitEnds
  <2>2. j - 1 \in 1 .. Len(r) /\ i < j - 1 /\ r[j - 1] = s[j]
    BY <2>1, <1>3
  <2> QED  BY <2>1, <2>2
<1>8. Initializing(r) => Initializing(s)
  BY <1>2 DEF Initializing
<1>9. ASSUME s[1].op = "hook_init", NEW i \in 1 .. Len(r), r[i].op = "hook_init" PROVE FALSE
  <2>1. s[i + 1] \in LoaderItem /\ s[1] \in LoaderItem
    BY <1>1, <1>2
  <2>2. s[i + 1].op = "hook_init" /\ s[1].op = "hook_init"
    BY <1>2, <1>9
  <2>3. ASSUME NEW x \in LoaderItem, x.op = "hook_init"
        PROVE  x = [op |-> "hook_init", at |-> "hook_init"]
    BY <2>3 DEF LoaderItem, Kind
  <2>4. s[i + 1] = s[1]
    BY <2>1, <2>2, <2>3
  <2>5. 1 \in 1 .. Len(s) /\ i + 1 \in 1 .. Len(s)
    BY <1>1, <1>2
  <2>6. 1 = i + 1
    BY <1>9, <2>4, <2>5 DEF LoaderSeq, InitOnce
  <2> QED  BY <2>6
<1>10. InitFirst(r)
  <2> SUFFICES ASSUME NEW i \in 1 .. Len(r), NEW j \in 1 .. Len(r),
                      r[i].op = "hook_init", j < i
               PROVE  r[j].op \in {"begin", "init"}
    BY DEF InitFirst
  <2>1. /\ i + 1 \in 1 .. Len(s) /\ r[i] = s[i + 1]
        /\ j + 1 \in 1 .. Len(s) /\ r[j] = s[j + 1] /\ j + 1 < i + 1
    BY <1>2
  <2> QED  BY <2>1 DEF LoaderSeq, InitFirst
<1>11. ASSUME s[1].op # "hook_init", NEW i \in 1 .. Len(s), s[i].op = "hook_init"
       PROVE  Initializing(r) /\ s[1].op \in {"begin", "init"}
  <2>1. i # 1 /\ 1 \in 1 .. Len(s) /\ 1 < i
    BY <1>11, <1>1
  <2>2. s[1].op \in {"begin", "init"}
    BY <1>11, <2>1 DEF LoaderSeq, InitFirst
  <2>3. i - 1 \in 1 .. Len(r) /\ r[i - 1] = s[i]
    BY <2>1, <1>3
  <2> QED  BY <1>11, <2>2, <2>3 DEF Initializing
<1>12. s[1].op \in {"init", "hook_init"} => Initializing(s)
  BY <1>1 DEF LoaderSeq, InitEnds, Initializing
<1>16. HeadFirst(r)
  <2> SUFFICES ASSUME NEW i \in 1 .. Len(r), r[i].op \in {"detour", "mark"} PROVE FALSE
    BY DEF HeadFirst
  <2>1. i + 1 \in 1 .. Len(s) /\ s[i + 1].op \in {"detour", "mark"} /\ i + 1 # 1
    BY <1>2
  <2> QED  BY <2>1 DEF LoaderSeq, HeadFirst
<1>13. LoaderSeq(r)
  BY <1>1, <1>4, <1>6, <1>7, <1>10, <1>16 DEF LoaderSeq
<1>14. s[1].op = "hook_init" => ~Initializing(r)
  BY <1>9 DEF Initializing
<1>15. s[1].op # "hook_init" /\ Initializing(s) => Initializing(r) /\ s[1].op \in {"begin", "init"}
  BY <1>11 DEF Initializing
<1> QED
  BY <1>8, <1>12, <1>13, <1>14, <1>15 DEF r

(* HookD2DDll and HookFontCreation set every ORIG_X before they attach any. *)
LEMMA LibraryFacts ==
  ASSUME NEW S \in SUBSET Manual, NEW names \in Seq(S)
  PROVE  /\ LoaderSeq(HookLibrary(names)) /\ ~Initializing(HookLibrary(names))
         /\ \A i \in 1 .. Len(HookLibrary(names)) :
              /\ HookLibrary(names)[i].op \in {"set", "demand"}
              /\ HookLibrary(names)[i].at \in S
<1>1. ASSUME NEW op \in {"set", "demand"}, NEW p, p = Items(op, names)
      PROVE  /\ LoaderSeq(p) /\ ~Initializing(p)
             /\ \A i \in 1 .. Len(p) : p[i].op = op /\ p[i].at \in S
  <2>1. p \in Seq(Kind({op}, S))
    BY <1>1, ItemsFacts
  <2>2. Kind({op}, S) \subseteq LoaderItem
    BY <1>1 DEF LoaderItem, Kind
  <2>3. p \in Seq(LoaderItem)
    BY <2>1, <2>2, SeqMonotonic
  <2>4. \A i \in 1 .. Len(p) : p[i] \in Kind({op}, S)
    BY <2>1
  <2>5. \A i \in 1 .. Len(p) : p[i].op = op /\ p[i].at \in S
    BY <2>4 DEF Kind
  <2>6. op \notin {"begin", "init", "attach", "detour", "mark", "detach", "hook_init"}
    BY <1>1
  <2>7. ~Initializing(p) /\ Follows(p) /\ InitOnce(p) /\ InitEnds(p) /\ InitFirst(p)
    BY <2>5, <2>6 DEF Initializing, Follows, InitOnce, InitEnds, InitFirst
  <2>8. SetBefore(p) /\ HeadFirst(p)
    BY <2>5, <2>6, <1>1 DEF SetBefore, HeadFirst
  <2> QED  BY <2>3, <2>5, <2>7, <2>8 DEF LoaderSeq
<1> DEFINE sets == Items("set", names)
           demands == Items("demand", names)
           library == HookLibrary(names)
<1>2. /\ LoaderSeq(sets) /\ ~Initializing(sets)
      /\ \A i \in 1 .. Len(sets) : sets[i].op = "set" /\ sets[i].at \in S
  BY <1>1
<1>3. /\ LoaderSeq(demands) /\ ~Initializing(demands)
      /\ \A i \in 1 .. Len(demands) : demands[i].op = "demand" /\ demands[i].at \in S
  BY <1>1
<1>4. library = sets \o demands
  BY DEF HookLibrary
<1> HIDE DEF sets, demands, library
<1>5. Apart(sets, demands)
  <2>1. ASSUME NEW j \in 1 .. Len(demands) PROVE demands[j].op \notin {"detour", "mark"}
    BY <1>3
  <2> QED  BY <1>2, <1>3, <2>1 DEF Apart
<1>6. LoaderSeq(library) /\ Joins(library, sets, demands)
  BY <1>2, <1>3, <1>4, <1>5, LoaderConcat
<1>7. \A i \in 1 .. Len(library) : library[i].op \in {"set", "demand"} /\ library[i].at \in S
  BY <1>2, <1>3, <1>6 DEF Joins
<1> QED
  BY <1>2, <1>3, <1>6, <1>7 DEF library, Joins

(* hook_init: one transaction for the functions of GDI.                     *)
LEMMA InitFacts ==
  ASSUME NEW p, p = Item("begin", "hook_init") \o Items("init", Gdi)
                      \o Item("hook_init", "hook_init")
  PROVE  /\ LoaderSeq(p)
         /\ \A i \in 1 .. Len(p) : p[i].op \in {"begin", "init", "hook_init"}
<1> DEFINE b == [op |-> "begin", at |-> "hook_init"]
           x == [op |-> "init", at |-> "TextOutW"]
           y == [op |-> "init", at |-> "ExtTextOutW"]
           e == [op |-> "hook_init", at |-> "hook_init"]
<1>1. p = <<b>> \o <<x, y>> \o <<e>>
  BY ItemFacts, PairFacts, Zenon DEF Gdi
<1>2. b \in LoaderItem /\ x \in LoaderItem /\ y \in LoaderItem /\ e \in LoaderItem
  BY DEF LoaderItem, Kind, GdiFunctions
<1>3. b.op = "begin" /\ x.op = "init" /\ y.op = "init" /\ x # y /\ e.op = "hook_init"
  <2>1. x.at # y.at
    OBVIOUS
  <2> QED  BY <2>1
<1> HIDE DEF b, x, y, e
<1>4. p = <<b, x, y, e>>
  <2>1. <<b>> \o <<x, y>> = <<b, x, y>> /\ <<b, x, y>> \o <<e>> = <<b, x, y, e>>
    BY OneAndTwo, ThreeAndOne
  <2> QED  BY <1>1, <2>1
<1>5. p \in Seq(LoaderItem) /\ Len(p) = 4 /\ p[1] = b /\ p[2] = x /\ p[3] = y /\ p[4] = e
  <2> DEFINE w == <<b, x, y, e>>
  <2>1. w \in Seq(LoaderItem) /\ Len(w) = 4 /\ w[1] = b /\ w[2] = x /\ w[3] = y /\ w[4] = e
    BY <1>2
  <2>2. p = w
    BY <1>4
  <2> QED  BY <2>1, <2>2
<1>6. /\ p[1].op = "begin" /\ p[2].op = "init" /\ p[3].op = "init" /\ p[2] # p[3]
      /\ p[4].op = "hook_init"
  BY <1>3, <1>5
<1>7. \A i \in 1 .. Len(p) : i = 1 \/ i = 2 \/ i = 3 \/ i = 4
  <2>1. Len(p) = 4
    BY <1>5
  <2> QED  BY <2>1
<1>8. ASSUME NEW i \in 1 .. Len(p)
      PROVE  /\ p[i].op \in {"begin", "init", "hook_init"}
             /\ p[i].op = "begin" => i = 1
             /\ p[i].op = "init" => i \in {2, 3}
             /\ p[i].op = "hook_init" => i = 4
  <2>1. CASE i = 1
    BY <2>1, <1>6
  <2>2. CASE i = 2
    BY <2>2, <1>6
  <2>3. CASE i = 3
    BY <2>3, <1>6
  <2>4. CASE i = 4
    BY <2>4, <1>6
  <2> QED  BY <1>7, <2>1, <2>2, <2>3, <2>4
<1>9. Follows(p)
  <2> SUFFICES ASSUME NEW i \in 1 .. Len(p), p[i].op \in {"begin", "init", "attach", "detour", "mark", "detach"}
               PROVE  i + 1 \in 1 .. Len(p) /\ p[i + 1].op \in TransOps
    BY DEF Follows
  <2>1. i \in {1, 2, 3}
    BY <1>8
  <2>2. i + 1 \in 1 .. Len(p) /\ i + 1 \in {2, 3, 4}
    BY <2>1, <1>5
  <2>3. p[i + 1].op \in {"init", "hook_init"}
    BY <2>2, <1>6
  <2> QED  BY <2>2, <2>3 DEF TransOps
<1>10. SetBefore(p)
  <2>1. \A i \in 1 .. Len(p) : p[i].op # "set"
    <3> SUFFICES ASSUME NEW i \in 1 .. Len(p) PROVE p[i].op # "set"
      OBVIOUS
    <3>1. p[i].op \in {"begin", "init", "hook_init"}
      BY <1>8
    <3> QED  BY <3>1
  <2> QED  BY <2>1 DEF SetBefore
<1>11. InitOnce(p)
  <2> SUFFICES ASSUME NEW i \in 1 .. Len(p), NEW j \in 1 .. Len(p),
                      p[i].op \in {"init", "hook_init"}, p[j] = p[i]
               PROVE  i = j
    BY DEF InitOnce
  <2>1. CASE p[i].op = "hook_init"
    <3>1. i = 4 /\ j = 4
      BY <2>1, <1>8
    <3> QED  BY <3>1
  <2>2. CASE p[i].op = "init"
    <3>1. i \in {2, 3} /\ j \in {2, 3}
      BY <2>2, <1>8
    <3> QED  BY <3>1, <1>6
  <2> QED  BY <2>1, <2>2
<1>12. InitEnds(p)
  <2> SUFFICES ASSUME NEW i \in 1 .. Len(p), p[i].op = "init"
               PROVE  \E j \in 1 .. Len(p) : i < j /\ p[j].op = "hook_init"
    BY DEF InitEnds
  <2>1. i < 4 /\ 4 \in 1 .. Len(p) /\ p[4].op = "hook_init"
    <3>1. i \in {2, 3}
      BY <1>8
    <3> QED  BY <3>1, <1>5, <1>6
  <2> QED  BY <2>1
<1>13. InitFirst(p)
  <2> SUFFICES ASSUME NEW i \in 1 .. Len(p), NEW j \in 1 .. Len(p),
                      p[i].op = "hook_init", j < i
               PROVE  p[j].op \in {"begin", "init"}
    BY DEF InitFirst
  <2>1. i = 4
    BY <1>8
  <2>2. j # 4
    BY <2>1
  <2> QED  BY <2>2, <1>8
<1>14. HeadFirst(p)
  <2> SUFFICES ASSUME NEW i \in 1 .. Len(p), p[i].op \in {"detour", "mark"} PROVE FALSE
    BY DEF HeadFirst
  <2>1. p[i].op \in {"begin", "init", "hook_init"}
    BY <1>8
  <2> QED  BY <2>1
<1> QED
  BY <1>5, <1>8, <1>9, <1>10, <1>11, <1>12, <1>13, <1>14 DEF LoaderSeq

LEMMA AttachingFacts ==
  /\ LoaderSeq(Attaching)
  /\ \A i \in 1 .. Len(Attaching) :
       Attaching[i].op \in {"begin", "init", "hook_init", "set", "demand"}
<1> DEFINE start == Item("begin", "hook_init") \o Items("init", Gdi)
                      \o Item("hook_init", "hook_init")
           exports == HookLibrary(Exports)
           fonts == HookLibrary(FontFunctions)
           first == start \o exports
           all == first \o fonts
           E == {"DWriteCreateFactory", "D2D1CreateFactory", "D2D1CreateDevice",
                 "D2D1CreateDeviceContext"}
           F == {"CreateFontIndirectExW", "CreateFontIndirectW"}
<1>1. Attaching = all
  BY DEF Attaching
<1>2. /\ LoaderSeq(start)
      /\ \A i \in 1 .. Len(start) : start[i].op \in {"begin", "init", "hook_init"}
  BY InitFacts
<1>3. /\ LoaderSeq(exports) /\ ~Initializing(exports)
      /\ \A i \in 1 .. Len(exports) : exports[i].op \in {"set", "demand"} /\ exports[i].at \in E
  <2>1. E \in SUBSET Manual /\ Exports \in Seq(E)
    BY DEF Manual, Exports
  <2> HIDE DEF E
  <2> QED  BY <2>1, LibraryFacts
<1>4. /\ LoaderSeq(fonts) /\ ~Initializing(fonts)
      /\ \A i \in 1 .. Len(fonts) : fonts[i].op \in {"set", "demand"} /\ fonts[i].at \in F
  <2>1. F \in SUBSET Manual /\ FontFunctions \in Seq(F)
    BY DEF Manual, FontFunctions
  <2> HIDE DEF F
  <2> QED  BY <2>1, LibraryFacts
<1>5. E \cap F = {}
  OBVIOUS
<1>6. first = start \o exports /\ all = first \o fonts
  OBVIOUS
<1> HIDE DEF start, exports, fonts, first, all, E, F
<1>7. Apart(start, exports)
  <2>1. ASSUME NEW i \in 1 .. Len(start) PROVE start[i].op \notin {"demand", "attach", "detour", "mark"}
    <3>1. start[i].op \in {"begin", "init", "hook_init"}
      BY <1>2
    <3> QED  BY <3>1
  <2>2. ASSUME NEW j \in 1 .. Len(exports) PROVE exports[j].op \notin {"detour", "mark"}
    <3>1. exports[j].op \in {"set", "demand"}
      BY <1>3
    <3> QED  BY <3>1
  <2> QED  BY <1>3, <2>1, <2>2 DEF Apart
<1>8. LoaderSeq(first) /\ Joins(first, start, exports)
  BY <1>2, <1>3, <1>6, <1>7, LoaderConcat
<1>9. ASSUME NEW i \in 1 .. Len(first)
      PROVE  /\ first[i].op \in {"begin", "init", "hook_init", "set", "demand"}
             /\ first[i].op \in {"demand", "attach", "detour", "mark"} => first[i].at \in E
  <2>1. CASE \E j \in 1 .. Len(start) : first[i] = start[j]
    <3>1. first[i].op \in {"begin", "init", "hook_init"}
      BY <2>1, <1>2
    <3> QED  BY <3>1
  <2>2. CASE \E j \in 1 .. Len(exports) : first[i] = exports[j]
    BY <2>2, <1>3
  <2> QED  BY <1>8, <2>1, <2>2 DEF Joins
<1>10. Apart(first, fonts)
  <2>1. ASSUME NEW j \in 1 .. Len(fonts) PROVE fonts[j].op \notin {"detour", "mark"}
    <3>1. fonts[j].op \in {"set", "demand"}
      BY <1>4
    <3> QED  BY <3>1
  <2> QED  BY <1>4, <1>5, <1>9, <2>1 DEF Apart
<1>11. LoaderSeq(all) /\ Joins(all, first, fonts)
  BY <1>4, <1>6, <1>8, <1>10, LoaderConcat
<1>12. \A i \in 1 .. Len(all) : all[i].op \in {"begin", "init", "hook_init", "set", "demand"}
  BY <1>4, <1>9, <1>11 DEF Joins
<1> QED
  BY <1>1, <1>11, <1>12

(* hook_demand of an export, which is set already.                          *)
LEMMA LoaderDemand ==
  ASSUME NEW s, LoaderSeq(s), s # <<>>, s[1].op = "demand", NEW f, f = s[1].at,
         NEW new, new = Demand(f) \o Tail(s)
  PROVE  /\ LoaderSeq(new) /\ ~Initializing(new) /\ ~Initializing(s)
         /\ \A i \in 1 .. Len(new) :
              \/ new[i].op \in {"begin", "attach", "commit"} /\ new[i].at = f
              \/ \E j \in 1 .. Len(s) : new[i] = s[j]
<1>1. /\ s \in Seq(LoaderItem) /\ Len(s) \in Nat \ {0} /\ f \in Manual
      /\ \A j \in 1 .. Len(s) : s[j].op = "set" => s[j].at # f
  <2>1. s \in Seq(LoaderItem) /\ Len(s) \in Nat \ {0}
    BY EmptySeq DEF LoaderSeq
  <2>2. s[1] \in LoaderItem
    BY <2>1
  <2>3. f \in Manual
    BY <2>2 DEF LoaderItem, Kind
  <2> QED  BY <2>1, <2>3 DEF LoaderSeq, SetBefore
<1> DEFINE rest == Tail(s)
           b == [op |-> "begin", at |-> f]
           a == [op |-> "attach", at |-> f]
           c == [op |-> "commit", at |-> f]
           three == <<b, a, c>>
<1>2. /\ LoaderSeq(rest) /\ ~Initializing(rest) /\ ~Initializing(s)
      /\ \A i \in 1 .. Len(rest) : i + 1 \in 1 .. Len(s) /\ rest[i] = s[i + 1]
  <2>1. /\ LoaderSeq(rest) /\ (Initializing(rest) => Initializing(s))
        /\ Initializing(s) => s[1].op \in {"begin", "init"}
    BY LoaderTail
  <2>2. ~Initializing(s)
    BY <2>1
  <2> QED  BY <1>1, <2>1, <2>2, TailFacts
<1>3. new = three \o rest
  BY DemandFacts
<1>4. /\ b \in LoaderItem /\ a \in LoaderItem /\ c \in LoaderItem
      /\ b.op = "begin" /\ a.op = "attach" /\ c.op = "commit" /\ b.at = f /\ a.at = f /\ c.at = f
  BY <1>1 DEF LoaderItem, Kind
<1> HIDE DEF rest, b, a, c
<1>5. three \in Seq(LoaderItem) /\ Len(three) = 3 /\ three[1] = b /\ three[2] = a /\ three[3] = c
  BY <1>4
<1> HIDE DEF three
<1>6. ASSUME NEW i \in 1 .. Len(three)
      PROVE  /\ three[i].op \in {"begin", "attach", "commit"} /\ three[i].at = f
             /\ three[i].op \in {"begin", "attach"} =>
                  i + 1 \in 1 .. Len(three) /\ three[i + 1].op \in {"attach", "commit"}
  <2>1. i = 1 \/ i = 2 \/ i = 3
    BY <1>5
  <2>2. CASE i = 1
    BY <2>2, <1>4, <1>5
  <2>3. CASE i = 2
    BY <2>3, <1>4, <1>5
  <2>4. CASE i = 3
    BY <2>4, <1>4, <1>5
  <2> QED  BY <2>1, <2>2, <2>3, <2>4
<1>7. \A i \in 1 .. Len(three) : three[i].op \notin
                                      {"init", "hook_init", "set", "detach", "demand", "detour", "mark"}
  <2> SUFFICES ASSUME NEW i \in 1 .. Len(three)
               PROVE  three[i].op \notin
                                      {"init", "hook_init", "set", "detach", "demand", "detour", "mark"}
    OBVIOUS
  <2>1. three[i].op \in {"begin", "attach", "commit"}
    BY <1>6
  <2> QED  BY <2>1
<1>8. Follows(three)
  BY <1>6, <1>7 DEF Follows, TransOps
<1>9. /\ SetBefore(three) /\ InitOnce(three) /\ InitEnds(three) /\ InitFirst(three)
      /\ HeadFirst(three) /\ ~Initializing(three)
  BY <1>7 DEF SetBefore, HeadFirst, InitOnce, InitEnds, InitFirst, Initializing
<1>10. Apart(three, rest)
  <2>1. ASSUME NEW j \in 1 .. Len(rest), rest[j].op = "set" PROVE rest[j].at # f
    BY <1>1, <1>2, <2>1
  <2>2. ASSUME NEW j \in 1 .. Len(rest), rest[j].op \in {"detour", "mark"} PROVE FALSE
    <3>1. j + 1 \in 1 .. Len(s) /\ s[j + 1].op \in {"detour", "mark"} /\ j + 1 # 1
      BY <1>2, <2>2
    <3> QED  BY <3>1 DEF LoaderSeq, HeadFirst
  <2> QED  BY <1>2, <1>6, <2>1, <2>2 DEF Apart
<1>11. LoaderSeq(three)
  BY <1>5, <1>8, <1>9 DEF LoaderSeq
<1>12. LoaderSeq(new) /\ Joins(new, three, rest)
  BY <1>2, <1>3, <1>10, <1>11, LoaderConcat
<1>13. ~Initializing(new)
  BY <1>2, <1>9, <1>12 DEF Joins
<1>14. ASSUME NEW i \in 1 .. Len(new)
       PROVE  \/ new[i].op \in {"begin", "attach", "commit"} /\ new[i].at = f
              \/ \E j \in 1 .. Len(s) : new[i] = s[j]
  <2>1. CASE \E j \in 1 .. Len(three) : new[i] = three[j]
    BY <2>1, <1>6
  <2>2. CASE \E j \in 1 .. Len(rest) : new[i] = rest[j]
    BY <2>2, <1>2
  <2> QED  BY <1>12, <2>1, <2>2 DEF Joins
<1> QED
  BY <1>2, <1>12, <1>13, <1>14

LEMMA LoaderSwap ==
  ASSUME NEW s, LoaderSeq(s), s # <<>>, s[1].op \in {"attach", "detour"},
         NEW op \in {"detour", "mark"}, NEW q,
         q = <<[op |-> op, at |-> s[1].at]>> \o Tail(s)
  PROVE  LoaderSeq(q) /\ (Initializing(q) => Initializing(s))
<1> DEFINE x == [op |-> op, at |-> s[1].at]
<1>1. s \in Seq(LoaderItem) /\ s[1] \in LoaderItem /\ s[1].at \in Manual
  <2>1. s \in Seq(LoaderItem) /\ s[1] \in LoaderItem
    BY EmptySeq DEF LoaderSeq
  <2> QED  BY <2>1 DEF LoaderItem, Kind
<1>2. x \in LoaderItem
  BY <1>1 DEF LoaderItem, Kind
<1>3. x.op = op /\ x.at = s[1].at
  OBVIOUS
<1> HIDE DEF x
<1>4. /\ q \in Seq(LoaderItem) /\ Len(q) = Len(s) /\ Len(s) \in Nat \ {0} /\ q[1] = x
      /\ \A i \in 1 .. Len(s) : i # 1 => q[i] = s[i]
  <2>1. q = <<x>> \o Tail(s)
    BY DEF x
  <2> QED  BY <1>1, <1>2, <2>1, SwapFacts
<1>5. \A i \in 1 .. Len(s) : q[i].at = s[i].at
  BY <1>3, <1>4
<1>6. \A i \in 1 .. Len(s) :
        \/ q[i] = s[i] /\ i # 1
        \/ i = 1 /\ q[i].op = op /\ s[i].op \in {"attach", "detour"}
  BY <1>3, <1>4
<1>7. Follows(q)
  <2> SUFFICES ASSUME NEW i \in 1 .. Len(q),
                      q[i].op \in {"begin", "init", "attach", "detour", "mark", "detach"}
               PROVE  i + 1 \in 1 .. Len(q) /\ q[i + 1].op \in TransOps
    BY DEF Follows
  <2>1. s[i].op \in {"begin", "init", "attach", "detour", "mark", "detach"}
    BY <1>4, <1>6
  <2>2. i + 1 \in 1 .. Len(s) /\ s[i + 1].op \in TransOps
    BY <1>4, <2>1 DEF LoaderSeq, Follows
  <2>3. q[i + 1] = s[i + 1]
    BY <1>4, <2>2
  <2> QED  BY <1>4, <2>2, <2>3
<1>8. SetBefore(q)
  <2> SUFFICES ASSUME NEW i \in 1 .. Len(q), NEW j \in 1 .. Len(q),
                      q[i].op \in {"demand", "attach", "detour", "mark"},
                      q[j].op = "set", q[i].at = q[j].at
               PROVE  j < i
    BY DEF SetBefore
  <2>1. s[i].op \in {"demand", "attach", "detour", "mark"}
    BY <1>4, <1>6
  <2>2. s[j].op = "set" /\ s[i].at = s[j].at
    BY <1>4, <1>5, <1>6
  <2> QED  BY <1>4, <2>1, <2>2 DEF LoaderSeq, SetBefore
<1>9. \A i \in 1 .. Len(q) : q[i].op \in {"init", "hook_init"} =>
        i \in 1 .. Len(s) /\ i # 1 /\ q[i] = s[i]
  BY <1>4, <1>6
<1>10. InitOnce(q)
  BY <1>9 DEF LoaderSeq, InitOnce
<1>11. InitEnds(q)
  <2> SUFFICES ASSUME NEW i \in 1 .. Len(q), q[i].op = "init"
               PROVE  \E j \in 1 .. Len(q) : i < j /\ q[j].op = "hook_init"
    BY DEF InitEnds
  <2>1. i \in 1 .. Len(s) /\ s[i].op = "init"
    BY <1>9
  <2>2. PICK j \in 1 .. Len(s) : i < j /\ s[j].op = "hook_init"
    BY <2>1 DEF LoaderSeq, InitEnds
  <2>3. j \in 1 .. Len(q) /\ q[j] = s[j]
    BY <1>4, <2>1, <2>2
  <2> QED  BY <2>2, <2>3
<1>12. InitFirst(q)
  <2> SUFFICES ASSUME NEW i \in 1 .. Len(q), NEW j \in 1 .. Len(q),
                      q[i].op = "hook_init", j < i
               PROVE  q[j].op \in {"begin", "init"}
    BY DEF InitFirst
  <2>1. i \in 1 .. Len(s) /\ i # 1 /\ s[i].op = "hook_init"
    BY <1>9
  <2>2. 1 \in 1 .. Len(s) /\ 1 < i
    BY <2>1, <1>4
  <2>3. s[1].op \in {"begin", "init"}
    BY <2>1, <2>2 DEF LoaderSeq, InitFirst
  <2> QED  BY <2>3
<1>13. Initializing(q) => Initializing(s)
  BY <1>9 DEF Initializing
<1>14. HeadFirst(q)
  BY <1>4, <1>6 DEF LoaderSeq, HeadFirst
<1> QED
  BY <1>4, <1>7, <1>8, <1>10, <1>11, <1>12, <1>13, <1>14 DEF LoaderSeq

(* DllMain, called to detach.                                               *)
LEMMA DetachingFacts ==
  /\ Detaching # <<>> /\ Head(Detaching) = [op |-> "begin", at |-> "hook_term"]
  /\ Begun # <<>> /\ Head(Begun) = [op |-> "detach", at |-> "hook_term"]
  /\ Detached # <<>> /\ Head(Detached) = [op |-> "hook_term", at |-> "hook_term"]
  /\ Committed # <<>> /\ Head(Committed) = [op |-> "unmap", at |-> "hook_term"]
  /\ Tail(Detaching) = Begun /\ Tail(Begun) = Detached /\ Tail(Detached) = Committed
  /\ Tail(Committed) = <<>>
  /\ Len(Detaching) = 4 /\ Len(Begun) = 3 /\ Len(Detached) = 2 /\ Len(Committed) = 1
<1> DEFINE b == [op |-> "begin", at |-> "hook_term"]
           d == [op |-> "detach", at |-> "hook_term"]
           h == [op |-> "hook_term", at |-> "hook_term"]
           u == [op |-> "unmap", at |-> "hook_term"]
<1>1. Detaching = <<b>> \o <<d>> \o <<h>> \o <<u>>
  BY ItemFacts, Zenon DEF Detaching
<1>2. Begun = <<d, h, u>> /\ Detached = <<h, u>> /\ Committed = <<u>>
  BY DEF Begun, Detached, Committed
<1> SUFFICES /\ Detaching # <<>> /\ Head(Detaching) = b
             /\ Begun # <<>> /\ Head(Begun) = d
             /\ Detached # <<>> /\ Head(Detached) = h
             /\ Committed # <<>> /\ Head(Committed) = u
             /\ Tail(Detaching) = Begun /\ Tail(Begun) = Detached /\ Tail(Detached) = Committed
             /\ Tail(Committed) = <<>>
             /\ Len(Detaching) = 4 /\ Len(Begun) = 3 /\ Len(Detached) = 2 /\ Len(Committed) = 1
  OBVIOUS
<1> HIDE DEF b, d, h, u
<1>3. Detaching = <<b, d, h, u>>
  <2>1. <<b>> \o <<d>> = <<b, d>> /\ <<b, d>> \o <<h>> = <<b, d, h>>
        /\ <<b, d, h>> \o <<u>> = <<b, d, h, u>>
    BY OneAndOne, TwoAndOne, ThreeAndOne
  <2> QED  BY <1>1, <2>1
<1> QED
  BY <1>2, <1>3

LEMMA DetachingSeq ==
  /\ LoaderSeq(Detaching) /\ ~Initializing(Detaching)
  /\ \A i \in 1 .. Len(Detaching) :
       Detaching[i].op \in {"begin", "detach", "hook_term", "unmap"}
<1> DEFINE b == [op |-> "begin", at |-> "hook_term"]
           d == [op |-> "detach", at |-> "hook_term"]
           h == [op |-> "hook_term", at |-> "hook_term"]
           u == [op |-> "unmap", at |-> "hook_term"]
           s == <<b, d, h, u>>
<1>1. Detaching = s
  <2>1. Detaching = <<b>> \o <<d>> \o <<h>> \o <<u>>
    BY ItemFacts, Zenon DEF Detaching
  <2> HIDE DEF b, d, h, u
  <2>2. <<b>> \o <<d>> = <<b, d>> /\ <<b, d>> \o <<h>> = <<b, d, h>>
        /\ <<b, d, h>> \o <<u>> = <<b, d, h, u>>
    BY OneAndOne, TwoAndOne, ThreeAndOne
  <2> QED  BY <2>1, <2>2
<1>2. b \in LoaderItem /\ d \in LoaderItem /\ h \in LoaderItem /\ u \in LoaderItem
  BY DEF LoaderItem, Kind
<1>3. b.op = "begin" /\ d.op = "detach" /\ h.op = "hook_term" /\ u.op = "unmap"
  OBVIOUS
<1> HIDE DEF b, d, h, u
<1>4. s \in Seq(LoaderItem) /\ Len(s) = 4 /\ s[1] = b /\ s[2] = d /\ s[3] = h /\ s[4] = u
  BY <1>2
<1> HIDE DEF s
<1>5. ASSUME NEW i \in 1 .. Len(s)
      PROVE  /\ s[i].op \in {"begin", "detach", "hook_term", "unmap"}
             /\ s[i].op \in {"begin", "detach"} =>
                  i + 1 \in 1 .. Len(s) /\ s[i + 1].op \in {"detach", "hook_term"}
  <2>1. i = 1 \/ i = 2 \/ i = 3 \/ i = 4
    BY <1>4
  <2>2. CASE i = 1
    BY <2>2, <1>3, <1>4
  <2>3. CASE i = 2
    BY <2>3, <1>3, <1>4
  <2>4. CASE i = 3
    BY <2>4, <1>3, <1>4
  <2>5. CASE i = 4
    BY <2>5, <1>3, <1>4
  <2> QED  BY <2>1, <2>2, <2>3, <2>4, <2>5
<1>6. \A i \in 1 .. Len(s) : s[i].op \notin {"init", "hook_init", "set", "attach", "detour", "mark", "demand"}
  <2> SUFFICES ASSUME NEW i \in 1 .. Len(s)
               PROVE  s[i].op \notin {"init", "hook_init", "set", "attach", "detour", "mark", "demand"}
    OBVIOUS
  <2>1. s[i].op \in {"begin", "detach", "hook_term", "unmap"}
    BY <1>5
  <2> QED  BY <2>1
<1>7. Follows(s)
  BY <1>5, <1>6 DEF Follows, TransOps
<1>8. SetBefore(s) /\ HeadFirst(s) /\ InitOnce(s) /\ InitEnds(s) /\ InitFirst(s)
      /\ ~Initializing(s)
  BY <1>6 DEF SetBefore, HeadFirst, InitOnce, InitEnds, InitFirst, Initializing
<1> QED
  BY <1>1, <1>4, <1>5, <1>7, <1>8 DEF LoaderSeq

-----------------------------------------------------------------------------
(* Who does what.                                                           *)
LEMMA HeadFacts ==
  ASSUME IInv, NEW t \in All, NEW op, At(t, op)
  PROVE  /\ dll # "gone" /\ todo[t] \in Seq(AnItem) /\ todo[t] # <<>> /\ 1 \in 1 .. Len(todo[t])
         /\ todo[t][1].op = op /\ todo[t][1].at = Name(t)
         /\ t \in Threads => todo[t][1] \in ThreadItem /\ ThreadSeq(todo[t])
         /\ t = Loader => todo[t][1] \in LoaderItem /\ LoaderSeq(todo[t])
<1>1. todo[t] \in Seq(AnItem) /\ todo[t] # <<>> /\ Head(todo[t]).op = op
  BY DEF IInv, Orderly, At
<1>2. 1 \in 1 .. Len(todo[t]) /\ Head(todo[t]) = todo[t][1]
  BY <1>1, TailFacts
<1>3. ASSUME t \in Threads PROVE todo[t][1] \in ThreadItem /\ ThreadSeq(todo[t])
  BY <1>2, <1>3 DEF IInv, Orderly, ThreadSeq
<1>4. ASSUME t = Loader PROVE todo[t][1] \in LoaderItem /\ LoaderSeq(todo[t])
  BY <1>2, <1>4 DEF IInv, Orderly, LoaderSeq
<1> QED
  BY <1>1, <1>2, <1>3, <1>4 DEF At, Name

LEMMA WhoFacts ==
  ASSUME IInv, NEW t \in All, NEW op, At(t, op)
  PROVE  /\ op \in {"call", "static", "done", "enter", "leave", "hook"} => t \in Threads
         /\ op \in {"demand", "init", "hook_init", "detach", "hook_term", "unmap"} => t = Loader
         /\ op \in {"static", "done"} => Name(t) \in Statics
         /\ op = "call" => Name(t) \in Called
         /\ t \in Threads /\ op \in {"hook", "set", "attach", "detour", "mark"} => Name(t) \in Methods
         /\ t = Loader /\ op \in {"set", "demand", "attach", "detour", "mark"} => Name(t) \in Manual
         /\ op = "init" => Name(t) \in GdiFunctions
<1>1. /\ todo[t][1].op = op /\ todo[t][1].at = Name(t)
      /\ t \in Threads => todo[t][1] \in ThreadItem
      /\ t = Loader => todo[t][1] \in LoaderItem
  BY HeadFacts
<1>2. t \in Threads \/ t = Loader
  BY DEF All
<1>3. ASSUME t \in Threads
      PROVE  /\ op \in {"call", "static", "done", "enter", "leave", "hook", "set", "begin",
                        "attach", "detour", "mark", "commit"}
             /\ op \in {"static", "done"} => Name(t) \in Statics
             /\ op = "call" => Name(t) \in Called
             /\ op \in {"hook", "set", "attach", "detour", "mark"} => Name(t) \in Methods
  BY <1>1, <1>3 DEF ThreadItem, Kind
<1>4. ASSUME t = Loader
      PROVE  /\ op \in {"set", "demand", "begin", "attach", "detour", "mark", "commit", "init", "hook_init",
                        "detach", "hook_term", "unmap"}
             /\ op \in {"set", "demand", "attach", "detour", "mark"} => Name(t) \in Manual
             /\ op = "init" => Name(t) \in GdiFunctions
  BY <1>1, <1>4 DEF LoaderItem, Kind
<1>5. CASE t \in Threads
  BY <1>3, <1>5, HookInstallAssumption
<1>6. CASE t = Loader
  BY <1>4, <1>6, HookInstallAssumption
<1> QED
  BY <1>2, <1>5, <1>6

LEMMA PhaseFacts ==
  ASSUME IInv, NEW op, At(Loader, op)
  PROVE  /\ dll = "loading" \/ dll = "leaving"
         /\ dll = "leaving" =>
              \/ op = "begin" /\ todo[Loader] = Detaching
              \/ op = "detach" /\ todo[Loader] = Begun
              \/ op = "hook_term" /\ todo[Loader] = Detached
              \/ op = "unmap" /\ todo[Loader] = Committed
         /\ dll = "loading" => op \notin {"detach", "hook_term", "unmap"}
<1>1. dll # "gone" /\ todo[Loader] # <<>> /\ Head(todo[Loader]).op = op
  BY DEF At
<1>2. dll \in {"loading", "loaded", "leaving", "gone"} /\ Phases
  BY DEF IInv, TypeOK
<1>3. dll = "loading" \/ dll = "leaving"
  BY <1>1, <1>2 DEF Phases
<1>4. ASSUME dll = "leaving"
      PROVE  \/ op = "begin" /\ todo[Loader] = Detaching
             \/ op = "detach" /\ todo[Loader] = Begun
             \/ op = "hook_term" /\ todo[Loader] = Detached
             \/ op = "unmap" /\ todo[Loader] = Committed
  <2>1. todo[Loader] \in {Detaching, Begun, Detached, Committed}
    BY <1>2, <1>4 DEF Phases
  <2> QED  BY <1>1, <2>1, DetachingFacts
<1>5. ASSUME dll = "loading" PROVE op \notin {"detach", "hook_term", "unmap"}
  <2>1. 1 \in 1 .. Len(todo[Loader]) /\ todo[Loader][1].op = op
    BY HeadFacts DEF All
  <2> QED  BY <1>2, <1>5, <2>1 DEF Phases
<1> QED
  BY <1>3, <1>4, <1>5

(* One thread goes on with new.                                             *)
LEMMA OneGoes ==
  ASSUME IInv, NEW t \in All, NEW new, todo' = [todo EXCEPT ![t] = new],
         t \in Threads => ThreadSeq(new),
         t = Loader => LoaderSeq(new)
  PROVE  Orderly' /\ todo'[t] = new /\ \A u \in All \ {t} : todo'[u] = todo[u]
<1>1. todo \in [All -> Seq(AnItem)]
  BY DEF IInv, Orderly
<1>2. new \in Seq(AnItem)
  <2>1. ASSUME t \in Threads PROVE new \in Seq(AnItem)
    BY <2>1, SeqMonotonic DEF ThreadSeq, AnItem
  <2>2. ASSUME t = Loader PROVE new \in Seq(AnItem)
    BY <2>2, SeqMonotonic DEF LoaderSeq, AnItem
  <2> QED  BY <2>1, <2>2 DEF All
<1>3. /\ todo' \in [All -> Seq(AnItem)] /\ todo'[t] = new
      /\ \A u \in All \ {t} : todo'[u] = todo[u]
  BY <1>1, <1>2
<1>4. ASSUME NEW u \in Threads PROVE ThreadSeq(todo'[u])
  <2>1. CASE u = t
    BY <2>1, <1>3
  <2>2. CASE u # t
    <3>1. todo'[u] = todo[u]
      BY <2>2, <1>3 DEF All
    <3> QED  BY <3>1 DEF IInv, Orderly
  <2> QED  BY <2>1, <2>2
<1>5. LoaderSeq(todo'[Loader])
  <2>1. CASE Loader = t
    BY <2>1, <1>3
  <2>2. CASE Loader # t
    <3>1. todo'[Loader] = todo[Loader]
      BY <2>2, <1>3 DEF All
    <3> QED  BY <3>1 DEF IInv, Orderly
  <2> QED  BY <2>1, <2>2
<1> QED
  BY <1>3, <1>4, <1>5 DEF Orderly

LEMMA LoaderGoes ==
  ASSUME IInv, NEW new, LoaderSeq(new), todo' = [todo EXCEPT ![Loader] = new], UNCHANGED code
  PROVE  Orderly' /\ Exclusive'
<1>1. Loader \in All /\ Loader \notin Threads
  BY HookInstallAssumption DEF All
<1>2. Orderly' /\ \A u \in All \ {Loader} : todo'[u] = todo[u]
  BY <1>1, OneGoes
<1>3. \A u \in Threads : todo'[u] = todo[u]
  BY <1>1, <1>2 DEF All
<1>4. static' = static /\ section' = section /\ Exclusive
  BY DEF code, IInv
<1> QED
  BY <1>2, <1>3, <1>4 DEF Exclusive

(* A thread that begins no initializer and enters no section.               *)
LEMMA ThreadGoes ==
  ASSUME IInv, NEW t \in Threads, NEW new, ThreadSeq(new), todo' = [todo EXCEPT ![t] = new],
         \A g \in Statics : Finishes(new, g) => Finishes(todo[t], g),
         Inside(new) => Inside(todo[t]),
         UNCHANGED code
  PROVE  Orderly' /\ Exclusive'
<1>1. t \in All /\ t # Loader
  BY HookInstallAssumption DEF All
<1>2. Orderly' /\ todo'[t] = new /\ \A u \in All \ {t} : todo'[u] = todo[u]
  BY <1>1, OneGoes
<1>3. ASSUME NEW u \in Threads
      PROVE  /\ \A g \in Statics : Finishes(todo'[u], g) => Finishes(todo[u], g)
             /\ Inside(todo'[u]) => Inside(todo[u])
  <2>1. CASE u = t
    BY <2>1, <1>2
  <2>2. CASE u # t
    <3>1. todo'[u] = todo[u]
      BY <2>2, <1>2 DEF All
    <3> QED  BY <3>1
  <2> QED  BY <2>1, <2>2
<1>4. static' = static /\ section' = section /\ Exclusive
  BY DEF code, IInv
<1> QED
  BY <1>2, <1>3, <1>4 DEF Exclusive

LEMMA Continues ==
  ASSUME IInv, NEW t \in All, NEW op, At(t, op), Continue(t)
  PROVE  /\ todo' = [todo EXCEPT ![t] = Tail(todo[t])]
         /\ Orderly' /\ todo'[t] = Tail(todo[t]) /\ \A u \in All \ {t} : todo'[u] = todo[u]
         /\ op \notin {"done", "enter", "leave"} /\ UNCHANGED code => Exclusive'
<1>1. /\ todo[t] \in Seq(AnItem) /\ todo[t] # <<>> /\ todo[t][1].op = op
      /\ t \in Threads => ThreadSeq(todo[t])
      /\ t = Loader => LoaderSeq(todo[t])
  BY HeadFacts
<1>2. todo' = [todo EXCEPT ![t] = Tail(todo[t])]
  <2>1. <<>> \o Tail(todo[t]) = Tail(todo[t])
    BY <1>1, TailFacts
  <2>2. todo \in [All -> Seq(AnItem)]
    BY DEF IInv, Orderly
  <2>3. todo' = [todo EXCEPT ![t] = <<>> \o Tail(todo[t])]
    BY <2>2 DEF Continue, Goes
  <2> QED  BY <2>1, <2>3
<1>3. t \in Threads => ThreadSeq(Tail(todo[t]))
  BY <1>1, ThreadTail
<1>4. t = Loader => LoaderSeq(Tail(todo[t]))
  BY <1>1, LoaderTail
<1>5. Orderly' /\ todo'[t] = Tail(todo[t]) /\ \A u \in All \ {t} : todo'[u] = todo[u]
  BY <1>2, <1>3, <1>4, OneGoes
<1>6. ASSUME op \notin {"done", "enter", "leave"}, UNCHANGED code PROVE Exclusive'
  <2>1. CASE t \in Threads
    <3>1. /\ \A g : Finishes(Tail(todo[t]), g) => Finishes(todo[t], g)
          /\ Inside(Tail(todo[t])) => Inside(todo[t])
      BY <1>1, <1>6, <2>1, ThreadTail
    <3> QED  BY <1>2, <1>3, <1>6, <2>1, <3>1, ThreadGoes
  <2>2. CASE t = Loader
    BY <1>2, <1>4, <1>6, <2>2, LoaderGoes
  <2> QED  BY <2>1, <2>2 DEF All
<1> QED
  BY <1>2, <1>5, <1>6

LEMMA GoesFacts ==
  ASSUME IInv, NEW t \in All, NEW p, Goes(t, p)
  PROVE  todo' = [todo EXCEPT ![t] = p \o Tail(todo[t])]
BY DEF IInv, Orderly, Goes

(* Initializers and hooks push no step of a transaction.                    *)
Light(p) == \A i \in 1 .. Len(p) :
  p[i].op \in {"hook", "static", "call", "done", "enter", "leave"}

LEMMA InitializerLight ==
  ASSUME NEW g \in Statics, NEW p, p = Initializer(g) \o Item("done", g)
  PROVE  p \in Seq(ThreadItem) /\ Light(p)
<1>1. CASE g \notin Categories
  <2>1. Plain(p, g)
    BY <1>1, PlainInitializer
  <2> QED  BY <2>1 DEF Plain, Light
<1>2. CASE g \in Categories
  <2>1. PICK a, b \in DrawMethods :
          p = <<[op |-> "enter", at |-> "CS_DWRITE"], [op |-> "hook", at |-> a],
                [op |-> "hook", at |-> b], [op |-> "leave", at |-> "CS_DWRITE"],
                [op |-> "done", at |-> g]>>
    BY <1>2, CategoryFacts
  <2> DEFINE e == [op |-> "enter", at |-> "CS_DWRITE"]
             x == [op |-> "hook", at |-> a]
             y == [op |-> "hook", at |-> b]
             l == [op |-> "leave", at |-> "CS_DWRITE"]
             d == [op |-> "done", at |-> g]
             w == <<e, x, y, l, d>>
             L == {k \in ThreadItem : k.op \in {"hook", "static", "call", "done", "enter", "leave"}}
  <2>2. e \in L /\ x \in L /\ y \in L /\ l \in L /\ d \in L
    BY <2>1 DEF ThreadItem, Kind, Methods
  <2>3. p = w
    BY <2>1
  <2>4. L \subseteq ThreadItem /\ \A k \in L : k.op \in {"hook", "static", "call", "done", "enter", "leave"}
    OBVIOUS
  <2> HIDE DEF e, x, y, l, d, L
  <2>5. w \in Seq(L)
    BY <2>2
  <2> HIDE DEF w
  <2>6. w \in Seq(ThreadItem) /\ \A i \in 1 .. Len(w) : w[i] \in L
    BY <2>4, <2>5, SeqMonotonic
  <2> QED  BY <2>3, <2>4, <2>6 DEF Light
<1> QED
  BY <1>1, <1>2

LEMMA IMPLLight ==
  ASSUME NEW f
  PROVE  IMPL(f) \in Seq(ThreadItem) /\ Light(IMPL(f)) /\ (f \in Called => IMPL(f) \in Seq(Free))
<1>1. IMPL(f) \in Seq(ThreadItem)
  BY ThreadBegins DEF ThreadSeq
<1>2. CASE IMPL(f) \in Seq(Free)
  <2> DEFINE p == IMPL(f)
  <2>1. p \in Seq(Free)
    BY <1>2
  <2> HIDE DEF p
  <2>2. ASSUME NEW i \in 1 .. Len(p) PROVE p[i].op \in {"static", "call"}
    BY <2>1, ItemKinds
  <2>3. Light(p)
    BY <2>2 DEF Light
  <2> QED  BY <1>1, <1>2, <2>3 DEF p
<1>3. ASSUME f \notin Called, NEW g \in Categories,
             IMPL(f) = <<[op |-> "static", at |-> "HookRenderTarget"],
                         [op |-> "static", at |-> g]>>
      PROVE  Light(IMPL(f))
  <2> DEFINE x == [op |-> "static", at |-> "HookRenderTarget"]
             y == [op |-> "static", at |-> g]
             p == <<x, y>>
             L == {x, y}
  <2>1. \A k \in L : k.op = "static"
    OBVIOUS
  <2> HIDE DEF x, y
  <2>2. p \in Seq(L)
    OBVIOUS
  <2> HIDE DEF p, L
  <2>3. Light(p)
    BY <2>1, <2>2 DEF Light
  <2> QED  BY <2>3, <1>3 DEF p, x, y
<1> QED
  BY <1>1, <1>2, <1>3, IMPLFacts

-----------------------------------------------------------------------------
(* Every step keeps the order of what each thread has to do, and gives a    *)
(* static local and the section to one thread at a time.                    *)
LEMMA InnerOrderly ==
  ASSUME IInv, NEW t \in All, Inner(t)
  PROVE  Orderly' /\ Exclusive'
<1>1. At(t, "call") /\ UNCHANGED code
  BY DEF Inner
<1>2. CASE Continue(t)
  BY <1>1, <1>2, Continues
<1>3. CASE Goes(t, IMPL(Name(t)))
  <2> DEFINE s == todo[t]  p == IMPL(Name(t))  new == p \o Tail(s)
  <2>1. t \in Threads /\ Name(t) \in Called
    BY <1>1, WhoFacts
  <2>2. ThreadSeq(s) /\ s # <<>> /\ s[1].op = "call"
    BY <1>1, <2>1, HeadFacts
  <2>3. p \in Seq(Free)
    BY <2>1, IMPLLight
  <2>4. todo' = [todo EXCEPT ![t] = new]
    BY <1>3, GoesFacts
  <2>5. PICK next : next = new
    OBVIOUS
  <2> HIDE DEF s, p, new
  <2>6. Plain(p, None) /\ \A i \in 1 .. Len(p) : p[i].op # "done"
    BY <2>3, PlainFree
  <2>7. s[1].op # "enter" /\ ~Finishes(p, None)
    BY <2>2, <2>6 DEF Finishes
  <2>8. ThreadSeq(next) /\ Adds(next, s, p, None)
    BY <2>2, <2>5, <2>6, <2>7, ThreadPrefix DEF new
  <2>9. \A h \in Statics : Finishes(next, h) => Finishes(s, h)
    BY <2>7, <2>8 DEF Adds
  <2> QED  BY <1>1, <2>1, <2>4, <2>5, <2>8, <2>9, ThreadGoes DEF Adds, s
<1> QED
  BY <1>2, <1>3 DEF Inner

LEMMA StaticOrderly ==
  ASSUME IInv, NEW t \in All, Static(t)
  PROVE  Orderly' /\ Exclusive'
<1> DEFINE g == Name(t)
<1>1. /\ At(t, "static") /\ UNCHANGED section
      /\ \/ /\ static[g] = "no" /\ static' = [static EXCEPT ![g] = "busy"]
            /\ Goes(t, Initializer(g) \o Item("done", g))
         \/ Continue(t) /\ UNCHANGED static
  BY DEF Static
<1>2. t \in Threads /\ g \in Statics
  BY <1>1, WhoFacts
<1>3. CASE Continue(t) /\ UNCHANGED static
  BY <1>1, <1>3, Continues DEF code
<1>4. CASE /\ static[g] = "no" /\ static' = [static EXCEPT ![g] = "busy"]
           /\ Goes(t, Initializer(g) \o Item("done", g))
  <2> DEFINE s == todo[t]  p == Initializer(g) \o Item("done", g)
  <2>1. ThreadSeq(s) /\ s # <<>> /\ s[1].op = "static" /\ s[1].at = g
    BY <1>1, <1>2, HeadFacts
  <2>2. PICK next : next = p \o Tail(s)
    OBVIOUS
  <2>3. todo' = [todo EXCEPT ![t] = next]
    BY <1>4, <2>2, GoesFacts
  <2>4. /\ static \in [Statics -> {"no", "busy", "done"}] /\ Exclusive
        /\ t \in All /\ t # Loader
    BY <1>2, HookInstallAssumption DEF IInv, TypeOK, All
  <2> HIDE DEF s, p, g
  <2>5. \A u \in Threads : ~Finishes(todo[u], g)
    BY <1>2, <1>4, <2>4 DEF Exclusive
  <2>6. /\ ThreadSeq(next)
        /\ \A h : Finishes(next, h) => Finishes(s, h) \/ h = g
        /\ Inside(next) => Inside(s)
    <3>1. CASE g \in Categories
      <4>1. next = Initializer(g) \o Item("done", g) \o Tail(s)
        BY <2>2 DEF p
      <4>2. ThreadSeq(next) /\ Enters(next, g)
        BY <2>1, <3>1, <4>1, ThreadCategory
      <4> QED  BY <4>2 DEF Enters
    <3>2. CASE g \notin Categories
      <4>1. Plain(p, g)
        BY <1>2, <3>2, PlainInitializer DEF p
      <4>2. ~Finishes(s, g) /\ s[1].op # "enter"
        BY <1>2, <2>1, <2>5 DEF s
      <4>3. ThreadSeq(next) /\ Adds(next, s, p, g)
        BY <2>1, <2>2, <4>1, <4>2, ThreadPrefix
      <4> QED  BY <4>3 DEF Adds
    <3> QED  BY <3>1, <3>2
  <2>7. Orderly' /\ todo'[t] = next /\ \A u \in All \ {t} : todo'[u] = todo[u]
    BY <2>3, <2>4, <2>6, OneGoes
  <2>8. /\ static'[g] = "busy" /\ \A h \in Statics \ {g} : static'[h] = static[h]
    BY <1>2, <1>4, <2>4
  <2>9. ASSUME NEW u \in Threads, NEW h \in Statics, Finishes(todo'[u], h)
        PROVE  (h = g /\ u = t) \/ (h # g /\ Finishes(todo[u], h))
    <3>1. CASE u = t
      BY <2>5, <2>6, <2>7, <2>9, <3>1 DEF s
    <3>2. CASE u # t
      <4>1. todo'[u] = todo[u]
        BY <2>7, <3>2 DEF All
      <4> QED  BY <2>5, <2>9, <4>1
    <3> QED  BY <3>1, <3>2
  <2>10. \A u \in Threads, h \in Statics : Finishes(todo'[u], h) => static'[h] = "busy"
    BY <2>4, <2>8, <2>9 DEF Exclusive
  <2>11. \A u \in Threads, v \in Threads, h \in Statics :
           Finishes(todo'[u], h) /\ Finishes(todo'[v], h) => u = v
    BY <2>4, <2>9 DEF Exclusive
  <2>12. ASSUME NEW u \in Threads, Inside(todo'[u]) PROVE section' = u
    <3>1. CASE u = t
      BY <1>1, <1>2, <2>4, <2>6, <2>7, <2>12, <3>1 DEF Exclusive, s
    <3>2. CASE u # t
      <4>1. todo'[u] = todo[u]
        BY <2>7, <3>2 DEF All
      <4> QED  BY <1>1, <2>4, <2>12, <4>1 DEF Exclusive
    <3> QED  BY <3>1, <3>2
  <2> QED  BY <2>7, <2>10, <2>11, <2>12 DEF Exclusive
<1> QED
  BY <1>1, <1>3, <1>4

LEMMA DoneOrderly ==
  ASSUME IInv, NEW t \in All, Done(t)
  PROVE  Orderly' /\ Exclusive'
<1> DEFINE g == Name(t)  s == todo[t]
<1>1. /\ At(t, "done") /\ Continue(t) /\ static' = [static EXCEPT ![g] = "done"]
      /\ UNCHANGED section
  BY DEF Done
<1>2. t \in Threads /\ g \in Statics
  BY <1>1, WhoFacts
<1>3. ThreadSeq(s) /\ s # <<>> /\ s[1].op = "done" /\ s[1].at = g /\ 1 \in 1 .. Len(s)
  BY <1>1, <1>2, HeadFacts
<1>4. Orderly' /\ todo'[t] = Tail(s) /\ \A u \in All \ {t} : todo'[u] = todo[u]
  BY <1>1, Continues
<1>5. static \in [Statics -> {"no", "busy", "done"}] /\ Exclusive
  BY DEF IInv, TypeOK
<1> HIDE DEF g, s
<1>6. Finishes(s, g)
  BY <1>3 DEF Finishes
<1>7. /\ \A h : Finishes(Tail(s), h) => Finishes(s, h)
      /\ ~Finishes(Tail(s), g) /\ (Inside(Tail(s)) => Inside(s))
  BY <1>3, ThreadTail
<1>8. ASSUME NEW u \in Threads
      PROVE  /\ \A h \in Statics : Finishes(todo'[u], h) => h # g /\ Finishes(todo[u], h)
             /\ Inside(todo'[u]) => Inside(todo[u])
  <2>1. CASE u = t
    BY <1>4, <1>7, <2>1 DEF s
  <2>2. CASE u # t
    <3>1. todo'[u] = todo[u]
      BY <1>4, <2>2 DEF All
    <3>2. ~Finishes(todo[u], g)
      BY <1>2, <1>5, <1>6, <2>2 DEF Exclusive, s
    <3> QED  BY <3>1, <3>2
  <2> QED  BY <2>1, <2>2
<1>9. \A h \in Statics \ {g} : static'[h] = static[h]
  BY <1>1, <1>5
<1>10. \A u \in Threads, h \in Statics : Finishes(todo'[u], h) => static'[h] = "busy"
  BY <1>5, <1>8, <1>9 DEF Exclusive
<1>11. \A u \in Threads, v \in Threads, h \in Statics :
         Finishes(todo'[u], h) /\ Finishes(todo'[v], h) => u = v
  BY <1>5, <1>8 DEF Exclusive
<1>12. \A u \in Threads : Inside(todo'[u]) => section' = u
  BY <1>1, <1>5, <1>8 DEF Exclusive
<1> QED
  BY <1>4, <1>10, <1>11, <1>12 DEF Exclusive

LEMMA SectionOrderly ==
  ASSUME IInv, NEW t \in All, Enter(t) \/ Leave(t)
  PROVE  Orderly' /\ Exclusive'
<1> DEFINE s == todo[t]
<1>1. PICK op \in {"enter", "leave"} :
        /\ At(t, op) /\ Continue(t) /\ UNCHANGED static
        /\ op = "enter" => section = None /\ section' = t
        /\ op = "leave" => section' = None
  BY DEF Enter, Leave
<1>2. t \in Threads
  BY <1>1, WhoFacts
<1>3. ThreadSeq(s) /\ s # <<>> /\ s[1].op = op /\ 1 \in 1 .. Len(s)
  BY <1>1, <1>2, HeadFacts
<1>4. Orderly' /\ todo'[t] = Tail(s) /\ \A u \in All \ {t} : todo'[u] = todo[u]
  BY <1>1, Continues
<1>5. Exclusive /\ None \notin Threads
  BY HookInstallAssumption DEF IInv
<1> HIDE DEF s
<1>6. /\ \A h : Finishes(Tail(s), h) => Finishes(s, h)
      /\ op = "leave" => ~Inside(Tail(s)) /\ Inside(s)
  BY <1>3, ThreadTail
<1>7. ASSUME NEW u \in Threads
      PROVE  /\ \A h \in Statics : Finishes(todo'[u], h) => Finishes(todo[u], h)
             /\ u # t => todo'[u] = todo[u]
  <2>1. CASE u = t
    BY <1>4, <1>6, <2>1 DEF s
  <2>2. CASE u # t
    BY <1>4, <2>2 DEF All
  <2> QED  BY <2>1, <2>2
<1>8. ASSUME NEW u \in Threads, Inside(todo'[u]) PROVE section' = u
  <2>1. CASE op = "enter"
    <3>1. CASE u = t
      BY <1>1, <2>1, <3>1
    <3>2. CASE u # t
      <4>1. Inside(todo[u])
        BY <1>7, <1>8, <3>2
      <4>2. section = u
        BY <1>5, <4>1 DEF Exclusive
      <4> QED  BY <1>1, <1>5, <2>1, <4>2
    <3> QED  BY <3>1, <3>2
  <2>2. CASE op = "leave"
    <3>1. section = t
      BY <1>2, <1>5, <1>6, <2>2 DEF Exclusive, s
    <3>2. u # t
      BY <1>4, <1>6, <1>8, <2>2
    <3>3. section = u
      BY <1>5, <1>7, <1>8, <3>2 DEF Exclusive
    <3> QED  BY <3>1, <3>2, <3>3
  <2> QED  BY <1>1, <2>1, <2>2
<1>9. \A u \in Threads, h \in Statics : Finishes(todo'[u], h) => static'[h] = "busy"
  BY <1>1, <1>5, <1>7 DEF Exclusive
<1>10. \A u \in Threads, v \in Threads, h \in Statics :
         Finishes(todo'[u], h) /\ Finishes(todo'[v], h) => u = v
  BY <1>5, <1>7 DEF Exclusive
<1> QED
  BY <1>4, <1>8, <1>9, <1>10 DEF Exclusive

LEMMA HookOrderly ==
  ASSUME IInv, NEW t \in All, Hook(t)
  PROVE  Orderly' /\ Exclusive'
<1> DEFINE s == todo[t]  f == Name(t)
<1>1. /\ At(t, "hook") /\ UNCHANGED code
      /\ Continue(t) \/ Goes(t, Item("set", f) \o Demand(f))
  BY DEF Hook
<1>2. CASE Continue(t)
  BY <1>1, <1>2, Continues
<1>3. CASE Goes(t, Item("set", f) \o Demand(f))
  <2>1. t \in Threads
    BY <1>1, WhoFacts
  <2>2. ThreadSeq(s) /\ s # <<>> /\ s[1].op = "hook" /\ s[1].at = f
    BY <1>1, <2>1, HeadFacts
  <2>3. PICK next : next = Item("set", f) \o Demand(f) \o Tail(s)
    OBVIOUS
  <2>4. todo' = [todo EXCEPT ![t] = next]
    BY <1>3, <2>3, GoesFacts
  <2> HIDE DEF s, f
  <2>5. /\ ThreadSeq(next)
        /\ \A g : Finishes(next, g) => Finishes(s, g)
        /\ Inside(next) => Inside(s)
    BY <2>2, <2>3, ThreadHook
  <2> QED  BY <1>1, <2>1, <2>4, <2>5, ThreadGoes DEF s
<1> QED
  BY <1>1, <1>2, <1>3

LEMMA DemandOrderly ==
  ASSUME IInv, NEW t \in All, DemandExport(t)
  PROVE  Orderly' /\ Exclusive'
<1> DEFINE s == todo[t]  f == Name(t)
<1>1. /\ At(t, "demand") /\ UNCHANGED code
      /\ Continue(t) \/ Goes(t, Demand(f))
  BY DEF DemandExport, Continue
<1>2. CASE Continue(t)
  BY <1>1, <1>2, Continues
<1>3. CASE Goes(t, Demand(f))
  <2>1. t = Loader
    BY <1>1, WhoFacts
  <2>2. LoaderSeq(s) /\ s # <<>> /\ s[1].op = "demand" /\ s[1].at = f
    BY <1>1, <2>1, HeadFacts
  <2>3. PICK next : next = Demand(f) \o Tail(s)
    OBVIOUS
  <2>4. todo' = [todo EXCEPT ![t] = next]
    BY <1>3, <2>3, GoesFacts
  <2> HIDE DEF s, f
  <2>5. LoaderSeq(next)
    BY <2>2, <2>3, LoaderDemand
  <2> QED  BY <1>1, <2>1, <2>4, <2>5, LoaderGoes
<1> QED
  BY <1>1, <1>2, <1>3

(* hook_demand goes on with the same function.                              *)
Swaps(t, op, next) == At(t, op) /\ Goes(t, Item(next, Name(t)))

LEMMA SwapGoes ==
  ASSUME IInv, NEW t \in All, NEW op \in {"attach", "detour"},
         NEW next \in {"detour", "mark"}, Swaps(t, op, next)
  PROVE  /\ Orderly' /\ (UNCHANGED code => Exclusive')
         /\ \A u \in All \ {t} : todo'[u] = todo[u]
         /\ Len(todo'[t]) = Len(todo[t])
         /\ 1 \in 1 .. Len(todo[t]) /\ todo'[t] # <<>>
         /\ todo'[t][1] = [op |-> next, at |-> Name(t)]
         /\ \A i \in 1 .. Len(todo[t]) : i # 1 => todo'[t][i] = todo[t][i]
         /\ t = Loader => ~Initializing(todo'[t])
<1> DEFINE s == todo[t]
           x == [op |-> next, at |-> Name(t)]
           q == <<x>> \o Tail(s)
<1>1. /\ s \in Seq(AnItem) /\ s # <<>> /\ s[1].op = op /\ s[1].at = Name(t)
      /\ 1 \in 1 .. Len(s)
      /\ t \in Threads => ThreadSeq(s)
      /\ t = Loader => LoaderSeq(s)
  BY HeadFacts DEF Swaps
<1>2. todo' = [todo EXCEPT ![t] = q]
  BY GoesFacts, ItemFacts DEF Swaps
<1>3. ASSUME t \in Threads
      PROVE  /\ ThreadSeq(q) /\ \A g : Finishes(q, g) => Finishes(s, g)
             /\ Inside(q) => Inside(s)
  BY <1>1, <1>3, ThreadSwap
<1>4. ASSUME t = Loader PROVE LoaderSeq(q) /\ ~Initializing(q)
  <2>1. LoaderSeq(q) /\ (Initializing(q) => Initializing(s))
    BY <1>1, <1>4, LoaderSwap
  <2>2. ASSUME Initializing(s) PROVE FALSE
    <3>1. s[1].op \in {"begin", "init", "hook_init"}
      BY <1>1, <1>4, <2>2, LoaderTail
    <3> QED  BY <1>1, <3>1
  <2> QED  BY <2>1, <2>2
<1> HIDE DEF q
<1>5. Orderly' /\ todo'[t] = q /\ \A u \in All \ {t} : todo'[u] = todo[u]
  BY <1>2, <1>3, <1>4, OneGoes
<1>6. ASSUME UNCHANGED code PROVE Exclusive'
  <2>1. CASE t \in Threads
    BY <1>2, <1>3, <1>6, <2>1, ThreadGoes
  <2>2. CASE t = Loader
    BY <1>2, <1>4, <1>6, <2>2, LoaderGoes
  <2> QED  BY <2>1, <2>2 DEF All
<1>7. /\ q \in Seq(AnItem \cup {x}) /\ Len(q) = Len(s) /\ q[1] = x /\ Len(s) \in Nat \ {0}
      /\ \A i \in 1 .. Len(s) : i # 1 => q[i] = s[i]
  <2>1. s \in Seq(AnItem \cup {x}) /\ x \in AnItem \cup {x}
    BY <1>1, SeqMonotonic
  <2>2. q = <<x>> \o Tail(s)
    BY DEF q
  <2> HIDE DEF x
  <2> QED  BY <1>1, <2>1, <2>2, SwapFacts
<1>8. q # <<>>
  BY <1>7, EmptySeq
<1> QED
  BY <1>1, <1>4, <1>5, <1>6, <1>7, <1>8

LEMMA StepOrderly ==
  ASSUME IInv, Next
  PROVE  Orderly' /\ Exclusive'
<1>1. CASE Loaded
  BY <1>1 DEF Loaded, IInv, Orderly, Exclusive, code
<1>2. CASE Unload
  <2>1. todo' = [todo EXCEPT ![Loader] = Detaching] /\ UNCHANGED code
    BY <1>2 DEF Unload
  <2> QED  BY <2>1, DetachingSeq, LoaderGoes
<1>3. ASSUME NEW t \in Threads, Call(t) PROVE Orderly' /\ Exclusive'
  <2>1. PICK f \in live : todo' = [todo EXCEPT ![t] = IMPL(f)]
    BY <1>3 DEF Call
  <2>2. UNCHANGED code
    BY <1>3 DEF Call
  <2>3. ThreadSeq(IMPL(f)) /\ (\A g : ~Finishes(IMPL(f), g)) /\ ~Inside(IMPL(f))
    BY ThreadBegins
  <2>4. PICK next : next = IMPL(f)
    OBVIOUS
  <2> QED  BY <2>1, <2>2, <2>3, <2>4, ThreadGoes
<1>4. ASSUME NEW t \in All,
             NEW op \in {"set", "begin", "init", "attach", "mark", "commit", "detach",
                        "hook_term", "unmap"},
             At(t, op), Continue(t), UNCHANGED code
      PROVE  Orderly' /\ Exclusive'
  BY <1>4, Continues
<1>5. ASSUME NEW t \in All, CommitInit(t) PROVE Orderly' /\ Exclusive'
  <2>1. /\ At(t, "hook_init") /\ UNCHANGED code
        /\ Continue(t) \/ todo' = [todo EXCEPT ![t] = Detaching]
    BY <1>5 DEF CommitInit
  <2>2. CASE Continue(t)
    BY <2>1, <2>2, Continues
  <2>3. CASE todo' = [todo EXCEPT ![t] = Detaching]
    <3>1. t = Loader
      BY <2>1, WhoFacts
    <3> QED  BY <2>1, <2>3, <3>1, DetachingSeq, LoaderGoes
  <2> QED  BY <2>1, <2>2, <2>3
<1>6. ASSUME NEW t \in All, Run(t) PROVE Orderly' /\ Exclusive'
  <2>1. CASE Inner(t) \/ Static(t) \/ Done(t) \/ Enter(t) \/ Leave(t) \/ Hook(t) \/ DemandExport(t)
    BY <2>1, InnerOrderly, StaticOrderly, DoneOrderly, SectionOrderly, HookOrderly, DemandOrderly
  <2>2. CASE SetOriginal(t)
    BY <2>2, <1>4 DEF SetOriginal
  <2>3. CASE Begin(t)
    BY <2>3, <1>4 DEF Begin
  <2>4. CASE InitAttach(t)
    BY <2>4, <1>4 DEF InitAttach
  <2>5. CASE Attach(t) \/ Detour(t) \/ Mark(t)
    <3>1. /\ UNCHANGED code
          /\ \/ Swaps(t, "attach", "detour")
             \/ Swaps(t, "detour", "mark")
             \/ At(t, "attach") /\ Continue(t)
             \/ At(t, "mark") /\ Continue(t)
      BY <2>5 DEF Attach, Detour, Mark, Swaps
    <3> QED  BY <3>1, <1>4, SwapGoes
  <2>6. CASE Commit(t)
    BY <2>6, <1>4 DEF Commit
  <2>7. CASE CommitInit(t)
    BY <2>7, <1>5
  <2>8. CASE Detach(t)
    BY <2>8, <1>4 DEF Detach
  <2>9. CASE CommitTerm(t)
    BY <2>9, <1>4 DEF CommitTerm
  <2>10. CASE Unmap(t)
    BY <2>10, <1>4 DEF Unmap
  <2> QED  BY <1>6, <2>1, <2>2, <2>3, <2>4, <2>5, <2>6, <2>7, <2>8, <2>9, <2>10 DEF Run
<1> QED
  BY <1>1, <1>2, <1>3, <1>6 DEF Next

-----------------------------------------------------------------------------
(* What a step adds to what a thread has to do.                             *)
PushItems(new, p, s) ==
  \A i \in 1 .. Len(new) :
    (\E j \in 1 .. Len(p) : new[i] = p[j]) \/ (\E j \in 1 .. Len(s) : new[i] = s[j])

LEMMA PushedItems ==
  ASSUME NEW S, NEW s \in Seq(S), s # <<>>, NEW p \in Seq(S), NEW q, q = p \o Tail(s)
  PROVE  PushItems(q, p, s)
<1>1. /\ Len(q) = Len(p) + Len(s) - 1
      /\ \A i \in 1 .. Len(p) : q[i] = p[i]
      /\ \A i \in Len(p) + 1 .. Len(q) : q[i] = s[i - Len(p) + 1]
      /\ Len(p) \in Nat /\ Len(s) \in Nat \ {0}
  BY PushFacts
<1> SUFFICES ASSUME NEW i \in 1 .. Len(q)
             PROVE  (\E j \in 1 .. Len(p) : q[i] = p[j]) \/ (\E j \in 1 .. Len(s) : q[i] = s[j])
  BY DEF PushItems
<1>2. CASE i <= Len(p)
  <2>1. i \in 1 .. Len(p) /\ q[i] = p[i]
    BY <1>1, <1>2
  <2> QED  BY <2>1
<1>3. CASE ~(i <= Len(p))
  <2>1. i \in Len(p) + 1 .. Len(q) /\ i - Len(p) + 1 \in 1 .. Len(s)
    BY <1>1, <1>3
  <2>2. q[i] = s[i - Len(p) + 1]
    BY <1>1, <2>1
  <2> QED  BY <2>1, <2>2
<1> QED
  BY <1>2, <1>3

NewItem(t, x) ==
  \/ x.op \in {"hook", "static", "call", "done", "enter", "leave"}
  \/ x.op = "set" /\ x.at \in system /\ ~hooked[x.at]
  \/ x.op \in {"begin", "attach", "commit"} /\ x.at \in system
  \/ x.op = "detour" /\ x.at \in system /\ ~hooked[x.at]
  \/ x.op = "mark" /\ x.at \in system /\ Detour(t) /\ Name(t) = x.at
  \/ t = Loader /\ dll' = "leaving" /\ x.op \in {"begin", "detach", "hook_term", "unmap"}

LEMMA HookItems ==
  ASSUME NEW f \in Methods, f \in system, ~hooked[f], NEW t, NEW p,
         p = Item("set", f) \o Demand(f)
  PROVE  p \in Seq(ThreadItem) /\ \A j \in 1 .. Len(p) : NewItem(t, p[j])
<1> DEFINE a == [op |-> "set", at |-> f]  b == [op |-> "begin", at |-> f]
           c == [op |-> "attach", at |-> f]  d == [op |-> "commit", at |-> f]
           w == <<a, b, c, d>>
           L == {k \in ThreadItem : NewItem(t, k)}
<1>1. a \in ThreadItem /\ b \in ThreadItem /\ c \in ThreadItem /\ d \in ThreadItem
  BY DEF ThreadItem, Kind
<1>2. NewItem(t, a) /\ NewItem(t, b) /\ NewItem(t, c) /\ NewItem(t, d)
  BY DEF NewItem
<1>3. p = w
  BY SetDemandFacts
<1> HIDE DEF a, b, c, d
<1>4. a \in L /\ b \in L /\ c \in L /\ d \in L
  BY <1>1, <1>2
<1>5. L \subseteq ThreadItem /\ \A k \in L : NewItem(t, k)
  OBVIOUS
<1> HIDE DEF L
<1>6. w \in Seq(L)
  BY <1>4
<1> HIDE DEF w
<1>7. w \in Seq(ThreadItem) /\ \A j \in 1 .. Len(w) : w[j] \in L
  BY <1>5, <1>6, SeqMonotonic
<1> QED
  BY <1>3, <1>5, <1>7

LEMMA DemandItems ==
  ASSUME NEW f \in Manual, f \in system, NEW t, NEW p, p = Demand(f)
  PROVE  p \in Seq(LoaderItem) /\ \A j \in 1 .. Len(p) : NewItem(t, p[j])
<1> DEFINE b == [op |-> "begin", at |-> f]  c == [op |-> "attach", at |-> f]
           d == [op |-> "commit", at |-> f]
           w == <<b, c, d>>
           L == {k \in LoaderItem : NewItem(t, k)}
<1>1. b \in LoaderItem /\ c \in LoaderItem /\ d \in LoaderItem
  BY DEF LoaderItem, Kind
<1>2. NewItem(t, b) /\ NewItem(t, c) /\ NewItem(t, d)
  BY DEF NewItem
<1>3. p = w
  BY DemandFacts
<1> HIDE DEF b, c, d
<1>4. b \in L /\ c \in L /\ d \in L
  BY <1>1, <1>2
<1>5. L \subseteq LoaderItem /\ \A k \in L : NewItem(t, k)
  OBVIOUS
<1> HIDE DEF L
<1>6. w \in Seq(L)
  BY <1>4
<1> HIDE DEF w
<1>7. w \in Seq(LoaderItem) /\ \A j \in 1 .. Len(w) : w[j] \in L
  BY <1>5, <1>6, SeqMonotonic
<1> QED
  BY <1>3, <1>5, <1>7

LEMMA StepItems ==
  ASSUME IInv, Next, NEW t \in All, NEW i \in 1 .. Len(todo'[t])
  PROVE  (\E j \in 1 .. Len(todo[t]) : todo'[t][i] = todo[t][j]) \/ NewItem(t, todo'[t][i])
<1> DEFINE Old == \E j \in 1 .. Len(todo[t]) : todo'[t][i] = todo[t][j]
           x == todo'[t][i]
<1>a. todo \in [All -> Seq(AnItem)]
  BY DEF IInv, Orderly
<1>b. ASSUME todo'[t] = todo[t] PROVE Old
  BY <1>b
<1>c. ASSUME NEW u \in All, NEW p, NEW S, todo[u] \in Seq(S), p \in Seq(S), Goes(u, p),
             todo[u] # <<>>, \A j \in 1 .. Len(p) : NewItem(u, p[j])
      PROVE  Old \/ NewItem(t, x)
  <2>1. todo' = [todo EXCEPT ![u] = p \o Tail(todo[u])]
    BY <1>c, GoesFacts
  <2>2. CASE t # u
    BY <1>a, <1>b, <2>1, <2>2
  <2>3. CASE t = u
    <3>1. todo'[t] = p \o Tail(todo[t])
      BY <1>a, <2>1, <2>3
    <3>2. PushItems(todo'[t], p, todo[t])
      BY <1>c, <2>3, <3>1, PushedItems
    <3>3. (\E j \in 1 .. Len(p) : x = p[j]) \/ Old
      BY <3>2 DEF PushItems
    <3> QED  BY <1>c, <2>3, <3>3
  <2> QED  BY <2>2, <2>3
<1>d. ASSUME NEW u \in All, NEW op, At(u, op), Continue(u) PROVE Old
  <2>1. todo[u] \in Seq(AnItem) /\ todo[u] # <<>>
    BY <1>d, HeadFacts
  <2>2. todo'[u] = Tail(todo[u]) /\ \A w \in All \ {u} : todo'[w] = todo[w]
    BY <1>d, Continues
  <2>3. CASE t # u
    BY <1>b, <2>2, <2>3
  <2>4. CASE t = u
    <3>a. /\ Len(todo[t]) \in Nat \ {0} /\ Len(Tail(todo[t])) = Len(todo[t]) - 1
          /\ \A j \in 1 .. Len(todo[t]) - 1 : Tail(todo[t])[j] = todo[t][j + 1]
      BY <2>1, <2>4, TailFacts
    <3>b. todo'[t] = Tail(todo[t])
      BY <2>2, <2>4
    <3>c. i \in 1 .. Len(todo[t]) - 1 /\ i + 1 \in 1 .. Len(todo[t])
      BY <3>a, <3>b
    <3>1. i + 1 \in 1 .. Len(todo[t]) /\ todo'[t][i] = todo[t][i + 1]
      BY <3>a, <3>b, <3>c
    <3> QED  BY <3>1
  <2> QED  BY <2>3, <2>4
<1>e. ASSUME NEW u \in All, NEW p \in Seq(ThreadItem), Light(p), Goes(u, p), u \in Threads, todo[u] # <<>>
      PROVE  Old \/ NewItem(t, x)
  <2>1. todo[u] \in Seq(ThreadItem)
    BY <1>e DEF IInv, Orderly, ThreadSeq
  <2>2. \A j \in 1 .. Len(p) : NewItem(u, p[j])
    BY <1>e DEF Light, NewItem
  <2> QED  BY <1>c, <1>e, <2>1, <2>2
<1> HIDE DEF Old, x
<1>1. ASSUME Loaded PROVE Old
  <2>1. todo' = todo
    BY <1>1 DEF Loaded
  <2> QED  BY <1>b, <2>1
<1>f. ASSUME dll' = "leaving", todo' = [todo EXCEPT ![Loader] = Detaching]
      PROVE  Old \/ NewItem(t, x)
  <2>1. CASE t # Loader
    BY <1>a, <1>b, <1>f, <2>1 DEF Old
  <2>2. CASE t = Loader
    <3>1. todo'[t] = Detaching
      BY <1>a, <1>f, <2>2
    <3>2. x.op \in {"begin", "detach", "hook_term", "unmap"}
      BY <3>1, DetachingSeq DEF x
    <3> QED  BY <1>f, <2>2, <3>2 DEF NewItem
  <2> QED  BY <2>1, <2>2
<1>2. ASSUME Unload PROVE Old \/ NewItem(t, x)
  BY <1>2, <1>f DEF Unload
<1>3. ASSUME NEW u \in Threads, Call(u) PROVE Old \/ NewItem(t, x)
  <2>1. PICK f \in live : todo' = [todo EXCEPT ![u] = IMPL(f)]
    BY <1>3 DEF Call
  <2>2. CASE t # u
    BY <1>a, <1>b, <2>1, <2>2 DEF Old
  <2>3. CASE t = u
    <3>1. todo'[t] = IMPL(f) /\ Light(IMPL(f))
      BY <1>a, <2>1, <2>3, IMPLLight
    <3> QED  BY <3>1 DEF Light, NewItem, x
  <2> QED  BY <2>2, <2>3
<1>4. ASSUME NEW u \in All, Inner(u) PROVE Old \/ NewItem(t, x)
  <2>1. At(u, "call") /\ (Goes(u, IMPL(Name(u))) \/ Continue(u))
    BY <1>4 DEF Inner
  <2>2. u \in Threads /\ todo[u] # <<>>
    BY <2>1, WhoFacts, HeadFacts
  <2> QED  BY <1>d, <1>e, <2>1, <2>2, IMPLLight
<1>5. ASSUME NEW u \in All, Static(u) PROVE Old \/ NewItem(t, x)
  <2>1. /\ At(u, "static")
        /\ Goes(u, Initializer(Name(u)) \o Item("done", Name(u))) \/ Continue(u)
    BY <1>5 DEF Static
  <2>2. u \in Threads /\ todo[u] # <<>> /\ Name(u) \in Statics
    BY <2>1, WhoFacts, HeadFacts
  <2> QED  BY <1>d, <1>e, <2>1, <2>2, InitializerLight
<1>6. ASSUME NEW u \in All, Hook(u) PROVE Old \/ NewItem(t, x)
  <2>1. At(u, "hook") /\ u \in Threads
    BY <1>6, WhoFacts DEF Hook
  <2>2. CASE Continue(u)
    BY <1>d, <2>1, <2>2
  <2>3. CASE ~Continue(u)
    <3> DEFINE f == Name(u)  p == Item("set", f) \o Demand(f)
    <3>1. f \in system /\ ~hooked[f] /\ Goes(u, p) /\ f \in Methods
      BY <1>6, <2>1, <2>3, WhoFacts DEF Hook
    <3>2. todo[u] \in Seq(ThreadItem) /\ todo[u] # <<>>
      BY <2>1, HeadFacts DEF ThreadSeq
    <3> HIDE DEF f
    <3>3. p \in Seq(ThreadItem) /\ \A j \in 1 .. Len(p) : NewItem(u, p[j])
      BY <3>1, HookItems
    <3> HIDE DEF p
    <3> QED  BY <1>c, <3>1, <3>2, <3>3
  <2> QED  BY <2>2, <2>3
<1>7. ASSUME NEW u \in All, DemandExport(u) PROVE Old \/ NewItem(t, x)
  <2>1. At(u, "demand") /\ u = Loader
    BY <1>7, WhoFacts DEF DemandExport
  <2>2. CASE Continue(u)
    BY <1>d, <2>1, <2>2
  <2>3. CASE ~Continue(u)
    <3> DEFINE f == Name(u)  p == Demand(f)
    <3>1. f \in system /\ Goes(u, p) /\ f \in Manual
      BY <1>7, <2>1, <2>3, WhoFacts DEF DemandExport, Continue
    <3>2. todo[u] \in Seq(LoaderItem) /\ todo[u] # <<>>
      BY <2>1, HeadFacts DEF LoaderSeq
    <3> HIDE DEF f
    <3>3. p \in Seq(LoaderItem) /\ \A j \in 1 .. Len(p) : NewItem(u, p[j])
      BY <3>1, DemandItems
    <3> HIDE DEF p
    <3> QED  BY <1>c, <3>1, <3>2, <3>3
  <2> QED  BY <2>2, <2>3
<1>8. ASSUME NEW u \in All, CommitInit(u) PROVE Old \/ NewItem(t, x)
  <2>1. /\ At(u, "hook_init")
        /\ Continue(u) \/ (dll' = "leaving" /\ todo' = [todo EXCEPT ![u] = Detaching])
    BY <1>8 DEF CommitInit
  <2>2. u = Loader
    BY <2>1, WhoFacts
  <2> QED  BY <1>d, <1>f, <2>1, <2>2
<1>g. ASSUME NEW u \in All, NEW op \in {"attach", "detour"},
             NEW next \in {"detour", "mark"}, Swaps(u, op, next),
             \A y : y.op = next /\ y.at = Name(u) => NewItem(u, y)
      PROVE  Old \/ NewItem(t, x)
  <2>1. /\ \A w \in All \ {u} : todo'[w] = todo[w]
        /\ Len(todo'[u]) = Len(todo[u])
        /\ todo'[u][1] = [op |-> next, at |-> Name(u)]
        /\ \A j \in 1 .. Len(todo[u]) : j # 1 => todo'[u][j] = todo[u][j]
    BY <1>g, SwapGoes
  <2>2. CASE t # u
    BY <1>b, <2>1, <2>2
  <2>3. CASE t = u /\ i = 1
    <3>1. x.op = next /\ x.at = Name(u)
      BY <2>1, <2>3 DEF x
    <3> QED  BY <1>g, <2>3, <3>1
  <2>4. CASE t = u /\ i # 1
    BY <2>1, <2>4 DEF Old
  <2> QED  BY <2>2, <2>3, <2>4
<1>h. ASSUME NEW u \in All, Attach(u) \/ Detour(u) PROVE Old \/ NewItem(t, x)
  <2>1. ASSUME At(u, "attach") \/ At(u, "detour") PROVE Name(u) \in system
    <3>1. /\ 1 \in 1 .. Len(todo[u]) /\ todo[u][1].at = Name(u)
          /\ todo[u][1].op \in {"attach", "detour"}
      BY <2>1, HeadFacts
    <3> QED  BY <3>1 DEF IInv, Owning
  <2>2. CASE Attach(u) /\ Continue(u)
    BY <2>2, <1>d DEF Attach
  <2>3. CASE Attach(u) /\ ~Continue(u)
    <3>1. Swaps(u, "attach", "detour") /\ ~hooked[Name(u)] /\ Name(u) \in system
      BY <2>1, <2>3 DEF Attach, Swaps
    <3>2. \A y : y.op = "detour" /\ y.at = Name(u) => NewItem(u, y)
      BY <3>1 DEF NewItem
    <3> QED  BY <1>g, <3>1, <3>2
  <2>4. CASE Detour(u)
    <3>1. Swaps(u, "detour", "mark") /\ At(u, "detour") /\ Name(u) \in system
      BY <2>1, <2>4 DEF Detour, Swaps
    <3>2. \A y : y.op = "mark" /\ y.at = Name(u) => NewItem(u, y)
      BY <2>4, <3>1 DEF NewItem
    <3> QED  BY <1>g, <3>1, <3>2
  <2> QED  BY <1>h, <2>2, <2>3, <2>4
<1>9. ASSUME NEW u \in All, Run(u) PROVE Old \/ NewItem(t, x)
  <2>1. CASE Inner(u) \/ Static(u) \/ Hook(u) \/ DemandExport(u) \/ CommitInit(u)
    BY <2>1, <1>4, <1>5, <1>6, <1>7, <1>8
  <2>2. CASE Done(u) \/ Enter(u) \/ Leave(u)
    BY <2>2, <1>d DEF Done, Enter, Leave
  <2>3. CASE SetOriginal(u) \/ Begin(u)
    BY <2>3, <1>d DEF SetOriginal, Begin
  <2>4. CASE InitAttach(u) \/ Attach(u) \/ Detour(u) \/ Mark(u)
    BY <2>4, <1>d, <1>h DEF InitAttach, Mark
  <2>5. CASE Commit(u) \/ Detach(u) \/ CommitTerm(u) \/ Unmap(u)
    BY <2>5, <1>d DEF Commit, Detach, CommitTerm, Unmap
  <2> QED  BY <1>9, <2>1, <2>2, <2>3, <2>4, <2>5 DEF Run
<1>10. Old \/ NewItem(t, x)
  BY <1>1, <1>2, <1>3, <1>9 DEF Next
<1> QED
  BY <1>10 DEF Old, x

-----------------------------------------------------------------------------
(* A thread that runs does the first thing it has to do, and changes        *)
(* nothing of what the others have.                                         *)
LEMMA RunFacts ==
  ASSUME IInv, NEW t \in All, Run(t)
  PROVE  /\ dll # "gone" /\ todo[t] # <<>> /\ \A u \in All \ {t} : todo'[u] = todo[u]
         /\ t \in Threads => dll' = dll
<1>a. todo \in [All -> Seq(AnItem)] /\ Loader \notin Threads
  BY HookInstallAssumption DEF IInv, Orderly
<1>b. ASSUME NEW op, At(t, op) PROVE dll # "gone" /\ todo[t] # <<>>
  BY <1>b DEF At
<1>c. ASSUME NEW new, todo' = [todo EXCEPT ![t] = new] PROVE \A u \in All \ {t} : todo'[u] = todo[u]
  BY <1>a, <1>c
<1>d. ASSUME NEW p, Goes(t, p) PROVE \A u \in All \ {t} : todo'[u] = todo[u]
  BY <1>c, <1>d, GoesFacts
<1>e. ASSUME Continue(t) PROVE \A u \in All \ {t} : todo'[u] = todo[u]
  BY <1>d, <1>e DEF Continue
<1>1. CASE Inner(t)
  BY <1>1, <1>b, <1>d, <1>e DEF Inner
<1>2. CASE Static(t)
  BY <1>2, <1>b, <1>d, <1>e DEF Static
<1>3. CASE Done(t) \/ Enter(t) \/ Leave(t)
  BY <1>3, <1>b, <1>e DEF Done, Enter, Leave
<1>4. CASE Hook(t)
  BY <1>4, <1>b, <1>d, <1>e DEF Hook
<1>5. CASE DemandExport(t)
  BY <1>5, <1>b, <1>d DEF DemandExport
<1>6. CASE SetOriginal(t) \/ Begin(t) \/ InitAttach(t)
  BY <1>6, <1>b, <1>e DEF SetOriginal, Begin, InitAttach
<1>10. CASE Attach(t) \/ Detour(t) \/ Mark(t)
  BY <1>10, <1>b, <1>d, <1>e DEF Attach, Detour, Mark
<1>7. CASE Commit(t) \/ Detach(t) \/ CommitTerm(t)
  BY <1>7, <1>b, <1>e DEF Commit, Detach, CommitTerm
<1>8. CASE CommitInit(t)
  <2>1. At(t, "hook_init") /\ (Continue(t) \/ todo' = [todo EXCEPT ![t] = Detaching])
    BY <1>8 DEF CommitInit
  <2>2. t = Loader
    BY <2>1, WhoFacts
  <2> QED  BY <1>a, <1>b, <1>c, <1>e, <2>1, <2>2
<1>9. CASE Unmap(t)
  <2>1. At(t, "unmap") /\ Continue(t)
    BY <1>9 DEF Unmap
  <2>2. t = Loader
    BY <2>1, WhoFacts
  <2> QED  BY <1>a, <1>b, <1>e, <2>1, <2>2
<1> QED
  BY <1>1, <1>2, <1>3, <1>4, <1>5, <1>6, <1>7, <1>8, <1>9, <1>10 DEF Run

(* How DllMain goes on.                                                     *)
Moves ==
  \/ todo'[Loader] = todo[Loader] /\ dll' = dll
  \/ dll = "loading" /\ dll' = "loaded" /\ todo'[Loader] = <<>> /\ todo[Loader] = <<>>
  \/ Up /\ dll' = "leaving" /\ todo'[Loader] = Detaching
  \/ dll = "loading" /\ dll' = "loading"
  \/ /\ dll = "leaving" /\ dll' = "leaving"
     /\ \/ todo[Loader] = Detaching /\ todo'[Loader] = Begun
        \/ todo[Loader] = Begun /\ todo'[Loader] = Detached
        \/ todo[Loader] = Detached /\ todo'[Loader] = Committed
  \/ dll = "leaving" /\ dll' = "gone" /\ todo[Loader] = Committed /\ todo'[Loader] = <<>>

LEMMA StepMoves ==
  ASSUME IInv, Next
  PROVE  Moves
<1>a. todo \in [All -> Seq(AnItem)] /\ Loader \in All
  BY DEF IInv, Orderly, All
<1>1. CASE Loaded
  <2>1. dll = "loading" /\ dll' = "loaded" /\ todo[Loader] = <<>> /\ todo' = todo
    BY <1>1 DEF Loaded
  <2> QED  BY <2>1 DEF Moves
<1>2. CASE Unload
  <2>1. Up /\ dll' = "leaving" /\ todo' = [todo EXCEPT ![Loader] = Detaching]
    BY <1>2 DEF Unload, Up
  <2> QED  BY <1>a, <2>1 DEF Moves
<1>3. ASSUME NEW t \in Threads, Call(t) PROVE Moves
  <2>1. dll' = dll /\ t # Loader /\ \E f \in live : todo' = [todo EXCEPT ![t] = IMPL(f)]
    BY <1>3, HookInstallAssumption DEF Call
  <2> QED  BY <1>a, <2>1 DEF Moves
<1>4. ASSUME NEW t \in Threads, Run(t) PROVE Moves
  <2>1. dll' = dll /\ t # Loader /\ \A u \in All \ {t} : todo'[u] = todo[u]
    BY <1>4, RunFacts, HookInstallAssumption DEF All
  <2> QED  BY <1>a, <2>1 DEF Moves
<1>5. ASSUME Run(Loader) PROVE Moves
  <2>a. ASSUME NEW op \in {"set", "begin", "init", "attach", "mark", "commit", "hook_init",
                            "detach", "hook_term"},
               At(Loader, op), Continue(Loader), dll' = dll
        PROVE  Moves
    <3>1. todo'[Loader] = Tail(todo[Loader])
      BY <1>a, <2>a, Continues
    <3>2. CASE dll = "loading"
      BY <2>a, <3>2 DEF Moves
    <3>3. CASE dll = "leaving"
      <4>1. \/ op = "begin" /\ todo[Loader] = Detaching
            \/ op = "detach" /\ todo[Loader] = Begun
            \/ op = "hook_term" /\ todo[Loader] = Detached
            \/ op = "unmap" /\ todo[Loader] = Committed
        BY <2>a, <3>3, PhaseFacts
      <4> QED  BY <2>a, <3>1, <3>3, <4>1, DetachingFacts DEF Moves
    <3> QED  BY <2>a, <3>2, <3>3, PhaseFacts
  <2>b. ASSUME NEW op \in {"call", "static", "done", "enter", "leave", "hook"}, At(Loader, op)
        PROVE  FALSE
    BY <1>a, <2>b, WhoFacts, HookInstallAssumption
  <2>1. CASE Inner(Loader) \/ Static(Loader) \/ Done(Loader)
    BY <2>1, <2>b DEF Inner, Static, Done
  <2>2. CASE Enter(Loader) \/ Leave(Loader) \/ Hook(Loader)
    BY <2>2, <2>b DEF Enter, Leave, Hook
  <2>3. CASE DemandExport(Loader)
    <3>1. At(Loader, "demand") /\ dll' = dll
      BY <2>3 DEF DemandExport
    <3>2. dll = "loading"
      BY <3>1, PhaseFacts
    <3> QED  BY <3>1, <3>2 DEF Moves
  <2>4. CASE SetOriginal(Loader)
    BY <2>4, <2>a DEF SetOriginal
  <2>5. CASE Begin(Loader)
    BY <2>5, <2>a DEF Begin
  <2>6. CASE InitAttach(Loader)
    BY <2>6, <2>a DEF InitAttach
  <2>c. ASSUME NEW op \in {"attach", "detour"}, At(Loader, op), dll' = dll PROVE Moves
    <3>1. dll = "loading"
      BY <2>c, PhaseFacts
    <3> QED  BY <2>c, <3>1 DEF Moves
  <2>7. CASE Attach(Loader) \/ Detour(Loader) \/ Mark(Loader)
    <3>1. /\ dll' = dll
          /\ \/ At(Loader, "attach") \/ At(Loader, "detour")
             \/ At(Loader, "mark") /\ Continue(Loader)
      BY <2>7 DEF Attach, Detour, Mark
    <3> QED  BY <2>a, <2>c, <3>1
  <2>8. CASE Commit(Loader)
    BY <2>8, <2>a DEF Commit
  <2>9. CASE Detach(Loader)
    BY <2>9, <2>a DEF Detach
  <2>10. CASE CommitTerm(Loader)
    BY <2>10, <2>a DEF CommitTerm
  <2>11. CASE CommitInit(Loader)
    <3>1. /\ At(Loader, "hook_init")
          /\ \/ Continue(Loader) /\ dll' = dll
             \/ dll' = "leaving" /\ todo' = [todo EXCEPT ![Loader] = Detaching]
      BY <2>11 DEF CommitInit
    <3>2. dll = "loading"
      BY <3>1, PhaseFacts
    <3> QED  BY <1>a, <2>a, <3>1, <3>2 DEF Moves, Up
  <2>12. CASE Unmap(Loader)
    <3>1. At(Loader, "unmap") /\ Continue(Loader) /\ dll' = "gone"
      BY <2>12 DEF Unmap
    <3>2. dll = "leaving" /\ todo[Loader] = Committed
      BY <3>1, PhaseFacts
    <3>3. todo'[Loader] = <<>>
      BY <1>a, <3>1, <3>2, Continues, DetachingFacts
    <3> QED  BY <3>1, <3>2, <3>3 DEF Moves
  <2> QED  BY <1>5, <2>1, <2>2, <2>3, <2>4, <2>5, <2>6, <2>7, <2>8, <2>9, <2>10, <2>11, <2>12
           DEF Run
<1> QED
  BY <1>1, <1>2, <1>3, <1>4, <1>5 DEF Next, All

LEMMA StepPhases ==
  ASSUME IInv, Next
  PROVE  Phases'
<1>1. Moves /\ Phases /\ Loader \in All
  BY StepMoves DEF IInv, All
<1>2. ASSUME dll' = "loading", NEW i \in 1 .. Len(todo'[Loader])
      PROVE  todo'[Loader][i].op \notin {"detach", "hook_term", "unmap"}
  <2>1. dll = "loading"
    BY <1>1, <1>2 DEF Moves, Up
  <2>2. CASE \E j \in 1 .. Len(todo[Loader]) : todo'[Loader][i] = todo[Loader][j]
    BY <1>1, <2>1, <2>2 DEF Phases
  <2>3. CASE NewItem(Loader, todo'[Loader][i])
    BY <1>2, <2>3 DEF NewItem
  <2> QED  BY <1>1, <1>2, <2>2, <2>3, StepItems
<1>3. dll' = "loaded" => todo'[Loader] = <<>>
  BY <1>1 DEF Moves, Phases
<1>4. dll' = "leaving" => todo'[Loader] \in {Detaching, Begun, Detached, Committed}
  BY <1>1 DEF Moves, Phases
<1>5. dll' = "gone" => todo'[Loader] = <<>>
  BY <1>1 DEF Moves, Phases
<1> QED
  BY <1>2, <1>3, <1>4, <1>5 DEF Phases

-----------------------------------------------------------------------------
(* The types of what the hooks and the library have.                        *)
HookTypes ==
  /\ hooked \in [system -> BOOLEAN] /\ orig \in [system -> {"function", "trampoline"}]
  /\ live \subseteq system /\ owner \in All \cup {None} /\ pending \subseteq system
  /\ error \in BOOLEAN
  /\ owner = None => pending = {}

LEMMA TypeParts ==
  ASSUME TypeOK
  PROVE  /\ HookTypes /\ lost \in BOOLEAN /\ busy \in BOOLEAN
         /\ static \in [Statics -> {"no", "busy", "done"}] /\ section \in All \cup {None}
         /\ dll \in {"loading", "loaded", "leaving", "gone"}
BY DEF TypeOK, HookTypes

LEMMA AttachItem ==
  ASSUME IInv, NEW t \in All, NEW op \in {"attach", "detour", "mark"}, At(t, op)
  PROVE  Name(t) \in system
<1>1. 1 \in 1 .. Len(todo[t]) /\ todo[t][1].op = op /\ todo[t][1].at = Name(t)
  BY HeadFacts
<1> QED
  BY <1>1 DEF IInv, Owning

LEMMA DetourTypes ==
  ASSUME HookTypes, NEW t \in All, NEW f \in system, NEW ok \in BOOLEAN, DetourAttach(t, f, ok)
  PROVE  pending' \subseteq system /\ owner' = owner /\ error' \in BOOLEAN
         /\ (owner' = None => pending' = {})
<1>1. owner' = owner /\ pending' = (IF ok THEN pending \cup {f} ELSE pending)
      /\ (ok => owner = t)
  BY DEF DetourAttach
<1>2. None # t
  BY HookInstallAssumption DEF All
<1>3. error' \in BOOLEAN
  BY Zenon DEF DetourAttach
<1>4. pending \subseteq system /\ (owner = None => pending = {})
  BY DEF HookTypes
<1>5. CASE ok
  BY <1>1, <1>2, <1>3, <1>4, <1>5
<1>6. CASE ~ok
  <2>1. pending' = pending
    BY <1>1, <1>6
  <2> QED  BY <1>1, <1>3, <1>4, <2>1
<1> QED
  BY <1>5, <1>6

LEMMA EndsTypes ==
  ASSUME HookTypes, NEW t \in All, Ends(t)
  PROVE  pending' \subseteq system /\ owner' \in All \cup {None} /\ error' \in BOOLEAN
         /\ (owner' = None => pending' = {})
<1>1. error' \in BOOLEAN
  BY Zenon DEF Ends
<1>2. /\ owner' = (IF owner = t THEN None ELSE owner)
      /\ pending' = (IF owner = t THEN {} ELSE pending)
  BY DEF Ends
<1>3. pending \subseteq system /\ owner \in All \cup {None} /\ (owner = None => pending = {})
  BY DEF HookTypes
<1>4. CASE owner = t
  BY <1>1, <1>2, <1>3, <1>4
<1>5. CASE owner # t
  <2>1. owner' = owner /\ pending' = pending
    BY <1>2, <1>5
  <2> QED  BY <1>1, <1>3, <2>1
<1> QED
  BY <1>4, <1>5

LEMMA StepHookTypes ==
  ASSUME IInv, Next
  PROVE  HookTypes' /\ system' = system /\ lost' \in BOOLEAN /\ busy' \in BOOLEAN
<1>a. HookTypes /\ lost \in BOOLEAN /\ busy \in BOOLEAN
  BY TypeParts DEF IInv
<1> DEFINE Goal == HookTypes' /\ system' = system /\ lost' \in BOOLEAN /\ busy' \in BOOLEAN
<1>b. ASSUME UNCHANGED <<system, hooks, detours>>, lost' \in BOOLEAN, busy' \in BOOLEAN PROVE Goal
  BY <1>a, <1>b DEF HookTypes, hooks, detours
<1>1. CASE Loaded
  BY <1>1, <1>a, <1>b DEF Loaded, history
<1>2. CASE Unload
  <2>1. busy' \in BOOLEAN /\ lost' \in BOOLEAN
    BY <1>2, <1>a, Zenon DEF Unload
  <2>2. UNCHANGED <<system, hooks, detours>>
    BY <1>2 DEF Unload
  <2> QED  BY <1>b, <2>1, <2>2
<1>3. ASSUME NEW t \in Threads, Call(t) PROVE Goal
  <2>1. busy' \in BOOLEAN /\ lost' \in BOOLEAN
    BY <1>3, <1>a, Zenon DEF Call
  <2>2. UNCHANGED <<system, hooks, detours>>
    BY <1>3 DEF Call
  <2> QED  BY <1>b, <2>1, <2>2
<1>4. ASSUME NEW t \in All, Run(t) PROVE Goal
  <2>1. CASE Inner(t) \/ Static(t) \/ Done(t)
    BY <2>1, <1>a, <1>b DEF Inner, Static, Done, history
  <2>2. CASE Enter(t) \/ Leave(t) \/ Hook(t) \/ DemandExport(t)
    BY <2>2, <1>a, <1>b DEF Enter, Leave, Hook, DemandExport, history
  <2>3. CASE SetOriginal(t)
    <3>1. /\ orig' = [f \in system |-> IF f = Name(t) THEN "function" ELSE orig[f]]
          /\ UNCHANGED <<system, hooked, live, detours, lost, busy>>
      BY <2>3 DEF SetOriginal, history
    <3> QED  BY <1>a, <3>1 DEF HookTypes, detours
  <2>4. CASE Begin(t)
    <3>1. /\ UNCHANGED <<system, hooks, lost, busy>>
          /\ IF owner = None THEN owner' = t /\ pending' = {} /\ error' = FALSE
             ELSE UNCHANGED detours
      BY <2>4 DEF Begin, history
    <3> QED  BY <1>a, <3>1 DEF HookTypes, detours, hooks
  <2>5. CASE InitAttach(t)
    <3>1. UNCHANGED <<system, orig, live, lost, busy>>
      BY <2>5 DEF InitAttach, history
    <3>2. CASE Name(t) \in system
      <4>1. PICK ok \in BOOLEAN : /\ DetourAttach(t, Name(t), ok)
                                 /\ hooked' = [hooked EXCEPT ![Name(t)] = ok]
        BY <2>5, <3>2 DEF InitAttach
      <4>2. /\ pending' \subseteq system /\ owner' = owner /\ error' \in BOOLEAN
            /\ (owner' = None => pending' = {})
        BY <1>a, <3>2, <4>1, DetourTypes
      <4>3. hooked' \in [system -> BOOLEAN]
        BY <1>a, <3>2, <4>1 DEF HookTypes
      <4> QED  BY <1>a, <3>1, <4>2, <4>3 DEF HookTypes
    <3>3. CASE Name(t) \notin system
      <4>1. UNCHANGED <<hooked, detours>>
        BY <2>5, <3>3 DEF InitAttach
      <4> QED  BY <1>a, <3>1, <4>1 DEF HookTypes, detours
    <3> QED  BY <3>2, <3>3
  <2>6. CASE Attach(t)
    BY <2>6, <1>a, <1>b DEF Attach, history
  <2>11. CASE Detour(t)
    <3>1. UNCHANGED <<system, hooked, orig, live, busy>> /\ Name(t) \in system
      BY <2>11, AttachItem DEF Detour, hooks
    <3>2. PICK ok \in BOOLEAN : DetourAttach(t, Name(t), ok) /\ lost' = (lost \/ ~ok)
      BY <2>11 DEF Detour
    <3>3. /\ pending' \subseteq system /\ owner' = owner /\ error' \in BOOLEAN
          /\ (owner' = None => pending' = {})
      BY <1>a, <3>1, <3>2, DetourTypes
    <3>4. lost' \in BOOLEAN
      BY <3>2, Zenon
    <3> QED  BY <1>a, <3>1, <3>3, <3>4 DEF HookTypes
  <2>12. CASE Mark(t)
    <3>1. /\ UNCHANGED <<system, orig, live, owner, pending, error, lost, busy>>
          /\ hooked' = [hooked EXCEPT ![Name(t)] = TRUE] /\ Name(t) \in system
      BY <2>12, AttachItem DEF Mark, detours, history
    <3> QED  BY <1>a, <3>1 DEF HookTypes
  <2>7. CASE Commit(t) \/ CommitInit(t)
    <3>1. CommitAttach(t) /\ UNCHANGED <<system, hooked, lost, busy>>
      BY <2>7 DEF Commit, CommitInit, history
    <3>2. /\ pending' \subseteq system /\ owner' \in All \cup {None} /\ error' \in BOOLEAN
          /\ (owner' = None => pending' = {})
      BY <1>a, <3>1, EndsTypes DEF CommitAttach
    <3>3. /\ live' = (IF Failed(t) THEN live ELSE live \cup pending)
          /\ orig' = [f \in system |-> IF f \in live' \ live THEN "trampoline" ELSE orig[f]]
      BY <3>1 DEF CommitAttach
    <3>4. live' \subseteq system /\ orig' \in [system -> {"function", "trampoline"}]
      BY <1>a, <3>3 DEF HookTypes
    <3> QED  BY <1>a, <3>1, <3>2, <3>4 DEF HookTypes
  <2>8. CASE Detach(t)
    <3>1. /\ UNCHANGED <<system, orig, live, owner, lost, busy>>
          /\ hooked' = [f \in system |-> FALSE]
          /\ pending' = IF owner = t THEN Marked \cap Detachable ELSE pending
          /\ error' = (error \/ (owner = t /\ ~(Marked \subseteq Detachable)))
      BY <2>8 DEF Detach, Marked, history
    <3>2. error' \in BOOLEAN
      BY <3>1, Zenon
    <3>3. None # t
      BY HookInstallAssumption DEF All
    <3>4. pending' \subseteq system /\ (owner' = None => pending' = {})
      BY <1>a, <3>1, <3>3 DEF HookTypes, Marked
    <3>5. hooked' \in [system' -> BOOLEAN]
      BY <3>1
    <3>6. /\ orig' \in [system' -> {"function", "trampoline"}] /\ live' \subseteq system'
          /\ owner' \in All \cup {None} /\ pending' \subseteq system'
      BY <1>a, <3>1, <3>4 DEF HookTypes
    <3> QED  BY <1>a, <3>1, <3>2, <3>4, <3>5, <3>6 DEF HookTypes
  <2>9. CASE CommitTerm(t)
    <3>1. /\ Ends(t) /\ UNCHANGED <<system, hooked, lost, busy>>
          /\ live' = (IF Failed(t) THEN live ELSE live \ pending)
          /\ orig' = [f \in system |-> IF f \in live \ live' THEN "function" ELSE orig[f]]
      BY <2>9 DEF CommitTerm, history
    <3>2. /\ pending' \subseteq system /\ owner' \in All \cup {None} /\ error' \in BOOLEAN
          /\ (owner' = None => pending' = {})
      BY <1>a, <3>1, EndsTypes
    <3>4. live' \subseteq system /\ orig' \in [system -> {"function", "trampoline"}]
      BY <1>a, <3>1 DEF HookTypes
    <3> QED  BY <1>a, <3>1, <3>2, <3>4 DEF HookTypes
  <2>10. CASE Unmap(t)
    BY <2>10, <1>a, <1>b DEF Unmap, history
  <2> QED  BY <1>4, <2>1, <2>2, <2>3, <2>4, <2>5, <2>6, <2>7, <2>8, <2>9, <2>10, <2>11, <2>12 DEF Run
<1> QED
  BY <1>1, <1>2, <1>3, <1>4 DEF Next

LEMMA StepCode ==
  ASSUME IInv, Next
  PROVE  static' \in [Statics -> {"no", "busy", "done"}] /\ section' \in All \cup {None}
<1> DEFINE Goal == static' \in [Statics -> {"no", "busy", "done"}] /\ section' \in All \cup {None}
<1>a. static \in [Statics -> {"no", "busy", "done"}] /\ section \in All \cup {None}
  BY TypeParts DEF IInv
<1>b. ASSUME UNCHANGED code PROVE Goal
  BY <1>a, <1>b DEF code
<1>1. CASE Loaded \/ Unload \/ \E t \in Threads : Call(t)
  BY <1>1, <1>b DEF Loaded, Unload, Call
<1>2. ASSUME NEW t \in All, Run(t) PROVE Goal
  <2>1. CASE Static(t)
    <3>1. /\ static' = static \/ static' = [static EXCEPT ![Name(t)] = "busy"]
          /\ section' = section
      BY <2>1 DEF Static
    <3> QED  BY <1>a, <3>1
  <2>2. CASE Done(t)
    <3>1. static' = [static EXCEPT ![Name(t)] = "done"] /\ section' = section
      BY <2>2 DEF Done
    <3> QED  BY <1>a, <3>1
  <2>3. CASE Enter(t) \/ Leave(t)
    <3>1. static' = static /\ section' \in {t, None}
      BY <2>3 DEF Enter, Leave
    <3> QED  BY <1>a, <3>1
  <2>4. CASE Inner(t) \/ Hook(t) \/ DemandExport(t) \/ SetOriginal(t) \/ Begin(t)
    BY <2>4, <1>b DEF Inner, Hook, DemandExport, SetOriginal, Begin
  <2>5. CASE InitAttach(t) \/ Attach(t) \/ Detour(t) \/ Mark(t) \/ Commit(t) \/ CommitInit(t)
    BY <2>5, <1>b DEF InitAttach, Attach, Detour, Mark, Commit, CommitInit
  <2>6. CASE Detach(t) \/ CommitTerm(t) \/ Unmap(t)
    BY <2>6, <1>b DEF Detach, CommitTerm, Unmap
  <2> QED  BY <1>2, <2>1, <2>2, <2>3, <2>4, <2>5, <2>6 DEF Run
<1> QED
  BY <1>1, <1>2 DEF Next

LEMMA StepType ==
  ASSUME IInv, Next
  PROVE  TypeOK'
<1>1. HookTypes' /\ lost' \in BOOLEAN /\ busy' \in BOOLEAN
  BY StepHookTypes
<1>2. static' \in [Statics -> {"no", "busy", "done"}] /\ section' \in All \cup {None}
  BY StepCode
<1>3. dll' \in {"loading", "loaded", "leaving", "gone"}
  BY StepMoves DEF Moves, IInv, TypeOK
<1>4. ASSUME NEW t \in All, NEW i \in DOMAIN todo'[t] PROVE todo'[t][i].op \in Ops
  <2>1. todo'[t] \in Seq(AnItem)
    BY StepOrderly DEF Orderly
  <2>2. todo'[t][i] \in AnItem
    BY <1>4, <2>1
  <2> QED  BY <2>2 DEF AnItem, ThreadItem, LoaderItem, Kind, Ops
<1> QED
  BY <1>1, <1>2, <1>3, <1>4 DEF TypeOK, HookTypes

-----------------------------------------------------------------------------
(* The transaction of a thread lasts until the thread ends it.              *)
LEMMA TransGoes ==
  ASSUME IInv, NEW t \in All, NEW op \in {"begin", "init", "attach", "detour", "mark", "detach"}, At(t, op),
         Continue(t)
  PROVE  todo'[t] # <<>> /\ todo'[t][1].op \in TransOps
<1> DEFINE s == todo[t]
<1>1. s \in Seq(AnItem) /\ s # <<>> /\ s[1].op = op /\ 1 \in 1 .. Len(s)
  BY HeadFacts
<1>2. Follows(s)
  BY HeadFacts DEF All, ThreadSeq, LoaderSeq
<1>3. todo'[t] = Tail(s)
  BY Continues
<1> HIDE DEF s
<1>4. 1 + 1 \in 1 .. Len(s) /\ s[1 + 1].op \in TransOps
  BY <1>1, <1>2 DEF Follows
<1>5. Len(Tail(s)) = Len(s) - 1 /\ Tail(s)[1] = s[1 + 1]
  <2>1. /\ Len(s) \in Nat \ {0} /\ Len(Tail(s)) = Len(s) - 1
        /\ \A j \in 1 .. Len(s) - 1 : Tail(s)[j] = s[j + 1]
    BY <1>1, TailFacts
  <2>2. 1 \in 1 .. Len(s) - 1
    BY <1>4, <2>1
  <2> QED  BY <2>1, <2>2
<1>6. Tail(s) # <<>>
  <2>1. Len(s) \in Nat /\ Tail(s) \in Seq(AnItem)
    BY <1>1, TailFacts
  <2>2. Len(s) - 1 # 0
    BY <1>4, <2>1
  <2>3. Len(Tail(s)) # 0
    BY <1>5, <2>2, Zenon
  <2> QED  BY <2>3, EmptySeq
<1> QED
  BY <1>3, <1>4, <1>5, <1>6

LEMMA StepOwning ==
  ASSUME IInv, Next
  PROVE  Owning'
<1>a. /\ owner \in All \cup {None} /\ None \notin All /\ Loader \notin Threads
      /\ owner # None => todo[owner] # <<>> /\ todo[owner][1].op \in TransOps
      /\ \A t \in All : \A i \in 1 .. Len(todo[t]) :
           todo[t][i].op \in {"attach", "detour", "mark"} => todo[t][i].at \in system
  BY HookInstallAssumption, TypeParts DEF IInv, HookTypes, Owning, All
<1> DEFINE Goal == owner' # None => todo'[owner'] # <<>> /\ todo'[owner'][1].op \in TransOps
<1>b. ASSUME owner' = owner, owner # None => todo'[owner] = todo[owner] PROVE Goal
  BY <1>a, <1>b
<1>c. todo \in [All -> Seq(AnItem)]
  BY DEF IInv, Orderly
<1>1. ASSUME Loaded PROVE Goal
  BY <1>1, <1>b DEF Loaded, detours
<1>2. ASSUME Unload PROVE Goal
  <2>1. dll = "loaded" /\ owner' = owner /\ todo' = [todo EXCEPT ![Loader] = Detaching]
    BY <1>2 DEF Unload, detours
  <2>2. owner # Loader
    BY <1>a, <2>1 DEF IInv, Phases, All
  <2> QED  BY <1>a, <1>b, <1>c, <2>1, <2>2
<1>3. ASSUME NEW t \in Threads, Call(t) PROVE Goal
  <2>1. owner' = owner /\ todo[t] = <<>> /\ \E f \in live : todo' = [todo EXCEPT ![t] = IMPL(f)]
    BY <1>3 DEF Call, detours
  <2>2. owner # t
    BY <1>a, <2>1 DEF All
  <2> QED  BY <1>a, <1>b, <1>c, <2>1, <2>2
<1>4. ASSUME NEW t \in All, Run(t) PROVE Goal
  <2>a. \A u \in All \ {t} : todo'[u] = todo[u]
    BY <1>4, RunFacts
  <2>b. ASSUME owner' = owner, owner # t PROVE Goal
    BY <1>a, <1>b, <2>a, <2>b
  <2>c. ASSUME NEW op \in {"call", "static", "done", "enter", "leave", "hook", "demand", "set",
                            "unmap"},
               At(t, op), owner' = owner
        PROVE  Goal
    <3>1. todo[t][1].op = op
      BY <2>c, HeadFacts
    <3>2. op \notin TransOps
      BY DEF TransOps
    <3>3. owner # t
      BY <1>a, <3>1, <3>2
    <3> QED  BY <2>b, <2>c, <3>3
  <2>d. ASSUME NEW op \in {"begin", "init", "attach", "detour", "mark", "detach"}, At(t, op), Continue(t),
               owner' \in {owner, t}
        PROVE  Goal
    <3>1. todo'[t] # <<>> /\ todo'[t][1].op \in TransOps
      BY <2>d, TransGoes
    <3>2. CASE owner' = t
      BY <3>1, <3>2
    <3>3. CASE owner' # t
      BY <2>b, <2>d, <3>3
    <3> QED  BY <3>2, <3>3
  <2>f. ASSUME NEW op \in {"attach", "detour"}, NEW next \in {"detour", "mark"},
               Swaps(t, op, next), owner' = owner
        PROVE  Goal
    <3>1. todo'[t] # <<>> /\ todo'[t][1].op \in TransOps
      <4>1. todo'[t] # <<>> /\ todo'[t][1] = [op |-> next, at |-> Name(t)]
        BY <2>f, SwapGoes
      <4>2. todo'[t][1].op = next
        BY <4>1
      <4> QED  BY <4>1, <4>2 DEF TransOps
    <3>2. CASE owner = t
      <4>1. owner' = t
        BY <2>f, <3>2
      <4> QED  BY <3>1, <4>1
    <3>3. CASE owner # t
      BY <2>b, <2>f, <3>3
    <3> QED  BY <3>2, <3>3
  <2>e. ASSUME Ends(t) PROVE Goal
    <3>1. owner' = IF owner = t THEN None ELSE owner
      BY <2>e DEF Ends
    <3> QED  BY <2>b, <3>1
  <2> HIDE DEF Goal
  <2>1. CASE Inner(t)
    BY <2>1, <2>c DEF Inner, detours
  <2>2. CASE Static(t)
    BY <2>2, <2>c DEF Static, detours
  <2>3. CASE Done(t)
    BY <2>3, <2>c DEF Done, detours
  <2>4. CASE Enter(t)
    BY <2>4, <2>c DEF Enter, detours
  <2>5. CASE Leave(t)
    BY <2>5, <2>c DEF Leave, detours
  <2>6. CASE Hook(t)
    BY <2>6, <2>c DEF Hook, detours
  <2>7. CASE DemandExport(t)
    BY <2>7, <2>c DEF DemandExport, detours
  <2>8. CASE SetOriginal(t)
    BY <2>8, <2>c DEF SetOriginal, detours
  <2>9. CASE Begin(t)
    <3>1. At(t, "begin") /\ Continue(t) /\ owner' \in {owner, t}
      BY <2>9 DEF Begin, detours
    <3> QED  BY <3>1, <2>d
  <2>10. CASE InitAttach(t)
    <3>1. At(t, "init") /\ Continue(t) /\ owner' \in {owner, t}
      BY <2>10 DEF InitAttach, DetourAttach, detours
    <3> QED  BY <3>1, <2>d
  <2>11. CASE Attach(t) \/ Detour(t) \/ Mark(t)
    <3>1. /\ owner' = owner
          /\ \/ Swaps(t, "attach", "detour")
             \/ Swaps(t, "detour", "mark")
             \/ At(t, "attach") /\ Continue(t)
             \/ At(t, "mark") /\ Continue(t)
      BY <2>11 DEF Attach, Detour, Mark, Swaps, DetourAttach, detours
    <3> QED  BY <3>1, <2>d, <2>f
  <2>12. CASE Detach(t)
    <3>1. At(t, "detach") /\ Continue(t) /\ owner' \in {owner, t}
      BY <2>12 DEF Detach
    <3> QED  BY <3>1, <2>d
  <2>13. CASE Commit(t) \/ CommitInit(t)
    BY <2>13, <2>e DEF Commit, CommitInit, CommitAttach
  <2>14. CASE CommitTerm(t)
    BY <2>14, <2>e DEF CommitTerm
  <2>15. CASE Unmap(t)
    BY <2>15, <2>c DEF Unmap, detours
  <2> QED  BY <1>4, <2>1, <2>2, <2>3, <2>4, <2>5, <2>6, <2>7, <2>8, <2>9, <2>10, <2>11, <2>12,
              <2>13, <2>14, <2>15 DEF Run
<1>5. Goal
  BY <1>1, <1>2, <1>3, <1>4 DEF Next
<1>6. ASSUME NEW t \in All, NEW i \in 1 .. Len(todo'[t]),
             todo'[t][i].op \in {"attach", "detour", "mark"}
      PROVE  todo'[t][i].at \in system'
  <2>1. system' = system
    BY StepHookTypes
  <2>2. (\E j \in 1 .. Len(todo[t]) : todo'[t][i] = todo[t][j]) \/ NewItem(t, todo'[t][i])
    BY <1>6, StepItems
  <2> QED  BY <1>a, <1>6, <2>1, <2>2 DEF NewItem
<1> QED
  BY <1>5, <1>6 DEF Owning

-----------------------------------------------------------------------------
(* The steps that the hooks, the library's transaction and the losses are   *)
(* not left alone by.                                                       *)
Quiet == UNCHANGED <<system, hooks, detours, lost>>
Touches(t) ==
  \/ SetOriginal(t) \/ Begin(t) \/ InitAttach(t) \/ Detour(t) \/ Mark(t)
  \/ Commit(t) \/ CommitInit(t) \/ Detach(t) \/ CommitTerm(t)

LEMMA QuietSteps ==
  ASSUME Next
  PROVE  Quiet \/ \E t \in All : Touches(t)
<1>1. CASE Loaded \/ Unload \/ \E t \in Threads : Call(t)
  BY <1>1 DEF Loaded, Unload, Call, Quiet, history
<1>2. ASSUME NEW t \in All, Run(t) PROVE Quiet \/ Touches(t)
  <2>1. CASE Inner(t) \/ Static(t) \/ Done(t) \/ Enter(t) \/ Leave(t)
    BY <2>1 DEF Inner, Static, Done, Enter, Leave, Quiet, history
  <2>2. CASE Hook(t) \/ DemandExport(t) \/ Attach(t) \/ Unmap(t)
    BY <2>2 DEF Hook, DemandExport, Attach, Unmap, Quiet, history
  <2> QED  BY <1>2, <2>1, <2>2 DEF Run, Touches
<1> QED
  BY <1>1, <1>2 DEF Next

(* DetourAttach succeeds in the thread's own transaction, or changes        *)
(* nothing but that transaction's error.                                    *)
LEMMA AttachFacts ==
  ASSUME NEW t, NEW f, NEW ok \in BOOLEAN, error \in BOOLEAN, DetourAttach(t, f, ok)
  PROVE  /\ owner' = owner
         /\ ok => owner = t /\ f \notin live /\ pending' = pending \cup {f} /\ error' = error
         /\ ~ok => pending' = pending
         /\ owner # t => error' = error
<1>1. /\ owner' = owner /\ (ok => owner = t /\ f \notin live)
      /\ pending' = IF ok THEN pending \cup {f} ELSE pending
  BY DEF DetourAttach
<1>2. /\ ok => error' = error
      /\ owner # t => error' = error
  BY Zenon DEF DetourAttach
<1> QED
  BY <1>1, <1>2

LEMMA MarkFacts ==
  ASSUME hooked \in [system -> BOOLEAN], system' = system, NEW f \in system, NEW mark \in BOOLEAN,
         hooked' = [hooked EXCEPT ![f] = mark]
  PROVE  Marked' = IF mark THEN Marked \cup {f} ELSE Marked \ {f}
<1>1. \A h \in system : hooked'[h] = IF h = f THEN mark ELSE hooked[h]
  OBVIOUS
<1> QED
  BY <1>1 DEF Marked

(* hook_init marks a function or not, hook_demand marks it.                 *)
Tries(t, f, ok) ==
  /\ DetourAttach(t, f, ok) /\ hooked' = [hooked EXCEPT ![f] = ok]
  /\ Marked' = IF ok THEN Marked \cup {f} ELSE Marked \ {f}
InitTries(t) ==
  \/ UNCHANGED <<hooked, detours, Marked>>
  \/ Name(t) \in system /\ \E ok \in BOOLEAN : Tries(t, Name(t), ok)

LEMMA InitAttachFacts ==
  ASSUME IInv, NEW t \in All, InitAttach(t)
  PROVE  /\ At(t, "init") /\ Continue(t) /\ t = Loader /\ Name(t) \in GdiFunctions
         /\ UNCHANGED <<system, dll, orig, live, lost, busy>> /\ InitTries(t)
<1>1. /\ At(t, "init") /\ Continue(t) /\ UNCHANGED <<system, dll, orig, live, lost, busy>>
  BY DEF InitAttach, history
<1>2. t = Loader /\ Name(t) \in GdiFunctions
  BY <1>1, WhoFacts
<1>3. hooked \in [system -> BOOLEAN]
  BY TypeParts DEF IInv, HookTypes
<1>4. CASE Name(t) \notin system
  <2>1. UNCHANGED <<hooked, detours>>
    BY <1>4 DEF InitAttach
  <2> QED  BY <1>1, <1>2, <2>1 DEF InitTries, Marked
<1>5. CASE Name(t) \in system
  <2>1. PICK ok \in BOOLEAN : /\ DetourAttach(t, Name(t), ok)
                             /\ hooked' = [hooked EXCEPT ![Name(t)] = ok]
    BY <1>5 DEF InitAttach
  <2>2. Marked' = IF ok THEN Marked \cup {Name(t)} ELSE Marked \ {Name(t)}
    BY <1>1, <1>3, <1>5, <2>1, MarkFacts
  <2> QED  BY <1>1, <1>2, <1>5, <2>1, <2>2 DEF InitTries, Tries
<1> QED
  BY <1>4, <1>5

LEMMA AttachedName ==
  ASSUME IInv, NEW t \in All, NEW op \in {"detour", "mark"}, At(t, op)
  PROVE  Name(t) \in system /\ Name(t) \notin GdiFunctions
<1>1. Name(t) \in system
  BY AttachItem
<1>2. Name(t) \in Methods \cup Manual
  BY WhoFacts DEF All
<1> QED
  BY <1>1, <1>2 DEF Methods, InitializedMethods, DrawMethods, Shared, Manual, GdiFunctions

LEMMA DetourFacts ==
  ASSUME IInv, NEW t \in All, Detour(t)
  PROVE  /\ At(t, "detour") /\ Swaps(t, "detour", "mark")
         /\ Name(t) \in system /\ Name(t) \notin GdiFunctions
         /\ UNCHANGED <<system, dll, hooked, orig, live, busy, Marked>>
         /\ \E ok \in BOOLEAN : DetourAttach(t, Name(t), ok) /\ lost' = (lost \/ ~ok)
         /\ Marking(t)' = {Name(t)}
<1> DEFINE f == Name(t)
<1>1. /\ At(t, "detour") /\ Swaps(t, "detour", "mark")
      /\ UNCHANGED <<system, dll, hooked, orig, live, busy>>
      /\ \E ok \in BOOLEAN : DetourAttach(t, f, ok) /\ lost' = (lost \/ ~ok)
  BY DEF Detour, Swaps, hooks
<1>2. Marked' = Marked
  BY <1>1 DEF Marked
<1>3. f \in system /\ f \notin GdiFunctions
  BY <1>1, AttachedName
<1>4. todo'[t] # <<>> /\ todo'[t][1] = [op |-> "mark", at |-> f]
  BY <1>1, SwapGoes
<1> HIDE DEF f
<1>5. ASSUME NEW h PROVE todo'[t][1] = [op |-> "mark", at |-> h] <=> h = f
  <2>1. [op |-> "mark", at |-> h].at = h /\ [op |-> "mark", at |-> f].at = f
    OBVIOUS
  <2> QED  BY <1>4, <2>1
<1>6. Marking(t)' = {f}
  BY <1>1, <1>3, <1>4, <1>5 DEF Marking
<1> QED
  BY <1>1, <1>2, <1>3, <1>6 DEF f

LEMMA MarkStepFacts ==
  ASSUME IInv, NEW t \in All, Mark(t)
  PROVE  /\ At(t, "mark") /\ Continue(t)
         /\ Name(t) \in system /\ Name(t) \notin GdiFunctions
         /\ UNCHANGED <<system, dll, orig, live, owner, pending, error, lost, busy>>
         /\ Marked' = Marked \cup {Name(t)} /\ Marking(t) = {Name(t)}
<1>1. /\ At(t, "mark") /\ Continue(t)
      /\ UNCHANGED <<system, dll, orig, live, owner, pending, error, lost, busy>>
      /\ hooked' = [hooked EXCEPT ![Name(t)] = TRUE]
  BY DEF Mark, detours, history
<1>2. Name(t) \in system /\ Name(t) \notin GdiFunctions
  BY <1>1, AttachedName
<1>3. hooked \in [system -> BOOLEAN]
  BY TypeParts DEF IInv, HookTypes
<1>4. Marked' = Marked \cup {Name(t)}
  BY <1>1, <1>2, <1>3, MarkFacts
<1>5. todo[t][1] = [op |-> "mark", at |-> Name(t)] /\ todo[t] # <<>>
  <2>1. /\ todo[t][1] \in AnItem /\ todo[t] # <<>>
        /\ todo[t][1].op = "mark" /\ todo[t][1].at = Name(t)
    BY <1>1, HeadFacts DEF AnItem
  <2> QED  BY <2>1 DEF AnItem, ThreadItem, LoaderItem, Kind
<1>6. ASSUME NEW h, [op |-> "mark", at |-> Name(t)] = [op |-> "mark", at |-> h] PROVE h = Name(t)
  BY <1>6
<1>7. Marking(t) = {Name(t)}
  BY <1>2, <1>5, <1>6 DEF Marking
<1> QED
  BY <1>1, <1>2, <1>4, <1>7

(* What a thread is about to mark: what it has tried to attach, until it    *)
(* marks it.                                                                *)
LEMMA MarkingHead ==
  ASSUME IInv, NEW t \in All, NEW op, At(t, op)
  PROVE  Marking(t) \subseteq {Name(t)} /\ (op # "mark" => Marking(t) = {})
<1>1. todo[t][1].op = op /\ todo[t][1].at = Name(t)
  BY HeadFacts
<1>2. ASSUME NEW f \in Marking(t) PROVE op = "mark" /\ f = Name(t)
  <2>1. todo[t][1] = [op |-> "mark", at |-> f]
    BY <1>2 DEF Marking
  <2> QED  BY <1>1, <2>1
<1> QED
  BY <1>2

LEMMA MarkingStarts ==
  ASSUME IInv, Next, NEW t \in All, NEW f \in Marking(t)'
  PROVE  f \in Marking(t) \/ (Detour(t) /\ f = Name(t))
<1>1. /\ f \in system' /\ todo'[t] # <<>> /\ todo'[t][1] = [op |-> "mark", at |-> f]
      /\ system' = system
  BY StepHookTypes DEF Marking
<1>2. /\ todo'[t] \in Seq(AnItem)
      /\ t \in Threads => SetFirst(todo[t])
      /\ t = Loader => HeadFirst(todo[t])
  BY StepOrderly DEF IInv, Orderly, ThreadSeq, LoaderSeq
<1>3. 1 \in 1 .. Len(todo'[t])
  BY <1>1, <1>2, EmptySeq
<1>4. (\E j \in 1 .. Len(todo[t]) : todo'[t][1] = todo[t][j]) \/ NewItem(t, todo'[t][1])
  BY <1>3, StepItems
<1>5. ASSUME NEW j \in 1 .. Len(todo[t]), todo'[t][1] = todo[t][j] PROVE f \in Marking(t)
  <2>1. todo[t][j].op = "mark"
    BY <1>1, <1>5
  <2>2. j = 1
    BY <1>2, <2>1 DEF SetFirst, HeadFirst, All
  <2>3. todo[t] # <<>>
    BY <2>2
  <2> QED  BY <1>1, <1>5, <2>2, <2>3 DEF Marking
<1>6. ASSUME NewItem(t, todo'[t][1]) PROVE Detour(t) /\ f = Name(t)
  BY <1>1, <1>6 DEF NewItem
<1> QED
  BY <1>4, <1>5, <1>6

LEMMA MarkingStays ==
  ASSUME IInv, Next, NEW t \in All
  PROVE  Marking(t) \subseteq Marking(t)' \cup Marked'
<1>a. system' = system /\ todo \in [All -> Seq(AnItem)] /\ Phases
  BY StepHookTypes DEF IInv, Orderly
<1>b. ASSUME todo'[t] = todo[t] PROVE Marking(t)' = Marking(t)
  BY <1>a, <1>b DEF Marking
<1>c. ASSUME todo[t] = <<>> PROVE Marking(t) = {}
  BY <1>c DEF Marking
<1> DEFINE Goal == Marking(t) \subseteq Marking(t)' \cup Marked'
<1>1. CASE Loaded
  BY <1>1, <1>b DEF Loaded
<1>2. CASE Unload
  <2>1. todo[Loader] = <<>> /\ todo' = [todo EXCEPT ![Loader] = Detaching]
    BY <1>2, <1>a DEF Unload, Phases
  <2> QED  BY <1>a, <1>b, <1>c, <2>1
<1>3. ASSUME NEW u \in Threads, Call(u) PROVE Goal
  <2>1. todo[u] = <<>> /\ \E f \in live : todo' = [todo EXCEPT ![u] = IMPL(f)]
    BY <1>3 DEF Call
  <2> QED  BY <1>a, <1>b, <1>c, <2>1
<1>4. ASSUME NEW u \in All, Run(u), u # t PROVE Goal
  BY <1>4, <1>b, RunFacts
<1>5. ASSUME Run(t) PROVE Goal
  <2>a. ASSUME NEW op, op # "mark", At(t, op) PROVE Goal
    BY <2>a, MarkingHead
  <2> HIDE DEF Goal
  <2>1. CASE Inner(t) \/ Static(t) \/ Done(t) \/ Enter(t) \/ Leave(t) \/ Hook(t)
    BY <2>1, <2>a DEF Inner, Static, Done, Enter, Leave, Hook
  <2>2. CASE DemandExport(t) \/ SetOriginal(t) \/ Begin(t) \/ InitAttach(t) \/ Attach(t) \/ Detour(t)
    BY <2>2, <2>a DEF DemandExport, SetOriginal, Begin, InitAttach, Attach, Detour
  <2>3. CASE Commit(t) \/ CommitInit(t) \/ Detach(t) \/ CommitTerm(t) \/ Unmap(t)
    BY <2>3, <2>a DEF Commit, CommitInit, Detach, CommitTerm, Unmap
  <2>4. CASE Mark(t)
    <3>1. Marked' = Marked \cup {Name(t)} /\ At(t, "mark")
      BY <2>4, MarkStepFacts
    <3> QED  BY <3>1, MarkingHead DEF Goal
  <2> QED  BY <1>5, <2>1, <2>2, <2>3, <2>4 DEF Run
<1> QED
  BY <1>1, <1>2, <1>3, <1>4, <1>5 DEF Next

(* The other steps.                                                         *)
LEMMA CommitFacts ==
  ASSUME IInv, NEW t \in All, Commit(t) \/ CommitInit(t)
  PROVE  /\ owner' = IF owner = t THEN None ELSE owner
         /\ pending' = IF owner = t THEN {} ELSE pending
         /\ live' = IF Failed(t) THEN live ELSE live \cup pending
         /\ orig' = [f \in system |-> IF f \in live' \ live THEN "trampoline" ELSE orig[f]]
         /\ error' = (error /\ owner # t)
         /\ UNCHANGED <<system, hooked, lost, busy, Marked>>
<1>1. CommitAttach(t) /\ UNCHANGED <<system, hooked, lost, busy>>
  BY DEF Commit, CommitInit, history
<1>2. Marked' = Marked
  BY <1>1 DEF Marked
<1> QED
  BY <1>1, <1>2 DEF CommitAttach, Ends

LEMMA DetachFacts ==
  ASSUME IInv, NEW t \in All, Detach(t)
  PROVE  /\ t = Loader /\ dll = "leaving" /\ todo[Loader] = Begun /\ todo'[Loader] = Detached
         /\ pending' = IF owner = t THEN Marked \cap Detachable ELSE pending
         /\ error' = (error \/ (owner = t /\ ~(Marked \subseteq Detachable)))
         /\ UNCHANGED <<system, dll, orig, live, owner, lost, busy>>
<1>1. /\ At(t, "detach") /\ Continue(t) /\ UNCHANGED <<system, dll, orig, live, owner, lost, busy>>
      /\ pending' = IF owner = t THEN Marked \cap Detachable ELSE pending
      /\ error' = (error \/ (owner = t /\ ~(Marked \subseteq Detachable)))
  BY DEF Detach, Marked, history
<1>2. t = Loader
  BY <1>1, WhoFacts
<1>3. dll = "leaving" /\ todo[Loader] = Begun
  BY <1>1, <1>2, PhaseFacts
<1>4. todo'[Loader] = Detached
  BY <1>1, <1>2, <1>3, Continues, DetachingFacts
<1> QED
  BY <1>1, <1>2, <1>3, <1>4

LEMMA TermFacts ==
  ASSUME IInv, NEW t \in All, CommitTerm(t)
  PROVE  /\ t = Loader /\ dll = "leaving" /\ todo[Loader] = Detached /\ todo'[Loader] = Committed
         /\ owner' = IF owner = t THEN None ELSE owner
         /\ pending' = IF owner = t THEN {} ELSE pending
         /\ live' = IF Failed(t) THEN live ELSE live \ pending
         /\ orig' = [f \in system |-> IF f \in live \ live' THEN "function" ELSE orig[f]]
         /\ UNCHANGED <<system, dll, hooked, lost, busy>>
<1>1. /\ At(t, "hook_term") /\ Continue(t) /\ Ends(t) /\ UNCHANGED <<system, dll, hooked, lost, busy>>
      /\ live' = IF Failed(t) THEN live ELSE live \ pending
      /\ orig' = [f \in system |-> IF f \in live \ live' THEN "function" ELSE orig[f]]
  BY DEF CommitTerm, history
<1>2. t = Loader
  BY <1>1, WhoFacts
<1>3. dll = "leaving" /\ todo[Loader] = Detached
  BY <1>1, <1>2, PhaseFacts
<1>4. todo'[Loader] = Committed
  BY <1>1, <1>2, <1>3, Continues, DetachingFacts
<1> QED
  BY <1>1, <1>2, <1>3, <1>4 DEF Ends

LEMMA DetachingApart ==
  /\ Detaching \notin {Begun, Detached, Committed, <<>>} /\ Begun \notin {Detached, Committed, <<>>}
  /\ Detached \notin {Committed, <<>>} /\ Committed # <<>>
<1>1. Len(Detaching) = 4 /\ Len(Begun) = 3 /\ Len(Detached) = 2 /\ Len(Committed) = 1
  BY DetachingFacts
<1>2. Detaching # <<>> /\ Begun # <<>> /\ Detached # <<>> /\ Committed # <<>>
  BY DetachingFacts
<1>3. Detaching # Begun /\ Detaching # Detached /\ Detaching # Committed
  BY <1>1
<1>4. Begun # Detached /\ Begun # Committed /\ Detached # Committed
  BY <1>1
<1> QED
  BY <1>2, <1>3, <1>4, Zenon

-----------------------------------------------------------------------------
(* What is attached is marked, until hook_term has taken the marks away.    *)
LEMMA BeforeDetachFacts ==
  ASSUME IInv, Next
  PROVE  (Up' => Up) /\ (BeforeDetach' => BeforeDetach)
<1>1. Moves
  BY StepMoves
<1>2. Up' => Up
  BY <1>1 DEF Moves, Up
<1>3. todo'[Loader] \in {Detaching, Begun} => BeforeDetach
  <2>1. ASSUME todo'[Loader] \in {Detaching, Begun} PROVE BeforeDetach
    BY <1>1, <2>1, DetachingApart DEF Moves, BeforeDetach, Up
  <2> QED  BY <2>1
<1> QED
  BY <1>2, <1>3 DEF BeforeDetach

LEMMA StepAttached ==
  ASSUME IInv, Next, BeforeDetach'
  PROVE  /\ live' \subseteq Marked'
         /\ owner' # None => pending' \subseteq Marked' \cup Marking(owner)'
<1> DEFINE Goal == /\ live' \subseteq Marked'
                   /\ owner' # None => pending' \subseteq Marked' \cup Marking(owner)'
<1>a. /\ live \subseteq Marked /\ owner \in All \cup {None}
      /\ owner # None => pending \subseteq Marked \cup Marking(owner)
  BY BeforeDetachFacts, TypeParts DEF IInv, Marks, HookTypes
<1>b. error \in BOOLEAN
  BY TypeParts DEF IInv, HookTypes
<1>c. ASSUME owner' = owner, Marked \subseteq Marked', live' \subseteq live,
             owner # None => pending' \subseteq pending \cup Marked' \cup Marking(owner)'
      PROVE  Goal
  <2>1. live' \subseteq Marked'
    BY <1>a, <1>c
  <2>2. ASSUME owner # None PROVE pending' \subseteq Marked' \cup Marking(owner)'
    <3>1. Marking(owner) \subseteq Marking(owner)' \cup Marked'
      BY <1>a, <1>c, <2>2, MarkingStays DEF Marking
    <3> QED  BY <1>a, <1>c, <2>2, <3>1
  <2> QED  BY <1>c, <2>1, <2>2
<1> HIDE DEF Goal
<1>1. ASSUME Quiet PROVE Goal
  <2>1. owner' = owner /\ Marked' = Marked /\ live' = live /\ pending' = pending
    BY <1>1 DEF Quiet, hooks, detours, Marked
  <2> QED  BY <1>c, <2>1
<1>2. ASSUME NEW t \in All, SetOriginal(t) PROVE Goal
  BY <1>2, <1>c DEF SetOriginal, detours, Marked
<1>3. ASSUME NEW t \in All, Begin(t) PROVE Goal
  <2>1. UNCHANGED <<system, hooked, live>> /\ (pending' = {} \/ UNCHANGED detours)
    BY <1>3 DEF Begin, hooks, detours
  <2>2. Marked' = Marked
    BY <2>1 DEF Marked
  <2>3. CASE pending' = {}
    BY <1>a, <2>1, <2>2, <2>3 DEF Goal
  <2>4. CASE UNCHANGED detours
    BY <1>c, <2>1, <2>2, <2>4 DEF detours
  <2> QED  BY <2>1, <2>3, <2>4
<1>4. ASSUME NEW t \in All, InitAttach(t) PROVE Goal
  <2>1. live' = live /\ InitTries(t) /\ At(t, "init") /\ t = Loader
    BY <1>4, InitAttachFacts
  <2>2. CASE UNCHANGED <<hooked, detours, Marked>>
    BY <1>c, <2>1, <2>2 DEF detours
  <2>3. ASSUME NEW ok \in BOOLEAN, Tries(t, Name(t), ok) PROVE Goal
    <3> DEFINE f == Name(t)
    <3>1. /\ Marked' = IF ok THEN Marked \cup {f} ELSE Marked \ {f}
          /\ pending' = IF ok THEN pending \cup {f} ELSE pending
          /\ owner' = owner
      BY <1>b, <2>3, AttachFacts DEF Tries
    <3>2. f \notin Marked
      <4>1. 1 \in 1 .. Len(todo[Loader]) /\ todo[Loader][1].op = "init" /\ todo[Loader][1].at = f
        BY <2>1, HeadFacts
      <4> QED  BY <4>1 DEF IInv, Marks
    <3>3. Marked \subseteq Marked' /\ pending' \subseteq pending \cup Marked'
      BY <3>1, <3>2
    <3> QED  BY <1>c, <2>1, <3>1, <3>3
  <2> QED  BY <2>1, <2>2, <2>3 DEF InitTries
<1>5. ASSUME NEW t \in All, Detour(t) PROVE Goal
  <2>1. UNCHANGED <<live, Marked>> /\ Marking(t)' = {Name(t)}
    BY <1>5, DetourFacts
  <2>2. PICK ok \in BOOLEAN : DetourAttach(t, Name(t), ok)
    BY <1>5, DetourFacts
  <2>3. /\ owner' = owner /\ (ok => owner = t)
        /\ ok => pending' = pending \cup {Name(t)}
        /\ ~ok => pending' = pending
    BY <1>b, <2>2, AttachFacts
  <2>4. CASE ok
    <3>1. owner = t /\ Marking(owner)' = {Name(t)}
      BY <2>1, <2>3, <2>4 DEF Marking
    <3> QED  BY <1>c, <2>1, <2>3, <2>4, <3>1
  <2>5. CASE ~ok
    BY <1>c, <2>1, <2>3, <2>5
  <2> QED  BY <2>4, <2>5
<1>8. ASSUME NEW t \in All, Mark(t) PROVE Goal
  BY <1>8, <1>c, MarkStepFacts
<1>6. ASSUME NEW t \in All, Commit(t) \/ CommitInit(t) PROVE Goal
  <2>1. /\ Marked' = Marked /\ pending' = IF owner = t THEN {} ELSE pending
        /\ owner' = IF owner = t THEN None ELSE owner
        /\ live' = IF Failed(t) THEN live ELSE live \cup pending
    BY <1>6, CommitFacts
  <2>2. CASE owner = t
    <3>1. At(t, "commit") \/ At(t, "hook_init")
      BY <1>6 DEF Commit, CommitInit
    <3>2. Marking(t) = {}
      BY <3>1, MarkingHead
    <3>3. t # None
      BY HookInstallAssumption DEF All
    <3>4. pending \subseteq Marked
      BY <1>a, <2>2, <3>2, <3>3
    <3> QED  BY <1>a, <2>1, <2>2, <3>4 DEF Goal
  <2>3. CASE owner # t
    <3>1. owner' = owner /\ Marked' = Marked /\ live' = live /\ pending' = pending
      BY <2>1, <2>3 DEF Failed
    <3> QED  BY <1>c, <3>1
  <2> QED  BY <2>2, <2>3
<1>7. ASSUME NEW t \in All, Detach(t) \/ CommitTerm(t) PROVE FALSE
  <2>1. dll' = "leaving" /\ todo'[Loader] \in {Detached, Committed}
    BY <1>7, DetachFacts, TermFacts
  <2> QED  BY <2>1, DetachingApart DEF BeforeDetach, Up
<1>9. Goal
  BY <1>1, <1>2, <1>3, <1>4, <1>5, <1>6, <1>7, <1>8, QuietSteps DEF Touches
<1> QED
  BY <1>9 DEF Goal

(* A step marks nothing, or what a thread has just tried to attach.         *)
LEMMA MarksGrow ==
  ASSUME IInv, Next
  PROVE  \/ Marked' \subseteq Marked
         \/ \E t \in All : /\ At(t, "init") \/ At(t, "mark")
                           /\ Continue(t) /\ Marked' \subseteq Marked \cup {Name(t)}
<1> DEFINE Grows(t) == /\ At(t, "init") \/ At(t, "mark")
                       /\ Continue(t) /\ Marked' \subseteq Marked \cup {Name(t)}
<1>1. CASE Quiet
  BY <1>1 DEF Quiet, hooks, Marked
<1>2. ASSUME NEW t \in All, SetOriginal(t) \/ Begin(t) PROVE Marked' \subseteq Marked
  BY <1>2 DEF SetOriginal, Begin, hooks, Marked
<1>3. ASSUME NEW t \in All, InitAttach(t) PROVE Grows(t)
  BY <1>3, InitAttachFacts DEF InitTries, Tries
<1>4. ASSUME NEW t \in All, Detour(t) PROVE Marked' \subseteq Marked
  BY <1>4, DetourFacts
<1>8. ASSUME NEW t \in All, Mark(t) PROVE Grows(t)
  BY <1>8, MarkStepFacts
<1>5. ASSUME NEW t \in All, Commit(t) \/ CommitInit(t) PROVE Marked' \subseteq Marked
  BY <1>5, CommitFacts
<1>6. ASSUME NEW t \in All, Detach(t) PROVE Marked' \subseteq Marked
  BY <1>6 DEF Detach, Marked
<1>7. ASSUME NEW t \in All, CommitTerm(t) PROVE Marked' \subseteq Marked
  BY <1>7, TermFacts DEF Marked
<1> QED
  BY <1>1, <1>2, <1>3, <1>4, <1>5, <1>6, <1>7, <1>8, QuietSteps DEF Touches

(* No function is marked by one thread when another has yet to set or       *)
(* attach it.                                                               *)
LEMMA AttachedLast ==
  ASSUME IInv, NEW t \in All, NEW i \in 1 .. Len(todo[t]), todo[t][i].op \in {"set", "detour"},
         todo[t][i].at # Shared, NEW u \in All, At(u, "mark"), Name(u) = todo[t][i].at
  PROVE  FALSE
<1> DEFINE f == todo[t][i].at
<1>a. Loader \notin Threads /\ (t \in Threads \/ t = Loader) /\ (u \in Threads \/ u = Loader)
  BY HookInstallAssumption DEF All
<1>b. /\ todo[u][1].op = "mark" /\ todo[u][1].at = f /\ 1 \in 1 .. Len(todo[u])
      /\ u \in Threads => f \in Methods
      /\ u = Loader => f \in Manual
  BY HeadFacts, WhoFacts
<1>c. Manual \cap Methods = {}
  BY DEF Manual, Methods, InitializedMethods, DrawMethods, Shared
<1>1. CASE t = Loader
  <2>1. LoaderSeq(todo[t]) /\ todo[t][i] \in LoaderItem
    BY <1>1 DEF IInv, Orderly, LoaderSeq
  <2>2. f \in Manual
    BY <2>1 DEF LoaderItem, Kind
  <2>3. u = t
    BY <1>1, <1>a, <1>b, <1>c, <2>2
  <2>4. CASE todo[t][i].op = "set"
    <3>1. i < 1
      BY <1>b, <2>1, <2>3, <2>4 DEF LoaderSeq, SetBefore
    <3> QED  BY <3>1
  <2>5. CASE todo[t][i].op = "detour"
    <3>1. i = 1
      BY <2>1, <2>5 DEF LoaderSeq, HeadFirst
    <3> QED  BY <1>b, <2>3, <2>5, <3>1
  <2> QED  BY <2>4, <2>5
<1>2. CASE t \in Threads
  <2>1. ThreadSeq(todo[t]) /\ todo[t][i] \in ThreadItem
    BY <1>2 DEF IInv, Orderly, ThreadSeq
  <2>2. f \in Methods /\ i = 1
    BY <2>1 DEF ThreadItem, Kind, ThreadSeq, SetFirst
  <2>3. u \in Threads /\ ThreadSeq(todo[u])
    BY <1>a, <1>b, <1>c, <2>2 DEF IInv, Orderly
  <2>4. Exclusive
    BY DEF IInv
  <2>5. CASE f \in InitializedMethods
    <3>1. CoveredByStatic(todo[t], i) /\ CoveredByStatic(todo[u], 1)
      BY <1>b, <2>1, <2>3, <2>5 DEF ThreadSeq, Covered
    <3>2. Finishes(todo[t], Under(f)) /\ Finishes(todo[u], Under(f))
      BY <1>b, <3>1 DEF CoveredByStatic, Finishes
    <3>3. Under(f) \in Statics
      BY <2>5 DEF InitializedMethods, Under, Statics
    <3>4. t = u
      BY <1>2, <2>3, <2>4, <3>2, <3>3 DEF Exclusive
    <3> QED  BY <1>b, <2>2, <3>4
  <2>6. CASE f \in DrawMethods
    <3>1. CoveredBySection(todo[t], 1) /\ CoveredBySection(todo[u], 1)
      BY <1>b, <2>1, <2>2, <2>3, <2>6 DEF ThreadSeq, Covered
    <3>2. ASSUME NEW w \in {t, u} PROVE Inside(todo[w])
      <4>1. /\ todo[w][1].op # "enter" /\ CoveredBySection(todo[w], 1)
            /\ Len(todo[w]) \in Nat
        BY <1>b, <2>1, <2>2, <2>3, <3>1 DEF ThreadSeq
      <4>2. PICK j \in 1 .. Len(todo[w]) :
              /\ todo[w][j].op = "leave"
              /\ \A k \in 1 .. Len(todo[w]) : 1 < k /\ k < j => todo[w][k].op # "enter"
        BY <4>1 DEF CoveredBySection
      <4>3. ASSUME NEW k \in 1 .. Len(todo[w]), k < j PROVE todo[w][k].op # "enter"
        <5>1. k = 1 \/ 1 < k
          BY <4>1
        <5> QED  BY <4>1, <4>2, <4>3, <5>1
      <4> QED  BY <4>2, <4>3 DEF Inside
    <3>3. section = t /\ section = u
      BY <1>2, <2>3, <2>4, <3>2 DEF Exclusive
    <3> QED  BY <1>b, <2>2, <3>3
  <2> QED  BY <2>2, <2>5, <2>6 DEF Methods
<1> QED
  BY <1>1, <1>2, <1>a

(* A thread that goes on adds nothing to what it has to do.                 *)
LEMMA ContinueItems ==
  ASSUME IInv, NEW u \in All, NEW op, At(u, op), Continue(u),
         NEW t \in All, NEW i \in 1 .. Len(todo'[t])
  PROVE  \E j \in 1 .. Len(todo[t]) : todo'[t][i] = todo[t][j] /\ (t = u => j = i + 1)
<1>1. todo[u] \in Seq(AnItem) /\ todo[u] # <<>>
  BY HeadFacts
<1>2. todo'[u] = Tail(todo[u]) /\ \A w \in All \ {u} : todo'[w] = todo[w]
  BY Continues
<1>3. CASE t # u
  BY <1>2, <1>3
<1>4. CASE t = u
  <2>1. /\ Len(todo[t]) \in Nat \ {0} /\ Len(Tail(todo[t])) = Len(todo[t]) - 1
        /\ \A j \in 1 .. Len(todo[t]) - 1 : Tail(todo[t])[j] = todo[t][j + 1]
    BY <1>1, <1>4, TailFacts
  <2>2. todo'[t] = Tail(todo[t])
    BY <1>2, <1>4
  <2>3. i \in 1 .. Len(todo[t]) - 1 /\ i + 1 \in 1 .. Len(todo[t])
    BY <2>1, <2>2
  <2>4. todo'[t][i] = todo[t][i + 1]
    BY <2>1, <2>2, <2>3
  <2> QED  BY <2>3, <2>4
<1> QED
  BY <1>3, <1>4

LEMMA StepUntried ==
  ASSUME IInv, Next, NEW i \in 1 .. Len(todo'[Loader]), todo'[Loader][i].op = "init"
  PROVE  todo'[Loader][i].at \notin Marked'
<1> DEFINE s == todo[Loader]  x == todo'[Loader][i]
<1>a. Loader \in All /\ Loader \notin Threads
  BY HookInstallAssumption DEF All
<1>b. PICK j \in 1 .. Len(s) : x = s[j]
  BY <1>a, StepItems DEF NewItem
<1>c. x.at \notin Marked
  BY <1>b DEF IInv, Marks
<1>1. CASE Marked' \subseteq Marked
  BY <1>1, <1>c
<1>2. ASSUME NEW t \in All, At(t, "mark"), Marked' \subseteq Marked \cup {Name(t)}
      PROVE  x.at \notin Marked'
  <2>1. Name(t) \in Methods \cup Manual
    BY <1>2, WhoFacts DEF All
  <2>2. s[j] \in LoaderItem
    BY <1>b DEF IInv, Orderly, LoaderSeq
  <2>3. x.at \in GdiFunctions
    BY <1>b, <2>2 DEF LoaderItem, Kind
  <2>4. Name(t) \notin GdiFunctions
    BY <2>1 DEF Methods, InitializedMethods, DrawMethods, Shared, Manual, GdiFunctions
  <2> QED  BY <1>2, <1>c, <2>3, <2>4
<1>3. ASSUME NEW t \in All, At(t, "init"), Continue(t), Marked' \subseteq Marked \cup {Name(t)}
      PROVE  x.at \notin Marked'
  <2>1. t = Loader
    BY <1>3, WhoFacts
  <2>2. PICK k \in 1 .. Len(s) : x = s[k] /\ k = i + 1
    BY <1>3, <1>a, <2>1, ContinueItems
  <2>3. s[1].op = "init" /\ s[1].at = Name(t) /\ 1 \in 1 .. Len(s) /\ LoaderSeq(s)
    BY <1>3, <2>1, HeadFacts
  <2>4. s[k] # s[1]
    <3>1. k # 1 /\ s[k].op = "init"
      BY <2>2
    <3> QED  BY <2>3, <3>1 DEF LoaderSeq, InitOnce
  <2>5. s[k] \in LoaderItem /\ s[1] \in LoaderItem
    BY <2>3 DEF LoaderSeq
  <2>6. s[k] = [op |-> "init", at |-> s[k].at] /\ s[1] = [op |-> "init", at |-> Name(t)]
    BY <2>2, <2>3, <2>5 DEF LoaderItem, Kind
  <2>7. x.at # Name(t)
    BY <2>2, <2>4, <2>6
  <2> QED  BY <1>3, <1>c, <2>7
<1>4. x.at \notin Marked'
  BY <1>1, <1>2, <1>3, MarksGrow
<1> QED
  BY <1>4

LEMMA StepUnset ==
  ASSUME IInv, Next, NEW t \in All, NEW i \in 1 .. Len(todo'[t]),
         todo'[t][i].op = "detour" \/ (Up' /\ todo'[t][i].op = "set"), todo'[t][i].at # Shared
  PROVE  todo'[t][i].at \notin Marked'
<1> DEFINE x == todo'[t][i]
<1>a. x.op = "detour" \/ (Up /\ x.op = "set")
  BY BeforeDetachFacts
<1>b. ASSUME NEW j \in 1 .. Len(todo[t]), x = todo[t][j] PROVE x.at \notin Marked
  BY <1>a, <1>b DEF IInv, Marks
<1>1. CASE Marked' \subseteq Marked
  <2>1. (\E j \in 1 .. Len(todo[t]) : x = todo[t][j]) \/ NewItem(t, x)
    BY StepItems
  <2>2. ASSUME NewItem(t, x) PROVE x.at \notin Marked
    BY <1>a, <2>2 DEF NewItem, Marked
  <2> QED  BY <1>1, <1>b, <2>1, <2>2
<1>2. ASSUME NEW u \in All, At(u, "init") \/ At(u, "mark"), Continue(u),
             Marked' \subseteq Marked \cup {Name(u)}
      PROVE  x.at \notin Marked'
  <2>1. PICK j \in 1 .. Len(todo[t]) : x = todo[t][j]
    BY <1>2, ContinueItems
  <2>2. x.at # Name(u)
    <3>1. CASE At(u, "mark")
      BY <1>a, <2>1, <3>1, AttachedLast
    <3>2. CASE At(u, "init")
      <4>1. Name(u) \in GdiFunctions
        BY <3>2, WhoFacts
      <4>2. todo[t][j] \in AnItem
        BY <2>1 DEF IInv, Orderly
      <4>3. x.at \in Methods \cup Manual
        BY <1>a, <2>1, <4>2 DEF AnItem, ThreadItem, LoaderItem, Kind
      <4> QED  BY <4>1, <4>3
               DEF Methods, InitializedMethods, DrawMethods, Shared, Manual, GdiFunctions
    <3> QED  BY <1>2, <3>1, <3>2
  <2> QED  BY <1>2, <1>b, <2>1, <2>2
<1> QED
  BY <1>1, <1>2, MarksGrow

LEMMA StepMarks ==
  ASSUME IInv, Next
  PROVE  Marks'
BY StepAttached, StepUntried, StepUnset DEF Marks

-----------------------------------------------------------------------------
(* As long as hook_init has not ended, the loader alone runs, and nothing   *)
(* is attached.                                                             *)
LEMMA InitializingOps ==
  ASSUME IInv, Initializing(todo[Loader]), NEW t \in All, NEW op, At(t, op)
  PROVE  /\ t = Loader /\ op \in {"begin", "init", "hook_init"}
         /\ op # "hook_init" => Initializing(Tail(todo[t]))
         /\ op = "hook_init" => ~Initializing(Tail(todo[t]))
<1>1. todo[t] # <<>> /\ todo[t][1].op = op
  BY HeadFacts
<1>2. t = Loader
  BY <1>1 DEF IInv, Starting, Idle, All
<1> DEFINE s == todo[Loader]
<1>3. LoaderSeq(s) /\ s # <<>> /\ s \in Seq(LoaderItem) /\ s[1].op = op
  BY <1>1, <1>2 DEF IInv, Orderly, LoaderSeq
<1> HIDE DEF s
<1>4. PICK i \in 1 .. Len(s) : s[i].op = "hook_init"
  BY DEF Initializing, s
<1>5. /\ Len(s) \in Nat \ {0} /\ Len(Tail(s)) = Len(s) - 1
      /\ \A j \in 1 .. Len(s) - 1 : Tail(s)[j] = s[j + 1]
  BY <1>3, TailFacts
<1>6. CASE i = 1
  <2>1. op = "hook_init"
    BY <1>3, <1>4, <1>6
  <2>2. ~Initializing(Tail(s))
    BY <1>3, <2>1, LoaderTail
  <2> QED  BY <1>2, <2>1, <2>2 DEF s
<1>7. CASE i # 1
  <2>1. 1 < i /\ 1 \in 1 .. Len(s) /\ i - 1 \in 1 .. Len(s) - 1
    BY <1>4, <1>5, <1>7
  <2>2. op \in {"begin", "init"}
    BY <1>3, <1>4, <2>1 DEF LoaderSeq, InitFirst
  <2>3. Tail(s)[i - 1].op = "hook_init"
    <3>1. Tail(s)[i - 1] = s[(i - 1) + 1] /\ (i - 1) + 1 = i
      BY <1>4, <1>5, <2>1
    <3> QED  BY <1>4, <3>1
  <2>4. Initializing(Tail(s))
    BY <1>5, <2>1, <2>3 DEF Initializing
  <2> QED  BY <1>2, <2>2, <2>4 DEF s
<1> QED
  BY <1>6, <1>7

LEMMA InitializingBefore ==
  ASSUME IInv, Next, Initializing(todo'[Loader])
  PROVE  Initializing(todo[Loader])
<1>1. PICK i \in 1 .. Len(todo'[Loader]) : todo'[Loader][i].op = "hook_init"
  BY DEF Initializing
<1>2. Loader \in All
  BY DEF All
<1>3. (\E j \in 1 .. Len(todo[Loader]) : todo'[Loader][i] = todo[Loader][j])
        \/ NewItem(Loader, todo'[Loader][i])
  BY <1>1, <1>2, StepItems
<1>4. ~NewItem(Loader, todo'[Loader][i])
  BY <1>1 DEF NewItem
<1>5. PICK j \in 1 .. Len(todo[Loader]) : todo'[Loader][i] = todo[Loader][j]
  BY <1>3, <1>4
<1> QED
  BY <1>1, <1>5 DEF Initializing

(* What runs while it has not ended.                                        *)
LEMMA InitializingRuns ==
  ASSUME IInv, NEW t \in All, Run(t), Initializing(todo[Loader])
  PROVE  t = Loader /\ (Begin(t) \/ InitAttach(t) \/ CommitInit(t))
<1>a. ASSUME NEW op \in {"call", "static", "done", "enter", "leave", "hook", "demand", "set",
                          "attach", "detour", "mark", "commit", "detach", "hook_term", "unmap"}, At(t, op)
      PROVE  FALSE
  BY <1>a, InitializingOps
<1>1. ~Inner(t) /\ ~Static(t) /\ ~Done(t) /\ ~Enter(t) /\ ~Leave(t)
  BY <1>a DEF Inner, Static, Done, Enter, Leave
<1>2. ~Hook(t) /\ ~DemandExport(t) /\ ~SetOriginal(t) /\ ~Attach(t) /\ ~Detour(t) /\ ~Mark(t)
  BY <1>a DEF Hook, DemandExport, SetOriginal, Attach, Detour, Mark
<1>3. ~Commit(t) /\ ~Detach(t) /\ ~CommitTerm(t) /\ ~Unmap(t)
  BY <1>a DEF Commit, Detach, CommitTerm, Unmap
<1>4. Begin(t) \/ InitAttach(t) \/ CommitInit(t)
  BY <1>1, <1>2, <1>3 DEF Run
<1>5. t = Loader
  BY <1>4, InitializingOps DEF Begin, InitAttach, CommitInit
<1> QED
  BY <1>4, <1>5

LEMMA StepStarting ==
  ASSUME IInv, Next
  PROVE  Starting'
<1> SUFFICES ASSUME Initializing(todo'[Loader]) PROVE Idle' /\ live' = {}
  BY DEF Starting
<1>a. Initializing(todo[Loader]) /\ Idle /\ live = {}
  BY InitializingBefore DEF IInv, Starting
<1>1. CASE Loaded
  BY <1>1, <1>a DEF Loaded, hooks, Idle
<1>2. CASE Unload
  <2>1. todo'[Loader] = Detaching
    <3>1. todo' = [todo EXCEPT ![Loader] = Detaching]
      BY <1>2 DEF Unload
    <3> QED  BY <3>1 DEF IInv, Orderly, All
  <2> QED  BY <2>1, DetachingSeq
<1>3. ASSUME NEW t \in Threads, Call(t) PROVE FALSE
  BY <1>3, <1>a DEF Call
<1>4. ASSUME NEW t \in All, Run(t) PROVE Idle' /\ live' = {}
  <2>1. t = Loader /\ (Begin(t) \/ InitAttach(t) \/ CommitInit(t))
    BY <1>4, <1>a, InitializingRuns
  <2>2. \A u \in Threads : todo'[u] = todo[u]
    BY <1>4, <2>1, RunFacts, HookInstallAssumption DEF All
  <2>3. ~CommitInit(t)
    <3>1. ASSUME CommitInit(t) PROVE FALSE
      <4>1. /\ At(t, "hook_init")
            /\ Continue(t) \/ todo' = [todo EXCEPT ![t] = Detaching]
        BY <3>1 DEF CommitInit
      <4>2. CASE Continue(t)
        <5>1. todo'[Loader] = Tail(todo[Loader])
          BY <2>1, <4>1, <4>2, Continues
        <5> QED  BY <1>a, <2>1, <4>1, <5>1, InitializingOps
      <4>3. CASE todo' = [todo EXCEPT ![t] = Detaching]
        <5>1. todo'[Loader] = Detaching
          BY <2>1, <4>3 DEF IInv, Orderly
        <5> QED  BY <5>1, DetachingSeq
      <4> QED  BY <4>1, <4>2, <4>3
    <3> QED  BY <3>1
  <2>4. live' = live
    BY <2>1, <2>3 DEF Begin, InitAttach, hooks
  <2> QED  BY <1>a, <2>2, <2>4 DEF Idle
<1> QED
  BY <1>1, <1>2, <1>3, <1>4 DEF Next

-----------------------------------------------------------------------------
(* A hook that is marked is attached, or is lost.                           *)
LEMMA InitializingStays ==
  ASSUME IInv, NEW t \in All, NEW op \in {"begin", "init"}, At(t, op), Continue(t),
         Initializing(todo[Loader])
  PROVE  Initializing(todo'[Loader])
<1>1. t = Loader /\ Initializing(Tail(todo[t]))
  BY InitializingOps
<1>2. todo'[t] = Tail(todo[t])
  BY Continues
<1> QED
  BY <1>1, <1>2

LEMMA InitStarts ==
  ASSUME IInv, NEW t \in All, At(t, "init")
  PROVE  Initializing(todo[Loader])
<1>1. t = Loader
  BY WhoFacts
<1>2. LoaderSeq(todo[Loader]) /\ 1 \in 1 .. Len(todo[Loader]) /\ todo[Loader][1].op = "init"
  BY <1>1, HeadFacts
<1> QED
  BY <1>2 DEF LoaderSeq, InitEnds, Initializing

LEMMA QuietInitializing ==
  ASSUME IInv, Next, Quiet, Initializing(todo[Loader])
  PROVE  Initializing(todo'[Loader]) \/ ~Up' \/ ~error'
<1>a. todo \in [All -> Seq(AnItem)] /\ Loader \in All /\ Loader \notin Threads
  BY HookInstallAssumption DEF IInv, Orderly, All
<1>b. Idle /\ live = {}
  BY DEF IInv, Starting
<1>1. CASE Loaded
  BY <1>1 DEF Loaded
<1>2. CASE Unload
  BY <1>2 DEF Unload, Up
<1>3. ASSUME NEW t \in Threads, Call(t) PROVE FALSE
  BY <1>3, <1>b DEF Call
<1>4. ASSUME NEW t \in All, Run(t) PROVE Initializing(todo'[Loader]) \/ ~Up' \/ ~error'
  <2>1. t = Loader /\ (Begin(t) \/ InitAttach(t) \/ CommitInit(t))
    BY <1>4, InitializingRuns
  <2>2. CASE Begin(t) \/ InitAttach(t)
    <3>1. PICK op \in {"begin", "init"} : At(t, op) /\ Continue(t)
      BY <2>2 DEF Begin, InitAttach
    <3> QED  BY <3>1, InitializingStays
  <2>3. CASE CommitInit(t)
    <3>1. Failed(t) => dll' = "leaving"
      BY <2>3 DEF CommitInit
    <3>2. error' = (error /\ owner # t)
      BY <2>3, CommitFacts
    <3>3. ASSUME ~Failed(t) PROVE ~error'
      BY <3>2, <3>3, Zenon DEF Failed
    <3> QED  BY <3>1, <3>3 DEF Up
  <2> QED  BY <2>1, <2>2, <2>3
<1> QED
  BY <1>1, <1>2, <1>3, <1>4 DEF Next

LEMMA StepLosses ==
  ASSUME IInv, Next
  PROVE  Losses'
<1> DEFINE Goal == /\ (lost => lost') /\ (lost' \/ live \cup pending \subseteq live' \cup pending')
                   /\ lost' \/ Marked' \subseteq live' \cup pending'
                   /\ error' => lost' \/ Initializing(todo'[Loader])
<1> SUFFICES ASSUME Up' PROVE Losses'
  BY DEF Losses
<1>a. /\ lost \/ \A t \in All : Marking(t) \subseteq live \cup pending
      /\ lost \/ Marked \subseteq live \cup pending
      /\ error => lost \/ Initializing(todo[Loader])
      /\ owner = None => pending = {}
      /\ error \in BOOLEAN /\ lost \in BOOLEAN
  BY BeforeDetachFacts, TypeParts DEF IInv, Losses, HookTypes
<1>b. \A t \in All : None # t
  BY HookInstallAssumption DEF All
<1>1. ASSUME Quiet PROVE Goal
  <2>1. Marked' = Marked /\ live' = live /\ pending' = pending /\ error' = error /\ lost' = lost
    BY <1>1 DEF Quiet, hooks, detours, Marked
  <2>2. error' /\ ~lost' => Initializing(todo'[Loader])
    BY <1>1, <1>a, <2>1, QuietInitializing
  <2> QED  BY <1>a, <2>1, <2>2
<1>2. ASSUME NEW t \in All, SetOriginal(t) PROVE Goal
  <2>1. /\ At(t, "set") /\ Marked' = Marked /\ live' = live /\ pending' = pending
        /\ error' = error /\ lost' = lost
    BY <1>2 DEF SetOriginal, detours, history, Marked
  <2>2. ~Initializing(todo[Loader])
    BY <2>1, InitializingOps
  <2> QED  BY <1>a, <2>1, <2>2
<1>3. ASSUME NEW t \in All, Begin(t) PROVE Goal
  <2>1. /\ At(t, "begin") /\ Continue(t) /\ Marked' = Marked /\ live' = live /\ lost' = lost
        /\ IF owner = None THEN owner' = t /\ pending' = {} /\ error' = FALSE
           ELSE UNCHANGED <<owner, pending, error>>
    BY <1>3 DEF Begin, hooks, detours, history, Marked
  <2>2. Initializing(todo[Loader]) => Initializing(todo'[Loader])
    BY <2>1, InitializingStays
  <2> QED  BY <1>a, <2>1, <2>2
<1>4. ASSUME NEW t \in All, InitAttach(t) PROVE Goal
  <2>1. At(t, "init") /\ Continue(t) /\ live' = live /\ lost' = lost /\ InitTries(t)
    BY <1>4, InitAttachFacts
  <2>2. Initializing(todo'[Loader])
    BY <2>1, InitStarts, InitializingStays
  <2>3. CASE UNCHANGED <<hooked, detours, Marked>>
    BY <1>a, <2>1, <2>2, <2>3 DEF detours
  <2>4. ASSUME NEW ok \in BOOLEAN, Tries(t, Name(t), ok) PROVE Goal
    <3>1. /\ Marked' = IF ok THEN Marked \cup {Name(t)} ELSE Marked \ {Name(t)}
          /\ pending' = IF ok THEN pending \cup {Name(t)} ELSE pending
      BY <1>a, <2>4, AttachFacts DEF Tries
    <3> QED  BY <1>a, <2>1, <2>2, <3>1
  <2> QED  BY <2>1, <2>3, <2>4 DEF InitTries
<1>5. ASSUME NEW t \in All, Detour(t) PROVE Goal /\ (lost' \/ Name(t) \in pending')
  <2>1. At(t, "detour") /\ live' = live /\ Marked' = Marked
    BY <1>5, DetourFacts
  <2>2. ~Initializing(todo[Loader])
    BY <2>1, InitializingOps
  <2>3. PICK ok \in BOOLEAN : DetourAttach(t, Name(t), ok) /\ lost' = (lost \/ ~ok)
    BY <1>5, DetourFacts
  <2>4. DetourAttach(t, Name(t), ok)
    BY <2>3, Zenon
  <2>5. /\ ok => pending' = pending \cup {Name(t)} /\ error' = error
        /\ ~ok => pending' = pending
    BY <1>a, <2>4, AttachFacts
  <2>6. (lost => lost') /\ (~ok => lost')
    BY <2>3, Zenon
  <2> QED  BY <1>a, <2>1, <2>2, <2>5, <2>6
<1>8. ASSUME NEW t \in All, Mark(t) PROVE Goal
  <2>1. /\ At(t, "mark") /\ UNCHANGED <<live, pending, error, lost>>
        /\ Marked' = Marked \cup {Name(t)} /\ Marking(t) = {Name(t)}
    BY <1>8, MarkStepFacts
  <2>2. ~Initializing(todo[Loader])
    BY <2>1, InitializingOps
  <2> QED  BY <1>a, <2>1, <2>2
<1>6. ASSUME NEW t \in All, Commit(t) \/ CommitInit(t) PROVE Goal
  <2>1. /\ pending' = IF owner = t THEN {} ELSE pending
        /\ live' = IF Failed(t) THEN live ELSE live \cup pending
        /\ error' = (error /\ owner # t) /\ Marked' = Marked /\ lost' = lost
    BY <1>6, CommitFacts
  <2>2. error' => error /\ owner # t
    BY <2>1, Zenon
  <2>3. CASE Commit(t)
    <3>1. ~Initializing(todo[Loader])
      BY <2>3, InitializingOps DEF Commit
    <3>2. CASE lost
      BY <2>1, <3>2
    <3>3. CASE ~lost
      <4>1. ~error /\ ~error'
        BY <1>a, <2>2, <3>1, <3>3
      <4>2. Failed(t) <=> owner # t
        BY <4>1 DEF Failed
      <4> QED  BY <1>a, <2>1, <3>3, <4>1, <4>2
    <3> QED  BY <3>2, <3>3
  <2>4. CASE CommitInit(t)
    <3>1. ~Failed(t)
      BY <2>4 DEF CommitInit, Up
    <3>2. owner = t /\ ~error'
      BY <2>2, <3>1 DEF Failed
    <3> QED  BY <1>a, <2>1, <3>1, <3>2
  <2> QED  BY <1>6, <2>3, <2>4
<1>7. ASSUME NEW t \in All, Detach(t) \/ CommitTerm(t) PROVE FALSE
  <2>1. dll' = "leaving"
    BY <1>7, DetachFacts, TermFacts
  <2> QED  BY <2>1 DEF Up
<1> HIDE DEF Goal
<1>9. Goal
  BY <1>1, <1>2, <1>3, <1>4, <1>5, <1>6, <1>7, <1>8, QuietSteps DEF Touches
<1>10. ASSUME ~lost', NEW t \in All, NEW f \in Marking(t)' PROVE f \in live' \cup pending'
  <2>1. f \in Marking(t) \/ (Detour(t) /\ f = Name(t))
    BY <1>10, MarkingStarts
  <2> QED  BY <1>5, <1>9, <1>10, <1>a, <2>1 DEF Goal
<1> QED
  BY <1>9, <1>10 DEF Goal, Losses

-----------------------------------------------------------------------------
(* A thread changes nothing of the transaction of another one.              *)
LEMMA OthersTransaction ==
  ASSUME IInv, NEW t \in All, Touches(t)
  PROVE  /\ owner' \in {owner, t, None}
         /\ owner # t /\ owner # None => UNCHANGED <<live, owner, pending, error>>
<1>a. error \in BOOLEAN
  BY TypeParts DEF IInv, HookTypes
<1> DEFINE Goal == /\ owner' \in {owner, t, None}
                   /\ owner # t /\ owner # None => UNCHANGED <<live, owner, pending, error>>
<1>b. ASSUME NEW f, NEW ok \in BOOLEAN, DetourAttach(t, f, ok), live' = live
      PROVE  Goal
  <2>1. /\ owner' = owner
        /\ ok => owner = t
        /\ ~ok => pending' = pending
        /\ owner # t => error' = error
    BY <1>a, <1>b, AttachFacts
  <2> QED  BY <1>b, <2>1
<1>1. CASE SetOriginal(t)
  BY <1>1 DEF SetOriginal, detours
<1>2. CASE Begin(t)
  BY <1>2 DEF Begin, hooks, detours
<1>3. CASE InitAttach(t)
  <2>1. live' = live /\ InitTries(t)
    BY <1>3, InitAttachFacts
  <2> QED  BY <1>b, <2>1 DEF InitTries, Tries, detours
<1>4. CASE Detour(t)
  BY <1>4, <1>b, DetourFacts
<1>8. CASE Mark(t)
  BY <1>8, MarkStepFacts
<1>5. CASE Commit(t) \/ CommitInit(t)
  <2>1. /\ owner' = IF owner = t THEN None ELSE owner
        /\ pending' = IF owner = t THEN {} ELSE pending
        /\ live' = IF Failed(t) THEN live ELSE live \cup pending
        /\ error' = (error /\ owner # t)
    BY <1>5, CommitFacts
  <2>2. owner # t => error' = error
    BY <1>a, <2>1, Zenon
  <2> QED  BY <2>1, <2>2 DEF Failed
<1>6. CASE Detach(t)
  <2>1. /\ pending' = IF owner = t THEN Marked \cap Detachable ELSE pending
        /\ error' = (error \/ (owner = t /\ ~(Marked \subseteq Detachable)))
        /\ owner' = owner /\ live' = live
    BY <1>6, DetachFacts
  <2>2. owner # t => error' = error
    BY <1>a, <2>1, Zenon
  <2> QED  BY <2>1, <2>2
<1>7. CASE CommitTerm(t)
  <2>1. Ends(t) /\ live' = IF Failed(t) THEN live ELSE live \ pending
    BY <1>7 DEF CommitTerm
  <2>2. owner # t => error' = error
    BY <1>a, <2>1, Zenon DEF Ends
  <2> QED  BY <2>1, <2>2 DEF Ends, Failed
<1> QED
  BY <1>1, <1>2, <1>3, <1>4, <1>5, <1>6, <1>7, <1>8 DEF Touches

(* What the loader does to detach.                                          *)
LEMMA LoaderRuns ==
  ASSUME IInv, ~Up, Run(Loader)
  PROVE  /\ dll = "leaving"
         /\ \/ Begin(Loader) /\ todo[Loader] = Detaching /\ todo'[Loader] = Begun
            \/ Detach(Loader) /\ todo[Loader] = Begun /\ todo'[Loader] = Detached
            \/ CommitTerm(Loader) /\ todo[Loader] = Detached /\ todo'[Loader] = Committed
            \/ Unmap(Loader) /\ todo[Loader] = Committed /\ todo'[Loader] = <<>>
<1>a. Loader \in All
  BY DEF All
<1>b. ASSUME NEW op, At(Loader, op)
      PROVE  /\ dll = "leaving"
             /\ \/ op = "begin" /\ todo[Loader] = Detaching
                \/ op = "detach" /\ todo[Loader] = Begun
                \/ op = "hook_term" /\ todo[Loader] = Detached
                \/ op = "unmap" /\ todo[Loader] = Committed
  BY <1>b, PhaseFacts DEF Up
<1>c. ASSUME NEW op \in {"call", "static", "done", "enter", "leave", "hook", "demand", "set",
                          "init", "attach", "detour", "mark", "commit", "hook_init"},
             At(Loader, op)
      PROVE  FALSE
  BY <1>b, <1>c
<1>1. ~Inner(Loader) /\ ~Static(Loader) /\ ~Done(Loader) /\ ~Enter(Loader) /\ ~Leave(Loader)
  BY <1>c DEF Inner, Static, Done, Enter, Leave
<1>2. /\ ~Hook(Loader) /\ ~DemandExport(Loader) /\ ~SetOriginal(Loader)
      /\ ~Detour(Loader) /\ ~Mark(Loader)
  BY <1>c DEF Hook, DemandExport, SetOriginal, Detour, Mark
<1>3. ~InitAttach(Loader) /\ ~Attach(Loader) /\ ~Commit(Loader) /\ ~CommitInit(Loader)
  BY <1>c DEF InitAttach, Attach, Commit, CommitInit
<1>4. CASE Begin(Loader)
  <2>1. At(Loader, "begin") /\ Continue(Loader)
    BY <1>4 DEF Begin
  <2>2. dll = "leaving" /\ todo[Loader] = Detaching
    BY <1>b, <2>1
  <2>3. todo'[Loader] = Begun
    BY <1>a, <2>1, <2>2, Continues, DetachingFacts
  <2> QED  BY <1>4, <2>2, <2>3
<1>5. CASE Detach(Loader)
  BY <1>5, <1>a, DetachFacts
<1>6. CASE CommitTerm(Loader)
  BY <1>6, <1>a, TermFacts
<1>7. CASE Unmap(Loader)
  <2>1. At(Loader, "unmap") /\ Continue(Loader)
    BY <1>7 DEF Unmap
  <2>2. dll = "leaving" /\ todo[Loader] = Committed
    BY <1>b, <2>1
  <2>3. todo'[Loader] = <<>>
    BY <1>a, <2>1, <2>2, Continues, DetachingFacts
  <2> QED  BY <1>7, <2>2, <2>3
<1> QED
  BY <1>1, <1>2, <1>3, <1>4, <1>5, <1>6, <1>7 DEF Run

LEMMA StepTerminating ==
  ASSUME IInv, Next
  PROVE  Terminating'
<1> SUFFICES ASSUME todo'[Loader] = Detached, owner' = Loader, ~error'
             PROVE  live' \subseteq pending'
  BY DEF Terminating
<1>a. /\ Loader # None /\ Loader \notin Threads /\ Loader \in All /\ dll \in {"loading", "loaded", "leaving", "gone"}
      /\ owner \in All \cup {None} /\ error \in BOOLEAN
  BY HookInstallAssumption, TypeParts DEF IInv, HookTypes, All
<1>b. Detached # <<>> /\ Head(Detached).op = "hook_term" /\ Detached \notin {Detaching, Begun, Committed}
  BY DetachingFacts, DetachingApart
<1>1. \/ todo[Loader] = Detached /\ ~Up
      \/ dll = "leaving" /\ todo[Loader] = Begun
  <2>1. Moves /\ Phases' /\ Phases
    BY StepMoves, StepPhases DEF IInv
  <2>2. ~Up'
    <3>1. dll' # "loaded"
      BY <1>b, <2>1 DEF Phases
    <3>2. ASSUME dll' = "loading" PROVE FALSE
      <4>1. todo'[Loader] \in Seq(AnItem)
        BY <1>a, StepOrderly DEF Orderly
      <4>2. todo'[Loader] # <<>> /\ Head(todo'[Loader]).op = "hook_term"
        BY <1>b
      <4>3. 1 \in 1 .. Len(todo'[Loader]) /\ todo'[Loader][1].op = "hook_term"
        BY <4>1, <4>2, TailFacts
      <4> QED  BY <2>1, <3>2, <4>3 DEF Phases
    <3> QED  BY <3>1, <3>2 DEF Up
  <2>3. CASE todo'[Loader] = todo[Loader] /\ dll' = dll
    BY <2>2, <2>3 DEF Up
  <2>4. CASE ~(todo'[Loader] = todo[Loader] /\ dll' = dll)
    BY <1>b, <2>1, <2>2, <2>4 DEF Moves, Up
  <2> QED  BY <2>3, <2>4
<1>2. CASE todo[Loader] = Detached /\ ~Up
  <2>a. owner = Loader /\ ~error => live \subseteq pending
    BY <1>2 DEF IInv, Terminating
  <2>1. CASE Quiet
    BY <2>a, <2>1 DEF Quiet, hooks, detours
  <2>2. ASSUME NEW t \in All, Touches(t), t # Loader PROVE live' \subseteq pending'
    <3>1. owner = Loader
      BY <1>a, <2>2, OthersTransaction
    <3>2. UNCHANGED <<live, owner, pending, error>>
      BY <1>a, <2>2, <3>1, OthersTransaction
    <3> QED  BY <2>a, <3>1, <3>2
  <2>3. CASE Touches(Loader)
    <3>1. Run(Loader)
      BY <2>3 DEF Touches, Run
    <3>2. todo'[Loader] = Committed
      BY <1>2, <1>b, <3>1, LoaderRuns
    <3> QED  BY <1>b, <3>2
  <2> QED  BY <2>1, <2>2, <2>3, QuietSteps
<1>3. CASE dll = "leaving" /\ todo[Loader] = Begun
  <2>1. ~Loaded /\ ~Unload
    BY <1>3 DEF Loaded, Unload
  <2>2. ASSUME NEW t \in Threads, Call(t) PROVE todo'[Loader] = todo[Loader]
    <3>1. \E f \in live : todo' = [todo EXCEPT ![t] = IMPL(f)]
      BY <2>2 DEF Call
    <3> QED  BY <1>a, <2>2, <3>1 DEF IInv, Orderly
  <2>3. ASSUME NEW t \in Threads, Run(t) PROVE todo'[Loader] = todo[Loader]
    BY <1>a, <2>3, RunFacts DEF All
  <2>4. Run(Loader)
    BY <1>b, <1>3, <2>1, <2>2, <2>3 DEF Next, All
  <2>5. Detach(Loader)
    BY <1>3, <1>b, <2>4, LoaderRuns, DetachingApart DEF Up
  <2>6. /\ pending' = IF owner = Loader THEN Marked \cap Detachable ELSE pending
        /\ error' = (error \/ (owner = Loader /\ ~(Marked \subseteq Detachable)))
        /\ owner' = owner /\ live' = live
    BY <1>a, <2>5, DetachFacts
  <2>7. live \subseteq Marked
    BY <1>3 DEF IInv, Marks, BeforeDetach
  <2> QED  BY <2>6, <2>7
<1> QED
  BY <1>1, <1>2, <1>3

-----------------------------------------------------------------------------
(* hook_term, when nothing was lost and no call was in progress.            *)
LEMMA HistoryStays ==
  ASSUME IInv, Next
  PROVE  (lost => lost') /\ (busy /\ ~Up => busy')
<1> DEFINE Goal == (lost => lost') /\ (busy /\ ~Up => busy')
<1>a. ASSUME UNCHANGED history PROVE Goal
  BY <1>a DEF history
<1>1. CASE Loaded
  BY <1>1, <1>a DEF Loaded
<1>2. CASE Unload
  <2>1. lost' = lost /\ Up
    BY <1>2 DEF Unload, Up
  <2> QED  BY <2>1
<1>3. ASSUME NEW t \in Threads, Call(t) PROVE Goal
  <2>1. lost' = lost /\ busy' = (busy \/ dll = "leaving")
    BY <1>3 DEF Call
  <2> QED  BY <2>1, Zenon
<1>4. ASSUME NEW t \in All, Run(t) PROVE Goal
  <2>1. CASE Inner(t) \/ Static(t) \/ Done(t) \/ Enter(t) \/ Leave(t)
    BY <2>1, <1>a DEF Inner, Static, Done, Enter, Leave
  <2>2. CASE Hook(t) \/ DemandExport(t) \/ SetOriginal(t) \/ Begin(t) \/ InitAttach(t)
    BY <2>2, <1>a DEF Hook, DemandExport, SetOriginal, Begin, InitAttach
  <2>3. CASE Detour(t)
    <3>1. busy' = busy /\ \E ok \in BOOLEAN : lost' = (lost \/ ~ok)
      BY <2>3, DetourFacts
    <3>2. lost => lost'
      BY <3>1, Zenon
    <3> QED  BY <3>1, <3>2
  <2>5. CASE Attach(t) \/ Mark(t)
    BY <2>5, <1>a DEF Attach, Mark
  <2>4. CASE Commit(t) \/ CommitInit(t) \/ Detach(t) \/ CommitTerm(t) \/ Unmap(t)
    BY <2>4, <1>a DEF Commit, CommitInit, Detach, CommitTerm, Unmap
  <2> QED  BY <1>4, <2>1, <2>2, <2>3, <2>4, <2>5 DEF Run
<1> QED
  BY <1>1, <1>2, <1>3, <1>4 DEF Next

(* The loader begins to detach.                                             *)
LEMMA LeavingBegins ==
  ASSUME IInv, Next, Up, ~Up', ~lost', ~busy'
  PROVE  Ready'
<1>a. /\ todo \in [All -> Seq(AnItem)] /\ Loader \in All /\ Loader \notin Threads
  BY HookInstallAssumption DEF IInv, Orderly, All
<1>b. ~lost
  BY HistoryStays
<1>c. ASSUME todo'[Loader] = Detaching, Idle', live' = {} \/ Marked' \subseteq live' \cup pending',
             \A f \in live' \ {Shared} : orig'[f] = "trampoline"
      PROVE  Ready'
  BY <1>c, DetachingApart DEF Ready
<1>1. CASE Loaded
  BY <1>1 DEF Loaded, Up
<1>2. CASE Unload
  <2>1. /\ todo' = [todo EXCEPT ![Loader] = Detaching]
        /\ busy' = (\E t \in Threads : todo[t] # <<>>) /\ UNCHANGED <<system, hooks, detours>>
    BY <1>2 DEF Unload
  <2>2. Idle
    BY <2>1, Zenon DEF Idle
  <2>3. todo'[Loader] = Detaching /\ Idle'
    BY <1>a, <2>1, <2>2 DEF Idle, All
  <2>4. Marked' = Marked /\ live' = live /\ pending' = pending /\ orig' = orig
    BY <2>1 DEF hooks, detours, Marked
  <2>5. Marked \subseteq live \cup pending
    BY <1>b DEF IInv, Losses
  <2>6. \A f \in live \ {Shared} : orig[f] = "trampoline"
    BY DEF IInv, OriginalKept, Up, Shared
  <2> QED  BY <1>c, <2>3, <2>4, <2>5, <2>6
<1>3. ASSUME NEW t \in Threads, Call(t) PROVE FALSE
  BY <1>3 DEF Call, Up
<1>4. ASSUME NEW t \in Threads, Run(t) PROVE FALSE
  <2>1. dll' = dll
    BY <1>4, RunFacts DEF All
  <2> QED  BY <2>1 DEF Up
<1>5. CASE Run(Loader)
  <2>a. dll' # dll
    BY DEF Up
  <2>b. ASSUME Unmap(Loader) PROVE FALSE
    <3>1. At(Loader, "unmap")
      BY <2>b DEF Unmap
    <3>2. dll = "leaving"
      BY <3>1, PhaseFacts
    <3> QED  BY <3>2 DEF Up
  <2>c. CommitInit(Loader)
    <3>1. ~Inner(Loader) /\ ~Static(Loader) /\ ~Done(Loader) /\ ~Enter(Loader) /\ ~Leave(Loader)
      BY <2>a DEF Inner, Static, Done, Enter, Leave
    <3>2. ~Hook(Loader) /\ ~DemandExport(Loader) /\ ~SetOriginal(Loader) /\ ~Begin(Loader)
      BY <2>a DEF Hook, DemandExport, SetOriginal, Begin
    <3>3. ~InitAttach(Loader) /\ ~Attach(Loader) /\ ~Commit(Loader) /\ ~Detach(Loader)
      BY <2>a DEF InitAttach, Attach, Commit, Detach
    <3>4. ~CommitTerm(Loader) /\ ~Detour(Loader) /\ ~Mark(Loader)
      BY <2>a DEF CommitTerm, Detour, Mark
    <3> QED  BY <1>5, <2>b, <3>1, <3>2, <3>3, <3>4 DEF Run
  <2>1. /\ At(Loader, "hook_init") /\ Failed(Loader)
        /\ todo' = [todo EXCEPT ![Loader] = Detaching]
    BY <2>a, <2>c DEF CommitInit
  <2>2. Initializing(todo[Loader])
    <3>1. 1 \in 1 .. Len(todo[Loader]) /\ todo[Loader][1].op = "hook_init"
      BY <1>a, <2>1, HeadFacts
    <3> QED  BY <3>1 DEF Initializing
  <2>3. Idle /\ live = {}
    BY <2>2 DEF IInv, Starting
  <2>4. live' = {}
    BY <1>a, <2>1, <2>3, <2>c, CommitFacts
  <2>5. todo'[Loader] = Detaching /\ Idle'
    BY <1>a, <2>1, <2>3 DEF Idle, All
  <2> QED  BY <1>c, <2>4, <2>5
<1> QED
  BY <1>1, <1>2, <1>3, <1>4, <1>5 DEF Next, All

(* And goes on.                                                             *)
LEMMA LeavingGoes ==
  ASSUME IInv, Next, ~Up, ~Up', ~lost', ~busy'
  PROVE  Ready'
<1>a. ~lost /\ ~busy
  BY HistoryStays
<1>b. Ready
  BY <1>a DEF IInv, Leaving
<1>c. /\ Loader \in All /\ Loader \notin Threads /\ Loader # None /\ None \notin All
      /\ owner \in All \cup {None} /\ (owner = None => pending = {}) /\ error \in BOOLEAN
      /\ system' = system
  BY HookInstallAssumption, TypeParts, StepHookTypes DEF IInv, HookTypes, All
<1>1. ~Loaded /\ ~Unload
  BY DEF Loaded, Unload, Up
<1>2. ASSUME NEW t \in Threads, Call(t) PROVE FALSE
  <2>1. dll = "leaving"
    BY <1>2, <1>c DEF Call, Up, IInv, TypeOK
  <2>2. busy' = (busy \/ dll = "leaving")
    BY <1>2 DEF Call
  <2>3. busy'
    BY <2>1, <2>2, Zenon
  <2> QED  BY <2>3
<1>3. ASSUME NEW t \in Threads, Run(t) PROVE FALSE
  BY <1>3, <1>b, RunFacts DEF Ready, Idle, All
<1>4. Run(Loader)
  BY <1>1, <1>2, <1>3 DEF Next, All
<1>d. Idle'
  <2>1. \A u \in Threads : todo'[u] = todo[u]
    BY <1>4, <1>c, RunFacts DEF All
  <2> QED  BY <1>b, <2>1 DEF Ready, Idle
<1>5. CASE Begin(Loader) /\ todo[Loader] = Detaching /\ todo'[Loader] = Begun
  <2>1. /\ At(Loader, "begin") /\ UNCHANGED <<hooked, orig, live>>
        /\ IF owner = None THEN owner' = Loader /\ pending' = {} /\ error' = FALSE
           ELSE UNCHANGED <<owner, pending, error>>
    BY <1>5 DEF Begin, hooks, detours
  <2>2. owner = None
    <3>1. owner # None => todo[owner] # <<>> /\ todo[owner][1].op \in TransOps
      BY DEF IInv, Owning
    <3>2. todo[Loader][1].op = "begin"
      BY <1>c, <2>1, HeadFacts
    <3>3. "begin" \notin TransOps
      BY DEF TransOps
    <3>4. \A u \in Threads : todo[u] = <<>>
      BY <1>b DEF Ready, Idle
    <3> QED  BY <1>c, <3>1, <3>2, <3>3, <3>4 DEF All
  <2>3. /\ owner' = Loader /\ pending' = {} /\ ~error' /\ live' = live /\ Marked' = Marked
        /\ pending = {}
    BY <1>c, <2>1, <2>2 DEF Marked
  <2>4. live' = {} \/ Marked' \subseteq live'
    BY <1>5, <1>b, <2>3 DEF Ready
  <2>5. \A f \in live' \ {Shared} : orig'[f] = "trampoline"
    BY <1>5, <1>b, <2>1 DEF Ready
  <2> QED  BY <1>5, <1>d, <2>3, <2>4, <2>5, DetachingApart DEF Ready
<1>6. CASE Detach(Loader) /\ todo[Loader] = Begun /\ todo'[Loader] = Detached
  <2>1. /\ error' = (error \/ (owner = Loader /\ ~(Marked \subseteq Detachable)))
        /\ owner' = owner /\ live' = live /\ orig' = orig
    BY <1>6, <1>c, DetachFacts
  <2>2. /\ owner = Loader /\ ~error /\ (live = {} \/ Marked \subseteq live)
        /\ \A f \in live \ {Shared} : orig[f] = "trampoline"
    BY <1>6, <1>b DEF Ready
  <2>3. CASE Marked \subseteq Detachable
    <3>1. owner' = Loader /\ ~error'
      BY <2>1, <2>2, <2>3
    <3> QED  BY <1>6, <1>d, <3>1, DetachingApart DEF Ready
  <2>4. CASE live # {} /\ ~(Marked \subseteq Detachable)
    <3>1. PICK f \in live : orig[f] # "trampoline"
      BY <2>2, <2>4 DEF Detachable
    <3>2. f = Shared
      BY <2>2, <3>1
    <3>3. orig[Shared] = "function"
      BY <3>1, <3>2, TypeParts DEF IInv, HookTypes
    <3>4. Reset'
      BY <2>1, <3>1, <3>2, <3>3 DEF Reset
    <3> QED  BY <1>6, <1>d, <3>4, DetachingApart DEF Ready
  <2>5. CASE live = {}
    BY <1>6, <1>d, <2>1, <2>5, DetachingApart DEF Ready
  <2> QED  BY <2>3, <2>4, <2>5
<1>7. CASE CommitTerm(Loader) /\ todo[Loader] = Detached /\ todo'[Loader] = Committed
  <2>1. /\ live' = IF Failed(Loader) THEN live ELSE live \ pending
        /\ orig' = [f \in system |-> IF f \in live \ live' THEN "function" ELSE orig[f]]
    BY <1>7, <1>c, TermFacts
  <2>2. live = {} \/ Reset \/ (owner = Loader /\ ~error)
    BY <1>7, <1>b DEF Ready
  <2>3. owner = Loader /\ ~error => live \subseteq pending
    BY <1>7 DEF IInv, Terminating
  <2>4. CASE Failed(Loader)
    <3>1. live' = live /\ \A f \in system : orig'[f] = orig[f]
      BY <2>1, <2>4
    <3>2. live = {} \/ Reset
      BY <2>2, <2>4 DEF Failed
    <3>3. live \subseteq system
      BY TypeParts DEF IInv, HookTypes
    <3>4. live' = {} \/ Reset'
      BY <3>1, <3>2, <3>3 DEF Reset
    <3> QED  BY <1>7, <1>d, <3>4, DetachingApart DEF Ready
  <2>5. CASE ~Failed(Loader)
    <3>1. live' = {}
      BY <2>1, <2>3, <2>5 DEF Failed
    <3> QED  BY <1>7, <1>d, <3>1, DetachingApart DEF Ready
  <2> QED  BY <2>4, <2>5
<1>8. CASE Unmap(Loader) /\ todo[Loader] = Committed /\ todo'[Loader] = <<>>
  <2>1. live' = live /\ orig' = orig
    BY <1>8 DEF Unmap, hooks
  <2>2. live = {} \/ Reset
    BY <1>8, <1>b, DetachingApart DEF Ready
  <2>3. live' = {} \/ Reset'
    BY <2>1, <2>2 DEF Reset
  <2> QED  BY <1>8, <1>d, <2>3, DetachingApart DEF Ready
<1> QED
  BY <1>4, <1>5, <1>6, <1>7, <1>8, LoaderRuns

LEMMA StepLeaving ==
  ASSUME IInv, Next
  PROVE  Leaving'
<1>1. ASSUME ~Up', ~lost', ~busy' PROVE Ready'
  BY <1>1, LeavingBegins, LeavingGoes
<1> QED
  BY <1>1 DEF Leaving

-----------------------------------------------------------------------------
(* What ORIG_X points to while X is attached.                               *)
LEMMA StepKept ==
  ASSUME IInv, Next
  PROVE  OriginalKept'
<1> DEFINE Kept == \A f \in live' \ {Shared} : orig'[f] = "trampoline"
<1> SUFFICES ASSUME Up' PROVE Kept
  BY DEF OriginalKept, Up, Shared
<1>a. Up
  BY BeforeDetachFacts
<1>b. /\ live \subseteq system /\ orig \in [system -> {"function", "trampoline"}]
      /\ pending \subseteq system /\ system' = system
  BY TypeParts, StepHookTypes DEF IInv, HookTypes
<1>c. \A f \in live \ {Shared} : orig[f] = "trampoline"
  BY <1>a DEF IInv, OriginalKept, Up, Shared
<1>1. CASE Quiet
  BY <1>1, <1>c DEF Quiet, hooks
<1>2. ASSUME NEW t \in All, SetOriginal(t) PROVE Kept
  <2>1. /\ At(t, "set") /\ live' = live
        /\ orig' = [f \in system |-> IF f = Name(t) THEN "function" ELSE orig[f]]
    BY <1>2 DEF SetOriginal
  <2>2. Name(t) # Shared => Name(t) \notin live
    <3>1. 1 \in 1 .. Len(todo[t]) /\ todo[t][1].op = "set" /\ todo[t][1].at = Name(t)
      BY <2>1, HeadFacts
    <3>2. Name(t) # Shared => Name(t) \notin Marked
      BY <1>a, <3>1 DEF IInv, Marks
    <3>3. live \subseteq Marked
      BY <1>a DEF IInv, Marks, BeforeDetach
    <3> QED  BY <3>2, <3>3
  <2> QED  BY <1>b, <1>c, <2>1, <2>2
<1>3. ASSUME NEW t \in All, Begin(t) \/ InitAttach(t) \/ Detour(t) \/ Mark(t) PROVE Kept
  <2>1. live' = live /\ orig' = orig
    BY <1>3 DEF Begin, InitAttach, Detour, Mark, hooks
  <2> QED  BY <1>c, <2>1
<1>4. ASSUME NEW t \in All, Commit(t) \/ CommitInit(t) PROVE Kept
  <2>1. /\ live' = IF Failed(t) THEN live ELSE live \cup pending
        /\ orig' = [f \in system |-> IF f \in live' \ live THEN "trampoline" ELSE orig[f]]
    BY <1>4, CommitFacts
  <2>2. live' \subseteq system
    BY <1>b, <2>1
  <2> QED  BY <1>b, <1>c, <2>1, <2>2
<1>5. ASSUME NEW t \in All, Detach(t) \/ CommitTerm(t) PROVE FALSE
  <2>1. dll' = "leaving"
    BY <1>5, DetachFacts, TermFacts
  <2> QED  BY <2>1 DEF Up
<1> QED
  BY <1>1, <1>2, <1>3, <1>4, <1>5, QuietSteps DEF Touches

-----------------------------------------------------------------------------
(* IInv holds at first, and every step keeps it.                            *)
LEMMA NothingToDo ==
  /\ ThreadSeq(<<>>) /\ ~Inside(<<>>)
  /\ \A g : ~Finishes(<<>>, g)
<1>1. <<>> \in Seq(ThreadItem) /\ 1 .. Len(<<>>) = {}
  OBVIOUS
<1> QED
  BY <1>1 DEF ThreadSeq, Follows, Covered, SetFirst, OneDone, OneLeave, CategoryLast, Inside, Finishes

LEMMA InitInv == Init => IInv
<1> SUFFICES ASSUME Init PROVE IInv
  OBVIOUS
<1>a. Loader \notin Threads /\ Loader \in All /\ None \notin All
  BY HookInstallAssumption DEF All
<1>b. /\ todo = [t \in All |-> IF t = Loader THEN Attaching ELSE <<>>]
      /\ dll = "loading" /\ live = {} /\ pending = {} /\ owner = None /\ error = FALSE
      /\ lost = FALSE /\ busy = FALSE /\ static = [g \in Statics |-> "no"] /\ section = None
      /\ hooked = [f \in system |-> FALSE] /\ orig = [f \in system |-> "function"]
  BY DEF Init
<1>c. /\ LoaderSeq(Attaching)
      /\ \A i \in 1 .. Len(Attaching) :
           Attaching[i].op \in {"begin", "init", "hook_init", "set", "demand"}
  BY AttachingFacts
<1>d. todo[Loader] = Attaching /\ \A t \in Threads : todo[t] = <<>>
  BY <1>a, <1>b DEF All
<1>e. Marked = {} /\ Idle /\ Up
  BY <1>b, <1>d DEF Marked, Idle, Up
<1>1. Orderly
  <2>1. Attaching \in Seq(AnItem) /\ <<>> \in Seq(AnItem)
    BY <1>c, SeqMonotonic DEF LoaderSeq, AnItem
  <2>2. todo \in [All -> Seq(AnItem)]
    BY <1>b, <2>1
  <2> QED  BY <1>c, <1>d, <2>2, NothingToDo DEF Orderly
<1>2. TypeOK
  <2>1. ASSUME NEW t \in All, NEW i \in DOMAIN todo[t] PROVE todo[t][i].op \in Ops
    <3>1. todo[t] \in Seq(AnItem)
      BY <1>1 DEF Orderly
    <3>2. todo[t][i] \in AnItem
      BY <2>1, <3>1
    <3> QED  BY <3>2 DEF AnItem, ThreadItem, LoaderItem, Kind, Ops
  <2> QED  BY <1>b, <2>1 DEF TypeOK
<1>3. Phases /\ Owning
  <2>1. ASSUME NEW t \in All, NEW i \in 1 .. Len(todo[t]) PROVE todo[t][i].op \notin {"attach", "detour", "mark"}
    <3>1. t = Loader
      BY <1>d, <2>1, NothingToDo DEF All
    <3>2. todo[t][i].op \in {"begin", "init", "hook_init", "set", "demand"}
      BY <1>c, <1>d, <2>1, <3>1
    <3> QED  BY <3>2
  <2> QED  BY <1>b, <1>c, <1>d, <2>1 DEF Phases, Owning
<1>4. Exclusive
  BY <1>d, NothingToDo DEF Exclusive
<1>f. ASSUME NEW t \in All PROVE Marking(t) = {}
  <2>1. ASSUME todo[t] # <<>> PROVE todo[t][1].op # "mark"
    <3>1. t = Loader /\ 1 \in 1 .. Len(Attaching)
      BY <1>c, <1>d, <2>1, EmptySeq DEF All, LoaderSeq
    <3>2. Attaching[1].op \in {"begin", "init", "hook_init", "set", "demand"}
      BY <1>c, <3>1
    <3> QED  BY <1>d, <3>1, <3>2
  <2>2. ASSUME NEW f, todo[t][1] = [op |-> "mark", at |-> f] PROVE todo[t] = <<>>
    BY <2>1, <2>2
  <2> QED  BY <2>2 DEF Marking
<1>5. Marks /\ Starting /\ Losses
  BY <1>b, <1>e, <1>f DEF Marks, Starting, Losses
<1>6. Terminating /\ Leaving /\ OriginalKept
  BY <1>a, <1>b, <1>e DEF Terminating, Leaving, OriginalKept, All
<1> QED
  BY <1>1, <1>2, <1>3, <1>4, <1>5, <1>6 DEF IInv

LEMMA StutterInv ==
  ASSUME IInv, UNCHANGED vars
  PROVE  IInv'
<1>a. UNCHANGED <<system, dll, todo, static, section, hooked, orig, live, owner, pending, error,
                  lost, busy>>
  BY DEF vars, code, hooks, detours, history
<1>b. /\ Up' = Up /\ Marked' = Marked /\ Idle' = Idle /\ Reset' = Reset
      /\ \A t : Marking(t)' = Marking(t)
  BY <1>a DEF Up, Marked, Idle, Reset, Marking
<1>1. TypeOK' /\ Orderly'
  BY <1>a DEF IInv, TypeOK, Orderly
<1>2. Phases' /\ Owning' /\ Exclusive'
  BY <1>a DEF IInv, Phases, Owning, Exclusive
<1>3. Marks' /\ Starting' /\ Losses'
  BY <1>a, <1>b DEF IInv, Marks, BeforeDetach, Starting, Losses
<1>4. Terminating' /\ Leaving' /\ OriginalKept'
  BY <1>a, <1>b DEF IInv, Terminating, Leaving, Ready, OriginalKept
<1> QED
  BY <1>1, <1>2, <1>3, <1>4 DEF IInv

LEMMA StepInv ==
  ASSUME IInv, [Next]_vars
  PROVE  IInv'
<1>1. CASE Next
  BY <1>1, StepType, StepOrderly, StepPhases, StepOwning, StepMarks, StepStarting, StepLosses,
     StepTerminating, StepLeaving, StepKept
  DEF IInv
<1>2. CASE UNCHANGED vars
  BY <1>2, StutterInv
<1> QED
  BY <1>1, <1>2

LEMMA Invariance == Spec => []IInv
<1>1. Init => IInv
  BY InitInv
<1>2. IInv /\ [Next]_vars => IInv'
  BY StepInv
<1> QED
  BY <1>1, <1>2, PTL DEF Spec

-----------------------------------------------------------------------------
(* Every variable has its type in every reachable state, and a transaction  *)
(* of nobody has no functions.                                              *)
THEOREM Typed == Spec => []TypeOK
<1>1. IInv => TypeOK
  BY DEF IInv
<1> QED
  BY <1>1, Invariance, PTL

(* The initializer of a static local is run by one thread at a time, and    *)
(* only while the local is being initialized; the thread that hooks the     *)
(* methods of a category of render targets is the one in CS_DWRITE.         *)
THEOREM SoleInitializer == Spec => []Exclusive
<1>1. IInv => Exclusive
  BY DEF IInv
<1> QED
  BY <1>1, Invariance, PTL

(* While the hooks are in place, ORIG_X of every function that is attached  *)
(* points past the jump to the hook, however many threads hook at once: SET *)
(* never follows the attachment of X, but for GetAlphaBlendParams.          *)
THEOREM OriginalsKept == Spec => []OriginalKept
<1>1. IInv => OriginalKept
  BY DEF IInv
<1> QED
  BY <1>1, Invariance, PTL

(* When DllMain has unmapped the module, no function jumps into it any      *)
(* more, unless a hook was marked without being attached, a hooked call was *)
(* in progress during hook_term, or ORIG_ of GetAlphaBlendParams had been   *)
(* set again under its hook.                                                *)
THEOREM CleanlyUnloaded == Spec => []CleanUnload
<1>1. IInv => CleanUnload
  <2> SUFFICES ASSUME IInv, dll = "gone", ~lost, ~busy PROVE live = {} \/ Reset
    BY DEF CleanUnload, Reset, Shared
  <2>1. todo[Loader] = <<>> /\ Ready
    BY DEF IInv, Phases, Leaving, Up
  <2> QED  BY <2>1, DetachingApart DEF Ready
<1> QED
  BY <1>1, Invariance, PTL

(* hook_demand passes over a function that is marked, no thread is past its *)
(* test when another one marks it, and hook_init tries a function once:     *)
(* what is marked and not attached is never attached.  Three initializers   *)
(* may be past the test of GetAlphaBlendParams at once.                     *)
THEOREM LostStaysLost == Spec => LostForGood
<1> DEFINE Stays == \A f \in system \ {Shared} :
              hooked[f] /\ f \notin live \cup pending => f \notin live' \cup pending'
<1>1. IInv /\ [Next]_vars => Stays
  <2> SUFFICES ASSUME IInv, [Next]_vars PROVE Stays
    OBVIOUS
  <2>a. error \in BOOLEAN
    BY TypeParts DEF IInv, HookTypes
  <2>b. ASSUME NEW t, NEW f, f \notin Marked \/ f = Shared, live' = live,
               NEW ok \in BOOLEAN, DetourAttach(t, f, ok)
        PROVE  Stays
    <3>1. pending' \subseteq pending \cup {f}
      BY <2>a, <2>b, AttachFacts
    <3> QED  BY <2>b, <3>1 DEF Marked
  <2>c. ASSUME live' = live, pending' = pending PROVE Stays
    BY <2>c
  <2> HIDE DEF Stays
  <2>1. CASE UNCHANGED vars \/ Quiet
    BY <2>1, <2>c DEF vars, Quiet, hooks, detours
  <2>2. ASSUME NEW t \in All, SetOriginal(t) PROVE Stays
    BY <2>2, <2>c DEF SetOriginal, detours
  <2>3. ASSUME NEW t \in All, Begin(t) PROVE Stays
    <3>1. live' = live /\ pending' \in {pending, {}}
      BY <2>3 DEF Begin, hooks, detours
    <3> QED  BY <3>1 DEF Stays
  <2>4. ASSUME NEW t \in All, InitAttach(t) PROVE Stays
    <3>1. live' = live /\ InitTries(t) /\ At(t, "init") /\ t = Loader
      BY <2>4, InitAttachFacts
    <3>2. 1 \in 1 .. Len(todo[Loader]) /\ todo[Loader][1].op = "init" /\ todo[Loader][1].at = Name(t)
      BY <3>1, HeadFacts
    <3>3. Name(t) \notin Marked
      BY <3>2 DEF IInv, Marks
    <3> QED  BY <2>b, <2>c, <3>1, <3>3 DEF InitTries, Tries, detours
  <2>5. ASSUME NEW t \in All, Detour(t) PROVE Stays
    <3>1. live' = live /\ At(t, "detour")
      BY <2>5, DetourFacts
    <3>2. PICK ok \in BOOLEAN : DetourAttach(t, Name(t), ok)
      BY <2>5, DetourFacts
    <3>3. 1 \in 1 .. Len(todo[t]) /\ todo[t][1].op = "detour" /\ todo[t][1].at = Name(t)
      BY <3>1, HeadFacts
    <3>4. Name(t) \notin Marked \/ Name(t) = Shared
      BY <3>3 DEF IInv, Marks
    <3> QED  BY <2>b, <3>1, <3>2, <3>4
  <2>9. ASSUME NEW t \in All, Mark(t) PROVE Stays
    BY <2>9, <2>c, MarkStepFacts
  <2>6. ASSUME NEW t \in All, Commit(t) \/ CommitInit(t) PROVE Stays
    <3>1. /\ pending' = IF owner = t THEN {} ELSE pending
          /\ live' = IF Failed(t) THEN live ELSE live \cup pending
      BY <2>6, CommitFacts
    <3> QED  BY <3>1 DEF Stays
  <2>7. ASSUME NEW t \in All, Detach(t) PROVE Stays
    <3>1. pending' = (IF owner = t THEN Marked \cap Detachable ELSE pending) /\ live' = live
      BY <2>7, DetachFacts
    <3> QED  BY <3>1 DEF Stays, Detachable
  <2>8. ASSUME NEW t \in All, CommitTerm(t) PROVE Stays
    <3>1. /\ pending' = IF owner = t THEN {} ELSE pending
          /\ live' = IF Failed(t) THEN live ELSE live \ pending
      BY <2>8, TermFacts
    <3> QED  BY <3>1 DEF Stays
  <2> QED  BY <2>1, <2>2, <2>3, <2>4, <2>5, <2>6, <2>7, <2>8, <2>9, QuietSteps DEF Touches
<1>2. IInv /\ [Next]_vars => [Stays]_vars
  BY <1>1
<1>3. [][Stays]_vars => LostForGood
  BY DEF LostForGood, Shared
<1> HIDE DEF Stays
<1> QED
  BY <1>2, <1>3, Invariance, PTL DEF Spec

(* No step takes away some of the hooks: hook_term detaches all that is     *)
(* attached, or nothing.                                                    *)
THEOREM AllDetachedOrNone == Spec => AllOrNothing
<1> DEFINE Whole == live \subseteq live' \/ live' = {}
<1>1. IInv /\ [Next]_vars => Whole
  <2> SUFFICES ASSUME IInv, [Next]_vars PROVE Whole
    OBVIOUS
  <2>1. CASE UNCHANGED vars \/ Quiet
    BY <2>1 DEF vars, Quiet, hooks
  <2>2. ASSUME NEW t \in All,
               SetOriginal(t) \/ Begin(t) \/ InitAttach(t) \/ Detour(t) \/ Mark(t)
        PROVE  Whole
    BY <2>2 DEF SetOriginal, Begin, InitAttach, Detour, Mark, hooks
  <2>3. ASSUME NEW t \in All, Commit(t) \/ CommitInit(t) PROVE Whole
    <3>1. live' = IF Failed(t) THEN live ELSE live \cup pending
      BY <2>3, CommitFacts
    <3> QED  BY <3>1
  <2>4. ASSUME NEW t \in All, Detach(t) PROVE Whole
    BY <2>4, DetachFacts
  <2>5. ASSUME NEW t \in All, CommitTerm(t) PROVE Whole
    <3>1. t = Loader /\ todo[Loader] = Detached /\ live' = IF Failed(t) THEN live ELSE live \ pending
      BY <2>5, TermFacts
    <3>2. owner = Loader /\ ~error => live \subseteq pending
      BY <3>1 DEF IInv, Terminating
    <3> QED  BY <3>1, <3>2 DEF Failed
  <2> QED  BY <2>1, <2>2, <2>3, <2>4, <2>5, QuietSteps DEF Touches
<1>2. IInv /\ [Next]_vars => [Whole]_vars
  BY <1>1
<1>3. [][Whole]_vars => AllOrNothing
  BY DEF AllOrNothing
<1> HIDE DEF Whole
<1> QED
  BY <1>2, <1>3, Invariance, PTL DEF Spec

=============================================================================
