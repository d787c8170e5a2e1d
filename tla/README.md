# MacType: specifications, model checks and proofs

MacType is a DLL that is loaded into Windows processes, replaces the GDI and
DirectWrite text functions and draws text with FreeType. Beside the DLL the
repository holds an agent (named pipe server, secure channel, injector) and a
WinUI manager. This directory holds TLA+ modules of the parts of the DLL where
threads meet and of the pipe between agent and manager, the TLC configurations
that check them, and TLAPS proofs.

Paths below are relative to `src/src/`.

## 1. Inventory

| Component | Source | State | Operations | Hard behaviour |
|---|---|---|---|---|
| Owned critical section | `cache/ownedcs.cpp`, `utils/common.h` | `nOwner`, `nRequests`, `nRecursiveCount`, an auto-reset event, a plain section | enter, leave, by owner class | fields written outside the plain section; lost wake-ups; counter drift |
| Font registry | `core/fteng.{h,cpp}` | `m_mfontMap`, `m_mfullMap`, `m_mfontList`, `FaceIDHolder`; per font the reference count and the links | find by name, by parameters, by id; add; alias; remove; reload all; destroy | drawing, removing and reloading threads under different sections; ids that index a list |
| Glyph cache | `core/fteng.{h,cpp}`, `core/ft.cpp`, `core/ftref.c` | per size a map from character or glyph index to two glyphs, two counters; a count per glyph | find, add, compact, erase; copy and release of a glyph | glyphs shared between cache and drawing threads; two render modes in one entry |
| Size cache | `core/fteng.cpp` (`GetCache`, `Compact`) | per font a map from size to glyph cache, counters, activation flags | get, compact | counter bookkeeping; pointer used after the section is left |
| Handle caches | `core/override.cpp` | `DCRelation`, `DCHwndCache`, `DCRef`, `FontCache` | create, delete, get, release of DCs and fonts | GDI reuses a handle between its deletion and the update of the map |
| Hook lifecycle | `hooking/hook.cpp`, `utils/tlsdata.h` | `IsHooked_X` and `ORIG_X` of each function, the transaction of the hooking library, engine pointer, thread data | attach, attach on demand, detach, thread exit | transactions of several threads; unloading while calls are in progress |
| Bitmap cache | `cache/cache.cpp` | bitmap, size, reuse counter, memory total | `CreateDIB` | partial failure; memory limit |
| Lock order | `utils/common.h` | about a dozen recursive sections and two owned ones | enter, leave | circular wait |
| Settings | `settings/*` | profile values, font lists, links, `m_bDelayedInit` | load, initialise on first use, look up, reload | initialisation that calls hooks; reload while others read |
| Text output | `core/ft.cpp`, `core/override.cpp` | none that is shared beyond the caches above | layout, rasterise, blend | pixel arithmetic |
| DirectWrite hooks | `platform/directwrite.cpp` | static locals that run once, the hook flags | hook the methods of an object, convert parameters | once-only installation by several threads |
| Agent pipe and manager client | `platform/agent/ipc/named_pipe_server.cpp`, `platform/manager/MacTypeCommunication.cpp` | running flag, pipe handle, server thread; connected flag and handle of each page | start, stop, connect, request, response | message framing; two ends that wait for each other; stop of a blocked thread |
| Agent controller, secure channel | `platform/agent/core`, `platform/agent/ipc/secure_channel.cpp` | status, connection state, listening thread | initialise, start, stop, recover, connect, disconnect | state read across `co_await` |
| Rest | injector, logger, WinRT helpers, manager pages, launchers, utilities, vendored code | | | not core logic |

How they interact. A hooked call such as `IMPL_ExtTextOutW` owns the section
`OCS_DC` for class 1 (drawing), then, in `FreeTypeGetGlyph`, `OCS_FREETYPE` for
class 1. Inside, `FreeTypePrepare` asks the registry for the font
(`FindFont`), the font for its links (`GetFTLink`) and for the cache of the
size (`GetCache`); the glyph loop takes glyphs out of that cache, or makes them
through FreeType and stores them. The glyphs of the text outlive both sections'
inner one: they are drawn and released under `OCS_DC` only.
`IMPL_RemoveFontResourceExW` calls `RemoveFont`, which owns `OCS_DC` for
class 2 (removing); the control centre's `ReloadConfig` and `RefreshSetting`
call `ReloadAll`, which owns `OCS_FREETYPE` for class 2. `CS_MANAGER`,
`CS_LIBRARY`, `CS_FONTENG`, `CS_FONTMAP`, `CS_FONTLINK`, `CS_FONTCACHE`,
`CS_CACHEDFONT`, `CS_DCRELATION` and `CS_SETTING` are plain recursive sections
taken inside. `DllMain` attaches the functions of GDI, and the exports of d2d1
and dwrite; the hooks of those attach the methods of the objects they return,
in whatever thread creates one. On unload it detaches all of them in one
transaction and deletes the engine. The manager's pages each own a
communicator, a client of the one pipe that the agent's server thread serves.

What makes each component correct:

- *owned section*: classes exclude each other, counters do not drift, one grant
  at a time, no lost wake-up, every waiter gets in;
- *registry*: both maps name live fonts only and forget none, ids and list
  slots agree, links resolve while they are used, each font is freed once;
- *glyph cache*: a glyph's count is the number of its holders, the cache is
  bounded, a hit has its glyph, compaction keeps what was used last;
- *size cache*: a request gets the cache of its own size, a cache is deleted
  once, and not under its user by that user's own doing;
- *handle caches*: an entry belongs to the handle's present owner;
- *hooks*: each function is attached once and its original stays reachable,
  all hooks go when the module goes, and hooked calls return;
- *bitmap cache*: the total is the size of what is allocated;
- *lock order*: no circular wait, and each section keeps apart what relies on it;
- *settings*: nobody sees them half initialised;
- *pipe*: each command is matched with its answer and returns, stop returns;
- *controller*: the status follows the components' state.

The hazards of `PROJECT.json` list the lines where these can go wrong and the
properties that would catch it.

## 2. Plan

Written, in this order, the most important behaviour first:

1. `ClassLock` (abstract) and `OwnedCS` with `OwnedCSProofs`;
2. `FontEngine`, which composes the registry, the links, the three callers and
   two instances of `ClassLock`, with `FontEngineProofs`;
3. `GlyphCache` with `GlyphCacheProofs`;
4. `LockOrder` with `LockOrderProofs`: the sections as all callers nest them;
5. `SizeCache` with `SizeCacheProofs`;
6. `ManagerPipe` with `ManagerPipeProofs`: both ends of the agent's pipe;
7. `HookInstall` with `HookInstallProofs`: hooks installed on demand, and removed
   on unload.

Left:

8. `BitmapCache`, sizes and memory total as a state machine with failing
   allocations;
9. `HandleCaches`, `DCRelation` and `FontCache` against handles that GDI gives
   out again;
10. the secure channel and the controller, once their stubs have a body.

## 3. The modules and the code

### ClassLock, OwnedCS

`ClassLock` is what callers of `COwnedCriticalSectionLock` rely on: threads of
one class hold the lock together and nested, never two classes at once.

`OwnedCS` is the code. The variables `nOwner`, `nRequests`, `nRecursiveCount`,
`hEvent`, `threadLock` are the fields of `OWNED_CRITIAL_SECTION`; `pc` is the
position of each thread inside `EnterOwnedCritialSection` or
`LeaveOwnedCritialSection`; `depth` counts the guards of a thread. There is one
action per interlocked operation or per stretch under `threadLock` between two
of them: `EnterTest`, `Nest`, `Request`, `Wake`, `Own`, `Count`; `LeaveTest`,
`Drop`, `Stray`, `Free`, `HandOff`. `Own` and `Count` do not hold
`threadLock`, because lines 41 and 42 run after it was left. `overtaken` is a
history variable and no field: it is raised when a nested guard is counted while
another thread of the class is between lines 41 and 42, whose 1 then overwrites
the increment. `ImplementsClassLock` maps `held` to `depth` and asks every step
before that to be one of `ClassLock`. The `-1` of
`nOwner` is compared with a `WORD`: class values are naturals, so the two never
meet.

### FontEngine

The variables are the two maps, the list, the id counter, and per font
liveness, full name, reference count and links. A font is named by its
`m_id`. Three threads act: the drawer (`BeginDraw` to `EndDraw`), the remover
(`BeginRemove` to `EndRemove`) and the reloader (`BeginReload` to
`EndReload`); `DestroyEngine` is the destructor. `FindFont`, both `AddFont`s
and both `Remove...` helpers run under `CS_FONTMAP` from beginning to end and
are one step each; the calls that use them are not. The full name GDI reports
for a face is a free choice, `Nil` for a bitmap font; an alias arises when it
differs from the name asked for. The iterator of `ReloadAll` is the variable
`cursor`; erasing its entry makes it `Dangling`, and advancing a dangling
iterator (`ReloadAstray`) goes anywhere.

Assumptions: the two owned sections are taken as `ClassLock`, which theorem
`UnsharedLock` (section 5) grants a section no two threads of one class enter;
in this module `OCS_DC` is entered by the drawer and the remover, `OCS_FREETYPE`
by the drawer and the reloader. A link array is a set:
its order decides only which font draws. The destructor runs when no call is in
progress; `hook_term` does not see to that (see `HookInstall`).
`ReloadAll`'s visit of one font is a single step, and the fonts' glyph caches
are not part of this module.

### GlyphCache

`cached`, `slot`, `mru`, `addCount`, `mruCount` are `m_GlyphCache`, the two
glyph pointers and counter of each entry, and the two counters of the cache;
`refs` is the `refcount` of each glyph; `owner` is the thread in
`OCS_FREETYPE`; `mode` is the loop's `render_mode`; `text` is each thread's
`GlyphArray`. Keys are characters (positive) or negated glyph indexes, as in
`_GetChar` and `_GetGlyph`; `sought` says which of the two the text in the loop
consists of, as `bGlyphIndex` does. A text of glyph indexes needs no linked font
and keeps its `render_mode`; a missing character may come from a font of another
mode. `Hit`, `Miss` and `NotFound` are the three ways
through the loop for one character, `Store` is `AddCharData` or `AddGlyphData`
with the compaction they may run, `EraseAll` is the deletion of the cache by
its font, `Done` releases one glyph of the text. `render_mode` takes two
values, which are all that `GetGlyph` and `SetGlyph` tell apart.

One thread at a time is inside the loop. The program lets all drawing threads
in at once, since they share class 1; two of them changing one `std::map`
without a lock is undefined behaviour, which the hazards list. What the module
does interleave is the loop of one thread with the drawing and release of
glyphs by others, which happen outside `OCS_FREETYPE`.

### LockOrder

Each definition named after a function is the function's lock program: the
section its guard takes, the owner class if it is one of the two owned
sections, and the functions it calls that take sections in their turn, in the
order of the code. The variable `stack` is the call stack of each thread; a
thread holds the sections of its frames, since a guard is a local object.
`Begin` is a call from outside, `Call` goes on to a later callee (one behind a
condition may be left out, a loop is one turn), `Enter` passes a guard,
`Return` leaves. `inited` is `m_bDelayedInit`, the one condition that decides
who initialises: `DelayedInit` raises it first thing, `ResetInit` is the
assignment in `ReloadConfig` that lowers it. Callbacks count as calls: GDI's
`CreateFont` runs `CreateFontIndirectExW`, FreeType's cache manager runs
`face_requester` and the finaliser of a face.

`Trace` is the `TRACE` macro of a debug build, called by a mutated form only: in
a debug build `AddIndividualFromSection` (`settings/settings.cpp:1044`), which
`DelayedInit` calls inside the `CS_SETTING` of `GetInstance`, takes `CS_LIBRARY`,
while `ReloadAll` takes them the other way round, which is a circular wait. The
release build leaves the call out.

Left out: early returns of `DelayedInit` in a restricted process; `CS_DWRITE`
and `CS_VIRTMEM`, inside which no other section is taken; what `DllMain` does
while loading and unloading. The owned sections are taken as `ClassLock`.

### SizeCache

`sizes` is `m_cache`, `live` the caches allocated, `active` those with
`m_active`, `added` is `m_addcount`; `pc` and `pftCache` say where a drawing
thread is and which cache it uses after it has left `CS_FONTCACHE`. `GetCache`
is one step, as its section makes it: `TooLarge`, `Found` or `New`, each after
the compaction that the counter may cause. `BeginReload` and `Erase` are
`ReloadAll`; the destructor of a font has the effect of `Erase` and is in
`FontEngine`. `Field` stands for the 2^12 values that a height or a width has
room for in the hash.

Two things the code does that its comments do not lead one to expect. The
comment of `core/fteng.cpp:475` says that a re-use lowers the counter; the code
lowers it on the first use of a cache since a compaction and leaves it raised
on every further one. So a font that is asked for ever new sizes is not
compacted at all (the counter stays where it is), and one that draws in a few
sizes is compacted over and over. No property is about this disagreement:
`Activate` is the code, and `Spaced` bounds how often it can compact. And with two drawing threads one may lose the cache it is using (`Dangling`);
`LostToDrawing` says that there is no other way.

### ManagerPipe

The server thread: `Create` (`CreateNamedPipe` may fail, the thread then sleeps
and tries again while `m_isRunning`), `Accept`, `Serve` (`ReadMessage`, `ProcessMessage`
and the write of the answer), `Wrote` (the write returns), `PageGone`, `HangUp`;
`StopAsync` lowers `m_isRunning` and joins. A page: `ConnectToMacType`,
`SendCommand`, `SendData`, `Sent`, `ReceiveHeader`, `ReceiveText`, `Broken`,
`Disconnect`. `requests` and `answers` are the unread messages of the two
directions, each with the length that is left of it. A write to the pipe puts
its message there at once and returns when what is unread is within the quota;
in message mode a read takes what it has room for, fails with "more data" if
something is left, and leaves the rest to the next read.

The answers of `ProcessMessage` are their lengths. Header and data arrive as
two messages, so a handler that needs data finds none (`ERROR: Invalid mode`,
`ERROR: Invalid process ID`) and the data alone is no header (`ERROR: Invalid
message format`, or `ERROR: Unknown message type` if it is 8 bytes or longer).
What a page reads as `dataSize` when its read does not begin a message is text
or a variable that was never written; `Garbage` holds the values tried.
`SetCommTimeouts` is not meant for pipes: a page whose call fails closes its
handle again, which is `ConnectToMacType` and then `Disconnect`, and the
time-outs have no effect on reads.

What the module shows, beside the properties that hold: no command is answered to
its caller with the text of the server, because an answer is one message and
the page reads its header with a buffer of 8 bytes, which fails. Run
`managerpipe_health` has the shortest case, theorem `NoText` all of them.
`SetMode` takes
any non-empty string for success (`MacTypeCommunication.cpp:91`). The
comment of `named_pipe_server.cpp:97` says that clients are handled
asynchronously, but `.get()` waits for the one at hand, so a second page
cannot connect while the first one is.

### HookInstall

`hooked`, `orig` and `live` are, of each function, `IsHooked_X`, what `ORIG_X`
points to, and whether its code jumps to the hook; `owner`, `pending` and
`error` are the transaction of the hooking library, which is one at a time for
the process; `static` and `section` are the static locals and `CS_DWRITE`.
What a thread has still to do is the sequence `todo`, built from `Initializer`
(what each static local does once), `IMPL` (what each hook does besides calling
the function), `Attaching` and `Detaching` (`DllMain`). `Call` is a call from
the program; `Hook`, `SetOriginal`, `Begin`, `Attach`, `Detour`, `Mark` and
`Commit` are the steps of the `HOOK` macro and of `hook_demand_X`, and interleave
with those of other threads. The line that tests `IsHooked_X`, attaches and sets
`IsHooked_X` (`hooking/hook.cpp:264`) is three of them, because nothing keeps
another thread from it. `DemandExport` is the test of what `GetProcAddress`
returned before `hook_demand_X`. A system has some functions and lacks others, which `Systems`
lists: `hook_init`, `HOOK` and `DemandExport` pass over one that is missing.
`Unsure` are those that the library may be unable to patch. `Detachable` is what
`DetourDetach(&ORIG_X)` can find again: the functions that are attached and
whose `ORIG_X` points to the trampoline. One that is not makes an error of the
transaction, which then takes away nothing.

What the module shows. `DetourTransactionBegin` is refused while another thread
has a transaction, and neither that nor the result of `DetourAttach` is looked
at: `hook_demand` marks the function in any case (`hooking/hook.cpp:264`;
`hook_init` marks what was attached, line 198). So two threads that hook at
the same moment lose a hook for good, and the message "hook failed"
(`platform/directwrite.cpp:33`) is never written. At the end `DetourDetach` of
the lost function is an error that undoes the whole transaction: `hook_term`
then removes no hook at all. `GetAlphaBlendParams` is hooked by three static
locals and in no section, unlike the methods of render targets; a thread that
is past the test of `IsHooked_X` when another one attaches sets `ORIG_X` back
to the patched code, and the hook calls itself. On unloading, `DetourDetach` does
not find the trampoline and the transaction of `hook_term` fails, although no
hook was lost and no call is in progress. And a thread whose transaction was
refused may mark the function while another one, past the test, has still to
attach it. So `OriginalKept` and `LostForGood` leave this function out, and
`CleanUnload` names it as the third of the reasons for which jumps stay. `HCounter`, for which `hook_term` waits, is
constructed nowhere (`hooking/hookCounter.h:10`), so the wait ends at once:
the variable `busy` remembers that a call was in progress.

Methods that are hooked in one place and go on with the same code are
represented by the first of them. Failures before `hook_init`, the termination
of the process, and the EasyHook build are left out.

## 4. Runs

| Run | Instance | Checks |
|---|---|---|
| `ownedcs_shared` | 2 drawing threads of class 1, 1 remover of class 2; 2 nested guards | `TypeOK`, `OneGrant`, `NoLostWakeup`, `ExclusionKept`, `CountersKept`, refinement `ImplementsClassLock`, liveness `WaiterEnters` |
| `ownedcs_exclusion` | as above | `ClassExclusion` is violated |
| `fontengine_registry` | 2 face names, 2 full names, 3 face ids | `TypeOK`, `RegistryLive`, `FaceIdsMatch`, `LinksResolve`, `EngineFreesAll`, `LinksStable` |
| `fontengine_reload` | 1 face name, 2 full names, 2 face ids | `ReloadReachesAll` is violated |
| `glyphcache_texts` | 2 threads, 4 keys, 4 glyphs, texts of 2, compaction at 2 additions down to 1 entry | `TypeOK`, `RefsExact`, `CacheBounded` |
| `glyphcache_modes` | the same with a longer MRU range | `HitHasGlyph` is violated |
| `glyphcache_recent` | 1 thread, compaction at 3 additions | `KeepsRecent` is violated |
| `lockorder_sections` | 2 threads, each with one call of three | `TypeOK`, `NoCircularWait`, `ManagerAlone`, `FontsStay`, `SettingsReady` |
| `sizecache_requests` | 2 threads, 4 sizes, 4 caches, 2 kept, fields of 4 values | `TypeOK`, `OnceInMap`, `SizeServed`, `LostToDrawing`, `Spaced` |
| `managerpipe_commands` | 2 pages, 4 commands, quota 24 | `TypeOK`, `AnswerOwed`, `OneLateMessage`, liveness `CommandReturns`, `StopReturns` |
| `managerpipe_health` | as above | `HealthAnswered` is violated |
| `hookinstall_threads` | the loader and 2 threads, 3 systems | `TypeOK`, `OriginalKept`, `CleanUnload`, `LostForGood`, `AllOrNothing`, liveness `CallReturns` |

Bounds and why they are enough. *OwnedCS*: three threads give an owner, a
waiter, and a third that arrives while the event is being handed over; two
guards distinguish the first from a nested one. *FontEngine*: two full names
allow an alias and an iterator with a next entry; two face names allow a font
found under another key; three ids allow a removed font, a live one and one
added afterwards, so a slip between ids and slots shows. `MaxFaces` is a bound
of the guard in `TakeFaceId`. *GlyphCache*: two additions fill a cycle, one
kept entry makes compaction both drop and keep, four keys hold two of each
sign, `MaxText` and `MaxMru` bound text length and counter. *LockOrder*: a circular
wait of any number of threads that hold one section each needs only two when
the sections are taken in two orders; one call each reaches every path of the
call tables, since threads keep nothing from one call to the next but the flag
`inited`; theorem `NoStandstill` covers the rest. *SizeCache*: two kept sizes
and three that fit make compaction both drop and keep; the over-size height 5
has the hash of height 1. *ManagerPipe*: a quota of three headers lets both
directions fill, the four commands have no data, data shorter than a header,
and data longer than one read; two pages make one that cannot connect.
*HookInstall*: two threads collide in every pair of static locals, and with the
loader in `DllMain`; each system holds one family of functions with a chain of
initialisers, at least two of which share a method. Symmetry is used
for names, threads and glyphs, which the modules only compare for equality, and
never in a run with a liveness property.

Fairness. In `FairSpec` of `OwnedCS`, for `WaiterEnters`: a
thread that is inside a call of the section goes on (weak fairness on the
internal steps), every guard is a local object whose destructor runs when its
block ends, down to the outermost one (strong fairness on `LeaveTest`, because
`threadLock` comes and goes), and a waiter of the event is not overtaken for
ever, since Windows releases the waiters of an event in the order they came
(strong fairness on `Wake`). Entering is never assumed. `WaiterEnters` admits
the one thing the code does nothing against: threads of the owning class that
relieve each other inside, so that the section is never empty again. In `ManagerPipe` the
server thread runs, and a page that has begun a command goes on with it (weak
fairness of `Server` and of `Page(p)`); no page need connect, send or
disconnect, and nobody need stop the server. In `HookInstall` every thread goes
on with what it has to do (weak fairness of `Run(t)`); no thread need call, the
module need not be unloaded, and no thread that waits for `CS_DWRITE` is
assumed to get it against others that enter again and again, because each
static local enters it once.

The liveness properties say what is true and no more: `CommandReturns` admits
the standstill in which both ends have written more than the quota, and
`StopReturns` the three waits in which the server thread can stay for good
(`ConnectNamedPipe`, `ReadFile` and `WriteFile`), because `StopAsync` lowers a
flag and wakes nobody.

Deadlock is checked in every run but three. In the two of `ManagerPipe` the program
can stop: both ends may wait for each other, and a stopped server has nothing
left to do. In `hookinstall_threads` nothing runs once the module is unmapped.
Elsewhere an unloaded engine, a process that has faulted and threads that have
made all the calls of the bound have a step of their own that changes nothing
(`Unloaded`, `Faulted`, `Finished`).

What the five violations show:

- `ownedcs_exclusion`: two threads of class 1, one between lines 41 and 42, the
  other nesting: line 42 overwrites the nested increment. When one leaves, the
  section is freed with the other inside, and the remover gets in, against
  `core/fteng.cpp:550`. `ownedcs_shared` shows, of the same threads, that the
  overwritten increment is the only way to it (`ExclusionKept`), and that even
  after it no two requests are granted together and no waiter is lost.
- `fontengine_reload`: `ReloadAll` and `RemoveFont` hold no section in common,
  so the iterator of the first can lose its entry to the second, against
  `core/fteng.h:621`.
- `glyphcache_modes`: an entry made in one render mode is found in the other,
  where its glyph is `NULL`, and is copied without a test (`core/ft.cpp:1930`),
  against `core/fteng.h:89-91`. It takes a linked font whose anti-aliasing mode
  is -1 beside one whose mode is not.
- `glyphcache_recent`: compaction goes by key, not by use, against
  `core/fteng.h:93-95`.
- `managerpipe_health`: the answer to a page's health check is there, and the
  page is returned the empty text, against `MacTypeCommunication.cpp:312` and
  `:135` and `named_pipe_server.cpp:146`. `IsServiceRunning` is never true.

## 5. Proofs

`OwnedCSProofs`, for any finite set of threads, any classes in `Nat`, shared by
any threads, and any depth:

- `TypeCorrect`: `Spec => []TypeOK`, and `SingleGrant`: `Spec => []OneGrant`.
  `OneGrant` is not inductive alone: `GrantInv` adds that `threadLock` is held
  exactly by the thread in the middle of a locked stretch and that `nRequests`
  is -1 exactly when there is nobody granted, no owner, no event.
- `Wakeup`: `Spec => []NoLostWakeup`. `QueueCounted` equates `nRequests` with the
  number of waiters and the right to own; `CountCovered` says that
  `nRecursiveCount`, which drifts by lost increments and stray leaves, may fall
  behind the guards of the owning class but never gets ahead of them, so that the
  last guard hands over.

Mutual exclusion is false of the code once an increment was overwritten (run
`ownedcs_exclusion`); the remaining theorems, of every behaviour and whatever
classes are shared, say that nothing else breaks it:

- `Exclusion`: `Spec => []ExclusionKept`, and `Counters`: `Spec => []CountersKept`.
  The inductive invariant `CountInv` is `GrantInv /\ (overtaken \/ KeptInv)`, where
  `KeptInv` says that who is inside has its class in `nOwner`, that only the
  thread that is writing the count is without it (`CountingAlone`), that the
  section is freed empty, and that the count is the number of the guards of the
  owner's class (`CountIsGuards`).
- `Implementation`: `Spec => ImplementsClassLock`, step by step: `Nest` and `Count`
  acquire, `LeaveTest` releases, everything else is a stutter.
- `UnsharedLock`: where no two threads share a class, `Spec => Promise!Spec`, the
  class lock without reservation, since only a thread of the same class can
  overtake. It is what `FontEngine` assumes of its two sections; the program's
  `OCS_DC` and `OCS_FREETYPE` are entered by more drawing threads than one, and
  for those the assumption holds until an increment is overwritten.

`FontEngineProofs`, for any face names, any number of full names and any
`MaxFaces`: `TypeCorrect`, `Lively` (`RegistryLive`), `FaceIds`
(`FaceIdsMatch`), `Resolved` (`LinksResolve`), `Stable` (`LinksStable`) and
`FreesAll` (`EngineFreesAll`). None of these is inductive alone; the invariant
`Inv` joins them with

- `SectionInv`: who is inside a section holds it, the two class locks keep
  drawing apart from removing (`OCS_DC`) and from reloading (`OCS_FREETYPE`),
  and nobody is inside once the engine is gone;
- `RegistryInv`: the maps, the list and the counts agree; a live font's count is
  the number of its full names, which is what makes the destructor exact;
- `RemoveInv`: between the steps of `RemoveFont(file)` its font is live until it
  is removed, its slot exists, and a font the look-up has just made is entered
  once and linked by nobody. That is why `RemoveThisFont`, which removes one key
  and forgets no links, is enough;
- `LinkInv`: live fonts are linked to live fonts only, unused ids to nothing.

The registry's operations are lemmas of their own (`AddFontByNameKeeps`,
`AddFontByParamsKeeps`, `ErasureKeeps`): each leaves the registry right and
brings or takes at most one font. `LeastNatural` and `AfterIsEntry` show that
the iterator always finds a next entry or the end.

`GlyphCacheProofs`, for every `FREETYPE_REQCOUNTMAX > 0` and
`FREETYPE_GC_COUNTER`, any keys, glyphs, threads and text lengths, and finitely
many modes:

- `Bounded`: `Spec => []CacheBounded`. The inductive invariant `SizeInv` bounds
  the entries by `GcCounter + 1 + addCount`: what the last compaction left, the
  entry the compacting call itself stored, and one for each addition since.
- `TypeCorrect`: `Spec => []TypeOK`. `TypeInv` adds that a thread about to
  store owns the section and has its glyph, and that a key outside the cache
  holds none.
- `Exact`: `Spec => []RefsExact`. `CountInv` is the same equation with the
  finiteness of the uses. Its lemmas follow the holders through each change:
  `UsesAfterAppend` (a text takes a glyph), `UsesAfterTail` (it lets its first
  one go, the others move up by a bijection), `SlotsAfterSet` (an entry's glyph
  is replaced after a compaction dropped others).

`LockOrderProofs`, for any set of threads, any of the entry points, any number
of calls: `TypeCorrect`, `NoStandstill` (`NoCircularWait`), `ManagerToOne`
(`ManagerAlone`), `FontsStayInPlace` (`FontsStay`) and `SettingsComplete`
(`SettingsReady`). The argument for the first is a rank of the sections that
grows from each guard to every guard that may be taken inside it: a thread
that waits then waits for a section above all it holds, and among the waiting
threads the one with the highest is blocked by none of the others that wait.
The rest follow from who is inside which section, since every path to the cache
manager goes through `CS_MANAGER`, and to a look-up through an owned section of
class 1.

`SizeCacheProofs`, for any threads, requests and sizes of the fields, and any
`MaxSizes > 0`: `TypeCorrect`, `EveryCacheOnce` (`OnceInMap`), `RightSize`
(`SizeServed`), `LostOnlyToDrawing` (`LostToDrawing`), `CompactionsSpaced`
(`Spaced`). `RightSize` rests on the injectivity of the hash for requests that
pass the over-size test; `CompactionsSpaced` on the bound of the counter by
the requests since the last compaction.

`ManagerPipeProofs`, for any pages, commands, quota, lists and garbage:
`TypeCorrect`, `AnswersOwed` (`AnswerOwed`), `LateOnce` (`OneLateMessage`), and
`NoText`, which generalises the finding of `managerpipe_health`: no command of
any page is ever returned the text of its answer. The invariant joins `TypeOK` with `Queued` (only the first
answer may be begun, the others are whole; a page that has written finds its
answer behind the leftovers of earlier ones), `NoHeader` (no page takes a whole
header for one, so none is in the state `"text"`), and `Late` (after the flag has
fallen at most one message is read).

`HookInstallProofs`, for any threads, systems and functions that cannot be
patched: `Typed` (`TypeOK`), `SoleInitializer` (mutual exclusion of the code that
hooks), `OriginalsKept` (`OriginalKept`), `CleanlyUnloaded` (`CleanUnload`),
`LostStaysLost` (`LostForGood`), `AllDetachedOrNone` (`AllOrNothing`). Each is
proved with the test, the attach and the mark of `hook_demand` as steps of their
own. None is inductive alone. What a thread has still to do is a list, so the invariant
`IInv` is about lists:

- `ThreadSeq` and `LoaderSeq` say what a list may look like: a method is hooked
  before the `done` of the static local it is hooked under, or between the
  `enter` and the `leave` of `CS_DWRITE` (`Covered`); `set` comes first, so that
  a thread that has one is in the midst of hooking; `begin` and the calls after
  it are followed by what ends the transaction (`Follows`); only a first item is a
  `detour` or a `mark`, which follow the test (`SetFirst`, `HeadFirst`); the loader sets
  `ORIG_X` before it attaches X (`SetBefore`), and has done with GDI before
  anything else (`InitFirst`). That every initializer, every hook and every
  branch keeps this (`StaticOrderly`, `HookOrderly`, `ThreadPrefix` and others)
  is the bulk of the module.
- `Exclusive`: a list with the `done` of a static local belongs to the one thread
  that runs its initializer, and a list inside the section to the thread that
  is in it. Hence `AttachedLast`: no thread attaches X while another has yet to
  set `ORIG_X`, which is `OriginalsKept`. It fails for `GetAlphaBlendParams`, which
  is hooked under three locals.
- `Owning`, `Marks`, `Losses`: the owner of the library's transaction is inside
  it; attached functions are marked, pending ones are or are about to be
  (`Marking`); what is marked or about to be is attached or pending, unless a
  hook was lost.
- `Starting`, `Terminating`, `Leaving`: until `hook_init` has ended the loader is
  alone; at `hook_term` every attached function is in its transaction or the
  transaction fails; with nothing lost and no call in progress it fails only if
  `ORIG_GetAlphaBlendParams` was set again (`Reset`).

On the instance of `hookinstall_threads` TLC finds `IInv` true of every reachable
state. The theorems assume only that the loader is not one of the threads and
that functions are strings (`HookInstallAssumption`).

Model-checked only: `WaiterEnters`, `CommandReturns`, `StopReturns` and
`CallReturns` (liveness is out of the prover's reach).
No module declares a RECURSIVE operator.

## 6. Not modelled

Pixel work, text layout, parameter conversion and FreeType itself transform
data without shared state of their own. Of the settings, parsing and look-ups
are not modelled; that readers of their lists race with a reload is undefined
behaviour and is listed as a hazard, like the other unlocked containers
(`FontNameCache`, `DCArray`, the reads of `FontCache`). The bitmap cache and the
handle caches are in the plan. The agent's secure channel, controller and
bridge consist largely of TODO stubs that return success. The injector, logger
and helper layers, the manager's pages, launchers and vendored code are outside
the core logic.
