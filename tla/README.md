# A verification development of pvz2vita

pvz2vita runs the Android engine of a game on a PS Vita: a loader maps the ARM
library, and everything the library expects of Android (threads, files, OpenSL,
EGL, JNI) is answered by the C code under `vita/direct/source`. The engine is a
black box with many threads; the code that answers it is where the locks, caches,
queues and transactions are, and that code is what is modelled here. Paths below
are relative to `vita/direct/source` unless they start with `lib/`.

## 1. Inventory

| Component | State | Operations | What is hard | What makes it correct |
| --- | --- | --- | --- | --- |
| Virtual asset descriptors, `reimpl/io.c:285-658` | slot table, cached kernel descriptors, one mutex and one condition variable | open, read, pread, lseek, close, trim | kernel calls run with the lock released; trim, adoption and close race; slots and descriptor numbers are reused | a read uses a descriptor of its own file; no descriptor leaks or is closed twice; a shared read is atomic |
| Texture workers, `utils/pixel_workers.c` | one published job, four atomics, semaphores | convert, worker loop | lock-free hand-over; wakes may be lost; a 32-bit generation | every row converted once; no worker outlives its job; every call returns |
| OpenSL player, `reimpl/opensl_audio.c`, port in `java.c:527-601` | buffer ring, play state, a thread, one global port | create, enqueue, clear, play, pause, stop, destroy, callback | borrowed buffers; callbacks that need a lock of the caller's; destruction from the callback | clear and stop give buffers back only when unused; no deadlock |
| Save editor, `utils/save_editor.cpp` | `pp.dat`, temporary, staged and backup files | recover, read, apply | power loss between two renames; every call may fail | atomic; the original is always backed up |
| Preferences, `utils/port_locale.c` | three files, two integers | load, save | the same | atomic |
| Settings screen, `utils/port_menu.c` | staged edits, change mask | launch, edit, Done | half of Done fails and is tried again | the screen is true to the card; Done means both |
| POSIX threads bridge, `reimpl/pthr.c`, `reimpl/pthread_cond_native.c` | object table, one mutex; the fields of a condition variable | lazy initialisation, use, destroy | lock-free reads of a table that shifts entries back; a destruction that waits for the gate with two locks held | one real object per Android object, of the right kind; nothing freed is used; destroy returns |
| Input, `reimpl/controls.c`, `utils/controller.c`, `reimpl/numeric_input.c`, queue in `java.c:204-340` | finger ids, held keys, a ring of 64 events, two dialogs | poll, push, drain, dialog barrier, text commit | lost samples, full queue, presses held over a dialog | the game has pressed what the player presses; no stale press, no lost text |
| Fake JNI, `lib/falso_jni` | table of counted references, records from a pool or the heap | new, duplicate, delete, get, set, recursive free | the lock is given back between lookup and use; an array frees its elements | counts are exact; nothing leaks and nothing freed is used |
| Graphics caches, `utils/glutil.c`, `utils/texture_marks.h`, `utils/sprite_uniforms.h` | three sets of texture names, caches of uniforms and matrices | define, fill, delete; link, use, set, delete | recycled names; want of memory at any call | the marks tell what is stored, no fill is of another size; a skipped upload cannot be seen |
| User data migration, `utils/data_layout.c` | two folders, a marker | move, resume | power loss and failure at any entry | no file is lost or overwritten; resumable |
| Java side, `java.c` | configuration store, stubs | get, set, erase, save | loaded lazily by any thread, saved in place, cut at any byte | a reader sees the last write; what was saved is read again |
| Wait observer, `utils/native_waits.c`, `utils/stall_watch.c` | 40 slots of atomics | enter, leave, sample, reclaim | slots are claimed and taken from dead threads without a lock | a live thread keeps the slot its waits are noted in |
| Logging, `utils/telemetry.c` | two-slot report queue, rotated files | report, drain | no lock; counters that wrap; a full queue drops | reports are whole, in order and once, drops are counted |
| Graphics memory, `utils/graphics_gc.c`, `utils/heap_fallback.c`, `reimpl/mem.c` | two semaphores; 16 blocks | collect, wait; malloc, realloc, free | a fence over all tokens of VitaGL's collector; two heaps under one `free` | the renderer goes on behind the worker only; each pointer goes back to its heap, a moved object is whole |
| File bridge, `reimpl/io.c`, `reimpl/asset_manager.cpp` | asset streams | Android's file calls | argument translation | |
| Startup and frame loop, import table, libc shims | none that lasts | once, or call by call | argument translation | |
| so_util, miniz, fios, sha1 | | | third party | |

The components meet in few places: the engine's threads call the asset
descriptors (asset streams ask the cache to shrink when there is no handle left for a `FILE`), the
render thread calls the texture workers, FMOD's threads call the player, whose
thread calls FMOD back and outputs to the one port of `java.c`; the settings
screen runs alone, before the game and after the migration, and calls the save editor and then the
preferences. The frame loop polls the input and pumps the engine, whose GL thread calls the
texture and uniform wrappers; every thread of the engine calls the mutexes and conditions of
`pthr.c` and the references of the fake JNI. Each component keeps its state to itself, so the
modules are composed only where one calls another (`PortMenu`, `InputBridge`).

## 2. Modules

| Module | Models | Depends on |
| --- | --- | --- |
| `AssetVfd` | the descriptor table and every lock section of its calls | `AssetFiles` by refinement |
| `AssetFiles` | what the descriptors promise: files with a position | |
| `MCAssetVfd` | symmetry for TLC | `AssetVfd` |
| `AssetVfdProofs` | inductive invariants, theorems, the refinement | `AssetVfd`, TLAPS |
| `PixelWorkers` | callers, workers, semaphores | |
| `PixelWorkersProofs` | inductive invariant and theorems | `PixelWorkers`, TLAPS |
| `OpenSLPlayer` | players, FMOD's threads, the players' threads, the port | |
| `OpenSLPlayerProofs` | inductive invariant and theorems | `OpenSLPlayer`, TLAPS |
| `SaveEditor` | `pvz2_save_recover` and `pvz2_save_apply_batch` | `AtomicFile` by refinement |
| `PortLocale` | `pvz2_locale_load` and `pvz2_port_settings_save` | `AtomicFile` by refinement |
| `AtomicFile` | what a transaction on a file promises over power loss | |
| `PortMenu` | the launch, the settings screen, Done; composes the two | `SaveEditor`, `PortLocale` |
| `MCPortMenu` | symmetry for TLC | `PortMenu` |
| `PortMenuProofs` | inductive invariant, theorems, both refinements | `PortMenu`, TLAPS |
| `PthrObjects` | the object table with its unlocked lookups, initialisation, use and destruction | `ObjectSet` by refinement |
| `ObjectSet` | what the table promises: a set of objects of one kind each | |
| `MCPthrObjects` | hashes, initializers and symmetry for TLC | `PthrObjects` |
| `PthrObjectsProofs` | inductive invariant, theorems, the refinement | `PthrObjects`, TLAPS |
| `CondDestroy` | `pthread_cond_destroy` against waiters that are leaving | |
| `GraphicsGc` | the fence around VitaGL's collector | |
| `KernelWaits` | the two waits without a limit side by side | `CondDestroy`, `GraphicsGc` |
| `InputBridge` | the way of an input from panel, pad and keyboard to the game, by the frame | |
| `JniRefs`, `MCJniRefs` | the counted references of the fake JNI; symmetry | |
| `BridgeProofs` | inductive invariants and theorems of these three | `KernelWaits`, `JniRefs`, `InputBridge`, TLAPS |
| `GlTextures` | the three sets of marked texture names against the driver's storage | |
| `GlPrograms` | the caches of uniforms and matrices against the driver's values | |
| `GlWrappers`, `MCGlWrappers` | both kinds of wrappers under one context; values for TLC | `GlTextures`, `GlPrograms` |
| `GlWrappersProofs` | inductive invariants and theorems of both | `GlWrappers`, TLAPS |
| `UserData` | the migration over any number of launches, then the configuration store | |
| `HeapFallback` | `malloc`, `free` and `realloc` over newlib's heap and the kernel's pages | |
| `WaitSlots` | the slots in which threads note their waits | |
| `ReportQueue` | the reports of the frame loop on their way to the log | |
| `Services`, `MCServices` | the four small tables side by side; values for TLC | `UserData`, `HeapFallback`, `WaitSlots`, `ReportQueue` |
| `ServicesProofs` | inductive invariants and theorems of the four | `Services`, TLAPS |

An action is one section under a lock, one access to a shared atomic, or one call
into the kernel or the file system; the names of the actions follow the functions
and their branches, and an operator whose comment starts with *Mutant* is a
plausible wrong version of the operator below it and is used by no specification.
Memory is sequentially consistent in every module. The code names weaker orders: what one
thread publishes goes by release stores and acquire loads (`utils/pixel_workers.c:158, 215`, `utils/telemetry.c:46, 58`,
`reimpl/pthr.c:53, 67`, `utils/heap_fallback.c:36-45`), and what it reads back itself, or draws by a read-modify-write, is relaxed
(`next_row`, `utils/pixel_workers.c:138`). Reorderings those orders allow beyond an interleaving are not explored.

**AssetVfd.** `used`, `path`, `pos`, `raw`, `busy`, `reading` and `gen` are the
fields of `g_asset_vfds`, `live` is `g_asset_vfd_live_raw`; `kernel` is the kernel's
descriptor table, external, with the lowest-free-number rule left open. A trim is
a small loop of its own (`trim`, `trimClose`) that returns to where it was called.
`last_used` is left out: any idle slot may be evicted, which includes the right one.
`asset_vfd_is` and `asset_vfd_fstat` read only. `AssetFiles` has neither cache nor
kernel: states, positions and the bytes an answer consists of.

**PixelWorkers.** `pending`, `generation`, `nextRow` and `current_job` as in the code,
one action per access. The semaphores may lose any wake (`sceKernelSignalSema` is not
checked and the waits time out after a limit). A row is the number of times it was
written. The generation counts modulo a small number, so it wraps.

**OpenSLPlayer.** The fields of `OpenslPlayer`; `asleep` is who waits on `p->changed`,
so that a signal wakes one of them and a broadcast all; `lock` is the lock of FMOD's
that a caller may hold and the callback takes; `disturbed` records that somebody
opened, closed or reset the port under an output. Left out: formats, volume, the
serial numbers, the samples.

**SaveEditor, PortLocale, PortMenu.** Every fopen, rename and remove is an action and may fail. That includes the fopen
which only asks whether a file is there (`exists`, `utils/save_editor.cpp:142`; `utils/port_locale.c:15, 59`): when it fails, a file that is there counts as missing, and
the histories `unseen` and `txtUnseen` record that the running call made that mistake. A rename is two steps, as newlib removes an existing destination before
`sceIoRename` (`reimpl/io.c:1035`): the power may go, or the move fail, between the two (`RecoverClobbers`, `StageClobbers`, `TextClobbered`).
A file that is being written is damaged until it was synced and read back. `AtomicFile` takes two inputs from its user: `elsewhere`, that the
game has the file, and `mistaken`, that the running call did not see an existing one; until such a call commits, it may lose what is there. A save
is a balance per profile; a save above the editor's range, which the code leaves
alone, is one more balance. The power may go off in any state (`Off`), which also
stands for Circle and for the failure screens, which all end the process. Left out:
the RTON parser, the digits of a dial (`Accept` takes any number), the launch chord's release guard, drawing. When nothing
is selected, or nothing changes, `pvz2_save_apply_batch` returns at once and touches
no file; the screen never calls it so, because its mask is exact (`MarkIsExact`).

**PthrObjects.** `key` is `initializedObjects`; `word` is the object's first word, which is a static
initializer before and a pointer to the real object afterwards; `made` counts the real objects, which the
code never does. A lookup without the lock reads one slot per step (`Probe...`), and a removal stores one
slot per step (`MoveBack`, `FinishRemoval`), so a lookup sees every intermediate table. The second
lookup, under the lock, is not divided: only removals and initialisations change the table and both hold it. The
program may reuse an object it destroyed (`Construct`) and uses none while it destroys it. `forgotten`
is history: a destruction or a failed initialisation writes NULL over the initializer, so the next
initialisation makes the default kind; `ObjectSet` states it so.

**CondDestroy.** The fields are those of `pthread_cond_t_`. Only the destruction is this program's code;
wait and signal belong to pthreads-embedded and are external, with no more of them than the destruction reads.
`Other` is any thread that initialises an object meanwhile and needs the same two locks.

**InputBridge.** A frame is `tick`, the two dialogs, the poll of touch and pad, the pump and the end of the frame, each one
action on one thread, as in the frame loop. `input_queue` is the ring as a sequence, `ids` the sources that have an id in `g_touch_ids`. A touch
sample may be lost; a finger is lifted after `Missing` samples without it. `gameDown` is what a game that saw
every event would take for pressed. Left out: positions, the distance from which a touch is a drag, seed cards, the replay tool.

**JniRefs.** `chain` is the table, `freeEntries` the pool, `call` and `frames` where a thread is: one step per section under `g_tracked_refs_lock`,
and one for what runs outside (filling a record, copying an element, freeing an object). A record that the pool cannot
give comes from the heap, or not at all. Addresses are given out again at once. The program keeps to JNI: it uses references it
holds, does not access one array from two threads at a time, and puts no array into itself.

**GlTextures, GlPrograms, GlWrappers.** A GL call is one step, as there is one context on one thread. `declared` is
what the game asked for (BGRA, which the port advertises, among it), `storage` and `pixel` what the driver holds: the full image, half of it, the placeholder of one pixel or nothing. The
marks are tables with linear probing, deletions included. In `GlPrograms`, `uniform` is what the driver has and
`wanted` what it would have without the caches. The two kinds of wrappers share no state, so a behaviour of `GlWrappers` uses one of them and leaves the other alone.
`RepairMatrix` mirrors a whole matrix where the code flips single signs.
Left out are targets other than `GL_TEXTURE_2D` and two more imported ways to define an image: `glTexStorage2D` (`utils/glutil.c:3956-4000`),
whose extension the port does not advertise, and `glCopyTexImage2D`, which `dynlib.c:831` gives to the driver as it is.

**UserData.** `top` and `userdata` are the two folders, file by file; every rename, and each of the two steps of writing the
marker, may fail or be the last before a power loss. In the running game any thread may be the first to use the store, which loads it; a save rewrites
`config.kv` in place, line by line, under the lock, and the power may cut it at any line (`Cut` is a value whose end is missing).

**GraphicsGc.** `requests` and `tokens` are the two semaphores `gc_mutex`. The linked VitaGL is external and has only what the
comments and calls of `graphics_gc.c` say of it: a request takes a token, and the worker puts it back when the
cursors are reset. `exited` is `gc_failure`: a semaphore call that fails, or waits for longer than its limit, ends the process.

**HeapFallback.** Memory is a row of pages; `extent` and `maker` say what is allocated where and by whom, `asked` what the program
has. The scan of the bounds is one step and each section under `block_lock` another, so a call of another thread comes between
any two. newlib may refuse any request, and so may the kernel.

**WaitSlots.** `native_slot` reads one slot per step; the id of a thread, the question whether its owner lives, and the
compare-and-swap are steps of their own. A note is the thread that wrote it. `waits` are the wrapped calls a thread is in, with the
slot each of them returned.

**ReportQueue.** The two counters modulo a small number, a report in two parts, and the log's lock, which any thread may hold
when the observer tries it. `made` and `taken` are history.

`KernelWaits` and `Services` put components that share no state side by side, as `GlWrappers` does: `used` is drawn at the start, and a behaviour
uses one of them.

## 3. Runs

| Run | Instance | What it shows |
| --- | --- | --- |
| `asset_vfd` | 2 threads, 2 slots, 2 files, 3 descriptors, cache of 1, each slot reserved twice | `OneOwner`: each open descriptor has one owner, nobody owns a closed one. `ReadsItsOwnFile`, `PinnedSlotStays`. `CacheIsBounded`: `live_raw` is exact, and the cache passes its limit only by opens that have yet to trim and by readers that pin all of it. `ActsAsFiles`: the table implements `AssetFiles` |
| `asset_vfd_three` | 3 threads, 2 slots, 1 file, cache of 2 | `SharedReadIsAtomic`, `SleeperHasWaker`, for which three actors are needed: one reads, one waits, one closes. With room for two in the cache, two reads of one evicted slot may each open a descriptor and offer it |
| `pixel_workers` | 2 callers, pools of 0 to 2 workers, 3 rows in strips of 2, generations modulo 2 | rows converted once, a worker's job is live and `pending` exact over a wrap, every call returns |
| `opensl_player` | 1 player, a control thread and a feeder, 3 buffers, ring of 3, capacity 2 | borrowed buffers stay queued and a released player is unused, the port is quiet, stop silences, no lost wake, every call returns |
| `opensl_two_players` | 2 players, 1 controller | a counterexample, see below |
| `port_menu` | 2 profiles, 2 balances, 2 backups, 2 preferences, 2 presses of Done | both transactions atomic over any power loss and any failed access, except for what a call did not see (`AtomicFile!Lose`); the original is backed up; a finished backup is written only after a failed probe of its own name; the screen is true to the card, Done complete |
| `pthr_objects` | 2 threads, 2 mutexes, 2 conditions, 3 slots | `OneRealObject`: however the entries move under a lookup, no object gets a second real object and every user finds a ready one. `ActsAsObjectSet`: the table implements `ObjectSet` |
| `kernel_waits` | 3 waiters, a destroyer, another initialisation; 3 renderers, 2 tokens | `FreedIsUnused`, `AwakenedMayGo` (the comment's promise to a program that has awakened everybody), `FenceIsComplete`. `WaitsReturn`: every destruction, with the two locks held over the wait for the gate, and every request of a renderer returns |
| `input_bridge` | 2 fingers, the pad's pointer, cross, shoulders and one key button, a queue of 4 | `GameSeesTheSame`: with the queue drained and nothing dropped, the game takes for pressed what the bridge says is. `StaleIsBlocked`: what was pressed when a dialog closed reaches the game by a new press only. `CommitIsOnItsWay`: an entered text is not lost |
| `jni_refs` | 2 threads, 3 addresses, a pool of 1 and 2 heap records, arrays of 1 | `CountsAreExact`: an entry counts the references that exist, whichever calls are half done. `NothingLeaks`: an object and a record that nobody can reach are free |
| `gl_wrappers` | 3 textures in 4 slots, two of one home and one that wraps; 2 programs with 2 locations in 3 layouts | `MarksTellStorage`; `UploadsFit`: what is sent to an image has its scale and, RGBA for an image of BGRA excepted, its format; `CachesAreTransparent` |
| `services` | 2 threads, 2 files, 3 keys, a table of 2; 3 pages, 2 blocks; 3 threads, 2 slots; 2 reports, counters modulo 4 | `NothingIsLost` over the migration, `ReadsLastWrite` over the store and its reloads, `PointersGoHome`, `SlotsAreOwned`, `ReportsAreWhole` |

Bounds. `MaxPos` and `Length` give a position inside, at the end of and behind a
file. `MaxGen = 2` is one reuse of each slot, what a stale sleeper or reader needs.
A cache of 1 fills with one open file, so trims and pinned readers meet; a cache of 2 is
for two reads that may both adopt. Three descriptors are one for each slot and one temporary; with two threads the kernel runs out
of them, so the retry of an open happens. Three rows in strips of two give a full and a
clipped strip; generations modulo 2 wrap at every second job, more often than 2^32
ever will. A ring of 3 with room for 2 wraps at every index, and one spare buffer makes an
enqueue meet a full queue. Two backups let a second edit meet what the
first left behind, and a full set of names when earlier edits took one. `MaxDones = 2` bounds how often Done is pressed: once more after a half that
failed, or in a later launch. Launches, power losses and the game's own writes are not bounded. Three slots and four objects make the object table full and let a removal move one
entry and leave another, around the end of the table as well; a fifth object would add a second full table.
`Cap` of `CondDestroy` lets each waiter wait and one of them wait again while a wake-up is under way. A queue of 4
events overflows within a frame, and two missed samples are one that is forgiven and one that is not. A pool of 1 is empty at the
second object, so both kinds of records occur, and three addresses are an array in an array with an element. `MaxRefs` bounds what one thread
holds on an object, not the count, which several threads and arrays add up to. Three of four slots is the load at which entries
displace one another; the code's 2048 slots are assumed never to be full (`TextureAssumption`), which no check in the
code ensures. Two ways for the four uniforms of two programs evict at every second new uniform; the layouts have one matrix, two and none. `CFG_MAX = 2` with three keys fills the table.
Three renderers and two tokens let one wait for a token while two hold one each and want both. Three pages hold two objects of which one may grow, in place or by a
move, within a budget of two pages; sizes are counted in half pages, so an object may be shorter than its pages. With three threads and two slots a thread finds none, and a
dead thread's slot is wanted by two; `"sync"` is left out there, as it differs from `"native"` only in where it nests. Ten reports wrap the counters twice.

Fairness. Only `PixelWorkers`, `OpenSLPlayer`, `CondDestroy` and `GraphicsGc` have any. In the first two each thread is
weakly fair in the steps of a call that has begun: the Vita's scheduler runs every
ready thread at last, no lock is contended for ever and the kernel's waits of the
workers have time limits. Starting a call, holding FMOD's lock and sampling the
feeder are not fair. In `CondDestroy` some waiter takes a token that is in the queue and some waiter that
is leaving goes on (weak fairness of all together: which one is left open), the
bridge's lock is handed to each that waits for it (strong fairness, since the others take it meanwhile), and the steps of a
destruction are weakly fair. Nobody has to time out, signal or begin a wait, and nothing need interrupt the wait for the gate. In `GraphicsGc` the worker is
weakly fair and a semaphore is handed to each renderer that waits for it (strong fairness); asking for a collection and `gc_failure` are not fair. In `OpenSLPlayer!CallsReturn` one schedule is excepted by name
(`FlagLowered`): two clears share the flag `clearing`, and when a callback's clear lowers it a
queue that is fed without pause can keep the other waiting.

Assumed of what is outside the code. The kernel hands out a descriptor number again
as soon as it is closed. FMOD does not enqueue a buffer that is still queued,
makes its play, clear and destroy calls from one thread or from the callback, and destroys a
player only when no other thread is in a call of it. A removal and a move, of which a rename may have both, are each atomic and reach the
card in order, what was synced and read back stays, and nobody but the game, between launches, writes its save (`utils/save_editor.h:12`:
"Startup only, before any game constructors/threads can access the save"); it does
not delete it. pthreads-embedded shuts the gate at the first signal and the last waiter it woke opens it. VitaGL's requests take a token each, and its worker puts it back. The kernel gives every new thread an id nobody remembers. The driver fails only for want of
memory, and GL hands out deleted names again. In the migration, whose destination is checked to be free, a rename is atomic; a file that is written in place
may be cut anywhere. `requested` of the keyboard changes between two frames only: a hide by another engine thread (`java.c:973`) between the two looks
`pvz2_numeric_poll` takes at it (`reimpl/numeric_input.c:36, 42`) is left out.

The disagreement found. `opensl_two_players` violates `PortIsQuiet`: when a callback destroys its
player, `obj_destroy` clears `g_player` at once and the player's thread releases it
later; if FMOD creates and plays another one meanwhile, `player_release` closes the
single port under its output. The comment in `opensl_audio_thread` says that only that
thread touches the port during playback. With one player at a time the property
holds (`opensl_player`).

Observed while modelling, and no disagreement with a text that promises otherwise, or not a question of a run:

- `g_tex_pot` (`utils/glutil.c:1750-1766`) is neither reset when a texture is deleted nor by `glTexImage2D_pvz2_impl`, so a recycled name may be taken for a power of two.
- `cfg_load_locked` treats every failure of `fopen` as an empty store, and the next save then replaces the file; `docs/config-store-race.md` says itself that a save is not atomic over power loss. `ReadsLastWrite` therefore speaks of stores whose file could be read, and `saved` names what the file has.
- A probe of a backup name that fails although the file is there (`utils/save_editor.cpp:142, 223`; no free handle is enough) makes `write` empty a finished backup, against
  `docs/settings.md:96` ("Each edit uses an unused number."). `BackupsAreKept` names this case and excludes every other.
- A launch or a save of the preferences that does not see them renames onto them: the rename removes them first, and if nothing is moved after that they are gone, or an older
  staged file takes their place (`utils/port_locale.c:15-17, 59-67`); so does a recovery of the save that misses it while an original is staged (`utils/save_editor.cpp:156`). A recovery that misses the staged
  original reports success and the game starts without a save. `AtomicFile!Lose` is this case and no other.
- A fill of BGRA is converted to RGBA (`utils/glutil.c:3459-3468`) while `glTexImage2D_pvz2_impl` leaves the image as BGRA (3154), against the comment that the conversions "Match the RGBA8 storage
  chosen by the actual image-upload wrapper." (3469). `UploadsFit` names this pair; what the driver makes of it is not known here.
- `glTexImage2D_soloader`, which `glTexStorage2D` uses, marks an image as halved before an upload that may fail (`utils/glutil.c:3351, 3366`), and `glCopyTexImage2D` leaves the marks of the image it replaces.
- `pvz2_numeric_poll` reads `requested` twice; if it is cleared in between, the dialog is opened with `running = 0` and is not polled (`reimpl/numeric_input.c:36-58`).
- A failed initialisation of a mutex clears its word, so a mutex with a recursive initializer is a normal one at the next try. `ObjectSet!ImplicitKind` states what the code does.

## 4. Proofs

Each module of proofs states one inductive invariant as a conjunction of named parts, proves
that every action keeps each part, and draws the theorems from it. All hold for any number of threads,
objects, files and so on; what a theorem assumes of the constants are the named `ASSUME`s of the modules, which TLC
evaluates in every run: finite sets, natural bounds, and model values that are none of the data. Each
invariant was model-checked on a small instance of the component before it was proved. Every safety property of a passing run
is proved, except that `PortIsQuiet`, which is false for two players, is proved under the condition that makes it true.

| Property | Theorem | Property | Theorem |
| --- | --- | --- | --- |
| `AssetVfd.TypeOK` | `TypeCorrect` | `OpenSLPlayer.OutputIsQueued` | `HeadIsOutput` |
| `ReadsItsOwnFile` | `ReadsOwnFile` | `StopSilences` | `StopIsSilent` |
| `PinnedSlotStays` | `PinnedStays` | `NoLostWakeup` | `WakeupsArrive` |
| `SharedReadIsAtomic` | `SharedAtomic` | `PortIsQuiet` | `PortTouches`, `QuietWithoutSelfDestroy` |
| `OneOwner` | `EveryFdHasOneOwner` | `PortMenu.MarkIsExact` | `MarksAreExact` |
| `CacheIsBounded` | `CacheBounded` | `DoneApplies` | `DoneAppliesAll` |
| `SleeperHasWaker` | `SleepersAreWoken` | `EditIsBackedUp` | `OriginalIsBackedUp` |
| `ActsAsFiles` | `ImplementsAssetFiles` | `BackupsAreKept` | `BackupsStay` |
| `PixelWorkers.WorkerHasLiveJob` | `LiveJob` | `SaveIsAtomic` | `SaveFileIsAtomic` |
| `RowsConvertedOnce` | `EachRowOnce` | `SettingsAreAtomic` | `SettingsAreWhole` |
| `PthrObjects.OneRealObject` | `OneReal` | `Services.NothingIsLost` | `NothingLost` |
| `ActsAsObjectSet` | `TableIsObjectSet` | `ReadsLastWrite` | `LastWriteRead` |
| `CondDestroy.FreedIsUnused` | `FreedUnused` | `SlotsAreOwned` | `SlotsOwned` |
| `AwakenedMayGo` | `AwakenedGo` | `ReportsAreWhole` | `ReportsWhole` |
| `FenceIsComplete` | `FenceComplete` | `PointersGoHome` | `OwnersAreKnown`, `BudgetIsExact` |
| `JniRefs.CountsAreExact` | `CountsExact` | `InputBridge.GameSeesTheSame` | `TheGameSeesTheSame` |
| `NothingLeaks` | `NoLeaks` | `CommitIsOnItsWay` | `CommitsArrive` |
| `GlTextures.MarksTellStorage` | `TextureMarks` | `StaleIsBlocked` | `StaleNeverStarts` |
| `UploadsFit` | `FillsHaveTheScale` | `GlWrappers.CachesAreTransparent` | `SkippedUploads` |

What the models compute by folds and recursive functions (sums, the game's state after a queue, the names that move up in a table of marks) is
reached by induction in terms of sets: a set of numbers with 0 and with the successors of its members is all of them, because a set of
numbers has a least one (`Least`, `Upwards`, `Induction`), which follows from the library's theorem that the subsets of
a set are well-founded. The operators themselves are unfolded by lemmas (`FoldExists`, `SumUnfolds`, `MovedIs`).

**AssetVfdProofs.** `ReadsItsOwnFile` is not
inductive: a read may be broken by a trim, which may be broken by a wrong owner,
which may come from a wrong count. `IInv` therefore adds `LocalsFit` (which locals of a call are
defined where); `SlotsOwned` (a reserved slot belongs to one open, a closing one to one close, and the path of
both stays); `BusyCounts` (`busy[s]` is the number of threads that have pinned `s`; the lemmas `PinCounted` and `UnpinCounted`
carry the cardinalities); `CachedFds`, `HeldFds`, `UsedFds` (a descriptor in the table or in a local is open on the
right path, and no other slot or thread uses it); and `SharedReadIsAtomic` itself. The actions are
grouped by call (`TrimKeeps`, `OpenKeeps`, `ReadBeginKeeps`, `ReadRunKeeps`, `SeekKeeps`, `CloseKeeps`).

Its second part continues from there with `MoreInv`: `NoLeak` (each open descriptor is in a slot or a local), `LiveCounts` and `Bounded`
(past the limit the cache has at most one descriptor for each thread that publishes or pins), `SleepersFit` and `ReadingIsRead` (`reading` is set by a reader that is
still in, so a sleeper has somebody to wake it), `ReservedIsNew` and `AnswersFit`, which the refinement needs: the
position of a reserved slot is 0 and bytes are those of the offset that was asked for. Then every action is a step of `AssetFiles` or none.

**PixelWorkersProofs.** `LabelsFit`: the submit lock keeps the job to one caller. `JobFits`: while a caller works, `pending` is the number of workers that owe
it a decrement (`Owing`), and a worker has the generation of that job, so no worker of an older one is left when the
counter wraps. `StripsFit`: claimed strips lie below `next_row` and apart. `RowsFit`: a row is written once exactly
if it is below `next_row` and in no claimed strip, from which the answer follows when no strip is claimed.

**OpenSLPlayerProofs.** `CallFits`, `PlayerFits`: one controller is in a call, about the current player; any other live
player is about to be released by its own thread. `OutputFits`: the buffer that is output stays at the head of its queue.
`StateFits`: the state a call stores first is the one it establishes. `NoLostWakeup` is inductive with them. `PortTouches` is the positive side of the finding: every step that
disturbs an output is the release of a player that was destroyed from its own callback, so without such a
destruction (`QuietWithoutSelfDestroy`) the port is quiet for any number of players. `PortIsQuiet` itself is false for two, as the run shows.

**PthrObjectsProofs.** `WordsFit` ties the first words and the real objects to the table, `TableFits` says that an object is in one slot and
its lookup meets no empty one on its way, and that only entries the removal has yet to examine are behind the gap. That is not
inductive: the gap could come to lie on the way to an entry that has moved. `OrderFits` adds what
the entries came in: there is an order in which each lookup passes older entries only. Distances around the table are
without a modulus (`Dist`, with the lemmas `ModN`, `AheadIs`, `MustMoveIs`), and any hash will do.

**BridgeProofs**, the waits. `CountFits`: the three counters together are the number of waiters inside. `GateFits`: the gate is shut by a wake-up
under way, by its last waiter or by the destroyer, one of them only. `FreedFits`, `MutexFits` and `AwakeFits` say what a freed, a locked and an
empty condition look like. For the fence, `TokensFit`: tokens, requests, the worker and those about to ask add up to `maxCount` except behind the fence.

The references. Exact counts (`CountsFit`) alone are not inductive: a call between two lock sections acts on what it looked up
before. `OwnersFit`: an object being made or destroyed belongs to one call and has no entry, so nobody else counts it or finds it. `CallFits` and
`FramesFit` say what each label of a call may rely on: the elements not yet filled are empty, an element about to be returned is still there because its array
is in use by this call only (`OneAccess`), an object is once on the stack of a destruction. `RecordsFit`: a record is in the pool, the chain, the hands of
one call or a frame. References are sets here, of which a step moves one element at a time (`CountOne`, `LocalCount`, `StoreCount`, `ElementMoves`),
so a count follows its set; the lemmas `QuietKeeps` and `UnlinkKeeps` share what most steps have in common.

The input. `StreamFits` is `GameSeesTheSame` for a queue at any stage: applying what is left of it to what the game has
gives the loader's mind. The lemmas on `Push` and `Emit` show that each call of the code appends what leads there from the mind before, a
drop on overflow only raises `lost`, and `Drain` takes a prefix. `SourcesFit`, `PadFits` and `DialogFits` hold at every phase of the frame: panel, ids and held
keys agree, the pad holds nothing under a finger or a barrier, and whatever a dialog left pressed is behind the barrier until the
game is polled for without it, from which `StaleNeverStarts` follows for each step. `TextFits`: at most one text is queued, just while a commit waits for it.

**GlWrappersProofs.** `Fits` says of a table of marks that a name is in one slot and no slot between its home and it is empty. Marking keeps it
(`MarkIs`); taking out keeps it because the names behind the hole move up (`MovedIs`, `GapStarts`, `MoveKeepsGap`, `CloseGapIs`), for any hash and any number
of slots. `TexInv` adds that storage, pixel format and marks of each texture go together (`Sound`), from which `FillFits` has that a fill is of the image's format unless it is BGRA made RGBA. `ProgInv`: the driver has every
uniform as without caches (`DriverFits`), a location has one entry (`SpritesFit`) and a program one state (`StatesFit`), and what either holds is what the driver has.

**PortMenuProofs.** `SaveFits` and `TextFits` say what each file holds at each step of the two transactions, `BackupFits` that the backup being
written was free, `MenuFits` that the marks are exact while the transaction runs, which makes the edited save equal to what the screen shows, also for the
profiles that are only copied. From these each step maps to one of `AtomicFile`: `Commit` is the second rename, a rename onto a file the call did not see is `Lose`, and every other change of a file leaves what the
next launch reads as it is. `BackupsStay` needs no more of the past than `unseen`: between the probe of a name and the open of it nothing else is written.

**ServicesProofs.** Four invariants, for behaviours that use one of the four services each.
`SlotsInv`: who looks for a slot has none, who has claimed one is alone with it (`ClaimsApart`), and a slot is taken
from the dead only. `ReportsInv` (`ReportTypes`, `QueueFits`): modulo the counters' range, the distance of the two counters is the number of reports in the queue,
each of which is in its slot with the drops before it; the code's slot of a counter is well defined over a wrap because `REPORT_SLOTS` divides the
range, which `ReportAssumption` names. `DataInv`: a copy of a file is in one folder until the marker is there
(`MoveFits`), one thread has the store (`LockFits`), and table and file agree with what was written last, depending on how far
a load or a save has come (`StoreFits`); the lemmas on `IsTable` say what removing, replacing and appending a line do to a table. `HeapInv`: each block of the kernel's has one slot, a slot's
entry tells its length and what the program asked for (`PageFits`, `BlockFits`, `BlocksApart`), and pages that a call holds belong to no other (`HoldsApart`, `HasObject`, `HasTarget`).
`BudgetInv` adds that `reserved_bytes` is the sum over the slots; a step changes one slot, and the lemmas on sums (`SumSplits`, `OneMore`) take that slot out and put it back.

Only model-checked, and why:

- Liveness (`CallsReturn` of both modules, `WaitsReturn`) and what depends on fairness.
- `PortIsQuiet` of `OpenSLPlayer` in the run with one player: false in general, and proved under the condition that makes it true (`QuietWithoutSelfDestroy`).

A theorem is about the model, so what section 3 assumes of the program, the driver and the kernel is assumed of the theorems too; `MaxRefs`, `MaxGen`, `MaxDones` and the
like are there any numbers that the `ASSUME`s allow.

## 5. Plan

1. Done: the asset descriptors with their proofs, the texture workers, the player, the settings transactions, the object table and the destruction of conditions,
   the input, the references of the fake JNI, the texture and uniform wrappers, the migration and the configuration store, the collector's fence, the fallback heap,
   the wait slots and the report queue.
2. Left to model: the block accumulator of `utils/pcm_blocks.h` between FMOD and the player; the shader pairs and the EGL state of `glutil.c`
   and `reimpl/egl.c`; the deferred HTTP callbacks of `java.c`; thread creation in `pthr.c`.
3. Proved: every safety property the runs check, the action properties and the four refinements. Left to the model checker: liveness, as it needs `ENABLED`.

Not modelled, and why:

- The observer's samples, the text and the rotation of the logs: they only read, or format.
- VitaGL, its collector and its purge list are not in the repository; `GraphicsGc` has what `graphics_gc.c` relies on, and the types of memory `graphics_alloc.c` and `mem.c` choose are left out.
- File bridge: path mapping, directories and streams translate one call into another. The trim that `asset_fopen_with_retry` asks for is in `AssetVfd`.
- Startup, import table, libc and time shims: one thread that runs once, data, and argument translation. Pacing and power rules are arithmetic without state.
- The argument marshalling of the fake JNI (the greater part of `FalsoJNI.c` is one function per type and calling convention), drawing, pixel formats, fonts, parsing and logging text are outside what the properties tell apart.
- `so_util`, miniz, fios, sha1 and the header files of ELF and JNI are third-party code.
