# Jump-Point-Search: a TLA+ model of the path finder, the coroutines and the collector

The repository is a C++ program of three parts that hardly touch each other:

* **the path finder** (`src/src/jps/`, `src/src/TestMap.cc`): jump point search on a
  grid with moves in 8 directions, rewritten from PathFinding.js, meant for the NPCs of
  a 2D game server (README.md:3-5), and a loader of maps from csv files;
* **the coroutines** (`src/src/coroutine/`): C++20 coroutines that hand a function to
  a second thread and are resumed on the first one when it has run
  (`thread_manager`), and two single-threaded demonstrations, a tutorial of nested
  awaits and a generator;
* **Lua 5.3** (`src/src/lua/`), a copy of the interpreter, linked with the program,
  which does not call it yet. It is 25 600 of the tree's lines.

`main()` only builds the manager and sleeps; the use of everything else is shown
in its commented-out parts (main.cc:13-71). Paths below are relative to the
repository.

Section 1 is the inventory, 2 the modules, 3 the runs, 4 fairness, 5 the proofs,
6 disagreements with the code's own words, 7 what is left out, 8 the plan.

## 1. Inventory

| part | state | operations | works with |
|---|---|---|---|
| `thread_manager` (Manager.h, Manager.cc) | four unordered maps of `result_data*` (logic/main, cache/own), two mutexes, the record pool, the statics `m_global_index`, `m_gen_task_tick`, `g_start_loop` | `alloc`, `release`, `startCoroutine`, `await_suspend`, the loops of the two workers, the constructor, `async_task` (never called) | its two worker threads; coroutines; `Singleton` |
| `Singleton` (Singleton.h) | `ms_Singleton` | `instance()` | called by `main()` and, through `startCoroutine`, by the main worker |
| coroutine type (Coroutine.h) | none: it never suspends at its start and destroys its frame at its end | resume | `thread_manager` |
| `Grid` (JPSFinder.h/.cc) | the nodes and the copied map | `getcell`, `isinside`, `canwalk`, `get_neighbors` | `JPSFinder` |
| `JPSFinder` | per node `f,g,h,parent,opened,closed`; `open_list_`, `begin_node_`, `end_node_`, `path_` | `init`, `find_path` and what it calls: `identify_successors`, `find_neighbors`, `jump`, `backtrace`, `expandpath`, `interpolate` | one caller, one call after the other |
| `TestMap` (TestMap.cc) | `cell_datas_`, `width_`, `heigth_` | `loadcsv`, `parsecsv` | its cells are given to `JPSFinder::init` |
| Tutorial (Tutorial.h) | the promises of the coroutines `g`, `h`, `f` with their followers; `g_test_rpc_manager`, the pending requests | nested `co_await`, `co_yield`, resumption of followers, `test_rpc_manager_run` | one thread; the stack of the coroutines that run |
| `Generator` (Generator.h) | a coroutine handle; iterators copy it | `begin`, `++`, the move constructor, the destructor | range-based loops of the caller |
| Lua: the collector (lgc.c, and the writes of lapi.c, lvm.c, lfunc.c) | the lists `allgc`, `finobj`, `tobefnz`, the gray lists, `twups`, `gcstate`, `sweepgc` | `singlestep`, `atomic`, `luaC_fullgc`, `GCTM`, `luaC_newobj`, `luaC_checkfinalizer`, the barriers | the running Lua program, between whose writes it advances |
| Lua: the rest | stacks, tables, strings, prototypes | compiler, interpreter, libraries | the collector |

### What is hard here, and what should hold

**Two workers, two mutexes, unlocked tests.** Each worker tests `.empty()` of a map
the other one fills, *outside* the mutex, and only then locks and swaps
(Manager.cc:111-127, 146-168). Records go from the pool to the main worker, to the
logic worker, back and into the pool, written without a mutex at three places; the
record is back in the pool while the map that names it is still being iterated.
The key of a request is a global counter incremented after publication, and
`emplace` silently drops a request whose key is taken. What should hold: no
request is lost or in two queues, no coroutine is resumed twice or early, a record
has one owner, nobody writes to a record somebody else can read, every published
coroutine is eventually resumed.

**Construction.** `g_start_loop` releases the workers before `ms_Singleton` is
assigned, and the first thing the main worker does is call `instance()`. There may
be two managers, which then share the counter and the timer. What should hold: how
many managers there can be, what the statics can suffer and when, that the
program's first coroutine is resumed.

**The state a finder keeps.** `find_path` means to clear the nodes, but the loop
(JPSFinder.cc:79-82) clears the first node `width*height` times; and `open_list_`
is not emptied, not even by a second `init()`, which may bring a grid of another size.
Every call but the first starts from a state that depends on all
calls before it. What should hold: a hop of the tree is always over walkable cells,
a call ends, the answer is a walk, a path is found when there is one.

**No bounds test.** Forced neighbours are taken by `getcell` untested
(JPSFinder.cc:238-268): a column outside the grid is a cell of another row, a row
outside the grid is outside the array. What should hold: when this cannot happen,
and what it can and cannot do when it does.

**Order and cost.** An open node that becomes cheaper is not moved in `open_list_`
(JPSFinder.cc:139-156), octile distances are truncated to integers and the
heuristic is the Manhattan distance on a grid with diagonal moves, which is not
admissible. Shortest paths are therefore not promised; but nodes are closed on
ways that are not shortest, and a jump point reached in another direction prunes
other neighbours, so it is not obvious that a path is found at all.

**What a file leaves in the cells.** A row that comes before the header, is too long,
too short or one too many is written, or not, all the same (TestMap.cc:84-112); a cell no
row has filled believes it is at (0,0). What should hold: a proper file is loaded as it is
written; of any other, which cells are wrong and how, and what the search then does.

**Who resumes whom.** A coroutine of the tutorial is resumed by a request that is answered
or by another one that ends, which goes over a vector of followers while they run
(Tutorial.h:190-206). What should hold: a suspended coroutine has one who will resume it,
nobody is added to a vector somebody goes over, the loop of `main()` ends. Iterators of
a generator copy its handle and may outlive it.

**A program that changes the heap under the collector.** Between two steps of marking or
sweeping the program may store a white object in a black one, give an object a
finalizer and so move it out of the list being swept, close an upvalue, start a full
collection; finalizers bring objects back, weak tables lose entries in two
rounds before and after that. What should hold: nothing accessible is freed, the
colours agree with the lists, finalizers and weak tables agree on what is dead, garbage
is freed in the end.

**Failure.** `new(std::nothrow)` may return null, the frame of a coroutine, an entry of a
map or of the pool may not be allocated, a function may throw on the logic worker. Some of
that ends the program; an exception in `await_suspend` is swallowed by the coroutine it
comes from (Coroutine.h:34). What should hold: up to then, and after a failure the program
survives, everything above.

The hazards, each at its line with the properties that watch it, are listed in
`PROJECT.json`.

## 2. Modules

| module | models | composed with |
|---|---|---|
| `Handoff` | what `thread_manager` promises a coroutine: its function runs once, then it is resumed once, and both happen | abstract; implemented by `ThreadManager` |
| `ThreadManager` | both workers of one manager, statement by statement | instantiates `Handoff` through a refinement mapping |
| `Startup` | `main()`, the constructor, `instance()` called by several threads, several managers and their shared statics | keeps each manager's queues at the grain of `Handoff` |
| `Grid` | the pure functions of the grid and of the search | used by the next two |
| `JPSFinder` | a finder object and a sequence of calls of `init()` and `find_path()` | extends `Grid` |
| `GridReference` | the recursion of `jump()` as written, and what `interpolate()` is to draw, to compare with what `Grid` computes in the states of a search | extends `JPSFinder` |
| `MCJPSFinder` | the instances of both | extends `GridReference` |
| `TestMap`, `MCTestMap` | `loadcsv()` line by line, and the finder that is given its cells | extends `JPSFinder` |
| `Tutorial` | the coroutines of Tutorial.h, the rpc manager and the loop of `main()` | composed in `MCCoroutines` |
| `Generator` | `Generator<T>`, `range()` and loops over it | composed in `MCCoroutines` |
| `MCCoroutines` | the two sections of `main()` that use them, each on its own | extends `Tutorial` and `Generator` |
| `LuaGC`, `MCLuaGC` | the incremental collector, interleaved with a Lua program | - |
| `ThreadManagerProofs`, `StartupProofs` | the theorems about the module of that name, section 5 | each extends its module |
| `CoroutineProofs` | the theorems about `Tutorial` and `Generator` | extends both |
| `GridProofs` | lemmas about cells, neighbours, jumps, distances and interpolated lines | extends `Grid` |
| `GridReferenceProofs` | that the closed form of `jump()` is the recursion, and what `interpolate()` draws | extends `GridReference` and `GridProofs` |
| `LuaGCProofs` | the theorems about the collector | extends `LuaGC` |
| `JPSFinderProofs`, `TestMapProofs` | the theorems about the finder, alone and with the loader | extend their modules; the second one reuses the first one's invariant |

### ThreadManager

`mpc` and `lpc` are the program counters of the main and the logic worker; every
value is a place between two statements that the other thread can tell apart:

| main worker | code | logic worker | code |
|---|---|---|---|
| `StartCoroutine`, `NothingToStart` (`top`) | timer test, rearm, `update()` to its `co_await`, i.e. `startCoroutine`, `alloc` | `FindPublished` (`check`) | `.empty()`, unlocked |
| `StoreHandle` (`suspend`) | `m_handle = handle` | `LogicLocksLogic`, `SwapLogic` | the swap under `m_logic_mutex` |
| `MainLocksLogic`, `Publish` | `emplace` under `m_logic_mutex` | `RunFunction` (`run`) | `m_async_func()` of one entry |
| `BumpIndex` (`bump`) | `++m_global_index` | `LogicLocksMain`, `Post` | `emplace` under `m_main_mutex` |
| `FindNothingPosted`, `FindPosted` (`consume`) | `.empty()`, unlocked | `ClearLogic` | `m_logic_handles.clear()` |
| `MainLocksMain`, `SwapMain` | the swap under `m_main_mutex` | | |
| `Resume`, `Release`, `ClearMain` | resume, `release`, `clear()` | | |

An unordered map is a function on its keys; a loop over it takes the keys in any
order (`ltodo`, `mtodo` are the keys it has not finished, `lkey`, `mkey` the current
one). `emplace` leaves a taken key alone. A record that comes from the pool keeps
the handle of its last use, as in the code. The coroutine is a number: that of the
call of `update()`; `m_async_func` and `m_handle` of a record say whose function and
frame they are, so that resuming the wrong one shows. `ran` and `resumed` only record
what happened.

Six actions are failures. `RecordNotAllocated` is the write of `startCoroutine` through
the null pointer `new` has returned; `FunctionThrows`, `PostThrows` and `ReleaseThrows` are
exceptions that leave a worker: from a function, from the `emplace` of the logic worker
and from `push_back`. All four `Crash`, and a program that is not `running` takes no
further step (in `Handoff`, `serving` ends). Two are survived. `FrameNotAllocated`: the
call of `update()` returns an empty task, the timer having been rearmed, and no record has
been taken. `PublishFails`: the `emplace` of `await_suspend` throws (Manager.h:120), the
mutex is released, the coroutine is resumed with the exception, `unhandled_exception()`
does nothing with it (Coroutine.h:34) and the frame ends. The counter is not incremented,
and nobody has the record any more: it is in `lost`, and `NoRecordLeaks` says that
nothing else is. The number of that coroutine goes to the next one, so that
`Coroutines` are those that may be published.

The unlocked `.empty()` is formally a data race on the element count of the map, a
word. It is modelled as a read of its current value: the only thread that makes the
map empty is the reader itself, so a stale count can only be an older "empty", which
is the same as looking a moment earlier.

### Startup

Threads are `Boot` (`main()`) and the main worker of every manager, named like the
manager. Each runs `instance()` (`Singleton.h:18-26`) in steps: test, start the main
worker, start the logic worker, set `g_start_loop`, assign `ms_Singleton`, return. The
main worker runs it twice per coroutine, once for `alloc()` and once for the awaitable
that is published (Manager.cc:18-23), and the two may differ. `++m_global_index` is a
read and a write, the timer's test and its rearming are two steps. The way of a request
inside a manager is a move from `logicQ` to `mainQ` (`Serve`) and the resumption of the
batch (`Consume`). `Expire` cannot happen while a call is in progress: the timer is set
10 000 000 seconds ahead (Manager.cc:99-104).

### Grid and JPSFinder

A map is its set of walkable cells. A cell has the number of its place in the widest
grid of the instance (`Width` x `Height`), so that it keeps it when `init()` changes
`dims`, the `width_` and `heigth_` of the grid; `GetCell` gives that number. Where
`getcell()` is called without a test, `CellAt` is its arithmetic with the present width: a
cell of another row, or `Outside`. `jump()` calls itself
along a line until it returns; `Jump` finds the first place of the line where it
returns (`StopsHere`, `SideJump`), `NoJump` is (-1,-1) and `Endless` a recursion that
does not end. This closed form is compared with the recursion itself in
`GridReference`.

`JPSFinder` has one action per round of the loops of `find_path` (pop: `ReachEnd`,
`CrashAtEnd`, `HangAtEnd`, `Expand`; empty list: `GiveUp`) and of
`identify_successors` (`Skip`, `Relax`, `JumpForever`; end: `Expanded`). `Call` does
what `find_path` does before its loop, the clearing of the first node included;
`CallOutside` is a call that returns at once. `InitMap` may come again, with a map of another
size: the new array has nodes of its own (`Nodes` counts through all arrays), and
`open_list_` keeps pointing into the old one, which nobody frees, also to nodes that lie
outside the new grid. `list::sort` is stable, and so is
`StableSort`. A neighbour outside the array yields any coordinates of `StrayX`. A
null pointer read is `crashed`, a loop or recursion without end `hung`.
`expandpath`, `interpolate` and `backtrace` are operators on `path_` and `parent`.

The model was also compared with the compiled class: on all 3 x 3 maps with one call
and all 3 x 2 maps with two calls, the nodes, the list and the path at the end are
the same.

### TestMap

A line is a header, with what follows its `=`, or a row of numbers and empty texts;
`ParseCsv` makes an empty field "0". `ReadHeader` allocates the cells the first time both
numbers are known, `ReadRow` fills as many cells as the line has fields, from the row's
first cell on: beyond the array this is `undefined`, through a null pointer `crashed`. A
field never makes a cell unwalkable again, and a second file goes over the cells of the
first. `InitFinder` hands the cells over: `Displaced` are those whose `x` and `y` are not
their place, and `JPSFinder` calculates with what they say.

### Tutorial and Generator

`frames` are the coroutine frames in the order of their creation, `stack` those that are
running: calling or resuming a coroutine pushes it, suspending or ending pops it, so what
the C++ stack holds is in the state. One action is the stretch of a coroutine between two
such points. A request is a frame and the result it waits for;
`test_rpc_manager_run` moves the vector aside (`StartManager`) before it answers
(`Answer`), and `final` is the final_value of `f()`. Frames are never destroyed, as in
the code, where the final suspension is not followed by `destroy()`.

A generator object is a place with a handle. Loops over generators nest; `Enter`,
`Advance`, `Break` and `EndLoop` are what a range-based loop does with the iterator,
which is a copy of the handle. Resuming a frame that has ended or is gone is recorded
in `undefined`.

### LuaGC

`Objects` are addresses that are allocated, freed and used again. `entry` is the one
reference each object holds (a key and a value for a table), `stack` what the
running program holds. The two whites of `currentwhite` are "white" and "dead": after
the atomic phase a white object is a dead one. `gray`, `grayagain` and `allweak` are the
lists the code keeps; the lists `weak` and `ephemeron` exist only within `atomic()`,
which is one action (`AtomicStep`, by way of `Atomic`), as no program runs in it.
`sweepgc` is `Header` or the object in whose `next` it points, so that an object moved
out of the list under it is seen (`sweeptolive`).

| code | actions |
|---|---|
| `singlestep` | `StartCollection`, `Propagate`, `AtomicStep`, `Sweep`, `EndSweep`, `EndCollection` |
| `GCTM` | `CallFinalizer`, `FinalizerReturns`; between them the finalizer runs as the program does |
| `luaC_fullgc`, in an emergency too | `StartFull`, then single steps until `full` is "no" |
| allocation and finalizers | `New`, `SetFinalizer` |
| writes with a barrier | `SetTable` (back), `SetUservalue` (forward), `SetUpvalue`, `CloseUpvalue` (upvalue) |
| without one | `SetLocal`, `Load`, `Pop`, `Capture` |

## 3. Runs

| run | instance | shows |
|---|---|---|
| `handoff` | 3 records, 3 requests, any failure; 79,892 states | `ResumedOnceAfterItsFunction`, `NoRequestLost`, `RecordHasOneOwner`, `NoRecordLeaks`, `UnlockedCheckHolds`, `NoWriteToPublishedRecord`; that it implements `Handoff`, whose fairness says that every request is served unless the program ends |
| `startup` | up to 3 managers, 2 expiries; 28 297 states | at most two managers; on the first expiry at most one thread is between timer and counter; a coroutine is dropped only where two managers share the counter; the first coroutine is resumed |
| `startup_race` | as above, 1 expiry; a violation | the coroutine of one main worker is resumed by another |
| `finder_walled` | all 4096 walled 6 x 5 maps, 2 starts and 4 ends, one call; 297 882 states | a path is found exactly when there is one and is a walk, but for its first hop; costs and list are consistent |
| `finder_again` | all walled maps of 4 x 5 and of 5 x 3 and two open ones of 5 x 4, two calls, two calls of `init()`; 62 558 states | hops stay clear and no neighbour is read outside the array, whatever the first call and the old map left, but for a node left over that is not inside the new grid; a call ends, or hangs in one jump or over a cycle of parents on an open map; in every state `Jump` is the recursion, and `interpolate` stays within half a cell of the line, in as few moves as possible |
| `finder_open` | csv files of any form for 3 x 2, alone or before a full one, then two calls with stray reads; 133 543 states | `LoadedAsWritten`; which cells are displaced; only walkable cells are ever entered; a crash and a hang have one of the causes `StopsHaveACause` lists |
| `coroutines` | 3 roots over 2 tasks; 2 generators, 2 ranges, 3 loops; 270 850 states | every suspended coroutine has one waker; answers fit; followers are settled; the loop of `main()` ends; every frame has one owner; loops share a range; a misuse of a handle has one of two causes |
| `collector` | 5 programs of 3 objects; 182 356 states | until a finalizer takes `sweepgc` out of its list (section 6): `NothingAccessibleIsFreed`, the tricolour invariant of lgc.h:15-24, finalizers and weak tables agree, garbage is collected, all is white when the sweep ends; after that too: only userdata stay black, a full collection frees what it should |
| `finder_min`, `finder_repeat`, `finder_wrap`, `collector_stray` | violations | section 6 |

Why the bounds are enough for what they are asked:

* Three requests and three records: with two, one is with the logic worker while
  the main worker publishes the next; the third comes while one record is back in
  the pool, which is where re-use, a swap of a map that was not cleared and a second
  use of a key can go wrong. The proofs of section 5 remove the bound for safety.
* Three managers: one more than `AtMostTwoManagers` allows. Two expiries: the
  second one finds two main workers alive, which the first never does.
* 6 x 5 walled maps have 4 x 3 free cells: straight and diagonal jump points, hops over
  several cells, nodes reached twice, rooms that are not connected. The starts
  are a corner and a cell of the middle row; one of the ends is a start.
  A node of the list that gets cheaper *and* should then move needs more room, hence the
  6 x 6 map of `finder_min`. Width and height differ in most instances, so that a
  confusion of the two shows.
* Two calls and two maps are the fewest in which what a call or a map leaves behind is
  read. The sizes of `finder_again` are such that an inner cell of the one is on the border
  or outside of the other, both ways; 5 x 4 has lines long enough that the rounding of
  `interpolate` matters, and all eight directions. The starts and ends contain
  cell 0, the only one a call clears, once as a wall and, on the open maps, as a cell
  that can be entered.
* `StrayX` covers, for 3 x 2, every column inside the grid and one beyond;
  `finder_wrap` reads only a column outside.
* The files are all full ones, and the odd rows and headers one at a time: a trailing
  comma, a row too long, too short or blank, one row too many, a number late, twice,
  wrong, empty or missing. Two files overlap in three ways.
* Three roots are the fewest of which two can follow one, and one more be on
  its way; two tasks let roots share one or not. `MaxRounds` 2 lets `g` await `h` again.
  Two objects and two ranges: a move between them, a loop in a loop over the same frame
  and over different ones.
* Three objects, each with one reference, are the fewest in which an ephemeron's key,
  its value and the table differ, or a closure, its thread and the value. What a program
  may write is bounded per program (`Writes`); when it writes is not. `GCSWEEPMAX`, 100 in
  lgc.c:32, is 1, so that a sweep is interrupted between any two of its objects, and
  the two userdata of one program are enough for `sweepgc` to stray. A behaviour
  ends, by `Defined`, only where something the program can still get at has been freed:
  what the code does with it then is undefined.

Every instance but the one of `Startup`, whose workers never stop, is run with
`CHECK_DEADLOCK FALSE`: calls and requests are bounded, a crash or a hang ends the
program, and a Lua program may end.

Every property of a passing run has a mutant, defined just before the operator it
replaces: a forgotten `clear()`, an increment that is not done, a record not popped
off the pool, a test on one side only, a barrier that forgets the list. Under the
mutant the property fails.

## 4. Fairness

* `ThreadManager!FairSpec`: weak fairness of each worker as a whole, the steps that fail
  included: a worker goes on, if only to fail. Both are
  detached threads in a `while (true)` loop with a sleep of some milliseconds, which
  the operating system keeps scheduling. Nothing is assumed of the timer: a request
  need not come. A worker waiting for a mutex needs no strong fairness, as the other
  worker holds one only for a single statement and cannot take it again for ever
  without work from the first.
* `Startup!FairSpec`: the same for `main()` and every worker of every manager.
  `Poll` makes the empty rounds of the loop explicit.
* `JPSFinder!FairSpec`: the thread inside `find_path` keeps running. No further call
  is assumed.
* `MCCoroutines`: the one thread of the tutorial keeps running; that includes the loop of
  `main()`, which answers until all is answered. Nothing is assumed of the generator.
* `LuaGC!FairSpec`: a collector that may run takes steps, because `luaC_step` is called from
  allocation and a program that allocates goes on running into it. It is written
  `[]<>(~CollectorRuns) \/ []<><<SingleStep>>_vars`, which is `WF_vars(SingleStep)`
  because a collector that may run always has a step to take, and is cheaper to check.
  `WF_vars(FinalizerReturns)`: finalizers return. The program itself is not fair.

## 5. Proofs

TLAPS checks the theorems below for every value of the constants; the only assumptions
are the named ones of the modules, which TLC evaluates on every run. None of the
properties is inductive. Each module of proofs states an invariant that is, one lemma per
action shows that it is kept, with a step per conjunct that the action disturbs, and the
properties follow from it.

| module | properties proved | for |
|---|---|---|
| `ThreadManagerProofs` | `TypeOK`, `ResumedOnceAfterItsFunction`, `NoRequestLost`, `RecordHasOneOwner`, `NoRecordLeaks`, `UnlockedCheckHolds`, `NoWriteToPublishedRecord`; each step is one of `Handoff`'s or a stutter (`KeepsThePromise`) | any records, any number of requests |
| `StartupProofs` | `AtMostTwoManagers`, `FirstUpdateIsAlone`, `LossNeedsTwoManagers` | any managers, any number of expiries |
| `CoroutineProofs` | `OneOwner`, `LoopsShareTheRange`, `UndefinedHasACause` | any finite set of objects, any ranges, frames, loops |
| `CoroutineProofs` | `OneWaker`, `AnswersFit`, `FollowersAreSettled` | any roots, tasks and rounds |
| `GridReferenceProofs` | `JumpIsTheRecursion`, `InterpolateHugsTheLine` | grids and maps of any size, all goals and cells |
| `JPSFinderProofs` | `TypeOK`, `OnlyWalkableEntered`, `CostsAddUp`, `OpenListIsFrontier`, `StopsHaveACause`; on walled maps `HopsAreClear`, `NoStrayRead`, `ReturnedIsWalk` | maps of any sizes, any number of calls and of `init()`, which may change the size |
| `TestMapProofs` | `OnlyWalkableEntered`, `StopsHaveACause`, `DisplacedIsUnsetOrSpilled`, `LoadedAsWritten` | any files, any number of them |
| `LuaGCProofs` | `NothingAccessibleIsFreed`, `TricolorInvariant`, `FinalizedWhenUnreachable`; `TypeOK`, `WhiteWhenSweepEnds`, `FullCollectionFrees` as long as `OnTrack`; the one step that ends that | any objects of any kinds, any writes, any number of collections |

**ThreadManager.** That no two pending requests share a record, for
example, is preserved by `StartCoroutine` only if a record of the pool is not also in
a queue, by `Publish` only if the key is fresh, and by a swap only if the map that is
swapped back is empty. The inductive invariant `IInv` says all of it:

* `MutexOK`: each mutex is held exactly in its owner's critical section.
* `LoopOK`: a worker's own map is empty outside its loop, and the map it is about to
  swap in is not empty: what the unlocked test relies on.
* `IndexOK`: the counter is behind the calls of `update()` by one between the start
  of a coroutine and `++m_global_index`, so the key being filled is new.
* `DisjointOK`: a request is in one of the four places only.
* `HolderOK`: the record of a pending request carries its index, its function and
  its handle. Hence two requests cannot have the same record.
* `PoolOK`: a record of the pool still carries the index of its last request, which
  is over. Hence it is in no queue, and no two places of the pool hold the same one.
* `HistoryOK`: how often a function has run and a coroutine was resumed can be read
  off the place of its request.

`KeepsThePromise`: every step of the workers is a step of `Handoff` or leaves it alone
(`Publish` submits, `RunFunction` executes, `Resume` resumes, a crash fails).
`NothingLeaks` needs the records of the loops: a record whose coroutine has been resumed
stays in `m_main_handles` until `clear()`, but is in the pool as soon as the loop has
passed it. It says that an `emplace` that throws loses its record, and nothing else does;
`OneOwnerAlways`, that nobody uses such a record again.

**Startup.** Why never three managers? `BootOK` and `BuiltOK` say that only `main()` and
the worker of the manager it makes can ever be in the constructor; `SecondOK` that this
worker is there at most once, since it comes back to the test of `instance()` only after it
has assigned `ms_Singleton` itself. The other workers stay in their loops, since
the timer is rearmed before the second manager can be made, until `ms_Singleton` is assigned
(`TimerOK`). `SingleOK`, with `InHandOK`, `KeysOK` and `SettledOK`, is the invariant of
`ThreadManager` again, at the grain of this module and on the condition that one manager
exists: the key in hand is above every key in use, so `emplace` takes it.

**Generator** (`CoroutineProofs`, as the next). `OwnerOK` says that handles and frames that live are in one-to-one
correspondence. `YieldOK` distinguishes the frame that has a value no loop has read, which
is the one of the innermost loop, between its resumption and its test, from all others:
without that the loops over one frame could not be shown to leave no gap in its range. `StartOK` keeps, for each misuse to come, the two starts that would explain it.

**Tutorial.** The invariant divides the frames: on the call stack (once), or the follower of
the frame it has called, or the owner of one request in one of the two queues, or at the
end. `AwaitOK` connects a frame that is about to be suspended with the one above it on the
stack, which makes it a follower of a frame that still has none, so that a follower is never
added to a vector that is gone over. `ResultOK` bounds the answers received so far by the
counter they come from.

**The grid.** `JumpCall` is a recursive function, of which TLA+ says only that it answers
every call by `OneCall` and its own answers, if a function does. `Jump` does
(`FunctionExists`, from `JumpStep`), and it is the only one: within `Reach` steps every line comes to
a place where `jump()` returns, so two such functions agree at that place and, going
backwards, at all places before it (`FunctionIsJump`), first on the straight lines and then on the
diagonal ones, which ask them. What `interpolate()` computes is given by its rounds
(`IsRounds`), and `RoundOK` holds after each: the longer axis has advanced in every round, the
distance from the line is half a cell at most, and `err` keeps that distance. After the
last round it is a multiple of the length and at most half of it, hence 0, so the
line ends where it should. Where a proof goes over rounds, places of a line or points
of a path, it takes a least counterexample (`LeastElement`): no theorem of the library about
induction can be instantiated with a predicate.

**The finder.** `IInv` of `JPSFinderProofs` has types (`StateOK`), the places of a call
(`ControlOK`), and

* `OnlyWalkableEntered`, which is inductive with the types alone: `jump()` tests
  what it enters, whatever its neighbour was.
* `Fresh`: the nodes of a new array are as their constructor leaves them. `NodeClosed`,
  `Started`: what the node being expanded and the start have in common with closed nodes.
* `AddUp` and `OpenListIsFrontier`, each for the first call: an open node that is improved
  has nothing hung from it, because parents are closed. `OpenListIsFrontier` rests on lemmas
  about `StableSort` (it permutes the list, and so keeps it injective), `Pop` and the
  insertion.
* `CrashOK`, `HungOK`, `Moving`: what a path that is empty, and a jump that never moves,
  have behind them. `Cycles`: following parents from any set of nodes leaves the set, unless
  it meets the first node of an array. `find_path()` closes a node before anything is hung
  from it, and it hangs only nodes that are not closed; a later call un-closes the
  first nodes, and nothing else.

It is proved for a step with *any* map and *any* places of cells (`AnyNext`), so that
`TestMapProofs` uses it for what a file leaves in the cells. `HopsOK` is a second invariant
on top: a jump to a walkable cell runs along a clear line if it starts at a
neighbour that is beside the node (`GridProofs`); `Facing` says that the neighbours still in
hand are beside it if it has no parent or is inside the present grid, where a forced
neighbour is inside the array, and because every cell has been told its place (`Placed`). A
node of the present array that has a parent is inside when the map is walled
(`EnteredInside`); one of an older array is where `init()` has left it.

`ReturnedIsWalk` needs a third, for the time between `backtrace()` and the next call:
`RouteFound` says that `path_` is a list of clear hops to the end, and of the first call also that
its first point is a clear hop from the start. `backtrace()` walks the parents of the end, and
`HopsOK` says that each step of it is a clear hop (`BacktraceIsRoute`); that it ends at the
start, in the first call, is `Rooted`: no other node is opened without a parent. `RouteIsReturned` takes `expandpath()` apart: the interpolated line of a
clear hop is a walk over walkable cells (`HopIsWalk`, from the lemmas about `interpolate()`: a
clear line is straight or diagonal, so the line drawn is the line jumped along),
and walks that share their ends join to a walk (`WalksJoin`, `FlattenIsJoined`).

**The loader.** `CellsOK` for files of one width; `LoaderOK` for well-formed files says
which line of which file is being read and that the cells are what has been read so far
(`AsWrittenSoFar`): the rows of a second file only add to those of the first.

**The collector.** The theorems are about behaviours up to the step in which a finalizer
takes `sweepgc` out of `tobefnz` (section 6), from which on nothing of this is true:
`OnTrack` is `~ strayed`. `OneWayOffTrack` proves that there is no other such step, so a
program without finalizers is always on track. `IndInv` is about the
heap as one record (`Sweeper`), so that the same lemmas serve the steps that compute one
and the steps of the program. Its parts:

* `HeapOK`: no object is twice in the lists, a free address refers to nothing, an open
  upvalue belongs to a thread in `twups` or to a dead one, and *what is not dead refers
  only to what is not dead* (`PointersOK`). With `RootsOK` (the stack and the objects with
  finalizers are not dead) this gives `NothingAccessibleIsFreed`. The sweep frees only
  the dead (`HeapFree`), so what matters is that the atomic phase kills no more than it may.
* `TriOK`, while marking: gray is being in one gray list; what a black object refers to is
  marked, and its open upvalue is touched; what waits for its finalizer is marked. The
  lemmas about writes have the objects that still have to be marked as a parameter
  (`TriCore`): a store leaves one, and the barrier takes it away (`TriMark`) or
  makes the object gray again (`TriBack`).
* The atomic phase is followed through the sets `M0` to `M3` of what is marked after each
  of its rounds. `M2Closed`: when the ephemerons have converged, all that is marked refers to
  what is marked. `M3Closed`: after both clearings no entry of what stays is left with a key or
  a value that does not.
* `SweepOK`, while sweeping: what is in front of `sweepgc` in its list, and all of the lists
  swept before, is white. The steps that put an object into a list are new objects, which are
  white, and those of `luaC_checkfinalizer` and `udata2finalize`, which whiten it; the
  first one moves `sweepgc` away before (`CheckFinalizer`). What `udata2finalize`
  lacks is the one case that this proof cannot do without `OnTrack` (`CallFinalizerStep`).
* `GarbageOK`: what a full collection has found unreachable when it starts its cycle is
  not marked and cannot be reached from anything else (`Apart`), or is dead; `ControlOK`: only a
  finalizer at its end interrupts it.

`Finalization` is about an action property: all that is reachable is in `M2`
(`ReachableMarked`), and `separatetobefnz` takes what is not. `Closure` and `Traverse` of the
model are intersections of closed sets, so what they reach is proved without induction
(`TraverseIs`, `ChainIs`).

What attempts at these proofs have shown about the properties, all of which TLC had
passed, because in its instances the case did not arise:

* `StopsHaveACause` gave fewer causes. `find_path()` also reads a null pointer when the end
  is an *earlier* start that is still in the list or is a first node. And a jump that does
  not move also starts from a neighbour whose cell believes to be elsewhere, in a grid of
  one column from the cell itself, or from a node at the place of its own parent.
* `HopsAreClear` left out the case of a second `init()` with a map of another size, or after
  one with a walkable border: a node of the old array that is still in the list and
  not inside the new grid is expanded with neighbours outside the array, and a node of the
  new, walled map may hang from it by no line at all. `NoStrayRead` names the same case.
* `CostsAddUp` and `OpenListIsFrontier` are properties of the first call; this is now in
  them and not in the instance.
* `ReturnedIsWalk` said of any call what holds in the first: a route of a later call may end at
  an earlier start, and hops of an old map need not be walks on the new one. It now
  says which part is about the first call, and that it is about the first map.
* `DisplacedIsUnsetOrSpilled` does not hold when a later file changes the width, and the
  finder is given the cells again.
* A field of a row makes its cell walkable when it is *any* number but 0
  (TestMap.cc:109), not only 1; `Says` had it otherwise.
* `FinalizedWhenUnreachable` claimed that no table at all still holds an object that is
  given to its finalizer. A weak table that is itself unreachable, and comes back as the key of
  an ephemeron or with another object that is finalized, keeps it as a value; the
  property is now about the tables that are reachable.

Model-checked only:

* liveness (the fairness half of `ImplementsHandoff`, `FirstCoroutineIsResumed`,
  `CallsReturn`, `TutorialEnds`, `GarbageIsCollected`), since fairness is outside what
  the prover handles;
* `FindsPathIfThereIsOne`: that the pruning of `find_neighbors()` loses no path is an
  argument over all paths of the map, and it depends on the order in which
  `open_list_` gives its nodes away: closed nodes are never improved, and when they were
  taken in any order, paths would be lost. An invariant of this kind needs the theory of jump
  point search (a cheapest path in canonical order, all of whose turning points are found),
  while the list is only approximately sorted (`finder_min`). It is checked on all walled
  maps of 6 x 5.

## 6. Where the code and its own words differ

* **Manager.h:96-101** describes one main thread that fills one map and swaps the
  other. `ms_Singleton` is assigned only when the constructor returns, and the main
  worker runs before that; it may build a second manager, publish its coroutine there,
  and have it resumed by the other main worker (`startup_race`). The first coroutine
  is resumed all the same (`FirstCoroutineIsResumed`).
* **JPSFinder.cc:102**, "pop the position of node which has the minimum f value":
  the list is sorted only when a node is added, so a node that became cheaper may wait
  behind a dearer one (`finder_min`).
* **JPSFinder.cc:79-82** writes `cell_nodes_->clear()` in a loop over all cells that takes the
  first cell in every round, and `main.cc:28-32` calls `find_path` many times on one
  finder: the second call may find nothing where there is a path (`finder_repeat`). The
  13 states TLC shows need no obstacle but the border: a path is found from (1,2) to
  (1,1); then, from (1,1) to (2,1), the start still has (1,2) as its parent, so only the
  neighbours straight ahead are considered, there are none, and the search gives up next
  to its end.
* **README.md:5** promises path finding in 8 directions: with a walkable border a
  forced neighbour may be a cell of another row, and the answer is no walk
  (`finder_wrap`). With a border that cannot be walked this does not happen
  (`finder_walled`).
* **lgc.h:52-59** says that while sweeping the invariant may be broken, and that all
  objects are white again in the end. `luaC_checkfinalizer` takes care of the case that
  `sweepgc` points into the object it moves (lgc.c:911-912); `udata2finalize`
  (lgc.c:788-799), which moves an object from `tobefnz` to `allgc`, does not. A finalizer
  called while `tobefnz` is swept takes `sweepgc` with it: the sweep goes on in `allgc`,
  which is white already, and the rest of `tobefnz` stays black (`collector_stray`).
  This is not only a matter of colour: the next cycle takes such a userdata for marked and
  does not traverse it, so that what only it refers to is found dead and freed, although
  the finalizer still to come can get at it. TLC shows this, too, when `OnTrack` is left out
  of `NothingAccessibleIsFreed`, after 26 states: of two userdata that wait for their
  finalizers the first is called while `sweepgc` points into it, and the uservalue of the
  second is freed in the next cycle. Hence `NothingAccessibleIsFreed`, `TricolorInvariant`,
  `FinalizedWhenUnreachable` and `GarbageIsCollected` claim nothing after a stray;
  `SweepForgetsOnlyPending` and `FullCollectionFrees` do.
* **The way back to cell (0,0)** hangs, on a map on which that cell can be entered: the
  clearing at the start of a call forgets this one node, which then becomes a child of its
  own child, and `backtrace` never ends (`HangAtEnd` in `finder_again`).

## 7. What is not modelled

* `async_task` (Manager.cc:68-84), which nothing calls: it would take a pooled record without
  setting `m_async_func`. Code in a coroutine
  after its resumption other than its end. `create()`/`realse()` of the finder, which only
  construct and delete it and which nothing calls.
* `Generator::operator=(Generator&&)` (Generator.h), which compares a pointer with an
  object: a program that uses it does not compile.
* Lines of a csv file longer than the 20479 characters `fgets` takes, and texts of a field
  that are no numbers.
* A coroutine frame of the tutorial or a generator that cannot be allocated. `Startup`
  leaves all failures to `ThreadManager`: an allocation never fails there.
* Of Lua everything but the collector. It is third-party code that nothing calls, 94 in
  100 lines of the tree; most of it is a sequential interpreter, a compiler and
  libraries of string functions. This is why the model covers a small share of
  the tree's lines, although it covers nearly all of the program's own. Of the collector:
  tables with a `__gc` metamethod, which `lua_setmetatable` hands to
  `luaC_checkfinalizer` as it does userdata (lapi.c:859-866): only userdata are finalized
  here; strings, prototypes and their caches, C closures and metatables, which only add
  further references of the kinds modelled; `collectgarbage("stop")`; the pacing by
  debts and work units (how *far* a step goes, while here a step may stop anywhere);
  finalizers that call `collectgarbage()` themselves, and an emergency collection inside a
  finalizer that a full collection has called (an emergency inside any other finalizer is
  modelled); what happens after memory the program refers to has been freed.
* Overflow of `int` in costs: it takes a map of more than 10^9 cells' length, and
  `int64_t` indices of requests do not wrap in the life of a process.
* Time: the sleeps of the loops, and that the timer is far ahead (except that
  `Startup` uses it to forbid an expiry during a call).

## 8. Plan

1. `FindsPathIfThereIsOne` for maps of any size: see the end of section 5.
2. The bounds on `calls`, `inits` and `MaxRounds` only keep TLC's state space finite; where
   a theorem has them as a parameter nothing depends on their value.
3. `ThreadManager`: `async_task` and coroutines that await again after resumption.
