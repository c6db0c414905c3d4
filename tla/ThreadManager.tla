----------------------------- MODULE ThreadManager -----------------------------
(***************************************************************************)
(* The hand-off of coroutines between the two worker threads of one        *)
(* thread_manager (src/coroutine/Manager.h, Manager.cc).  The main worker  *)
(* starts a coroutine, update(), which suspends by publishing a            *)
(* result_data record to the logic worker; the logic worker runs the       *)
(* record's function and posts the record back; the main worker resumes    *)
(* the coroutine and returns the record to the pool.                       *)
(*                                                                         *)
(* Every step is one statement or critical section of a thread, named by   *)
(* the program counters mpc and lpc.  The checks of .empty() are made      *)
(* outside the mutex, as in the code.  The construction of the manager is  *)
(* modelled in module Startup: here both workers have passed g_start_loop. *)
(***************************************************************************)
EXTENDS Integers, Sequences

CONSTANTS
  Records,      \* the addresses new can return for a result_data
  MaxRequests   \* bound: how often the generator's timer expires

ASSUME MaxRequestsAssumption == MaxRequests \in Nat \ {0}

Coroutines == 0 .. MaxRequests - 1

\* Before a field of a record is set.
None == -1

VARIABLES
  running,                \* the program has not crashed
  mpc, lpc,               \* program counters of the two workers
  due,                    \* m_gen_task_tick < time(nullptr)
  calls,                  \* the coroutines that update() has started, numbered from 0;
                          \* one that fails to be published leaves its number to the next
  m_global_index,
  rec,                    \* the contents of the result_data records
  allocated,              \* the records new has returned
  m_result_pool,
  data,                   \* main worker: the record of the coroutine being started
  m_logic_mutex, m_main_mutex,
  m_logic_cache_handles, m_logic_handles,
  m_main_cache_handles, m_main_handles,
  ltodo, mtodo,           \* the keys the loops over ..._handles have still to finish
  lkey, mkey,             \* itor->first of those loops
  ran, resumed,           \* history: runs of the function, resumptions, per coroutine
  lost                    \* history: the records that a failing publication left nowhere

generator == <<due, calls, m_global_index, data>>
memory    == <<rec, allocated, m_result_pool>>
mutexes   == <<m_logic_mutex, m_main_mutex>>
logicMaps == <<m_logic_cache_handles, m_logic_handles>>
mainMaps  == <<m_main_cache_handles, m_main_handles>>
logicLoop == <<ltodo, lkey>>
mainLoop  == <<mtodo, mkey>>
history   == <<ran, resumed, lost>>
vars == <<running, mpc, lpc, generator, memory, mutexes, logicMaps, mainMaps,
          logicLoop, mainLoop, history>>

\* An unordered_map<int64_t, result_data*> is a function on a finite set of keys.
EmptyMap == [k \in {} |-> None]

\* emplace leaves the map alone when the key is already there.
Emplace(m, k, r) ==
  IF k \in DOMAIN m THEN m
  ELSE [j \in DOMAIN m \cup {k} |-> IF j = k THEN r ELSE m[j]]

Main(from, to)  == running /\ mpc = from /\ mpc' = to /\ UNCHANGED <<running, lpc>>
Logic(from, to) == running /\ lpc = from /\ lpc' = to /\ UNCHANGED <<running, mpc>>

Crash ==
  /\ running' = FALSE
  /\ UNCHANGED <<mpc, lpc, generator, memory, mutexes, logicMaps, mainMaps,
                 logicLoop, mainLoop, history>>
-----------------------------------------------------------------------------
(* The main worker: generate *)

\* The clock passes m_gen_task_tick.
TimerExpires ==
  /\ calls < MaxRequests
  /\ ~due
  /\ due' = TRUE
  /\ UNCHANGED <<running, mpc, lpc, calls, m_global_index, data, memory, mutexes,
                 logicMaps, mainMaps, logicLoop, mainLoop, history>>

\* Mutant of Alloc: the record is not popped off the pool.
AllocWithoutPop(r) ==
  IF m_result_pool # << >>
  THEN r = Head(m_result_pool) /\ UNCHANGED <<m_result_pool, allocated>>
  ELSE /\ r \in Records \ allocated
       /\ allocated' = allocated \cup {r}
       /\ UNCHANGED m_result_pool

\* A record from the front of the pool, or a new one.
Alloc(r) ==
  IF m_result_pool # << >>
  THEN /\ r = Head(m_result_pool)
       /\ m_result_pool' = Tail(m_result_pool)
       /\ UNCHANGED allocated
  ELSE /\ r \in Records \ allocated
       /\ allocated' = allocated \cup {r}
       /\ UNCHANGED m_result_pool

\* The timer is rearmed and update() runs up to its co_await: startCoroutine
\* takes a record, which keeps the handle of its previous use.
StartCoroutine ==
  /\ Main("top", "suspend")
  /\ due
  /\ due' = FALSE
  /\ calls' = calls + 1
  /\ \E r \in Records :
       /\ Alloc(r)
       /\ data' = r
       /\ rec' = [rec EXCEPT ![r] = [m_index |-> m_global_index,
                                     m_async_func |-> calls,
                                     m_handle |-> @.m_handle]]
  /\ UNCHANGED <<m_global_index, mutexes, logicMaps, mainMaps, logicLoop,
                 mainLoop, history>>

\* The pool is empty and new(std::nothrow) returns null, which startCoroutine
\* writes through.
RecordNotAllocated ==
  /\ running /\ mpc = "top" /\ due
  /\ m_result_pool = << >>
  /\ Crash

\* The frame of update() cannot be allocated: the call returns an empty
\* coroutine_task, and the timer has been rearmed all the same.
FrameNotAllocated ==
  /\ Main("top", "consume")
  /\ due
  /\ due' = FALSE
  /\ UNCHANGED <<calls, m_global_index, data, memory, mutexes, logicMaps,
                 mainMaps, logicLoop, mainLoop, history>>

NothingToStart ==
  /\ Main("top", "consume")
  /\ ~due
  /\ UNCHANGED <<generator, memory, mutexes, logicMaps, mainMaps, logicLoop,
                 mainLoop, history>>

\* await_suspend: the handle is stored before the record is published.
StoreHandle ==
  /\ Main("suspend", "lockLogic")
  /\ rec' = [rec EXCEPT ![data].m_handle = calls - 1]
  /\ UNCHANGED <<generator, allocated, m_result_pool, mutexes, logicMaps,
                 mainMaps, logicLoop, mainLoop, history>>

MainLocksLogic ==
  /\ Main("lockLogic", "publish")
  /\ m_logic_mutex = "free"
  /\ m_logic_mutex' = "main"
  /\ UNCHANGED <<generator, memory, m_main_mutex, logicMaps, mainMaps,
                 logicLoop, mainLoop, history>>

Publish ==
  /\ Main("publish", "bump")
  /\ m_logic_cache_handles' = Emplace(m_logic_cache_handles, rec[data].m_index, data)
  /\ m_logic_mutex' = "free"
  /\ UNCHANGED <<generator, memory, m_main_mutex, m_logic_handles, mainMaps,
                 logicLoop, mainLoop, history>>

\* emplace cannot allocate.  The exception leaves await_suspend, which releases the
\* mutex, and goes on in the coroutine, whose unhandled_exception() does nothing: the
\* coroutine ends, the index is not incremented, and nobody has the record any more.
PublishFails ==
  /\ Main("publish", "consume")
  /\ m_logic_mutex' = "free"
  /\ calls' = calls - 1
  /\ lost' = lost \cup {data}
  /\ UNCHANGED <<due, m_global_index, data, memory, m_main_mutex, logicMaps, mainMaps,
                 logicLoop, mainLoop, ran, resumed>>

\* Mutant of BumpIndex: the index is used again.
BumpNothing ==
  /\ Main("bump", "consume")
  /\ UNCHANGED <<generator, memory, mutexes, logicMaps, mainMaps, logicLoop,
                 mainLoop, history>>

\* Mutant of BumpIndex: the record is written to after its publication.
BumpAndForgetHandle ==
  /\ Main("bump", "consume")
  /\ m_global_index' = m_global_index + 1
  /\ rec' = [rec EXCEPT ![data] = [@ EXCEPT !.m_handle = None]]
  /\ UNCHANGED <<due, calls, data, allocated, m_result_pool, mutexes, logicMaps,
                 mainMaps, logicLoop, mainLoop, history>>

BumpIndex ==
  /\ Main("bump", "consume")
  /\ m_global_index' = m_global_index + 1
  /\ UNCHANGED <<due, calls, data, memory, mutexes, logicMaps, mainMaps,
                 logicLoop, mainLoop, history>>
-----------------------------------------------------------------------------
(* The main worker: consume *)

FindNothingPosted ==
  /\ Main("consume", "top")
  /\ DOMAIN m_main_cache_handles = {}
  /\ UNCHANGED <<generator, memory, mutexes, logicMaps, mainMaps, logicLoop,
                 mainLoop, history>>

FindPosted ==
  /\ Main("consume", "lockMain")
  /\ DOMAIN m_main_cache_handles # {}
  /\ UNCHANGED <<generator, memory, mutexes, logicMaps, mainMaps, logicLoop,
                 mainLoop, history>>

MainLocksMain ==
  /\ Main("lockMain", "swapMain")
  /\ m_main_mutex = "free"
  /\ m_main_mutex' = "main"
  /\ UNCHANGED <<generator, memory, m_logic_mutex, logicMaps, mainMaps,
                 logicLoop, mainLoop, history>>

SwapMain ==
  /\ Main("swapMain", "resume")
  /\ m_main_handles' = m_main_cache_handles
  /\ m_main_cache_handles' = m_main_handles
  /\ mtodo' = DOMAIN m_main_cache_handles
  /\ m_main_mutex' = "free"
  /\ UNCHANGED <<generator, memory, m_logic_mutex, logicMaps, logicLoop, mkey,
                 history>>

\* m_handle.resume() runs update() to its end.
Resume ==
  /\ Main("resume", "release")
  /\ \E k \in mtodo :
       /\ mkey' = k
       /\ resumed' = [resumed EXCEPT ![rec[m_main_handles[k]].m_handle] = @ + 1]
  /\ UNCHANGED <<generator, memory, mutexes, logicMaps, mainMaps, logicLoop,
                 mtodo, ran, lost>>

\* Mutant of Release: the record does not go back to the pool.
ForgetRecord ==
  /\ Main("release", "resume")
  /\ mtodo' = mtodo \ {mkey}
  /\ UNCHANGED <<generator, memory, mutexes, logicMaps, mainMaps, logicLoop,
                 mkey, history>>

Release ==
  /\ Main("release", "resume")
  /\ m_result_pool' = Append(m_result_pool, m_main_handles[mkey])
  /\ mtodo' = mtodo \ {mkey}
  /\ UNCHANGED <<generator, rec, allocated, mutexes, logicMaps, mainMaps,
                 logicLoop, mkey, history>>

\* push_back cannot allocate: an exception leaves the thread.
ReleaseThrows ==
  /\ running /\ mpc = "release"
  /\ Crash

\* Mutant of ClearMain: m_main_handles keeps what has been resumed.
LeaveMain ==
  /\ Main("resume", "top")
  /\ mtodo = {}
  /\ UNCHANGED <<generator, memory, mutexes, logicMaps, mainMaps, logicLoop,
                 mainLoop, history>>

ClearMain ==
  /\ Main("resume", "top")
  /\ mtodo = {}
  /\ m_main_handles' = EmptyMap
  /\ UNCHANGED <<generator, memory, mutexes, logicMaps, m_main_cache_handles,
                 logicLoop, mainLoop, history>>
-----------------------------------------------------------------------------
(* The logic worker *)

FindPublished ==
  /\ Logic("check", "lockLogic")
  /\ DOMAIN m_logic_cache_handles # {}
  /\ UNCHANGED <<generator, memory, mutexes, logicMaps, mainMaps, logicLoop,
                 mainLoop, history>>

LogicLocksLogic ==
  /\ Logic("lockLogic", "swapLogic")
  /\ m_logic_mutex = "free"
  /\ m_logic_mutex' = "logic"
  /\ UNCHANGED <<generator, memory, m_main_mutex, logicMaps, mainMaps,
                 logicLoop, mainLoop, history>>

\* Mutant of SwapLogic: the swap is forgotten.
DoNotSwapLogic ==
  /\ Logic("swapLogic", "run")
  /\ ltodo' = DOMAIN m_logic_cache_handles
  /\ m_logic_mutex' = "free"
  /\ UNCHANGED <<generator, memory, m_main_mutex, logicMaps, mainMaps, lkey,
                 mainLoop, history>>

SwapLogic ==
  /\ Logic("swapLogic", "run")
  /\ m_logic_handles' = m_logic_cache_handles
  /\ m_logic_cache_handles' = m_logic_handles
  /\ ltodo' = DOMAIN m_logic_cache_handles
  /\ m_logic_mutex' = "free"
  /\ UNCHANGED <<generator, memory, m_main_mutex, mainMaps, lkey, mainLoop,
                 history>>

\* Mutant of RunFunction: the record is posted without running its function.
RunNothing ==
  /\ Logic("run", "lockMain")
  /\ \E k \in ltodo : lkey' = k
  /\ UNCHANGED <<generator, memory, mutexes, logicMaps, mainMaps, ltodo,
                 mainLoop, history>>

RunFunction ==
  /\ Logic("run", "lockMain")
  /\ \E k \in ltodo :
       /\ lkey' = k
       /\ ran' = [ran EXCEPT ![rec[m_logic_handles[k]].m_async_func] = @ + 1]
  /\ UNCHANGED <<generator, memory, mutexes, logicMaps, mainMaps, ltodo,
                 mainLoop, resumed, lost>>

\* An exception leaves the function of a record, and with it the thread.
FunctionThrows ==
  /\ running /\ lpc = "run" /\ ltodo # {}
  /\ Crash

LogicLocksMain ==
  /\ Logic("lockMain", "post")
  /\ m_main_mutex = "free"
  /\ m_main_mutex' = "logic"
  /\ UNCHANGED <<generator, memory, m_logic_mutex, logicMaps, mainMaps,
                 logicLoop, mainLoop, history>>

Post ==
  /\ Logic("post", "run")
  /\ m_main_cache_handles' =
       Emplace(m_main_cache_handles, lkey, m_logic_handles[lkey])
  /\ ltodo' = ltodo \ {lkey}
  /\ m_main_mutex' = "free"
  /\ UNCHANGED <<generator, memory, m_logic_mutex, logicMaps, m_main_handles,
                 lkey, mainLoop, history>>

\* emplace cannot allocate: an exception leaves the thread.
PostThrows ==
  /\ running /\ lpc = "post"
  /\ Crash

\* Mutant of ClearLogic: m_logic_handles keeps what has been posted.
LeaveLogic ==
  /\ Logic("run", "check")
  /\ ltodo = {}
  /\ UNCHANGED <<generator, memory, mutexes, logicMaps, mainMaps, logicLoop,
                 mainLoop, history>>

ClearLogic ==
  /\ Logic("run", "check")
  /\ ltodo = {}
  /\ m_logic_handles' = EmptyMap
  /\ UNCHANGED <<generator, memory, mutexes, m_logic_cache_handles, mainMaps,
                 logicLoop, mainLoop, history>>
-----------------------------------------------------------------------------
Init ==
  /\ running = TRUE
  /\ mpc = "top" /\ lpc = "check"
  /\ due = TRUE /\ calls = 0 /\ m_global_index = 0   \* m_gen_task_tick starts at 0
  /\ rec = [r \in Records |-> [m_index |-> None, m_async_func |-> None, m_handle |-> None]]
  /\ allocated = {} /\ m_result_pool = << >> /\ data = None
  /\ m_logic_mutex = "free" /\ m_main_mutex = "free"
  /\ m_logic_cache_handles = EmptyMap /\ m_logic_handles = EmptyMap
  /\ m_main_cache_handles = EmptyMap /\ m_main_handles = EmptyMap
  /\ ltodo = {} /\ mtodo = {} /\ lkey = None /\ mkey = None
  /\ ran = [c \in Coroutines |-> 0] /\ resumed = [c \in Coroutines |-> 0]
  /\ lost = {}

MainNext ==
  \/ StartCoroutine \/ NothingToStart \/ StoreHandle \/ MainLocksLogic
  \/ Publish \/ BumpIndex
  \/ FindNothingPosted \/ FindPosted \/ MainLocksMain \/ SwapMain
  \/ Resume \/ Release \/ ClearMain

LogicNext ==
  \/ FindPublished \/ LogicLocksLogic \/ SwapLogic
  \/ RunFunction \/ LogicLocksMain \/ Post \/ ClearLogic

MainFails  == RecordNotAllocated \/ FrameNotAllocated \/ PublishFails \/ ReleaseThrows
LogicFails == FunctionThrows \/ PostThrows

Next == TimerExpires \/ MainNext \/ LogicNext \/ MainFails \/ LogicFails

Spec == Init /\ [][Next]_vars

\* Both workers are detached threads that loop forever and that the operating
\* system keeps scheduling; nothing makes the clock reach the timer.
FairSpec == Spec /\ WF_vars(MainNext \/ MainFails) /\ WF_vars(LogicNext \/ LogicFails)
-----------------------------------------------------------------------------
(* Properties *)

TypeOK ==
  /\ running \in BOOLEAN
  /\ mpc \in {"top", "suspend", "lockLogic", "publish", "bump", "consume",
              "lockMain", "swapMain", "resume", "release"}
  /\ lpc \in {"check", "lockLogic", "swapLogic", "run", "lockMain", "post"}
  /\ due \in BOOLEAN /\ calls \in 0 .. MaxRequests /\ m_global_index \in Nat
  /\ rec \in [Records -> [m_index : Nat \cup {None},
                          m_async_func : Coroutines \cup {None},
                          m_handle : Coroutines \cup {None}]]
  /\ allocated \in SUBSET Records
  /\ m_result_pool \in Seq(Records)
  /\ data \in Records \cup {None}
  /\ m_logic_mutex \in {"free", "main", "logic"}
  /\ m_main_mutex \in {"free", "main", "logic"}
  /\ \A m \in {m_logic_cache_handles, m_logic_handles,
               m_main_cache_handles, m_main_handles} :
       m \in [DOMAIN m -> Records] /\ DOMAIN m \subseteq Nat
  /\ ltodo \subseteq DOMAIN m_logic_handles
  /\ mtodo \subseteq DOMAIN m_main_handles
  /\ lkey \in Nat \cup {None} /\ mkey \in Nat \cup {None}
  /\ ran \in [Coroutines -> Nat] /\ resumed \in [Coroutines -> Nat]
  /\ lost \subseteq Records

\* The requests on their way through the queues.  A key that a loop has passed
\* stays in m_logic_handles or m_main_handles until the clear(), but is no
\* longer looked at.
Pending == DOMAIN m_logic_cache_handles \cup ltodo
             \cup DOMAIN m_main_cache_handles \cup mtodo

\* The record of a pending request.
Holder(k) ==
  IF k \in DOMAIN m_logic_cache_handles THEN m_logic_cache_handles[k]
  ELSE IF k \in ltodo THEN m_logic_handles[k]
  ELSE IF k \in DOMAIN m_main_cache_handles THEN m_main_cache_handles[k]
  ELSE m_main_handles[k]

\* The main worker has published the n-th request once it is past await_suspend's
\* critical section.
Published == IF mpc \in {"suspend", "lockLogic", "publish"} THEN calls - 1 ELSE calls

\* A coroutine is resumed at most once (resuming it twice is undefined, its frame
\* is gone), and only after its function has run, once.
ResumedOnceAfterItsFunction ==
  \A c \in Coroutines :
    /\ ran[c] <= 1
    /\ resumed[c] <= ran[c]

\* No request is lost or in two queues: each published request is in exactly
\* one of the queues until its coroutine is resumed (emplace drops a request
\* whose key is taken; a map that is not cleared is swapped back).
NoRequestLost ==
  /\ \A c \in 0 .. Published - 1 :
       \/ resumed[c] > 0
       \/ \E k \in Pending : rec[Holder(k)].m_handle = c
  /\ DOMAIN m_logic_cache_handles \cap ltodo = {}
  /\ (DOMAIN m_logic_cache_handles \cup ltodo) \cap DOMAIN m_main_cache_handles = {}
  /\ (DOMAIN m_logic_cache_handles \cup ltodo \cup DOMAIN m_main_cache_handles)
       \cap mtodo = {}

\* A result_data record has one owner: it is in the pool, or being filled by
\* the main worker, or the record of one pending request, or it is lost and no
\* longer used by anyone.
RecordHasOneOwner ==
  /\ \A i, j \in DOMAIN m_result_pool : m_result_pool[i] = m_result_pool[j] => i = j
  /\ \A k \in Pending : \A i \in DOMAIN m_result_pool : Holder(k) # m_result_pool[i]
  /\ \A j, k \in Pending : Holder(j) = Holder(k) => j = k
  /\ mpc \in {"suspend", "lockLogic", "publish"} =>
       /\ \A k \in Pending : Holder(k) # data
       /\ \A i \in DOMAIN m_result_pool : m_result_pool[i] # data
       /\ data \notin lost
  /\ \A i \in DOMAIN m_result_pool : m_result_pool[i] \notin lost
  /\ \A k \in Pending : Holder(k) \notin lost

\* Only a failing publication leaks a record: any other that was ever allocated is in
\* the pool, is being filled, or is that of a pending request, so a new one is
\* allocated only while all the others are in use.
NoRecordLeaks ==
  \A r \in allocated \ lost :
    \/ \E i \in DOMAIN m_result_pool : m_result_pool[i] = r
    \/ mpc \in {"suspend", "lockLogic", "publish"} /\ r = data
    \/ \E k \in Pending : Holder(k) = r

\* The result of .empty(), read outside the mutex, still holds when the mutex
\* has been taken, and the map swapped in is the empty one.
UnlockedCheckHolds ==
  /\ lpc \in {"lockLogic", "swapLogic"} =>
       DOMAIN m_logic_cache_handles # {} /\ DOMAIN m_logic_handles = {}
  /\ mpc \in {"lockMain", "swapMain"} =>
       DOMAIN m_main_cache_handles # {} /\ DOMAIN m_main_handles = {}

\* The fields of a record are written without a mutex: never while the logic
\* worker can reach the record, nor while it waits to be resumed.
NoWriteToPublishedRecord ==
  [][\A r \in Records :
       rec'[r] # rec[r] => \A k \in Pending : Holder(k) # r]_vars

\* The abstract status of the request of a coroutine.
Status(c) == IF resumed[c] > 0 THEN "resumed"
             ELSE IF ran[c] > 0 THEN "executed"
             ELSE IF c < Published THEN "submitted"
             ELSE "idle"

\* thread_manager implements the promise of module Handoff.
Promise == INSTANCE Handoff
             WITH status <- [c \in Coroutines |-> Status(c)], serving <- running

ImplementsHandoff == Promise!Spec
=============================================================================
