-------------------------------- MODULE Startup --------------------------------
(***************************************************************************)
(* The construction of the thread_manager singleton and the first use of   *)
(* it (Singleton.h, Manager.cc).  main() calls thread_manager::instance(), *)
(* whose constructor starts the two workers and only then sets             *)
(* g_start_loop; ms_Singleton is assigned after the constructor returns.   *)
(* The main worker, released by g_start_loop, calls instance() itself,     *)
(* twice, from startCoroutine.  Neither variable is synchronised.          *)
(*                                                                         *)
(* The queues of a manager are kept at the grain of module Handoff, which  *)
(* ThreadManager implements; what is kept in detail is who calls           *)
(* instance() when, and the statics all managers share.                    *)
(***************************************************************************)
EXTENDS Integers, Sequences, FiniteSets

CONSTANTS
  Managers,     \* the objects new thread_manager() can return
  Boot,         \* the program's initial thread
  Null,
  MaxExpiries   \* bound: how often m_gen_task_tick is reached

ASSUME StartupAssumption ==
  /\ MaxExpiries \in Nat \ {0}
  /\ Boot \notin Managers /\ Null \notin Managers

\* The main worker of a manager is named like the manager.
Threads == {Boot} \cup Managers

VARIABLES
  pc,               \* where each thread is; "absent" before it is created
  making,           \* the manager a thread is constructing
  got,              \* the results of the calls of instance() made by update()
  ms_Singleton,
  g_start_loop,
  built,            \* the managers new has returned
  hasLogic,         \* the managers whose logic worker runs
  tick,             \* m_gen_task_tick < time(nullptr)
  expiries,
  m_global_index,
  seen,             \* the value of m_global_index each thread has read
  startedBy,        \* history: the main worker that started the c-th coroutine
  resumedBy,        \* history: the main worker that resumed it
  logicQ, mainQ     \* per manager: what waits for its logic and its main worker

local   == <<making, got, seen>>
pointer == <<ms_Singleton, built>>
timer   == <<tick, expiries>>
queues  == <<logicQ, mainQ>>
history == <<startedBy, resumedBy>>
vars == <<pc, local, pointer, g_start_loop, hasLogic, timer, m_global_index,
          history, queues>>

Coroutines == DOMAIN startedBy

\* A queue maps a key to the coroutine waiting under it.
EmptyQueue == [k \in {} |-> 0]
Emplace(q, k, c) ==
  IF k \in DOMAIN q THEN q
  ELSE [j \in DOMAIN q \cup {k} |-> IF j = k THEN c ELSE q[j]]

Goto(t, from, to) == pc[t] = from /\ pc' = [pc EXCEPT ![t] = to]
-----------------------------------------------------------------------------
(* Singleton::instance(), executed by thread t *)

\* Where a call of instance() returns to: main() sleeps for ever; startCoroutine
\* calls it once for alloc() and once for the awaitable.
AfterInstance(t) == IF t = Boot THEN "done"
                    ELSE IF Len(got[t]) = 0 THEN "alloc"
                    ELSE "publish"

Return(t, from, m) ==
  /\ Goto(t, from, AfterInstance(t))
  /\ got' = [got EXCEPT ![t] = Append(@, m)]

FindInstance(t) ==
  /\ ms_Singleton # Null
  /\ Return(t, "test", ms_Singleton)
  /\ UNCHANGED <<making, seen, pointer, g_start_loop, hasLogic, timer,
                 m_global_index, history, queues>>

FindNull(t) ==
  /\ ms_Singleton = Null
  /\ Goto(t, "test", "startMain")
  /\ \E m \in Managers \ built :
       /\ making' = [making EXCEPT ![t] = m]
       /\ built' = built \cup {m}
  /\ UNCHANGED <<got, seen, ms_Singleton, g_start_loop, hasLogic, timer,
                 m_global_index, history, queues>>

StartMainWorker(t) ==
  /\ pc[t] = "startMain"
  /\ pc' = [pc EXCEPT ![t] = "startLogic", ![making[t]] = "loop"]
  /\ UNCHANGED <<local, pointer, g_start_loop, hasLogic, timer, m_global_index,
                 history, queues>>

\* Mutant of StartLogicWorker: the thread is not started.
StartNoLogicWorker(t) ==
  /\ Goto(t, "startLogic", "setFlag")
  /\ UNCHANGED <<local, pointer, g_start_loop, hasLogic, timer, m_global_index,
                 history, queues>>

StartLogicWorker(t) ==
  /\ Goto(t, "startLogic", "setFlag")
  /\ hasLogic' = hasLogic \cup {making[t]}
  /\ UNCHANGED <<local, pointer, g_start_loop, timer, m_global_index, history,
                 queues>>

SetStartLoop(t) ==
  /\ Goto(t, "setFlag", "assign")
  /\ g_start_loop' = TRUE
  /\ UNCHANGED <<local, pointer, hasLogic, timer, m_global_index, history, queues>>

\* Mutant of Assign: the new manager is returned but not remembered.
AssignNothing(t) ==
  /\ Return(t, "assign", making[t])
  /\ UNCHANGED <<making, seen, pointer, g_start_loop, hasLogic, timer,
                 m_global_index, history, queues>>

Assign(t) ==
  /\ Return(t, "assign", making[t])
  /\ ms_Singleton' = making[t]
  /\ UNCHANGED <<making, seen, built, g_start_loop, hasLogic, timer,
                 m_global_index, history, queues>>
-----------------------------------------------------------------------------
(* The main worker m *)

\* m_gen_task_tick is 10000000 seconds ahead: no call that is under way when it
\* is set lasts as long.
Expire ==
  /\ ~tick /\ expiries < MaxExpiries
  /\ pc[Boot] = "done"
  /\ \A m \in built : pc[m] = "loop"
  /\ tick' = TRUE /\ expiries' = expiries + 1
  /\ UNCHANGED <<pc, local, pointer, g_start_loop, hasLogic, m_global_index,
                 history, queues>>

\* The test of m_gen_task_tick and its assignment are two steps.
SeeTimer(m) ==
  /\ g_start_loop /\ tick
  /\ Goto(m, "loop", "rearm")
  /\ UNCHANGED <<local, pointer, g_start_loop, hasLogic, timer, m_global_index,
                 history, queues>>

\* Mutant of Rearm: update() is called with the timer still expired.
RearmNothing(m) ==
  /\ Goto(m, "rearm", "test")
  /\ got' = [got EXCEPT ![m] = << >>]
  /\ startedBy' = Append(startedBy, m)
  /\ resumedBy' = Append(resumedBy, Null)
  /\ UNCHANGED <<making, seen, pointer, g_start_loop, hasLogic, timer,
                 m_global_index, queues>>

Rearm(m) ==
  /\ Goto(m, "rearm", "test")
  /\ tick' = FALSE
  /\ got' = [got EXCEPT ![m] = << >>]
  /\ startedBy' = Append(startedBy, m)
  /\ resumedBy' = Append(resumedBy, Null)
  /\ UNCHANGED <<making, seen, pointer, g_start_loop, hasLogic, expiries,
                 m_global_index, queues>>

\* alloc(m_global_index)
Alloc(m) ==
  /\ Goto(m, "alloc", "test")
  /\ seen' = [seen EXCEPT ![m] = m_global_index]
  /\ UNCHANGED <<making, got, pointer, g_start_loop, hasLogic, timer,
                 m_global_index, history, queues>>

\* The coroutine that main worker m has started last.
Started(m) == CHOOSE c \in Coroutines :
                startedBy[c] = m /\ \A d \in Coroutines : startedBy[d] = m => d <= c

\* await_suspend's critical section, on the second result of instance().
Publish(m) ==
  /\ Goto(m, "publish", "bumpRead")
  /\ logicQ' = [logicQ EXCEPT ![got[m][2]] = Emplace(@, seen[m], Started(m))]
  /\ UNCHANGED <<local, pointer, g_start_loop, hasLogic, timer, m_global_index,
                 history, mainQ>>

\* ++m_global_index is not atomic.
BumpRead(m) ==
  /\ Goto(m, "bumpRead", "bumpWrite")
  /\ seen' = [seen EXCEPT ![m] = m_global_index]
  /\ UNCHANGED <<making, got, pointer, g_start_loop, hasLogic, timer,
                 m_global_index, history, queues>>

\* Mutant of BumpWrite: the index is written back as it was read.
BumpWriteSame(m) ==
  /\ Goto(m, "bumpWrite", "loop")
  /\ m_global_index' = seen[m]
  /\ UNCHANGED <<local, pointer, g_start_loop, hasLogic, timer, history, queues>>

BumpWrite(m) ==
  /\ Goto(m, "bumpWrite", "loop")
  /\ m_global_index' = seen[m] + 1
  /\ UNCHANGED <<local, pointer, g_start_loop, hasLogic, timer, history, queues>>

\* A batch of posted coroutines is resumed.
Consume(m) ==
  /\ g_start_loop /\ pc[m] = "loop" /\ DOMAIN mainQ[m] # {}
  /\ resumedBy' = [c \in Coroutines |->
                     IF \E k \in DOMAIN mainQ[m] : mainQ[m][k] = c THEN m
                     ELSE resumedBy[c]]
  /\ mainQ' = [mainQ EXCEPT ![m] = EmptyQueue]
  /\ UNCHANGED <<pc, local, pointer, g_start_loop, hasLogic, timer,
                 m_global_index, startedBy, logicQ>>

\* Nothing to do: sleep and look again.
Poll(m) ==
  /\ pc[m] = "loop"
  /\ ~ (g_start_loop /\ (tick \/ DOMAIN mainQ[m] # {}))
  /\ UNCHANGED vars

\* The logic worker of m serves its queue.
Serve(m) ==
  /\ g_start_loop /\ m \in hasLogic
  /\ \E k \in DOMAIN logicQ[m] :
       /\ mainQ' = [mainQ EXCEPT ![m] = Emplace(@, k, logicQ[m][k])]
       /\ logicQ' = [logicQ EXCEPT ![m] = [j \in DOMAIN @ \ {k} |-> @[j]]]
  /\ UNCHANGED <<pc, local, pointer, g_start_loop, hasLogic, timer,
                 m_global_index, history>>
-----------------------------------------------------------------------------
Init ==
  /\ pc = [t \in Threads |-> IF t = Boot THEN "test" ELSE "absent"]
  /\ making = [t \in Threads |-> Null]
  /\ got = [t \in Threads |-> << >>]
  /\ seen = [m \in Managers |-> 0]
  /\ ms_Singleton = Null /\ built = {} /\ hasLogic = {}
  /\ g_start_loop = FALSE
  /\ tick = TRUE /\ expiries = 1
  /\ m_global_index = 0
  /\ startedBy = << >> /\ resumedBy = << >>
  /\ logicQ = [m \in Managers |-> EmptyQueue]
  /\ mainQ = [m \in Managers |-> EmptyQueue]

Instance(t) ==
  FindInstance(t) \/ FindNull(t) \/ StartMainWorker(t) \/ StartLogicWorker(t)
    \/ SetStartLoop(t) \/ Assign(t)

MainWorker(m) ==
  Instance(m) \/ SeeTimer(m) \/ Rearm(m) \/ Alloc(m) \/ Publish(m)
    \/ BumpRead(m) \/ BumpWrite(m) \/ Consume(m) \/ Poll(m)

Next ==
  \/ Expire
  \/ Instance(Boot)
  \/ \E m \in Managers : MainWorker(m) \/ Serve(m)

Spec == Init /\ [][Next]_vars

\* Each thread keeps being scheduled.
FairSpec == /\ Spec
            /\ WF_vars(Instance(Boot))
            /\ \A m \in Managers : WF_vars(MainWorker(m)) /\ WF_vars(Serve(m))
-----------------------------------------------------------------------------
(* Properties *)

\* The race between main() and the first main worker makes a second manager,
\* never a third: whoever calls instance() later finds one of the two.
AtMostTwoManagers == Cardinality(built) <= 2

\* Threads between the test of the timer and the end of ++m_global_index.
Generating == {m \in Managers : pc[m] \in {"rearm", "test", "startMain", "startLogic",
                                "setFlag", "assign", "alloc", "publish", "bumpRead",
                                "bumpWrite"}}

\* m_gen_task_tick and m_global_index are not synchronised; on the first expiry
\* they need not be, even when there are two main workers: the second one is
\* created by the thread that has already rearmed the timer.
FirstUpdateIsAlone == expiries = 1 => Cardinality(Generating) <= 1

Lost(c) ==
  /\ resumedBy[c] = Null
  /\ ~ (startedBy[c] \in Generating /\ Started(startedBy[c]) = c)
  /\ \A m \in Managers : \A q \in {logicQ[m], mainQ[m]} : \A k \in DOMAIN q : q[k] # c

\* A coroutine is dropped by emplace only where two main workers share
\* m_global_index: with one manager every key is fresh.
LossNeedsTwoManagers == (\E c \in Coroutines : Lost(c)) => Cardinality(built) = 2

\* Whatever instance() returns, the first update() is resumed.
FirstCoroutineIsResumed == <>(resumedBy # << >> /\ resumedBy[1] # Null)

\* Manager.h:96-101: "main thread write to m_logic_cache_handles" and "main
\* thread swap m_main_cache_handles to m_main_handles": the main thread that
\* submits a coroutine is the one that gets it back.
MainThreadGetsItsCoroutinesBack ==
  \A c \in Coroutines : resumedBy[c] # Null => resumedBy[c] = startedBy[c]
=============================================================================
