-------------------------- MODULE ThreadManagerProofs --------------------------
(***************************************************************************)
(* The safety of the hand-off of module ThreadManager, proved for every    *)
(* set of records and every number of requests.  Everything follows from   *)
(* one inductive invariant, IInv; its parts are named for what they say.   *)
(***************************************************************************)
EXTENDS ThreadManager, SequenceTheorems, TLAPS

\* The main worker is filling a record.
Filling == mpc \in {"suspend", "lockLogic", "publish"}

\* Each mutex is held exactly in the critical sections of its owner.
MutexOK ==
  /\ m_logic_mutex = "main" <=> mpc = "publish"
  /\ m_logic_mutex = "logic" <=> lpc = "swapLogic"
  /\ m_main_mutex = "main" <=> mpc = "swapMain"
  /\ m_main_mutex = "logic" <=> lpc = "post"

\* The map a worker iterates over is empty outside its loop, and the map it is
\* about to swap in is not: this is what the unlocked test relies on.
LoopOK ==
  /\ lpc \in {"check", "lockLogic", "swapLogic"} =>
       DOMAIN m_logic_handles = {} /\ ltodo = {}
  /\ lpc \in {"lockLogic", "swapLogic"} => DOMAIN m_logic_cache_handles # {}
  /\ lpc \in {"lockMain", "post"} => lkey \in ltodo
  /\ mpc \notin {"resume", "release"} => DOMAIN m_main_handles = {} /\ mtodo = {}
  /\ mpc \in {"lockMain", "swapMain"} => DOMAIN m_main_cache_handles # {}
  /\ mpc = "release" => mkey \in mtodo

\* The index is one behind the calls of update() until it is incremented, so
\* the key of a record being filled has never been used.
IndexOK ==
  /\ calls = IF Filling \/ mpc = "bump" THEN m_global_index + 1 ELSE m_global_index
  /\ due => calls < MaxRequests
  /\ Filling => /\ data \in allocated
                /\ rec[data].m_index = calls - 1
                /\ rec[data].m_async_func = calls - 1
  /\ mpc \in {"lockLogic", "publish"} => rec[data].m_handle = calls - 1

\* The four places a request can be in are disjoint.
DisjointOK ==
  /\ DOMAIN m_logic_cache_handles \cap ltodo = {}
  /\ DOMAIN m_logic_cache_handles \cap DOMAIN m_main_cache_handles = {}
  /\ DOMAIN m_logic_cache_handles \cap mtodo = {}
  /\ ltodo \cap DOMAIN m_main_cache_handles = {}
  /\ ltodo \cap mtodo = {}
  /\ DOMAIN m_main_cache_handles \cap mtodo = {}
  /\ \A k \in Pending : k < Published

\* Record r is that of request k.
Carries(r, k) ==
  /\ r \in allocated
  /\ rec[r].m_index = k /\ rec[r].m_async_func = k /\ rec[r].m_handle = k

\* A pending request is under its own index: no two have the same record.
HolderOK ==
  /\ \A k \in DOMAIN m_logic_cache_handles : Carries(m_logic_cache_handles[k], k)
  /\ \A k \in ltodo : Carries(m_logic_handles[k], k)
  /\ \A k \in DOMAIN m_main_cache_handles : Carries(m_main_cache_handles[k], k)
  /\ \A k \in mtodo : Carries(m_main_handles[k], k)

\* A record in the pool still has the index of its last request, which is over.
PoolOK ==
  /\ \A i \in DOMAIN m_result_pool :
       /\ m_result_pool[i] \in allocated
       /\ rec[m_result_pool[i]].m_index \in 0 .. Published - 1
       /\ rec[m_result_pool[i]].m_index \notin Pending
       /\ Filling => m_result_pool[i] # data
  /\ \A i, j \in DOMAIN m_result_pool : m_result_pool[i] = m_result_pool[j] => i = j

\* Request k is published and its function has not run.
Waiting(k) ==
  \/ k \in DOMAIN m_logic_cache_handles
  \/ k \in ltodo /\ ~ (lpc \in {"lockMain", "post"} /\ k = lkey)

\* What has happened to a coroutine can be read off the queues.
HistoryOK ==
  \A c \in Coroutines :
    /\ ran[c] = IF c < Published /\ ~ Waiting(c) THEN 1 ELSE 0
    /\ resumed[c] = IF /\ c < Published
                       /\ c \notin Pending \/ (mpc = "release" /\ c = mkey)
                    THEN 1 ELSE 0

IInv ==
  /\ TypeOK /\ MutexOK /\ LoopOK /\ IndexOK /\ DisjointOK /\ HolderOK
  /\ PoolOK /\ HistoryOK
-----------------------------------------------------------------------------
(* Facts about sequences and functions. *)

\* What alloc() takes from the pool and what it leaves there.
LEMMA HeadTail ==
  ASSUME NEW S, NEW s \in Seq(S), s # << >>
  PROVE  /\ Tail(s) \in Seq(S)
         /\ \A i \in DOMAIN Tail(s) :
              /\ i + 1 \in DOMAIN s /\ i \in Nat \ {0}
              /\ Tail(s)[i] = s[i + 1]
         /\ 1 \in DOMAIN s /\ Head(s) = s[1]
<1>1. /\ Tail(s) \in Seq(S) /\ Len(Tail(s)) = Len(s) - 1
      /\ \A i \in 1 .. Len(Tail(s)) : Tail(s)[i] = s[i + 1]
  BY HeadTailProperties
<1>2. Len(s) \in Nat /\ DOMAIN s = 1 .. Len(s) /\ DOMAIN Tail(s) = 1 .. Len(Tail(s))
  BY <1>1
<1>3. Len(s) # 0 /\ Head(s) = s[1]
  OBVIOUS
<1>4. QED
  BY <1>1, <1>2, <1>3

\* A counter stays a counter, incremented at whatever argument.
LEMMA Increment ==
  ASSUME NEW S, NEW count \in [S -> Nat], NEW x
  PROVE  [count EXCEPT ![x] = @ + 1] \in [S -> Nat]
<1>1. ASSUME NEW y \in S PROVE [count EXCEPT ![x] = @ + 1][y] \in Nat
  <2>1. count[y] \in Nat /\ count[y] + 1 \in Nat
    OBVIOUS
  <2>2. CASE y = x
    BY <2>1, <2>2
  <2>3. CASE y # x
    BY <2>1, <2>3
  <2>4. QED
    BY <2>2, <2>3
<1>2. QED
  BY <1>1

\* emplace keeps a map a map from indices to records.
LEMMA EmplaceType ==
  ASSUME NEW m, m \in [DOMAIN m -> Records], DOMAIN m \subseteq Nat,
         NEW k \in Nat, NEW r \in Records
  PROVE  /\ Emplace(m, k, r) \in [DOMAIN Emplace(m, k, r) -> Records]
         /\ DOMAIN Emplace(m, k, r) \subseteq Nat
<1>1. CASE k \in DOMAIN m
  BY <1>1 DEF Emplace
<1>2. CASE k \notin DOMAIN m
  <2>1. Emplace(m, k, r) = [j \in DOMAIN m \cup {k} |-> IF j = k THEN r ELSE m[j]]
    BY <1>2 DEF Emplace
  <2>2. QED
    BY <2>1
<1>3. QED
  BY <1>1, <1>2
-----------------------------------------------------------------------------
(* Every step preserves the invariant: one lemma for each action.  *)

\* The timer only makes the next call of update() due.
LEMMA TimerExpiresStep == ASSUME IInv, TimerExpires PROVE IInv'
<1> USE DEF IInv, TimerExpires, memory, mutexes, logicMaps, mainMaps, logicLoop,
        mainLoop, history
<1>1. TypeOK'
  BY MaxRequestsAssumption, SMTT(30) DEF TypeOK, Coroutines, None
<1>2. MutexOK' /\ LoopOK' /\ IndexOK' /\ DisjointOK' /\ HolderOK' /\ PoolOK' /\ HistoryOK'
  BY DEF MutexOK, LoopOK, IndexOK, DisjointOK, HolderOK, PoolOK, HistoryOK,
         Filling, Pending, Published, Carries, Waiting
<1>3. QED
  BY <1>1, <1>2

\* The record of a new coroutine is not that of any pending request, and the
\* pool keeps its records but the one taken.
LEMMA StartCoroutineStep == ASSUME IInv, StartCoroutine PROVE IInv'
<1> USE DEF IInv, StartCoroutine, Main, mutexes, logicMaps, mainMaps, logicLoop,
        mainLoop, history
<1>1. PICK r \in Records :
        /\ Alloc(r) /\ data' = r
        /\ rec' = [rec EXCEPT ![r] = [m_index |-> m_global_index,
                                      m_async_func |-> calls,
                                      m_handle |-> rec[r].m_handle]]
  OBVIOUS
\* The record is new or from the front of the pool.
<1>2. /\ r \in allocated' /\ allocated \subseteq allocated'
      /\ allocated' \subseteq Records
      /\ m_result_pool' \in Seq(Records)
      /\ \A i \in DOMAIN m_result_pool' :
           /\ m_result_pool'[i] # r
           /\ \E j \in DOMAIN m_result_pool : m_result_pool'[i] = m_result_pool[j]
      /\ \A i, j \in DOMAIN m_result_pool' :
           m_result_pool'[i] = m_result_pool'[j] => i = j
  <2>1. /\ m_result_pool \in Seq(Records) /\ allocated \subseteq Records
        /\ \A i \in DOMAIN m_result_pool : m_result_pool[i] \in allocated
        /\ \A i, j \in DOMAIN m_result_pool :
             m_result_pool[i] = m_result_pool[j] => i = j
    BY DEF TypeOK, PoolOK
  <2> HIDE DEF IInv, StartCoroutine
  <2>2. CASE m_result_pool = << >>
    BY <1>1, <2>1, <2>2 DEF Alloc
  <2>3. CASE m_result_pool # << >>
    <3>1. /\ Tail(m_result_pool) \in Seq(Records)
          /\ \A i \in DOMAIN Tail(m_result_pool) :
               /\ i + 1 \in DOMAIN m_result_pool /\ i \in Nat \ {0}
               /\ Tail(m_result_pool)[i] = m_result_pool[i + 1]
          /\ 1 \in DOMAIN m_result_pool /\ Head(m_result_pool) = m_result_pool[1]
      BY <2>1, <2>3, HeadTail
    <3>2. /\ r = m_result_pool[1] /\ m_result_pool' = Tail(m_result_pool)
          /\ allocated' = allocated
      BY <1>1, <2>3, <3>1 DEF Alloc
    <3>3. QED
      BY <2>1, <3>1, <3>2
  <2>4. QED
    BY <2>2, <2>3
\* Its new index is fresh, and no other record is written to.
<1>3. calls < MaxRequests /\ calls \in Nat /\ calls = m_global_index
  BY MaxRequestsAssumption DEF TypeOK, IndexOK, Filling
<1>4. rec' \in [Records -> [m_index : Nat \cup {None}, m_async_func : Coroutines \cup {None},
                            m_handle : Coroutines \cup {None}]]
  BY <1>1, <1>3, MaxRequestsAssumption DEF TypeOK, Coroutines
<1>5. /\ rec'[r].m_index = calls /\ rec'[r].m_async_func = calls
      /\ \A q \in Records : q # r => rec'[q] = rec[q]
  BY <1>1, <1>3 DEF TypeOK
<1>6. \A k \in Pending : Holder(k) # r
  BY <1>1 DEF Alloc, TypeOK, HolderOK, PoolOK, Carries, Pending, Holder
<1>7. Published' = Published /\ Pending' = Pending
  BY <1>3 DEF Published, Pending
<1>8. TypeOK'
  <2>1. calls' \in 0 .. MaxRequests
    BY <1>3, MaxRequestsAssumption
  <2>2. QED
    BY <1>1, <1>2, <1>4, <2>1 DEF TypeOK
<1>9. IndexOK'
  BY <1>1, <1>2, <1>3, <1>5 DEF IndexOK, Filling
<1>10. HolderOK'
  BY <1>2, <1>5, <1>6 DEF TypeOK, HolderOK, DisjointOK, Carries, Pending, Holder
<1>11. PoolOK'
  <2>1. ASSUME NEW i \in DOMAIN m_result_pool'
        PROVE  /\ m_result_pool'[i] \in allocated'
               /\ rec'[m_result_pool'[i]].m_index \in (0 .. Published - 1) \ Pending
               /\ m_result_pool'[i] # data'
    <3>1. PICK j \in DOMAIN m_result_pool : m_result_pool'[i] = m_result_pool[j]
      BY <1>2
    <3>2. m_result_pool[j] \in Records /\ m_result_pool[j] # r
      BY <1>2, <3>1 DEF TypeOK
    <3>3. QED
      BY <1>1, <1>2, <1>5, <3>1, <3>2 DEF PoolOK
  <2>2. QED
    BY <1>2, <1>7, <2>1 DEF PoolOK
<1>12. MutexOK' /\ LoopOK' /\ DisjointOK' /\ HistoryOK'
  BY <1>7 DEF MutexOK, LoopOK, DisjointOK, HistoryOK, Waiting
<1>13. QED
  BY <1>8, <1>9, <1>10, <1>11, <1>12

\* The main worker goes on to consume; nothing else changes.
LEMMA NothingToStartStep == ASSUME IInv, NothingToStart PROVE IInv'
<1> USE DEF IInv, NothingToStart, Main, generator, memory, mutexes, logicMaps,
        mainMaps, logicLoop, mainLoop, history
<1>1. TypeOK'
  BY MaxRequestsAssumption, SMTT(30) DEF TypeOK, Coroutines, None
<1>2. MutexOK' /\ LoopOK' /\ IndexOK' /\ DisjointOK' /\ HolderOK' /\ PoolOK' /\ HistoryOK'
  BY DEF MutexOK, LoopOK, IndexOK, DisjointOK, HolderOK, PoolOK, HistoryOK,
         Filling, Pending, Published, Carries, Waiting
<1>3. QED
  BY <1>1, <1>2

\* The handle goes into the record being filled, which no request carries yet.
LEMMA StoreHandleStep == ASSUME IInv, StoreHandle PROVE IInv'
<1> USE DEF IInv, StoreHandle, Main, generator, mutexes, logicMaps, mainMaps,
        logicLoop, mainLoop, history
<1>1. TypeOK'
  <2>1. calls - 1 \in Coroutines /\ data \in Records
    BY MaxRequestsAssumption DEF TypeOK, IndexOK, Filling, Coroutines
  <2> DEFINE Contents == [m_index : Nat \cup {None}, m_async_func : Coroutines \cup {None},
                          m_handle : Coroutines \cup {None}]
  <2>2. rec \in [Records -> Contents]
    BY DEF TypeOK
  <2>3. [rec[data] EXCEPT !.m_handle = calls - 1] \in Contents
    BY <2>1, <2>2
  <2>4. rec' = [rec EXCEPT ![data] = [rec[data] EXCEPT !.m_handle = calls - 1]]
    OBVIOUS
  <2>5. rec' \in [Records -> Contents]
    BY <2>1, <2>2, <2>3, <2>4
  <2>6. QED
    BY <2>5 DEF TypeOK
<1>2. HolderOK'
  BY DEF TypeOK, IndexOK, HolderOK, Coroutines, None, Filling, Carries
<1>3. PoolOK'
  BY DEF TypeOK, IndexOK, PoolOK, Coroutines, Filling, Pending, Published
<1>4. IndexOK'
  BY DEF TypeOK, IndexOK, Filling
<1>5. MutexOK' /\ LoopOK' /\ DisjointOK' /\ HistoryOK'
  BY DEF TypeOK, MutexOK, LoopOK, DisjointOK, HistoryOK, Pending, Published, Waiting
<1>6. QED
  BY <1>1, <1>2, <1>3, <1>4, <1>5

\* Taking m_logic_mutex moves the main worker into its critical section.
LEMMA MainLocksLogicStep == ASSUME IInv, MainLocksLogic PROVE IInv'
<1> USE DEF IInv, MainLocksLogic, Main, generator, memory, logicMaps, mainMaps,
        logicLoop, mainLoop, history
<1>1. TypeOK'
  BY MaxRequestsAssumption, SMTT(30) DEF TypeOK, Coroutines, None
<1>2. MutexOK' /\ LoopOK' /\ IndexOK' /\ DisjointOK' /\ HolderOK' /\ PoolOK' /\ HistoryOK'
  BY DEF MutexOK, LoopOK, IndexOK, DisjointOK, HolderOK, PoolOK, HistoryOK,
         Filling, Pending, Published, Carries, Waiting
<1>3. QED
  BY <1>1, <1>2

\* The request enters m_logic_cache_handles under a key nobody has used: the
\* emplace takes effect, and Published grows by it.
LEMMA PublishStep == ASSUME IInv, Publish PROVE IInv'
<1> USE DEF IInv, Publish, Main, generator, memory, mainMaps, logicLoop, mainLoop,
        history
<1>1. TypeOK'
  <2>1. rec[data].m_index \in Nat /\ data \in Records
    BY MaxRequestsAssumption DEF TypeOK, IndexOK, Filling
  <2>2. /\ m_logic_cache_handles' \in [DOMAIN m_logic_cache_handles' -> Records]
        /\ DOMAIN m_logic_cache_handles' \subseteq Nat
    BY <2>1, EmplaceType DEF TypeOK
  <2>3. QED
    BY <2>2 DEF TypeOK
<1>2. DisjointOK'
  BY DEF Emplace, TypeOK, IndexOK, DisjointOK, Coroutines, None, Filling, Pending,
         Published
<1>3. HolderOK'
  BY DEF Emplace, TypeOK, IndexOK, HolderOK, Coroutines, None, Filling, Carries
<1>4. PoolOK'
  BY DEF Emplace, TypeOK, IndexOK, PoolOK, Coroutines, None, Filling, Pending, Published
<1>5. HistoryOK'
  BY DEF Emplace, TypeOK, IndexOK, HistoryOK, Coroutines, None, Filling, Waiting, Pending,
         Published
<1>6. MutexOK' /\ LoopOK' /\ IndexOK'
  BY DEF Emplace, MutexOK, LoopOK, IndexOK, Filling
<1>7. QED
  BY <1>1, <1>2, <1>3, <1>4, <1>5, <1>6

\* The index catches up with the calls of update().
LEMMA BumpIndexStep == ASSUME IInv, BumpIndex PROVE IInv'
<1> USE DEF IInv, BumpIndex, Main, memory, mutexes, logicMaps, mainMaps,
        logicLoop, mainLoop, history
<1>1. TypeOK'
  BY MaxRequestsAssumption, SMTT(30) DEF TypeOK, Coroutines, None
<1>2. MutexOK' /\ LoopOK' /\ IndexOK' /\ DisjointOK' /\ HolderOK' /\ PoolOK' /\ HistoryOK'
  BY DEF MutexOK, LoopOK, IndexOK, DisjointOK, HolderOK, PoolOK, HistoryOK,
         Filling, Pending, Published, Carries, Waiting
<1>3. QED
  BY <1>1, <1>2

\* Nothing to resume: the main worker goes round its loop.
LEMMA FindNothingPostedStep == ASSUME IInv, FindNothingPosted PROVE IInv'
<1> USE DEF IInv, FindNothingPosted, Main, generator, memory, mutexes, logicMaps,
        mainMaps, logicLoop, mainLoop, history
<1>1. TypeOK'
  BY MaxRequestsAssumption, SMTT(30) DEF TypeOK, Coroutines, None
<1>2. MutexOK' /\ LoopOK' /\ IndexOK' /\ DisjointOK' /\ HolderOK' /\ PoolOK' /\ HistoryOK'
  BY DEF MutexOK, LoopOK, IndexOK, DisjointOK, HolderOK, PoolOK, HistoryOK,
         Filling, Pending, Published, Carries, Waiting
<1>3. QED
  BY <1>1, <1>2

\* What .empty() says is remembered by LoopOK until the swap.
LEMMA FindPostedStep == ASSUME IInv, FindPosted PROVE IInv'
<1> USE DEF IInv, FindPosted, Main, generator, memory, mutexes, logicMaps,
        mainMaps, logicLoop, mainLoop, history
<1>1. TypeOK'
  BY SMTT(30), MaxRequestsAssumption DEF TypeOK, Coroutines, None
<1>2. MutexOK' /\ LoopOK' /\ IndexOK' /\ DisjointOK' /\ HolderOK' /\ PoolOK' /\ HistoryOK'
  BY DEF MutexOK, LoopOK, IndexOK, DisjointOK, HolderOK, PoolOK, HistoryOK,
         Filling, Pending, Published, Carries, Waiting
<1>3. QED
  BY <1>1, <1>2

\* Taking m_main_mutex moves the main worker into its critical section.
LEMMA MainLocksMainStep == ASSUME IInv, MainLocksMain PROVE IInv'
<1> USE DEF IInv, MainLocksMain, Main, generator, memory, logicMaps, mainMaps,
        logicLoop, mainLoop, history
<1>1. TypeOK'
  BY MaxRequestsAssumption, SMTT(30) DEF TypeOK, Coroutines, None
<1>2. MutexOK' /\ LoopOK' /\ IndexOK' /\ DisjointOK' /\ HolderOK' /\ PoolOK' /\ HistoryOK'
  BY DEF MutexOK, LoopOK, IndexOK, DisjointOK, HolderOK, PoolOK, HistoryOK,
         Filling, Pending, Published, Carries, Waiting
<1>3. QED
  BY <1>1, <1>2

\* The posted requests move to m_main_handles; what is swapped back is empty.
LEMMA SwapMainStep == ASSUME IInv, SwapMain PROVE IInv'
<1> USE DEF IInv, SwapMain, Main, generator, memory, logicMaps, logicLoop, history
<1>1. TypeOK'
  BY MaxRequestsAssumption, SMTT(30) DEF TypeOK, Coroutines, None
<1>2. DisjointOK'
  BY DEF LoopOK, DisjointOK, Pending, Published
<1>3. HolderOK'
  BY DEF LoopOK, HolderOK, Carries
<1>4. PoolOK'
  BY DEF LoopOK, PoolOK, Pending, Published, Filling
<1>5. HistoryOK'
  BY DEF LoopOK, HistoryOK, Waiting, Pending, Published
<1>6. MutexOK' /\ LoopOK' /\ IndexOK'
  BY DEF MutexOK, LoopOK, IndexOK, Filling
<1>7. QED
  BY <1>1, <1>2, <1>3, <1>4, <1>5, <1>6

\* The handle in the record is that of the request, which was not resumed before.
LEMMA ResumeStep == ASSUME IInv, Resume PROVE IInv'
<1> USE DEF IInv, Resume, Main, generator, memory, mutexes, logicMaps, mainMaps,
        logicLoop
<1>1. TypeOK'
  BY SMTT(30), MaxRequestsAssumption DEF TypeOK, LoopOK, DisjointOK, HolderOK, Coroutines,
         None, Pending, Published, Carries
<1>2. HistoryOK'
  BY DEF TypeOK, LoopOK, DisjointOK, HolderOK, HistoryOK, Coroutines, None,
         Pending, Published, Carries, Waiting
<1>3. MutexOK' /\ LoopOK' /\ IndexOK' /\ DisjointOK' /\ HolderOK' /\ PoolOK'
  BY DEF MutexOK, LoopOK, IndexOK, DisjointOK, HolderOK, PoolOK, Filling, Pending,
         Published, Carries
<1>4. QED
  BY <1>1, <1>2, <1>3

\* The record enters the pool as its request leaves the queues.
LEMMA ReleaseStep == ASSUME IInv, Release PROVE IInv'
<1> USE DEF IInv, Release, Main, generator, mutexes, logicMaps, mainMaps,
        logicLoop, history
<1>1. TypeOK'
  BY SMTT(60), MaxRequestsAssumption DEF TypeOK, LoopOK, Coroutines, None
<1>2. PoolOK'
  BY SMTT(30) DEF TypeOK, LoopOK, DisjointOK, HolderOK, PoolOK, Coroutines, None, Pending,
         Published, Carries, Filling
<1>3. HistoryOK'
  BY DEF TypeOK, LoopOK, DisjointOK, HistoryOK, Coroutines, None, Pending,
         Published, Waiting
<1>4. MutexOK' /\ LoopOK' /\ IndexOK' /\ DisjointOK' /\ HolderOK'
  BY DEF MutexOK, LoopOK, IndexOK, DisjointOK, HolderOK, Filling, Pending,
         Published, Carries
<1>5. QED
  BY <1>1, <1>2, <1>3, <1>4

\* clear() drops only what has been resumed and released.
LEMMA ClearMainStep == ASSUME IInv, ClearMain PROVE IInv'
<1> USE DEF IInv, ClearMain, Main, EmptyMap, generator, memory, mutexes,
        logicMaps, logicLoop, mainLoop, history
<1>1. TypeOK'
  BY MaxRequestsAssumption, SMTT(30) DEF TypeOK, Coroutines, None
<1>2. MutexOK' /\ LoopOK' /\ IndexOK' /\ DisjointOK' /\ HolderOK' /\ PoolOK' /\ HistoryOK'
  BY DEF MutexOK, LoopOK, IndexOK, DisjointOK, HolderOK, PoolOK, HistoryOK,
         Filling, Pending, Published, Carries, Waiting
<1>3. QED
  BY <1>1, <1>2

\* What .empty() says is remembered by LoopOK until the swap.
LEMMA FindPublishedStep == ASSUME IInv, FindPublished PROVE IInv'
<1> USE DEF IInv, FindPublished, Logic, generator, memory, mutexes, logicMaps,
        mainMaps, logicLoop, mainLoop, history
<1>1. TypeOK'
  BY SMTT(30), MaxRequestsAssumption DEF TypeOK, Coroutines, None
<1>2. MutexOK' /\ LoopOK' /\ IndexOK' /\ DisjointOK' /\ HolderOK' /\ PoolOK' /\ HistoryOK'
  BY DEF MutexOK, LoopOK, IndexOK, DisjointOK, HolderOK, PoolOK, HistoryOK,
         Filling, Pending, Published, Carries, Waiting
<1>3. QED
  BY <1>1, <1>2

\* Taking m_logic_mutex moves the logic worker into its critical section.
LEMMA LogicLocksLogicStep == ASSUME IInv, LogicLocksLogic PROVE IInv'
<1> USE DEF IInv, LogicLocksLogic, Logic, generator, memory, logicMaps, mainMaps,
        logicLoop, mainLoop, history
<1>1. TypeOK'
  BY MaxRequestsAssumption, SMTT(30) DEF TypeOK, Coroutines, None
<1>2. MutexOK' /\ LoopOK' /\ IndexOK' /\ DisjointOK' /\ HolderOK' /\ PoolOK' /\ HistoryOK'
  BY DEF MutexOK, LoopOK, IndexOK, DisjointOK, HolderOK, PoolOK, HistoryOK,
         Filling, Pending, Published, Carries, Waiting
<1>3. QED
  BY <1>1, <1>2

\* The published requests move to m_logic_handles; what is swapped back is empty.
LEMMA SwapLogicStep == ASSUME IInv, SwapLogic PROVE IInv'
<1> USE DEF IInv, SwapLogic, Logic, generator, memory, mainMaps, mainLoop, history
<1>1. TypeOK'
  BY MaxRequestsAssumption, SMTT(30) DEF TypeOK, Coroutines, None
<1>2. DisjointOK'
  BY DEF LoopOK, DisjointOK, Pending, Published
<1>3. HolderOK'
  BY DEF LoopOK, HolderOK, Carries
<1>4. PoolOK'
  BY DEF LoopOK, PoolOK, Pending, Published, Filling
<1>5. HistoryOK'
  BY DEF LoopOK, HistoryOK, Waiting, Pending, Published
<1>6. MutexOK' /\ LoopOK' /\ IndexOK'
  BY DEF MutexOK, LoopOK, IndexOK, Filling
<1>7. QED
  BY <1>1, <1>2, <1>3, <1>4, <1>5, <1>6

\* The function in the record is that of the request, which has not run before.
LEMMA RunFunctionStep == ASSUME IInv, RunFunction PROVE IInv'
<1> USE DEF IInv, RunFunction, Logic, generator, memory, mutexes, logicMaps,
        mainMaps, mainLoop
<1>1. TypeOK'
  <2>1. PICK k \in ltodo :
          /\ lkey' = k
          /\ ran' = [ran EXCEPT ![rec[m_logic_handles[k]].m_async_func] = @ + 1]
    OBVIOUS
  <2>2. k \in Nat
    BY DEF TypeOK
  <2>3. ran' \in [Coroutines -> Nat]
    BY <2>1, Increment DEF TypeOK
  <2>4. QED
    BY <2>1, <2>2, <2>3, SMTT(30) DEF TypeOK
<1>2. HistoryOK'
  BY DEF TypeOK, LoopOK, DisjointOK, HolderOK, HistoryOK, Coroutines, None,
         Pending, Published, Carries, Waiting
<1>3. MutexOK' /\ LoopOK' /\ IndexOK' /\ DisjointOK' /\ HolderOK' /\ PoolOK'
  BY DEF MutexOK, LoopOK, IndexOK, DisjointOK, HolderOK, PoolOK, Filling, Pending,
         Published, Carries
<1>4. QED
  BY <1>1, <1>2, <1>3

\* Taking m_main_mutex moves the logic worker into its critical section.
LEMMA LogicLocksMainStep == ASSUME IInv, LogicLocksMain PROVE IInv'
<1> USE DEF IInv, LogicLocksMain, Logic, generator, memory, logicMaps, mainMaps,
        logicLoop, mainLoop, history
<1>1. TypeOK'
  BY MaxRequestsAssumption, SMTT(30) DEF TypeOK, Coroutines, None
<1>2. MutexOK' /\ LoopOK' /\ IndexOK' /\ DisjointOK' /\ HolderOK' /\ PoolOK' /\ HistoryOK'
  BY DEF MutexOK, LoopOK, IndexOK, DisjointOK, HolderOK, PoolOK, HistoryOK,
         Filling, Pending, Published, Carries, Waiting
<1>3. QED
  BY <1>1, <1>2

\* The request moves to m_main_cache_handles, where its key is not taken.
LEMMA PostStep == ASSUME IInv, Post PROVE IInv'
<1> USE DEF IInv, Post, Logic, generator, memory, logicMaps, mainLoop, history
<1>1. TypeOK'
  <2>1. lkey \in Nat /\ m_logic_handles[lkey] \in Records
    BY DEF TypeOK, LoopOK
  <2>2. /\ m_main_cache_handles' \in [DOMAIN m_main_cache_handles' -> Records]
        /\ DOMAIN m_main_cache_handles' \subseteq Nat
    BY <2>1, EmplaceType DEF TypeOK
  <2>3. QED
    BY <2>2 DEF TypeOK
<1>2. DisjointOK'
  BY DEF Emplace, LoopOK, DisjointOK, Pending, Published
<1>3. HolderOK'
  BY DEF Emplace, LoopOK, HolderOK, Carries
<1>4. PoolOK'
  BY DEF Emplace, LoopOK, PoolOK, Pending, Published, Filling
<1>5. HistoryOK'
  BY DEF Emplace, LoopOK, HistoryOK, Waiting, Pending, Published
<1>6. MutexOK' /\ LoopOK' /\ IndexOK'
  BY DEF Emplace, MutexOK, LoopOK, IndexOK, Filling
<1>7. QED
  BY <1>1, <1>2, <1>3, <1>4, <1>5, <1>6

\* clear() drops only what has been posted.
LEMMA ClearLogicStep == ASSUME IInv, ClearLogic PROVE IInv'
<1> USE DEF IInv, ClearLogic, Logic, EmptyMap, generator, memory, mutexes,
        mainMaps, logicLoop, mainLoop, history
<1>1. TypeOK'
  BY SMTT(30), MaxRequestsAssumption DEF TypeOK, Coroutines, None
<1>2. MutexOK' /\ LoopOK' /\ IndexOK' /\ DisjointOK' /\ HolderOK' /\ PoolOK' /\ HistoryOK'
  BY DEF MutexOK, LoopOK, IndexOK, DisjointOK, HolderOK, PoolOK, HistoryOK,
         Filling, Pending, Published, Carries, Waiting
<1>3. QED
  BY <1>1, <1>2

\* A crash stops everything where it is: nothing the invariant speaks of changes.
LEMMA CrashStep == ASSUME IInv, Crash PROVE IInv'
<1> USE DEF IInv, Crash, generator, memory, mutexes, logicMaps, mainMaps,
        logicLoop, mainLoop, history
<1>1. TypeOK'
  <2>1. running' \in BOOLEAN
    BY DEF Crash
  <2>2. QED
    BY <2>1 DEF TypeOK
<1>2. MutexOK' /\ LoopOK' /\ IndexOK' /\ DisjointOK' /\ HolderOK' /\ PoolOK' /\ HistoryOK'
  BY DEF MutexOK, LoopOK, IndexOK, DisjointOK, HolderOK, PoolOK, HistoryOK,
         Filling, Pending, Published, Carries, Waiting
<1>3. QED
  BY <1>1, <1>2

\* Without a frame the call of update() comes to nothing, and its index is not used.
LEMMA FrameNotAllocatedStep == ASSUME IInv, FrameNotAllocated PROVE IInv'
<1> USE DEF IInv, FrameNotAllocated, Main, memory, mutexes, logicMaps, mainMaps,
        logicLoop, mainLoop, history
<1>1. TypeOK'
  <2>1. calls' \in 0 .. MaxRequests
    BY MaxRequestsAssumption DEF TypeOK
  <2>2. QED
    BY <2>1 DEF TypeOK
<1>2. MutexOK' /\ LoopOK' /\ IndexOK' /\ DisjointOK' /\ HolderOK' /\ PoolOK' /\ HistoryOK'
  BY DEF MutexOK, LoopOK, IndexOK, DisjointOK, HolderOK, PoolOK, HistoryOK,
         Filling, Pending, Published, Carries, Waiting
<1>3. QED
  BY <1>1, <1>2

\* When the publication fails no queue gets the request, and the next one has its key.
LEMMA PublishFailsStep == ASSUME IInv, PublishFails PROVE IInv'
<1> USE DEF IInv, PublishFails, Main, memory, logicMaps, mainMaps, logicLoop, mainLoop
<1>1. calls \in 1 .. MaxRequests /\ calls = m_global_index + 1
  BY MaxRequestsAssumption DEF TypeOK, IndexOK, Filling
<1>2. TypeOK'
  <2>1. calls' \in 0 .. MaxRequests /\ lost' \subseteq Records
    BY <1>1, MaxRequestsAssumption DEF TypeOK, IndexOK, Filling
  <2>2. QED
    BY <2>1 DEF TypeOK
<1>3. Published' = Published /\ Pending' = Pending
  BY <1>1 DEF Published, Pending
<1>4. IndexOK'
  BY <1>1, MaxRequestsAssumption DEF TypeOK, IndexOK, Filling
<1>5. MutexOK' /\ LoopOK' /\ DisjointOK' /\ HolderOK' /\ PoolOK' /\ HistoryOK'
  BY <1>3 DEF MutexOK, LoopOK, DisjointOK, HolderOK, PoolOK, HistoryOK, Filling,
     Carries, Waiting
<1>6. QED
  BY <1>2, <1>4, <1>5
-----------------------------------------------------------------------------
(* The invariant and what follows from it. *)

\* Before the first call of update() every queue is empty.
LEMMA InitIInv == ASSUME Init PROVE IInv
<1> USE DEF Init, EmptyMap, Coroutines, None
<1>1. Pending = {} /\ Published = 0
  BY DEF Pending, Published
<1>2. TypeOK
  BY MaxRequestsAssumption DEF TypeOK
<1>3. MutexOK /\ LoopOK /\ IndexOK
  BY MaxRequestsAssumption DEF MutexOK, LoopOK, IndexOK, Filling
<1>4. DisjointOK /\ HolderOK /\ PoolOK
  BY <1>1 DEF DisjointOK, HolderOK, PoolOK
<1>5. HistoryOK
  BY <1>1 DEF HistoryOK
<1>6. QED
  BY <1>2, <1>3, <1>4, <1>5 DEF IInv

\* A step of another component leaves the invariant alone.
LEMMA StutterIInv == ASSUME IInv, UNCHANGED vars PROVE IInv'
BY DEF IInv, vars, generator, memory, mutexes, logicMaps, mainMaps, logicLoop,
       mainLoop, history, TypeOK, MutexOK, LoopOK, IndexOK, Filling, DisjointOK,
       HolderOK, Carries, PoolOK, HistoryOK, Waiting, Pending, Published

\* Every step of either worker preserves the invariant.
LEMMA NextIInv == ASSUME IInv, [Next]_vars PROVE IInv'
<1>1. CASE TimerExpires
  BY <1>1, TimerExpiresStep
<1>2. CASE MainNext
  BY <1>2, StartCoroutineStep, NothingToStartStep, StoreHandleStep, MainLocksLogicStep,
     PublishStep, BumpIndexStep, FindNothingPostedStep, FindPostedStep,
     MainLocksMainStep, SwapMainStep, ResumeStep, ReleaseStep, ClearMainStep
     DEF MainNext
<1>3. CASE LogicNext
  BY <1>3, FindPublishedStep, LogicLocksLogicStep, SwapLogicStep, RunFunctionStep,
     LogicLocksMainStep, PostStep, ClearLogicStep
     DEF LogicNext
<1>4. CASE MainFails \/ LogicFails
  BY <1>4, CrashStep, FrameNotAllocatedStep, PublishFailsStep
     DEF MainFails, LogicFails, RecordNotAllocated, ReleaseThrows, FunctionThrows,
         PostThrows
<1>5. CASE UNCHANGED vars
  BY <1>5, StutterIInv
<1>6. QED
  BY <1>1, <1>2, <1>3, <1>4, <1>5 DEF Next

\* The invariant holds in every reachable state.
THEOREM InductiveInvariant == Spec => []IInv
<1>1. Init => IInv
  BY InitIInv
<1>2. IInv /\ [Next]_vars => IInv'
  BY NextIInv
<1>3. QED
  BY <1>1, <1>2, PTL DEF Spec

\* The variables keep their types, for any number of records and requests.
THEOREM TypeCorrect == Spec => []TypeOK
<1>1. IInv => TypeOK
  BY DEF IInv
<1>2. QED
  BY <1>1, InductiveInvariant, PTL

\* No coroutine is resumed twice or before its function has run once: the
\* history of a coroutine is a function of the place of its request.
THEOREM ResumedOnce == Spec => []ResumedOnceAfterItsFunction
<1>1. IInv => ResumedOnceAfterItsFunction
  BY DEF IInv, HistoryOK, ResumedOnceAfterItsFunction, Waiting, Pending, LoopOK, DisjointOK
<1>2. QED
  BY <1>1, InductiveInvariant, PTL

\* No published request is dropped by emplace, left behind by a swap or a
\* clear(), or put in two queues.
THEOREM NothingIsLost == Spec => []NoRequestLost
<1>1. ASSUME IInv PROVE NoRequestLost
  <2>1. ASSUME NEW c \in 0 .. Published - 1
        PROVE  resumed[c] > 0 \/ \E k \in Pending : rec[Holder(k)].m_handle = c
    <3>1. c \in Coroutines /\ c < Published
      BY <1>1, MaxRequestsAssumption DEF IInv, TypeOK, Coroutines, Published
    <3>2. CASE c \in Pending
      BY <1>1, <3>2 DEF IInv, HolderOK, Carries, Pending, Holder
    <3>3. CASE c \notin Pending
      BY <1>1, <3>1, <3>3 DEF IInv, HistoryOK
    <3>4. QED
      BY <3>2, <3>3
  <2>2. QED
    BY <1>1, <2>1 DEF IInv, DisjointOK, NoRequestLost
<1>2. QED
  BY <1>1, InductiveInvariant, PTL

\* Record r is in one of the four places of a pending request.
Held(r) ==
  \/ \E k \in DOMAIN m_logic_cache_handles : m_logic_cache_handles[k] = r
  \/ \E k \in ltodo : m_logic_handles[k] = r
  \/ \E k \in DOMAIN m_main_cache_handles : m_main_cache_handles[k] = r
  \/ \E k \in mtodo : m_main_handles[k] = r

InPool(r) == \E i \in DOMAIN m_result_pool : m_result_pool[i] = r

\* Somebody has record r.
Placed(r) == InPool(r) \/ (Filling /\ r = data) \/ Held(r)

\* The records that nobody has are the lost ones.
PlacedOK ==
  /\ lost \subseteq allocated
  /\ \A r \in allocated : Placed(r) <=> r \notin lost

\* The records of the pool, the one being filled and those of the pending requests
\* are different: the index in the record tells.
LEMMA ApartFromEachOther ==
  ASSUME IInv
  PROVE  /\ \A k \in Pending : \A i \in DOMAIN m_result_pool : Holder(k) # m_result_pool[i]
         /\ \A j, k \in Pending : Holder(j) = Holder(k) => j = k
         /\ Filling => /\ \A k \in Pending : Holder(k) # data
                       /\ \A i \in DOMAIN m_result_pool : m_result_pool[i] # data
<1>1. \A k \in Pending : rec[Holder(k)].m_index = k /\ k < Published
  BY DEF IInv, HolderOK, DisjointOK, Carries, Pending, Holder
<1>2. \A k \in Pending : \A i \in DOMAIN m_result_pool : Holder(k) # m_result_pool[i]
  BY <1>1 DEF IInv, PoolOK
<1>3. \A j, k \in Pending : Holder(j) = Holder(k) => j = k
  BY <1>1
<1>4. ASSUME Filling
      PROVE  /\ \A k \in Pending : Holder(k) # data
             /\ \A i \in DOMAIN m_result_pool : m_result_pool[i] # data
  <2>1. rec[data].m_index = calls - 1 /\ Published = calls - 1
    BY <1>4 DEF IInv, IndexOK, Filling, Published
  <2>2. QED
    BY <1>1, <1>4, <2>1 DEF IInv, PoolOK, TypeOK
<1>5. QED
  BY <1>2, <1>3, <1>4

\* Whoever holds a record for a pending request holds it under a key of Pending.
LEMMA HeldIsPending ==
  ASSUME IInv
  PROVE  \A r : Held(r) <=> \E k \in Pending : Holder(k) = r
BY DEF IInv, DisjointOK, Held, Pending, Holder

\* A lost record is in none of these places.
LEMMA OneOwner == ASSUME IInv, PlacedOK PROVE RecordHasOneOwner
<1>1. \A r \in lost : ~ InPool(r) /\ ~ (Filling /\ r = data) /\ ~ Held(r)
  BY DEF PlacedOK, Placed
<1>2. /\ \A i \in DOMAIN m_result_pool : m_result_pool[i] \notin lost
      /\ \A k \in Pending : Holder(k) \notin lost
      /\ Filling => data \notin lost
  BY <1>1, HeldIsPending DEF InPool
<1>3. QED
  BY <1>2, ApartFromEachOther DEF IInv, PoolOK, RecordHasOneOwner, Filling

\* The record taken is new or from the pool; the others stay where they are.
LEMMA StartPlaces == ASSUME IInv, PlacedOK, StartCoroutine PROVE PlacedOK'
<1>1. PICK q \in Records : Alloc(q) /\ data' = q
  BY DEF StartCoroutine
<1>2. Filling' /\ ~ Filling /\ lost' = lost
  BY DEF StartCoroutine, Main, Filling, history
<1>3. m_result_pool \in Seq(Records)
  BY DEF IInv, TypeOK
<1>4. /\ q \notin lost /\ allocated' = allocated \cup {q}
      /\ \A r : InPool(r) <=> (InPool(r)' \/ (InPool(q) /\ r = q))
  <2>1. CASE m_result_pool = << >>
    <3>1. q \notin allocated /\ allocated' = allocated \cup {q}
          /\ m_result_pool' = m_result_pool
      BY <1>1, <2>1 DEF Alloc
    <3>2. \A r : ~ InPool(r) /\ ~ InPool(r)'
      BY <2>1, <3>1 DEF InPool
    <3>3. QED
      BY <3>1, <3>2 DEF PlacedOK
  <2>2. CASE m_result_pool # << >>
    <3>1. /\ q = m_result_pool[1] /\ m_result_pool' = Tail(m_result_pool)
          /\ 1 \in DOMAIN m_result_pool /\ allocated' = allocated
      BY <1>1, <1>3, <2>2, HeadTail DEF Alloc
    <3>2. InPool(q) /\ q \in allocated
      BY <3>1 DEF InPool, IInv, PoolOK
    <3>3. /\ DOMAIN m_result_pool = 1 .. Len(m_result_pool) /\ Len(m_result_pool) \in Nat
          /\ DOMAIN Tail(m_result_pool) = 1 .. Len(m_result_pool) - 1
          /\ \A j \in 1 .. Len(m_result_pool) - 1 :
               Tail(m_result_pool)[j] = m_result_pool[j + 1]
      <4>1. /\ Len(Tail(m_result_pool)) = Len(m_result_pool) - 1
            /\ Tail(m_result_pool) \in Seq(Records)
            /\ \A j \in 1 .. Len(Tail(m_result_pool)) :
                 Tail(m_result_pool)[j] = m_result_pool[j + 1]
        BY <1>3, <2>2, HeadTailProperties
      <4>2. DOMAIN Tail(m_result_pool) = 1 .. Len(Tail(m_result_pool))
        BY <4>1
      <4>3. QED
        BY <1>3, <4>1, <4>2
    <3>4. ASSUME NEW r, InPool(r), r # q PROVE InPool(r)'
      <4>1. PICK i \in DOMAIN m_result_pool : m_result_pool[i] = r
        BY <3>4 DEF InPool
      <4>2. i - 1 \in DOMAIN Tail(m_result_pool) /\ Tail(m_result_pool)[i - 1] = r
        BY <3>1, <3>3, <3>4, <4>1
      <4>3. QED
        BY <3>1, <4>2 DEF InPool
    <3>5. ASSUME NEW r, InPool(r)' PROVE InPool(r)
      <4>1. PICK j \in DOMAIN Tail(m_result_pool) : Tail(m_result_pool)[j] = r
        BY <3>1, <3>5 DEF InPool
      <4>2. j + 1 \in DOMAIN m_result_pool /\ m_result_pool[j + 1] = r
        BY <3>3, <4>1
      <4>3. QED
        BY <4>2 DEF InPool
    <3>6. q \notin lost
      BY <3>2 DEF PlacedOK, Placed
    <3>7. allocated' = allocated \cup {q}
      BY <3>1, <3>2
    <3>8. QED
      BY <3>2, <3>4, <3>5, <3>6, <3>7
  <2>3. QED
    BY <2>1, <2>2
<1>5. \A r : Held(r)' <=> Held(r)
  BY DEF StartCoroutine, Held, logicMaps, mainMaps, logicLoop, mainLoop
<1>6. q \in lost \/ \A r : Placed(r)' <=> (Placed(r) \/ r = q)
  BY <1>1, <1>2, <1>4, <1>5 DEF Placed
<1>7. QED
  BY <1>2, <1>4, <1>6 DEF PlacedOK

\* The record of the coroutine that was resumed goes to the end of the pool.
LEMMA ReleasePlaces == ASSUME IInv, Release PROVE \A r : Placed(r)' <=> Placed(r)
<1>1. PICK q \in Records : q = m_main_handles[mkey]
  BY DEF IInv, TypeOK, LoopOK, Release, Main
<1>2. /\ m_result_pool \in Seq(Records) /\ ~ Filling /\ ~ Filling'
      /\ m_result_pool' = Append(m_result_pool, q)
  BY <1>1 DEF IInv, TypeOK, Release, Main, Filling
<1>3. \A r : InPool(r)' <=> (InPool(r) \/ r = q)
  <2>1. /\ m_result_pool' \in Seq(Records) /\ Len(m_result_pool') = Len(m_result_pool) + 1
        /\ \A i \in 1 .. Len(m_result_pool) : m_result_pool'[i] = m_result_pool[i]
        /\ m_result_pool'[Len(m_result_pool) + 1] = q
    BY <1>2, AppendProperties
  <2>2. /\ Len(m_result_pool) \in Nat /\ DOMAIN m_result_pool = 1 .. Len(m_result_pool)
        /\ DOMAIN m_result_pool' = 1 .. Len(m_result_pool) + 1
    BY <1>2, <2>1
  <2>3. QED
    BY <2>1, <2>2 DEF InPool
<1>4. mkey \in mtodo /\ Held(q)
  BY <1>1 DEF IInv, LoopOK, Release, Main, Held
<1>5. \A r : Held(r) <=> (Held(r)' \/ r = q)
  BY <1>1, <1>4 DEF Release, Held, logicMaps, mainMaps, logicLoop
<1>6. QED
  BY <1>2, <1>3, <1>5 DEF Placed

\* The record being filled becomes that of the request published.
LEMMA PublishPlaces == ASSUME IInv, Publish PROVE \A r : Placed(r)' <=> Placed(r)
<1>1. /\ rec[data].m_index \notin DOMAIN m_logic_cache_handles
      /\ m_logic_cache_handles' =
           Emplace(m_logic_cache_handles, rec[data].m_index, data)
      /\ Filling /\ ~ Filling'
  BY DEF IInv, TypeOK, IndexOK, DisjointOK, Publish, Main, Filling, Pending, Published
<1>2. /\ UNCHANGED <<m_result_pool, m_logic_handles, ltodo, mtodo>>
      /\ UNCHANGED mainMaps
  BY DEF Publish, memory, logicLoop, mainLoop
<1>3. /\ DOMAIN m_logic_cache_handles' =
           DOMAIN m_logic_cache_handles \cup {rec[data].m_index}
      /\ m_logic_cache_handles'[rec[data].m_index] = data
      /\ \A j \in DOMAIN m_logic_cache_handles :
           m_logic_cache_handles'[j] = m_logic_cache_handles[j]
  BY <1>1 DEF Emplace
<1>4. ASSUME NEW r
      PROVE  (\E k \in DOMAIN m_logic_cache_handles' : m_logic_cache_handles'[k] = r)
               <=> (r = data \/ \E k \in DOMAIN m_logic_cache_handles :
                                   m_logic_cache_handles[k] = r)
  BY <1>3
<1>5. \A r : Held(r)' <=> (r = data \/ Held(r))
  BY <1>2, <1>4 DEF Held, mainMaps
<1>6. QED
  BY <1>1, <1>2, <1>5 DEF Placed, InPool

\* The record of the request posted moves from one queue to the other.
LEMMA PostPlaces == ASSUME IInv, Post PROVE \A r : Placed(r)' <=> Placed(r)
<1>1. /\ lkey \in ltodo /\ lkey \notin DOMAIN m_main_cache_handles
      /\ ltodo' = ltodo \ {lkey}
      /\ m_main_cache_handles' =
           Emplace(m_main_cache_handles, lkey, m_logic_handles[lkey])
  BY DEF IInv, LoopOK, DisjointOK, Post, Logic
<1>2. /\ UNCHANGED <<m_result_pool, data, mpc, mtodo, m_main_handles>>
      /\ UNCHANGED logicMaps
  BY DEF Post, Logic, generator, memory, mainLoop
<1>3. /\ DOMAIN m_main_cache_handles' = DOMAIN m_main_cache_handles \cup {lkey}
      /\ m_main_cache_handles'[lkey] = m_logic_handles[lkey]
      /\ \A j \in DOMAIN m_main_cache_handles :
           m_main_cache_handles'[j] = m_main_cache_handles[j]
  BY <1>1 DEF Emplace
<1>4. ASSUME NEW r
      PROVE  ((\E k \in DOMAIN m_main_cache_handles' : m_main_cache_handles'[k] = r)
                \/ \E k \in ltodo' : m_logic_handles[k] = r)
               <=> ((\E k \in DOMAIN m_main_cache_handles : m_main_cache_handles[k] = r)
                      \/ \E k \in ltodo : m_logic_handles[k] = r)
  BY <1>1, <1>3
<1>5. \A r : Held(r)' <=> Held(r)
  BY <1>2, <1>4 DEF Held, logicMaps
<1>6. QED
  BY <1>2, <1>5 DEF Placed, InPool, Filling

\* A failing publication leaves the record being filled nowhere.
LEMMA PublishFailsPlaces == ASSUME IInv, PlacedOK, PublishFails PROVE PlacedOK'
<1>1. /\ Filling /\ ~ Filling' /\ lost' = lost \cup {data} /\ allocated' = allocated
      /\ UNCHANGED <<m_result_pool, logicMaps, mainMaps, ltodo, mtodo>>
  BY DEF PublishFails, Main, Filling, memory, logicLoop, mainLoop
<1>2. data \in allocated /\ ~ InPool(data) /\ ~ Held(data)
  BY <1>1, ApartFromEachOther, HeldIsPending DEF IInv, IndexOK, InPool
<1>3. \A r : Placed(r)' <=> (Placed(r) /\ r # data)
  BY <1>1, <1>2 DEF Placed, InPool, Held, logicMaps, mainMaps
<1>4. QED
  BY <1>1, <1>2, <1>3 DEF PlacedOK

\* The other steps hand a record on from one place to the next.
LEMMA HandedOn == ASSUME IInv, PlacedOK, [Next]_vars PROVE PlacedOK'
<1>1. CASE StartCoroutine
  BY <1>1, StartPlaces
<1>2. CASE PublishFails
  BY <1>2, PublishFailsPlaces
<1>3. ASSUME ~ StartCoroutine, ~ PublishFails
      PROVE  allocated' = allocated /\ lost' = lost
  BY <1>3 DEF Next, MainNext, LogicNext, MainFails, LogicFails, Crash, vars, memory,
     history, TimerExpires, NothingToStart, StoreHandle, MainLocksLogic, Publish,
     BumpIndex, FindNothingPosted, FindPosted, MainLocksMain, SwapMain, Resume, Release,
     ClearMain, FindPublished, LogicLocksLogic, SwapLogic, RunFunction, LogicLocksMain,
     Post, ClearLogic, RecordNotAllocated, FrameNotAllocated, ReleaseThrows,
     FunctionThrows, PostThrows
<1>4. ASSUME SwapMain PROVE \A r : Placed(r)' <=> Placed(r)
  <2>1. \A r : Held(r)' <=> Held(r)
    BY <1>4 DEF IInv, LoopOK, SwapMain, Main, Held, logicMaps, logicLoop
  <2>2. m_result_pool' = m_result_pool /\ ~ Filling /\ ~ Filling'
    BY <1>4 DEF SwapMain, Main, Filling, memory
  <2>3. QED
    BY <2>1, <2>2 DEF Placed, InPool
<1>5. ASSUME SwapLogic PROVE \A r : Placed(r)' <=> Placed(r)
  <2>1. \A r : Held(r)' <=> Held(r)
    BY <1>5 DEF IInv, LoopOK, SwapLogic, Logic, Held, mainMaps, mainLoop
  <2>2. m_result_pool' = m_result_pool /\ data' = data /\ Filling' = Filling
    BY <1>5 DEF SwapLogic, Logic, Filling, memory, generator
  <2>3. QED
    BY <2>1, <2>2 DEF Placed, InPool
<1>6. ASSUME ClearMain \/ ClearLogic PROVE \A r : Placed(r)' <=> Placed(r)
  <2>1. \A r : Held(r)' <=> Held(r)
    <3>1. CASE ClearMain
      BY <3>1 DEF ClearMain, Main, Held, logicMaps, logicLoop, mainLoop
    <3>2. CASE ClearLogic
      BY <3>2 DEF ClearLogic, Logic, Held, mainMaps, logicLoop, mainLoop
    <3>3. QED
      BY <1>6, <3>1, <3>2
  <2>2. m_result_pool' = m_result_pool /\ data' = data /\ Filling' = Filling
    BY <1>6 DEF ClearMain, ClearLogic, Main, Logic, Filling, memory, generator
  <2>3. QED
    BY <2>1, <2>2 DEF Placed, InPool
<1>7. ASSUME ~ (StartCoroutine \/ PublishFails \/ Publish \/ SwapMain \/ Release
                \/ SwapLogic \/ Post \/ ClearMain \/ ClearLogic)
      PROVE  \A r : Placed(r)' <=> Placed(r)
  <2>1. /\ UNCHANGED <<m_result_pool, data, logicMaps, mainMaps, mtodo, ltodo>>
        /\ Filling' = Filling
    BY <1>7 DEF Next, MainNext, LogicNext, MainFails, LogicFails, Crash, Main, Logic,
       Filling, vars, generator, memory, logicLoop, mainLoop, TimerExpires,
       NothingToStart, StoreHandle, MainLocksLogic, BumpIndex, FindNothingPosted,
       FindPosted, MainLocksMain, Resume, FindPublished, LogicLocksLogic, RunFunction,
       LogicLocksMain, RecordNotAllocated, FrameNotAllocated, ReleaseThrows,
       FunctionThrows, PostThrows
  <2>2. QED
    BY <2>1 DEF Placed, Held, InPool, logicMaps, mainMaps
<1>8. ASSUME ~ StartCoroutine, ~ PublishFails PROVE \A r : Placed(r)' <=> Placed(r)
  <2>1. CASE Release
    BY <2>1, ReleasePlaces
  <2>2. CASE Publish
    BY <2>2, PublishPlaces
  <2>3. CASE Post
    BY <2>3, PostPlaces
  <2>4. CASE SwapMain
    BY <1>4, <2>4
  <2>5. CASE SwapLogic
    BY <1>5, <2>5
  <2>6. CASE ClearMain \/ ClearLogic
    BY <1>6, <2>6
  <2>7. QED
    BY <1>7, <1>8, <2>1, <2>2, <2>3, <2>4, <2>5, <2>6
<1>9. QED
  BY <1>1, <1>2, <1>3, <1>8 DEF PlacedOK

\* Every record that is not lost is somewhere, and a lost one is nowhere, always.
LEMMA AlwaysPlaced == Spec => []PlacedOK
<1>1. Init => PlacedOK
  BY DEF Init, PlacedOK
<1>2. IInv /\ PlacedOK /\ [Next]_vars => PlacedOK'
  BY HandedOn
<1>3. QED
  BY <1>1, <1>2, InductiveInvariant, PTL DEF Spec

\* A record is never in two places at once, and a lost one is never used again.
THEOREM OneOwnerAlways == Spec => []RecordHasOneOwner
<1>1. IInv /\ PlacedOK => RecordHasOneOwner
  BY OneOwner
<1>2. QED
  BY <1>1, InductiveInvariant, AlwaysPlaced, PTL

\* Only a failing publication leaks a record: each other one that was ever allocated
\* is in the pool, being filled, or that of a pending request, whatever is served in
\* what order and whatever else fails.
THEOREM NothingLeaks == Spec => []NoRecordLeaks
<1>1. IInv /\ PlacedOK => NoRecordLeaks
  BY HeldIsPending DEF PlacedOK, Placed, InPool, Filling, NoRecordLeaks
<1>2. QED
  BY <1>1, InductiveInvariant, AlwaysPlaced, PTL

\* What a worker has seen without the mutex is still so when it has the mutex.
THEOREM UnlockedCheckIsSound == Spec => []UnlockedCheckHolds
<1>1. IInv => UnlockedCheckHolds
  BY DEF IInv, LoopOK, UnlockedCheckHolds
<1>2. QED
  BY <1>1, InductiveInvariant, PTL
-----------------------------------------------------------------------------
(* Steps: who writes to a record, and how the promise is kept. *)

\* A write to a record is to one that no pending request has: the fields are set
\* by startCoroutine and await_suspend, before the record is published.
LEMMA WritesArePrivate ==
  ASSUME IInv, [Next]_vars, NEW r \in Records, rec'[r] # rec[r]
  PROVE  \A k \in Pending : Holder(k) # r
<1>1. CASE StartCoroutine
  <2>1. r = data' /\ Alloc(r)
    BY <1>1 DEF StartCoroutine, IInv, TypeOK
  <2>2. (\E i \in DOMAIN m_result_pool : r = m_result_pool[i]) \/ r \notin allocated
    BY <2>1, HeadTail DEF Alloc, IInv, TypeOK
  <2>3. QED
    BY <2>2, ApartFromEachOther DEF IInv, HolderOK, Carries, Pending, Holder
<1>2. CASE StoreHandle
  <2>1. r = data /\ mpc = "suspend"
    BY <1>2 DEF StoreHandle, Main, IInv, TypeOK
  <2>2. QED
    BY <2>1, ApartFromEachOther DEF Filling
<1>3. rec' = rec \/ StartCoroutine \/ StoreHandle
  BY DEF Next, MainNext, LogicNext, vars, memory, TimerExpires, NothingToStart,
         MainLocksLogic, Publish, BumpIndex, FindNothingPosted, FindPosted,
         MainLocksMain, SwapMain, Resume, Release, ClearMain, FindPublished,
         LogicLocksLogic, SwapLogic, RunFunction, LogicLocksMain, Post, ClearLogic,
         MainFails, LogicFails, RecordNotAllocated, FrameNotAllocated, PublishFails,
         ReleaseThrows, FunctionThrows, PostThrows, Crash
<1>4. QED
  BY <1>1, <1>2, <1>3

\* The fields of a record are never written while a worker can reach it through
\* a queue, which is why they need no mutex.
THEOREM RecordsNeedNoMutex == Spec => NoWriteToPublishedRecord
<1>1. IInv /\ [Next]_vars =>
        [\A r \in Records : rec'[r] # rec[r] => \A k \in Pending : Holder(k) # r]_vars
  BY WritesArePrivate
<1>2. QED
  BY <1>1, InductiveInvariant, PTL DEF Spec, NoWriteToPublishedRecord

\* The abstract state: the status of every coroutine, and whether the program runs.
Statuses == [c \in Coroutines |-> Status(c)]

Abstract == <<Statuses, running>>

\* The status changes only when a request is published, when its function runs
\* and when its coroutine is resumed; only a crash stops the program.
LEMMA StatusUnchanged ==
  ASSUME IInv, [Next]_vars, ~ Publish, ~ RunFunction, ~ Resume, ~ Crash
  PROVE  Abstract' = Abstract
<1>1. ran' = ran /\ resumed' = resumed /\ running' = running
  BY DEF Next, MainNext, LogicNext, MainFails, LogicFails, Main, Logic, vars, history,
         TimerExpires, PublishFails, ReleaseThrows, PostThrows,
         StartCoroutine, NothingToStart, StoreHandle, MainLocksLogic, BumpIndex,
         FindNothingPosted, FindPosted, MainLocksMain, SwapMain, Release, ClearMain,
         FindPublished, LogicLocksLogic, SwapLogic, LogicLocksMain, Post, ClearLogic,
         RecordNotAllocated, FrameNotAllocated, FunctionThrows
<1>2. Published' = Published
  BY DEF Published, IInv, TypeOK, Main, Logic, generator, Next, MainNext, LogicNext,
         MainFails, LogicFails, PublishFails, ReleaseThrows, PostThrows, vars, TimerExpires, StartCoroutine, NothingToStart, StoreHandle,
         MainLocksLogic, BumpIndex, FindNothingPosted, FindPosted, MainLocksMain,
         SwapMain, Release, ClearMain, FindPublished, LogicLocksLogic, SwapLogic,
         LogicLocksMain, Post, ClearLogic, RecordNotAllocated, FrameNotAllocated,
         FunctionThrows
<1>3. QED
  BY <1>1, <1>2 DEF Abstract, Statuses, Status, Coroutines

\* A crash leaves every status as it is.
LEMMA CrashFails ==
  ASSUME IInv, [Next]_vars, Crash
  PROVE  Promise!Fail \/ Abstract' = Abstract
<1>1. running \in BOOLEAN /\ running' = FALSE
  BY DEF Crash, IInv, TypeOK
<1>2. ran' = ran /\ resumed' = resumed /\ Published' = Published
  BY DEF Crash, history, Published, generator
<1>3. Statuses' = Statuses
  BY <1>2 DEF Statuses, Status, Coroutines
<1>4. QED
  BY <1>1, <1>3 DEF Promise!Fail, Abstract, Statuses

\* Publishing submits the request of the coroutine that update() started last.
LEMMA PublishSubmits ==
  ASSUME IInv, Publish
  PROVE  \E c \in Coroutines : Promise!Submit(c)
<1>1. PICK c \in Coroutines : Published = c /\ Published' = c + 1
  BY MaxRequestsAssumption DEF IInv, TypeOK, IndexOK, Filling, Coroutines, Publish,
     Main, Published, generator
<1>2. ran' = ran /\ resumed' = resumed /\ running /\ running' = running
  BY DEF Publish, Main, history
<1>3. ran[c] = 0 /\ resumed[c] = 0
  BY <1>1 DEF IInv, HistoryOK, Coroutines
<1>4. Status(c) = "idle" /\ Status(c)' = "submitted"
  BY <1>1, <1>2, <1>3 DEF Status, Coroutines
<1>5. \A d \in Coroutines : d # c => Status(d)' = Status(d)
  BY <1>1, <1>2 DEF Status, Coroutines
<1>6. Promise!Submit(c)
  BY <1>2, <1>4, <1>5 DEF Promise!Submit, Promise!Advance
<1>7. QED
  BY <1>6

\* The function that runs is that of a submitted request.
LEMMA RunExecutes ==
  ASSUME IInv, RunFunction
  PROVE  \E c \in Coroutines : Promise!Execute(c)
<1>1. PICK k \in ltodo :
        ran' = [ran EXCEPT ![rec[m_logic_handles[k]].m_async_func] = @ + 1]
  BY DEF RunFunction
<1>2. k \in Coroutines /\ k < Published /\ rec[m_logic_handles[k]].m_async_func = k
  BY MaxRequestsAssumption DEF IInv, TypeOK, HolderOK, DisjointOK, Carries, Pending,
     Published, Coroutines
<1>3. Published' = Published /\ resumed' = resumed /\ running /\ running' = running
  BY DEF RunFunction, Logic, Published, generator
<1>4. ran[k] = 0 /\ ran'[k] = 1 /\ \A d \in Coroutines : d # k => ran'[d] = ran[d]
  BY <1>1, <1>2 DEF IInv, TypeOK, HistoryOK, Waiting, RunFunction, Logic
<1>5. resumed[k] = 0
  BY <1>2 DEF IInv, HistoryOK, DisjointOK, LoopOK, Pending
<1>6. Status(k) = "submitted" /\ Status(k)' = "executed"
  BY <1>2, <1>3, <1>4, <1>5 DEF Status
<1>7. \A d \in Coroutines : d # k => Status(d)' = Status(d)
  BY <1>3, <1>4 DEF Status
<1>8. Promise!Execute(k)
  BY <1>2, <1>3, <1>6, <1>7 DEF Promise!Execute, Promise!Advance
<1>9. QED
  BY <1>2, <1>8

\* The coroutine that is resumed has had its function run.
LEMMA ResumeResumes ==
  ASSUME IInv, Resume
  PROVE  \E c \in Coroutines : Promise!Resume(c)
<1>1. PICK k \in mtodo :
        resumed' = [resumed EXCEPT ![rec[m_main_handles[k]].m_handle] = @ + 1]
  BY DEF Resume
<1>2. k \in Coroutines /\ k < Published /\ rec[m_main_handles[k]].m_handle = k
  BY MaxRequestsAssumption DEF IInv, TypeOK, HolderOK, DisjointOK, Carries, Pending,
     Published, Coroutines
<1>3. ran' = ran
  BY DEF Resume
<1>4. resumed[k] = 0 /\ resumed'[k] = 1
      /\ \A d \in Coroutines : d # k => resumed'[d] = resumed[d]
  BY <1>1, <1>2 DEF IInv, TypeOK, HistoryOK, Pending, Resume, Main
<1>5. ran[k] = 1
  BY <1>2 DEF IInv, HistoryOK, DisjointOK, Waiting, Pending
<1>6. Published' = Published /\ running /\ running' = running
  BY DEF Resume, Main, Published, generator
<1>7. Status(k) = "executed" /\ Status(k)' = "resumed"
  BY <1>2, <1>3, <1>4, <1>5 DEF Status
<1>8. \A d \in Coroutines : d # k => Status(d)' = Status(d)
  BY <1>3, <1>4, <1>6 DEF Status
<1>9. Promise!Resume(k)
  BY <1>2, <1>6, <1>7, <1>8 DEF Promise!Resume, Promise!Advance
<1>10. QED
  BY <1>2, <1>9

\* The two workers together keep the safety part of the promise: every step is
\* a step of Handoff on the status of one coroutine, or leaves all of them alone.
THEOREM KeepsThePromise == Spec => Promise!Init /\ [][Promise!Next]_Abstract
<1>1. Init => Promise!Init
  BY MaxRequestsAssumption DEF Init, Promise!Init, Status, Published, Coroutines
<1>2. ASSUME IInv, [Next]_vars PROVE [Promise!Next]_Abstract
  <2>1. CASE Publish
    BY <1>2, <2>1, PublishSubmits DEF Promise!Next
  <2>2. CASE RunFunction
    BY <1>2, <2>2, RunExecutes DEF Promise!Next
  <2>3. CASE Resume
    BY <1>2, <2>3, ResumeResumes DEF Promise!Next
  <2>4. CASE Crash
    BY <1>2, <2>4, CrashFails DEF Promise!Next
  <2>5. CASE ~ Publish /\ ~ RunFunction /\ ~ Resume /\ ~ Crash
    BY <1>2, <2>5, StatusUnchanged
  <2>6. QED
    BY <2>1, <2>2, <2>3, <2>4, <2>5
<1>3. QED
  BY <1>1, <1>2, InductiveInvariant, PTL DEF Spec
=============================================================================
