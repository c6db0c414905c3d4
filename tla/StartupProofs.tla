----------------------------- MODULE StartupProofs -----------------------------
(***************************************************************************)
(* What module Startup says of the construction of thread_manager, proved  *)
(* for every set of managers and every number of expiries of the timer.    *)
(* The inductive invariant follows the two threads that can find           *)
(* ms_Singleton null: main(), and the main worker of the manager it makes. *)
(***************************************************************************)
EXTENDS Startup, SequenceTheorems, FiniteSetTheorems, TLAPS

\* The manager main() constructs, and the one its main worker constructs.
First  == making[Boot]
\* The manager the main worker of the first one is building.
Second == making[First]

Constructing == {"startMain", "startLogic", "setFlag", "assign"}
Started_pcs  == {"alloc", "publish", "bumpRead", "bumpWrite"}

\* Every variable keeps its type.
TypeOK ==
  /\ pc \in [Threads -> {"absent", "loop", "rearm", "test", "done"}
                          \cup Constructing \cup Started_pcs]
  /\ making \in [Threads -> Managers \cup {Null}]
  /\ \A t \in Threads : pc[t] \in Constructing => making[t] # Null
  /\ got \in [Threads -> Seq(Managers)]
  /\ seen \in [Managers -> Nat]
  /\ ms_Singleton \in Managers \cup {Null}
  /\ built \subseteq Managers
  /\ g_start_loop \in BOOLEAN /\ tick \in BOOLEAN
  /\ expiries \in Nat \ {0} /\ m_global_index \in Nat
  /\ startedBy \in Seq(Managers) /\ resumedBy \in Seq(Managers \cup {Null})
  /\ Len(resumedBy) = Len(startedBy)
  /\ logicQ = [m \in Managers |-> logicQ[m]]
  /\ mainQ = [m \in Managers |-> mainQ[m]]

\* main() makes the first manager, whose main worker is released last.
BootOK ==
  /\ pc[Boot] \in {"test", "done"} \cup Constructing
  /\ First = Null <=> pc[Boot] = "test"
  /\ g_start_loop <=> pc[Boot] \in {"assign", "done"}
  /\ pc[Boot] = "done" => ms_Singleton # Null
  /\ ~ g_start_loop => ms_Singleton = Null /\ tick /\ expiries = 1
  /\ pc[Boot] = "test" =>
       /\ built = {} /\ startedBy = << >>
       /\ \A m \in Managers : /\ got[m] = << >> /\ logicQ[m] = EmptyQueue
                              /\ mainQ[m] = EmptyQueue
  /\ pc[Boot] \in {"test", "startMain"} => \A m \in Managers : pc[m] = "absent"
  /\ pc[Boot] \in {"startLogic", "setFlag"} => pc[First] = "loop"

\* Nobody but these two threads constructs a manager.
BuiltOK ==
  /\ pc[Boot] # "test" => built = {First, Second} \ {Null}
  /\ First # Null => Second # First
  /\ \A m \in Managers \ {First} : making[m] = Null /\ pc[m] \notin Constructing
  /\ \A m \in Managers : pc[m] # "done" /\ (pc[m] # "absent" => m \in built)

\* The first worker has constructed a second manager, or will never do so once
\* ms_Singleton is set.
SecondOK ==
  First # Null =>
    /\ pc[First] \in Constructing => Second # Null
    /\ pc[First] = "startMain" => pc[Second] = "absent"
    /\ ms_Singleton = Null /\ pc[First] \notin Constructing => Second = Null
    /\ pc[First] \in Started_pcs => ms_Singleton # Null

\* Until the timer expires again only the first worker leaves its loop, and it
\* rearms the timer before it can construct the second manager.
TimerOK ==
  /\ expiries > 1 => pc[Boot] = "done"
  /\ expiries = 1 => \A m \in Managers \ {First} : pc[m] \in {"absent", "loop"}
  /\ expiries = 1 /\ tick /\ First # Null =>
       pc[First] \in {"absent", "loop", "rearm"} /\ Second = Null

\* Coroutine c waits in a queue of manager m.
Queued(m, c) == \/ \E k \in DOMAIN logicQ[m] : logicQ[m][k] = c
                \/ \E k \in DOMAIN mainQ[m] : mainQ[m][k] = c

\* What the first worker has in hand: the results of instance() so far and the
\* key it will publish its coroutine under.
InHandOK ==
  /\ ms_Singleton \in {Null, First}
  /\ \A i \in 1 .. Len(got[First]) : got[First][i] = First
  /\ pc[First] = "test" => Len(got[First]) < 2
  /\ pc[First] = "alloc" => Len(got[First]) = 1
  /\ pc[First] = "publish" => Len(got[First]) = 2
  /\ pc[First] \in {"publish", "bumpWrite"} \/ (pc[First] = "test" /\ Len(got[First]) = 1)
       => seen[First] = m_global_index

\* The key of a coroutine being submitted is m_global_index, which no waiting
\* coroutine has.
KeysOK ==
  /\ DOMAIN logicQ[First] \cap DOMAIN mainQ[First] = {}
  /\ \A k \in DOMAIN logicQ[First] \cup DOMAIN mainQ[First] :
       /\ k \in Nat /\ k <= m_global_index
       /\ k = m_global_index => pc[First] \in {"bumpRead", "bumpWrite"}

\* Each coroutine has been resumed, waits, or is the one being submitted.
SettledOK ==
  /\ pc[First] \in {"test"} \cup Started_pcs => Len(startedBy) > 0
  /\ \A c \in 1 .. Len(startedBy) :
       /\ startedBy[c] = First
       /\ \/ resumedBy[c] # Null
          \/ pc[First] \in {"test", "alloc", "publish"} /\ c = Len(startedBy)
          \/ Queued(First, c)

\* With one manager nothing is lost.
SingleOK == First # Null /\ Second = Null => InHandOK /\ KeysOK /\ SettledOK

\* The inductive invariant.
IInv == TypeOK /\ BootOK /\ BuiltOK /\ SecondOK /\ TimerOK /\ SingleOK
-----------------------------------------------------------------------------
\* A function on an initial interval is a sequence.
LEMMA FunctionIsSequence ==
  ASSUME NEW S, NEW n \in Nat, NEW f \in [1 .. n -> S]
  PROVE  f \in Seq(S) /\ Len(f) = n
<1>1. f \in Seq(S)
  BY SeqDef
<1>2. QED
  BY <1>1, LenProperties

\* The variables have their types.
THEOREM TypeInvariant == Spec => []TypeOK
<1> USE StartupAssumption DEF TypeOK, Threads
<1>1. Init => TypeOK
  <2> SUFFICES ASSUME Init PROVE TypeOK
    OBVIOUS
  <2>1. << >> \in Seq(Managers) /\ << >> \in Seq(Managers \cup {Null}) /\ Len(<< >>) = 0
    OBVIOUS
  <2>2. /\ pc \in [Threads -> {"absent", "loop", "rearm", "test", "done"}
                                \cup Constructing \cup Started_pcs]
        /\ making \in [Threads -> Managers \cup {Null}]
        /\ got \in [Threads -> Seq(Managers)]
        /\ seen \in [Managers -> Nat]
        /\ logicQ = [m \in Managers |-> logicQ[m]]
        /\ mainQ = [m \in Managers |-> mainQ[m]]
    BY <2>1 DEF Init
  <2>3. \A t \in Threads : pc[t] \notin Constructing
    BY DEF Init, Constructing
  <2>4. ms_Singleton = Null /\ built = {} /\ g_start_loop = FALSE /\ tick = TRUE
        /\ expiries = 1 /\ m_global_index = 0 /\ startedBy = << >> /\ resumedBy = << >>
    BY DEF Init
  <2>5. startedBy \in Seq(Managers) /\ resumedBy \in Seq(Managers \cup {Null})
    BY <2>1, <2>4
  <2>6. Len(resumedBy) = Len(startedBy) 
    BY <2>1, <2>4
  <2>7. expiries \in Nat \ {0} /\ m_global_index \in Nat
    BY <2>1, <2>4
  <2>8. g_start_loop \in BOOLEAN /\ tick \in BOOLEAN
    BY <2>1, <2>4
  <2>9. built \subseteq Managers /\  ms_Singleton \in Managers \cup {Null}
    BY <2>1, <2>4
  <2>10. QED
    BY <2>1, <2>2, <2>3, <2>4, <2>5, <2>6, <2>7, <2>8, <2>9
<1>2. ASSUME TypeOK, [Next]_vars PROVE TypeOK'
  <2> USE <1>2
  <2> USE DEF vars, local, pointer, timer, queues, history, Goto, Constructing, Started_pcs
  <2>1. ASSUME NEW t \in Threads, Instance(t) PROVE TypeOK'
    <3>1. CASE FindInstance(t)
      <4>1. Append(got[t], ms_Singleton) \in Seq(Managers)
        BY <3>1 DEF FindInstance
      <4>2. QED
        BY <3>1, <4>1 DEF FindInstance, Return, AfterInstance
    <3>2. CASE FindNull(t)
      BY <3>2 DEF FindNull
    <3>3. CASE StartMainWorker(t)
      BY <3>3 DEF StartMainWorker
    <3>4. CASE StartLogicWorker(t)
      BY <3>4 DEF StartLogicWorker
    <3>5. CASE SetStartLoop(t)
      BY <3>5 DEF SetStartLoop
    <3>6. CASE Assign(t)
      BY SMTT(30), <3>6 DEF Assign, Return, AfterInstance
    <3>7. QED
      BY <2>1, <3>1, <3>2, <3>3, <3>4, <3>5, <3>6 DEF Instance
  <2>2. CASE Expire
    BY <2>2 DEF Expire
  <2>3. ASSUME NEW m \in Managers, MainWorker(m) PROVE TypeOK'
    <3>1. CASE SeeTimer(m)
      BY <3>1 DEF SeeTimer
    <3>2. CASE Rearm(m)
      <4>1. << >> \in Seq(Managers)
        OBVIOUS
      <4>2. /\ Append(startedBy, m) \in Seq(Managers)
            /\ Append(resumedBy, Null) \in Seq(Managers \cup {Null})
            /\ Len(Append(startedBy, m)) = Len(Append(resumedBy, Null))
        OBVIOUS
      <4>3. QED
        BY <3>2, <4>1, <4>2 DEF Rearm
    <3>3. CASE Alloc(m)
      BY <3>3 DEF Alloc
    <3>4. CASE Publish(m)
      BY <3>4 DEF Publish
    <3>5. CASE BumpRead(m)
      BY <3>5 DEF BumpRead
    <3>6. CASE BumpWrite(m)
      BY SMTT(30), <3>6 DEF BumpWrite
    <3>7. CASE Consume(m)
      <4>1. resumedBy' \in [1 .. Len(startedBy) -> Managers \cup {Null}]
        BY <3>7 DEF Consume, Coroutines
      <4>2. Len(startedBy) \in Nat
        OBVIOUS
      <4>3. /\ resumedBy' \in Seq(Managers \cup {Null})
            /\ Len(resumedBy') = Len(startedBy)
        BY <4>1, <4>2, FunctionIsSequence, Zenon
      <4>4. QED
        BY <3>7, <4>3 DEF Consume
    <3>8. CASE Poll(m)
      BY <3>8 DEF Poll
    <3>9. QED
      BY <2>1, <2>3, <3>1, <3>2, <3>3, <3>4, <3>5, <3>6, <3>7, <3>8 DEF MainWorker
  <2>4. ASSUME NEW m \in Managers, Serve(m) PROVE TypeOK'
    BY <2>4 DEF Serve
  <2>5. CASE UNCHANGED vars
    BY <2>5
  <2>6. QED
    BY <2>1, <2>2, <2>3, <2>4, <2>5 DEF Next
<1>3. QED
  BY <1>1, <1>2, PTL DEF Spec
-----------------------------------------------------------------------------
\* Its part about the two threads that construct managers.
ControlOK == BootOK /\ BuiltOK /\ SecondOK /\ TimerOK

\* Who constructs what is settled by the two threads that find ms_Singleton null.
THEOREM ControlInvariant == Spec => []ControlOK
<1>1. Init => ControlOK
  <2> SUFFICES ASSUME Init PROVE ControlOK
    OBVIOUS
  <2>1. /\ First = Null /\ \A t \in Threads : making[t] = Null
        /\ pc[Boot] = "test" /\ \A m \in Managers : pc[m] = "absent"
    BY StartupAssumption DEF Init, First, Threads
  <2>2. BootOK
    BY <2>1 DEF BootOK, Init, Threads
  <2>3. BuiltOK /\ SecondOK /\ TimerOK
    BY <2>1 DEF BuiltOK, SecondOK, TimerOK, Init, Threads, Constructing
  <2>4. QED
    BY <2>2, <2>3 DEF ControlOK
<1>2. ASSUME TypeOK, ControlOK, [Next]_vars PROVE ControlOK'
  <2> USE <1>2, StartupAssumption
  <2> USE DEF ControlOK, BootOK, BuiltOK, SecondOK, TimerOK, First, Second, TypeOK, Threads,
              vars, local, pointer, timer, queues, history, Goto, Constructing, Started_pcs
  <2>1. ASSUME NEW t \in Threads, Instance(t) PROVE ControlOK'
    <3>1. CASE FindInstance(t)
      BY <3>1 DEF FindInstance, Return, AfterInstance
    <3>2. CASE FindNull(t)
      <4>1. PICK m \in Managers \ built : /\ making' = [making EXCEPT ![t] = m]
                                         /\ built' = built \cup {m}
        BY <3>2 DEF FindNull
      <4>2. CASE t = Boot
        BY <3>2, <4>1, <4>2 DEF FindNull
      <4>3. CASE t \in Managers
        <5>1. t = First /\ Second = Null /\ expiries = 1 /\ ~ tick /\ pc[m] = "absent"
          <6>1. ms_Singleton = Null /\ pc[t] = "test"
            BY <3>2 DEF FindNull
          <6>2. expiries = 1
            <7>1. pc[Boot] # "done" /\ ~ (expiries > 1)
              BY <6>1
            <7>2. QED
              BY SMTT(30), <7>1
          <6>3. t = First /\ First # Null
            BY <4>3, <6>1, <6>2
          <6>4. QED
            BY <6>1, <6>2, <6>3
        <5>2. First' = First /\ Second' = m /\ built' = {First, m}
          BY <3>2, <4>1, <4>3, <5>1
        <5>3. QED
          BY SMTT(30), <3>2, <4>1, <4>3, <5>1, <5>2 DEF FindNull
      <4>4. QED
        BY <4>2, <4>3
    <3>3. CASE StartMainWorker(t)
      BY SMTT(30), <3>3 DEF StartMainWorker
    <3>4. CASE StartLogicWorker(t)
      BY <3>4 DEF StartLogicWorker
    <3>5. CASE SetStartLoop(t)
      BY <3>5 DEF SetStartLoop
    <3>6. CASE Assign(t)
      <4>1. BootOK' BY SMTT(30), <3>6 DEF Assign, Return, AfterInstance
      <4>2. BuiltOK' BY SMTT(30), <3>6 DEF Assign, Return, AfterInstance
      <4>3. SecondOK' BY SMTT(30), <3>6 DEF Assign, Return, AfterInstance
      <4>4. TimerOK' BY SMTT(30), <3>6 DEF Assign, Return, AfterInstance
      <4> QED BY <4>1, <4>2, <4>3, <4>4
    <3>7. QED
      BY <2>1, <3>1, <3>2, <3>3, <3>4, <3>5, <3>6 DEF Instance
  <2>2. CASE Expire
    BY <2>2 DEF Expire
  <2>3. ASSUME NEW m \in Managers, MainWorker(m) PROVE ControlOK'
    <3>1. CASE SeeTimer(m)
      BY <3>1 DEF SeeTimer
    <3>2. CASE Rearm(m)
      BY <3>2 DEF Rearm
    <3>3. CASE Alloc(m)
      BY <3>3 DEF Alloc
    <3>4. CASE Publish(m)
      BY <3>4 DEF Publish
    <3>5. CASE BumpRead(m)
      BY <3>5 DEF BumpRead
    <3>6. CASE BumpWrite(m)
      BY <3>6 DEF BumpWrite
    <3>7. CASE Consume(m)
      BY <3>7 DEF Consume
    <3>8. CASE Poll(m)
      BY <3>8 DEF Poll
    <3>9. QED
      BY <2>1, <2>3, <3>1, <3>2, <3>3, <3>4, <3>5, <3>6, <3>7, <3>8 DEF MainWorker, Threads
  <2>4. ASSUME NEW m \in Managers, Serve(m) PROVE ControlOK'
    BY <2>4 DEF Serve
  <2>5. CASE UNCHANGED vars
    BY <2>5
  <2>6. QED
    BY <2>1, <2>2, <2>3, <2>4, <2>5 DEF Next
<1>3. QED
  BY <1>1, <1>2, TypeInvariant, PTL DEF Spec
-----------------------------------------------------------------------------
\* A step of Next constructs a manager or leaves the pointers to them alone.
LEMMA MakingFrame ==
  ASSUME [Next]_vars
  PROVE  making' = making \/ \E t \in Threads : FindNull(t)
<1> USE DEF vars, local
<1>1. ASSUME NEW t \in Threads, Instance(t), ~ FindNull(t) PROVE making' = making
  BY <1>1 DEF Instance, FindInstance, StartMainWorker, StartLogicWorker, SetStartLoop,
              Assign
<1>2. ASSUME NEW m \in Managers, MainWorker(m), ~ Instance(m) PROVE making' = making
  BY <1>2 DEF MainWorker, SeeTimer, Rearm, Alloc, Publish, BumpRead, BumpWrite, Consume,
              Poll
<1>3. ASSUME NEW m \in Managers, Serve(m) PROVE making' = making
  BY <1>3 DEF Serve
<1>4. Expire => making' = making
  BY DEF Expire
<1>5. QED
  BY <1>1, <1>2, <1>3, <1>4 DEF Next, Threads

\* While there is one manager it is First, and only its worker leaves its loop.
LEMMA OneManager ==
  ASSUME TypeOK, ControlOK, [Next]_vars, First # Null, Second' = Null
  PROVE  /\ First' = First /\ Second = Null /\ First \in Managers
         /\ pc[Boot] # "test" /\ pc[First] \notin Constructing
         /\ \A m \in Managers \ {First} : pc[m] = "absent"
<1> USE StartupAssumption DEF First, Second, Threads, TypeOK
<1>1. First \in Managers /\ pc[Boot] # "test"
  BY DEF ControlOK, BootOK
<1>2. CASE making' = making
  BY <1>1, <1>2 DEF ControlOK, BuiltOK, SecondOK
<1>3. ASSUME NEW t \in Threads, FindNull(t)
      PROVE  First' = First /\ Second = Null
  BY <1>1, <1>3 DEF FindNull, Goto
<1>4. First' = First /\ Second = Null
  BY <1>2, <1>3, MakingFrame
<1>5. QED
  BY <1>1, <1>4 DEF ControlOK, BuiltOK, SecondOK

\* The coroutine its only main worker started last is the last one.
LEMMA StartedIsLast ==
  ASSUME TypeOK, Len(startedBy) > 0,
         NEW m, \A c \in 1 .. Len(startedBy) : startedBy[c] = m
  PROVE  Started(m) = Len(startedBy) /\ Len(startedBy) \in Coroutines
<1>1. Len(startedBy) \in Nat /\ Coroutines = 1 .. Len(startedBy)
  BY DEF TypeOK, Coroutines
<1>2. /\ Len(startedBy) \in Coroutines /\ startedBy[Len(startedBy)] = m
      /\ \A d \in Coroutines : startedBy[d] = m => d <= Len(startedBy)
  BY <1>1
<1>3. \A c \in Coroutines :
        startedBy[c] = m /\ (\A d \in Coroutines : startedBy[d] = m => d <= c)
          => c = Len(startedBy)
  BY <1>1, <1>2
<1>4. QED
  BY <1>2, <1>3 DEF Started

\* An emplaced key that is fresh is added, and nothing else changes.
LEMMA EmplaceFresh ==
  ASSUME NEW q, NEW k, k \notin DOMAIN q, NEW c
  PROVE  /\ DOMAIN Emplace(q, k, c) = DOMAIN q \cup {k}
         /\ Emplace(q, k, c)[k] = c
         /\ \A j \in DOMAIN q : Emplace(q, k, c)[j] = q[j]
BY DEF Emplace

\* With one manager the invariant is about the components of its worker.
LEMMA SingleStep ==
  ASSUME TypeOK, ControlOK, SingleOK, [Next]_vars, First # Null, Second' = Null
  PROVE  (InHandOK /\ KeysOK /\ SettledOK)'
<1> SUFFICES ASSUME NEW F, F = First
             PROVE  (InHandOK /\ KeysOK /\ SettledOK)'
  OBVIOUS
<1> DEFINE Same == UNCHANGED <<got[F], seen[F], m_global_index>>
           Kept == UNCHANGED <<logicQ[F], mainQ[F], startedBy, resumedBy>>
<1>1. /\ First' = F /\ Second = Null /\ F \in Managers /\ F # Boot
      /\ pc[Boot] # "test" /\ pc[F] \notin Constructing
      /\ \A m \in Managers \ {F} : pc[m] = "absent"
  BY OneManager, StartupAssumption
<1>2. InHandOK /\ KeysOK /\ SettledOK
  BY <1>1 DEF SingleOK
<1>3. /\ Len(startedBy) \in Nat /\ Coroutines = 1 .. Len(startedBy) /\ m_global_index \in Nat
      /\ got[F] \in Seq(Managers) /\ Len(got[F]) \in Nat
      /\ F \in Threads /\ Boot \in Threads
  BY <1>1 DEF TypeOK, Coroutines, Threads
<1>4. First = F /\ F # Null
  OBVIOUS
<1> USE <1>1, <1>2, <1>3, <1>4
<1>5. ASSUME Same, Kept, ms_Singleton' \in {ms_Singleton, F},
             \/ pc'[F] = pc[F]
             \/ pc'[F] \in {"loop", "rearm"} /\ pc[F] \in {"absent", "loop"}
      PROVE  (InHandOK /\ KeysOK /\ SettledOK)'
  <2>1. InHandOK'
    BY <1>5 DEF InHandOK
  <2>2. KeysOK'
    BY <1>5 DEF KeysOK
  <2>3. SettledOK'
    BY <1>5 DEF SettledOK, Queued, Started_pcs
  <2>4. QED
    BY <2>1, <2>2, <2>3
<1>6. CASE Instance(Boot)
  <2>1. ~ FindNull(Boot) /\ ~ FindInstance(Boot)
    BY DEF FindNull, FindInstance, Return, Goto
  <2>2. Same /\ Kept
    BY <1>6, <2>1 DEF Instance, StartMainWorker, StartLogicWorker, SetStartLoop, Assign,
       Return, TypeOK, local, history, queues
  <2>3. ms_Singleton' \in {ms_Singleton, F}
    BY <1>6, <2>1 DEF Instance, StartMainWorker, StartLogicWorker, SetStartLoop, Assign,
       First, pointer
  <2>4. pc'[F] = pc[F] \/ (pc'[F] = "loop" /\ pc[F] = "absent")
    <3>1. CASE StartMainWorker(Boot)
      BY <3>1 DEF StartMainWorker, TypeOK, First, ControlOK, BootOK
    <3>2. CASE ~ StartMainWorker(Boot)
      <4>1. \E x : pc' = [pc EXCEPT ![Boot] = x]
        BY <1>6, <2>1, <3>2, Zenon DEF Instance, StartLogicWorker, SetStartLoop, Assign,
           Return, Goto
      <4>2. QED
        BY <4>1 DEF TypeOK
    <3>3. QED
      BY <3>1, <3>2
  <2>5. QED
    BY <1>5, <2>2, <2>3, <2>4
<1>7. CASE Instance(F)
  <2>1. FindInstance(F)
    <3>1. ~ FindNull(F)
      BY StartupAssumption DEF FindNull, TypeOK, Second, Threads
    <3>2. QED
      BY <1>7, <3>1 DEF Instance, StartMainWorker, StartLogicWorker, SetStartLoop, Assign,
         Return, Goto, Constructing
  <2>2. /\ ms_Singleton = F /\ ms_Singleton' = F
        /\ got'[F] = Append(got[F], F) /\ UNCHANGED <<seen[F], m_global_index>> /\ Kept
        /\ pc[F] = "test" /\ pc'[F] = AfterInstance(F)
    BY <2>1 DEF FindInstance, Return, Goto, TypeOK, InHandOK, pointer, queues, history
  <2>3. pc'[F] = IF Len(got[F]) = 0 THEN "alloc" ELSE "publish"
    BY <2>2 DEF AfterInstance
  <2>4. InHandOK'
    <3>1. /\ Len(got'[F]) = Len(got[F]) + 1
          /\ \A i \in 1 .. Len(got[F]) : got'[F][i] = got[F][i]
          /\ got'[F][Len(got[F]) + 1] = F
      BY <2>2
    <3>2. Len(got[F]) < 2 /\ (Len(got[F]) = 1 => seen[F] = m_global_index)
      BY <2>2 DEF InHandOK
    <3>3. \A i \in 1 .. Len(got'[F]) : got'[F][i] = F
      BY <3>1, <3>2 DEF InHandOK
    <3>4. QED
      <4>1. pc'[F] = "alloc" => Len(got'[F]) = 1
        BY <2>3, <3>1
      <4>2. pc'[F] = "publish" => Len(got[F]) = 1 /\ Len(got'[F]) = 2
        <5>1. CASE Len(got[F]) = 0
          BY <2>3, <5>1
        <5>2. CASE Len(got[F]) = 1
          BY <3>1, <5>2
        <5>3. \A n \in Nat : n < 2 => n = 0 \/ n = 1
          OBVIOUS
        <5>4. Len(got[F]) = 0 \/ Len(got[F]) = 1
          BY <3>2, <5>3
        <5>5. QED
          BY <5>1, <5>2, <5>4
      <4>3. QED
        BY <2>2, <2>3, <3>2, <3>3, <4>1, <4>2 DEF InHandOK
  <2>5. KeysOK'
    BY <2>2, <2>3 DEF KeysOK
  <2>6. SettledOK'
    BY <2>2, <2>3 DEF SettledOK, Queued, Started_pcs
  <2>7. QED
    BY <2>4, <2>5, <2>6
<1>8. CASE Expire
  <2>1. Same /\ Kept /\ ms_Singleton' = ms_Singleton /\ pc'[F] = pc[F]
    BY <1>8 DEF Expire, local, pointer, history, queues
  <2>2. QED
    BY <1>5, <2>1
<1>9. CASE SeeTimer(F)
  <2>1. Same /\ Kept /\ ms_Singleton' = ms_Singleton /\ pc'[F] = "rearm" /\ pc[F] = "loop"
    BY <1>9 DEF SeeTimer, Goto, TypeOK, local, pointer, history, queues
  <2>2. QED
    BY <1>5, <2>1
<1>10. CASE Rearm(F)
  <2>1. /\ ms_Singleton' = ms_Singleton /\ got'[F] = << >> /\ UNCHANGED m_global_index
        /\ UNCHANGED <<logicQ[F], mainQ[F]>> /\ pc[F] = "rearm" /\ pc'[F] = "test"
        /\ startedBy' = Append(startedBy, F) /\ resumedBy' = Append(resumedBy, Null)
    BY <1>10 DEF Rearm, Goto, TypeOK, pointer, queues
  <2>2. /\ Len(startedBy') = Len(startedBy) + 1 /\ Len(resumedBy') = Len(startedBy) + 1
        /\ \A c \in 1 .. Len(startedBy) :
             startedBy'[c] = startedBy[c] /\ resumedBy'[c] = resumedBy[c]
        /\ startedBy'[Len(startedBy) + 1] = F
    BY <2>1 DEF TypeOK
  <2>3. InHandOK'
    BY <2>1 DEF InHandOK
  <2>4. KeysOK'
    BY <2>1 DEF KeysOK
  <2>5. SettledOK'
    BY <2>1, <2>2 DEF SettledOK, Queued, Started_pcs
  <2>6. QED
    BY <2>3, <2>4, <2>5
<1>11. CASE Alloc(F)
  <2>1. /\ UNCHANGED <<ms_Singleton, got[F], m_global_index>> /\ Kept
        /\ pc[F] = "alloc" /\ pc'[F] = "test" /\ seen'[F] = m_global_index
    BY <1>11 DEF Alloc, Goto, TypeOK, pointer, queues, history
  <2>2. InHandOK'
    BY <2>1 DEF InHandOK
  <2>3. KeysOK'
    BY <2>1 DEF KeysOK
  <2>4. SettledOK'
    BY <2>1 DEF SettledOK, Queued, Started_pcs
  <2>5. QED
    BY <2>2, <2>3, <2>4
<1>12. CASE Publish(F)
  <2> DEFINE n == Len(startedBy)
  <2>0. pc[F] = "publish" /\ pc'[F] = "bumpRead"
    BY <1>12 DEF Publish, Goto, TypeOK
  <2>1. /\ pc[F] = "publish" /\ pc'[F] = "bumpRead"
        /\ got[F][2] = F /\ seen[F] = m_global_index
    BY <2>0 DEF InHandOK
  <2>2. Started(F) = n /\ n > 0
    BY <2>1, StartedIsLast DEF SettledOK, Started_pcs
  <2>3. logicQ'[F] = Emplace(logicQ[F], m_global_index, n)
    <3>1. logicQ' = [logicQ EXCEPT ![F] = Emplace(@, m_global_index, n)]
      BY <1>12, <2>1, <2>2 DEF Publish
    <3>2. QED
      BY <3>1 DEF TypeOK
  <2>4. /\ Same /\ UNCHANGED <<ms_Singleton, mainQ[F], startedBy, resumedBy>>
    BY <1>12 DEF Publish, local, pointer, history
  <2>5. m_global_index \notin DOMAIN logicQ[F] \cup DOMAIN mainQ[F]
    BY <2>1 DEF KeysOK
  <2>6. /\ DOMAIN logicQ'[F] = DOMAIN logicQ[F] \cup {m_global_index}
        /\ logicQ'[F][m_global_index] = n
        /\ \A k \in DOMAIN logicQ[F] : logicQ'[F][k] = logicQ[F][k]
    BY <2>3, <2>5 DEF Emplace
  <2>7. InHandOK'
    BY <2>1, <2>4 DEF InHandOK
  <2>8. KeysOK'
    BY <2>1, <2>4, <2>5, <2>6 DEF KeysOK
  <2>9. SettledOK'
    BY <2>1, <2>2, <2>4, <2>6 DEF SettledOK, Queued, Started_pcs
  <2>10. QED
    BY <2>7, <2>8, <2>9
<1>13. CASE BumpRead(F)
  <2>1. /\ UNCHANGED <<ms_Singleton, got[F], m_global_index>> /\ Kept
        /\ pc[F] = "bumpRead" /\ pc'[F] = "bumpWrite" /\ seen'[F] = m_global_index
    BY <1>13 DEF BumpRead, Goto, TypeOK, pointer, queues, history
  <2>2. InHandOK'
    BY <2>1 DEF InHandOK
  <2>3. KeysOK'
    BY <2>1 DEF KeysOK
  <2>4. SettledOK'
    BY <2>1 DEF SettledOK, Queued, Started_pcs
  <2>5. QED
    BY <2>2, <2>3, <2>4
<1>14. CASE BumpWrite(F)
  <2>1. /\ UNCHANGED <<ms_Singleton, got[F], seen[F]>> /\ Kept
        /\ pc[F] = "bumpWrite" /\ pc'[F] = "loop" /\ m_global_index' = m_global_index + 1
    BY <1>14 DEF BumpWrite, Goto, TypeOK, local, pointer, queues, history, InHandOK
  <2>2. InHandOK'
    BY <2>1 DEF InHandOK
  <2>3. KeysOK'
    BY <2>1 DEF KeysOK
  <2>4. SettledOK'
    BY <2>1 DEF SettledOK, Queued, Started_pcs
  <2>5. QED
    BY <2>2, <2>3, <2>4
<1>15. CASE Consume(F)
  <2>1. /\ Same /\ UNCHANGED <<pc[F], ms_Singleton, startedBy, logicQ[F]>>
        /\ pc[F] = "loop" /\ mainQ'[F] = EmptyQueue
    BY <1>15 DEF Consume, TypeOK, local, pointer
  <2>2. \A c \in 1 .. Len(startedBy) :
          resumedBy'[c] = IF \E k \in DOMAIN mainQ[F] : mainQ[F][k] = c THEN F ELSE resumedBy[c]
    BY <1>15 DEF Consume
  <2>3. DOMAIN mainQ'[F] = {}
    BY <2>1 DEF EmptyQueue
  <2>4. InHandOK'
    BY <2>1 DEF InHandOK
  <2>5. KeysOK'
    BY <2>1, <2>3 DEF KeysOK
  <2>6. SettledOK'
    BY <2>1, <2>2 DEF SettledOK, Queued, Started_pcs
  <2>7. QED
    BY <2>4, <2>5, <2>6
<1>16. CASE Poll(F)
  BY <1>5, <1>16 DEF Poll, vars, local, pointer, history, queues
<1>17. ASSUME NEW m \in Managers, Serve(m) PROVE (InHandOK /\ KeysOK /\ SettledOK)'
  <2>1. /\ Same /\ UNCHANGED <<pc[F], ms_Singleton, startedBy, resumedBy>>
    BY <1>17 DEF Serve, local, pointer, history
  <2>2. PICK k \in DOMAIN logicQ[m] :
          /\ mainQ' = [mainQ EXCEPT ![m] = Emplace(@, k, logicQ[m][k])]
          /\ logicQ' = [logicQ EXCEPT ![m] = [j \in DOMAIN @ \ {k} |-> @[j]]]
    BY <1>17 DEF Serve
  <2>3. CASE m # F
    <3>1. Kept /\ ms_Singleton' = ms_Singleton /\ pc'[F] = pc[F]
      BY <2>1, <2>2, <2>3 DEF TypeOK
    <3>2. QED
      BY <1>5, <2>1, <3>1
  <2>4. CASE m = F
    <3>1. k \in DOMAIN logicQ[F]
      BY <2>4
    <3>2. /\ mainQ'[F] = Emplace(mainQ[F], k, logicQ[F][k])
          /\ logicQ'[F] = [j \in DOMAIN logicQ[F] \ {k} |-> logicQ[F][j]]
      BY <2>2, <2>4 DEF TypeOK
    <3>3. k \notin DOMAIN mainQ[F]
      BY <3>1 DEF KeysOK
    <3>4. /\ DOMAIN mainQ'[F] = DOMAIN mainQ[F] \cup {k} /\ mainQ'[F][k] = logicQ[F][k]
          /\ \A j \in DOMAIN mainQ[F] : mainQ'[F][j] = mainQ[F][j]
      BY <3>2, <3>3 DEF Emplace
    <3>5. /\ DOMAIN logicQ'[F] = DOMAIN logicQ[F] \ {k}
          /\ \A j \in DOMAIN logicQ[F] \ {k} : logicQ'[F][j] = logicQ[F][j]
      BY <3>2
    <3>6. InHandOK'
      BY <2>1 DEF InHandOK
    <3>7. KeysOK'
      <4>1. /\ DOMAIN logicQ'[F] \cap DOMAIN mainQ'[F] = {}
            /\ DOMAIN logicQ'[F] \cup DOMAIN mainQ'[F] = DOMAIN logicQ[F] \cup DOMAIN mainQ[F]
        BY <3>1, <3>4, <3>5 DEF KeysOK
      <4>2. QED
        BY <2>1, <4>1 DEF KeysOK
    <3>8. \A c : Queued(F, c) => Queued(F, c)'
      BY <3>4, <3>5 DEF Queued
    <3>9. SettledOK'
      BY <2>1, <3>8 DEF SettledOK, Started_pcs
    <3>10. QED
      BY <3>6, <3>7, <3>9
  <2>5. QED
    BY <2>3, <2>4
<1>18. ASSUME NEW m \in Managers \ {F}, MainWorker(m) PROVE FALSE
  BY <1>18 DEF MainWorker, Instance, FindInstance, FindNull, StartMainWorker,
     StartLogicWorker, SetStartLoop, Assign, Return, SeeTimer, Rearm, Alloc, Publish,
     BumpRead, BumpWrite, Consume, Poll, Goto
<1>19. CASE UNCHANGED vars
  <2>1. Same /\ Kept /\ ms_Singleton' = ms_Singleton /\ pc'[F] = pc[F]
    BY <1>19 DEF vars, local, pointer, history, queues
  <2>2. QED
    BY <1>5, <2>1
<1>20. QED
  BY <1>6, <1>7, <1>8, <1>9, <1>10, <1>11, <1>12, <1>13, <1>14, <1>15, <1>16, <1>17,
     <1>18, <1>19 DEF Next, MainWorker

\* What only holds of one manager holds while there is one.
THEOREM SingleInvariant == Spec => []SingleOK
<1>1. Init => SingleOK
  BY DEF Init, SingleOK, First, Threads
<1>2. ASSUME TypeOK, ControlOK, SingleOK, [Next]_vars PROVE SingleOK'
  <2> SUFFICES ASSUME First' # Null, Second' = Null PROVE (InHandOK /\ KeysOK /\ SettledOK)'
    BY DEF SingleOK
  <2>1. CASE First # Null
    BY <1>2, <2>1, SingleStep
  <2>2. CASE First = Null
    <3>1. /\ pc[Boot] = "test" /\ built = {} /\ startedBy = << >> /\ ~ g_start_loop
          /\ \A m \in Managers : /\ got[m] = << >> /\ logicQ[m] = EmptyQueue
                                 /\ mainQ[m] = EmptyQueue /\ pc[m] = "absent"
          /\ ms_Singleton = Null
      BY <1>2, <2>2 DEF ControlOK, BootOK, TypeOK
    <3>2. PICK t \in Threads : FindNull(t)
      BY <1>2, <2>2, MakingFrame DEF First
    <3>3. t = Boot
      BY <3>1, <3>2 DEF FindNull, Goto, Threads
    <3>4. First' \in Managers /\ pc'[First'] = "absent"
      BY <1>2, <3>1, <3>2, <3>3, StartupAssumption DEF FindNull, First, TypeOK, Goto, Threads
    <3>5. UNCHANGED <<got, seen, ms_Singleton, m_global_index, startedBy, logicQ, mainQ>>
      BY <3>2 DEF FindNull, history, queues
    <3>6. InHandOK'
      BY <3>1, <3>4, <3>5 DEF InHandOK
    <3>7. KeysOK'
      BY <3>1, <3>4, <3>5 DEF KeysOK, EmptyQueue
    <3>8. SettledOK'
      BY <3>1, <3>4, <3>5 DEF SettledOK, Started_pcs
    <3>9. QED
      BY <3>6, <3>7, <3>8
  <2>3. QED
    BY <2>1, <2>2
<1>3. QED
  BY <1>1, <1>2, TypeInvariant, ControlInvariant, PTL DEF Spec
-----------------------------------------------------------------------------
\* The inductive invariant holds whatever the set of managers.
THEOREM InductiveInvariant == Spec => []IInv
<1>1. TypeOK /\ ControlOK /\ SingleOK => IInv
  BY DEF ControlOK, IInv
<1>2. QED
  BY <1>1, TypeInvariant, ControlInvariant, SingleInvariant, PTL

\* instance() can be raced into a second manager and never into a third.
THEOREM NeverAThirdManager == Spec => []AtMostTwoManagers
<1>1. TypeOK /\ ControlOK => AtMostTwoManagers
  <2> SUFFICES ASSUME TypeOK, ControlOK PROVE Cardinality(built) <= 2
    BY DEF AtMostTwoManagers
  <2>1. built \subseteq {First} \cup {Second}
    BY DEF ControlOK, BootOK, BuiltOK
  <2>2. \A x : IsFiniteSet({x}) /\ Cardinality({x}) = 1
    BY FS_Singleton
  <2>3. /\ IsFiniteSet({First} \cup {Second})
        /\ Cardinality({First} \cup {Second}) <= 2
    <3>1. IsFiniteSet({First}) /\ Cardinality({First}) = 1
      BY <2>2
    <3>2. QED
      BY <3>1, FS_AddElement
  <2>4. QED
    BY <2>1, <2>3, FS_Subset, FS_CardinalityType
<1>2. QED
  BY <1>1, TypeInvariant, ControlInvariant, PTL

\* On the first expiry no second worker is in update().
THEOREM FirstUpdateAlone == Spec => []FirstUpdateIsAlone
<1>1. TypeOK /\ ControlOK => FirstUpdateIsAlone
  <2> SUFFICES ASSUME TypeOK, ControlOK, expiries = 1 PROVE Cardinality(Generating) <= 1
    BY DEF FirstUpdateIsAlone
  <2>1. Generating \subseteq {First}
    BY DEF Generating, ControlOK, TimerOK
  <2>2. IsFiniteSet({First}) /\ Cardinality({First}) = 1
    BY FS_Singleton
  <2>3. QED
    BY <2>1, <2>2, FS_Subset, FS_CardinalityType
<1>2. QED
  BY <1>1, TypeInvariant, ControlInvariant, PTL

\* A coroutine is dropped only where there are two managers.
THEOREM OneManagerLosesNothing == Spec => []LossNeedsTwoManagers
<1>1. TypeOK /\ ControlOK /\ SingleOK => LossNeedsTwoManagers
  <2> SUFFICES ASSUME TypeOK, ControlOK, SingleOK, NEW c \in Coroutines, Lost(c)
               PROVE  Cardinality(built) = 2
    BY DEF LossNeedsTwoManagers
  <2>1. Coroutines = 1 .. Len(startedBy) /\ Len(startedBy) \in Nat
    BY DEF Coroutines, TypeOK
  <2>2. pc[Boot] # "test" /\ First # Null
    BY <2>1 DEF ControlOK, BootOK
  <2>3. ASSUME Second = Null PROVE FALSE
    <3>1. SettledOK
      BY <2>2, <2>3 DEF SingleOK
    <3>2. First \in Managers
      BY <2>2, StartupAssumption DEF TypeOK, First, Threads
    <3>3. resumedBy[c] = Null /\ ~ Queued(First, c)
      BY <3>2 DEF Lost, Queued
    <3>4. pc[First] \in {"test", "alloc", "publish"} /\ c = Len(startedBy) /\ startedBy[c] = First
      BY <2>1, <3>1, <3>3 DEF SettledOK
    <3>5. Started(First) = c
      BY <2>1, <3>1, <3>4, StartedIsLast DEF SettledOK
    <3>6. First \in Generating
      BY <3>2, <3>4 DEF Generating
    <3>7. QED
      BY <3>4, <3>5, <3>6 DEF Lost
  <2>4. built = {First} \cup {Second} /\ First # Second
    BY <2>2, <2>3 DEF ControlOK, BuiltOK
  <2>5. QED
    <3>1. IsFiniteSet({First}) /\ Cardinality({First}) = 1 /\ Second \notin {First}
      BY <2>4, FS_Singleton
    <3>2. QED
      BY <2>4, <3>1, FS_AddElement
<1>2. QED
  BY <1>1, TypeInvariant, ControlInvariant, SingleInvariant, PTL
================================================================================
