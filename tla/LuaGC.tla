-------------------------------- MODULE LuaGC --------------------------------
(***************************************************************************)
(* The incremental collector of the Lua library the program is linked with *)
(* (src/lua/lgc.c), interleaved with the program it collects for: the      *)
(* steps of marking, the atomic phase, sweeping and finalizers, and every  *)
(* kind of write with its barrier (lapi.c, lvm.c, lfunc.c).                *)
(*                                                                         *)
(* An object has at most one outgoing entry [key, val]: a table one        *)
(* key-value pair (a key that is no object is None), a userdata its        *)
(* uservalue, a thread one stack slot, and a closure one upvalue, open     *)
(* onto the slot of the thread in key, or closed with val inside.  Strings *)
(* and prototypes, which refer to nothing that is collected later than     *)
(* they are, and the metatables with __mode and __gc are left out; so are  *)
(* tables with a __gc: only userdata get finalizers here.                  *)
(*                                                                         *)
(* The two whites are "white", the current one, and "dead", the other: the *)
(* flip of currentwhite turns every white object dead.                     *)
(***************************************************************************)
EXTENDS Integers, Sequences, SequencesExt, FiniteSets

CONSTANTS
  Objects,   \* the addresses of collectable objects
  Main,      \* the main thread, which is never freed
  Header,    \* the address of the header of a list
  None,      \* NULL; a value that is no object
  Kinds,     \* the assignments of a kind to each address that are tried
  Writes,    \* bound: the writes <<o, key, val>> that are tried for each of them
  Fulls      \* bound: the full collections tried for each of them, TRUE an emergency

ASSUME KindsAssumption ==
  Kinds \subseteq [Objects -> {"table", "weakv", "ephemeron", "allweak",
                               "udata", "lclosure", "thread"}]

ASSUME AddressAssumption ==
  /\ Main \notin Objects
  /\ None \notin Objects \cup {Main} /\ Header \notin Objects \cup {None}

ASSUME BoundsAssumption == \A k \in Kinds : Fulls[k] \subseteq BOOLEAN

VARIABLES
  kind,                \* what may be allocated at an address
  entry,               \* what an object refers to
  stack,               \* the values of the running program: the stack of Main
  openupval, touched,  \* threads with an open upvalue; those whose is touched
  twups,               \* the list of threads with open upvalues
  lists,               \* allgc, finobj and tobefnz
  color,               \* marked, but for FINALIZEDBIT
  finalizable,         \* the objects with FINALIZEDBIT
  gcstate, sweepgc,
  gray, grayagain, allweak,
  gcrunning,           \* FALSE while a finalizer runs
  full,                \* how far luaC_fullgc has come
  emergency,           \* gckind is KGC_EMERGENCY
  garbage,             \* history: what a full collection still has to free
  strayed              \* history: a finalizer has taken sweepgc out of its list

heap      == <<kind, entry>>
upvalues  == <<openupval, touched, twups>>
marking   == <<gray, grayagain, allweak>>
control   == <<gcrunning, full, emergency>>
history   == <<garbage, strayed>>
collector == <<upvalues, lists, color, finalizable, gcstate, sweepgc, marking,
               control, history>>
vars == <<heap, stack, collector>>

Things == Objects \cup {Main}
Nothing == [key |-> None, val |-> None]
Allocated == UNION {ToSet(lists[n]) : n \in DOMAIN lists}
White(o) == color[o] \in {"white", "dead"}

keepinvariant == gcstate \in {"propagate", "atomic"}
issweepphase  == gcstate \in {"swpallgc", "swpfinobj", "swptobefnz", "swpend"}

\* The least set that has S and what F finds from it.
Closure(S, F(_)) ==
  LET closed == {Y \in SUBSET (Things \ S) :
                   F(Y \cup (S \ {None})) \subseteq Y \cup S \cup {None}}
  IN (S \ {None}) \cup {o \in Things \ S : \A Y \in closed : o \in Y}
-----------------------------------------------------------------------------
(* Marking *)

IsUdata(o) == o # Main /\ kind[o] = "udata"

\* What marking S marks at once: through the uservalues of white userdata.
Chain(c, S) ==
  {o \in Closure(S, LAMBDA X : {entry[o].val : o \in
                     {x \in X : IsUdata(x) /\ c[x] \in {"white", "dead"}}}) :
     c[o] \in {"white", "dead"}}

\* reallymarkobject: userdata turn black, the others gray.
Paint(c, W) == [o \in Things |-> IF o \notin W THEN c[o]
                                 ELSE IF IsUdata(o) THEN "black" ELSE "gray"]
Listed(W) == {o \in W : ~ IsUdata(o)}

\* The value of the upvalue of a closure.
UpvalValue(e, f) == IF e[f].key = None THEN e[f].val ELSE e[e[f].key].val

\* What the traversal of o marks in the atomic phase when the objects in X are
\* marked: the value of an ephemeron's entry only if its key is marked.
Marks(e, o, X) ==
  IF o = Main THEN stack
  ELSE CASE kind[o] = "table" -> {e[o].key, e[o].val}
         [] kind[o] \in {"udata", "thread"} -> {e[o].val}
         [] kind[o] = "weakv" -> {e[o].key}
         [] kind[o] = "ephemeron" -> IF e[o].key \in X \cup {None} THEN {e[o].val} ELSE {}
         [] kind[o] = "allweak" -> {}
         [] kind[o] = "lclosure" -> {UpvalValue(e, o)}

IsOpenIn(e, f) == f # Main /\ kind[f] = "lclosure" /\ e[f].key # None
IsOpen(f) == IsOpenIn(entry, f)

\* Before the atomic phase an open upvalue is touched, not marked.
MarksEarly(e, o, X) == IF IsOpenIn(e, o) THEN {} ELSE Marks(e, o, X)

\* All that the traversal of X leads to in the heap e, X included, when marked is
\* marked already; inatomic tells the phase.
Traverse(X, marked, e, inatomic) ==
  Closure(X, LAMBDA Y :
    (UNION {IF inatomic THEN Marks(e, o, Y \cup marked) ELSE MarksEarly(e, o, Y \cup marked) :
              o \in Y}) \ marked)

\* The objects of the list l that are in S.
Keep(l, S) ==
  LET kept[i \in 0 .. Len(l)] ==
        IF i = 0 THEN << >>
        ELSE IF l[i] \in S THEN Append(kept[i - 1], l[i]) ELSE kept[i - 1]
  IN kept[Len(l)]

\* Threads and weak tables are never black.
StaysGray(o) == o = Main \/ kind[o] \in {"thread", "weakv", "ephemeron", "allweak"}
-----------------------------------------------------------------------------
(* Sweeping *)

Sweeper == [lists |-> lists, sweepgc |-> sweepgc, color |-> color, entry |-> entry,
            openupval |-> openupval, touched |-> touched, twups |-> twups]

\* The list sweepgc points into.
ListAt(s, state) ==
  IF s.sweepgc = Header
  THEN CASE state = "swpallgc" -> "allgc"
         [] state = "swpfinobj" -> "finobj"
         [] state = "swptobefnz" -> "tobefnz"
  ELSE CHOOSE n \in DOMAIN s.lists : s.sweepgc \in ToSet(s.lists[n])

\* Mutant of Free: the dead threads stay among those with open upvalues.
FreeStillOpen(s, D) ==
  [s EXCEPT !.color = [o \in Things |-> IF o \in D THEN "white" ELSE @[o]],
            !.entry = [o \in Objects |-> IF o \in D THEN Nothing ELSE @[o]]]

\* freeobj, for the objects in D; the upvalue of a thread is closed first.
Free(s, D) ==
  [s EXCEPT !.color = [o \in Things |-> IF o \in D THEN "white" ELSE @[o]],
            !.openupval = @ \ D, !.touched = @ \ D,
            !.entry = [f \in Objects |->
              IF f \in D THEN Nothing
              ELSE IF kind[f] = "lclosure" /\ @[f].key \in D
              THEN [key |-> None, val |-> @[@[f].key].val] ELSE @[f]]]

\* The list l without the objects between the places i and j.
Cut(l, i, j) == SubSeq(l, 1, i) \o SubSeq(l, j, Len(l))

\* The place of sweepgc in the list l.
PlaceIn(s, l) == IF s.sweepgc = Header THEN 0 ELSE CHOOSE i \in DOMAIN l : l[i] = s.sweepgc

\* The objects behind the place i of list n are swept up to the place j: those
\* before j are dead, and sweepgc stays where it is while they are freed.
SweepTo(s, n, i, j) ==
  LET l == s.lists[n]
      freed == [Free(s, {l[k] : k \in i + 1 .. j - 1}) EXCEPT !.lists[n] = Cut(l, i, j)]
  IN IF j > Len(l) THEN [freed EXCEPT !.sweepgc = None]
     ELSE [freed EXCEPT !.color[l[j]] = "white",
                        !.sweepgc = IF j = Len(l) THEN None ELSE l[j]]

\* sweeplist(L, sweepgc, 1)
SweepOne(s, state) ==
  LET n == ListAt(s, state)
      l == s.lists[n]
      i == PlaceIn(s, l)
  IN IF i < Len(l) /\ s.color[l[i + 1]] = "dead"
     THEN [Free(s, {l[i + 1]}) EXCEPT !.lists[n] = Cut(l, i, i + 2),
                                      !.sweepgc = IF i + 1 = Len(l) THEN None ELSE @]
     ELSE SweepTo(s, n, i, i + 1)

\* Mutant of sweeptolive: sweepgc keeps pointing into the object that moves.
StayAt(s, state) == s

\* Sweeps up to an object that stays.
sweeptolive(s, state) ==
  LET n == ListAt(s, state)
      l == s.lists[n]
      i == PlaceIn(s, l)
      stays == {j \in i + 1 .. Len(l) : s.color[l[j]] # "dead"}
  IN SweepTo(s, n, i, IF stays = {} THEN Len(l) + 1
                      ELSE CHOOSE j \in stays : \A k \in stays : j <= k)

\* Mutant of EnterSweep: the sweep begins after the first object.
EnterSweepUnswept(s) ==
  [s EXCEPT !.sweepgc = IF s.lists.allgc = << >> THEN None ELSE Head(s.lists.allgc)]

\* entersweep, from the heap as s has it.
EnterSweep(s) == SweepOne([s EXCEPT !.sweepgc = Header], "swpallgc")

Becomes(s) ==
  /\ lists' = s.lists /\ sweepgc' = s.sweepgc /\ color' = s.color
  /\ entry' = s.entry
  /\ openupval' = s.openupval /\ touched' = s.touched /\ twups' = s.twups
  /\ garbage' = garbage \cap UNION {ToSet(s.lists[n]) : n \in DOMAIN s.lists}
  /\ UNCHANGED strayed
-----------------------------------------------------------------------------
(* The steps of the collector *)

\* What a table, a uservalue, a local of a coroutine or an upvalue can be read for.
Holds(o) == IF kind[o] = "lclosure" THEN {UpvalValue(entry, o)}
            ELSE {entry[o].key, entry[o].val}

\* What the program can get at, through weak references too.
Accessible == Closure(stack, LAMBDA X : UNION {Holds(o) : o \in X \cap Objects})

\* Once some of that has been freed anything may happen: behaviours end there.  It takes
\* a sweepgc that has strayed, by NothingAccessibleIsFreed.
Defined == strayed => Accessible \subseteq Allocated

\* gcrunning stops luaC_step, not luaC_fullgc; a finalizer that a full collection
\* calls suspends it.
CollectorRuns == Defined /\ (gcrunning \/ (full # "no" /\ emergency))

\* While luaC_fullgc runs, only the finalizers it calls do.
ProgramRuns == Defined /\ (full = "no" \/ ~ (gcrunning \/ emergency))

\* What a collection that starts now cannot keep: not the value of an upvalue that
\* was touched and not looked at since.
Unreachable ==
  Allocated \ Traverse({Main} \cup ToSet(lists.finobj) \cup ToSet(lists.tobefnz)
                         \cup {entry[t].val : t \in touched \cap openupval},
                       {}, entry, TRUE)

\* GCSpause: restartcollection.
StartCollection ==
  /\ CollectorRuns /\ gcstate = "pause"
  /\ LET W == Chain(color, {Main} \cup ToSet(lists.tobefnz))
     IN color' = Paint(color, W) /\ gray' = Listed(W)
  /\ grayagain' = {} /\ allweak' = {}
  /\ gcstate' = "propagate"
  /\ full' = IF full = "finish" THEN "collect" ELSE full
  /\ garbage' = IF full = "finish" THEN Unreachable ELSE garbage
  /\ UNCHANGED <<heap, stack, upvalues, lists, finalizable, sweepgc, gcrunning, emergency,
                 strayed>>

\* GCSpropagate: propagatemark on an object of the gray list.
Propagate ==
  /\ CollectorRuns /\ gcstate = "propagate"
  /\ \E o \in gray :
       LET c == [color EXCEPT ![o] = IF StaysGray(o) THEN "gray" ELSE "black"]
           W == Chain(c, MarksEarly(entry, o, {x \in Things : ~ White(x)}))
           weak == o # Main /\ kind[o] = "allweak"
       IN /\ color' = Paint(c, W)
          /\ gray' = (gray \ {o}) \cup Listed(W)
          /\ grayagain' = IF StaysGray(o) /\ ~ weak THEN grayagain \cup {o} ELSE grayagain
          /\ allweak' = IF weak THEN allweak \cup {o} ELSE allweak
          /\ touched' = IF IsOpen(o) THEN touched \cup {entry[o].key} ELSE touched
  /\ gcstate' = IF gray' = {} THEN "atomic" ELSE gcstate
  /\ UNCHANGED <<heap, stack, openupval, twups, lists, finalizable, sweepgc, control, history>>

\* The heap e with the tables in S emptied.
Clear(e, S) == [o \in Objects |-> IF o \in S THEN Nothing ELSE e[o]]

\* Mutant of clearvalues: dead values stay.
KeepAllValues(e, S, marked) == e

\* The weak tables in S lose the entry whose value, or key, is not marked.
clearvalues(e, S, marked) == Clear(e, {o \in S : e[o].val \notin marked})
clearkeys(e, S, marked)   == Clear(e, {o \in S : e[o].key \notin marked \cup {None}})

\* Mutant of Leaving: every thread stays.
LeavingForgotten(marked) == {}

\* remarkupvals: the threads that leave twups, marked being marked.
Leaving(marked) == {t \in twups : t \notin marked \/ t \notin openupval}

\* The heap after the atomic phase: what is left in the weak tables, what has to be
\* finalized, and what is dead.  Values are cleared before separatetobefnz, keys
\* after the objects to be finalized have been marked.
Atomic ==
  LET marked0 == {o \in Things : ~ White(o)}
      early   == Traverse(gray, marked0, entry, FALSE)
      marked1 == marked0 \cup early
      touched1 == touched \cup {entry[f].key : f \in {x \in early : IsOpen(x)}}
      leaving == Leaving(marked1)
      remark  == {entry[t].val : t \in leaving \cap openupval \cap touched1} \ {None}
      again   == {o \in early : o # Main /\ kind[o] = "ephemeron"}
      late    == Traverse(grayagain \cup again \cup (remark \ marked1), marked1, entry, TRUE)
      marked2 == marked1 \cup late
      weak(S, K) == {o \in S : o # Main /\ kind[o] \in K}
      before  == early \cup late \cup allweak
      entry2  == clearvalues(entry, weak(before, {"weakv", "allweak"}), marked2)
      tobefnz == lists.tobefnz \o Keep(lists.finobj, Objects \ marked2)
      risen   == Traverse((ToSet(tobefnz) \ marked2) \cup weak(before, {"ephemeron"}),
                          marked2, entry2, TRUE)
      marked3 == marked2 \cup risen
      entry3  == clearvalues(clearkeys(entry2, weak(before \cup risen, {"ephemeron", "allweak"}),
                                       marked3),
                             weak(risen \ marked2, {"weakv", "allweak"}), marked3)
      final(o) == IF o \in Objects \ Allocated THEN "white"
                  ELSE IF o \notin marked3 THEN "dead"
                  ELSE IF StaysGray(o) THEN "gray" ELSE "black"
  IN [Sweeper EXCEPT !.lists.tobefnz = tobefnz,
                     !.lists.finobj = Keep(@, marked2),
                     !.entry = entry3,
                     !.color = [o \in Things |-> final(o)],
                     !.touched = touched1 \ leaving,
                     !.twups = (@ \ leaving)
                         \cup {t \in (late \cup risen) \cap openupval : kind[t] = "thread"}]

\* GCSatomic: the gray list is emptied, atomic(), entersweep().
AtomicStep ==
  /\ CollectorRuns /\ gcstate = "atomic"
  /\ Becomes(EnterSweep(Atomic))
  /\ gcstate' = "swpallgc"
  /\ gray' = {} /\ grayagain' = {} /\ allweak' = {}
  /\ UNCHANGED <<kind, stack, finalizable, control>>

NextSweep == [swpallgc |-> "swpfinobj", swpfinobj |-> "swptobefnz", swptobefnz |-> "swpend"]

\* sweepstep, GCSWEEPMAX being 1: at the end of a list the next one is entered.
Sweep ==
  /\ CollectorRuns /\ gcstate \in DOMAIN NextSweep
  /\ LET s == IF sweepgc = None THEN Sweeper ELSE SweepOne(Sweeper, gcstate)
         ended == s.sweepgc = None
     IN /\ Becomes(IF ended /\ gcstate # "swptobefnz" THEN [s EXCEPT !.sweepgc = Header] ELSE s)
        /\ gcstate' = IF ended THEN NextSweep[gcstate] ELSE gcstate
  /\ UNCHANGED <<kind, stack, finalizable, marking, control>>

EndSweep ==
  /\ CollectorRuns /\ gcstate = "swpend"
  /\ color' = [color EXCEPT ![Main] = "white"]
  /\ gcstate' = "callfin"
  /\ UNCHANGED <<heap, stack, upvalues, lists, finalizable, sweepgc, marking, control, history>>

\* GCScallfin without finalizers to call, or in an emergency.
EndCollection ==
  /\ CollectorRuns /\ gcstate = "callfin"
  /\ lists.tobefnz = << >> \/ emergency
  /\ gcstate' = "pause"
  /\ full' = IF full = "collect" THEN "no" ELSE full
  /\ emergency' = (emergency /\ full # "collect")
  /\ UNCHANGED <<heap, stack, upvalues, lists, color, finalizable, sweepgc, marking,
                 gcrunning, history>>

\* GCTM: the first object to be finalized becomes a normal one, and the argument of
\* its finalizer.  luaC_step calls some finalizers unless it is at the pause, a full
\* collection in GCScallfin.
CallFinalizer ==
  /\ CollectorRuns /\ ~ emergency /\ lists.tobefnz # << >>
  /\ IF full = "no" THEN gcstate # "pause" ELSE gcstate = "callfin"
  /\ LET o == Head(lists.tobefnz)
     IN /\ lists' = [lists EXCEPT !.tobefnz = Tail(@), !.allgc = <<o>> \o @]
        /\ finalizable' = finalizable \ {o}
        /\ color' = IF issweepphase THEN [color EXCEPT ![o] = "white"] ELSE color
        /\ stack' = stack \cup {o}
        /\ strayed' = (strayed \/ sweepgc = o)
  /\ gcrunning' = FALSE
  /\ UNCHANGED <<heap, upvalues, gcstate, sweepgc, marking, full, emergency, garbage>>

FinalizerReturns ==
  /\ ~ gcrunning /\ ~ emergency
  /\ gcrunning' = TRUE
  /\ UNCHANGED <<heap, stack, upvalues, lists, color, finalizable, gcstate, sweepgc,
                 marking, full, emergency, history>>

\* luaC_fullgc: collectgarbage(), which no finalizer calls, or an allocation that fails.
StartFull(isemergency) ==
  /\ ProgramRuns /\ full = "no" /\ (gcrunning \/ isemergency)
  /\ full' = "finish" /\ emergency' = isemergency
  /\ IF keepinvariant
     THEN /\ Becomes(EnterSweep(Sweeper))
          /\ gcstate' = "swpallgc"
     ELSE UNCHANGED <<lists, sweepgc, color, entry, upvalues, history, gcstate>>
  /\ UNCHANGED <<kind, stack, finalizable, marking, gcrunning>>
-----------------------------------------------------------------------------
(* The program *)

\* luaC_newobj
New(o) ==
  /\ ProgramRuns /\ o \notin Allocated /\ kind[o] # "lclosure"
  /\ lists' = [lists EXCEPT !.allgc = <<o>> \o @]
  /\ color' = [color EXCEPT ![o] = "white"]
  /\ stack' = stack \cup {o}
  /\ UNCHANGED <<heap, upvalues, finalizable, gcstate, sweepgc, marking, control, history>>

Pop(o) ==
  /\ ProgramRuns /\ o \in stack
  /\ stack' = stack \ {o}
  /\ UNCHANGED <<heap, collector>>

\* A read.
Load(o) ==
  /\ ProgramRuns /\ o \in stack
  /\ \E v \in Holds(o) :
       v \notin stack \cup {None} /\ stack' = stack \cup {v}
  /\ UNCHANGED <<heap, collector>>

BarrierNone == UNCHANGED <<color, marking>>

\* Mutant of BarrierBack: the table is in no gray list.
BarrierBackUnlinked(t, news) ==
  IF color[t] = "black" /\ \E v \in news \ {None} : White(v)
  THEN color' = [color EXCEPT ![t] = "gray"] /\ UNCHANGED marking
  ELSE BarrierNone

\* luaC_barrierback: a black table that gets a white object is gray again.
BarrierBack(t, news) ==
  IF color[t] = "black" /\ \E v \in news \ {None} : White(v)
  THEN /\ color' = [color EXCEPT ![t] = "gray"]
       /\ grayagain' = IF keepinvariant THEN grayagain \cup {t} ELSE grayagain
       /\ UNCHANGED <<gray, allweak>>
  ELSE BarrierNone

\* reallymarkobject, from outside the collector.
MarkNow(v) ==
  LET W == Chain(color, {v})
  IN color' = Paint(color, W) /\ gray' = gray \cup Listed(W) /\ UNCHANGED <<grayagain, allweak>>

\* luaC_barrier: the white object is marked; while sweeping, the black one is swept.
BarrierForward(p, v) ==
  IF ~ (color[p] = "black" /\ v # None /\ White(v)) THEN BarrierNone
  ELSE IF keepinvariant THEN MarkNow(v)
  ELSE color' = [color EXCEPT ![p] = "white"] /\ UNCHANGED marking

\* lua_rawset, luaV_finishset: luaH_newkey has a barrier for the key.
SetTable(t, k, v) ==
  /\ ProgramRuns /\ {t, k, v} \subseteq stack \cup {None}
  /\ t # None /\ kind[t] \in {"table", "weakv", "ephemeron", "allweak"}
  /\ entry[t] # [key |-> k, val |-> v]
  /\ entry' = [entry EXCEPT ![t] = IF v = None THEN Nothing ELSE [key |-> k, val |-> v]]
  /\ BarrierBack(t, {k, v})
  /\ UNCHANGED <<kind, stack, upvalues, lists, finalizable, gcstate, sweepgc, control, history>>

\* lua_setuservalue
SetUservalue(u, v) ==
  /\ ProgramRuns /\ {u, v} \subseteq stack \cup {None}
  /\ u # None /\ kind[u] = "udata" /\ entry[u].val # v
  /\ entry' = [entry EXCEPT ![u].val = v]
  /\ BarrierForward(u, v)
  /\ UNCHANGED <<kind, stack, upvalues, lists, finalizable, gcstate, sweepgc, control, history>>

\* lua_setmetatable with a __gc: luaC_checkfinalizer.
SetFinalizer(u) ==
  /\ ProgramRuns /\ u \in stack \ finalizable /\ kind[u] = "udata"
  /\ LET s == IF ~ issweepphase THEN Sweeper
              ELSE LET w == [Sweeper EXCEPT !.color[u] = "white"]
                   IN IF sweepgc = u THEN sweeptolive(w, gcstate) ELSE w
     IN Becomes([s EXCEPT !.lists.allgc = Keep(@, Objects \ {u}),
                          !.lists.finobj = <<u>> \o @])
  /\ finalizable' = finalizable \cup {u}
  /\ UNCHANGED <<kind, stack, gcstate, marking, control>>

\* A coroutine writes to a local: no barrier, a thread is never black.
SetLocal(t, v) ==
  /\ ProgramRuns /\ {t, v} \subseteq stack \cup {None}
  /\ t # None /\ kind[t] = "thread" /\ entry[t].val # v
  /\ entry' = [entry EXCEPT ![t].val = v]
  /\ UNCHANGED <<kind, stack, collector>>

\* A coroutine makes a closure over its local: luaF_findupval.
Capture(t, f) ==
  /\ ProgramRuns /\ t \in stack /\ kind[t] = "thread"
  /\ f \notin Allocated /\ kind[f] = "lclosure"
  /\ lists' = [lists EXCEPT !.allgc = <<f>> \o @]
  /\ color' = [color EXCEPT ![f] = "white"]
  /\ stack' = stack \cup {f}
  /\ entry' = [entry EXCEPT ![f] = [key |-> t, val |-> None]]
  /\ openupval' = openupval \cup {t}
  /\ touched' = IF t \in openupval THEN touched ELSE touched \cup {t}
  /\ twups' = twups \cup {t}
  /\ UNCHANGED <<kind, finalizable, gcstate, sweepgc, marking, control, history>>

\* The block of the local ends: luaF_close, with luaC_upvalbarrier.
CloseUpvalue(t) ==
  /\ ProgramRuns /\ t \in stack \cap openupval
  /\ entry' = [o \in Objects |->
       IF o = t THEN Nothing
       ELSE IF kind[o] = "lclosure" /\ entry[o].key = t THEN entry[t] ELSE entry[o]]
  /\ openupval' = openupval \ {t} /\ touched' = touched \ {t}
  /\ IF keepinvariant /\ entry[t].val # None /\ \E f \in Allocated : IsOpen(f) /\ entry[f].key = t
     THEN MarkNow(entry[t].val) ELSE BarrierNone
  /\ UNCHANGED <<kind, stack, twups, lists, finalizable, gcstate, sweepgc, control, history>>

\* OP_SETUPVAL, with luaC_upvalbarrier when the upvalue is closed.
SetUpvalue(f, v) ==
  /\ ProgramRuns /\ {f, v} \subseteq stack \cup {None}
  /\ f # None /\ kind[f] = "lclosure" /\ UpvalValue(entry, f) # v
  /\ entry' = IF IsOpen(f) THEN [entry EXCEPT ![entry[f].key].val = v]
              ELSE [entry EXCEPT ![f].val = v]
  /\ IF keepinvariant /\ v # None /\ ~ IsOpen(f) THEN MarkNow(v) ELSE BarrierNone
  /\ UNCHANGED <<kind, stack, upvalues, lists, finalizable, gcstate, sweepgc, control, history>>
-----------------------------------------------------------------------------
Init ==
  /\ kind \in Kinds
  /\ entry = [o \in Objects |-> Nothing] /\ stack = {}
  /\ openupval = {} /\ touched = {} /\ twups = {}
  /\ lists = [allgc |-> << >>, finobj |-> << >>, tobefnz |-> << >>]
  /\ color = [o \in Things |-> "white"] /\ finalizable = {}
  /\ gcstate = "pause" /\ sweepgc = None
  /\ gray = {} /\ grayagain = {} /\ allweak = {}
  /\ gcrunning = TRUE /\ full = "no" /\ emergency = FALSE /\ garbage = {}
  /\ strayed = FALSE

Values == Objects \cup {None}

SingleStep ==
  \/ StartCollection \/ Propagate \/ AtomicStep \/ Sweep \/ EndSweep \/ EndCollection
  \/ CallFinalizer

Program ==
  \/ \E o \in Objects : New(o) \/ Pop(o) \/ Load(o) \/ SetFinalizer(o) \/ CloseUpvalue(o)
  \/ \E w \in Writes[kind] :
       \/ SetTable(w[1], w[2], w[3])
       \/ w[2] = None /\ (SetUservalue(w[1], w[3]) \/ SetLocal(w[1], w[3]) \/ SetUpvalue(w[1], w[3]))
  \/ \E t, f \in Objects : Capture(t, f)
  \/ \E isemergency \in Fulls[kind] : StartFull(isemergency)

Next == SingleStep \/ FinalizerReturns \/ Program

Spec == Init /\ [][Next]_vars

\* A program that goes on allocating runs into the collector again and again, and its
\* finalizers return.  The first disjunction is WF_vars(SingleStep): a collector that
\* may run always has a step to take.
FairSpec ==
  /\ Spec
  /\ []<>(~ CollectorRuns) \/ []<><<SingleStep>>_vars
  /\ WF_vars(FinalizerReturns)
-----------------------------------------------------------------------------
(* Properties *)

\* No finalizer has taken sweepgc out of its list: WhiteWhenSweepEnds says what follows.
OnTrack == ~ strayed

\* Every object is in one list, an object with FINALIZEDBIT in finobj or tobefnz; a
\* thread with an open upvalue is in twups until it is found dead.
TypeOK ==
  /\ kind \in Kinds
  /\ entry \in [Objects -> [key : Values, val : Values]]
  /\ OnTrack => stack \subseteq Allocated
  /\ touched \subseteq openupval /\ openupval \cup twups \subseteq Allocated
  /\ \A t \in openupval \ twups : color[t] = "dead"
  /\ color \in [Things -> {"white", "dead", "gray", "black"}]
  /\ \A o \in Allocated : Cardinality({n \in DOMAIN lists : o \in ToSet(lists[n])}) = 1
  /\ finalizable = ToSet(lists.finobj) \cup ToSet(lists.tobefnz)
  /\ gcstate \in {"pause", "propagate", "atomic", "swpend", "callfin"} \cup DOMAIN NextSweep
  /\ sweepgc \in Values \cup {Header}
  /\ gray \cup grayagain \cup allweak \subseteq Things
  /\ gcrunning \in BOOLEAN /\ full \in {"no", "finish", "collect"} /\ emergency \in BOOLEAN
  /\ garbage \subseteq Allocated /\ strayed \in BOOLEAN

\* Nothing the program can get at, or a pending finalizer will get, has been freed or
\* will be by the sweep, whatever was written between two steps of the collector.
NothingAccessibleIsFreed ==
  OnTrack => \A o \in Accessible \cup ToSet(lists.tobefnz) : o \in Allocated /\ color[o] # "dead"

\* lgc.h:15-24: while marking, a black object never points to a white one, and a gray
\* object is in exactly one gray list, so that the barriers and the traversals miss none.
TricolorInvariant ==
  OnTrack /\ keepinvariant =>
    /\ \A o \in Allocated : color[o] = "black" =>
         \A v \in MarksEarly(entry, o, {}) \ {None} : ~ White(v)
    /\ \A o \in Allocated : color[o] = "gray" <=> o \in gray \cup grayagain \cup allweak
    /\ gray \cap grayagain = {} /\ gray \cap allweak = {} /\ grayagain \cap allweak = {}

\* lgc.h:58-59, "The invariant is restored when sweep ends and all objects are white
\* again."
WhiteWhenSweepEnds ==
  gcstate \in {"callfin", "pause"} => \A o \in Allocated \cup {Main} : color[o] = "white"

\* What was created, written to or moved to finobj while the sweep went on is white when
\* it ends.  Not so what waits for its finalizer when udata2finalize moves the object
\* that sweepgc points into to another list: it is black for the rest of its cycle, and
\* in the next one taken for marked.
SweepForgetsOnlyPending ==
  gcstate \in {"callfin", "pause"} =>
    \A o \in Allocated \cup {Main} :
      \/ color[o] = "white"
      \/ strayed /\ IsUdata(o) /\ color[o] = "black"

\* A full collection frees everything that nothing refers to when it starts its
\* cycle, whatever state the collector was in before.
FullCollectionFrees == full = "no" => garbage = {}

\* What the program or a pending finalizer gets at without weak references.
Reachable == Traverse({Main} \cup ToSet(lists.tobefnz), {}, entry, TRUE)

\* An object is given to its finalizer only when nothing strong refers to it, and from
\* then on it is no weak value either of any table the program has kept: it is met
\* again in its finalizer, as a weak key, or through what a finalizer brings back.
FinalizesTheUnreachable ==
  \A o \in ToSet(lists'.tobefnz) \ ToSet(lists.tobefnz) :
    /\ o \notin Reachable
    /\ \A t \in Reachable \ {Main} :
         kind[t] \in {"weakv", "allweak"} => entry'[t].val # o

FinalizedWhenUnreachable == [][OnTrack => FinalizesTheUnreachable]_vars

\* What nothing refers to is freed, or brought back by a finalizer, in the end: no
\* barrier, full collection or finalizer keeps the collector from getting to it.
GarbageIsCollected ==
  \A o \in Objects : []<>(OnTrack => o \notin Unreachable)
=============================================================================
