-------------------------------- MODULE Generator --------------------------------
(***************************************************************************)
(* Generator<T> and range(first, last) of src/coroutine/Generator.h.       *)
(*                                                                         *)
(* A generator object owns a coroutine frame through its handle, and the   *)
(* iterators that begin() returns hold a copy of the handle.  The user     *)
(* makes, moves and destroys generators and runs range-based for loops     *)
(* over them, which nest and may be left early.                            *)
(*                                                                         *)
(* operator=(Generator&&) is not here: it compares a pointer with an       *)
(* object, so no program that uses it compiles.                            *)
(***************************************************************************)
EXTENDS Integers, FiniteSets, SequencesExt

CONSTANTS
  Objects,    \* the places a Generator can be constructed in
  Numbers,    \* the arguments of range()
  MaxFrames,  \* bound: calls of range()
  MaxLoops    \* bound: loops that are started

ASSUME GeneratorAssumption ==
  /\ IsFiniteSet(Objects) /\ Numbers \subseteq Int
  /\ MaxFrames \in Nat /\ MaxLoops \in Nat

NoHandle == 0

VARIABLES
  coroutines,   \* the frames, by the order of their creation
  m_coroutine,  \* the handle of each object that is constructed
  loops,        \* the loops that run, innermost last
  started,      \* the frames of all the loops that were started
  undefined     \* the frame that was resumed although it had ended or was gone

generator == <<coroutines, m_coroutine, loops, started, undefined>>

\* A frame of range(): its arguments, the variable first, current_value, whether
\* it is at its end and whether it exists; and the values that loops have got.
NewCoroutine(a, b) ==
  [from |-> a, first |-> a, last |-> b, current_value |-> a,
   done |-> FALSE, alive |-> TRUE, seen |-> << >>]

\* resume(): up to the next co_yield first++, or to the end.
Resumed(fr) ==
  IF fr.first < fr.last
  THEN [fr EXCEPT !.current_value = fr.first, !.first = fr.first + 1]
  ELSE [fr EXCEPT !.done = TRUE]

\* Mutant of Resume: the frame is resumed twice.
ResumeTwice(n) ==
  /\ coroutines' = IF coroutines[n].done \/ ~coroutines[n].alive THEN coroutines
               ELSE [coroutines EXCEPT ![n] = Resumed(Resumed(@))]
  /\ undefined' = IF coroutines[n].done \/ ~coroutines[n].alive THEN n ELSE undefined

Resume(n) ==
  /\ coroutines' = IF coroutines[n].done \/ ~coroutines[n].alive THEN coroutines
               ELSE [coroutines EXCEPT ![n] = Resumed(@)]
  /\ undefined' = IF coroutines[n].done \/ ~coroutines[n].alive THEN n ELSE undefined

\* The user is at a statement of its own: in the body of the innermost loop.
AtUser == undefined = NoHandle /\ (loops # << >> => loops[Len(loops)].at = "body")
-----------------------------------------------------------------------------
(* Objects *)

\* range(a, b): initial_suspend suspends, so no value is made yet.
Make(o, a, b) ==
  /\ AtUser /\ o \notin DOMAIN m_coroutine /\ Len(coroutines) < MaxFrames
  /\ coroutines' = Append(coroutines, NewCoroutine(a, b))
  /\ m_coroutine' = [p \in DOMAIN m_coroutine \cup {o} |->
                       IF p = o THEN Len(coroutines) + 1 ELSE m_coroutine[p]]
  /\ UNCHANGED <<loops, started, undefined>>

\* Mutant of MoveTo: the other object keeps the handle.
CopyTo(o, other) ==
  /\ AtUser /\ other \in DOMAIN m_coroutine /\ o \notin DOMAIN m_coroutine
  /\ m_coroutine' = [p \in DOMAIN m_coroutine \cup {o} |->
                       IF p = o THEN m_coroutine[other] ELSE m_coroutine[p]]
  /\ UNCHANGED <<coroutines, loops, started, undefined>>

\* Generator(Generator&& other)
MoveTo(o, other) ==
  /\ AtUser /\ other \in DOMAIN m_coroutine /\ o \notin DOMAIN m_coroutine
  /\ m_coroutine' = [p \in DOMAIN m_coroutine \cup {o} |->
                       IF p = o THEN m_coroutine[other]
                       ELSE IF p = other THEN NoHandle ELSE m_coroutine[p]]
  /\ UNCHANGED <<coroutines, loops, started, undefined>>

\* ~Generator()
Destroy(o) ==
  /\ AtUser /\ o \in DOMAIN m_coroutine
  /\ coroutines' = IF m_coroutine[o] = NoHandle THEN coroutines
               ELSE [coroutines EXCEPT ![m_coroutine[o]].alive = FALSE]
  /\ m_coroutine' = [p \in DOMAIN m_coroutine \ {o} |-> m_coroutine[p]]
  /\ UNCHANGED <<loops, started, undefined>>
-----------------------------------------------------------------------------
(* for ( auto x : generator ) *)

\* begin() resumes whatever the state of the coroutine is.
Begin(o) ==
  /\ AtUser /\ o \in DOMAIN m_coroutine /\ Len(started) < MaxLoops
  /\ loops' = Append(loops, [frame |-> m_coroutine[o], at |-> "test"])
  /\ started' = Append(started, m_coroutine[o])
  /\ IF m_coroutine[o] = NoHandle THEN UNCHANGED <<coroutines, undefined>>
     ELSE Resume(m_coroutine[o])
  /\ UNCHANGED m_coroutine

Innermost(at) ==
  undefined = NoHandle /\ loops # << >> /\ loops[Len(loops)].at = at

\* Mutant of IsEnd: done() is not asked.
IsNull(n) == n = NoHandle

\* operator==(default_sentinel_t)
IsEnd(n) == n # NoHandle => coroutines[n].done

EndLoop ==
  /\ Innermost("test") /\ IsEnd(loops[Len(loops)].frame)
  /\ loops' = Front(loops)
  /\ UNCHANGED <<coroutines, m_coroutine, started, undefined>>

\* operator*
Enter ==
  /\ Innermost("test") /\ ~IsEnd(loops[Len(loops)].frame)
  /\ loops' = [loops EXCEPT ![Len(loops)].at = "body"]
  /\ LET n == loops[Len(loops)].frame
     IN coroutines' = [coroutines EXCEPT ![n].seen = Append(@, coroutines[n].current_value)]
  /\ UNCHANGED <<m_coroutine, started, undefined>>

Break ==
  /\ Innermost("body")
  /\ loops' = Front(loops)
  /\ UNCHANGED <<coroutines, m_coroutine, started, undefined>>

\* operator++
Advance ==
  /\ Innermost("body")
  /\ loops' = [loops EXCEPT ![Len(loops)].at = "test"]
  /\ Resume(loops[Len(loops)].frame)
  /\ UNCHANGED <<m_coroutine, started>>
-----------------------------------------------------------------------------
GeneratorInit ==
  /\ coroutines = << >> /\ m_coroutine = [o \in {} |-> NoHandle]
  /\ loops = << >> /\ started = << >> /\ undefined = NoHandle

GeneratorNext ==
  \/ \E o \in Objects, a, b \in Numbers : Make(o, a, b)
  \/ \E o, other \in Objects : MoveTo(o, other)
  \/ \E o \in Objects : Destroy(o)
  \/ \E o \in Objects : Begin(o)
  \/ EndLoop \/ Enter \/ Break \/ Advance

GeneratorSpec == GeneratorInit /\ [][GeneratorNext]_generator
-----------------------------------------------------------------------------
(* Properties *)

\* Moves and destructions in any order, also in the middle of loops, leave one
\* owner to every frame that exists and none to one that is gone: no frame leaks
\* and none is destroyed twice.
OneOwner ==
  \A n \in DOMAIN coroutines :
    Cardinality({o \in DOMAIN m_coroutine : m_coroutine[o] = n})
      = IF coroutines[n].alive THEN 1 ELSE 0

\* However many loops share a generator, nested or one after the other, each
\* number of the range comes to one of them, in order, none is left out, and
\* they have got them all when the generator is at its end.
LoopsShareTheRange ==
  \A n \in DOMAIN coroutines :
    LET fr == coroutines[n]
    IN /\ \A i \in DOMAIN fr.seen : fr.seen[i] = fr.from + i - 1 /\ fr.seen[i] < fr.last
       /\ fr.done => Len(fr.seen) = IF fr.from < fr.last THEN fr.last - fr.from ELSE 0

\* A coroutine is resumed after its end or after its destruction only if two
\* loops were started over it, or if it was destroyed while a loop ran over it.
UndefinedHasACause ==
  undefined # NoHandle =>
    \/ Cardinality({i \in DOMAIN started : started[i] = undefined}) > 1
    \/ ~coroutines[undefined].alive /\ \E i \in DOMAIN loops : loops[i].frame = undefined
=============================================================================
