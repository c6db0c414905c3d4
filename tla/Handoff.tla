------------------------------- MODULE Handoff -------------------------------
(***************************************************************************)
(* What thread_manager promises a coroutine that awaits startCoroutine(f): *)
(* f runs exactly once, afterwards the coroutine is resumed exactly once,  *)
(* and both eventually happen, unless the program ends first.  Nothing is  *)
(* promised about the order in which different coroutines are served: the  *)
(* queues are unordered maps.                                              *)
(***************************************************************************)

CONSTANT Coroutines   \* the coroutines that may ask for a function to be run

VARIABLES
  status,             \* how far the request of each coroutine has come
  serving             \* the program has not ended

promise == <<status, serving>>

Advance(c, from, to) ==
  /\ serving /\ status[c] = from
  /\ status' = [status EXCEPT ![c] = to]
  /\ UNCHANGED serving

Submit(c)  == Advance(c, "idle", "submitted")
Execute(c) == Advance(c, "submitted", "executed")
Resume(c)  == Advance(c, "executed", "resumed")

\* A failure ends the program and leaves every request where it is.
Fail == serving /\ serving' = FALSE /\ UNCHANGED status

Init == status = [c \in Coroutines |-> "idle"] /\ serving = TRUE

Next == Fail \/ \E c \in Coroutines : Submit(c) \/ Execute(c) \/ Resume(c)

\* Requests need not come; the ones that come are served.
Spec == /\ Init /\ [][Next]_promise
        /\ \A c \in Coroutines : WF_promise(Execute(c)) /\ WF_promise(Resume(c))
=============================================================================
