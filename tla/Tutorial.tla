-------------------------------- MODULE Tutorial --------------------------------
(***************************************************************************)
(* The tutorial of src/coroutine/Tutorial.h: coroutines that await each    *)
(* other and, at the bottom, two answers of a remote procedure call.       *)
(* g(task) awaits h(task) until the task is ready, h(task) awaits f(), and *)
(* f() yields the addresses of two results to g_test_rpc_manager, which    *)
(* test_rpc_manager_run() fills in, resuming f() after each.               *)
(*                                                                         *)
(* There is one thread.  A coroutine starts running when it is called and  *)
(* when it is resumed, and until it suspends or ends everything above it   *)
(* on the call stack waits: stack is the sequence of the coroutines that   *)
(* run, the last one being at work.  One action is one stretch of a        *)
(* coroutine between two calls, suspensions or resumptions.                *)
(***************************************************************************)
EXTENDS Integers, FiniteSets, SequencesExt

CONSTANTS
  Roots,     \* the calls of g() made by main()
  Tasks,     \* the test_task objects they may be given
  NoTask,    \* a null test_task::ptr_t
  MaxRounds  \* bound: the largest max_status of a task

ASSUME TutorialAssumption ==
  /\ IsFiniteSet(Roots) /\ IsFiniteSet(Tasks)
  /\ NoTask \notin Tasks /\ MaxRounds \in Nat

VARIABLES
  taskOf,       \* the task each root is called with
  max_status,   \* of each task
  status,       \* of each task
  frames,       \* the coroutine frames, by the order of their creation
  rootFrame,    \* the frame of each root that has been called
  stack,        \* the frames that run, innermost last
  g_test_rpc_manager,    \* the requests: a frame and the result it waits for
  rpc_manager,           \* the ones test_rpc_manager_run has still to answer
  g_test_rpc_fake_data

tasks == <<taskOf, max_status>>
rpc   == <<g_test_rpc_manager, rpc_manager, g_test_rpc_fake_data>>
vars  == <<tasks, status, frames, rootFrame, stack, rpc>>

\* A frame: the body it runs, its task, where it is, the frame it awaits, the
\* frames to resume when it ends and, of these, the number resumed; of f() also
\* the results and final_value.  A frame is never destroyed: final_suspend
\* suspends, and nobody calls destroy().
Frame(body, task) ==
  [body |-> body, task |-> task, at |-> "start", sub |-> 0,
   follower |-> << >>, next |-> 1, res |-> <<0, 0>>, final |-> 0]

\* is_ready(), of a task that there is
Ready(t) == t # NoTask => status[t] >= max_status[t]

Top == stack[Len(stack)]
At(body, at) == stack # << >> /\ frames[Top].body = body /\ frames[Top].at = at

\* The running coroutine goes on at a point of its body, calls a coroutine, or
\* suspends.
GoOn(at) ==
  /\ frames' = [frames EXCEPT ![Top].at = at]
  /\ UNCHANGED stack
Call(body, at) ==
  /\ frames' = Append([frames EXCEPT ![Top].at = at, ![Top].sub = Len(frames) + 1],
                      Frame(body, frames[Top].task))
  /\ stack' = Append(stack, Len(frames) + 1)
Suspend(at) ==
  /\ frames' = [frames EXCEPT ![Top].at = at]
  /\ stack' = Front(stack)
SuspendIn(followed, at) ==
  /\ frames' = [frames EXCEPT ![Top].at = at,
                              ![followed].follower = Append(@, Top)]
  /\ stack' = Front(stack)
-----------------------------------------------------------------------------
(* main() *)

\* g(task) runs at once: initial_suspend does not suspend.
CallRoot(r) ==
  /\ stack = << >> /\ rpc_manager = << >> /\ r \notin DOMAIN rootFrame
  /\ rootFrame' = [s \in DOMAIN rootFrame \cup {r} |->
                     IF s = r THEN Len(frames) + 1 ELSE rootFrame[s]]
  /\ frames' = Append(frames, Frame("g", taskOf[r]))
  /\ stack' = << Len(frames) + 1 >>
  /\ UNCHANGED <<tasks, status, rpc>>

Finished(r) == r \in DOMAIN rootFrame /\ frames[rootFrame[r]].at = "done"

\* while (!fut.done()) test_rpc_manager_run()
StartManager ==
  /\ stack = << >> /\ rpc_manager = << >>
  /\ \E r \in DOMAIN rootFrame : ~Finished(r)
  /\ rpc_manager' = g_test_rpc_manager
  /\ g_test_rpc_manager' = << >>
  /\ UNCHANGED <<tasks, status, frames, rootFrame, stack, g_test_rpc_fake_data>>

\* Mutant of Answer: the answer goes to the first result whatever was asked.
AnswerFirst ==
  /\ stack = << >> /\ rpc_manager # << >>
  /\ LET request == Head(rpc_manager)
     IN /\ frames' = [frames EXCEPT ![request.frame].res[1] = g_test_rpc_fake_data + 1]
        /\ stack' = IF frames[request.frame].at = "done" THEN << >> ELSE << request.frame >>
  /\ g_test_rpc_fake_data' = g_test_rpc_fake_data + 1
  /\ rpc_manager' = Tail(rpc_manager)
  /\ UNCHANGED <<tasks, status, rootFrame, g_test_rpc_manager>>

\* The result is stored in the frame, which is resumed unless it is done.
Answer ==
  /\ stack = << >> /\ rpc_manager # << >>
  /\ LET request == Head(rpc_manager)
     IN /\ frames' = [frames EXCEPT ![request.frame].res[request.result] =
                                      g_test_rpc_fake_data + 1]
        /\ stack' = IF frames[request.frame].at = "done" THEN << >> ELSE << request.frame >>
  /\ g_test_rpc_fake_data' = g_test_rpc_fake_data + 1
  /\ rpc_manager' = Tail(rpc_manager)
  /\ UNCHANGED <<tasks, status, rootFrame, g_test_rpc_manager>>
-----------------------------------------------------------------------------
(* g() *)

\* Mutant of GCallsH: h is called once and awaited in every round.
GCallsHOnce ==
  /\ At("g", "start") /\ ~Ready(frames[Top].task)
  /\ IF frames[Top].sub = 0 THEN Call("h", "await") ELSE GoOn("await")
  /\ UNCHANGED <<tasks, status, rootFrame, rpc>>

\* co_yield task, or the end of a round: the condition of the loop.
GCallsH ==
  /\ At("g", "start") /\ ~Ready(frames[Top].task)
  /\ Call("h", "await")
  /\ UNCHANGED <<tasks, status, rootFrame, rpc>>

GEnds ==
  /\ At("g", "start") /\ Ready(frames[Top].task)
  /\ GoOn("return")
  /\ UNCHANGED <<tasks, status, rootFrame, rpc>>

\* co_await h(task): h has run up to its first suspension.  The task, not h, is
\* asked whether there is anything to wait for.
GWaits ==
  /\ At("g", "await") /\ ~Ready(frames[Top].task)
  /\ SuspendIn(frames[Top].sub, "resumed")
  /\ UNCHANGED <<tasks, status, rootFrame, rpc>>

\* await_resume counts the round.
GResumes ==
  /\ stack # << >> /\ frames[Top].body = "g" /\ frames[Top].at \in {"await", "resumed"}
  /\ frames[Top].at = "await" => Ready(frames[Top].task)
  /\ status' = [status EXCEPT ![frames[Top].task] = @ + 1]
  /\ GoOn("start")
  /\ UNCHANGED <<tasks, rootFrame, rpc>>
-----------------------------------------------------------------------------
(* h() *)

HCallsF ==
  /\ At("h", "start")
  /\ Call("f", "await")
  /\ UNCHANGED <<tasks, status, rootFrame, rpc>>

\* Mutant of HWaits: h is not added to the followers.
HWaitsUnknown ==
  /\ At("h", "await") /\ frames[frames[Top].sub].final <= 0
  /\ Suspend("resumed")
  /\ UNCHANGED <<tasks, status, rootFrame, rpc>>

\* co_await rpc_res
HWaits ==
  /\ At("h", "await") /\ frames[frames[Top].sub].final <= 0
  /\ SuspendIn(frames[Top].sub, "resumed")
  /\ UNCHANGED <<tasks, status, rootFrame, rpc>>

HEnds ==
  /\ stack # << >> /\ frames[Top].body = "h" /\ frames[Top].at \in {"await", "resumed"}
  /\ frames[Top].at = "await" => frames[frames[Top].sub].final > 0
  /\ GoOn("return")
  /\ UNCHANGED <<tasks, status, rootFrame, rpc>>
-----------------------------------------------------------------------------
(* f() *)

\* co_yield &rpc_res1 and co_yield &rpc_res2: the request is queued.
Yield(from, result, at) ==
  /\ At("f", from)
  /\ Suspend(at)
  /\ g_test_rpc_manager' = Append(g_test_rpc_manager, [frame |-> Top, result |-> result])
  /\ UNCHANGED <<tasks, status, rootFrame, rpc_manager, g_test_rpc_fake_data>>

YieldFirst  == Yield("start", 1, "first")
YieldSecond == Yield("first", 2, "second")

\* co_return rpc_res1 * 100 + rpc_res2
FReturns ==
  /\ At("f", "second")
  /\ frames' = [frames EXCEPT ![Top].at = "return",
                              ![Top].final = 100 * frames[Top].res[1] + frames[Top].res[2]]
  /\ UNCHANGED <<tasks, status, rootFrame, stack, rpc>>
-----------------------------------------------------------------------------
(* return_value() and return_void() *)

\* Nothing asks whether the follower is done.
ResumeFollower ==
  /\ stack # << >> /\ frames[Top].at = "return"
  /\ frames[Top].next <= Len(frames[Top].follower)
  /\ stack' = Append(stack, frames[Top].follower[frames[Top].next])
  /\ frames' = [frames EXCEPT ![Top].next = @ + 1]
  /\ UNCHANGED <<tasks, status, rootFrame, rpc>>

\* final_suspend
EndOfFollowers ==
  /\ stack # << >> /\ frames[Top].at = "return"
  /\ frames[Top].next > Len(frames[Top].follower)
  /\ Suspend("done")
  /\ UNCHANGED <<tasks, status, rootFrame, rpc>>
-----------------------------------------------------------------------------
Init ==
  /\ taskOf \in [Roots -> Tasks \cup {NoTask}]
  /\ max_status \in [Tasks -> 0 .. MaxRounds]
  /\ status = [t \in Tasks |-> 0]
  /\ frames = << >> /\ rootFrame = [r \in {} |-> 0] /\ stack = << >>
  /\ g_test_rpc_manager = << >> /\ rpc_manager = << >> /\ g_test_rpc_fake_data = 0

Coroutine ==
  \/ GCallsH \/ GEnds \/ GWaits \/ GResumes
  \/ HCallsF \/ HWaits \/ HEnds
  \/ YieldFirst \/ YieldSecond \/ FReturns
  \/ ResumeFollower \/ EndOfFollowers

Next == (\E r \in Roots : CallRoot(r)) \/ StartManager \/ Answer \/ Coroutine

Spec == Init /\ [][Next]_vars

\* One thread, which keeps running.
FairSpec == Spec /\ WF_vars(Next)
-----------------------------------------------------------------------------
(* Properties *)

Suspended(n) == frames[n].at \in {"resumed", "first", "second"} /\ n \notin ToSet(stack)

\* Who will resume frame n: the requests and the followers still to be resumed.
Requests == ToSet(g_test_rpc_manager) \cup ToSet(rpc_manager)
Wakers(n) ==
  {q \in Requests : q.frame = n} \cup
  {m \in DOMAIN frames :
     \E i \in frames[m].next .. Len(frames[m].follower) : frames[m].follower[i] = n}

\* A coroutine that is suspended has exactly one who will resume it, and no other
\* has any: it is neither forgotten nor resumed while it runs or after its end.
OneWaker ==
  \A n \in DOMAIN frames : Cardinality(Wakers(n)) = IF Suspended(n) THEN 1 ELSE 0

\* A request is answered in the result its coroutine waits for, and the answers
\* of a coroutine come in the order it asked for them.
AnswersFit ==
  /\ \A q \in Requests : frames[q.frame].at = IF q.result = 1 THEN "first" ELSE "second"
  /\ \A n \in DOMAIN frames : frames[n].final > 0 =>
       0 < frames[n].res[1] /\ frames[n].res[1] < frames[n].res[2]

\* Nobody is added to the followers of a coroutine that is resuming them: the
\* loop of return_void goes over the vector itself.
FollowersAreSettled ==
  [][\A n \in DOMAIN frames :
       frames[n].at \in {"return", "done"} => frames'[n].follower = frames[n].follower]_vars

\* The loop of main() ends: every root comes to its end.
EveryRootFinishes == <>(\A r \in Roots : Finished(r))
=============================================================================
