---------------------------- MODULE CoroutineProofs ----------------------------
(***************************************************************************)
(* The safety of modules Tutorial and Generator.                           *)
(*                                                                         *)
(* Tutorial, for every set of roots and of tasks and any number of rounds: *)
(* the inductive invariant says how the call stack, the followers and the  *)
(* requests share out the frames.  A coroutine that has started and not    *)
(* ended is on the stack, follows the coroutine it has called, or has one  *)
(* request.                                                                *)
(*                                                                         *)
(* Generator, for every set of objects and numbers and any number of       *)
(* frames and loops: GeneratorTypeOK says what the data are; OwnerOK,      *)
(* YieldOK and StartOK are the inductive invariants of the three           *)
(* properties, in the order they are proved.                               *)
(***************************************************************************)
EXTENDS Tutorial, Generator, SequenceTheorems, FiniteSetTheorems, TLAPS

(* The tutorial *)

\* The types of a frame of a coroutine and of a pending request.
Places == {"start", "await", "resumed", "first", "second", "return", "done"}

FrameRecord ==
  [body : {"g", "h", "f"}, task : Tasks \cup {NoTask}, at : Places, sub : Nat,
   follower : Seq(Nat), next : Nat, res : [1 .. 2 -> Nat], final : Nat]

Request == [frame : Nat, result : {1, 2}]

\* Every variable keeps its type.
TypeOK ==
  /\ taskOf \in [Roots -> Tasks \cup {NoTask}]
  /\ frames \in Seq(FrameRecord) /\ stack \in Seq(Nat)
  /\ g_test_rpc_manager \in Seq(Request) /\ rpc_manager \in Seq(Request)
  /\ g_test_rpc_fake_data \in Nat

\* The frame n is running, or waits on the stack s of calls for one that runs.
OnStack(s, n) == \E i \in 1 .. Len(s) : s[i] = n

\* A coroutine is on the stack once; one that is not at work has called the
\* next one or resumes it as a follower.
StackOK ==
  /\ \A i \in 1 .. Len(stack) : stack[i] \in 1 .. Len(frames)
  /\ \A i, j \in 1 .. Len(stack) : stack[i] = stack[j] => i = j
  /\ \A i \in 1 .. Len(stack) - 1 : frames[stack[i]].at \in {"await", "return"}

\* The places in a body; only f() has a final value, after its return.
PlaceOK(fr) ==
  /\ fr.at \in {"start", "return", "done"} \cup IF fr.body = "f" THEN {"first", "second"}
                                                ELSE {"await", "resumed"}
  /\ fr.final > 0 => fr.body = "f" /\ fr.at \in {"return", "done"}

\* Every frame is at a place its coroutine has.
BodyOK == \A n \in 1 .. Len(frames) : PlaceOK(frames[n])

\* Nobody follows this coroutine yet.
Unfollowed(fr) == fr.follower = << >> /\ fr.next = 1

\* A coroutine that awaits another one that it has called finds it above it on
\* the stack, not far advanced, or suspended, and without a follower.
Awaits(fs, s, n) ==
  LET m == fs[n].sub
  IN /\ m \in 1 .. Len(fs) /\ Unfollowed(fs[m])
     /\ fs[m].body = IF fs[n].body = "g" THEN "h" ELSE "f"
     /\ \E i \in 1 .. Len(s) :
          /\ s[i] = n
          /\ i < Len(s) => s[i + 1] = m /\ fs[m].at \in {"start", "await"}
          /\ i = Len(s) => /\ ~ OnStack(s, m)
                           /\ fs[m].at = IF fs[n].body = "g" THEN "resumed" ELSE "first"

AwaitOK ==
  \A n \in 1 .. Len(frames) : frames[n].at = "await" => Awaits(frames, stack, n)

\* Frame n is the follower of frame m and has not been resumed.
Follows(n, m) ==
  /\ frames[m].follower = << n >> /\ frames[m].next = 1
  /\ n \in 1 .. Len(frames) /\ frames[n].sub = m
  /\ frames[n].at = "resumed" /\ ~ OnStack(stack, n)

\* The one follower of this coroutine has been resumed.
Served(fr) == Len(fr.follower) = 1 /\ fr.next = 2

\* A coroutine has at most one follower; who rests follows the one it has called.
FollowerOK ==
  /\ \A m \in 1 .. Len(frames) :
       \/ Unfollowed(frames[m])
       \/ \E n \in 1 .. Len(frames) : Follows(n, m)
       \/ Served(frames[m])
  /\ \A n \in 1 .. Len(frames) : frames[n].at = "resumed" /\ ~ OnStack(stack, n) =>
       \E m \in 1 .. Len(frames) : Follows(n, m)

\* The place a coroutine is at while it waits for a result.
PlaceOf(result) == IF result = 1 THEN "first" ELSE "second"

Asks(queue, n) == \E i \in 1 .. Len(queue) : queue[i].frame = n

\* The coroutines of a queue are suspended, each at the place of its request,
\* and each has one request.
QueueOK(queue, fs, s) ==
  /\ \A i \in 1 .. Len(queue) : /\ queue[i].frame \in 1 .. Len(fs)
                                /\ ~ OnStack(s, queue[i].frame)
                                /\ fs[queue[i].frame].at = PlaceOf(queue[i].result)
  /\ \A i, j \in 1 .. Len(queue) : queue[i].frame = queue[j].frame => i = j

\* A suspended f() has one request, in one of the two queues.
RequestOK ==
  /\ QueueOK(g_test_rpc_manager, frames, stack) /\ QueueOK(rpc_manager, frames, stack)
  /\ \A n : ~ (Asks(g_test_rpc_manager, n) /\ Asks(rpc_manager, n))
  /\ \A n \in 1 .. Len(frames) :
       frames[n].at \in {"first", "second"} /\ ~ OnStack(stack, n) =>
         Asks(g_test_rpc_manager, n) \/ Asks(rpc_manager, n)

\* The answers f() has got at each of its places.
Answered(fr, s, n, data) ==
  /\ fr.at = "second" \/ (fr.at = "first" /\ OnStack(s, n))
       => 0 < fr.res[1] /\ fr.res[1] <= data
  /\ fr.at \in {"return", "done"} \/ (fr.at = "second" /\ OnStack(s, n))
       => 0 < fr.res[1] /\ fr.res[1] < fr.res[2]

ResultOK ==
  \A n \in 1 .. Len(frames) : frames[n].body = "f" =>
    Answered(frames[n], stack, n, g_test_rpc_fake_data)

\* The inductive invariant.
IInv == TypeOK /\ StackOK /\ BodyOK /\ AwaitOK /\ FollowerOK /\ RequestOK /\ ResultOK
-----------------------------------------------------------------------------
\* The call stack without the coroutine that was at work.
LEMMA FrontOfSequence ==
  ASSUME NEW S, NEW s \in Seq(S), s # << >>
  PROVE  /\ Front(s) \in Seq(S) /\ Len(Front(s)) = Len(s) - 1 /\ Len(s) \in Nat \ {0}
         /\ \A i \in 1 .. Len(s) - 1 : Front(s)[i] = s[i]
<1>1. Len(s) \in Nat /\ Len(s) > 0
  BY LenProperties, EmptySeq
<1> DEFINE m == Len(s) - 1
<1>2. m \in Int /\ \A i \in 1 .. m : s[i] \in S
  BY <1>1, ElementOfSeq
<1>3. /\ SubSeq(s, 1, m) \in Seq(S) /\ Len(SubSeq(s, 1, m)) = IF 1 <= m THEN m - 1 + 1 ELSE 0
      /\ \A i \in 1 .. m - 1 + 1 : SubSeq(s, 1, m)[i] = s[1 + i - 1]
  BY <1>2, SubSeqProperties
<1>4. Front(s) = SubSeq(s, 1, m)
  BY DEF Front
<1> HIDE DEF m
<1>5. m \in Nat /\ m = Len(s) - 1
  BY <1>1 DEF m
<1>6. Len(Front(s)) = m
  BY <1>3, <1>4, <1>5
<1>7. \A i \in 1 .. m : Front(s)[i] = s[i]
  BY <1>3, <1>4, <1>5
<1>8. QED
  BY <1>1, <1>3, <1>4, <1>5, <1>6, <1>7

\* The coroutine at work is on the stack, above all others.
LEMMA Running ==
  ASSUME TypeOK, StackOK, stack # << >>
  PROVE  /\ Len(stack) \in Nat /\ Len(stack) > 0 /\ Len(frames) \in Nat
         /\ Top = stack[Len(stack)] /\ Top \in 1 .. Len(frames)
         /\ frames[Top] \in FrameRecord /\ OnStack(stack, Top)
         /\ \A i \in 1 .. Len(stack) - 1 : stack[i] # Top
<1>1. Len(stack) \in Nat /\ Len(stack) > 0 /\ Len(frames) \in Nat
  BY LenProperties, EmptySeq DEF TypeOK
<1>2. Top = stack[Len(stack)]
  BY DEF Top
<1>3. Top \in 1 .. Len(frames) /\ \A i \in 1 .. Len(stack) - 1 : stack[i] # Top
  BY <1>1, <1>2 DEF StackOK
<1>4. frames[Top] \in FrameRecord
  BY <1>3, ElementOfSeq DEF TypeOK
<1>5. OnStack(stack, Top)
  BY <1>1, <1>2 DEF OnStack
<1>6. QED
  BY <1>1, <1>2, <1>3, <1>4, <1>5

\* Suspending leaves the others on the stack.
LEMMA PopStep ==
  ASSUME TypeOK, StackOK, stack # << >>, stack' = Front(stack)
  PROVE  /\ stack' \in Seq(Nat) /\ Len(stack') = Len(stack) - 1
         /\ \A i \in 1 .. Len(stack) - 1 : stack'[i] = stack[i]
         /\ \A n : OnStack(stack', n) <=> OnStack(stack, n) /\ n # Top
<1>1. /\ stack' \in Seq(Nat) /\ Len(stack') = Len(stack) - 1
      /\ \A i \in 1 .. Len(stack) - 1 : stack'[i] = stack[i]
  BY FrontOfSequence DEF TypeOK
<1>2. ASSUME NEW n PROVE OnStack(stack', n) <=> OnStack(stack, n) /\ n # Top
  <2>1. \A i \in 1 .. Len(stack) : i \in 1 .. Len(stack) - 1 \/ i = Len(stack)
    BY Running
  <2>2. 1 .. Len(stack) - 1 \subseteq 1 .. Len(stack)
    BY Running
  <2>3. QED
    BY <1>1, <2>1, <2>2, Running DEF OnStack
<1>3. QED
  BY <1>1, <1>2

\* Calling or resuming puts a coroutine on the stack.
LEMMA PushStep ==
  ASSUME TypeOK, NEW x \in Nat, stack' = Append(stack, x)
  PROVE  /\ stack' \in Seq(Nat) /\ Len(stack') = Len(stack) + 1 /\ stack'[Len(stack) + 1] = x
         /\ \A i \in 1 .. Len(stack) : stack'[i] = stack[i]
         /\ \A n : OnStack(stack', n) <=> OnStack(stack, n) \/ n = x
<1>1. /\ stack' \in Seq(Nat) /\ Len(stack') = Len(stack) + 1 /\ stack'[Len(stack) + 1] = x
      /\ \A i \in 1 .. Len(stack) : stack'[i] = stack[i]
      /\ Len(stack) \in Nat
  BY AppendProperties, LenProperties DEF TypeOK
<1>2. \A i \in 1 .. Len(stack) + 1 : i \in 1 .. Len(stack) \/ i = Len(stack) + 1
  BY <1>1
<1>3. 1 .. Len(stack) \subseteq 1 .. Len(stack) + 1 /\ Len(stack) + 1 \in 1 .. Len(stack) + 1
  BY <1>1
<1>4. QED
  BY <1>1, <1>2, <1>3 DEF OnStack

\* One frame is changed.
LEMMA FrameStep ==
  ASSUME TypeOK, NEW n \in 1 .. Len(frames), NEW fr \in FrameRecord,
         frames' = [frames EXCEPT ![n] = fr]
  PROVE  /\ frames' \in Seq(FrameRecord) /\ Len(frames') = Len(frames) /\ frames'[n] = fr
         /\ \A k \in 1 .. Len(frames) : k # n => frames'[k] = frames[k]
BY ExceptSeq DEF TypeOK

\* A frame whose coroutine is at another place.
LEMMA PlaceOfFrame ==
  ASSUME NEW fr \in FrameRecord, NEW a \in Places
  PROVE  LET x == [fr EXCEPT !.at = a]
         IN /\ x \in FrameRecord /\ x.at = a /\ x.body = fr.body /\ x.sub = fr.sub
            /\ x.follower = fr.follower /\ x.next = fr.next /\ x.res = fr.res
            /\ x.final = fr.final
BY DEF FrameRecord

\* The requests that are put, read as sets.
LEMMA RequestsAreAsked ==
  ASSUME TypeOK
  PROVE  /\ \A q \in Requests :
              \/ \E i \in 1 .. Len(g_test_rpc_manager) : g_test_rpc_manager[i] = q
              \/ \E i \in 1 .. Len(rpc_manager) : rpc_manager[i] = q
         /\ \A i \in 1 .. Len(g_test_rpc_manager) : g_test_rpc_manager[i] \in Requests
         /\ \A i \in 1 .. Len(rpc_manager) : rpc_manager[i] \in Requests
<1>1. /\ DOMAIN g_test_rpc_manager = 1 .. Len(g_test_rpc_manager)
      /\ DOMAIN rpc_manager = 1 .. Len(rpc_manager)
  BY LenProperties DEF TypeOK
<1>2. /\ ToSet(g_test_rpc_manager) = {g_test_rpc_manager[i] : i \in 1 .. Len(g_test_rpc_manager)}
      /\ ToSet(rpc_manager) = {rpc_manager[i] : i \in 1 .. Len(rpc_manager)}
  BY <1>1 DEF ToSet
<1>3. QED
  BY <1>2 DEF Requests

\* A step that neither puts nor answers a request.
LEMMA RequestsStay ==
  ASSUME RequestOK, UNCHANGED <<g_test_rpc_manager, rpc_manager>>,
         Len(frames) \in Nat, Len(frames') \in Nat, Len(frames) <= Len(frames'),
         \A k \in 1 .. Len(frames) :
           frames[k].at \in {"first", "second"} /\ ~ OnStack(stack, k) =>
             frames'[k].at = frames[k].at /\ ~ OnStack(stack', k),
         \A k \in 1 .. Len(frames') :
           frames'[k].at \in {"first", "second"} /\ ~ OnStack(stack', k) =>
             /\ k \in 1 .. Len(frames)
             /\ frames[k].at \in {"first", "second"} /\ ~ OnStack(stack, k)
  PROVE  RequestOK'
<1>1. 1 .. Len(frames) \subseteq 1 .. Len(frames')
  OBVIOUS
<1>2. \A result : PlaceOf(result) \in {"first", "second"}
  BY DEF PlaceOf
<1>3. ASSUME NEW queue, QueueOK(queue, frames, stack) PROVE QueueOK(queue, frames', stack')
  BY <1>1, <1>2, <1>3 DEF QueueOK
<1>4. QED
  BY <1>3 DEF RequestOK

\* A step that neither adds nor resumes a follower.
LEMMA FollowersStay ==
  ASSUME FollowerOK, Len(frames) \in Nat, Len(frames') \in Nat, Len(frames) <= Len(frames'),
         \A k \in 1 .. Len(frames) : /\ frames'[k].follower = frames[k].follower
                                     /\ frames'[k].next = frames[k].next,
         \A k \in 1 .. Len(frames') : k \in 1 .. Len(frames) \/ Unfollowed(frames'[k]),
         \A k \in 1 .. Len(frames) :
           frames[k].at = "resumed" /\ ~ OnStack(stack, k) =>
             /\ frames'[k].at = "resumed" /\ frames'[k].sub = frames[k].sub
             /\ ~ OnStack(stack', k),
         \A k \in 1 .. Len(frames') :
           frames'[k].at = "resumed" /\ ~ OnStack(stack', k) =>
             k \in 1 .. Len(frames) /\ frames[k].at = "resumed" /\ ~ OnStack(stack, k)
  PROVE  FollowerOK'
<1> DEFINE FollowsNext(n, m) ==
             /\ frames'[m].follower = << n >> /\ frames'[m].next = 1
             /\ n \in 1 .. Len(frames') /\ frames'[n].sub = m
             /\ frames'[n].at = "resumed" /\ ~ OnStack(stack', n)
<1>1. 1 .. Len(frames) \subseteq 1 .. Len(frames')
  OBVIOUS
<1>2. \A m \in 1 .. Len(frames) : \A n : Follows(n, m) => FollowsNext(n, m)
  BY <1>1 DEF Follows
<1>3. \A m \in 1 .. Len(frames) : \/ Unfollowed(frames[m])
                                  \/ \E n \in 1 .. Len(frames) : Follows(n, m)
                                  \/ Served(frames[m])
  BY DEF FollowerOK
<1>4. \A m \in 1 .. Len(frames) : /\ Unfollowed(frames[m]) => Unfollowed(frames'[m])
                                  /\ Served(frames[m]) => Served(frames'[m])
  BY DEF Unfollowed, Served
<1>5. \A n \in 1 .. Len(frames) : frames[n].at = "resumed" /\ ~ OnStack(stack, n) =>
        \E m \in 1 .. Len(frames) : Follows(n, m)
  BY DEF FollowerOK
<1>6. \A m \in 1 .. Len(frames') : \/ Unfollowed(frames'[m])
                                   \/ \E n \in 1 .. Len(frames') : FollowsNext(n, m)
                                   \/ Served(frames'[m])
  BY <1>1, <1>2, <1>3, <1>4
<1>7. \A n \in 1 .. Len(frames') : frames'[n].at = "resumed" /\ ~ OnStack(stack', n) =>
        \E m \in 1 .. Len(frames') : FollowsNext(n, m)
  BY <1>1, <1>2, <1>5
<1>8. QED
  BY <1>6, <1>7 DEF FollowerOK, Follows
-----------------------------------------------------------------------------
\* The coroutine at work goes on to the start of its loop or to its return.
LEMMA GoesOn ==
  ASSUME IInv, stack # << >>, NEW a \in {"start", "return"}, UNCHANGED <<taskOf, stack, rpc>>,
         frames' \in Seq(FrameRecord), Len(frames') = Len(frames),
         \A k \in 1 .. Len(frames) : k # Top => frames'[k] = frames[k],
         frames'[Top].at = a, frames'[Top].body = frames[Top].body,
         frames'[Top].sub = frames[Top].sub, frames'[Top].follower = frames[Top].follower,
         frames'[Top].next = frames[Top].next, frames'[Top].res = frames[Top].res,
         frames'[Top].final = frames[Top].final \/ frames[Top].body = "f",
         frames[Top].body = "g" \/ frames[Top].at \notin {"start", "await"},
         frames[Top].body = "f" => frames[Top].at = "second" /\ a = "return"
  PROVE  IInv'
<1> USE DEF IInv
<1>0. /\ Len(stack) \in Nat /\ Len(stack) > 0 /\ Len(frames) \in Nat
      /\ Top = stack[Len(stack)] /\ Top \in 1 .. Len(frames)
      /\ frames[Top] \in FrameRecord /\ OnStack(stack, Top)
      /\ \A i \in 1 .. Len(stack) - 1 : stack[i] # Top
  BY Running
<1> HIDE DEF Top
<1>1. TypeOK'
  BY DEF TypeOK, rpc
<1>2. StackOK'
  <2>1. \A i \in 1 .. Len(stack) - 1 : stack[i] \in 1 .. Len(frames) /\ stack[i] # Top
    BY <1>0 DEF StackOK
  <2>2. QED
    BY <2>1 DEF StackOK
<1>3. BodyOK'
  <2>1. PlaceOK(frames'[Top])
    BY <1>0 DEF BodyOK, PlaceOK
  <2>2. QED
    BY <2>1 DEF BodyOK
<1>4. AwaitOK'
  <2> SUFFICES ASSUME NEW n \in 1 .. Len(frames), n # Top, frames[n].at = "await",
                      frames'[n] = frames[n]
               PROVE  Awaits(frames', stack', n)
    BY <1>0 DEF AwaitOK
  <2>1. PICK i \in 1 .. Len(stack) :
          /\ stack[i] = n
          /\ i < Len(stack) => /\ stack[i + 1] = frames[n].sub
                               /\ frames[frames[n].sub].at \in {"start", "await"}
    BY DEF AwaitOK, Awaits
  <2>2. i < Len(stack)
    BY <1>0, <2>1
  <2>3. /\ frames[n].sub \in 1 .. Len(frames) /\ Unfollowed(frames[frames[n].sub])
        /\ frames[frames[n].sub].body = IF frames[n].body = "g" THEN "h" ELSE "f"
    BY DEF AwaitOK, Awaits
  <2>4. frames[n].sub # Top
    BY <2>1, <2>2, <2>3
  <2>5. QED
    BY <2>1, <2>2, <2>3, <2>4 DEF Awaits
<1>5. FollowerOK'
  <2>1. \A k \in 1 .. Len(frames) : /\ frames'[k].follower = frames[k].follower
                                    /\ frames'[k].next = frames[k].next
    OBVIOUS
  <2>2. \A k \in 1 .. Len(frames) : ~ OnStack(stack, k) => frames'[k] = frames[k]
    BY <1>0
  <2>3. FollowerOK
    OBVIOUS
  <2> HIDE DEF IInv
  <2>4. QED
    BY <1>0, <2>1, <2>2, <2>3, FollowersStay
<1>6. RequestOK'
  <2>1. \A k \in 1 .. Len(frames) : ~ OnStack(stack, k) => frames'[k] = frames[k]
    BY <1>0
  <2>2. RequestOK /\ UNCHANGED <<g_test_rpc_manager, rpc_manager>>
    BY DEF rpc
  <2> HIDE DEF IInv
  <2>3. QED
    BY <1>0, <2>1, <2>2, RequestsStay
<1>7. ResultOK'
  <2>1. frames[Top].body = "f" =>
          Answered(frames'[Top], stack, Top, g_test_rpc_fake_data)
    BY <1>0 DEF ResultOK, Answered
  <2>2. QED
    BY <1>0, <2>1 DEF ResultOK, rpc
<1>8. QED
  BY <1>1, <1>2, <1>3, <1>4, <1>5, <1>6, <1>7

\* The coroutine at work suspends: what becomes of the stack and of the frames.
LEMMA Suspends ==
  ASSUME IInv, stack # << >>, NEW a \in {"resumed", "first", "second", "done"},
         stack' = Front(stack), UNCHANGED g_test_rpc_fake_data, Len(frames') = Len(frames),
         \A k \in 1 .. Len(frames) :
           /\ frames'[k].body = frames[k].body /\ frames'[k].sub = frames[k].sub
           /\ frames'[k].res = frames[k].res /\ frames'[k].final = frames[k].final
           /\ frames'[k].at = IF k = Top THEN a ELSE frames[k].at
           /\ OnStack(stack, k) => /\ frames'[k].follower = frames[k].follower
                                   /\ frames'[k].next = frames[k].next,
         a \in {"first", "second"} <=> frames[Top].body = "f" /\ a # "done",
         a = "done" <=> frames[Top].at \in {"return", "done"},
         a = "second" <=> frames[Top].at = "first"
  PROVE  StackOK' /\ BodyOK' /\ AwaitOK' /\ ResultOK'
<1> USE DEF IInv
<1>0. /\ Len(stack) \in Nat /\ Len(stack) > 0 /\ Len(frames) \in Nat
      /\ Top = stack[Len(stack)] /\ Top \in 1 .. Len(frames)
      /\ frames[Top] \in FrameRecord /\ OnStack(stack, Top)
      /\ \A i \in 1 .. Len(stack) - 1 : stack[i] # Top
  BY Running
<1> DEFINE L == Len(stack)
<1>1. /\ Len(stack') = L - 1
      /\ \A i \in 1 .. L - 1 : stack'[i] = stack[i] /\ i \in 1 .. L
      /\ \A n : OnStack(stack', n) <=> OnStack(stack, n) /\ n # Top
  BY <1>0, PopStep
<1> HIDE DEF Top
<1>2. StackOK'
  <2>1. \A i \in 1 .. L - 1 : stack'[i] \in 1 .. Len(frames')
    BY <1>1 DEF StackOK
  <2>2. \A i, j \in 1 .. L - 1 : stack'[i] = stack'[j] => i = j
    BY <1>1 DEF StackOK
  <2>3. \A i \in 1 .. L - 1 : frames[stack[i]].at \in {"await", "return"}
    BY <1>0 DEF StackOK
  <2>4. \A i \in 1 .. (L - 1) - 1 : frames'[stack'[i]].at \in {"await", "return"}
    <3> TAKE i \in 1 .. (L - 1) - 1
    <3>1. i \in 1 .. L - 1
      BY <1>0
    <3>2. stack[i] \in 1 .. Len(frames) /\ stack[i] # Top /\ stack'[i] = stack[i]
      BY <1>0, <1>1, <3>1 DEF StackOK
    <3>3. QED
      BY <2>3, <3>1, <3>2
  <2>5. QED
    BY <1>1, <2>1, <2>2, <2>4 DEF StackOK
<1>3. BodyOK'
  <2>1. PlaceOK(frames'[Top])
    BY <1>0 DEF BodyOK, PlaceOK
  <2>2. \A k \in 1 .. Len(frames) : k # Top => PlaceOK(frames'[k])
    BY DEF BodyOK, PlaceOK
  <2>3. QED
    BY <2>1, <2>2 DEF BodyOK
<1>4. AwaitOK'
  <2> SUFFICES ASSUME NEW n \in 1 .. Len(frames), n # Top, frames[n].at = "await"
               PROVE  Awaits(frames', stack', n)
    BY DEF AwaitOK
  <2> DEFINE c == frames[n].sub
  <2>1. PICK i \in 1 .. L :
          /\ stack[i] = n
          /\ i < L => stack[i + 1] = c /\ frames[c].at \in {"start", "await"}
    BY DEF AwaitOK, Awaits
  <2>2. i < L /\ i \in 1 .. L - 1 /\ i + 1 \in 1 .. L
    BY <1>0, <2>1
  <2>3. /\ c \in 1 .. Len(frames) /\ Unfollowed(frames[c])
        /\ frames[c].body = IF frames[n].body = "g" THEN "h" ELSE "f"
    BY DEF AwaitOK, Awaits
  <2>4. OnStack(stack, c)
    BY <2>1, <2>2 DEF OnStack
  <2>5. /\ frames'[n].sub = c /\ frames'[n].body = frames[n].body
        /\ frames'[c].body = frames[c].body /\ Unfollowed(frames'[c])
        /\ stack'[i] = n /\ c \in 1 .. Len(frames')
    BY <1>1, <2>1, <2>2, <2>3, <2>4 DEF Unfollowed
  <2>6. CASE i < L - 1
    <3>0. i + 1 \in 1 .. L - 1
      BY <1>0, <2>2, <2>6
    <3>1. i + 1 \in 1 .. L - 1 /\ stack'[i + 1] = c /\ c # Top
      BY <1>0, <1>1, <2>1, <2>2, <3>0
    <3>2. frames'[c].at \in {"start", "await"} /\ i \in 1 .. Len(stack') /\ i < Len(stack')
      BY <1>0, <1>1, <2>1, <2>2, <2>3, <2>6, <3>1
    <3>3. QED
      BY <2>3, <2>5, <3>1, <3>2 DEF Awaits
  <2>7. CASE i = L - 1
    <3>1. c = Top /\ i \in 1 .. Len(stack') /\ i = Len(stack') /\ ~ OnStack(stack', c)
      BY <1>0, <1>1, <2>1, <2>2, <2>7
    <3>2. frames[Top].at \in {"start", "await"} /\ frames[Top].body \in {"h", "f"}
      BY <2>1, <2>2, <2>3, <3>1
    <3>3. a \in {"resumed", "first"} /\ (a = "first" <=> frames[Top].body = "f")
      BY <3>2
    <3>4. frames'[c].at = IF frames[n].body = "g" THEN "resumed" ELSE "first"
      BY <2>3, <3>1, <3>3
    <3>5. QED
      BY <2>3, <2>5, <3>1, <3>4 DEF Awaits
  <2>8. QED
    BY <1>0, <2>2, <2>6, <2>7
<1>5. ResultOK'
  <2> SUFFICES ASSUME NEW n \in 1 .. Len(frames), frames[n].body = "f"
               PROVE  Answered(frames'[n], stack', n, g_test_rpc_fake_data)
    BY DEF ResultOK
  <2>1. Answered(frames[n], stack, n, g_test_rpc_fake_data)
    BY DEF ResultOK
  <2>2. CASE n = Top
    BY <1>0, <1>1, <2>1, <2>2 DEF Answered
  <2>3. CASE n # Top
    BY <1>1, <2>1, <2>3 DEF Answered
  <2>4. QED
    BY <2>2, <2>3
<1>6. QED
  BY <1>2, <1>3, <1>4, <1>5

\* A coroutine at work that has called another one finds it suspended.
LEMMA Awaited ==
  ASSUME IInv, stack # << >>, frames[Top].at = "await"
  PROVE  LET c == frames[Top].sub
         IN /\ c \in 1 .. Len(frames) /\ Unfollowed(frames[c])
            /\ ~ OnStack(stack, c) /\ c # Top
            /\ frames[Top].body # "f" /\ frames[c].at \in {"resumed", "first"}
            /\ frames[Top].body # "g" => frames[c].final = 0
<1> DEFINE c == frames[Top].sub
<1>0. /\ Len(stack) \in Nat /\ Top \in 1 .. Len(frames) /\ OnStack(stack, Top)
      /\ \A i \in 1 .. Len(stack) - 1 : stack[i] # Top
  BY Running DEF IInv
<1>1. Awaits(frames, stack, Top)
  BY <1>0 DEF IInv, AwaitOK
<1>2. PICK i \in 1 .. Len(stack) :
        /\ stack[i] = Top
        /\ i = Len(stack) => /\ ~ OnStack(stack, c)
                             /\ frames[c].at = IF frames[Top].body = "g" THEN "resumed"
                                               ELSE "first"
  BY <1>1 DEF Awaits
<1>3. i = Len(stack)
  BY <1>0, <1>2
<1>4. c \in 1 .. Len(frames) /\ Unfollowed(frames[c])
  BY <1>1 DEF Awaits
<1>5. frames[Top].body # "f"
  BY <1>0 DEF IInv, BodyOK, PlaceOK
<1>6. frames[Top].body # "g" => frames[c].final = 0
  <2>1. frames[c] \in FrameRecord /\ PlaceOK(frames[c])
    BY <1>4, ElementOfSeq DEF IInv, TypeOK, BodyOK
  <2>2. QED
    BY <1>2, <1>3, <2>1 DEF PlaceOK, FrameRecord
<1>7. QED
  BY <1>0, <1>2, <1>3, <1>4, <1>5, <1>6

\* g() and h() wait for the coroutine they have called.
LEMMA WaitsKeeps ==
  ASSUME IInv, stack # << >>, frames[Top].at = "await", UNCHANGED <<taskOf, rpc>>,
         SuspendIn(frames[Top].sub, "resumed")
  PROVE  IInv'
<1> DEFINE c == frames[Top].sub
           one == [frames[Top] EXCEPT !.at = "resumed"]
           two == [frames[c] EXCEPT !.follower = Append(@, Top)]
<1>0. /\ Len(stack) \in Nat /\ Len(stack) > 0 /\ Len(frames) \in Nat
      /\ Top \in 1 .. Len(frames) /\ frames[Top] \in FrameRecord /\ OnStack(stack, Top)
  BY Running DEF IInv
<1>1. /\ c \in 1 .. Len(frames) /\ Unfollowed(frames[c]) /\ frames[c] \in FrameRecord
      /\ ~ OnStack(stack, c) /\ c # Top /\ frames[Top].body # "f"
  BY Awaited, ElementOfSeq DEF IInv, TypeOK
<1>2. /\ one \in FrameRecord /\ one.at = "resumed" /\ one.body = frames[Top].body
      /\ one.sub = frames[Top].sub /\ one.follower = frames[Top].follower
      /\ one.next = frames[Top].next /\ one.res = frames[Top].res
      /\ one.final = frames[Top].final
  BY <1>0, PlaceOfFrame DEF Places
<1>3. /\ two \in FrameRecord /\ two.follower = << Top >> /\ two.body = frames[c].body
      /\ two.sub = frames[c].sub /\ two.at = frames[c].at
      /\ two.next = 1 /\ two.res = frames[c].res /\ two.final = frames[c].final
  <2>1. Append(frames[c].follower, Top) = << Top >> /\ << Top >> \in Seq(Nat)
    BY <1>0, <1>1 DEF Unfollowed
  <2>2. two = [frames[c] EXCEPT !.follower = << Top >>]
    BY <2>1
  <2> HIDE DEF two
  <2>3. QED
    BY <1>1, <2>1, <2>2 DEF FrameRecord, Unfollowed
<1>4. /\ frames' \in Seq(FrameRecord) /\ Len(frames') = Len(frames)
      /\ frames'[Top] = one /\ frames'[c] = two
      /\ \A k \in 1 .. Len(frames) : k # Top /\ k # c => frames'[k] = frames[k]
  <2> DEFINE fs == [frames EXCEPT ![Top] = one]
  <2>1. frames' = [fs EXCEPT ![c] = two]
    BY <1>0, <1>1 DEF SuspendIn
  <2> HIDE DEF one, two
  <2>2. /\ fs \in Seq(FrameRecord) /\ Len(fs) = Len(frames)
        /\ \A k \in 1 .. Len(frames) : fs[k] = IF k = Top THEN one ELSE frames[k]
    BY <1>0, <1>2, ExceptSeq DEF IInv, TypeOK
  <2> HIDE DEF fs
  <2>3. /\ frames' \in Seq(FrameRecord) /\ Len(frames') = Len(frames)
        /\ \A k \in 1 .. Len(frames) : frames'[k] = IF k = c THEN two ELSE fs[k]
    BY <1>1, <1>3, <2>1, <2>2, ExceptSeq
  <2>4. QED
    BY <1>0, <1>1, <2>2, <2>3
<1> HIDE DEF one, two, c
<1>5. /\ stack' \in Seq(Nat) /\ stack' = Front(stack)
      /\ \A n : OnStack(stack', n) <=> OnStack(stack, n) /\ n # Top
  BY PopStep DEF IInv, SuspendIn
<1>6. TypeOK'
  BY <1>4, <1>5 DEF IInv, TypeOK, rpc
<1>7. \A k \in 1 .. Len(frames) :
        /\ frames'[k].body = frames[k].body /\ frames'[k].sub = frames[k].sub
        /\ frames'[k].res = frames[k].res /\ frames'[k].final = frames[k].final
        /\ frames'[k].at = IF k = Top THEN "resumed" ELSE frames[k].at
        /\ k # c => frames'[k].follower = frames[k].follower /\ frames'[k].next = frames[k].next
  BY <1>1, <1>2, <1>3, <1>4
<1>8. StackOK' /\ BodyOK' /\ AwaitOK' /\ ResultOK'
  <2>1. \A k \in 1 .. Len(frames) :
          OnStack(stack, k) => /\ frames'[k].follower = frames[k].follower
                               /\ frames'[k].next = frames[k].next
    BY <1>1, <1>7 DEF c
  <2>2. UNCHANGED g_test_rpc_fake_data
    BY DEF rpc
  <2>3. QED
    BY <1>1, <1>4, <1>5, <1>7, <2>1, <2>2, Suspends
<1>9. RequestOK'
  <2>1. UNCHANGED <<g_test_rpc_manager, rpc_manager>> /\ RequestOK
    BY DEF rpc, IInv
  <2>2. QED
    BY <1>0, <1>4, <1>5, <1>7, <2>1, RequestsStay
<1>10. FollowerOK'
  <2> DEFINE FollowsNext(n, m) ==
               /\ frames'[m].follower = << n >> /\ frames'[m].next = 1
               /\ n \in 1 .. Len(frames) /\ frames'[n].sub = m
               /\ frames'[n].at = "resumed" /\ ~ OnStack(stack', n)
  <2>1. FollowsNext(Top, c)
    BY <1>0, <1>2, <1>3, <1>4, <1>5 DEF c
  <2>2. ASSUME NEW m \in 1 .. Len(frames), NEW n, Follows(n, m) PROVE FollowsNext(n, m)
    <3>1. m # c
      BY <1>1, <2>2, EmptySeq DEF Follows, Unfollowed, c
    <3>2. n # Top
      BY <1>0, <2>2 DEF Follows
    <3>3. QED
      BY <1>5, <1>7, <2>2, <3>1, <3>2 DEF Follows
  <2>3. \A m \in 1 .. Len(frames) : m # c =>
          /\ Unfollowed(frames[m]) => Unfollowed(frames'[m])
          /\ Served(frames[m]) => Served(frames'[m])
    BY <1>7 DEF Unfollowed, Served
  <2>4. \A m \in 1 .. Len(frames) : \/ Unfollowed(frames[m])
                                    \/ \E n \in 1 .. Len(frames) : Follows(n, m)
                                    \/ Served(frames[m])
    BY DEF IInv, FollowerOK
  <2>5. \A n \in 1 .. Len(frames) : frames[n].at = "resumed" /\ ~ OnStack(stack, n) =>
          \E m \in 1 .. Len(frames) : Follows(n, m)
    BY DEF IInv, FollowerOK
  <2>6. \A m \in 1 .. Len(frames) : \/ Unfollowed(frames'[m])
                                    \/ \E n \in 1 .. Len(frames) : FollowsNext(n, m)
                                    \/ Served(frames'[m])
    BY <1>0, <2>1, <2>2, <2>3, <2>4
  <2>7. \A n \in 1 .. Len(frames) : frames'[n].at = "resumed" /\ ~ OnStack(stack', n) =>
          \E m \in 1 .. Len(frames) : FollowsNext(n, m)
    <3> TAKE n \in 1 .. Len(frames)
    <3> HAVE frames'[n].at = "resumed" /\ ~ OnStack(stack', n)
    <3>1. CASE n = Top
      BY <1>1, <2>1, <3>1
    <3>2. CASE n # Top
      <4>1. PICK m \in 1 .. Len(frames) : Follows(n, m)
        BY <1>5, <1>7, <2>5, <3>2
      <4>2. QED
        BY <2>2, <4>1
    <3>3. QED
      BY <3>1, <3>2
  <2>8. QED
    BY <1>4, <2>6, <2>7 DEF FollowerOK, Follows
<1>11. QED
  BY <1>6, <1>8, <1>9, <1>10 DEF IInv

\* The coroutine at work goes to another place: each field of each frame.
LEMMA PlaceStep ==
  ASSUME TypeOK, StackOK, stack # << >>, NEW a \in Places, Suspend(a) \/ GoOn(a)
  PROVE  /\ frames' \in Seq(FrameRecord) /\ Len(frames') = Len(frames)
         /\ \A k \in 1 .. Len(frames) :
              /\ frames'[k].body = frames[k].body /\ frames'[k].sub = frames[k].sub
              /\ frames'[k].res = frames[k].res /\ frames'[k].final = frames[k].final
              /\ frames'[k].follower = frames[k].follower
              /\ frames'[k].next = frames[k].next
              /\ frames'[k].at = IF k = Top THEN a ELSE frames[k].at
              /\ k # Top => frames'[k] = frames[k]
<1> DEFINE fr == [frames[Top] EXCEPT !.at = a]
<1>1. frames[Top] \in FrameRecord /\ Top \in 1 .. Len(frames)
  BY Running
<1>2. /\ fr \in FrameRecord /\ fr.at = a /\ fr.body = frames[Top].body
      /\ fr.sub = frames[Top].sub /\ fr.follower = frames[Top].follower
      /\ fr.next = frames[Top].next /\ fr.res = frames[Top].res
      /\ fr.final = frames[Top].final
  BY <1>1, PlaceOfFrame
<1>3. frames' = [frames EXCEPT ![Top] = fr]
  BY DEF Suspend, GoOn
<1> HIDE DEF fr
<1>4. /\ frames' \in Seq(FrameRecord) /\ Len(frames') = Len(frames) /\ frames'[Top] = fr
      /\ \A k \in 1 .. Len(frames) : k # Top => frames'[k] = frames[k]
  BY <1>1, <1>2, <1>3, FrameStep
<1>5. QED
  BY <1>2, <1>4

\* f() asks for a result.
LEMMA YieldKeeps ==
  ASSUME IInv, stack # << >>, NEW r \in {1, 2}, frames[Top].body = "f",
         frames[Top].at = IF r = 1 THEN "start" ELSE "first",
         Suspend(PlaceOf(r)), UNCHANGED <<taskOf, rpc_manager, g_test_rpc_fake_data>>,
         g_test_rpc_manager' = Append(g_test_rpc_manager, [frame |-> Top, result |-> r])
  PROVE  IInv'
<1> DEFINE a == PlaceOf(r)
           l == Len(g_test_rpc_manager)
<1>0. /\ Len(frames) \in Nat /\ Top \in 1 .. Len(frames) /\ OnStack(stack, Top) /\ Top \in Nat
      /\ l \in Nat
  BY Running, LenProperties DEF IInv, TypeOK
<1>1. a \in {"first", "second"} /\ a \in Places /\ (a = "second" <=> r = 2)
  BY DEF PlaceOf, Places
<1>2. /\ frames' \in Seq(FrameRecord) /\ Len(frames') = Len(frames)
      /\ \A k \in 1 .. Len(frames) :
           /\ frames'[k].body = frames[k].body /\ frames'[k].sub = frames[k].sub
           /\ frames'[k].res = frames[k].res /\ frames'[k].final = frames[k].final
           /\ frames'[k].follower = frames[k].follower /\ frames'[k].next = frames[k].next
           /\ frames'[k].at = IF k = Top THEN a ELSE frames[k].at
  BY <1>1, PlaceStep DEF IInv
<1>3. /\ stack' \in Seq(Nat) /\ stack' = Front(stack)
      /\ \A n : OnStack(stack', n) <=> OnStack(stack, n) /\ n # Top
  BY PopStep DEF IInv, Suspend
<1>4. /\ g_test_rpc_manager' \in Seq(Request) /\ Len(g_test_rpc_manager') = l + 1
      /\ g_test_rpc_manager'[l + 1].frame = Top /\ g_test_rpc_manager'[l + 1].result = r
      /\ \A i \in 1 .. l : g_test_rpc_manager'[i] = g_test_rpc_manager[i]
  <2>1. [frame |-> Top, result |-> r] \in Request
    BY <1>0 DEF Request
  <2>2. QED
    BY <2>1, AppendProperties DEF IInv, TypeOK
<1> HIDE DEF a, l
<1>5. TypeOK'
  BY <1>2, <1>3, <1>4 DEF IInv, TypeOK
<1>6. StackOK' /\ BodyOK' /\ AwaitOK' /\ ResultOK'
  <2>1. /\ a \in {"first", "second"} <=> frames[Top].body = "f" /\ a # "done"
        /\ a = "done" <=> frames[Top].at \in {"return", "done"}
        /\ a = "second" <=> frames[Top].at = "first"
    BY <1>1
  <2>2. QED
    BY <1>1, <1>2, <1>3, <2>1, Suspends
<1>7. FollowerOK'
  BY <1>0, <1>1, <1>2, <1>3, FollowersStay DEF IInv
<1>8. RequestOK'
  <2>1. ASSUME NEW queue, QueueOK(queue, frames, stack)
        PROVE  /\ QueueOK(queue, frames', stack')
               /\ \A i \in 1 .. Len(queue) : queue[i].frame # Top
    <3>1. \A i \in 1 .. Len(queue) : queue[i].frame # Top
      BY <1>0, <2>1 DEF QueueOK
    <3>2. QED
      BY <1>2, <1>3, <2>1, <3>1 DEF QueueOK
  <2>2. /\ QueueOK(rpc_manager, frames', stack') /\ ~ Asks(rpc_manager, Top)
        /\ QueueOK(g_test_rpc_manager, frames', stack') /\ ~ Asks(g_test_rpc_manager, Top)
    BY <2>1 DEF IInv, RequestOK, Asks
  <2>3. \A i \in 1 .. l + 1 : i \in 1 .. l \/ i = l + 1
    BY <1>0
  <2>4. l = Len(g_test_rpc_manager) /\ 1 .. l \subseteq 1 .. l + 1 /\ l + 1 \in 1 .. l + 1
    BY <1>0 DEF l
  <2>5. QueueOK(g_test_rpc_manager', frames', stack')
    <3>1. ASSUME NEW i \in 1 .. l + 1
          PROVE  /\ g_test_rpc_manager'[i].frame \in 1 .. Len(frames')
                 /\ ~ OnStack(stack', g_test_rpc_manager'[i].frame)
                 /\ frames'[g_test_rpc_manager'[i].frame].at
                      = PlaceOf(g_test_rpc_manager'[i].result)
      <4>1. CASE i \in 1 .. l
        BY <1>4, <2>2, <2>4, <4>1 DEF QueueOK
      <4>2. CASE i = l + 1
        BY <1>0, <1>2, <1>3, <1>4, <4>2 DEF a
      <4>3. QED
        BY <2>3, <4>1, <4>2
    <3>2. \A i, j \in 1 .. l + 1 :
            g_test_rpc_manager'[i].frame = g_test_rpc_manager'[j].frame => i = j
      BY <1>4, <2>2, <2>3, <2>4 DEF QueueOK, Asks
    <3>3. QED
      BY <1>4, <3>1, <3>2 DEF QueueOK
  <2>6. \A n : Asks(g_test_rpc_manager', n) <=> Asks(g_test_rpc_manager, n) \/ n = Top
    BY <1>4, <2>3, <2>4 DEF Asks
  <2>7. \A n : ~ (Asks(g_test_rpc_manager', n) /\ Asks(rpc_manager, n))
    BY <2>2, <2>6 DEF IInv, RequestOK
  <2>8. \A n \in 1 .. Len(frames) :
          frames'[n].at \in {"first", "second"} /\ ~ OnStack(stack', n) =>
            Asks(g_test_rpc_manager', n) \/ Asks(rpc_manager, n)
    BY <1>2, <1>3, <2>6 DEF IInv, RequestOK
  <2>9. QED
    BY <1>2, <2>2, <2>5, <2>7, <2>8 DEF RequestOK
<1>9. QED
  BY <1>5, <1>6, <1>7, <1>8 DEF IInv

\* A coroutine that has resumed its followers suspends for good.
LEMMA EndKeeps ==
  ASSUME IInv, EndOfFollowers
  PROVE  IInv'
<1>0. /\ Len(frames) \in Nat /\ Top \in 1 .. Len(frames) /\ OnStack(stack, Top)
      /\ stack # << >> /\ frames[Top].at = "return" /\ UNCHANGED <<taskOf, rpc>>
      /\ "done" \in Places
  BY Running DEF IInv, EndOfFollowers, tasks, Places
<1>1. /\ frames' \in Seq(FrameRecord) /\ Len(frames') = Len(frames)
      /\ \A k \in 1 .. Len(frames) :
           /\ frames'[k].body = frames[k].body /\ frames'[k].sub = frames[k].sub
           /\ frames'[k].res = frames[k].res /\ frames'[k].final = frames[k].final
           /\ frames'[k].follower = frames[k].follower /\ frames'[k].next = frames[k].next
           /\ frames'[k].at = IF k = Top THEN "done" ELSE frames[k].at
  BY <1>0, PlaceStep DEF EndOfFollowers, IInv
<1>2. /\ stack' \in Seq(Nat) /\ stack' = Front(stack)
      /\ \A n : OnStack(stack', n) <=> OnStack(stack, n) /\ n # Top
  BY <1>0, PopStep DEF IInv, EndOfFollowers, Suspend
<1>3. TypeOK'
  BY <1>0, <1>1, <1>2 DEF IInv, TypeOK, rpc
<1>4. StackOK' /\ BodyOK' /\ AwaitOK' /\ ResultOK'
  BY <1>0, <1>1, <1>2, Suspends DEF rpc
<1>5. FollowerOK'
  <2>1. FollowerOK
    BY DEF IInv
  <2>2. QED
    BY <1>0, <1>1, <1>2, <2>1, FollowersStay
<1>6. RequestOK'
  <2>1. RequestOK /\ UNCHANGED <<g_test_rpc_manager, rpc_manager>>
    BY <1>0 DEF IInv, rpc
  <2>2. \A k \in 1 .. Len(frames) :
          frames[k].at \in {"first", "second"} /\ ~ OnStack(stack, k) <=>
            frames'[k].at \in {"first", "second"} /\ ~ OnStack(stack', k)
    BY <1>0, <1>1, <1>2
  <2>3. \A k \in 1 .. Len(frames) :
          frames[k].at \in {"first", "second"} /\ ~ OnStack(stack, k) =>
            frames'[k].at = frames[k].at
    BY <1>0, <1>1, <1>2
  <2>4. QED
    BY <1>0, <1>1, <2>1, <2>2, <2>3, RequestsStay
<1>7. QED
  BY <1>3, <1>4, <1>5, <1>6 DEF IInv

\* A new coroutine of body b starts.
LEMMA NewFrame ==
  ASSUME TypeOK, NEW fs \in Seq(FrameRecord), Len(fs) = Len(frames),
         NEW b \in {"g", "h", "f"}, NEW task \in Tasks \cup {NoTask},
         frames' = Append(fs, Frame(b, task))
  PROVE  LET new == frames'[Len(frames) + 1]
         IN /\ frames' \in Seq(FrameRecord) /\ Len(frames') = Len(frames) + 1
            /\ \A k \in 1 .. Len(frames) : frames'[k] = fs[k]
            /\ new.body = b /\ new.at = "start" /\ Unfollowed(new) /\ new.final = 0
<1> DEFINE fr == Frame(b, task)
<1>1. /\ fr \in FrameRecord /\ fr.body = b /\ fr.at = "start" /\ fr.final = 0
      /\ fr.follower = << >> /\ fr.next = 1
  <2>1. << >> \in Seq(Nat) /\ <<0, 0>> \in [1 .. 2 -> Nat] /\ "start" \in Places
    BY EmptySeq DEF Places
  <2>2. QED
    BY <2>1 DEF Frame, FrameRecord
<1>2. frames' = Append(fs, fr)
  OBVIOUS
<1> HIDE DEF fr
<1>3. /\ frames' \in Seq(FrameRecord) /\ Len(frames') = Len(frames) + 1
      /\ \A k \in 1 .. Len(frames) : frames'[k] = fs[k]
      /\ frames'[Len(frames) + 1] = fr
  BY <1>1, <1>2, AppendProperties
<1>4. QED
  BY <1>1, <1>3 DEF Unfollowed

\* main() calls g().
LEMMA CallRootKeeps ==
  ASSUME IInv, NEW r \in Roots, CallRoot(r)
  PROVE  IInv'
<1> DEFINE N == Len(frames)
<1>1. /\ stack = << >> /\ Len(stack) = 0 /\ N \in Nat /\ frames \in Seq(FrameRecord)
      /\ UNCHANGED <<taskOf, rpc>>
  BY EmptySeq, LenProperties DEF CallRoot, IInv, TypeOK, tasks
<1>2. /\ frames' \in Seq(FrameRecord) /\ Len(frames') = N + 1
      /\ \A k \in 1 .. N : frames'[k] = frames[k]
      /\ frames'[N + 1].body = "g" /\ frames'[N + 1].at = "start"
      /\ Unfollowed(frames'[N + 1]) /\ frames'[N + 1].final = 0
  <2>1. taskOf[r] \in Tasks \cup {NoTask} /\ frames' = Append(frames, Frame("g", taskOf[r]))
    BY DEF CallRoot, IInv, TypeOK
  <2>2. QED
    BY <1>1, <2>1, NewFrame DEF IInv
<1>3. /\ stack' \in Seq(Nat) /\ Len(stack') = 1 /\ stack'[1] = N + 1
      /\ \A n : ~ OnStack(stack, n) /\ (OnStack(stack', n) <=> n = N + 1)
  <2>1. stack' = << N + 1 >>
    BY DEF CallRoot
  <2>2. stack' \in Seq(Nat) /\ Len(stack') = 1 /\ stack'[1] = N + 1
    BY <1>1, <2>1
  <2>3. \A i \in 1 .. 1 : i = 1
    OBVIOUS
  <2>4. QED
    BY <1>1, <2>2, <2>3 DEF OnStack
<1> HIDE DEF N
<1>4. \A k \in 1 .. N + 1 : k \in 1 .. N \/ k = N + 1
  BY <1>1
<1>5. TypeOK'
  BY <1>1, <1>2, <1>3 DEF IInv, TypeOK, rpc
<1>6. StackOK'
  <2>1. N + 1 \in 1 .. N + 1 /\ \A i \in 1 .. 1 : i = 1
    BY <1>1
  <2>2. QED
    BY <1>2, <1>3, <2>1 DEF StackOK
<1>7. BodyOK'
  <2>1. PlaceOK(frames'[N + 1])
    BY <1>2 DEF PlaceOK
  <2>2. QED
    BY <1>2, <1>4, <2>1 DEF IInv, BodyOK, N
<1>8. AwaitOK'
  <2>1. \A n \in 1 .. N : frames[n].at # "await"
    BY <1>1 DEF IInv, AwaitOK, Awaits, N
  <2>2. QED
    BY <1>2, <1>4, <2>1 DEF AwaitOK
<1>9. FollowerOK'
  BY <1>1, <1>2, <1>3, <1>4, FollowersStay DEF IInv, N
<1>10. RequestOK'
  BY <1>1, <1>2, <1>3, <1>4, RequestsStay DEF IInv, N, rpc
<1>11. ResultOK'
  <2>1. \A n \in 1 .. N : frames[n].body = "f" =>
          Answered(frames[n], stack, n, g_test_rpc_fake_data)
    BY DEF IInv, ResultOK, N
  <2>2. \A n \in 1 .. N : frames'[n].body = "f" =>
          Answered(frames'[n], stack', n, g_test_rpc_fake_data)
    <3> SUFFICES ASSUME NEW n \in 1 .. N, frames'[n].body = "f"
                 PROVE  Answered(frames'[n], stack', n, g_test_rpc_fake_data)
      OBVIOUS
    <3>1. frames[n].body = "f" BY <1>1, <1>2, <1>3
    <3>2. Answered(frames[n], stack, n, g_test_rpc_fake_data) BY <2>1, <3>1
    <3> QED BY <1>1, <1>2, <1>3, <3>2 DEF Answered
  <2>3. QED
    BY <1>1, <1>2, <1>4, <2>2 DEF ResultOK, rpc
<1>12. QED
  BY <1>5, <1>6, <1>7, <1>8, <1>9, <1>10, <1>11 DEF IInv

\* g() calls h(), h() calls f().
LEMMA CallKeeps ==
  ASSUME IInv, stack # << >>, frames[Top].at = "start", NEW b \in {"h", "f"},
         frames[Top].body = IF b = "h" THEN "g" ELSE "h",
         Call(b, "await"), UNCHANGED <<taskOf, rpc>>
  PROVE  IInv'
<1> DEFINE N == Len(frames)
           L == Len(stack)
           one == [frames[Top] EXCEPT !.at = "await", !.sub = N + 1]
           fs == [frames EXCEPT ![Top] = one]
<1>0. /\ L \in Nat /\ L > 0 /\ N \in Nat /\ Top = stack[L] /\ Top \in 1 .. N
      /\ frames[Top] \in FrameRecord /\ OnStack(stack, Top)
      /\ \A i \in 1 .. L - 1 : stack[i] # Top
  BY Running DEF IInv
<1>1. /\ one \in FrameRecord /\ one.at = "await" /\ one.body = frames[Top].body
      /\ one.sub = N + 1 /\ one.follower = frames[Top].follower
      /\ one.next = frames[Top].next /\ one.res = frames[Top].res
      /\ one.final = frames[Top].final
  <2>1. N + 1 \in Nat
    BY <1>0
  <2> HIDE DEF N
  <2>2. QED
    BY <1>0, <2>1 DEF FrameRecord, Places
<1>2. /\ fs \in Seq(FrameRecord) /\ Len(fs) = N /\ fs[Top] = one
      /\ \A k \in 1 .. N : k # Top => fs[k] = frames[k]
  <2> HIDE DEF one
  <2>1. QED
    BY <1>0, <1>1, ExceptSeq DEF IInv, TypeOK
<1>3. frames' = Append(fs, Frame(b, frames[Top].task))
      /\ frames[Top].task \in Tasks \cup {NoTask}
  BY <1>0 DEF Call, FrameRecord
<1>4. N = Len(frames) /\ L = Len(stack)
  OBVIOUS
<1> HIDE DEF one, fs
<1>5. /\ frames' \in Seq(FrameRecord) /\ Len(frames') = N + 1
      /\ frames'[Top] = one /\ \A k \in 1 .. N : k # Top => frames'[k] = frames[k]
      /\ frames'[N + 1].body = b /\ frames'[N + 1].at = "start"
      /\ Unfollowed(frames'[N + 1]) /\ frames'[N + 1].final = 0
  <2>1. /\ frames' \in Seq(FrameRecord) /\ Len(frames') = N + 1
        /\ \A k \in 1 .. N : frames'[k] = fs[k]
        /\ frames'[N + 1].body = b /\ frames'[N + 1].at = "start"
        /\ Unfollowed(frames'[N + 1]) /\ frames'[N + 1].final = 0
    BY <1>2, <1>3, NewFrame DEF IInv
  <2>2. QED
    BY <1>0, <1>2, <2>1
<1>6. /\ stack' \in Seq(Nat) /\ Len(stack') = L + 1 /\ stack'[L + 1] = N + 1
      /\ \A i \in 1 .. L : stack'[i] = stack[i]
      /\ \A n : OnStack(stack', n) <=> OnStack(stack, n) \/ n = N + 1
  <2>1. stack' = Append(stack, N + 1) /\ N + 1 \in Nat
    BY <1>0 DEF Call
  <2> HIDE DEF N
  <2>2. QED
    BY <2>1, PushStep DEF IInv
<1> HIDE DEF N, L
<1>7. /\ \A k \in 1 .. N + 1 : k \in 1 .. N \/ k = N + 1
      /\ \A i \in 1 .. L + 1 : i \in 1 .. L \/ i = L + 1
      /\ \A i \in 1 .. L : i \in 1 .. L - 1 \/ i = L
      /\ L \in 1 .. L + 1
      /\ 1 .. N \subseteq 1 .. N + 1 /\ N + 1 \in 1 .. N + 1 /\ N + 1 \notin 1 .. N
      /\ 1 .. L \subseteq 1 .. L + 1 /\ (L + 1) - 1 = L
  BY <1>0
<1>8. \A k \in 1 .. N :
        /\ frames'[k].body = frames[k].body /\ frames'[k].follower = frames[k].follower
        /\ frames'[k].next = frames[k].next /\ frames'[k].res = frames[k].res
        /\ frames'[k].final = frames[k].final
        /\ frames'[k].at = IF k = Top THEN "await" ELSE frames[k].at
        /\ frames'[k].sub = IF k = Top THEN N + 1 ELSE frames[k].sub
  BY <1>1, <1>5
<1>9. TypeOK'
  BY <1>5, <1>6 DEF IInv, TypeOK, rpc
<1>10. StackOK'
  <2>1. /\ \A i \in 1 .. L : stack[i] \in 1 .. N
        /\ \A i, j \in 1 .. L : stack[i] = stack[j] => i = j
        /\ \A i \in 1 .. L - 1 : frames[stack[i]].at \in {"await", "return"}
    BY <1>4 DEF IInv, StackOK
  <2>2. \A i \in 1 .. L + 1 : stack'[i] \in 1 .. N + 1
    BY <1>6, <1>7, <2>1
  <2>3. \A i, j \in 1 .. L + 1 : stack'[i] = stack'[j] => i = j
    BY SMTT(30), <1>6, <1>7, <2>1
  <2>4. \A i \in 1 .. L : frames'[stack'[i]].at \in {"await", "return"}
    BY SMTT(30), <1>0, <1>6, <1>7, <1>8, <2>1
  <2>5. QED
    BY <1>5, <1>6, <1>7, <2>2, <2>3, <2>4 DEF StackOK
<1>11. BodyOK'
  <2>1. PlaceOK(frames'[N + 1])
    BY <1>5 DEF PlaceOK
  <2>2. \A n \in 1 .. N : PlaceOK(frames[n])
    BY <1>4 DEF IInv, BodyOK
  <2>3. \A n \in 1 .. N : PlaceOK(frames'[n])
    BY <1>0, <1>8, <2>2 DEF PlaceOK
  <2>4. QED
    BY <1>5, <1>7, <2>1, <2>3 DEF BodyOK
<1>12. AwaitOK'
  <2>1. Awaits(frames', stack', Top)
    <3>1. /\ frames'[Top].sub = N + 1 /\ frames'[Top].body = frames[Top].body
          /\ stack'[L] = Top /\ L \in 1 .. Len(stack') /\ L < Len(stack')
          /\ stack'[L + 1] = N + 1 /\ N + 1 \in 1 .. Len(frames')
      BY <1>0, <1>5, <1>6, <1>7, <1>8
    <3>2. frames'[N + 1].body = IF frames'[Top].body = "g" THEN "h" ELSE "f"
      BY <1>5, <3>1
    <3>3. QED
      BY <1>5, <3>1, <3>2 DEF Awaits
  <2>2. ASSUME NEW n \in 1 .. N, n # Top, frames[n].at = "await"
        PROVE  Awaits(frames', stack', n)
    <3> DEFINE c == frames[n].sub
    <3>1. Awaits(frames, stack, n)
      BY <1>4, <2>2 DEF IInv, AwaitOK
    <3>2. PICK i \in 1 .. L :
            /\ stack[i] = n
            /\ i < L => stack[i + 1] = c /\ frames[c].at \in {"start", "await"}
      BY <1>4, <3>1 DEF Awaits
    <3>3. i < L /\ i + 1 \in 1 .. L /\ i \in 1 .. L + 1 /\ i < L + 1
      BY <1>0, <2>2, <3>2
    <3>4. /\ c \in 1 .. N /\ Unfollowed(frames[c])
          /\ frames[c].body = IF frames[n].body = "g" THEN "h" ELSE "f"
      BY <1>4, <3>1 DEF Awaits
    <3>5. /\ frames'[n].sub = c /\ frames'[n].body = frames[n].body
          /\ frames'[c].body = frames[c].body /\ Unfollowed(frames'[c])
          /\ frames'[c].at \in {"start", "await"} /\ c \in 1 .. Len(frames')
      BY <1>5, <1>7, <1>8, <2>2, <3>2, <3>3, <3>4 DEF Unfollowed
    <3>6. stack'[i] = n /\ stack'[i + 1] = c /\ i \in 1 .. Len(stack') /\ i # Len(stack')
      BY <1>0, <1>6, <3>2, <3>3
    <3> HIDE DEF c
    <3>7. QED
      BY <3>4, <3>5, <3>6 DEF Awaits
  <2>3. QED
    BY <1>5, <1>7, <1>8, <2>1, <2>2 DEF AwaitOK
<1>13. FollowerOK'
  <2>1. FollowerOK
    BY DEF IInv
  <2>2. \A k \in 1 .. N : frames[k].at = "resumed" /\ ~ OnStack(stack, k) =>
          /\ frames'[k].at = "resumed" /\ frames'[k].sub = frames[k].sub
          /\ ~ OnStack(stack', k)
    BY <1>0, <1>6, <1>7, <1>8
  <2>3. \A k \in 1 .. N + 1 : frames'[k].at = "resumed" /\ ~ OnStack(stack', k) =>
          k \in 1 .. N /\ frames[k].at = "resumed" /\ ~ OnStack(stack, k)
    BY <1>5, <1>6, <1>7, <1>8
  <2>4. QED
    BY <1>0, <1>4, <1>5, <1>7, <1>8, <2>1, <2>2, <2>3, FollowersStay
<1>14. RequestOK'
  <2>1. RequestOK /\ UNCHANGED <<g_test_rpc_manager, rpc_manager>>
    BY DEF IInv, rpc
  <2>2. \A k \in 1 .. N : frames[k].at \in {"first", "second"} /\ ~ OnStack(stack, k) =>
          frames'[k].at = frames[k].at /\ ~ OnStack(stack', k)
    BY <1>0, <1>6, <1>7, <1>8
  <2>3. \A k \in 1 .. N + 1 : frames'[k].at \in {"first", "second"} /\ ~ OnStack(stack', k) =>
          k \in 1 .. N /\ frames[k].at \in {"first", "second"} /\ ~ OnStack(stack, k)
    BY <1>5, <1>6, <1>7, <1>8
  <2>4. QED
    BY <1>0, <1>4, <1>5, <2>1, <2>2, <2>3, RequestsStay
<1>15. ResultOK'
  <2>1. \A n \in 1 .. N : frames[n].body = "f" =>
          Answered(frames[n], stack, n, g_test_rpc_fake_data)
    BY <1>4 DEF IInv, ResultOK
  <2>2. \A n \in 1 .. N : frames'[n].body = "f" =>
          Answered(frames'[n], stack', n, g_test_rpc_fake_data)
    <3> TAKE n \in 1 .. N
    <3> HAVE frames'[n].body = "f"
    <3>1. n # Top /\ frames'[n] = frames[n] /\ Answered(frames[n], stack, n, g_test_rpc_fake_data)
      BY <1>5, <1>8, <2>1
    <3>2. OnStack(stack', n) <=> OnStack(stack, n)
      BY <1>6, <1>7
    <3>3. QED
      BY <3>1, <3>2 DEF Answered
  <2>3. Answered(frames'[N + 1], stack', N + 1, g_test_rpc_fake_data)
    BY <1>5 DEF Answered
  <2>4. QED
    BY <1>5, <1>7, <2>2, <2>3 DEF ResultOK, rpc
<1>16. QED
  BY <1>9, <1>10, <1>11, <1>12, <1>13, <1>14, <1>15 DEF IInv

\* A coroutine that has returned resumes its follower.
LEMMA ResumeFollowerKeeps ==
  ASSUME IInv, ResumeFollower
  PROVE  IInv'
<1> DEFINE N == Len(frames)
           L == Len(stack)
           one == [frames[Top] EXCEPT !.next = @ + 1]
<1>0. /\ L \in Nat /\ L > 0 /\ N \in Nat /\ Top = stack[L] /\ Top \in 1 .. N
      /\ frames[Top] \in FrameRecord /\ OnStack(stack, Top) /\ stack # << >>
      /\ \A i \in 1 .. L - 1 : stack[i] # Top
      /\ frames[Top].at = "return" /\ UNCHANGED <<taskOf, rpc>>
      /\ N = Len(frames) /\ L = Len(stack)
  BY Running DEF IInv, ResumeFollower, tasks
<1>1. PICK x \in 1 .. N : Follows(x, Top)
  <2>1. frames[Top].next <= Len(frames[Top].follower)
    BY DEF ResumeFollower
  <2>2. ~ Unfollowed(frames[Top]) /\ ~ Served(frames[Top])
    <3>1. Len(<< >>) = 0
      OBVIOUS
    <3>2. ~ Unfollowed(frames[Top])
      BY <2>1, <3>1 DEF Unfollowed
    <3>3. ~ Served(frames[Top])
      <4> SUFFICES ASSUME Served(frames[Top]) PROVE FALSE
        OBVIOUS
      <4>1. Len(frames[Top].follower) = 1 /\ frames[Top].next = 2
        BY DEF Served
      <4>2. QED
        BY <2>1, <4>1
    <3>4. QED
      BY <3>2, <3>3
  <2>3. QED
    BY <1>0, <2>2 DEF IInv, FollowerOK
<1>2. /\ frames[Top].follower = << x >> /\ frames[Top].next = 1 /\ x \in Nat
      /\ frames[x].sub = Top /\ frames[x].at = "resumed" /\ ~ OnStack(stack, x)
      /\ frames[x].body # "f"
  BY <1>1 DEF Follows, IInv, BodyOK, PlaceOK
<1>3. /\ one \in FrameRecord /\ one.at = frames[Top].at /\ one.body = frames[Top].body
      /\ one.sub = frames[Top].sub /\ one.follower = << x >> /\ one.next = 2
      /\ one.res = frames[Top].res /\ one.final = frames[Top].final
  <2>1. one = [frames[Top] EXCEPT !.next = 2]
    BY <1>0, <1>2 DEF FrameRecord
  <2> HIDE DEF one
  <2>2. QED
    BY <1>0, <1>2, <2>1 DEF FrameRecord
<1>4. /\ frames' \in Seq(FrameRecord) /\ Len(frames') = N /\ frames'[Top] = one
      /\ \A k \in 1 .. N : k # Top => frames'[k] = frames[k]
  <2>1. frames' = [frames EXCEPT ![Top] = one]
    BY DEF ResumeFollower
  <2> HIDE DEF one
  <2>2. QED
    BY <1>0, <1>3, <2>1, FrameStep DEF IInv
<1>5. /\ stack' \in Seq(Nat) /\ Len(stack') = L + 1 /\ stack'[L + 1] = x
      /\ \A i \in 1 .. L : stack'[i] = stack[i]
      /\ \A n : OnStack(stack', n) <=> OnStack(stack, n) \/ n = x
  <2>1. stack' = Append(stack, x)
    BY <1>2 DEF ResumeFollower
  <2>2. QED
    BY <1>2, <2>1, PushStep DEF IInv
<1> HIDE DEF N, L, one
<1>6. /\ \A i \in 1 .. L + 1 : i \in 1 .. L \/ i = L + 1
      /\ \A i \in 1 .. L : i \in 1 .. L - 1 \/ i = L
      /\ 1 .. L \subseteq 1 .. L + 1 /\ L + 1 \in 1 .. L + 1 /\ (L + 1) - 1 = L
  BY <1>0
<1>7. \A k \in 1 .. N :
        /\ frames'[k].body = frames[k].body /\ frames'[k].sub = frames[k].sub
        /\ frames'[k].res = frames[k].res /\ frames'[k].final = frames[k].final
        /\ frames'[k].follower = frames[k].follower /\ frames'[k].at = frames[k].at
        /\ frames'[k].next = IF k = Top THEN 2 ELSE frames[k].next
  BY <1>2, <1>3, <1>4
<1>8. TypeOK'
  BY <1>0, <1>4, <1>5 DEF IInv, TypeOK, rpc
<1>9. StackOK'
  <2>1. /\ \A i \in 1 .. L : stack[i] \in 1 .. N /\ stack[i] # x
        /\ \A i, j \in 1 .. L : stack[i] = stack[j] => i = j
        /\ \A i \in 1 .. L - 1 : frames[stack[i]].at \in {"await", "return"}
    BY <1>0, <1>2 DEF IInv, StackOK, OnStack
  <2>2. \A i \in 1 .. L + 1 : stack'[i] \in 1 .. N
    BY <1>1, <1>5, <1>6, <2>1
  <2>3. \A i, j \in 1 .. L + 1 : stack'[i] = stack'[j] => i = j
    BY <1>5, <1>6, <2>1
  <2>4. \A i \in 1 .. L : frames'[stack'[i]].at \in {"await", "return"}
    <3>1. TAKE i \in 1 .. L
    <3>2. stack'[i] = stack[i] /\ stack[i] \in 1 .. N
      BY <1>5, <2>1
    <3>3. frames'[stack'[i]].at = frames[stack[i]].at
      BY <1>7, <3>2
    <3>4. CASE i = L
      BY <1>0, <3>3, <3>4
    <3>5. CASE i # L
      BY <1>6, <2>1, <3>3, <3>5
    <3>6. QED
      BY <3>4, <3>5
  <2>5. QED
    BY <1>4, <1>5, <1>6, <2>2, <2>3, <2>4 DEF StackOK
<1>10. BodyOK'
  BY <1>0, <1>4, <1>7 DEF IInv, BodyOK, PlaceOK
<1>11. AwaitOK'
  <2> SUFFICES ASSUME NEW n \in 1 .. N, frames[n].at = "await"
               PROVE  Awaits(frames', stack', n)
    BY <1>4, <1>7 DEF AwaitOK
  <2> DEFINE c == frames[n].sub
  <2>1. Awaits(frames, stack, n) /\ n # Top
    BY <1>0 DEF IInv, AwaitOK
  <2>2. PICK i \in 1 .. L :
          /\ stack[i] = n
          /\ i < L => stack[i + 1] = c /\ frames[c].at \in {"start", "await"}
    BY <1>0, <2>1 DEF Awaits
  <2>3. i < L /\ i + 1 \in 1 .. L /\ i \in 1 .. L + 1 /\ i < L + 1 /\ i # L + 1
    BY <1>0, <2>1, <2>2
  <2>4. /\ c \in 1 .. N /\ Unfollowed(frames[c]) /\ c # Top
        /\ frames[c].body = IF frames[n].body = "g" THEN "h" ELSE "f"
    BY <1>0, <2>1, <2>2, <2>3 DEF Awaits
  <2>5. frames'[c] = frames[c] /\ frames'[n] = frames[n] /\ c \in 1 .. Len(frames')
    BY <1>4, <2>1, <2>4
  <2>6. stack'[i] = n /\ stack'[i + 1] = c /\ i \in 1 .. Len(stack') /\ i # Len(stack')
    BY <1>5, <2>2, <2>3
  <2>7. QED
    BY <2>2, <2>3, <2>4, <2>5, <2>6 DEF Awaits
<1>12. FollowerOK'
  <2> DEFINE FollowsNext(n, m) ==
               /\ frames'[m].follower = << n >> /\ frames'[m].next = 1
               /\ n \in 1 .. N /\ frames'[n].sub = m
               /\ frames'[n].at = "resumed" /\ ~ OnStack(stack', n)
  <2>1. Served(frames'[Top])
    <3>1. Len(<< x >>) = 1
      OBVIOUS
    <3>2. QED
      BY <1>3, <1>4, <3>1 DEF Served
  <2>2. ASSUME NEW m \in 1 .. N, m # Top, NEW n, Follows(n, m) PROVE FollowsNext(n, m)
    <3>1. n # x
      BY <1>2, <2>2 DEF Follows
    <3>2. QED
      BY <1>0, <1>5, <1>7, <2>2, <3>1 DEF Follows
  <2>3. \A m \in 1 .. N : m # Top => frames'[m] = frames[m]
    BY <1>4
  <2>4. \A m \in 1 .. N : \/ Unfollowed(frames[m])
                          \/ \E n \in 1 .. N : Follows(n, m)
                          \/ Served(frames[m])
    BY <1>0 DEF IInv, FollowerOK
  <2>5. \A n \in 1 .. N : frames[n].at = "resumed" /\ ~ OnStack(stack, n) =>
          \E m \in 1 .. N : Follows(n, m)
    BY <1>0 DEF IInv, FollowerOK
  <2>6. \A m \in 1 .. N : \/ Unfollowed(frames'[m])
                          \/ \E n \in 1 .. N : FollowsNext(n, m)
                          \/ Served(frames'[m])
    <3> HIDE DEF FollowsNext
    <3>1. QED
      BY <2>1, <2>2, <2>3, <2>4
  <2>7. \A n \in 1 .. N : frames'[n].at = "resumed" /\ ~ OnStack(stack', n) =>
          \E m \in 1 .. N : FollowsNext(n, m)
    <3> TAKE n \in 1 .. N
    <3> HAVE frames'[n].at = "resumed" /\ ~ OnStack(stack', n)
    <3>1. n # x
      BY <1>5
    <3>2. PICK m \in 1 .. N : Follows(n, m)
      BY <1>5, <1>7, <2>5
    <3>3. m # Top
      <4>1. m = Top => << n >> = << x >>
        BY <1>2, <3>2 DEF Follows
      <4>2. << n >> = << x >> => n = x
        OBVIOUS
      <4>3. QED
        BY <3>1, <4>1, <4>2
    <3>4. QED
      BY <2>2, <3>2, <3>3
  <2>8. QED
    BY <1>4, <2>6, <2>7 DEF FollowerOK, Follows
<1>13. RequestOK'
  <2>1. RequestOK /\ UNCHANGED <<g_test_rpc_manager, rpc_manager>>
    BY <1>0 DEF IInv, rpc
  <2>2. \A k \in 1 .. N :
          frames[k].at \in {"first", "second"} /\ ~ OnStack(stack, k) <=>
            frames'[k].at \in {"first", "second"} /\ ~ OnStack(stack', k)
    BY <1>2, <1>5, <1>7
  <2>3. QED
    BY <1>0, <1>4, <1>7, <2>1, <2>2, RequestsStay
<1>14. ResultOK'
  <2> SUFFICES ASSUME NEW n \in 1 .. N, frames[n].body = "f"
               PROVE  Answered(frames'[n], stack', n, g_test_rpc_fake_data)
    BY <1>0, <1>4, <1>7 DEF ResultOK, rpc
  <2>1. Answered(frames[n], stack, n, g_test_rpc_fake_data)
    BY <1>0 DEF IInv, ResultOK
  <2>2. OnStack(stack', n) <=> OnStack(stack, n)
    BY <1>2, <1>5
  <2>3. frames'[n].at = frames[n].at /\ frames'[n].res = frames[n].res
    BY <1>7
  <2>4. QED
    BY <2>1, <2>2, <2>3 DEF Answered
<1>15. QED
  BY <1>8, <1>9, <1>10, <1>11, <1>12, <1>13, <1>14 DEF IInv

\* The manager takes up the requests that have been put.
LEMMA StartManagerKeeps ==
  ASSUME IInv, StartManager
  PROVE  IInv'
<1>1. /\ rpc_manager = << >> /\ g_test_rpc_manager' = << >> /\ Len(<< >>) = 0
      /\ rpc_manager' = g_test_rpc_manager
      /\ UNCHANGED <<taskOf, frames, stack, g_test_rpc_fake_data>>
  BY EmptySeq DEF StartManager, tasks
<1>2. TypeOK'
  BY <1>1, EmptySeq DEF IInv, TypeOK
<1>3. StackOK' /\ BodyOK' /\ AwaitOK' /\ FollowerOK' /\ ResultOK'
  <2>1. StackOK' /\ BodyOK' /\ AwaitOK' /\ ResultOK'
    BY <1>1 DEF IInv, StackOK, BodyOK, AwaitOK, ResultOK
  <2>2. FollowerOK'
    BY <1>1 DEF IInv, FollowerOK, Follows
  <2>3. QED
    BY <2>1, <2>2
<1>4. RequestOK'
  <2>1. QueueOK(<< >>, frames, stack) /\ \A n : ~ Asks(<< >>, n)
    <3>1. \A i \in 1 .. Len(<< >>) : FALSE
      BY <1>1
    <3>2. QED
      BY <3>1 DEF QueueOK, Asks
  <2>2. RequestOK
    BY DEF IInv
  <2>3. QED
    BY <1>1, <2>1, <2>2 DEF RequestOK
<1>5. QED
  BY <1>2, <1>3, <1>4 DEF IInv

\* An answer is stored and its coroutine goes on.
LEMMA AnswerKeeps ==
  ASSUME IInv, Answer
  PROVE  IInv'
<1> DEFINE N == Len(frames)
           l == Len(rpc_manager)
           q == rpc_manager[1]
           x == q.frame
           d == g_test_rpc_fake_data + 1
           one == [frames[x] EXCEPT !.res[q.result] = d]
<1>1. /\ stack = << >> /\ Len(stack) = 0 /\ stack \in Seq(Nat) /\ rpc_manager # << >>
      /\ l \in Nat /\ l > 0 /\ N \in Nat /\ d \in Nat /\ d > 0
      /\ d = g_test_rpc_fake_data + 1 /\ g_test_rpc_fake_data \in Nat
      /\ UNCHANGED <<taskOf, g_test_rpc_manager>> /\ g_test_rpc_fake_data' = d
      /\ N = Len(frames) /\ l = Len(rpc_manager) /\ rpc_manager \in Seq(Request)
  BY EmptySeq, LenProperties DEF Answer, IInv, TypeOK, tasks
<1>2. /\ q \in Request /\ q.result \in {1, 2} /\ x \in 1 .. N /\ ~ OnStack(stack, x) /\ x \in Nat
      /\ frames[x].at = PlaceOf(q.result) /\ frames[x] \in FrameRecord
      /\ \A i \in 2 .. l : rpc_manager[i].frame # x
  <2>1. 1 \in 1 .. l /\ \A i \in 2 .. l : i \in 1 .. l /\ i # 1
    BY <1>1
  <2>2. QueueOK(rpc_manager, frames, stack)
    BY DEF IInv, RequestOK
  <2>3. q \in Request
    BY <1>1, <2>1, ElementOfSeq
  <2>4. x \in 1 .. N /\ ~ OnStack(stack, x) /\ frames[x].at = PlaceOf(q.result)
    BY <1>1, <2>1, <2>2 DEF QueueOK
  <2>5. \A i \in 2 .. l : rpc_manager[i].frame # x
    BY <1>1, <2>1, <2>2 DEF QueueOK
  <2>6. frames[x] \in FrameRecord
    BY <2>4, ElementOfSeq DEF IInv, TypeOK
  <2>7. QED
    BY <2>3, <2>4, <2>5, <2>6 DEF Request
<1>3. /\ q = Head(rpc_manager) /\ x = q.frame
      /\ rpc_manager' = Tail(rpc_manager)
      /\ frames' = [frames EXCEPT ![x] = one]
      /\ stack' = << x >>
  <2>1. q = Head(rpc_manager)
    BY <1>1
  <2>2. frames[x].at # "done"
    BY <1>2 DEF PlaceOf
  <2>3. frames' = [frames EXCEPT ![x].res[q.result] = d] /\ stack' = << x >>
    BY <2>1, <2>2 DEF Answer
  <2>4. QED
    BY <2>1, <2>3 DEF Answer
<1>4. /\ one \in FrameRecord /\ one.at = frames[x].at /\ one.body = frames[x].body
      /\ one.sub = frames[x].sub /\ one.follower = frames[x].follower
      /\ one.next = frames[x].next /\ one.final = frames[x].final
      /\ one.res = [frames[x].res EXCEPT ![q.result] = d]
      /\ frames[x].res \in [1 .. 2 -> Nat]
  <2>1. frames[x].res \in [1 .. 2 -> Nat] /\ q.result \in 1 .. 2
    BY <1>2 DEF FrameRecord
  <2> DEFINE res == [frames[x].res EXCEPT ![q.result] = d]
  <2>2. res \in [1 .. 2 -> Nat]
    BY <1>1, <2>1
  <2>3. one = [frames[x] EXCEPT !.res = res]
    OBVIOUS
  <2> HIDE DEF res, one
  <2>4. QED
    BY <1>2, <2>1, <2>2, <2>3 DEF FrameRecord, res
<1> HIDE DEF d, one
<1>5. /\ frames' \in Seq(FrameRecord) /\ Len(frames') = N /\ frames'[x] = one
      /\ \A k \in 1 .. N : k # x => frames'[k] = frames[k]
  BY <1>2, <1>3, <1>4, FrameStep DEF IInv
<1>6. /\ stack' \in Seq(Nat) /\ Len(stack') = 1 /\ stack'[1] = x
      /\ \A n : ~ OnStack(stack, n) /\ (OnStack(stack', n) <=> n = x)
  <2>1. stack' \in Seq(Nat) /\ Len(stack') = 1 /\ stack'[1] = x
    BY <1>2, <1>3
  <2>2. \A i \in 1 .. 1 : i = 1
    OBVIOUS
  <2>3. QED
    BY <1>1, <2>1, <2>2 DEF OnStack
<1>7. /\ rpc_manager' \in Seq(Request) /\ Len(rpc_manager') = l - 1
      /\ \A i \in 1 .. l - 1 : rpc_manager'[i] = rpc_manager[i + 1]
  BY <1>1, <1>3, HeadTailProperties
<1> HIDE DEF N, l, q, x
<1>8. \A k \in 1 .. N :
        /\ frames'[k].body = frames[k].body /\ frames'[k].sub = frames[k].sub
        /\ frames'[k].final = frames[k].final /\ frames'[k].next = frames[k].next
        /\ frames'[k].follower = frames[k].follower /\ frames'[k].at = frames[k].at
        /\ k # x => frames'[k].res = frames[k].res
  BY <1>4, <1>5
<1>9. TypeOK'
  BY <1>1, <1>5, <1>6, <1>7 DEF IInv, TypeOK
<1>10. StackOK'
  <2>1. \A i \in 1 .. 1 : i = 1
    OBVIOUS
  <2>2. QED
    BY <1>2, <1>5, <1>6, <2>1 DEF StackOK
<1>11. BodyOK'
  BY <1>1, <1>5, <1>8 DEF IInv, BodyOK, PlaceOK
<1>12. AwaitOK'
  <2>1. \A n \in 1 .. N : frames[n].at # "await"
    BY <1>1 DEF IInv, AwaitOK, Awaits
  <2>2. QED
    BY <1>5, <1>8, <2>1 DEF AwaitOK
<1>13. FollowerOK'
  <2>1. FollowerOK
    BY DEF IInv
  <2>2. frames[x].at # "resumed"
    BY <1>2 DEF PlaceOf
  <2>3. QED
    BY <1>1, <1>5, <1>6, <1>8, <2>1, <2>2, FollowersStay
<1>14. RequestOK'
  <2>1. /\ QueueOK(g_test_rpc_manager, frames, stack) /\ QueueOK(rpc_manager, frames, stack)
        /\ \A n : ~ (Asks(g_test_rpc_manager, n) /\ Asks(rpc_manager, n))
        /\ \A n \in 1 .. N : frames[n].at \in {"first", "second"} =>
             Asks(g_test_rpc_manager, n) \/ Asks(rpc_manager, n)
    BY <1>1, <1>6 DEF IInv, RequestOK
  <2>2. Asks(rpc_manager, x)
    <3>1. 1 \in 1 .. l
      BY <1>1
    <3>2. QED
      BY <1>1, <3>1 DEF Asks, x, q
  <2>3. QueueOK(g_test_rpc_manager, frames', stack')
    <3>1. \A i \in 1 .. Len(g_test_rpc_manager) : g_test_rpc_manager[i].frame # x
      BY <2>1, <2>2 DEF Asks
    <3>2. QED
      BY <1>1, <1>5, <1>6, <1>8, <2>1, <3>1 DEF QueueOK
  <2>4. \A i \in 1 .. l - 1 : i + 1 \in 2 .. l /\ i + 1 \in 1 .. l
    BY <1>1
  <2>5. QueueOK(rpc_manager', frames', stack')
    <3>1. ASSUME NEW i \in 1 .. l - 1
          PROVE  /\ rpc_manager'[i].frame \in 1 .. N /\ rpc_manager'[i].frame # x
                 /\ frames'[rpc_manager'[i].frame].at = PlaceOf(rpc_manager'[i].result)
      <4>1. i + 1 \in 1 .. l /\ i + 1 \in 2 .. l /\ rpc_manager'[i] = rpc_manager[i + 1]
        BY <1>7, <2>4
      <4>2. /\ rpc_manager[i + 1].frame \in 1 .. N
            /\ frames[rpc_manager[i + 1].frame].at = PlaceOf(rpc_manager[i + 1].result)
        BY <1>1, <2>1, <4>1 DEF QueueOK
      <4>3. QED
        BY <1>2, <1>8, <4>1, <4>2
    <3>2. ASSUME NEW i \in 1 .. l - 1, NEW j \in 1 .. l - 1,
                 rpc_manager'[i].frame = rpc_manager'[j].frame
          PROVE  i = j
      <4>1. i + 1 \in 1 .. l /\ j + 1 \in 1 .. l
        BY <2>4
      <4>2. i + 1 = j + 1
        BY SMTT(30), <1>1, <1>7, <2>1, <3>2, <4>1 DEF QueueOK
      <4>3. QED
        BY <4>2
    <3>3. QED
      BY <1>5, <1>6, <1>7, <3>1, <3>2 DEF QueueOK
  <2>6. \A n : Asks(rpc_manager', n) => Asks(rpc_manager, n)
    BY <1>1, <1>7, <2>4 DEF Asks
  <2>7. ASSUME NEW n, n # x, Asks(rpc_manager, n) PROVE Asks(rpc_manager', n)
    <3>1. PICK i \in 1 .. l : rpc_manager[i].frame = n
      BY <1>1, <2>7 DEF Asks
    <3>2. i # 1
      BY <2>7, <3>1 DEF x, q
    <3>3. i - 1 \in 1 .. l - 1 /\ (i - 1) + 1 = i
      BY <1>1, <3>2
    <3>4. rpc_manager'[i - 1].frame = n
      BY <1>7, <3>1, <3>3
    <3>5. QED
      BY <1>7, <3>3, <3>4 DEF Asks
  <2>8. \A n \in 1 .. N : frames'[n].at \in {"first", "second"} /\ ~ OnStack(stack', n) =>
          Asks(g_test_rpc_manager, n) \/ Asks(rpc_manager', n)
    BY <1>6, <1>8, <2>1, <2>7
  <2>9. QED
    BY <1>1, <1>5, <2>1, <2>3, <2>5, <2>6, <2>8 DEF RequestOK
<1>15. ResultOK'
  <2> SUFFICES ASSUME NEW n \in 1 .. N, frames[n].body = "f"
               PROVE  Answered(frames'[n], stack', n, d)
    BY <1>1, <1>5, <1>8 DEF ResultOK
  <2>1. Answered(frames[n], stack, n, g_test_rpc_fake_data)
    BY <1>1 DEF IInv, ResultOK
  <2>2. frames[n] \in FrameRecord
    BY <1>1, ElementOfSeq DEF IInv, TypeOK
  <2>3. frames[n].res[1] \in Nat /\ frames[n].res[2] \in Nat
    BY <2>2 DEF FrameRecord
  <2>4. CASE n # x
    <3>1. frames'[n].at = frames[n].at /\ frames'[n].res = frames[n].res
          /\ ~ OnStack(stack', n) /\ ~ OnStack(stack, n)
      BY <1>6, <1>8, <2>4
    <3>2. QED
      BY <1>1, <2>1, <2>3, <3>1 DEF Answered
  <2>5. CASE n = x /\ q.result = 1
    <3>1. frames'[n].at = "first" /\ frames'[n].res[1] = d
      BY <1>2, <1>4, <1>5, <1>8, <2>5 DEF PlaceOf
    <3>2. QED
      BY <1>1, <3>1 DEF Answered
  <2>6. CASE n = x /\ q.result = 2
    <3>1. /\ frames'[n].at = "second" /\ frames[n].at = "second"
          /\ frames'[n].res[1] = frames[n].res[1] /\ frames'[n].res[2] = d
      BY <1>2, <1>4, <1>5, <1>8, <2>6 DEF PlaceOf
    <3>2. QED
      BY <1>1, <2>1, <2>3, <3>1 DEF Answered
  <2>7. QED
    BY <1>2, <2>4, <2>5, <2>6
<1>16. QED
  BY <1>9, <1>10, <1>11, <1>12, <1>13, <1>14, <1>15 DEF IInv

-----------------------------------------------------------------------------
\* The invariant holds at the start.
LEMMA InitialInvariant ==
  ASSUME Init
  PROVE  IInv
<1>1. frames = << >> /\ stack = << >> /\ g_test_rpc_manager = << >> /\ rpc_manager = << >>
  BY DEF Init
<1>2. TypeOK
  BY EmptySeq DEF Init, TypeOK
<1>3. \A i \in 1 .. 0 : FALSE
  OBVIOUS
<1>4. Len(<< >>) = 0
  OBVIOUS
<1>5. StackOK /\ BodyOK /\ AwaitOK /\ FollowerOK /\ ResultOK
  BY <1>1, <1>3, <1>4 DEF StackOK, BodyOK, AwaitOK, FollowerOK, ResultOK
<1>6. RequestOK
  BY <1>1, <1>3, <1>4 DEF RequestOK, QueueOK, Asks
<1>7. QED
  BY <1>2, <1>5, <1>6 DEF IInv

\* Every step keeps the invariant.
LEMMA StepKeeps ==
  ASSUME IInv, [Next]_vars
  PROVE  IInv'
<1>0. stack # << >> => Top \in 1 .. Len(frames) /\ PlaceOK(frames[Top])
                       /\ frames[Top] \in FrameRecord
  BY Running DEF IInv, BodyOK
<1>1. ASSUME NEW r \in Roots, CallRoot(r) PROVE IInv'
  BY <1>1, CallRootKeeps
<1>2. CASE StartManager
  BY <1>2, StartManagerKeeps
<1>3. CASE Answer
  BY <1>3, AnswerKeeps
<1>4. CASE GCallsH
  <2>1. /\ stack # << >> /\ frames[Top].at = "start" /\ Call("h", "await")
        /\ frames[Top].body = "g" /\ UNCHANGED <<taskOf, rpc>>
    BY <1>4 DEF GCallsH, At, tasks
  <2>2. QED
    BY <2>1, CallKeeps
<1>5. CASE HCallsF
  <2>1. /\ stack # << >> /\ frames[Top].at = "start" /\ Call("f", "await")
        /\ frames[Top].body = "h" /\ UNCHANGED <<taskOf, rpc>>
    BY <1>5 DEF HCallsF, At, tasks
  <2>2. QED
    BY <2>1, CallKeeps
<1>6. CASE GWaits
  BY <1>6, WaitsKeeps DEF GWaits, At, tasks
<1>7. CASE HWaits
  BY <1>7, WaitsKeeps DEF HWaits, At, tasks
<1>8. ASSUME NEW a \in {"start", "return"}, stack # << >>, GoOn(a), UNCHANGED <<taskOf, rpc>>,
             frames[Top].body = "g" \/ frames[Top].at \notin {"start", "await"},
             frames[Top].body # "f"
      PROVE  IInv'
  <2>1. a \in Places /\ UNCHANGED stack /\ Top \in 1 .. Len(frames)
    BY <1>0, <1>8 DEF Places, GoOn
  <2>2. /\ frames' \in Seq(FrameRecord) /\ Len(frames') = Len(frames)
        /\ \A k \in 1 .. Len(frames) : k # Top => frames'[k] = frames[k]
        /\ frames'[Top].at = a /\ frames'[Top].body = frames[Top].body
        /\ frames'[Top].sub = frames[Top].sub /\ frames'[Top].follower = frames[Top].follower
        /\ frames'[Top].next = frames[Top].next /\ frames'[Top].res = frames[Top].res
        /\ frames'[Top].final = frames[Top].final
    BY <1>8, <2>1, PlaceStep DEF IInv
  <2>3. QED
    BY <1>8, <2>1, <2>2, GoesOn
<1>9. CASE GEnds
  <2>1. /\ stack # << >> /\ GoOn("return") /\ UNCHANGED <<taskOf, rpc>>
        /\ frames[Top].body = "g"
    BY <1>9 DEF GEnds, At, tasks
  <2>2. QED
    BY <1>8, <2>1
<1>10. CASE GResumes
  <2>1. /\ stack # << >> /\ GoOn("start") /\ UNCHANGED <<taskOf, rpc>>
        /\ frames[Top].body = "g"
    BY <1>10 DEF GResumes, tasks
  <2>2. QED
    BY <1>8, <2>1
<1>11. CASE HEnds
  <2>1. /\ stack # << >> /\ GoOn("return") /\ UNCHANGED <<taskOf, rpc>>
        /\ frames[Top].body = "h" /\ frames[Top].at \in {"await", "resumed"}
        /\ frames[Top].at = "await" => frames[frames[Top].sub].final > 0
    BY <1>11 DEF HEnds, tasks
  <2>2. frames[Top].at # "await"
    BY <2>1, Awaited
  <2>3. QED
    BY <1>8, <2>1, <2>2
<1>12. CASE FReturns
  <2> DEFINE v == 100 * frames[Top].res[1] + frames[Top].res[2]
             one == [frames[Top] EXCEPT !.at = "return", !.final = v]
  <2>1. /\ stack # << >> /\ frames[Top].body = "f" /\ frames[Top].at = "second"
        /\ UNCHANGED <<taskOf, stack, rpc>> /\ Top \in 1 .. Len(frames)
    BY <1>0, <1>12 DEF FReturns, At, tasks
  <2>2. v \in Nat
    <3>1. frames[Top].res[1] \in Nat /\ frames[Top].res[2] \in Nat
      BY <1>0, <2>1 DEF FrameRecord
    <3>2. QED
      BY <3>1
  <2>3. frames' = [frames EXCEPT ![Top] = one]
    BY <1>12 DEF FReturns
  <2> HIDE DEF v
  <2>4. /\ one \in FrameRecord /\ one.at = "return" /\ one.body = frames[Top].body
        /\ one.sub = frames[Top].sub /\ one.follower = frames[Top].follower
        /\ one.next = frames[Top].next /\ one.res = frames[Top].res
    BY <1>0, <2>1, <2>2 DEF FrameRecord, Places
  <2> HIDE DEF one
  <2>5. /\ frames' \in Seq(FrameRecord) /\ Len(frames') = Len(frames) /\ frames'[Top] = one
        /\ \A k \in 1 .. Len(frames) : k # Top => frames'[k] = frames[k]
    BY <2>1, <2>3, <2>4, FrameStep DEF IInv
  <2>6. QED
    BY <2>1, <2>4, <2>5, GoesOn
<1>13. CASE YieldFirst
  <2>1. /\ stack # << >> /\ frames[Top].body = "f" /\ frames[Top].at = "start"
        /\ Suspend(PlaceOf(1)) /\ UNCHANGED <<taskOf, rpc_manager, g_test_rpc_fake_data>>
        /\ g_test_rpc_manager' = Append(g_test_rpc_manager, [frame |-> Top, result |-> 1])
    BY <1>13 DEF YieldFirst, Yield, At, tasks, PlaceOf
  <2>2. QED
    BY <2>1, YieldKeeps
<1>14. CASE YieldSecond
  <2>1. /\ stack # << >> /\ frames[Top].body = "f" /\ frames[Top].at = "first"
        /\ Suspend(PlaceOf(2)) /\ UNCHANGED <<taskOf, rpc_manager, g_test_rpc_fake_data>>
        /\ g_test_rpc_manager' = Append(g_test_rpc_manager, [frame |-> Top, result |-> 2])
    BY <1>14 DEF YieldSecond, Yield, At, tasks, PlaceOf
  <2>2. QED
    BY <2>1, YieldKeeps
<1>15. CASE ResumeFollower
  BY <1>15, ResumeFollowerKeeps
<1>16. CASE EndOfFollowers
  BY <1>16, EndKeeps
<1>17. CASE UNCHANGED vars
  <2>1. UNCHANGED <<taskOf, frames, stack, g_test_rpc_manager, rpc_manager,
                    g_test_rpc_fake_data>>
    BY <1>17 DEF vars, tasks, rpc
  <2>2. TypeOK' /\ StackOK' /\ BodyOK' /\ AwaitOK' /\ ResultOK'
    BY <2>1 DEF IInv, TypeOK, StackOK, BodyOK, AwaitOK, ResultOK
  <2>3. FollowerOK' /\ RequestOK'
    BY <2>1 DEF IInv, FollowerOK, Follows, RequestOK
  <2>4. QED
    BY <2>2, <2>3 DEF IInv
<1>18. QED
  BY <1>1, <1>2, <1>3, <1>4, <1>5, <1>6, <1>7, <1>9, <1>10, <1>11, <1>12, <1>13, <1>14,
     <1>15, <1>16, <1>17 DEF Next, Coroutine

\* The frames of the coroutines are shared out among the call stack, the
\* followers and the two queues of requests.
THEOREM FramesAreSharedOut == Spec => []IInv
BY InitialInvariant, StepKeeps, PTL DEF Spec

\* A suspended coroutine has exactly one who will resume it, and no other one has
\* any: return_void() and test_rpc_manager_run() never resume a coroutine that
\* runs or has ended, and never forget one.
THEOREM EverySuspendedHasOneWaker == Spec => []OneWaker
<1>1. IInv => OneWaker
  <2> SUFFICES ASSUME IInv, NEW n \in DOMAIN frames
               PROVE  Cardinality(Wakers(n)) = IF Suspended(n) THEN 1 ELSE 0
    BY DEF OneWaker
  <2>1. DOMAIN frames = 1 .. Len(frames) /\ frames \in Seq(FrameRecord)
    BY LenProperties DEF IInv, TypeOK
  <2>2. Suspended(n) <=> frames[n].at \in {"resumed", "first", "second"} /\ ~ OnStack(stack, n)
    <3>1. DOMAIN stack = 1 .. Len(stack)
      BY LenProperties DEF IInv, TypeOK
    <3>2. n \in ToSet(stack) <=> OnStack(stack, n)
      BY <3>1 DEF ToSet, OnStack
    <3>3. QED
      BY <3>2 DEF Suspended
  <2> DEFINE Asking == {q \in Requests : q.frame = n}
             Followed == {m \in DOMAIN frames :
                            \E i \in frames[m].next .. Len(frames[m].follower) :
                              frames[m].follower[i] = n}
  <2>3. Wakers(n) = Asking \cup Followed
    BY DEF Wakers
  <2>4. \A m \in DOMAIN frames : m \in Followed <=> Follows(n, m)
    <3> TAKE m \in DOMAIN frames
    <3>1. /\ frames[m] \in FrameRecord
          /\ \/ Unfollowed(frames[m])
             \/ \E k \in 1 .. Len(frames) : Follows(k, m)
             \/ Served(frames[m])
      BY <2>1, ElementOfSeq DEF IInv, FollowerOK
    <3>2. CASE Unfollowed(frames[m])
      <4>1. frames[m].follower = << >> /\ frames[m].next = 1 /\ Len(frames[m].follower) = 0
        BY <3>2 DEF Unfollowed
      <4>2. frames[m].next .. Len(frames[m].follower) = {}
        BY <4>1
      <4>3. << >> # << n >>
        OBVIOUS
      <4>4. QED
        BY <4>1, <4>2, <4>3 DEF Follows
    <3>3. CASE Served(frames[m])
      <4>1. frames[m].next = 2 /\ Len(frames[m].follower) = 1
        BY <3>3 DEF Served
      <4>2. frames[m].next .. Len(frames[m].follower) = {}
        BY <4>1
      <4>3. frames[m].next # 1
        BY <4>1
      <4>4. QED
        BY <4>2, <4>3 DEF Follows
    <3>4. CASE \E k \in 1 .. Len(frames) : Follows(k, m)
      <4>1. PICK k \in 1 .. Len(frames) : Follows(k, m)
        BY <3>4
      <4>2. /\ frames[m].follower = << k >> /\ frames[m].next = 1
            /\ Len(<< k >>) = 1 /\ << k >>[1] = k
        BY <4>1 DEF Follows
      <4>3. m \in Followed <=> k = n
        <5>1. \A i \in 1 .. 1 : i = 1
          OBVIOUS
        <5>2. 1 \in 1 .. 1
          OBVIOUS
        <5>3. QED
          BY <4>2, <5>1, <5>2
      <4>4. Follows(n, m) => k = n
        <5>1. << n >> = << k >> => n = k
          OBVIOUS
        <5>2. QED
          BY <4>2, <5>1 DEF Follows
      <4>5. QED
        BY <4>1, <4>3, <4>4
    <3>5. QED
      BY <3>1, <3>2, <3>3, <3>4
  <2>5. \A m \in DOMAIN frames : Follows(n, m) =>
          m = frames[n].sub /\ frames[n].at = "resumed" /\ ~ OnStack(stack, n)
    BY DEF Follows
  <2>6. \A q \in Asking :
          frames[n].at = PlaceOf(q.result) /\ ~ OnStack(stack, n)
          /\ (Asks(g_test_rpc_manager, n) \/ Asks(rpc_manager, n))
    BY RequestsAreAsked DEF IInv, RequestOK, QueueOK, Asks
  <2>7. CASE ~ Suspended(n)
    <3>1. Asking = {} /\ Followed = {}
      BY <2>2, <2>4, <2>5, <2>6, <2>7 DEF PlaceOf
    <3>2. QED
      BY <2>3, <2>7, <3>1, FS_EmptySet
  <2>8. CASE Suspended(n) /\ frames[n].at = "resumed"
    <3>1. PICK m \in 1 .. Len(frames) : Follows(n, m)
      BY <2>1, <2>2, <2>8 DEF IInv, FollowerOK
    <3>2. Followed = {m}
      BY <2>1, <2>4, <2>5, <3>1
    <3>3. Asking = {}
      BY <2>6, <2>8 DEF PlaceOf
    <3>4. QED
      BY <2>3, <2>8, <3>2, <3>3, FS_Singleton
  <2>9. CASE Suspended(n) /\ frames[n].at # "resumed"
    <3>1. Followed = {}
      BY <2>4, <2>5, <2>9
    <3>2. Asks(g_test_rpc_manager, n) \/ Asks(rpc_manager, n)
      BY <2>1, <2>2, <2>9 DEF IInv, RequestOK
    <3>3. PICK q \in Requests : q.frame = n
      BY <3>2, RequestsAreAsked DEF IInv, Asks
    <3>4. ASSUME NEW p \in Requests, p.frame = n PROVE p = q
      <4>1. TypeOK /\ ~ (Asks(g_test_rpc_manager, n) /\ Asks(rpc_manager, n))
        BY DEF IInv, RequestOK
      <4>2. \A r \in Requests : r.frame = n =>
              /\ Asks(g_test_rpc_manager, n) =>
                   \E i \in 1 .. Len(g_test_rpc_manager) : g_test_rpc_manager[i] = r
              /\ ~ Asks(g_test_rpc_manager, n) =>
                   \E i \in 1 .. Len(rpc_manager) : rpc_manager[i] = r
        BY <4>1, RequestsAreAsked DEF Asks
      <4>3. CASE Asks(g_test_rpc_manager, n)
        BY <3>3, <3>4, <4>2, <4>3 DEF IInv, RequestOK, QueueOK
      <4>4. CASE ~ Asks(g_test_rpc_manager, n)
        BY <3>3, <3>4, <4>2, <4>4 DEF IInv, RequestOK, QueueOK
      <4>5. QED
        BY <4>3, <4>4
    <3>5. Asking = {q}
      BY <3>3, <3>4
    <3>6. QED
      BY <2>3, <2>9, <3>1, <3>5, FS_Singleton
  <2>10. QED
    BY <2>7, <2>8, <2>9
<1>2. QED
  BY <1>1, FramesAreSharedOut, PTL

\* test_rpc_manager_run() stores an answer where its coroutine waits for it, and
\* f() returns two answers that came one after the other.
THEOREM EveryAnswerFits == Spec => []AnswersFit
<1>1. IInv => AnswersFit
  <2> SUFFICES ASSUME IInv PROVE AnswersFit
    OBVIOUS
  <2>1. \A q \in Requests : frames[q.frame].at = IF q.result = 1 THEN "first" ELSE "second"
    BY RequestsAreAsked DEF IInv, RequestOK, QueueOK, PlaceOf
  <2>2. \A n \in 1 .. Len(frames) : frames[n].final > 0 =>
          0 < frames[n].res[1] /\ frames[n].res[1] < frames[n].res[2]
    BY DEF IInv, BodyOK, PlaceOK, ResultOK, Answered
  <2>3. DOMAIN frames = 1 .. Len(frames)
    BY LenProperties DEF IInv, TypeOK
  <2>4. QED
    BY <2>1, <2>2, <2>3 DEF AnswersFit
<1>2. QED
  BY <1>1, FramesAreSharedOut, PTL

\* Nobody is added to the followers of a coroutine that resumes them or has
\* ended: the loop of return_void() goes over a vector that does not grow.
THEOREM NobodyFollowsTooLate == Spec => FollowersAreSettled
<1> DEFINE Settled(n) ==
             frames[n].at \in {"return", "done"} => frames'[n].follower = frames[n].follower
           AllSettled == \A n \in DOMAIN frames : Settled(n)
<1>1. ASSUME IInv, [Next]_vars PROVE AllSettled
  <2> SUFFICES ASSUME NEW n \in 1 .. Len(frames) PROVE Settled(n)
    BY <1>1, LenProperties DEF IInv, TypeOK
  <2>0. /\ frames \in Seq(FrameRecord) /\ Len(frames) \in Nat /\ frames[n] \in FrameRecord
        /\ stack # << >> => Top \in 1 .. Len(frames) /\ frames[Top] \in FrameRecord
    BY <1>1, Running, ElementOfSeq, LenProperties DEF IInv, TypeOK
  \* One frame, or none, is changed in other fields.
  <2>1. ASSUME NEW t \in 1 .. Len(frames), NEW fr, fr.follower = frames[t].follower,
               frames' = [frames EXCEPT ![t] = fr]
        PROVE  Settled(n)
    BY <2>0, <2>1
  <2>2. ASSUME NEW a \in Places, stack # << >>, GoOn(a) \/ Suspend(a) PROVE Settled(n)
    BY <1>1, <2>2, PlaceStep DEF IInv
  <2>3. ASSUME NEW r \in Roots, CallRoot(r) PROVE Settled(n)
    <3>1. taskOf[r] \in Tasks \cup {NoTask} /\ frames' = Append(frames, Frame("g", taskOf[r]))
      BY <1>1, <2>3 DEF CallRoot, IInv, TypeOK
    <3>2. frames'[n] = frames[n]
      BY <1>1, <2>0, <3>1, NewFrame DEF IInv
    <3>3. QED
      BY <3>2
  <2>4. CASE StartManager
    BY <2>4 DEF StartManager
  <2>5. CASE Answer
    <3> DEFINE x == Head(rpc_manager).frame
               k == Head(rpc_manager).result
               one == [frames[x] EXCEPT !.res[k] = g_test_rpc_fake_data + 1]
    <3>1. rpc_manager # << >> /\ rpc_manager \in Seq(Request)
          /\ frames' = [frames EXCEPT ![x].res[k] = g_test_rpc_fake_data + 1]
      BY <1>1, <2>5 DEF Answer, IInv, TypeOK
    <3>2. x \in 1 .. Len(frames)
      <4>1. 1 \in 1 .. Len(rpc_manager) /\ Head(rpc_manager) = rpc_manager[1]
        BY <3>1, LenProperties, EmptySeq
      <4>2. QED
        BY <1>1, <4>1 DEF IInv, RequestOK, QueueOK
    <3>3. frames[x] \in FrameRecord
      BY <2>0, <3>2, ElementOfSeq
    <3>4. one.follower = frames[x].follower /\ frames' = [frames EXCEPT ![x] = one]
      BY <3>1, <3>3 DEF FrameRecord
    <3> HIDE DEF one, x
    <3>5. QED
      BY <2>1, <3>2, <3>4
  <2>6. ASSUME NEW b \in {"h", "f"}, stack # << >>, Call(b, "await") PROVE Settled(n)
    <3> DEFINE N == Len(frames) + 1
               one == [frames[Top] EXCEPT !.at = "await", !.sub = N]
               fs == [frames EXCEPT ![Top] = one]
    <3>1. one \in FrameRecord /\ one.follower = frames[Top].follower
      <4>1. N \in Nat
        BY <2>0
      <4> HIDE DEF N
      <4>2. QED
        BY <2>0, <2>6, <4>1 DEF FrameRecord, Places
    <3>2. /\ frames' = Append(fs, Frame(b, frames[Top].task))
          /\ frames[Top].task \in Tasks \cup {NoTask}
      BY <2>0, <2>6 DEF Call, FrameRecord
    <3> HIDE DEF one
    <3>3. /\ fs \in Seq(FrameRecord) /\ Len(fs) = Len(frames)
          /\ \A k \in 1 .. Len(frames) : fs[k] = IF k = Top THEN one ELSE frames[k]
      BY <2>0, <2>6, <3>1, ExceptSeq
    <3> HIDE DEF fs
    <3>4. frames'[n] = fs[n]
      BY <1>1, <3>2, <3>3, NewFrame DEF IInv
    <3>5. QED
      BY <3>1, <3>3, <3>4
  <2>7. ASSUME stack # << >>, frames[Top].at = "await", SuspendIn(frames[Top].sub, "resumed")
        PROVE  Settled(n)
    <3> DEFINE c == frames[Top].sub
    <3>1. frames[c].at \in {"resumed", "first"} /\ c # Top
      BY <1>1, <2>7, Awaited
    <3>2. frames' = [frames EXCEPT ![Top].at = "resumed", ![c].follower = Append(@, Top)]
      BY <2>7 DEF SuspendIn
    <3>3. CASE n = c
      BY <3>1, <3>3
    <3>4. CASE n # c
      <4> DEFINE one == [frames[Top] EXCEPT !.at = "resumed"]
      <4>1. frames'[n] = IF n = Top THEN one ELSE frames[n]
        BY <2>0, <3>2, <3>4
      <4>2. one.follower = frames[Top].follower
        BY <2>0, <2>7 DEF FrameRecord
      <4> HIDE DEF one
      <4>3. QED
        BY <4>1, <4>2
    <3>5. QED
      BY <3>3, <3>4
  <2>8. CASE GCallsH \/ HCallsF
    BY <2>6, <2>8 DEF GCallsH, HCallsF, At
  <2>9. CASE GWaits \/ HWaits
    BY <2>7, <2>9 DEF GWaits, HWaits, At
  <2>10. CASE GEnds \/ GResumes \/ HEnds \/ YieldFirst \/ YieldSecond \/ EndOfFollowers
    BY <2>2, <2>10 DEF GEnds, GResumes, HEnds, YieldFirst, YieldSecond, Yield,
                       EndOfFollowers, At, Places
  <2>11. CASE FReturns
    <3> DEFINE v == 100 * frames[Top].res[1] + frames[Top].res[2]
               one == [frames[Top] EXCEPT !.at = "return", !.final = v]
    <3>1. frames' = [frames EXCEPT ![Top] = one] /\ stack # << >>
      BY <2>11 DEF FReturns, At
    <3> HIDE DEF v
    <3>2. one.follower = frames[Top].follower
      BY <2>0, <3>1 DEF FrameRecord
    <3> HIDE DEF one
    <3>3. QED
      BY <2>0, <2>1, <3>1, <3>2
  <2>12. CASE ResumeFollower
    <3> DEFINE one == [frames[Top] EXCEPT !.next = @ + 1]
    <3>1. frames' = [frames EXCEPT ![Top] = one] /\ stack # << >>
      BY <2>12 DEF ResumeFollower
    <3>2. one.follower = frames[Top].follower
      BY <2>0, <3>1 DEF FrameRecord
    <3> HIDE DEF one
    <3>3. QED
      BY <2>0, <2>1, <3>1, <3>2
  <2>13. CASE UNCHANGED vars
    BY <2>13 DEF vars
  <2>14. QED
    BY <1>1, <2>3, <2>4, <2>5, <2>8, <2>9, <2>10, <2>11, <2>12, <2>13 DEF Next, Coroutine
<1>2. IInv /\ [Next]_vars => [AllSettled]_vars
  BY <1>1
<1>3. QED
  BY <1>2, FramesAreSharedOut, PTL DEF Spec, FollowersAreSettled
-----------------------------------------------------------------------------
(* The generator *)

\* The types of a frame of a generator and of a loop over one.
CoroutineRecord == [from : Int, first : Int, last : Int, current_value : Int,
          done : BOOLEAN, alive : BOOLEAN, seen : Seq(Int)]
Loop  == [frame : Nat, at : {"test", "body"}]

\* Handles are null or name a frame; only the innermost loop is at its test.
GeneratorTypeOK ==
  /\ coroutines \in Seq(CoroutineRecord)
  /\ m_coroutine \in [DOMAIN m_coroutine -> 0 .. Len(coroutines)]
  /\ loops \in Seq(Loop) /\ started \in Seq(Nat)
  /\ undefined \in 0 .. Len(coroutines)
  /\ \A i \in 1 .. Len(loops) :
       /\ loops[i].frame <= Len(coroutines)
       /\ i < Len(loops) => loops[i].at = "body"
       /\ loops[i].at = "body" => loops[i].frame # NoHandle

\* A frame exists exactly while an object has its handle, and only one has.
OwnerOK ==
  /\ \A n \in 1 .. Len(coroutines) :
       coroutines[n].alive <=> \E o \in DOMAIN m_coroutine : m_coroutine[o] = n
  /\ \A o, p \in DOMAIN m_coroutine :
       m_coroutine[o] = m_coroutine[p] => o = p \/ m_coroutine[o] = NoHandle

\* CoroutineRecord n has made a value that no loop has read.
Unread(n) == /\ undefined = NoHandle /\ loops # << >>
             /\ loops[Len(loops)].frame = n /\ loops[Len(loops)].at = "test"
             /\ ~ coroutines[n].done

\* first counts the values a frame has made, of which the first ones are seen.
Counted(fr) ==
  /\ fr.from <= fr.first /\ (fr.first <= fr.last \/ fr.first = fr.from)
  /\ fr.done => fr.first >= fr.last
  /\ \A i \in 1 .. Len(fr.seen) : fr.seen[i] = fr.from + i - 1

\* Loops have seen every value the frame has produced, or all but the last one.
AllSeen(fr) == Counted(fr) /\ Len(fr.seen) = fr.first - fr.from

OneUnread(fr) == /\ Counted(fr) /\ Len(fr.seen) = fr.first - fr.from - 1
                 /\ fr.current_value = fr.first - 1 /\ fr.from < fr.first

\* A value is unread exactly while a loop is between a resumption and its test.
YieldOK == \A n \in 1 .. Len(coroutines) :
             IF Unread(n) THEN OneUnread(coroutines[n]) ELSE AllSeen(coroutines[n])

\* The places of frame n in a sequence of starts.
Starts(s, n) == {i \in 1 .. Len(s) : s[i] = n}
\* Two begin() of the history s are of one frame.
StartedTwice(s, n) == \E i, j \in Starts(s, n) : i # j

\* Each loop was started, two loops by two starts; a frame that has ended was
\* run to its end by a loop, and by another one if it is being iterated still.
StartOK ==
  /\ \A i \in 1 .. Len(loops) : Starts(started, loops[i].frame) # {}
  /\ \A i, j \in 1 .. Len(loops) :
       i # j /\ loops[i].frame = loops[j].frame => StartedTwice(started, loops[i].frame)
  /\ \A n \in 1 .. Len(coroutines) : coroutines[n].done => Starts(started, n) # {}
  /\ \A i \in 1 .. Len(loops) :
       loops[i].at = "body" /\ coroutines[loops[i].frame].done
         => StartedTwice(started, loops[i].frame)
  /\ undefined # NoHandle =>
       \/ StartedTwice(started, undefined)
       \/ /\ ~ coroutines[undefined].alive
          /\ \E i \in 1 .. Len(loops) : loops[i].frame = undefined

\* The inductive invariant.
GeneratorIInv == GeneratorTypeOK /\ OwnerOK /\ YieldOK /\ StartOK
-----------------------------------------------------------------------------
\* resume() makes the next value or ends the frame.
LEMMA ResumedFrame ==
  ASSUME NEW fr \in CoroutineRecord
  PROVE  /\ Resumed(fr) \in CoroutineRecord
         /\ Resumed(fr).from = fr.from /\ Resumed(fr).last = fr.last
         /\ Resumed(fr).alive = fr.alive /\ Resumed(fr).seen = fr.seen
         /\ IF fr.first < fr.last
            THEN /\ Resumed(fr).current_value = fr.first /\ Resumed(fr).first = fr.first + 1
                 /\ Resumed(fr).done = fr.done
            ELSE Resumed(fr).first = fr.first /\ Resumed(fr).done
<1>1. CASE fr.first < fr.last
  <2>1. Resumed(fr) = [fr EXCEPT !.current_value = fr.first, !.first = fr.first + 1]
    BY <1>1 DEF Resumed
  <2>2. fr.first \in Int /\ fr.first + 1 \in Int
    BY DEF CoroutineRecord
  <2>3. Resumed(fr) \in CoroutineRecord
    BY <2>1, <2>2 DEF CoroutineRecord
  <2>4. QED
    BY <1>1, <2>1, <2>3 DEF CoroutineRecord
<1>2. CASE ~ (fr.first < fr.last)
  <2>1. Resumed(fr) = [fr EXCEPT !.done = TRUE]
    BY <1>2 DEF Resumed
  <2>2. QED
    BY <1>2, <2>1 DEF CoroutineRecord
<1>3. QED
  BY <1>1, <1>2

\* What Resume does to the frames.
LEMMA ResumeStep ==
  ASSUME GeneratorTypeOK, NEW n \in 1 .. Len(coroutines), Resume(n)
  PROVE  /\ coroutines' \in Seq(CoroutineRecord) /\ Len(coroutines') = Len(coroutines)
         /\ \A k \in 1 .. Len(coroutines) : k # n => coroutines'[k] = coroutines[k]
         /\ coroutines'[n].alive = coroutines[n].alive
         /\ IF coroutines[n].done \/ ~ coroutines[n].alive
            THEN coroutines' = coroutines /\ undefined' = n
            ELSE coroutines'[n] = Resumed(coroutines[n]) /\ undefined' = undefined
<1>1. coroutines \in Seq(CoroutineRecord) /\ coroutines[n] \in CoroutineRecord
  BY ElementOfSeq DEF GeneratorTypeOK
<1>2. Resumed(coroutines[n]) \in CoroutineRecord /\ Resumed(coroutines[n]).alive = coroutines[n].alive
  BY <1>1, ResumedFrame
<1>3. CASE coroutines[n].done \/ ~ coroutines[n].alive
  BY <1>1, <1>3 DEF Resume
<1>4. CASE ~ (coroutines[n].done \/ ~ coroutines[n].alive)
  <2>1. coroutines' = [coroutines EXCEPT ![n] = Resumed(coroutines[n])] /\ undefined' = undefined
    BY <1>4 DEF Resume
  <2>2. QED
    BY <1>1, <1>2, <1>4, <2>1, ExceptSeq
<1>5. QED
  BY <1>3, <1>4

\* The innermost loop goes to its test or into its body.
LEMMA LoopGoes ==
  ASSUME GeneratorTypeOK, loops # << >>, NEW x \in {"test", "body"},
         loops' = [loops EXCEPT ![Len(loops)].at = x]
  PROVE  /\ loops' \in Seq(Loop) /\ Len(loops') = Len(loops) /\ Len(loops) \in Nat \ {0}
         /\ \A i \in 1 .. Len(loops) - 1 : loops'[i] = loops[i]
         /\ loops'[Len(loops)].frame = loops[Len(loops)].frame
         /\ loops'[Len(loops)].at = x
<1>1. loops \in Seq(Loop) /\ Len(loops) \in Nat /\ Len(loops) > 0
  BY LenProperties, EmptySeq DEF GeneratorTypeOK
<1> DEFINE m == Len(loops)
           l == [loops[m] EXCEPT !.at = x]
<1>2. loops[m] \in Loop
  BY <1>1, ElementOfSeq
<1>3. l \in Loop /\ l.frame = loops[m].frame /\ l.at = x
  BY <1>2 DEF Loop
<1>4. loops' = [loops EXCEPT ![m] = l]
  BY <1>1
<1> HIDE DEF l
<1>5. /\ loops' \in Seq(Loop) /\ Len(loops') = m
      /\ \A i \in 1 .. m : loops'[i] = IF i = m THEN l ELSE loops[i]
  BY <1>1, <1>3, <1>4, ExceptSeq
<1>6. QED
  BY <1>1, <1>3, <1>5

\* What Enter does to the frame it reads.
LEMMA EnterStep ==
  ASSUME GeneratorTypeOK, Enter
  PROVE  LET n == loops[Len(loops)].frame
         IN /\ n \in 1 .. Len(coroutines) /\ ~ coroutines[n].done
            /\ coroutines' \in Seq(CoroutineRecord) /\ Len(coroutines') = Len(coroutines)
            /\ \A k \in 1 .. Len(coroutines) : k # n => coroutines'[k] = coroutines[k]
            /\ \A k \in 1 .. Len(coroutines) :
                 /\ coroutines'[k].alive = coroutines[k].alive
                 /\ coroutines'[k].done = coroutines[k].done
            /\ coroutines'[n]
                 = [coroutines[n] EXCEPT !.seen = Append(@, coroutines[n].current_value)]
<1> DEFINE n == loops[Len(loops)].frame
           fr == [coroutines[n] EXCEPT !.seen = Append(@, coroutines[n].current_value)]
<1>1. loops # << >> /\ n # NoHandle /\ ~ coroutines[n].done
  BY DEF Enter, Innermost, IsEnd
<1>2. Len(loops) \in 1 .. Len(loops)
  BY <1>1, LenProperties, EmptySeq DEF GeneratorTypeOK
<1>3. n \in 1 .. Len(coroutines) /\ coroutines \in Seq(CoroutineRecord) /\ Len(coroutines) \in Nat
  <2>1. loops[Len(loops)] \in Loop
    BY <1>2, ElementOfSeq DEF GeneratorTypeOK
  <2>2. n \in Nat /\ n <= Len(coroutines)
    BY <1>2, <2>1 DEF Loop, GeneratorTypeOK
  <2>3. QED
    BY <1>1, <2>2, LenProperties DEF NoHandle, GeneratorTypeOK
<1>4. coroutines' = [coroutines EXCEPT ![n] = fr]
  BY DEF Enter
<1>5. coroutines[n] \in CoroutineRecord
  BY <1>3, ElementOfSeq
<1> HIDE DEF n
<1>6. fr \in CoroutineRecord /\ fr.alive = coroutines[n].alive /\ fr.done = coroutines[n].done
  <2>1. Append(coroutines[n].seen, coroutines[n].current_value) \in Seq(Int)
    BY <1>5, AppendProperties DEF CoroutineRecord
  <2>2. QED
    BY <1>5, <2>1 DEF CoroutineRecord
<1> HIDE DEF fr
<1>7. /\ coroutines' \in Seq(CoroutineRecord) /\ Len(coroutines') = Len(coroutines)
      /\ \A k \in 1 .. Len(coroutines) : coroutines'[k] = IF k = n THEN fr ELSE coroutines[k]
  BY <1>3, <1>4, <1>6, ExceptSeq
<1>8. QED
  BY <1>1, <1>3, <1>6, <1>7 DEF n, fr

\* A loop that is in its body iterates over a frame.
LEMMA InnermostFrame ==
  ASSUME GeneratorTypeOK, Innermost("body")
  PROVE  loops[Len(loops)].frame \in 1 .. Len(coroutines)
<1>1. Len(loops) \in 1 .. Len(loops) /\ loops \in Seq(Loop)
  BY LenProperties, EmptySeq DEF GeneratorTypeOK, Innermost
<1>2. loops[Len(loops)] \in Loop
  BY <1>1, ElementOfSeq
<1>3. QED
  BY <1>1, <1>2, LenProperties DEF GeneratorTypeOK, Loop, Innermost, NoHandle

\* What Destroy does to the frames.
LEMMA DestroyStep ==
  ASSUME GeneratorTypeOK, NEW o \in Objects, Destroy(o)
  PROVE  /\ coroutines' \in Seq(CoroutineRecord) /\ Len(coroutines') = Len(coroutines)
         /\ \A k \in 1 .. Len(coroutines) :
              /\ coroutines'[k].alive <=> coroutines[k].alive /\ k # m_coroutine[o]
              /\ coroutines'[k].done = coroutines[k].done
              /\ coroutines'[k].from = coroutines[k].from
              /\ coroutines'[k].first = coroutines[k].first
              /\ coroutines'[k].last = coroutines[k].last
              /\ coroutines'[k].current_value = coroutines[k].current_value
              /\ coroutines'[k].seen = coroutines[k].seen
<1> DEFINE n == m_coroutine[o]
           fr == [coroutines[n] EXCEPT !.alive = FALSE]
<1>1. n \in 0 .. Len(coroutines) /\ coroutines \in Seq(CoroutineRecord) /\ Len(coroutines) \in Nat
  BY LenProperties DEF Destroy, GeneratorTypeOK
<1>2. \A k \in 1 .. Len(coroutines) : coroutines[k].alive \in BOOLEAN
  <2>1. \A k \in 1 .. Len(coroutines) : coroutines[k] \in CoroutineRecord
    BY <1>1, ElementOfSeq
  <2>2. QED
    BY <2>1 DEF CoroutineRecord
<1>3. CASE n = NoHandle
  BY <1>1, <1>2, <1>3 DEF Destroy, NoHandle
<1>4. CASE n # NoHandle
  <2>1. n \in 1 .. Len(coroutines)
    BY <1>1, <1>4 DEF NoHandle
  <2>2. coroutines[n] \in CoroutineRecord
    BY <1>1, <2>1, ElementOfSeq
  <2>3. coroutines' = [coroutines EXCEPT ![n] = fr]
    BY <1>4 DEF Destroy
  <2> HIDE DEF n
  <2>4. /\ fr \in CoroutineRecord /\ ~ fr.alive /\ fr.done = coroutines[n].done
        /\ fr.from = coroutines[n].from /\ fr.first = coroutines[n].first
        /\ fr.last = coroutines[n].last /\ fr.seen = coroutines[n].seen
        /\ fr.current_value = coroutines[n].current_value
    BY <2>2 DEF CoroutineRecord
  <2> HIDE DEF fr
  <2>5. /\ coroutines' \in Seq(CoroutineRecord) /\ Len(coroutines') = Len(coroutines)
        /\ \A k \in 1 .. Len(coroutines) : coroutines'[k] = IF k = n THEN fr ELSE coroutines[k]
    BY <1>1, <2>1, <2>3, <2>4, ExceptSeq
  <2>6. QED
    BY <1>2, <2>4, <2>5 DEF n
<1>5. QED
  BY <1>3, <1>4
-----------------------------------------------------------------------------
\* The variables have their types.
THEOREM TypeInvariant == GeneratorSpec => []GeneratorTypeOK
<1>1. GeneratorInit => GeneratorTypeOK
  BY EmptySeq DEF GeneratorInit, GeneratorTypeOK, NoHandle
<1>2. ASSUME GeneratorTypeOK, [GeneratorNext]_generator PROVE GeneratorTypeOK'
  <2> USE <1>2, GeneratorAssumption
  <2> DEFINE L == Len(coroutines)
             m == Len(loops)
  <2>0. /\ coroutines \in Seq(CoroutineRecord) /\ L \in Nat
        /\ loops \in Seq(Loop) /\ m \in Nat
        /\ started \in Seq(Nat)
        /\ loops # << >> => m > 0 /\ m \in 1 .. m /\ loops[m] \in Loop
    BY LenProperties, EmptySeq, ElementOfSeq DEF GeneratorTypeOK
  <2>1. ASSUME NEW o \in Objects, NEW a \in Numbers, NEW b \in Numbers, Make(o, a, b)
        PROVE  GeneratorTypeOK'
    <3>1. NewCoroutine(a, b) \in CoroutineRecord
      BY EmptySeq DEF NewCoroutine, CoroutineRecord
    <3>2. coroutines' \in Seq(CoroutineRecord) /\ Len(coroutines') = L + 1
      BY <2>0, <2>1, <3>1, AppendProperties DEF Make
    <3>3. m_coroutine' \in [DOMAIN m_coroutine' -> 0 .. L + 1]
      BY <2>0, <2>1 DEF Make, GeneratorTypeOK
    <3>4. UNCHANGED <<loops, started, undefined>>
      BY <2>1 DEF Make
    <3>5. undefined' \in 0 .. L + 1
      BY <2>0, <3>4 DEF GeneratorTypeOK
    <3>6. \A i \in 1 .. Len(loops') :
            /\ loops'[i].frame <= L + 1
            /\ i < Len(loops') => loops'[i].at = "body"
            /\ loops'[i].at = "body" => loops'[i].frame # NoHandle
      <4>1. \A i \in 1 .. m : loops[i].frame \in Nat
        <5>1. \A i \in 1 .. m : loops[i] \in Loop
          BY <2>0, ElementOfSeq
        <5>2. QED
          BY <5>1 DEF Loop
      <4>2. QED
        BY <2>0, <3>4, <4>1 DEF GeneratorTypeOK
    <3>7. QED
      BY <2>0, <3>2, <3>3, <3>4, <3>5, <3>6 DEF GeneratorTypeOK
  <2>2. ASSUME NEW o \in Objects, NEW other \in Objects, MoveTo(o, other) PROVE GeneratorTypeOK'
    <3>1. m_coroutine' \in [DOMAIN m_coroutine' -> 0 .. L]
      BY <2>0, <2>2 DEF MoveTo, GeneratorTypeOK, NoHandle
    <3>2. QED
      BY <2>2, <3>1 DEF MoveTo, GeneratorTypeOK
  <2>3. ASSUME NEW o \in Objects, Destroy(o) PROVE GeneratorTypeOK'
    <3>1. coroutines' \in Seq(CoroutineRecord) /\ Len(coroutines') = L
      BY <2>3, DestroyStep
    <3>2. m_coroutine' \in [DOMAIN m_coroutine' -> 0 .. L]
      BY <2>3 DEF Destroy, GeneratorTypeOK
    <3>3. QED
      BY <2>3, <3>1, <3>2 DEF Destroy, GeneratorTypeOK
  <2>4. ASSUME NEW o \in Objects, Begin(o) PROVE GeneratorTypeOK'
    <3> DEFINE n == m_coroutine[o]
    <3>1. n \in 0 .. L /\ n \in Nat /\ [frame |-> n, at |-> "test"] \in Loop
      BY <2>0, <2>4 DEF Begin, GeneratorTypeOK, Loop
    <3>2. /\ loops' \in Seq(Loop) /\ Len(loops') = m + 1
          /\ \A i \in 1 .. m : loops'[i] = loops[i]
          /\ loops'[m + 1] = [frame |-> n, at |-> "test"]
      BY <2>0, <2>4, <3>1, AppendProperties DEF Begin
    <3>3. started' \in Seq(Nat)
      BY <2>0, <2>4, <3>1, AppendProperties DEF Begin
    <3>4. coroutines' \in Seq(CoroutineRecord) /\ Len(coroutines') = L /\ undefined' \in 0 .. L
      <4>1. CASE n = NoHandle
        BY <2>0, <2>4, <4>1 DEF Begin, GeneratorTypeOK
      <4>2. CASE n # NoHandle
        <5>1. n \in 1 .. L /\ Resume(n)
          BY <2>0, <2>4, <3>1, <4>2 DEF Begin, NoHandle
        <5>2. /\ coroutines' \in Seq(CoroutineRecord) /\ Len(coroutines') = L
              /\ undefined' \in {n, undefined}
          BY <5>1, ResumeStep
        <5>3. QED
          BY <5>1, <5>2 DEF GeneratorTypeOK
      <4>3. QED
        BY <4>1, <4>2
    <3>5. \A i \in 1 .. m : loops[i].at = "body"
      BY <2>0, <2>4 DEF Begin, AtUser, GeneratorTypeOK
    <3>6. \A i \in 1 .. Len(loops') :
            /\ loops'[i].frame <= L
            /\ i < Len(loops') => loops'[i].at = "body"
            /\ loops'[i].at = "body" => loops'[i].frame # NoHandle
      <4>1. \A i \in 1 .. m :
              /\ loops'[i].frame <= L /\ loops'[i].at = "body"
              /\ loops'[i].frame # NoHandle
        BY <2>0, <3>2, <3>5 DEF GeneratorTypeOK
      <4>2. loops'[m + 1].frame <= L /\ loops'[m + 1].at = "test"
        BY <2>0, <3>1, <3>2
      <4>3. \A i \in 1 .. m + 1 : i \in 1 .. m \/ i = m + 1
        BY <2>0
      <4>4. QED
        BY <2>0, <3>2, <4>1, <4>2, <4>3
    <3>7. UNCHANGED m_coroutine
      BY <2>4 DEF Begin
    <3>8. QED
      BY <3>2, <3>3, <3>4, <3>6, <3>7 DEF GeneratorTypeOK
  <2>5. CASE EndLoop \/ Break
    <3>1. loops # << >> /\ loops' = Front(loops)
      BY <2>5 DEF EndLoop, Break, Innermost
    <3>2. /\ loops' \in Seq(Loop) /\ Len(loops') = m - 1
          /\ \A i \in 1 .. m - 1 : loops'[i] = loops[i]
      BY <2>0, <3>1, FrontOfSequence
    <3>3. UNCHANGED <<coroutines, m_coroutine, started, undefined>>
      BY <2>5 DEF EndLoop, Break
    <3>4. QED
      BY <2>0, <3>2, <3>3 DEF GeneratorTypeOK
  <2>6. CASE Enter
    <3>1. /\ loops # << >> /\ loops' = [loops EXCEPT ![m].at = "body"]
          /\ UNCHANGED <<m_coroutine, started, undefined>>
      BY <2>6 DEF Enter, Innermost
    <3>2. /\ loops' \in Seq(Loop) /\ Len(loops') = m
          /\ \A i \in 1 .. m - 1 : loops'[i] = loops[i]
          /\ loops'[m].frame = loops[m].frame
      BY <3>1, LoopGoes
    <3>3. loops[m].frame \in 1 .. L /\ coroutines' \in Seq(CoroutineRecord) /\ Len(coroutines') = L
      BY <2>6, EnterStep
    <3>4. \A i \in 1 .. m :
            /\ loops'[i].frame <= L
            /\ i < m => loops'[i].at = "body"
            /\ loops'[i].at = "body" => loops'[i].frame # NoHandle
      BY <2>0, <3>1, <3>2, <3>3 DEF GeneratorTypeOK, NoHandle
    <3>5. QED
      BY <3>1, <3>2, <3>3, <3>4 DEF GeneratorTypeOK
  <2>7. CASE Advance
    <3>1. /\ loops # << >> /\ loops' = [loops EXCEPT ![m].at = "test"]
          /\ loops[m].at = "body" /\ Resume(loops[m].frame)
          /\ UNCHANGED <<m_coroutine, started>>
      BY <2>7 DEF Advance, Innermost
    <3>2. /\ loops' \in Seq(Loop) /\ Len(loops') = m
          /\ \A i \in 1 .. m - 1 : loops'[i] = loops[i]
          /\ loops'[m].frame = loops[m].frame /\ loops'[m].at = "test"
      BY <3>1, LoopGoes
    <3>3. loops[m].frame \in 1 .. L
      BY <2>0, <3>1 DEF GeneratorTypeOK, Loop, NoHandle
    <3>4. /\ coroutines' \in Seq(CoroutineRecord) /\ Len(coroutines') = L
          /\ undefined' \in {loops[m].frame, undefined}
      BY <3>1, <3>3, ResumeStep
    <3>5. \A i \in 1 .. m :
            /\ loops'[i].frame <= L
            /\ i < m => loops'[i].at = "body"
            /\ loops'[i].at = "body" => loops'[i].frame # NoHandle
      BY <2>0, <3>1, <3>2 DEF GeneratorTypeOK
    <3>6. undefined' \in 0 .. L
      BY <3>3, <3>4 DEF GeneratorTypeOK
    <3>7. QED
      BY <3>1, <3>2, <3>4, <3>5, <3>6 DEF GeneratorTypeOK
  <2>8. CASE UNCHANGED generator
    BY <2>8 DEF generator, GeneratorTypeOK
  <2>9. QED
    BY <2>1, <2>2, <2>3, <2>4, <2>5, <2>6, <2>7, <2>8 DEF GeneratorNext
<1>3. QED
  BY <1>1, <1>2, PTL DEF GeneratorSpec
-----------------------------------------------------------------------------
\* One owner for each frame that exists, and none for one that is gone.
THEOREM OwnerInvariant == GeneratorSpec => []OwnerOK
<1>1. GeneratorInit => OwnerOK
  BY EmptySeq DEF GeneratorInit, OwnerOK
<1>2. ASSUME GeneratorTypeOK, OwnerOK, [GeneratorNext]_generator PROVE OwnerOK'
  <2> USE <1>2
  <2> DEFINE L == Len(coroutines)
  <2>0. L \in Nat /\ \A o \in DOMAIN m_coroutine : m_coroutine[o] \in 0 .. L
    BY LenProperties DEF GeneratorTypeOK
  <2>1. ASSUME UNCHANGED m_coroutine, Len(coroutines') = L,
               \A k \in 1 .. L : coroutines'[k].alive = coroutines[k].alive
        PROVE  OwnerOK'
    BY <2>1 DEF OwnerOK
  <2>2. ASSUME NEW o \in Objects, NEW a \in Numbers, NEW b \in Numbers, Make(o, a, b)
        PROVE  OwnerOK'
    <3>1. NewCoroutine(a, b) \in CoroutineRecord
      BY EmptySeq, GeneratorAssumption DEF NewCoroutine, CoroutineRecord
    <3>2. /\ Len(coroutines') = L + 1
          /\ \A k \in 1 .. L : coroutines'[k] = coroutines[k]
          /\ coroutines'[L + 1].alive
      BY <2>2, <3>1, AppendProperties DEF Make, GeneratorTypeOK, NewCoroutine
    <3>3. /\ o \notin DOMAIN m_coroutine /\ DOMAIN m_coroutine' = DOMAIN m_coroutine \cup {o}
          /\ m_coroutine'[o] = L + 1
          /\ \A p \in DOMAIN m_coroutine : m_coroutine'[p] = m_coroutine[p]
      BY <2>2 DEF Make
    <3>4. ASSUME NEW n \in 1 .. L + 1
          PROVE  coroutines'[n].alive <=> \E p \in DOMAIN m_coroutine' : m_coroutine'[p] = n
      BY <2>0, <3>2, <3>3 DEF OwnerOK
    <3>5. ASSUME NEW p \in DOMAIN m_coroutine', NEW q \in DOMAIN m_coroutine',
                 m_coroutine'[p] = m_coroutine'[q]
          PROVE  p = q \/ m_coroutine'[p] = NoHandle
      BY <2>0, <3>3, <3>5 DEF OwnerOK
    <3>6. QED
      BY <3>2, <3>4, <3>5 DEF OwnerOK
  <2>3. ASSUME NEW o \in Objects, NEW other \in Objects, MoveTo(o, other) PROVE OwnerOK'
    <3>1. /\ o \notin DOMAIN m_coroutine /\ other \in DOMAIN m_coroutine
          /\ DOMAIN m_coroutine' = DOMAIN m_coroutine \cup {o}
          /\ m_coroutine'[o] = m_coroutine[other] /\ m_coroutine'[other] = NoHandle
          /\ \A p \in DOMAIN m_coroutine \ {other} : m_coroutine'[p] = m_coroutine[p]
          /\ UNCHANGED coroutines
      BY <2>3 DEF MoveTo
    <3>2. ASSUME NEW n \in 1 .. L
          PROVE  coroutines[n].alive <=> \E p \in DOMAIN m_coroutine' : m_coroutine'[p] = n
      BY <2>0, <3>1 DEF OwnerOK, NoHandle
    <3>3. ASSUME NEW p \in DOMAIN m_coroutine', NEW q \in DOMAIN m_coroutine',
                 m_coroutine'[p] = m_coroutine'[q]
          PROVE  p = q \/ m_coroutine'[p] = NoHandle
      BY <2>0, <3>1, <3>3 DEF OwnerOK
    <3>4. QED
      BY <3>1, <3>2, <3>3 DEF OwnerOK
  <2>4. ASSUME NEW o \in Objects, Destroy(o) PROVE OwnerOK'
    <3>1. /\ o \in DOMAIN m_coroutine /\ DOMAIN m_coroutine' = DOMAIN m_coroutine \ {o}
          /\ \A p \in DOMAIN m_coroutine \ {o} : m_coroutine'[p] = m_coroutine[p]
      BY <2>4 DEF Destroy
    <3>2. /\ Len(coroutines') = L
          /\ \A k \in 1 .. L :
               coroutines'[k].alive <=> coroutines[k].alive /\ k # m_coroutine[o]
      BY <2>4, DestroyStep
    <3>3. ASSUME NEW n \in 1 .. L
          PROVE  coroutines'[n].alive <=> \E p \in DOMAIN m_coroutine' : m_coroutine'[p] = n
      BY <2>0, <3>1, <3>2 DEF OwnerOK, NoHandle
    <3>4. QED
      BY <3>1, <3>2, <3>3 DEF OwnerOK
  <2>5. ASSUME NEW n \in 1 .. L, Resume(n), UNCHANGED m_coroutine PROVE OwnerOK'
    BY <2>1, <2>5, ResumeStep
  <2>6. ASSUME NEW o \in Objects, Begin(o) PROVE OwnerOK'
    <3>1. /\ m_coroutine[o] \in 0 .. L /\ UNCHANGED m_coroutine
          /\ IF m_coroutine[o] = NoHandle THEN UNCHANGED coroutines ELSE Resume(m_coroutine[o])
      BY <2>0, <2>6 DEF Begin
    <3>2. CASE m_coroutine[o] = NoHandle
      BY <2>1, <3>1, <3>2
    <3>3. CASE m_coroutine[o] # NoHandle
      BY <2>0, <2>5, <3>1, <3>3 DEF NoHandle
    <3>4. QED
      BY <3>2, <3>3
  <2>7. CASE EndLoop \/ Break \/ UNCHANGED generator
    BY <2>1, <2>7 DEF EndLoop, Break, generator
  <2>8. CASE Enter
    BY <2>1, <2>8, EnterStep DEF Enter
  <2>9. CASE Advance
    BY <2>5, <2>9, InnermostFrame DEF Advance
  <2>10. QED
    BY <2>2, <2>3, <2>4, <2>6, <2>7, <2>8, <2>9 DEF GeneratorNext
<1>3. QED
  BY <1>1, <1>2, TypeInvariant, PTL DEF GeneratorSpec

\* The moves and destructions of generators leak no frame and destroy none twice.
THEOREM EveryFrameHasItsOwner == GeneratorSpec => []OneOwner
<1>1. GeneratorTypeOK /\ OwnerOK => OneOwner
  <2> SUFFICES ASSUME GeneratorTypeOK, OwnerOK, NEW n \in DOMAIN coroutines
               PROVE  Cardinality({o \in DOMAIN m_coroutine : m_coroutine[o] = n})
                        = IF coroutines[n].alive THEN 1 ELSE 0
    BY DEF OneOwner
  <2>1. n \in 1 .. Len(coroutines) /\ Len(coroutines) \in Nat
    BY LenProperties DEF GeneratorTypeOK
  <2> DEFINE owners == {o \in DOMAIN m_coroutine : m_coroutine[o] = n}
  <2>2. CASE coroutines[n].alive
    <3>1. PICK o \in DOMAIN m_coroutine : m_coroutine[o] = n
      BY <2>1, <2>2 DEF OwnerOK
    <3>2. owners = {o}
      BY <2>1, <3>1 DEF OwnerOK, NoHandle
    <3>3. QED
      BY <2>2, <3>2, FS_Singleton
  <2>3. CASE ~ coroutines[n].alive
    <3>1. owners = {}
      BY <2>1, <2>3 DEF OwnerOK
    <3>2. QED
      BY <2>3, <3>1, FS_EmptySet
  <2>4. QED
    BY <2>2, <2>3
<1>2. QED
  BY <1>1, TypeInvariant, OwnerInvariant, PTL
-----------------------------------------------------------------------------
\* Destroying a frame leaves its values alone.
LEMMA AllSeenKept ==
  ASSUME NEW fr, NEW f2, AllSeen(fr), f2.done = fr.done, f2.from = fr.from,
         f2.first = fr.first, f2.last = fr.last, f2.seen = fr.seen
  PROVE  AllSeen(f2)
BY DEF AllSeen, Counted

\* The three things that happen to a frame keep count of its values.
LEMMA NewIsSeen ==
  ASSUME NEW a \in Int, NEW b \in Int
  PROVE  AllSeen(NewCoroutine(a, b))
BY EmptySeq DEF AllSeen, Counted, NewCoroutine

\* Resuming a frame leaves one value unread, or none when the range is over.
LEMMA ResumedIsUnread ==
  ASSUME NEW fr \in CoroutineRecord, AllSeen(fr)
  PROVE  IF fr.first < fr.last THEN OneUnread(Resumed(fr)) ELSE AllSeen(Resumed(fr))
<1>1. fr.from \in Int /\ fr.first \in Int /\ fr.last \in Int
  BY DEF CoroutineRecord
<1>2. CASE fr.first < fr.last
  BY <1>1, <1>2, ResumedFrame DEF AllSeen, OneUnread, Counted
<1>3. CASE ~ (fr.first < fr.last)
  BY <1>1, <1>3, ResumedFrame DEF AllSeen, Counted
<1>4. QED
  BY <1>2, <1>3

\* The body of the loop sees the value that was unread.
LEMMA EnteredIsSeen ==
  ASSUME NEW fr \in CoroutineRecord, OneUnread(fr)
  PROVE  AllSeen([fr EXCEPT !.seen = Append(@, fr.current_value)])
<1> DEFINE new == Append(fr.seen, fr.current_value)
           m   == Len(fr.seen)
<1>1. /\ fr.from \in Int /\ fr.first \in Int /\ fr.last \in Int /\ fr.current_value \in Int
      /\ fr.seen \in Seq(Int) /\ m \in Nat
  BY LenProperties DEF CoroutineRecord
<1>2. Len(new) = m + 1 /\ new[m + 1] = fr.current_value /\ \A i \in 1 .. m : new[i] = fr.seen[i]
  BY <1>1, AppendProperties
<1>3. m + 1 = fr.first - fr.from /\ fr.current_value = fr.from + (m + 1) - 1
  BY <1>1 DEF OneUnread
<1> HIDE DEF new, m
<1>4. \A i \in 1 .. m + 1 : new[i] = fr.from + i - 1
  <2>1. \A i \in 1 .. m : new[i] = fr.from + i - 1
    BY <1>2 DEF OneUnread, Counted, m
  <2>2. \A i \in 1 .. m + 1 : i \in 1 .. m \/ i = m + 1
    BY <1>1
  <2>3. QED
    BY <1>2, <1>3, <2>1, <2>2
<1> DEFINE f2 == [fr EXCEPT !.seen = new]
<1>5. /\ f2.from = fr.from /\ f2.first = fr.first /\ f2.last = fr.last /\ f2.done = fr.done
      /\ f2.seen = new
  BY DEF CoroutineRecord
<1>6. [fr EXCEPT !.seen = Append(@, fr.current_value)] = f2
  BY DEF new
<1> HIDE DEF f2
<1>7. AllSeen(f2)
  BY <1>1, <1>2, <1>3, <1>4, <1>5 DEF AllSeen, OneUnread, Counted
<1>8. QED
  BY <1>6, <1>7

\* Every value made is seen once, in order, whichever loops ask for them.
THEOREM YieldInvariant == GeneratorSpec => []YieldOK
<1>1. GeneratorInit => YieldOK
  BY EmptySeq DEF GeneratorInit, YieldOK
<1>2. ASSUME GeneratorTypeOK, YieldOK, [GeneratorNext]_generator PROVE YieldOK'
  <2> USE <1>2
  <2> DEFINE L == Len(coroutines)
             m == Len(loops)
             top == loops[m]
  <2>0. /\ L \in Nat /\ m \in Nat /\ (loops # << >> => m > 0)
        /\ \A k \in 1 .. L : coroutines[k] \in CoroutineRecord
        /\ loops # << >> => top \in Loop
        /\ \A k \in 1 .. L :
             IF Unread(k) THEN OneUnread(coroutines[k]) ELSE AllSeen(coroutines[k])
    BY LenProperties, EmptySeq, ElementOfSeq DEF GeneratorTypeOK, YieldOK
  \* No value is left unread by a step that changes no frame.
  <2>1. ASSUME \A k \in 1 .. L : ~ Unread(k) /\ ~ Unread(k)', Len(coroutines') = L,
               \A k \in 1 .. L : AllSeen(coroutines[k]) => AllSeen(coroutines'[k])
        PROVE  YieldOK'
    BY <2>0, <2>1 DEF YieldOK
  <2>2. AtUser => \A k \in 1 .. L : ~ Unread(k)
    BY DEF AtUser, Unread
  \* One frame is resumed, and the innermost loop goes to its test.
  <2>3. ASSUME NEW n \in 1 .. L, Resume(n), \A k \in 1 .. L : ~ Unread(k),
               undefined = NoHandle, loops' # << >>,
               loops'[Len(loops')].frame = n, loops'[Len(loops')].at = "test"
        PROVE  YieldOK'
    <3>1. /\ Len(coroutines') = L
          /\ \A k \in 1 .. L : k # n => coroutines'[k] = coroutines[k]
          /\ IF coroutines[n].done \/ ~ coroutines[n].alive
             THEN coroutines' = coroutines /\ undefined' = n
             ELSE coroutines'[n] = Resumed(coroutines[n]) /\ undefined' = undefined
      BY <2>3, ResumeStep
    <3>2. CASE coroutines[n].done \/ ~ coroutines[n].alive
      <4>1. \A k \in 1 .. L : ~ Unread(k)'
        BY <3>1, <3>2 DEF Unread, NoHandle
      <4>2. QED
        BY <2>1, <2>3, <3>1, <3>2, <4>1
    <3>3. CASE ~ (coroutines[n].done \/ ~ coroutines[n].alive)
      <4>1. \A k \in 1 .. L : AllSeen(coroutines[k])
        BY <2>0, <2>3
      <4>2. IF coroutines[n].first < coroutines[n].last
            THEN OneUnread(coroutines'[n]) ELSE AllSeen(coroutines'[n])
        BY <2>0, <3>1, <3>3, <4>1, ResumedIsUnread
      <4>3. Unread(n)' <=> coroutines[n].first < coroutines[n].last
        <5>1. ~ coroutines'[n].done <=> coroutines[n].first < coroutines[n].last
          BY <2>0, <3>1, <3>3, ResumedFrame
        <5>2. QED
          BY <2>3, <3>1, <3>3, <5>1 DEF Unread
      <4>4. \A k \in 1 .. L : k # n => ~ Unread(k)'
        BY <2>3 DEF Unread
      <4>5. QED
        BY <3>1, <4>1, <4>2, <4>3, <4>4 DEF YieldOK
    <3>4. QED
      BY <3>2, <3>3
  <2>4. ASSUME NEW o \in Objects, NEW a \in Numbers, NEW b \in Numbers, Make(o, a, b)
        PROVE  YieldOK'
    <3>1. a \in Int /\ b \in Int
      BY GeneratorAssumption
    <3>2. NewCoroutine(a, b) \in CoroutineRecord
      BY <3>1, EmptySeq DEF NewCoroutine, CoroutineRecord
    <3>3. /\ Len(coroutines') = L + 1
          /\ \A k \in 1 .. L : coroutines'[k] = coroutines[k]
          /\ coroutines'[L + 1] = NewCoroutine(a, b)
      BY <2>4, <3>2, AppendProperties DEF Make, GeneratorTypeOK
    <3>4. \A k : ~ Unread(k) /\ ~ Unread(k)'
      BY <2>4 DEF Make, AtUser, Unread
    <3>5. \A k \in 1 .. L : AllSeen(coroutines'[k])
      BY <2>0, <3>3, <3>4
    <3>6. AllSeen(coroutines'[L + 1])
      BY <3>1, <3>3, NewIsSeen
    <3>7. \A k \in 1 .. L + 1 : k \in 1 .. L \/ k = L + 1
      BY <2>0
    <3>8. QED
      BY <3>3, <3>4, <3>5, <3>6, <3>7 DEF YieldOK
  <2>5. ASSUME NEW o \in Objects, NEW other \in Objects, MoveTo(o, other) PROVE YieldOK'
    BY <2>1, <2>2, <2>5 DEF MoveTo, AtUser, Unread
  <2>6. ASSUME NEW o \in Objects, Destroy(o) PROVE YieldOK'
    <3>1. AtUser /\ UNCHANGED <<loops, undefined>>
      BY <2>6 DEF Destroy
    <3>2. \A k \in 1 .. L : ~ Unread(k) /\ ~ Unread(k)'
      BY <3>1 DEF AtUser, Unread
    <3>3. QED
      BY <2>1, <2>6, <3>2, DestroyStep, AllSeenKept
  <2>7. ASSUME NEW o \in Objects, Begin(o) PROVE YieldOK'
    <3> DEFINE n == m_coroutine[o]
    <3>1. /\ n \in 0 .. L /\ AtUser /\ undefined = NoHandle
          /\ loops' = Append(loops, [frame |-> n, at |-> "test"])
          /\ IF n = NoHandle THEN UNCHANGED <<coroutines, undefined>> ELSE Resume(n)
      BY <2>7 DEF Begin, GeneratorTypeOK, AtUser
    <3>2. loops' # << >> /\ loops'[Len(loops')] = [frame |-> n, at |-> "test"]
      <4>1. [frame |-> n, at |-> "test"] \in Loop /\ loops \in Seq(Loop)
        BY <2>0, <3>1 DEF Loop, GeneratorTypeOK
      <4>2. QED
        BY <3>1, <4>1, AppendProperties
    <3>3. CASE n = NoHandle
      <4>1. \A k \in 1 .. L : ~ Unread(k) /\ ~ Unread(k)'
        BY <2>2, <3>1, <3>2, <3>3 DEF Unread, NoHandle
      <4>2. QED
        BY <2>1, <3>1, <3>3, <4>1
    <3>4. CASE n # NoHandle
      <4>1. n \in 1 .. L
        BY <2>0, <3>1, <3>4 DEF NoHandle
      <4>2. QED
        BY <2>2, <2>3, <3>1, <3>2, <3>4, <4>1
    <3>5. QED
      BY <3>3, <3>4
  <2>8. CASE EndLoop \/ Break
    <3>1. /\ loops # << >> /\ loops' = Front(loops) /\ UNCHANGED <<coroutines, undefined>>
          /\ top.at = "body" \/ IsEnd(top.frame)
      BY <2>8 DEF EndLoop, Break, Innermost
    <3>2. \A k \in 1 .. L : ~ Unread(k)
      BY <3>1 DEF Unread, IsEnd, NoHandle
    <3>3. loops' # << >> => loops'[Len(loops')].at = "body"
      <4>1. /\ loops' \in Seq(Loop) /\ Len(loops') = m - 1
            /\ \A i \in 1 .. m - 1 : loops'[i] = loops[i]
        BY <3>1, FrontOfSequence DEF GeneratorTypeOK
      <4>2. loops' # << >> => m - 1 \in 1 .. m - 1
        BY <2>0, <4>1, EmptySeq, LenProperties
      <4>3. QED
        BY <2>0, <4>1, <4>2 DEF GeneratorTypeOK
    <3>4. \A k \in 1 .. L : ~ Unread(k)'
      BY <3>3 DEF Unread
    <3>5. QED
      BY <2>1, <3>1, <3>2, <3>4
  <2>9. CASE Enter
    <3>1. /\ loops # << >> /\ top.at = "test" /\ undefined = NoHandle
          /\ UNCHANGED undefined /\ loops' = [loops EXCEPT ![m].at = "body"]
      BY <2>9 DEF Enter, Innermost
    <3>2. /\ Len(loops') = m /\ loops'[m].at = "body"
      BY <3>1, LoopGoes
    <3>3. \A k : ~ Unread(k)'
      BY <3>2 DEF Unread
    <3> DEFINE n == top.frame
    <3>4. /\ n \in 1 .. L /\ ~ coroutines[n].done
          /\ Len(coroutines') = L
          /\ \A k \in 1 .. L : k # n => coroutines'[k] = coroutines[k]
          /\ coroutines'[n]
               = [coroutines[n] EXCEPT !.seen = Append(@, coroutines[n].current_value)]
      BY <2>9, EnterStep
    <3>5. Unread(n) /\ \A k \in 1 .. L : k # n => ~ Unread(k)
      BY <3>1, <3>4 DEF Unread
    <3>6. OneUnread(coroutines[n])
      BY <2>0, <3>4, <3>5
    <3>7. AllSeen(coroutines'[n])
      BY <2>0, <3>4, <3>6, EnteredIsSeen
    <3>8. \A k \in 1 .. L : k # n => AllSeen(coroutines'[k])
      BY <2>0, <3>4, <3>5
    <3>9. QED
      BY <3>3, <3>4, <3>7, <3>8 DEF YieldOK
  <2>10. CASE Advance
    <3>1. /\ Innermost("body") /\ loops' = [loops EXCEPT ![m].at = "test"]
          /\ Resume(top.frame) /\ undefined = NoHandle /\ loops # << >>
      BY <2>10 DEF Advance, Innermost
    <3>2. top.frame \in 1 .. L /\ \A k \in 1 .. L : ~ Unread(k)
      BY <3>1, InnermostFrame DEF Innermost, Unread
    <3>3. /\ Len(loops') = m /\ loops' \in Seq(Loop)
          /\ loops'[m].frame = top.frame /\ loops'[m].at = "test"
      BY <3>1, LoopGoes
    <3>4. loops' # << >>
      BY <2>0, <3>1, <3>3, EmptySeq
    <3>5. QED
      BY <2>3, <3>1, <3>2, <3>3, <3>4
  <2>11. CASE UNCHANGED generator
    BY <2>11 DEF generator, YieldOK, Unread
  <2>12. QED
    BY <2>4, <2>5, <2>6, <2>7, <2>8, <2>9, <2>10, <2>11 DEF GeneratorNext
<1>3. QED
  BY <1>1, <1>2, TypeInvariant, PTL DEF GeneratorSpec

\* However many loops share a generator, its range is dealt out once, in order.
THEOREM RangeIsShared == GeneratorSpec => []LoopsShareTheRange
<1>1. GeneratorTypeOK /\ YieldOK => LoopsShareTheRange
  <2> SUFFICES ASSUME GeneratorTypeOK, YieldOK, NEW n \in DOMAIN coroutines
               PROVE  LET fr == coroutines[n]
                      IN /\ \A i \in DOMAIN fr.seen :
                              fr.seen[i] = fr.from + i - 1 /\ fr.seen[i] < fr.last
                         /\ fr.done => Len(fr.seen) = IF fr.from < fr.last
                                                      THEN fr.last - fr.from ELSE 0
    BY DEF LoopsShareTheRange
  <2> DEFINE fr == coroutines[n]
  <2>1. n \in 1 .. Len(coroutines) /\ fr \in CoroutineRecord
    BY LenProperties, ElementOfSeq DEF GeneratorTypeOK
  <2>2. /\ fr.from \in Int /\ fr.first \in Int /\ fr.last \in Int
        /\ fr.seen \in Seq(Int) /\ Len(fr.seen) \in Nat /\ DOMAIN fr.seen = 1 .. Len(fr.seen)
    BY <2>1, LenProperties DEF CoroutineRecord
  <2>3. /\ AllSeen(fr) \/ OneUnread(fr)
        /\ fr.done => AllSeen(fr)
    BY <2>1 DEF YieldOK, Unread
  <2> HIDE DEF fr
  <2>4. fr.done => Len(fr.seen) = IF fr.from < fr.last THEN fr.last - fr.from ELSE 0
    BY <2>2, <2>3 DEF AllSeen, OneUnread, Counted
  <2>5. ASSUME NEW i \in DOMAIN fr.seen
        PROVE  fr.seen[i] = fr.from + i - 1 /\ fr.seen[i] < fr.last
    <3>1. Len(fr.seen) <= fr.first - fr.from
      BY SMTT(30), <2>2, <2>3 DEF AllSeen, OneUnread, Counted
    <3>2. fr.seen[i] = fr.from + i - 1 /\ fr.first <= fr.last
      BY SMTT(30), <2>2, <2>3, <2>5, <3>1 DEF AllSeen, OneUnread, Counted
    <3>3. QED
      BY SMTT(30), <2>2, <2>5, <3>1, <3>2
  <2>6. QED
    BY <2>4, <2>5 DEF fr
<1>2. QED
  BY <1>1, TypeInvariant, YieldInvariant, PTL
-----------------------------------------------------------------------------
\* A loop adds one start of its frame.
LEMMA OneMoreStart ==
  ASSUME GeneratorTypeOK, NEW f \in Nat, started' = Append(started, f)
  PROVE  /\ \A n : Starts(started, n) # {} => Starts(started', n) # {}
         /\ \A n : StartedTwice(started, n) => StartedTwice(started', n)
         /\ Starts(started', f) # {}
         /\ Starts(started, f) # {} => StartedTwice(started', f)
<1> DEFINE l == Len(started)
<1>1. /\ l \in Nat /\ Len(started') = l + 1 /\ started'[l + 1] = f
      /\ \A i \in 1 .. l : started'[i] = started[i]
  BY AppendProperties, LenProperties DEF GeneratorTypeOK
<1>2. \A n : \A i \in Starts(started, n) : i \in Starts(started', n) /\ i # l + 1
  BY <1>1 DEF Starts
<1>3. l + 1 \in Starts(started', f)
  BY <1>1 DEF Starts
<1>4. QED
  BY <1>2, <1>3 DEF StartedTwice

\* A frame that is resumed too late was started twice, or its owner destroyed it
\* under the loop.
THEOREM StartInvariant == GeneratorSpec => []StartOK
<1>1. GeneratorInit => StartOK
  BY EmptySeq DEF GeneratorInit, StartOK
<1>2. ASSUME GeneratorTypeOK, OwnerOK, StartOK, [GeneratorNext]_generator PROVE StartOK'
  <2> USE <1>2
  <2> DEFINE L == Len(coroutines)
             m == Len(loops)
             top == loops[m]
  <2>0. /\ L \in Nat /\ m \in Nat /\ (loops # << >> => m \in 1 .. m)
        /\ \A i \in 1 .. m : loops[i].at = "body" => loops[i].frame \in 1 .. L
        /\ undefined \in 0 .. L
    <3>1. \A i \in 1 .. m : loops[i] \in Loop
      BY ElementOfSeq DEF GeneratorTypeOK
    <3>2. L \in Nat /\ m \in Nat /\ (loops # << >> => m > 0)
      BY LenProperties, EmptySeq DEF GeneratorTypeOK
    <3>3. QED
      BY <3>1, <3>2 DEF GeneratorTypeOK, Loop, NoHandle
  \* No loop is started, ended or moved, and no frame is ended.
  <2>1. ASSUME UNCHANGED <<loops, started, undefined>>, undefined = NoHandle,
               L <= Len(coroutines'), Len(coroutines') \in Nat,
               \A k \in 1 .. L : coroutines'[k].done = coroutines[k].done,
               \A k \in 1 .. Len(coroutines') : k > L => ~ coroutines'[k].done
        PROVE  StartOK'
    <3>1. \A n : Starts(started', n) = Starts(started, n)
                 /\ (StartedTwice(started', n) <=> StartedTwice(started, n))
      BY <2>1 DEF Starts, StartedTwice
    <3>2. \A n \in 1 .. Len(coroutines') : coroutines'[n].done => Starts(started, n) # {}
      BY <2>0, <2>1 DEF StartOK
    <3>3. \A i \in 1 .. m : loops[i].at = "body" /\ coroutines'[loops[i].frame].done
                              => StartedTwice(started, loops[i].frame)
      BY <2>0, <2>1 DEF StartOK
    <3>4. QED
      BY <2>1, <3>1, <3>2, <3>3 DEF StartOK
  <2>2. ASSUME NEW o \in Objects, NEW a \in Numbers, NEW b \in Numbers, Make(o, a, b)
        PROVE  StartOK'
    <3>1. NewCoroutine(a, b) \in CoroutineRecord /\ ~ NewCoroutine(a, b).done
      BY EmptySeq, GeneratorAssumption DEF NewCoroutine, CoroutineRecord
    <3>2. /\ Len(coroutines') = L + 1
          /\ \A k \in 1 .. L : coroutines'[k] = coroutines[k]
          /\ coroutines'[L + 1] = NewCoroutine(a, b)
      BY <2>2, <3>1, AppendProperties DEF Make, GeneratorTypeOK
    <3>3. \A k \in 1 .. L + 1 : k > L => k = L + 1
      BY <2>0
    <3>4. UNCHANGED <<loops, started, undefined>> /\ undefined = NoHandle
      BY <2>2 DEF Make, AtUser
    <3>5. QED
      BY <2>0, <2>1, <3>1, <3>2, <3>3, <3>4
  <2>3. ASSUME NEW o \in Objects, NEW other \in Objects, MoveTo(o, other) PROVE StartOK'
    BY <2>0, <2>1, <2>3 DEF MoveTo, AtUser
  <2>4. ASSUME NEW o \in Objects, Destroy(o) PROVE StartOK'
    BY <2>0, <2>1, <2>4, DestroyStep DEF Destroy, AtUser
  <2>5. ASSUME NEW o \in Objects, Begin(o) PROVE StartOK'
    <3> DEFINE n == m_coroutine[o]
    <3>1. /\ n \in 0 .. L /\ n \in Nat /\ undefined = NoHandle
          /\ loops' = Append(loops, [frame |-> n, at |-> "test"])
          /\ started' = Append(started, n)
          /\ IF n = NoHandle THEN UNCHANGED <<coroutines, undefined>> ELSE Resume(n)
      BY <2>0, <2>5 DEF Begin, GeneratorTypeOK, AtUser
    <3>2. /\ Len(loops') = m + 1 /\ \A i \in 1 .. m : loops'[i] = loops[i]
          /\ loops'[m + 1].frame = n /\ loops'[m + 1].at = "test"
      <4>1. [frame |-> n, at |-> "test"] \in Loop /\ loops \in Seq(Loop)
        BY <3>1 DEF Loop, GeneratorTypeOK
      <4>2. QED
        BY <3>1, <4>1, AppendProperties
    <3>3. /\ \A k : Starts(started, k) # {} => Starts(started', k) # {}
          /\ \A k : StartedTwice(started, k) => StartedTwice(started', k)
          /\ Starts(started', n) # {}
          /\ Starts(started, n) # {} => StartedTwice(started', n)
      BY <3>1, OneMoreStart
    <3>4. /\ Len(coroutines') = L
          /\ \A k \in 1 .. L : k # n => coroutines'[k].done = coroutines[k].done
          /\ undefined' = NoHandle
               \/ (undefined' = n /\ n \in 1 .. L /\ coroutines[n].done)
      <4>1. CASE n = NoHandle
        BY <3>1, <4>1
      <4>2. CASE n # NoHandle
        <5>1. n \in 1 .. L /\ coroutines[n].alive
          BY <2>0, <2>5, <3>1, <4>2 DEF NoHandle, OwnerOK, Begin
        <5>2. QED
          BY <3>1, <4>2, <5>1, ResumeStep
      <4>3. QED
        BY <4>1, <4>2
    <3>5. \A i \in 1 .. m + 1 : i \in 1 .. m \/ i = m + 1
      BY <2>0
    <3>6. \A i \in 1 .. m : Starts(started, loops[i].frame) # {}
      BY DEF StartOK
    <3>7. \A i \in 1 .. m + 1 : Starts(started', loops'[i].frame) # {}
      BY <3>2, <3>3, <3>5, <3>6
    <3>8. ASSUME NEW i \in 1 .. m + 1, NEW j \in 1 .. m + 1, i # j,
                 loops'[i].frame = loops'[j].frame
          PROVE  StartedTwice(started', loops'[i].frame)
      <4>1. CASE i \in 1 .. m /\ j \in 1 .. m
        BY <3>2, <3>3, <3>8, <4>1 DEF StartOK
      <4>2. CASE i = m + 1 /\ j \in 1 .. m
        BY <3>2, <3>3, <3>6, <3>8, <4>2
      <4>3. CASE i \in 1 .. m /\ j = m + 1
        BY <3>2, <3>3, <3>6, <3>8, <4>3
      <4>4. QED
        BY <3>5, <3>8, <4>1, <4>2, <4>3
    <3>9. \A k \in 1 .. L : coroutines'[k].done => Starts(started', k) # {}
      BY <3>3, <3>4 DEF StartOK
    <3>10. ASSUME NEW i \in 1 .. m + 1, loops'[i].at = "body",
                  coroutines'[loops'[i].frame].done
           PROVE  StartedTwice(started', loops'[i].frame)
      <4>1. i \in 1 .. m /\ loops'[i] = loops[i] /\ loops[i].frame \in 1 .. L
        BY <2>0, <3>2, <3>5, <3>10
      <4>2. CASE loops[i].frame = n
        BY <3>3, <3>6, <4>1, <4>2
      <4>3. CASE loops[i].frame # n
        BY <3>3, <3>4, <3>10, <4>1, <4>3 DEF StartOK
      <4>4. QED
        BY <4>2, <4>3
    <3>11. undefined' # NoHandle => StartedTwice(started', undefined')
      BY <3>3, <3>4 DEF StartOK
    <3>12. QED
      BY <3>2, <3>4, <3>7, <3>8, <3>9, <3>10, <3>11 DEF StartOK
  \* The loops and what they iterate over stay, up to the place of the last one.
  <2>6. ASSUME UNCHANGED started, Len(loops') = m, undefined = NoHandle,
               \A i \in 1 .. m : loops'[i].frame = loops[i].frame,
               Len(coroutines') = L,
               \A k \in 1 .. L : coroutines'[k].done => Starts(started, k) # {},
               \A i \in 1 .. m : loops'[i].at = "body" /\ coroutines'[loops[i].frame].done
                                   => StartedTwice(started, loops[i].frame),
               undefined' # NoHandle =>
                 \/ StartedTwice(started, undefined')
                 \/ /\ ~ coroutines'[undefined'].alive
                    /\ \E i \in 1 .. m : loops[i].frame = undefined'
        PROVE  StartOK'
    <3>1. \A n : Starts(started', n) = Starts(started, n)
                 /\ (StartedTwice(started', n) <=> StartedTwice(started, n))
      BY <2>6 DEF Starts, StartedTwice
    <3>2. undefined' # NoHandle =>
            \/ StartedTwice(started', undefined')
            \/ /\ ~ coroutines'[undefined'].alive
               /\ \E i \in 1 .. m : loops'[i].frame = undefined'
      BY <2>6, <3>1 DEF StartedTwice, Starts
    <3>3. \A i \in 1 .. m : Starts(started', loops'[i].frame) # {}
      BY <2>6, <3>1 DEF StartOK
    <3>4. \A i, j \in 1 .. m : i # j /\ loops'[i].frame = loops'[j].frame
                                 => StartedTwice(started', loops'[i].frame)
      BY <2>6, <3>1 DEF StartOK
    <3>5. \A i \in 1 .. m : loops'[i].at = "body" /\ coroutines'[loops'[i].frame].done
                              => StartedTwice(started', loops'[i].frame)
      BY <2>6, <3>1
    <3>6. \A k \in 1 .. L : coroutines'[k].done => Starts(started', k) # {}
      BY <2>6, <3>1
    <3>7. QED
      BY <2>6, <3>2, <3>3, <3>4, <3>5, <3>6 DEF StartOK
  <2>7. CASE EndLoop \/ Break
    <3>1. /\ loops # << >> /\ loops' = Front(loops) /\ undefined = NoHandle
          /\ UNCHANGED <<coroutines, started, undefined>>
      BY <2>7 DEF EndLoop, Break, Innermost
    <3>2. /\ Len(loops') = m - 1 /\ \A i \in 1 .. m - 1 : loops'[i] = loops[i] /\ i \in 1 .. m
      BY <2>0, <3>1, FrontOfSequence DEF GeneratorTypeOK
    <3>3. \A n : Starts(started', n) = Starts(started, n)
                 /\ (StartedTwice(started', n) <=> StartedTwice(started, n))
      BY <3>1 DEF Starts, StartedTwice
    <3>4. \A i \in 1 .. m - 1 : Starts(started', loops'[i].frame) # {}
      BY <3>2, <3>3 DEF StartOK
    <3>5. \A i, j \in 1 .. m - 1 : i # j /\ loops'[i].frame = loops'[j].frame
                                     => StartedTwice(started', loops'[i].frame)
      BY <3>2, <3>3 DEF StartOK
    <3>6. \A i \in 1 .. m - 1 : loops'[i].at = "body" /\ coroutines'[loops'[i].frame].done
                                  => StartedTwice(started', loops'[i].frame)
      BY <3>1, <3>2, <3>3 DEF StartOK
    <3>7. \A k \in 1 .. Len(coroutines') : coroutines'[k].done => Starts(started', k) # {}
      BY <3>1, <3>3 DEF StartOK
    <3>8. undefined' = NoHandle
      BY <3>1
    <3>9. QED
      BY <3>2, <3>4, <3>5, <3>6, <3>7, <3>8 DEF StartOK
  <2>8. CASE Enter
    <3>1. /\ loops # << >> /\ undefined = NoHandle /\ UNCHANGED <<started, undefined>>
          /\ loops' = [loops EXCEPT ![m].at = "body"]
      BY <2>8 DEF Enter, Innermost
    <3>2. /\ Len(loops') = m /\ loops'[m].frame = top.frame
          /\ \A i \in 1 .. m - 1 : loops'[i] = loops[i]
      BY <3>1, LoopGoes
    <3>3. /\ Len(coroutines') = L /\ \A k \in 1 .. L : coroutines'[k].done = coroutines[k].done
          /\ top.frame \in 1 .. L /\ ~ coroutines[top.frame].done
      BY <2>8, EnterStep
    <3>4. \A i \in 1 .. m : i \in 1 .. m - 1 \/ i = m
      BY <2>0
    <3>5. \A i \in 1 .. m : loops'[i].at = "body" /\ coroutines'[loops[i].frame].done
                              => StartedTwice(started, loops[i].frame)
      BY <2>0, <3>2, <3>3, <3>4 DEF StartOK
    <3>6. \A i \in 1 .. m : loops'[i].frame = loops[i].frame
      BY <3>2, <3>4
    <3>7. \A k \in 1 .. L : coroutines'[k].done => Starts(started, k) # {}
      BY <3>3 DEF StartOK
    <3>8. QED
      BY <2>6, <3>1, <3>2, <3>3, <3>5, <3>6, <3>7
  <2>9. CASE Advance
    <3> DEFINE n == top.frame
    <3>1. /\ Innermost("body") /\ loops' = [loops EXCEPT ![m].at = "test"]
          /\ Resume(n) /\ undefined = NoHandle /\ loops # << >> /\ UNCHANGED started
          /\ top.at = "body"
      BY <2>9 DEF Advance, Innermost
    <3>2. n \in 1 .. L
      BY <3>1, InnermostFrame
    <3>3. /\ Len(loops') = m /\ loops'[m].frame = n /\ loops'[m].at = "test"
          /\ \A i \in 1 .. m - 1 : loops'[i] = loops[i]
      BY <3>1, LoopGoes
    <3>4. /\ Len(coroutines') = L
          /\ \A k \in 1 .. L : k # n => coroutines'[k] = coroutines[k]
          /\ coroutines'[n].alive = coroutines[n].alive
          /\ undefined' = NoHandle
               \/ (undefined' = n /\ (coroutines[n].done \/ ~ coroutines[n].alive))
      BY <3>1, <3>2, ResumeStep
    <3>5. \A i \in 1 .. m : i \in 1 .. m - 1 \/ i = m
      BY <2>0
    <3>6. \A i \in 1 .. m : loops'[i].frame = loops[i].frame
      BY <3>3, <3>5
    <3>7. \A k \in 1 .. L : coroutines'[k].done => Starts(started, k) # {}
      BY <2>0, <3>1, <3>4 DEF StartOK
    <3>8. ASSUME NEW i \in 1 .. m, loops'[i].at = "body", coroutines'[loops[i].frame].done
          PROVE  StartedTwice(started, loops[i].frame)
      <4>1. i \in 1 .. m - 1 /\ i # m /\ loops'[i] = loops[i] /\ loops[i].frame \in 1 .. L
        BY <2>0, <3>3, <3>5, <3>8
      <4>2. CASE loops[i].frame = n
        BY <2>0, <3>1, <4>1, <4>2 DEF StartOK
      <4>3. CASE loops[i].frame # n
        BY <3>4, <3>8, <4>1, <4>3 DEF StartOK
      <4>4. QED
        BY <4>2, <4>3
    <3>9. undefined' # NoHandle =>
            \/ StartedTwice(started, undefined')
            \/ /\ ~ coroutines'[undefined'].alive
               /\ \E i \in 1 .. m : loops[i].frame = undefined'
      BY <2>0, <3>1, <3>4 DEF StartOK
    <3>10. QED
      BY <2>6, <3>1, <3>3, <3>4, <3>6, <3>7, <3>8, <3>9
  <2>10. CASE UNCHANGED generator
    BY SMTT(30), <2>10 DEF generator, StartOK, Starts, StartedTwice
  <2>11. QED
    BY <2>2, <2>3, <2>4, <2>5, <2>7, <2>8, <2>9, <2>10 DEF GeneratorNext
<1>3. QED
  BY <1>1, <1>2, TypeInvariant, OwnerInvariant, PTL DEF GeneratorSpec

\* What the library leaves undefined happens only to a frame that two loops were
\* started over, or that was destroyed under its loop.
THEOREM UndefinedIsDeserved == GeneratorSpec => []UndefinedHasACause
<1>1. GeneratorTypeOK /\ StartOK => UndefinedHasACause
  <2> SUFFICES ASSUME GeneratorTypeOK, StartOK, undefined # NoHandle
               PROVE  \/ Cardinality({i \in DOMAIN started : started[i] = undefined}) > 1
                      \/ /\ ~ coroutines[undefined].alive
                         /\ \E i \in DOMAIN loops : loops[i].frame = undefined
    BY DEF UndefinedHasACause
  <2>1. DOMAIN started = 1 .. Len(started) /\ DOMAIN loops = 1 .. Len(loops)
    BY LenProperties DEF GeneratorTypeOK
  <2>2. CASE StartedTwice(started, undefined)
    <3>1. PICK i, j \in Starts(started, undefined) : i # j
      BY <2>2 DEF StartedTwice
    <3>2. IsFiniteSet(Starts(started, undefined))
      <4>1. Len(started) \in Int /\ 1 \in Int
        BY LenProperties DEF GeneratorTypeOK
      <4>2. IsFiniteSet(1 .. Len(started))
        BY <4>1, FS_Interval
      <4>3. Starts(started, undefined) \subseteq 1 .. Len(started)
        BY DEF Starts
      <4>4. QED
        BY <4>2, <4>3, FS_Subset
    <3>3. IsFiniteSet({i}) /\ Cardinality({i}) = 1 /\ j \notin {i}
      BY <3>1, FS_Singleton
    <3>4. Cardinality({i} \cup {j}) = 2
      BY <3>3, FS_AddElement
    <3>5. Cardinality({i} \cup {j}) <= Cardinality(Starts(started, undefined))
      BY <3>1, <3>2, FS_Subset
    <3>6. Cardinality(Starts(started, undefined)) \in Nat
      BY <3>2, FS_CardinalityType
    <3>7. {k \in DOMAIN started : started[k] = undefined} = Starts(started, undefined)
      BY <2>1 DEF Starts
    <3>8. Cardinality(Starts(started, undefined)) > 1
      BY <3>4, <3>5, <3>6
    <3>9. QED
      BY <3>7, <3>8
  <2>3. QED
    BY <2>1, <2>2 DEF StartOK
<1>2. QED
  BY <1>1, TypeInvariant, StartInvariant, PTL
================================================================================
