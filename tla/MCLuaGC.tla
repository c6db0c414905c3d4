------------------------------ MODULE MCLuaGC ------------------------------
(***************************************************************************)
(* Five programs of three addresses each, told apart by the kinds of the   *)
(* objects: every kind of weak table with an object to finalize, a closure *)
(* over the local of a coroutine, and full collections.  Two userdata are  *)
(* more than a step sweeps, so that sweepgc can stray.                     *)
(***************************************************************************)
EXTENDS LuaGC, TLC

CONSTANTS o1, o2, o3

Assign(x, y, z) == (o1 :> x) @@ (o2 :> y) @@ (o3 :> z)

Ephemeron == Assign("table", "ephemeron", "udata")
WeakValue == Assign("table", "weakv", "udata")
AllWeak   == Assign("udata", "allweak", "udata")
Upvalue   == Assign("thread", "lclosure", "table")
Full      == Assign("udata", "table", "table")

MCKinds == {Ephemeron, WeakValue, AllWeak, Upvalue, Full}

MCWrites ==
  (Ephemeron :> {<<o1, None, o2>>, <<o1, None, o3>>, <<o2, o3, o1>>, <<o3, None, o1>>}) @@
  (WeakValue :> {<<o1, None, o3>>, <<o1, None, None>>, <<o2, None, o3>>, <<o3, None, o2>>}) @@
  (AllWeak   :> {<<o1, None, o2>>, <<o1, None, None>>, <<o2, o3, o1>>, <<o2, o1, o3>>}) @@
  (Upvalue   :> {<<o1, None, o3>>, <<o2, None, o3>>, <<o3, None, o2>>}) @@
  (Full      :> {<<o1, None, o2>>})

\* Full collections, emergencies too, in the last of them.
MCFulls == [k \in Kinds |-> IF k = Full THEN BOOLEAN ELSE {}]
=============================================================================
