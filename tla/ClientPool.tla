------------------------------ MODULE ClientPool ------------------------------
(***************************************************************************)
(* The pool of connections of a test case (klayslave/clipool/clipool.go).  *)
(* Its operations hold one mutex from end to end, so that each is one step *)
(* of the task that calls it: here they are functions of the pool's value. *)
(* Clients are numbered in the order in which allocFunc makes them.  The   *)
(* field max is written by Init and read by nobody.                        *)
(***************************************************************************)
EXTENDS Naturals, Sequences

Pool == [free : Seq(Nat), cnt : Nat]

\* Init: the clients that are there from the start.
NewPool(init) == [free |-> [i \in 1..init |-> i], cnt |-> init]

\* The client that Alloc returns, and the pool it leaves.
Given(p) == IF p.free = <<>> THEN p.cnt + 1 ELSE Head(p.free)

\* Mutant of Alloc: the client stays on the list.
AllocKeeps(p) == IF p.free = <<>> THEN [p EXCEPT !.cnt = @ + 1] ELSE p

Alloc(p) == IF p.free = <<>> THEN [p EXCEPT !.cnt = @ + 1]
                             ELSE [p EXCEPT !.free = Tail(@)]

Free(p, c) == [p EXCEPT !.free = Append(@, c)]
=============================================================================
