------------------------------ MODULE Allocator ------------------------------
(***************************************************************************)
(* What real_storage promises its clients (kernel/real.hxx): alloc hands   *)
(* out a chunk of the region that nobody else has, free takes it back.     *)
(* The front of the region is the manager's own; it may only grow, and     *)
(* only over storage that no client holds.                                 *)
(***************************************************************************)
EXTENDS Integers, TLAPS

CONSTANTS
    Low, High,  \* the region is Low .. High - 1, both in Nat
    Sizes       \* the sizes the clients ask for, none of them 0

VARIABLES
    held,     \* the chunks the clients hold
    reserved  \* the manager's own front of the region ends here

vars == <<held, reserved>>

Chunk == [ptr : Low .. High, size : Sizes]

Disjoint(c, d) == c.ptr + c.size <= d.ptr \/ d.ptr + d.size <= c.ptr

\* A chunk the clients may have when the manager's own storage ends at r.
Within(c, r) == r <= c.ptr /\ c.ptr + c.size <= High

Init == held = {} /\ reserved \in Low .. High

Alloc ==
    \E c \in Chunk, r \in reserved .. High :
        /\ held' = held \cup {c}
        /\ reserved' = r
        /\ \A d \in held : Disjoint(c, d)
        /\ \A d \in held' : Within(d, r)

Free ==
    \E c \in held :
        /\ held' = held \ {c}
        /\ UNCHANGED reserved

Next == Alloc \/ Free

Spec == Init /\ [][Next]_vars

\* No two clients share storage, and none has storage of the manager's or
\* outside the region.
Apart ==
    /\ \A c, d \in held : c # d => Disjoint(c, d)
    /\ \A c \in held : Within(c, reserved)

\* The promise keeps the clients apart: alloc may not hand out storage that
\* overlaps a chunk held, nor the table grow (block::create, real.cxx) over one.
THEOREM PromiseKeepsApart == Spec => []Apart
<1>1. Init => Apart
  BY DEF Init, Apart
<1>2. Apart /\ [Next]_vars => Apart'
  <2> SUFFICES ASSUME Apart, [Next]_vars PROVE Apart'
    OBVIOUS
  <2>1. CASE Alloc
    <3>1. PICK c \in Chunk, r \in reserved .. High :
            /\ held' = held \cup {c}
            /\ reserved' = r
            /\ \A d \in held : Disjoint(c, d)
            /\ \A d \in held' : Within(d, r)
      BY <2>1 DEF Alloc
    <3>2. \A d \in held : Disjoint(c, d) /\ Disjoint(d, c)
      BY <3>1 DEF Disjoint
    <3> QED BY <3>1, <3>2 DEF Apart
  <2>2. CASE Free
    BY <2>2 DEF Free, Apart
  <2>3. CASE UNCHANGED vars
    BY <2>3 DEF vars, Apart
  <2> QED BY <2>1, <2>2, <2>3 DEF Next
<1> QED BY <1>1, <1>2, PTL DEF Spec
=============================================================================
