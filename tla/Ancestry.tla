------------------------------ MODULE Ancestry ------------------------------
(***************************************************************************)
(* Climbing from child to parent, as _ancestor_contains of                 *)
(* agent_window_resolver/resolver.py does in the nodes that were read, and *)
(* as the processes of a table are related in truth.  Links are pairs of a *)
(* child and its parent.                                                   *)
(***************************************************************************)

\* Everything met when climbing the links from x, itself included: what every
\* set that holds x and the parents of its members has.
Above(links, x) ==
  LET all == {x} \cup {l[2] : l \in links}
  IN  {y \in all : \A S \in SUBSET all :
         x \in S /\ (\A l \in links : l[1] \in S => l[2] \in S) => y \in S}
=============================================================================
