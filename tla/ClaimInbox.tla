------------------------------ MODULE ClaimInbox ------------------------------
(***************************************************************************)
(* What the ledger promises a person: for every agent, the stamp of the    *)
(* claim the menu shows (0 when it shows none) and of the newest claim     *)
(* that was dealt with (0 when none was).                                  *)
(***************************************************************************)
EXTENDS Integers

CONSTANT Agents

VARIABLES shown, handled

Init == /\ shown = [a \in Agents |-> 0]
        /\ handled = [a \in Agents |-> 0]

\* Claims appear, are replaced by newer ones, or are withdrawn.  None that
\* was dealt with, and none older than the one shown, appears.
Update ==
    /\ shown' \in [Agents -> Nat]
    /\ \A a \in Agents :
          shown'[a] # 0 => shown'[a] >= shown[a] /\ shown'[a] > handled[a]
    /\ UNCHANGED handled

\* A person deals with a claim of agent a that is at least as new as the one
\* shown: it and everything older are gone, a newer claim is not.
Handle(a) ==
    /\ handled'[a] \in Nat
    /\ handled'[a] > handled[a]
    /\ handled'[a] >= shown[a]
    /\ handled' = [handled EXCEPT ![a] = handled'[a]]
    /\ shown' = [shown EXCEPT ![a] = 0]

Next == Update \/ \E a \in Agents : Handle(a)

Spec == Init /\ [][Next]_<<shown, handled>>
=============================================================================
