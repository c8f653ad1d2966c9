----------------------------- MODULE MCHubLedger -----------------------------
(* Values for the constants of HubLedger. *)
EXTENDS HubLedger

\* No machine's clock leads the Hub's.
ClocksAgree == [a \in Agents |-> 0]

\* Every machine's clock leads the Hub's by one observation.
ClocksLead == [a \in Agents |-> 1]
=============================================================================
