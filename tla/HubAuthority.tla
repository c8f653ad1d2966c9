---------------------------- MODULE HubAuthority ----------------------------
(***************************************************************************)
(* What AgentdHub promises the attention service about its stream: the     *)
(* roster may be presented as current from the moment a snapshot of an     *)
(* awake connection is accepted until the connection is lost, and every    *)
(* loss is followed by one on_disconnect before the next acceptance.       *)
(***************************************************************************)

VARIABLES authority,  \* "none", "granted", or "revoking": lost, notice not yet given
          awake       \* the machine is not suspended, as far as the Hub client knows

vars == <<authority, awake>>

Init == authority = "none" /\ awake = TRUE

\* A snapshot makes the stream live.
Grant ==
    /\ authority = "none" /\ awake
    /\ authority' = "granted"
    /\ UNCHANGED awake

\* The stream is lost, possibly because the machine goes to sleep.
Lose ==
    /\ authority = "granted"
    /\ authority' = "revoking"
    /\ awake' \in {awake, FALSE}

\* on_disconnect returns.
Revoke ==
    /\ authority = "revoking"
    /\ authority' = "none"
    /\ UNCHANGED awake

Sleep == awake /\ authority # "granted" /\ awake' = FALSE /\ UNCHANGED authority

Wake == ~awake /\ awake' = TRUE /\ UNCHANGED authority

\* The service ends: it takes its own presentation down.
Shutdown == authority' = "none" /\ awake' = TRUE

Next == Grant \/ Lose \/ Revoke \/ Sleep \/ Wake \/ Shutdown

Spec == Init /\ [][Next]_vars
=============================================================================
