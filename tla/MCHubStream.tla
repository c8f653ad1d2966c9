----------------------------- MODULE MCHubStream -----------------------------
(* HubStream for TLC: its constants are numbers, given by the .cfg files.    *)
EXTENDS HubStream
=============================================================================
