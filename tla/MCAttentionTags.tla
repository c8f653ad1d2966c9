--------------------------- MODULE MCAttentionTags ---------------------------
(* AttentionTags for TLC: the windows are model values of the .cfg files.    *)
EXTENDS AttentionTags
=============================================================================
