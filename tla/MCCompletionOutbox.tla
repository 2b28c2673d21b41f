------------------------- MODULE MCCompletionOutbox -------------------------
(***************************************************************************)
(* Small instances of CompletionOutbox for TLC.                            *)
(***************************************************************************)
EXTENDS CompletionOutbox

CONSTANTS c1, c2, c3, o1, o2, o3
=============================================================================
