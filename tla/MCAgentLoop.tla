---------------------------- MODULE MCAgentLoop -----------------------------
(* Two reads, one file and a plan; batches that open a parallel window     *)
(* before an edit, edit twice, and approve a plan before an edit.          *)
EXTENDS AgentLoop

MCBatches == {<<"read", "look", "file">>, <<"file", "file">>, <<"plan", "file">>}
=============================================================================
