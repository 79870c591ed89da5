------------------------------- MODULE MCNotes -------------------------------
(***************************************************************************)
(* T-notes of two sessions of a project, each with turns of its own.       *)
(***************************************************************************)
EXTENDS TNotes

MCNoteTurns == [s |-> {"t1"}, r |-> {"t2"}]
=============================================================================
