--------------------------- MODULE MCEditorThreads ---------------------------
(* Instances of EditorThreads for TLC.                                     *)
EXTENDS EditorThreads, TLC
=============================================================================
