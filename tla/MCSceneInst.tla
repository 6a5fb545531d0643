----------------------------- MODULE MCSceneInst -----------------------------
(* Instances of SceneInst for TLC.                                         *)
EXTENDS SceneInst, TLC

CONSTANTS e1, e2, e3, e4, e5, e6, authored, dynamic
=============================================================================
