---------------------------- MODULE MCExecBatch ----------------------------
(* Instances of ExecBatch for TLC. *)
EXTENDS ExecBatch
CONSTANTS a1, a2
Single == {<<a1>>}
Mixed == {<<a1>>, <<a1, a2>>, <<a1, a1>>}
=============================================================================
