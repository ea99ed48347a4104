------------------------------ MODULE MCEngine ------------------------------
(* Engine on small pools, for TLC.                                           *)
EXTENDS Engine, MCRunner

MCTwoPrompts == {<<0>>, <<0, 0, 1>>}
MCBad        == {<<>>, <<0, 0, 0, 0, 0, 0>>}
=============================================================================
