-------------------------- MODULE MCChampionEngine --------------------------
(* ChampionEngine for TLC.  Its constants are plain values of the .cfg.    *)
EXTENDS ChampionEngine
=============================================================================
