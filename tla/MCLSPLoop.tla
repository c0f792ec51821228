----------------------------- MODULE MCLSPLoop -----------------------------
(* Two files in two package strata. *)
EXTENDS LSPLoop

CONSTANTS f0, f1

MCFiles == {f0, f1}
MCStratumOf == [f \in MCFiles |-> IF f = f0 THEN 0 ELSE 1]
=============================================================================
