------------------------ MODULE MCCompressionPredictor ------------------------
(***************************************************************************)
(* Names for three kernels: the third runs under the name of the first.    *)
(***************************************************************************)
EXTENDS CompressionPredictor

CONSTANTS a, b

TwoNames == {a, b}
NamesInTurn == <<a, b, a>>
=============================================================================
