-------------------------- MODULE MCCompressorPool ---------------------------
(* Instances of CompressorPool for TLC.                                      *)
EXTENDS CompressorPool

\* Messages with data, of two sizes, and one without.
Four == 1..4
FourSizes == <<1, 0, 2, 1>>
==============================================================================
