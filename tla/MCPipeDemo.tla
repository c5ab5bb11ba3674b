----------------------------- MODULE MCPipeDemo -----------------------------
(***************************************************************************)
(* The driver checked for every command line. Input files hold StableHLO,  *)
(* with or without chlo ops (GELU exports) and scf loops (decode loops);   *)
(* ranks go one beyond the highest rank runJit handles.                    *)
(***************************************************************************)
EXTENDS PipeDemo

MCInputIRs == {{"func", "stablehlo"}, {"func", "stablehlo", "chlo"},
               {"func", "stablehlo", "scf", "arith"}}
MCRanks == 0..5
=============================================================================
