----------------------------- MODULE MCCsvImport -----------------------------
(***************************************************************************)
(* Model-checking instance of CsvImport: symmetric workers.                *)
(***************************************************************************)
EXTENDS CsvImport, TLC

WorkerSymmetry == Permutations(Workers)
=============================================================================
