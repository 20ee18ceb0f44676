--------------------------- MODULE MC_KeyDerivation ---------------------------
(* KeyDerivation over the catalog of the source, scrypt compiled in.      *)
EXTENDS KeyDerivation, KdfCatalog

MCCases == SuiteCases(TRUE)
=============================================================================
