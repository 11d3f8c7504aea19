--------------------------- MODULE MCManifestStore ---------------------------
(* Symmetry for the TLC runs of ManifestStore.                             *)
EXTENDS ManifestStore, TLC

\* No property of the safety runs names a call or one of the storable facts.
StoreSymmetry == Permutations(Call) \union Permutations(Facts \ OutOfRange)
=============================================================================
