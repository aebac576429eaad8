--------------------------- MODULE MCEngineParity ---------------------------
(* EngineParity with interchangeable users. *)
EXTENDS EngineParity

UserSymmetry == Permutations(Users)
=============================================================================
