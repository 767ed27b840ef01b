---------------------------- MODULE MCModuleTables ----------------------------
EXTENDS ModuleTables, TLC

(* The rows of the operator table are interchangeable.                     *)
Symmetry == Permutations(Ops)
===============================================================================
