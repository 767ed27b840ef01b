------------------------------ MODULE MCAttrList ------------------------------
EXTENDS AttrList, TLC

(* Calls, Attrs, strings and memory cells are interchangeable.             *)
Symmetry == Permutations(Calls) \cup Permutations(Attrs) \cup
            Permutations(Strings) \cup Permutations(Nodes)
===============================================================================
