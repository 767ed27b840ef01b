------------------------------- MODULE MCPBSLog -------------------------------
EXTENDS PBSLog, TLC

(* Objects, memory cells and names are interchangeable.                    *)
Symmetry == Permutations(Logs) \cup Permutations(Cells) \cup Permutations(Names)
===============================================================================
