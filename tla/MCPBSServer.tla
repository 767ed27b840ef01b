----------------------------- MODULE MCPBSServer ------------------------------
EXTENDS PBSServer, TLC

(* Threads and objects are interchangeable; the default host is not.       *)
Symmetry == Permutations(Threads) \cup Permutations(Servers)
===============================================================================
