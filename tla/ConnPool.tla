------------------------------- MODULE ConnPool -------------------------------
(***************************************************************************)
(* What the Server objects promise about the connections of the IFL        *)
(* library: an entry of the library's connection table is free, or it      *)
(* belongs to the one Server object that opened it, or it has been         *)
(* abandoned (still open, but no object remembers its handle).  PBSServer  *)
(* is shown to implement this specification.                               *)
(***************************************************************************)
CONSTANTS Servers,   \* the Server objects of the program
          Handles,   \* the entries of the library's connection table
          Free,      \* mark of an entry with no open connection, no object
          Orphan     \* mark of an open connection whose handle is lost, no object

VARIABLE owner       \* who has each entry of the table

TypeOK == owner \in [Handles -> Servers \cup {Free, Orphan}]

Init == owner = [h \in Handles |-> Free]

(* The table once o has forgotten the handle it holds, if any.             *)
Abandoned(o) == [h \in Handles |-> IF owner[h] = o THEN Orphan ELSE owner[h]]

(* connect succeeds: o gets a free entry; one it already held is lost.     *)
Acquire(o, h) ==
  /\ owner[h] = Free
  /\ owner' = [Abandoned(o) EXCEPT ![h] = o]

(* o closes its own connection.                                            *)
Release(o, h) ==
  /\ owner[h] = o
  /\ owner' = [owner EXCEPT ![h] = Free]

(* o loses its handle without the connection being closed.                 *)
Abandon(o) == owner' = Abandoned(o)

(* connect opens an entry, fails afterwards and cannot close it again.     *)
Leak(o, h) ==
  /\ owner[h] = Free
  /\ owner' = [Abandoned(o) EXCEPT ![h] = Orphan]

Next == \E o \in Servers :
          \/ Abandon(o)
          \/ \E h \in Handles : Acquire(o, h) \/ Release(o, h) \/ Leak(o, h)

Spec == Init /\ [][Next]_owner

-------------------------------------------------------------------------------
(* No object ever holds two entries: a second connection replaces the first. *)
AtMostOne == \A o \in Servers, g, h \in Handles :
               owner[g] = o /\ owner[h] = o => g = h

(* An entry never passes from one object directly to another, and an         *)
(* abandoned one is lost for the rest of the process.                        *)
NoTheft == [][\A h \in Handles :
                /\ owner[h] \in Servers => owner'[h] \in {owner[h], Free, Orphan}
                /\ owner[h] = Orphan => owner'[h] = Orphan]_owner
===============================================================================
