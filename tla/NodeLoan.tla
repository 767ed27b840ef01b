------------------------------- MODULE NodeLoan -------------------------------
(***************************************************************************)
(* What a method that takes a list of Attrs promises (PBSAttrType.c:371-   *)
(* 436): memory is borrowed node by node for the items it is given, the    *)
(* library sees these items, all of them and in their order, or nothing,   *)
(* and when the method returns everything it borrowed is given back.       *)
(***************************************************************************)
EXTENDS Sequences

CONSTANTS
  Calls,   \* the calls that borrow
  Items,   \* what a list may hold
  Nodes,   \* what can be borrowed
  Nobody   \* neither a call nor a list

VARIABLES
  borrower, \* who has each node
  given,    \* the items each call was given so far
  sent      \* the items the library saw in this step, or Nobody

vars == <<borrower, given, sent>>

Init ==
  /\ borrower = [n \in Nodes |-> Nobody]
  /\ given = [c \in Calls |-> <<>>]
  /\ sent = Nobody

(* Call c is given item x and borrows node n for it.                       *)
Lend(c, n, x) ==
  /\ borrower[n] = Nobody
  /\ borrower' = [borrower EXCEPT ![n] = c]
  /\ given' = [given EXCEPT ![c] = Append(@, x)]
  /\ sent' = Nobody

(* Call c is given item x, and there is no node for it.                    *)
Refuse(c, x) ==
  /\ given' = [given EXCEPT ![c] = Append(@, x)]
  /\ sent' = Nobody
  /\ UNCHANGED borrower

(* Call c returns, after the library has seen the list or without it.      *)
GiveBack(c) ==
  /\ borrower' = [n \in Nodes |-> IF borrower[n] = c THEN Nobody ELSE borrower[n]]
  /\ given' = [given EXCEPT ![c] = <<>>]
  /\ sent' \in {given[c], Nobody}

(* The library is given an empty list by a call that has none.             *)
Without == sent' \in {<<>>, Nobody} /\ UNCHANGED <<borrower, given>>

Next ==
  \/ \E c \in Calls, x \in Items : Refuse(c, x) \/ \E n \in Nodes : Lend(c, n, x)
  \/ \E c \in Calls : GiveBack(c)
  \/ Without

Spec == Init /\ [][Next]_vars
===============================================================================
