------------------------------- MODULE MCAnswers -------------------------------
EXTENDS Answers

CONSTANTS txt, plus

attr(n, v, r) == [name |-> n, value |-> v, resource |-> r]
status(n, t, as) == [name |-> n, text |-> t, attribs |-> as]

(* A status with an attribute, two without, one with two attributes; a     *)
(* pair of job identifiers.                                                *)
Small ==
  {<<status(txt, NULL, <<attr(txt, plus, NULL)>>)>>,
   <<status(txt, txt, <<>>), status(NULL, NULL, <<>>)>>,
   <<status(NULL, NULL, <<attr(txt, NULL, NULL), attr(NULL, NULL, plus)>>)>>}
Two == {<<txt, plus>>}
Rows == <<{plus}, {txt}>>
===============================================================================
