------------------------------- MODULE AttrList -------------------------------
(***************************************************************************)
(* The conversion of a Python list of Attr objects to the linked list of   *)
(* the C library (PBSAttrType.c:328-436) and the part every method of      *)
(* Server that takes such a list adds to it: the call of the library and   *)
(* the release of the list.                                                *)
(*                                                                         *)
(* The nodes are the call's own memory, but the strings they point to are  *)
(* those of the Attr objects.  Other Python code runs during a conversion  *)
(* only if the iterator of the list is written in Python (a subclass of    *)
(* list): then, at every PyIter_Next and when the iterator is released,    *)
(* Attrs may be changed and dropped and other calls may begin.  A call     *)
(* with a plain list has the interpreter to itself until it returns.       *)
(***************************************************************************)
EXTENDS Naturals, Sequences, FiniteSets, Functions

CONSTANTS
  Calls,         \* calls of Server methods (one for each thread at a time)
  Attrs,         \* Attr objects (identities)
  Others,        \* objects of other types that may be in a list
  Strings,       \* Python strings an Attr may have
  Nodes,         \* the heap: struct attrl / attropl
  None, NULL

Objects == Attrs \cup Others

ASSUME AttrListAssumption ==
  /\ Attrs \cap Others = {}
  /\ NULL \notin Objects \cup [of : Attrs, str : Strings \cup {None}]
  /\ None \notin Strings
  /\ IsFiniteSet(Calls)

VARIABLES
  kept,   \* the Attr objects the program has references to
  attr,   \* the string each Attr object has (name, value, resource), or None
  refs,   \* references to an object that calls took and did not release
  heap,   \* the allocated nodes: the Attr they were made of, the char* in them
  loc,    \* the local variables of each call
  sent,   \* the list this step gave to the library, or NULL
  ret,    \* what the call that ended in this step returned, or NULL
  crashed \* the process has died

vars == <<kept, attr, refs, heap, loc, sent, ret, crashed>>

Idle == [pc |-> "idle", plain |-> FALSE, item |-> NULL, rc |-> "SUCCESS", exc |-> FALSE,
         clist |-> <<>>, given |-> <<>>]

(* given is not a variable of the code: the items the iterator has given.  *)
(* plain says what the iterator is: that of a list, or Python code.        *)
Local == [pc : {"idle", "next", "closing"}, plain : BOOLEAN,
          item : Objects \cup {NULL}, rc : {"SUCCESS", "FAILED"}, exc : BOOLEAN,
          clist : Seq(Nodes), given : Seq(Objects)]

FreeNodes == {n \in Nodes : heap[n] = NULL}

(* An Attr lives while somebody has a reference to it, a string while an   *)
(* Attr that lives has it (NULLSTR stands for None and is static).         *)
Alive == kept \cup {a \in Attrs : refs[a] > 0}
LiveStrings == {attr[a] : a \in Alive} \cup {None}

(* Other Python code may run now; call c may go on now.                    *)
MayRun == ~crashed /\ \A c \in Calls : ~loc[c].plain
Turn(c) == ~crashed /\ \A d \in Calls : loc[d].plain => d = c

-------------------------------------------------------------------------------
(* What the rest of the program does.                                      *)

attr__new(a, s) ==
  /\ MayRun /\ a \notin Alive
  /\ kept' = kept \cup {a}
  /\ attr' = [attr EXCEPT ![a] = s]
  /\ sent' = NULL /\ ret' = NULL
  /\ UNCHANGED <<refs, heap, loc, crashed>>

(* attr.name = s: the string it had before is released.                    *)
attr_set_str(a, s) ==
  /\ MayRun /\ a \in kept
  /\ attr' = [attr EXCEPT ![a] = s]
  /\ sent' = NULL /\ ret' = NULL
  /\ UNCHANGED <<kept, refs, heap, loc, crashed>>

Drop(a) ==
  /\ MayRun /\ a \in kept
  /\ kept' = kept \ {a}
  /\ sent' = NULL /\ ret' = NULL
  /\ UNCHANGED <<attr, refs, heap, loc, crashed>>

-------------------------------------------------------------------------------
(* The conversion.                                                         *)

(* Variant with a bug: only the first node is freed.                       *)
FreeHead(clist) ==
  [n \in Nodes |-> IF clist # <<>> /\ n = clist[1] THEN NULL ELSE heap[n]]

(* _free_attrl, _free_attropl: the heap without the nodes of clist.        *)
free_attrl(clist) ==
  [n \in Nodes |-> IF n \in Range(clist) THEN NULL ELSE heap[n]]

(* _set_attrl, _set_attropl: the node points into the strings of the Attr. *)
set_attrl(a) == [of |-> a, str |-> attr[a]]

Returns(c, out) ==
  /\ loc' = [loc EXCEPT ![c] = Idle]
  /\ ret' = out

(* The argument is left out: the library is given no list.  Or it is not a *)
(* list, or no iterator can be made of it.                                 *)
NoList(c) ==
  /\ MayRun /\ loc[c].pc = "idle"
  /\ \/ sent' = <<>> /\ Returns(c, "value")
     \/ sent' = NULL /\ Returns(c, "error")
  /\ UNCHANGED <<kept, attr, refs, heap, crashed>>

GetIter(c) ==
  /\ MayRun /\ loc[c].pc = "idle"
  /\ \E plain \in BOOLEAN :
       loc' = [loc EXCEPT ![c].pc = "next", ![c].plain = plain]
  /\ sent' = NULL /\ ret' = NULL
  /\ UNCHANGED <<kept, attr, refs, heap, crashed>>

(* PyIter_Next of call c gives its result r, and the loop goes on or ends. *)
PyIter_Next(c) ==
  /\ Turn(c) /\ loc[c].pc = "next"
  /\ sent' = NULL /\ ret' = NULL
  /\ UNCHANGED <<attr, crashed>>

(* The loop is left with item o (or none): break, or PyIter_Next gave NULL.*)
Break(c, o, rc, exc) ==
  /\ loc' = [loc EXCEPT ![c].pc = "closing", ![c].item = o,
                        ![c].rc = rc, ![c].exc = exc,
                        ![c].given = IF o = NULL THEN @ ELSE Append(@, o)]
  /\ refs' = [p \in Objects |-> IF p = o THEN refs[p] + 1 ELSE refs[p]]
  /\ UNCHANGED <<kept, heap>>

(* Variants with a bug: the new node is put before the others; the item is *)
(* released twice, so that the list's own reference is gone.               *)
TakePrepends(c, a, n) ==
  /\ PyIter_Next(c) /\ a \in kept /\ n \in FreeNodes
  /\ heap' = [heap EXCEPT ![n] = set_attrl(a)]
  /\ loc' = [loc EXCEPT ![c].clist = <<n>> \o @, ![c].given = Append(@, a)]
  /\ UNCHANGED <<kept, refs>>

TakeReleasesTwice(c, a, n) ==
  /\ PyIter_Next(c) /\ a \in kept /\ n \in FreeNodes
  /\ heap' = [heap EXCEPT ![n] = set_attrl(a)]
  /\ loc' = [loc EXCEPT ![c].clist = Append(@, n), ![c].given = Append(@, a)]
  /\ kept' = kept \ {a}
  /\ UNCHANGED refs

(* An Attr: a node for it is appended, and the reference released.         *)
Take(c, a, n) ==
  /\ PyIter_Next(c) /\ a \in kept /\ n \in FreeNodes
  /\ heap' = [heap EXCEPT ![n] = set_attrl(a)]
  /\ loc' = [loc EXCEPT ![c].clist = Append(@, n), ![c].given = Append(@, a)]
  /\ UNCHANGED <<kept, refs>>

(* Variant with a bug: the nodes are given back and the loop goes on.      *)
NoMemoryContinues(c, a) ==
  /\ PyIter_Next(c) /\ a \in kept
  /\ heap' = free_attrl(loc[c].clist)
  /\ loc' = [loc EXCEPT ![c].clist = <<>>, ![c].given = <<>>]
  /\ UNCHANGED <<kept, refs>>

(* Variant with a bug: no memory ends the list and is no failure.          *)
NoMemoryEnds(c, a) == PyIter_Next(c) /\ a \in kept /\ Break(c, a, "SUCCESS", FALSE)

(* PyMem_New gives NULL, and sets no exception.                            *)
NoMemory(c, a) == PyIter_Next(c) /\ a \in kept /\ Break(c, a, "FAILED", FALSE)

(* Variant with a bug: the type of the item is not checked.                *)
NotChecked(c, o) ==
  /\ PyIter_Next(c)
  /\ \E n \in FreeNodes :
       /\ heap' = [heap EXCEPT ![n] = [of |-> o, str |-> None]]
       /\ loc' = [loc EXCEPT ![c].clist = Append(@, n)]
  /\ UNCHANGED <<kept, refs>>

(* An item that is not an Attr.                                            *)
NotAnAttr(c, o) == PyIter_Next(c) /\ Break(c, o, "FAILED", TRUE)

Exhausted(c) == PyIter_Next(c) /\ Break(c, NULL, "SUCCESS", FALSE)

(* The iterator raises: rc is set after the loop, by PyErr_Occurred.       *)
Raises(c) == ~loc[c].plain /\ PyIter_Next(c) /\ Break(c, NULL, "FAILED", TRUE)

(* The list is converted; the library is called and the list freed.        *)
Succeed(c) ==
  /\ Turn(c) /\ loc[c].pc = "closing" /\ loc[c].rc = "SUCCESS"
  /\ sent' = [i \in DOMAIN loc[c].clist |-> heap[loc[c].clist[i]]]
  /\ heap' = free_attrl(loc[c].clist)
  /\ Returns(c, "value")
  /\ UNCHANGED <<kept, attr, refs, crashed>>

(* Variant with a bug: the item in hand is not released.                   *)
FailKeepingItem(c) ==
  /\ Turn(c) /\ loc[c].pc = "closing" /\ loc[c].rc = "FAILED"
  /\ heap' = free_attrl(loc[c].clist)
  /\ Returns(c, IF loc[c].exc THEN "error" ELSE "null")
  /\ sent' = NULL
  /\ UNCHANGED <<kept, attr, refs, crashed>>

(* The conversion failed: the item in hand is released, the nodes freed.   *)
Fail(c) ==
  /\ Turn(c) /\ loc[c].pc = "closing" /\ loc[c].rc = "FAILED"
  /\ \/ /\ loc[c].item # NULL
        /\ refs' = [refs EXCEPT ![loc[c].item] = @ - 1]
        /\ heap' = free_attrl(loc[c].clist)
        /\ Returns(c, IF loc[c].exc THEN "error" ELSE "null")
        /\ UNCHANGED crashed
     \/ /\ loc[c].item = NULL          \* Py_DECREF of a null pointer
        /\ crashed' = TRUE
        /\ ret' = NULL
        /\ UNCHANGED <<refs, heap, loc>>
  /\ sent' = NULL
  /\ UNCHANGED <<kept, attr>>

-------------------------------------------------------------------------------
Init ==
  /\ kept = {}
  /\ attr = [a \in Attrs |-> None]
  /\ refs = [o \in Objects |-> 0]
  /\ heap = [n \in Nodes |-> NULL]
  /\ loc = [c \in Calls |-> Idle]
  /\ sent = NULL
  /\ ret = NULL
  /\ crashed = FALSE

Step(c) ==
  \/ \E a \in Attrs : NoMemory(c, a) \/ \E n \in Nodes : Take(c, a, n)
  \/ \E o \in Others : NotAnAttr(c, o)
  \/ Exhausted(c) \/ Raises(c)
  \/ Succeed(c) \/ Fail(c)

Next ==
  \/ \E a \in Attrs :
       \/ \E s \in Strings \cup {None} : attr__new(a, s) \/ attr_set_str(a, s)
       \/ Drop(a)
  \/ \E c \in Calls : NoList(c) \/ GetIter(c) \/ Step(c)

Spec == Init /\ [][Next]_vars

(* A call that waits for the interpreter gets it.  Strong fairness, since a *)
(* conversion of a plain list, which lets nobody in, is several steps here. *)
FairSpec == Spec /\ \A c \in Calls : SF_vars(Step(c))

-------------------------------------------------------------------------------
TypeOK ==
  /\ kept \subseteq Attrs
  /\ attr \in [Attrs -> Strings \cup {None}]
  /\ refs \in [Objects -> Nat]
  /\ heap \in [Nodes -> [of : Attrs, str : Strings \cup {None}] \cup {NULL}]
  /\ loc \in [Calls -> Local]
  /\ sent = NULL \/ sent \in Seq([of : Attrs, str : Strings \cup {None}])
  /\ ret \in {NULL, "value", "error", "null"}
  /\ crashed \in BOOLEAN

(* "Caller *MUST* free the clist" (PBSAttrType.c:372): every node in the    *)
(* heap is in exactly one list, the list of a call in progress, once; so    *)
(* whichever way a call ends nothing is leaked or freed twice.              *)
NodesOwned ==
  /\ \A n \in Nodes :
       heap[n] # NULL <=> \E c \in Calls : n \in Range(loc[c].clist)
  /\ \A c \in Calls : IsInjective(loc[c].clist)
  /\ \A c, d \in Calls :
       c # d => Range(loc[c].clist) \cap Range(loc[d].clist) = {}

(* The references taken by PyIter_Next are released on every way out        *)
(* ("make sure item is decref'ed", PBSAttrType.c:432): only the item a      *)
(* failing call still has in hand is held.                                  *)
RefsConserved ==
  \A o \in Objects :
    refs[o] = Cardinality({c \in Calls : loc[c].item = o})

(* The C list is always the items the iterator has given, in their order,   *)
(* but for the one a failing conversion has in hand: no item is skipped     *)
(* (PBSAttrType.c:399-424).                                                 *)
ListIsWhatWasGiven ==
  \A c \in Calls :
    /\ Len(loc[c].given) =
         IF loc[c].item = NULL THEN Len(loc[c].clist) ELSE Len(loc[c].clist) + 1
    /\ \A i \in DOMAIN loc[c].clist : heap[loc[c].clist[i]].of = loc[c].given[i]

(* The strings in the list of a call with a plain list are alive until the  *)
(* library has seen them, though the nodes hold no reference to them        *)
(* (PBSAttrType.c:339-341): the program's list keeps the Attrs, and nobody  *)
(* changes them meanwhile, whatever conversions by Python code are under    *)
(* way in other threads.                                                    *)
LentStringsLive ==
  \A c \in Calls : loc[c].plain =>
    \A i \in DOMAIN loc[c].clist : heap[loc[c].clist[i]].str \in LiveStrings

(* The calls implement the loan of NodeLoan: whatever the iterator does and *)
(* wherever the conversion fails, the library sees all the items in order   *)
(* or none, and nothing stays borrowed ("Caller *MUST* free the clist",     *)
(* PBSAttrType.c:372, and the release of every method, e.g.                 *)
(* PBSServerType.c:981-990).                                                *)
NodeBorrower(n) ==
  IF heap[n] = NULL THEN NULL ELSE CHOOSE c \in Calls : n \in Range(loc[c].clist)

Loan == INSTANCE NodeLoan WITH
  Items <- Objects, Nobody <- NULL,
  borrower <- [n \in Nodes |-> NodeBorrower(n)],
  given <- [c \in Calls |-> loc[c].given],
  sent <- IF sent = NULL THEN NULL ELSE [i \in DOMAIN sent |-> sent[i].of]

LoanSpec == Loan!Spec

(* A call that has begun returns, even if its iterator never ends: memory   *)
(* does.  (Or the process dies, see FailureIsReported.)                     *)
CallReturns ==
  \A c \in Calls : loc[c].pc # "idle" ~> (loc[c].pc = "idle" \/ crashed)

-------------------------------------------------------------------------------
(* What the comments say, and the code does not do.                        *)

(* "there might be error in retrieving item" (PBSAttrType.c:427), in which  *)
(* case the conversion is said to fail, not to take the process down.       *)
FailureIsReported == ~crashed
===============================================================================
