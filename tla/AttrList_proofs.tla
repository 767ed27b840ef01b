---------------------------- MODULE AttrList_proofs ----------------------------
(***************************************************************************)
(* What holds of the conversion of attribute lists for every number of     *)
(* calls, Attrs, strings and nodes.                                        *)
(***************************************************************************)
EXTENDS AttrList, FiniteSetTheorems, TLAPS

(* What the local variables of a call say of where it is.                  *)
FrameOK ==
  \A c \in Calls :
    /\ loc[c].pc \in {"idle", "next"} => loc[c].item = NULL
    /\ loc[c].pc = "idle" =>
         loc[c].clist = <<>> /\ loc[c].given = <<>> /\ ~loc[c].plain
    /\ loc[c].item # NULL => loc[c].rc = "FAILED"

IInv ==
  /\ TypeOK
  /\ FrameOK
  /\ NodesOwned
  /\ RefsConserved
  /\ ListIsWhatWasGiven
  /\ LentStringsLive

Node == [of : Attrs, str : Strings \cup {None}]

-------------------------------------------------------------------------------
(* Sequences.                                                              *)

(* What Append does to length, elements and range.                         *)
LEMMA AppendFacts ==
  ASSUME NEW S, NEW s \in Seq(S), NEW e \in S
  PROVE  /\ Append(s, e) \in Seq(S)
         /\ Len(Append(s, e)) = Len(s) + 1
         /\ DOMAIN Append(s, e) = 1 .. Len(s) + 1
         /\ \A i \in DOMAIN s : Append(s, e)[i] = s[i]
         /\ Append(s, e)[Len(s) + 1] = e
         /\ Range(Append(s, e)) = Range(s) \cup {e}
<1>1. /\ Append(s, e) \in Seq(S) /\ Len(Append(s, e)) = Len(s) + 1
      /\ DOMAIN Append(s, e) = 1 .. Len(s) + 1
      /\ \A i \in 1 .. Len(s) : Append(s, e)[i] = s[i]
      /\ Append(s, e)[Len(s) + 1] = e
  OBVIOUS
<1>2. DOMAIN s = 1 .. Len(s) /\ Len(s) \in Nat
  OBVIOUS
<1>3. Range(Append(s, e)) = Range(s) \cup {e}
  <2>1. ASSUME NEW x \in Range(Append(s, e)) PROVE x \in Range(s) \cup {e}
    <3>1. PICK i \in 1 .. Len(s) + 1 : x = Append(s, e)[i]
      BY <1>1, <2>1 DEF Range
    <3>2. CASE i = Len(s) + 1
      BY <1>1, <3>1, <3>2
    <3>3. CASE i \in 1 .. Len(s)
      BY <1>1, <1>2, <3>1, <3>3 DEF Range
    <3> QED BY <1>2, <3>2, <3>3
  <2>2. ASSUME NEW x \in Range(s) PROVE x \in Range(Append(s, e))
    <3>1. PICK i \in 1 .. Len(s) : x = s[i]
      BY <1>2, <2>2 DEF Range
    <3>2. i \in 1 .. Len(s) + 1 /\ x = Append(s, e)[i]
      BY <1>1, <1>2, <3>1
    <3> QED BY <1>1, <3>2 DEF Range
  <2>3. e \in Range(Append(s, e))
    <3>1. Len(s) + 1 \in 1 .. Len(s) + 1
      BY <1>2
    <3> QED BY <1>1, <3>1 DEF Range
  <2> QED BY <2>1, <2>2, <2>3
<1> QED BY <1>1, <1>2, <1>3

(* The elements of the list of a call are nodes.                           *)
LEMMA ListType ==
  ASSUME TypeOK, NEW c \in Calls
  PROVE  /\ loc[c] \in Local /\ loc[c].clist \in Seq(Nodes)
         /\ loc[c].given \in Seq(Objects)
         /\ Range(loc[c].clist) \subseteq Nodes
         /\ \A i \in DOMAIN loc[c].clist : loc[c].clist[i] \in Nodes
<1>1. loc[c] \in Local
  BY DEF TypeOK
<1>2. loc[c].clist \in Seq(Nodes) /\ loc[c].given \in Seq(Objects)
  BY <1>1 DEF Local
<1>3. \A i \in DOMAIN loc[c].clist : loc[c].clist[i] \in Nodes
  BY <1>2
<1> QED BY <1>1, <1>2, <1>3 DEF Range

(* A call that is not running is well-typed.                               *)
LEMMA IdleType == Idle \in Local
BY DEF Idle, Local, Objects

-------------------------------------------------------------------------------
(* What the steps change.  The frames of the other calls stay as they are. *)

(* A call takes a node for item a.                                         *)
Took(c, a, n) ==
  /\ loc[c].pc = "next" /\ Turn(c)
  /\ a \in kept /\ n \in FreeNodes
  /\ heap' = [heap EXCEPT ![n] = set_attrl(a)]
  /\ loc' = [loc EXCEPT ![c].clist = Append(@, n), ![c].given = Append(@, a)]
  /\ sent' = NULL /\ UNCHANGED <<kept, attr, refs>>

(* A call leaves its loop.                                                 *)
Left(c) ==
  /\ loc[c].pc = "next" /\ Turn(c)
  /\ \E o \in Objects \cup {NULL}, rc \in {"SUCCESS", "FAILED"}, exc \in BOOLEAN :
       /\ o # NULL => rc = "FAILED"
       /\ Break(c, o, rc, exc)
  /\ sent' = NULL /\ UNCHANGED attr

(* A call returns and frees its list.                                      *)
Freed(c) ==
  /\ loc[c].pc = "closing" /\ Turn(c)
  /\ heap' = free_attrl(loc[c].clist)
  /\ loc' = [loc EXCEPT ![c] = Idle]
  /\ \/ loc[c].item = NULL /\ UNCHANGED refs
     \/ /\ loc[c].item # NULL
        /\ refs' = [refs EXCEPT ![loc[c].item] = @ - 1]
  /\ \/ sent' = NULL
     \/ /\ loc[c].item = NULL
        /\ sent' = [i \in DOMAIN loc[c].clist |-> heap[loc[c].clist[i]]]
  /\ UNCHANGED <<kept, attr>>

(* The rest of the program, a call that starts or has no list, the end.    *)
Other ==
  /\ UNCHANGED <<refs, heap>>
  /\ sent' \in {<<>>, NULL}
  /\ \/ UNCHANGED loc /\ MayRun
     \/ UNCHANGED <<loc, kept, attr>>
     \/ \E c \in Calls, plain \in BOOLEAN :
          /\ MayRun /\ loc[c].pc = "idle" /\ UNCHANGED <<kept, attr>>
          /\ \/ loc' = [loc EXCEPT ![c] = Idle]
             \/ loc' = [loc EXCEPT ![c].pc = "next", ![c].plain = plain]

(* Every step is one of these.                                             *)
LEMMA StepEffect ==
  ASSUME IInv, Next
  PROVE  \/ \E c \in Calls, a \in Attrs, n \in Nodes : Took(c, a, n)
         \/ \E c \in Calls : Left(c) \/ Freed(c)
         \/ Other
<1>1. ASSUME NEW a \in Attrs, NEW s \in Strings \cup {None},
             attr__new(a, s) \/ attr_set_str(a, s) \/ Drop(a)
      PROVE  Other
  BY <1>1 DEF attr__new, attr_set_str, Drop, Other
<1>2. ASSUME NEW c \in Calls, NoList(c) \/ GetIter(c) PROVE Other
  BY <1>2 DEF NoList, GetIter, Returns, Other
<1>3. ASSUME NEW c \in Calls, NEW a \in Attrs, NEW n \in Nodes, Take(c, a, n)
      PROVE  Took(c, a, n)
  BY <1>3 DEF Take, PyIter_Next, Took
<1>4. ASSUME NEW c \in Calls, NEW a \in Attrs, NoMemory(c, a) PROVE Left(c)
  BY <1>4 DEF NoMemory, PyIter_Next, Left, Objects
<1>5. ASSUME NEW c \in Calls, NEW o \in Others, NotAnAttr(c, o) PROVE Left(c)
  BY <1>5 DEF NotAnAttr, PyIter_Next, Left, Objects
<1>6. ASSUME NEW c \in Calls, Exhausted(c) \/ Raises(c) PROVE Left(c)
  BY <1>6 DEF Exhausted, Raises, PyIter_Next, Left
<1>7. ASSUME NEW c \in Calls, Succeed(c) PROVE Freed(c)
  BY <1>7 DEF Succeed, Returns, Freed, IInv, FrameOK
<1>8. ASSUME NEW c \in Calls, Fail(c) PROVE Freed(c) \/ Other
  BY <1>8 DEF Fail, Returns, Freed, Other
<1> QED BY <1>1, <1>2, <1>3, <1>4, <1>5, <1>6, <1>7, <1>8 DEF Next, Step

(* The frames after each kind of step.                                     *)
LEMMA TookLoc ==
  ASSUME IInv, NEW c \in Calls, NEW a \in Attrs, NEW n \in Nodes, Took(c, a, n)
  PROVE  /\ loc' \in [Calls -> Local]
         /\ \A d \in Calls \ {c} : loc'[d] = loc[d]
         /\ loc'[c].pc = "next" /\ loc'[c].plain = loc[c].plain
         /\ loc'[c].item = loc[c].item /\ loc'[c].rc = loc[c].rc
         /\ loc'[c].clist = Append(loc[c].clist, n)
         /\ loc'[c].given = Append(loc[c].given, a)
<1>1. loc \in [Calls -> Local] /\ loc[c] \in Local
      /\ loc[c].clist \in Seq(Nodes) /\ loc[c].given \in Seq(Objects) /\ a \in Objects
  BY ListType DEF IInv, TypeOK, Objects
<1>2. Append(loc[c].clist, n) \in Seq(Nodes) /\ Append(loc[c].given, a) \in Seq(Objects)
  BY <1>1
<1>3. loc' = [loc EXCEPT ![c] = [loc[c] EXCEPT !.clist = Append(loc[c].clist, n),
                                               !.given = Append(loc[c].given, a)]]
  BY <1>1 DEF Took
<1>4. [loc[c] EXCEPT !.clist = Append(loc[c].clist, n),
                     !.given = Append(loc[c].given, a)] \in Local
  BY <1>1, <1>2 DEF Local
<1>5. loc[c].pc = "next"
  BY DEF Took
<1> QED BY <1>1, <1>3, <1>4, <1>5 DEF Local

(* A call that leaves the loop: only its own frame and one count change.   *)
LEMMA LeftLoc ==
  ASSUME IInv, NEW c \in Calls, Left(c)
  PROVE  /\ loc' \in [Calls -> Local]
         /\ UNCHANGED <<kept, heap>> /\ loc[c].item = NULL
         /\ \A d \in Calls \ {c} : loc'[d] = loc[d]
         /\ loc'[c].pc = "closing" /\ loc'[c].plain = loc[c].plain
         /\ loc'[c].clist = loc[c].clist
         /\ loc'[c].item \in Objects \cup {NULL}
         /\ loc'[c].item # NULL => loc'[c].rc = "FAILED"
         /\ loc'[c].given = IF loc'[c].item = NULL THEN loc[c].given
                            ELSE Append(loc[c].given, loc'[c].item)
         /\ refs' = [p \in Objects |->
                       IF p = loc'[c].item THEN refs[p] + 1 ELSE refs[p]]
<1>1. loc \in [Calls -> Local] /\ loc[c] \in Local /\ loc[c].given \in Seq(Objects)
  BY ListType DEF IInv, TypeOK
<1>2. PICK o \in Objects \cup {NULL}, rc \in {"SUCCESS", "FAILED"}, exc \in BOOLEAN :
        (o # NULL => rc = "FAILED") /\ Break(c, o, rc, exc)
  BY DEF Left
<1> DEFINE given == IF o = NULL THEN loc[c].given ELSE Append(loc[c].given, o)
           new == [loc[c] EXCEPT !.pc = "closing", !.item = o, !.rc = rc,
                                 !.exc = exc, !.given = given]
<1>3. loc' = [loc EXCEPT ![c] = new]
  BY <1>1, <1>2 DEF Break
<1>4. given \in Seq(Objects)
  BY <1>1
<1>5. new \in Local
  BY <1>1, <1>4 DEF Local
<1>6. loc'[c] = new /\ loc' \in [Calls -> Local]
      /\ \A d \in Calls \ {c} : loc'[d] = loc[d]
  BY <1>1, <1>3, <1>5
<1>7. loc'[c].item = o /\ loc'[c].rc = rc /\ loc'[c].given = given
      /\ loc'[c].pc = "closing" /\ loc'[c].plain = loc[c].plain
      /\ loc'[c].clist = loc[c].clist
  BY <1>1, <1>6 DEF Local
<1>8. loc[c].item = NULL
  BY DEF Left, IInv, FrameOK
<1> QED BY <1>2, <1>6, <1>7, <1>8 DEF Break

(* A call that ends is idle again.                                         *)
LEMMA FreedLoc ==
  ASSUME IInv, NEW c \in Calls, Freed(c)
  PROVE  /\ loc' \in [Calls -> Local]
         /\ \A d \in Calls \ {c} : loc'[d] = loc[d]
         /\ loc'[c] = Idle
BY IdleType DEF IInv, TypeOK, Freed

(* The remaining steps leave every list and every item in hand alone.      *)
LEMMA OtherLoc ==
  ASSUME IInv, Other
  PROVE  /\ loc' \in [Calls -> Local]
         /\ FrameOK'
         /\ \A d \in Calls :
              /\ loc'[d].clist = loc[d].clist /\ loc'[d].given = loc[d].given
              /\ loc'[d].item = loc[d].item
              /\ loc'[d].plain => \/ loc'[d].clist = <<>>
                                  \/ loc[d].plain /\ UNCHANGED <<kept, attr>>
<1>1. loc \in [Calls -> Local]
  BY DEF IInv, TypeOK
<1>2. CASE UNCHANGED loc /\ MayRun
  BY <1>1, <1>2 DEF MayRun, IInv, FrameOK
<1>3. CASE UNCHANGED <<loc, kept, attr>>
  BY <1>1, <1>3 DEF IInv, FrameOK
<1>4. ASSUME NEW c \in Calls, NEW plain \in BOOLEAN, loc[c].pc = "idle",
             UNCHANGED <<kept, attr>>,
             \/ loc' = [loc EXCEPT ![c] = Idle]
             \/ loc' = [loc EXCEPT ![c].pc = "next", ![c].plain = plain]
      PROVE  /\ loc' \in [Calls -> Local] /\ FrameOK'
             /\ \A d \in Calls :
                  /\ loc'[d].clist = loc[d].clist /\ loc'[d].given = loc[d].given
                  /\ loc'[d].item = loc[d].item
                  /\ loc'[d].plain => \/ loc'[d].clist = <<>>
                                      \/ loc[d].plain /\ UNCHANGED <<kept, attr>>
  <2>1. loc[c] \in Local /\ loc[c].clist = <<>> /\ loc[c].given = <<>>
        /\ loc[c].item = NULL
    BY <1>1, <1>4 DEF IInv, FrameOK
  <2>2. PICK new \in Local :
          /\ loc' = [loc EXCEPT ![c] = new]
          /\ new.clist = <<>> /\ new.given = <<>> /\ new.item = NULL
          /\ new.pc = "idle" => ~new.plain
    <3>1. CASE loc' = [loc EXCEPT ![c] = Idle]
      BY <3>1, IdleType DEF Idle
    <3>2. CASE loc' = [loc EXCEPT ![c].pc = "next", ![c].plain = plain]
      <4> DEFINE new == [loc[c] EXCEPT !.pc = "next", !.plain = plain]
      <4>1. new \in Local /\ new.clist = <<>> /\ new.given = <<>> /\ new.item = NULL
            /\ new.pc = "next"
        BY <2>1 DEF Local
      <4>2. loc' = [loc EXCEPT ![c] = new]
        BY <1>1, <3>2
      <4> QED BY <4>1, <4>2
    <3> QED BY <1>4, <3>1, <3>2
  <2>3. loc' \in [Calls -> Local] /\ loc'[c] = new
        /\ \A d \in Calls \ {c} : loc'[d] = loc[d]
    BY <1>1, <2>2
  <2>4. FrameOK'
    BY <2>2, <2>3 DEF IInv, FrameOK
  <2> QED BY <1>4, <2>1, <2>2, <2>3, <2>4
<1> QED BY <1>2, <1>3, <1>4 DEF Other

-------------------------------------------------------------------------------
(* Nodes.                                                                  *)

(* A node taken into a list was in no list before.                         *)
LEMMA NodesTook ==
  ASSUME IInv, NEW c \in Calls, NEW a \in Attrs, NEW n \in Nodes, Took(c, a, n)
  PROVE  NodesOwned'
<1> DEFINE L(d) == Range(loc[d].clist)
<1>1. /\ heap \in [Nodes -> Node \cup {NULL}] /\ heap[n] = NULL
      /\ heap' = [heap EXCEPT ![n] = set_attrl(a)] /\ set_attrl(a) # NULL
  BY AttrListAssumption DEF IInv, TypeOK, Node, Took, FreeNodes, set_attrl
<1>2. loc[c].clist \in Seq(Nodes) /\ \A d \in Calls : L(d) \subseteq Nodes
  BY ListType DEF IInv
<1>3. \A d \in Calls \ {c} : loc'[d] = loc[d]
  BY TookLoc
<1>4. loc'[c].clist = Append(loc[c].clist, n)
  BY TookLoc
<1>5. Range(loc'[c].clist) = L(c) \cup {n}
  BY <1>2, <1>4, AppendFacts
<1>6. \A d \in Calls : n \notin L(d)
  BY <1>1 DEF IInv, NodesOwned
<1>7. \A m \in Nodes : heap'[m] # NULL <=> m = n \/ heap[m] # NULL
  BY <1>1
<1>8. \A m \in Nodes : heap'[m] # NULL <=> \E d \in Calls : m \in Range(loc'[d].clist)
  BY <1>3, <1>5, <1>7 DEF IInv, NodesOwned
<1>9. IsInjective(loc'[c].clist)
  <2>1. IsInjective(loc[c].clist)
    BY DEF IInv, NodesOwned
  <2>2. /\ DOMAIN loc'[c].clist = 1 .. Len(loc[c].clist) + 1
        /\ \A i \in DOMAIN loc[c].clist : loc'[c].clist[i] = loc[c].clist[i]
        /\ loc'[c].clist[Len(loc[c].clist) + 1] = n
    BY <1>2, <1>4, AppendFacts
  <2>3. DOMAIN loc[c].clist = 1 .. Len(loc[c].clist) /\ Len(loc[c].clist) \in Nat
    BY <1>2
  <2>4. \A i \in DOMAIN loc[c].clist : loc[c].clist[i] # n
    BY <1>6 DEF Range
  <2>5. ASSUME NEW i \in 1 .. Len(loc[c].clist) + 1, NEW j \in 1 .. Len(loc[c].clist) + 1,
               loc'[c].clist[i] = loc'[c].clist[j]
        PROVE  i = j
    <3>1. i \in DOMAIN loc[c].clist \/ i = Len(loc[c].clist) + 1
      BY <2>3
    <3>2. j \in DOMAIN loc[c].clist \/ j = Len(loc[c].clist) + 1
      BY <2>3
    <3>3. CASE i \in DOMAIN loc[c].clist /\ j \in DOMAIN loc[c].clist
      BY <2>1, <2>2, <2>5, <3>3 DEF IsInjective
    <3> QED BY <2>2, <2>4, <2>5, <3>1, <3>2, <3>3
  <2> QED BY <2>2, <2>5 DEF IsInjective
<1>10. \A d \in Calls : IsInjective(loc'[d].clist)
  BY <1>3, <1>9 DEF IInv, NodesOwned
<1>11. \A d, e \in Calls : d # e => Range(loc'[d].clist) \cap Range(loc'[e].clist) = {}
  <2> SUFFICES ASSUME NEW d \in Calls, NEW e \in Calls, d # e
               PROVE  Range(loc'[d].clist) \cap Range(loc'[e].clist) = {}
    OBVIOUS
  <2>1. L(d) \cap L(e) = {}
    BY DEF IInv, NodesOwned
  <2>2. /\ Range(loc'[d].clist) = IF d = c THEN L(d) \cup {n} ELSE L(d)
        /\ Range(loc'[e].clist) = IF e = c THEN L(e) \cup {n} ELSE L(e)
    BY <1>3, <1>5
  <2> QED BY <1>6, <2>1, <2>2
<1> QED BY <1>8, <1>10, <1>11 DEF NodesOwned

(* A call that ends frees the nodes of its list, and no others.            *)
LEMMA NodesFreed ==
  ASSUME IInv, NEW c \in Calls, Freed(c)
  PROVE  NodesOwned'
<1>1. heap' = free_attrl(loc[c].clist)
  BY DEF Freed
<1>2. loc'[c].clist = <<>> /\ \A d \in Calls \ {c} : loc'[d] = loc[d]
  BY FreedLoc DEF Idle
<1>3. Range(loc'[c].clist) = {} /\ IsInjective(loc'[c].clist)
  BY <1>2 DEF Range, IsInjective
<1>4. \A m \in Nodes : heap'[m] # NULL <=> heap[m] # NULL /\ m \notin Range(loc[c].clist)
  BY <1>1 DEF free_attrl
<1>5. \A m \in Nodes : heap'[m] # NULL <=> \E d \in Calls : m \in Range(loc'[d].clist)
  <2> SUFFICES ASSUME NEW m \in Nodes
               PROVE  heap'[m] # NULL <=> \E d \in Calls : m \in Range(loc'[d].clist)
    OBVIOUS
  <2>1. heap[m] # NULL <=> \E d \in Calls : m \in Range(loc[d].clist)
    BY DEF IInv, NodesOwned
  <2>2. m \in Range(loc[c].clist) => \A d \in Calls \ {c} : m \notin Range(loc[d].clist)
    BY DEF IInv, NodesOwned
  <2> QED BY <1>2, <1>3, <1>4, <2>1, <2>2
<1>6. \A d \in Calls : IsInjective(loc'[d].clist)
  BY <1>2, <1>3 DEF IInv, NodesOwned
<1>7. \A d, e \in Calls : d # e => Range(loc'[d].clist) \cap Range(loc'[e].clist) = {}
  BY <1>2, <1>3 DEF IInv, NodesOwned
<1> QED BY <1>5, <1>6, <1>7 DEF NodesOwned

(* NodesOwned reads nothing that the other steps change.                   *)
LEMMA NodesKept ==
  ASSUME NodesOwned, UNCHANGED heap, \A d \in Calls : loc'[d].clist = loc[d].clist
  PROVE  NodesOwned'
BY DEF NodesOwned

-------------------------------------------------------------------------------
(* References.                                                             *)

Holding(o) == {d \in Calls : loc[d].item = o}

(* A call that leaves with an item holds the one new reference.            *)
LEMMA RefsLeft ==
  ASSUME IInv, NEW c \in Calls, Left(c)
  PROVE  RefsConserved'
<1> DEFINE p == loc'[c].item
<1>1. /\ p \in Objects \cup {NULL} /\ loc[c].item = NULL
      /\ \A d \in Calls \ {c} : loc'[d] = loc[d]
      /\ refs' = [q \in Objects |-> IF q = p THEN refs[q] + 1 ELSE refs[q]]
  BY LeftLoc
<1>2. NULL \notin Objects
  BY AttrListAssumption
<1> SUFFICES ASSUME NEW o \in Objects
             PROVE  refs'[o] = Cardinality({d \in Calls : loc'[d].item = o})
  BY DEF RefsConserved
<1>3. refs[o] = Cardinality(Holding(o))
  BY DEF IInv, RefsConserved, Holding
<1>4. CASE o # p
  <2>1. {d \in Calls : loc'[d].item = o} = Holding(o)
    BY <1>1, <1>2, <1>4 DEF Holding
  <2> QED BY <1>1, <1>3, <1>4, <2>1
<1>5. CASE o = p
  <2>1. {d \in Calls : loc'[d].item = o} = Holding(o) \cup {c}
    BY <1>1, <1>2, <1>5 DEF Holding
  <2>2. c \notin Holding(o)
    BY <1>1, <1>2 DEF Holding
  <2>3. IsFiniteSet(Holding(o))
    BY AttrListAssumption, FS_Subset, Holding(o) \subseteq Calls DEF Holding
  <2>4. Cardinality(Holding(o) \cup {c}) = Cardinality(Holding(o)) + 1
    BY <2>2, <2>3, FS_AddElement
  <2> QED BY <1>1, <1>3, <1>5, <2>1, <2>4
<1> QED BY <1>4, <1>5

(* A call that ends gives back the reference it holds.                     *)
LEMMA RefsFreed ==
  ASSUME IInv, NEW c \in Calls, Freed(c)
  PROVE  RefsConserved' /\ refs' \in [Objects -> Nat]
<1>1. loc'[c].item = NULL /\ \A d \in Calls \ {c} : loc'[d] = loc[d]
  BY FreedLoc DEF Idle
<1>2. NULL \notin Objects /\ loc[c].item \in Objects \cup {NULL}
      /\ refs \in [Objects -> Nat]
  BY ListType, AttrListAssumption DEF Local, IInv, TypeOK
<1>3. CASE loc[c].item = NULL
  <2>1. \A o \in Objects : {d \in Calls : loc'[d].item = o} = Holding(o)
    BY <1>1, <1>2, <1>3 DEF Holding
  <2>2. UNCHANGED refs
    BY <1>3 DEF Freed
  <2> QED BY <1>2, <2>1, <2>2 DEF IInv, RefsConserved, Holding
<1>4. CASE loc[c].item # NULL
  <2> DEFINE p == loc[c].item
  <2>1. p \in Objects /\ refs' = [refs EXCEPT ![p] = @ - 1]
    BY <1>2, <1>4 DEF Freed
  <2>2. \A o \in Objects \ {p} : {d \in Calls : loc'[d].item = o} = Holding(o)
    BY <1>1, <1>2, <1>4 DEF Holding
  <2>3. {d \in Calls : loc'[d].item = p} = Holding(p) \ {c} /\ c \in Holding(p)
    BY <1>1, <1>2, <2>1 DEF Holding
  <2>4. IsFiniteSet(Holding(p))
    BY AttrListAssumption, FS_Subset, Holding(p) \subseteq Calls DEF Holding
  <2>5. Cardinality(Holding(p) \ {c}) = Cardinality(Holding(p)) - 1
    BY <2>3, <2>4, FS_RemoveElement
  <2>6. Cardinality(Holding(p) \ {c}) \in Nat
    BY <2>4, FS_Subset, FS_CardinalityType, Holding(p) \ {c} \subseteq Holding(p)
  <2>7. \A o \in Objects : refs[o] = Cardinality(Holding(o))
    BY DEF IInv, RefsConserved, Holding
  <2>8. refs'[p] = Cardinality(Holding(p) \ {c})
    BY <1>2, <2>1, <2>5, <2>7
  <2>9. \A o \in Objects \ {p} : refs'[o] = refs[o]
    BY <1>2, <2>1
  <2>10. refs' \in [Objects -> Nat]
    BY <1>2, <2>1, <2>6, <2>8, <2>9
  <2>11. \A o \in Objects : refs'[o] = Cardinality({d \in Calls : loc'[d].item = o})
    BY <2>2, <2>3, <2>7, <2>8, <2>9
  <2> QED BY <2>10, <2>11 DEF RefsConserved
<1> QED BY <1>3, <1>4

(* RefsConserved reads nothing that the other steps change.                *)
LEMMA RefsKept ==
  ASSUME RefsConserved, UNCHANGED refs, \A d \in Calls : loc'[d].item = loc[d].item
  PROVE  RefsConserved'
BY DEF RefsConserved

-------------------------------------------------------------------------------
(* The list and its strings.                                               *)

(* The new node is last in the list as the new item is in what was given.  *)
LEMMA ListTook ==
  ASSUME IInv, NEW c \in Calls, NEW a \in Attrs, NEW n \in Nodes, Took(c, a, n)
  PROVE  ListIsWhatWasGiven' /\ LentStringsLive'
<1>1. /\ heap \in [Nodes -> Node \cup {NULL}] /\ heap[n] = NULL
      /\ heap' = [heap EXCEPT ![n] = set_attrl(a)]
      /\ a \in kept /\ UNCHANGED <<kept, attr, refs>> /\ Turn(c)
  BY DEF IInv, TypeOK, Node, Took, FreeNodes
<1>2. \A d \in Calls : loc[d].clist \in Seq(Nodes)
  BY ListType DEF IInv
<1>3. loc[c].given \in Seq(Objects) /\ a \in Objects
  BY ListType DEF IInv, Objects
<1>4. /\ \A d \in Calls \ {c} : loc'[d] = loc[d]
      /\ loc'[c].item = loc[c].item
      /\ loc'[c].clist = Append(loc[c].clist, n)
      /\ loc'[c].given = Append(loc[c].given, a)
  BY TookLoc
<1>5. loc[c].item = NULL
  BY DEF Took, IInv, FrameOK
<1>6. \A d \in Calls : \A i \in DOMAIN loc[d].clist :
        loc[d].clist[i] # n /\ heap'[loc[d].clist[i]] = heap[loc[d].clist[i]]
  <2> SUFFICES ASSUME NEW d \in Calls, NEW i \in DOMAIN loc[d].clist
               PROVE  loc[d].clist[i] # n /\ heap'[loc[d].clist[i]] = heap[loc[d].clist[i]]
    OBVIOUS
  <2>1. loc[d].clist[i] \in Nodes /\ loc[d].clist[i] \in Range(loc[d].clist)
    BY <1>2 DEF Range
  <2>2. heap[loc[d].clist[i]] # NULL
    BY <2>1 DEF IInv, NodesOwned
  <2> QED BY <1>1, <2>1, <2>2
<1>7. /\ Len(loc'[c].clist) = Len(loc[c].clist) + 1
      /\ DOMAIN loc'[c].clist = 1 .. Len(loc[c].clist) + 1
      /\ DOMAIN loc[c].clist = 1 .. Len(loc[c].clist) /\ Len(loc[c].clist) \in Nat
      /\ \A i \in DOMAIN loc[c].clist : loc'[c].clist[i] = loc[c].clist[i]
      /\ loc'[c].clist[Len(loc[c].clist) + 1] = n
  BY <1>2, <1>4, AppendFacts
<1>8. /\ Len(loc'[c].given) = Len(loc[c].given) + 1
      /\ \A i \in 1 .. Len(loc[c].given) : loc'[c].given[i] = loc[c].given[i]
      /\ loc'[c].given[Len(loc[c].given) + 1] = a
  BY <1>3, <1>4
<1>9. Len(loc[c].given) = Len(loc[c].clist)
  BY <1>5, <1>7 DEF IInv, ListIsWhatWasGiven
<1>10. heap'[n].of = a /\ heap'[n].str = attr[a]
  BY <1>1 DEF set_attrl
<1>11. \A i \in DOMAIN loc'[c].clist : i \in DOMAIN loc[c].clist \/ i = Len(loc[c].clist) + 1
  BY <1>7
<1>12. ListIsWhatWasGiven'
  <2> SUFFICES ASSUME NEW d \in Calls
               PROVE  /\ Len(loc'[d].given) = IF loc'[d].item = NULL
                           THEN Len(loc'[d].clist) ELSE Len(loc'[d].clist) + 1
                      /\ \A i \in DOMAIN loc'[d].clist :
                           heap'[loc'[d].clist[i]].of = loc'[d].given[i]
    BY DEF ListIsWhatWasGiven
  <2>1. CASE d # c
    BY <1>4, <1>6, <2>1 DEF IInv, ListIsWhatWasGiven
  <2>2. CASE d = c
    <3>1. Len(loc'[c].given) = Len(loc'[c].clist)
      BY <1>7, <1>8, <1>9
    <3>2. \A i \in DOMAIN loc[c].clist : heap[loc[c].clist[i]].of = loc[c].given[i]
      BY DEF IInv, ListIsWhatWasGiven
    <3>3. ASSUME NEW i \in DOMAIN loc[c].clist
          PROVE  heap'[loc'[c].clist[i]].of = loc'[c].given[i]
      <4>1. loc'[c].clist[i] = loc[c].clist[i]
        BY <1>7
      <4>2. loc'[c].given[i] = loc[c].given[i]
        BY <1>7, <1>8, <1>9
      <4> QED BY <1>6, <3>2, <4>1, <4>2
    <3>4. heap'[loc'[c].clist[Len(loc[c].clist) + 1]].of = loc'[c].given[Len(loc[c].clist) + 1]
      BY <1>7, <1>8, <1>9, <1>10
    <3> QED BY <1>4, <1>5, <1>11, <2>2, <3>1, <3>3, <3>4
  <2> QED BY <2>1, <2>2
<1>13. LiveStrings' = LiveStrings /\ attr[a] \in LiveStrings
  BY <1>1, <1>3 DEF LiveStrings, Alive
<1>14. LentStringsLive'
  <2> SUFFICES ASSUME NEW d \in Calls, loc'[d].plain, NEW i \in DOMAIN loc'[d].clist
               PROVE  heap'[loc'[d].clist[i]].str \in LiveStrings
    BY <1>13 DEF LentStringsLive
  <2>1. loc[d].plain
    BY <1>4, TookLoc
  <2>2. \A j \in DOMAIN loc[d].clist : heap'[loc[d].clist[j]].str \in LiveStrings
    BY <1>6, <2>1 DEF IInv, LentStringsLive
  <2>3. d = c
    BY <1>1, <2>1 DEF Turn
  <2> QED BY <1>7, <1>10, <1>11, <1>13, <2>2, <2>3
<1> QED BY <1>12, <1>14

(* An item that is refused gets no node.                                   *)
LEMMA ListLeft ==
  ASSUME IInv, NEW c \in Calls, Left(c)
  PROVE  ListIsWhatWasGiven' /\ LentStringsLive'
<1>1. /\ UNCHANGED <<kept, heap, attr>> /\ loc[c].item = NULL
      /\ \A d \in Calls \ {c} : loc'[d] = loc[d]
      /\ loc'[c].plain = loc[c].plain
      /\ loc'[c].clist = loc[c].clist
      /\ loc'[c].item \in Objects \cup {NULL}
      /\ loc'[c].given = IF loc'[c].item = NULL THEN loc[c].given
                         ELSE Append(loc[c].given, loc'[c].item)
      /\ refs' = [p \in Objects |->
                    IF p = loc'[c].item THEN refs[p] + 1 ELSE refs[p]]
  BY LeftLoc DEF Left
<1>2. loc[c].given \in Seq(Objects) /\ refs \in [Objects -> Nat]
      /\ loc[c].clist \in Seq(Nodes)
  BY ListType DEF IInv, TypeOK
<1>3. ListIsWhatWasGiven
  BY DEF IInv
<1>4. /\ Len(loc[c].given) = Len(loc[c].clist) /\ Len(loc[c].clist) \in Nat
      /\ DOMAIN loc[c].clist = 1 .. Len(loc[c].clist)
      /\ \A i \in DOMAIN loc[c].clist : heap[loc[c].clist[i]].of = loc[c].given[i]
  BY <1>1, <1>2, <1>3 DEF ListIsWhatWasGiven
<1>5. /\ Len(loc'[c].given) = IF loc'[c].item = NULL
           THEN Len(loc'[c].clist) ELSE Len(loc'[c].clist) + 1
      /\ \A i \in DOMAIN loc[c].clist : loc'[c].given[i] = loc[c].given[i]
  <2>1. CASE loc'[c].item = NULL
    BY <1>1, <1>4, <2>1
  <2>2. CASE loc'[c].item # NULL
    BY <1>1, <1>2, <1>4, <2>2
  <2> QED BY <2>1, <2>2
<1>6. ListIsWhatWasGiven'
  <2> SUFFICES ASSUME NEW d \in Calls
               PROVE  /\ Len(loc'[d].given) = IF loc'[d].item = NULL
                           THEN Len(loc'[d].clist) ELSE Len(loc'[d].clist) + 1
                      /\ \A i \in DOMAIN loc'[d].clist :
                           heap'[loc'[d].clist[i]].of = loc'[d].given[i]
    BY DEF ListIsWhatWasGiven
  <2>1. CASE d = c
    BY <1>1, <1>4, <1>5, <2>1
  <2>2. CASE d # c
    BY <1>1, <1>3, <2>2 DEF ListIsWhatWasGiven
  <2> QED BY <2>1, <2>2
<1>7. LiveStrings \subseteq LiveStrings'
  <2>1. Alive \subseteq Alive'
    BY <1>1, <1>2 DEF Alive, Objects
  <2> QED BY <1>1, <2>1 DEF LiveStrings
<1>8. LentStringsLive'
  BY <1>1, <1>7 DEF IInv, LentStringsLive
<1> QED BY <1>6, <1>8

(* The freed nodes are in no other list.                                   *)
LEMMA ListFreed ==
  ASSUME IInv, NEW c \in Calls, Freed(c)
  PROVE  ListIsWhatWasGiven' /\ LentStringsLive'
<1>1. /\ loc'[c] = Idle /\ \A d \in Calls \ {c} : loc'[d] = loc[d]
  BY FreedLoc
<1>2. heap' = free_attrl(loc[c].clist) /\ Turn(c)
  BY DEF Freed
<1>3. \A d \in Calls \ {c} : \A i \in DOMAIN loc[d].clist :
        heap'[loc[d].clist[i]] = heap[loc[d].clist[i]]
  <2> SUFFICES ASSUME NEW d \in Calls \ {c}, NEW i \in DOMAIN loc[d].clist
               PROVE  heap'[loc[d].clist[i]] = heap[loc[d].clist[i]]
    OBVIOUS
  <2>1. loc[d].clist[i] \in Nodes /\ loc[d].clist[i] \in Range(loc[d].clist)
    BY ListType DEF IInv, Range
  <2>2. loc[d].clist[i] \notin Range(loc[c].clist)
    BY <2>1 DEF IInv, NodesOwned
  <2> QED BY <1>2, <2>1, <2>2 DEF free_attrl
<1>4. /\ Len(<<>>) = 0 /\ DOMAIN <<>> = {}
  OBVIOUS
<1>5. ListIsWhatWasGiven'
  <2> SUFFICES ASSUME NEW d \in Calls
               PROVE  /\ Len(loc'[d].given) = IF loc'[d].item = NULL
                           THEN Len(loc'[d].clist) ELSE Len(loc'[d].clist) + 1
                      /\ \A i \in DOMAIN loc'[d].clist :
                           heap'[loc'[d].clist[i]].of = loc'[d].given[i]
    BY DEF ListIsWhatWasGiven
  <2>1. CASE d = c
    BY <1>1, <1>4, <2>1 DEF Idle
  <2>2. CASE d # c
    BY <1>1, <1>3, <2>2 DEF IInv, ListIsWhatWasGiven
  <2> QED BY <2>1, <2>2
<1>6. \A d \in Calls : ~loc'[d].plain
  BY <1>1, <1>2 DEF Turn, Idle
<1> QED BY <1>5, <1>6 DEF LentStringsLive

(* Items keep their strings while a plain list is being read.              *)
LEMMA ListOther ==
  ASSUME IInv, Other
  PROVE  ListIsWhatWasGiven' /\ LentStringsLive'
<1>1. /\ UNCHANGED <<refs, heap>>
      /\ \A d \in Calls :
           /\ loc'[d].clist = loc[d].clist /\ loc'[d].given = loc[d].given
           /\ loc'[d].item = loc[d].item
           /\ loc'[d].plain => \/ loc'[d].clist = <<>>
                               \/ loc[d].plain /\ UNCHANGED <<kept, attr>>
  BY OtherLoc DEF Other
<1>2. ListIsWhatWasGiven'
  BY <1>1 DEF IInv, ListIsWhatWasGiven
<1>3. ASSUME NEW d \in Calls, loc'[d].plain, NEW i \in DOMAIN loc'[d].clist
      PROVE  heap'[loc'[d].clist[i]].str \in LiveStrings'
  <2>1. loc'[d].clist # <<>>
    BY <1>3
  <2>2. loc[d].plain /\ UNCHANGED <<kept, attr, refs, heap>> /\ loc'[d].clist = loc[d].clist
    BY <1>1, <1>3, <2>1
  <2>3. LiveStrings' = LiveStrings
    BY <2>2 DEF LiveStrings, Alive
  <2> QED BY <1>3, <2>2, <2>3 DEF IInv, LentStringsLive
<1> QED BY <1>2, <1>3 DEF LentStringsLive

-------------------------------------------------------------------------------
(* Types.                                                                  *)

(* The parts of the type invariant that need no other invariant.           *)
LEMMA TypeSimple ==
  ASSUME IInv, Next
  PROVE  /\ kept' \subseteq Attrs
         /\ attr' \in [Attrs -> Strings \cup {None}]
         /\ ret' \in {NULL, "value", "error", "null"}
         /\ crashed' \in BOOLEAN
<1>1. /\ kept \subseteq Attrs /\ attr \in [Attrs -> Strings \cup {None}]
      /\ ret \in {NULL, "value", "error", "null"} /\ crashed \in BOOLEAN
  BY DEF IInv, TypeOK
<1>2. ASSUME NEW a \in Attrs, NEW s \in Strings \cup {None},
             attr__new(a, s) \/ attr_set_str(a, s) \/ Drop(a)
      PROVE  /\ kept' \subseteq Attrs /\ attr' \in [Attrs -> Strings \cup {None}]
             /\ ret' = NULL /\ UNCHANGED crashed
  BY <1>1, <1>2 DEF attr__new, attr_set_str, Drop
<1>3. ASSUME NEW c \in Calls, NoList(c) \/ GetIter(c) \/ Step(c)
      PROVE  /\ UNCHANGED <<kept, attr>> /\ ret' \in {NULL, "value", "error", "null"}
             /\ crashed' \in BOOLEAN
  BY <1>1, <1>3 DEF NoList, GetIter, Returns, Step, NoMemory, Take, NotAnAttr, Exhausted,
     Raises, Succeed, Fail, PyIter_Next, Break
<1> QED BY <1>1, <1>2, <1>3 DEF Next

(* With the parts above, every step keeps the types.                       *)
LEMMA TypeStep ==
  ASSUME IInv, Next
  PROVE  TypeOK'
<1>1. /\ loc \in [Calls -> Local] /\ refs \in [Objects -> Nat]
      /\ heap \in [Nodes -> Node \cup {NULL}]
  BY DEF IInv, TypeOK, Node
<1> DEFINE Typed == /\ loc' \in [Calls -> Local] /\ refs' \in [Objects -> Nat]
                    /\ heap' \in [Nodes -> Node \cup {NULL}]
                    /\ sent' = NULL \/ sent' \in Seq(Node)
<1>2. ASSUME NEW c \in Calls, NEW a \in Attrs, NEW n \in Nodes, Took(c, a, n)
      PROVE  Typed
  <2>1. set_attrl(a) \in Node
    BY DEF set_attrl, Node, IInv, TypeOK
  <2>2. heap' = [heap EXCEPT ![n] = set_attrl(a)] /\ sent' = NULL /\ UNCHANGED refs
    BY <1>2 DEF Took
  <2>3. heap' \in [Nodes -> Node \cup {NULL}]
    BY <1>1, <2>1, <2>2
  <2> QED BY <1>1, <1>2, <2>2, <2>3, TookLoc
<1>3. ASSUME NEW c \in Calls, Left(c) PROVE Typed
  <2>1. loc' \in [Calls -> Local] /\ UNCHANGED heap
        /\ refs' = [p \in Objects |-> IF p = loc'[c].item THEN refs[p] + 1 ELSE refs[p]]
    BY <1>3, LeftLoc
  <2>2. refs' \in [Objects -> Nat]
    BY <1>1, <2>1
  <2> QED BY <1>1, <1>3, <2>1, <2>2 DEF Left
<1>4. ASSUME NEW c \in Calls, Freed(c) PROVE Typed
  <2>1. heap' \in [Nodes -> Node \cup {NULL}]
    BY <1>1, <1>4 DEF Freed, free_attrl
  <2>2. [i \in DOMAIN loc[c].clist |-> heap[loc[c].clist[i]]] \in Seq(Node)
    <3>1. loc[c].clist \in Seq(Nodes)
      BY ListType DEF IInv
    <3>2. ASSUME NEW i \in DOMAIN loc[c].clist PROVE heap[loc[c].clist[i]] \in Node
      <4>1. loc[c].clist[i] \in Nodes /\ loc[c].clist[i] \in Range(loc[c].clist)
        BY <3>1 DEF Range
      <4>2. heap[loc[c].clist[i]] # NULL
        BY <4>1 DEF IInv, NodesOwned
      <4> QED BY <1>1, <4>1, <4>2
    <3>3. DOMAIN loc[c].clist = 1 .. Len(loc[c].clist) /\ Len(loc[c].clist) \in Nat
      BY <3>1
    <3> QED BY <3>2, <3>3
  <2>3. sent' = NULL \/ sent' \in Seq(Node)
    BY <1>4, <2>2 DEF Freed
  <2> QED BY <1>4, <2>1, <2>3, FreedLoc, RefsFreed
<1>5. ASSUME Other PROVE Typed
  <2>1. <<>> \in Seq(Node)
    OBVIOUS
  <2>2. sent' = NULL \/ sent' \in Seq(Node)
    BY <1>5, <2>1 DEF Other
  <2>3. UNCHANGED <<refs, heap>> /\ loc' \in [Calls -> Local]
    BY <1>5, OtherLoc DEF Other
  <2> QED BY <1>1, <2>2, <2>3
<1> HIDE DEF Typed
<1>6. Typed
  BY <1>2, <1>3, <1>4, <1>5, StepEffect
<1> QED BY <1>6, TypeSimple DEF TypeOK, Node, Typed

-------------------------------------------------------------------------------
(* No call runs at first.                                                  *)
LEMMA InitInv == Init => IInv
<1> SUFFICES ASSUME Init PROVE IInv
  OBVIOUS
<1>1. TypeOK
  BY IdleType DEF Init, TypeOK
<1>2. \A c \in Calls : loc[c] = Idle /\ loc[c].clist = <<>> /\ loc[c].item = NULL
  BY DEF Init, Idle
<1>3. FrameOK /\ LentStringsLive
  BY <1>2 DEF FrameOK, LentStringsLive, Idle
<1>4. NodesOwned
  BY <1>2 DEF Init, NodesOwned, Range, IsInjective
<1>5. RefsConserved
  <2>1. \A o \in Objects : {c \in Calls : loc[c].item = o} = {}
    BY <1>2, AttrListAssumption
  <2> QED BY <2>1, FS_EmptySet DEF RefsConserved, Init
<1>6. ListIsWhatWasGiven
  BY <1>2 DEF ListIsWhatWasGiven, Idle
<1> QED BY <1>1, <1>3, <1>4, <1>5, <1>6 DEF IInv

(* The invariant is inductive: one case for each kind of step.             *)
LEMMA StepInv ==
  ASSUME IInv, Next
  PROVE  IInv'
<1>1. TypeOK'
  BY TypeStep
<1>2. ASSUME NEW c \in Calls, NEW a \in Attrs, NEW n \in Nodes, Took(c, a, n)
      PROVE  IInv'
  <2>1. FrameOK'
    BY <1>2, TookLoc DEF Took, IInv, FrameOK
  <2>2. RefsConserved'
    <3>1. \A d \in Calls : loc'[d].item = loc[d].item
      BY <1>2, TookLoc
    <3>2. UNCHANGED refs
      BY <1>2 DEF Took
    <3> QED BY <3>1, <3>2, RefsKept DEF IInv
  <2> QED BY <1>1, <1>2, <2>1, <2>2, NodesTook, ListTook DEF IInv
<1>3. ASSUME NEW c \in Calls, Left(c) PROVE IInv'
  <2>1. FrameOK'
    BY <1>3, LeftLoc DEF IInv, FrameOK
  <2>2. UNCHANGED heap /\ \A d \in Calls : loc'[d].clist = loc[d].clist
    BY <1>3, LeftLoc
  <2> QED BY <1>1, <1>3, <2>1, <2>2, NodesKept, RefsLeft, ListLeft DEF IInv
<1>4. ASSUME NEW c \in Calls, Freed(c) PROVE IInv'
  <2>1. FrameOK'
    BY <1>4, FreedLoc DEF IInv, FrameOK, Idle
  <2> QED BY <1>1, <1>4, <2>1, NodesFreed, RefsFreed, ListFreed DEF IInv
<1>5. CASE Other
  <2>1. /\ FrameOK' /\ \A d \in Calls : loc'[d].clist = loc[d].clist
        /\ \A d \in Calls : loc'[d].item = loc[d].item
    BY <1>5, OtherLoc
  <2>2. UNCHANGED <<refs, heap>>
    BY <1>5 DEF Other
  <2>3. NodesOwned' /\ RefsConserved'
    BY <2>1, <2>2, NodesKept, RefsKept DEF IInv
  <2> QED BY <1>1, <1>5, <2>1, <2>3, ListOther DEF IInv
<1> QED BY <1>2, <1>3, <1>4, <1>5, StepEffect

(* The strengthened invariant: types, frames, nodes, references, lists and  *)
(* strings together (PBSAttrType.c:378-436).                               *)
THEOREM Invariance == Spec => []IInv
<1>1. IInv /\ [Next]_vars => IInv'
  <2>1. ASSUME IInv, UNCHANGED vars PROVE IInv'
    <3>1. TypeOK' /\ FrameOK'
      BY <2>1 DEF vars, IInv, TypeOK, FrameOK
    <3>2. NodesOwned' /\ RefsConserved'
      BY <2>1 DEF vars, IInv, NodesOwned, RefsConserved
    <3>3. ListIsWhatWasGiven'
      BY <2>1 DEF vars, IInv, ListIsWhatWasGiven
    <3>4. LentStringsLive'
      BY <2>1 DEF vars, IInv, LentStringsLive, LiveStrings, Alive
    <3> QED BY <3>1, <3>2, <3>3, <3>4 DEF IInv
  <2> QED BY <2>1, StepInv
<1> QED BY <1>1, InitInv, PTL DEF Spec

(* The state is well-formed; no reference count goes below zero.           *)
THEOREM TypeCorrect == Spec => []TypeOK
<1>1. IInv => TypeOK
  BY DEF IInv
<1> QED BY <1>1, Invariance, PTL

(* Every node belongs to exactly one call's list, however calls end and     *)
(* interleave.                                                             *)
THEOREM NodesCorrect == Spec => []NodesOwned
<1>1. IInv => NodesOwned
  BY DEF IInv
<1> QED BY <1>1, Invariance, PTL

(* The references held are those of the items in hand.                     *)
THEOREM RefsCorrect == Spec => []RefsConserved
<1>1. IInv => RefsConserved
  BY DEF IInv
<1> QED BY <1>1, Invariance, PTL

(* The C list is the items given, in order.                                *)
THEOREM ListCorrect == Spec => []ListIsWhatWasGiven
<1>1. IInv => ListIsWhatWasGiven
  BY DEF IInv
<1> QED BY <1>1, Invariance, PTL

(* A call with a plain list lends the library only strings that live.      *)
THEOREM StringsLive == Spec => []LentStringsLive
<1>1. IInv => LentStringsLive
  BY DEF IInv
<1> QED BY <1>1, Invariance, PTL

-------------------------------------------------------------------------------
(* The refinement.                                                         *)

Borrower == [n \in Nodes |-> NodeBorrower(n)]
Given == [c \in Calls |-> loc[c].given]
Seen == IF sent = NULL THEN NULL ELSE [i \in DOMAIN sent |-> sent[i].of]

(* The borrower of an allocated node is the one call that has it.          *)
LEMMA BorrowerIs ==
  ASSUME NodesOwned, NEW n \in Nodes
  PROVE  /\ heap[n] = NULL => NodeBorrower(n) = NULL
         /\ \A c \in Calls : n \in Range(loc[c].clist) =>
              heap[n] # NULL /\ NodeBorrower(n) = c
<1>1. heap[n] = NULL => NodeBorrower(n) = NULL
  BY DEF NodeBorrower
<1>2. ASSUME NEW c \in Calls, n \in Range(loc[c].clist)
      PROVE  heap[n] # NULL /\ NodeBorrower(n) = c
  <2>1. heap[n] # NULL
    BY <1>2 DEF NodesOwned
  <2>2. \A d \in Calls : n \in Range(loc[d].clist) => d = c
    BY <1>2 DEF NodesOwned
  <2>3. NodeBorrower(n) = CHOOSE d \in Calls : n \in Range(loc[d].clist)
    BY <2>1 DEF NodeBorrower
  <2> QED BY <1>2, <2>1, <2>2, <2>3
<1> QED BY <1>1, <1>2

(* It stays the same if the node stays in the same list.                   *)
LEMMA BorrowerSame ==
  ASSUME NodesOwned, NodesOwned', NEW n \in Nodes, heap'[n] = heap[n],
         \A d \in Calls : n \in Range(loc'[d].clist) <=> n \in Range(loc[d].clist)
  PROVE  NodeBorrower(n)' = NodeBorrower(n)
<1>1. CASE heap[n] = NULL
  BY <1>1 DEF NodeBorrower
<1>2. CASE heap[n] # NULL
  <2>1. PICK c \in Calls : n \in Range(loc[c].clist)
    BY <1>2 DEF NodesOwned
  <2>2. NodeBorrower(n) = c
    BY <2>1, BorrowerIs
  <2>3. n \in Range(loc'[c].clist) /\ \A d \in Calls : n \in Range(loc'[d].clist) => d = c
    BY <2>1 DEF NodesOwned
  <2>4. NodeBorrower(n)' = CHOOSE d \in Calls : n \in Range(loc'[d].clist)
    BY <1>2 DEF NodeBorrower
  <2>5. NodeBorrower(n)' = c
    BY <2>3, <2>4
  <2> QED BY <2>2, <2>5
<1> QED BY <1>1, <1>2

(* Taking a node is lending it to the call.                                *)
LEMMA TookLends ==
  ASSUME IInv, IInv', NEW c \in Calls, NEW a \in Attrs, NEW n \in Nodes, Took(c, a, n)
  PROVE  Loan!Lend(c, n, a)
<1>1. heap[n] = NULL /\ heap' = [heap EXCEPT ![n] = set_attrl(a)] /\ sent' = NULL
      /\ heap \in [Nodes -> Node \cup {NULL}]
  BY DEF Took, FreeNodes, IInv, TypeOK, Node
<1>2. /\ \A d \in Calls \ {c} : loc'[d] = loc[d]
      /\ Range(loc'[c].clist) = Range(loc[c].clist) \cup {n}
      /\ loc'[c].given = Append(loc[c].given, a)
  <2>1. loc'[c].clist = Append(loc[c].clist, n) /\ loc[c].clist \in Seq(Nodes)
    BY TookLoc, ListType DEF IInv
  <2> QED BY <2>1, TookLoc, AppendFacts
<1>3. Borrower[n] = NULL
  BY <1>1, BorrowerIs DEF IInv, Borrower
<1>4. NodeBorrower(n)' = c
  BY <1>2, BorrowerIs DEF IInv, NodesOwned, NodeBorrower
<1>5. ASSUME NEW m \in Nodes, m # n PROVE NodeBorrower(m)' = NodeBorrower(m)
  <2>1. heap'[m] = heap[m]
    BY <1>1, <1>5
  <2>2. \A d \in Calls : m \in Range(loc'[d].clist) <=> m \in Range(loc[d].clist)
    BY <1>2, <1>5
  <2> QED BY <2>1, <2>2, BorrowerSame DEF IInv
<1>6. Borrower' = [Borrower EXCEPT ![n] = c]
  BY <1>4, <1>5 DEF Borrower
<1>7. Given' = [Given EXCEPT ![c] = Append(@, a)]
  BY <1>2 DEF Given
<1> QED BY <1>1, <1>3, <1>6, <1>7 DEF Loan!Lend, Borrower, Given

(* Leaving the loop with an item is refusing it, without one nothing.      *)
LEMMA LeftRefuses ==
  ASSUME IInv, IInv', NEW c \in Calls, Left(c)
  PROVE  Loan!Without \/ \E x \in Objects : Loan!Refuse(c, x)
<1>1. /\ UNCHANGED heap /\ \A d \in Calls \ {c} : loc'[d] = loc[d]
      /\ loc'[c].clist = loc[c].clist
      /\ loc'[c].item \in Objects \cup {NULL}
      /\ loc'[c].given = IF loc'[c].item = NULL THEN loc[c].given
                         ELSE Append(loc[c].given, loc'[c].item)
  BY LeftLoc
<1>2. sent' = NULL
  BY DEF Left
<1>3. \A n \in Nodes : NodeBorrower(n)' = NodeBorrower(n)
  <2>1. \A d \in Calls : loc'[d].clist = loc[d].clist
    BY <1>1
  <2> QED BY <1>1, <2>1, BorrowerSame DEF IInv
<1>4. UNCHANGED Borrower
  BY <1>3 DEF Borrower
<1>5. CASE loc'[c].item = NULL
  <2>1. UNCHANGED Given
    BY <1>1, <1>5 DEF Given
  <2> QED BY <1>2, <1>4, <2>1 DEF Loan!Without, Borrower, Given
<1>6. CASE loc'[c].item # NULL
  <2>1. Given' = [Given EXCEPT ![c] = Append(@, loc'[c].item)]
    BY <1>1, <1>6 DEF Given
  <2> QED BY <1>1, <1>2, <1>4, <1>6, <2>1 DEF Loan!Refuse, Borrower, Given
<1> QED BY <1>5, <1>6

(* The end of a call is the return of all it had.                          *)
LEMMA FreedGivesBack ==
  ASSUME IInv, IInv', NEW c \in Calls, Freed(c)
  PROVE  Loan!GiveBack(c)
<1>1. /\ loc'[c].clist = <<>> /\ loc'[c].given = <<>>
      /\ \A d \in Calls \ {c} : loc'[d] = loc[d]
  BY FreedLoc DEF Idle
<1>2. heap' = free_attrl(loc[c].clist)
  BY DEF Freed
<1>3. ASSUME NEW n \in Nodes, NodeBorrower(n) = c PROVE NodeBorrower(n)' = NULL
  <2>1. heap[n] # NULL => n \in Range(loc[c].clist)
    BY <1>3, BorrowerIs DEF IInv, NodesOwned
  <2>2. heap'[n] = NULL
    BY <1>2, <2>1 DEF free_attrl
  <2> QED BY <2>2 DEF NodeBorrower
<1>4. ASSUME NEW n \in Nodes, NodeBorrower(n) # c PROVE NodeBorrower(n)' = NodeBorrower(n)
  <2>1. n \notin Range(loc[c].clist)
    BY <1>4, BorrowerIs DEF IInv
  <2>2. heap'[n] = heap[n]
    BY <1>2, <2>1 DEF free_attrl
  <2>3. \A d \in Calls : n \in Range(loc'[d].clist) <=> n \in Range(loc[d].clist)
    BY <1>1, <2>1 DEF Range
  <2> QED BY <2>2, <2>3, BorrowerSame DEF IInv
<1>5. Borrower' = [n \in Nodes |-> IF Borrower[n] = c THEN NULL ELSE Borrower[n]]
  BY <1>3, <1>4 DEF Borrower
<1>6. Given' = [Given EXCEPT ![c] = <<>>]
  BY <1>1 DEF Given
<1>7. Seen' \in {Given[c], NULL}
  <2>1. CASE sent' = NULL
    BY <2>1 DEF Seen
  <2>2. CASE sent' # NULL
    <3> DEFINE list == loc[c].clist
    <3>1. loc[c].item = NULL /\ sent' = [i \in DOMAIN list |-> heap[list[i]]]
      BY <2>2 DEF Freed
    <3>2. /\ Len(loc[c].given) = Len(list)
          /\ \A i \in DOMAIN list : heap[list[i]].of = loc[c].given[i]
      BY <3>1 DEF IInv, ListIsWhatWasGiven
    <3>3. list \in Seq(Nodes) /\ loc[c].given \in Seq(Objects)
      BY ListType DEF IInv
    <3>4. DOMAIN list = 1 .. Len(list) /\ DOMAIN loc[c].given = 1 .. Len(list)
      BY <3>2, <3>3
    <3>5. Seen' = [i \in DOMAIN list |-> heap[list[i]].of]
      BY <2>2, <3>1 DEF Seen
    <3>6. loc[c].given = [i \in DOMAIN loc[c].given |-> loc[c].given[i]]
      BY <3>3
    <3>7. Seen' = loc[c].given
      BY <3>2, <3>4, <3>5, <3>6
    <3> QED BY <3>7 DEF Given
  <2> QED BY <2>1, <2>2
<1> QED BY <1>5, <1>6, <1>7 DEF Loan!GiveBack, Borrower, Given, Seen

(* Every other step is one in which nothing is lent or given back.         *)
LEMMA OtherIsWithout ==
  ASSUME IInv, IInv', Other
  PROVE  Loan!Without
<1>1. /\ UNCHANGED heap /\ sent' \in {<<>>, NULL}
      /\ \A d \in Calls : loc'[d].clist = loc[d].clist /\ loc'[d].given = loc[d].given
  BY OtherLoc DEF Other
<1>2. UNCHANGED Borrower
  <2>1. \A n \in Nodes : NodeBorrower(n)' = NodeBorrower(n)
    BY <1>1, BorrowerSame DEF IInv
  <2> QED BY <2>1 DEF Borrower
<1>3. UNCHANGED Given
  BY <1>1 DEF Given
<1>4. Seen' \in {<<>>, NULL}
  <2>1. CASE sent' = NULL
    BY <2>1 DEF Seen
  <2>2. CASE sent' = <<>>
    <3>1. [i \in DOMAIN sent' |-> sent'[i].of] = <<>>
      BY <2>2
    <3> QED BY <3>1 DEF Seen
  <2> QED BY <1>1, <2>1, <2>2
<1> QED BY <1>2, <1>3, <1>4 DEF Loan!Without, Borrower, Given, Seen

(* The methods implement the loan: the library sees all the items or none,  *)
(* and what was borrowed is given back (NodeLoan).                         *)
THEOREM Refinement == Spec => LoanSpec
<1>1. Init => Loan!Init
  <2> SUFFICES ASSUME Init PROVE Loan!Init
    OBVIOUS
  <2>1. \A c \in Calls : loc[c].given = <<>>
    BY DEF Init, Idle
  <2> QED BY <2>1 DEF Init, Loan!Init, NodeBorrower
<1>2. IInv /\ IInv' /\ [Next]_vars => [Loan!Next]_(Loan!vars)
  <2>1. ASSUME IInv, IInv', Next PROVE Loan!Next
    <3>1. \A a \in Attrs : a \in Objects
      BY DEF Objects
    <3>2. ASSUME NEW c \in Calls, NEW a \in Attrs, NEW n \in Nodes, Took(c, a, n)
          PROVE  Loan!Next
      BY <2>1, <3>1, <3>2, TookLends DEF Loan!Next
    <3>3. ASSUME NEW c \in Calls, Left(c) PROVE Loan!Next
      BY <2>1, <3>3, LeftRefuses DEF Loan!Next
    <3>4. ASSUME NEW c \in Calls, Freed(c) PROVE Loan!Next
      BY <2>1, <3>4, FreedGivesBack DEF Loan!Next
    <3>5. CASE Other
      BY <2>1, <3>5, OtherIsWithout DEF Loan!Next
    <3> QED BY <2>1, <3>2, <3>3, <3>4, <3>5, StepEffect
  <2>2. ASSUME UNCHANGED vars PROVE UNCHANGED Loan!vars
    BY <2>2 DEF vars, Loan!vars, NodeBorrower
  <2> QED BY <2>1, <2>2
<1> QED BY <1>1, <1>2, Invariance, PTL DEF Spec, LoanSpec, Loan!Spec

-------------------------------------------------------------------------------
(* The only way to the null pointer of Fail.                               *)

(* A step in which no iterator raises.                                     *)
Quiet == Next /\ \A c \in Calls : ~Raises(c)

(* The process lives, and a call that failed has its item in hand.         *)
ItemInHand ==
  /\ ~crashed
  /\ \A c \in Calls :
       loc[c].pc = "closing" /\ loc[c].rc = "FAILED" => loc[c].item # NULL

(* A call that leaves the loop with an item, or with success, can release   *)
(* what it has (PBSAttrType.c:426-434).                                     *)
LEMMA BreakInHand ==
  ASSUME TypeOK, ItemInHand, NEW c \in Calls, NEW o, NEW rc, NEW exc,
         Break(c, o, rc, exc), UNCHANGED crashed, rc = "SUCCESS" \/ o # NULL
  PROVE  ItemInHand'
<1>1. loc[c] \in Local
  BY DEF TypeOK
<1>2. loc'[c].rc = rc /\ loc'[c].item = o
  BY <1>1 DEF Break, TypeOK, Local
<1>3. \A d \in Calls \ {c} : loc'[d] = loc[d]
  BY DEF Break, TypeOK
<1> QED BY <1>2, <1>3 DEF ItemInHand

(* A call that goes on in its loop or starts keeps the others as they are,  *)
(* and is not at its end.                                                   *)
LEMMA OnInHand ==
  ASSUME ItemInHand, NEW c \in Calls, UNCHANGED crashed,
         loc'[c].pc # "closing", \A d \in Calls \ {c} : loc'[d] = loc[d]
  PROVE  ItemInHand'
BY DEF ItemInHand

(* No quiet step leads to the null pointer.                                *)
LEMMA QuietInHand ==
  ASSUME TypeOK, ItemInHand, [Quiet]_vars
  PROVE  ItemInHand'
<1>1. ASSUME NEW a \in Attrs, NEW s \in Strings \cup {None},
             attr__new(a, s) \/ attr_set_str(a, s) \/ Drop(a)
      PROVE  ItemInHand'
  BY <1>1 DEF attr__new, attr_set_str, Drop, ItemInHand
<1>2. ASSUME NEW c \in Calls, NoList(c) PROVE ItemInHand'
  <2>1. loc' = [loc EXCEPT ![c] = Idle] /\ UNCHANGED crashed
    BY <1>2 DEF NoList, Returns
  <2> QED BY <2>1, OnInHand DEF TypeOK, Idle
<1>3. ASSUME NEW c \in Calls, GetIter(c) PROVE ItemInHand'
  <2>1. loc[c] \in Local /\ UNCHANGED crashed
    BY <1>3 DEF TypeOK, GetIter
  <2>2. loc'[c].pc = "next" /\ \A d \in Calls \ {c} : loc'[d] = loc[d]
    BY <1>3, <2>1 DEF GetIter, TypeOK, Local
  <2> QED BY <2>1, <2>2, OnInHand
<1>4. ASSUME NEW c \in Calls, NEW a \in Attrs, NoMemory(c, a) PROVE ItemInHand'
  <2>1. a # NULL
    BY AttrListAssumption DEF Objects
  <2> QED BY <1>4, <2>1, BreakInHand DEF NoMemory, PyIter_Next
<1>5. ASSUME NEW c \in Calls, NEW a \in Attrs, NEW n \in Nodes, Take(c, a, n)
      PROVE  ItemInHand'
  <2>1. loc[c] \in Local /\ loc[c].pc = "next" /\ UNCHANGED crashed
    BY <1>5 DEF TypeOK, Take, PyIter_Next
  <2>2. loc'[c].pc = "next" /\ \A d \in Calls \ {c} : loc'[d] = loc[d]
    BY <1>5, <2>1 DEF Take, TypeOK, Local
  <2> QED BY <2>1, <2>2, OnInHand
<1>6. ASSUME NEW c \in Calls, NEW o \in Others, NotAnAttr(c, o) PROVE ItemInHand'
  <2>1. o # NULL
    BY AttrListAssumption DEF Objects
  <2> QED BY <1>6, <2>1, BreakInHand DEF NotAnAttr, PyIter_Next
<1>7. ASSUME NEW c \in Calls, Exhausted(c) PROVE ItemInHand'
  BY <1>7, BreakInHand DEF Exhausted, PyIter_Next
<1>8. ASSUME NEW c \in Calls, Succeed(c) PROVE ItemInHand'
  <2>1. loc' = [loc EXCEPT ![c] = Idle] /\ UNCHANGED crashed
    BY <1>8 DEF Succeed, Returns
  <2> QED BY <2>1, OnInHand DEF TypeOK, Idle
<1>9. ASSUME NEW c \in Calls, Fail(c) PROVE ItemInHand'
  <2>1. loc[c].item # NULL
    BY <1>9 DEF Fail, ItemInHand
  <2>2. loc' = [loc EXCEPT ![c] = Idle] /\ UNCHANGED crashed
    BY <1>9, <2>1 DEF Fail, Returns
  <2> QED BY <2>2, OnInHand DEF TypeOK, Idle
<1>10. CASE UNCHANGED vars
  BY <1>10 DEF vars, ItemInHand
<1> QED BY <1>1, <1>2, <1>3, <1>4, <1>5, <1>6, <1>7, <1>8, <1>9, <1>10
        DEF Quiet, Next, Step

(* A program whose iterators raise nothing never makes a conversion take    *)
(* the process down: neither an item of another type nor the lack of memory *)
(* gets to the Py_DECREF of a null pointer (PBSAttrType.c:426-434).         *)
THEOREM FailuresReported == Init /\ [][Quiet]_vars => []FailureIsReported
<1>1. Init => ItemInHand
  BY DEF Init, ItemInHand, Idle
<1>2. TypeOK /\ ItemInHand /\ [Quiet]_vars => ItemInHand'
  BY QuietInHand
<1>3. [Quiet]_vars => [Next]_vars
  BY DEF Quiet
<1>4. ItemInHand => FailureIsReported
  BY DEF ItemInHand, FailureIsReported
<1> QED BY <1>1, <1>2, <1>3, <1>4, TypeCorrect, PTL DEF Spec

===============================================================================
