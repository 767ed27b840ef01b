----------------------------- MODULE Answers_proofs -----------------------------
(***************************************************************************)
(* What holds of the objects of an answer, and of those a program makes,   *)
(* for any number of objects, any table of operators and any answers, with *)
(* every failure of an allocation.                                         *)
(***************************************************************************)
EXTENDS Answers, FiniteSetTheorems, WellFoundedInduction, TLAPS

Heaps == [Objs -> Object \cup {NULL}]

Whole(h, a) ==
  /\ \A f \in AttrFields \ {"bop"} : h[a].ptr[f] = None \/ IsString(h, h[a].ptr[f])
  /\ IsBop(h, h[a].ptr["bop"])

(* A heap in which all Attrs in use are whole, but perhaps x.              *)
Good(h, x) ==
  /\ h \in Heaps
  /\ \A a \in Objs : a # x /\ IsA(h, a, "attr") /\ h[a].refs > 0 => Whole(h, a)

(* Whatever is in h is still in g, and of the same kind.                   *)
Keeps(h, g) == \A p \in Objs : h[p] # NULL => g[p] # NULL /\ g[p].kind = h[p].kind

(* The pointers of an object with another in field f, and the object.      *)
Repoint(ptr, f, p) == [ptr EXCEPT ![f] = p]
Repointed(x, f, p) == [x EXCEPT !.ptr[f] = p]

(* Pointer p is null, or leads to an object of this kind.                  *)
Points(h, p, kind) == p \in Objs => IsA(h, p, kind)

-------------------------------------------------------------------------------
(* Numbers and objects.                                                    *)

(* A set of numbers has a least one.                                       *)
LEMMA LeastOne ==
  ASSUME NEW S \in SUBSET Nat, S # {}
  PROVE  Min(S) \in S /\ \A y \in S : Min(S) <= y
<1>1. PICK x \in S : \A y \in S : <<y, x>> \notin OpToRel(<, Nat)
  BY NatLessThanWellFounded, WFMin
<1>2. ASSUME NEW y \in S PROVE x <= y
  <2>1. SUFFICES ASSUME y < x PROVE FALSE
    OBVIOUS
  <2>2. <<y, x>> \in OpToRel(<, Nat)
    <3>1. <<y, x>> \in Nat \X Nat /\ <<y, x>>[1] < <<y, x>>[2]
      BY <2>1
    <3> QED BY <3>1 DEF OpToRel
  <2> QED BY <1>1, <2>2
<1> QED BY <1>2 DEF Min

(* The parts of an object.                                                 *)
LEMMA ObjectParts ==
  ASSUME NEW x \in Object
  PROVE  /\ x.kind \in {"str", "bop", "list", "data", "attr", "dict"}
         /\ x.refs \in Int
         /\ x.kind \in {"str", "bop"} => x.ptr = <<>>
         /\ x.kind = "list" => x.ptr \in Seq(Pointers)
         /\ x.kind = "data" => x.ptr \in [DataFields -> Pointers]
         /\ x.kind = "attr" => x.ptr \in [AttrFields -> Pointers]
         /\ x.kind = "dict" => x.ptr \in [Keys -> Pointers]
         /\ x.kind = "str" => x.val \in Text
         /\ x.kind = "bop" => x.val \in 1..BATCHOP_ARRAY_END
BY DEF Object

(* Counting references keeps an object an object.                          *)
LEMMA Recounted ==
  ASSUME NEW x \in Object, NEW n \in Int
  PROVE  /\ [x EXCEPT !.refs = n] \in Object
         /\ [x EXCEPT !.refs = n].kind = x.kind
         /\ [x EXCEPT !.refs = n].ptr = x.ptr
         /\ [x EXCEPT !.refs = n].refs = n
BY DEF Object

(* So does another pointer in one of its fields.                           *)
LEMMA Pointed ==
  ASSUME NEW x \in Object, NEW f, NEW p \in Pointers
  PROVE  LET y == Repointed(x, f, p) IN
         /\ y \in Object /\ y.kind = x.kind /\ y.refs = x.refs
         /\ y.ptr = Repoint(x.ptr, f, p)
<1> DEFINE y == [x EXCEPT !.ptr[f] = p]
<1>1. y.kind = x.kind /\ y.refs = x.refs /\ y.val = x.val
      /\ y.ptr = [x.ptr EXCEPT ![f] = p]
      /\ y = [kind |-> y.kind, refs |-> y.refs, ptr |-> y.ptr, val |-> y.val]
  BY DEF Object
<1>2. x.ptr = <<>> => y.ptr = <<>>
  BY <1>1
<1>3. x.ptr \in Seq(Pointers) => y.ptr \in Seq(Pointers)
  <2> SUFFICES ASSUME x.ptr \in Seq(Pointers) PROVE y.ptr \in Seq(Pointers)
    OBVIOUS
  <2>1. x.ptr \in [1..Len(x.ptr) -> Pointers] /\ Len(x.ptr) \in Nat
    OBVIOUS
  <2>2. y.ptr \in [1..Len(x.ptr) -> Pointers]
    BY <1>1, <2>1
  <2> QED BY <2>1, <2>2
<1>4. \A F : x.ptr \in [F -> Pointers] => y.ptr \in [F -> Pointers]
  BY <1>1
<1>5. y \in Object
  BY <1>1, <1>2, <1>3, <1>4 DEF Object
<1>6. y = Repointed(x, f, p) /\ y.ptr = Repoint(x.ptr, f, p)
  BY <1>1 DEF Repointed, Repoint
<1> HIDE DEF y
<1> QED BY <1>1, <1>5, <1>6

-------------------------------------------------------------------------------
(* What is done to a heap.                                                 *)

(* The two relations go from heap to heap.                                 *)
LEMMA KeepsOn ==
  ASSUME NEW f, NEW g, NEW h, Keeps(f, g), Keeps(g, h) PROVE Keeps(f, h)
BY DEF Keeps

(* A heap keeps what it has.                                               *)
LEMMA KeepsSame == \A h : Keeps(h, h)
BY DEF Keeps

(* An object stays where it is.                                            *)
LEMMA KeepsIsA ==
  ASSUME NEW g, NEW h, Keeps(g, h), NEW p, NEW kind, IsA(g, p, kind)
  PROVE  IsA(h, p, kind)
BY DEF Keeps, IsA

(* No Attr in use is changed, and no new one but x.                        *)
LEMMA SameAttrs ==
  ASSUME NEW h, NEW x, Good(h, x), NEW g \in Heaps,
         \A p \in Objs : h[p] # NULL =>
           /\ g[p] # NULL /\ g[p].kind = h[p].kind
           /\ h[p].kind = "attr" /\ p # x /\ g[p].refs > 0 =>
                g[p].ptr = h[p].ptr /\ h[p].refs > 0,
         \A p \in Objs : h[p] = NULL /\ p # x => ~IsA(g, p, "attr")
  PROVE  Good(g, x) /\ Keeps(h, g)
<1>1. Keeps(h, g)
  BY DEF Keeps
<1>2. ASSUME NEW a \in Objs, a # x, IsA(g, a, "attr"), g[a].refs > 0
      PROVE  Whole(g, a)
  <2>1. IsA(h, a, "attr") /\ h[a].refs > 0 /\ g[a].ptr = h[a].ptr
    BY <1>2 DEF IsA
  <2>2. Whole(h, a)
    BY <1>2, <2>1 DEF Good
  <2> QED BY <1>1, <2>1, <2>2, KeepsIsA DEF Whole, IsString, IsBop
<1> QED BY <1>1, <1>2 DEF Good

(* A reference is taken to an object that is in use.                       *)
LEMMA Increfed ==
  ASSUME NEW h, NEW x, Good(h, x), NEW p,
         p \in Objs => h[p] # NULL /\ (h[p].kind # "attr" \/ h[p].refs > 0)
  PROVE  LET g == Py_INCREF(h, p) IN
         Good(g, x) /\ Keeps(h, g) /\ \A q \in Objs \ {p} : g[q] = h[q]
<1>1. CASE p \notin Objs
  BY <1>1, KeepsSame DEF Py_INCREF
<1>2. CASE p \in Objs
  <2> DEFINE g == [h EXCEPT ![p].refs = @ + 1]
  <2>1. h \in Heaps /\ h[p] \in Object
    BY <1>2 DEF Good, Heaps
  <2>2. /\ g[p] = [h[p] EXCEPT !.refs = @ + 1] /\ \A q \in Objs \ {p} : g[q] = h[q]
        /\ h[p].refs + 1 \in Int
    BY <1>2, <2>1, ObjectParts DEF Heaps
  <2>3. g[p] \in Object /\ g[p].kind = h[p].kind /\ g[p].ptr = h[p].ptr
    BY <2>1, <2>2, Recounted
  <2>4. g \in Heaps
    BY <2>1, <2>3 DEF Heaps
  <2>5. g[p] # NULL
    BY <2>3, AnswersAssumption
  <2>6. Good(g, x) /\ Keeps(h, g)
    BY <1>2, <2>2, <2>3, <2>4, <2>5, SameAttrs DEF IsA
  <2> QED BY <1>2, <2>2, <2>6 DEF Py_INCREF
<1> QED BY <1>1, <1>2

(* One is given up.                                                        *)
LEMMA Decrefed ==
  ASSUME NEW h, NEW x, Good(h, x), NEW p, p \in Objs => h[p] # NULL
  PROVE  LET g == Py_DECREF(h, p) IN
         Good(g, x) /\ Keeps(h, g) /\ \A q \in Objs \ {p} : g[q] = h[q]
<1>1. CASE p \notin Objs
  BY <1>1, KeepsSame DEF Py_DECREF
<1>2. CASE p \in Objs
  <2> DEFINE g == [h EXCEPT ![p].refs = @ - 1]
             n == h[p].refs - 1
             y == [h[p] EXCEPT !.refs = n]
  <2>1. h \in Heaps /\ h[p] \in Object
    BY <1>2 DEF Good, Heaps
  <2>2. /\ g[p] = y /\ \A q \in Objs \ {p} : g[q] = h[q]
        /\ n \in Int /\ h[p].refs \in Int
    BY <1>2, <2>1, ObjectParts DEF Heaps
  <2>3. y \in Object /\ y.kind = h[p].kind /\ y.ptr = h[p].ptr /\ y.refs = n
    <3> HIDE DEF n
    <3> QED BY <2>1, <2>2, Recounted
  <2>4. g[p] \in Object /\ g[p].kind = h[p].kind /\ g[p].ptr = h[p].ptr
        /\ g[p].refs = h[p].refs - 1
    <3> HIDE DEF y, g
    <3> QED BY <2>2, <2>3
  <2>5. g \in Heaps
    BY <2>1, <2>4 DEF Heaps
  <2>6. g[p] # NULL
    BY <2>4, AnswersAssumption
  <2>7. g[p].refs > 0 => h[p].refs > 0
    BY <2>2, <2>4
  <2>8. Good(g, x) /\ Keeps(h, g)
    BY <1>2, <2>2, <2>4, <2>5, <2>6, <2>7, SameAttrs DEF IsA
  <2> QED BY <1>2, <2>2, <2>8 DEF Py_DECREF
<1> QED BY <1>1, <1>2

(* A new object, that is no Attr or is x.                                  *)
LEMMA Made ==
  ASSUME NEW h, NEW x, Good(h, x), Free(h) # {}, NEW kind, NEW ptr, NEW val,
         [kind |-> kind, refs |-> 1, ptr |-> ptr, val |-> val] \in Object,
         kind = "attr" => x = Fresh(h)
  PROVE  LET g == Make(h, kind, ptr, val) IN
         /\ Good(g, x) /\ Keeps(h, g)
         /\ Fresh(h) \in Objs /\ h[Fresh(h)] = NULL
         /\ IsA(g, Fresh(h), kind)
         /\ g[Fresh(h)].ptr = ptr /\ g[Fresh(h)].refs = 1
         /\ \A q \in Objs \ {Fresh(h)} : g[q] = h[q]
<1> DEFINE n == Fresh(h)
           new == [kind |-> kind, refs |-> 1, ptr |-> ptr, val |-> val]
           g == [h EXCEPT ![n] = new]
<1>1. n \in Objs /\ h[n] = NULL
  BY DEF Fresh, Free
<1>2. h \in Heaps
  BY DEF Good
<1>3. g \in Heaps /\ g[n] = new /\ \A q \in Objs \ {n} : g[q] = h[q]
  BY <1>1, <1>2 DEF Heaps
<1>4. new # NULL
  BY AnswersAssumption
<1>5. new.kind = kind /\ new.ptr = ptr /\ new.refs = 1
  OBVIOUS
<1>6. IsA(g, n, kind)
  BY <1>1, <1>3, <1>4, <1>5 DEF IsA
<1>7. kind = "attr" => x = n
  OBVIOUS
<1>8. Good(g, x) /\ Keeps(h, g)
  <2> HIDE DEF n, new, g
  <2>1. \A p \in Objs : h[p] # NULL =>
          /\ g[p] # NULL /\ g[p].kind = h[p].kind
          /\ h[p].kind = "attr" /\ p # x /\ g[p].refs > 0 =>
               g[p].ptr = h[p].ptr /\ h[p].refs > 0
    BY <1>1, <1>3
  <2>2. ASSUME NEW p \in Objs, h[p] = NULL, p # x PROVE ~IsA(g, p, "attr")
    BY <1>3, <1>5, <1>7, <2>2 DEF IsA
  <2> QED BY <1>3, <2>1, <2>2, SameAttrs
<1> QED BY <1>1, <1>3, <1>5, <1>6, <1>8 DEF Make

(* A pointer that goes into a field changes nothing else.                  *)
LEMMA StealParts ==
  ASSUME NEW h \in Heaps, NEW o \in Objs, h[o] # NULL, NEW f, NEW p \in Pointers
  PROVE  LET g == Steal(h, o, f, p) IN
         /\ g \in Heaps /\ g[o] # NULL /\ g[o].kind = h[o].kind
         /\ g[o].refs = h[o].refs /\ g[o].ptr = Repoint(h[o].ptr, f, p)
         /\ \A q \in Objs \ {o} : g[q] = h[q]
<1> DEFINE g == [h EXCEPT ![o].ptr[f] = p]
           y == Repointed(h[o], f, p)
<1>1. h[o] \in Object
  BY DEF Heaps
<1>2. g[o] = y /\ \A q \in Objs \ {o} : g[q] = h[q]
  BY DEF Heaps, Repointed
<1>3. /\ y \in Object /\ y.kind = h[o].kind /\ y.refs = h[o].refs
      /\ y.ptr = Repoint(h[o].ptr, f, p)
  BY <1>1, Pointed
<1>4. g = Steal(h, o, f, p)
  BY DEF Steal
<1>5. y # NULL
  BY <1>3, AnswersAssumption
<1> HIDE DEF y
<1>6. g \in Heaps
  BY <1>2, <1>3 DEF Heaps
<1> HIDE DEF g
<1> QED BY <1>2, <1>3, <1>4, <1>5, <1>6

(* A pointer goes into a field: of an object that is no Attr, or of one    *)
(* which it leaves whole, or of x.                                         *)
LEMMA Stolen ==
  ASSUME NEW h, NEW x, Good(h, x), NEW o, NEW f, NEW p \in Pointers,
         o \in Objs => h[o] # NULL,
         IsA(h, o, "attr") /\ o # x =>
           \/ f = "bop" /\ IsBop(h, p)
           \/ f \in AttrFields \ {"bop"} /\ (p = None \/ IsString(h, p))
  PROVE  Good(Steal(h, o, f, p), x) /\ Keeps(h, Steal(h, o, f, p))
<1> DEFINE g == Steal(h, o, f, p)
<1>1. h \in Heaps
  BY DEF Good
<1>2. CASE o \notin Objs
  <2>1. g = h
    BY <1>1, <1>2 DEF Heaps, Steal
  <2> QED BY <2>1, KeepsSame
<1>3. CASE o \in Objs
  <2>1. h[o] \in Object
    BY <1>1, <1>3 DEF Heaps
  <2>2. /\ g \in Heaps /\ g[o] # NULL /\ g[o].kind = h[o].kind
        /\ g[o].refs = h[o].refs /\ g[o].ptr = Repoint(h[o].ptr, f, p)
        /\ \A q \in Objs \ {o} : g[q] = h[q]
    BY <1>1, <1>3, StealParts
  <2> HIDE DEF g
  <2>3. Keeps(h, g)
    BY <1>3, <2>2 DEF Keeps
  <2>4. ASSUME NEW a \in Objs, a # x, IsA(g, a, "attr"), g[a].refs > 0
        PROVE  Whole(g, a)
    <3>1. IsA(h, a, "attr") /\ h[a].refs > 0
      BY <1>3, <2>2, <2>4 DEF IsA
    <3>2. Whole(h, a)
      BY <2>4, <3>1 DEF Good
    <3>3. CASE a # o
      <4>1. g[a].ptr = h[a].ptr
        BY <2>2, <3>3
      <4> QED BY <2>3, <3>2, <4>1, KeepsIsA DEF Whole, IsString, IsBop
    <3>4. CASE a = o
      <4>1. h[a].ptr \in [AttrFields -> Pointers]
        BY <2>1, <3>1, <3>4, ObjectParts DEF IsA
      <4>2. \A k \in AttrFields : g[a].ptr[k] = IF k = f THEN p ELSE h[a].ptr[k]
        BY <2>2, <3>4, <4>1 DEF Repoint
      <4>3. \/ f = "bop" /\ IsBop(h, p)
            \/ f \in AttrFields \ {"bop"} /\ (p = None \/ IsString(h, p))
        BY <2>4, <3>1, <3>4
      <4>4. "bop" \in AttrFields
        BY DEF AttrFields
      <4>5. ASSUME NEW k \in AttrFields \ {"bop"}
            PROVE  g[a].ptr[k] = None \/ IsString(h, g[a].ptr[k])
        BY <3>2, <4>2, <4>3 DEF Whole
      <4>6. IsBop(h, g[a].ptr["bop"])
        BY <3>2, <4>2, <4>3, <4>4 DEF Whole
      <4> QED BY <2>3, <4>5, <4>6, KeepsIsA DEF Whole, IsString, IsBop
    <3> QED BY <3>3, <3>4
  <2> QED BY <2>2, <2>3, <2>4 DEF Good, g
<1> QED BY <1>2, <1>3

(* When x is whole after all, or dead, nothing is exempt.                  *)
LEMMA NoneExempt ==
  ASSUME NEW h, NEW x, Good(h, x),
         x \in Objs /\ IsA(h, x, "attr") /\ h[x].refs > 0 => Whole(h, x)
  PROVE  Good(h, NULL)
BY DEF Good

(* One more Attr may be exempt.                                            *)
LEMMA Exempt ==
  ASSUME NEW h, Good(h, NULL), NEW x PROVE Good(h, x)
<1>1. NULL \notin Objs
  BY AnswersAssumption
<1> QED BY <1>1 DEF Good

-------------------------------------------------------------------------------
(* The converters of arguments.                                            *)

Results == [heap : Heaps, ok : BOOLEAN]

(* What a converter leaves of an Attr in use.                              *)
Kept(h, a, r) ==
  /\ r \in Results /\ Good(r.heap, NULL) /\ Keeps(h, r.heap)
  /\ IsA(r.heap, a, "attr") /\ r.heap[a].refs > 0

(* A whole Attr gets another value for one of its fields.                  *)
LEMMA Replaced ==
  ASSUME NEW h, Good(h, NULL), NEW a, IsA(h, a, "attr"), h[a].refs > 0,
         NEW f, NEW p \in Pointers,
         \/ f = "bop" /\ IsBop(h, p)
         \/ f \in AttrFields \ {"bop"} /\ (p = None \/ IsString(h, p))
  PROVE  LET g == Replace(h, a, f, p) IN
         Good(g, NULL) /\ Keeps(h, g) /\ g[a].refs = h[a].refs
<1> DEFINE old == h[a].ptr[f]
           g == Py_DECREF(h, old)
<1>1. a \in Objs /\ a # NULL /\ h[a] # NULL /\ h[a].kind = "attr"
  BY AnswersAssumption DEF IsA
<1>2. Whole(h, a)
  BY <1>1 DEF Good
<1>3. old \in Objs => h[old] # NULL /\ old # a
  <2>1. old = None \/ IsString(h, old) \/ IsBop(h, old)
    BY <1>2 DEF Whole
  <2>2. None \notin Objs
    BY AnswersAssumption
  <2> QED BY <1>1, <2>1, <2>2 DEF IsString, IsBop, IsA
<1>4. Good(g, NULL) /\ Keeps(h, g) /\ g[a] = h[a]
  <2>1. /\ Good(g, NULL) /\ Keeps(h, g)
        /\ \A q \in Objs \ {old} : g[q] = h[q]
    BY <1>3, Decrefed
  <2> HIDE DEF g
  <2>2. CASE old \in Objs
    BY <1>1, <1>3, <2>1, <2>2
  <2>3. CASE old \notin Objs
    BY <1>1, <2>1, <2>3
  <2> QED BY <2>2, <2>3
<1> HIDE DEF g
<1>5. \/ f = "bop" /\ IsBop(g, p)
      \/ f \in AttrFields \ {"bop"} /\ (p = None \/ IsString(g, p))
  BY <1>4, KeepsIsA DEF IsString, IsBop
<1>6. a \in Objs => g[a] # NULL
  BY <1>1, <1>4
<1> DEFINE k == Steal(g, a, f, p)
<1>7. Good(k, NULL) /\ Keeps(g, k)
  BY <1>4, <1>5, <1>6, Stolen
<1>8. k[a].refs = g[a].refs
  BY <1>1, <1>4, <1>6, StealParts DEF Good
<1>9. k = Replace(h, a, f, p)
  BY DEF Replace, g
<1> HIDE DEF k
<1>10. Keeps(h, k)
  BY <1>4, <1>7, KeepsOn
<1> QED BY <1>4, <1>7, <1>9, <1>10, <1>8

(* The same with a reference taken to the value first.                     *)
LEMMA Assigned ==
  ASSUME NEW h, Good(h, NULL), NEW a, IsA(h, a, "attr"), h[a].refs > 0,
         NEW f, NEW p,
         \/ f = "bop" /\ IsBop(h, p)
         \/ f \in AttrFields \ {"bop"} /\ (p = None \/ IsString(h, p))
  PROVE  LET g == Replace(Py_INCREF(h, p), a, f, p) IN
         Good(g, NULL) /\ Keeps(h, g) /\ g[a].refs = h[a].refs
<1> DEFINE g == Py_INCREF(h, p)
<1>1. p = None \/ IsString(h, p) \/ IsBop(h, p)
  OBVIOUS
<1>2. None \notin Objs
  BY AnswersAssumption
<1>3. a \in Objs /\ h[a].kind = "attr"
  BY DEF IsA
<1>4. a # p /\ (p \in Objs => h[p] # NULL /\ h[p].kind # "attr")
  BY <1>1, <1>2, <1>3 DEF IsString, IsBop, IsA
<1>5. /\ Good(g, NULL) /\ Keeps(h, g)
      /\ \A q \in Objs \ {p} : g[q] = h[q]
  BY <1>4, Increfed
<1> HIDE DEF g
<1>6. g[a] = h[a] /\ p \in Pointers
  BY <1>1, <1>3, <1>4, <1>5 DEF Pointers, IsString, IsBop, IsA
<1>7. IsA(g, a, "attr") /\ g[a].refs > 0
  BY <1>6 DEF IsA
<1>8. \/ f = "bop" /\ IsBop(g, p)
      \/ f \in AttrFields \ {"bop"} /\ (p = None \/ IsString(g, p))
  BY <1>5, KeepsIsA DEF IsString, IsBop
<1> DEFINE k == Replace(g, a, f, p)
<1>9. Good(k, NULL) /\ Keeps(g, k) /\ k[a].refs = g[a].refs
  BY <1>5, <1>6, <1>7, <1>8, Replaced
<1>10. k = Replace(Py_INCREF(h, p), a, f, p)
  BY DEF g
<1> HIDE DEF k
<1> QED BY <1>5, <1>6, <1>9, <1>10, KeepsOn

(* convert_to_string takes a string or None, and refuses all else.         *)
LEMMA StringConverted ==
  ASSUME NEW h, NEW a, NEW r, Kept(h, a, r), NEW f \in AttrFields \ {"bop"}, NEW v,
         NEW s \in convert_to_string(r, a, f, v)
  PROVE  Kept(h, a, s)
<1>1. CASE ~r.ok
  BY <1>1 DEF convert_to_string
<1>2. CASE r.ok /\ (v = None \/ IsString(r.heap, v))
  <2> DEFINE g == Replace(Py_INCREF(r.heap, v), a, f, v)
  <2>1. Good(g, NULL) /\ Keeps(r.heap, g) /\ g[a].refs = r.heap[a].refs
    BY <1>2, Assigned DEF Kept
  <2>2. s = [r EXCEPT !.heap = g]
    BY <1>2 DEF convert_to_string
  <2> HIDE DEF g
  <2>3. s \in Results /\ s.heap = g
    BY <2>1, <2>2 DEF Kept, Results, Good
  <2>4. Keeps(h, g) /\ IsA(g, a, "attr") /\ g[a].refs > 0
    BY <2>1, KeepsOn, KeepsIsA DEF Kept
  <2> QED BY <2>1, <2>3, <2>4 DEF Kept
<1>3. CASE r.ok /\ ~(v = None \/ IsString(r.heap, v))
  <2>1. s = [r EXCEPT !.ok = FALSE]
    BY <1>3 DEF convert_to_string
  <2>2. s \in Results /\ s.heap = r.heap
    BY <2>1 DEF Kept, Results
  <2> QED BY <2>2 DEF Kept
<1> QED BY <1>1, <1>2, <1>3

(* The row that is found is one of the table, or there is none to find.    *)
LEMMA IndexInTable ==
  ASSUME NEW s, batchop_index(s) # 0
  PROVE  batchop_index(s) \in 1..BATCHOP_ARRAY_END
<1> DEFINE rows == {i \in DOMAIN OpNames : s \in OpNames[i]}
<1>1. Len(OpNames) \in Nat /\ DOMAIN OpNames = 1..Len(OpNames)
  BY AnswersAssumption
<1>2. CASE s = NULL
  BY <1>1, <1>2 DEF batchop_index, BATCHOP_ARRAY_END
<1>3. CASE s # NULL
  <2>1. rows # {} /\ batchop_index(s) = Min(rows)
    BY <1>3 DEF batchop_index
  <2>2. rows \in SUBSET Nat
    BY <1>1
  <2>3. Min(rows) \in rows
    <3> HIDE DEF rows
    <3> QED BY <2>1, <2>2, LeastOne
  <2> QED BY <1>1, <2>1, <2>3 DEF BATCHOP_ARRAY_END
<1> QED BY <1>2, <1>3

(* BatchOp_New makes an operator or nothing.                               *)
LEMMA OperatorMade ==
  ASSUME NEW h, NEW x, Good(h, x), NEW s, NEW g \in BatchOp_New(h, s), g # h
  PROVE  /\ Good(g, x) /\ Keeps(h, g)
         /\ Fresh(h) \in Objs /\ h[Fresh(h)] = NULL
         /\ IsBop(g, Fresh(h))
         /\ \A q \in Objs \ {Fresh(h)} : g[q] = h[q]
<1> DEFINE n == batchop_index(s)
<1>1. Free(h) # {} /\ n # 0 /\ g = Make(h, "bop", <<>>, n)
  BY DEF BatchOp_New
<1>2. n \in 1..BATCHOP_ARRAY_END
  BY <1>1, IndexInTable
<1> HIDE DEF n
<1>3. [kind |-> "bop", refs |-> 1, ptr |-> <<>>, val |-> n] \in Object
  BY <1>2 DEF Object
<1> QED BY <1>1, <1>3, Made DEF IsBop

(* convert_to_batchop takes an operator, or makes one from a name or None. *)
LEMMA BatchopConverted ==
  ASSUME NEW h, NEW a, NEW r, Kept(h, a, r), NEW v,
         NEW s \in convert_to_batchop(r, a, v)
  PROVE  Kept(h, a, s)
<1>1. CASE ~r.ok
  BY <1>1 DEF convert_to_batchop
<1>2. ASSUME s = [r EXCEPT !.ok = FALSE] PROVE Kept(h, a, s)
  <2>1. s \in Results /\ s.heap = r.heap
    BY <1>2 DEF Kept, Results
  <2> QED BY <2>1 DEF Kept
<1>3. ASSUME NEW g, s = [r EXCEPT !.heap = g],
             Good(g, NULL), Keeps(r.heap, g), g[a].refs = r.heap[a].refs
      PROVE  Kept(h, a, s)
  <2>1. s \in Results /\ s.heap = g
    BY <1>3 DEF Kept, Results, Good
  <2>2. Keeps(h, g) /\ IsA(g, a, "attr") /\ g[a].refs > 0
    BY <1>3, KeepsOn, KeepsIsA DEF Kept
  <2> QED BY <1>3, <2>1, <2>2 DEF Kept
<1>4. CASE r.ok /\ IsBop(r.heap, v)
  <2> DEFINE g == Replace(Py_INCREF(r.heap, v), a, "bop", v)
  <2>1. Good(g, NULL) /\ Keeps(r.heap, g) /\ g[a].refs = r.heap[a].refs
    BY <1>4, Assigned DEF Kept
  <2>2. s = [r EXCEPT !.heap = g]
    BY <1>4 DEF convert_to_batchop
  <2> HIDE DEF g
  <2> QED BY <1>3, <2>1, <2>2
<1>5. CASE r.ok /\ ~IsBop(r.heap, v) /\ (v = None \/ IsString(r.heap, v))
  <2>1. PICK m \in BatchOp_New(r.heap, IF v = None THEN NULL ELSE r.heap[v].val) :
          s = IF m = r.heap THEN [r EXCEPT !.ok = FALSE]
              ELSE [r EXCEPT !.heap = Replace(m, a, "bop", Fresh(r.heap))]
    BY <1>5 DEF convert_to_batchop
  <2>2. CASE m = r.heap
    BY <1>2, <2>1, <2>2
  <2>3. CASE m # r.heap
    <3> DEFINE n == Fresh(r.heap)
               g == Replace(m, a, "bop", n)
    <3>1. /\ Good(m, NULL) /\ Keeps(r.heap, m)
          /\ n \in Objs /\ r.heap[n] = NULL /\ IsBop(m, n)
          /\ \A q \in Objs \ {n} : m[q] = r.heap[q]
      BY <2>3, OperatorMade DEF Kept
    <3>2. s = [r EXCEPT !.heap = g]
      BY <2>1, <2>3
    <3> HIDE DEF n
    <3>3. m[a] = r.heap[a] /\ n \in Pointers
      BY <3>1 DEF Kept, IsA, Pointers
    <3>4. IsA(m, a, "attr") /\ m[a].refs > 0
      BY <3>3 DEF Kept, IsA
    <3>5. Good(g, NULL) /\ Keeps(m, g) /\ g[a].refs = m[a].refs
      BY <3>1, <3>3, <3>4, Replaced
    <3> HIDE DEF g
    <3>6. Keeps(r.heap, g)
      BY <3>1, <3>5, KeepsOn
    <3> QED BY <1>3, <3>2, <3>3, <3>5, <3>6
  <2> QED BY <2>2, <2>3
<1>6. CASE r.ok /\ ~IsBop(r.heap, v) /\ ~(v = None \/ IsString(r.heap, v))
  BY <1>2, <1>6 DEF convert_to_batchop
<1> QED BY <1>1, <1>4, <1>5, <1>6

(* However far attr__init comes, the Attr is whole.                        *)
LEMMA AttrInit ==
  ASSUME NEW h, Good(h, NULL), NEW a, IsA(h, a, "attr"), h[a].refs > 0,
         NEW name, NEW value, NEW rscn, NEW bop,
         NEW s \in attr__init(h, a, name, value, rscn, bop)
  PROVE  Kept(h, a, s)
<1> DEFINE r0 == [heap |-> h, ok |-> TRUE]
<1>1. Kept(h, a, r0)
  BY KeepsSame DEF Kept, Results, Good
<1>2. {"name", "value", "rscn"} \subseteq AttrFields \ {"bop"}
  BY DEF AttrFields
<1>3. ASSUME NEW r, Kept(h, a, r), NEW f \in AttrFields \ {"bop"}, NEW v,
             NEW t \in Optional(r, v, convert_to_string(r, a, f, v))
      PROVE  Kept(h, a, t)
  BY <1>3, StringConverted DEF Optional
<1>4. ASSUME NEW r, Kept(h, a, r), NEW v,
             NEW t \in Optional(r, v, convert_to_batchop(r, a, v))
      PROVE  Kept(h, a, t)
  BY <1>4, BatchopConverted DEF Optional
<1> DEFINE R3(r3) == Optional(r3, bop, convert_to_batchop(r3, a, bop))
           R2(r2) == Optional(r2, rscn, convert_to_string(r2, a, "rscn", rscn))
           R1(r1) == Optional(r1, value, convert_to_string(r1, a, "value", value))
           R0 == Optional(r0, name, convert_to_string(r0, a, "name", name))
<1>5. s \in UNION {UNION {UNION {R3(r3) : r3 \in R2(r2)} : r2 \in R1(r1)} : r1 \in R0}
  BY DEF attr__init
<1>6. PICK r1 \in R0 : s \in UNION {UNION {R3(r3) : r3 \in R2(r2)} : r2 \in R1(r1)}
  <2> HIDE DEF R0, R1, R2, R3
  <2> QED BY <1>5
<1>7. PICK r2 \in R1(r1) : s \in UNION {R3(r3) : r3 \in R2(r2)}
  <2> HIDE DEF R0, R1, R2, R3
  <2> QED BY <1>6
<1>8. PICK r3 \in R2(r2) : s \in R3(r3)
  <2> HIDE DEF R0, R1, R2, R3
  <2> QED BY <1>7
<1> HIDE DEF r0
<1>9. Kept(h, a, r1)
  BY <1>1, <1>2, <1>3, <1>6
<1>10. Kept(h, a, r2)
  BY <1>2, <1>3, <1>7, <1>9
<1>11. Kept(h, a, r3)
  BY <1>2, <1>3, <1>10, <1>8
<1> QED BY <1>4, <1>11, <1>8

(* attr__new makes a whole Attr, or leaves none.                           *)
LEMMA AttrMade ==
  ASSUME NEW h, Good(h, NULL), NEW r \in attr__new(h)
  PROVE  /\ Good(r.heap, NULL) /\ Keeps(h, r.heap)
         /\ r.attr \in Objs \cup {NULL}
         /\ r.attr # NULL => IsA(r.heap, r.attr, "attr")
<1>1. CASE r = [heap |-> h, attr |-> NULL]
  BY <1>1, KeepsSame
<1>2. CASE r # [heap |-> h, attr |-> NULL]
  <2> DEFINE a == Fresh(h)
             ptr == [f \in AttrFields |-> IF f = "bop" THEN NULL ELSE None]
             h1 == Make(h, "attr", ptr, NULL)
             n == Fresh(h1)
  <2>1. PICK h2 \in BatchOp_New(h1, NULL) :
          r = IF h2 = h1 THEN [heap |-> Py_DECREF(h1, a), attr |-> NULL]
              ELSE [heap |-> Steal(h2, a, "bop", n), attr |-> a]
    BY <1>2 DEF attr__new
  <2>2. Free(h) # {}
    BY <1>2 DEF attr__new
  <2>3. /\ ptr \in [AttrFields -> Pointers] /\ "bop" \in AttrFields
        /\ ptr["bop"] = NULL /\ \A f \in AttrFields \ {"bop"} : ptr[f] = None
    BY DEF Pointers, AttrFields
  <2> HIDE DEF ptr
  <2>4. [kind |-> "attr", refs |-> 1, ptr |-> ptr, val |-> NULL] \in Object
    BY <2>3 DEF Object
  <2>5. Good(h, a)
    BY Exempt
  <2>6. /\ Good(h1, a) /\ Keeps(h, h1) /\ a \in Objs
        /\ IsA(h1, a, "attr") /\ h1[a].ptr = ptr /\ h1[a].refs = 1
    BY <2>2, <2>4, <2>5, Made
  <2>7. a # NULL /\ NULL \notin Objs
    BY <2>6, AnswersAssumption
  <2> HIDE DEF a, h1
  <2>8. CASE h2 = h1
    <3> DEFINE g == Py_DECREF(h1, a)
    <3>1. h1[a] # NULL
      BY <2>6 DEF IsA
    <3>2. Good(g, a) /\ Keeps(h1, g)
      BY <2>6, <3>1, Decrefed
    <3>3. g[a].refs = 0
      <4>1. h1 \in Heaps
        BY <2>6 DEF Good
      <4>2. h1[a] \in Object
        BY <2>6, <3>1, <4>1 DEF Heaps
      <4>3. g[a] = [h1[a] EXCEPT !.refs = 0]
        BY <2>6, <4>1 DEF Py_DECREF, Heaps
      <4> QED BY <4>2, <4>3, Recounted
    <3>4. r.heap = g /\ r.attr = NULL
      BY <2>1, <2>8
    <3> HIDE DEF g
    <3>5. Good(g, NULL)
      BY <3>2, <3>3, NoneExempt
    <3> QED BY <2>6, <3>2, <3>4, <3>5, KeepsOn
  <2>9. CASE h2 # h1
    <3>1. /\ Good(h2, a) /\ Keeps(h1, h2) /\ n \in Objs /\ h1[n] = NULL
          /\ IsBop(h2, n) /\ \A q \in Objs \ {n} : h2[q] = h1[q]
      BY <2>6, <2>9, OperatorMade
    <3> HIDE DEF n
    <3> DEFINE g == Steal(h2, a, "bop", n)
    <3>2. h2[a] = h1[a] /\ h2[a] # NULL /\ n \in Pointers
      BY <2>6, <3>1 DEF IsA, Pointers
    <3>3. Good(g, a) /\ Keeps(h2, g)
      BY <3>1, <3>2, Stolen
    <3>4. g[a].ptr = Repoint(ptr, "bop", n)
      BY <2>6, <3>1, <3>2, StealParts DEF Good
    <3>5. r.heap = g /\ r.attr = a
      BY <2>1, <2>9
    <3> HIDE DEF g
    <3>6. g[a].ptr["bop"] = n /\ \A f \in AttrFields \ {"bop"} : g[a].ptr[f] = None
      BY <2>3, <3>4 DEF Repoint
    <3>7. IsBop(g, n)
      BY <3>1, <3>3, KeepsIsA DEF IsBop
    <3>8. Whole(g, a)
      BY <3>6, <3>7 DEF Whole
    <3>9. Good(g, NULL)
      BY <3>3, <3>8, NoneExempt
    <3>10. Keeps(h, g) /\ Keeps(h1, g)
      BY <2>6, <3>1, <3>3, KeepsOn
    <3> QED BY <2>6, <3>5, <3>9, <3>10, KeepsIsA
  <2> QED BY <2>8, <2>9
<1> QED BY <1>1, <1>2

-------------------------------------------------------------------------------
(* The conversion that is running.                                         *)

InAttr == {"attr", "key_name", "key_value", "key_resource", "init", "attr_error"}
InStatus ==
  {"data", "name", "text", "data_error", "attribs", "next_attr"} \cup InAttr

(* Where it is in the answer.                                              *)
FrameFits(fr) ==
  /\ fr \in Frame
  /\ fr.at \in {"list", "next"} \cup InStatus => fr.in \in Seq(BatchStatus)
  /\ fr.at \in {"argv", "append"} => fr.in \in Seq(Text)
  /\ fr.at \in InStatus => fr.i \in 1..Len(fr.in)
  /\ fr.at \in InAttr => fr.j \in 1..Len(fr.in[fr.i].attribs)
  /\ fr.at \in {"key_name", "key_value", "key_resource", "init"} => fr.attr \in Objs

(* What its local variables lead to.                                       *)
FrameLeads(h, fr) ==
  /\ Points(h, fr.list, "list") /\ Points(h, fr.data, "data")
  /\ Points(h, fr.attribs, "list") /\ Points(h, fr.attr, "attr")
  /\ Points(h, fr.kwds, "dict")

(* The invariant that a step keeps.                                        *)
IInv ==
  /\ TypeOK /\ FrameFits(frame)
  /\ Sound => Good(heap, NULL) /\ FrameLeads(heap, frame)

(* What a step does, other than to free an object.                         *)
StepFine ==
  /\ Good(heap', NULL) /\ Keeps(heap, heap')
  /\ FrameFits(frame') /\ FrameLeads(heap', frame')
  /\ held' \in [Objs -> Nat] /\ pending' \in BOOLEAN

(* Local variables still lead to what they did.                            *)
LEMMA LeadsKept ==
  ASSUME NEW h, NEW g, NEW fr, FrameLeads(h, fr), Keeps(h, g)
  PROVE  FrameLeads(g, fr)
BY KeepsIsA DEF FrameLeads, Points

(* Nothing is converted.                                                   *)
LEMMA IdleFits == \A h : FrameFits(Idle) /\ FrameLeads(h, Idle)
<1>1. NULL \notin Objs
  BY AnswersAssumption
<1>2. Idle \in Frame
  BY DEF Idle, Frame, Stages
<1>3. FrameFits(Idle)
  BY <1>2 DEF Idle, FrameFits, InStatus, InAttr
<1>4. ASSUME NEW h PROVE FrameLeads(h, Idle)
  BY <1>1 DEF Idle, FrameLeads, Points
<1> QED BY <1>3, <1>4

(* What is referenced is there.                                            *)
LEMMA Live ==
  ASSUME Sound
  PROVE  /\ heap[PBS_NULLSTR] # NULL
         /\ \A p \in Objs : p \in Framed \/ held[p] > 0 => heap[p] # NULL
         /\ \A o, p \in Objs : \A f :
              heap[o] # NULL /\ f \in DOMAIN heap[o].ptr /\ heap[o].ptr[f] = p
                => heap[p] # NULL
BY AnswersAssumption DEF Sound, Referenced

(* The part of the answer that is converted.                               *)
LEMMA StatusTyped ==
  ASSUME FrameFits(frame), frame.at \in InStatus
  PROVE  /\ Status \in BatchStatus
         /\ Status.name \in Text \cup {NULL} /\ Status.text \in Text \cup {NULL}
         /\ Status.attribs \in Seq(Attribute)
<1>1. frame.in \in Seq(BatchStatus) /\ frame.i \in 1..Len(frame.in)
  BY DEF FrameFits
<1>2. Status \in BatchStatus
  BY <1>1 DEF Status
<1> QED BY <1>2 DEF BatchStatus

(* The attribute that is converted.                                        *)
LEMMA AttrlTyped ==
  ASSUME FrameFits(frame), frame.at \in InAttr
  PROVE  /\ Attrl.name \in Text \cup {NULL} /\ Attrl.value \in Text \cup {NULL}
         /\ Attrl.resource \in Text \cup {NULL}
<1>1. frame.at \in InStatus
  BY DEF InStatus
<1>2. Status.attribs \in Seq(Attribute) /\ frame.j \in 1..Len(Status.attribs)
  BY <1>1, StatusTyped DEF FrameFits, Status
<1>3. Attrl \in Attribute
  BY <1>2 DEF Attrl
<1> QED BY <1>3 DEF Attribute

(* Lists of empty places are objects.                                      *)
LEMMA NullsTyped ==
  ASSUME NEW n \in Nat
  PROVE  [kind |-> "list", refs |-> 1, ptr |-> Nulls(n), val |-> NULL] \in Object
<1>1. Nulls(n) \in Seq(Pointers)
  <2>1. Nulls(n) \in [1..n -> Pointers]
    BY DEF Nulls, Pointers
  <2> QED BY <2>1
<1> QED BY <1>1 DEF Object

(* New Data, dictionaries and strings are objects.                         *)
LEMMA NewTyped ==
  /\ [kind |-> "data", refs |-> 1, ptr |-> NoFields, val |-> NULL] \in Object
  /\ [kind |-> "dict", refs |-> 1, ptr |-> [k \in Keys |-> NULL], val |-> NULL] \in Object
  /\ \A s \in Text : [kind |-> "str", refs |-> 1, ptr |-> <<>>, val |-> s] \in Object
<1>1. NoFields \in [DataFields -> Pointers] /\ [k \in Keys |-> NULL] \in [Keys -> Pointers]
  BY DEF NoFields, Pointers
<1> QED BY <1>1 DEF Object

-------------------------------------------------------------------------------
(* The steps of a conversion.                                              *)

(* An object is made that is no Attr.                                      *)
LEMMA Allocated ==
  ASSUME Good(heap, NULL), NEW kind, NEW ptr, NEW next, Allocates(kind, ptr, next),
         kind # "attr",
         [kind |-> kind, refs |-> 1, ptr |-> ptr, val |-> NULL] \in Object
  PROVE  /\ Good(heap', NULL) /\ Keeps(heap, heap')
         /\ Fresh(heap) \in Objs /\ IsA(heap', Fresh(heap), kind)
         /\ frame' = next
BY Made DEF Allocates

(* Nothing changes but the place in the answer.                            *)
LEMMA OnlyFrame ==
  ASSUME Good(heap, NULL), FrameLeads(heap, frame), UNCHANGED heap,
         FrameFits(frame'), FrameLeads(heap, frame')
  PROVE  /\ Good(heap', NULL) /\ Keeps(heap, heap')
         /\ FrameFits(frame') /\ FrameLeads(heap', frame')
BY KeepsSame

(* What a failed allocation and an answer that is complete leave.          *)
LEMMA BackToIdle ==
  ASSUME Good(heap, NULL), FrameLeads(heap, frame), UNCHANGED heap, frame' = Idle
  PROVE  /\ Good(heap', NULL) /\ Keeps(heap, heap')
         /\ FrameFits(frame') /\ FrameLeads(heap', frame')
BY KeepsSame, IdleFits

(* The list goes to the program.                                           *)
LEMMA Returned ==
  ASSUME TypeOK, Good(heap, NULL), FrameLeads(heap, frame), Returns
  PROVE  StepFine
<1>1. held' \in [Objs -> Nat]
  <2>1. held \in [Objs -> Nat] /\ held' = [held EXCEPT ![frame.list] = @ + 1]
    BY DEF Returns, TypeOK
  <2>2. \A p \in Objs : held'[p] \in Nat
    BY <2>1
  <2> QED BY <2>1, <2>2
<1>2. pending' \in BOOLEAN
  <2>1. pending' = pending /\ pending \in BOOLEAN
    BY DEF Returns, TypeOK
  <2> QED BY <2>1, Zenon
<1>3. UNCHANGED heap /\ frame' = Idle
  BY DEF Returns
<1> QED BY <1>1, <1>2, <1>3, BackToIdle DEF StepFine

(* What none of the steps of a conversion changes the type of.             *)
LEMMA SamePrograms ==
  ASSUME TypeOK, UNCHANGED held, UNCHANGED pending \/ pending' = TRUE \/ pending' = FALSE
  PROVE  held' \in [Objs -> Nat] /\ pending' \in BOOLEAN
<1>1. held' \in [Objs -> Nat]
  BY DEF TypeOK
<1>2. CASE UNCHANGED pending
  <2>1. pending' = pending /\ pending \in BOOLEAN
    BY <1>2 DEF TypeOK
  <2> QED BY <1>1, <2>1, Zenon
<1>3. CASE pending' = TRUE \/ pending' = FALSE
  BY <1>1, <1>3, Zenon
<1> QED BY <1>2, <1>3

(* bs_to_py_list: the list, and one Data after the other.                  *)
LEMMA StepStatuses ==
  ASSUME IInv, Sound, bs_to_py_list PROVE StepFine
<1>1. TypeOK /\ Good(heap, NULL) /\ FrameFits(frame) /\ FrameLeads(heap, frame)
  BY DEF IInv
<1>2. CASE At("list")
           /\ Allocates("list", Nulls(Len(frame.in)), [Goto("next") EXCEPT !.list = Fresh(heap)])
  <2>1. frame.at = "list" /\ UNCHANGED <<held, pending>>
    BY <1>2 DEF At, Allocates
  <2>2. Len(frame.in) \in Nat
    BY <1>1, <2>1 DEF FrameFits
  <2>3. /\ Good(heap', NULL) /\ Keeps(heap, heap')
        /\ Fresh(heap) \in Objs /\ IsA(heap', Fresh(heap), "list")
        /\ frame' = [Goto("next") EXCEPT !.list = Fresh(heap)]
    BY <1>1, <1>2, <2>2, NullsTyped, Allocated
  <2>4. FrameFits(frame')
    BY <1>1, <2>1, <2>3 DEF FrameFits, Frame, Stages, Goto, InStatus, InAttr
  <2>5. FrameLeads(heap', frame')
    <3>1. FrameLeads(heap', frame)
      BY <1>1, <2>3, LeadsKept
    <3> QED BY <1>1, <2>3, <3>1 DEF FrameLeads, Points, FrameFits, Frame, Goto
  <2> QED BY <1>1, <2>1, <2>3, <2>4, <2>5, SamePrograms DEF StepFine
<1>3. CASE At("list") /\ Fails /\ UNCHANGED heap
  <2>1. UNCHANGED <<held, heap>> /\ frame' = Idle /\ pending' = FALSE
    BY <1>3 DEF At, Fails
  <2> QED BY <1>1, <2>1, BackToIdle, SamePrograms DEF StepFine
<1>4. CASE At("next") /\ frame.i < Len(frame.in)
           /\ frame' = [Goto("data") EXCEPT !.i = @ + 1] /\ UNCHANGED <<heap, pending>>
  <2>1. frame.at = "next" /\ UNCHANGED <<held, heap, pending>>
    BY <1>4 DEF At
  <2>2. frame \in Frame /\ frame.in \in Seq(BatchStatus) /\ frame.i \in Nat
    BY <1>1, <2>1 DEF FrameFits, Frame
  <2>3. /\ frame' \in Frame /\ frame'.at = "data" /\ frame'.in = frame.in
        /\ frame'.i = frame.i + 1
        /\ frame'.list = frame.list /\ frame'.data = frame.data
        /\ frame'.attribs = frame.attribs /\ frame'.attr = frame.attr
        /\ frame'.kwds = frame.kwds
    <3> DEFINE n == frame.i + 1
    <3>1. n \in Nat /\ frame' = [[frame EXCEPT !.at = "data"] EXCEPT !.i = n]
      BY <1>4, <2>2 DEF Frame, Goto
    <3>2. "data" \in Stages
      BY DEF Stages
    <3> HIDE DEF n
    <3>3. frame' \in Frame
      BY <2>2, <3>1, <3>2 DEF Frame
    <3>4. frame'.at = "data" /\ frame'.i = n /\ frame'.in = frame.in
      BY <2>2, <3>1, <3>2 DEF Frame
    <3> QED BY <2>2, <3>1, <3>3, <3>4 DEF Frame, n
  <2>4. FrameFits(frame')
    BY <1>4, <2>2, <2>3 DEF FrameFits, InStatus, InAttr
  <2>5. FrameLeads(heap, frame')
    BY <1>1, <2>3 DEF FrameLeads, Points
  <2> QED BY <1>1, <2>1, <2>4, <2>5, OnlyFrame, SamePrograms DEF StepFine
<1>5. CASE Returns
  BY <1>1, <1>5, Returned
<1> QED BY <1>2, <1>3, <1>4, <1>5 DEF bs_to_py_list

(* The conversion of a status goes on.                                     *)
LEMMA StageFits ==
  ASSUME FrameFits(frame), frame.at \in InStatus, NEW next \in InStatus \cup {"next"},
         next \in InAttr => frame.at \in InAttr,
         next \in {"key_name", "key_value", "key_resource", "init"} => frame.attr \in Objs
  PROVE  /\ FrameFits(Goto(next))
         /\ \A h : FrameLeads(h, frame) => FrameLeads(h, Goto(next))
<1> DEFINE fr == Goto(next)
<1>1. next \in Stages
  BY DEF InStatus, InAttr, Stages
<1>2. frame \in Frame
  BY DEF FrameFits
<1>3. /\ fr \in Frame /\ fr.at = next /\ fr.in = frame.in /\ fr.i = frame.i
      /\ fr.j = frame.j /\ fr.list = frame.list /\ fr.data = frame.data
      /\ fr.attribs = frame.attribs /\ fr.attr = frame.attr /\ fr.kwds = frame.kwds
  BY <1>1, <1>2 DEF Frame, Goto
<1> HIDE DEF fr
<1>4. FrameFits(fr)
  BY <1>3 DEF FrameFits, InStatus, InAttr
<1>5. ASSUME NEW h, FrameLeads(h, frame) PROVE FrameLeads(h, fr)
  BY <1>3, <1>5 DEF FrameLeads
<1> QED BY <1>4, <1>5 DEF fr

(* A pointer goes into an object that a local variable has, other than an  *)
(* Attr.                                                                   *)
LEMMA StolenOther ==
  ASSUME NEW h, NEW o, NEW kind, kind # "attr", Points(h, o, kind), Good(h, NULL),
         NEW f, NEW p \in Pointers
  PROVE  Good(Steal(h, o, f, p), NULL) /\ Keeps(h, Steal(h, o, f, p))
<1>1. o \in Objs => h[o] # NULL
  BY DEF Points, IsA
<1>2. ~IsA(h, o, "attr")
  BY DEF Points, IsA
<1> QED BY <1>1, <1>2, Stolen

(* A string, or PBS_NULLSTR, goes into the Data.                           *)
LEMMA StringStored ==
  ASSUME IInv, Sound, Settled, UNCHANGED held, frame.at \in InStatus,
         NEW f, NEW s \in Text \cup {NULL}, NEW next \in InStatus \ InAttr,
         DataString(f, s, next)
  PROVE  StepFine
<1>1. TypeOK /\ Good(heap, NULL) /\ FrameFits(frame) /\ FrameLeads(heap, frame)
  BY DEF IInv
<1>2. ASSUME Good(heap', NULL), Keeps(heap, heap'), NEW at \in InStatus \ InAttr,
             frame' = Goto(at), UNCHANGED pending \/ pending' = TRUE
      PROVE  StepFine
  <2>1. FrameFits(frame') /\ FrameLeads(heap, frame')
    BY <1>1, <1>2, StageFits DEF InAttr
  <2>2. FrameLeads(heap', frame')
    BY <1>2, <2>1, LeadsKept
  <2> QED BY <1>1, <1>2, <2>1, <2>2, SamePrograms DEF StepFine
<1>3. Points(heap, frame.data, "data")
  BY <1>1 DEF FrameLeads
<1>4. CASE /\ s # NULL /\ Free(heap) # {}
           /\ heap' = Steal(Make(heap, "str", <<>>, s), frame.data, f, Fresh(heap))
           /\ frame' = Goto(next) /\ UNCHANGED pending
  <2> DEFINE h == Make(heap, "str", <<>>, s)
  <2>1. Good(h, NULL) /\ Keeps(heap, h) /\ Fresh(heap) \in Objs
    <3>1. [kind |-> "str", refs |-> 1, ptr |-> <<>>, val |-> s] \in Object
      BY <1>4, NewTyped
    <3> QED BY <1>1, <1>4, <3>1, Made
  <2> HIDE DEF h
  <2>2. Points(h, frame.data, "data") /\ Fresh(heap) \in Pointers
    BY <1>3, <2>1, KeepsIsA DEF Points, Pointers
  <2>3. Good(heap', NULL) /\ Keeps(h, heap')
    BY <1>4, <2>1, <2>2, StolenOther DEF h
  <2>4. Keeps(heap, heap')
    BY <2>1, <2>3, KeepsOn
  <2> QED BY <1>2, <1>4, <2>3, <2>4
<1>5. CASE s # NULL /\ NoMemory(Goto("data_error"))
  <2>1. UNCHANGED heap /\ pending' = TRUE /\ frame' = Goto("data_error")
    BY <1>5 DEF NoMemory
  <2>2. Good(heap', NULL) /\ Keeps(heap, heap')
    BY <1>1, <2>1, KeepsSame
  <2>3. "data_error" \in InStatus \ InAttr
    BY DEF InStatus, InAttr
  <2> QED BY <1>2, <2>1, <2>2, <2>3
<1>6. CASE /\ s = NULL
           /\ heap' = Steal(Py_INCREF(heap, PBS_NULLSTR), frame.data, f, PBS_NULLSTR)
           /\ frame' = Goto(next) /\ UNCHANGED pending
  <2> DEFINE h == Py_INCREF(heap, PBS_NULLSTR)
  <2>1. heap[PBS_NULLSTR] # NULL /\ heap[PBS_NULLSTR].refs > 0 /\ PBS_NULLSTR \in Objs
    BY Live, AnswersAssumption DEF Settled
  <2>2. Good(h, NULL) /\ Keeps(heap, h)
    BY <1>1, <2>1, Increfed
  <2> HIDE DEF h
  <2>3. Points(h, frame.data, "data") /\ PBS_NULLSTR \in Pointers
    BY <1>3, <2>1, <2>2, KeepsIsA DEF Points, Pointers
  <2>4. Good(heap', NULL) /\ Keeps(h, heap')
    BY <1>6, <2>2, <2>3, StolenOther DEF h
  <2>5. Keeps(heap, heap')
    BY <2>2, <2>4, KeepsOn
  <2> QED BY <1>2, <1>6, <2>4, <2>5
<1> QED BY <1>4, <1>5, <1>6 DEF DataString

(* PBSData_New: the Data, its two strings, and the exit on an error.       *)
LEMMA StepData ==
  ASSUME IInv, Sound, Settled, PBSData_New PROVE StepFine
<1>1. TypeOK /\ Good(heap, NULL) /\ FrameFits(frame) /\ FrameLeads(heap, frame)
  BY DEF IInv
<1>2. frame \in Frame
  BY <1>1 DEF FrameFits
<1>3. CASE At("data")
           /\ Allocates("data", NoFields, [Goto("name") EXCEPT !.data = Fresh(heap)])
  <2>1. frame.at = "data" /\ UNCHANGED <<held, pending>>
    BY <1>3 DEF At, Allocates
  <2>2. /\ Good(heap', NULL) /\ Keeps(heap, heap')
        /\ Fresh(heap) \in Objs /\ IsA(heap', Fresh(heap), "data")
        /\ frame' = [Goto("name") EXCEPT !.data = Fresh(heap)]
    BY <1>1, <1>3, NewTyped, Allocated
  <2>3. FrameFits(frame')
    BY <1>1, <2>1, <2>2 DEF FrameFits, Frame, Stages, Goto, InStatus, InAttr
  <2>4. FrameLeads(heap', frame')
    <3>1. FrameLeads(heap', frame)
      BY <1>1, <2>2, LeadsKept
    <3> QED BY <1>2, <2>2, <3>1 DEF FrameLeads, Points, Frame, Goto
  <2> QED BY <1>1, <2>1, <2>2, <2>3, <2>4, SamePrograms DEF StepFine
<1>4. CASE At("data") /\ NoMemory(Goto("next"))
  <2>1. frame.at = "data" /\ UNCHANGED <<held, heap>> /\ pending' = TRUE
        /\ frame' = Goto("next")
    BY <1>4 DEF At, NoMemory
  <2>2. FrameFits(frame') /\ FrameLeads(heap, frame')
    BY <1>1, <2>1, StageFits DEF InStatus, InAttr
  <2> QED BY <1>1, <2>1, <2>2, OnlyFrame, SamePrograms DEF StepFine
<1>5. CASE At("name") /\ DataString("name", Status.name, "text")
  <2>1. frame.at \in InStatus /\ "text" \in InStatus \ InAttr /\ UNCHANGED held
    BY <1>5 DEF At, InStatus, InAttr
  <2> QED BY <1>1, <1>5, <2>1, StatusTyped, StringStored
<1>6. CASE At("text") /\ DataString("text", Status.text, "attribs")
  <2>1. frame.at \in InStatus /\ "attribs" \in InStatus \ InAttr /\ UNCHANGED held
    BY <1>6 DEF At, InStatus, InAttr
  <2> QED BY <1>1, <1>6, <2>1, StatusTyped, StringStored
<1>7. CASE /\ At("data_error") /\ heap' = Py_DECREF(heap, frame.data)
           /\ frame' = [Goto("next") EXCEPT !.data = NULL] /\ UNCHANGED pending
  <2>1. frame.at = "data_error" /\ UNCHANGED <<held, pending>>
    BY <1>7 DEF At
  <2>2. frame.data \in Objs => heap[frame.data] # NULL
    BY <1>1 DEF FrameLeads, Points, IsA
  <2>3. Good(heap', NULL) /\ Keeps(heap, heap')
    BY <1>1, <1>7, <2>2, Decrefed
  <2>4. FrameFits(frame')
    BY <1>1, <1>7, <2>1 DEF FrameFits, Frame, Stages, Goto, InStatus, InAttr
  <2>5. FrameLeads(heap', frame')
    <3>1. FrameLeads(heap', frame)
      BY <1>1, <2>3, LeadsKept
    <3>2. NULL \notin Objs
      BY AnswersAssumption
    <3> QED BY <1>2, <1>7, <3>1, <3>2 DEF FrameLeads, Points, Frame, Goto
  <2> QED BY <1>1, <2>1, <2>3, <2>4, <2>5, SamePrograms DEF StepFine
<1> QED BY <1>3, <1>4, <1>5, <1>6, <1>7 DEF PBSData_New

(* attrl_to_py_list: the inner list, and the Data into its place.          *)
LEMMA StepAttrList ==
  ASSUME IInv, Sound, attrl_to_py_list PROVE StepFine
<1>1. TypeOK /\ Good(heap, NULL) /\ FrameFits(frame) /\ FrameLeads(heap, frame)
  BY DEF IInv
<1>2. frame \in Frame
  BY <1>1 DEF FrameFits
<1>3. NULL \notin Objs
  BY AnswersAssumption
<1>4. CASE At("attribs")
           /\ Allocates("list", Nulls(Len(Status.attribs)),
                        [Goto("next_attr") EXCEPT !.attribs = Fresh(heap)])
  <2>1. frame.at = "attribs" /\ UNCHANGED <<held, pending>>
    BY <1>4 DEF At, Allocates
  <2>2. Len(Status.attribs) \in Nat
    BY <1>1, <2>1, StatusTyped DEF InStatus
  <2>3. /\ Good(heap', NULL) /\ Keeps(heap, heap')
        /\ Fresh(heap) \in Objs /\ IsA(heap', Fresh(heap), "list")
        /\ frame' = [Goto("next_attr") EXCEPT !.attribs = Fresh(heap)]
    BY <1>1, <1>4, <2>2, NullsTyped, Allocated
  <2>4. FrameFits(frame')
    BY <1>1, <2>1, <2>3 DEF FrameFits, Frame, Stages, Goto, InStatus, InAttr
  <2>5. FrameLeads(heap', frame')
    <3>1. FrameLeads(heap', frame)
      BY <1>1, <2>3, LeadsKept
    <3> QED BY <1>2, <2>3, <3>1 DEF FrameLeads, Points, Frame, Goto
  <2> QED BY <1>1, <2>1, <2>3, <2>4, <2>5, SamePrograms DEF StepFine
<1>5. CASE At("attribs") /\ NoMemory(Goto("data_error"))
  <2>1. frame.at = "attribs" /\ UNCHANGED <<held, heap>> /\ pending' = TRUE
        /\ frame' = Goto("data_error")
    BY <1>5 DEF At, NoMemory
  <2>2. FrameFits(frame') /\ FrameLeads(heap, frame')
    BY <1>1, <2>1, StageFits DEF InStatus, InAttr
  <2> QED BY <1>1, <2>1, <2>2, OnlyFrame, SamePrograms DEF StepFine
<1>6. CASE /\ At("next_attr") /\ frame.j < Len(Status.attribs)
           /\ frame' = [Goto("attr") EXCEPT !.j = @ + 1]
           /\ UNCHANGED <<heap, pending>>
  <2> DEFINE n == frame.j + 1
  <2>1. frame.at = "next_attr" /\ UNCHANGED <<held, heap, pending>>
    BY <1>6 DEF At
  <2>2. Status.attribs \in Seq(Attribute)
    BY <1>1, <2>1, StatusTyped DEF InStatus
  <2>3. n \in 1..Len(Status.attribs) /\ n \in Nat
    BY <1>2, <1>6, <2>2 DEF Frame
  <2>4. frame' = [[frame EXCEPT !.at = "attr"] EXCEPT !.j = n] /\ "attr" \in Stages
    BY <1>2, <1>6 DEF Frame, Goto, Stages
  <2> HIDE DEF n
  <2>5. frame' \in Frame
    BY <1>2, <2>3, <2>4 DEF Frame
  <2>6. /\ frame'.at = "attr" /\ frame'.in = frame.in /\ frame'.i = frame.i
        /\ frame'.j = n /\ frame'.list = frame.list /\ frame'.data = frame.data
        /\ frame'.attribs = frame.attribs /\ frame'.attr = frame.attr
        /\ frame'.kwds = frame.kwds
    BY <1>2, <2>4 DEF Frame
  <2>7. FrameFits(frame')
    BY <1>1, <2>1, <2>3, <2>5, <2>6 DEF FrameFits, InStatus, InAttr, Status
  <2>8. FrameLeads(heap, frame')
    BY <1>1, <2>6 DEF FrameLeads
  <2> QED BY <1>1, <2>1, <2>7, <2>8, OnlyFrame, SamePrograms DEF StepFine
<1>7. CASE /\ At("next_attr") /\ frame.j = Len(Status.attribs)
           /\ heap' = Steal(Steal(heap, frame.data, "attribs", frame.attribs),
                            frame.list, frame.i, frame.data)
           /\ frame' = [Goto("next") EXCEPT !.j = 0, !.data = NULL, !.attribs = NULL]
           /\ UNCHANGED pending
  <2> DEFINE h == Steal(heap, frame.data, "attribs", frame.attribs)
  <2>1. frame.at = "next_attr" /\ UNCHANGED <<held, pending>>
    BY <1>7 DEF At
  <2>2. frame.data \in Pointers /\ frame.attribs \in Pointers
    BY <1>2 DEF Frame, Pointers
  <2>3. Points(heap, frame.data, "data") /\ Points(heap, frame.list, "list")
    BY <1>1 DEF FrameLeads
  <2>4. Good(h, NULL) /\ Keeps(heap, h)
    BY <1>1, <2>2, <2>3, StolenOther
  <2> HIDE DEF h
  <2>5. Points(h, frame.list, "list")
    BY <2>3, <2>4, KeepsIsA DEF Points
  <2>6. Good(heap', NULL) /\ Keeps(h, heap')
    BY <1>7, <2>2, <2>4, <2>5, StolenOther DEF h
  <2>7. Keeps(heap, heap')
    BY <2>4, <2>6, KeepsOn
  <2>8. FrameFits(frame')
    BY <1>1, <1>7, <2>1 DEF FrameFits, Frame, Stages, Goto, InStatus, InAttr
  <2>9. FrameLeads(heap', frame')
    <3>1. FrameLeads(heap', frame)
      BY <1>1, <2>7, LeadsKept
    <3> QED BY <1>2, <1>3, <1>7, <3>1 DEF FrameLeads, Points, Frame, Goto
  <2> QED BY <1>1, <2>1, <2>6, <2>7, <2>8, <2>9, SamePrograms DEF StepFine
<1> QED BY <1>4, <1>5, <1>6, <1>7 DEF attrl_to_py_list

(* set_dict_string: the dictionary has its own reference, or none.         *)
LEMMA DictStringSet ==
  ASSUME IInv, Sound, Settled, UNCHANGED held,
         frame.at \in {"key_name", "key_value", "key_resource"},
         NEW k, NEW s \in Text \cup {NULL},
         NEW next \in {"key_value", "key_resource", "init"},
         set_dict_string(k, s, next)
  PROVE  StepFine
<1>1. TypeOK /\ Good(heap, NULL) /\ FrameFits(frame) /\ FrameLeads(heap, frame)
  BY DEF IInv
<1>2. ASSUME Good(heap', NULL), Keeps(heap, heap'), NEW at, at = next \/ at = "attr_error",
             frame' = Goto(at), UNCHANGED pending \/ pending' = TRUE
      PROVE  StepFine
  <2>1. frame.at \in InAttr /\ frame.at \in InStatus /\ at \in InStatus /\ frame.attr \in Objs
    BY <1>1, <1>2 DEF InStatus, InAttr, FrameFits
  <2>2. FrameFits(frame') /\ FrameLeads(heap, frame')
    BY <1>1, <1>2, <2>1, StageFits
  <2>3. FrameLeads(heap', frame')
    BY <1>2, <2>2, LeadsKept
  <2> QED BY <1>1, <1>2, <2>2, <2>3, SamePrograms DEF StepFine
<1>3. CASE s # NULL /\ NoMemory(Goto("attr_error"))
  <2>1. UNCHANGED heap /\ pending' = TRUE /\ frame' = Goto("attr_error")
    BY <1>3 DEF NoMemory
  <2> QED BY <1>1, <1>2, <2>1, KeepsSame
<1> DEFINE v == IF s = NULL THEN None ELSE Fresh(heap)
           h == IF s = NULL THEN heap ELSE Make(heap, "str", <<>>, s)
<1>4. ASSUME s = NULL \/ Free(heap) # {}
      PROVE  /\ Good(h, NULL) /\ Keeps(heap, h) /\ v \in Pointers
             /\ v \in Objs => IsA(h, v, "str")
  <2>1. CASE s = NULL
    BY <1>1, <2>1, KeepsSame, AnswersAssumption DEF Pointers
  <2>2. CASE s # NULL
    <3>1. [kind |-> "str", refs |-> 1, ptr |-> <<>>, val |-> s] \in Object
      BY <2>2, NewTyped
    <3> QED BY <1>1, <1>4, <2>2, <3>1, Made DEF Pointers
  <2> QED BY <2>1, <2>2
<1>5. CASE /\ s = NULL \/ Free(heap) # {}
           /\ heap' = Py_DECREF(Steal(Py_INCREF(h, v), frame.kwds, k, v), v)
           /\ frame' = Goto(next) /\ UNCHANGED pending
  <2> HIDE DEF h, v
  <2> DEFINE h1 == Py_INCREF(h, v)
             h2 == Steal(h1, frame.kwds, k, v)
  <2>1. /\ Good(h, NULL) /\ Keeps(heap, h) /\ v \in Pointers
        /\ v \in Objs => IsA(h, v, "str")
    BY <1>4, <1>5
  <2>2. Good(h1, NULL) /\ Keeps(h, h1)
    BY <2>1, Increfed DEF IsA
  <2> HIDE DEF h1
  <2>3. Keeps(heap, h1)
    BY <2>1, <2>2, KeepsOn
  <2>4. Points(h1, frame.kwds, "dict")
    BY <1>1, <2>3, LeadsKept DEF FrameLeads
  <2>5. Good(h2, NULL) /\ Keeps(h1, h2)
    BY <2>1, <2>2, <2>4, StolenOther
  <2> HIDE DEF h2
  <2>6. Keeps(h, h2) /\ Keeps(heap, h2)
    BY <2>2, <2>3, <2>5, KeepsOn
  <2>7. v \in Objs => h2[v] # NULL
    BY <2>1, <2>6, KeepsIsA DEF IsA
  <2>8. Good(heap', NULL) /\ Keeps(h2, heap')
    BY <1>5, <2>5, <2>7, Decrefed DEF h1, h2
  <2>9. Keeps(heap, heap')
    BY <2>6, <2>8, KeepsOn
  <2> QED BY <1>2, <1>5, <2>8, <2>9
<1>6. CASE /\ s = NULL \/ Free(heap) # {}
           /\ heap' = Py_DECREF(h, v)
           /\ frame' = Goto("attr_error") /\ pending' = TRUE
  <2> HIDE DEF h, v
  <2>1. Good(h, NULL) /\ Keeps(heap, h) /\ (v \in Objs => h[v] # NULL)
    BY <1>4, <1>6 DEF IsA
  <2>2. Good(heap', NULL) /\ Keeps(h, heap')
    BY <1>6, <2>1, Decrefed
  <2>3. Keeps(heap, heap')
    BY <2>1, <2>2, KeepsOn
  <2> QED BY <1>2, <1>6, <2>2, <2>3
<1> QED BY <1>3, <1>5, <1>6 DEF set_dict_string

(* An Attr is made, and the dictionary of its arguments.                   *)
LEMMA StepAttrMade ==
  ASSUME IInv, Sound, At("attr"),
         NEW r \in attr__new(heap), NEW dict \in BOOLEAN, dict => Free(r.heap) # {},
         heap' = IF dict THEN Make(r.heap, "dict", [k \in Keys |-> NULL], NULL) ELSE r.heap,
         frame' = [frame EXCEPT
           !.attr = r.attr,
           !.kwds = IF dict THEN Fresh(r.heap) ELSE NULL,
           !.at = IF dict /\ r.attr # NULL THEN "key_name" ELSE "attr_error"],
         pending' = (pending \/ ~dict \/ r.attr = NULL)
  PROVE  StepFine
<1>1. TypeOK /\ Good(heap, NULL) /\ FrameFits(frame) /\ FrameLeads(heap, frame)
  BY DEF IInv
<1>2. frame \in Frame /\ frame.at = "attr" /\ UNCHANGED held
  BY <1>1 DEF FrameFits, At
<1>3. NULL \notin Objs
  BY AnswersAssumption
<1>4. /\ Good(r.heap, NULL) /\ Keeps(heap, r.heap)
      /\ r.attr \in Objs \cup {NULL}
      /\ r.attr # NULL => IsA(r.heap, r.attr, "attr")
  BY <1>1, AttrMade
<1> DEFINE kwds == IF dict THEN Fresh(r.heap) ELSE NULL
           at == IF dict /\ r.attr # NULL THEN "key_name" ELSE "attr_error"
<1>5. /\ Good(heap', NULL) /\ Keeps(r.heap, heap')
      /\ kwds \in Objs \cup {NULL} /\ (kwds # NULL => IsA(heap', kwds, "dict"))
  <2>1. CASE dict
    BY <1>4, <2>1, NewTyped, Made
  <2>2. CASE ~dict
    BY <1>4, <2>2, KeepsSame
  <2> QED BY <2>1, <2>2
<1>6. at \in Stages /\ at \in {"key_name", "attr_error"} /\ (at = "key_name" => r.attr # NULL)
  BY DEF Stages
<1>7. frame' = [frame EXCEPT !.attr = r.attr, !.kwds = kwds, !.at = at]
  OBVIOUS
<1> HIDE DEF kwds, at
<1>8. /\ frame'.at = at /\ frame'.in = frame.in /\ frame'.i = frame.i
      /\ frame'.j = frame.j /\ frame'.list = frame.list /\ frame'.data = frame.data
      /\ frame'.attribs = frame.attribs /\ frame'.attr = r.attr /\ frame'.kwds = kwds
      /\ frame' \in Frame
  BY <1>2, <1>4, <1>5, <1>6, <1>7 DEF Frame
<1>9. Keeps(heap, heap')
  BY <1>4, <1>5, KeepsOn
<1>10. FrameFits(frame')
  BY <1>1, <1>2, <1>4, <1>6, <1>8 DEF FrameFits, InStatus, InAttr
<1>11. FrameLeads(heap', frame')
  <2>1. FrameLeads(heap', frame)
    BY <1>1, <1>9, LeadsKept
  <2>2. Points(heap', r.attr, "attr") /\ Points(heap', kwds, "dict")
    BY <1>3, <1>4, <1>5, KeepsIsA DEF Points
  <2> QED BY <1>8, <2>1, <2>2 DEF FrameLeads
<1>12. pending' \in BOOLEAN
  BY Zenon
<1>13. held' \in [Objs -> Nat]
  BY <1>1, <1>2 DEF TypeOK
<1> QED BY <1>5, <1>9, <1>10, <1>11, <1>12, <1>13 DEF StepFine

(* Its __init__ is called with what attr__init reaches.                    *)
LEMMA StepAttrInit ==
  ASSUME IInv, Sound, Settled, At("init"), NEW k \in 0..3,
         NEW name, NEW value, NEW rscn,
         NEW r \in attr__init(heap, frame.attr, name, value, rscn, NULL),
         heap' = IF k = 3 THEN Steal(Py_DECREF(r.heap, frame.kwds),
                                     frame.attribs, frame.j, frame.attr)
                 ELSE r.heap,
         frame' = IF k = 3 THEN [Goto("next_attr") EXCEPT !.attr = NULL, !.kwds = NULL]
                  ELSE Goto("attr_error"),
         pending' = (pending \/ k # 3)
  PROVE  StepFine
<1>1. TypeOK /\ Good(heap, NULL) /\ FrameFits(frame) /\ FrameLeads(heap, frame)
  BY DEF IInv
<1>2. frame \in Frame /\ frame.at = "init" /\ UNCHANGED held
  BY <1>1 DEF FrameFits, At
<1>3. frame.attr \in Objs /\ IsA(heap, frame.attr, "attr") /\ heap[frame.attr].refs > 0
  BY <1>1, <1>2 DEF FrameFits, FrameLeads, Points, Settled, IsA
<1>4. Good(r.heap, NULL) /\ Keeps(heap, r.heap)
  BY <1>1, <1>3, AttrInit DEF Kept
<1>5. NULL \notin Objs
  BY AnswersAssumption
<1>6. FrameLeads(r.heap, frame)
  BY <1>1, <1>4, LeadsKept
<1>7. held' \in [Objs -> Nat]
  BY <1>1, <1>2 DEF TypeOK
<1>8. pending' \in BOOLEAN
  BY Zenon
<1>9. CASE k = 3
  <2> DEFINE h == Py_DECREF(r.heap, frame.kwds)
  <2>1. frame.kwds \in Objs => r.heap[frame.kwds] # NULL
    BY <1>6 DEF FrameLeads, Points, IsA
  <2>2. Good(h, NULL) /\ Keeps(r.heap, h)
    BY <1>4, <2>1, Decrefed
  <2>3. heap' = Steal(h, frame.attribs, frame.j, frame.attr)
    BY <1>9
  <2>4. frame' = [Goto("next_attr") EXCEPT !.attr = NULL, !.kwds = NULL]
    BY <1>9
  <2> HIDE DEF h
  <2>5. Points(h, frame.attribs, "list") /\ frame.attr \in Pointers
    BY <1>3, <1>6, <2>2, KeepsIsA DEF FrameLeads, Points, Pointers
  <2>6. Good(heap', NULL) /\ Keeps(h, heap')
    BY <2>2, <2>3, <2>5, StolenOther
  <2>7. Keeps(heap, heap')
    BY <1>4, <2>2, <2>6, KeepsOn
  <2>8. FrameFits(frame')
    BY <1>1, <1>2, <2>4 DEF FrameFits, Frame, Stages, Goto, InStatus, InAttr
  <2>9. FrameLeads(heap', frame')
    <3>1. FrameLeads(heap', frame)
      BY <1>1, <2>7, LeadsKept
    <3> QED BY <1>2, <1>5, <2>4, <3>1 DEF FrameLeads, Points, Frame, Goto
  <2> QED BY <1>7, <1>8, <2>6, <2>7, <2>8, <2>9 DEF StepFine
<1>10. CASE k # 3
  <2>1. heap' = r.heap /\ frame' = Goto("attr_error")
    BY <1>10
  <2>2. FrameFits(frame') /\ FrameLeads(r.heap, frame')
    BY <1>1, <1>2, <1>3, <1>6, <2>1, StageFits DEF InStatus, InAttr
  <2> QED BY <1>4, <1>7, <1>8, <2>1, <2>2 DEF StepFine
<1> QED BY <1>9, <1>10

(* PBSAttr_New: the Attr, its arguments, __init__, and the error exit.     *)
LEMMA StepAttr ==
  ASSUME IInv, Sound, Settled, PBSAttr_New PROVE StepFine
<1>1. TypeOK /\ Good(heap, NULL) /\ FrameFits(frame) /\ FrameLeads(heap, frame)
  BY DEF IInv
<1>2. frame \in Frame
  BY <1>1 DEF FrameFits
<1>3. CASE
    /\ At("attr")
    /\ \E r \in attr__new(heap), dict \in BOOLEAN :
         /\ dict => Free(r.heap) # {}
         /\ heap' = IF dict
                      THEN Make(r.heap, "dict", [k \in Keys |-> NULL], NULL)
                      ELSE r.heap
         /\ frame' = [frame EXCEPT
              !.attr = r.attr,
              !.kwds = IF dict THEN Fresh(r.heap) ELSE NULL,
              !.at = IF dict /\ r.attr # NULL THEN "key_name" ELSE "attr_error"]
         /\ pending' = (pending \/ ~dict \/ r.attr = NULL)
  BY <1>3, StepAttrMade
<1>4. CASE At("key_name") /\ set_dict_string("name", Attrl.name, "key_value")
  <2>1. UNCHANGED held /\ frame.at = "key_name" /\ frame.at \in InAttr
    BY <1>4 DEF At, InAttr
  <2> QED BY <1>1, <1>4, <2>1, AttrlTyped, DictStringSet
<1>5. CASE At("key_value") /\ set_dict_string("value", Attrl.value, "key_resource")
  <2>1. UNCHANGED held /\ frame.at = "key_value" /\ frame.at \in InAttr
    BY <1>5 DEF At, InAttr
  <2> QED BY <1>1, <1>5, <2>1, AttrlTyped, DictStringSet
<1>6. CASE At("key_resource") /\ set_dict_string("resource", Attrl.resource, "init")
  <2>1. UNCHANGED held /\ frame.at = "key_resource" /\ frame.at \in InAttr
    BY <1>6 DEF At, InAttr
  <2> QED BY <1>1, <1>6, <2>1, AttrlTyped, DictStringSet
<1>7. CASE
    /\ At("init")
    /\ \E k \in 0..3 :
       \E r \in attr__init(heap, frame.attr, Reached(k, "name"), Reached(k - 1, "value"),
                           Reached(k - 2, "resource"), NULL) :
         /\ heap' = IF k = 3 THEN Steal(Py_DECREF(r.heap, frame.kwds),
                                        frame.attribs, frame.j, frame.attr)
                    ELSE r.heap
         /\ frame' = IF k = 3 THEN [Goto("next_attr") EXCEPT !.attr = NULL, !.kwds = NULL]
                     ELSE Goto("attr_error")
         /\ pending' = (pending \/ k # 3)
  BY <1>7, StepAttrInit
<1>8. CASE
    /\ At("attr_error")
    /\ heap' = Py_DECREF(Py_DECREF(heap, frame.kwds), frame.attr)
    /\ frame' = [Goto("next_attr") EXCEPT !.attr = NULL, !.kwds = NULL]
    /\ UNCHANGED pending
  <2> DEFINE h == Py_DECREF(heap, frame.kwds)
  <2>1. frame.at = "attr_error" /\ UNCHANGED <<held, pending>>
    BY <1>8 DEF At
  <2>2. Good(h, NULL) /\ Keeps(heap, h)
    BY <1>1, Decrefed DEF FrameLeads, Points, IsA
  <2> HIDE DEF h
  <2>3. FrameLeads(h, frame)
    BY <1>1, <2>2, LeadsKept
  <2>4. Good(heap', NULL) /\ Keeps(h, heap')
    BY <1>8, <2>2, <2>3, Decrefed DEF h, FrameLeads, Points, IsA
  <2>5. Keeps(heap, heap')
    BY <2>2, <2>4, KeepsOn
  <2>6. FrameFits(frame')
    BY <1>1, <1>8, <2>1 DEF FrameFits, Frame, Stages, Goto, InStatus, InAttr
  <2>7. FrameLeads(heap', frame')
    <3>1. FrameLeads(heap', frame) /\ NULL \notin Objs
      BY <1>1, <2>5, LeadsKept, AnswersAssumption
    <3> QED BY <1>2, <1>8, <3>1 DEF FrameLeads, Points, Frame, Goto
  <2> QED BY <1>1, <2>1, <2>4, <2>5, <2>6, <2>7, SamePrograms DEF StepFine
<1> QED BY <1>3, <1>4, <1>5, <1>6, <1>7, <1>8 DEF PBSAttr_New

(* A heap in which list l has one item more.                               *)
Extend(h, l, p) == [h EXCEPT ![l].ptr = Append(@, p)]

(* A list gets one item more.                                              *)
LEMMA Appended ==
  ASSUME NEW h, Good(h, NULL), NEW l, Points(h, l, "list"), NEW p \in Pointers
  PROVE  Good(Extend(h, l, p), NULL) /\ Keeps(h, Extend(h, l, p))
<1> DEFINE g == [h EXCEPT ![l].ptr = Append(@, p)]
           ptr == Append(h[l].ptr, p)
           y == [h[l] EXCEPT !.ptr = ptr]
<1>1. h \in Heaps /\ g = Extend(h, l, p)
  BY DEF Good, Extend
<1>2. CASE l \notin Objs
  <2>1. g = h
    BY <1>1, <1>2 DEF Heaps
  <2> HIDE DEF g
  <2> QED BY <1>1, <2>1, KeepsSame
<1>3. CASE l \in Objs
  <2>1. h[l] # NULL /\ h[l].kind = "list" /\ h[l] \in Object
    BY <1>1, <1>3 DEF Points, IsA, Heaps
  <2>2. h[l].ptr \in Seq(Pointers)
    BY <2>1, ObjectParts
  <2>3. ptr \in Seq(Pointers)
    BY <2>2
  <2>4. g[l] = y /\ \A q \in Objs \ {l} : g[q] = h[q]
    BY <1>1, <1>3 DEF Heaps
  <2>5. y \in Object /\ y.kind = "list"
    <3> HIDE DEF ptr
    <3> QED BY <2>1, <2>3 DEF Object
  <2> HIDE DEF y
  <2>6. g \in Heaps
    BY <1>1, <1>3, <2>4, <2>5 DEF Heaps
  <2> HIDE DEF g
  <2>7. g[l] # NULL
    BY <2>4, <2>5, AnswersAssumption
  <2>8. /\ \A q \in Objs : h[q] # NULL =>
             /\ g[q] # NULL /\ g[q].kind = h[q].kind
             /\ h[q].kind = "attr" /\ q # NULL /\ g[q].refs > 0 =>
                  g[q].ptr = h[q].ptr /\ h[q].refs > 0
        /\ \A q \in Objs : h[q] = NULL /\ q # NULL => ~IsA(g, q, "attr")
    BY <1>3, <2>1, <2>4, <2>5, <2>7 DEF IsA
  <2> QED BY <1>1, <2>6, <2>8, SameAttrs
<1> QED BY <1>2, <1>3

(* argv_to_sequence: the list, and one string after the other.             *)
LEMMA StepStrings ==
  ASSUME IInv, Sound, argv_to_sequence PROVE StepFine
<1>1. TypeOK /\ Good(heap, NULL) /\ FrameFits(frame) /\ FrameLeads(heap, frame)
  BY DEF IInv
<1>2. frame \in Frame
  BY <1>1 DEF FrameFits
<1>3. CASE At("argv") /\ Allocates("list", <<>>, [Goto("append") EXCEPT !.list = Fresh(heap)])
  <2>1. frame.at = "argv" /\ UNCHANGED <<held, pending>>
    BY <1>3 DEF At, Allocates
  <2>2. [kind |-> "list", refs |-> 1, ptr |-> <<>>, val |-> NULL] \in Object
    BY DEF Object
  <2>3. /\ Good(heap', NULL) /\ Keeps(heap, heap')
        /\ Fresh(heap) \in Objs /\ IsA(heap', Fresh(heap), "list")
        /\ frame' = [Goto("append") EXCEPT !.list = Fresh(heap)]
    BY <1>1, <1>3, <2>2, Allocated
  <2>4. FrameFits(frame')
    BY <1>1, <2>1, <2>3 DEF FrameFits, Frame, Stages, Goto, InStatus, InAttr
  <2>5. FrameLeads(heap', frame')
    <3>1. FrameLeads(heap', frame)
      BY <1>1, <2>3, LeadsKept
    <3> QED BY <1>2, <2>3, <3>1 DEF FrameLeads, Points, Frame, Goto
  <2> QED BY <1>1, <2>1, <2>3, <2>4, <2>5, SamePrograms DEF StepFine
<1>4. CASE At("argv") /\ Fails /\ UNCHANGED heap
  <2>1. UNCHANGED <<held, heap>> /\ frame' = Idle /\ pending' = FALSE
    BY <1>4 DEF At, Fails
  <2> QED BY <1>1, <2>1, BackToIdle, SamePrograms DEF StepFine
<1> DEFINE s == frame.in[frame.i + 1]
           h == Make(heap, "str", <<>>, s)
<1>5. CASE /\ At("append") /\ frame.i < Len(frame.in) /\ Free(heap) # {}
           /\ \/ /\ heap' = [h EXCEPT ![frame.list].ptr = Append(@, Fresh(heap))]
                 /\ UNCHANGED pending
              \/ heap' = Py_DECREF(h, Fresh(heap)) /\ pending' = TRUE
           /\ frame' = [frame EXCEPT !.i = @ + 1]
  <2> DEFINE n == frame.i + 1
  <2>1. frame.at = "append" /\ UNCHANGED held
    BY <1>5 DEF At
  <2>2. s \in Text /\ n \in Nat
    BY <1>1, <1>2, <1>5, <2>1 DEF FrameFits, Frame
  <2>3. [kind |-> "str", refs |-> 1, ptr |-> <<>>, val |-> s] \in Object
    BY <2>2, NewTyped
  <2>4. /\ Good(h, NULL) /\ Keeps(heap, h) /\ Fresh(heap) \in Objs
        /\ IsA(h, Fresh(heap), "str")
    BY <1>1, <1>5, <2>3, Made
  <2>5. frame' = [frame EXCEPT !.i = n]
    BY <1>5
  <2> HIDE DEF h, n
  <2>6. Points(h, frame.list, "list") /\ Fresh(heap) \in Pointers
    BY <1>1, <2>4, LeadsKept DEF FrameLeads, Pointers
  <2>7. Good(heap', NULL) /\ Keeps(h, heap')
    <3>1. CASE heap' = [h EXCEPT ![frame.list].ptr = Append(@, Fresh(heap))]
      <4>1. heap' = Extend(h, frame.list, Fresh(heap))
        BY <3>1 DEF Extend
      <4> QED BY <2>4, <2>6, <4>1, Appended
    <3>2. CASE heap' = Py_DECREF(h, Fresh(heap))
      BY <2>4, <3>2, Decrefed DEF IsA
    <3> QED BY <1>5, <3>1, <3>2
  <2>8. Keeps(heap, heap')
    BY <2>4, <2>7, KeepsOn
  <2>9. FrameFits(frame')
    BY <1>1, <2>1, <2>2, <2>5 DEF FrameFits, Frame, InStatus, InAttr
  <2>10. FrameLeads(heap', frame')
    <3>1. FrameLeads(heap', frame)
      BY <1>1, <2>8, LeadsKept
    <3> QED BY <1>2, <2>5, <3>1 DEF FrameLeads, Frame
  <2>11. UNCHANGED pending \/ pending' = TRUE
    BY <1>5
  <2> QED BY <1>1, <2>1, <2>7, <2>8, <2>9, <2>10, <2>11, SamePrograms DEF StepFine
<1>6. CASE /\ At("append") /\ heap' = Py_DECREF(heap, frame.list)
           /\ frame' = Idle /\ pending' = FALSE
  <2>1. UNCHANGED held
    BY <1>6 DEF At
  <2>2. Good(heap', NULL) /\ Keeps(heap, heap')
    BY <1>1, <1>6, Decrefed DEF FrameLeads, Points, IsA
  <2>3. FrameFits(frame') /\ FrameLeads(heap', frame')
    BY <1>6, IdleFits
  <2> QED BY <1>1, <1>6, <2>1, <2>2, <2>3, SamePrograms DEF StepFine
<1>7. CASE Returns
  BY <1>1, <1>7, Returned
<1> QED BY <1>3, <1>4, <1>5, <1>6, <1>7 DEF argv_to_sequence, Fails

(* A method has its answer.                                                *)
LEMMA StepRequest ==
  ASSUME IInv, Sound,
         \/ \E in \in Statuses : Request(in, "list")
         \/ \E in \in Jobs : Request(in, "argv")
  PROVE  StepFine
<1>1. TypeOK /\ Good(heap, NULL) /\ FrameLeads(heap, frame)
  BY DEF IInv
<1>2. PICK in \in Statuses \cup Jobs, at \in {"list", "argv"} :
        /\ at = "list" => in \in Statuses
        /\ at = "argv" => in \in Jobs
        /\ Request(in, at)
  OBVIOUS
<1>3. frame' = [Idle EXCEPT !.in = in, !.at = at] /\ UNCHANGED <<heap, held, pending>>
  BY <1>2 DEF Request
<1>4. in \in Seq(BatchStatus) \/ at # "list"
  BY <1>2, AnswersAssumption
<1>5. in \in Seq(Text) \/ at # "argv"
  BY <1>2, AnswersAssumption
<1>6. FrameFits(frame')
  BY <1>2, <1>3, <1>4, <1>5 DEF FrameFits, Frame, Stages, Idle, InStatus, InAttr
<1>7. FrameLeads(heap, frame')
  BY <1>3, AnswersAssumption DEF FrameLeads, Points, Idle
<1> QED BY <1>1, <1>3, <1>6, <1>7, OnlyFrame, SamePrograms DEF StepFine

(* Every step of a conversion is fine.                                     *)
LEMMA StepConvert ==
  ASSUME IInv, Sound, Settled, Convert PROVE StepFine
BY StepRequest, StepStatuses, StepData, StepAttrList, StepAttr, StepStrings DEF Convert

-------------------------------------------------------------------------------
(* The steps of a program.                                                 *)

(* What the program does leaves the conversion alone.                      *)
LEMMA ProgramFine ==
  ASSUME IInv, Sound, Good(heap', NULL), Keeps(heap, heap'), UNCHANGED frame,
         held' \in [Objs -> Nat], pending' \in BOOLEAN
  PROVE  StepFine
<1>1. FrameFits(frame) /\ FrameLeads(heap, frame)
  BY DEF IInv
<1>2. FrameLeads(heap', frame)
  BY <1>1, LeadsKept
<1> QED BY <1>1, <1>2 DEF StepFine

(* The program gets a reference.                                           *)
LEMMA Taken ==
  ASSUME TypeOK, NEW h, NEW p, Takes(h, p)
  PROVE  heap' = h /\ held' \in [Objs -> Nat] /\ pending' \in BOOLEAN
<1>1. held \in [Objs -> Nat] /\ held' = [held EXCEPT ![p] = @ + 1]
  BY DEF Takes, TypeOK
<1>2. \A q \in Objs : held'[q] \in Nat
  BY <1>1
<1>3. held' \in [Objs -> Nat]
  BY <1>1, <1>2
<1>4. pending' \in BOOLEAN
  <2>1. pending' = pending /\ pending \in BOOLEAN
    BY DEF Takes, TypeOK
  <2> QED BY <2>1, Zenon
<1> QED BY <1>3, <1>4 DEF Takes

(* A method is done.                                                       *)
LEMMA Ended ==
  ASSUME TypeOK, NEW results, Ends(results)
  PROVE  /\ held' \in [Objs -> Nat] /\ pending' \in BOOLEAN
         /\ \E r \in results : heap' = r.heap
<1>1. PICK r \in results : heap' = r.heap /\ pending' = (pending /\ r.ok)
  BY DEF Ends
<1>2. pending' \in BOOLEAN
  BY <1>1, Zenon
<1>3. held' \in [Objs -> Nat]
  BY DEF Ends, TypeOK
<1> QED BY <1>1, <1>2, <1>3

(* An object is made that is no Attr.                                      *)
LEMMA StepNewObject ==
  ASSUME IInv, Sound, NEW kind, NEW ptr, NEW val, NewObject(kind, ptr, val),
         kind # "attr", [kind |-> kind, refs |-> 1, ptr |-> ptr, val |-> val] \in Object
  PROVE  StepFine
<1>1. TypeOK /\ Good(heap, NULL)
  BY DEF IInv
<1>2. Free(heap) # {} /\ UNCHANGED frame /\ Takes(Make(heap, kind, ptr, val), Fresh(heap))
  BY DEF NewObject, Makes, Ready
<1>3. heap' = Make(heap, kind, ptr, val) /\ held' \in [Objs -> Nat] /\ pending' \in BOOLEAN
  BY <1>1, <1>2, Taken
<1>4. Good(heap', NULL) /\ Keeps(heap, heap')
  BY <1>1, <1>2, <1>3, Made
<1> QED BY <1>2, <1>3, <1>4, ProgramFine

(* Objects that the program makes.                                         *)
LEMMA StepNew ==
  ASSUME IInv, Sound,
         bs__new \/ batchop__new \/ Attr_new \/ \E s \in Str : string_new(s)
  PROVE  StepFine
<1>1. CASE bs__new
  BY <1>1, NewTyped, StepNewObject DEF bs__new
<1>2. CASE batchop__new
  <2>1. BATCHOP_ARRAY_END \in 1..BATCHOP_ARRAY_END
    <3>1. Len(OpNames) \in Nat
      BY AnswersAssumption
    <3> QED BY <3>1 DEF BATCHOP_ARRAY_END
  <2> DEFINE end == BATCHOP_ARRAY_END
  <2> HIDE DEF end
  <2>2. [kind |-> "bop", refs |-> 1, ptr |-> <<>>, val |-> end] \in Object
    BY <2>1 DEF Object, end
  <2>3. NewObject("bop", <<>>, end)
    BY <1>2 DEF batchop__new, end
  <2> QED BY <2>2, <2>3, StepNewObject
<1>3. CASE \E s \in Str : string_new(s)
  <2>1. PICK s \in Str : NewObject("str", <<>>, s)
    BY <1>3 DEF string_new
  <2>2. s \in Text
    BY DEF Text
  <2> QED BY <2>1, <2>2, NewTyped, StepNewObject
<1>4. CASE Attr_new
  <2>1. PICK r \in attr__new(heap) :
          \/ r.attr # NULL /\ Takes(r.heap, r.attr)
          \/ r.attr = NULL /\ heap' = r.heap /\ pending' = FALSE /\ UNCHANGED held
    BY <1>4 DEF Attr_new
  <2>2. UNCHANGED frame
    BY <1>4 DEF Attr_new, Makes, Ready
  <2>3. heap' = r.heap /\ held' \in [Objs -> Nat] /\ pending' \in BOOLEAN
    <3>1. CASE Takes(r.heap, r.attr)
      BY <3>1, Taken DEF IInv
    <3>2. CASE heap' = r.heap /\ pending' = FALSE /\ UNCHANGED held
      BY <3>2, SamePrograms DEF IInv
    <3> QED BY <2>1, <3>1, <3>2
  <2>4. Good(heap', NULL) /\ Keeps(heap, heap')
    BY <2>3, AttrMade DEF IInv
  <2> QED BY <2>2, <2>3, <2>4, ProgramFine
<1> QED BY <1>1, <1>2, <1>3, <1>4

(* A Data borrows an argument, or refuses it.                              *)
LEMMA Borrowed ==
  ASSUME NEW d, IsA(heap, d, "data"),
         NEW r \in Results, Good(r.heap, NULL), Keeps(heap, r.heap),
         NEW f, NEW v, NEW kind
  PROVE  LET s == Borrow(r, d, f, v, kind) IN
         s \in Results /\ Good(s.heap, NULL) /\ Keeps(heap, s.heap)
<1> DEFINE s == Borrow(r, d, f, v, kind)
<1>1. CASE ~r.ok \/ v = NULL
  BY <1>1 DEF Borrow
<1>2. CASE ~(~r.ok \/ v = NULL) /\ IsA(heap, v, kind)
  <2> DEFINE g == Steal(r.heap, d, f, v)
  <2>1. Points(r.heap, d, "data") /\ v \in Pointers
    BY <1>2, KeepsIsA DEF Points, Pointers, IsA
  <2>2. Good(g, NULL) /\ Keeps(r.heap, g)
    BY <2>1, StolenOther
  <2>3. s = [r EXCEPT !.heap = g]
    BY <1>2 DEF Borrow
  <2> HIDE DEF g, s
  <2>4. s \in Results /\ s.heap = g
    BY <2>2, <2>3 DEF Results, Good
  <2>5. Keeps(heap, g)
    BY <2>2, KeepsOn
  <2> QED BY <2>2, <2>4, <2>5 DEF s
<1>3. CASE ~(~r.ok \/ v = NULL) /\ ~IsA(heap, v, kind)
  <2>1. s = [r EXCEPT !.ok = FALSE]
    BY <1>3 DEF Borrow
  <2> HIDE DEF s
  <2>2. s \in Results /\ s.heap = r.heap
    BY <2>1 DEF Results
  <2> QED BY <2>2 DEF s
<1> QED BY <1>1, <1>2, <1>3

(* __init__ of a Data lets it borrow up to three arguments.                *)
LEMMA StepDataInit ==
  ASSUME IInv, Sound, NEW d, NEW name, NEW text, NEW attribs,
         bs__init(d, name, text, attribs)
  PROVE  StepFine
<1>1. TypeOK /\ Good(heap, NULL)
  BY DEF IInv
<1> DEFINE r0 == [heap |-> heap, ok |-> TRUE]
           r1 == Borrow(r0, d, "name", name, "str")
           r2 == Borrow(r1, d, "text", text, "str")
           r3 == Borrow(r2, d, "attribs", attribs, "list")
<1>2. IsA(heap, d, "data") /\ UNCHANGED frame /\ Ends({r3})
  BY DEF bs__init, Is, Ready
<1>3. r0 \in Results /\ Good(r0.heap, NULL) /\ Keeps(heap, r0.heap)
  BY <1>1, KeepsSame DEF Results, Good
<1> HIDE DEF r0
<1>4. r1 \in Results /\ Good(r1.heap, NULL) /\ Keeps(heap, r1.heap)
  BY <1>2, <1>3, Borrowed
<1> HIDE DEF r1
<1>5. r2 \in Results /\ Good(r2.heap, NULL) /\ Keeps(heap, r2.heap)
  BY <1>2, <1>4, Borrowed
<1> HIDE DEF r2
<1>6. r3 \in Results /\ Good(r3.heap, NULL) /\ Keeps(heap, r3.heap)
  BY <1>2, <1>5, Borrowed
<1> HIDE DEF r3
<1>7. heap' = r3.heap /\ held' \in [Objs -> Nat] /\ pending' \in BOOLEAN
  BY <1>1, <1>2, Ended
<1> QED BY <1>2, <1>6, <1>7, ProgramFine

(* A getter, or an item of a list.                                         *)
LEMMA StepGet ==
  ASSUME IInv, Sound, Settled, NEW o \in Objs, heap[o] # NULL,
         NEW f \in DOMAIN heap[o].ptr, Get(o, f)
  PROVE  StepFine
<1> DEFINE p == heap[o].ptr[f]
<1>1. TypeOK /\ Good(heap, NULL)
  BY DEF IInv
<1>2. p \in Objs /\ UNCHANGED frame /\ Takes(Py_INCREF(heap, p), p)
  BY DEF Get, Ready
<1>3. heap[p] # NULL /\ heap[p].refs > 0
  BY <1>2, Live DEF Settled
<1> HIDE DEF p
<1>4. Good(Py_INCREF(heap, p), NULL) /\ Keeps(heap, Py_INCREF(heap, p))
  BY <1>1, <1>3, Increfed
<1>5. heap' = Py_INCREF(heap, p) /\ held' \in [Objs -> Nat] /\ pending' \in BOOLEAN
  BY <1>1, <1>2, Taken
<1> QED BY <1>2, <1>4, <1>5, ProgramFine

(* The getters, and the items of a list, find objects that are there.      *)
LEMMA StepGetters ==
  ASSUME IInv, Sound, Settled, NEW o,
         bs_get(o) \/ attr_get_str(o) \/ attr_get_bop(o) \/ list_item(o)
  PROVE  StepFine
<1>1. o \in Objs /\ heap[o] # NULL /\ heap[o] \in Object
  BY DEF IInv, Good, Heaps, bs_get, attr_get_str, attr_get_bop, list_item, Is, IsA
<1>2. CASE bs_get(o)
  <2>1. heap[o].ptr \in [DataFields -> Pointers]
    BY <1>1, <1>2, ObjectParts DEF bs_get, Is, IsA
  <2> QED BY <1>1, <1>2, <2>1, StepGet DEF bs_get
<1>3. CASE attr_get_str(o) \/ attr_get_bop(o)
  <2>1. heap[o].ptr \in [AttrFields -> Pointers] /\ "bop" \in AttrFields
    BY <1>1, <1>3, ObjectParts DEF attr_get_str, attr_get_bop, Is, IsA, AttrFields
  <2> QED BY <1>1, <1>3, <2>1, StepGet DEF attr_get_str, attr_get_bop
<1>4. CASE list_item(o)
  BY <1>1, <1>4, StepGet DEF list_item
<1> QED BY <1>2, <1>3, <1>4

(* A setter or the __init__ of an Attr.                                    *)
LEMMA StepAttrSet ==
  ASSUME IInv, Sound, NEW a, UNCHANGED frame,
         NEW results, Ends(results), \A r \in results : Kept(heap, a, r)
  PROVE  StepFine
<1>1. TypeOK
  BY DEF IInv
<1>2. /\ held' \in [Objs -> Nat] /\ pending' \in BOOLEAN
      /\ \E r \in results : heap' = r.heap
  BY <1>1, Ended
<1>3. Good(heap', NULL) /\ Keeps(heap, heap')
  BY <1>2 DEF Kept
<1> QED BY <1>2, <1>3, ProgramFine

(* The setters of an Attr, and its __init__.                               *)
LEMMA StepAttrSetters ==
  ASSUME IInv, Sound, Settled, NEW a,
         \/ \E v : \E f \in AttrFields \ {"bop"} : attr_set_str(a, f, v)
         \/ \E v : attr_set_bop(a, v)
         \/ \E name, value, rscn, bop : Attr_init(a, name, value, rscn, bop)
  PROVE  StepFine
<1> DEFINE r0 == [heap |-> heap, ok |-> TRUE]
<1>1. Good(heap, NULL)
  BY DEF IInv
<1>2. Is(a, "attr") /\ UNCHANGED frame
  BY DEF attr_set_str, attr_set_bop, Attr_init, Ready
<1>3. IsA(heap, a, "attr") /\ heap[a].refs > 0
  BY <1>2 DEF Is, IsA, Settled
<1>4. Kept(heap, a, r0)
  BY <1>1, <1>3, KeepsSame DEF Kept, Results, Good
<1>5. CASE \E v : \E f \in AttrFields \ {"bop"} : attr_set_str(a, f, v)
  <2>1. PICK v : \E f \in AttrFields \ {"bop"} : attr_set_str(a, f, v)
    BY <1>5
  <2>2. PICK f \in AttrFields \ {"bop"} : attr_set_str(a, f, v)
    BY <2>1
  <2>3. Ends(convert_to_string(r0, a, f, v))
    BY <2>2 DEF attr_set_str
  <2> HIDE DEF r0
  <2>4. \A r \in convert_to_string(r0, a, f, v) : Kept(heap, a, r)
    BY <1>4, StringConverted
  <2> QED BY <1>2, <2>3, <2>4, StepAttrSet
<1>6. CASE \E v : attr_set_bop(a, v)
  <2>1. PICK v : Ends(convert_to_batchop(r0, a, v))
    BY <1>6 DEF attr_set_bop
  <2> HIDE DEF r0
  <2>2. \A r \in convert_to_batchop(r0, a, v) : Kept(heap, a, r)
    BY <1>4, BatchopConverted
  <2> QED BY <1>2, <2>1, <2>2, StepAttrSet
<1>7. CASE \E name, value, rscn, bop : Attr_init(a, name, value, rscn, bop)
  <2>1. PICK name, value, rscn, bop : Ends(attr__init(heap, a, name, value, rscn, bop))
    BY <1>7 DEF Attr_init
  <2>2. \A r \in attr__init(heap, a, name, value, rscn, bop) : Kept(heap, a, r)
    BY <1>1, <1>3, AttrInit
  <2> QED BY <1>2, <2>1, <2>2, StepAttrSet
<1> QED BY <1>5, <1>6, <1>7

(* An operator gets another name, of the table.                            *)
LEMMA Renamed ==
  ASSUME NEW h, Good(h, NULL), NEW b, IsA(h, b, "bop"), NEW i \in 1..BATCHOP_ARRAY_END,
         NEW g, g = [h EXCEPT ![b].val = i]
  PROVE  Good(g, NULL) /\ Keeps(h, g)
<1> DEFINE y == [h[b] EXCEPT !.val = i]
<1>1. h \in Heaps /\ b \in Objs /\ h[b] \in Object /\ h[b].kind = "bop"
  BY DEF Good, Heaps, IsA
<1>2. g[b] = y /\ \A q \in Objs \ {b} : g[q] = h[q]
  BY <1>1 DEF Heaps
<1>3. y \in Object /\ y.kind = "bop"
  BY <1>1 DEF Object
<1>4. y # NULL
  BY <1>3, AnswersAssumption
<1> HIDE DEF y
<1>5. g \in Heaps
  BY <1>1, <1>2, <1>3 DEF Heaps
<1>6. /\ \A q \in Objs : h[q] # NULL =>
           /\ g[q] # NULL /\ g[q].kind = h[q].kind
           /\ h[q].kind = "attr" /\ q # NULL /\ g[q].refs > 0 =>
                g[q].ptr = h[q].ptr /\ h[q].refs > 0
      /\ \A q \in Objs : h[q] = NULL /\ q # NULL => ~IsA(g, q, "attr")
  <2>1. h[b] # NULL
    BY DEF IsA
  <2> QED BY <1>1, <1>2, <1>3, <1>4, <2>1 DEF IsA
<1> QED BY <1>5, <1>6, SameAttrs

(* The operator is set to a row of the table, or refused.                  *)
LEMMA StepSetOp ==
  ASSUME IInv, Sound, NEW b, NEW v, bop_set_op(b, v)
  PROVE  StepFine
<1> DEFINE i == IF IsString(heap, v) THEN batchop_index(heap[v].val) ELSE 0
<1>1. TypeOK /\ Good(heap, NULL)
  BY DEF IInv
<1>2. /\ UNCHANGED frame /\ IsA(heap, b, "bop")
      /\ Ends({IF i = 0 THEN [heap |-> heap, ok |-> FALSE]
               ELSE [heap |-> [heap EXCEPT ![b].val = i], ok |-> TRUE]})
  BY DEF bop_set_op, Is, Ready
<1>3. i # 0 => i \in 1..BATCHOP_ARRAY_END
  BY IndexInTable
<1> HIDE DEF i
<1>4. /\ held' \in [Objs -> Nat] /\ pending' \in BOOLEAN
      /\ heap' = IF i = 0 THEN heap ELSE [heap EXCEPT ![b].val = i]
  BY <1>1, <1>2, Ended
<1>5. Good(heap', NULL) /\ Keeps(heap, heap')
  <2>1. CASE i = 0
    BY <1>1, <1>4, <2>1, KeepsSame
  <2>2. CASE i # 0
    <3>1. heap' = [heap EXCEPT ![b].val = i]
      BY <1>4, <2>2
    <3> QED BY <1>1, <1>2, <1>3, <2>2, <3>1, Renamed
  <2> QED BY <2>1, <2>2
<1> QED BY <1>2, <1>4, <1>5, ProgramFine

(* A reference that the program had is given up.                           *)
LEMMA StepDrop ==
  ASSUME IInv, Sound, NEW o, Drop(o)
  PROVE  StepFine
<1>1. TypeOK /\ Good(heap, NULL)
  BY DEF IInv
<1>2. /\ o \in Objs /\ held[o] > 0 /\ UNCHANGED frame
      /\ heap' = Py_DECREF(heap, o) /\ held' = [held EXCEPT ![o] = @ - 1]
      /\ UNCHANGED pending
  BY DEF Drop, Held, Ready
<1>3. Good(heap', NULL) /\ Keeps(heap, heap')
  BY <1>1, <1>2, Live, Decrefed
<1>4. held' \in [Objs -> Nat]
  <2>1. held \in [Objs -> Nat]
    BY <1>1 DEF TypeOK
  <2>2. \A q \in Objs : held'[q] \in Nat
    BY <1>2, <2>1
  <2> QED BY <1>2, <2>1, <2>2
<1>5. pending' \in BOOLEAN
  <2>1. pending' = pending /\ pending \in BOOLEAN
    BY <1>1, <1>2 DEF TypeOK
  <2> QED BY <2>1, Zenon
<1> QED BY <1>2, <1>3, <1>4, <1>5, ProgramFine

(* An exception reaches the program.                                       *)
LEMMA StepRaise ==
  ASSUME IInv, Sound, Raise
  PROVE  StepFine
<1>1. TypeOK /\ Good(heap, NULL)
  BY DEF IInv
<1>2. pending' = FALSE /\ UNCHANGED <<heap, held, frame>>
  BY DEF Raise
<1>3. pending' \in BOOLEAN
  BY <1>2, Zenon
<1>4. held' \in [Objs -> Nat]
  BY <1>1, <1>2 DEF TypeOK
<1> QED BY <1>1, <1>2, <1>3, <1>4, KeepsSame, ProgramFine

(* In g some objects of h have more references, and all else is the same.   *)
More(h, g) == \E more \in [Objs -> Nat] :
  g = [p \in Objs |-> IF h[p] = NULL THEN NULL
                      ELSE [h[p] EXCEPT !.refs = @ + more[p]]]

(* The strings of a list get references.                                   *)
LEMMA StringsTaken ==
  ASSUME IInv, Sound, NEW l \in Held, sequence_to_argv(l)
  PROVE  /\ frame = Idle /\ UNCHANGED <<frame, held>> /\ pending' \in BOOLEAN
         /\ heap' = heap \/ More(heap, heap')
<1> DEFINE items == IF heap[l].kind = "list" THEN heap[l].ptr ELSE <<>>
           bad == {k \in DOMAIN items : ~IsString(heap, items[k])}
           n == IF bad = {} THEN Len(items) ELSE Min(bad)
           more == [p \in Objs |-> Cardinality({k \in 1..n : items[k] = p})]
           taken == [p \in Objs |->
             IF heap[p] = NULL THEN NULL
             ELSE [heap[p] EXCEPT !.refs = @ + Cardinality({k \in 1..n : items[k] = p})]]
<1>1. TypeOK /\ heap \in Heaps
  BY DEF IInv, Good
<1>2. /\ frame = Idle /\ UNCHANGED frame
      /\ Ends({[heap |-> heap, ok |-> FALSE],
               [heap |-> taken, ok |-> heap[l].kind = "list" /\ bad = {}]})
  BY DEF sequence_to_argv, Ready
<1>3. n \in Nat
  <2>1. items \in Seq(Pointers)
    <3>1. CASE heap[l].kind = "list"
      <4>1. heap[l] = NULL \/ heap[l].ptr \in Seq(Pointers)
        BY <1>1, <3>1, ObjectParts DEF Heaps, Held
      <4>2. heap[l] # NULL
        BY Live DEF Held
      <4> QED BY <3>1, <4>1, <4>2
    <3>2. CASE heap[l].kind # "list"
      BY <3>2
    <3> QED BY <3>1, <3>2
  <2> HIDE DEF items
  <2>2. Len(items) \in Nat /\ bad \in SUBSET Nat
    BY <2>1
  <2> HIDE DEF bad
  <2>3. bad # {} => Min(bad) \in Nat
    BY <2>2, LeastOne
  <2> QED BY <2>2, <2>3
<1>4. /\ UNCHANGED held /\ pending' \in BOOLEAN
      /\ heap' = heap \/ heap' = taken
  <2> HIDE DEF taken, bad
  <2> QED BY <1>1, <1>2, Ended DEF Ends
<1> HIDE DEF n, items, bad
<1>5. more \in [Objs -> Nat]
  <2> SUFFICES ASSUME NEW p \in Objs PROVE Cardinality({k \in 1..n : items[k] = p}) \in Nat
    OBVIOUS
  <2>1. IsFiniteSet(1..n)
    BY <1>3, FS_Interval
  <2>2. IsFiniteSet({k \in 1..n : items[k] = p})
    BY <2>1, FS_Subset, {k \in 1..n : items[k] = p} \subseteq 1..n
  <2> QED BY <2>2, FS_CardinalityType
<1>6. taken = [p \in Objs |-> IF heap[p] = NULL THEN NULL
                              ELSE [heap[p] EXCEPT !.refs = @ + more[p]]]
  OBVIOUS
<1> HIDE DEF more
<1>7. heap' = taken => More(heap, heap')
  <2> HIDE DEF taken
  <2> QED BY <1>5, <1>6 DEF More
<1> QED BY <1>2, <1>4, <1>7

(* What else is true of these objects.                                     *)
LEMMA MoreParts ==
  ASSUME NEW h \in Heaps, NEW g, More(h, g)
  PROVE  /\ g \in Heaps /\ \A p \in Objs : h[p] = NULL => g[p] = NULL
         /\ \A p \in Objs : h[p] # NULL =>
              /\ g[p] # NULL /\ g[p].kind = h[p].kind /\ g[p].ptr = h[p].ptr
              /\ g[p].val = h[p].val /\ g[p].refs \in Int /\ h[p].refs \in Int
              /\ g[p].refs >= h[p].refs
<1>1. PICK more \in [Objs -> Nat] :
        g = [p \in Objs |-> IF h[p] = NULL THEN NULL
                            ELSE [h[p] EXCEPT !.refs = @ + more[p]]]
  BY DEF More
<1>2. ASSUME NEW p \in Objs, h[p] # NULL
      PROVE  /\ g[p] \in Object /\ g[p].kind = h[p].kind /\ g[p].ptr = h[p].ptr
             /\ g[p].val = h[p].val /\ g[p].refs \in Int /\ h[p].refs \in Int
             /\ g[p].refs >= h[p].refs
  <2> DEFINE m == h[p].refs + more[p]
             y == [h[p] EXCEPT !.refs = m]
  <2>1. h[p] \in Object /\ h[p].refs \in Int
    BY <1>2, ObjectParts DEF Heaps
  <2>2. m \in Int /\ m >= h[p].refs
    BY <2>1
  <2>3. g[p] = y
    BY <1>1, <1>2
  <2> HIDE DEF m
  <2>4. y \in Object /\ y.kind = h[p].kind /\ y.ptr = h[p].ptr /\ y.refs = m
    BY <2>1, <2>2, Recounted
  <2>5. y.val = h[p].val
    BY <2>1 DEF Object
  <2> HIDE DEF y
  <2> QED BY <2>1, <2>2, <2>3, <2>4, <2>5
<1>3. \A p \in Objs : h[p] = NULL => g[p] = NULL
  BY <1>1
<1>4. DOMAIN g = Objs /\ g = [p \in Objs |-> g[p]]
  BY <1>1
<1>5. g \in Heaps
  BY <1>2, <1>3, <1>4 DEF Heaps
<1> QED BY <1>2, <1>3, <1>5, AnswersAssumption

(* No Attr changes by it.                                                  *)
LEMMA StepListSent ==
  ASSUME IInv, Sound, Settled, NEW l \in Held, sequence_to_argv(l)
  PROVE  StepFine
<1>1. TypeOK /\ Good(heap, NULL) /\ heap \in Heaps
  BY DEF IInv, Good
<1>2. /\ UNCHANGED <<frame, held>> /\ pending' \in BOOLEAN
      /\ heap' = heap \/ More(heap, heap')
  BY StringsTaken
<1>3. Good(heap', NULL) /\ Keeps(heap, heap')
  <2>1. CASE heap' = heap
    BY <1>1, <2>1, KeepsSame
  <2>2. CASE More(heap, heap')
    <3>1. /\ heap' \in Heaps /\ \A p \in Objs : heap[p] = NULL => heap'[p] = NULL
          /\ \A p \in Objs : heap[p] # NULL =>
               heap'[p] # NULL /\ heap'[p].kind = heap[p].kind /\ heap'[p].ptr = heap[p].ptr
      BY <1>1, <2>2, MoreParts
    <3>2. \A p \in Objs : heap[p] # NULL =>
            /\ heap'[p] # NULL /\ heap'[p].kind = heap[p].kind
            /\ heap[p].kind = "attr" /\ p # NULL /\ heap'[p].refs > 0 =>
                 heap'[p].ptr = heap[p].ptr /\ heap[p].refs > 0
      BY <3>1 DEF Settled
    <3>3. \A p \in Objs : heap[p] = NULL /\ p # NULL => ~IsA(heap', p, "attr")
      BY <3>1 DEF IsA
    <3> QED BY <1>1, <3>1, <3>2, <3>3, SameAttrs
  <2> QED BY <1>2, <2>1, <2>2
<1>4. held' \in [Objs -> Nat]
  BY <1>1, <1>2 DEF TypeOK
<1> QED BY <1>2, <1>3, <1>4, ProgramFine

(* Every step of a program is fine.                                        *)
LEMMA StepProgram ==
  ASSUME IInv, Sound, Settled, Program PROVE StepFine
<1>1. CASE bs__new \/ batchop__new \/ Attr_new \/ \E s \in Str : string_new(s)
  BY <1>1, StepNew
<1>2. CASE DataInit
  BY <1>2, StepDataInit DEF DataInit
<1>3. CASE ListSent
  BY <1>3, StepListSent DEF ListSent
<1>4. CASE \E o \in Held :
             bs_get(o) \/ attr_get_str(o) \/ attr_get_bop(o) \/ list_item(o)
  BY <1>4, StepGetters
<1>5. CASE \E o \in Held, v \in Args \cup {NULL} :
             \/ attr_set_bop(o, v) \/ bop_set_op(o, v) \/ batchop__init(o, v)
             \/ \E f \in AttrFields \ {"bop"} : attr_set_str(o, f, v)
  <2>1. PICK o \in Held, v \in Args \cup {NULL} :
          \/ attr_set_bop(o, v) \/ bop_set_op(o, v)
          \/ \E f \in AttrFields \ {"bop"} : attr_set_str(o, f, v)
    BY <1>5 DEF batchop__init
  <2> QED BY <2>1, StepSetOp, StepAttrSetters
<1>6. CASE \E a \in Held, name, value \in Args, rscn, bop \in Args \cup {NULL} :
             Attr_init(a, name, value, rscn, bop)
  BY <1>6, StepAttrSetters
<1> QED BY <1>1, <1>2, <1>3, <1>4, <1>5, <1>6 DEF Program

-------------------------------------------------------------------------------
(* An object is freed.                                                     *)

(* An object has finitely many fields.                                     *)
LEMMA FieldsFinite ==
  ASSUME NEW x \in Object PROVE IsFiniteSet(DOMAIN x.ptr)
<1>1. /\ IsFiniteSet(DataFields) /\ IsFiniteSet(AttrFields) /\ IsFiniteSet(Keys)
      /\ IsFiniteSet({})
  <2>1. IsFiniteSet({})
    BY FS_EmptySet
  <2>2. \A S, y : IsFiniteSet(S) => IsFiniteSet(S \cup {y})
    BY FS_AddElement
  <2>3. IsFiniteSet({} \cup {"name"}) /\ {} \cup {"name"} = {"name"}
    BY <2>1, <2>2
  <2>4. IsFiniteSet({"name", "text"})
    <3>1. {"name", "text"} = {"name"} \cup {"text"}
      OBVIOUS
    <3> QED BY <2>2, <2>3, <3>1
  <2>5. IsFiniteSet(DataFields)
    <3>1. DataFields = {"name", "text"} \cup {"attribs"}
      BY DEF DataFields
    <3> QED BY <2>2, <2>4, <3>1
  <2>6. IsFiniteSet({"name", "value"})
    <3>1. {"name", "value"} = {"name"} \cup {"value"}
      OBVIOUS
    <3> QED BY <2>2, <2>3, <3>1
  <2>7. IsFiniteSet(Keys)
    <3>1. Keys = {"name", "value"} \cup {"resource"}
      BY DEF Keys
    <3> QED BY <2>2, <2>6, <3>1
  <2>8. IsFiniteSet(AttrFields)
    <3>1. AttrFields = ({"name", "value"} \cup {"rscn"}) \cup {"bop"}
      BY DEF AttrFields
    <3> QED BY <2>2, <2>6, <3>1
  <2> QED BY <2>1, <2>5, <2>7, <2>8
<1>2. CASE x.kind \in {"str", "bop"}
  <2>1. x.ptr = <<>>
    BY <1>2, ObjectParts
  <2>2. DOMAIN x.ptr = {}
    BY <2>1
  <2> QED BY <1>1, <2>2
<1>3. CASE x.kind = "list"
  <2>1. x.ptr \in Seq(Pointers)
    BY <1>3, ObjectParts
  <2>2. DOMAIN x.ptr = 1..Len(x.ptr) /\ Len(x.ptr) \in Nat
    BY <2>1
  <2>3. IsFiniteSet(1..Len(x.ptr))
    BY <2>2, FS_Interval
  <2> QED BY <2>2, <2>3
<1>4. CASE x.kind = "data"
  BY <1>1, <1>4, ObjectParts
<1>5. CASE x.kind = "attr"
  BY <1>1, <1>5, ObjectParts
<1>6. CASE x.kind = "dict"
  BY <1>1, <1>6, ObjectParts
<1> QED BY <1>2, <1>3, <1>4, <1>5, <1>6, ObjectParts

(* The references of its fields are given up, so that the others stay as   *)
(* they are; and when nothing leads to it, the Attrs are as whole as they  *)
(* were.                                                                   *)
LEMMA Freed ==
  ASSUME IInv, Sound, NEW o \in Objs, NEW kinds, Dies(o, kinds),
         NEW fs, fs \subseteq DOMAIN heap[o].ptr, Clears(o, fs)
  PROVE  IInv'
<1> DEFINE less(p) == Cardinality({f \in fs : heap[o].ptr[f] = p})
<1>1. TypeOK /\ Good(heap, NULL) /\ heap \in Heaps /\ FrameLeads(heap, frame)
  BY DEF IInv, Good
<1>2. heap[o] \in Object /\ UNCHANGED <<held, frame, pending>>
  BY <1>1 DEF Dies, Heaps
<1>3. \A p : less(p) \in Nat
  <2> SUFFICES ASSUME NEW p PROVE less(p) \in Nat
    OBVIOUS
  <2>1. IsFiniteSet(fs)
    BY <1>2, FieldsFinite, FS_Subset
  <2>2. IsFiniteSet({f \in fs : heap[o].ptr[f] = p})
    BY <2>1, FS_Subset, {f \in fs : heap[o].ptr[f] = p} \subseteq fs
  <2> QED BY <2>2, FS_CardinalityType
<1>4. heap' = [p \in Objs |-> IF p = o \/ heap[p] = NULL THEN NULL
                              ELSE [heap[p] EXCEPT !.refs = @ - less(p)]]
  BY DEF Clears
<1> HIDE DEF less
<1>5. ASSUME NEW p \in Objs, p # o, heap[p] # NULL
      PROVE  /\ heap'[p] \in Object /\ heap'[p].kind = heap[p].kind
             /\ heap'[p].ptr = heap[p].ptr
             /\ heap'[p].refs > 0 => heap[p].refs > 0
  <2> DEFINE m == heap[p].refs - less(p)
  <2>1. heap[p] \in Object /\ heap[p].refs \in Int
    BY <1>1, <1>5, ObjectParts DEF Heaps
  <2>2. m \in Int /\ (m > 0 => heap[p].refs > 0)
    BY <1>3, <2>1
  <2>3. heap'[p] = [heap[p] EXCEPT !.refs = m]
    BY <1>4, <1>5
  <2> HIDE DEF m
  <2> DEFINE y == [heap[p] EXCEPT !.refs = m]
  <2>4. y \in Object /\ y.kind = heap[p].kind /\ y.ptr = heap[p].ptr /\ y.refs = m
    BY <2>1, <2>2, Recounted
  <2> HIDE DEF y
  <2> QED BY <2>2, <2>3, <2>4 DEF y
<1>6. \A p \in Objs : p = o \/ heap[p] = NULL => heap'[p] = NULL
  BY <1>4
<1>7. heap' \in Heaps
  <2>1. \A p \in Objs : heap'[p] \in Object \cup {NULL}
    BY <1>5, <1>6
  <2>2. DOMAIN heap' = Objs /\ heap' = [p \in Objs |-> heap'[p]]
    BY <1>4
  <2> QED BY <2>1, <2>2 DEF Heaps
<1>8. TypeOK' /\ FrameFits(frame)'
  <2>1. FrameFits(frame)'
    BY <1>2 DEF IInv
  <2>2. (pending \in BOOLEAN)'
    <3>1. pending' = pending /\ pending \in BOOLEAN
      BY <1>1, <1>2 DEF TypeOK
    <3> QED BY <3>1, Zenon
  <2> QED BY <1>1, <1>2, <1>7, <2>1, <2>2 DEF TypeOK, Heaps, FrameFits
<1>9. ASSUME Sound' PROVE Good(heap', NULL) /\ FrameLeads(heap', frame')
  <2>1. ASSUME NEW p \in Objs, NEW kind, IsA(heap, p, kind), p # o
        PROVE  IsA(heap', p, kind)
    BY <1>5, <2>1, AnswersAssumption DEF IsA
  <2>2. o \notin Framed
    BY <1>2, <1>6, <1>9 DEF Sound, Referenced, Framed
  <2>3. FrameLeads(heap', frame')
    BY <1>1, <1>2, <2>1, <2>2 DEF FrameLeads, Points, Framed
  <2>4. ASSUME NEW a \in Objs, IsA(heap', a, "attr"), heap'[a].refs > 0
        PROVE  Whole(heap', a)
    <3>1. a # o /\ heap[a] # NULL /\ heap'[a] # NULL
      BY <1>6, <2>4 DEF IsA
    <3>2. heap'[a].ptr = heap[a].ptr /\ IsA(heap, a, "attr") /\ heap[a].refs > 0
      BY <1>5, <2>4, <3>1 DEF IsA
    <3>3. Whole(heap, a)
      <4>1. a # NULL
        BY AnswersAssumption
      <4> QED BY <1>1, <3>2, <4>1 DEF Good
    <3>4. heap[a].ptr \in [AttrFields -> Pointers]
      BY <1>1, <3>1, <3>2, ObjectParts DEF Heaps, IsA
    <3>5. \A f \in AttrFields : heap[a].ptr[f] # o
      <4>1. ~Referenced(o)'
        BY <1>6, <1>9 DEF Sound
      <4> QED BY <3>1, <3>2, <3>4, <4>1 DEF Referenced
    <3>6. ASSUME NEW f \in AttrFields \ {"bop"}
          PROVE  heap[a].ptr[f] = None \/ IsString(heap', heap[a].ptr[f])
      <4>1. heap[a].ptr[f] = None \/ IsA(heap, heap[a].ptr[f], "str")
        BY <3>3 DEF Whole, IsString
      <4> QED BY <2>1, <3>5, <4>1 DEF IsString, IsA
    <3>7. IsBop(heap', heap[a].ptr["bop"])
      <4>1. IsA(heap, heap[a].ptr["bop"], "bop") /\ "bop" \in AttrFields
        BY <3>3 DEF Whole, IsBop, AttrFields
      <4> QED BY <2>1, <3>5, <4>1 DEF IsBop, IsA
    <3> QED BY <3>2, <3>6, <3>7 DEF Whole
  <2> QED BY <1>7, <2>3, <2>4 DEF Good
<1> QED BY <1>8, <1>9 DEF IInv

(* Whichever object dies.                                                  *)
LEMMA StepDealloc ==
  ASSUME IInv, Sound, Dealloc PROVE IInv'
<1>1. PICK o \in Objs :
        bs__dealloc(o) \/ attr__dealloc(o) \/ batchop__dealloc(o) \/ object_dealloc(o)
  BY DEF Dealloc
<1>2. heap[o] \in Object
  BY <1>1 DEF IInv, TypeOK, Dies, bs__dealloc, attr__dealloc, batchop__dealloc,
              object_dealloc
<1>3. CASE bs__dealloc(o)
  <2>1. DataFields \subseteq DOMAIN heap[o].ptr
    BY <1>2, <1>3, ObjectParts DEF bs__dealloc, Dies
  <2> QED BY <1>3, <2>1, Freed DEF bs__dealloc
<1>4. CASE attr__dealloc(o)
  <2>1. AttrFields \subseteq DOMAIN heap[o].ptr
    BY <1>2, <1>4, ObjectParts DEF attr__dealloc, Dies
  <2> QED BY <1>4, <2>1, Freed DEF attr__dealloc
<1>5. CASE batchop__dealloc(o)
  BY <1>5, Freed DEF batchop__dealloc
<1>6. CASE object_dealloc(o)
  BY <1>6, Freed DEF object_dealloc
<1> QED BY <1>1, <1>3, <1>4, <1>5, <1>6

-------------------------------------------------------------------------------
(* The invariant holds at first.                                           *)
LEMMA InitIInv == Init => IInv
<1> SUFFICES ASSUME Init PROVE IInv
  OBVIOUS
<1> DEFINE null == [kind |-> "str", refs |-> 1, ptr |-> <<>>, val |-> Empty]
<1>1. null \in Object
  BY DEF Object, Text
<1>2. null.kind = "str"
  OBVIOUS
<1>3. heap = [p \in Objs |-> IF p = PBS_NULLSTR THEN null ELSE NULL]
  BY DEF Init
<1> HIDE DEF null
<1>4. heap \in Heaps
  BY <1>1, <1>3 DEF Heaps
<1>5. Good(heap, NULL)
  BY <1>2, <1>3, <1>4 DEF Good, IsA
<1>6. FrameFits(frame) /\ FrameLeads(heap, frame)
  BY IdleFits DEF Init
<1>7. pending \in BOOLEAN
  <2>1. pending = FALSE
    BY DEF Init
  <2> QED BY <2>1, Zenon
<1>8. TypeOK
  <2>1. held \in [Objs -> Nat] /\ frame \in Frame
    BY <1>6 DEF Init, FrameFits
  <2> QED BY <1>4, <1>7, <2>1 DEF TypeOK, Heaps
<1> QED BY <1>5, <1>6, <1>8 DEF IInv

(* Every step keeps the invariant.                                         *)
LEMMA NextIInv == IInv /\ [Next]_vars => IInv'
<1>1. ASSUME IInv, UNCHANGED vars PROVE IInv'
  <2>1. heap' = heap /\ held' = held /\ frame' = frame /\ pending' = pending
    BY <1>1 DEF vars
  <2>2. Sound' = Sound
    BY <2>1 DEF Sound, Referenced, Framed
  <2>3. TypeOK'
    <3>1. pending' \in BOOLEAN
      BY <1>1, <2>1, Zenon DEF IInv, TypeOK
    <3> QED BY <1>1, <2>1, <3>1 DEF IInv, TypeOK
  <2> QED BY <1>1, <2>1, <2>2, <2>3 DEF IInv
<1>2. ASSUME IInv, Sound, Settled, Convert \/ Raise \/ Program \/ \E o \in Held : Drop(o)
      PROVE  IInv'
  <2>1. StepFine
    BY <1>2, StepConvert, StepRaise, StepProgram, StepDrop
  <2>2. TypeOK'
    BY <2>1 DEF StepFine, TypeOK, Good, Heaps, FrameFits
  <2> QED BY <2>1, <2>2 DEF StepFine, IInv
<1> QED BY <1>1, <1>2, StepDealloc DEF Next

(* Objects, references and the conversion that is running keep their types *)
(* (PBSDataType.c, PBSAttrType.c, PBSBatchOpType.c, utils.h, utils.c).     *)
THEOREM TypeCorrect == Spec => []TypeOK
<1>1. IInv => TypeOK
  BY DEF IInv
<1> QED BY <1>1, InitIInv, NextIInv, PTL DEF Spec

(* An Attr that is in use has every field (PBSAttrType.c:114, 138-146,     *)
(* 171-176, 343-344), whatever was refused and whichever allocation failed. *)
THEOREM AttrsWhole == Spec => []AttrWhole
<1>1. IInv => AttrWhole
  <2>1. NULL \notin Objs
    BY AnswersAssumption
  <2> QED BY <2>1 DEF IInv, AttrWhole, Good, Whole
<1> QED BY <1>1, InitIInv, NextIInv, PTL DEF Spec
===============================================================================
