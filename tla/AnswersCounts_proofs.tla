-------------------------- MODULE AnswersCounts_proofs --------------------------
(***************************************************************************)
(* The reference counts of the objects of an answer, and of those a        *)
(* program makes, agree with the references there are to them.             *)
(***************************************************************************)
EXTENDS Answers_proofs

(* The count of an object, and what it is above the references in fields.  *)
Count(h, p) == IF h[p] = NULL THEN 0 ELSE h[p].refs
Surplus(h, p) == Count(h, p) - Cardinality(Fields(h, p))

One(q, p) == IF q = p THEN 1 ELSE 0

-------------------------------------------------------------------------------
(* The fields that lead to an object.                                      *)

(* Which places they are.                                                  *)
LEMMA FieldsOf ==
  ASSUME NEW h, NEW p
  PROVE  \A x : x \in Fields(h, p) <=>
           \E o \in Objs : /\ h[o] # NULL /\ x = <<o, x[2]>>
                           /\ x[2] \in DOMAIN h[o].ptr /\ h[o].ptr[x[2]] = p
<1> DEFINE S(o) == {f \in DOMAIN h[o].ptr : h[o].ptr[f] = p}
           live == {o \in Objs : h[o] # NULL}
<1>1. Fields(h, p) = UNION {{o} \X S(o) : o \in live}
  BY DEF Fields
<1>2. ASSUME NEW x, x \in Fields(h, p)
      PROVE  \E o \in live : x = <<o, x[2]>> /\ x[2] \in S(o)
  <2>1. PICK o \in live : x \in {o} \X S(o)
    BY <1>1, <1>2
  <2> HIDE DEF S, live
  <2> QED BY <2>1
<1>3. ASSUME NEW x, NEW o \in live, x = <<o, x[2]>>, x[2] \in S(o)
      PROVE  x \in Fields(h, p)
  <2>1. x \in {o} \X S(o)
    <3> HIDE DEF S, live
    <3> QED BY <1>3
  <2> QED BY <1>1, <2>1
<1> QED BY <1>2, <1>3

(* The same of a pair.                                                     *)
LEMMA FieldOf ==
  ASSUME NEW h, NEW p, NEW o, NEW f
  PROVE  <<o, f>> \in Fields(h, p) <=>
           o \in Objs /\ h[o] # NULL /\ f \in DOMAIN h[o].ptr /\ h[o].ptr[f] = p
<1> DEFINE x == <<o, f>>
<1>1. x \in Fields(h, p) <=>
        \E q \in Objs : /\ h[q] # NULL /\ x = <<q, x[2]>>
                        /\ x[2] \in DOMAIN h[q].ptr /\ h[q].ptr[x[2]] = p
  BY FieldsOf
<1>2. x[2] = f /\ \A q : x = <<q, x[2]>> <=> q = o
  OBVIOUS
<1> HIDE DEF x
<1> QED BY <1>1, <1>2 DEF x

(* There are finitely many.                                                *)
LEMMA FieldsFew ==
  ASSUME NEW h \in Heaps, NEW p
  PROVE  IsFiniteSet(Fields(h, p)) /\ Cardinality(Fields(h, p)) \in Nat
<1> DEFINE live == {o \in Objs : h[o] # NULL}
           R(o) == {o} \X {f \in DOMAIN h[o].ptr : h[o].ptr[f] = p}
           T == {R(o) : o \in live}
           g == [o \in live |-> R(o)]
<1>1. IsFiniteSet(live)
  BY AnswersAssumption, FS_Subset
<1>2. ASSUME NEW o \in live PROVE IsFiniteSet(R(o))
  <2>1. h[o] \in Object
    BY DEF Heaps
  <2>2. IsFiniteSet({f \in DOMAIN h[o].ptr : h[o].ptr[f] = p})
    BY <2>1, FieldsFinite, FS_Subset,
       {f \in DOMAIN h[o].ptr : h[o].ptr[f] = p} \subseteq DOMAIN h[o].ptr
  <2> QED BY <2>2, FS_Singleton, FS_Product
<1>3. g \in Surjection(live, T)
  BY DEF Surjection
<1>4. IsFiniteSet(T)
  <2> HIDE DEF T, g, live
  <2> QED BY <1>1, <1>3, FS_Surjection
<1>5. \A U \in T : IsFiniteSet(U)
  BY <1>2
<1>6. Fields(h, p) = UNION T
  BY DEF Fields
<1>7. IsFiniteSet(UNION T)
  <2> HIDE DEF T
  <2> QED BY <1>4, <1>5, FS_UNION
<1> QED BY <1>6, <1>7, FS_CardinalityType

(* The objects of h, but perhaps those in X, have the same pointers in g.  *)
Same(h, g, X) ==
  \A o \in Objs \ X : h[o] # NULL =>
    g[o] # NULL /\ g[o].kind = h[o].kind /\ g[o].ptr = h[o].ptr /\ g[o].val = h[o].val

(* Only the counts of objects differ.                                      *)
SameObjects(h, g) == Same(h, g, {}) /\ \A o \in Objs : h[o] = NULL => g[o] = NULL

(* A heap in which the count of q is n.                                    *)
Recount(h, q, n) == [h EXCEPT ![q].refs = n]

-------------------------------------------------------------------------------
(* What is done to a heap, and what it does to the counts.                 *)

(* Counts are numbers.                                                     *)
LEMMA SurplusTyped ==
  ASSUME NEW h \in Heaps, NEW p \in Objs
  PROVE  Count(h, p) \in Int /\ Surplus(h, p) \in Int
<1>1. Count(h, p) \in Int
  <2>1. h[p] # NULL => h[p] \in Object
    BY DEF Heaps
  <2> QED BY <2>1, ObjectParts DEF Count
<1>2. Cardinality(Fields(h, p)) \in Int
  BY FieldsFew
<1> QED BY <1>1, <1>2 DEF Surplus

(* The fields are those of the same objects.                               *)
LEMMA SameFields ==
  ASSUME NEW h, NEW g, SameObjects(h, g), NEW p
  PROVE  Fields(g, p) = Fields(h, p)
<1>1. ASSUME NEW x PROVE x \in Fields(g, p) <=> x \in Fields(h, p)
  BY FieldsOf DEF SameObjects, Same
<1> QED BY <1>1

(* One count is changed.                                                   *)
LEMMA Counted ==
  ASSUME NEW h \in Heaps, NEW q \in Objs, h[q] # NULL, NEW n \in Int
  PROVE  LET g == Recount(h, q, n) IN
         /\ g \in Heaps /\ SameObjects(h, g)
         /\ Count(g, q) = n /\ \A p \in Objs \ {q} : Count(g, p) = Count(h, p)
         /\ \A p : Fields(g, p) = Fields(h, p)
<1> DEFINE g == Recount(h, q, n)
           y == [h[q] EXCEPT !.refs = n]
<1>1. h[q] \in Object
  BY DEF Heaps
<1>2. g[q] = y /\ \A p \in Objs \ {q} : g[p] = h[p]
  BY DEF Heaps, Recount
<1>3. /\ y \in Object /\ y.kind = h[q].kind /\ y.ptr = h[q].ptr /\ y.refs = n
      /\ y.val = h[q].val
  <2>1. y.val = h[q].val
    BY <1>1 DEF Object
  <2> QED BY <1>1, <2>1, Recounted
<1>4. DOMAIN g = Objs /\ g = [p \in Objs |-> g[p]]
  BY DEF Heaps, Recount
<1> HIDE DEF y, g
<1>5. y # NULL
  BY <1>3, AnswersAssumption
<1>6. g \in Heaps
  BY <1>2, <1>3, <1>4 DEF Heaps
<1>7. SameObjects(h, g)
  BY <1>2, <1>3, <1>5 DEF SameObjects, Same
<1>8. Count(g, q) = n /\ \A p \in Objs \ {q} : Count(g, p) = Count(h, p)
  BY <1>2, <1>3, <1>5 DEF Count
<1> QED BY <1>6, <1>7, <1>8, SameFields DEF g

(* The two operations of the interpreter.                                  *)
LEMMA IncrefCounts ==
  ASSUME NEW h \in Heaps, NEW q, q \in Objs => h[q] # NULL
  PROVE  LET g == Py_INCREF(h, q) IN
         /\ g \in Heaps /\ SameObjects(h, g)
         /\ \A p \in Objs : Surplus(g, p) = Surplus(h, p) + One(q, p)
<1> DEFINE g == Py_INCREF(h, q)
<1>1. CASE q \notin Objs
  <2>1. g = h
    BY <1>1 DEF Py_INCREF
  <2> QED BY <1>1, <2>1, SurplusTyped DEF SameObjects, Same, One
<1>2. CASE q \in Objs
  <2> DEFINE n == Count(h, q) + 1
  <2>1. n \in Int /\ Count(h, q) \in Int
    BY <1>2, SurplusTyped
  <2>2. g = Recount(h, q, n)
    BY <1>2 DEF Py_INCREF, Recount, Count
  <2> HIDE DEF g
  <2>3. /\ g \in Heaps /\ SameObjects(h, g)
        /\ Count(g, q) = n /\ \A p \in Objs \ {q} : Count(g, p) = Count(h, p)
        /\ \A p : Fields(g, p) = Fields(h, p)
    <3> HIDE DEF n
    <3> QED BY <1>2, <2>1, <2>2, Counted
  <2>4. ASSUME NEW p \in Objs PROVE Surplus(g, p) = Surplus(h, p) + One(q, p)
    BY <2>1, <2>3, FieldsFew, SurplusTyped DEF Surplus, One
  <2> QED BY <2>3, <2>4 DEF g
<1> QED BY <1>1, <1>2

(* One reference less.                                                     *)
LEMMA DecrefCounts ==
  ASSUME NEW h \in Heaps, NEW q, q \in Objs => h[q] # NULL
  PROVE  LET g == Py_DECREF(h, q) IN
         /\ g \in Heaps /\ SameObjects(h, g)
         /\ \A p \in Objs : Surplus(g, p) = Surplus(h, p) - One(q, p)
<1> DEFINE g == Py_DECREF(h, q)
<1>1. CASE q \notin Objs
  <2>1. g = h
    BY <1>1 DEF Py_DECREF
  <2> QED BY <1>1, <2>1, SurplusTyped DEF SameObjects, Same, One
<1>2. CASE q \in Objs
  <2> DEFINE n == Count(h, q) - 1
  <2>1. n \in Int /\ Count(h, q) \in Int
    BY <1>2, SurplusTyped
  <2>2. g = Recount(h, q, n)
    BY <1>2 DEF Py_DECREF, Recount, Count
  <2> HIDE DEF g
  <2>3. /\ g \in Heaps /\ SameObjects(h, g)
        /\ Count(g, q) = n /\ \A p \in Objs \ {q} : Count(g, p) = Count(h, p)
        /\ \A p : Fields(g, p) = Fields(h, p)
    <3> HIDE DEF n
    <3> QED BY <1>2, <2>1, <2>2, Counted
  <2>4. ASSUME NEW p \in Objs PROVE Surplus(g, p) = Surplus(h, p) - One(q, p)
    BY <2>1, <2>3, FieldsFew, SurplusTyped DEF Surplus, One
  <2> QED BY <2>3, <2>4 DEF g
<1> QED BY <1>1, <1>2

(* A new object that leads to no other.                                    *)
LEMMA MakeCounts ==
  ASSUME NEW h \in Heaps, Free(h) # {}, NEW kind, NEW ptr, NEW val,
         [kind |-> kind, refs |-> 1, ptr |-> ptr, val |-> val] \in Object,
         \A f \in DOMAIN ptr : ptr[f] \notin Objs
  PROVE  LET g == Make(h, kind, ptr, val)
             n == Fresh(h) IN
         /\ g \in Heaps /\ Same(h, g, {})
         /\ n \in Objs /\ h[n] = NULL
         /\ g[n] # NULL /\ g[n].kind = kind /\ g[n].ptr = ptr /\ g[n].val = val
         /\ \A o \in Objs : g[o] = NULL <=> h[o] = NULL /\ o # n
         /\ \A p \in Objs : Surplus(g, p) = Surplus(h, p) + One(n, p)
<1> DEFINE n == Fresh(h)
           new == [kind |-> kind, refs |-> 1, ptr |-> ptr, val |-> val]
           g == [h EXCEPT ![n] = new]
<1>1. n \in Objs /\ h[n] = NULL
  BY DEF Fresh, Free
<1>2. g \in Heaps /\ g[n] = new /\ \A q \in Objs \ {n} : g[q] = h[q]
  BY <1>1 DEF Heaps
<1>3. new # NULL
  BY AnswersAssumption
<1>4. /\ new.kind = kind /\ new.ptr = ptr /\ new.refs = 1 /\ new.val = val
  OBVIOUS
<1>5. g = Make(h, kind, ptr, val)
  BY DEF Make
<1> HIDE DEF n, new, g
<1>6. Same(h, g, {})
  BY <1>1, <1>2 DEF Same
<1>7. ASSUME NEW p \in Objs PROVE Fields(g, p) = Fields(h, p)
  <2>1. ASSUME NEW x PROVE x \in Fields(g, p) <=> x \in Fields(h, p)
    BY <1>1, <1>2, <1>3, <1>4, FieldsOf
  <2> QED BY <2>1
<1>8. Count(h, n) = 0 /\ Count(g, n) = 1
      /\ \A p \in Objs \ {n} : Count(g, p) = Count(h, p)
  BY <1>1, <1>2, <1>3, <1>4 DEF Count
<1>9. ASSUME NEW p \in Objs PROVE Surplus(g, p) = Surplus(h, p) + One(n, p)
  BY <1>7, <1>8, FieldsFew, SurplusTyped DEF Surplus, One
<1> QED BY <1>1, <1>2, <1>3, <1>4, <1>5, <1>6, <1>9 DEF n

(* The fields but one.                                                     *)
LEMMA OneRemoved ==
  ASSUME NEW h \in Heaps, NEW p, NEW x
  PROVE  Cardinality(Fields(h, p) \ {x}) =
           Cardinality(Fields(h, p)) - IF x \in Fields(h, p) THEN 1 ELSE 0
<1> DEFINE F == Fields(h, p)
<1>1. IsFiniteSet(F) /\ Cardinality(F) \in Nat
  BY FieldsFew
<1> HIDE DEF F
<1>2. Cardinality(F \ {x}) = IF x \in F THEN Cardinality(F) - 1 ELSE Cardinality(F)
  BY <1>1, FS_RemoveElement
<1>3. Cardinality(F \ {x}) = Cardinality(F) - IF x \in F THEN 1 ELSE 0
  BY <1>1, <1>2
<1> QED BY <1>3 DEF F

(* A reference goes into a field in place of another.                      *)
LEMMA StealCounts ==
  ASSUME NEW h \in Heaps, NEW o \in Objs, h[o] # NULL, NEW f \in DOMAIN h[o].ptr,
         NEW p \in Pointers
  PROVE  LET g == Steal(h, o, f, p) IN
         /\ g \in Heaps /\ Same(h, g, {o})
         /\ g[o] # NULL /\ g[o].kind = h[o].kind /\ g[o].val = h[o].val
         /\ g[o].ptr = Repoint(h[o].ptr, f, p)
         /\ \A q \in Objs : h[q] = NULL => g[q] = NULL
         /\ \A q \in Objs :
              Surplus(g, q) = Surplus(h, q) + One(h[o].ptr[f], q) - One(p, q)
<1> DEFINE g == Steal(h, o, f, p)
           old == h[o].ptr[f]
<1>1. /\ g \in Heaps /\ g[o] # NULL /\ g[o].kind = h[o].kind
      /\ g[o].refs = h[o].refs /\ g[o].ptr = Repoint(h[o].ptr, f, p)
      /\ \A q \in Objs \ {o} : g[q] = h[q]
  BY StealParts
<1>2. g[o].val = h[o].val
  <2>1. h[o] \in Object /\ g[o] = Repointed(h[o], f, p)
    BY DEF Heaps, Steal, Repointed
  <2> QED BY <2>1 DEF Object, Repointed
<1>3. /\ DOMAIN g[o].ptr = DOMAIN h[o].ptr /\ g[o].ptr[f] = p
      /\ \A k \in DOMAIN h[o].ptr : k # f => g[o].ptr[k] = h[o].ptr[k]
  BY <1>1 DEF Repoint
<1> HIDE DEF g
<1>4. ASSUME NEW q \in Objs
      PROVE  Surplus(g, q) = Surplus(h, q) + One(old, q) - One(p, q)
  <2> DEFINE x == <<o, f>>
  <2>1. x \in Fields(g, q) <=> p = q
    BY <1>1, <1>3, FieldOf
  <2>2. x \in Fields(h, q) <=> old = q
    BY FieldOf
  <2>3. Fields(g, q) \ {x} = Fields(h, q) \ {x}
    <3>1. ASSUME NEW y, y # x PROVE y \in Fields(g, q) <=> y \in Fields(h, q)
      <4>1. \A c, k : <<c, k>> = <<o, f>> <=> c = o /\ k = f
        OBVIOUS
      <4> QED BY <1>1, <1>3, <3>1, <4>1, FieldsOf
    <3> HIDE DEF x
    <3> QED BY <3>1
  <2> HIDE DEF x
  <2>4. Cardinality(Fields(g, q) \ {x}) = Cardinality(Fields(g, q)) - One(p, q)
    BY <1>1, <2>1, OneRemoved DEF One
  <2>5. Cardinality(Fields(h, q) \ {x}) = Cardinality(Fields(h, q)) - One(old, q)
    BY <2>2, OneRemoved DEF One
  <2>6. Count(g, q) = Count(h, q)
    BY <1>1 DEF Count
  <2>7. /\ Cardinality(Fields(g, q)) \in Nat /\ Cardinality(Fields(h, q)) \in Nat
        /\ Count(h, q) \in Int /\ One(old, q) \in Int /\ One(p, q) \in Int
    BY <1>1, FieldsFew, SurplusTyped DEF One
  <2> HIDE DEF old
  <2>8. Cardinality(Fields(g, q)) - One(p, q) = Cardinality(Fields(h, q)) - One(old, q)
    BY <2>3, <2>4, <2>5
  <2> QED BY <2>6, <2>7, <2>8 DEF Surplus
<1>5. Same(h, g, {o}) /\ \A q \in Objs : h[q] = NULL => g[q] = NULL
  BY <1>1 DEF Same
<1> QED BY <1>1, <1>2, <1>4, <1>5 DEF g

(* One goes to the end of a list.                                          *)
LEMMA AppendCounts ==
  ASSUME NEW h \in Heaps, NEW l, IsA(h, l, "list"), NEW p \in Pointers
  PROVE  \A q \in Objs : Surplus(Extend(h, l, p), q) = Surplus(h, q) - One(p, q)
<1> DEFINE g == [h EXCEPT ![l].ptr = Append(@, p)]
           ptr == Append(h[l].ptr, p)
           y == [h[l] EXCEPT !.ptr = ptr]
           n == Len(h[l].ptr) + 1
<1>1. l \in Objs /\ h[l] # NULL /\ h[l].kind = "list" /\ h[l] \in Object
  BY DEF IsA, Heaps
<1>2. h[l].ptr \in Seq(Pointers)
  BY <1>1, ObjectParts
<1>3. /\ ptr \in Seq(Pointers) /\ n \in Nat \ {0}
      /\ DOMAIN h[l].ptr = 1..(n - 1) /\ DOMAIN ptr = 1..n
      /\ ptr[n] = p /\ \A k \in 1..(n - 1) : ptr[k] = h[l].ptr[k]
  BY <1>2
<1>4. g[l] = y /\ (\A q \in Objs \ {l} : g[q] = h[q])
      /\ DOMAIN g = Objs /\ g = [q \in Objs |-> g[q]]
  BY <1>1 DEF Heaps
<1>5. y \in Object /\ y.kind = "list" /\ y.ptr = ptr /\ y.refs = h[l].refs
  <2> HIDE DEF ptr
  <2> QED BY <1>1, <1>3 DEF Object
<1>6. g = Extend(h, l, p)
  BY DEF Extend
<1> HIDE DEF y, g, ptr, n
<1>7. g \in Heaps
  BY <1>4, <1>5 DEF Heaps
<1>8. g[l] # NULL
  BY <1>4, <1>5, AnswersAssumption
<1>9. ASSUME NEW q \in Objs PROVE Surplus(g, q) = Surplus(h, q) - One(p, q)
  <2> DEFINE x == <<l, n>>
  <2>1. n \in 1..n /\ n \notin 1..(n - 1)
    BY <1>3
  <2>2. x \in Fields(g, q) <=> p = q
    BY <1>1, <1>3, <1>4, <1>5, <1>8, <2>1, FieldOf
  <2>3. x \notin Fields(h, q)
    BY <1>3, <2>1, FieldOf
  <2>4. \A k \in DOMAIN ptr : k # n => k \in DOMAIN h[l].ptr /\ ptr[k] = h[l].ptr[k]
    BY <1>3
  <2>5. \A k \in DOMAIN h[l].ptr : k # n /\ k \in DOMAIN ptr /\ ptr[k] = h[l].ptr[k]
    BY <1>3
  <2>6. Fields(g, q) \ {x} = Fields(h, q)
    <3>1. ASSUME NEW z, z # x PROVE z \in Fields(g, q) <=> z \in Fields(h, q)
      <4>1. \A c, k : <<c, k>> = <<l, n>> <=> c = l /\ k = n
        OBVIOUS
      <4> QED BY <1>1, <1>4, <1>5, <1>8, <2>4, <2>5, <3>1, <4>1, FieldsOf
    <3> HIDE DEF x
    <3> QED BY <2>3, <3>1
  <2> HIDE DEF x
  <2>7. Cardinality(Fields(h, q)) = Cardinality(Fields(g, q)) - One(p, q)
    BY <1>7, <2>2, <2>6, OneRemoved DEF One
  <2>8. Count(g, q) = Count(h, q)
    BY <1>1, <1>4, <1>5, <1>8 DEF Count
  <2> QED BY <1>7, <2>7, <2>8, FieldsFew, SurplusTyped DEF Surplus, One
<1> QED BY <1>6, <1>9

(* What is the same in two steps is the same.                              *)
LEMMA SameOn ==
  ASSUME NEW f, NEW g, NEW h, NEW X, NEW Y, NEW Z, X \subseteq Z, Y \subseteq Z,
         Same(f, g, X), Same(g, h, Y)
  PROVE  Same(f, h, Z)
BY DEF Same

(* The old reference of a field is given up.                               *)
LEMMA ReplaceCounts ==
  ASSUME NEW h \in Heaps, NEW a \in Objs, h[a] # NULL, NEW f \in DOMAIN h[a].ptr,
         h[a].ptr[f] \in Objs => h[h[a].ptr[f]] # NULL, NEW p \in Pointers
  PROVE  LET g == Replace(h, a, f, p) IN
         /\ g \in Heaps /\ Same(h, g, {a})
         /\ g[a] # NULL /\ g[a].ptr = Repoint(h[a].ptr, f, p)
         /\ \A q \in Objs : Surplus(g, q) = Surplus(h, q) - One(p, q)
<1> DEFINE old == h[a].ptr[f]
           k == Py_DECREF(h, old)
           g == Steal(k, a, f, p)
<1>1. /\ k \in Heaps /\ SameObjects(h, k)
      /\ \A q \in Objs : Surplus(k, q) = Surplus(h, q) - One(old, q)
  BY DecrefCounts
<1>2. g = Replace(h, a, f, p)
  BY DEF Replace
<1> HIDE DEF k
<1>3. k[a] # NULL /\ k[a].ptr = h[a].ptr /\ Same(h, k, {})
  BY <1>1 DEF SameObjects, Same
<1>4. /\ g \in Heaps /\ Same(k, g, {a})
      /\ g[a] # NULL /\ g[a].ptr = Repoint(k[a].ptr, f, p)
      /\ \A q \in Objs : Surplus(g, q) = Surplus(k, q) + One(k[a].ptr[f], q) - One(p, q)
  <2>1. f \in DOMAIN k[a].ptr
    BY <1>3
  <2> QED BY <1>1, <1>3, <2>1, StealCounts
<1> HIDE DEF g, old
<1>5. Same(h, g, {a})
  BY <1>3, <1>4, SameOn
<1>6. ASSUME NEW q \in Objs PROVE Surplus(g, q) = Surplus(h, q) - One(p, q)
  <2>1. One(old, q) \in Int /\ One(p, q) \in Int /\ Surplus(h, q) \in Int
    BY SurplusTyped DEF One
  <2>2. Surplus(g, q) = Surplus(k, q) + One(old, q) - One(p, q)
    BY <1>3, <1>4 DEF old
  <2>3. Surplus(k, q) = Surplus(h, q) - One(old, q)
    BY <1>1
  <2> HIDE DEF One, Surplus
  <2> QED BY <2>1, <2>2, <2>3
<1> QED BY <1>2, <1>3, <1>4, <1>5, <1>6

(* No count changes but with the references there are.                     *)
Even(h, g) == g \in Heaps /\ \A q \in Objs : Surplus(g, q) = Surplus(h, q)

(* A field of a whole Attr can be read and written.                        *)
LEMMA AttrField ==
  ASSUME NEW h, Good(h, NULL), NEW a, IsA(h, a, "attr"), h[a].refs > 0, NEW f \in AttrFields
  PROVE  /\ h \in Heaps /\ a \in Objs /\ h[a] # NULL /\ f \in DOMAIN h[a].ptr
         /\ h[a].ptr[f] \in Objs => h[h[a].ptr[f]] # NULL
<1>1. h \in Heaps /\ a \in Objs /\ h[a] # NULL /\ a # NULL
  BY AnswersAssumption DEF Good, IsA
<1>2. h[a].ptr \in [AttrFields -> Pointers]
  BY <1>1, ObjectParts DEF Heaps, IsA
<1>3. Whole(h, a)
  BY <1>1 DEF Good
<1>4. h[a].ptr[f] = None \/ IsString(h, h[a].ptr[f]) \/ IsBop(h, h[a].ptr[f])
  BY <1>3 DEF Whole
<1>5. None \notin Objs
  BY AnswersAssumption
<1> QED BY <1>1, <1>2, <1>4, <1>5 DEF IsString, IsBop, IsA

(* convert_to_string, and convert_to_batchop with an operator.             *)
LEMMA AssignCounts ==
  ASSUME NEW h, Good(h, NULL), NEW a, IsA(h, a, "attr"), h[a].refs > 0,
         NEW f \in AttrFields, NEW p, p = None \/ IsString(h, p) \/ IsBop(h, p)
  PROVE  LET g == Replace(Py_INCREF(h, p), a, f, p) IN
         Even(h, g) /\ Same(h, g, {a}) /\ g[a].ptr = Repoint(h[a].ptr, f, p)
<1> DEFINE k == Py_INCREF(h, p)
           g == Replace(k, a, f, p)
<1>1. /\ h \in Heaps /\ a \in Objs /\ h[a] # NULL /\ f \in DOMAIN h[a].ptr
      /\ h[a].ptr[f] \in Objs => h[h[a].ptr[f]] # NULL
  BY AttrField
<1>2. p \in Pointers /\ (p \in Objs => h[p] # NULL)
  BY AnswersAssumption DEF Pointers, IsString, IsBop, IsA
<1>3. /\ k \in Heaps /\ SameObjects(h, k)
      /\ \A q \in Objs : Surplus(k, q) = Surplus(h, q) + One(p, q)
  BY <1>1, <1>2, IncrefCounts
<1> HIDE DEF k
<1>4. /\ k[a] # NULL /\ k[a].ptr = h[a].ptr /\ Same(h, k, {})
      /\ f \in DOMAIN k[a].ptr
      /\ k[a].ptr[f] \in Objs => k[k[a].ptr[f]] # NULL
  BY <1>1, <1>3 DEF SameObjects, Same
<1>5. /\ g \in Heaps /\ Same(k, g, {a})
      /\ g[a] # NULL /\ g[a].ptr = Repoint(k[a].ptr, f, p)
      /\ \A q \in Objs : Surplus(g, q) = Surplus(k, q) - One(p, q)
  BY <1>1, <1>2, <1>3, <1>4, ReplaceCounts
<1> HIDE DEF g
<1>6. Same(h, g, {a})
  BY <1>4, <1>5, SameOn
<1>7. ASSUME NEW q \in Objs PROVE Surplus(g, q) = Surplus(h, q)
  <2>1. One(p, q) \in Int /\ Surplus(h, q) \in Int
    BY <1>1, SurplusTyped DEF One
  <2> QED BY <1>3, <1>5, <2>1
<1> QED BY <1>4, <1>5, <1>6, <1>7 DEF g, k, Even

(* convert_to_string takes a reference and gives up another.               *)
LEMMA StringCounts ==
  ASSUME NEW h, NEW a, NEW r, Kept(h, a, r), NEW f \in AttrFields \ {"bop"}, NEW v,
         NEW s \in convert_to_string(r, a, f, v)
  PROVE  Even(r.heap, s.heap) /\ Same(r.heap, s.heap, {a})
<1>1. r.heap \in Heaps /\ r \in Results
  BY DEF Kept, Results
<1>2. CASE s.heap = r.heap
  BY <1>1, <1>2 DEF Even, Same
<1>3. CASE r.ok /\ (v = None \/ IsString(r.heap, v))
  <2>1. s = [r EXCEPT !.heap = Replace(Py_INCREF(r.heap, v), a, f, v)]
    BY <1>3 DEF convert_to_string
  <2>2. s.heap = Replace(Py_INCREF(r.heap, v), a, f, v)
    BY <1>1, <2>1 DEF Results
  <2> QED BY <1>3, <2>2, AssignCounts DEF Kept
<1>4. CASE ~(r.ok /\ (v = None \/ IsString(r.heap, v)))
  <2>1. s = r \/ s = [r EXCEPT !.ok = FALSE]
    BY <1>4 DEF convert_to_string
  <2>2. s.heap = r.heap
    BY <1>1, <2>1 DEF Results
  <2> QED BY <1>2, <2>2
<1> QED BY <1>3, <1>4

(* A new operator.                                                         *)
LEMMA OperatorCounts ==
  ASSUME NEW h \in Heaps, NEW s, NEW g \in BatchOp_New(h, s), g # h
  PROVE  LET n == Fresh(h) IN
         /\ g \in Heaps /\ Same(h, g, {})
         /\ n \in Objs /\ h[n] = NULL /\ IsBop(g, n)
         /\ \A o \in Objs : g[o] = NULL <=> h[o] = NULL /\ o # n
         /\ \A p \in Objs : Surplus(g, p) = Surplus(h, p) + One(n, p)
<1> DEFINE i == batchop_index(s)
<1>1. Free(h) # {} /\ i # 0 /\ g = Make(h, "bop", <<>>, i)
  BY DEF BatchOp_New
<1>2. i \in 1..BATCHOP_ARRAY_END
  BY <1>1, IndexInTable
<1> HIDE DEF i
<1>3. [kind |-> "bop", refs |-> 1, ptr |-> <<>>, val |-> i] \in Object
  BY <1>2 DEF Object
<1>4. \A f \in DOMAIN <<>> : <<>>[f] \notin Objs
  OBVIOUS
<1> DEFINE ptr == <<>>
<1> HIDE DEF ptr
<1>5. LET n == Fresh(h) IN
      /\ g \in Heaps /\ Same(h, g, {})
      /\ n \in Objs /\ h[n] = NULL
      /\ g[n] # NULL /\ g[n].kind = "bop"
      /\ \A o \in Objs : g[o] = NULL <=> h[o] = NULL /\ o # n
      /\ \A p \in Objs : Surplus(g, p) = Surplus(h, p) + One(n, p)
  <2>1. /\ g = Make(h, "bop", ptr, i)
        /\ [kind |-> "bop", refs |-> 1, ptr |-> ptr, val |-> i] \in Object
        /\ \A f \in DOMAIN ptr : ptr[f] \notin Objs
    BY <1>1, <1>3, <1>4 DEF ptr
  <2> QED BY <1>1, <2>1, MakeCounts
<1> QED BY <1>5 DEF IsBop, IsA

(* convert_to_batchop: the same, or a new operator in place of the old.    *)
LEMMA BatchopCounts ==
  ASSUME NEW h, NEW a, NEW r, Kept(h, a, r), NEW v,
         NEW s \in convert_to_batchop(r, a, v)
  PROVE  Even(r.heap, s.heap) /\ Same(r.heap, s.heap, {a})
<1>1. r.heap \in Heaps /\ r \in Results /\ "bop" \in AttrFields
  BY DEF Kept, Results, AttrFields
<1>2. CASE s.heap = r.heap
  BY <1>1, <1>2 DEF Even, Same
<1>3. ASSUME s = r \/ s = [r EXCEPT !.ok = FALSE]
      PROVE  Even(r.heap, s.heap) /\ Same(r.heap, s.heap, {a})
  <2>1. s.heap = r.heap
    BY <1>1, <1>3 DEF Results
  <2> QED BY <1>2, <2>1
<1>4. CASE r.ok /\ IsBop(r.heap, v)
  <2>1. s = [r EXCEPT !.heap = Replace(Py_INCREF(r.heap, v), a, "bop", v)]
    BY <1>4 DEF convert_to_batchop
  <2>2. s.heap = Replace(Py_INCREF(r.heap, v), a, "bop", v)
    BY <1>1, <2>1 DEF Results
  <2> QED BY <1>1, <1>4, <2>2, AssignCounts DEF Kept
<1>5. CASE r.ok /\ ~IsBop(r.heap, v) /\ (v = None \/ IsString(r.heap, v))
  <2>1. PICK m \in BatchOp_New(r.heap, IF v = None THEN NULL ELSE r.heap[v].val) :
          s = IF m = r.heap THEN [r EXCEPT !.ok = FALSE]
              ELSE [r EXCEPT !.heap = Replace(m, a, "bop", Fresh(r.heap))]
    BY <1>5 DEF convert_to_batchop
  <2>2. CASE m = r.heap
    BY <1>3, <2>1, <2>2
  <2>3. CASE m # r.heap
    <3> DEFINE n == Fresh(r.heap)
               g == Replace(m, a, "bop", n)
    <3>1. /\ m \in Heaps /\ Same(r.heap, m, {})
          /\ n \in Objs /\ r.heap[n] = NULL /\ IsBop(m, n)
          /\ \A o \in Objs : m[o] = NULL <=> r.heap[o] = NULL /\ o # n
          /\ \A p \in Objs : Surplus(m, p) = Surplus(r.heap, p) + One(n, p)
      BY <1>1, <2>3, OperatorCounts
    <3>2. s.heap = g
      <4>1. s = [r EXCEPT !.heap = g]
        BY <2>1, <2>3
      <4> HIDE DEF g
      <4> QED BY <1>1, <4>1 DEF Results
    <3>3. /\ a \in Objs /\ r.heap[a] # NULL /\ "bop" \in DOMAIN r.heap[a].ptr
          /\ r.heap[a].ptr["bop"] \in Objs => r.heap[r.heap[a].ptr["bop"]] # NULL
      BY <1>1, AttrField DEF Kept
    <3> HIDE DEF n
    <3>4. /\ m[a] # NULL /\ "bop" \in DOMAIN m[a].ptr /\ n \in Pointers
          /\ m[a].ptr["bop"] \in Objs => m[m[a].ptr["bop"]] # NULL
      BY <3>1, <3>3 DEF Same, Pointers
    <3>5. /\ g \in Heaps /\ Same(m, g, {a})
          /\ \A q \in Objs : Surplus(g, q) = Surplus(m, q) - One(n, q)
      BY <3>1, <3>3, <3>4, ReplaceCounts
    <3> HIDE DEF g
    <3>6. Same(r.heap, g, {a})
      BY <3>1, <3>5, SameOn
    <3>7. ASSUME NEW q \in Objs PROVE Surplus(g, q) = Surplus(r.heap, q)
      <4>1. One(n, q) \in Int /\ Surplus(r.heap, q) \in Int
        BY <1>1, SurplusTyped DEF One
      <4> QED BY <3>1, <3>5, <4>1
    <3> QED BY <3>2, <3>5, <3>6, <3>7 DEF Even
  <2> QED BY <2>2, <2>3
<1>6. CASE ~r.ok \/ (~IsBop(r.heap, v) /\ ~(v = None \/ IsString(r.heap, v)))
  <2>1. s = r \/ s = [r EXCEPT !.ok = FALSE]
    BY <1>6 DEF convert_to_batchop
  <2> QED BY <1>3, <2>1
<1> QED BY <1>4, <1>5, <1>6

(* Even steps, one after the other.                                        *)
LEMMA EvenOn ==
  ASSUME NEW f, NEW g, NEW h, NEW X, Even(f, g), Same(f, g, X), Even(g, h), Same(g, h, X)
  PROVE  Even(f, h) /\ Same(f, h, X)
BY DEF Even, Same

(* However far attr__init comes, the counts are right.                     *)
LEMMA InitCounts ==
  ASSUME NEW h, Good(h, NULL), NEW a, IsA(h, a, "attr"), h[a].refs > 0,
         NEW name, NEW value, NEW rscn, NEW bop,
         NEW s \in attr__init(h, a, name, value, rscn, bop)
  PROVE  Even(h, s.heap) /\ Same(h, s.heap, {a})
<1> DEFINE r0 == [heap |-> h, ok |-> TRUE]
           Fine(r) == Kept(h, a, r) /\ Even(h, r.heap) /\ Same(h, r.heap, {a})
<1>1. Fine(r0)
  BY KeepsSame DEF Kept, Results, Good, Even, Same
<1>2. {"name", "value", "rscn"} \subseteq AttrFields \ {"bop"}
  BY DEF AttrFields
<1>3. ASSUME NEW r, Fine(r), NEW f \in AttrFields \ {"bop"}, NEW v,
             NEW t \in Optional(r, v, convert_to_string(r, a, f, v))
      PROVE  Fine(t)
  <2>1. CASE t = r
    BY <1>3, <2>1
  <2>2. CASE t \in convert_to_string(r, a, f, v)
    BY <1>3, <2>2, StringConverted, StringCounts, EvenOn
  <2> QED BY <1>3, <2>1, <2>2 DEF Optional
<1>4. ASSUME NEW r, Fine(r), NEW v,
             NEW t \in Optional(r, v, convert_to_batchop(r, a, v))
      PROVE  Fine(t)
  <2>1. CASE t = r
    BY <1>4, <2>1
  <2>2. CASE t \in convert_to_batchop(r, a, v)
    BY <1>4, <2>2, BatchopConverted, BatchopCounts, EvenOn
  <2> QED BY <1>4, <2>1, <2>2 DEF Optional
<1> HIDE DEF Fine
<1> DEFINE R3(r3) == Optional(r3, bop, convert_to_batchop(r3, a, bop))
           R2(r2) == Optional(r2, rscn, convert_to_string(r2, a, "rscn", rscn))
           R1(r1) == Optional(r1, value, convert_to_string(r1, a, "value", value))
           R0 == Optional(r0, name, convert_to_string(r0, a, "name", name))
<1>5. s \in UNION {UNION {UNION {R3(r3) : r3 \in R2(r2)} : r2 \in R1(r1)} : r1 \in R0}
  BY DEF attr__init
<1>6. PICK r1 \in R0 : s \in UNION {UNION {R3(r3) : r3 \in R2(r2)} : r2 \in R1(r1)}
  <2> HIDE DEF R0, R1, R2, R3
  <2> QED BY <1>5
<1>7. PICK r2 \in R1(r1) : s \in UNION {R3(r3) : r3 \in R2(r2)}
  <2> HIDE DEF R0, R1, R2, R3
  <2> QED BY <1>6
<1>8. PICK r3 \in R2(r2) : s \in R3(r3)
  <2> HIDE DEF R0, R1, R2, R3
  <2> QED BY <1>7
<1> HIDE DEF r0
<1>9. Fine(r1)
  BY <1>1, <1>2, <1>3, <1>6
<1>10. Fine(r2)
  BY <1>2, <1>3, <1>7, <1>9
<1>11. Fine(r3)
  BY <1>2, <1>3, <1>10, <1>8
<1>12. Fine(s)
  BY <1>4, <1>11, <1>8
<1> QED BY <1>12 DEF Fine

(* attr__new makes an Attr with a count of one, or nothing that lasts.     *)
LEMMA NewCounts ==
  ASSUME NEW h \in Heaps, NEW r \in attr__new(h)
  PROVE  /\ r.heap \in Heaps /\ Same(h, r.heap, {})
         /\ r.attr # NULL => r.attr \in Objs /\ h[r.attr] = NULL /\ r.heap[r.attr] # NULL
         /\ \A p \in Objs : Surplus(r.heap, p) = Surplus(h, p) + One(r.attr, p)
<1>1. CASE r = [heap |-> h, attr |-> NULL]
  <2>1. \A p \in Objs : One(NULL, p) = 0
    BY AnswersAssumption DEF One
  <2> QED BY <1>1, <2>1, SurplusTyped DEF Same
<1>2. CASE r # [heap |-> h, attr |-> NULL]
  <2> DEFINE a == Fresh(h)
             ptr == [f \in AttrFields |-> IF f = "bop" THEN NULL ELSE None]
             h1 == Make(h, "attr", ptr, NULL)
             n == Fresh(h1)
  <2>1. PICK h2 \in BatchOp_New(h1, NULL) :
          r = IF h2 = h1 THEN [heap |-> Py_DECREF(h1, a), attr |-> NULL]
              ELSE [heap |-> Steal(h2, a, "bop", n), attr |-> a]
    BY <1>2 DEF attr__new
  <2>2. Free(h) # {}
    BY <1>2 DEF attr__new
  <2>3. /\ ptr \in [AttrFields -> Pointers] /\ "bop" \in AttrFields
        /\ ptr["bop"] = NULL /\ \A f \in DOMAIN ptr : ptr[f] \notin Objs
    BY AnswersAssumption DEF Pointers, AttrFields
  <2> HIDE DEF ptr
  <2>4. [kind |-> "attr", refs |-> 1, ptr |-> ptr, val |-> NULL] \in Object
    BY <2>3 DEF Object
  <2>5. /\ h1 \in Heaps /\ Same(h, h1, {})
        /\ a \in Objs /\ h[a] = NULL
        /\ h1[a] # NULL /\ h1[a].kind = "attr" /\ h1[a].ptr = ptr
        /\ \A o \in Objs : h1[o] = NULL <=> h[o] = NULL /\ o # a
        /\ \A p \in Objs : Surplus(h1, p) = Surplus(h, p) + One(a, p)
    BY <2>2, <2>3, <2>4, MakeCounts
  <2>6. a # NULL /\ NULL \notin Objs
    BY <2>5, AnswersAssumption
  <2> HIDE DEF a, h1
  <2>7. CASE h2 = h1
    <3> DEFINE g == Py_DECREF(h1, a)
    <3>1. /\ g \in Heaps /\ SameObjects(h1, g)
          /\ \A p \in Objs : Surplus(g, p) = Surplus(h1, p) - One(a, p)
      BY <2>5, DecrefCounts
    <3>2. r.heap = g /\ r.attr = NULL
      BY <2>1, <2>7
    <3> HIDE DEF g
    <3>3. Same(h, g, {})
      BY <2>5, <3>1 DEF Same, SameObjects
    <3>4. ASSUME NEW p \in Objs PROVE Surplus(g, p) = Surplus(h, p) + One(NULL, p)
      <4>1. One(NULL, p) = 0 /\ One(a, p) \in Int /\ Surplus(h, p) \in Int
        BY <2>6, SurplusTyped DEF One
      <4> QED BY <2>5, <3>1, <4>1
    <3> QED BY <3>1, <3>2, <3>3, <3>4
  <2>8. CASE h2 # h1
    <3>1. /\ h2 \in Heaps /\ Same(h1, h2, {})
          /\ n \in Objs /\ h1[n] = NULL
          /\ \A p \in Objs : Surplus(h2, p) = Surplus(h1, p) + One(n, p)
      BY <2>5, <2>8, OperatorCounts
    <3> HIDE DEF n
    <3> DEFINE g == Steal(h2, a, "bop", n)
    <3>2. /\ h2[a] # NULL /\ h2[a].ptr = ptr /\ "bop" \in DOMAIN h2[a].ptr
          /\ h2[a].ptr["bop"] = NULL /\ n \in Pointers
      BY <2>3, <2>5, <3>1 DEF Same, Pointers
    <3>3. /\ g \in Heaps /\ Same(h2, g, {a}) /\ g[a] # NULL
          /\ \A p \in Objs :
               Surplus(g, p) = Surplus(h2, p) + One(h2[a].ptr["bop"], p) - One(n, p)
      <4>1. /\ h2 \in Heaps /\ a \in Objs /\ h2[a] # NULL /\ "bop" \in DOMAIN h2[a].ptr
            /\ n \in Pointers
        BY <2>5, <3>1, <3>2
      <4> QED BY <4>1, StealCounts
    <3>4. r.heap = g /\ r.attr = a
      BY <2>1, <2>8
    <3> HIDE DEF g
    <3>5. Same(h, g, {})
      BY <2>5, <3>1, <3>3 DEF Same
    <3>6. ASSUME NEW p \in Objs PROVE Surplus(g, p) = Surplus(h, p) + One(a, p)
      <4>1. One(NULL, p) = 0 /\ One(a, p) \in Int /\ One(n, p) \in Int /\ Surplus(h, p) \in Int
        BY <2>6, SurplusTyped DEF One
      <4>2. Surplus(g, p) = Surplus(h2, p) + One(NULL, p) - One(n, p)
        BY <3>2, <3>3
      <4> QED BY <2>5, <3>1, <4>1, <4>2
    <3> QED BY <2>5, <3>3, <3>4, <3>5, <3>6
  <2> QED BY <2>7, <2>8
<1> QED BY <1>1, <1>2

-------------------------------------------------------------------------------
(* The conversion that is running, and what it has not filled yet.         *)

InList == {"next", "append"} \cup InStatus
InData == InStatus \ {"data"}
InAttrs == {"next_attr"} \cup InAttr
InKwds == {"key_name", "key_value", "key_resource", "init"}

(* Which local variables have an object.                                   *)
Locals(fr) ==
  /\ fr.list \in IF fr.at \in InList THEN Objs ELSE {NULL}
  /\ fr.data \in IF fr.at \in InData THEN Objs ELSE {NULL}
  /\ fr.attribs \in IF fr.at \in InAttrs THEN Objs \ {fr.list} ELSE {NULL}
  /\ fr.at \in InKwds => fr.kwds \in Objs
  /\ fr.at \notin InAttr \ {"attr"} => fr.attr = NULL /\ fr.kwds = NULL

(* List l has n places, and those from k on are empty.                     *)
EmptyFrom(h, l, n, k) == DOMAIN h[l].ptr = 1..n /\ \A m \in k..n : h[l].ptr[m] = NULL

(* Where the next objects go.                                              *)
ListRoom(h, fr) ==
  /\ fr.at \in {"idle", "list", "argv"} => fr.i = 0
  /\ fr.at = "next" => fr.i \in 0..Len(fr.in) /\ EmptyFrom(h, fr.list, Len(fr.in), fr.i + 1)
  /\ fr.at \in InStatus => EmptyFrom(h, fr.list, Len(fr.in), fr.i)
AttrsRoom(h, fr) ==
  LET n == Len(fr.in[fr.i].attribs) IN
  /\ fr.at \notin InAttrs => fr.j = 0
  /\ fr.at = "next_attr" => fr.j \in 0..n /\ EmptyFrom(h, fr.attribs, n, fr.j + 1)
  /\ fr.at \in InAttr => EmptyFrom(h, fr.attribs, n, fr.j)
DataRoom(h, fr) ==
  /\ fr.at = "name" => h[fr.data].ptr["name"] = NULL
  /\ fr.at \in {"name", "text"} => h[fr.data].ptr["text"] = NULL
  /\ fr.at \in InData \ {"data_error"} => h[fr.data].ptr["attribs"] = NULL
KwdsRoom(h, fr) ==
  /\ fr.at = "key_name" => h[fr.kwds].ptr["name"] = NULL
  /\ fr.at \in {"key_name", "key_value"} => h[fr.kwds].ptr["value"] = NULL
  /\ fr.at \in {"key_name", "key_value", "key_resource"} => h[fr.kwds].ptr["resource"] = NULL
Rooms(h, fr) == ListRoom(h, fr) /\ AttrsRoom(h, fr) /\ DataRoom(h, fr) /\ KwdsRoom(h, fr)

Shape(h, fr) == Locals(fr) /\ Rooms(h, fr)

(* How many local variables have p.                                        *)
Locs(fr, p) ==
  One(fr.list, p) + One(fr.data, p) + One(fr.attribs, p) + One(fr.attr, p) + One(fr.kwds, p)

(* What a step does to the counts is what it does to the references.       *)
Squares == \A p \in Objs :
  Surplus(heap', p) - Locs(frame', p) - held'[p] = Surplus(heap, p) - Locs(frame, p) - held[p]

(* None and a null pointer are no object.                                  *)
LEMMA NoObject == \A p \in Objs : One(NULL, p) = 0 /\ One(None, p) = 0
BY AnswersAssumption DEF One

(* The numbers are numbers.                                                *)
LEMMA OneTyped == \A q, p : One(q, p) \in 0..1
BY DEF One

(* A list that is not touched has the same places.                         *)
LEMMA EmptyKept ==
  ASSUME NEW h, NEW g, NEW X, Same(h, g, X), NEW l \in Objs \ X, h[l] # NULL,
         NEW n, NEW k, EmptyFrom(h, l, n, k)
  PROVE  EmptyFrom(g, l, n, k)
BY DEF Same, EmptyFrom

(* The places that are empty after one is filled.                          *)
LEMMA EmptyFilled ==
  ASSUME NEW h, NEW g, NEW l, NEW n \in Nat, NEW k \in 1..n, EmptyFrom(h, l, n, k), NEW p,
         g[l].ptr = Repoint(h[l].ptr, k, p)
  PROVE  EmptyFrom(g, l, n, k + 1)
BY DEF EmptyFrom, Repoint

(* And when one is left empty.                                             *)
LEMMA EmptyLess ==
  ASSUME NEW h, NEW l, NEW n \in Nat, NEW k \in Nat, EmptyFrom(h, l, n, k)
  PROVE  EmptyFrom(h, l, n, k + 1)
BY DEF EmptyFrom

(* No two local variables have the same object.                            *)
LEMMA LocsDiffer ==
  ASSUME NEW h, NEW fr, FrameLeads(h, fr), Locals(fr), NEW p \in Objs
  PROVE  Locs(fr, p) =
           IF p \in {fr.list, fr.data, fr.attribs, fr.attr, fr.kwds} THEN 1 ELSE 0
<1>1. fr.list = p => fr.attribs # p
  BY AnswersAssumption DEF Locals
<1>2. /\ fr.list = p \/ fr.attribs = p => fr.data # p /\ fr.attr # p /\ fr.kwds # p
      /\ fr.data = p => fr.attr # p /\ fr.kwds # p
      /\ fr.attr = p => fr.kwds # p
  BY DEF FrameLeads, Points, IsA
<1> QED BY <1>1, <1>2 DEF Locs, One

(* The balance in these terms.                                             *)
LEMMA BalanceNow ==
  ASSUME TypeOK, FrameLeads(heap, frame), Locals(frame), NEW p \in Objs
  PROVE  /\ Balance(p) = Surplus(heap, p) - Locs(frame, p) - held[p] - One(PBS_NULLSTR, p)
         /\ Surplus(heap, p) \in Int /\ Locs(frame, p) \in Int /\ held[p] \in Int
<1>1. heap \in Heaps /\ held[p] \in Nat
  BY DEF TypeOK, Heaps
<1>2. Locs(frame, p) = IF p \in Framed THEN 1 ELSE 0
  BY LocsDiffer DEF Framed
<1>3. /\ Cardinality(Fields(heap, p)) \in Nat /\ Count(heap, p) \in Int
      /\ Surplus(heap, p) \in Int /\ Locs(frame, p) \in Int /\ One(PBS_NULLSTR, p) \in Int
  BY <1>1, <1>2, FieldsFew, SurplusTyped, OneTyped
<1>4. One(PBS_NULLSTR, p) = IF p = PBS_NULLSTR THEN 1 ELSE 0
  BY DEF One
<1>5. Balance(p) = Count(heap, p) - (held[p] + Locs(frame, p) + One(PBS_NULLSTR, p)
                                     + Cardinality(Fields(heap, p)))
  BY <1>2, <1>4 DEF Balance, Holders, Count
<1> QED BY <1>1, <1>3, <1>5 DEF Surplus

(* The same after a step.                                                  *)
LEMMA BalanceNext ==
  ASSUME TypeOK', FrameLeads(heap', frame'), Locals(frame'), NEW p \in Objs
  PROVE  /\ Balance(p)' = Surplus(heap', p) - Locs(frame', p) - held'[p] - One(PBS_NULLSTR, p)
         /\ Surplus(heap', p) \in Int /\ Locs(frame', p) \in Int /\ held'[p] \in Int
<1>1. heap' \in Heaps /\ held'[p] \in Nat
  BY DEF TypeOK, Heaps
<1>2. Locs(frame', p) = IF p \in Framed' THEN 1 ELSE 0
  BY LocsDiffer DEF Framed
<1>3. /\ Cardinality(Fields(heap', p)) \in Nat /\ Count(heap', p) \in Int
      /\ Surplus(heap', p) \in Int /\ Locs(frame', p) \in Int /\ One(PBS_NULLSTR, p) \in Int
  BY <1>1, <1>2, FieldsFew, SurplusTyped, OneTyped
<1>4. One(PBS_NULLSTR, p) = IF p = PBS_NULLSTR THEN 1 ELSE 0
  BY DEF One
<1>5. Balance(p)' = Count(heap', p) - (held'[p] + Locs(frame', p) + One(PBS_NULLSTR, p)
                                       + Cardinality(Fields(heap', p)))
  BY <1>2, <1>4 DEF Balance, Holders, Count, Fields
<1> QED BY <1>1, <1>3, <1>5 DEF Surplus

(* Nothing is converted.                                                   *)
LEMMA IdleShape == (\A h : Shape(h, Idle)) /\ \A p \in Objs : Locs(Idle, p) = 0
<1>1. \A h : Shape(h, Idle)
  BY DEF Shape, Locals, Rooms, ListRoom, AttrsRoom, DataRoom, KwdsRoom, Idle,
         InList, InData, InAttrs, InKwds, InStatus, InAttr
<1>2. ASSUME NEW p \in Objs PROVE Locs(Idle, p) = 0
  BY NoObject DEF Locs, Idle
<1> QED BY <1>1, <1>2

-------------------------------------------------------------------------------
(* The steps of a conversion.                                              *)

(* What a step of a conversion leaves.                                     *)
Counts == Shape(heap', frame') /\ Squares

(* A conversion is at work on the heap that is.                            *)
Working == IInv /\ Sound /\ Settled /\ Shape(heap, frame)

(* What is known then.                                                     *)
LEMMA WorkingHas ==
  ASSUME Working
  PROVE  /\ TypeOK /\ heap \in Heaps /\ Good(heap, NULL) /\ frame \in Frame /\ FrameFits(frame)
         /\ FrameLeads(heap, frame) /\ Locals(frame) /\ Rooms(heap, frame)
         /\ held \in [Objs -> Nat]
         /\ \A p \in Objs : Surplus(heap, p) \in Int /\ held[p] \in Int
BY SurplusTyped DEF Working, IInv, Good, FrameFits, Shape, TypeOK

(* Nothing is converted after a step that leaves the counts alone.         *)
LEMMA CountsIdle ==
  ASSUME UNCHANGED <<heap, held>>, frame' = Idle,
         \A p \in Objs : Locs(frame, p) = 0
  PROVE  Counts
BY IdleShape DEF Counts, Squares

(* The list goes to the program: it has the reference of the method.       *)
LEMMA CountsReturns ==
  ASSUME Working, frame.at \in {"next", "append"}, Returns
  PROVE  Counts
<1>1. /\ heap' = heap /\ frame' = Idle /\ held' = [held EXCEPT ![frame.list] = @ + 1]
      /\ held \in [Objs -> Nat]
  BY WorkingHas DEF Returns
<1>2. /\ frame.data = NULL /\ frame.attribs = NULL /\ frame.attr = NULL /\ frame.kwds = NULL
      /\ frame.list \in Objs
  BY WorkingHas DEF Locals, InList, InData, InAttrs, InStatus, InAttr
<1>3. ASSUME NEW p \in Objs
      PROVE  Surplus(heap', p) - Locs(frame', p) - held'[p]
               = Surplus(heap, p) - Locs(frame, p) - held[p]
  <2>1. Locs(frame, p) = One(frame.list, p) /\ Locs(frame', p) = 0
    BY <1>1, <1>2, NoObject, IdleShape, OneTyped DEF Locs
  <2>2. held'[p] = held[p] + One(frame.list, p)
    BY <1>1, <1>2 DEF One
  <2>3. Surplus(heap, p) \in Int /\ One(frame.list, p) \in Int /\ held[p] \in Int
    BY WorkingHas, OneTyped
  <2> QED BY <1>1, <2>1, <2>2, <2>3
<1> QED BY <1>1, <1>3, IdleShape DEF Counts, Squares

(* A method has its answer.                                                *)
LEMMA CountsRequest ==
  ASSUME Working, NEW in, NEW at \in {"list", "argv"}, Request(in, at) PROVE Counts
<1>1. /\ frame = Idle /\ frame' = [Idle EXCEPT !.in = in, !.at = at]
      /\ heap' = heap /\ held' = held
  BY DEF Request
<1>2. /\ frame'.at = at /\ frame'.i = 0 /\ frame'.j = 0 /\ frame'.list = NULL
      /\ frame'.data = NULL /\ frame'.attribs = NULL /\ frame'.attr = NULL
      /\ frame'.kwds = NULL
  BY <1>1 DEF Idle
<1>3. Shape(heap', frame')
  BY <1>2 DEF Shape, Locals, Rooms, ListRoom, AttrsRoom, DataRoom, KwdsRoom,
              InList, InData, InAttrs, InKwds, InStatus, InAttr
<1>4. \A p \in Objs : Locs(frame', p) = 0 /\ Locs(frame, p) = 0
  BY <1>1, <1>2, NoObject, IdleShape DEF Locs
<1> QED BY <1>1, <1>3, <1>4 DEF Counts, Squares

(* A list of empty places.                                                 *)
LEMMA NullsCounts ==
  ASSUME NEW h \in Heaps, Free(h) # {}, NEW n \in Nat
  PROVE  LET g == Make(h, "list", Nulls(n), NULL)
             l == Fresh(h) IN
         /\ g \in Heaps /\ Same(h, g, {}) /\ l \in Objs /\ h[l] = NULL
         /\ EmptyFrom(g, l, n, 1)
         /\ \A p \in Objs : Surplus(g, p) = Surplus(h, p) + One(l, p)
<1> DEFINE g == Make(h, "list", Nulls(n), NULL)
           l == Fresh(h)
           ptr == Nulls(n)
<1>1. [kind |-> "list", refs |-> 1, ptr |-> ptr, val |-> NULL] \in Object
  BY NullsTyped
<1>2. DOMAIN ptr = 1..n /\ \A k \in 1..n : ptr[k] = NULL
  BY DEF Nulls
<1>3. \A f \in DOMAIN ptr : ptr[f] \notin Objs
  BY <1>2, AnswersAssumption
<1> HIDE DEF ptr
<1>4. /\ g \in Heaps /\ Same(h, g, {}) /\ l \in Objs /\ h[l] = NULL /\ g[l].ptr = ptr
      /\ \A p \in Objs : Surplus(g, p) = Surplus(h, p) + One(l, p)
  <2>1. g = Make(h, "list", ptr, NULL)
    BY DEF ptr
  <2> HIDE DEF g
  <2> QED BY <1>1, <1>3, <2>1, MakeCounts
<1> HIDE DEF g, l
<1>5. EmptyFrom(g, l, n, 1)
  BY <1>2, <1>4 DEF EmptyFrom
<1> QED BY <1>4, <1>5 DEF g, l

(* bs_to_py_list.                                                          *)
LEMMA CountsStatuses ==
  ASSUME Working, bs_to_py_list PROVE Counts
<1>0. frame \in Frame /\ heap \in Heaps
  BY WorkingHas
<1>1. CASE At("list")
           /\ Allocates("list", Nulls(Len(frame.in)), [Goto("next") EXCEPT !.list = Fresh(heap)])
  <2> DEFINE l == Fresh(heap)
             n == Len(frame.in)
  <2>1. /\ frame.at = "list" /\ held' = held /\ Free(heap) # {}
        /\ heap' = Make(heap, "list", Nulls(n), NULL)
        /\ frame' = [Goto("next") EXCEPT !.list = l]
    BY <1>1 DEF At, Allocates
  <2>2. n \in Nat
    BY <2>1, WorkingHas DEF FrameFits
  <2>3. /\ l \in Objs /\ EmptyFrom(heap', l, n, 1)
        /\ \A p \in Objs : Surplus(heap', p) = Surplus(heap, p) + One(l, p)
    BY <1>0, <2>1, <2>2, NullsCounts
  <2> HIDE DEF l
  <2>4. /\ frame'.at = "next" /\ frame'.in = frame.in /\ frame'.i = frame.i
        /\ frame'.j = frame.j /\ frame'.list = l /\ frame'.data = frame.data
        /\ frame'.attribs = frame.attribs /\ frame'.attr = frame.attr
        /\ frame'.kwds = frame.kwds
    BY <1>0, <2>1 DEF Frame, Goto
  <2>5. /\ frame.i = 0 /\ frame.j = 0 /\ frame.list = NULL /\ frame.data = NULL
        /\ frame.attribs = NULL /\ frame.attr = NULL /\ frame.kwds = NULL
    BY <2>1, WorkingHas DEF Rooms, ListRoom, AttrsRoom, Locals, InList, InData, InAttrs,
                            InStatus, InAttr
  <2>6. Locals(frame')
    BY <2>3, <2>4, <2>5 DEF Locals, InList, InData, InAttrs, InKwds, InStatus, InAttr
  <2>7. Rooms(heap', frame')
    BY <2>2, <2>3, <2>4, <2>5 DEF Rooms, ListRoom, AttrsRoom, DataRoom, KwdsRoom,
                             InList, InData, InAttrs, InKwds, InStatus, InAttr
  <2>8. ASSUME NEW p \in Objs
        PROVE  Surplus(heap', p) - Locs(frame', p) - held'[p]
                 = Surplus(heap, p) - Locs(frame, p) - held[p]
    <3>1. Locs(frame', p) = One(l, p) /\ Locs(frame, p) = 0
      BY <2>4, <2>5, NoObject, OneTyped DEF Locs
    <3>2. Surplus(heap, p) \in Int /\ One(l, p) \in Int /\ held[p] \in Int
      BY WorkingHas, OneTyped
    <3> QED BY <2>1, <2>3, <3>1, <3>2
  <2> QED BY <2>6, <2>7, <2>8 DEF Counts, Shape, Squares
<1>2. CASE At("list") /\ Fails /\ UNCHANGED heap
  <2>1. frame.at = "list" /\ UNCHANGED <<heap, held>> /\ frame' = Idle
    BY <1>2 DEF At, Fails
  <2>2. /\ frame.list = NULL /\ frame.data = NULL
        /\ frame.attribs = NULL /\ frame.attr = NULL /\ frame.kwds = NULL
    BY <2>1, WorkingHas DEF Locals, InList, InData, InAttrs, InStatus, InAttr
  <2>3. \A p \in Objs : Locs(frame, p) = 0
    BY <2>2, NoObject DEF Locs
  <2> QED BY <2>1, <2>3, CountsIdle
<1>3. CASE At("next") /\ frame.i < Len(frame.in)
           /\ frame' = [Goto("data") EXCEPT !.i = @ + 1] /\ UNCHANGED <<heap, pending>>
  <2> DEFINE m == frame.i + 1
  <2>1. frame.at = "next" /\ UNCHANGED <<heap, held>>
    BY <1>3 DEF At
  <2>2. frame' = [[frame EXCEPT !.at = "data"] EXCEPT !.i = m]
    BY <1>0, <1>3 DEF Frame, Goto
  <2> HIDE DEF m
  <2>3. /\ frame'.at = "data" /\ frame'.in = frame.in /\ frame'.i = m
        /\ frame'.j = frame.j /\ frame'.list = frame.list /\ frame'.data = frame.data
        /\ frame'.attribs = frame.attribs /\ frame'.attr = frame.attr
        /\ frame'.kwds = frame.kwds
    BY <1>0, <2>2 DEF Frame
  <2>4. Locals(frame')
    BY <2>1, <2>3, WorkingHas DEF Locals, InList, InData, InAttrs, InKwds, InStatus, InAttr
  <2>5. Rooms(heap', frame')
    BY <2>1, <2>3, WorkingHas DEF m, Rooms, ListRoom, AttrsRoom, DataRoom, KwdsRoom,
                                  InList, InData, InAttrs, InKwds, InStatus, InAttr
  <2>6. Squares
    BY <2>1, <2>3 DEF Squares, Locs
  <2> QED BY <2>4, <2>5, <2>6 DEF Counts, Shape
<1>4. CASE frame.at = "next" /\ frame.i = Len(frame.in) /\ Returns
  BY <1>4, CountsReturns
<1> QED BY <1>1, <1>2, <1>3, <1>4 DEF bs_to_py_list

(* The conversion goes on with the same local variables.                   *)
LEMMA GotoParts ==
  ASSUME Working, NEW next, frame' = Goto(next)
  PROVE  /\ frame'.at = next /\ frame'.in = frame.in /\ frame'.i = frame.i
         /\ frame'.j = frame.j /\ frame'.list = frame.list /\ frame'.data = frame.data
         /\ frame'.attribs = frame.attribs /\ frame'.attr = frame.attr
         /\ frame'.kwds = frame.kwds
<1>1. frame \in Frame
  BY WorkingHas
<1> QED BY <1>1 DEF Frame, Goto

(* What local variables have is of different kinds.                        *)
LEMMA LocalsLive ==
  ASSUME Working
  PROVE  /\ frame.list \in Objs =>
              heap[frame.list] # NULL /\ heap[frame.list].kind = "list"
         /\ frame.attribs \in Objs =>
              heap[frame.attribs] # NULL /\ heap[frame.attribs].kind = "list"
         /\ frame.data \in Objs =>
              heap[frame.data] # NULL /\ heap[frame.data].kind = "data"
         /\ frame.attr \in Objs =>
              heap[frame.attr] # NULL /\ heap[frame.attr].kind = "attr"
         /\ frame.kwds \in Objs =>
              heap[frame.kwds] # NULL /\ heap[frame.kwds].kind = "dict"
BY WorkingHas DEF FrameLeads, Points, IsA

(* Their fields.                                                           *)
LEMMA LocalsFields ==
  ASSUME Working
  PROVE  /\ frame.data \in Objs => DOMAIN heap[frame.data].ptr = DataFields
         /\ frame.kwds \in Objs => DOMAIN heap[frame.kwds].ptr = Keys
<1>1. heap \in Heaps
  BY WorkingHas
<1>2. ASSUME frame.data \in Objs PROVE DOMAIN heap[frame.data].ptr = DataFields
  <2>1. heap[frame.data] \in Object /\ heap[frame.data].kind = "data"
    BY <1>1, <1>2, LocalsLive DEF Heaps
  <2> QED BY <2>1, ObjectParts
<1>3. ASSUME frame.kwds \in Objs PROVE DOMAIN heap[frame.kwds].ptr = Keys
  <2>1. heap[frame.kwds] \in Object /\ heap[frame.kwds].kind = "dict"
    BY <1>1, <1>3, LocalsLive DEF Heaps
  <2> QED BY <2>1, ObjectParts
<1> QED BY <1>2, <1>3

(* A string.                                                               *)
LEMMA StringMade ==
  ASSUME NEW h \in Heaps, Free(h) # {}, NEW s \in Text
  PROVE  LET g == Make(h, "str", <<>>, s)
             n == Fresh(h) IN
         /\ g \in Heaps /\ Same(h, g, {}) /\ n \in Objs /\ h[n] = NULL
         /\ g[n] # NULL /\ g[n].kind = "str" /\ g[n].val = s
         /\ \A p \in Objs : Surplus(g, p) = Surplus(h, p) + One(n, p)
<1> DEFINE ptr == <<>>
<1>1. /\ [kind |-> "str", refs |-> 1, ptr |-> ptr, val |-> s] \in Object
      /\ \A f \in DOMAIN ptr : ptr[f] \notin Objs
  BY NewTyped
<1>2. Make(h, "str", <<>>, s) = Make(h, "str", ptr, s)
  OBVIOUS
<1> HIDE DEF ptr
<1> QED BY <1>1, <1>2, MakeCounts

(* A field of the Data or of the dictionary that was empty has an object,  *)
(* and its reference.                                                      *)
Fills(h, g, o, f, v) ==
  /\ g \in Heaps /\ Same(h, g, {o}) /\ g[o].ptr = Repoint(h[o].ptr, f, v)
  /\ g[o] # NULL
  /\ \A q \in Objs : Surplus(g, q) = Surplus(h, q)

(* How that comes about.                                                   *)
LEMMA Filled ==
  ASSUME NEW h \in Heaps, NEW k \in Heaps, Same(h, k, {}),
         NEW o \in Objs, h[o] # NULL, NEW f \in DOMAIN h[o].ptr, h[o].ptr[f] = NULL,
         NEW v \in Pointers, \A q \in Objs : Surplus(k, q) = Surplus(h, q) + One(v, q)
  PROVE  Fills(h, Steal(k, o, f, v), o, f, v)
<1> DEFINE g == Steal(k, o, f, v)
<1>1. k[o] # NULL /\ k[o].ptr = h[o].ptr
  BY DEF Same
<1>2. f \in DOMAIN k[o].ptr
  BY <1>1
<1>3. /\ g \in Heaps /\ Same(k, g, {o}) /\ g[o] # NULL
      /\ g[o].ptr = Repoint(k[o].ptr, f, v)
      /\ \A q \in Objs : Surplus(g, q) = Surplus(k, q) + One(k[o].ptr[f], q) - One(v, q)
  BY <1>1, <1>2, StealCounts
<1> HIDE DEF g
<1>4. Same(h, g, {o})
  BY <1>3, SameOn
<1>5. ASSUME NEW q \in Objs PROVE Surplus(g, q) = Surplus(h, q)
  <2>1. Surplus(g, q) = Surplus(k, q) + 0 - One(v, q)
    BY <1>1, <1>3, NoObject
  <2>2. Surplus(h, q) \in Int /\ One(v, q) \in Int
    BY SurplusTyped, OneTyped
  <2> QED BY <2>1, <2>2
<1> QED BY <1>1, <1>3, <1>4, <1>5 DEF Fills, g

(* A string of the Data.                                                   *)
LEMMA DataStringCounts ==
  ASSUME Working, frame.data \in Objs, NEW f \in DataFields,
         heap[frame.data].ptr[f] = NULL,
         NEW s \in Text \cup {NULL}, NEW next, DataString(f, s, next)
  PROVE  \/ /\ frame' = Goto(next)
            /\ \E v \in Objs : /\ Fills(heap, heap', frame.data, f, v)
                               /\ s # NULL => IsString(heap', v) /\ heap'[v].val = s
                               /\ s = NULL => v = PBS_NULLSTR
            /\ pending' = pending
         \/ heap' = heap /\ frame' = Goto("data_error") /\ pending' = TRUE
<1> DEFINE o == frame.data
<1>1. heap \in Heaps /\ heap[o] # NULL /\ heap[o].kind = "data" /\ f \in DOMAIN heap[o].ptr
  BY WorkingHas, LocalsLive, LocalsFields
<1>2. CASE /\ s # NULL /\ Free(heap) # {}
           /\ heap' = Steal(Make(heap, "str", <<>>, s), frame.data, f, Fresh(heap))
           /\ frame' = Goto(next) /\ UNCHANGED pending
  <2> DEFINE k == Make(heap, "str", <<>>, s)
             n == Fresh(heap)
  <2>1. /\ k \in Heaps /\ Same(heap, k, {}) /\ n \in Objs /\ heap[n] = NULL
        /\ k[n] # NULL /\ k[n].kind = "str" /\ k[n].val = s
        /\ \A p \in Objs : Surplus(k, p) = Surplus(heap, p) + One(n, p)
    BY <1>1, <1>2, StringMade
  <2> HIDE DEF k, n
  <2>2. heap' = Steal(k, o, f, n) /\ n \in Pointers
    BY <1>2, <2>1 DEF k, n, Pointers
  <2>3. Fills(heap, heap', o, f, n)
    BY <1>1, <2>1, <2>2, Filled
  <2>4. heap'[n] = k[n]
    <3>1. n # o
      BY <1>1, <2>1
    <3> QED BY <2>1, <2>2, <3>1 DEF Steal, Heaps
  <2> QED BY <1>2, <2>1, <2>3, <2>4 DEF IsString, IsA
<1>3. CASE s # NULL /\ NoMemory(Goto("data_error"))
  BY <1>3 DEF NoMemory
<1>4. CASE /\ s = NULL
           /\ heap' = Steal(Py_INCREF(heap, PBS_NULLSTR), frame.data, f, PBS_NULLSTR)
           /\ frame' = Goto(next) /\ UNCHANGED pending
  <2> DEFINE k == Py_INCREF(heap, PBS_NULLSTR)
             n == PBS_NULLSTR
  <2>1. n \in Objs /\ heap[n] # NULL
    BY Live, AnswersAssumption DEF Working
  <2>2. /\ k \in Heaps /\ SameObjects(heap, k)
        /\ \A p \in Objs : Surplus(k, p) = Surplus(heap, p) + One(n, p)
    BY <1>1, <2>1, IncrefCounts
  <2>3. Same(heap, k, {})
    BY <2>2 DEF SameObjects
  <2>4. heap' = Steal(k, o, f, n) /\ n \in Pointers
    BY <1>4, <2>1 DEF Pointers
  <2> HIDE DEF k, n
  <2>5. Fills(heap, heap', o, f, n)
    BY <1>1, <2>2, <2>3, <2>4, Filled
  <2> QED BY <1>4, <2>1, <2>5 DEF n
<1> QED BY <1>2, <1>3, <1>4 DEF DataString

(* The list has the same empty places during the conversion of a status.   *)
LEMMA ListRoomKept ==
  ASSUME Working, frame.at \in InStatus, NEW X, Same(heap, heap', X), frame.list \notin X,
         frame'.at \in InStatus, frame'.list = frame.list, frame'.in = frame.in,
         frame'.i = frame.i
  PROVE  ListRoom(heap', frame')
<1>1. EmptyFrom(heap, frame.list, Len(frame.in), frame.i)
  BY WorkingHas DEF Rooms, ListRoom
<1>2. frame.list \in Objs \ X /\ heap[frame.list] # NULL
  BY WorkingHas, LocalsLive DEF Locals, InList
<1>3. EmptyFrom(heap', frame.list, Len(frame.in), frame.i)
  BY <1>1, <1>2, EmptyKept
<1> QED BY <1>3 DEF ListRoom, InStatus, InAttr

(* The inner list during the conversion of an attribute.                   *)
LEMMA AttrsRoomKept ==
  ASSUME Working, frame.at \in InAttr, NEW X, Same(heap, heap', X), frame.attribs \notin X,
         frame'.at \in InAttr, frame'.attribs = frame.attribs, frame'.in = frame.in,
         frame'.i = frame.i, frame'.j = frame.j
  PROVE  AttrsRoom(heap', frame')
<1> DEFINE n == Len(frame.in[frame.i].attribs)
<1>1. EmptyFrom(heap, frame.attribs, n, frame.j)
  BY WorkingHas DEF Rooms, AttrsRoom
<1>2. frame.attribs \in Objs \ X /\ heap[frame.attribs] # NULL
  BY WorkingHas, LocalsLive DEF Locals, InAttrs
<1>3. EmptyFrom(heap', frame.attribs, n, frame.j)
  BY <1>1, <1>2, EmptyKept
<1> QED BY <1>3 DEF AttrsRoom, InAttrs, InAttr

(* The conversion goes on after a string was stored.                       *)
LEMMA CountsString ==
  ASSUME Working,
         \/ /\ frame.at = "name" /\ UNCHANGED held
            /\ DataString("name", Status.name, "text")
         \/ /\ frame.at = "text" /\ UNCHANGED held
            /\ DataString("text", Status.text, "attribs")
  PROVE  Counts
<1> DEFINE f == frame.at
           s == IF f = "name" THEN Status.name ELSE Status.text
           next == IF f = "name" THEN "text" ELSE "attribs"
<1>1. f \in {"name", "text"} /\ held' = held /\ DataString(f, s, next)
  OBVIOUS
<1>2. s \in Text \cup {NULL}
  <2>1. frame.at \in InStatus
    BY <1>1 DEF InStatus
  <2> QED BY <2>1, WorkingHas, StatusTyped
<1>3. /\ frame.data \in Objs /\ heap[frame.data].ptr[f] = NULL /\ f \in DataFields
      /\ heap[frame.data].ptr["attribs"] = NULL
      /\ f = "name" => heap[frame.data].ptr["text"] = NULL
      /\ DOMAIN heap[frame.data].ptr = DataFields
  BY <1>1, WorkingHas, LocalsFields
     DEF Locals, Rooms, DataRoom, InData, InStatus, DataFields
<1>4. frame.list # frame.data
  BY <1>3, LocalsLive
<1> HIDE DEF s
<1>5. CASE frame' = Goto(next) /\ \E v \in Objs : Fills(heap, heap', frame.data, f, v)
  <2>1. PICK v \in Objs : Fills(heap, heap', frame.data, f, v)
    BY <1>5
  <2>2. /\ frame'.at = next /\ frame'.in = frame.in /\ frame'.i = frame.i
        /\ frame'.j = frame.j /\ frame'.list = frame.list /\ frame'.data = frame.data
        /\ frame'.attribs = frame.attribs /\ frame'.attr = frame.attr
        /\ frame'.kwds = frame.kwds
    BY <1>5, GotoParts
  <2>3. Locals(frame')
    BY <1>1, <2>2, WorkingHas DEF Locals, InList, InData, InAttrs, InKwds, InStatus, InAttr
  <2>4. ListRoom(heap', frame')
    BY <1>1, <1>4, <2>1, <2>2, ListRoomKept DEF Fills, InStatus
  <2>5. heap'[frame.data].ptr = Repoint(heap[frame.data].ptr, f, v)
    BY <2>1 DEF Fills
  <2>6. /\ heap'[frame.data].ptr["attribs"] = NULL
        /\ f = "name" => heap'[frame.data].ptr["text"] = NULL
    BY <1>1, <1>3, <2>5 DEF Repoint, DataFields
  <2>7. DataRoom(heap', frame')
    BY <1>1, <2>2, <2>6 DEF DataRoom, InData, InStatus, InAttr
  <2>8. AttrsRoom(heap', frame') /\ KwdsRoom(heap', frame')
    BY <1>1, <2>2, WorkingHas DEF Rooms, AttrsRoom, KwdsRoom, InAttrs, InAttr
  <2>9. Squares
    BY <1>1, <2>1, <2>2 DEF Squares, Locs, Fills
  <2> QED BY <2>3, <2>4, <2>7, <2>8, <2>9 DEF Counts, Shape, Rooms
<1>6. CASE heap' = heap /\ frame' = Goto("data_error")
  <2>2. /\ frame'.at = "data_error" /\ frame'.in = frame.in /\ frame'.i = frame.i
        /\ frame'.j = frame.j /\ frame'.list = frame.list /\ frame'.data = frame.data
        /\ frame'.attribs = frame.attribs /\ frame'.attr = frame.attr
        /\ frame'.kwds = frame.kwds
    BY <1>6, GotoParts
  <2>3. Locals(frame')
    BY <1>1, <2>2, WorkingHas DEF Locals, InList, InData, InAttrs, InKwds, InStatus, InAttr
  <2>4. Rooms(heap', frame')
    BY <1>1, <1>6, <2>2, WorkingHas DEF Rooms, ListRoom, AttrsRoom, DataRoom, KwdsRoom,
                                        InData, InAttrs, InStatus, InAttr
  <2>5. Squares
    BY <1>1, <1>6, <2>2 DEF Squares, Locs
  <2> QED BY <2>3, <2>4, <2>5 DEF Counts, Shape
<1> QED BY <1>1, <1>2, <1>3, <1>5, <1>6, DataStringCounts

(* PBSData_New.                                                            *)
LEMMA CountsData ==
  ASSUME Working, PBSData_New PROVE Counts
<1>0. frame \in Frame /\ heap \in Heaps
  BY WorkingHas
<1>1. CASE At("data")
           /\ Allocates("data", NoFields, [Goto("name") EXCEPT !.data = Fresh(heap)])
  <2> DEFINE d == Fresh(heap)
  <2>1. /\ frame.at = "data" /\ held' = held /\ Free(heap) # {}
        /\ heap' = Make(heap, "data", NoFields, NULL)
        /\ frame' = [Goto("name") EXCEPT !.data = d]
    BY <1>1 DEF At, Allocates
  <2>2. /\ DOMAIN NoFields = DataFields /\ \A f \in DataFields : NoFields[f] = NULL
        /\ NULL \notin Objs
    BY AnswersAssumption DEF NoFields
  <2>3. /\ d \in Objs /\ Same(heap, heap', {}) /\ heap'[d].ptr = NoFields
        /\ heap[d] = NULL
        /\ \A p \in Objs : Surplus(heap', p) = Surplus(heap, p) + One(d, p)
    BY <1>0, <2>1, <2>2, NewTyped, MakeCounts
  <2> HIDE DEF d
  <2>4. /\ frame'.at = "name" /\ frame'.in = frame.in /\ frame'.i = frame.i
        /\ frame'.j = frame.j /\ frame'.list = frame.list /\ frame'.data = d
        /\ frame'.attribs = frame.attribs /\ frame'.attr = frame.attr
        /\ frame'.kwds = frame.kwds
    BY <1>0, <2>1 DEF Frame, Goto
  <2>5. Locals(frame') /\ frame.data = NULL
    BY <2>1, <2>3, <2>4, WorkingHas
       DEF Locals, InList, InData, InAttrs, InKwds, InStatus, InAttr
  <2>6. ListRoom(heap', frame')
    BY <2>1, <2>3, <2>4, ListRoomKept DEF InStatus
  <2>7. DataRoom(heap', frame')
    BY <2>2, <2>3, <2>4 DEF DataRoom, DataFields
  <2>8. AttrsRoom(heap', frame') /\ KwdsRoom(heap', frame')
    BY <2>1, <2>4, WorkingHas DEF Rooms, AttrsRoom, KwdsRoom, InAttrs, InAttr
  <2>9. ASSUME NEW p \in Objs
        PROVE  Surplus(heap', p) - Locs(frame', p) - held'[p]
                 = Surplus(heap, p) - Locs(frame, p) - held[p]
    <3>1. Locs(frame', p) = Locs(frame, p) + One(d, p)
      BY <2>4, <2>5, NoObject, OneTyped DEF Locs
    <3>2. Surplus(heap, p) \in Int /\ One(d, p) \in Int /\ held[p] \in Int
          /\ Locs(frame, p) \in Int
      BY WorkingHas, OneTyped DEF Locs
    <3> QED BY <2>1, <2>3, <3>1, <3>2
  <2> QED BY <2>5, <2>6, <2>7, <2>8, <2>9 DEF Counts, Shape, Rooms, Squares
<1>2. CASE At("data") /\ NoMemory(Goto("next"))
  <2>1. frame.at = "data" /\ held' = held /\ heap' = heap /\ frame' = Goto("next")
    BY <1>2 DEF At, NoMemory
  <2>2. /\ frame'.at = "next" /\ frame'.in = frame.in /\ frame'.i = frame.i
        /\ frame'.j = frame.j /\ frame'.list = frame.list /\ frame'.data = frame.data
        /\ frame'.attribs = frame.attribs /\ frame'.attr = frame.attr
        /\ frame'.kwds = frame.kwds
    BY <2>1, GotoParts
  <2>3. Locals(frame')
    BY <2>1, <2>2, WorkingHas DEF Locals, InList, InData, InAttrs, InKwds, InStatus, InAttr
  <2>4. ListRoom(heap', frame')
    <3>1. /\ EmptyFrom(heap, frame.list, Len(frame.in), frame.i)
          /\ frame.i \in 1..Len(frame.in) /\ Len(frame.in) \in Nat
      BY <2>1, WorkingHas DEF Rooms, ListRoom, FrameFits, InStatus
    <3>2. EmptyFrom(heap, frame.list, Len(frame.in), frame.i + 1)
      BY <3>1, EmptyLess
    <3> QED BY <2>1, <2>2, <3>1, <3>2 DEF ListRoom, InStatus, InAttr
  <2>5. AttrsRoom(heap', frame') /\ DataRoom(heap', frame') /\ KwdsRoom(heap', frame')
    BY <2>1, <2>2, WorkingHas DEF Rooms, AttrsRoom, DataRoom, KwdsRoom,
                                  InAttrs, InAttr, InData, InStatus
  <2>6. Squares
    BY <2>1, <2>2 DEF Squares, Locs
  <2> QED BY <2>3, <2>4, <2>5, <2>6 DEF Counts, Shape, Rooms
<1>3. CASE \/ At("name") /\ DataString("name", Status.name, "text")
           \/ At("text") /\ DataString("text", Status.text, "attribs")
  BY <1>3, CountsString DEF At
<1>4. CASE /\ At("data_error") /\ heap' = Py_DECREF(heap, frame.data)
           /\ frame' = [Goto("next") EXCEPT !.data = NULL] /\ UNCHANGED pending
  <2> DEFINE d == frame.data
  <2>1. /\ frame.at = "data_error" /\ held' = held /\ heap' = Py_DECREF(heap, d)
        /\ frame' = [Goto("next") EXCEPT !.data = NULL]
    BY <1>4 DEF At
  <2>2. /\ Same(heap, heap', {})
        /\ \A p \in Objs : Surplus(heap', p) = Surplus(heap, p) - One(d, p)
    BY <1>0, <2>1, LocalsLive, DecrefCounts DEF SameObjects
  <2> HIDE DEF d
  <2>3. /\ frame'.at = "next" /\ frame'.in = frame.in /\ frame'.i = frame.i
        /\ frame'.j = frame.j /\ frame'.list = frame.list /\ frame'.data = NULL
        /\ frame'.attribs = frame.attribs /\ frame'.attr = frame.attr
        /\ frame'.kwds = frame.kwds
    BY <1>0, <2>1 DEF Frame, Goto
  <2>4. Locals(frame') /\ frame.list \in Objs
    BY <2>1, <2>3, WorkingHas DEF Locals, InList, InData, InAttrs, InKwds, InStatus, InAttr
  <2>5. ListRoom(heap', frame')
    <3>1. /\ EmptyFrom(heap, frame.list, Len(frame.in), frame.i)
          /\ frame.i \in 1..Len(frame.in) /\ Len(frame.in) \in Nat
      BY <2>1, WorkingHas DEF Rooms, ListRoom, FrameFits, InStatus
    <3>2. EmptyFrom(heap', frame.list, Len(frame.in), frame.i)
      BY <2>2, <2>4, <3>1, LocalsLive, EmptyKept
    <3>3. EmptyFrom(heap', frame.list, Len(frame.in), frame.i + 1)
      BY <3>1, <3>2, EmptyLess
    <3> QED BY <2>1, <2>3, <3>1, <3>3 DEF ListRoom, InStatus, InAttr
  <2>6. AttrsRoom(heap', frame') /\ DataRoom(heap', frame') /\ KwdsRoom(heap', frame')
    BY <2>1, <2>3, WorkingHas DEF Rooms, AttrsRoom, DataRoom, KwdsRoom,
                                  InAttrs, InAttr, InData, InStatus
  <2>7. ASSUME NEW p \in Objs
        PROVE  Surplus(heap', p) - Locs(frame', p) - held'[p]
                 = Surplus(heap, p) - Locs(frame, p) - held[p]
    <3>1. Locs(frame', p) = Locs(frame, p) - One(d, p)
      BY <2>3, NoObject, OneTyped DEF Locs, d
    <3>2. Surplus(heap, p) \in Int /\ One(d, p) \in Int /\ held[p] \in Int
          /\ Locs(frame, p) \in Int
      BY WorkingHas, OneTyped DEF Locs
    <3> QED BY <2>1, <2>2, <3>1, <3>2
  <2> QED BY <2>4, <2>5, <2>6, <2>7 DEF Counts, Shape, Rooms, Squares
<1> QED BY <1>1, <1>2, <1>3, <1>4 DEF PBSData_New

(* attrl_to_py_list.                                                       *)
LEMMA CountsAttrList ==
  ASSUME Working, attrl_to_py_list PROVE Counts
<1>0. frame \in Frame /\ heap \in Heaps
  BY WorkingHas
<1>1. CASE At("attribs")
           /\ Allocates("list", Nulls(Len(Status.attribs)),
                        [Goto("next_attr") EXCEPT !.attribs = Fresh(heap)])
  <2> DEFINE l == Fresh(heap)
             n == Len(Status.attribs)
  <2>1. /\ frame.at = "attribs" /\ held' = held /\ Free(heap) # {}
        /\ heap' = Make(heap, "list", Nulls(n), NULL)
        /\ frame' = [Goto("next_attr") EXCEPT !.attribs = l]
    BY <1>1 DEF At, Allocates
  <2>2. n \in Nat
    <3>1. frame.at \in InStatus
      BY <2>1 DEF InStatus
    <3> QED BY <3>1, WorkingHas, StatusTyped
  <2>3. /\ l \in Objs /\ Same(heap, heap', {}) /\ EmptyFrom(heap', l, n, 1)
        /\ heap[l] = NULL
        /\ \A p \in Objs : Surplus(heap', p) = Surplus(heap, p) + One(l, p)
    BY <1>0, <2>1, <2>2, NullsCounts
  <2> HIDE DEF l
  <2>4. /\ frame'.at = "next_attr" /\ frame'.in = frame.in /\ frame'.i = frame.i
        /\ frame'.j = frame.j /\ frame'.list = frame.list /\ frame'.data = frame.data
        /\ frame'.attribs = l /\ frame'.attr = frame.attr
        /\ frame'.kwds = frame.kwds
    BY <1>0, <2>1 DEF Frame, Goto
  <2>5. frame.list \in Objs /\ frame.data \in Objs /\ frame.attribs = NULL /\ frame.j = 0
    BY <2>1, WorkingHas DEF Locals, Rooms, AttrsRoom,
                            InList, InData, InAttrs, InStatus, InAttr
  <2>6. l # frame.list /\ l # frame.data
    BY <2>3, <2>5, LocalsLive
  <2>7. Locals(frame')
    BY <2>1, <2>3, <2>4, <2>5, <2>6, WorkingHas
       DEF Locals, InList, InData, InAttrs, InKwds, InStatus, InAttr
  <2>8. ListRoom(heap', frame')
    BY <2>1, <2>3, <2>4, ListRoomKept DEF InStatus
  <2>9. AttrsRoom(heap', frame')
    BY <2>2, <2>3, <2>4, <2>5 DEF AttrsRoom, InAttrs, InAttr, Status
  <2>10. DataRoom(heap', frame')
    <3>1. heap[frame.data].ptr["attribs"] = NULL
      BY <2>1, WorkingHas DEF Rooms, DataRoom, InData, InStatus
    <3>2. heap'[frame.data].ptr = heap[frame.data].ptr
      BY <2>3, <2>5, LocalsLive DEF Same
    <3> QED BY <2>4, <3>1, <3>2 DEF DataRoom
  <2>11. KwdsRoom(heap', frame')
    BY <2>4 DEF KwdsRoom
  <2>12. ASSUME NEW p \in Objs
        PROVE  Surplus(heap', p) - Locs(frame', p) - held'[p]
                 = Surplus(heap, p) - Locs(frame, p) - held[p]
    <3>1. Locs(frame', p) = Locs(frame, p) + One(l, p)
      BY <2>4, <2>5, NoObject, OneTyped DEF Locs
    <3>2. Surplus(heap, p) \in Int /\ One(l, p) \in Int /\ held[p] \in Int
          /\ Locs(frame, p) \in Int
      BY WorkingHas, OneTyped DEF Locs
    <3> QED BY <2>1, <2>3, <3>1, <3>2
  <2> QED BY <2>7, <2>8, <2>9, <2>10, <2>11, <2>12 DEF Counts, Shape, Rooms, Squares
<1>2. CASE At("attribs") /\ NoMemory(Goto("data_error"))
  <2>1. frame.at = "attribs" /\ held' = held /\ heap' = heap /\ frame' = Goto("data_error")
    BY <1>2 DEF At, NoMemory
  <2>2. /\ frame'.at = "data_error" /\ frame'.in = frame.in /\ frame'.i = frame.i
        /\ frame'.j = frame.j /\ frame'.list = frame.list /\ frame'.data = frame.data
        /\ frame'.attribs = frame.attribs /\ frame'.attr = frame.attr
        /\ frame'.kwds = frame.kwds
    BY <2>1, GotoParts
  <2>3. Locals(frame')
    BY <2>1, <2>2, WorkingHas DEF Locals, InList, InData, InAttrs, InKwds, InStatus, InAttr
  <2>4. Rooms(heap', frame')
    BY <2>1, <2>2, WorkingHas DEF Rooms, ListRoom, AttrsRoom, DataRoom, KwdsRoom,
                                        InData, InAttrs, InStatus, InAttr
  <2>5. Squares
    BY <2>1, <2>2 DEF Squares, Locs
  <2> QED BY <2>3, <2>4, <2>5 DEF Counts, Shape
<1>3. CASE /\ At("next_attr") /\ frame.j < Len(Status.attribs)
           /\ frame' = [Goto("attr") EXCEPT !.j = @ + 1]
           /\ UNCHANGED <<heap, pending>>
  <2> DEFINE m == frame.j + 1
  <2>1. frame.at = "next_attr" /\ UNCHANGED <<heap, held>>
    BY <1>3 DEF At
  <2>2. frame' = [[frame EXCEPT !.at = "attr"] EXCEPT !.j = m]
    BY <1>0, <1>3 DEF Frame, Goto
  <2> HIDE DEF m
  <2>3. /\ frame'.at = "attr" /\ frame'.in = frame.in /\ frame'.i = frame.i
        /\ frame'.j = m /\ frame'.list = frame.list /\ frame'.data = frame.data
        /\ frame'.attribs = frame.attribs /\ frame'.attr = frame.attr
        /\ frame'.kwds = frame.kwds
    BY <1>0, <2>2 DEF Frame
  <2>4. Locals(frame')
    BY <2>1, <2>3, WorkingHas DEF Locals, InList, InData, InAttrs, InKwds, InStatus, InAttr
  <2>5. Rooms(heap', frame')
    BY <2>1, <2>3, WorkingHas DEF m, Rooms, ListRoom, AttrsRoom, DataRoom, KwdsRoom,
                                  InList, InData, InAttrs, InKwds, InStatus, InAttr
  <2>6. Squares
    BY <2>1, <2>3 DEF Squares, Locs
  <2> QED BY <2>4, <2>5, <2>6 DEF Counts, Shape
<1>4. CASE /\ At("next_attr") /\ frame.j = Len(Status.attribs)
           /\ heap' = Steal(Steal(heap, frame.data, "attribs", frame.attribs),
                            frame.list, frame.i, frame.data)
           /\ frame' = [Goto("next") EXCEPT !.j = 0, !.data = NULL, !.attribs = NULL]
           /\ UNCHANGED pending
  <2> DEFINE d == frame.data
             l == frame.list
             as == frame.attribs
             h == Steal(heap, d, "attribs", as)
  <2>1. /\ frame.at = "next_attr" /\ held' = held /\ heap' = Steal(h, l, frame.i, d)
        /\ frame' = [Goto("next") EXCEPT !.j = 0, !.data = NULL, !.attribs = NULL]
    BY <1>4 DEF At
  <2>2. /\ d \in Objs /\ l \in Objs /\ as \in Objs
        /\ heap[d] # NULL /\ heap[l] # NULL /\ d # l
        /\ DOMAIN heap[d].ptr = DataFields /\ heap[d].ptr["attribs"] = NULL
    BY <2>1, WorkingHas, LocalsLive, LocalsFields
       DEF Locals, Rooms, DataRoom, InList, InData, InAttrs, InStatus
  <2>3. /\ EmptyFrom(heap, l, Len(frame.in), frame.i)
        /\ frame.i \in 1..Len(frame.in) /\ Len(frame.in) \in Nat
    BY <2>1, WorkingHas DEF Rooms, ListRoom, FrameFits, InStatus
  <2>4. /\ frame'.at = "next" /\ frame'.in = frame.in /\ frame'.i = frame.i
        /\ frame'.j = 0 /\ frame'.list = l /\ frame'.data = NULL
        /\ frame'.attribs = NULL /\ frame'.attr = frame.attr
        /\ frame'.kwds = frame.kwds
    BY <1>0, <2>1 DEF Frame, Goto
  <2>5. Locals(frame')
    BY <2>1, <2>2, <2>4, WorkingHas
       DEF Locals, InList, InData, InAttrs, InKwds, InStatus, InAttr
  <2>6. "attribs" \in DOMAIN heap[d].ptr /\ as \in Pointers /\ d \in Pointers
    BY <2>2 DEF Pointers, DataFields
  <2>7. /\ h \in Heaps /\ Same(heap, h, {d}) /\ h[d] # NULL
        /\ \A q \in Objs : Surplus(h, q) =
             Surplus(heap, q) + One(heap[d].ptr["attribs"], q) - One(as, q)
    <3>1. /\ heap \in Heaps /\ d \in Objs /\ heap[d] # NULL
          /\ "attribs" \in DOMAIN heap[d].ptr /\ as \in Pointers
      BY <1>0, <2>2, <2>6
    <3> HIDE DEF d, as
    <3> QED BY <3>1, StealCounts
  <2> HIDE DEF h
  <2>8. h[l] # NULL /\ h[l].ptr = heap[l].ptr /\ frame.i \in DOMAIN h[l].ptr
        /\ h[l].ptr[frame.i] = NULL
    BY <2>2, <2>3, <2>7 DEF Same, EmptyFrom
  <2>9. /\ heap'[l].ptr = Repoint(h[l].ptr, frame.i, d)
        /\ \A q \in Objs : Surplus(heap', q) =
             Surplus(h, q) + One(h[l].ptr[frame.i], q) - One(d, q)
    <3> DEFINE i == frame.i
    <3>1. /\ h \in Heaps /\ l \in Objs /\ h[l] # NULL /\ i \in DOMAIN h[l].ptr
          /\ d \in Pointers /\ heap' = Steal(h, l, i, d)
      BY <2>1, <2>2, <2>6, <2>7, <2>8
    <3> HIDE DEF i, l, d
    <3>2. /\ heap'[l].ptr = Repoint(h[l].ptr, i, d)
          /\ \A q \in Objs : Surplus(heap', q) = Surplus(h, q) + One(h[l].ptr[i], q) - One(d, q)
      BY <3>1, StealCounts
    <3> QED BY <3>2 DEF i
  <2>10. ListRoom(heap', frame')
    <3>1. EmptyFrom(heap', l, Len(frame.in), frame.i + 1)
      BY <2>3, <2>8, <2>9, EmptyFilled
    <3> QED BY <2>3, <2>4, <3>1 DEF ListRoom, InStatus, InAttr
  <2>11. AttrsRoom(heap', frame') /\ DataRoom(heap', frame') /\ KwdsRoom(heap', frame')
    BY <2>4 DEF AttrsRoom, DataRoom, KwdsRoom, InAttrs, InAttr, InData, InStatus
  <2>12. ASSUME NEW p \in Objs
        PROVE  Surplus(heap', p) - Locs(frame', p) - held'[p]
                 = Surplus(heap, p) - Locs(frame, p) - held[p]
    <3>1. Locs(frame, p) = Locs(frame', p) + One(d, p) + One(as, p)
      BY <2>4, NoObject, OneTyped DEF Locs
    <3>2. Surplus(heap, p) \in Int /\ One(d, p) \in Int /\ One(as, p) \in Int
          /\ held[p] \in Int /\ Locs(frame', p) \in Int
      BY WorkingHas, OneTyped DEF Locs
    <3>3. Surplus(heap', p) = Surplus(h, p) - One(d, p)
      <4>1. One(h[l].ptr[frame.i], p) = 0
        BY <2>8, NoObject
      <4>2. Surplus(h, p) \in Int
        BY <2>7, SurplusTyped
      <4> QED BY <2>9, <3>2, <4>1, <4>2
    <3>4. Surplus(h, p) = Surplus(heap, p) - One(as, p)
      <4>1. One(heap[d].ptr["attribs"], p) = 0
        BY <2>2, NoObject
      <4> QED BY <2>7, <3>2, <4>1
    <3> QED BY <2>1, <3>1, <3>2, <3>3, <3>4
  <2> QED BY <2>5, <2>10, <2>11, <2>12 DEF Counts, Shape, Rooms, Squares
<1> QED BY <1>1, <1>2, <1>3, <1>4 DEF attrl_to_py_list

(* The conversion of an attribute goes on.                                 *)
SamePlace ==
  /\ frame'.in = frame.in /\ frame'.i = frame.i /\ frame'.j = frame.j
  /\ frame'.list = frame.list /\ frame'.data = frame.data /\ frame'.attribs = frame.attribs

(* What the lists and the Data have no object in yet stays empty.          *)
LEMMA RoomsKept ==
  ASSUME Working, frame.at \in InAttr, SamePlace, frame'.at \in InAttr,
         NEW X, Same(heap, heap', X), {frame.list, frame.attribs, frame.data} \cap X = {}
  PROVE  ListRoom(heap', frame') /\ AttrsRoom(heap', frame') /\ DataRoom(heap', frame')
<1>1. frame.at \in InStatus /\ frame'.at \in InStatus
  BY DEF InStatus
<1>2. ListRoom(heap', frame')
  BY <1>1, ListRoomKept DEF SamePlace
<1>3. AttrsRoom(heap', frame')
  BY AttrsRoomKept DEF SamePlace
<1>4. DataRoom(heap', frame')
  <2>1. frame.data \in Objs \ X /\ heap[frame.data].ptr["attribs"] = NULL
        /\ heap[frame.data] # NULL
    BY <1>1, WorkingHas, LocalsLive DEF Locals, Rooms, DataRoom, InData, InAttr
  <2>2. heap'[frame.data].ptr["attribs"] = NULL
    BY <2>1 DEF Same
  <2> QED BY <2>2 DEF DataRoom, InAttr, SamePlace
<1> QED BY <1>2, <1>3, <1>4

(* The local variables for an attribute are set.                           *)
LEMMA LocalsStay ==
  ASSUME Working, frame.at \in InAttr, SamePlace, frame'.at \in InAttr \ {"attr"},
         frame'.at \in InKwds => frame'.kwds \in Objs
  PROVE  Locals(frame')
<1>1. Locals(frame)
  BY WorkingHas
<1> QED BY <1>1 DEF Locals, SamePlace, InList, InData, InAttrs, InKwds, InStatus, InAttr

(* An Attr is made, and the dictionary of its arguments.                   *)
LEMMA CountsAttrMade ==
  ASSUME Working, At("attr"),
         NEW r \in attr__new(heap), NEW dict \in BOOLEAN, dict => Free(r.heap) # {},
         heap' = IF dict THEN Make(r.heap, "dict", [k \in Keys |-> NULL], NULL) ELSE r.heap,
         frame' = [frame EXCEPT
           !.attr = r.attr,
           !.kwds = IF dict THEN Fresh(r.heap) ELSE NULL,
           !.at = IF dict /\ r.attr # NULL THEN "key_name" ELSE "attr_error"]
  PROVE  Counts
<1>1. frame \in Frame /\ heap \in Heaps /\ frame.at = "attr" /\ held' = held
  BY WorkingHas DEF At
<1>2. /\ r.heap \in Heaps /\ Same(heap, r.heap, {})
      /\ \A p \in Objs : Surplus(r.heap, p) = Surplus(heap, p) + One(r.attr, p)
  BY <1>1, NewCounts
<1> DEFINE kwds == IF dict THEN Fresh(r.heap) ELSE NULL
           at == IF dict /\ r.attr # NULL THEN "key_name" ELSE "attr_error"
           none == [k \in Keys |-> NULL]
<1>3. /\ Same(r.heap, heap', {})
      /\ dict => kwds \in Objs /\ heap'[kwds].ptr = none
      /\ \A p \in Objs : Surplus(heap', p) = Surplus(r.heap, p) + One(kwds, p)
  <2>1. CASE dict
    <3>1. /\ DOMAIN none = Keys /\ \A k \in Keys : none[k] \notin Objs
          /\ [kind |-> "dict", refs |-> 1, ptr |-> none, val |-> NULL] \in Object
      BY NewTyped, AnswersAssumption
    <3>2. heap' = Make(r.heap, "dict", none, NULL) /\ kwds = Fresh(r.heap)
      BY <2>1
    <3> HIDE DEF none, kwds
    <3> QED BY <1>2, <2>1, <3>1, <3>2, MakeCounts
  <2>2. CASE ~dict
    <3>1. heap' = r.heap /\ kwds = NULL
      BY <2>2
    <3>2. \A p \in Objs : Surplus(r.heap, p) \in Int
      BY <1>2, SurplusTyped
    <3> HIDE DEF kwds
    <3> QED BY <2>2, <3>1, <3>2, NoObject DEF Same
  <2> QED BY <2>1, <2>2
<1>4. none["name"] = NULL /\ none["value"] = NULL /\ none["resource"] = NULL
  BY DEF Keys
<1>5. at \in {"key_name", "attr_error"} /\ (at = "key_name" => dict)
  OBVIOUS
<1>6. frame' = [frame EXCEPT !.attr = r.attr, !.kwds = kwds, !.at = at]
  OBVIOUS
<1> HIDE DEF kwds, at, none
<1>7. /\ frame'.at = at /\ frame'.in = frame.in /\ frame'.i = frame.i
      /\ frame'.j = frame.j /\ frame'.list = frame.list /\ frame'.data = frame.data
      /\ frame'.attribs = frame.attribs /\ frame'.attr = r.attr /\ frame'.kwds = kwds
  BY <1>1, <1>6 DEF Frame
<1>8. Same(heap, heap', {})
  BY <1>2, <1>3, SameOn
<1>9. frame.at \in InAttr /\ frame'.at \in InAttr \ {"attr"} /\ SamePlace
  BY <1>1, <1>5, <1>7 DEF InAttr, SamePlace
<1>10. ListRoom(heap', frame') /\ AttrsRoom(heap', frame') /\ DataRoom(heap', frame')
  BY <1>8, <1>9, RoomsKept
<1>11. Locals(frame')
  BY <1>3, <1>5, <1>7, <1>9, LocalsStay DEF InKwds
<1>12. KwdsRoom(heap', frame')
  BY <1>3, <1>4, <1>5, <1>7 DEF KwdsRoom
<1>13. ASSUME NEW p \in Objs
       PROVE  Surplus(heap', p) - Locs(frame', p) - held'[p]
                = Surplus(heap, p) - Locs(frame, p) - held[p]
  <2>1. frame.attr = NULL /\ frame.kwds = NULL
    BY <1>1, WorkingHas DEF Locals
  <2>2. Locs(frame', p) = Locs(frame, p) + One(r.attr, p) + One(kwds, p)
    BY <1>7, <2>1, NoObject, OneTyped DEF Locs
  <2>3. /\ Surplus(heap, p) \in Int /\ One(r.attr, p) \in Int /\ One(kwds, p) \in Int
        /\ held[p] \in Int /\ Locs(frame, p) \in Int
    BY WorkingHas, OneTyped DEF Locs
  <2> QED BY <1>1, <1>2, <1>3, <2>2, <2>3
<1> QED BY <1>10, <1>11, <1>12, <1>13 DEF Counts, Shape, Rooms, Squares

(* The dictionary has one argument more, with a reference of its own; or   *)
(* nothing is left of it.                                                  *)
LEMMA DictStringCounts ==
  ASSUME Working, frame.kwds \in Objs, NEW k \in Keys, heap[frame.kwds].ptr[k] = NULL,
         NEW s \in Text \cup {NULL}, NEW next, set_dict_string(k, s, next)
  PROVE  \/ /\ frame' = Goto(next) /\ pending' = pending
            /\ \E v \in Objs \cup {None} :
                 /\ Fills(heap, heap', frame.kwds, k, v)
                 /\ s # NULL => IsString(heap', v) /\ heap'[v].val = s
                 /\ s = NULL => v = None
         \/ /\ frame' = Goto("attr_error") /\ pending' = TRUE
            /\ heap' \in Heaps /\ Same(heap, heap', {})
            /\ \A q \in Objs : Surplus(heap', q) = Surplus(heap, q)
<1> DEFINE o == frame.kwds
           v == IF s = NULL THEN None ELSE Fresh(heap)
           h == IF s = NULL THEN heap ELSE Make(heap, "str", <<>>, s)
<1>1. heap \in Heaps /\ heap[o] # NULL /\ heap[o].kind = "dict" /\ k \in DOMAIN heap[o].ptr
  BY WorkingHas, LocalsLive, LocalsFields
<1>2. \A q \in Objs : Surplus(heap, q) \in Int
  BY WorkingHas
<1>3. CASE s # NULL /\ NoMemory(Goto("attr_error"))
  BY <1>1, <1>3 DEF NoMemory, Same
<1>4. ASSUME s = NULL \/ Free(heap) # {}
      PROVE  /\ h \in Heaps /\ Same(heap, h, {}) /\ v \in Objs \cup {None}
             /\ v \in Objs => h[v] # NULL /\ heap[v] = NULL
             /\ s # NULL => v \in Objs /\ h[v].kind = "str" /\ h[v].val = s
             /\ s = NULL => v = None
             /\ \A q \in Objs : Surplus(h, q) = Surplus(heap, q) + One(v, q)
  <2>1. CASE s = NULL
    <3>1. h = heap /\ v = None
      BY <2>1
    <3> HIDE DEF h, v
    <3> QED BY <1>1, <1>2, <2>1, <3>1, NoObject, AnswersAssumption DEF Same
  <2>2. CASE s # NULL
    <3>1. h = Make(heap, "str", <<>>, s) /\ v = Fresh(heap) /\ s \in Text /\ Free(heap) # {}
      BY <1>4, <2>2
    <3> HIDE DEF h, v
    <3> QED BY <1>1, <2>2, <3>1, StringMade
  <2> QED BY <2>1, <2>2
<1>5. CASE /\ s = NULL \/ Free(heap) # {}
           /\ heap' = Py_DECREF(Steal(Py_INCREF(h, v), frame.kwds, k, v), v)
           /\ frame' = Goto(next) /\ UNCHANGED pending
  <2> HIDE DEF h, v
  <2> DEFINE h1 == Py_INCREF(h, v)
             h2 == Steal(h1, o, k, v)
  <2>1. /\ h \in Heaps /\ Same(heap, h, {}) /\ v \in Objs \cup {None}
        /\ v \in Objs => h[v] # NULL /\ heap[v] = NULL
        /\ s # NULL => v \in Objs /\ h[v].kind = "str" /\ h[v].val = s
        /\ s = NULL => v = None
        /\ \A q \in Objs : Surplus(h, q) = Surplus(heap, q) + One(v, q)
    BY <1>4, <1>5
  <2>2. /\ h1 \in Heaps /\ SameObjects(h, h1)
        /\ \A q \in Objs : Surplus(h1, q) = Surplus(h, q) + One(v, q)
    BY <2>1, IncrefCounts
  <2>3. heap' = Py_DECREF(h2, v)
    BY <1>5
  <2> HIDE DEF h1
  <2>4. Same(heap, h1, {}) /\ Same(h, h1, {})
    BY <2>1, <2>2, SameOn DEF SameObjects
  <2>5. h1[o] # NULL /\ h1[o].ptr = heap[o].ptr /\ v \in Pointers /\ v # o
    BY <1>1, <2>1, <2>4, AnswersAssumption DEF Same, Pointers
  <2>6. /\ h1 \in Heaps /\ o \in Objs /\ h1[o] # NULL /\ k \in DOMAIN h1[o].ptr
        /\ v \in Pointers
    BY <1>1, <2>2, <2>5
  <2>7. /\ h2 \in Heaps /\ Same(h1, h2, {o}) /\ h2[o] # NULL
        /\ h2[o].ptr = Repoint(h1[o].ptr, k, v)
        /\ \A q \in Objs : Surplus(h2, q) = Surplus(h1, q) + One(h1[o].ptr[k], q) - One(v, q)
    <3> DEFINE g == Steal(h1, o, k, v)
    <3>1. /\ g \in Heaps /\ Same(h1, g, {o}) /\ g[o] # NULL
          /\ g[o].ptr = Repoint(h1[o].ptr, k, v)
          /\ \A q \in Objs : Surplus(g, q) = Surplus(h1, q) + One(h1[o].ptr[k], q) - One(v, q)
      BY <2>6, StealCounts
    <3> QED BY <3>1
  <2> HIDE DEF h2
  <2>8. v \in Objs => h2[v] # NULL /\ h2[v].kind = h[v].kind /\ h2[v].val = h[v].val
    BY <2>1, <2>4, <2>5, <2>7 DEF Same
  <2>9. /\ heap' \in Heaps /\ Same(h2, heap', {})
        /\ \A q \in Objs : Surplus(heap', q) = Surplus(h2, q) - One(v, q)
    BY <2>3, <2>7, <2>8, DecrefCounts DEF SameObjects
  <2>10. Same(heap, h2, {o})
    BY <2>4, <2>7, SameOn
  <2>11. Same(heap, heap', {o})
    BY <2>9, <2>10, SameOn
  <2>12. heap'[o] # NULL /\ heap'[o].ptr = Repoint(heap[o].ptr, k, v)
    BY <2>5, <2>7, <2>9 DEF Same
  <2>13. ASSUME NEW q \in Objs PROVE Surplus(heap', q) = Surplus(heap, q)
    <3>1. One(v, q) \in Int /\ Surplus(heap, q) \in Int
      BY <1>2, OneTyped
    <3>2. One(h1[o].ptr[k], q) = 0
      BY <2>5, NoObject
    <3>3. Surplus(h2, q) = Surplus(h1, q) - One(v, q)
      <4>1. Surplus(h1, q) \in Int
        BY <2>2, SurplusTyped
      <4> QED BY <2>7, <3>1, <3>2, <4>1
    <3> QED BY <2>1, <2>2, <2>9, <3>1, <3>3
  <2>14. Fills(heap, heap', o, k, v)
    BY <2>9, <2>11, <2>12, <2>13 DEF Fills
  <2>15. s # NULL => IsString(heap', v) /\ heap'[v].val = s
    BY <2>1, <2>8, <2>9 DEF Same, IsString, IsA
  <2> QED BY <1>5, <2>1, <2>14, <2>15
<1>6. CASE /\ s = NULL \/ Free(heap) # {}
           /\ heap' = Py_DECREF(h, v)
           /\ frame' = Goto("attr_error") /\ pending' = TRUE
  <2> HIDE DEF h, v
  <2>1. /\ h \in Heaps /\ Same(heap, h, {}) /\ v \in Objs \cup {None}
        /\ v \in Objs => h[v] # NULL
        /\ \A q \in Objs : Surplus(h, q) = Surplus(heap, q) + One(v, q)
    BY <1>4, <1>6
  <2>2. /\ heap' \in Heaps /\ Same(h, heap', {})
        /\ \A q \in Objs : Surplus(heap', q) = Surplus(h, q) - One(v, q)
    BY <1>6, <2>1, DecrefCounts DEF SameObjects
  <2>3. Same(heap, heap', {})
    BY <2>1, <2>2, SameOn
  <2>4. \A q \in Objs : Surplus(heap', q) = Surplus(heap, q)
    BY <1>2, <2>1, <2>2, OneTyped
  <2> QED BY <1>6, <2>2, <2>3, <2>4
<1> QED BY <1>3, <1>5, <1>6 DEF set_dict_string

(* The conversion goes on after an argument was stored.                    *)
LEMMA CountsDictString ==
  ASSUME Working, held' = held, NEW k, NEW next,
         \/ frame.at = "key_name" /\ k = "name" /\ next = "key_value"
         \/ frame.at = "key_value" /\ k = "value" /\ next = "key_resource"
         \/ frame.at = "key_resource" /\ k = "resource" /\ next = "init",
         NEW s \in Text \cup {NULL}, set_dict_string(k, s, next)
  PROVE  Counts
<1> DEFINE o == frame.kwds
<1>1. /\ frame.at \in InAttr \ {"attr"} /\ frame.at \in InKwds /\ k \in Keys
      /\ next \in InAttr \ {"attr"} /\ "attr_error" \in InAttr \ {"attr"}
  BY DEF InAttr, InKwds, Keys
<1>2. o \in Objs /\ heap[o].ptr[k] = NULL /\ DOMAIN heap[o].ptr = Keys
      /\ heap[o] # NULL /\ heap[o].kind = "dict"
  BY <1>1, WorkingHas, LocalsFields, LocalsLive DEF Locals, Rooms, KwdsRoom
<1>3. frame.list # o /\ frame.attribs # o /\ frame.data # o
  BY <1>2, LocalsLive
<1>4. CASE frame' = Goto(next) /\ \E v \in Objs \cup {None} : Fills(heap, heap', o, k, v)
  <2>1. PICK v \in Objs \cup {None} : Fills(heap, heap', o, k, v)
    BY <1>4
  <2>2. /\ frame'.at = next /\ frame'.in = frame.in /\ frame'.i = frame.i
        /\ frame'.j = frame.j /\ frame'.list = frame.list /\ frame'.data = frame.data
        /\ frame'.attribs = frame.attribs /\ frame'.attr = frame.attr
        /\ frame'.kwds = frame.kwds
    BY <1>4, GotoParts
  <2>3. SamePlace
    BY <2>2 DEF SamePlace
  <2>4. Locals(frame')
    BY <1>1, <1>2, <2>2, <2>3, LocalsStay
  <2>5. Same(heap, heap', {o}) /\ heap'[o].ptr = Repoint(heap[o].ptr, k, v)
    BY <2>1 DEF Fills
  <2>6. ListRoom(heap', frame') /\ AttrsRoom(heap', frame') /\ DataRoom(heap', frame')
    BY <1>1, <1>3, <2>2, <2>3, <2>5, RoomsKept
  <2>7. \A f \in Keys : f # k => heap'[o].ptr[f] = heap[o].ptr[f]
    BY <1>2, <2>5 DEF Repoint
  <2>8. KwdsRoom(heap', frame')
    <3>1. KwdsRoom(heap, frame) /\ {"name", "value", "resource"} \subseteq Keys
      BY WorkingHas DEF Rooms, Keys
    <3> QED BY <2>2, <2>7, <3>1 DEF KwdsRoom
  <2>9. Squares
    BY <2>1, <2>2 DEF Squares, Locs, Fills
  <2> QED BY <2>4, <2>6, <2>8, <2>9 DEF Counts, Shape, Rooms
<1>5. CASE /\ frame' = Goto("attr_error") /\ Same(heap, heap', {})
           /\ \A q \in Objs : Surplus(heap', q) = Surplus(heap, q)
  <2>1. /\ frame'.at = "attr_error" /\ frame'.in = frame.in /\ frame'.i = frame.i
        /\ frame'.j = frame.j /\ frame'.list = frame.list /\ frame'.data = frame.data
        /\ frame'.attribs = frame.attribs /\ frame'.attr = frame.attr
        /\ frame'.kwds = frame.kwds
    BY <1>5, GotoParts
  <2>2. SamePlace
    BY <2>1 DEF SamePlace
  <2>3. Locals(frame')
    BY <1>1, <1>2, <2>1, <2>2, LocalsStay
  <2>4. ListRoom(heap', frame') /\ AttrsRoom(heap', frame') /\ DataRoom(heap', frame')
    BY <1>1, <1>5, <2>1, <2>2, RoomsKept
  <2>5. KwdsRoom(heap', frame')
    BY <2>1 DEF KwdsRoom
  <2>6. Squares
    BY <1>5, <2>1 DEF Squares, Locs
  <2> QED BY <2>3, <2>4, <2>5, <2>6 DEF Counts, Shape, Rooms
<1> QED BY <1>1, <1>2, <1>4, <1>5, DictStringCounts

(* The Attr is complete: its place in the list has it.                     *)
LEMMA CountsAttrStored ==
  ASSUME Working, frame.at = "init", held' = held,
         NEW g, Even(heap, g), Same(heap, g, {frame.attr}),
         heap' = Steal(Py_DECREF(g, frame.kwds), frame.attribs, frame.j, frame.attr),
         frame' = [Goto("next_attr") EXCEPT !.attr = NULL, !.kwds = NULL]
  PROVE  Counts
<1> DEFINE a == frame.attr
           l == frame.list
           d == frame.data
           as == frame.attribs
           w == frame.kwds
           j == frame.j
           h == Py_DECREF(g, w)
           n == Len(frame.in[frame.i].attribs)
<1>1. frame \in Frame /\ heap \in Heaps /\ FrameFits(frame) /\ Locals(frame)
  BY WorkingHas
<1>2. frame.at \in InAttr /\ frame.at \in InStatus /\ frame.at \in InKwds
  BY DEF InAttr, InStatus, InKwds
<1>3. /\ a \in Objs /\ l \in Objs /\ d \in Objs /\ as \in Objs /\ w \in Objs
      /\ heap[a] # NULL /\ heap[l] # NULL /\ heap[d] # NULL /\ heap[as] # NULL
      /\ heap[w] # NULL
  BY <1>1, <1>2, LocalsLive DEF FrameFits, Locals, InList, InData, InAttrs
<1>4. a # l /\ a # d /\ a # as /\ a # w /\ as # l /\ as # d
  BY <1>1, <1>2, <1>3, LocalsLive DEF Locals, InAttrs
<1>5. n \in Nat /\ j \in 1..n /\ EmptyFrom(heap, as, n, j)
  <2>1. Status.attribs \in Seq(Attribute)
    BY <1>1, <1>2, StatusTyped
  <2> QED BY <1>1, <1>2, <2>1, WorkingHas DEF FrameFits, Status, Rooms, AttrsRoom
<1>6. g \in Heaps /\ \A q \in Objs : Surplus(g, q) = Surplus(heap, q)
  BY DEF Even
<1>7. g[w] # NULL
  BY <1>3, <1>4 DEF Same
<1>8. /\ h \in Heaps /\ SameObjects(g, h)
      /\ \A q \in Objs : Surplus(h, q) = Surplus(g, q) - One(w, q)
  BY <1>6, <1>7, DecrefCounts
<1>9. heap' = Steal(h, as, j, a)
  OBVIOUS
<1> HIDE DEF h
<1>10. Same(heap, h, {a})
  BY <1>8, SameOn DEF SameObjects
<1>11. h[as] # NULL /\ h[as].ptr = heap[as].ptr
  BY <1>3, <1>4, <1>10 DEF Same
<1>12. h[as].ptr[j] = NULL /\ j \in DOMAIN h[as].ptr
  BY <1>5, <1>11 DEF EmptyFrom
<1>13. /\ h \in Heaps /\ as \in Objs /\ h[as] # NULL /\ j \in DOMAIN h[as].ptr
       /\ a \in Pointers
  BY <1>3, <1>8, <1>11, <1>12 DEF Pointers
<1>14. /\ heap' \in Heaps /\ Same(h, heap', {as})
       /\ heap'[as].ptr = Repoint(h[as].ptr, j, a)
       /\ \A q \in Objs : Surplus(heap', q) = Surplus(h, q) + One(h[as].ptr[j], q) - One(a, q)
  <2> DEFINE k == Steal(h, as, j, a)
  <2>1. /\ k \in Heaps /\ Same(h, k, {as})
        /\ k[as].ptr = Repoint(h[as].ptr, j, a)
        /\ \A q \in Objs : Surplus(k, q) = Surplus(h, q) + One(h[as].ptr[j], q) - One(a, q)
    <3> HIDE DEF as, j, a
    <3> QED BY <1>13, StealCounts
  <2> QED BY <1>9, <2>1
<1>15. Same(heap, heap', {a, as})
  BY <1>10, <1>14, SameOn
<1>16. /\ frame'.at = "next_attr" /\ frame'.in = frame.in /\ frame'.i = frame.i
       /\ frame'.j = j /\ frame'.list = l /\ frame'.data = d
       /\ frame'.attribs = as /\ frame'.attr = NULL /\ frame'.kwds = NULL
  BY <1>1 DEF Frame, Goto
<1>17. Locals(frame')
  BY <1>1, <1>2, <1>16 DEF Locals, InList, InData, InAttrs, InKwds, InStatus, InAttr
<1>18. ListRoom(heap', frame')
  <2>1. frame'.at \in InStatus
    BY <1>16 DEF InStatus
  <2> QED BY <1>2, <1>4, <1>15, <1>16, <2>1, ListRoomKept
<1>19. AttrsRoom(heap', frame')
  <2>1. EmptyFrom(heap', as, n, j + 1)
    BY <1>5, <1>11, <1>14, EmptyFilled
  <2> QED BY <1>5, <1>16, <2>1 DEF AttrsRoom, InAttrs, InAttr
<1>20. DataRoom(heap', frame')
  <2>1. heap[d].ptr["attribs"] = NULL
    BY <1>2, WorkingHas DEF Rooms, DataRoom, InData, InStatus, InAttr
  <2>2. heap'[d].ptr = heap[d].ptr
    BY <1>3, <1>4, <1>15 DEF Same
  <2> QED BY <1>16, <2>1, <2>2 DEF DataRoom
<1>21. KwdsRoom(heap', frame')
  BY <1>16 DEF KwdsRoom
<1>22. ASSUME NEW p \in Objs
       PROVE  Surplus(heap', p) - Locs(frame', p) - held'[p]
                = Surplus(heap, p) - Locs(frame, p) - held[p]
  <2>1. Locs(frame, p) = Locs(frame', p) + One(a, p) + One(w, p)
    BY <1>16, NoObject, OneTyped DEF Locs
  <2>2. /\ Surplus(heap, p) \in Int /\ One(a, p) \in Int /\ One(w, p) \in Int
        /\ held[p] \in Int /\ Locs(frame', p) \in Int
    BY WorkingHas, OneTyped DEF Locs
  <2>3. Surplus(h, p) = Surplus(heap, p) - One(w, p)
    BY <1>6, <1>8
  <2>4. Surplus(heap', p) = Surplus(h, p) - One(a, p)
    <3>1. One(h[as].ptr[j], p) = 0
      BY <1>12, NoObject
    <3> QED BY <1>14, <2>2, <2>3, <3>1
  <2> QED BY <2>1, <2>2, <2>3, <2>4
<1> QED BY <1>17, <1>18, <1>19, <1>20, <1>21, <1>22 DEF Counts, Shape, Rooms, Squares

(* __init__ of the Attr is called.                                         *)
LEMMA CountsAttrInit ==
  ASSUME Working, At("init"), NEW k \in 0..3, NEW name, NEW value, NEW rscn,
         NEW r \in attr__init(heap, frame.attr, name, value, rscn, NULL),
         heap' = IF k = 3 THEN Steal(Py_DECREF(r.heap, frame.kwds),
                                     frame.attribs, frame.j, frame.attr)
                 ELSE r.heap,
         frame' = IF k = 3 THEN [Goto("next_attr") EXCEPT !.attr = NULL, !.kwds = NULL]
                  ELSE Goto("attr_error")
  PROVE  Counts
<1>1. frame.at = "init" /\ held' = held /\ FrameFits(frame) /\ Good(heap, NULL)
  BY WorkingHas DEF At
<1>2. frame.attr \in Objs /\ heap[frame.attr] # NULL /\ heap[frame.attr].kind = "attr"
  BY <1>1, LocalsLive DEF FrameFits
<1>3. IsA(heap, frame.attr, "attr") /\ heap[frame.attr].refs > 0
  BY <1>2 DEF IsA, Working, Settled
<1>4. Even(heap, r.heap) /\ Same(heap, r.heap, {frame.attr})
  BY <1>1, <1>3, InitCounts
<1>5. CASE k = 3
  BY <1>1, <1>4, <1>5, CountsAttrStored
<1>6. CASE k # 3
  <2>1. heap' = r.heap /\ frame' = Goto("attr_error")
    BY <1>6
  <2>2. /\ frame'.at = "attr_error" /\ frame'.in = frame.in /\ frame'.i = frame.i
        /\ frame'.j = frame.j /\ frame'.list = frame.list /\ frame'.data = frame.data
        /\ frame'.attribs = frame.attribs /\ frame'.attr = frame.attr
        /\ frame'.kwds = frame.kwds
    BY <2>1, GotoParts
  <2>3. SamePlace /\ frame.at \in InAttr /\ frame'.at \in InAttr \ {"attr"}
        /\ frame'.at \notin InKwds
    BY <1>1, <2>2 DEF SamePlace, InAttr, InKwds
  <2>4. Locals(frame')
    BY <2>3, LocalsStay
  <2>5. frame.list # frame.attr /\ frame.attribs # frame.attr /\ frame.data # frame.attr
    BY <1>2, LocalsLive
  <2>6. ListRoom(heap', frame') /\ AttrsRoom(heap', frame') /\ DataRoom(heap', frame')
    BY <1>4, <2>1, <2>3, <2>5, RoomsKept
  <2>7. KwdsRoom(heap', frame')
    BY <2>2 DEF KwdsRoom
  <2>8. Squares
    BY <1>1, <1>4, <2>1, <2>2 DEF Squares, Locs, Even
  <2> QED BY <2>4, <2>6, <2>7, <2>8 DEF Counts, Shape, Rooms
<1> QED BY <1>5, <1>6

(* Both are given up; the place in the list stays empty.                   *)
LEMMA CountsAttrError ==
  ASSUME Working, frame.at = "attr_error", held' = held,
         heap' = Py_DECREF(Py_DECREF(heap, frame.kwds), frame.attr),
         frame' = [Goto("next_attr") EXCEPT !.attr = NULL, !.kwds = NULL]
  PROVE  Counts
<1> DEFINE a == frame.attr
           as == frame.attribs
           w == frame.kwds
           j == frame.j
           h == Py_DECREF(heap, w)
           n == Len(frame.in[frame.i].attribs)
<1>1. frame \in Frame /\ heap \in Heaps /\ FrameFits(frame) /\ Locals(frame)
  BY WorkingHas
<1>2. frame.at \in InAttr /\ frame.at \in InStatus
  BY DEF InAttr, InStatus
<1>3. /\ frame.list \in Objs /\ frame.data \in Objs /\ as \in Objs
      /\ heap[frame.data] # NULL /\ heap[as] # NULL
  BY <1>1, <1>2, LocalsLive DEF Locals, InList, InData, InAttrs
<1>4. n \in Nat /\ j \in 1..n /\ EmptyFrom(heap, as, n, j)
  <2>1. Status.attribs \in Seq(Attribute)
    BY <1>1, <1>2, StatusTyped
  <2> QED BY <1>1, <1>2, <2>1, WorkingHas DEF FrameFits, Status, Rooms, AttrsRoom
<1>5. /\ h \in Heaps /\ SameObjects(heap, h)
      /\ \A q \in Objs : Surplus(h, q) = Surplus(heap, q) - One(w, q)
  BY <1>1, LocalsLive, DecrefCounts
<1>6. heap' = Py_DECREF(h, a)
  OBVIOUS
<1> HIDE DEF h
<1>7. a \in Objs => h[a] # NULL
  BY <1>5, LocalsLive DEF SameObjects, Same
<1>8. /\ SameObjects(h, heap')
      /\ \A q \in Objs : Surplus(heap', q) = Surplus(h, q) - One(a, q)
  BY <1>5, <1>6, <1>7, DecrefCounts
<1>9. Same(heap, heap', {})
  BY <1>5, <1>8, SameOn DEF SameObjects
<1>10. /\ frame'.at = "next_attr" /\ frame'.in = frame.in /\ frame'.i = frame.i
       /\ frame'.j = j /\ frame'.list = frame.list /\ frame'.data = frame.data
       /\ frame'.attribs = as /\ frame'.attr = NULL /\ frame'.kwds = NULL
  BY <1>1 DEF Frame, Goto
<1>11. Locals(frame')
  BY <1>1, <1>2, <1>10 DEF Locals, InList, InData, InAttrs, InKwds, InStatus, InAttr
<1>12. ListRoom(heap', frame')
  <2>1. frame'.at \in InStatus
    BY <1>10 DEF InStatus
  <2> QED BY <1>2, <1>9, <1>10, <2>1, ListRoomKept
<1>13. AttrsRoom(heap', frame')
  <2>1. EmptyFrom(heap', as, n, j)
    BY <1>3, <1>4, <1>9, EmptyKept
  <2>2. EmptyFrom(heap', as, n, j + 1)
    BY <1>4, <2>1, EmptyLess
  <2> QED BY <1>4, <1>10, <2>2 DEF AttrsRoom, InAttrs, InAttr
<1>14. DataRoom(heap', frame')
  <2>1. heap[frame.data].ptr["attribs"] = NULL
    BY <1>2, WorkingHas DEF Rooms, DataRoom, InData, InStatus, InAttr
  <2>2. heap'[frame.data].ptr = heap[frame.data].ptr
    BY <1>3, <1>9 DEF Same
  <2> QED BY <1>10, <2>1, <2>2 DEF DataRoom
<1>15. KwdsRoom(heap', frame')
  BY <1>10 DEF KwdsRoom
<1>16. ASSUME NEW p \in Objs
       PROVE  Surplus(heap', p) - Locs(frame', p) - held'[p]
                = Surplus(heap, p) - Locs(frame, p) - held[p]
  <2>1. Locs(frame, p) = Locs(frame', p) + One(a, p) + One(w, p)
    BY <1>10, NoObject, OneTyped DEF Locs
  <2>2. /\ Surplus(heap, p) \in Int /\ One(a, p) \in Int /\ One(w, p) \in Int
        /\ held[p] \in Int /\ Locs(frame', p) \in Int
    BY WorkingHas, OneTyped DEF Locs
  <2> QED BY <1>5, <1>8, <2>1, <2>2
<1> QED BY <1>11, <1>12, <1>13, <1>14, <1>15, <1>16 DEF Counts, Shape, Rooms, Squares

(* PBSAttr_New.                                                            *)
LEMMA CountsAttr ==
  ASSUME Working, PBSAttr_New PROVE Counts
<1>1. FrameFits(frame)
  BY WorkingHas
<1>2. CASE
    /\ At("attr")
    /\ \E r \in attr__new(heap), dict \in BOOLEAN :
         /\ dict => Free(r.heap) # {}
         /\ heap' = IF dict
                      THEN Make(r.heap, "dict", [k \in Keys |-> NULL], NULL)
                      ELSE r.heap
         /\ frame' = [frame EXCEPT
              !.attr = r.attr,
              !.kwds = IF dict THEN Fresh(r.heap) ELSE NULL,
              !.at = IF dict /\ r.attr # NULL THEN "key_name" ELSE "attr_error"]
         /\ pending' = (pending \/ ~dict \/ r.attr = NULL)
  BY <1>2, CountsAttrMade
<1>3. CASE At("key_name") /\ set_dict_string("name", Attrl.name, "key_value")
  <2>1. held' = held /\ frame.at = "key_name" /\ frame.at \in InAttr
    BY <1>3 DEF At, InAttr
  <2> QED BY <1>1, <1>3, <2>1, AttrlTyped, CountsDictString
<1>4. CASE At("key_value") /\ set_dict_string("value", Attrl.value, "key_resource")
  <2>1. held' = held /\ frame.at = "key_value" /\ frame.at \in InAttr
    BY <1>4 DEF At, InAttr
  <2> QED BY <1>1, <1>4, <2>1, AttrlTyped, CountsDictString
<1>5. CASE At("key_resource") /\ set_dict_string("resource", Attrl.resource, "init")
  <2>1. held' = held /\ frame.at = "key_resource" /\ frame.at \in InAttr
    BY <1>5 DEF At, InAttr
  <2> QED BY <1>1, <1>5, <2>1, AttrlTyped, CountsDictString
<1>6. CASE
    /\ At("init")
    /\ \E k \in 0..3 :
       \E r \in attr__init(heap, frame.attr, Reached(k, "name"), Reached(k - 1, "value"),
                           Reached(k - 2, "resource"), NULL) :
         /\ heap' = IF k = 3 THEN Steal(Py_DECREF(r.heap, frame.kwds),
                                        frame.attribs, frame.j, frame.attr)
                    ELSE r.heap
         /\ frame' = IF k = 3 THEN [Goto("next_attr") EXCEPT !.attr = NULL, !.kwds = NULL]
                     ELSE Goto("attr_error")
         /\ pending' = (pending \/ k # 3)
  BY <1>6, CountsAttrInit
<1>7. CASE
    /\ At("attr_error")
    /\ heap' = Py_DECREF(Py_DECREF(heap, frame.kwds), frame.attr)
    /\ frame' = [Goto("next_attr") EXCEPT !.attr = NULL, !.kwds = NULL]
    /\ UNCHANGED pending
  BY <1>7, CountsAttrError DEF At
<1> QED BY <1>2, <1>3, <1>4, <1>5, <1>6, <1>7 DEF PBSAttr_New

(* argv_to_sequence.                                                       *)
LEMMA CountsStrings ==
  ASSUME Working, argv_to_sequence PROVE Counts
<1>0. frame \in Frame /\ heap \in Heaps /\ FrameFits(frame)
  BY WorkingHas
<1>1. CASE At("argv") /\ Allocates("list", <<>>, [Goto("append") EXCEPT !.list = Fresh(heap)])
  <2> DEFINE l == Fresh(heap)
             ptr == <<>>
  <2>1. /\ frame.at = "argv" /\ held' = held /\ Free(heap) # {}
        /\ heap' = Make(heap, "list", ptr, NULL)
        /\ frame' = [Goto("append") EXCEPT !.list = l]
    BY <1>1 DEF At, Allocates
  <2>2. /\ [kind |-> "list", refs |-> 1, ptr |-> ptr, val |-> NULL] \in Object
        /\ \A f \in DOMAIN ptr : ptr[f] \notin Objs
    BY DEF Object
  <2> HIDE DEF ptr
  <2>3. l \in Objs /\ \A p \in Objs : Surplus(heap', p) = Surplus(heap, p) + One(l, p)
    BY <1>0, <2>1, <2>2, MakeCounts
  <2> HIDE DEF l
  <2>4. /\ frame'.at = "append" /\ frame'.in = frame.in /\ frame'.i = frame.i
        /\ frame'.j = frame.j /\ frame'.list = l /\ frame'.data = frame.data
        /\ frame'.attribs = frame.attribs /\ frame'.attr = frame.attr
        /\ frame'.kwds = frame.kwds
    BY <1>0, <2>1 DEF Frame, Goto
  <2>5. /\ frame.j = 0 /\ frame.list = NULL /\ frame.data = NULL
        /\ frame.attribs = NULL /\ frame.attr = NULL /\ frame.kwds = NULL
    BY <2>1, WorkingHas DEF Rooms, AttrsRoom, Locals, InList, InData, InAttrs,
                            InStatus, InAttr
  <2>6. Locals(frame')
    BY <2>3, <2>4, <2>5 DEF Locals, InList, InData, InAttrs, InKwds, InStatus, InAttr
  <2>7. Rooms(heap', frame')
    BY <2>4, <2>5 DEF Rooms, ListRoom, AttrsRoom, DataRoom, KwdsRoom,
                      InData, InAttrs, InStatus, InAttr
  <2>8. ASSUME NEW p \in Objs
        PROVE  Surplus(heap', p) - Locs(frame', p) - held'[p]
                 = Surplus(heap, p) - Locs(frame, p) - held[p]
    <3>1. Locs(frame', p) = One(l, p) /\ Locs(frame, p) = 0
      BY <2>4, <2>5, NoObject, OneTyped DEF Locs
    <3>2. Surplus(heap, p) \in Int /\ One(l, p) \in Int /\ held[p] \in Int
      BY WorkingHas, OneTyped
    <3> QED BY <2>1, <2>3, <3>1, <3>2
  <2> QED BY <2>6, <2>7, <2>8 DEF Counts, Shape, Squares
<1>2. CASE At("argv") /\ Fails /\ UNCHANGED heap
  <2>1. frame.at = "argv" /\ UNCHANGED <<heap, held>> /\ frame' = Idle
    BY <1>2 DEF At, Fails
  <2>2. /\ frame.list = NULL /\ frame.data = NULL
        /\ frame.attribs = NULL /\ frame.attr = NULL /\ frame.kwds = NULL
    BY <2>1, WorkingHas DEF Locals, InList, InData, InAttrs, InStatus, InAttr
  <2>3. \A p \in Objs : Locs(frame, p) = 0
    BY <2>2, NoObject DEF Locs
  <2> QED BY <2>1, <2>3, CountsIdle
<1> DEFINE s == frame.in[frame.i + 1]
           h == Make(heap, "str", <<>>, s)
           v == Fresh(heap)
           l == frame.list
<1>3. CASE /\ At("append") /\ frame.i < Len(frame.in) /\ Free(heap) # {}
           /\ \/ /\ heap' = [h EXCEPT ![frame.list].ptr = Append(@, Fresh(heap))]
                 /\ UNCHANGED pending
              \/ heap' = Py_DECREF(h, Fresh(heap)) /\ pending' = TRUE
           /\ frame' = [frame EXCEPT !.i = @ + 1]
  <2> DEFINE n == frame.i + 1
  <2>1. frame.at = "append" /\ held' = held
    BY <1>3 DEF At
  <2>2. s \in Text
    BY <1>0, <1>3, <2>1 DEF FrameFits, Frame
  <2>3. /\ h \in Heaps /\ Same(heap, h, {}) /\ v \in Objs /\ h[v] # NULL
        /\ \A p \in Objs : Surplus(h, p) = Surplus(heap, p) + One(v, p)
    BY <1>0, <1>3, <2>2, StringMade
  <2>4. frame' = [frame EXCEPT !.i = n]
    BY <1>3
  <2> HIDE DEF h, v, n
  <2>5. /\ frame'.at = "append" /\ frame'.in = frame.in /\ frame'.i = n
        /\ frame'.j = frame.j /\ frame'.list = frame.list /\ frame'.data = frame.data
        /\ frame'.attribs = frame.attribs /\ frame'.attr = frame.attr
        /\ frame'.kwds = frame.kwds
    BY <1>0, <2>1, <2>4 DEF Frame
  <2>6. IsA(h, l, "list")
    <3>1. l \in Objs /\ heap[l] # NULL /\ heap[l].kind = "list"
      BY <2>1, WorkingHas, LocalsLive DEF Locals, InList
    <3> QED BY <2>3, <3>1 DEF Same, IsA
  <2>7. \A p \in Objs : Surplus(heap', p) = Surplus(h, p) - One(v, p)
    <3>1. CASE heap' = [h EXCEPT ![frame.list].ptr = Append(@, Fresh(heap))]
      <4>1. heap' = Extend(h, l, v) /\ v \in Pointers
        BY <2>3, <3>1 DEF Extend, v, Pointers
      <4>2. h \in Heaps /\ IsA(h, l, "list") /\ v \in Pointers
        BY <2>3, <2>6, <4>1
      <4> HIDE DEF l
      <4>3. \A q \in Objs : Surplus(Extend(h, l, v), q) = Surplus(h, q) - One(v, q)
        BY <4>2, AppendCounts
      <4> QED BY <4>1, <4>3
    <3>2. CASE heap' = Py_DECREF(h, Fresh(heap))
      <4>1. heap' = Py_DECREF(h, v)
        BY <3>2 DEF v
      <4> QED BY <2>3, <4>1, DecrefCounts
    <3> QED BY <1>3, <3>1, <3>2
  <2>8. Locals(frame')
    BY <2>1, <2>5, WorkingHas DEF Locals
  <2>9. Rooms(heap', frame')
    BY <2>1, <2>5, WorkingHas DEF Rooms, ListRoom, AttrsRoom, DataRoom, KwdsRoom,
                                  InData, InAttrs, InStatus, InAttr
  <2>10. ASSUME NEW p \in Objs
         PROVE  Surplus(heap', p) - Locs(frame', p) - held'[p]
                  = Surplus(heap, p) - Locs(frame, p) - held[p]
    <3>1. Locs(frame', p) = Locs(frame, p)
      BY <2>5 DEF Locs
    <3>2. Surplus(heap, p) \in Int /\ One(v, p) \in Int
      BY WorkingHas, OneTyped
    <3>3. Surplus(heap', p) = Surplus(heap, p)
      BY <2>3, <2>7, <3>2
    <3> QED BY <2>1, <3>1, <3>3
  <2> QED BY <2>8, <2>9, <2>10 DEF Counts, Shape, Squares
<1>4. CASE At("append") /\ heap' = Py_DECREF(heap, frame.list) /\ frame' = Idle
  <2>1. frame.at = "append" /\ held' = held
    BY <1>4 DEF At
  <2>2. \A p \in Objs : Surplus(heap', p) = Surplus(heap, p) - One(l, p)
    BY <1>0, <1>4, LocalsLive, DecrefCounts
  <2>3. /\ frame.data = NULL /\ frame.attribs = NULL /\ frame.attr = NULL
        /\ frame.kwds = NULL
    BY <2>1, WorkingHas DEF Locals, InData, InAttrs, InStatus, InAttr
  <2>4. ASSUME NEW p \in Objs
        PROVE  Surplus(heap', p) - Locs(frame', p) - held'[p]
                 = Surplus(heap, p) - Locs(frame, p) - held[p]
    <3>1. Locs(frame, p) = One(l, p) /\ Locs(frame', p) = 0
      BY <1>4, <2>3, NoObject, IdleShape, OneTyped DEF Locs
    <3>2. Surplus(heap, p) \in Int /\ One(l, p) \in Int /\ held[p] \in Int
      BY WorkingHas, OneTyped
    <3> QED BY <2>1, <2>2, <3>1, <3>2
  <2> QED BY <1>4, <2>4, IdleShape DEF Counts, Squares
<1>5. CASE frame.at = "append" /\ Returns
  BY <1>5, CountsReturns
<1> QED BY <1>1, <1>2, <1>3, <1>4, <1>5 DEF argv_to_sequence, Fails

(* Every step of a conversion leaves the counts right.                     *)
LEMMA CountsConvert ==
  ASSUME Working, Convert PROVE Counts
BY CountsRequest, CountsStatuses, CountsData, CountsAttrList, CountsAttr, CountsStrings
   DEF Convert

-------------------------------------------------------------------------------
(* The steps of a program.                                                 *)

(* The program works while nothing is converted.                           *)
LEMMA CountsReady ==
  ASSUME frame = Idle, UNCHANGED frame,
         \A p \in Objs : Surplus(heap', p) - held'[p] = Surplus(heap, p) - held[p],
         \A p \in Objs : Surplus(heap', p) \in Int /\ held'[p] \in Int,
         \A p \in Objs : Surplus(heap, p) \in Int /\ held[p] \in Int
  PROVE  Counts
<1>1. ASSUME NEW p \in Objs
      PROVE  Surplus(heap', p) - Locs(frame', p) - held'[p]
               = Surplus(heap, p) - Locs(frame, p) - held[p]
  <2>1. Locs(frame, p) = 0 /\ Locs(frame', p) = 0
    BY IdleShape
  <2> QED BY <2>1
<1> QED BY <1>1, IdleShape DEF Counts, Squares

(* No count changes against the references.                                *)
LEMMA CountsEven ==
  ASSUME Working, frame = Idle, UNCHANGED <<frame, held>>, Even(heap, heap')
  PROVE  Counts
<1>1. \A p \in Objs : Surplus(heap, p) \in Int /\ held[p] \in Int
  BY WorkingHas
<1>2. \A p \in Objs : Surplus(heap', p) = Surplus(heap, p)
  BY DEF Even
<1> QED BY <1>1, <1>2, CountsReady

(* The program gets a reference, and the object counts it.                 *)
LEMMA CountsTakes ==
  ASSUME Working, frame = Idle, UNCHANGED frame, NEW h, NEW q \in Objs, Takes(h, q),
         \A p \in Objs : Surplus(h, p) = Surplus(heap, p) + One(q, p)
  PROVE  Counts
<1>1. heap' = h /\ held' = [held EXCEPT ![q] = @ + 1] /\ held \in [Objs -> Nat]
  BY WorkingHas DEF Takes
<1>2. ASSUME NEW p \in Objs
      PROVE  /\ Surplus(heap', p) - held'[p] = Surplus(heap, p) - held[p]
             /\ Surplus(heap', p) \in Int /\ held'[p] \in Int
             /\ Surplus(heap, p) \in Int /\ held[p] \in Int
  <2>1. held'[p] = held[p] + One(q, p)
    BY <1>1 DEF One
  <2>2. Surplus(heap, p) \in Int /\ held[p] \in Int /\ One(q, p) \in Int
    BY WorkingHas, OneTyped
  <2> QED BY <1>1, <2>1, <2>2
<1> QED BY <1>2, CountsReady

(* An object is made that leads to no other.                               *)
LEMMA CountsNewObject ==
  ASSUME Working, NEW kind, NEW ptr, NEW val, NewObject(kind, ptr, val),
         [kind |-> kind, refs |-> 1, ptr |-> ptr, val |-> val] \in Object,
         \A f \in DOMAIN ptr : ptr[f] \notin Objs
  PROVE  Counts
<1>1. /\ Free(heap) # {} /\ frame = Idle /\ UNCHANGED frame
      /\ Takes(Make(heap, kind, ptr, val), Fresh(heap))
  BY DEF NewObject, Makes, Ready
<1> DEFINE h == Make(heap, kind, ptr, val)
           q == Fresh(heap)
<1>2. q \in Objs /\ \A p \in Objs : Surplus(h, p) = Surplus(heap, p) + One(q, p)
  BY <1>1, WorkingHas, MakeCounts
<1> HIDE DEF h, q
<1> QED BY <1>1, <1>2, CountsTakes DEF h, q

(* Objects that the program makes.                                         *)
LEMMA CountsNew ==
  ASSUME Working, bs__new \/ batchop__new \/ Attr_new \/ \E s \in Str : string_new(s)
  PROVE  Counts
<1> DEFINE ptr == <<>>
<1>1. \A f \in DOMAIN ptr : ptr[f] \notin Objs
  OBVIOUS
<1>2. CASE bs__new
  <2>1. \A f \in DOMAIN NoFields : NoFields[f] \notin Objs
    BY AnswersAssumption DEF NoFields
  <2> QED BY <1>2, <2>1, NewTyped, CountsNewObject DEF bs__new
<1>3. CASE batchop__new
  <2> DEFINE end == BATCHOP_ARRAY_END
  <2>1. end \in 1..BATCHOP_ARRAY_END
    <3>1. Len(OpNames) \in Nat
      BY AnswersAssumption
    <3> QED BY <3>1 DEF BATCHOP_ARRAY_END
  <2> HIDE DEF end
  <2>2. [kind |-> "bop", refs |-> 1, ptr |-> ptr, val |-> end] \in Object
    BY <2>1 DEF Object
  <2>3. NewObject("bop", ptr, end)
    BY <1>3 DEF batchop__new, end
  <2> HIDE DEF ptr
  <2> QED BY <1>1, <2>2, <2>3, CountsNewObject
<1>4. CASE \E s \in Str : string_new(s)
  <2>1. PICK s \in Str : NewObject("str", ptr, s)
    BY <1>4 DEF string_new
  <2>2. [kind |-> "str", refs |-> 1, ptr |-> ptr, val |-> s] \in Object
    BY NewTyped DEF Text
  <2> HIDE DEF ptr
  <2> QED BY <1>1, <2>1, <2>2, CountsNewObject
<1>5. CASE Attr_new
  <2>1. PICK r \in attr__new(heap) :
          \/ r.attr # NULL /\ Takes(r.heap, r.attr)
          \/ r.attr = NULL /\ heap' = r.heap /\ pending' = FALSE /\ UNCHANGED held
    BY <1>5 DEF Attr_new
  <2>2. frame = Idle /\ UNCHANGED frame
    BY <1>5 DEF Attr_new, Makes, Ready
  <2>3. /\ r.heap \in Heaps /\ (r.attr # NULL => r.attr \in Objs)
        /\ \A p \in Objs : Surplus(r.heap, p) = Surplus(heap, p) + One(r.attr, p)
    BY WorkingHas, NewCounts
  <2>4. CASE r.attr # NULL /\ Takes(r.heap, r.attr)
    BY <2>2, <2>3, <2>4, CountsTakes
  <2>5. CASE r.attr = NULL /\ heap' = r.heap /\ UNCHANGED held
    <3>1. \A p \in Objs : Surplus(r.heap, p) = Surplus(heap, p)
      BY <2>3, <2>5, NoObject, WorkingHas
    <3> QED BY <2>2, <2>3, <2>5, <3>1, CountsEven DEF Even
  <2> QED BY <2>1, <2>4, <2>5
<1> QED BY <1>2, <1>3, <1>4, <1>5

(* A getter, or an item of a list.                                         *)
LEMMA CountsGet ==
  ASSUME Working, NEW o \in Objs, heap[o] # NULL, NEW f \in DOMAIN heap[o].ptr, Get(o, f)
  PROVE  Counts
<1> DEFINE q == heap[o].ptr[f]
           h == Py_INCREF(heap, q)
<1>1. q \in Objs /\ frame = Idle /\ UNCHANGED frame /\ Takes(h, q)
  BY DEF Get, Ready
<1>2. heap[q] # NULL
  BY <1>1, Live DEF Working
<1> HIDE DEF q
<1>3. \A p \in Objs : Surplus(h, p) = Surplus(heap, p) + One(q, p)
  BY <1>2, WorkingHas, IncrefCounts
<1> HIDE DEF h
<1> QED BY <1>1, <1>3, CountsTakes

(* The getters, and the items of a list.                                   *)
LEMMA CountsGetters ==
  ASSUME Working, NEW o, bs_get(o) \/ attr_get_str(o) \/ attr_get_bop(o) \/ list_item(o)
  PROVE  Counts
<1>1. o \in Objs /\ heap[o] # NULL /\ heap[o] \in Object
  BY WorkingHas DEF Heaps, bs_get, attr_get_str, attr_get_bop, list_item, Is, IsA
<1>2. CASE bs_get(o)
  <2>1. heap[o].ptr \in [DataFields -> Pointers]
    BY <1>1, <1>2, ObjectParts DEF bs_get, Is, IsA
  <2> QED BY <1>1, <1>2, <2>1, CountsGet DEF bs_get
<1>3. CASE attr_get_str(o) \/ attr_get_bop(o)
  <2>1. heap[o].ptr \in [AttrFields -> Pointers] /\ "bop" \in AttrFields
    BY <1>1, <1>3, ObjectParts DEF attr_get_str, attr_get_bop, Is, IsA, AttrFields
  <2> QED BY <1>1, <1>3, <2>1, CountsGet DEF attr_get_str, attr_get_bop
<1>4. CASE list_item(o)
  BY <1>1, <1>4, CountsGet DEF list_item
<1> QED BY <1>2, <1>3, <1>4

(* A method that leaves the counts as they are.                            *)
LEMMA CountsEnds ==
  ASSUME Working, frame = Idle, UNCHANGED frame, NEW results, Ends(results),
         \A r \in results : Even(heap, r.heap)
  PROVE  Counts
<1>1. UNCHANGED held /\ \E r \in results : heap' = r.heap
  BY DEF Ends
<1> QED BY <1>1, CountsEven

(* The setters of an Attr, and its __init__.                               *)
LEMMA CountsAttrSetters ==
  ASSUME Working, NEW a,
         \/ \E v : \E f \in AttrFields \ {"bop"} : attr_set_str(a, f, v)
         \/ \E v : attr_set_bop(a, v)
         \/ \E name, value, rscn, bop : Attr_init(a, name, value, rscn, bop)
  PROVE  Counts
<1> DEFINE r0 == [heap |-> heap, ok |-> TRUE]
<1>1. Good(heap, NULL)
  BY WorkingHas
<1>2. Is(a, "attr") /\ frame = Idle /\ UNCHANGED frame
  BY DEF attr_set_str, attr_set_bop, Attr_init, Ready
<1>3. IsA(heap, a, "attr") /\ heap[a].refs > 0
  BY <1>2 DEF Is, IsA, Working, Settled
<1>4. Kept(heap, a, r0) /\ r0.heap = heap
  BY <1>1, <1>3, KeepsSame DEF Kept, Results, Good
<1>5. CASE \E v : \E f \in AttrFields \ {"bop"} : attr_set_str(a, f, v)
  <2>1. PICK v : \E f \in AttrFields \ {"bop"} : attr_set_str(a, f, v)
    BY <1>5
  <2>2. PICK f \in AttrFields \ {"bop"} : attr_set_str(a, f, v)
    BY <2>1
  <2>3. Ends(convert_to_string(r0, a, f, v))
    BY <2>2 DEF attr_set_str
  <2> HIDE DEF r0
  <2>4. \A r \in convert_to_string(r0, a, f, v) : Even(heap, r.heap)
    BY <1>4, StringCounts
  <2> QED BY <1>2, <2>3, <2>4, CountsEnds
<1>6. CASE \E v : attr_set_bop(a, v)
  <2>1. PICK v : Ends(convert_to_batchop(r0, a, v))
    BY <1>6 DEF attr_set_bop
  <2> HIDE DEF r0
  <2>2. \A r \in convert_to_batchop(r0, a, v) : Even(heap, r.heap)
    BY <1>4, BatchopCounts
  <2> QED BY <1>2, <2>1, <2>2, CountsEnds
<1>7. CASE \E name, value, rscn, bop : Attr_init(a, name, value, rscn, bop)
  <2>1. PICK name, value, rscn, bop : Ends(attr__init(heap, a, name, value, rscn, bop))
    BY <1>7 DEF Attr_init
  <2>2. \A r \in attr__init(heap, a, name, value, rscn, bop) : Even(heap, r.heap)
    BY <1>1, <1>3, InitCounts
  <2> QED BY <1>2, <2>1, <2>2, CountsEnds
<1> QED BY <1>5, <1>6, <1>7

(* An operator gets another name.                                          *)
LEMMA CountsSetOp ==
  ASSUME Working, NEW b, NEW v, bop_set_op(b, v) PROVE Counts
<1> DEFINE i == IF IsString(heap, v) THEN batchop_index(heap[v].val) ELSE 0
           g == [heap EXCEPT ![b].val = i]
           y == [heap[b] EXCEPT !.val = i]
<1>1. /\ frame = Idle /\ UNCHANGED frame /\ IsA(heap, b, "bop")
      /\ Ends({IF i = 0 THEN [heap |-> heap, ok |-> FALSE] ELSE [heap |-> g, ok |-> TRUE]})
  BY DEF bop_set_op, Is, Ready
<1>2. i # 0 => i \in 1..BATCHOP_ARRAY_END
  BY IndexInTable
<1>3. heap \in Heaps /\ Good(heap, NULL)
  BY WorkingHas
<1> HIDE DEF i
<1>4. Even(heap, heap)
  BY <1>3 DEF Even
<1>5. ASSUME i # 0 PROVE Even(heap, g)
  <2>1. b \in Objs /\ heap[b] \in Object /\ heap[b] # NULL
    BY <1>1, <1>3 DEF Heaps, IsA
  <2>2. g[b] = y /\ \A q \in Objs \ {b} : g[q] = heap[q]
    BY <1>3, <2>1 DEF Heaps
  <2>3. y.ptr = heap[b].ptr /\ y.refs = heap[b].refs
    BY <2>1 DEF Object
  <2>4. g \in Heaps /\ g[b] # NULL
    <3>1. Good(g, NULL) /\ Keeps(heap, g)
      BY <1>1, <1>2, <1>3, <1>5, Renamed
    <3> QED BY <2>1, <3>1 DEF Good, Keeps
  <2> HIDE DEF g, y
  <2>5. ASSUME NEW q \in Objs PROVE Surplus(g, q) = Surplus(heap, q)
    <3>1. ASSUME NEW x PROVE x \in Fields(g, q) <=> x \in Fields(heap, q)
      BY <2>1, <2>2, <2>3, <2>4, FieldsOf
    <3>2. Fields(g, q) = Fields(heap, q)
      BY <3>1
    <3>3. Count(g, q) = Count(heap, q)
      BY <2>1, <2>2, <2>3, <2>4 DEF Count
    <3> QED BY <3>2, <3>3 DEF Surplus
  <2> QED BY <2>4, <2>5 DEF Even
<1> HIDE DEF g
<1> DEFINE results == {IF i = 0 THEN [heap |-> heap, ok |-> FALSE] ELSE [heap |-> g, ok |-> TRUE]}
<1>6. \A r \in results : Even(heap, r.heap)
  BY <1>4, <1>5
<1>7. Ends(results)
  BY <1>1
<1> HIDE DEF results
<1> QED BY <1>1, <1>6, <1>7, CountsEnds

(* A reference that the program had is given up.                           *)
LEMMA CountsDrop ==
  ASSUME Working, NEW o, Drop(o) PROVE Counts
<1>1. /\ o \in Objs /\ held[o] > 0 /\ frame = Idle /\ UNCHANGED frame
      /\ heap' = Py_DECREF(heap, o) /\ held' = [held EXCEPT ![o] = @ - 1]
  BY DEF Drop, Held, Ready
<1>2. \A p \in Objs : Surplus(heap', p) = Surplus(heap, p) - One(o, p)
  <2>1. heap[o] # NULL
    BY <1>1, Live DEF Working
  <2> QED BY <1>1, <2>1, WorkingHas, DecrefCounts
<1>3. ASSUME NEW p \in Objs
      PROVE  /\ Surplus(heap', p) - held'[p] = Surplus(heap, p) - held[p]
             /\ Surplus(heap', p) \in Int /\ held'[p] \in Int
             /\ Surplus(heap, p) \in Int /\ held[p] \in Int
  <2>1. held'[p] = held[p] - One(o, p)
    BY <1>1, WorkingHas DEF One
  <2>2. Surplus(heap, p) \in Int /\ held[p] \in Int /\ One(o, p) \in Int
    BY WorkingHas, OneTyped
  <2> QED BY <1>2, <2>1, <2>2
<1> QED BY <1>1, <1>3, CountsReady

-------------------------------------------------------------------------------
(* The other steps.                                                        *)

(* References are given to strings of a list, and no field changes.        *)
LEMMA CountsListSent ==
  ASSUME Working, ListSent
  PROVE  /\ Shape(heap', frame') /\ UNCHANGED <<frame, held>>
         /\ \A p \in Objs : Surplus(heap', p) >= Surplus(heap, p)
<1>1. heap \in Heaps /\ IInv /\ Sound
  BY WorkingHas DEF Working
<1>2. /\ frame = Idle /\ UNCHANGED <<frame, held>>
      /\ heap' = heap \/ More(heap, heap')
  BY <1>1, StringsTaken DEF ListSent
<1>3. ASSUME NEW p \in Objs PROVE Surplus(heap', p) >= Surplus(heap, p)
  <2>1. CASE heap' = heap
    BY <2>1, WorkingHas
  <2>2. CASE More(heap, heap')
    <3>1. /\ heap' \in Heaps /\ SameObjects(heap, heap')
          /\ \A q \in Objs : heap[q] # NULL =>
               heap'[q] # NULL /\ heap'[q].refs \in Int /\ heap[q].refs \in Int
               /\ heap'[q].refs >= heap[q].refs
      BY <1>1, <2>2, MoreParts DEF SameObjects, Same
    <3>2. Fields(heap', p) = Fields(heap, p)
      BY <3>1, SameFields
    <3>3. Count(heap', p) >= Count(heap, p)
      BY <3>1 DEF Count, SameObjects
    <3>4. /\ Count(heap', p) \in Int /\ Count(heap, p) \in Int
          /\ Cardinality(Fields(heap, p)) \in Nat
      BY <1>1, <3>1, SurplusTyped, FieldsFew
    <3> QED BY <3>2, <3>3, <3>4 DEF Surplus
  <2> QED BY <1>2, <2>1, <2>2
<1> QED BY <1>2, <1>3, IdleShape

(* What a program does to the counts.                                      *)
LEMMA CountsProgram ==
  ASSUME Working, Program PROVE Counts \/ ListSent \/ DataInit
<1>1. CASE bs__new \/ batchop__new \/ Attr_new \/ \E s \in Str : string_new(s)
  BY <1>1, CountsNew
<1>2. CASE \E o \in Held :
             bs_get(o) \/ attr_get_str(o) \/ attr_get_bop(o) \/ list_item(o)
  BY <1>2, CountsGetters
<1>3. CASE \E o \in Held, v \in Args \cup {NULL} :
             \/ attr_set_bop(o, v) \/ bop_set_op(o, v) \/ batchop__init(o, v)
             \/ \E f \in AttrFields \ {"bop"} : attr_set_str(o, f, v)
  <2>1. PICK o \in Held, v \in Args \cup {NULL} :
          \/ attr_set_bop(o, v) \/ bop_set_op(o, v)
          \/ \E f \in AttrFields \ {"bop"} : attr_set_str(o, f, v)
    BY <1>3 DEF batchop__init
  <2> QED BY <2>1, CountsSetOp, CountsAttrSetters
<1>4. CASE \E a \in Held, name, value \in Args, rscn, bop \in Args \cup {NULL} :
             Attr_init(a, name, value, rscn, bop)
  BY <1>4, CountsAttrSetters
<1> QED BY <1>1, <1>2, <1>3, <1>4 DEF Program

(* The exception that is raised changes no object.                         *)
LEMMA CountsRaise ==
  ASSUME Working, Raise PROVE Counts
<1>1. frame = Idle /\ UNCHANGED <<heap, held, frame>>
  BY DEF Raise
<1>2. Even(heap, heap')
  BY <1>1, WorkingHas DEF Even
<1> QED BY <1>1, <1>2, CountsEven

(* The places that are empty in a heap with the same local variables.      *)
LEMMA ShapeKept ==
  ASSUME NEW h, NEW g, NEW fr, Shape(h, fr),
         \A p \in Objs : p \in {fr.list, fr.data, fr.attribs, fr.kwds} => g[p].ptr = h[p].ptr
  PROVE  Shape(g, fr)
<1>1. Locals(fr) /\ Rooms(h, fr)
  BY DEF Shape
<1>2. ListRoom(g, fr)
  BY <1>1 DEF Locals, Rooms, ListRoom, EmptyFrom, InList
<1>3. AttrsRoom(g, fr)
  BY <1>1 DEF Locals, Rooms, AttrsRoom, EmptyFrom, InAttrs
<1>4. DataRoom(g, fr)
  BY <1>1 DEF Locals, Rooms, DataRoom, InData, InStatus
<1>5. KwdsRoom(g, fr)
  BY <1>1 DEF Locals, Rooms, KwdsRoom, InKwds
<1> QED BY <1>1, <1>2, <1>3, <1>4, <1>5 DEF Shape, Rooms

(* An object that is freed gives up the references that its fields have.   *)
LEMMA FreedCounts ==
  ASSUME IInv, NEW o \in Objs, NEW kinds, Dies(o, kinds), Clears(o, DOMAIN heap[o].ptr),
         TypeOK'
  PROVE  /\ UNCHANGED <<held, frame>> /\ heap'[o] = NULL /\ Same(heap', heap, {})
         /\ \A p \in Objs \ {o} : heap[p] # NULL => heap'[p] # NULL
         /\ \A p \in Objs : heap'[p] # NULL =>
              heap[p] # NULL /\ heap'[p].ptr = heap[p].ptr /\ Surplus(heap', p) = Surplus(heap, p)
<1> DEFINE S(p) == {f \in DOMAIN heap[o].ptr : heap[o].ptr[f] = p}
<1>1. heap \in Heaps /\ heap' \in Heaps
  BY DEF IInv, TypeOK, Heaps
<1>2. UNCHANGED <<held, frame>> /\ heap[o] # NULL /\ heap[o] \in Object
  BY <1>1 DEF Dies, Heaps
<1>3. ASSUME NEW p PROVE IsFiniteSet(S(p)) /\ Cardinality(S(p)) \in Nat
  <2>1. IsFiniteSet(S(p))
    BY <1>2, FieldsFinite, FS_Subset, S(p) \subseteq DOMAIN heap[o].ptr
  <2> QED BY <2>1, FS_CardinalityType
<1>4. heap' = [p \in Objs |-> IF p = o \/ heap[p] = NULL THEN NULL
                              ELSE [heap[p] EXCEPT !.refs = @ - Cardinality(S(p))]]
  BY DEF Clears
<1>5. ASSUME NEW p, NEW f PROVE f \in S(p) <=> f \in DOMAIN heap[o].ptr /\ heap[o].ptr[f] = p
  OBVIOUS
<1> HIDE DEF S
<1>6. \A p \in Objs : p = o \/ heap[p] = NULL => heap'[p] = NULL
  BY <1>4
<1>7. ASSUME NEW p \in Objs, p # o, heap[p] # NULL
      PROVE  /\ heap'[p] # NULL /\ heap'[p].ptr = heap[p].ptr
             /\ heap'[p].kind = heap[p].kind /\ heap'[p].val = heap[p].val
             /\ heap'[p].refs = heap[p].refs - Cardinality(S(p))
  <2> DEFINE m == heap[p].refs - Cardinality(S(p))
  <2>1. heap[p] \in Object /\ m \in Int
    BY <1>1, <1>3, <1>7, ObjectParts DEF Heaps
  <2>2. heap'[p] = [heap[p] EXCEPT !.refs = m]
    BY <1>4, <1>7
  <2> DEFINE y == [heap[p] EXCEPT !.refs = m]
  <2>3. y \in Object /\ y.kind = heap[p].kind /\ y.ptr = heap[p].ptr /\ y.refs = m
    <3> HIDE DEF m
    <3> QED BY <2>1, Recounted
  <2>4. y.val = heap[p].val
    BY <2>1 DEF Object
  <2> HIDE DEF y
  <2> QED BY <2>2, <2>3, <2>4, AnswersAssumption DEF y
<1>8. ASSUME NEW p \in Objs, p # o, heap[p] # NULL
      PROVE  Surplus(heap', p) = Surplus(heap, p)
  <2> DEFINE F == Fields(heap, p)
             T == {o} \X S(p)
  <2>1. ASSUME NEW x PROVE x \in T <=> x = <<o, x[2]>> /\ x[2] \in S(p)
    OBVIOUS
  <2>2. T \subseteq F
    BY <1>2, <1>5, <2>1, FieldsOf
  <2>3. ASSUME NEW x PROVE x \in Fields(heap', p) <=> x \in F \ T
    <3>1. x \in Fields(heap', p) <=>
            \E q \in Objs : /\ q # o /\ heap[q] # NULL /\ x = <<q, x[2]>>
                            /\ x[2] \in DOMAIN heap[q].ptr /\ heap[q].ptr[x[2]] = p
      BY <1>6, <1>7, FieldsOf
    <3>2. x \in F <=>
            \E q \in Objs : /\ heap[q] # NULL /\ x = <<q, x[2]>>
                            /\ x[2] \in DOMAIN heap[q].ptr /\ heap[q].ptr[x[2]] = p
      BY FieldsOf
    <3>3. ASSUME NEW q, x = <<q, x[2]>> PROVE x = <<o, x[2]>> <=> q = o
      <4>1. x[1] = q
        BY <3>3
      <4> QED BY <3>3, <4>1
    <3> HIDE DEF F, T
    <3> QED BY <1>5, <2>1, <3>1, <3>2, <3>3
  <2>4. Fields(heap', p) = F \ T
    BY <2>3
  <2>5. IsFiniteSet(T) /\ Cardinality(T) = Cardinality(S(p))
    <3>1. IsFiniteSet({o}) /\ Cardinality({o}) = 1
      BY FS_Singleton
    <3>2. IsFiniteSet(T) /\ Cardinality(T) = 1 * Cardinality(S(p))
      BY <1>3, <3>1, FS_Product
    <3> QED BY <1>3, <3>2
  <2>6. IsFiniteSet(F) /\ Cardinality(F) \in Nat
    BY <1>1, FieldsFew
  <2> HIDE DEF F, T
  <2>7. Cardinality(F \ T) = Cardinality(F) - Cardinality(T)
    <3>1. F \cap T = T
      BY <2>2
    <3> QED BY <2>6, <3>1, FS_Difference
  <2>8. Count(heap', p) = Count(heap, p) - Cardinality(S(p)) /\ Count(heap, p) \in Int
    BY <1>1, <1>7, <1>8, SurplusTyped DEF Count
  <2>9. Cardinality(S(p)) \in Nat
    BY <1>3
  <2>10. Surplus(heap', p) = Count(heap', p) - Cardinality(F \ T)
         /\ Surplus(heap, p) = Count(heap, p) - Cardinality(F)
    BY <2>4 DEF Surplus, F
  <2> QED BY <2>5, <2>6, <2>7, <2>8, <2>9, <2>10
<1>9. Same(heap', heap, {})
  BY <1>6, <1>7 DEF Same
<1> QED BY <1>2, <1>6, <1>7, <1>8, <1>9

(* Whichever object dies.                                                  *)
LEMMA CountsDealloc ==
  ASSUME IInv, Sound, Dealloc
  PROVE  /\ UNCHANGED <<held, frame>> /\ Same(heap', heap, {})
         /\ \E o \in Objs : heap[o] # NULL /\ heap[o].refs <= 0 /\ heap'[o] = NULL
              /\ \A p \in Objs \ {o} : heap[p] # NULL => heap'[p] # NULL
         /\ \A p \in Objs : heap'[p] # NULL =>
              heap[p] # NULL /\ heap'[p].ptr = heap[p].ptr /\ Surplus(heap', p) = Surplus(heap, p)
<1>1. PICK o \in Objs :
        bs__dealloc(o) \/ attr__dealloc(o) \/ batchop__dealloc(o) \/ object_dealloc(o)
  BY DEF Dealloc
<1>2. heap[o] \in Object
  BY <1>1 DEF IInv, TypeOK, Dies, bs__dealloc, attr__dealloc, batchop__dealloc,
              object_dealloc
<1>3. TypeOK'
  BY StepDealloc DEF IInv
<1>4. \E kinds : Dies(o, kinds) /\ Clears(o, DOMAIN heap[o].ptr)
  <2>1. CASE bs__dealloc(o)
    BY <1>2, <2>1, ObjectParts DEF bs__dealloc, Dies
  <2>2. CASE attr__dealloc(o)
    BY <1>2, <2>2, ObjectParts DEF attr__dealloc, Dies
  <2>3. CASE batchop__dealloc(o)
    <3>1. heap[o].ptr = <<>>
      BY <1>2, <2>3, ObjectParts DEF batchop__dealloc, Dies
    <3>2. DOMAIN heap[o].ptr = {}
      BY <3>1
    <3> QED BY <2>3, <3>2 DEF batchop__dealloc
  <2>4. CASE object_dealloc(o)
    BY <2>4 DEF object_dealloc
  <2> QED BY <1>1, <2>1, <2>2, <2>3, <2>4
<1>5. PICK kinds : Dies(o, kinds) /\ Clears(o, DOMAIN heap[o].ptr)
  BY <1>4
<1>6. heap[o] # NULL /\ heap[o].refs <= 0
  BY <1>5 DEF Dies
<1> QED BY <1>3, <1>5, <1>6, FreedCounts

-------------------------------------------------------------------------------
(* The balance of every object.                                            *)

(* How many references lead to p.                                          *)
Refs(h, hl, fr, p) ==
  hl[p] + (IF p \in {fr.list, fr.data, fr.attribs, fr.attr, fr.kwds} THEN 1 ELSE 0)
  + (IF p = PBS_NULLSTR THEN 1 ELSE 0) + Cardinality(Fields(h, p))

(* The balance now and after a step.                                       *)
LEMMA BalanceRefs ==
  ASSUME NEW p
  PROVE  /\ Balance(p) = Count(heap, p) - Refs(heap, held, frame, p)
         /\ Balance(p)' = Count(heap', p) - Refs(heap', held', frame', p)
BY DEF Balance, Holders, Framed, Count, Refs, Fields

(* There are none exactly when nothing leads to p.                         *)
LEMMA NoRefs ==
  ASSUME NEW h \in Heaps, NEW hl \in [Objs -> Nat], NEW fr, NEW p \in Objs
  PROVE  /\ Refs(h, hl, fr, p) \in Nat
         /\ Refs(h, hl, fr, p) = 0 <=>
              /\ hl[p] = 0 /\ p \notin {fr.list, fr.data, fr.attribs, fr.attr, fr.kwds}
              /\ p # PBS_NULLSTR
              /\ \A o \in Objs : h[o] # NULL => \A f \in DOMAIN h[o].ptr : h[o].ptr[f] # p
<1> DEFINE F == Fields(h, p)
<1>1. IsFiniteSet(F) /\ Cardinality(F) \in Nat
  BY FieldsFew
<1>2. F = {} <=> \A o \in Objs : h[o] # NULL => \A f \in DOMAIN h[o].ptr : h[o].ptr[f] # p
  <2>1. ASSUME F # {}
        PROVE  \E o \in Objs : h[o] # NULL /\ \E f \in DOMAIN h[o].ptr : h[o].ptr[f] = p
    <3>1. PICK x : x \in F
      BY <2>1
    <3> QED BY <3>1, FieldsOf
  <2>2. ASSUME NEW o \in Objs, h[o] # NULL, NEW f \in DOMAIN h[o].ptr, h[o].ptr[f] = p
        PROVE  F # {}
    BY <2>2, FieldOf
  <2> HIDE DEF F
  <2> QED BY <2>1, <2>2
<1> HIDE DEF F
<1>3. Cardinality(F) = 0 <=> F = {}
  BY <1>1, FS_EmptySet
<1> QED BY <1>1, <1>2, <1>3 DEF Refs, F

(* What is referenced, in these terms.                                     *)
LEMMA ReferencedRefs ==
  ASSUME TypeOK, NEW p \in Objs
  PROVE  Refs(heap, held, frame, p) \in Nat /\ (Referenced(p) <=> Refs(heap, held, frame, p) # 0)
<1>1. heap \in Heaps /\ held \in [Objs -> Nat]
  BY DEF TypeOK, Heaps
<1> QED BY <1>1, NoRefs DEF Referenced, Framed

(* The same after a step.                                                  *)
LEMMA ReferencedNext ==
  ASSUME TypeOK', NEW p \in Objs
  PROVE  /\ Refs(heap', held', frame', p) \in Nat
         /\ Referenced(p)' <=> Refs(heap', held', frame', p) # 0
<1>1. heap' \in Heaps /\ held' \in [Objs -> Nat]
  BY DEF TypeOK, Heaps
<1> QED BY <1>1, NoRefs DEF Referenced, Framed

(* A step that is fine and leaves the counts right.                        *)
LEMMA BalanceSame ==
  ASSUME Working, StepFine, Counts
  PROVE  TypeOK' /\ \A p \in Objs : Balance(p)' = Balance(p)
<1>1. TypeOK'
  BY DEF StepFine, TypeOK, Good, Heaps, FrameFits
<1>2. FrameLeads(heap', frame') /\ Locals(frame')
  BY DEF StepFine, Counts, Shape
<1>3. ASSUME NEW p \in Objs PROVE Balance(p)' = Balance(p)
  <2>1. /\ Balance(p) = Surplus(heap, p) - Locs(frame, p) - held[p] - One(PBS_NULLSTR, p)
        /\ Balance(p)' = Surplus(heap', p) - Locs(frame', p) - held'[p] - One(PBS_NULLSTR, p)
    BY <1>1, <1>2, WorkingHas, BalanceNow, BalanceNext
  <2> QED BY <2>1 DEF Counts, Squares
<1> QED BY <1>1, <1>3

(* References given to strings.                                            *)
LEMMA BalanceMore ==
  ASSUME Working, StepFine, ListSent
  PROVE  TypeOK' /\ \A p \in Objs : Balance(p) \in Int /\ Balance(p)' \in Int
                                    /\ Balance(p)' >= Balance(p)
<1>1. TypeOK'
  BY DEF StepFine, TypeOK, Good, Heaps, FrameFits
<1>2. /\ FrameLeads(heap', frame') /\ Locals(frame') /\ UNCHANGED <<held, frame>>
      /\ \A p \in Objs : Surplus(heap', p) >= Surplus(heap, p)
  BY CountsListSent DEF StepFine, Shape
<1>3. ASSUME NEW p \in Objs
      PROVE  Balance(p) \in Int /\ Balance(p)' \in Int /\ Balance(p)' >= Balance(p)
  <2>1. /\ Balance(p) = Surplus(heap, p) - Locs(frame, p) - held[p] - One(PBS_NULLSTR, p)
        /\ Surplus(heap, p) \in Int /\ Locs(frame, p) \in Int /\ held[p] \in Int
        /\ One(PBS_NULLSTR, p) \in Int
    BY WorkingHas, BalanceNow, OneTyped
  <2>2. /\ Balance(p)' = Surplus(heap', p) - Locs(frame', p) - held'[p] - One(PBS_NULLSTR, p)
        /\ Surplus(heap', p) \in Int
    BY <1>1, <1>2, BalanceNext
  <2> QED BY <1>2, <2>1, <2>2
<1> QED BY <1>1, <1>3

(* An object that dies takes its own references with it.                   *)
LEMMA BalanceDealloc ==
  ASSUME IInv, Sound, Dealloc
  PROVE  TypeOK' /\ \A p \in Objs : heap'[p] # NULL => Balance(p)' = Balance(p)
<1>1. TypeOK'
  BY StepDealloc DEF IInv
<1>2. ASSUME NEW p \in Objs, heap'[p] # NULL PROVE Balance(p)' = Balance(p)
  <2>1. held' = held /\ frame' = frame /\ Surplus(heap', p) = Surplus(heap, p)
    BY <1>2, CountsDealloc
  <2>2. heap \in Heaps /\ heap' \in Heaps /\ held[p] \in Nat
    BY <1>1 DEF IInv, TypeOK, Heaps
  <2>3. /\ Count(heap, p) \in Int /\ Cardinality(Fields(heap, p)) \in Nat
        /\ Count(heap', p) \in Int /\ Cardinality(Fields(heap', p)) \in Nat
    BY <2>2, SurplusTyped, FieldsFew
  <2> QED BY <2>1, <2>2, <2>3, BalanceRefs DEF Refs, Surplus
<1> QED BY <1>1, <1>2

-------------------------------------------------------------------------------
(* What every step keeps.                                                  *)

(* The conversion has the shape it should, until a reference dangles.      *)
CInv == IInv /\ (Sound => Shape(heap, frame))

(* What may happen next, whatever the counts are.                          *)
Step ==
  \/ Dealloc
  \/ Settled /\ (Convert \/ Raise \/ Program \/ \E o \in Held : Drop(o))

(* It holds at first.                                                      *)
LEMMA InitCInv == Init => CInv
BY InitIInv, IdleShape DEF Init, CInv

(* What a step does that frees no object.                                  *)
LEMMA StepCounts ==
  ASSUME CInv, Sound, Settled, Convert \/ Raise \/ Program \/ \E o \in Held : Drop(o)
  PROVE  Working /\ StepFine /\ (Counts \/ ListSent \/ DataInit)
<1>1. Working
  BY DEF CInv, Working
<1>2. StepFine
  BY StepConvert, StepRaise, StepProgram, StepDrop DEF CInv
<1> QED BY <1>1, <1>2, CountsConvert, CountsRaise, CountsProgram, CountsDrop

(* An argument of a Data's __init__ is stored, or it is not.               *)
LEMMA DataInitIdle == DataInit => UNCHANGED <<held, frame>> /\ frame = Idle
BY DEF DataInit, bs__init, Ready, Ends

(* Every step keeps the shape.                                             *)
LEMMA StepCInv ==
  ASSUME CInv, Sound, Step PROVE CInv'
<1>1. CASE Dealloc
  <2>1. IInv' /\ IInv
    BY <1>1, StepDealloc DEF CInv
  <2>2. ASSUME Sound' PROVE Shape(heap', frame')
    <3>1. /\ frame' = frame
          /\ \A p \in Objs : heap'[p] # NULL => heap'[p].ptr = heap[p].ptr
      BY <1>1, <2>1, CountsDealloc
    <3>2. \A p \in Objs : p \in Framed' => heap'[p] # NULL
      BY <2>2 DEF Sound, Referenced
    <3>3. Shape(heap, frame)
      BY DEF CInv
    <3> QED BY <3>1, <3>2, <3>3, ShapeKept DEF Framed
  <2> QED BY <2>1, <2>2 DEF CInv
<1>2. CASE Settled /\ (Convert \/ Raise \/ Program \/ \E o \in Held : Drop(o))
  <2>1. Working /\ StepFine /\ (Counts \/ ListSent \/ DataInit)
    BY <1>2, StepCounts
  <2>2. IInv'
    <3>1. TypeOK'
      BY <2>1 DEF StepFine, TypeOK, Good, Heaps, FrameFits
    <3> QED BY <2>1, <3>1 DEF StepFine, IInv
  <2>3. Shape(heap', frame')
    BY <2>1, CountsListSent, DataInitIdle, IdleShape DEF Counts
  <2> QED BY <2>2, <2>3 DEF CInv
<1> QED BY <1>1, <1>2 DEF Step

(* Nothing happens.                                                        *)
LEMMA StutterCInv ==
  ASSUME CInv, UNCHANGED vars PROVE CInv'
<1>1. IInv'
  BY NextIInv DEF CInv
<1>2. heap' = heap /\ held' = held /\ frame' = frame
  BY DEF vars
<1>3. Sound' = Sound
  BY <1>2 DEF Sound, Referenced, Framed
<1> QED BY <1>1, <1>2, <1>3 DEF CInv

(* No step but a Data's __init__ makes a count differ from the references  *)
(* there are, and only a list of strings that is sent leaves it too high   *)
(* (PBSDataType.c:42-56, 187-217, PBSAttrType.c:288-322,                   *)
(* utils.c:24-40, 73-92, 125-147).                                         *)
THEOREM CountsCorrect == Spec => CountsKept
<1> DEFINE Right ==
      \/ \A p \in Objs : heap'[p] # NULL => Balance(p)' = Balance(p)
      \/ ListSent /\ \A p \in Objs : heap'[p] # NULL => Balance(p)' >= Balance(p)
      \/ DataInit
<1>1. CInv /\ [Next]_vars => CInv'
  <2>1. ASSUME CInv, Next PROVE CInv'
    <3>1. Sound
      BY <2>1 DEF Next
    <3>2. Step
      BY <2>1, Zenon DEF Next, Step
    <3> QED BY <2>1, <3>1, <3>2, StepCInv
  <2> QED BY <2>1, StutterCInv
<1>2. CInv /\ [Next]_vars => [Right]_vars
  <2> SUFFICES ASSUME CInv, Next PROVE Right
    OBVIOUS
  <2>1. Sound
    BY DEF Next
  <2>2. CASE Dealloc
    <3>1. IInv
      BY DEF CInv
    <3>2. \A p \in Objs : heap'[p] # NULL => Balance(p)' = Balance(p)
      BY <2>1, <2>2, <3>1, BalanceDealloc
    <3> QED BY <3>2
  <2>3. CASE Settled /\ (Convert \/ Raise \/ Program \/ \E o \in Held : Drop(o))
    <3>1. Working /\ StepFine /\ (Counts \/ ListSent \/ DataInit)
      BY <2>1, <2>3, StepCounts
    <3>2. CASE Counts
      <4>1. \A p \in Objs : Balance(p)' = Balance(p)
        BY <3>1, <3>2, BalanceSame
      <4> QED BY <4>1
    <3>3. CASE ListSent
      <4>1. \A p \in Objs : Balance(p)' >= Balance(p)
        BY <3>1, <3>3, BalanceMore
      <4> QED BY <3>3, <4>1
    <3> QED BY <3>1, <3>2, <3>3
  <2> QED BY <2>2, <2>3 DEF Next
<1>3. CountsKept <=> [][Right]_vars
  BY DEF CountsKept
<1> HIDE DEF Right
<1> QED BY <1>1, <1>2, <1>3, InitCInv, PTL DEF Spec

-------------------------------------------------------------------------------
(* A program that stores nothing with a Data's __init__.                   *)

(* It may go on with counts that are too high.                             *)
Careful ==
  \/ Dealloc
  \/ /\ Settled
     /\ \/ Convert \/ Raise \/ \E o \in Held : Drop(o)
        \/ Program /\ (DataInit => UNCHANGED heap)

(* No count is too low, and no object dies that is referenced.             *)
SafeInv == CInv /\ Sound /\ \A p \in Objs : heap[p] # NULL => Balance(p) >= 0

(* An object that is not there has no balance.                             *)
LEMMA DeadBalance ==
  ASSUME IInv, Sound, NEW p \in Objs, heap[p] = NULL PROVE Balance(p) = 0
<1>1. Refs(heap, held, frame, p) = 0
  BY ReferencedRefs DEF IInv, Sound
<1>2. Balance(p) = Count(heap, p) - Refs(heap, held, frame, p)
  BY BalanceRefs
<1> QED BY <1>1, <1>2 DEF Count

(* An object that dies had no reference left, so none dangles.             *)
LEMMA SafeDealloc ==
  ASSUME SafeInv, Dealloc PROVE Sound'
<1>1. IInv /\ Sound /\ TypeOK
  BY DEF SafeInv, CInv, IInv
<1>2. /\ held' = held /\ frame' = frame
      /\ \A p \in Objs : heap'[p] # NULL => heap[p] # NULL /\ heap'[p].ptr = heap[p].ptr
  BY <1>1, CountsDealloc
<1>3. PICK o \in Objs : /\ heap[o] # NULL /\ heap[o].refs <= 0 /\ heap'[o] = NULL
                        /\ \A p \in Objs \ {o} : heap[p] # NULL => heap'[p] # NULL
  BY <1>1, CountsDealloc
<1>4. ~Referenced(o)
  <2>1. Balance(o) = heap[o].refs - Refs(heap, held, frame, o) /\ Balance(o) >= 0
    BY <1>3, BalanceRefs DEF SafeInv, Count
  <2>2. heap[o].refs \in Int
    BY <1>1, <1>3, ObjectParts DEF TypeOK
  <2>3. Refs(heap, held, frame, o) \in Nat
    BY <1>1, ReferencedRefs
  <2>4. Refs(heap, held, frame, o) = 0
    BY <1>3, <2>1, <2>2, <2>3
  <2> QED BY <1>1, <2>4, ReferencedRefs
<1>5. ASSUME NEW p \in Objs, heap'[p] = NULL PROVE ~Referenced(p)'
  <2>1. ~Referenced(p)
    BY <1>1, <1>3, <1>4, <1>5 DEF Sound
  <2> QED BY <1>2, <2>1 DEF Referenced, Framed
<1> QED BY <1>5 DEF Sound

(* No balance falls, so that nothing refers to an object that is not there. *)
LEMMA SafeStep ==
  ASSUME SafeInv, StepFine, TypeOK',
         \A p \in Objs : Balance(p)' \in Int /\ Balance(p) \in Int /\ Balance(p)' >= Balance(p)
  PROVE  Sound' /\ \A p \in Objs : heap'[p] # NULL => Balance(p)' >= 0
<1>1. IInv /\ Sound /\ TypeOK
  BY DEF SafeInv, CInv, IInv
<1>2. ASSUME NEW p \in Objs PROVE Balance(p)' >= 0
  <2>1. Balance(p) >= 0
    BY <1>1, DeadBalance DEF SafeInv
  <2>2. Balance(p)' \in Int /\ Balance(p) \in Int /\ Balance(p)' >= Balance(p)
    OBVIOUS
  <2> QED BY <2>1, <2>2
<1>3. ASSUME NEW p \in Objs, heap'[p] = NULL PROVE ~Referenced(p)'
  <2>1. Balance(p)' = 0 - Refs(heap', held', frame', p)
    BY <1>3, BalanceRefs DEF Count
  <2>2. Refs(heap', held', frame', p) \in Nat
    BY ReferencedNext
  <2>3. Refs(heap', held', frame', p) = 0
    BY <1>2, <2>1, <2>2
  <2> QED BY <2>3, ReferencedNext
<1> QED BY <1>2, <1>3 DEF Sound

(* Balances are numbers.                                                   *)
LEMMA BalanceTyped ==
  ASSUME TypeOK, NEW p \in Objs PROVE Balance(p) \in Int
<1>1. Count(heap, p) \in Int /\ Refs(heap, held, frame, p) \in Nat
  BY SurplusTyped, ReferencedRefs DEF TypeOK, Heaps
<1> QED BY <1>1, BalanceRefs

(* A call of a Data's __init__ that stores nothing.                        *)
LEMMA NothingStored ==
  ASSUME Working, DataInit, UNCHANGED heap PROVE Counts
<1>1. frame = Idle /\ UNCHANGED <<frame, held>> /\ Even(heap, heap')
  BY DataInitIdle, WorkingHas DEF Even
<1> QED BY <1>1, CountsEven

(* At first the counts are right.                                          *)
LEMMA InitExact ==
  Init => Sound /\ \A p \in Objs : heap[p] # NULL => Balance(p) = 0
<1> SUFFICES ASSUME Init PROVE Sound /\ \A p \in Objs : heap[p] # NULL => Balance(p) = 0
  OBVIOUS
<1>1. TypeOK /\ heap \in Heaps /\ held \in [Objs -> Nat]
  BY InitIInv DEF IInv, TypeOK, Heaps
<1> DEFINE ptr == <<>>
           null == [kind |-> "str", refs |-> 1, ptr |-> ptr, val |-> Empty]
<1>2. null.refs = 1 /\ null.ptr = ptr /\ DOMAIN ptr = {} /\ null \in Object
  BY DEF Object, Text
<1>3. heap = [p \in Objs |-> IF p = PBS_NULLSTR THEN null ELSE NULL]
  BY DEF Init
<1> HIDE DEF ptr, null
<1>4. ASSUME NEW p \in Objs
      PROVE  \A o \in Objs : heap[o] # NULL => \A f \in DOMAIN heap[o].ptr : heap[o].ptr[f] # p
  BY <1>2, <1>3
<1>5. \A p \in Objs : held[p] = 0 /\ p \notin {frame.list, frame.data, frame.attribs,
                                               frame.attr, frame.kwds}
  BY AnswersAssumption DEF Init, Idle
<1>6. Sound
  BY <1>2, <1>3, <1>4, <1>5, AnswersAssumption DEF Sound, Referenced, Framed
<1>7. ASSUME NEW p \in Objs, heap[p] # NULL PROVE Balance(p) = 0
  <2>1. p = PBS_NULLSTR /\ Count(heap, p) = 1
    BY <1>2, <1>3, <1>7 DEF Count
  <2>2. Fields(heap, p) = {}
    <3>1. ASSUME NEW x, x \in Fields(heap, p) PROVE FALSE
      BY <1>4, <3>1, FieldsOf
    <3> QED BY <3>1
  <2>3. Cardinality(Fields(heap, p)) = 0
    BY <2>2, FS_EmptySet
  <2>4. Refs(heap, held, frame, p) = 1
    BY <1>5, <2>1, <2>3 DEF Refs
  <2> QED BY <2>1, <2>4, BalanceRefs
<1> QED BY <1>6, <1>7

(* A program that stores nothing with a Data's __init__, whatever else it  *)
(* does and however often it sends lists of strings, never has a reference *)
(* to an object that died (PBSDataType.c:42-56 is what it must not do).    *)
THEOREM MemorySafe == Init /\ [][Careful]_vars => []NoDangling
<1>1. Init => SafeInv
  BY InitExact, InitCInv DEF SafeInv
<1>2. SafeInv /\ [Careful]_vars => SafeInv'
  <2>1. CASE UNCHANGED vars
    <3>1. heap' = heap /\ held' = held /\ frame' = frame
      BY <2>1 DEF vars
    <3>2. Sound' = Sound /\ \A p : Balance(p)' = Balance(p)
      BY <3>1, BalanceRefs DEF Sound, Referenced, Framed
    <3> QED BY <2>1, <3>1, <3>2, StutterCInv DEF SafeInv
  <2>2. ASSUME SafeInv, Dealloc PROVE SafeInv'
    <3>1. CInv /\ Sound /\ IInv
      BY <2>2 DEF SafeInv, CInv
    <3>2. CInv'
      BY <2>2, <3>1, StepCInv DEF Step
    <3>3. \A p \in Objs : heap'[p] # NULL => heap[p] # NULL /\ Balance(p)' = Balance(p)
      BY <2>2, <3>1, BalanceDealloc, CountsDealloc
    <3> QED BY <2>2, <3>2, <3>3, SafeDealloc DEF SafeInv
  <2>3. ASSUME SafeInv, Settled,
               \/ Convert \/ Raise \/ \E o \in Held : Drop(o)
               \/ Program /\ (DataInit => UNCHANGED heap)
        PROVE  SafeInv'
    <3>1. CInv /\ Sound /\ CInv'
      BY <2>3, StepCInv DEF SafeInv, Step
    <3>2. Working /\ StepFine /\ TypeOK
      BY <2>3, <3>1, StepCounts DEF CInv, IInv
    <3>3. Counts \/ ListSent
      BY <2>3, <3>1, <3>2, CountsConvert, CountsRaise, CountsProgram, CountsDrop, NothingStored
    <3>4. /\ TypeOK'
          /\ \A p \in Objs :
               Balance(p)' \in Int /\ Balance(p) \in Int /\ Balance(p)' >= Balance(p)
      <4>1. CASE Counts
        <5>1. TypeOK' /\ \A p \in Objs : Balance(p)' = Balance(p)
          BY <3>2, <4>1, BalanceSame
        <5>2. \A p \in Objs : Balance(p) \in Int
          BY <3>2, BalanceTyped
        <5> QED BY <5>1, <5>2
      <4>2. CASE ListSent
        BY <3>2, <4>2, BalanceMore
      <4> QED BY <3>3, <4>1, <4>2
    <3>5. Sound' /\ \A p \in Objs : heap'[p] # NULL => Balance(p)' >= 0
      BY <2>3, <3>2, <3>4, SafeStep
    <3> QED BY <3>1, <3>5 DEF SafeInv
  <2> QED BY <2>1, <2>2, <2>3 DEF Careful
<1>3. SafeInv => NoDangling
  BY DEF SafeInv, NoDangling
<1> QED BY <1>1, <1>2, <1>3, PTL

(* A program that sends no list of strings either.                         *)
Plain ==
  \/ Dealloc
  \/ /\ Settled
     /\ \/ Convert \/ Raise \/ \E o \in Held : Drop(o)
        \/ Program /\ (DataInit \/ ListSent => UNCHANGED heap)

Balanced == \A p \in Objs : heap[p] # NULL => Balance(p) = 0

(* Then every count is the number of references, so that what is no longer *)
(* referenced dies: nothing leaks, whichever allocation failed             *)
(* (PBSDataType.c:187-217, PBSAttrType.c:288-322, utils.c:24-40, 73-92).   *)
THEOREM NothingLeaks ==
  Init /\ [][Plain]_vars =>
    [](Balanced /\ \A p \in Objs : heap[p] # NULL /\ heap[p].refs > 0 => Referenced(p))
<1> DEFINE Inv == CInv /\ Sound /\ Balanced
<1>1. Init => Inv
  BY InitExact, InitCInv DEF Balanced
<1>2. Inv /\ [Plain]_vars => Inv'
  <2>1. ASSUME Inv, UNCHANGED vars PROVE Inv'
    <3>1. heap' = heap /\ held' = held /\ frame' = frame
      BY <2>1 DEF vars
    <3>2. Sound' = Sound /\ \A p : Balance(p)' = Balance(p)
      BY <3>1, BalanceRefs DEF Sound, Referenced, Framed
    <3> QED BY <2>1, <3>1, <3>2, StutterCInv DEF Balanced
  <2>2. ASSUME Inv, Dealloc PROVE Inv'
    <3>1. CInv /\ Sound /\ IInv
      BY <2>2 DEF CInv
    <3>2. CInv'
      BY <2>2, <3>1, StepCInv DEF Step
    <3>3. \A p \in Objs : heap'[p] # NULL => heap[p] # NULL /\ Balance(p)' = Balance(p)
      BY <2>2, <3>1, BalanceDealloc, CountsDealloc
    <3>4. Sound'
      <4>1. SafeInv
        BY <2>2 DEF SafeInv, Balanced
      <4> QED BY <2>2, <4>1, SafeDealloc
    <3> QED BY <2>2, <3>2, <3>3, <3>4 DEF Balanced
  <2>3. ASSUME Inv, Settled,
               \/ Convert \/ Raise \/ \E o \in Held : Drop(o)
               \/ Program /\ (DataInit \/ ListSent => UNCHANGED heap)
        PROVE  Inv'
    <3>1. CInv /\ Sound /\ CInv' /\ IInv
      BY <2>3, StepCInv DEF Step, CInv
    <3>2. Working /\ StepFine /\ TypeOK
      BY <2>3, <3>1, StepCounts DEF IInv
    <3>3. Counts
      <4>1. CASE ListSent /\ UNCHANGED heap
        <5>1. frame = Idle /\ UNCHANGED <<frame, held>> /\ Even(heap, heap')
          BY <3>1, <3>2, <4>1, StringsTaken, WorkingHas DEF ListSent, Even
        <5> QED BY <3>2, <5>1, CountsEven
      <4> QED BY <2>3, <3>2, <4>1, CountsConvert, CountsRaise, CountsProgram, CountsDrop,
                 NothingStored
    <3>4. TypeOK' /\ \A p \in Objs : Balance(p)' = Balance(p)
      BY <3>2, <3>3, BalanceSame
    <3>5. \A p \in Objs : Balance(p)' = 0
      BY <2>3, <3>1, <3>4, DeadBalance DEF Balanced
    <3>6. Sound'
      <4>1. SafeInv
        BY <2>3 DEF SafeInv, Balanced
      <4>2. \A p \in Objs : Balance(p)' \in Int /\ Balance(p) \in Int /\ Balance(p)' >= Balance(p)
        BY <3>4, <3>5
      <4> QED BY <3>2, <3>4, <4>1, <4>2, SafeStep
    <3> QED BY <3>1, <3>5, <3>6 DEF Balanced
  <2> QED BY <2>1, <2>2, <2>3 DEF Plain
<1>3. Inv => Balanced /\ \A p \in Objs : heap[p] # NULL /\ heap[p].refs > 0 => Referenced(p)
  <2> SUFFICES ASSUME Inv, NEW p \in Objs, heap[p] # NULL, heap[p].refs > 0
               PROVE  Referenced(p)
    OBVIOUS
  <2>1. TypeOK
    BY DEF CInv, IInv
  <2>2. heap[p].refs - Refs(heap, held, frame, p) = 0
    BY BalanceRefs DEF Balanced, Count
  <2>3. Refs(heap, held, frame, p) \in Nat /\ heap[p].refs \in Int
    BY <2>1, ReferencedRefs, ObjectParts DEF TypeOK
  <2> QED BY <2>1, <2>2, <2>3, ReferencedRefs
<1> HIDE DEF Inv
<1> QED BY <1>1, <1>2, <1>3, PTL
===============================================================================
