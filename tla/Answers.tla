-------------------------------- MODULE Answers --------------------------------
(***************************************************************************)
(* How an answer of the library becomes Python objects: the list of Data   *)
(* with their Attr and BatchOp objects (PBSDataType.c, PBSAttrType.c,      *)
(* PBSBatchOpType.c, utils.h), or a list of strings (argv_to_sequence of   *)
(* utils.c), and what a program does with the objects.  The heap is that   *)
(* of the interpreter, with the reference counts as the code leaves them.  *)
(*                                                                         *)
(* The interpreter's lock is held from the first allocation of an answer   *)
(* to the last, so the program waits.  An object without references dies   *)
(* before anything else happens.                                           *)
(***************************************************************************)
EXTENDS Integers, Sequences, FiniteSets, FiniteSetsExt

CONSTANTS
  Objs,      \* bound: the identities of objects
  PBS_NULLSTR,  \* the object made at import for the empty string
  Str,       \* the contents of strings
  Empty,     \* the empty string
  OpNames,   \* the table of operators: the names of each, the last is "DFLT"
  Statuses,  \* the answers to a status call: sequences of batch_status
  Jobs,      \* the answers to selectjob: sequences of strings
  None,      \* the object None (its references are not counted)
  NULL,
  MaxHeld,   \* bound: references the program holds
  MaxOwn     \* bound: objects there may be when it makes one more itself

Text == Str \cup {Empty}
BATCHOP_ARRAY_END == Len(OpNames) + 1    \* numbered from 1: no operator

(* What the library answers: a char* may be NULL.                          *)
Attribute == [name : Text \cup {NULL}, value : Text \cup {NULL}, resource : Text \cup {NULL}]
BatchStatus == [name : Text \cup {NULL}, text : Text \cup {NULL}, attribs : Seq(Attribute)]

(* What an object has: its references, the pointers in it, and its text or *)
(* its place in the table of operators.                                    *)
Pointers == Objs \cup {None, NULL}
DataFields == {"name", "text", "attribs"}
AttrFields == {"name", "value", "rscn", "bop"}
Keys == {"name", "value", "resource"}
Object ==
  [kind : {"str"},  refs : Int, ptr : {<<>>},                   val : Text]
  \cup [kind : {"bop"},  refs : Int, ptr : {<<>>},                   val : 1..BATCHOP_ARRAY_END]
  \cup [kind : {"list"}, refs : Int, ptr : Seq(Pointers),            val : {NULL}]
  \cup [kind : {"data"}, refs : Int, ptr : [DataFields -> Pointers], val : {NULL}]
  \cup [kind : {"attr"}, refs : Int, ptr : [AttrFields -> Pointers], val : {NULL}]
  \cup [kind : {"dict"}, refs : Int, ptr : [Keys -> Pointers],       val : {NULL}]

ASSUME AnswersAssumption ==
  /\ IsFiniteSet(Objs) /\ PBS_NULLSTR \in Objs
  /\ {None, NULL} \cap (Objs \cup Text) = {} /\ None # NULL
  /\ NULL \notin Object
  /\ OpNames \in Seq(SUBSET Str)
  /\ Statuses \subseteq Seq(BatchStatus) /\ Jobs \subseteq Seq(Text)

VARIABLES
  heap,     \* the object of each identity: kind, references, pointers, value
  held,     \* how many references the program has to it
  frame,    \* the conversion that is running, with its local variables
  pending   \* an exception is set, and no method has reported it

vars == <<heap, held, frame, pending>>

-------------------------------------------------------------------------------
(* The interpreter (external): objects and references.                     *)

(* The objects that local variables point to.                              *)
Framed == {frame.list, frame.data, frame.attribs, frame.attr, frame.kwds}

(* No reference leads to an object that died; and none has died unnoticed. *)
Referenced(p) ==
  \/ held[p] > 0 \/ p \in Framed \/ p = PBS_NULLSTR
  \/ \E o \in Objs : heap[o] # NULL /\ \E f \in DOMAIN heap[o].ptr : heap[o].ptr[f] = p
Sound == \A p \in Objs : heap[p] = NULL => ~Referenced(p)
Settled == \A p \in Objs : heap[p] # NULL => heap[p].refs > 0

(* How many references there are to p, and what its count is above that.   *)
(* No two local variables point to the same object.                        *)
Fields(h, p) ==
  UNION {{o} \X {f \in DOMAIN h[o].ptr : h[o].ptr[f] = p} : o \in {o \in Objs : h[o] # NULL}}
Holders(p) ==
  held[p] + (IF p \in Framed THEN 1 ELSE 0) + (IF p = PBS_NULLSTR THEN 1 ELSE 0)
  + Cardinality(Fields(heap, p))
Balance(p) == (IF heap[p] = NULL THEN 0 ELSE heap[p].refs) - Holders(p)

Py_INCREF(h, p) == IF p \in Objs THEN [h EXCEPT ![p].refs = @ + 1] ELSE h
Py_DECREF(h, p) == IF p \in Objs THEN [h EXCEPT ![p].refs = @ - 1] ELSE h

Free(h) == {p \in Objs : h[p] = NULL}
Fresh(h) == CHOOSE p \in Free(h) : TRUE
Make(h, kind, ptr, val) ==
  [h EXCEPT ![Fresh(h)] = [kind |-> kind, refs |-> 1, ptr |-> ptr, val |-> val]]

(* Pointer p goes into field f of o: the reference is given away with it.  *)
Steal(h, o, f, p) == [h EXCEPT ![o].ptr[f] = p]

(* The old object of field f of o is replaced by p.                        *)
Replace(h, o, f, p) == Steal(Py_DECREF(h, h[o].ptr[f]), o, f, p)

IsA(h, p, kind) == p \in Objs /\ h[p] # NULL /\ h[p].kind = kind
IsString(h, p) == IsA(h, p, "str")
IsBop(h, p) == IsA(h, p, "bop")

Dies(o, kinds) ==
  /\ heap[o] # NULL /\ heap[o].refs <= 0 /\ heap[o].kind \in kinds
  /\ UNCHANGED <<held, frame, pending>>

(* The object is freed; the references in its fields fs are given up.      *)
Clears(o, fs) ==
  heap' = [p \in Objs |->
    IF p = o \/ heap[p] = NULL THEN NULL
    ELSE [heap[p] EXCEPT !.refs = @ - Cardinality({f \in fs : heap[o].ptr[f] = p})]]

bs__dealloc(o) == Dies(o, {"data"}) /\ Clears(o, DataFields)
attr__dealloc(o) == Dies(o, {"attr"}) /\ Clears(o, AttrFields)
batchop__dealloc(o) == Dies(o, {"bop"}) /\ Clears(o, {})
object_dealloc(o) == Dies(o, {"str", "list", "dict"}) /\ Clears(o, DOMAIN heap[o].ptr)

-------------------------------------------------------------------------------
(* The converters of arguments.  r is a heap, and whether all went well.   *)

(* Variant with a bug: the old value goes before the new one is looked at. *)
StringClearedFirst(r, a, f, v) ==
  IF ~r.ok THEN {r}
  ELSE IF v = None \/ IsString(r.heap, v)
    THEN {[r EXCEPT !.heap = Replace(Py_INCREF(@, v), a, f, v)]}
  ELSE {[heap |-> Steal(Py_DECREF(r.heap, r.heap[a].ptr[f]), a, f, NULL),
         ok |-> FALSE]}

convert_to_string(r, a, f, v) ==
  IF ~r.ok THEN {r}
  ELSE IF v = None \/ IsString(r.heap, v)
    THEN {[r EXCEPT !.heap = Replace(Py_INCREF(@, v), a, f, v)]}
  ELSE {[r EXCEPT !.ok = FALSE]}

(* The row of the table that has the name s; none for NULL, 0 if no row.   *)
batchop_index(s) ==
  IF s = NULL THEN BATCHOP_ARRAY_END
  ELSE LET rows == {i \in DOMAIN OpNames : s \in OpNames[i]} IN
       IF rows = {} THEN 0 ELSE Min(rows)

(* A new operator named s, or none: no memory, or no such operator.        *)
BatchOp_New(h, s) ==
  {h} \cup (IF Free(h) # {} /\ batchop_index(s) # 0
              THEN {Make(h, "bop", <<>>, batchop_index(s))} ELSE {})

convert_to_batchop(r, a, v) ==
  IF ~r.ok THEN {r}
  ELSE IF IsBop(r.heap, v)
    THEN {[r EXCEPT !.heap = Replace(Py_INCREF(@, v), a, "bop", v)]}
  ELSE IF v = None \/ IsString(r.heap, v)
    THEN {IF h = r.heap THEN [r EXCEPT !.ok = FALSE]
          ELSE [r EXCEPT !.heap = Replace(h, a, "bop", Fresh(r.heap))]
          : h \in BatchOp_New(r.heap, IF v = None THEN NULL ELSE r.heap[v].val)}
  ELSE {[r EXCEPT !.ok = FALSE]}

(* An argument that is not given, or not reached, is left alone.           *)
Optional(r, v, results) == IF v = NULL THEN {r} ELSE results

(* The converters run in this order until one refuses.                     *)
attr__init(h, a, name, value, rscn, bop) ==
  UNION {UNION {UNION {Optional(r3, bop, convert_to_batchop(r3, a, bop))
    : r3 \in Optional(r2, rscn, convert_to_string(r2, a, "rscn", rscn))}
    : r2 \in Optional(r1, value, convert_to_string(r1, a, "value", value))}
    : r1 \in Optional([heap |-> h, ok |-> TRUE], name,
                      convert_to_string([heap |-> h, ok |-> TRUE], a, "name", name))}

-------------------------------------------------------------------------------
(* The conversion of an answer, one allocation after the other.            *)

Idle == [at |-> "idle", in |-> <<>>, i |-> 0, j |-> 0,
         list |-> NULL, data |-> NULL, attribs |-> NULL, attr |-> NULL,
         kwds |-> NULL]

Stages ==
  {"idle", "list", "next", "argv", "append", "data", "name", "text", "data_error",
   "attribs", "next_attr", "attr", "key_name", "key_value", "key_resource", "init",
   "attr_error"}
Frame ==
  [at : Stages, in : Statuses \cup Jobs \cup {<<>>}, i : Nat, j : Nat,
   list : Objs \cup {NULL}, data : Objs \cup {NULL}, attribs : Objs \cup {NULL},
   attr : Objs \cup {NULL}, kwds : Objs \cup {NULL}]

At(stage) == frame.at = stage /\ UNCHANGED held
Goto(stage) == [frame EXCEPT !.at = stage]
Status == frame.in[frame.i]
Attrl == Status.attribs[frame.j]
Nulls(n) == [k \in 1..n |-> NULL]

(* An object is made for a local variable, or there is no memory.          *)
Allocates(kind, ptr, next) ==
  /\ Free(heap) # {}
  /\ heap' = Make(heap, kind, ptr, NULL)
  /\ frame' = next /\ UNCHANGED pending
NoMemory(next) == frame' = next /\ pending' = TRUE /\ UNCHANGED heap

(* A method has its answer and begins with the list.  Bounds: the program  *)
(* has no object then (nothing of an answer depends on those it has), and  *)
(* no exception is left set (it would be set after this answer, too).      *)
Request(in, at) ==
  /\ frame = Idle /\ ~pending /\ Free(heap) = Objs \ {PBS_NULLSTR}
  /\ frame' = [Idle EXCEPT !.in = in, !.at = at]
  /\ UNCHANGED <<heap, held, pending>>

(* The method gives NULL: the exception reaches the program.               *)
Fails == frame' = Idle /\ pending' = FALSE

(* The list goes to the program, also with an exception set.               *)
Returns ==
  /\ held' = [held EXCEPT ![frame.list] = @ + 1]
  /\ frame' = Idle
  /\ UNCHANGED <<heap, pending>>

(* Variant with a bug: the loop ends at the last status, not after it.     *)
LastStatusLost ==
  \/ /\ At("list")
     /\ Allocates("list", Nulls(Len(frame.in)), [Goto("next") EXCEPT !.list = Fresh(heap)])
  \/ /\ At("next") /\ frame.i + 1 < Len(frame.in)
     /\ frame' = [Goto("data") EXCEPT !.i = @ + 1]
     /\ UNCHANGED <<heap, pending>>
  \/ frame.at = "next" /\ frame.i + 1 >= Len(frame.in) /\ Returns

bs_to_py_list ==
  \/ /\ At("list")
     /\ \/ Allocates("list", Nulls(Len(frame.in)), [Goto("next") EXCEPT !.list = Fresh(heap)])
        \/ Fails /\ UNCHANGED heap
  \/ /\ At("next") /\ frame.i < Len(frame.in)
     /\ frame' = [Goto("data") EXCEPT !.i = @ + 1]
     /\ UNCHANGED <<heap, pending>>
  \/ frame.at = "next" /\ frame.i = Len(frame.in) /\ Returns

(* A string of the status goes into field f of the Data; PBS_NULLSTR if it *)
(* has none.                                                               *)
DataString(f, s, next) ==
  \/ /\ s # NULL /\ Free(heap) # {}
     /\ heap' = Steal(Make(heap, "str", <<>>, s), frame.data, f, Fresh(heap))
     /\ frame' = Goto(next) /\ UNCHANGED pending
  \/ s # NULL /\ NoMemory(Goto("data_error"))
  \/ /\ s = NULL
     /\ heap' = Steal(Py_INCREF(heap, PBS_NULLSTR), frame.data, f, PBS_NULLSTR)
     /\ frame' = Goto(next) /\ UNCHANGED pending

NoFields == [f \in DataFields |-> NULL]

(* A Data that cannot be made leaves its place in the list empty.          *)
PBSData_New ==
  \/ /\ At("data")
     /\ \/ Allocates("data", NoFields, [Goto("name") EXCEPT !.data = Fresh(heap)])
        \/ NoMemory(Goto("next"))
  \/ At("name") /\ DataString("name", Status.name, "text")
  \/ At("text") /\ DataString("text", Status.text, "attribs")
  \/ /\ At("data_error")
     /\ heap' = Py_DECREF(heap, frame.data)
     /\ frame' = [Goto("next") EXCEPT !.data = NULL]
     /\ UNCHANGED pending

(* The inner list, and the Data into its place when it is complete.        *)
attrl_to_py_list ==
  \/ /\ At("attribs")
     /\ \/ Allocates("list", Nulls(Len(Status.attribs)),
                     [Goto("next_attr") EXCEPT !.attribs = Fresh(heap)])
        \/ NoMemory(Goto("data_error"))
  \/ /\ At("next_attr") /\ frame.j < Len(Status.attribs)
     /\ frame' = [Goto("attr") EXCEPT !.j = @ + 1]
     /\ UNCHANGED <<heap, pending>>
  \/ /\ At("next_attr") /\ frame.j = Len(Status.attribs)
     /\ heap' = Steal(Steal(heap, frame.data, "attribs", frame.attribs),
                      frame.list, frame.i, frame.data)
     /\ frame' = [Goto("next") EXCEPT !.j = 0, !.data = NULL, !.attribs = NULL]
     /\ UNCHANGED pending

-------------------------------------------------------------------------------
(* One Attr of an answer.                                                  *)

(* attr__new gives an Attr an operator of its own: none or both are made.   *)
attr__new(h) ==
  {[heap |-> h, attr |-> NULL]} \cup
  (IF Free(h) = {} THEN {} ELSE
   LET a == Fresh(h)
       h1 == Make(h, "attr", [f \in AttrFields |-> IF f = "bop" THEN NULL ELSE None], NULL)
   IN {IF h2 = h1 THEN [heap |-> Py_DECREF(h1, a), attr |-> NULL]
       ELSE [heap |-> Steal(h2, a, "bop", Fresh(h1)), attr |-> a]
       : h2 \in BatchOp_New(h1, NULL)})

(* Variant with a bug: the reference of the dictionary is one too many.    *)
DictStringKept(k, s, next) ==
  /\ s # NULL /\ Free(heap) # {}
  /\ heap' = Steal(Py_INCREF(Make(heap, "str", <<>>, s), Fresh(heap)),
                   frame.kwds, k, Fresh(heap))
  /\ frame' = Goto(next) /\ UNCHANGED pending

(* The dictionary takes a reference of its own, if it has memory.          *)
set_dict_string(k, s, next) ==
  \/ s # NULL /\ NoMemory(Goto("attr_error"))
  \/ LET v == IF s = NULL THEN None ELSE Fresh(heap)
         h == IF s = NULL THEN heap ELSE Make(heap, "str", <<>>, s)
     IN /\ s = NULL \/ Free(heap) # {}
        /\ \/ /\ heap' = Py_DECREF(Steal(Py_INCREF(h, v), frame.kwds, k, v), v)
              /\ frame' = Goto(next) /\ UNCHANGED pending
           \/ /\ heap' = Py_DECREF(h, v)
              /\ frame' = Goto("attr_error") /\ pending' = TRUE

(* The arguments attr__init reaches: it may lack memory to look for one.   *)
Reached(k, key) == IF k < 1 THEN NULL ELSE heap[frame.kwds].ptr[key]

PBSAttr_New ==
  \/ /\ At("attr")
     /\ \E r \in attr__new(heap), dict \in BOOLEAN :
          /\ dict => Free(r.heap) # {}
          /\ heap' = IF dict
                       THEN Make(r.heap, "dict", [k \in Keys |-> NULL], NULL)
                       ELSE r.heap
          /\ frame' = [frame EXCEPT
               !.attr = r.attr,
               !.kwds = IF dict THEN Fresh(r.heap) ELSE NULL,
               !.at = IF dict /\ r.attr # NULL THEN "key_name" ELSE "attr_error"]
          /\ pending' = (pending \/ ~dict \/ r.attr = NULL)
  \/ At("key_name") /\ set_dict_string("name", Attrl.name, "key_value")
  \/ At("key_value") /\ set_dict_string("value", Attrl.value, "key_resource")
  \/ At("key_resource") /\ set_dict_string("resource", Attrl.resource, "init")
  \/ /\ At("init")
     /\ \E k \in 0..3 :
        \E r \in attr__init(heap, frame.attr, Reached(k, "name"), Reached(k - 1, "value"),
                            Reached(k - 2, "resource"), NULL) :
          /\ heap' = IF k = 3 THEN Steal(Py_DECREF(r.heap, frame.kwds),
                                         frame.attribs, frame.j, frame.attr)
                     ELSE r.heap
          /\ frame' = IF k = 3 THEN [Goto("next_attr") EXCEPT !.attr = NULL, !.kwds = NULL]
                      ELSE Goto("attr_error")
          /\ pending' = (pending \/ k # 3)
  \/ /\ At("attr_error")
     /\ heap' = Py_DECREF(Py_DECREF(heap, frame.kwds), frame.attr)
     /\ frame' = [Goto("next_attr") EXCEPT !.attr = NULL, !.kwds = NULL]
     /\ UNCHANGED pending

-------------------------------------------------------------------------------
(* A list of strings.  Nobody looks whether PyList_Append succeeds.        *)
argv_to_sequence ==
  \/ /\ At("argv")
     /\ \/ Allocates("list", <<>>, [Goto("append") EXCEPT !.list = Fresh(heap)])
        \/ Fails /\ UNCHANGED heap
  \/ /\ At("append") /\ frame.i < Len(frame.in)
     /\ \/ /\ Free(heap) # {}
           /\ \/ /\ heap' = [Make(heap, "str", <<>>, frame.in[frame.i + 1])
                               EXCEPT ![frame.list].ptr = Append(@, Fresh(heap))]
                 /\ UNCHANGED pending
              \/ /\ heap' = Py_DECREF(Make(heap, "str", <<>>, frame.in[frame.i + 1]),
                                      Fresh(heap))
                 /\ pending' = TRUE
           /\ frame' = [frame EXCEPT !.i = @ + 1]
        \/ heap' = Py_DECREF(heap, frame.list) /\ Fails
  \/ frame.at = "append" /\ frame.i = Len(frame.in) /\ Returns

-------------------------------------------------------------------------------
(* What the program does with the objects.  An exception that was left set *)
(* with an answer does not keep it from using them.                        *)

Ready == frame = Idle /\ UNCHANGED frame
Held == {p \in Objs : held[p] > 0}
Args == Held \cup {None}
Is(o, kind) == o \in Held /\ IsA(heap, o, kind)

HeldCount == MapThenSumSet(LAMBDA o : held[o], Objs)
Takes(h, p) ==
  /\ HeldCount < MaxHeld
  /\ heap' = h
  /\ held' = [held EXCEPT ![p] = @ + 1]
  /\ UNCHANGED pending

(* A method ends well, or with an exception that reaches the program.      *)
Ends(results) ==
  /\ \E r \in results : heap' = r.heap /\ pending' = (pending /\ r.ok)
  /\ UNCHANGED held

Makes == Ready /\ Free(heap) # {} /\ Cardinality(Objs \ Free(heap)) <= MaxOwn
NewObject(kind, ptr, val) ==
  Makes /\ Takes(Make(heap, kind, ptr, val), Fresh(heap))

bs__new == NewObject("data", NoFields, NULL)
batchop__new == NewObject("bop", <<>>, BATCHOP_ARRAY_END)
string_new(s) == NewObject("str", <<>>, s)
Attr_new ==
  /\ Makes
  /\ \E r \in attr__new(heap) :
       \/ r.attr # NULL /\ Takes(r.heap, r.attr)
       \/ r.attr = NULL /\ heap' = r.heap /\ pending' = FALSE /\ UNCHANGED held

(* "O!" stores the argument without a reference of its own, and forgets    *)
(* what the field had.                                                     *)
Borrow(r, d, f, v, kind) ==
  IF ~r.ok \/ v = NULL THEN r
  ELSE IF IsA(heap, v, kind) THEN [r EXCEPT !.heap = Steal(@, d, f, v)]
  ELSE [r EXCEPT !.ok = FALSE]

bs__init(d, name, text, attribs) ==
  /\ Ready /\ Is(d, "data")
  /\ Ends({Borrow(Borrow(Borrow([heap |-> heap, ok |-> TRUE], d, "name", name, "str"),
                         d, "text", text, "str"), d, "attribs", attribs, "list")})

(* A getter, or an item of a list: the program has one more reference.     *)
Get(o, f) ==
  LET p == heap[o].ptr[f] IN Ready /\ p \in Objs /\ Takes(Py_INCREF(heap, p), p)

bs_get(o) == Is(o, "data") /\ \E f \in DataFields : Get(o, f)
attr_get_str(o) == Is(o, "attr") /\ \E f \in AttrFields \ {"bop"} : Get(o, f)
attr_get_bop(o) == Is(o, "attr") /\ Get(o, "bop")
(* An empty place cannot be taken: the interpreter would crash.            *)
list_item(o) == Is(o, "list") /\ \E k \in DOMAIN heap[o].ptr : Get(o, k)

Attr_init(a, name, value, rscn, bop) ==
  Ready /\ Is(a, "attr") /\ Ends(attr__init(heap, a, name, value, rscn, bop))

attr_set_str(a, f, v) ==
  Ready /\ Is(a, "attr") /\ Ends(convert_to_string([heap |-> heap, ok |-> TRUE], a, f, v))

attr_set_bop(a, v) ==
  Ready /\ Is(a, "attr") /\ Ends(convert_to_batchop([heap |-> heap, ok |-> TRUE], a, v))

(* Variant with a bug: what batchop_index found is not looked at.          *)
OpUnchecked(b, v) ==
  /\ Ready /\ Is(b, "bop") /\ IsString(heap, v)
  /\ heap' = [heap EXCEPT ![b].val = batchop_index(heap[v].val)]
  /\ UNCHANGED <<held, pending>>

bop_set_op(b, v) ==
  /\ Ready /\ Is(b, "bop")
  /\ LET i == IF IsString(heap, v) THEN batchop_index(heap[v].val) ELSE 0 IN
     Ends({IF i = 0 THEN [heap |-> heap, ok |-> FALSE]
           ELSE [heap |-> [heap EXCEPT ![b].val = i], ok |-> TRUE]})

(* The same with an argument; without one, or with None, nothing changes.  *)
batchop__init(b, v) == v \notin {None, NULL} /\ bop_set_op(b, v)

(* A list of strings goes to the library (rescquery, rescreserve): each    *)
(* item up to the first that is no string gets a reference nobody gives up. *)
(* It may not be a list, or there is no memory.  "list" stands for a tuple  *)
(* as well.  The array that is filled has no part in what follows: the      *)
(* memset clears the width of one pointer of it, but every place is written *)
(* before it is read.  (An empty place in the list would crash the          *)
(* interpreter: this is not a step.)                                        *)
sequence_to_argv(l) ==
  LET items == IF heap[l].kind = "list" THEN heap[l].ptr ELSE <<>>
      bad == {k \in DOMAIN items : ~IsString(heap, items[k])}
      n == IF bad = {} THEN Len(items) ELSE Min(bad)
      taken == [p \in Objs |->
        IF heap[p] = NULL THEN NULL
        ELSE [heap[p] EXCEPT !.refs = @ + Cardinality({k \in 1..n : items[k] = p})]]
  IN /\ Ready /\ (bad # {} => items[n] # NULL)
     /\ Ends({[heap |-> heap, ok |-> FALSE],
              [heap |-> taken, ok |-> heap[l].kind = "list" /\ bad = {}]})

Drop(o) ==
  /\ Ready /\ o \in Held
  /\ heap' = Py_DECREF(heap, o)
  /\ held' = [held EXCEPT ![o] = @ - 1]
  /\ UNCHANGED pending

(* The interpreter does not look whether a method that gave a value left    *)
(* an exception set: it reaches the program some time later.               *)
Raise == frame = Idle /\ pending /\ pending' = FALSE /\ UNCHANGED <<heap, held, frame>>

-------------------------------------------------------------------------------
Init ==
  /\ heap = [p \in Objs |-> IF p = PBS_NULLSTR
                              THEN [kind |-> "str", refs |-> 1, ptr |-> <<>>, val |-> Empty]
                              ELSE NULL]
  /\ held = [p \in Objs |-> 0]
  /\ frame = Idle
  /\ pending = FALSE

Dealloc == \E o \in Objs :
  bs__dealloc(o) \/ attr__dealloc(o) \/ batchop__dealloc(o) \/ object_dealloc(o)

Convert ==
  \/ \E in \in Statuses : Request(in, "list")
  \/ \E in \in Jobs : Request(in, "argv")
  \/ bs_to_py_list \/ PBSData_New \/ attrl_to_py_list \/ PBSAttr_New
  \/ argv_to_sequence

DataInit == \E d \in Held, name \in Args, text, attribs \in Args \cup {NULL} :
  bs__init(d, name, text, attribs)

ListSent == \E l \in Held : sequence_to_argv(l)

Program ==
  \/ bs__new \/ batchop__new \/ Attr_new \/ DataInit \/ ListSent
  \/ \E s \in Str : string_new(s)
  \/ \E o \in Held :
       bs_get(o) \/ attr_get_str(o) \/ attr_get_bop(o) \/ list_item(o)
  \/ \E o \in Held, v \in Args \cup {NULL} :    \* NULL: the field is deleted
       \/ attr_set_bop(o, v) \/ bop_set_op(o, v) \/ batchop__init(o, v)
       \/ \E f \in AttrFields \ {"bop"} : attr_set_str(o, f, v)
  \/ \E a \in Held, name, value \in Args, rscn, bop \in Args \cup {NULL} :
       Attr_init(a, name, value, rscn, bop)

(* After a reference to a dead object was left, what happens is not        *)
(* defined.  Bound: once a count is wrong the program only drops what it   *)
(* holds.                                                                  *)
Next ==
  /\ Sound
  /\ \/ Dealloc
     \/ Settled /\ (Convert \/ Raise \/ \E o \in Held : Drop(o))
     \/ Settled /\ (\A p \in Objs : Balance(p) = 0) /\ Program

Spec == Init /\ [][Next]_vars

-------------------------------------------------------------------------------
TypeOK ==
  /\ heap \in [Objs -> Object \cup {NULL}]
  /\ held \in [Objs -> Nat]
  /\ frame \in Frame
  /\ pending \in BOOLEAN

(* An Attr that is in use has every field, whichever conversion failed and *)
(* however its __init__ or a setter was refused: the getters take a        *)
(* reference without a look (PBSAttrType.c:138-146, 171-176) and the       *)
(* operator is read without one (PBSAttrType.c:114, 343-344).              *)
AttrWhole ==
  Sound => \A a \in Objs : IsA(heap, a, "attr") /\ heap[a].refs > 0 =>
    /\ \A f \in AttrFields \ {"bop"} :
         heap[a].ptr[f] = None \/ IsString(heap, heap[a].ptr[f])
    /\ IsBop(heap, heap[a].ptr["bop"])

(* No step but a Data's __init__ makes the count of an object differ from  *)
(* the references there are to it, and those that send a list of strings   *)
(* only leave it too high: every failure in the middle of an answer gives  *)
(* up all it made, and nothing it did not make (PBSDataType.c:187-217,     *)
(* PBSAttrType.c:288-322, utils.c:24-40, 73-92; __init__:                  *)
(* PBSDataType.c:42-56; lists of strings: utils.c:125-147).                *)
CountsKept ==
  [][\/ \A p \in Objs : heap'[p] # NULL => Balance(p)' = Balance(p)
     \/ ListSent /\ \A p \in Objs : heap'[p] # NULL => Balance(p)' >= Balance(p)
     \/ DataInit]_vars

(* What a program finds in an answer.                                      *)
TextOf(h, p) == IF p \in Objs THEN h[p].val ELSE p
ShownAttr(h, a) ==
  IF a = NULL THEN NULL
  ELSE [name |-> TextOf(h, h[a].ptr["name"]), value |-> TextOf(h, h[a].ptr["value"]),
        resource |-> TextOf(h, h[a].ptr["rscn"])]
ShownAttrs(h, list) == [j \in DOMAIN h[list].ptr |-> ShownAttr(h, h[list].ptr[j])]
Shown(h, p) ==
  IF p \in Objs /\ h[p].kind = "data"
    THEN [name |-> TextOf(h, h[p].ptr["name"]), text |-> TextOf(h, h[p].ptr["text"]),
          attribs |-> ShownAttrs(h, h[p].ptr["attribs"])]
    ELSE TextOf(h, p)

(* What it should find: an empty string or None where there was nothing.   *)
Said(s, nothing) == IF s = NULL THEN nothing ELSE s
Expected(status) ==
  [name |-> Said(status.name, Empty), text |-> Said(status.text, Empty),
   attribs |-> [j \in DOMAIN status.attribs |->
     [name |-> Said(status.attribs[j].name, None),
      value |-> Said(status.attribs[j].value, None),
      resource |-> Said(status.attribs[j].resource, None)]]]

(* An answer that comes without an exception is whole: one object for each *)
(* item, in order, with its strings, and no place empty; the conversion    *)
(* goes on after a failure and never returns NULL for one                  *)
(* (utils.h:83-92, utils.c:85; rc is never FAILED).                        *)
AnswerFaithful ==
  [][frame.list # NULL /\ held' # held /\ ~pending' =>
       /\ Len(heap[frame.list].ptr) = Len(frame.in)
       /\ \A k \in DOMAIN frame.in :
            Shown(heap, heap[frame.list].ptr[k]) =
              IF frame.at = "append" THEN frame.in[k] ELSE Expected(frame.in[k])]_vars

-------------------------------------------------------------------------------
(* What a test relies on, and the code does not do.                        *)

(* "d = Data('xxx')" (test_pbs_batch_status.py:38): a Data is made from a   *)
(* string, and both may be dropped: no reference is left to what died.     *)
NoDangling == Sound
===============================================================================
