-------------------------- MODULE AnswersFaithful_proofs --------------------------
(***************************************************************************)
(* An answer that comes without an exception is whole, and what the        *)
(* library said is in it.                                                  *)
(***************************************************************************)
EXTENDS AnswersCounts_proofs

(* The objects in the hands of the conversion.                             *)
InHand(fr) == {fr.list, fr.data, fr.attribs, fr.attr, fr.kwds}

(* Pointer p shows the text t, and it is not in X.                         *)
TextShown(h, X, p, t) ==
  IF p \in Objs THEN p \notin X /\ IsString(h, p) /\ h[p].val = t ELSE p = t

(* Object a is an Attr that shows x, l a list that shows all of as, and d  *)
(* a Data that shows s; none of them is in X.                              *)
AttrShown(h, X, a, x) ==
  /\ IsA(h, a, "attr") /\ a \notin X
  /\ TextShown(h, X, h[a].ptr["name"], Said(x.name, None))
  /\ TextShown(h, X, h[a].ptr["value"], Said(x.value, None))
  /\ TextShown(h, X, h[a].ptr["rscn"], Said(x.resource, None))
AttrsShown(h, X, l, as) ==
  /\ IsA(h, l, "list") /\ l \notin X
  /\ DOMAIN h[l].ptr = DOMAIN as
  /\ \A j \in DOMAIN as : AttrShown(h, X, h[l].ptr[j], as[j])
DataShown(h, X, d, s) ==
  /\ IsA(h, d, "data") /\ d \notin X
  /\ TextShown(h, X, h[d].ptr["name"], Said(s.name, Empty))
  /\ TextShown(h, X, h[d].ptr["text"], Said(s.text, Empty))
  /\ AttrsShown(h, X, h[d].ptr["attribs"], s.attribs)

(* What is true of an unfinished answer, as long as no exception is set.   *)
ItemsShown(h, fr, n) ==
  \A k \in 1..n : DataShown(h, InHand(fr), h[fr.list].ptr[k], fr.in[k])
ListFaithful(h, fr) ==
  /\ fr.at = "next" => ItemsShown(h, fr, fr.i)
  /\ fr.at \in InStatus => ItemsShown(h, fr, fr.i - 1)
DataFaithful(h, fr) ==
  /\ fr.at \in InData \ {"name"} =>
       TextShown(h, InHand(fr), h[fr.data].ptr["name"], Said(fr.in[fr.i].name, Empty))
  /\ fr.at \in InData \ {"name", "text"} =>
       TextShown(h, InHand(fr), h[fr.data].ptr["text"], Said(fr.in[fr.i].text, Empty))
PlacesShown(h, fr, n) ==
  \A m \in 1..n :
    AttrShown(h, InHand(fr), h[fr.attribs].ptr[m], fr.in[fr.i].attribs[m])
AttrsFaithful(h, fr) ==
  /\ fr.at = "next_attr" => PlacesShown(h, fr, fr.j)
  /\ fr.at \in InAttr => PlacesShown(h, fr, fr.j - 1)
KeyShown(h, fr, key, t) == TextShown(h, InHand(fr), h[fr.kwds].ptr[key], Said(t, None))
KwdsFaithful(h, fr) ==
  LET x == fr.in[fr.i].attribs[fr.j] IN
  /\ fr.at \in {"key_value", "key_resource", "init"} => KeyShown(h, fr, "name", x.name)
  /\ fr.at \in {"key_resource", "init"} => KeyShown(h, fr, "value", x.value)
  /\ fr.at = "init" => KeyShown(h, fr, "resource", x.resource)
StringsFaithful(h, fr) ==
  fr.at = "append" =>
    /\ fr.i \in 0..Len(fr.in) /\ DOMAIN h[fr.list].ptr = 1..fr.i
    /\ \A k \in 1..fr.i : TextShown(h, InHand(fr), h[fr.list].ptr[k], fr.in[k])

Faithful(h, fr) ==
  /\ fr.at \notin {"data_error", "attr_error"}
  /\ ListFaithful(h, fr) /\ DataFaithful(h, fr) /\ AttrsFaithful(h, fr)
  /\ KwdsFaithful(h, fr) /\ StringsFaithful(h, fr)

(* The object for the empty string is that.                                *)
EmptyIs(h) == IsString(h, PBS_NULLSTR) /\ h[PBS_NULLSTR].val = Empty

(* The invariant.                                                          *)
FInv ==
  /\ CInv
  /\ Sound => EmptyIs(heap) /\ (~pending => Faithful(heap, frame))

-------------------------------------------------------------------------------
(* What is shown stays so.                                                 *)

(* The objects in X may have changed; those in Y were in X, or not there.   *)
Apart(h, X, Y) == \A y \in Y \cap Objs : y \in X \/ h[y] = NULL

(* A text.                                                                 *)
LEMMA TextOn ==
  ASSUME NEW h, NEW g, NEW X, NEW Y, Same(h, g, X), Apart(h, X, Y),
         NEW p, NEW t, TextShown(h, X, p, t)
  PROVE  TextShown(g, Y, p, t)
BY DEF TextShown, IsString, IsA, Same, Apart

(* An Attr.                                                                *)
LEMMA AttrOn ==
  ASSUME NEW h, NEW g, NEW X, NEW Y, Same(h, g, X), Apart(h, X, Y),
         NEW a, NEW x, AttrShown(h, X, a, x)
  PROVE  AttrShown(g, Y, a, x)
<1>1. a \in Objs \ X /\ h[a] # NULL /\ h[a].kind = "attr"
  BY DEF AttrShown, IsA
<1>2. g[a] # NULL /\ g[a].kind = "attr" /\ g[a].ptr = h[a].ptr /\ a \notin Y
  BY <1>1 DEF Same, Apart
<1> QED BY <1>1, <1>2, TextOn DEF AttrShown, IsA

(* A list of Attrs.                                                        *)
LEMMA AttrsOn ==
  ASSUME NEW h, NEW g, NEW X, NEW Y, Same(h, g, X), Apart(h, X, Y),
         NEW l, NEW as, AttrsShown(h, X, l, as)
  PROVE  AttrsShown(g, Y, l, as)
<1>1. l \in Objs \ X /\ h[l] # NULL /\ h[l].kind = "list"
  BY DEF AttrsShown, IsA
<1>2. g[l] # NULL /\ g[l].kind = "list" /\ g[l].ptr = h[l].ptr /\ l \notin Y
  BY <1>1 DEF Same, Apart
<1> QED BY <1>1, <1>2, AttrOn DEF AttrsShown, IsA

(* A Data.                                                                 *)
LEMMA DataOn ==
  ASSUME NEW h, NEW g, NEW X, NEW Y, Same(h, g, X), Apart(h, X, Y),
         NEW d, NEW s, DataShown(h, X, d, s)
  PROVE  DataShown(g, Y, d, s)
<1>1. d \in Objs \ X /\ h[d] # NULL /\ h[d].kind = "data"
  BY DEF DataShown, IsA
<1>2. g[d] # NULL /\ g[d].kind = "data" /\ g[d].ptr = h[d].ptr /\ d \notin Y
  BY <1>1 DEF Same, Apart
<1> QED BY <1>1, <1>2, TextOn, AttrsOn DEF DataShown, IsA

(* A heap in which fewer objects differ.                                   *)
LEMMA SameMore ==
  ASSUME NEW h, NEW g, NEW X, NEW Y, Same(h, g, X), X \subseteq Y PROVE Same(h, g, Y)
BY DEF Same

-------------------------------------------------------------------------------
(* The parts of an unfinished answer that a step leaves alone.             *)

(* What is needed of the step.                                             *)
Leaves(X) ==
  /\ Same(heap, heap', X) /\ X \subseteq InHand(frame)
  /\ Apart(heap, InHand(frame), InHand(frame'))

(* The items of the list.                                                  *)
LEMMA ItemsOn ==
  ASSUME Working, frame.list \in Objs, NEW X, Leaves(X), frame.list \notin X,
         frame'.list = frame.list, frame'.in = frame.in,
         NEW n, ItemsShown(heap, frame, n)
  PROVE  ItemsShown(heap', frame', n)
<1>1. heap'[frame.list].ptr = heap[frame.list].ptr
  BY LocalsLive DEF Leaves, Same
<1>2. Same(heap, heap', InHand(frame))
  BY SameMore DEF Leaves
<1> QED BY <1>1, <1>2, DataOn DEF ItemsShown, Leaves

(* The items of the inner list.                                            *)
LEMMA PlacesOn ==
  ASSUME Working, frame.attribs \in Objs, NEW X, Leaves(X), frame.attribs \notin X,
         frame'.attribs = frame.attribs, frame'.in = frame.in, frame'.i = frame.i,
         NEW n, PlacesShown(heap, frame, n)
  PROVE  PlacesShown(heap', frame', n)
<1>1. heap'[frame.attribs].ptr = heap[frame.attribs].ptr
  BY LocalsLive DEF Leaves, Same
<1>2. Same(heap, heap', InHand(frame))
  BY SameMore DEF Leaves
<1> QED BY <1>1, <1>2, AttrOn DEF PlacesShown, Leaves

(* A text that a field of an object in hand leads to.                      *)
LEMMA FieldOn ==
  ASSUME NEW X, Leaves(X), NEW o \in Objs \ X, heap[o] # NULL, NEW f, NEW t,
         TextShown(heap, InHand(frame), heap[o].ptr[f], t)
  PROVE  TextShown(heap', InHand(frame'), heap'[o].ptr[f], t)
<1>1. heap'[o].ptr = heap[o].ptr
  BY DEF Leaves, Same
<1>2. Same(heap, heap', InHand(frame))
  BY SameMore DEF Leaves
<1> QED BY <1>1, <1>2, TextOn DEF Leaves

-------------------------------------------------------------------------------
(* The steps of a conversion.                                              *)

(* The answer so far is right.                                             *)
Telling == Working /\ EmptyIs(heap) /\ Faithful(heap, frame)

(* Nothing is converted.                                                   *)
LEMMA IdleFaithful == \A h : Faithful(h, Idle)
BY DEF Faithful, ListFaithful, DataFaithful, AttrsFaithful, KwdsFaithful, StringsFaithful,
       Idle, InData, InStatus, InAttr

(* The stages at which only the list is of interest.                       *)
LEMMA ListOnly ==
  ASSUME NEW h, NEW fr, fr.at \in {"next", "data"}, ListFaithful(h, fr)
  PROVE  Faithful(h, fr)
BY DEF Faithful, DataFaithful, AttrsFaithful, KwdsFaithful, StringsFaithful,
       InData, InStatus, InAttr

(* bs_to_py_list.                                                          *)
LEMMA FaithfulStatuses ==
  ASSUME Telling, bs_to_py_list PROVE ~pending' => Faithful(heap', frame')
<1>0. Working /\ frame \in Frame /\ Faithful(heap, frame)
  BY WorkingHas DEF Telling
<1>1. CASE At("list")
           /\ Allocates("list", Nulls(Len(frame.in)), [Goto("next") EXCEPT !.list = Fresh(heap)])
  <2> DEFINE l == Fresh(heap)
  <2>1. frame.at = "list" /\ frame' = [Goto("next") EXCEPT !.list = l]
    BY <1>1 DEF At, Allocates
  <2> HIDE DEF l
  <2>2. frame'.at = "next" /\ frame'.i = frame.i
    BY <1>0, <2>1 DEF Frame, Goto
  <2>3. frame.i = 0
    BY <1>0, <2>1, WorkingHas DEF Rooms, ListRoom
  <2>4. ListFaithful(heap', frame')
    BY <2>2, <2>3 DEF ListFaithful, ItemsShown, InStatus, InAttr
  <2> QED BY <2>2, <2>4, ListOnly
<1>2. CASE At("list") /\ Fails
  BY <1>2, IdleFaithful DEF Fails
<1>3. CASE At("next") /\ frame.i < Len(frame.in)
           /\ frame' = [Goto("data") EXCEPT !.i = @ + 1] /\ UNCHANGED <<heap, pending>>
  <2> DEFINE m == frame.i + 1
  <2>1. frame.at = "next" /\ UNCHANGED <<heap, held>>
    BY <1>3 DEF At
  <2>2. frame' = [[frame EXCEPT !.at = "data"] EXCEPT !.i = m]
    BY <1>0, <1>3 DEF Frame, Goto
  <2>3. m \in Int /\ m - 1 = frame.i
    BY <1>0 DEF Frame
  <2> HIDE DEF m
  <2>4. /\ frame'.at = "data" /\ frame'.in = frame.in /\ frame'.i = m
        /\ frame'.list = frame.list /\ frame'.data = frame.data
        /\ frame'.attribs = frame.attribs /\ frame'.attr = frame.attr
        /\ frame'.kwds = frame.kwds
    BY <1>0, <2>2 DEF Frame
  <2>5. ItemsShown(heap, frame, frame.i)
    BY <1>0, <2>1 DEF Faithful, ListFaithful
  <2>6. ItemsShown(heap', frame', frame'.i - 1)
    BY <2>1, <2>3, <2>4, <2>5 DEF ItemsShown, InHand
  <2>7. ListFaithful(heap', frame')
    BY <2>4, <2>6 DEF ListFaithful
  <2> QED BY <2>4, <2>7, ListOnly
<1>4. CASE frame.at = "next" /\ frame.i = Len(frame.in) /\ Returns
  BY <1>4, IdleFaithful DEF Returns
<1> QED BY <1>1, <1>2, <1>3, <1>4 DEF bs_to_py_list

(* No string is in hand.                                                   *)
LEMMA HandNoString ==
  ASSUME NEW h, NEW fr, FrameLeads(h, fr), NEW v, IsString(h, v) PROVE v \notin InHand(fr)
<1>1. v \in Objs /\ ~IsA(h, v, "list") /\ ~IsA(h, v, "data") /\ ~IsA(h, v, "attr")
      /\ ~IsA(h, v, "dict")
  BY DEF IsString, IsA
<1> QED BY <1>1 DEF FrameLeads, Points, InHand

(* A Data gets a string.                                                   *)
LEMMA FaithfulString ==
  ASSUME Telling, StepFine, NEW f \in DataFields, NEW s \in Text \cup {NULL}, NEW next,
         <<frame.at, f, next>> \in {<<"name", "name", "text">>, <<"text", "text", "attribs">>},
         frame.in[frame.i][f] = s,
         DataString(f, s, next)
  PROVE  ~pending' => Faithful(heap', frame')
<1>0. /\ Working /\ frame \in Frame /\ Faithful(heap, frame) /\ Locals(frame) /\ Rooms(heap, frame)
      /\ EmptyIs(heap) /\ FrameLeads(heap, frame)
  BY WorkingHas DEF Telling
<1>1. /\ frame.at \in {"name", "text"} /\ next \in {"text", "attribs"}
      /\ f \in {"name", "text"}
      /\ frame.at = "name" => f = "name" /\ next = "text"
      /\ frame.at = "text" => f = "text" /\ next = "attribs"
  OBVIOUS
<1>2. /\ frame.data \in Objs /\ frame.list \in Objs /\ heap[frame.data] # NULL
      /\ heap[frame.data].kind = "data" /\ heap[frame.list].kind = "list"
      /\ frame.attribs = NULL /\ frame.attr = NULL /\ frame.kwds = NULL
      /\ heap[frame.data].ptr[f] = NULL
      /\ DOMAIN heap[frame.data].ptr = DataFields
  BY <1>0, <1>1, LocalsLive, LocalsFields
     DEF Locals, InList, InData, InAttrs, InKwds, InStatus, InAttr, Rooms, DataRoom
<1> SUFFICES ASSUME ~pending' PROVE Faithful(heap', frame')
  OBVIOUS
<1>3. PICK v \in Objs : /\ frame' = Goto(next)
                        /\ Fills(heap, heap', frame.data, f, v)
                        /\ s # NULL => IsString(heap', v) /\ heap'[v].val = s
                        /\ s = NULL => v = PBS_NULLSTR
  BY <1>0, <1>2, DataStringCounts
<1>4. /\ frame'.at = next /\ frame'.in = frame.in /\ frame'.i = frame.i
      /\ frame'.list = frame.list /\ frame'.data = frame.data
      /\ frame'.attribs = frame.attribs /\ frame'.attr = frame.attr
      /\ frame'.kwds = frame.kwds
  BY <1>0, <1>3, GotoParts
<1>5. Leaves({frame.data}) /\ InHand(frame') = InHand(frame)
  BY <1>3, <1>4 DEF Leaves, Fills, InHand, Apart
<1>6. ListFaithful(heap', frame')
  <2>1. ItemsShown(heap, frame, frame.i - 1)
    BY <1>0, <1>1 DEF Faithful, ListFaithful, InStatus
  <2>2. ItemsShown(heap', frame', frame.i - 1)
    BY <1>0, <1>2, <1>4, <1>5, <2>1, ItemsOn
  <2> QED BY <1>1, <1>4, <2>2 DEF ListFaithful
<1>7. TextShown(heap', InHand(frame'), v, Said(s, Empty))
  <2>1. CASE s = NULL
    <3>1. IsString(heap', v) /\ heap'[v].val = Empty
      BY <1>0, <1>2, <1>3, <2>1 DEF EmptyIs, IsString, IsA, Fills, Same
    <3>2. v \notin InHand(frame)
      BY <1>0, <1>3, <2>1 DEF EmptyIs, IsString, IsA, InHand, FrameLeads, Points
    <3> QED BY <1>5, <2>1, <3>1, <3>2 DEF TextShown, Said
  <2>2. CASE s # NULL
    <3>1. IsString(heap', v) /\ heap'[v].val = s
      BY <1>3, <2>2
    <3>2. v \notin InHand(frame')
      BY <3>1, HandNoString DEF StepFine
    <3> QED BY <1>5, <2>2, <3>1, <3>2 DEF TextShown, Said
  <2> QED BY <2>1, <2>2
<1>8. /\ heap'[frame.data].ptr[f] = v
      /\ \A k \in DataFields \ {f} : heap'[frame.data].ptr[k] = heap[frame.data].ptr[k]
  BY <1>2, <1>3 DEF Fills, Repoint
<1>9. DataFaithful(heap', frame')
  <2>1. CASE frame.at = "name"
    BY <1>1, <1>4, <1>7, <1>8, <2>1 DEF DataFaithful
  <2>2. CASE frame.at = "text"
    <3>1. TextShown(heap, InHand(frame), heap[frame.data].ptr["name"],
                    Said(frame.in[frame.i].name, Empty))
      BY <1>0, <2>2 DEF Faithful, DataFaithful, InData, InStatus
    <3>2. heap'[frame.data].ptr["name"] = heap[frame.data].ptr["name"]
      BY <1>1, <1>8, <2>2 DEF DataFields
    <3>3. Same(heap, heap', InHand(frame))
      BY <1>5, SameMore DEF Leaves
    <3>4. TextShown(heap', InHand(frame'), heap'[frame.data].ptr["name"],
                    Said(frame.in[frame.i].name, Empty))
      BY <1>5, <3>1, <3>2, <3>3, TextOn DEF Leaves
    <3> QED BY <1>1, <1>4, <1>7, <1>8, <2>2, <3>4 DEF DataFaithful
  <2> QED BY <1>1, <2>1, <2>2
<1> QED BY <1>1, <1>4, <1>6, <1>9 DEF Faithful, AttrsFaithful, KwdsFaithful, StringsFaithful,
                                     InAttr

(* A Data is made, and its strings.                                        *)
LEMMA FaithfulData ==
  ASSUME Telling, StepFine, PBSData_New PROVE ~pending' => Faithful(heap', frame')
<1>0. /\ Working /\ frame \in Frame /\ Faithful(heap, frame) /\ Locals(frame)
      /\ FrameFits(frame) /\ heap \in Heaps
  BY WorkingHas DEF Telling
<1>1. CASE At("data") /\ Allocates("data", NoFields, [Goto("name") EXCEPT !.data = Fresh(heap)])
  <2> DEFINE d == Fresh(heap)
             ptr == NoFields
  <2>1. /\ frame.at = "data" /\ heap' = Make(heap, "data", ptr, NULL) /\ Free(heap) # {}
        /\ frame' = [Goto("name") EXCEPT !.data = d]
    BY <1>1 DEF At, Allocates
  <2>2. /\ [kind |-> "data", refs |-> 1, ptr |-> ptr, val |-> NULL] \in Object
        /\ \A f \in DOMAIN ptr : ptr[f] \notin Objs
    BY NewTyped, AnswersAssumption DEF NoFields
  <2> HIDE DEF ptr
  <2>3. Same(heap, heap', {}) /\ heap[d] = NULL
    BY <1>0, <2>1, <2>2, MakeCounts
  <2> HIDE DEF d
  <2>4. /\ frame'.at = "name" /\ frame'.in = frame.in /\ frame'.i = frame.i
        /\ frame'.list = frame.list /\ frame'.data = d
        /\ frame'.attribs = frame.attribs /\ frame'.attr = frame.attr
        /\ frame'.kwds = frame.kwds
    BY <1>0, <2>1 DEF Frame, Goto
  <2>5. Leaves({}) /\ frame.list \in Objs
    BY <1>0, <2>1, <2>3, <2>4 DEF Leaves, InHand, Apart, Locals, InList, InStatus
  <2>6. ItemsShown(heap, frame, frame.i - 1)
    BY <1>0, <2>1 DEF Faithful, ListFaithful, InStatus
  <2>7. ItemsShown(heap', frame', frame'.i - 1)
    BY <1>0, <2>4, <2>5, <2>6, ItemsOn
  <2> QED BY <2>4, <2>7 DEF Faithful, ListFaithful, DataFaithful, AttrsFaithful,
                            KwdsFaithful, StringsFaithful, InAttr
<1>2. CASE At("data") /\ NoMemory(Goto("next"))
  BY <1>2 DEF NoMemory
<1>3. CASE At("name") /\ DataString("name", Status.name, "text")
  <2>1. /\ frame.at = "name" /\ Status.name \in Text \cup {NULL} /\ "name" \in DataFields
    BY <1>0, <1>3, StatusTyped DEF At, InStatus, DataFields
  <2>2. /\ frame.in[frame.i]["name"] = Status.name
        /\ <<frame.at, "name", "text">> = <<"name", "name", "text">>
    BY <2>1 DEF Status
  <2> QED BY <1>3, <2>1, <2>2, FaithfulString
<1>4. CASE At("text") /\ DataString("text", Status.text, "attribs")
  <2>1. /\ frame.at = "text" /\ Status.text \in Text \cup {NULL} /\ "text" \in DataFields
    BY <1>0, <1>4, StatusTyped DEF At, InStatus, DataFields
  <2>2. /\ frame.in[frame.i]["text"] = Status.text
        /\ <<frame.at, "text", "attribs">> = <<"text", "text", "attribs">>
    BY <2>1 DEF Status
  <2> QED BY <1>4, <2>1, <2>2, FaithfulString
<1>5. CASE At("data_error")
  BY <1>0, <1>5 DEF At, Faithful
<1> QED BY <1>1, <1>2, <1>3, <1>4, <1>5 DEF PBSData_New

(* The inner list is made, and the Data put into its place.                *)
LEMMA FaithfulAttrList ==
  ASSUME Telling, StepFine, attrl_to_py_list PROVE ~pending' => Faithful(heap', frame')
<1>0. /\ Working /\ frame \in Frame /\ Faithful(heap, frame) /\ Locals(frame)
      /\ FrameFits(frame) /\ heap \in Heaps /\ Rooms(heap, frame) /\ FrameLeads(heap, frame)
  BY WorkingHas DEF Telling
<1>1. CASE At("attribs") /\ Allocates("list", Nulls(Len(Status.attribs)),
                                      [Goto("next_attr") EXCEPT !.attribs = Fresh(heap)])
  <2> DEFINE l == Fresh(heap)
             n == Len(Status.attribs)
  <2>1. /\ frame.at = "attribs" /\ heap' = Make(heap, "list", Nulls(n), NULL)
        /\ Free(heap) # {} /\ frame' = [Goto("next_attr") EXCEPT !.attribs = l]
    BY <1>1 DEF At, Allocates
  <2>2. n \in Nat
    BY <1>0, <2>1, StatusTyped DEF InStatus
  <2> HIDE DEF n
  <2>3. Same(heap, heap', {}) /\ heap[l] = NULL
    BY <1>0, <2>1, <2>2, NullsCounts
  <2> HIDE DEF l
  <2>4. /\ frame'.at = "next_attr" /\ frame'.in = frame.in /\ frame'.i = frame.i
        /\ frame'.j = frame.j /\ frame'.list = frame.list /\ frame'.data = frame.data
        /\ frame'.attribs = l /\ frame'.attr = frame.attr /\ frame'.kwds = frame.kwds
    BY <1>0, <2>1 DEF Frame, Goto
  <2>5. /\ Leaves({}) /\ frame.list \in Objs /\ frame.data \in Objs
        /\ heap[frame.data] # NULL /\ frame.j = 0
    BY <1>0, <2>1, <2>3, <2>4, LocalsLive
       DEF Leaves, InHand, Apart, Locals, InList, InData, InStatus, Rooms, AttrsRoom,
           InAttrs, InAttr
  <2>6. /\ ItemsShown(heap, frame, frame.i - 1)
        /\ TextShown(heap, InHand(frame), heap[frame.data].ptr["name"],
                     Said(frame.in[frame.i].name, Empty))
        /\ TextShown(heap, InHand(frame), heap[frame.data].ptr["text"],
                     Said(frame.in[frame.i].text, Empty))
    BY <1>0, <2>1 DEF Faithful, ListFaithful, DataFaithful, InData, InStatus
  <2>7. ItemsShown(heap', frame', frame'.i - 1)
    BY <1>0, <2>4, <2>5, <2>6, ItemsOn
  <2>8. /\ TextShown(heap', InHand(frame'), heap'[frame.data].ptr["name"],
                     Said(frame.in[frame.i].name, Empty))
        /\ TextShown(heap', InHand(frame'), heap'[frame.data].ptr["text"],
                     Said(frame.in[frame.i].text, Empty))
    BY <2>5, <2>6, FieldOn
  <2>9. PlacesShown(heap', frame', frame'.j)
    BY <2>4, <2>5 DEF PlacesShown
  <2> QED BY <2>4, <2>7, <2>8, <2>9 DEF Faithful, ListFaithful, DataFaithful, AttrsFaithful,
                                        KwdsFaithful, StringsFaithful, InAttr
<1>2. CASE At("attribs") /\ NoMemory(Goto("data_error"))
  BY <1>2 DEF NoMemory
<1>3. CASE At("next_attr") /\ frame.j < Len(Status.attribs)
           /\ frame' = [Goto("attr") EXCEPT !.j = @ + 1] /\ UNCHANGED <<heap, pending>>
  <2> DEFINE m == frame.j + 1
  <2>1. frame.at = "next_attr" /\ heap' = heap
    BY <1>3 DEF At
  <2>2. frame' = [[frame EXCEPT !.at = "attr"] EXCEPT !.j = m]
    BY <1>0, <1>3 DEF Frame, Goto
  <2>3. m \in Int /\ m - 1 = frame.j
    BY <1>0 DEF Frame
  <2> HIDE DEF m
  <2>4. /\ frame'.at = "attr" /\ frame'.in = frame.in /\ frame'.i = frame.i /\ frame'.j = m
        /\ frame'.list = frame.list /\ frame'.data = frame.data
        /\ frame'.attribs = frame.attribs /\ frame'.attr = frame.attr
        /\ frame'.kwds = frame.kwds
    BY <1>0, <2>2 DEF Frame
  <2>5. /\ ItemsShown(heap, frame, frame.i - 1) /\ DataFaithful(heap, frame)
        /\ PlacesShown(heap, frame, frame.j)
    BY <1>0, <2>1 DEF Faithful, ListFaithful, AttrsFaithful, InStatus
  <2>6. InHand(frame') = InHand(frame)
    BY <2>4 DEF InHand
  <2>7. ListFaithful(heap', frame')
    BY <2>1, <2>4, <2>5, <2>6 DEF ItemsShown, ListFaithful
  <2>8. DataFaithful(heap', frame')
    BY <2>1, <2>4, <2>5, <2>6 DEF DataFaithful, InData, InStatus, InAttr
  <2>9. AttrsFaithful(heap', frame')
    BY <2>1, <2>3, <2>4, <2>5, <2>6 DEF AttrsFaithful, PlacesShown
  <2> QED BY <2>4, <2>7, <2>8, <2>9 DEF Faithful, KwdsFaithful, StringsFaithful
<1>4. CASE /\ At("next_attr") /\ frame.j = Len(Status.attribs)
           /\ heap' = Steal(Steal(heap, frame.data, "attribs", frame.attribs),
                            frame.list, frame.i, frame.data)
           /\ frame' = [Goto("next") EXCEPT !.j = 0, !.data = NULL, !.attribs = NULL]
  <2> DEFINE d == frame.data
             as == frame.attribs
             l == frame.list
             h == Steal(heap, d, "attribs", as)
  <2>1. frame.at = "next_attr" /\ heap' = Steal(h, l, frame.i, d)
    BY <1>4 DEF At
  <2>2. /\ frame'.at = "next" /\ frame'.in = frame.in /\ frame'.i = frame.i
        /\ frame'.list = l /\ frame'.data = NULL /\ frame'.attribs = NULL
        /\ frame'.attr = frame.attr /\ frame'.kwds = frame.kwds
    BY <1>0, <1>4 DEF Frame, Goto
  <2>3. /\ d \in Objs /\ as \in Objs /\ l \in Objs /\ as # l
        /\ frame.attr = NULL /\ frame.kwds = NULL
    BY <1>0, <2>1 DEF Locals, InList, InData, InAttrs, InStatus, InAttr
  <2>4. /\ heap[d] # NULL /\ heap[d].kind = "data" /\ heap[as] # NULL
        /\ heap[as].kind = "list" /\ heap[l] # NULL /\ heap[l].kind = "list"
        /\ DOMAIN heap[d].ptr = DataFields
    BY <1>0, <2>3, LocalsLive, LocalsFields
  <2>5. "attribs" \in DataFields /\ "name" \in DataFields /\ "text" \in DataFields
    BY DEF DataFields
  <2>6. /\ h \in Heaps /\ Same(heap, h, {d}) /\ h[d] # NULL /\ h[d].kind = "data"
        /\ h[d].ptr = Repoint(heap[d].ptr, "attribs", as)
    <3>1. /\ heap \in Heaps /\ d \in Objs /\ heap[d] # NULL
          /\ "attribs" \in DOMAIN heap[d].ptr /\ as \in Pointers
      BY <1>0, <2>3, <2>4, <2>5 DEF Pointers
    <3>2. /\ h \in Heaps /\ Same(heap, h, {d}) /\ h[d] # NULL
          /\ h[d].kind = heap[d].kind
          /\ h[d].ptr = Repoint(heap[d].ptr, "attribs", as)
      <4> HIDE DEF d, as
      <4> QED BY <3>1, StealCounts
    <3> QED BY <2>4, <3>2
  <2> HIDE DEF h
  <2>7. d # l /\ d # as
    BY <2>4
  <2>8. h[l] # NULL /\ h[l].ptr = heap[l].ptr /\ frame.i \in DOMAIN heap[l].ptr
        /\ DOMAIN heap[l].ptr = 1..Len(frame.in) /\ frame.i \in 1..Len(frame.in)
    BY <1>0, <2>1, <2>3, <2>4, <2>6, <2>7
       DEF Same, Rooms, ListRoom, EmptyFrom, FrameFits, InStatus
  <2>9. /\ Same(h, heap', {l}) /\ heap'[l].ptr = Repoint(heap[l].ptr, frame.i, d)
    <3> DEFINE i == frame.i
    <3>1. /\ h \in Heaps /\ l \in Objs /\ h[l] # NULL /\ i \in DOMAIN h[l].ptr
          /\ d \in Pointers /\ heap' = Steal(h, l, i, d)
      BY <2>1, <2>3, <2>6, <2>8 DEF Pointers
    <3>2. Same(h, heap', {l}) /\ heap'[l].ptr = Repoint(h[l].ptr, i, d)
      <4> HIDE DEF i, l, d
      <4> QED BY <3>1, StealCounts
    <3> QED BY <2>8, <3>2
  <2>10. /\ Same(heap, heap', {d, l}) /\ heap'[d] # NULL /\ heap'[d].kind = "data"
         /\ heap'[d].ptr = Repoint(heap[d].ptr, "attribs", as)
         /\ Apart(heap, InHand(frame), InHand(frame'))
    <3>1. Same(heap, heap', {d, l})
      BY <2>6, <2>9, SameOn, {d} \subseteq {d, l}, {l} \subseteq {d, l}
    <3> QED BY <2>2, <2>6, <2>7, <2>9, <3>1, <2>3, AnswersAssumption DEF Same, Apart, InHand
  <2>11. Same(heap, heap', InHand(frame))
    BY <2>10, SameMore DEF InHand
  <2>12. /\ heap'[as] # NULL /\ heap'[as].kind = "list" /\ heap'[as].ptr = heap[as].ptr
    BY <2>3, <2>4, <2>7, <2>10 DEF Same
  <2> DEFINE s == frame.in[frame.i]
             Y == InHand(frame')
  <2>13. /\ PlacesShown(heap, frame, frame.j) /\ ItemsShown(heap, frame, frame.i - 1)
         /\ TextShown(heap, InHand(frame), heap[d].ptr["name"], Said(s.name, Empty))
         /\ TextShown(heap, InHand(frame), heap[d].ptr["text"], Said(s.text, Empty))
    BY <1>0, <2>1 DEF Faithful, ListFaithful, DataFaithful, AttrsFaithful, InData, InStatus
  <2>14. AttrsShown(heap', Y, as, s.attribs)
    <3>1. DOMAIN heap[as].ptr = 1..Len(s.attribs) /\ frame.j = Len(s.attribs)
      BY <1>0, <1>4, <2>1 DEF Rooms, AttrsRoom, EmptyFrom, Status
    <3>2. DOMAIN s.attribs = 1..Len(s.attribs)
      BY <1>0, <2>1, StatusTyped DEF Status, InStatus
    <3>3. as \notin Y
      BY <2>2, <2>3, AnswersAssumption DEF InHand
    <3>4. \A m \in 1..frame.j : AttrShown(heap', Y, heap[as].ptr[m], s.attribs[m])
      BY <2>10, <2>11, <2>13, AttrOn DEF PlacesShown
    <3> HIDE DEF Y, s
    <3> QED BY <2>3, <2>12, <3>1, <3>2, <3>3, <3>4 DEF AttrsShown, IsA
  <2>15. DataShown(heap', Y, d, s)
    <3>1. heap'[d].ptr["name"] = heap[d].ptr["name"] /\ heap'[d].ptr["text"] = heap[d].ptr["text"]
          /\ heap'[d].ptr["attribs"] = as
      BY <2>4, <2>5, <2>10 DEF Repoint
    <3>2. /\ TextShown(heap', Y, heap[d].ptr["name"], Said(s.name, Empty))
          /\ TextShown(heap', Y, heap[d].ptr["text"], Said(s.text, Empty))
      BY <2>10, <2>11, <2>13, TextOn
    <3>3. d \notin Y
      BY <2>2, <2>3, <2>7, AnswersAssumption DEF InHand
    <3> HIDE DEF Y, s
    <3> QED BY <2>3, <2>10, <2>14, <3>1, <3>2, <3>3 DEF DataShown, IsA
  <2>16. ItemsShown(heap', frame', frame.i)
    <3> SUFFICES ASSUME NEW k \in 1..frame.i
                 PROVE  DataShown(heap', Y, heap'[l].ptr[k], frame.in[k])
      BY <2>2 DEF ItemsShown
    <3>1. CASE k = frame.i
      <4>1. heap'[l].ptr[k] = d
        BY <2>8, <2>9, <3>1 DEF Repoint
      <4> QED BY <2>15, <3>1, <4>1
    <3>2. CASE k # frame.i
      <4>1. k \in 1..(frame.i - 1) /\ heap'[l].ptr[k] = heap[l].ptr[k]
        BY <2>8, <2>9, <3>2 DEF Repoint
      <4>2. DataShown(heap, InHand(frame), heap[l].ptr[k], frame.in[k])
        BY <2>13, <4>1 DEF ItemsShown
      <4> HIDE DEF Y
      <4>3. DataShown(heap', Y, heap[l].ptr[k], frame.in[k])
        BY <2>10, <2>11, <4>2, DataOn DEF Y
      <4> QED BY <4>1, <4>3
    <3> QED BY <3>1, <3>2
  <2>17. ListFaithful(heap', frame')
    BY <2>2, <2>16 DEF ListFaithful, InStatus, InAttr
  <2> QED BY <2>2, <2>17, ListOnly
<1> QED BY <1>1, <1>2, <1>3, <1>4 DEF attrl_to_py_list

(* What an attribute's conversion does not touch.                          *)
LEMMA RestOn ==
  ASSUME Telling, frame.at \in InAttr, SamePlace, frame'.at \in {"next_attr"} \cup InAttr,
         NEW X, Leaves(X), frame.list \notin X, frame.data \notin X
  PROVE  ListFaithful(heap', frame') /\ DataFaithful(heap', frame')
<1>0. /\ Working /\ frame \in Frame /\ Faithful(heap, frame) /\ Locals(frame)
  BY WorkingHas DEF Telling
<1>1. /\ frame.at \in InStatus /\ frame'.at \in InStatus
      /\ frame.at \in InData \ {"name", "text"} /\ frame.at # "next" /\ frame'.at # "next"
  BY DEF InStatus, InData, InAttr
<1>2. frame.list \in Objs /\ frame.data \in Objs /\ heap[frame.data] # NULL
  BY <1>0, <1>1, LocalsLive DEF Locals, InList, InData
<1>3. /\ ItemsShown(heap, frame, frame.i - 1)
      /\ TextShown(heap, InHand(frame), heap[frame.data].ptr["name"],
                   Said(frame.in[frame.i].name, Empty))
      /\ TextShown(heap, InHand(frame), heap[frame.data].ptr["text"],
                   Said(frame.in[frame.i].text, Empty))
  BY <1>0, <1>1 DEF Faithful, ListFaithful, DataFaithful
<1>4. ItemsShown(heap', frame', frame'.i - 1)
  BY <1>0, <1>2, <1>3, ItemsOn DEF SamePlace
<1>5. /\ TextShown(heap', InHand(frame'), heap'[frame.data].ptr["name"],
                   Said(frame.in[frame.i].name, Empty))
      /\ TextShown(heap', InHand(frame'), heap'[frame.data].ptr["text"],
                   Said(frame.in[frame.i].text, Empty))
  BY <1>2, <1>3, FieldOn
<1> QED BY <1>1, <1>4, <1>5 DEF SamePlace, ListFaithful, DataFaithful

(* The places of the inner list that are filled.                           *)
LEMMA PlacesStay ==
  ASSUME Telling, frame.at \in InAttr, SamePlace, NEW X, Leaves(X), frame.attribs \notin X
  PROVE  PlacesShown(heap', frame', frame'.j - 1)
<1>0. Working /\ frame \in Frame /\ Faithful(heap, frame) /\ Locals(frame)
  BY WorkingHas DEF Telling
<1>1. frame.attribs \in Objs /\ PlacesShown(heap, frame, frame.j - 1)
  BY <1>0, AnswersAssumption DEF Locals, InAttrs, Faithful, AttrsFaithful
<1> QED BY <1>0, <1>1, PlacesOn DEF SamePlace

(* An Attr is made, and the dictionary of its arguments.                   *)
LEMMA FaithfulAttrMade ==
  ASSUME Telling, At("attr"),
         NEW r \in attr__new(heap), NEW dict \in BOOLEAN, dict => Free(r.heap) # {},
         heap' = IF dict THEN Make(r.heap, "dict", [k \in Keys |-> NULL], NULL) ELSE r.heap,
         frame' = [frame EXCEPT
           !.attr = r.attr,
           !.kwds = IF dict THEN Fresh(r.heap) ELSE NULL,
           !.at = IF dict /\ r.attr # NULL THEN "key_name" ELSE "attr_error"],
         dict /\ r.attr # NULL
  PROVE  Faithful(heap', frame')
<1>0. /\ Working /\ frame \in Frame /\ heap \in Heaps /\ frame.at = "attr" /\ Locals(frame)
      /\ Faithful(heap, frame)
  BY WorkingHas DEF At, Telling
<1>1. /\ r.heap \in Heaps /\ Same(heap, r.heap, {})
      /\ r.attr \in Objs /\ heap[r.attr] = NULL
  BY <1>0, NewCounts
<1> DEFINE w == Fresh(r.heap)
           none == [k \in Keys |-> NULL]
<1>2. /\ \A k \in DOMAIN none : none[k] \notin Objs
      /\ [kind |-> "dict", refs |-> 1, ptr |-> none, val |-> NULL] \in Object
  BY NewTyped, AnswersAssumption
<1>3. heap' = Make(r.heap, "dict", none, NULL)
  OBVIOUS
<1> HIDE DEF none
<1>4. Same(r.heap, heap', {}) /\ w \in Objs /\ r.heap[w] = NULL
  BY <1>1, <1>2, <1>3, MakeCounts
<1>5. frame' = [frame EXCEPT !.attr = r.attr, !.kwds = w, !.at = "key_name"]
  OBVIOUS
<1> HIDE DEF w
<1>6. /\ frame'.at = "key_name" /\ frame'.in = frame.in /\ frame'.i = frame.i
      /\ frame'.j = frame.j /\ frame'.list = frame.list /\ frame'.data = frame.data
      /\ frame'.attribs = frame.attribs /\ frame'.attr = r.attr /\ frame'.kwds = w
  BY <1>0, <1>5 DEF Frame
<1>7. heap[w] = NULL
  BY <1>1, <1>4 DEF Same
<1>8. Same(heap, heap', {})
  BY <1>1, <1>4, SameOn
<1>9. Leaves({})
  BY <1>1, <1>6, <1>7, <1>8 DEF Leaves, Apart, InHand
<1>10. frame.at \in InAttr /\ frame'.at \in InAttr /\ SamePlace
  BY <1>0, <1>6 DEF InAttr, SamePlace
<1>11. ListFaithful(heap', frame') /\ DataFaithful(heap', frame')
  BY <1>9, <1>10, RestOn
<1>12. PlacesShown(heap', frame', frame'.j - 1)
  BY <1>9, <1>10, PlacesStay
<1> QED BY <1>6, <1>11, <1>12 DEF Faithful, AttrsFaithful, KwdsFaithful, StringsFaithful

(* An argument goes into the dictionary.                                   *)
LEMMA FaithfulKey ==
  ASSUME Telling, StepFine, NEW k, NEW next,
         \/ frame.at = "key_name" /\ k = "name" /\ next = "key_value"
         \/ frame.at = "key_value" /\ k = "value" /\ next = "key_resource"
         \/ frame.at = "key_resource" /\ k = "resource" /\ next = "init",
         NEW s \in Text \cup {NULL}, s = Attrl[k], set_dict_string(k, s, next)
  PROVE  ~pending' => Faithful(heap', frame')
<1> SUFFICES ASSUME ~pending' PROVE Faithful(heap', frame')
  OBVIOUS
<1> DEFINE o == frame.kwds
<1>0. /\ Working /\ frame \in Frame /\ Locals(frame) /\ Rooms(heap, frame)
      /\ Faithful(heap, frame)
  BY WorkingHas DEF Telling
<1>1. /\ frame.at \in InAttr \ {"attr"} /\ frame.at \in InKwds /\ k \in Keys
      /\ next \in InAttr \ {"attr_error"}
  BY DEF InAttr, InKwds, Keys
<1>2. o \in Objs /\ heap[o].ptr[k] = NULL /\ DOMAIN heap[o].ptr = Keys
      /\ heap[o] # NULL /\ heap[o].kind = "dict"
  BY <1>0, <1>1, LocalsFields, LocalsLive DEF Locals, Rooms, KwdsRoom
<1>3. frame.list # o /\ frame.attribs # o /\ frame.data # o
  BY <1>0, <1>2, LocalsLive
<1>4. PICK v \in Objs \cup {None} : /\ frame' = Goto(next)
                                    /\ Fills(heap, heap', o, k, v)
                                    /\ s # NULL => IsString(heap', v) /\ heap'[v].val = s
                                    /\ s = NULL => v = None
  BY <1>0, <1>1, <1>2, DictStringCounts
<1>5. /\ frame'.at = next /\ frame'.in = frame.in /\ frame'.i = frame.i
      /\ frame'.j = frame.j /\ frame'.list = frame.list /\ frame'.data = frame.data
      /\ frame'.attribs = frame.attribs /\ frame'.attr = frame.attr
      /\ frame'.kwds = o
  BY <1>0, <1>4, GotoParts
<1>6. SamePlace /\ InHand(frame') = InHand(frame)
  BY <1>5 DEF SamePlace, InHand
<1>7. Leaves({o}) /\ Same(heap, heap', InHand(frame))
  <2>1. Same(heap, heap', {o}) /\ {o} \subseteq InHand(frame)
    BY <1>4 DEF Fills, InHand
  <2>2. Same(heap, heap', InHand(frame))
    BY <2>1, SameMore
  <2> QED BY <1>6, <2>1, <2>2 DEF Leaves, Apart
<1>8. ListFaithful(heap', frame') /\ DataFaithful(heap', frame')
  BY <1>1, <1>3, <1>5, <1>6, <1>7, RestOn
<1>9. PlacesShown(heap', frame', frame'.j - 1)
  BY <1>1, <1>3, <1>6, <1>7, PlacesStay
<1> DEFINE x == frame.in[frame.i].attribs[frame.j]
           Y == InHand(frame')
<1>10. TextShown(heap', Y, v, Said(s, None))
  <2>1. CASE s = NULL
    BY <1>4, <2>1, AnswersAssumption DEF TextShown, Said
  <2>2. CASE s # NULL
    <3>1. IsString(heap', v) /\ heap'[v].val = s
      BY <1>4, <2>2
    <3>2. v \notin Y
      BY <3>1, HandNoString DEF StepFine
    <3>3. v \in Objs
      BY <3>1 DEF IsString, IsA
    <3> QED BY <2>2, <3>1, <3>2, <3>3 DEF TextShown, Said
  <2> QED BY <2>1, <2>2
<1>11. /\ heap'[o].ptr[k] = v
       /\ \A f \in Keys \ {k} : heap'[o].ptr[f] = heap[o].ptr[f]
  BY <1>1, <1>2, <1>4 DEF Fills, Repoint
<1>12. ASSUME NEW f \in Keys \ {k}, NEW t, KeyShown(heap, frame, f, t)
       PROVE  KeyShown(heap', frame', f, t)
  <2>1. TextShown(heap, InHand(frame), heap[o].ptr[f], Said(t, None))
    BY <1>12 DEF KeyShown
  <2>2. TextShown(heap', Y, heap[o].ptr[f], Said(t, None))
    BY <1>7, <2>1, TextOn DEF Leaves
  <2> QED BY <1>5, <1>11, <2>2 DEF KeyShown
<1>13. KeyShown(heap', frame', k, s)
  BY <1>5, <1>10, <1>11 DEF KeyShown
<1>14. s = x[k]
  BY DEF Attrl, Status
<1>15. KwdsFaithful(heap, frame) /\ Keys = {"name", "value", "resource"}
  BY <1>0 DEF Faithful, Keys
<1>16. KwdsFaithful(heap', frame')
  <2> DEFINE Kf(f, t) == KeyShown(heap, frame, f, t)
             Kg(f, t) == KeyShown(heap', frame', f, t)
  <2>1. CASE frame.at = "key_name"
    <3>1. k = "name" /\ next = "key_value"
      BY <2>1
    <3> QED BY <1>5, <1>13, <1>14, <3>1 DEF KwdsFaithful
  <2>2. CASE frame.at = "key_value"
    <3>1. k = "value" /\ next = "key_resource"
      BY <2>2
    <3>2. Kf("name", x.name)
      BY <1>15, <2>2 DEF KwdsFaithful
    <3>3. Kg("name", x.name)
      BY <1>12, <1>15, <3>1, <3>2
    <3> QED BY <1>5, <1>13, <1>14, <3>1, <3>3 DEF KwdsFaithful
  <2>3. CASE frame.at = "key_resource"
    <3>1. k = "resource" /\ next = "init"
      BY <2>3
    <3>2. Kf("name", x.name) /\ Kf("value", x.value)
      BY <1>15, <2>3 DEF KwdsFaithful
    <3>3. Kg("name", x.name) /\ Kg("value", x.value)
      BY <1>12, <1>15, <3>1, <3>2
    <3> QED BY <1>5, <1>13, <1>14, <3>1, <3>3 DEF KwdsFaithful
  <2> QED BY <2>1, <2>2, <2>3
<1> QED BY <1>1, <1>5, <1>8, <1>9, <1>16 DEF Faithful, AttrsFaithful, StringsFaithful, InAttr

(* Field f of a gets v, and nothing else differs in g.                      *)
Gets(h, g, a, f, v) ==
  /\ Same(h, g, {a}) /\ g[a].ptr[f] = v
  /\ \A e \in AttrFields \ {f} : g[a].ptr[e] = h[a].ptr[e]

(* A string or None goes into a field of an Attr.                          *)
LEMMA StringGiven ==
  ASSUME NEW h, NEW a, NEW r, Kept(h, a, r), r.ok, NEW f \in AttrFields \ {"bop"},
         NEW v, v = None \/ IsString(r.heap, v),
         NEW s \in Optional(r, v, convert_to_string(r, a, f, v))
  PROVE  Kept(h, a, s) /\ s.ok /\ Gets(r.heap, s.heap, a, f, v)
<1>0. v # NULL
  BY AnswersAssumption DEF IsString, IsA
<1>1. s \in convert_to_string(r, a, f, v)
  BY <1>0 DEF Optional
<1> DEFINE g == Replace(Py_INCREF(r.heap, v), a, f, v)
<1>2. s = [r EXCEPT !.heap = g]
  BY <1>1 DEF convert_to_string
<1>3. Same(r.heap, g, {a}) /\ g[a].ptr = Repoint(r.heap[a].ptr, f, v)
  <2> DEFINE k == r.heap
  <2>1. /\ Good(k, NULL) /\ IsA(k, a, "attr") /\ k[a].refs > 0 /\ f \in AttrFields
        /\ v = None \/ IsString(k, v) \/ IsBop(k, v)
    BY DEF Kept
  <2> HIDE DEF k
  <2>2. LET m == Replace(Py_INCREF(k, v), a, f, v) IN
        Even(k, m) /\ Same(k, m, {a}) /\ m[a].ptr = Repoint(k[a].ptr, f, v)
    BY <2>1, AssignCounts
  <2> QED BY <2>2 DEF k
<1>4. Kept(h, a, s)
  BY <1>1, StringConverted
<1> HIDE DEF g
<1>5. s.heap = g /\ s.ok
  BY <1>2 DEF Kept, Results
<1>6. DOMAIN r.heap[a].ptr = AttrFields
  <2>1. r.heap[a] \in Object /\ r.heap[a].kind = "attr"
    BY DEF Kept, Results, Heaps, IsA
  <2> QED BY <2>1, ObjectParts
<1> QED BY <1>3, <1>4, <1>5, <1>6 DEF Repoint, Gets

(* __init__ with three arguments that are strings or None.                 *)
LEMMA InitGiven ==
  ASSUME NEW h, Good(h, NULL), NEW a, IsA(h, a, "attr"), h[a].refs > 0,
         NEW name, name = None \/ IsString(h, name),
         NEW value, value = None \/ IsString(h, value),
         NEW rscn, rscn = None \/ IsString(h, rscn),
         NEW s \in attr__init(h, a, name, value, rscn, NULL)
  PROVE  /\ Same(h, s.heap, {a})
         /\ s.heap[a].ptr["name"] = name /\ s.heap[a].ptr["value"] = value
         /\ s.heap[a].ptr["rscn"] = rscn
<1> DEFINE r0 == [heap |-> h, ok |-> TRUE]
           R3(r3) == Optional(r3, NULL, convert_to_batchop(r3, a, NULL))
           R2(r2) == Optional(r2, rscn, convert_to_string(r2, a, "rscn", rscn))
           R1(r1) == Optional(r1, value, convert_to_string(r1, a, "value", value))
           R0 == Optional(r0, name, convert_to_string(r0, a, "name", name))
<1>1. s \in UNION {UNION {UNION {R3(r3) : r3 \in R2(r2)} : r2 \in R1(r1)} : r1 \in R0}
  BY DEF attr__init
<1>2. PICK r1 \in R0 : s \in UNION {UNION {R3(r3) : r3 \in R2(r2)} : r2 \in R1(r1)}
  <2> HIDE DEF R0, R1, R2, R3
  <2> QED BY <1>1
<1>3. PICK r2 \in R1(r1) : s \in UNION {R3(r3) : r3 \in R2(r2)}
  <2> HIDE DEF R0, R1, R2, R3
  <2> QED BY <1>2
<1>4. PICK r3 \in R2(r2) : s \in R3(r3)
  <2> HIDE DEF R0, R1, R2, R3
  <2> QED BY <1>3
<1>5. s = r3
  BY <1>4 DEF Optional
<1>6. Kept(h, a, r0) /\ r0.ok /\ r0.heap = h
  BY KeepsSame DEF Kept, Results, Good
<1>7. /\ {"name", "value", "rscn"} \subseteq AttrFields \ {"bop"}
      /\ "name" \in AttrFields \ {"value"} /\ "name" \in AttrFields \ {"rscn"}
      /\ "value" \in AttrFields \ {"rscn"}
  BY DEF AttrFields
<1>8. /\ name = None \/ IsString(h, name)
      /\ value = None \/ IsString(h, value)
      /\ rscn = None \/ IsString(h, rscn)
  OBVIOUS
<1> HIDE DEF r0
<1>9. /\ Kept(h, a, r1) /\ r1.ok /\ Same(h, r1.heap, {a}) /\ r1.heap[a].ptr["name"] = name
  <2> DEFINE f == "name"
  <2>1. /\ Kept(h, a, r0) /\ r0.ok /\ f \in AttrFields \ {"bop"}
        /\ name = None \/ IsString(r0.heap, name)
        /\ r1 \in Optional(r0, name, convert_to_string(r0, a, f, name))
    BY <1>2, <1>6, <1>7, <1>8
  <2>2. Kept(h, a, r1) /\ r1.ok /\ Gets(r0.heap, r1.heap, a, f, name)
    <3> HIDE DEF f, R0, R1, R2, R3
    <3> QED BY <2>1, StringGiven
  <2> QED BY <1>6, <2>2 DEF Gets
<1>10. \A g : Same(h, g, {a}) =>
         \A v : v = None \/ IsString(h, v) => v = None \/ IsString(g, v)
  BY DEF Same, IsString, IsA
<1>11. value = None \/ IsString(r1.heap, value)
  BY <1>8, <1>9, <1>10
<1>12. /\ Kept(h, a, r2) /\ r2.ok /\ Same(r1.heap, r2.heap, {a})
       /\ r2.heap[a].ptr["value"] = value
       /\ r2.heap[a].ptr["name"] = r1.heap[a].ptr["name"]
  <2> DEFINE f == "value"
  <2>1. /\ Kept(h, a, r1) /\ r1.ok /\ f \in AttrFields \ {"bop"}
        /\ value = None \/ IsString(r1.heap, value)
        /\ r2 \in Optional(r1, value, convert_to_string(r1, a, f, value))
        /\ "name" \in AttrFields \ {f}
    BY <1>3, <1>7, <1>9, <1>11
  <2>2. Kept(h, a, r2) /\ r2.ok /\ Gets(r1.heap, r2.heap, a, f, value)
    <3> HIDE DEF f, R0, R1, R2, R3
    <3> QED BY <2>1, StringGiven
  <2> QED BY <2>1, <2>2 DEF Gets
<1>13. Same(h, r2.heap, {a})
  BY <1>9, <1>12, SameOn
<1>14. rscn = None \/ IsString(r2.heap, rscn)
  BY <1>8, <1>10, <1>13
<1>15. /\ Same(r2.heap, r3.heap, {a}) /\ r3.heap[a].ptr["rscn"] = rscn
       /\ r3.heap[a].ptr["value"] = r2.heap[a].ptr["value"]
       /\ r3.heap[a].ptr["name"] = r2.heap[a].ptr["name"]
  <2> DEFINE f == "rscn"
  <2>1. /\ Kept(h, a, r2) /\ r2.ok /\ f \in AttrFields \ {"bop"}
        /\ rscn = None \/ IsString(r2.heap, rscn)
        /\ r3 \in Optional(r2, rscn, convert_to_string(r2, a, f, rscn))
        /\ {"name", "value"} \subseteq AttrFields \ {f}
    BY <1>4, <1>7, <1>12, <1>14
  <2>2. Gets(r2.heap, r3.heap, a, f, rscn)
    <3> HIDE DEF f, R0, R1, R2, R3
    <3> QED BY <2>1, StringGiven
  <2> QED BY <2>1, <2>2 DEF Gets
<1>16. Same(h, r3.heap, {a})
  BY <1>13, <1>15, SameOn
<1> QED BY <1>5, <1>9, <1>12, <1>15, <1>16

(* The Attr has its arguments, and goes into its place.                    *)
LEMMA FaithfulAttrStored ==
  ASSUME Telling, frame.at = "init", NEW g, g \in Heaps, Same(heap, g, {frame.attr}),
         g[frame.attr].ptr["name"] = heap[frame.kwds].ptr["name"],
         g[frame.attr].ptr["value"] = heap[frame.kwds].ptr["value"],
         g[frame.attr].ptr["rscn"] = heap[frame.kwds].ptr["resource"],
         IsA(g, frame.attr, "attr"),
         heap' = Steal(Py_DECREF(g, frame.kwds), frame.attribs, frame.j, frame.attr),
         frame' = [Goto("next_attr") EXCEPT !.attr = NULL, !.kwds = NULL]
  PROVE  Faithful(heap', frame')
<1> DEFINE a == frame.attr
           l == frame.list
           d == frame.data
           as == frame.attribs
           w == frame.kwds
           j == frame.j
           h == Py_DECREF(g, w)
           n == Len(frame.in[frame.i].attribs)
           x == frame.in[frame.i].attribs[frame.j]
<1>1. /\ Working /\ frame \in Frame /\ heap \in Heaps /\ FrameFits(frame) /\ Locals(frame)
      /\ Faithful(heap, frame)
  BY WorkingHas DEF Telling
<1>2. frame.at \in InAttr /\ frame.at \in InStatus /\ frame.at \in InKwds
  BY DEF InAttr, InStatus, InKwds
<1>3. /\ a \in Objs /\ l \in Objs /\ d \in Objs /\ as \in Objs /\ w \in Objs
      /\ heap[a] # NULL /\ heap[l] # NULL /\ heap[d] # NULL /\ heap[as] # NULL
      /\ heap[w] # NULL
  BY <1>1, <1>2, LocalsLive DEF FrameFits, Locals, InList, InData, InAttrs
<1>4. a # l /\ a # d /\ a # as /\ a # w /\ as # l /\ as # d
  BY <1>1, <1>2, <1>3, LocalsLive DEF Locals, InAttrs
<1>5. n \in Nat /\ j \in 1..n /\ EmptyFrom(heap, as, n, j)
  <2>1. Status.attribs \in Seq(Attribute)
    BY <1>1, <1>2, StatusTyped
  <2> QED BY <1>1, <1>2, <2>1, WorkingHas DEF FrameFits, Status, Rooms, AttrsRoom
<1>7. g[w] # NULL
  BY <1>3, <1>4 DEF Same
<1>8. h \in Heaps /\ SameObjects(g, h)
  BY <1>7, DecrefCounts
<1>9. heap' = Steal(h, as, j, a)
  OBVIOUS
<1> HIDE DEF h
<1>10. Same(heap, h, {a}) /\ Same(g, h, {})
  BY <1>8, SameOn DEF SameObjects
<1>11. /\ h[as] # NULL /\ h[as].ptr = heap[as].ptr
       /\ h[a] # NULL /\ h[a].kind = "attr" /\ h[a].ptr = g[a].ptr
  BY <1>3, <1>4, <1>10 DEF Same, IsA
<1>12. j \in DOMAIN h[as].ptr
  BY <1>5, <1>11 DEF EmptyFrom
<1>13. /\ h \in Heaps /\ as \in Objs /\ h[as] # NULL /\ j \in DOMAIN h[as].ptr
       /\ a \in Pointers
  BY <1>3, <1>8, <1>11, <1>12 DEF Pointers
<1>14. Same(h, heap', {as}) /\ heap'[as].ptr = Repoint(h[as].ptr, j, a)
  <2> DEFINE k == Steal(h, as, j, a)
  <2>1. Same(h, k, {as}) /\ k[as].ptr = Repoint(h[as].ptr, j, a)
    <3> HIDE DEF as, j, a
    <3> QED BY <1>13, StealCounts
  <2> QED BY <1>9, <2>1
<1>15. Same(heap, heap', {a, as})
  BY <1>10, <1>14, SameOn
<1>16. /\ frame'.at = "next_attr" /\ frame'.in = frame.in /\ frame'.i = frame.i
       /\ frame'.j = j /\ frame'.list = l /\ frame'.data = d
       /\ frame'.attribs = as /\ frame'.attr = NULL /\ frame'.kwds = NULL
  BY <1>1 DEF Frame, Goto
<1>17. Leaves({a, as}) /\ SamePlace /\ Same(heap, heap', InHand(frame))
  <2>1. {a, as} \subseteq InHand(frame)
    BY DEF InHand
  <2>2. Apart(heap, InHand(frame), InHand(frame'))
    BY <1>16, AnswersAssumption DEF Apart, InHand
  <2>3. Same(heap, heap', InHand(frame))
    BY <1>15, <2>1, SameMore
  <2> QED BY <1>15, <1>16, <2>1, <2>2, <2>3 DEF Leaves, SamePlace
<1>18. ListFaithful(heap', frame') /\ DataFaithful(heap', frame')
  BY <1>2, <1>4, <1>16, <1>17, LocalsLive, <1>1, <1>3, RestOn
<1> DEFINE Y == InHand(frame')
<1>19. KwdsFaithful(heap, frame) /\ PlacesShown(heap, frame, j - 1)
  BY <1>1, <1>2 DEF Faithful, AttrsFaithful
<1>20. /\ TextShown(heap', Y, heap[w].ptr["name"], Said(x.name, None))
       /\ TextShown(heap', Y, heap[w].ptr["value"], Said(x.value, None))
       /\ TextShown(heap', Y, heap[w].ptr["resource"], Said(x.resource, None))
  <2>1. /\ KeyShown(heap, frame, "name", x.name)
        /\ KeyShown(heap, frame, "value", x.value)
        /\ KeyShown(heap, frame, "resource", x.resource)
    BY <1>19 DEF KwdsFaithful
  <2>2. \A p, t : TextShown(heap, InHand(frame), p, t) => TextShown(heap', Y, p, t)
    BY <1>17, TextOn DEF Leaves
  <2> HIDE DEF Y, x
  <2> QED BY <2>1, <2>2 DEF KeyShown
<1>21. heap'[a] # NULL /\ heap'[a].kind = "attr" /\ heap'[a].ptr = g[a].ptr
  BY <1>3, <1>4, <1>11, <1>14 DEF Same
<1>22. AttrShown(heap', Y, a, x)
  <2>1. a \notin Y
    BY <1>3, <1>4, <1>16, AnswersAssumption DEF InHand
  <2> HIDE DEF Y, x
  <2> QED BY <1>3, <1>20, <1>21, <2>1 DEF AttrShown, IsA
<1>23. PlacesShown(heap', frame', j)
  <2> SUFFICES ASSUME NEW m \in 1..j
               PROVE  AttrShown(heap', Y, heap'[as].ptr[m], frame.in[frame.i].attribs[m])
    BY <1>16 DEF PlacesShown
  <2>1. CASE m = j
    <3>1. heap'[as].ptr[m] = a
      BY <1>12, <1>14, <2>1 DEF Repoint
    <3> QED BY <1>22, <2>1, <3>1
  <2>2. CASE m # j
    <3>1. m \in 1..(j - 1)
      BY <1>5, <2>2
    <3>2. heap'[as].ptr[m] = heap[as].ptr[m]
      BY <1>5, <1>11, <1>14, <2>2, <3>1 DEF Repoint, EmptyFrom
    <3>3. AttrShown(heap, InHand(frame), heap[as].ptr[m], frame.in[frame.i].attribs[m])
      BY <1>19, <3>1 DEF PlacesShown
    <3> HIDE DEF Y
    <3>4. AttrShown(heap', Y, heap[as].ptr[m], frame.in[frame.i].attribs[m])
      BY <1>17, <3>3, AttrOn DEF Leaves, Y
    <3> QED BY <3>2, <3>4
  <2> QED BY <2>1, <2>2
<1> QED BY <1>16, <1>18, <1>23
        DEF Faithful, AttrsFaithful, KwdsFaithful, StringsFaithful, InAttr

(* __init__ of the Attr is called with all its arguments.                  *)
LEMMA FaithfulAttrInit ==
  ASSUME Telling, At("init"),
         NEW r \in attr__init(heap, frame.attr, Reached(3, "name"), Reached(3 - 1, "value"),
                              Reached(3 - 2, "resource"), NULL),
         heap' = Steal(Py_DECREF(r.heap, frame.kwds), frame.attribs, frame.j, frame.attr),
         frame' = [Goto("next_attr") EXCEPT !.attr = NULL, !.kwds = NULL]
  PROVE  Faithful(heap', frame')
<1> DEFINE a == frame.attr
           name == heap[frame.kwds].ptr["name"]
           value == heap[frame.kwds].ptr["value"]
           rscn == heap[frame.kwds].ptr["resource"]
           x == frame.in[frame.i].attribs[frame.j]
<1>1. /\ Working /\ frame.at = "init" /\ FrameFits(frame) /\ Good(heap, NULL)
      /\ heap \in Heaps /\ Locals(frame) /\ Faithful(heap, frame)
  BY WorkingHas DEF At, Telling
<1>2. /\ a \in Objs /\ heap[a] # NULL /\ heap[a].kind = "attr"
      /\ frame.kwds \in Objs /\ heap[frame.kwds] # NULL /\ heap[frame.kwds].kind = "dict"
  BY <1>1, LocalsLive DEF FrameFits, Locals, InKwds
<1>3. IsA(heap, a, "attr") /\ heap[a].refs > 0
  BY <1>1, <1>2 DEF IsA, Working, Settled
<1>4. Reached(3, "name") = name /\ Reached(3 - 1, "value") = value
      /\ Reached(3 - 2, "resource") = rscn
  BY DEF Reached
<1>5. heap[frame.kwds].ptr \in [Keys -> Pointers] /\ {"name", "value", "resource"} \subseteq Keys
  <2>1. heap[frame.kwds] \in Object
    BY <1>1, <1>2 DEF Heaps
  <2> QED BY <1>2, <2>1, ObjectParts DEF Keys
<1>6. /\ Attrl.name \in Text \cup {NULL} /\ Attrl.value \in Text \cup {NULL}
      /\ Attrl.resource \in Text \cup {NULL} /\ Attrl = x
  BY <1>1, AttrlTyped DEF InAttr, Attrl, Status
<1>7. ASSUME NEW f \in Keys, NEW t \in Text \cup {NULL}, KeyShown(heap, frame, f, t)
      PROVE  heap[frame.kwds].ptr[f] = None \/ IsString(heap, heap[frame.kwds].ptr[f])
  BY <1>5, <1>7, AnswersAssumption DEF KeyShown, TextShown, Said, Pointers
<1>8. /\ KeyShown(heap, frame, "name", x.name) /\ KeyShown(heap, frame, "value", x.value)
      /\ KeyShown(heap, frame, "resource", x.resource)
  BY <1>1 DEF Faithful, KwdsFaithful
<1>9. /\ name = None \/ IsString(heap, name)
      /\ value = None \/ IsString(heap, value)
      /\ rscn = None \/ IsString(heap, rscn)
  BY <1>5, <1>6, <1>7, <1>8
<1>10. r \in attr__init(heap, a, name, value, rscn, NULL)
  BY <1>4
<1> HIDE DEF name, value, rscn, a
<1>11. /\ Same(heap, r.heap, {a})
       /\ r.heap[a].ptr["name"] = name /\ r.heap[a].ptr["value"] = value
       /\ r.heap[a].ptr["rscn"] = rscn
  <2>1. Good(heap, NULL) /\ IsA(heap, a, "attr") /\ heap[a].refs > 0
    BY <1>1, <1>3
  <2>2. name = None \/ IsString(heap, name)
    BY <1>9
  <2>3. value = None \/ IsString(heap, value)
    BY <1>9
  <2>4. rscn = None \/ IsString(heap, rscn)
    BY <1>9
  <2> QED BY <2>1, <2>2, <2>3, <2>4, <1>10, InitGiven
<1>12. Kept(heap, a, r)
  BY <1>1, <1>3, <1>10, AttrInit
<1>13. r.heap \in Heaps /\ IsA(r.heap, a, "attr")
  BY <1>12 DEF Kept, Results
<1> DEFINE g == r.heap
<1>14. /\ g \in Heaps /\ Same(heap, g, {frame.attr})
       /\ g[frame.attr].ptr["name"] = heap[frame.kwds].ptr["name"]
       /\ g[frame.attr].ptr["value"] = heap[frame.kwds].ptr["value"]
       /\ g[frame.attr].ptr["rscn"] = heap[frame.kwds].ptr["resource"]
       /\ IsA(g, frame.attr, "attr")
       /\ heap' = Steal(Py_DECREF(g, frame.kwds), frame.attribs, frame.j, frame.attr)
  BY <1>11, <1>13 DEF a, name, value, rscn
<1> HIDE DEF g
<1> QED BY <1>1, <1>14, FaithfulAttrStored

(* PBSAttr_New.                                                            *)
LEMMA FaithfulAttr ==
  ASSUME Telling, StepFine, PBSAttr_New PROVE ~pending' => Faithful(heap', frame')
<1>1. FrameFits(frame) /\ Faithful(heap, frame)
  BY WorkingHas DEF Telling
<1>2. CASE
    /\ At("attr")
    /\ \E r \in attr__new(heap), dict \in BOOLEAN :
         /\ dict => Free(r.heap) # {}
         /\ heap' = IF dict
                      THEN Make(r.heap, "dict", [k \in Keys |-> NULL], NULL)
                      ELSE r.heap
         /\ frame' = [frame EXCEPT
              !.attr = r.attr,
              !.kwds = IF dict THEN Fresh(r.heap) ELSE NULL,
              !.at = IF dict /\ r.attr # NULL THEN "key_name" ELSE "attr_error"]
         /\ pending' = (pending \/ ~dict \/ r.attr = NULL)
  <2>1. PICK r \in attr__new(heap), dict \in BOOLEAN :
         /\ dict => Free(r.heap) # {}
         /\ heap' = IF dict
                      THEN Make(r.heap, "dict", [k \in Keys |-> NULL], NULL)
                      ELSE r.heap
         /\ frame' = [frame EXCEPT
              !.attr = r.attr,
              !.kwds = IF dict THEN Fresh(r.heap) ELSE NULL,
              !.at = IF dict /\ r.attr # NULL THEN "key_name" ELSE "attr_error"]
         /\ pending' = (pending \/ ~dict \/ r.attr = NULL)
    BY <1>2
  <2>2. ~pending' => dict /\ r.attr # NULL
    BY <2>1
  <2> QED BY <1>2, <2>1, <2>2, FaithfulAttrMade
<1>3. CASE At("key_name") /\ set_dict_string("name", Attrl.name, "key_value")
  <2>1. frame.at = "key_name" /\ frame.at \in InAttr
    BY <1>3 DEF At, InAttr
  <2> QED BY <1>1, <1>3, <2>1, AttrlTyped, FaithfulKey
<1>4. CASE At("key_value") /\ set_dict_string("value", Attrl.value, "key_resource")
  <2>1. frame.at = "key_value" /\ frame.at \in InAttr
    BY <1>4 DEF At, InAttr
  <2> QED BY <1>1, <1>4, <2>1, AttrlTyped, FaithfulKey
<1>5. CASE At("key_resource") /\ set_dict_string("resource", Attrl.resource, "init")
  <2>1. frame.at = "key_resource" /\ frame.at \in InAttr
    BY <1>5 DEF At, InAttr
  <2> QED BY <1>1, <1>5, <2>1, AttrlTyped, FaithfulKey
<1>6. CASE
    /\ At("init")
    /\ \E k \in 0..3 :
       \E r \in attr__init(heap, frame.attr, Reached(k, "name"), Reached(k - 1, "value"),
                           Reached(k - 2, "resource"), NULL) :
         /\ heap' = IF k = 3 THEN Steal(Py_DECREF(r.heap, frame.kwds),
                                        frame.attribs, frame.j, frame.attr)
                    ELSE r.heap
         /\ frame' = IF k = 3 THEN [Goto("next_attr") EXCEPT !.attr = NULL, !.kwds = NULL]
                     ELSE Goto("attr_error")
         /\ pending' = (pending \/ k # 3)
  <2>1. PICK k \in 0..3 :
       \E r \in attr__init(heap, frame.attr, Reached(k, "name"), Reached(k - 1, "value"),
                           Reached(k - 2, "resource"), NULL) :
         /\ heap' = IF k = 3 THEN Steal(Py_DECREF(r.heap, frame.kwds),
                                        frame.attribs, frame.j, frame.attr)
                    ELSE r.heap
         /\ frame' = IF k = 3 THEN [Goto("next_attr") EXCEPT !.attr = NULL, !.kwds = NULL]
                     ELSE Goto("attr_error")
         /\ pending' = (pending \/ k # 3)
    BY <1>6
  <2>2. ~pending' => k = 3
    BY <2>1
  <2>3. CASE k = 3
    <3>1. PICK r \in attr__init(heap, frame.attr, Reached(3, "name"), Reached(3 - 1, "value"),
                                Reached(3 - 2, "resource"), NULL) :
            /\ heap' = Steal(Py_DECREF(r.heap, frame.kwds),
                             frame.attribs, frame.j, frame.attr)
            /\ frame' = [Goto("next_attr") EXCEPT !.attr = NULL, !.kwds = NULL]
      BY <2>1, <2>3
    <3> QED BY <1>6, <3>1, FaithfulAttrInit
  <2> QED BY <2>2, <2>3
<1>7. CASE At("attr_error")
  BY <1>1, <1>7 DEF At, Faithful
<1> QED BY <1>2, <1>3, <1>4, <1>5, <1>6, <1>7 DEF PBSAttr_New

(* List l of n items has p as one more.                                    *)
Longer(h, g, l, n, p) ==
  /\ Same(h, g, {l}) /\ DOMAIN g[l].ptr = 1..(n + 1) /\ g[l].ptr[n + 1] = p
  /\ \A k \in 1..n : g[l].ptr[k] = h[l].ptr[k]

(* An item is added to a list.                                             *)
LEMMA ExtendParts ==
  ASSUME NEW h \in Heaps, NEW l, IsA(h, l, "list"), NEW p \in Pointers,
         NEW n \in Nat, DOMAIN h[l].ptr = 1..n
  PROVE  Longer(h, Extend(h, l, p), l, n, p)
<1> DEFINE g == [h EXCEPT ![l].ptr = Append(@, p)]
           ptr == Append(h[l].ptr, p)
<1>1. l \in Objs /\ h[l] # NULL /\ h[l].kind = "list" /\ h[l] \in Object
  BY DEF IsA, Heaps
<1>2. h[l].ptr \in Seq(Pointers)
  BY <1>1, ObjectParts
<1>3. n = Len(h[l].ptr)
  BY <1>2
<1>4. DOMAIN ptr = 1..(n + 1) /\ ptr[n + 1] = p /\ \A k \in 1..n : ptr[k] = h[l].ptr[k]
  BY <1>2, <1>3
<1>5. /\ g[l] = [h[l] EXCEPT !.ptr = ptr]
      /\ \A q \in Objs \ {l} : g[q] = h[q]
  BY <1>1 DEF Heaps
<1>6. g[l].ptr = ptr
  BY <1>1, <1>5 DEF Object
<1>7. g = Extend(h, l, p)
  BY DEF Extend
<1> HIDE DEF g, ptr
<1>8. Same(h, g, {l})
  BY <1>5 DEF Same
<1> QED BY <1>4, <1>6, <1>7, <1>8 DEF Longer

(* argv_to_sequence.                                                       *)
LEMMA FaithfulStrings ==
  ASSUME Telling, argv_to_sequence PROVE ~pending' => Faithful(heap', frame')
<1> SUFFICES ASSUME ~pending' PROVE Faithful(heap', frame')
  OBVIOUS
<1>0. /\ Working /\ frame \in Frame /\ heap \in Heaps /\ FrameFits(frame) /\ Locals(frame)
      /\ Rooms(heap, frame) /\ Faithful(heap, frame)
  BY WorkingHas DEF Telling
<1> USE DEF InHand
<1>1. ASSUME frame'.at = "append", StringsFaithful(heap', frame')
      PROVE  Faithful(heap', frame')
  BY <1>1 DEF Faithful, ListFaithful, DataFaithful, AttrsFaithful, KwdsFaithful,
              InData, InStatus, InAttr
<1>2. CASE At("argv") /\ Allocates("list", <<>>, [Goto("append") EXCEPT !.list = Fresh(heap)])
  <2> DEFINE l == Fresh(heap)
             ptr == <<>>
  <2>1. /\ frame.at = "argv" /\ Free(heap) # {}
        /\ heap' = Make(heap, "list", ptr, NULL)
        /\ frame' = [Goto("append") EXCEPT !.list = l]
    BY <1>2 DEF At, Allocates
  <2>2. /\ [kind |-> "list", refs |-> 1, ptr |-> ptr, val |-> NULL] \in Object
        /\ \A f \in DOMAIN ptr : ptr[f] \notin Objs
        /\ DOMAIN ptr = 1..0
    BY DEF Object
  <2> HIDE DEF ptr
  <2>3. heap'[l].ptr = ptr
    BY <1>0, <2>1, <2>2, MakeCounts
  <2> HIDE DEF l
  <2>4. frame'.at = "append" /\ frame'.in = frame.in /\ frame'.i = frame.i /\ frame'.list = l
    BY <1>0, <2>1 DEF Frame, Goto
  <2>5. frame.i = 0 /\ Len(frame.in) \in Nat
    BY <1>0, <2>1 DEF Rooms, ListRoom, FrameFits
  <2>6. StringsFaithful(heap', frame')
    BY <2>2, <2>3, <2>4, <2>5 DEF StringsFaithful
  <2> QED BY <1>1, <2>4, <2>6
<1>3. CASE Fails
  BY <1>3, IdleFaithful DEF Fails
<1> DEFINE s == frame.in[frame.i + 1]
           h == Make(heap, "str", <<>>, s)
           v == Fresh(heap)
           l == frame.list
<1>4. CASE /\ At("append") /\ frame.i < Len(frame.in) /\ Free(heap) # {}
           /\ heap' = [h EXCEPT ![frame.list].ptr = Append(@, Fresh(heap))]
           /\ frame' = [frame EXCEPT !.i = @ + 1]
  <2> DEFINE n == frame.i + 1
             i == frame.i
  <2>1. frame.at = "append" /\ i \in Nat /\ n \in 1..Len(frame.in)
    BY <1>0, <1>4 DEF At, FrameFits, Frame
  <2>2. s \in Text
    BY <1>0, <1>4, <2>1 DEF FrameFits, Frame
  <2>3. /\ h \in Heaps /\ Same(heap, h, {}) /\ v \in Objs /\ heap[v] = NULL
        /\ h[v] # NULL /\ h[v].kind = "str" /\ h[v].val = s
    BY <1>0, <1>4, <2>2, StringMade
  <2>4. frame' = [frame EXCEPT !.i = n]
    BY <1>4
  <2>5. heap' = Extend(h, l, v) /\ v \in Pointers
    BY <1>4, <2>3 DEF Extend, v, Pointers
  <2> HIDE DEF h, v, n
  <2>6. /\ frame'.at = "append" /\ frame'.in = frame.in /\ frame'.i = n
        /\ frame'.list = l /\ frame'.data = frame.data
        /\ frame'.attribs = frame.attribs /\ frame'.attr = frame.attr
        /\ frame'.kwds = frame.kwds
    BY <1>0, <2>1, <2>4 DEF Frame
  <2>7. l \in Objs /\ heap[l] # NULL /\ heap[l].kind = "list"
    BY <1>0, <2>1, LocalsLive DEF Locals, InList
  <2>8. IsA(h, l, "list") /\ h[l].ptr = heap[l].ptr
    BY <2>3, <2>7 DEF Same, IsA
  <2>9. /\ DOMAIN heap[l].ptr = 1..i
        /\ \A k \in 1..i : TextShown(heap, InHand(frame), heap[l].ptr[k], frame.in[k])
    BY <1>0, <2>1 DEF Faithful, StringsFaithful
  <2>10. /\ Same(h, heap', {l}) /\ DOMAIN heap'[l].ptr = 1..(i + 1)
         /\ heap'[l].ptr[i + 1] = v
         /\ \A k \in 1..i : heap'[l].ptr[k] = h[l].ptr[k]
    <3>1. /\ h \in Heaps /\ IsA(h, l, "list") /\ v \in Pointers /\ i \in Nat
          /\ DOMAIN h[l].ptr = 1..i
      BY <2>1, <2>3, <2>5, <2>8, <2>9
    <3>2. Longer(h, heap', l, i, v)
      <4> HIDE DEF l, i
      <4> QED BY <2>5, <3>1, ExtendParts
    <3> QED BY <3>2 DEF Longer
  <2>11. Same(heap, heap', InHand(frame)) /\ Apart(heap, InHand(frame), InHand(frame'))
    <3>1. Same(heap, heap', {l})
      BY <2>3, <2>10, SameOn
    <3>2. {l} \subseteq InHand(frame)
      OBVIOUS
    <3>3. Same(heap, heap', InHand(frame))
      BY <3>1, <3>2, SameMore
    <3> QED BY <2>6, <3>3 DEF Apart
  <2>12. v # l /\ v \notin InHand(frame')
    <3>1. /\ frame.data = NULL /\ frame.attribs = NULL /\ frame.attr = NULL
          /\ frame.kwds = NULL
      BY <1>0, <2>1 DEF Locals, InData, InAttrs, InStatus, InAttr
    <3> QED BY <2>3, <2>6, <2>7, <3>1, AnswersAssumption
  <2> DEFINE Y == InHand(frame')
  <2>13. TextShown(heap', Y, v, s)
    <3>1. heap'[v] # NULL /\ heap'[v].kind = "str" /\ heap'[v].val = s
      BY <2>3, <2>10, <2>12 DEF Same
    <3> HIDE DEF s
    <3> QED BY <2>3, <2>12, <3>1 DEF TextShown, IsString, IsA
  <2>14. ASSUME NEW k \in 1..i
         PROVE  TextShown(heap', Y, heap[l].ptr[k], frame.in[k])
    BY <2>9, <2>11, TextOn
  <2> HIDE DEF Y, s
  <2>15. ASSUME NEW k \in 1..(i + 1)
         PROVE  TextShown(heap', Y, heap'[l].ptr[k], frame.in[k])
    <3>1. CASE k = i + 1
      BY <2>10, <2>13, <3>1 DEF s
    <3>2. CASE k # i + 1
      <4>1. k \in 1..i
        BY <2>1, <3>2
      <4> QED BY <2>8, <2>10, <2>14, <4>1
    <3> QED BY <3>1, <3>2
  <2>16. n = i + 1 /\ n \in 0..Len(frame.in)
    BY <2>1 DEF n
  <2>17. StringsFaithful(heap', frame')
    <3> HIDE DEF i, l
    <3> QED BY <2>6, <2>10, <2>15, <2>16 DEF StringsFaithful, Y
  <2> QED BY <1>1, <2>6, <2>17
<1>5. CASE frame.at = "append" /\ Returns
  BY <1>5, IdleFaithful DEF Returns
<1> QED BY <1>2, <1>3, <1>4, <1>5 DEF argv_to_sequence

(* A method has its answer, and nothing of it is converted.                *)
LEMMA FaithfulRequest ==
  ASSUME NEW in, NEW at \in {"list", "argv"}, Request(in, at)
  PROVE  Faithful(heap', frame')
<1>1. frame'.at = at
  BY DEF Request, Idle
<1> QED BY <1>1 DEF Faithful, ListFaithful, DataFaithful, AttrsFaithful, KwdsFaithful,
                    StringsFaithful, InData, InStatus, InAttr

(* Every step of a conversion.                                             *)
LEMMA FaithfulConvert ==
  ASSUME Telling, StepFine, Convert PROVE ~pending' => Faithful(heap', frame')
<1>1. CASE \E in \in Statuses : Request(in, "list")
  BY <1>1, FaithfulRequest
<1>2. CASE \E in \in Jobs : Request(in, "argv")
  BY <1>2, FaithfulRequest
<1> QED BY <1>1, <1>2, FaithfulStatuses, FaithfulData, FaithfulAttrList, FaithfulAttr,
           FaithfulStrings DEF Convert

(* An exception that is set stays set until the list is returned, or the   *)
(* method fails.                                                           *)
LEMMA PendingStays ==
  ASSUME Convert, pending PROVE pending' \/ (frame' = Idle /\ held' = held)
<1>1. CASE \/ \E in \in Statuses : Request(in, "list")
           \/ \E in \in Jobs : Request(in, "argv")
  BY <1>1, Zenon DEF Request
<1>2. CASE bs_to_py_list
  BY <1>2, Zenon DEF bs_to_py_list, Allocates, At, Fails, Returns
<1>3. CASE PBSData_New
  BY <1>3, Zenon DEF PBSData_New, Allocates, NoMemory, DataString
<1>4. CASE attrl_to_py_list
  BY <1>4, Zenon DEF attrl_to_py_list, Allocates, NoMemory
<1>5. CASE PBSAttr_New
  BY <1>5, Zenon DEF PBSAttr_New, NoMemory, set_dict_string
<1>6. CASE argv_to_sequence
  BY <1>6, Zenon DEF argv_to_sequence, Allocates, At, Fails, Returns
<1> QED BY <1>1, <1>2, <1>3, <1>4, <1>5, <1>6, Zenon DEF Convert

-------------------------------------------------------------------------------
(* The object for the empty string.                                        *)

(* What an operation on a heap keeps, whatever it is applied to.           *)
EmptyAt(h) ==
  /\ DOMAIN h = Objs
  /\ DOMAIN h[PBS_NULLSTR] = {"kind", "refs", "ptr", "val"}
  /\ h[PBS_NULLSTR].kind = "str" /\ h[PBS_NULLSTR].val = Empty

(* The object in a heap, in these terms.                                   *)
LEMMA EmptyThere ==
  ASSUME NEW h \in Heaps, EmptyIs(h)
  PROVE  EmptyAt(h) /\ PBS_NULLSTR \in Objs /\ h[PBS_NULLSTR] # NULL
<1>1. /\ PBS_NULLSTR \in Objs /\ h[PBS_NULLSTR] # NULL /\ h[PBS_NULLSTR].kind = "str"
      /\ h[PBS_NULLSTR].val = Empty
  BY DEF EmptyIs, IsString, IsA
<1>2. h[PBS_NULLSTR] \in Object
  BY <1>1 DEF Heaps
<1>3. DOMAIN h[PBS_NULLSTR] = {"kind", "refs", "ptr", "val"}
  BY <1>2 DEF Object
<1> QED BY <1>1, <1>3 DEF EmptyAt, Heaps

(* Its references, and pointers of any object, may change.                 *)
LEMMA EmptyChanged ==
  ASSUME NEW h, EmptyAt(h), NEW p, NEW f, NEW q
  PROVE  /\ EmptyAt(Py_INCREF(h, p)) /\ EmptyAt(Py_DECREF(h, p))
         /\ EmptyAt(Steal(h, p, f, q)) /\ EmptyAt(Extend(h, p, q))
<1>1. ASSUME NEW n PROVE EmptyAt([h EXCEPT ![p].refs = n])
  BY DEF EmptyAt
<1>2. ASSUME NEW n PROVE EmptyAt([h EXCEPT ![p].ptr = n])
  BY DEF EmptyAt
<1>3. EmptyAt(Py_INCREF(h, p)) /\ EmptyAt(Py_DECREF(h, p))
  BY <1>1 DEF Py_INCREF, Py_DECREF
<1>4. EmptyAt(Steal(h, p, f, q))
  BY DEF EmptyAt, Steal
<1>5. EmptyAt(Extend(h, p, q))
  BY DEF EmptyAt, Extend
<1> QED BY <1>3, <1>4, <1>5

(* Another object may be made.                                             *)
LEMMA EmptyMade ==
  ASSUME NEW h, EmptyAt(h), h[PBS_NULLSTR] # NULL, Free(h) # {},
         NEW kind, NEW ptr, NEW val
  PROVE  EmptyAt(Make(h, kind, ptr, val))
<1>1. Fresh(h) \in Objs /\ h[Fresh(h)] = NULL
  BY DEF Fresh, Free
<1> QED BY <1>1 DEF EmptyAt, Make

(* Other objects may change.                                               *)
LEMMA EmptySame ==
  ASSUME NEW h, NEW g, NEW X, Same(h, g, X), PBS_NULLSTR \notin X, EmptyIs(h)
  PROVE  EmptyIs(g)
BY DEF Same, EmptyIs, IsString, IsA

(* It is still there after a step.                                         *)
LEMMA EmptyStays ==
  ASSUME EmptyIs(heap), Keeps(heap, heap'), EmptyAt(heap') PROVE EmptyIs(heap')
BY DEF EmptyIs, IsString, IsA, Keeps, EmptyAt

(* Every step of a conversion leaves it alone.                             *)
LEMMA EmptyConvert ==
  ASSUME Working, StepFine, EmptyIs(heap), Convert PROVE EmptyIs(heap')
<1>1. /\ heap \in Heaps /\ Good(heap, NULL) /\ EmptyAt(heap) /\ heap[PBS_NULLSTR] # NULL
      /\ FrameFits(frame) /\ FrameLeads(heap, frame)
  BY WorkingHas, EmptyThere
<1>2. EmptyAt(heap') => EmptyIs(heap')
  BY EmptyStays DEF StepFine
<1> USE DEF Allocates, NoMemory, Fails
<1>3. CASE \/ \E in \in Statuses : Request(in, "list")
           \/ \E in \in Jobs : Request(in, "argv")
  <2>1. UNCHANGED heap
    BY <1>3 DEF Request
  <2> QED BY <2>1
<1>4. CASE bs_to_py_list
  BY <1>1, <1>2, <1>4, EmptyMade DEF bs_to_py_list, Returns
<1>5. CASE PBSData_New
  BY <1>1, <1>2, <1>5, EmptyMade, EmptyChanged DEF PBSData_New, DataString
<1>6. CASE attrl_to_py_list
  BY <1>1, <1>2, <1>6, EmptyMade, EmptyChanged DEF attrl_to_py_list
<1>7. CASE PBSAttr_New
  <2>1. ASSUME NEW k, NEW s, NEW next, set_dict_string(k, s, next) PROVE EmptyIs(heap')
    <3>1. CASE s = NULL
      BY <1>1, <1>2, <2>1, <3>1, EmptyChanged DEF set_dict_string
    <3>2. CASE s # NULL
      BY <1>1, <1>2, <2>1, <3>2, EmptyMade, EmptyChanged DEF set_dict_string
    <3> QED BY <3>1, <3>2
  <2>2. ASSUME NEW r \in attr__new(heap)
        PROVE  EmptyIs(r.heap) /\ EmptyAt(r.heap) /\ r.heap[PBS_NULLSTR] # NULL
    BY <1>1, NewCounts, EmptySame, EmptyThere
  <2>3. ASSUME NEW r \in attr__new(heap), NEW dict \in BOOLEAN,
               dict => Free(r.heap) # {},
               heap' = IF dict THEN Make(r.heap, "dict", [k \in Keys |-> NULL], NULL)
                       ELSE r.heap
        PROVE  EmptyIs(heap')
    BY <1>2, <2>2, <2>3, EmptyMade
  <2>4. ASSUME frame.at = "init", NEW name, NEW value, NEW rscn,
               NEW r \in attr__init(heap, frame.attr, name, value, rscn, NULL)
        PROVE  EmptyAt(r.heap)
    <3>1. frame.attr \in Objs
      BY <1>1, <2>4 DEF FrameFits
    <3>2. IsA(heap, frame.attr, "attr") /\ heap[frame.attr].refs > 0
      BY <1>1, <3>1 DEF FrameLeads, Points, IsA, Working, Settled
    <3>3. Same(heap, r.heap, {frame.attr}) /\ r.heap \in Heaps
      BY <1>1, <2>4, <3>2, InitCounts DEF Even
    <3>4. PBS_NULLSTR \notin {frame.attr}
      BY <1>1, <3>2 DEF EmptyAt, IsA
    <3> QED BY <3>3, <3>4, EmptySame, EmptyThere
  <2>5. CASE At("attr")
    BY <1>7, <2>3, <2>5 DEF PBSAttr_New, At
  <2>6. CASE At("init")
    <3>1. frame.at = "init"
      BY <2>6 DEF At
    <3>2. PICK k \in 0..3 : \E r \in attr__init(heap, frame.attr, Reached(k, "name"),
                                 Reached(k - 1, "value"), Reached(k - 2, "resource"), NULL) :
            heap' = IF k = 3 THEN Steal(Py_DECREF(r.heap, frame.kwds),
                                         frame.attribs, frame.j, frame.attr)
                    ELSE r.heap
      BY <1>7, <3>1 DEF PBSAttr_New, At
    <3>3. PICK name, value, rscn : \E r \in attr__init(heap, frame.attr, name, value, rscn, NULL) :
            heap' = IF k = 3 THEN Steal(Py_DECREF(r.heap, frame.kwds),
                                         frame.attribs, frame.j, frame.attr)
                    ELSE r.heap
      BY <3>2
    <3> QED BY <1>2, <2>4, <3>1, <3>3, EmptyChanged
  <2>7. CASE At("attr_error")
    BY <1>1, <1>2, <1>7, <2>7, EmptyChanged DEF PBSAttr_New, At
  <2> QED BY <1>7, <2>1, <2>5, <2>6, <2>7 DEF PBSAttr_New
<1>8. CASE argv_to_sequence
  <2>1. ASSUME Free(heap) # {}, NEW s
        PROVE  /\ EmptyAt(Py_DECREF(Make(heap, "str", <<>>, s), Fresh(heap)))
               /\ EmptyAt(Extend(Make(heap, "str", <<>>, s), frame.list, Fresh(heap)))
    BY <1>1, <2>1, EmptyMade, EmptyChanged
  <2>2. ASSUME NEW s, Free(heap) # {},
               heap' = [Make(heap, "str", <<>>, s)
                          EXCEPT ![frame.list].ptr = Append(@, Fresh(heap))]
        PROVE  EmptyIs(heap')
    <3>1. heap' = Extend(Make(heap, "str", <<>>, s), frame.list, Fresh(heap))
      BY <2>2 DEF Extend
    <3> QED BY <1>2, <2>1, <2>2, <3>1
  <2>3. ASSUME NEW s, Free(heap) # {},
               heap' = Py_DECREF(Make(heap, "str", <<>>, s), Fresh(heap))
        PROVE  EmptyIs(heap')
    BY <1>2, <2>1, <2>3
  <2>4. ASSUME NEW ptr, Free(heap) # {}, heap' = Make(heap, "list", ptr, NULL)
        PROVE  EmptyIs(heap')
    BY <1>1, <1>2, <2>4, EmptyMade
  <2>5. ASSUME heap' = Py_DECREF(heap, frame.list) \/ heap' = heap PROVE EmptyIs(heap')
    BY <1>1, <1>2, <2>5, EmptyChanged
  <2> QED BY <1>8, <2>2, <2>3, <2>4, <2>5, Zenon DEF argv_to_sequence, Returns
<1> QED BY <1>3, <1>4, <1>5, <1>6, <1>7, <1>8 DEF Convert

(* A heap that an argument was borrowed in.                                *)
LEMMA EmptyBorrowed ==
  ASSUME NEW d, IsA(heap, d, "data"), NEW r \in Results, Good(r.heap, NULL),
         Keeps(heap, r.heap), EmptyAt(r.heap), NEW f, NEW v, NEW kind
  PROVE  LET s == Borrow(r, d, f, v, kind) IN
         s \in Results /\ Good(s.heap, NULL) /\ Keeps(heap, s.heap) /\ EmptyAt(s.heap)
<1> DEFINE s == Borrow(r, d, f, v, kind)
           g == Steal(r.heap, d, f, v)
<1>1. s \in Results /\ Good(s.heap, NULL) /\ Keeps(heap, s.heap)
  BY Borrowed
<1>2. EmptyAt(g)
  BY EmptyChanged
<1>3. s = r \/ s = [r EXCEPT !.heap = g] \/ s = [r EXCEPT !.ok = FALSE]
  BY DEF Borrow
<1> HIDE DEF g, s
<1>4. s.heap = r.heap \/ s.heap = g
  BY <1>3 DEF Results
<1> QED BY <1>1, <1>2, <1>4 DEF s

(* Every step of a program leaves it alone.                                *)
LEMMA EmptyProgram ==
  ASSUME Working, StepFine, EmptyIs(heap), Program PROVE EmptyIs(heap')
<1>1. /\ heap \in Heaps /\ Good(heap, NULL) /\ EmptyAt(heap) /\ heap[PBS_NULLSTR] # NULL
      /\ PBS_NULLSTR \in Objs
  BY WorkingHas, EmptyThere
<1>2. EmptyAt(heap') => EmptyIs(heap')
  BY EmptyStays DEF StepFine
<1>3. ASSUME NEW kind, NEW ptr, NEW val, NewObject(kind, ptr, val) PROVE EmptyIs(heap')
  BY <1>1, <1>2, <1>3, EmptyMade DEF NewObject, Makes, Takes
<1>4. CASE bs__new \/ batchop__new \/ \E s \in Str : string_new(s)
  BY <1>3, <1>4 DEF bs__new, batchop__new, string_new
<1>5. CASE Attr_new
  <2>1. PICK r \in attr__new(heap) : heap' = r.heap
    BY <1>5 DEF Attr_new, Takes
  <2> QED BY <1>1, <2>1, NewCounts, EmptySame
<1>6. CASE DataInit
  <2>1. PICK d, name, text, attribs : bs__init(d, name, text, attribs)
    BY <1>6 DEF DataInit
  <2> DEFINE r0 == [heap |-> heap, ok |-> TRUE]
             r1 == Borrow(r0, d, "name", name, "str")
             r2 == Borrow(r1, d, "text", text, "str")
             r3 == Borrow(r2, d, "attribs", attribs, "list")
  <2>2. IsA(heap, d, "data") /\ heap' = r3.heap
    BY <2>1 DEF bs__init, Is, Ends
  <2>3. r0 \in Results /\ Good(r0.heap, NULL) /\ Keeps(heap, r0.heap) /\ EmptyAt(r0.heap)
    BY <1>1, KeepsSame DEF Results
  <2> HIDE DEF r0
  <2>4. r1 \in Results /\ Good(r1.heap, NULL) /\ Keeps(heap, r1.heap) /\ EmptyAt(r1.heap)
    BY <2>2, <2>3, EmptyBorrowed
  <2> HIDE DEF r1
  <2>5. r2 \in Results /\ Good(r2.heap, NULL) /\ Keeps(heap, r2.heap) /\ EmptyAt(r2.heap)
    BY <2>2, <2>4, EmptyBorrowed
  <2> HIDE DEF r2
  <2>6. EmptyAt(r3.heap)
    BY <2>2, <2>5, EmptyBorrowed
  <2> QED BY <1>2, <2>2, <2>6
<1>7. CASE ListSent
  <2>1. heap' = heap \/ More(heap, heap')
    BY <1>7, StringsTaken DEF ListSent, Working
  <2>2. CASE More(heap, heap')
    <3>1. Same(heap, heap', {})
      BY <1>1, <2>2, MoreParts DEF Same
    <3> QED BY <3>1, EmptySame
  <2> QED BY <2>1, <2>2
<1>8. CASE \E o \in Held : bs_get(o) \/ attr_get_str(o) \/ attr_get_bop(o) \/ list_item(o)
  <2>1. \E p : heap' = Py_INCREF(heap, p)
    BY <1>8 DEF bs_get, attr_get_str, attr_get_bop, list_item, Get, Takes
  <2> QED BY <1>1, <1>2, <2>1, EmptyChanged
<1>9. ASSUME NEW b, NEW v, bop_set_op(b, v) PROVE EmptyIs(heap')
  <2> DEFINE i == IF IsString(heap, v) THEN batchop_index(heap[v].val) ELSE 0
  <2>1. /\ IsA(heap, b, "bop")
        /\ Ends({IF i = 0 THEN [heap |-> heap, ok |-> FALSE]
                 ELSE [heap |-> [heap EXCEPT ![b].val = i], ok |-> TRUE]})
    BY <1>9 DEF bop_set_op, Is
  <2>2. b # PBS_NULLSTR
    BY <1>1, <2>1 DEF IsA, EmptyAt
  <2> HIDE DEF i
  <2>3. EmptyAt([heap EXCEPT ![b].val = i])
    BY <1>1, <2>2 DEF EmptyAt
  <2>4. heap' = heap \/ heap' = [heap EXCEPT ![b].val = i]
    BY <2>1 DEF Ends
  <2> QED BY <1>2, <2>3, <2>4
<1>10. ASSUME NEW a,
              \/ \E v : \E f \in AttrFields \ {"bop"} : attr_set_str(a, f, v)
              \/ \E v : attr_set_bop(a, v)
              \/ \E name, value, rscn, bop : Attr_init(a, name, value, rscn, bop)
       PROVE  EmptyIs(heap')
  <2> DEFINE r0 == [heap |-> heap, ok |-> TRUE]
  <2>1. Is(a, "attr")
    BY <1>10 DEF attr_set_str, attr_set_bop, Attr_init
  <2>2. IsA(heap, a, "attr") /\ heap[a].refs > 0
    BY <2>1 DEF Is, IsA, Working, Settled
  <2>3. Kept(heap, a, r0) /\ r0.heap = heap
    BY <1>1, <2>2, KeepsSame DEF Kept, Results
  <2>4. Same(heap, heap', {a})
    <3>1. CASE \E v : \E f \in AttrFields \ {"bop"} : attr_set_str(a, f, v)
      <4>1. PICK v : \E f \in AttrFields \ {"bop"} : attr_set_str(a, f, v)
        BY <3>1
      <4>2. PICK f \in AttrFields \ {"bop"} : attr_set_str(a, f, v)
        BY <4>1
      <4>3. PICK r \in convert_to_string(r0, a, f, v) : heap' = r.heap
        BY <4>2 DEF attr_set_str, Ends
      <4> HIDE DEF r0
      <4> QED BY <2>3, <4>3, StringCounts
    <3>2. CASE \E v : attr_set_bop(a, v)
      <4>1. PICK v : attr_set_bop(a, v)
        BY <3>2
      <4>2. PICK r \in convert_to_batchop(r0, a, v) : heap' = r.heap
        BY <4>1 DEF attr_set_bop, Ends
      <4> HIDE DEF r0
      <4> QED BY <2>3, <4>2, BatchopCounts
    <3>3. CASE \E name, value, rscn, bop : Attr_init(a, name, value, rscn, bop)
      <4>1. PICK name, value, rscn, bop : Attr_init(a, name, value, rscn, bop)
        BY <3>3
      <4>2. PICK r \in attr__init(heap, a, name, value, rscn, bop) : heap' = r.heap
        BY <4>1 DEF Attr_init, Ends
      <4> QED BY <1>1, <2>2, <4>2, InitCounts
    <3> QED BY <1>10, <3>1, <3>2, <3>3
  <2>5. PBS_NULLSTR \notin {a}
    BY <1>1, <2>2 DEF IsA, EmptyAt
  <2> QED BY <2>4, <2>5, EmptySame
<1>11. CASE \E o \in Held, v \in Args \cup {NULL} :
              \/ attr_set_bop(o, v) \/ bop_set_op(o, v) \/ batchop__init(o, v)
              \/ \E f \in AttrFields \ {"bop"} : attr_set_str(o, f, v)
  <2>1. PICK o \in Held, v \in Args \cup {NULL} :
          \/ attr_set_bop(o, v) \/ bop_set_op(o, v)
          \/ \E f \in AttrFields \ {"bop"} : attr_set_str(o, f, v)
    BY <1>11 DEF batchop__init
  <2> QED BY <2>1, <1>9, <1>10
<1>12. CASE \E a \in Held, name, value \in Args, rscn, bop \in Args \cup {NULL} :
              Attr_init(a, name, value, rscn, bop)
  BY <1>10, <1>12
<1> QED BY <1>4, <1>5, <1>6, <1>7, <1>8, <1>11, <1>12 DEF Program

-------------------------------------------------------------------------------
(* An object dies, and none that is shown does.                            *)

(* The objects of g are as in h, and what they lead to is there.           *)
Closed(h, g) ==
  /\ h \in Heaps /\ Same(g, h, {})
  /\ \A o \in Objs : g[o] # NULL =>
       \A f \in DOMAIN g[o].ptr : g[o].ptr[f] \in Objs => g[g[o].ptr[f]] # NULL

(* An object that is there has what it had.                                *)
LEMMA ClosedHas ==
  ASSUME NEW h, NEW g, Closed(h, g), NEW o, o \in Objs, g[o] # NULL
  PROVE  /\ h[o] # NULL /\ h[o] \in Object /\ g[o].kind = h[o].kind /\ g[o].ptr = h[o].ptr
         /\ g[o].val = h[o].val
BY DEF Closed, Same, Heaps

(* A text, of an object that is there.                                     *)
LEMMA TextLeft ==
  ASSUME NEW h, NEW g, Closed(h, g), NEW o \in Objs, g[o] # NULL,
         NEW f \in DOMAIN h[o].ptr, NEW X, NEW t, TextShown(h, X, h[o].ptr[f], t)
  PROVE  TextShown(g, X, g[o].ptr[f], t)
<1> DEFINE p == h[o].ptr[f]
<1>1. g[o].ptr[f] = p
  BY ClosedHas
<1>2. p \in Objs => g[p] # NULL
  BY ClosedHas DEF Closed
<1> HIDE DEF p
<1>3. p \in Objs => IsString(g, p) /\ g[p].val = h[p].val
  <2>1. p \in Objs => IsString(h, p)
    BY DEF TextShown, p
  <2> QED BY <1>2, <2>1, ClosedHas DEF IsString, IsA
<1> QED BY <1>1, <1>3 DEF TextShown, p

(* An Attr.                                                                *)
LEMMA AttrLeft ==
  ASSUME NEW h, NEW g, Closed(h, g), NEW a, a \in Objs => g[a] # NULL,
         NEW X, NEW x, AttrShown(h, X, a, x)
  PROVE  AttrShown(g, X, a, x)
<1>1. a \in Objs /\ g[a] # NULL /\ h[a].kind = "attr" /\ a \notin X
  BY DEF AttrShown, IsA
<1>2. h[a].ptr \in [AttrFields -> Pointers] /\ g[a].kind = "attr"
  BY <1>1, ClosedHas, ObjectParts
<1>3. {"name", "value", "rscn"} \subseteq DOMAIN h[a].ptr
  BY <1>2 DEF AttrFields
<1> QED BY <1>1, <1>2, <1>3, TextLeft DEF AttrShown, IsA

(* A Data, with its list of Attrs.                                         *)
LEMMA DataLeft ==
  ASSUME NEW h, NEW g, Closed(h, g), NEW d, d \in Objs => g[d] # NULL,
         NEW X, NEW s, DataShown(h, X, d, s)
  PROVE  DataShown(g, X, d, s)
<1> DEFINE l == h[d].ptr["attribs"]
<1>1. d \in Objs /\ g[d] # NULL /\ h[d].kind = "data" /\ d \notin X
  BY DEF DataShown, IsA
<1>2. h[d].ptr \in [DataFields -> Pointers] /\ g[d].kind = "data" /\ g[d].ptr = h[d].ptr
  BY <1>1, ClosedHas, ObjectParts
<1>3. {"name", "text", "attribs"} \subseteq DOMAIN h[d].ptr
  BY <1>2 DEF DataFields
<1>4. AttrsShown(h, X, l, s.attribs)
  BY DEF DataShown
<1>5. l \in Objs /\ h[l].kind = "list" /\ l \notin X
  BY <1>4 DEF AttrsShown, IsA
<1>6. g[l] # NULL
  BY <1>1, <1>2, <1>3, <1>5 DEF Closed
<1> HIDE DEF l
<1>7. g[l].kind = "list" /\ g[l].ptr = h[l].ptr
  BY <1>5, <1>6, ClosedHas
<1>8. AttrsShown(g, X, l, s.attribs)
  <2>1. ASSUME NEW j \in DOMAIN s.attribs
        PROVE  AttrShown(g, X, g[l].ptr[j], s.attribs[j])
    <3>1. j \in DOMAIN g[l].ptr /\ AttrShown(h, X, h[l].ptr[j], s.attribs[j])
      BY <1>4, <1>7 DEF AttrsShown
    <3>2. h[l].ptr[j] \in Objs => g[h[l].ptr[j]] # NULL
      BY <1>5, <1>6, <1>7, <3>1 DEF Closed
    <3> QED BY <1>7, <3>1, <3>2, AttrLeft
  <2> QED BY <1>4, <1>5, <1>6, <1>7, <2>1 DEF AttrsShown, IsA
<1> QED BY <1>1, <1>2, <1>3, <1>8, TextLeft DEF DataShown, IsA, l

(* So what an unfinished answer shows is shown when another object dies.   *)
LEMMA FaithfulLeft ==
  ASSUME NEW h, NEW g, NEW fr, Closed(h, g), FrameFits(fr), FrameLeads(h, fr), Shape(h, fr),
         Faithful(h, fr), \A p \in InHand(fr) \cap Objs : g[p] # NULL
  PROVE  Faithful(g, fr)
<1>1. Locals(fr) /\ Rooms(h, fr)
  BY DEF Shape
<1>2. ASSUME NEW n \in Int, ItemsShown(h, fr, n), fr.list \in Objs,
             1..n \subseteq DOMAIN h[fr.list].ptr
      PROVE  ItemsShown(g, fr, n)
  <2>1. g[fr.list] # NULL /\ g[fr.list].ptr = h[fr.list].ptr
    BY <1>2, ClosedHas DEF InHand
  <2>2. ASSUME NEW k \in 1..n
        PROVE  DataShown(g, InHand(fr), g[fr.list].ptr[k], fr.in[k])
    <3>1. k \in DOMAIN g[fr.list].ptr
      BY <1>2, <2>1
    <3>2. h[fr.list].ptr[k] \in Objs => g[h[fr.list].ptr[k]] # NULL
      BY <1>2, <2>1, <3>1 DEF Closed
    <3> QED BY <1>2, <2>1, <3>2, DataLeft DEF ItemsShown
  <2> QED BY <2>2 DEF ItemsShown
<1>3. ASSUME NEW n \in Int, PlacesShown(h, fr, n), fr.attribs \in Objs,
             1..n \subseteq DOMAIN h[fr.attribs].ptr
      PROVE  PlacesShown(g, fr, n)
  <2>1. g[fr.attribs] # NULL /\ g[fr.attribs].ptr = h[fr.attribs].ptr
    BY <1>3, ClosedHas DEF InHand
  <2>2. ASSUME NEW m \in 1..n
        PROVE  AttrShown(g, InHand(fr), g[fr.attribs].ptr[m], fr.in[fr.i].attribs[m])
    <3>1. m \in DOMAIN g[fr.attribs].ptr
      BY <1>3, <2>1
    <3>2. h[fr.attribs].ptr[m] \in Objs => g[h[fr.attribs].ptr[m]] # NULL
      BY <1>3, <2>1, <3>1 DEF Closed
    <3> QED BY <1>3, <2>1, <3>2, AttrLeft DEF PlacesShown
  <2> QED BY <2>2 DEF PlacesShown
<1>4. ListFaithful(g, fr)
  <2>1. CASE fr.at = "next"
    <3>1. /\ fr.i \in Int /\ fr.list \in Objs /\ ItemsShown(h, fr, fr.i)
          /\ fr.i \in 0..Len(fr.in) /\ DOMAIN h[fr.list].ptr = 1..Len(fr.in)
      BY <1>1, <2>1 DEF Locals, InList, Rooms, ListRoom, EmptyFrom, Faithful, ListFaithful,
                        FrameFits, Frame
    <3>2. fr.in \in Seq(BatchStatus)
      BY <2>1 DEF FrameFits
    <3>3. 1..fr.i \subseteq DOMAIN h[fr.list].ptr
      BY <3>1, <3>2
    <3> QED BY <1>2, <2>1, <3>1, <3>3 DEF ListFaithful, InStatus, InAttr
  <2>2. CASE fr.at \in InStatus
    <3>1. /\ fr.i \in 1..Len(fr.in) /\ fr.list \in Objs /\ ItemsShown(h, fr, fr.i - 1)
          /\ DOMAIN h[fr.list].ptr = 1..Len(fr.in)
      BY <1>1, <2>2 DEF Locals, InList, Rooms, ListRoom, EmptyFrom, Faithful, ListFaithful,
                        FrameFits
    <3>2. fr.in \in Seq(BatchStatus)
      BY <2>2 DEF FrameFits
    <3>3. fr.i - 1 \in Int /\ 1..(fr.i - 1) \subseteq DOMAIN h[fr.list].ptr
      BY <3>1, <3>2
    <3>4. fr.at # "next"
      BY <2>2 DEF InStatus, InAttr
    <3> QED BY <1>2, <3>1, <3>3, <3>4 DEF ListFaithful
  <2> QED BY <2>1, <2>2 DEF ListFaithful
<1>5. DataFaithful(g, fr)
  <2>1. CASE fr.at \in InData
    <3>1. fr.data \in Objs
      BY <1>1, <2>1 DEF Locals
    <3>2. g[fr.data] # NULL /\ h[fr.data] \in Object /\ h[fr.data].kind = "data"
      BY <3>1, ClosedHas DEF InHand, FrameLeads, Points, IsA
    <3>3. {"name", "text"} \subseteq DOMAIN h[fr.data].ptr
      BY <3>2, ObjectParts DEF DataFields
    <3> QED BY <3>1, <3>2, <3>3, TextLeft DEF Faithful, DataFaithful
  <2> QED BY <2>1 DEF DataFaithful
<1>6. AttrsFaithful(g, fr)
  <2>1. CASE fr.at = "next_attr"
    <3>1. fr.at \in InStatus /\ fr.at \in InAttrs /\ fr.at \notin InAttr
      BY <2>1 DEF InStatus, InAttrs, InAttr
    <3> DEFINE as == fr.in[fr.i].attribs
    <3>2. /\ fr.j \in 0..Len(as) /\ fr.attribs \in Objs /\ PlacesShown(h, fr, fr.j)
          /\ DOMAIN h[fr.attribs].ptr = 1..Len(as)
      BY <1>1, <2>1, <3>1 DEF Locals, Rooms, AttrsRoom, EmptyFrom, Faithful, AttrsFaithful
    <3>3. fr.in \in Seq(BatchStatus) /\ fr.i \in 1..Len(fr.in)
      BY <3>1 DEF FrameFits
    <3>4. as \in Seq(Attribute)
      <4>1. fr.in[fr.i] \in BatchStatus
        BY <3>3
      <4> QED BY <4>1 DEF BatchStatus
    <3>5. Len(as) \in Nat
      BY <3>4
    <3> HIDE DEF as
    <3>6. fr.j \in Int /\ 1..fr.j \subseteq DOMAIN h[fr.attribs].ptr
      <4> DEFINE n == Len(as)
                 j == fr.j
      <4>1. n \in Nat /\ j \in 0..n /\ DOMAIN h[fr.attribs].ptr = 1..n
        BY <3>2, <3>5
      <4> HIDE DEF n, j
      <4>2. j \in Int /\ 1..j \subseteq 1..n
        BY <4>1
      <4> QED BY <4>1, <4>2 DEF j
    <3> QED BY <1>3, <3>1, <3>2, <3>6 DEF AttrsFaithful
  <2>2. CASE fr.at \in InAttr
    <3>1. fr.at \in InStatus /\ fr.at \in InAttrs /\ fr.at # "next_attr"
      BY <2>2 DEF InStatus, InAttrs, InAttr
    <3> DEFINE as == fr.in[fr.i].attribs
    <3>2. /\ fr.j \in 1..Len(as) /\ fr.attribs \in Objs /\ PlacesShown(h, fr, fr.j - 1)
          /\ DOMAIN h[fr.attribs].ptr = 1..Len(as)
      BY <1>1, <2>2, <3>1 DEF Locals, Rooms, AttrsRoom, EmptyFrom, Faithful, AttrsFaithful,
                              FrameFits
    <3>3. fr.in \in Seq(BatchStatus) /\ fr.i \in 1..Len(fr.in)
      BY <3>1 DEF FrameFits
    <3>4. as \in Seq(Attribute)
      <4>1. fr.in[fr.i] \in BatchStatus
        BY <3>3
      <4> QED BY <4>1 DEF BatchStatus
    <3>5. Len(as) \in Nat
      BY <3>4
    <3> HIDE DEF as
    <3>6. fr.j - 1 \in Int /\ 1..(fr.j - 1) \subseteq DOMAIN h[fr.attribs].ptr
      <4> DEFINE n == Len(as)
                 j == fr.j
      <4>1. n \in Nat /\ j \in 1..n /\ DOMAIN h[fr.attribs].ptr = 1..n
        BY <3>2, <3>5
      <4> HIDE DEF n, j
      <4>2. j - 1 \in Int /\ 1..(j - 1) \subseteq 1..n
        BY <4>1
      <4> QED BY <4>1, <4>2 DEF j
    <3> QED BY <1>3, <3>1, <3>2, <3>6 DEF AttrsFaithful
  <2> QED BY <2>1, <2>2 DEF AttrsFaithful
<1>7. KwdsFaithful(g, fr)
  <2>1. CASE fr.at \in InKwds
    <3>1. fr.kwds \in Objs
      BY <1>1, <2>1 DEF Locals
    <3>2. g[fr.kwds] # NULL /\ h[fr.kwds] \in Object /\ h[fr.kwds].kind = "dict"
      BY <3>1, ClosedHas DEF InHand, FrameLeads, Points, IsA
    <3>3. Keys \subseteq DOMAIN h[fr.kwds].ptr
      BY <3>2, ObjectParts
    <3>4. ASSUME NEW key \in Keys, NEW t, KeyShown(h, fr, key, t) PROVE KeyShown(g, fr, key, t)
      BY <3>1, <3>2, <3>3, <3>4, TextLeft DEF KeyShown
    <3> QED BY <3>4 DEF Faithful, KwdsFaithful, Keys
  <2> QED BY <2>1 DEF KwdsFaithful, InKwds
<1>8. StringsFaithful(g, fr)
  <2>1. CASE fr.at = "append"
    <3>1. fr.list \in Objs
      BY <1>1, <2>1 DEF Locals, InList
    <3>2. g[fr.list] # NULL /\ g[fr.list].ptr = h[fr.list].ptr
      BY <3>1, ClosedHas DEF InHand
    <3> QED BY <2>1, <3>1, <3>2, TextLeft DEF Faithful, StringsFaithful
  <2> QED BY <2>1 DEF StringsFaithful
<1> QED BY <1>4, <1>5, <1>6, <1>7, <1>8 DEF Faithful

(* An object dies, and no reference to it is left.                         *)
LEMMA FaithfulDealloc ==
  ASSUME FInv, Sound, Dealloc, Sound'
  PROVE  EmptyIs(heap') /\ (~pending' => Faithful(heap', frame'))
<1>1. /\ heap \in Heaps /\ FrameFits(frame) /\ FrameLeads(heap, frame) /\ Shape(heap, frame)
      /\ EmptyIs(heap) /\ (~pending => Faithful(heap, frame))
  BY DEF FInv, CInv, IInv, TypeOK, Heaps
<1>2. frame' = frame /\ Same(heap', heap, {})
  BY CountsDealloc DEF FInv, CInv
<1>3. pending' = pending
  BY Zenon DEF Dealloc, bs__dealloc, attr__dealloc, batchop__dealloc, object_dealloc, Dies
<1>4. /\ \A o \in Objs : heap'[o] # NULL =>
           \A f \in DOMAIN heap'[o].ptr :
             heap'[o].ptr[f] \in Objs => heap'[heap'[o].ptr[f]] # NULL
      /\ \A p \in InHand(frame) \cap Objs : heap'[p] # NULL
      /\ heap'[PBS_NULLSTR] # NULL
  BY <1>2, AnswersAssumption DEF Sound, Referenced, Framed, InHand
<1>5. Closed(heap, heap')
  BY <1>1, <1>2, <1>4 DEF Closed
<1>6. EmptyIs(heap')
  BY <1>1, <1>4, <1>5, ClosedHas DEF EmptyIs, IsString, IsA
<1>7. ASSUME ~pending' PROVE Faithful(heap', frame')
  <2>1. Faithful(heap, frame)
    BY <1>1, <1>3, <1>7, Zenon
  <2> QED BY <1>1, <1>2, <1>4, <1>5, <2>1, FaithfulLeft
<1> QED BY <1>6, <1>7

-------------------------------------------------------------------------------
(* The invariant, and the answer that a program gets.                      *)

(* It holds at first.                                                      *)
LEMMA InitFInv == Init => FInv
<1> SUFFICES ASSUME Init PROVE FInv
  OBVIOUS
<1>1. EmptyIs(heap)
  <2>1. heap[PBS_NULLSTR] = [kind |-> "str", refs |-> 1, ptr |-> <<>>, val |-> Empty]
    BY AnswersAssumption DEF Init
  <2>2. heap \in Heaps
    BY InitIInv DEF IInv, TypeOK, Heaps
  <2>3. heap[PBS_NULLSTR].kind = "str" /\ heap[PBS_NULLSTR].val = Empty
    BY <2>1
  <2>4. heap[PBS_NULLSTR] # NULL
    <3>1. heap[PBS_NULLSTR] \in Object
      BY <2>1 DEF Object, Text
    <3> QED BY <3>1, AnswersAssumption
  <2> QED BY <2>3, <2>4, AnswersAssumption DEF EmptyIs, IsString, IsA
<1>2. Faithful(heap, frame)
  BY IdleFaithful DEF Init
<1> QED BY <1>1, <1>2, InitCInv DEF FInv

(* A program works, and gets an exception, while nothing is converted.     *)
LEMMA ProgramIdle ==
  ASSUME Raise \/ Program \/ \E o \in Held : Drop(o)
  PROVE  frame = Idle /\ frame' = Idle
BY DEF Raise, Program, Drop, Ready, bs__new, batchop__new, Attr_new, NewObject, Makes,
       DataInit, bs__init, ListSent, sequence_to_argv, string_new, bs_get, attr_get_str,
       attr_get_bop, list_item, Get, attr_set_bop, attr_set_str, bop_set_op, batchop__init,
       Attr_init

(* Every step keeps the invariant.                                         *)
LEMMA StepFInv ==
  ASSUME FInv, Sound, Step PROVE FInv'
<1>1. CInv /\ CInv'
  BY StepCInv DEF FInv
<1>2. ASSUME Sound' PROVE EmptyIs(heap') /\ (~pending' => Faithful(heap', frame'))
  <2>1. CASE Dealloc
    BY <1>2, <2>1, FaithfulDealloc
  <2>2. CASE Settled /\ Convert
    <3>1. Working /\ StepFine /\ EmptyIs(heap)
      BY <1>1, <2>2, StepCounts DEF FInv
    <3>2. EmptyIs(heap')
      BY <2>2, <3>1, EmptyConvert
    <3>3. ASSUME ~pending' PROVE Faithful(heap', frame')
      <4>1. CASE frame' = Idle
        BY <4>1, IdleFaithful
      <4>2. CASE ~pending
        <5>1. Telling
          BY <3>1, <4>2 DEF Telling, FInv
        <5> QED BY <2>2, <3>1, <3>3, <5>1, FaithfulConvert
      <4> QED BY <2>2, <3>3, <4>1, <4>2, PendingStays
    <3> QED BY <3>2, <3>3
  <2>3. CASE Settled /\ (Raise \/ Program \/ \E o \in Held : Drop(o))
    <3>1. Working /\ StepFine /\ EmptyIs(heap)
      BY <1>1, <2>3, StepCounts DEF FInv
    <3>2. frame' = Idle
      BY <2>3, ProgramIdle
    <3>3. CASE Raise
      <4>1. heap' = heap
        BY <3>3 DEF Raise
      <4> QED BY <3>1, <3>2, <4>1, IdleFaithful
    <3>4. CASE Program
      BY <3>1, <3>2, <3>4, EmptyProgram, IdleFaithful
    <3>5. CASE \E o \in Held : Drop(o)
      <4>1. PICK o : heap' = Py_DECREF(heap, o)
        BY <3>5 DEF Drop
      <4>2. EmptyAt(heap')
        BY <3>1, <4>1, WorkingHas, EmptyThere, EmptyChanged
      <4>3. EmptyIs(heap')
        BY <3>1, <4>2, EmptyStays DEF StepFine
      <4> QED BY <3>2, <4>3, IdleFaithful
    <3> QED BY <2>3, <3>3, <3>4, <3>5
  <2> QED BY <2>1, <2>2, <2>3 DEF Step
<1> QED BY <1>1, <1>2 DEF FInv

(* Nothing happens.                                                        *)
LEMMA StutterFInv ==
  ASSUME FInv, UNCHANGED vars PROVE FInv'
<1>1. CInv'
  BY StutterCInv DEF FInv
<1>2. heap' = heap /\ held' = held /\ frame' = frame /\ pending' = pending
  BY DEF vars
<1>3. Sound' = Sound
  BY <1>2 DEF Sound, Referenced, Framed
<1>4. Sound' => EmptyIs(heap') /\ (~pending' => Faithful(heap', frame'))
  <2>1. Sound => EmptyIs(heap) /\ (~pending => Faithful(heap, frame))
    BY DEF FInv
  <2>2. pending' <=> pending
    BY <1>2, Zenon
  <2> QED BY <1>2, <1>3, <2>1, <2>2
<1> QED BY <1>1, <1>4 DEF FInv

(* What is shown is what a program finds.                                  *)
LEMMA ShownText ==
  ASSUME NEW h, NEW X, NEW p, NEW t, TextShown(h, X, p, t) PROVE TextOf(h, p) = t
BY DEF TextShown, TextOf

(* Also in a Data.                                                         *)
LEMMA ShownData ==
  ASSUME NEW h, NEW X, NEW d, NEW s, DataShown(h, X, d, s) PROVE Shown(h, d) = Expected(s)
<1> DEFINE l == h[d].ptr["attribs"]
           as == s.attribs
           E(x) == [name |-> Said(x.name, None), value |-> Said(x.value, None),
                    resource |-> Said(x.resource, None)]
<1>1. d \in Objs /\ h[d].kind = "data"
  BY DEF DataShown, IsA
<1>2. /\ TextOf(h, h[d].ptr["name"]) = Said(s.name, Empty)
      /\ TextOf(h, h[d].ptr["text"]) = Said(s.text, Empty)
  BY ShownText DEF DataShown
<1>3. ASSUME NEW a, NEW x, AttrShown(h, X, a, x) PROVE ShownAttr(h, a) = E(x)
  <2>1. a # NULL
    BY <1>3, AnswersAssumption DEF AttrShown, IsA
  <2>2. /\ TextOf(h, h[a].ptr["name"]) = Said(x.name, None)
        /\ TextOf(h, h[a].ptr["value"]) = Said(x.value, None)
        /\ TextOf(h, h[a].ptr["rscn"]) = Said(x.resource, None)
    BY <1>3, ShownText DEF AttrShown
  <2> QED BY <2>1, <2>2 DEF ShownAttr
<1>4. DOMAIN h[l].ptr = DOMAIN as /\ \A j \in DOMAIN as : AttrShown(h, X, h[l].ptr[j], as[j])
  BY DEF DataShown, AttrsShown
<1>5. \A j \in DOMAIN as : ShownAttr(h, h[l].ptr[j]) = E(as[j])
  BY <1>3, <1>4
<1>6. ShownAttrs(h, l) = [j \in DOMAIN as |-> E(as[j])]
  <2> HIDE DEF E, l, as
  <2> QED BY <1>4, <1>5 DEF ShownAttrs
<1>7. Shown(h, d) = [name |-> TextOf(h, h[d].ptr["name"]), text |-> TextOf(h, h[d].ptr["text"]),
                     attribs |-> ShownAttrs(h, l)]
  BY <1>1 DEF Shown
<1>8. Expected(s) = [name |-> Said(s.name, Empty), text |-> Said(s.text, Empty),
                     attribs |-> [j \in DOMAIN as |-> E(as[j])]]
  BY DEF Expected
<1> HIDE DEF E, l, as
<1> QED BY <1>2, <1>6, <1>7, <1>8

(* What is returned at the end is whole.                                   *)
LEMMA WholeAnswer ==
  ASSUME Telling, frame.at \in {"next", "append"}, frame.i = Len(frame.in)
  PROVE  /\ Len(heap[frame.list].ptr) = Len(frame.in)
         /\ \A k \in DOMAIN frame.in :
              Shown(heap, heap[frame.list].ptr[k]) =
                IF frame.at = "append" THEN frame.in[k] ELSE Expected(frame.in[k])
<1> DEFINE l == frame.list
           n == Len(frame.in)
<1>1. /\ Working /\ Faithful(heap, frame) /\ FrameFits(frame) /\ Locals(frame)
      /\ Rooms(heap, frame) /\ heap \in Heaps
  BY WorkingHas DEF Telling
<1>2. l \in Objs /\ heap[l] # NULL /\ heap[l].kind = "list"
  BY <1>1, LocalsLive DEF Locals, InList
<1>3. n \in Nat /\ DOMAIN frame.in = 1..n
  <2>1. frame.in \in Seq(BatchStatus) \/ frame.in \in Seq(Text)
    BY <1>1 DEF FrameFits
  <2> QED BY <2>1
<1>4. DOMAIN heap[l].ptr = 1..n
  BY <1>1 DEF Rooms, ListRoom, EmptyFrom, Faithful, StringsFaithful
<1>5. Len(heap[l].ptr) = n
  <2>1. heap[l].ptr \in Seq(Pointers)
    BY <1>1, <1>2, ObjectParts DEF Heaps
  <2> HIDE DEF n
  <2> QED BY <1>3, <1>4, <2>1
<1>6. CASE frame.at = "next"
  <2>1. ItemsShown(heap, frame, n)
    BY <1>1, <1>6 DEF Faithful, ListFaithful
  <2> QED BY <1>3, <1>5, <1>6, <2>1, ShownData DEF ItemsShown
<1>7. CASE frame.at = "append"
  <2>1. ASSUME NEW k \in 1..n PROVE Shown(heap, heap[l].ptr[k]) = frame.in[k]
    <3>1. TextShown(heap, InHand(frame), heap[l].ptr[k], frame.in[k])
      BY <1>1, <1>7 DEF Faithful, StringsFaithful
    <3>2. TextOf(heap, heap[l].ptr[k]) = frame.in[k]
      BY <3>1, ShownText
    <3> QED BY <3>1, <3>2 DEF Shown, TextShown, IsString, IsA
  <2> QED BY <1>3, <1>5, <1>7, <2>1
<1> QED BY <1>5, <1>6, <1>7

(* Only the end of a conversion gives the list to the program.             *)
LEMMA OnlyReturns ==
  ASSUME Convert, held' # held
  PROVE  frame.at \in {"next", "append"} /\ frame.i = Len(frame.in) /\ Returns
BY DEF Convert, Request, bs_to_py_list, PBSData_New, attrl_to_py_list, PBSAttr_New,
       argv_to_sequence, At

(* An answer that comes without an exception is whole: one object for each *)
(* item, in order, with its strings, and no place empty, whichever         *)
(* allocation fails (utils.h:83-92, PBSDataType.c:187-217,                 *)
(* PBSAttrType.c:288-322, utils.c:24-40, 73-92).                           *)
THEOREM FaithfulCorrect == Spec => AnswerFaithful
<1> DEFINE Right ==
      frame.list # NULL /\ held' # held /\ ~pending' =>
        /\ Len(heap[frame.list].ptr) = Len(frame.in)
        /\ \A k \in DOMAIN frame.in :
             Shown(heap, heap[frame.list].ptr[k]) =
               IF frame.at = "append" THEN frame.in[k] ELSE Expected(frame.in[k])
<1>1. ASSUME Next PROVE Sound /\ Step
  <2>1. Sound
    BY <1>1 DEF Next
  <2>2. Step
    BY <1>1, Zenon DEF Next, Step
  <2> QED BY <2>1, <2>2
<1>2. FInv /\ [Next]_vars => FInv'
  BY <1>1, StepFInv, StutterFInv
<1>3. FInv /\ [Next]_vars => [Right]_vars
  <2> SUFFICES ASSUME FInv, Next, frame.list # NULL, held' # held, ~pending'
               PROVE  /\ Len(heap[frame.list].ptr) = Len(frame.in)
                      /\ \A k \in DOMAIN frame.in :
                           Shown(heap, heap[frame.list].ptr[k]) =
                             IF frame.at = "append" THEN frame.in[k]
                             ELSE Expected(frame.in[k])
    OBVIOUS
  <2>1. Sound /\ Step
    BY <1>1
  <2>2. ~Dealloc
    BY <2>1, CountsDealloc DEF FInv, CInv
  <2>3. ~(Raise \/ Program \/ \E o \in Held : Drop(o))
    BY ProgramIdle DEF Idle
  <2>4. Settled /\ Convert
    BY <2>1, <2>2, <2>3 DEF Step
  <2>5. frame.at \in {"next", "append"} /\ frame.i = Len(frame.in) /\ Returns
    BY <2>4, OnlyReturns
  <2>6. ~pending
    BY <2>4, PendingStays
  <2>7. Working /\ EmptyIs(heap) /\ Faithful(heap, frame)
    BY <2>1, <2>4, <2>6, StepCounts DEF FInv
  <2> QED BY <2>5, <2>7, WholeAnswer DEF Telling
<1>4. AnswerFaithful <=> [][Right]_vars
  BY DEF AnswerFaithful
<1> HIDE DEF Right
<1> QED BY <1>2, <1>3, <1>4, InitFInv, PTL DEF Spec
===============================================================================
