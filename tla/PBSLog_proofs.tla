----------------------------- MODULE PBSLog_proofs -----------------------------
(***************************************************************************)
(* What holds of the Log objects for every number of objects, strings and  *)
(* memory cells.                                                           *)
(***************************************************************************)
EXTENDS PBSLog, TLAPS

LogObject == [mask : AllMasks, free_daemon_name : BOOLEAN,
              daemon_name : Pointers \cup {PBS_LOG_NAME},
              py_daemon_name : {PBS_LOG_NAME},
              filename : Pointers, directory : Pointers]
Heaps == [Cells -> Contents \cup {NULL}]
Outs == {"none", "value", "error", "null", "unraised"}
Runs == [obj : LogObject, heap : Heaps, out : Outs]
Fields == {"filename", "directory", "daemon_name"}

IInv == TypeOK /\ StringsOwned

(* A string is wanted and there was memory for it, there was none, or no   *)
(* string is wanted (or an error came before).                             *)
Got(r, q, f, s, c) ==
  /\ s # NULL /\ r.out = "value" /\ r.heap[c] = NULL
  /\ q = [obj |-> [r.obj EXCEPT ![f] = c], heap |-> [r.heap EXCEPT ![c] = s],
          out |-> "value"]
Lacked(r, q, f, s) ==
  /\ s # NULL /\ r.out = "value"
  /\ q = [r EXCEPT !.obj[f] = NULL, !.out = "null"]
Skipped(r, q, s) == q = r /\ (s = NULL \/ r.out # "value")

(* The three ways in which a string may be stored.                         *)
LEMMA StoredIs ==
  ASSUME NEW r, NEW f, NEW s, NEW q \in Stored(r, f, s)
  PROVE  \/ \E c \in Cells : Got(r, q, f, s, c)
         \/ Lacked(r, q, f, s)
         \/ Skipped(r, q, s)
BY DEF Stored, Got, Lacked, Skipped

(* They keep the record of __init__ and of the setter well-formed.         *)
LEMMA StoredType ==
  ASSUME NEW r \in Runs, NEW f \in Fields, NEW s \in Contents \cup {NULL},
         NEW q \in Stored(r, f, s)
  PROVE  /\ q \in Runs
         /\ \A g \in Fields \ {f} : q.obj[g] = r.obj[g]
         /\ q.obj.mask = r.obj.mask /\ q.obj.free_daemon_name = r.obj.free_daemon_name
<1>1. r.obj \in LogObject /\ r.heap \in Heaps
  BY DEF Runs
<1>2. ASSUME NEW c \in Pointers
      PROVE  /\ [r.obj EXCEPT ![f] = c] \in LogObject
             /\ \A g \in Fields \ {f} : [r.obj EXCEPT ![f] = c][g] = r.obj[g]
             /\ [r.obj EXCEPT ![f] = c].mask = r.obj.mask
             /\ [r.obj EXCEPT ![f] = c].free_daemon_name = r.obj.free_daemon_name
             /\ [r.obj EXCEPT ![f] = c][f] = c
  BY <1>1, <1>2 DEF Fields, LogObject, Pointers
<1>3. ASSUME NEW c \in Cells, Got(r, q, f, s, c)
      PROVE  /\ q \in Runs
             /\ \A g \in Fields \ {f} : q.obj[g] = r.obj[g]
             /\ q.obj.mask = r.obj.mask /\ q.obj.free_daemon_name = r.obj.free_daemon_name
  <2>1. q.obj = [r.obj EXCEPT ![f] = c] /\ q.heap = [r.heap EXCEPT ![c] = s]
        /\ q = [obj |-> q.obj, heap |-> q.heap, out |-> "value"]
    BY <1>3 DEF Got
  <2>2. q.heap \in Heaps
    BY <1>1, <2>1 DEF Heaps
  <2>3. c \in Pointers
    BY DEF Pointers
  <2> QED BY <1>2, <2>1, <2>2, <2>3 DEF Runs, Outs
<1>4. ASSUME Lacked(r, q, f, s)
      PROVE  /\ q \in Runs
             /\ \A g \in Fields \ {f} : q.obj[g] = r.obj[g]
             /\ q.obj.mask = r.obj.mask /\ q.obj.free_daemon_name = r.obj.free_daemon_name
  <2>1. q.obj = [r.obj EXCEPT ![f] = NULL] /\ q.heap = r.heap /\ q.out = "null"
        /\ q = [obj |-> q.obj, heap |-> q.heap, out |-> q.out]
    BY <1>1, <1>4 DEF Lacked, Runs
  <2>2. NULL \in Pointers
    BY DEF Pointers
  <2> QED BY <1>1, <1>2, <2>1, <2>2 DEF Runs, Outs
<1> QED BY <1>3, <1>4, StoredIs DEF Skipped

-------------------------------------------------------------------------------
(* A Log whose strings are being replaced one by one: what was allocated    *)
(* stays so, and what was newly allocated is in a field of its own.         *)
Mid(o, r, todo) ==
  /\ r \in Runs
  /\ r.obj.free_daemon_name = log[o].free_daemon_name
  /\ \A f \in todo : r.obj[f] = log[o][f]
  /\ \A c \in Cells : heap[c] # NULL => r.heap[c] = heap[c]
  /\ \A f \in Fields : r.obj[f] \in Cells =>
       /\ r.heap[r.obj[f]] # NULL
       /\ heap[r.obj[f]] # NULL => r.obj[f] = log[o][f]
       /\ \A g \in Fields \ {f} : r.obj[f] # r.obj[g]
  /\ \A c \in Cells : heap[c] = NULL /\ r.heap[c] # NULL =>
       \E f \in Fields : r.obj[f] = c

(* The fields of a Log that has its own strings, as cells.                 *)
LEMMA OwnedFields ==
  ASSUME IInv, NEW o \in live
  PROVE  /\ log[o] \in LogObject
         /\ \A f \in Fields : log[o][f] \in Cells =>
              /\ log[o][f] \in Owned(o)
              /\ heap[log[o][f]] # NULL
              /\ \A g \in Fields \ {f} : log[o][f] # log[o][g]
         /\ \A c \in Owned(o) : c \in Cells /\ \E f \in Fields : c = log[o][f]
<1>1. log[o] \in LogObject
  BY DEF IInv, TypeOK, LogObject
<1>2. NULL \notin Cells /\ PBS_LOG_NAME \notin Cells
  BY LogAssumption
<1>3. \A c \in Owned(o) : c \in Cells /\ heap[c] # NULL
  BY DEF IInv, StringsOwned
<1>4. log[o].daemon_name \in Cells => log[o].free_daemon_name
  BY <1>2 DEF IInv, StringsOwned
<1>5. \A f \in Fields : log[o][f] \in Cells => log[o][f] \in Owned(o)
  BY <1>2, <1>4 DEF Fields, Owned
<1>6. \A f \in Fields : log[o][f] \in Cells => \A g \in Fields \ {f} : log[o][f] # log[o][g]
  BY <1>2 DEF IInv, StringsOwned, Fields
<1>7. \A c \in Owned(o) : \E f \in Fields : c = log[o][f]
  BY DEF Owned, Fields
<1> QED BY <1>1, <1>3, <1>5, <1>6, <1>7

(* __init__ begins with all fields still to be stored.                     *)
LEMMA MidStart ==
  ASSUME IInv, NEW o \in live, NEW m \in MaskGiven, NEW f \in Paths \cup {NULL},
         NEW r \in Started(o, m, f)
  PROVE  Mid(o, r, Fields)
<1>1. log[o] \in LogObject /\ heap \in Heaps
  BY OwnedFields DEF IInv, TypeOK, Heaps
<1>2. m \in AllMasks
  BY DEF MaskGiven, AllMasks
<1>3. PICK w \in {"value", "error"} :
        r = [obj |-> IF m = PBSEVENT_MASK THEN log[o] ELSE [log[o] EXCEPT !.mask = m],
             heap |-> heap, out |-> w]
  BY DEF Started
<1>4. /\ r.obj \in LogObject /\ r.heap = heap /\ r.out \in Outs
      /\ r = [obj |-> r.obj, heap |-> r.heap, out |-> r.out]
      /\ r.obj.free_daemon_name = log[o].free_daemon_name
      /\ \A g \in Fields : r.obj[g] = log[o][g]
  BY <1>1, <1>2, <1>3 DEF LogObject, Fields, Outs
<1>5. r \in Runs
  BY <1>1, <1>4 DEF Runs
<1> QED BY <1>4, <1>5, OwnedFields DEF Mid

(* Storing one field leaves the other fields to be stored.                 *)
LEMMA MidStored ==
  ASSUME IInv, NEW o \in live, NEW r, NEW todo \in SUBSET Fields, Mid(o, r, todo),
         NEW f \in todo, NEW s \in Contents \cup {NULL}, NEW q \in Stored(r, f, s)
  PROVE  Mid(o, q, todo \ {f})
<1>1. /\ q \in Runs /\ q.obj.free_daemon_name = log[o].free_daemon_name
      /\ \A g \in todo \ {f} : q.obj[g] = log[o][g]
      /\ \A g \in Fields \ {f} : q.obj[g] = r.obj[g]
      /\ f \in Fields
  BY StoredType DEF Mid
<1>2. r.obj \in LogObject /\ r.heap \in Heaps /\ f \in DOMAIN r.obj
  BY DEF Mid, Runs, LogObject, Fields
<1>3. NULL \notin Cells /\ NULL \notin Contents
  BY LogAssumption DEF Contents
<1>4. ASSUME NEW c \in Cells, Got(r, q, f, s, c)
      PROVE  Mid(o, q, todo \ {f})
  <2>1. /\ q.obj = [r.obj EXCEPT ![f] = c] /\ q.heap = [r.heap EXCEPT ![c] = s]
        /\ r.heap[c] = NULL /\ s # NULL
    BY <1>4 DEF Got
  <2>2. q.obj[f] = c /\ q.heap[c] = s /\ \A d \in Cells \ {c} : q.heap[d] = r.heap[d]
    BY <1>2, <2>1 DEF Heaps
  <2>3. heap[c] = NULL
    BY <2>1 DEF Mid
  <2>4. \A d \in Cells : heap[d] # NULL => q.heap[d] = heap[d]
    BY <2>2, <2>3 DEF Mid
  <2>5. \A g \in Fields \ {f} : r.obj[g] # c
    BY <2>1 DEF Mid
  <2>6. ASSUME NEW g \in Fields, q.obj[g] \in Cells
        PROVE  /\ q.heap[q.obj[g]] # NULL
               /\ heap[q.obj[g]] # NULL => q.obj[g] = log[o][g]
               /\ \A e \in Fields \ {g} : q.obj[g] # q.obj[e]
    <3>1. CASE g = f
      BY <1>1, <2>1, <2>2, <2>3, <2>5, <3>1
    <3>2. CASE g # f
      <4>1. q.obj[g] = r.obj[g] /\ q.obj[g] # c
        BY <1>1, <2>5, <3>2
      <4>2. /\ r.heap[r.obj[g]] # NULL
            /\ heap[r.obj[g]] # NULL => r.obj[g] = log[o][g]
            /\ \A e \in Fields \ {g} : r.obj[g] # r.obj[e]
        BY <2>6, <4>1 DEF Mid
      <4> QED BY <1>1, <2>2, <2>6, <4>1, <4>2
    <3> QED BY <3>1, <3>2
  <2>7. ASSUME NEW d \in Cells, heap[d] = NULL, q.heap[d] # NULL
        PROVE  \E g \in Fields : q.obj[g] = d
    <3>1. CASE d = c
      BY <1>1, <2>2, <3>1
    <3>2. CASE d # c
      <4>1. PICK g \in Fields : r.obj[g] = d
        BY <2>2, <2>7, <3>2 DEF Mid
      <4>2. g # f
        <5>1. log[o][f] \in Cells => heap[log[o][f]] # NULL
          BY <1>1, OwnedFields
        <5> QED BY <2>7, <4>1, <5>1 DEF Mid
      <4> QED BY <1>1, <4>1, <4>2
    <3> QED BY <3>1, <3>2
  <2> QED BY <1>1, <2>4, <2>6, <2>7 DEF Mid
<1>5. ASSUME Lacked(r, q, f, s)
      PROVE  Mid(o, q, todo \ {f})
  <2>1. q.obj = [r.obj EXCEPT ![f] = NULL] /\ q.heap = r.heap
    BY <1>2, <1>5 DEF Lacked, Mid, Runs
  <2>2. q.obj[f] = NULL
    BY <1>2, <2>1
  <2>3. ASSUME NEW g \in Fields, q.obj[g] \in Cells
        PROVE  /\ q.heap[q.obj[g]] # NULL
               /\ heap[q.obj[g]] # NULL => q.obj[g] = log[o][g]
               /\ \A e \in Fields \ {g} : q.obj[g] # q.obj[e]
    <3>1. g # f /\ q.obj[g] = r.obj[g]
      BY <1>1, <1>3, <2>2, <2>3
    <3>2. /\ r.heap[r.obj[g]] # NULL
          /\ heap[r.obj[g]] # NULL => r.obj[g] = log[o][g]
          /\ \A e \in Fields \ {g} : r.obj[g] # r.obj[e]
      BY <2>3, <3>1 DEF Mid
    <3> QED BY <1>1, <1>3, <2>1, <2>2, <2>3, <3>1, <3>2
  <2>4. ASSUME NEW d \in Cells, heap[d] = NULL, q.heap[d] # NULL
        PROVE  \E g \in Fields : q.obj[g] = d
    <3>1. PICK g \in Fields : r.obj[g] = d
      BY <2>1, <2>4 DEF Mid
    <3>2. g # f
      <4>1. log[o][f] \in Cells => heap[log[o][f]] # NULL
        BY <1>1, OwnedFields
      <4> QED BY <2>4, <3>1, <4>1 DEF Mid
    <3> QED BY <1>1, <3>1, <3>2
  <2>5. \A d \in Cells : heap[d] # NULL => q.heap[d] = heap[d]
    BY <2>1 DEF Mid
  <2> QED BY <1>1, <2>3, <2>4, <2>5 DEF Mid
<1>6. ASSUME Skipped(r, q, s) PROVE Mid(o, q, todo \ {f})
  BY <1>6 DEF Skipped, Mid
<1> QED BY <1>4, <1>5, <1>6, StoredIs

-------------------------------------------------------------------------------
(* A name is freed with its Log only when it is a cell of the heap.        *)
NameOwned(obj) ==
  IF obj.free_daemon_name THEN obj.daemon_name \in Cells \cup {NULL}
                          ELSE obj.daemon_name \in {PBS_LOG_NAME, NULL}

(* __init__ and the setter seen as one change of a Log and of the heap: its *)
(* strings are its old ones or newly allocated, each in one field, and only *)
(* its old ones are freed.                                                  *)
Replaced(o, obj) ==
  /\ obj \in LogObject /\ NameOwned(obj)
  /\ log' = [log EXCEPT ![o] = obj]
  /\ heap' \in Heaps
  /\ \A f \in Fields : obj[f] \in Cells =>
       /\ heap'[obj[f]] # NULL
       /\ heap[obj[f]] # NULL => obj[f] \in Owned(o)
       /\ \A g \in Fields \ {f} : obj[f] # obj[g]
  /\ \A c \in Cells : heap[c] # NULL /\ heap'[c] = NULL => c \in Owned(o)
  /\ \A c \in Cells : heap[c] = NULL /\ heap'[c] # NULL => \E f \in Fields : obj[f] = c
  /\ UNCHANGED live

(* What the Log owns afterwards, and that every string has one owner still. *)
LEMMA ReplacedOwned ==
  ASSUME IInv, NEW o \in live, NEW obj, Replaced(o, obj)
  PROVE  /\ log' \in [Logs -> LogObject]
         /\ \A p \in live \ {o} : Owned(p)' = Owned(p)
         /\ \A f \in Fields : obj[f] \in Cells => obj[f] \in Owned(o)'
         /\ StringsOwned'
<1>1. log \in [Logs -> LogObject] /\ o \in Logs /\ NULL \notin Cells
      /\ PBS_LOG_NAME \notin Cells /\ PBS_LOG_NAME # NULL /\ live' = live
      /\ obj \in LogObject /\ live \subseteq Logs
  BY LogAssumption DEF IInv, TypeOK, LogObject, Replaced
<1>2. /\ log'[o] = obj /\ \A p \in Logs \ {o} : log'[p] = log[p]
      /\ log' \in [Logs -> LogObject]
  BY <1>1 DEF Replaced
<1>3. \A p \in live \ {o} : Owned(p)' = Owned(p)
  BY <1>1, <1>2 DEF Owned
<1>4. \A f \in Fields : obj[f] \in Cells => obj[f] \in Owned(o)'
  BY <1>1, <1>2 DEF Owned, Fields, Replaced, NameOwned
<1>5. \A c \in Owned(o)' : c \in Cells /\ \E f \in Fields : c = obj[f]
  <2>1. \A c \in Owned(o)' : c # NULL /\ c \in {obj.filename, obj.directory}
          \cup (IF obj.free_daemon_name THEN {obj.daemon_name} ELSE {})
    BY <1>2 DEF Owned
  <2>2. obj.filename \in Pointers /\ obj.directory \in Pointers
    BY <1>1 DEF LogObject
  <2> QED BY <2>1, <2>2 DEF Pointers, Fields, Replaced, NameOwned
<1>6. \A c \in Owned(o)' : /\ c \in Cells /\ heap'[c] # NULL
                           /\ heap[c] # NULL => c \in Owned(o)
  BY <1>5 DEF Replaced
<1>7. ASSUME NEW p \in live \ {o}
      PROVE  /\ \A c \in Owned(p)' : c \in Cells /\ heap'[c] # NULL
             /\ Owned(p)' \cap Owned(o)' = {}
             /\ \A q \in live \ {p, o} : Owned(p)' \cap Owned(q)' = {}
  <2>1. /\ \A c \in Owned(p) : c \in Cells /\ heap[c] # NULL
        /\ \A q \in live \ {p} : Owned(p) \cap Owned(q) = {}
    BY DEF IInv, StringsOwned
  <2>2. \A c \in Owned(p) : heap'[c] # NULL
    BY <2>1 DEF Replaced
  <2>3. Owned(p)' \cap Owned(o)' = {}
    BY <1>3, <1>6, <2>1
  <2> QED BY <1>3, <2>1, <2>2, <2>3
<1>8. /\ obj.filename # NULL => obj.filename \notin {obj.directory, obj.daemon_name}
      /\ obj.directory # NULL => obj.directory # obj.daemon_name
      /\ ~obj.free_daemon_name => obj.daemon_name \in {PBS_LOG_NAME, NULL}
  <2>1. obj.filename \in Cells \cup {NULL} /\ obj.directory \in Cells \cup {NULL}
    BY <1>1 DEF LogObject, Pointers
  <2> QED BY <2>1 DEF Replaced, NameOwned, Fields
<1>9. ASSUME NEW p \in live \ {o}
      PROVE  /\ log'[p].filename # NULL =>
                  log'[p].filename \notin {log'[p].directory, log'[p].daemon_name}
             /\ log'[p].directory # NULL => log'[p].directory # log'[p].daemon_name
             /\ ~log'[p].free_daemon_name => log'[p].daemon_name \in {PBS_LOG_NAME, NULL}
  BY <1>1, <1>2 DEF IInv, StringsOwned
<1>10. StringsOwned'
  <2> SUFFICES ASSUME NEW p \in live
               PROVE  (/\ \A c \in Owned(p) : c \in Cells /\ heap[c] # NULL
                       /\ \A q \in live \ {p} : Owned(p) \cap Owned(q) = {}
                       /\ log[p].filename # NULL =>
                            log[p].filename \notin {log[p].directory, log[p].daemon_name}
                       /\ log[p].directory # NULL => log[p].directory # log[p].daemon_name
                       /\ ~log[p].free_daemon_name =>
                            log[p].daemon_name \in {PBS_LOG_NAME, NULL})'
    BY <1>1 DEF StringsOwned
  <2>1. CASE p = o
    BY <1>1, <1>2, <1>6, <1>7, <1>8, <2>1
  <2>2. CASE p # o
    BY <1>1, <1>7, <1>9, <2>2
  <2> QED BY <2>1, <2>2
<1> QED BY <1>2, <1>3, <1>4, <1>10

(* __init__ replaces the strings it is given.                              *)
LEMMA InitEffect ==
  ASSUME IInv, NEW o \in live, NEW name \in Names \cup {NULL}, NEW m \in MaskGiven,
         NEW f \in Paths \cup {NULL}, NEW d \in Paths \cup {NULL},
         log__init(o, name, m, f, d)
  PROVE  /\ \E obj : Replaced(o, obj)
         /\ \A c \in Cells : heap[c] # NULL => heap'[c] # NULL
         /\ msg_daemonname' \in {msg_daemonname, log'[o].daemon_name}
         /\ msg_daemonname' \in Cells \cup {PBS_LOG_NAME} /\ out' \in Outs
<1>1. PICK r0 \in Started(o, m, f) : \E r1 \in Stored(r0, "filename", f) :
        \E r2 \in Stored(r1, "directory", d) :
        \E r3 \in Stored(r2, "daemon_name", name) : Named(o, r3, name)
  BY DEF log__init
<1>2. PICK r1 \in Stored(r0, "filename", f) : \E r2 \in Stored(r1, "directory", d) :
        \E r3 \in Stored(r2, "daemon_name", name) : Named(o, r3, name)
  BY <1>1
<1>3. PICK r2 \in Stored(r1, "directory", d) :
        \E r3 \in Stored(r2, "daemon_name", name) : Named(o, r3, name)
  BY <1>2
<1>4. PICK r3 \in Stored(r2, "daemon_name", name) : Named(o, r3, name)
  BY <1>3
<1>5. /\ f \in Contents \cup {NULL} /\ d \in Contents \cup {NULL}
      /\ name \in Contents \cup {NULL}
  BY DEF Contents
<1>6. Mid(o, r0, Fields)
  BY MidStart
<1>7. Mid(o, r1, Fields \ {"filename"})
  BY <1>5, <1>6, MidStored DEF Fields
<1>8. Mid(o, r2, {"daemon_name"})
  <2>1. Mid(o, r2, (Fields \ {"filename"}) \ {"directory"})
    BY <1>5, <1>7, MidStored, "directory" \in Fields \ {"filename"} DEF Fields
  <2>2. (Fields \ {"filename"}) \ {"directory"} = {"daemon_name"}
    BY DEF Fields
  <2> QED BY <2>1, <2>2
<1>9. Mid(o, r3, {})
  <2>1. Mid(o, r3, {"daemon_name"} \ {"daemon_name"})
    BY <1>5, <1>8, MidStored DEF Fields
  <2> QED BY <2>1
<1> DEFINE ok == name # NULL /\ r3.out = "value"
           obj == [r3.obj EXCEPT !.free_daemon_name = @ \/ ok]
<1>10. /\ log' = [log EXCEPT ![o] = obj]
       /\ heap' = r3.heap /\ out' = r3.out /\ UNCHANGED live
       /\ msg_daemonname' = IF ok THEN r3.obj.daemon_name ELSE msg_daemonname
  BY <1>4 DEF Named, log__init
<1>11. /\ r2.obj \in LogObject /\ r2.out \in Outs /\ r3.obj \in LogObject
       /\ r3.out \in Outs /\ r3.heap \in Heaps
       /\ r3.obj.free_daemon_name = log[o].free_daemon_name
       /\ r2.obj.daemon_name = log[o].daemon_name
  BY <1>8, <1>9 DEF Mid, Runs
<1>12. /\ obj \in LogObject
       /\ obj.free_daemon_name = (log[o].free_daemon_name \/ ok)
       /\ \A g \in Fields : obj[g] = r3.obj[g]
  BY <1>11 DEF LogObject, Fields
<1>13. /\ log[o].free_daemon_name => log[o].daemon_name \in Cells \cup {NULL}
       /\ ~log[o].free_daemon_name => log[o].daemon_name \in {PBS_LOG_NAME, NULL}
  BY DEF IInv, StringsOwned, Owned
<1>14. ASSUME NEW c \in Cells, Got(r2, r3, "daemon_name", name, c)
       PROVE  ok /\ r3.obj.daemon_name \in Cells
  BY <1>11, <1>14 DEF Got, LogObject
<1>15. ASSUME Lacked(r2, r3, "daemon_name", name)
       PROVE  ~ok /\ r3.obj.daemon_name = NULL
  <2>1. r3.obj = [r2.obj EXCEPT !.daemon_name = NULL] /\ r3.out = "null"
    BY <1>8, <1>15 DEF Lacked, Mid, Runs
  <2> QED BY <1>11, <2>1 DEF LogObject
<1>16. ASSUME Skipped(r2, r3, name)
       PROVE  ~ok /\ r3.obj.daemon_name = log[o].daemon_name
  BY <1>11, <1>16 DEF Skipped
<1>17. /\ NameOwned(obj)
       /\ ok => r3.obj.daemon_name \in Cells
  <2> HIDE DEF ok, obj
  <2>1. obj.daemon_name = r3.obj.daemon_name
    BY <1>12 DEF Fields
  <2>2. \/ ok /\ r3.obj.daemon_name \in Cells
        \/ ~ok /\ r3.obj.daemon_name = NULL
        \/ ~ok /\ r3.obj.daemon_name = log[o].daemon_name
    BY <1>14, <1>15, <1>16, StoredIs
  <2> QED BY <1>12, <1>13, <2>1, <2>2 DEF NameOwned
<1>18. Replaced(o, obj)
  <2> HIDE DEF ok, obj
  <2>1. \A g \in Fields : obj[g] \in Cells =>
          /\ heap'[obj[g]] # NULL
          /\ heap[obj[g]] # NULL => obj[g] = log[o][g]
          /\ \A e \in Fields \ {g} : obj[g] # obj[e]
    BY <1>9, <1>10, <1>12 DEF Mid
  <2>2. \A g \in Fields : obj[g] \in Cells /\ heap[obj[g]] # NULL => obj[g] \in Owned(o)
    BY <2>1, OwnedFields
  <2>3. \A c \in Cells : heap[c] # NULL => heap'[c] = heap[c]
    BY <1>9, <1>10 DEF Mid
  <2>4. \A c \in Cells : heap[c] = NULL /\ heap'[c] # NULL => \E g \in Fields : obj[g] = c
    BY <1>9, <1>10, <1>12 DEF Mid
  <2> QED BY <1>10, <1>11, <1>12, <1>17, <2>1, <2>2, <2>3, <2>4 DEF Replaced
<1>19. msg_daemonname' \in Cells \cup {PBS_LOG_NAME} /\ out' \in Outs
  BY <1>10, <1>11, <1>17 DEF IInv, TypeOK
<1>20. \A c \in Cells : heap[c] # NULL => heap'[c] # NULL
  BY <1>9, <1>10 DEF Mid
<1>21. msg_daemonname' \in {msg_daemonname, log'[o].daemon_name}
  <2>1. o \in Logs /\ DOMAIN log = Logs
    BY DEF IInv, TypeOK
  <2> HIDE DEF ok, obj
  <2>2. log'[o].daemon_name = r3.obj.daemon_name
    BY <1>10, <1>12, <2>1 DEF Fields
  <2> QED BY <1>10, <2>2
<1> QED BY <1>18, <1>19, <1>20, <1>21

(* The name setter: the old name is freed, then a new one allocated.       *)
LEMMA SetNameEffect ==
  ASSUME IInv, NEW o \in live, NEW s \in Names, log_set_name(o, s)
  PROVE  /\ \E obj : /\ Replaced(o, obj)
                     /\ obj.filename = log[o].filename
                     /\ obj.directory = log[o].directory
         /\ \A c \in Owned(o) \ {log[o].filename, log[o].directory} :
              heap'[c] = NULL \/ log'[o].daemon_name = c
         /\ \/ msg_daemonname' = log'[o].daemon_name
            \/ msg_daemonname' = msg_daemonname /\ out' = "null"
         /\ msg_daemonname' \in Cells \cup {PBS_LOG_NAME} /\ out' \in Outs
<1> DEFINE old == IF log[o].free_daemon_name THEN {log[o].daemon_name} ELSE {}
           h0 == IF log[o].free_daemon_name THEN PyMem_Free(heap, {log[o].daemon_name})
                                            ELSE heap
           r0 == [obj |-> log[o], heap |-> h0, out |-> "value"]
<1>1. /\ log[o] \in LogObject /\ heap \in Heaps /\ s # NULL /\ NULL \notin Cells
      /\ s \in Contents /\ PBS_LOG_NAME \notin Cells /\ o \in Logs /\ NULL \notin Contents
      /\ log \in [Logs -> LogObject]
  BY LogAssumption, OwnedFields DEF IInv, TypeOK, Heaps, Contents, LogObject
<1>2. /\ h0 \in Heaps
      /\ \A c \in Cells : h0[c] = IF c \in old THEN NULL ELSE heap[c]
  BY <1>1 DEF PyMem_Free, Heaps
<1>3. PICK r \in Stored(r0, "daemon_name", s) : Named(o, r, s)
  BY DEF log_set_name
<1>4. r0 \in Runs /\ r0.obj = log[o] /\ r0.heap = h0 /\ r0.out = "value"
  BY <1>1, <1>2 DEF Runs, Outs
<1> HIDE DEF h0, r0
<1> DEFINE ok == s # NULL /\ r.out = "value"
           obj == [r.obj EXCEPT !.free_daemon_name = @ \/ ok]
<1>5. /\ r \in Runs /\ r.obj.filename = log[o].filename
      /\ r.obj.directory = log[o].directory
      /\ r.obj.free_daemon_name = log[o].free_daemon_name
  BY <1>1, <1>3, <1>4, StoredType DEF Fields
<1>6. /\ log' = [log EXCEPT ![o] = obj] /\ log'[o] = obj
      /\ heap' = r.heap /\ out' = r.out /\ UNCHANGED live
      /\ msg_daemonname' = IF ok THEN r.obj.daemon_name ELSE msg_daemonname
  BY <1>1, <1>3 DEF Named, log_set_name
<1>7. /\ obj \in LogObject /\ obj.free_daemon_name = (log[o].free_daemon_name \/ ok)
      /\ obj.daemon_name = r.obj.daemon_name
      /\ obj.filename = log[o].filename /\ obj.directory = log[o].directory
  BY <1>5 DEF Runs, LogObject
<1> HIDE DEF ok, obj
<1>8. /\ log[o].filename \in Cells \cup {NULL} /\ log[o].directory \in Cells \cup {NULL}
      /\ log[o].free_daemon_name => log[o].daemon_name \in Cells \cup {NULL}
      /\ \A c \in old : c # log[o].filename \/ c = NULL
      /\ \A c \in old : c # log[o].directory \/ c = NULL
      /\ \A c \in old \ {NULL} : c \in Owned(o)
      /\ \A c \in Owned(o) \ {log[o].filename, log[o].directory} : c \in old
      /\ log[o].filename # NULL => log[o].filename \in Owned(o) /\ heap[log[o].filename] # NULL
      /\ log[o].directory # NULL => log[o].directory \in Owned(o) /\ heap[log[o].directory] # NULL
      /\ log[o].filename # NULL => log[o].filename # log[o].directory
  BY <1>1 DEF IInv, StringsOwned, Owned, LogObject, Pointers
<1>9. /\ log[o].filename # NULL => h0[log[o].filename] # NULL
      /\ log[o].directory # NULL => h0[log[o].directory] # NULL
  BY <1>2, <1>8
<1>10. ASSUME NEW c \in Cells, Got(r0, r, "daemon_name", s, c)
       PROVE  /\ ok /\ obj.daemon_name = c /\ h0[c] = NULL
              /\ heap' = [h0 EXCEPT ![c] = s]
  BY <1>1, <1>4, <1>6, <1>7, <1>10 DEF Got, ok, LogObject
<1>11. ASSUME Lacked(r0, r, "daemon_name", s)
       PROVE  /\ ~ok /\ obj.daemon_name = NULL /\ heap' = h0
  BY <1>1, <1>4, <1>6, <1>7, <1>11 DEF Lacked, ok, LogObject, Runs
<1>12. ~Skipped(r0, r, s)
  BY <1>1, <1>4 DEF Skipped
<1>13. \/ \E c \in Cells : ok /\ obj.daemon_name = c /\ h0[c] = NULL
                           /\ heap' = [h0 EXCEPT ![c] = s]
       \/ ~ok /\ obj.daemon_name = NULL /\ heap' = h0
  BY <1>3, <1>10, <1>11, <1>12, StoredIs
<1>14. /\ heap' \in Heaps
       /\ \A c \in Cells : heap'[c] = IF c = obj.daemon_name THEN s ELSE h0[c]
       /\ obj.daemon_name \in Cells => h0[obj.daemon_name] = NULL
       /\ obj.daemon_name \in Cells \cup {NULL}
       /\ ok <=> obj.daemon_name \in Cells
  BY <1>1, <1>2, <1>13 DEF Heaps
<1>15. NameOwned(obj)
  BY <1>7, <1>14 DEF NameOwned
<1>16. \A f \in Fields : obj[f] \in Cells =>
         /\ heap'[obj[f]] # NULL
         /\ heap[obj[f]] # NULL => obj[f] \in Owned(o)
         /\ \A g \in Fields \ {f} : obj[f] # obj[g]
  <2>1. obj.daemon_name \in Cells =>
          /\ heap'[obj.daemon_name] # NULL
          /\ heap[obj.daemon_name] # NULL => obj.daemon_name \in Owned(o)
          /\ obj.daemon_name # obj.filename /\ obj.daemon_name # obj.directory
    BY <1>1, <1>2, <1>7, <1>8, <1>9, <1>14
  <2>2. obj.filename \in Cells =>
          /\ heap'[obj.filename] # NULL /\ obj.filename \in Owned(o)
          /\ obj.filename # obj.directory
    BY <1>1, <1>7, <1>8, <1>9, <1>14
  <2>3. obj.directory \in Cells =>
          /\ heap'[obj.directory] # NULL /\ obj.directory \in Owned(o)
    BY <1>1, <1>7, <1>8, <1>9, <1>14
  <2> QED BY <1>1, <1>14, <2>1, <2>2, <2>3 DEF Fields
<1>17. \A c \in Cells : heap[c] # NULL /\ heap'[c] = NULL => c \in Owned(o)
  BY <1>1, <1>2, <1>8, <1>14
<1>18. \A c \in Cells : heap[c] = NULL /\ heap'[c] # NULL => \E f \in Fields : obj[f] = c
  <2>1. \A c \in Cells : heap[c] = NULL /\ heap'[c] # NULL => obj.daemon_name = c
    BY <1>2, <1>14
  <2> QED BY <2>1 DEF Fields
<1>19. Replaced(o, obj)
  BY <1>6, <1>7, <1>14, <1>15, <1>16, <1>17, <1>18 DEF Replaced
<1>20. \A c \in Owned(o) \ {log[o].filename, log[o].directory} :
         heap'[c] = NULL \/ log'[o].daemon_name = c
  <2>1. \A c \in Owned(o) : c \in Cells
    BY OwnedFields
  <2> QED BY <1>2, <1>6, <1>8, <1>14, <2>1
<1>21. msg_daemonname' \in Cells \cup {PBS_LOG_NAME} /\ out' \in Outs
  BY <1>5, <1>6, <1>7, <1>14 DEF IInv, TypeOK, Runs
<1>22. \/ msg_daemonname' = log'[o].daemon_name
       \/ msg_daemonname' = msg_daemonname /\ out' = "null"
  <2>1. ASSUME Lacked(r0, r, "daemon_name", s) PROVE r.out = "null"
    BY <1>4, <2>1 DEF Lacked, Runs
  <2>2. ok \/ r.out = "null"
    BY <1>3, <1>10, <1>12, <2>1, StoredIs
  <2> QED BY <1>6, <1>7, <2>2
<1> QED BY <1>7, <1>19, <1>20, <1>21, <1>22

-------------------------------------------------------------------------------
(* The fields of TypeOK that are not about a Log.                          *)
Library ==
  /\ msg_daemonname \in Cells \cup {PBS_LOG_NAME}
  /\ log_event_mask \in AllMasks
  /\ opened \in BOOLEAN
  /\ out \in Outs

(* The type invariant, with the sets the lemmas use.                       *)
LEMMA TypeIs ==
  TypeOK <=> /\ live \subseteq Logs /\ log \in [Logs -> LogObject]
             /\ heap \in Heaps /\ Library
BY DEF TypeOK, LogObject, Heaps, Library, Outs

(* A new Log has no string of its own.                                     *)
LEMMA BlankIs == Blank \in LogObject
BY DEF Blank, LogObject, AllMasks, Pointers

(* A new Log owns nothing, so that no string has a second owner.           *)
LEMMA NewInv ==
  ASSUME IInv, NEW o \in Logs, log__new(o)
  PROVE  IInv' /\ Leaked' \subseteq Leaked
<1>1. /\ log \in [Logs -> LogObject] /\ heap \in Heaps /\ Library
      /\ live \subseteq Logs
  BY TypeIs DEF IInv
<1>2. /\ log' = [log EXCEPT ![o] = Blank] /\ heap' = heap /\ live' = live \cup {o}
      /\ o \notin live
  BY DEF log__new
<1>3. /\ log' \in [Logs -> LogObject] /\ log'[o] = Blank
      /\ \A p \in live : log'[p] = log[p]
  BY <1>1, <1>2, BlankIs
<1>4. TypeOK'
  BY <1>1, <1>2, <1>3, TypeIs DEF log__new, libVars, Library, Outs, TypeOK, LogObject, Heaps
<1>5. Owned(o)' = {} /\ \A p \in live : Owned(p)' = Owned(p)
  BY <1>3 DEF Owned, Blank
<1>6. StringsOwned'
  <2>1. \A p \in live : log'[p].filename = log[p].filename
          /\ log'[p].directory = log[p].directory
          /\ log'[p].daemon_name = log[p].daemon_name
          /\ log'[p].free_daemon_name = log[p].free_daemon_name
    BY <1>3
  <2>2. /\ log'[o].filename = NULL /\ log'[o].directory = NULL
        /\ log'[o].daemon_name = PBS_LOG_NAME /\ ~log'[o].free_daemon_name
    BY <1>3 DEF Blank
  <2> QED BY <1>2, <1>5, <2>1, <2>2 DEF IInv, StringsOwned
<1>7. Leaked' \subseteq Leaked
  BY <1>2, <1>5 DEF Leaked
<1> QED BY <1>4, <1>6, <1>7 DEF IInv

(* A Log that dies takes all its strings with it, and no other.            *)
LEMMA DeallocInv ==
  ASSUME IInv, NEW o \in Logs, log__dealloc(o)
  PROVE  IInv' /\ Leaked' \subseteq Leaked
<1>1. /\ log \in [Logs -> LogObject] /\ heap \in Heaps /\ Library
      /\ live \subseteq Logs
  BY TypeIs DEF IInv
<1>2. /\ log' = [log EXCEPT ![o] = Blank] /\ live' = live \ {o} /\ o \in live
      /\ heap' = [c \in Cells |-> IF c \in Owned(o) THEN NULL ELSE heap[c]]
  BY DEF log__dealloc, PyMem_Free
<1>3. /\ log' \in [Logs -> LogObject] /\ \A p \in live \ {o} : log'[p] = log[p]
      /\ heap' \in Heaps
  BY <1>1, <1>2, BlankIs DEF Heaps
<1>4. TypeOK'
  BY <1>1, <1>2, <1>3, TypeIs DEF log__dealloc, libVars, Library, Outs, TypeOK, LogObject, Heaps
<1>5. \A p \in live \ {o} : Owned(p)' = Owned(p)
  BY <1>3 DEF Owned
<1>6. \A p \in live \ {o} : \A c \in Owned(p) : c \notin Owned(o) /\ heap'[c] # NULL
  BY <1>2 DEF IInv, StringsOwned
<1>7. StringsOwned'
  BY <1>2, <1>3, <1>5, <1>6 DEF IInv, StringsOwned
<1>8. Leaked' \subseteq Leaked
  BY <1>2, <1>5 DEF Leaked
<1> QED BY <1>4, <1>7, <1>8 DEF IInv

(* __init__ loses strings the Log had, and no others.                      *)
LEMMA InitInv ==
  ASSUME IInv, NEW o \in Logs, NEW name \in Names \cup {NULL}, NEW m \in MaskGiven,
         NEW f \in Paths \cup {NULL}, NEW d \in Paths \cup {NULL},
         log__init(o, name, m, f, d)
  PROVE  IInv' /\ \A c \in Leaked' \ Leaked : o \in live /\ c \in Owned(o)
<1>1. o \in live /\ log_event_mask' = m /\ opened' = opened
  BY DEF log__init
<1>2. PICK obj : Replaced(o, obj)
  BY <1>1, InitEffect
<1>3. /\ log' \in [Logs -> LogObject] /\ StringsOwned'
      /\ \A p \in live \ {o} : Owned(p)' = Owned(p)
      /\ \A g \in Fields : obj[g] \in Cells => obj[g] \in Owned(o)'
  BY <1>1, <1>2, ReplacedOwned
<1>4. TypeOK'
  <2>1. msg_daemonname' \in Cells \cup {PBS_LOG_NAME} /\ out' \in Outs
    BY <1>1, InitEffect
  <2>2. m \in AllMasks
    BY DEF MaskGiven, AllMasks
  <2> QED BY <1>1, <1>2, <1>3, <2>1, <2>2
          DEF IInv, TypeOK, Replaced, Heaps, LogObject, Outs
<1>5. \A c \in Leaked' \ Leaked : c \in Owned(o)
  <2> SUFFICES ASSUME NEW c \in Leaked', c \notin Leaked PROVE c \in Owned(o)
    OBVIOUS
  <2>1. c \in Cells /\ heap'[c] # NULL /\ \A p \in live : c \notin Owned(p)'
    BY <1>2 DEF Leaked, Replaced
  <2>2. heap[c] # NULL
    BY <1>1, <1>2, <1>3, <2>1 DEF Replaced
  <2> QED BY <1>3, <2>1, <2>2 DEF Leaked
<1> QED BY <1>1, <1>3, <1>4, <1>5 DEF IInv

(* A new name loses nothing: the old one was freed.                        *)
LEMMA SetNameInv ==
  ASSUME IInv, NEW o \in Logs, NEW s \in Names, log_set_name(o, s)
  PROVE  IInv' /\ Leaked' \subseteq Leaked
<1>1. o \in live /\ log_event_mask' = log_event_mask /\ opened' = opened
  BY DEF log_set_name
<1>2. PICK obj : /\ Replaced(o, obj) /\ obj.filename = log[o].filename
                 /\ obj.directory = log[o].directory
  BY <1>1, SetNameEffect
<1>3. /\ log' \in [Logs -> LogObject] /\ StringsOwned'
      /\ \A p \in live \ {o} : Owned(p)' = Owned(p)
      /\ \A g \in Fields : obj[g] \in Cells => obj[g] \in Owned(o)'
  BY <1>1, <1>2, ReplacedOwned
<1>4. TypeOK'
  <2>1. msg_daemonname' \in Cells \cup {PBS_LOG_NAME} /\ out' \in Outs
    BY <1>1, SetNameEffect
  <2> QED BY <1>1, <1>2, <1>3, <2>1 DEF IInv, TypeOK, Replaced, Heaps, LogObject, Outs
<1>5. Leaked' \subseteq Leaked
  <2> SUFFICES ASSUME NEW c \in Leaked', c \notin Leaked PROVE FALSE
    OBVIOUS
  <2>1. c \in Cells /\ heap'[c] # NULL /\ \A p \in live : c \notin Owned(p)'
    BY <1>2 DEF Leaked, Replaced
  <2>2. heap[c] # NULL
    BY <1>1, <1>2, <1>3, <2>1 DEF Replaced
  <2>3. c \in Owned(o)
    BY <1>3, <2>1, <2>2 DEF Leaked
  <2>4. log'[o] = obj
    BY <1>2 DEF Replaced, IInv, TypeOK
  <2>5. c \in {obj.filename, obj.directory, obj.daemon_name}
    BY <1>1, <1>2, <2>1, <2>3, <2>4, SetNameEffect
  <2> QED BY <1>1, <1>3, <2>1, <2>5 DEF Fields
<1> QED BY <1>3, <1>4, <1>5 DEF IInv

(* The other methods touch no string.                                      *)
LEMMA SameStrings ==
  ASSUME IInv, UNCHANGED <<live, heap>>, log' \in [Logs -> LogObject], Library',
         \A o \in live : /\ log'[o].filename = log[o].filename
                         /\ log'[o].directory = log[o].directory
                         /\ log'[o].daemon_name = log[o].daemon_name
                         /\ log'[o].free_daemon_name = log[o].free_daemon_name
  PROVE  IInv' /\ Leaked' \subseteq Leaked
<1>1. \A o \in live : Owned(o)' = Owned(o)
  BY DEF Owned
<1>2. TypeOK'
  BY DEF IInv, TypeOK, LogObject, Heaps, Library, Outs
<1>3. StringsOwned'
  BY <1>1 DEF IInv, StringsOwned
<1>4. Leaked' \subseteq Leaked
  BY <1>1 DEF Leaked
<1> QED BY <1>2, <1>3, <1>4 DEF IInv

(* The mask setter.                                                        *)
LEMMA SetMaskInv ==
  ASSUME IInv, NEW o \in Logs, NEW m \in Masks, log_set_mask(o, m)
  PROVE  IInv' /\ Leaked' \subseteq Leaked
<1> DEFINE k == PyLong_AsLong(m)
<1>1. log \in [Logs -> LogObject] /\ Library /\ live \subseteq Logs /\ k \in AllMasks
  BY TypeIs DEF IInv, AllMasks
<1>2. [log[o] EXCEPT !.mask = k] \in LogObject
  BY <1>1 DEF LogObject
<1> HIDE DEF k
<1>3. /\ log' = [log EXCEPT ![o] = [log[o] EXCEPT !.mask = k]]
      /\ UNCHANGED <<live, heap>> /\ Library'
  BY <1>1 DEF log_set_mask, Library, Outs, k
<1>4. log' \in [Logs -> LogObject] /\ log'[o] = [log[o] EXCEPT !.mask = k]
      /\ \A p \in Logs \ {o} : log'[p] = log[p]
  BY <1>1, <1>2, <1>3
<1>5. /\ log'[o].filename = log[o].filename /\ log'[o].directory = log[o].directory
      /\ log'[o].daemon_name = log[o].daemon_name
      /\ log'[o].free_daemon_name = log[o].free_daemon_name
  BY <1>1, <1>4 DEF LogObject
<1> QED BY <1>1, <1>3, <1>4, <1>5, SameStrings

(* Opening and closing the log file.                                       *)
LEMMA FileInv ==
  ASSUME IInv, NEW o \in Logs, log_open(o) \/ log_close(o)
  PROVE  IInv' /\ Leaked' \subseteq Leaked
<1>1. log \in [Logs -> LogObject] /\ Library
  BY TypeIs DEF IInv
<1>2. UNCHANGED <<live, heap, log>> /\ Library'
  BY <1>1 DEF log_open, log_close, Library, Outs
<1> QED BY <1>1, <1>2, SameStrings

-------------------------------------------------------------------------------
(* What a step may lose.                                                   *)
Loses ==
  \A c \in Leaked' \ Leaked : \E o \in live :
    /\ c \in Owned(o)
    /\ \E name \in Names \cup {NULL}, m \in MaskGiven, f, d \in Paths \cup {NULL} :
         log__init(o, name, m, f, d)

(* The invariant is inductive, and a step that is not __init__ loses nothing. *)
LEMMA StepInv == IInv /\ [Next]_vars => IInv' /\ Loses
<1> SUFFICES ASSUME IInv, [Next]_vars PROVE IInv' /\ Loses
  OBVIOUS
<1>1. ASSUME NEW o \in Logs, log__new(o) PROVE IInv' /\ Loses
  BY <1>1, NewInv DEF Loses
<1>2. ASSUME NEW o \in Logs, log__dealloc(o) PROVE IInv' /\ Loses
  BY <1>2, DeallocInv DEF Loses
<1>3. ASSUME NEW o \in Logs, NEW name \in Names \cup {NULL}, NEW m \in MaskGiven,
             NEW f \in Paths \cup {NULL}, NEW d \in Paths \cup {NULL},
             log__init(o, name, m, f, d)
      PROVE  IInv' /\ Loses
  BY <1>3, InitInv DEF Loses
<1>4. ASSUME NEW o \in Logs, NEW m \in Masks, log_set_mask(o, m) PROVE IInv' /\ Loses
  BY <1>4, SetMaskInv DEF Loses
<1>5. ASSUME NEW o \in Logs, NEW s \in Names, log_set_name(o, s) PROVE IInv' /\ Loses
  BY <1>5, SetNameInv DEF Loses
<1>6. ASSUME NEW o \in Logs, log_open(o) \/ log_close(o) PROVE IInv' /\ Loses
  BY <1>6, FileInv DEF Loses
<1>7. CASE UNCHANGED vars
  <2>1. log \in [Logs -> LogObject] /\ Library
    BY TypeIs DEF IInv
  <2>2. UNCHANGED <<live, heap, log>> /\ Library'
    BY <1>7, <2>1 DEF vars, libVars, Library
  <2> QED BY <2>1, <2>2, SameStrings DEF Loses
<1> QED BY <1>1, <1>2, <1>3, <1>4, <1>5, <1>6, <1>7 DEF Next

(* There is no Log and no string at first.                                 *)
LEMMA Initially == Init => IInv
<1> SUFFICES ASSUME Init PROVE IInv
  OBVIOUS
<1>1. TypeOK
  BY BlankIs, TypeIs DEF Init, Heaps, Library, Outs, AllMasks
<1> QED BY <1>1 DEF IInv, StringsOwned, Init

-------------------------------------------------------------------------------
(* The types of the Logs and of the heap, for any number of each.          *)
THEOREM TypeCorrect == Spec => []TypeOK
<1>1. IInv => TypeOK
  BY DEF IInv
<1> QED BY <1>1, Initially, StepInv, PTL DEF Spec

(* No string of a Log is freed twice or shared with another Log, and the   *)
(* static name is never freed.                                             *)
THEOREM StringsCorrect == Spec => []StringsOwned
<1>1. IInv => StringsOwned
  BY DEF IInv
<1> QED BY <1>1, Initially, StepInv, PTL DEF Spec

(* Only __init__ of a Log that had strings loses memory.                   *)
THEOREM LeaksOnlyInInit == Spec => OnlyInitLeaks
<1>1. IInv /\ [Next]_vars => [Loses]_vars
  BY StepInv
<1>2. Spec => [][Loses]_vars
  BY <1>1, Initially, StepInv, PTL DEF Spec
<1>3. [][Loses]_vars <=> OnlyInitLeaks
  BY PTL DEF Loses, OnlyInitLeaks
<1> QED BY <1>2, <1>3
-------------------------------------------------------------------------------
(* When the library's name stays defined.                                  *)

(* A step that takes no string from under the library: the Log that has the *)
(* library's name neither dies nor fails to get another name.               *)
NameStays ==
  \A o \in live : msg_daemonname \in Owned(o) =>
    /\ ~log__dealloc(o)
    /\ out' = "null" => \A s \in Names : ~log_set_name(o, s)

(* What a Log newly has as its name is a string, if it is in the heap.     *)
LEMMA NewNameDefined ==
  ASSUME IInv, NEW o \in live, NEW obj, Replaced(o, obj),
         msg_daemonname' = log'[o].daemon_name
  PROVE  MsgNameDefined'
<1>1. log'[o] = obj
  BY DEF Replaced, IInv, TypeOK
<1>2. obj["daemon_name"] \in Cells => heap'[obj["daemon_name"]] # NULL
  BY DEF Replaced, Fields
<1> QED BY <1>1, <1>2 DEF MsgNameDefined

(* No such step leaves the library with a pointer to a freed string.       *)
LEMMA NameStep ==
  ASSUME IInv, MsgNameDefined, [Next /\ NameStays]_vars
  PROVE  MsgNameDefined'
<1>1. ASSUME NEW o \in Logs, log__dealloc(o) PROVE MsgNameDefined'
  <2>1. msg_daemonname \notin Owned(o)
    BY <1>1 DEF log__dealloc, NameStays, vars, libVars
  <2> QED BY <1>1, <2>1 DEF log__dealloc, libVars, PyMem_Free, MsgNameDefined
<1>2. ASSUME NEW o \in Logs, NEW name \in Names \cup {NULL}, NEW m \in MaskGiven,
             NEW f \in Paths \cup {NULL}, NEW d \in Paths \cup {NULL},
             log__init(o, name, m, f, d)
      PROVE  MsgNameDefined'
  <2>1. o \in live
    BY <1>2 DEF log__init
  <2>2. PICK obj : Replaced(o, obj)
    BY <1>2, <2>1, InitEffect
  <2>3. CASE msg_daemonname' = log'[o].daemon_name
    BY <2>1, <2>2, <2>3, NewNameDefined
  <2>4. CASE msg_daemonname' = msg_daemonname
    BY <1>2, <2>1, <2>4, InitEffect DEF MsgNameDefined
  <2> QED BY <1>2, <2>1, <2>3, <2>4, InitEffect
<1>3. ASSUME NEW o \in Logs, NEW s \in Names, log_set_name(o, s)
      PROVE  MsgNameDefined'
  <2>1. o \in live
    BY <1>3 DEF log_set_name
  <2>2. PICK obj : Replaced(o, obj)
    BY <1>3, <2>1, SetNameEffect
  <2>3. CASE msg_daemonname' = log'[o].daemon_name
    BY <2>1, <2>2, <2>3, NewNameDefined
  <2>4. CASE msg_daemonname' = msg_daemonname /\ out' = "null"
    <3>1. CASE UNCHANGED vars
      BY <3>1 DEF vars, libVars, MsgNameDefined
    <3>2. CASE NameStays
      <4>1. msg_daemonname \notin Owned(o)
        BY <1>3, <2>1, <2>4, <3>2 DEF NameStays
      <4> QED BY <2>2, <2>4, <4>1 DEF Replaced, MsgNameDefined
    <3> QED BY <3>1, <3>2
  <2> QED BY <1>3, <2>1, <2>3, <2>4, SetNameEffect
<1>4. ASSUME NEW o \in Logs,
             \/ log__new(o) \/ log_open(o) \/ log_close(o)
             \/ \E m \in Masks : log_set_mask(o, m)
      PROVE  MsgNameDefined'
  BY <1>4 DEF log__new, log_open, log_close, log_set_mask, libVars, MsgNameDefined
<1>5. CASE UNCHANGED vars
  BY <1>5 DEF vars, libVars, MsgNameDefined
<1> QED BY <1>1, <1>2, <1>3, <1>4, <1>5 DEF Next

(* The name the library writes into its records is defined as long as no    *)
(* Log that gave it dies, or frees it for a new name there is no memory     *)
(* for: those are the only ways to the dangling msg_daemonname              *)
(* (PBSLogType.c:56-69, 179-208); a second __init__ and other Logs are not. *)
THEOREM NameDefined == Init /\ [][Next /\ NameStays]_vars => []MsgNameDefined
<1>1. Init => MsgNameDefined
  BY LogAssumption DEF Init, MsgNameDefined
<1>2. IInv /\ MsgNameDefined /\ [Next /\ NameStays]_vars => MsgNameDefined'
  BY NameStep
<1>3. IInv /\ [Next /\ NameStays]_vars => IInv'
  BY StepInv
<1> QED BY <1>1, <1>2, <1>3, Initially, PTL
===============================================================================
