-------------------------------- MODULE PBSLog --------------------------------
(***************************************************************************)
(* The Log objects (PBSLogType.c) over the library's log functions.  Every *)
(* object has its own strings, but there is one msg_daemonname, one event  *)
(* mask and one log file for the whole process, and each object writes     *)
(* through them.  No method runs Python code while it works, so a method   *)
(* is one step.                                                            *)
(***************************************************************************)
EXTENDS Integers, FiniteSets

CONSTANTS
  Logs,          \* Log objects (identities, reused after dealloc)
  Names,         \* daemon names the program may give
  Paths,         \* absolute file names and directories it may give
  Cells,         \* the heap: cells for one C string
  Masks,         \* numbers the program may give for a mask, any size
  LONG_MAX,      \* the largest C long
  PBSEVENT_MASK, \* the default mask
  Address,       \* the number a pointer to an object is
  PBS_LOG_NAME,  \* the static string "PBS_None"
  NULL

ASSUME LogAssumption ==
  /\ NULL \notin Logs \cup Names \cup Paths \cup Cells \cup {PBS_LOG_NAME}
  /\ PBS_LOG_NAME \notin Names \cup Paths \cup Cells
  /\ Masks \subseteq Int /\ LONG_MAX \in Nat

Contents == Names \cup Paths

(* The C long of a Python number; -1 stands for one that does not fit.     *)
FitsLong(m) == -LONG_MAX - 1 <= m /\ m <= LONG_MAX
PyLong_AsLong(m) == IF FitsLong(m) THEN m ELSE -1

AllMasks == {PyLong_AsLong(m) : m \in Masks} \cup {PBSEVENT_MASK, Address}

VARIABLES
  live,            \* the Log objects that exist
  log,             \* the PBSLogObject of each identity
  heap,            \* what each cell holds, NULL when it is free
  msg_daemonname,  \* the name the library writes into its records (a pointer)
  log_event_mask,  \* library: the events it records
  opened,          \* library: the log file is open
  out              \* how the step ended: "value", "error", "null" (failure
                   \* with no exception), "unraised" (success with one), none

libVars == <<msg_daemonname, log_event_mask, opened>>
vars == <<live, log, heap, libVars, out>>

Pointers == Cells \cup {NULL}

Blank == [mask |-> PBSEVENT_MASK, free_daemon_name |-> FALSE,
          daemon_name |-> PBS_LOG_NAME, py_daemon_name |-> PBS_LOG_NAME,
          filename |-> NULL, directory |-> NULL]

(* The strings that belong to object o.                                    *)
Owned(o) ==
  ({log[o].filename, log[o].directory}
    \cup (IF log[o].free_daemon_name THEN {log[o].daemon_name} ELSE {}))
  \ {NULL}

Leaked == {c \in Cells : heap[c] # NULL /\ \A o \in live : c \notin Owned(o)}

(* The heap h after PyMem_Free of the pointers ps.                         *)
PyMem_Free(h, ps) == [c \in Cells |-> IF c \in ps THEN NULL ELSE h[c]]

-------------------------------------------------------------------------------
log__new(o) ==
  /\ o \notin live
  /\ live' = live \cup {o}
  /\ log' = [log EXCEPT ![o] = Blank]
  /\ out' = "none"
  /\ UNCHANGED <<heap, libVars>>

(* Variant with a bug: the name is freed whether it is the object's or not, *)
(* and the names of the log file are forgotten.                             *)
DeallocNameOnly(o) ==
  /\ o \in live
  /\ live' = live \ {o}
  /\ heap' = PyMem_Free(heap, {log[o].daemon_name})
  /\ log' = [log EXCEPT ![o] = Blank]
  /\ out' = "none"
  /\ UNCHANGED libVars

(* msg_daemonname is left pointing to the name that is freed here.          *)
log__dealloc(o) ==
  /\ o \in live
  /\ live' = live \ {o}
  /\ heap' = PyMem_Free(heap, Owned(o))
  /\ log' = [log EXCEPT ![o] = Blank]
  /\ out' = "none"
  /\ UNCHANGED libVars

(* A state of __init__ or a setter while it runs: the object, the heap, and *)
(* how it goes.  From r, a copy of string s is stored in field f: there may *)
(* be no memory, and the field is NULL then.                                *)
Stored(r, f, s) ==
  IF s = NULL \/ r.out # "value" THEN {r}
  ELSE {[obj |-> [r.obj EXCEPT ![f] = c], heap |-> [r.heap EXCEPT ![c] = s],
         out |-> "value"] : c \in {d \in Cells : r.heap[d] = NULL}}
       \cup {[r EXCEPT !.obj[f] = NULL, !.out = "null"]}

(* Variant with a bug: the library is given the name also if there is none. *)
NamedAlways(o, r, s) ==
  LET ok == s # NULL /\ r.out = "value" IN
  /\ log' = [log EXCEPT ![o] = [r.obj EXCEPT !.free_daemon_name = @ \/ ok]]
  /\ heap' = r.heap
  /\ msg_daemonname' = r.obj.daemon_name
  /\ out' = r.out

(* If there was memory, the object's name is now its own, and the library's.*)
Named(o, r, s) ==
  LET ok == s # NULL /\ r.out = "value" IN
  /\ log' = [log EXCEPT ![o] = [r.obj EXCEPT !.free_daemon_name = @ \/ ok]]
  /\ heap' = r.heap
  /\ msg_daemonname' = IF ok THEN r.obj.daemon_name ELSE msg_daemonname
  /\ out' = r.out

(* The mask argument is read with "O!": the pointer to the object is stored *)
(* in the long.                                                             *)
MaskGiven == {PBSEVENT_MASK, Address}

(* The object with its mask set, and the file name accepted or not.         *)
Started(o, m, f) ==
  {[obj |-> IF m = PBSEVENT_MASK THEN log[o] ELSE [log[o] EXCEPT !.mask = m],
    heap |-> heap, out |-> w] : w \in {"value"} \cup (IF f = NULL THEN {} ELSE {"error"})}

(* Strings the object already had are not freed.                            *)
log__init(o, name, m, f, d) ==
  /\ o \in live
  /\ log_event_mask' = m
  /\ \E r0 \in Started(o, m, f) :
     \E r1 \in Stored(r0, "filename", f) :
     \E r2 \in Stored(r1, "directory", d) :
     \E r3 \in Stored(r2, "daemon_name", name) : Named(o, r3, name)
  /\ UNCHANGED <<live, opened>>

(* Nobody looks whether the number fits: success is reported, and the       *)
(* OverflowError is left set.                                               *)
log_set_mask(o, m) ==
  /\ o \in live
  /\ log' = [log EXCEPT ![o].mask = PyLong_AsLong(m)]
  /\ log_event_mask' = PyLong_AsLong(m)
  /\ out' = IF FitsLong(m) THEN "value" ELSE "unraised"
  /\ UNCHANGED <<live, heap, msg_daemonname, opened>>

(* Variant with a bug: the old name is freed after the new one is in place, *)
(* through the field that holds the new one.                                *)
SetNameFreesNew(o, s) ==
  /\ o \in live
  /\ \E r \in Stored([obj |-> log[o], heap |-> heap, out |-> "value"],
                     "daemon_name", s) :
       Named(o, [r EXCEPT !.heap = IF log[o].free_daemon_name
                                     THEN PyMem_Free(@, {r.obj.daemon_name}) ELSE @],
             s)
  /\ UNCHANGED <<live, log_event_mask, opened>>

(* The old name is freed first.                                             *)
log_set_name(o, s) ==
  /\ o \in live
  /\ \E r \in Stored([obj |-> log[o],
                      heap |-> IF log[o].free_daemon_name
                                 THEN PyMem_Free(heap, {log[o].daemon_name})
                                 ELSE heap,
                      out |-> "value"], "daemon_name", s) : Named(o, r, s)
  /\ UNCHANGED <<live, log_event_mask, opened>>

(* log_open of the library succeeds or fails (external).                    *)
log_open(o) ==
  /\ o \in live
  /\ \/ opened' = TRUE /\ out' = "value"
     \/ out' = "error" /\ UNCHANGED opened
  /\ UNCHANGED <<live, log, heap, msg_daemonname, log_event_mask>>

log_close(o) ==
  /\ o \in live
  /\ opened' = FALSE
  /\ out' = "value"
  /\ UNCHANGED <<live, log, heap, msg_daemonname, log_event_mask>>

-------------------------------------------------------------------------------
Init ==
  /\ live = {}
  /\ log = [o \in Logs |-> Blank]
  /\ heap = [c \in Cells |-> NULL]
  /\ msg_daemonname = PBS_LOG_NAME
  /\ log_event_mask = PBSEVENT_MASK
  /\ opened = FALSE
  /\ out = "none"

Next == \E o \in Logs :
  \/ log__new(o)
  \/ log__dealloc(o)
  \/ \E name \in Names \cup {NULL}, m \in MaskGiven, f, d \in Paths \cup {NULL} :
       log__init(o, name, m, f, d)
  \/ \E m \in Masks : log_set_mask(o, m)
  \/ \E s \in Names : log_set_name(o, s)
  \/ log_open(o)
  \/ log_close(o)

Spec == Init /\ [][Next]_vars

-------------------------------------------------------------------------------
TypeOK ==
  /\ live \subseteq Logs
  /\ log \in [Logs -> [mask : AllMasks, free_daemon_name : BOOLEAN,
                       daemon_name : Pointers \cup {PBS_LOG_NAME},
                       py_daemon_name : {PBS_LOG_NAME},
                       filename : Pointers, directory : Pointers]]
  /\ heap \in [Cells -> Contents \cup {NULL}]
  /\ msg_daemonname \in Cells \cup {PBS_LOG_NAME}
  /\ log_event_mask \in AllMasks
  /\ opened \in BOOLEAN
  /\ out \in {"none", "value", "error", "null", "unraised"}

(* Every string of a Log is allocated and belongs to that Log alone, each   *)
(* in one field: no method frees a string twice, or one that another object *)
(* still uses; the static "PBS_None" is never freed (free_daemon_name,      *)
(* PBSLogType.c:56-69, 105-124, 179-208).                                   *)
StringsOwned ==
  \A o \in live :
    /\ \A c \in Owned(o) : c \in Cells /\ heap[c] # NULL
    /\ \A p \in live \ {o} : Owned(o) \cap Owned(p) = {}
    /\ log[o].filename # NULL =>
         log[o].filename \notin {log[o].directory, log[o].daemon_name}
    /\ log[o].directory # NULL => log[o].directory # log[o].daemon_name
    /\ ~log[o].free_daemon_name => log[o].daemon_name \in {PBS_LOG_NAME, NULL}

(* Memory is lost only by calling __init__ of a Log again: neither the death *)
(* of a Log nor a new name leaves a string without an owner, and __init__    *)
(* loses only the strings the Log had (PBSLogType.c:105-124).                *)
OnlyInitLeaks ==
  [][\A c \in Leaked' \ Leaked : \E o \in live :
       /\ c \in Owned(o)
       /\ \E name \in Names \cup {NULL}, m \in MaskGiven,
             f, d \in Paths \cup {NULL} : log__init(o, name, m, f, d)]_vars

-------------------------------------------------------------------------------
(* What the comments say, and the code does not do.                        *)

(* msg_daemonname "must be defined" (PBSLogType.c:20): the library, which   *)
(* writes it into every record, finds a string there.                       *)
MsgNameDefined ==
  msg_daemonname \in Cells => heap[msg_daemonname] # NULL
===============================================================================
