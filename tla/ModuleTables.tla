------------------------------ MODULE ModuleTables ------------------------------
(***************************************************************************)
(* The import of the extension (mainModule.c) and what it builds: the      *)
(* global strings, the types, the exception, and the two Option objects    *)
(* (OptionType.c) that hold the library's constants (PBSConstants.c).      *)
(*                                                                         *)
(* An allocation may fail at every step.  The interpreter then refuses the *)
(* import, but leaves the half-made module in sys.modules, where the next  *)
(* import finds it.                                                        *)
(***************************************************************************)
EXTENDS Integers, Sequences, FiniteSets

CONSTANTS
  Ops,          \* rows of the table of batch operators, the last included
  Attributes,   \* constants that go into "attr"
  WellKnown,    \* constants that go into "values"
  Own,          \* Option objects a program makes itself
  CValue,       \* the value a constant has in pbs_ifl.h
  Values,       \* values a program may store
  NULL,
  Touched,      \* bound: the names a program sets, deletes or rebinds
  Failures      \* bound: how many PyModule_AddObject calls may fail

Types == <<"Option", "BatchOp", "Attr", "Data", "Server", "Mom", "Log">>
Strings == <<"PBS_NULLSTR", "PBS_UNKNOWN_HOST", "PBS_MOM_REPR_UNK", "PBS_LOG_NONE">>
Exports == {"PBSException", "BatchOp", "Attr", "Data", "Server", "Mom", "Log"}
Tables == {"attr", "values"}
Names == Attributes \cup WellKnown
Options == Tables \cup Own
Consts == [t \in Tables |-> IF t = "attr" THEN Attributes ELSE WellKnown]

ASSUME TablesAssumption ==
  /\ NULL \notin Values \cup {CValue}
  /\ NULL \notin [settable_once : BOOLEAN, _d : [Names -> Values \cup {CValue, NULL}]]
  /\ Attributes \cap WellKnown = {} /\ Names \cap Exports = {}
  /\ Own \cap Tables = {}
  /\ "PBSPyExceptionObject" \notin Ops
  /\ IsFiniteSet(Attributes) /\ IsFiniteSet(WellKnown)
  /\ Failures \in Nat

First(seq, k) == {seq[i] : i \in 1..k}

VARIABLES
  pc,        \* where initialisation is, or how the import ended
  globals,   \* the global variables (and rows of bops) that are not null
  ready,     \* the types PyType_Ready has finished
  mod,       \* the names in the module's dictionary
  refs,      \* references to the exception and to the exported types
  option,    \* each OptionObject (_d, settable_once), NULL if there is none
  insert_st, \* sum of the results of the insertions
  pending    \* an exception is set

vars == <<pc, globals, ready, mod, refs, option, insert_st, pending>>

Empty == [n \in Names |-> NULL]

(* What the methods of a type read without looking whether it is there.    *)
Uses == [x \in Exports |->
  CASE x \in {"BatchOp", "Attr"} -> Ops
    [] x = "Data"   -> Ops \cup {"PBS_NULLSTR"}
    [] x = "Server" -> Ops \cup {"PBS_UNKNOWN_HOST", "PBSPyExceptionObject"}
    [] x = "Mom"    -> {"PBS_MOM_REPR_UNK", "PBSPyExceptionObject"}
    [] x = "Log"    -> {"PBS_LOG_NONE", "PBSPyExceptionObject"}
    [] OTHER        -> {}]

-------------------------------------------------------------------------------
(* Module initialisation.                                                  *)

(* Initialisation goes on to stage next, or returns with an exception set. *)
Goto(ok, next) ==
  /\ pc' = IF ok THEN next ELSE "failed"
  /\ pending' = (pending \/ ~ok)

Crash == pc' = "crashed" /\ pending' = pending

(* A string that cannot be made does not keep the others from being made.  *)
init_bop_array ==
  /\ pc = "bops"
  /\ \E made \in SUBSET Ops :
       /\ globals' = globals \cup made
       /\ Goto(made = Ops, "types")
  /\ UNCHANGED <<ready, mod, refs, option, insert_st>>

PyType_Ready ==
  /\ pc = "types"
  /\ \E k \in 0..Len(Types) :
       /\ ready' = First(Types, k)
       /\ Goto(k = Len(Types), "strings")
  /\ UNCHANGED <<globals, mod, refs, option, insert_st>>

(* Variant with a bug: initialisation goes on without the string.          *)
StringsUnchecked ==
  /\ pc = "strings"
  /\ \E k \in 0..Len(Strings) :
       /\ globals' = globals \cup First(Strings, k)
       /\ pc' = "export"
       /\ pending' = (k # Len(Strings))
  /\ UNCHANGED <<ready, mod, refs, option, insert_st>>

GlobalStrings ==
  /\ pc = "strings"
  /\ \E k \in 0..Len(Strings) :
       /\ globals' = globals \cup First(Strings, k)
       /\ Goto(k = Len(Strings), "export")
  /\ UNCHANGED <<ready, mod, refs, option, insert_st>>

(* Variant with a bug: the reference the module steals is the global's.    *)
AddedWithoutIncref(x) == IF x = "PBSException" THEN 1 ELSE refs[x]

(* References after Py_INCREF and PyModule_AddObject, which steals one if  *)
(* it succeeds; the exception has one when it is made.                     *)
Added(x) == (IF x = "PBSException" THEN 1 ELSE refs[x]) + 1

(* Nobody looks whether PyModule_AddObject succeeds, nor whether there is  *)
(* an exception object: Py_INCREF of a null pointer.                       *)
Export ==
  /\ pc = "export"
  /\ \/ \E added \in SUBSET Exports :
          /\ Cardinality(Exports \ added) <= Failures
          /\ globals' = globals \cup {"PBSPyExceptionObject"}
          /\ mod' = mod \cup added
          /\ refs' = [x \in Exports |-> Added(x)]
          /\ pc' = "attr"
          /\ pending' = (pending \/ added # Exports)
     \/ Crash /\ UNCHANGED <<globals, mod, refs>>
  /\ UNCHANGED <<ready, option, insert_st>>

(* Variants with a bug: both tables have the same name (a copied line);    *)
(* failures are counted upwards.                                           *)
AlwaysAttr(t) == "attr"
CountedUp(refused, missing) == Cardinality(refused) + Cardinality(missing)

(* The name of table t in the module.                                      *)
Key(t) == t

(* A constant that was not stored in the table, or not inserted in the     *)
(* module, counts -1 each.                                                 *)
InsertStatus(refused, missing) == -(Cardinality(refused) + Cardinality(missing))

(* insert_attr_flags, insert_value_flags: every constant goes into a new   *)
(* set-once Option and into the module.  For some the strings cannot be    *)
(* made, which _setattr_str_const does not count (lost); for some the      *)
(* table has no memory (refused); some are not inserted in the module      *)
(* (missing).  A table that is not listed in the module dies.              *)
Filled(t, lost, refused, missing, listed) ==
  LET st == InsertStatus(refused, missing)
      rc == IF st = 0 /\ ~listed THEN -1 ELSE st
  IN
  /\ insert_st' = rc
  /\ mod' = mod \cup (Consts[t] \ missing) \cup (IF rc = 0 THEN {Key(t)} ELSE {})
  /\ option' = [option EXCEPT ![t] =
       IF rc # 0 THEN NULL
       ELSE [settable_once |-> TRUE,
             _d |-> [n \in Names |-> IF n \in Consts[t] \ (lost \cup refused)
                                       THEN CValue ELSE NULL]]]
  /\ pending' = (pending \/ ~listed \/ lost \cup refused \cup missing # {})

insert_flags(t, next) ==
  /\ pc = t
  /\ \/ /\ \E lost, refused, missing \in SUBSET Consts[t], listed \in BOOLEAN :
             lost \cap refused = {} /\ Filled(t, lost, refused, missing, listed)
        /\ pc' = IF insert_st' < 0 \/ (next = "end" /\ pending') THEN "failed"
                 ELSE IF next = "end" THEN "imported" ELSE next
     \/ /\ Goto(FALSE, next)                  \* no memory for the dictionary
        /\ UNCHANGED <<mod, option, insert_st>>
     \/ Crash /\ UNCHANGED <<mod, option, insert_st>>
  /\ UNCHANGED <<globals, ready, refs>>

insert_attr_flags == insert_flags("attr", "values")
insert_value_flags == insert_flags("values", "end")

-------------------------------------------------------------------------------
(* What the program does with the module, whole or not.                    *)

Usable == pc \in {"imported", "failed"}

(* del PBS.x, or another object in its place.                              *)
Delete(x) ==
  /\ Usable /\ x \in mod
  /\ mod' = mod \ {x}
  /\ refs' = IF x \in Exports THEN [refs EXCEPT ![x] = @ - 1] ELSE refs
  /\ UNCHANGED <<pc, globals, ready, option, insert_st, pending>>

(* type(PBS.attr)(set_once).  If there is no memory for the object,         *)
(* create_option uses a null pointer (if there is none for the dictionary, *)
(* nothing happens).                                                       *)
option__new(o, flag) ==
  /\ Usable /\ (\E t \in Tables : option[t] # NULL)
  /\ option[o] = NULL
  /\ \/ /\ option' = [option EXCEPT ![o] = [settable_once |-> flag, _d |-> Empty]]
        /\ UNCHANGED <<pc, pending>>
     \/ Crash /\ UNCHANGED option
  /\ UNCHANGED <<globals, ready, mod, refs, insert_st>>

option__dealloc(o) ==
  /\ Usable /\ option[o] # NULL
  /\ option' = [option EXCEPT ![o] = NULL]
  /\ UNCHANGED <<pc, globals, ready, mod, refs, insert_st, pending>>

Assign(o, n, v) ==
  /\ Usable /\ option[o] # NULL
  /\ option' = [option EXCEPT ![o]._d[n] = v]
  /\ UNCHANGED <<pc, globals, ready, mod, refs, insert_st, pending>>

(* The name a program gives may be a str, a unicode, or a str of its own   *)
(* class, with a __hash__ and an __eq__ that are program code: the lookup  *)
(* that checks a name and the store of it may then find different things.  *)
NameKinds == {"str", "unicode", "own"}

(* The check of a set-once Option misses a name that is set.               *)
SlipsThrough(o, n, v, kind) ==
  /\ kind = "own"
  /\ option[o] # NULL
  /\ option[o].settable_once /\ option[o]._d[n] # NULL
  /\ Assign(o, n, v)

(* o.n = v.  A name that is set is refused by a set-once Option; the       *)
(* message is made with a wild pointer if the name was given as unicode.   *)
option__setattro(o, n, v, kind) ==
  \/ /\ option[o] # NULL
     /\ option[o].settable_once => option[o]._d[n] = NULL
     /\ Assign(o, n, v)
  \/ SlipsThrough(o, n, v, kind)
  \/ /\ Usable /\ option[o] # NULL /\ kind = "unicode"
     /\ option[o].settable_once /\ option[o]._d[n] # NULL
     /\ Crash
     /\ UNCHANGED <<globals, ready, mod, refs, option, insert_st>>

(* del o.n.  It is not refused by a set-once Option.                       *)
option__delattr(o, n) == option[o] # NULL /\ option[o]._d[n] # NULL /\ Assign(o, n, NULL)

-------------------------------------------------------------------------------
Init ==
  /\ pc = "bops"
  /\ globals = {} /\ ready = {} /\ mod = {}
  /\ refs = [x \in Exports |-> IF x = "PBSException" THEN 0 ELSE 1]
  /\ option = [o \in Options |-> NULL]
  /\ insert_st = 0
  /\ pending = FALSE

Import ==
  \/ init_bop_array \/ PyType_Ready \/ GlobalStrings \/ Export
  \/ insert_attr_flags \/ insert_value_flags

Next ==
  \/ Import
  \/ \E x \in mod \cap Touched : Delete(x)
  \/ \E o \in Own : \E flag \in BOOLEAN : option__new(o, flag)
  \/ \E o \in Own : option__dealloc(o)
  \/ \E o \in Options, n \in Names \cap Touched :
       \/ \E v \in Values, kind \in NameKinds : option__setattro(o, n, v, kind)
       \/ option__delattr(o, n)

Spec == Init /\ [][Next]_vars

-------------------------------------------------------------------------------
TypeOK ==
  /\ pc \in {"bops", "types", "strings", "export", "attr", "values",
             "imported", "failed", "crashed"}
  /\ globals \subseteq Ops \cup {Strings[i] : i \in DOMAIN Strings}
                        \cup {"PBSPyExceptionObject"}
  /\ ready \subseteq {Types[i] : i \in DOMAIN Types}
  /\ mod \subseteq Exports \cup Tables \cup Names
  /\ refs \in [Exports -> Nat]
  /\ option \in [Options ->
       [settable_once : BOOLEAN, _d : [Names -> Values \cup {CValue, NULL}]]
         \cup {NULL}]
  /\ insert_st \in Int /\ insert_st <= 0
  /\ pending \in BOOLEAN

(* However the import ended, a type the program finds in the module can be *)
(* used: it is ready, and the globals its methods read without a look are  *)
(* there (mainModule.c:131-212; PBSServerType.c:147, PBSLogType.c:45,      *)
(* PBSDataType.c:196, PBSBatchOpType.c:156).                               *)
TypesUsable ==
  \A x \in mod \cap Exports :
    /\ x # "PBSException" => x \in ready
    /\ Uses[x] \subseteq globals

(* An import that succeeds gave the module everything: the types, the      *)
(* exception, both tables, and every constant in its table and in the      *)
(* module, although most results are not looked at and a constant that is  *)
(* lost is not counted (mainModule.c:178-220, OptionType.c:257-268): the   *)
(* exception that is left set makes the interpreter refuse the import.     *)
ImportIsComplete ==
  [][pc # "imported" /\ pc' = "imported" =>
       /\ mod' = Exports \cup Tables \cup Names
       /\ \A t \in Tables : option'[t] # NULL
       /\ \A t \in Tables : \A n \in Consts[t] : (option'[t])._d[n] = CValue]_vars

(* The exception and the types are never freed under the C code, whatever  *)
(* the program deletes from the module: beside the reference that          *)
(* PyModule_AddObject steals there is one for the C global                 *)
(* (mainModule.c:177, 189-211).                                            *)
GlobalsHeld ==
  pc \in {"attr", "values", "imported", "failed"} /\ "PBSPyExceptionObject" \in globals =>
    \A x \in Exports : refs[x] >= 1 + (IF x \in mod THEN 1 ELSE 0)

(* "exposes various constants in the CAPI as a read only attribute         *)
(* accessor" (OptionType.c:18-19): after the import every constant is in    *)
(* its table with the library's value.  It is not so of every program.      *)
ConstantsReadOnly ==
  pc = "imported" =>
    \A t \in Tables : /\ option[t] # NULL
                      /\ \A n \in Consts[t] : option[t]._d[n] = CValue

(* A step that does not delete a constant from its table and does not set   *)
(* one by a name of a class of its own.                                    *)
ReadOnlyUse ==
  \A t \in Tables, n \in Names :
    /\ ~option__delattr(t, n)
    /\ \A v \in Values, kind \in NameKinds : ~SlipsThrough(t, n, v, kind)
===============================================================================
