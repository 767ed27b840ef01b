-------------------------- MODULE ModuleTables_proofs --------------------------
(***************************************************************************)
(* What holds of the import and of the tables of constants for any number  *)
(* of batch operators, constants and Option objects, and however many      *)
(* allocations fail.                                                       *)
(***************************************************************************)
EXTENDS ModuleTables, FiniteSetTheorems, TLAPS

OptionObject == [settable_once : BOOLEAN, _d : [Names -> Values \cup {CValue, NULL}]]
TypeNames == {Types[i] : i \in DOMAIN Types}
StringNames == {Strings[i] : i \in DOMAIN Strings}
Exc == "PBSPyExceptionObject"

(* What there is at each stage of the initialisation.                      *)
Stages ==
  /\ pc \in {"types", "strings", "export"} => Ops \subseteq globals
  /\ pc \in {"strings", "export"} => TypeNames \subseteq ready
  /\ pc = "export" => StringNames \subseteq globals
  /\ pc \in {"attr", "values", "imported"} => Exc \in globals

(* Before the exception is made the module is empty; afterwards everything *)
(* a method needs is there, and the C global has its reference.            *)
Exported ==
  /\ Exc \in globals =>
       /\ Ops \cup StringNames \subseteq globals /\ TypeNames \subseteq ready
       /\ \A x \in Exports : refs[x] >= 1 + (IF x \in mod THEN 1 ELSE 0)
  /\ Exc \notin globals => mod = {}
  /\ pc \in {"bops", "types", "strings", "export"} =>
       /\ Exc \notin globals
       /\ refs = [x \in Exports |-> IF x = "PBSException" THEN 0 ELSE 1]
       /\ \A o \in Options : option[o] = NULL

(* What has been entered when no exception is pending.                     *)
Entered ==
  /\ pc = "attr" => /\ \A o \in Options : option[o] = NULL
                    /\ ~pending => mod = Exports
  /\ pc = "values" =>
       /\ \A o \in Options \ {"attr"} : option[o] = NULL
       /\ ~pending => /\ mod = Exports \cup {"attr"} \cup Attributes
                      /\ option["attr"] # NULL /\ option["attr"].settable_once
                      /\ \A n \in Attributes : option["attr"]._d[n] = CValue

IInv == TypeOK /\ Stages /\ Exported /\ Entered

-------------------------------------------------------------------------------
(* The prefixes of the two lists, and the lists as a whole.                *)
LEMMA Prefixes ==
  /\ \A k \in 0..Len(Types) : First(Types, k) \subseteq TypeNames
  /\ First(Types, Len(Types)) = TypeNames
  /\ \A k \in 0..Len(Strings) : First(Strings, k) \subseteq StringNames
  /\ First(Strings, Len(Strings)) = StringNames
  /\ Exc \notin StringNames
<1>1. DOMAIN Types = 1..7 /\ Len(Types) = 7
  BY DEF Types
<1>2. DOMAIN Strings = 1..4 /\ Len(Strings) = 4
  BY DEF Strings
<1>3. \A i \in 1..4 : Strings[i] # Exc
  BY DEF Strings, Exc
<1> QED BY <1>1, <1>2, <1>3 DEF First, TypeNames, StringNames

(* Everything a method reads is a batch operator, a string or the exception.*)
LEMMA UsesIn ==
  /\ \A x \in Exports : Uses[x] \subseteq Ops \cup StringNames \cup {Exc}
  /\ \A x \in Exports : x # "PBSException" => x \in TypeNames
<1>1. {"PBS_NULLSTR", "PBS_UNKNOWN_HOST", "PBS_MOM_REPR_UNK", "PBS_LOG_NONE"}
        \subseteq StringNames
  <2>1. /\ Strings[1] = "PBS_NULLSTR" /\ Strings[2] = "PBS_UNKNOWN_HOST"
        /\ Strings[3] = "PBS_MOM_REPR_UNK" /\ Strings[4] = "PBS_LOG_NONE"
        /\ DOMAIN Strings = 1..4
    BY DEF Strings
  <2> QED BY <2>1 DEF StringNames
<1>2. \A x \in Exports : x # "PBSException" => x \in TypeNames
  <2>1. /\ Types[2] = "BatchOp" /\ Types[3] = "Attr" /\ Types[4] = "Data"
        /\ Types[5] = "Server" /\ Types[6] = "Mom" /\ Types[7] = "Log"
        /\ DOMAIN Types = 1..7
    BY DEF Types
  <2> QED BY <2>1 DEF Exports, TypeNames
<1>3. ASSUME NEW x \in Exports PROVE Uses[x] \subseteq Ops \cup StringNames \cup {Exc}
  BY <1>1 DEF Exports, Uses, Exc
<1> QED BY <1>2, <1>3

(* Nothing is ready at first.                                              *)
LEMMA InitInv == Init => IInv
<1> SUFFICES ASSUME Init PROVE IInv
  OBVIOUS
<1>1. /\ refs \in [Exports -> Nat]
      /\ option \in [Options -> OptionObject \cup {NULL}]
      /\ \A o \in Options : option[o] = NULL
      /\ globals = {} /\ mod = {} /\ pc = "bops"
  BY DEF Init
<1>2. ready = {} /\ insert_st = 0 /\ pending = FALSE
  BY DEF Init
<1>3. TypeOK
  <2>1. globals \subseteq Ops \cup StringNames \cup {Exc} /\ ready \subseteq TypeNames
        /\ mod \subseteq Exports \cup Tables \cup Names
    BY <1>1, <1>2
  <2>2. pc \in {"bops", "types", "strings", "export", "attr", "values",
                "imported", "failed", "crashed"}
        /\ insert_st \in Int /\ insert_st <= 0
    BY <1>1, <1>2
  <2>3. pending \in BOOLEAN
    BY <1>2, Zenon
  <2> QED BY <1>1, <2>1, <2>2, <2>3 DEF TypeOK, OptionObject, StringNames, TypeNames, Exc
<1> QED BY <1>1, <1>3 DEF Init, IInv, Stages, Exported, Entered

(* What is exported was made, so a method finds what it uses.              *)
LEMMA Usable1 ==
  ASSUME IInv
  PROVE  TypesUsable /\ GlobalsHeld
<1>1. TypesUsable
  BY UsesIn DEF IInv, Exported, TypesUsable
<1>2. GlobalsHeld
  BY DEF IInv, Exported, GlobalsHeld, Exc
<1> QED BY <1>1, <1>2

-------------------------------------------------------------------------------
(* The stages before the module has a name in it.                          *)
LEMMA EarlyInv ==
  ASSUME IInv, init_bop_array \/ PyType_Ready \/ GlobalStrings
  PROVE  IInv'
<1>1. /\ pc \in {"bops", "types", "strings"} /\ Exc \notin globals /\ mod = {}
      /\ UNCHANGED <<mod, refs, option, insert_st>>
  BY DEF IInv, Exported, init_bop_array, PyType_Ready, GlobalStrings
<1>2. Exc \notin Ops
  BY TablesAssumption DEF Exc
<1>3. CASE init_bop_array
  <2>1. PICK made \in SUBSET Ops : globals' = globals \cup made /\ Goto(made = Ops, "types")
    BY <1>3 DEF init_bop_array
  <2>2. Exc \notin globals' /\ ready' = ready /\ pc' \in {"types", "failed"}
        /\ (pc' = "types" => Ops \subseteq globals') /\ pending' \in BOOLEAN
    BY <1>1, <1>2, <1>3, <2>1 DEF init_bop_array, Goto, IInv, TypeOK
  <2>3. TypeOK'
    BY <1>1, <2>1, <2>2 DEF IInv, TypeOK
  <2> QED BY <1>1, <2>2, <2>3 DEF IInv, Stages, Exported, Entered
<1>4. CASE PyType_Ready
  <2>1. PICK k \in 0..Len(Types) : ready' = First(Types, k) /\ Goto(k = Len(Types), "strings")
    BY <1>4 DEF PyType_Ready
  <2>2. /\ globals' = globals /\ pc' \in {"strings", "failed"} /\ pc = "types"
        /\ (pc' = "strings" => TypeNames \subseteq ready') /\ pending' \in BOOLEAN
        /\ ready' \subseteq TypeNames
    BY <1>4, <2>1, Prefixes DEF PyType_Ready, Goto, IInv, TypeOK
  <2>3. TypeOK'
    BY <1>1, <2>2 DEF IInv, TypeOK, TypeNames
  <2> QED BY <1>1, <2>2, <2>3 DEF IInv, Stages, Exported, Entered
<1>5. CASE GlobalStrings
  <2>1. PICK k \in 0..Len(Strings) : globals' = globals \cup First(Strings, k)
                                     /\ Goto(k = Len(Strings), "export")
    BY <1>5 DEF GlobalStrings
  <2>2. /\ ready' = ready /\ pc' \in {"export", "failed"} /\ pc = "strings"
        /\ (pc' = "export" => StringNames \subseteq globals') /\ pending' \in BOOLEAN
        /\ globals \subseteq globals' /\ globals' \subseteq globals \cup StringNames
        /\ Exc \notin globals'
    BY <1>1, <1>5, <2>1, Prefixes DEF GlobalStrings, Goto, IInv, TypeOK
  <2>3. TypeOK'
    BY <1>1, <2>2 DEF IInv, TypeOK, StringNames
  <2> QED BY <1>1, <2>2, <2>3 DEF IInv, Stages, Exported, Entered
<1> QED BY <1>3, <1>4, <1>5

(* The exports: whatever fails, a type in the module keeps a reference of  *)
(* the C global.                                                           *)
LEMMA ExportInv ==
  ASSUME IInv, Export
  PROVE  IInv'
<1>1. /\ pc = "export" /\ Exc \notin globals /\ mod = {}
      /\ refs = [x \in Exports |-> IF x = "PBSException" THEN 0 ELSE 1]
      /\ Ops \cup StringNames \subseteq globals /\ TypeNames \subseteq ready
      /\ UNCHANGED <<ready, option, insert_st>>
      /\ \A o \in Options : option[o] = NULL
  BY DEF Export, IInv, Stages, Exported
<1>2. CASE Crash /\ UNCHANGED <<globals, mod, refs>>
  <2>1. pc' = "crashed" /\ pending' = pending
    BY <1>2 DEF Crash
  <2>2. TypeOK'
    BY <1>1, <1>2, <2>1 DEF IInv, TypeOK
  <2> QED BY <1>1, <1>2, <2>1, <2>2 DEF IInv, Stages, Exported, Entered
<1>3. ASSUME NEW added \in SUBSET Exports,
             globals' = globals \cup {Exc}, mod' = mod \cup added,
             refs' = [x \in Exports |-> Added(x)], pc' = "attr",
             pending' = (pending \/ added # Exports)
      PROVE  IInv'
  <2>1. refs' = [x \in Exports |-> 2]
    BY <1>1, <1>3 DEF Added
  <2>2. TypeOK'
    BY <1>1, <1>3, <2>1 DEF IInv, TypeOK, Exc
  <2>3. Exported'
    BY <1>1, <1>3, <2>1 DEF Exported
  <2>4. Entered'
    <3>1. ~pending' => mod' = Exports
      BY <1>1, <1>3
    <3> QED BY <1>1, <1>3, <3>1 DEF Entered
  <2>5. Stages'
    BY <1>3 DEF Stages
  <2> QED BY <2>2, <2>3, <2>4, <2>5 DEF IInv
<1> QED BY <1>2, <1>3 DEF Export, Exc

-------------------------------------------------------------------------------
(* What one table adds: nothing that matters, or the whole table.          *)
Fills(t) ==
  \E lost, refused, missing \in SUBSET Consts[t], listed \in BOOLEAN :
    Filled(t, lost, refused, missing, listed)

(* Filling a table: it is complete unless an exception is set.             *)
LEMMA FilledEffect ==
  ASSUME IInv, NEW t \in Tables, Fills(t)
  PROVE  /\ insert_st' \in Int /\ insert_st' <= 0 /\ pending' \in BOOLEAN
         /\ mod \subseteq mod' /\ mod' \subseteq mod \cup Tables \cup Names
         /\ option' \in [Options -> OptionObject \cup {NULL}]
         /\ \A o \in Options \ {t} : option'[o] = option[o]
         /\ ~pending' => /\ ~pending /\ mod' = mod \cup Consts[t] \cup {t}
                         /\ option'[t] # NULL /\ (option'[t]).settable_once
                         /\ \A n \in Consts[t] : (option'[t])._d[n] = CValue
<1>0. PICK lost, refused, missing \in SUBSET Consts[t], listed \in BOOLEAN :
        Filled(t, lost, refused, missing, listed)
  BY DEF Fills
<1>1. /\ Consts[t] \subseteq Names /\ IsFiniteSet(Consts[t])
      /\ t \in Options /\ option \in [Options -> OptionObject \cup {NULL}]
      /\ pending \in BOOLEAN
  BY TablesAssumption DEF Consts, Tables, Names, Options, IInv, TypeOK, OptionObject
<1>2. Cardinality(refused) \in Nat /\ Cardinality(missing) \in Nat
  BY <1>1, FS_Subset, FS_CardinalityType
<1> DEFINE st == InsertStatus(refused, missing)
           rc == IF st = 0 /\ ~listed THEN -1 ELSE st
           table == [settable_once |-> TRUE,
                     _d |-> [n \in Names |-> IF n \in Consts[t] \ (lost \cup refused)
                                               THEN CValue ELSE NULL]]
<1>3. st \in Int /\ st <= 0
  BY <1>2 DEF InsertStatus
<1>4. rc \in Int /\ rc <= 0
  BY <1>3
<1>5. refused = {} /\ missing = {} /\ listed => rc = 0
  <2>1. Cardinality({}) = 0
    BY FS_EmptySet
  <2> QED BY <2>1 DEF InsertStatus
<1>6. table \in OptionObject /\ table # NULL
  <2>1. [n \in Names |-> IF n \in Consts[t] \ (lost \cup refused) THEN CValue ELSE NULL]
          \in [Names -> Values \cup {CValue, NULL}]
    OBVIOUS
  <2>2. table \in OptionObject
    BY <2>1 DEF OptionObject
  <2>3. NULL \notin OptionObject
    BY TablesAssumption DEF OptionObject
  <2> HIDE DEF table
  <2> QED BY <2>2, <2>3
<1>7. /\ insert_st' = rc
      /\ mod' = mod \cup (Consts[t] \ missing) \cup (IF rc = 0 THEN {t} ELSE {})
      /\ option' = [option EXCEPT ![t] = IF rc # 0 THEN NULL ELSE table]
      /\ pending' = (pending \/ ~listed \/ lost \cup refused \cup missing # {})
  BY <1>0 DEF Filled, Key
<1> HIDE DEF rc, st
<1>8. option'[t] = IF rc # 0 THEN NULL ELSE table
  BY <1>1, <1>7
<1>9. ASSUME ~pending'
      PROVE  /\ ~pending /\ mod' = mod \cup Consts[t] \cup {t}
             /\ option'[t] # NULL /\ (option'[t]).settable_once
             /\ \A n \in Consts[t] : (option'[t])._d[n] = CValue
  <2>1. /\ ~pending /\ listed /\ lost = {} /\ refused = {} /\ missing = {}
    BY <1>7, <1>9
  <2>2. rc = 0
    BY <1>5, <2>1
  <2>3. option'[t] = table
    BY <1>8, <2>2
  <2>4. table.settable_once /\ \A n \in Consts[t] : table._d[n] = CValue
    BY <1>1, <2>1
  <2> HIDE DEF table
  <2> QED BY <1>6, <1>7, <2>1, <2>2, <2>3, <2>4
<1>10. option' \in [Options -> OptionObject \cup {NULL}]
  <2> HIDE DEF table
  <2> QED BY <1>1, <1>6, <1>7
<1>11. \A o \in Options \ {t} : option'[o] = option[o]
  BY <1>1, <1>7
<1>12. mod \subseteq mod' /\ mod' \subseteq mod \cup Tables \cup Names
  BY <1>1, <1>7
<1> HIDE DEF table
<1> QED BY <1>4, <1>7, <1>9, <1>10, <1>11, <1>12, <1>1

(* A stage that enters a table may end in a crash, in failure, in the next *)
(* stage.                                                                  *)
LEMMA FlagsInv ==
  ASSUME IInv, NEW t \in Tables, NEW next \in {"values", "end"},
         next = (IF t = "attr" THEN "values" ELSE "end"), insert_flags(t, next)
  PROVE  IInv'
<1>1. /\ pc = t /\ Exc \in globals /\ UNCHANGED <<globals, ready, refs>>
      /\ \A o \in Options \ {"attr"} : option[o] = NULL
      /\ t = "attr" => option["attr"] = NULL
      /\ Ops \cup StringNames \subseteq globals /\ TypeNames \subseteq ready
      /\ \A x \in Exports : refs[x] >= 1 + (IF x \in mod THEN 1 ELSE 0)
      /\ pending \in BOOLEAN /\ refs \in [Exports -> Nat]
  <2>1. pc = t /\ UNCHANGED <<globals, ready, refs>>
    BY DEF insert_flags
  <2>2. "attr" \in Options /\ t \in {"attr", "values"}
    BY DEF Options, Tables
  <2> QED BY <2>1, <2>2 DEF IInv, TypeOK, Stages, Exported, Entered
<1>2. ASSUME pc' \in {"failed", "crashed"}, pending' \in BOOLEAN,
             UNCHANGED <<mod, option, insert_st>>
      PROVE  IInv'
  <2>1. TypeOK'
    BY <1>1, <1>2 DEF IInv, TypeOK
  <2> QED BY <1>1, <1>2, <2>1 DEF IInv, Stages, Exported, Entered
<1>3. ASSUME Fills(t),
             pc' = IF insert_st' < 0 \/ (next = "end" /\ pending') THEN "failed"
                   ELSE IF next = "end" THEN "imported" ELSE next
      PROVE  IInv'
  <2>1. /\ insert_st' \in Int /\ insert_st' <= 0 /\ pending' \in BOOLEAN
        /\ mod \subseteq mod' /\ mod' \subseteq mod \cup Tables \cup Names
        /\ option' \in [Options -> OptionObject \cup {NULL}]
        /\ \A o \in Options \ {t} : option'[o] = option[o]
        /\ ~pending' => /\ ~pending /\ mod' = mod \cup Consts[t] \cup {t}
                        /\ option'[t] # NULL /\ (option'[t]).settable_once
                        /\ \A n \in Consts[t] : (option'[t])._d[n] = CValue
    BY <1>3, FilledEffect
  <2>2. pc' \in {"failed", "imported", "values"} /\ (pc' = "values" => t = "attr")
    BY <1>3
  <2>3. TypeOK'
    BY <1>1, <2>1, <2>2 DEF IInv, TypeOK, OptionObject
  <2>4. \A x \in Exports : x \in mod' => x \in mod
    BY <2>1, TablesAssumption DEF Exports, Tables
  <2>5. Exported'
    BY <1>1, <2>2, <2>4 DEF Exported
  <2>6. ASSUME pc' = "values"
        PROVE  /\ \A o \in Options \ {"attr"} : option'[o] = NULL
               /\ ~pending' => /\ mod' = Exports \cup {"attr"} \cup Attributes
                               /\ option'["attr"] # NULL
                               /\ (option'["attr"]).settable_once
                               /\ \A n \in Attributes : (option'["attr"])._d[n] = CValue
    <3>1. t = "attr" /\ Consts[t] = Attributes /\ pc = "attr" /\ t \in Options
      BY <1>1, <2>2, <2>6 DEF Consts, Tables, Options
    <3>2. ~pending => mod = Exports
      BY <3>1 DEF IInv, Entered
    <3> QED BY <1>1, <2>1, <3>1, <3>2
  <2> QED BY <1>1, <2>2, <2>3, <2>5, <2>6 DEF IInv, Stages, Entered
<1>4. \/ /\ Fills(t)
         /\ pc' = IF insert_st' < 0 \/ (next = "end" /\ pending') THEN "failed"
                  ELSE IF next = "end" THEN "imported" ELSE next
      \/ /\ pc' \in {"failed", "crashed"} /\ pending' \in BOOLEAN
         /\ UNCHANGED <<mod, option, insert_st>>
  BY <1>1 DEF insert_flags, Goto, Crash, Fills
<1> QED BY <1>2, <1>3, <1>4

(* When the second table is in and no exception is set, everything is.     *)
LEMMA FlagsComplete ==
  ASSUME IInv, insert_value_flags, pc' = "imported"
  PROVE  /\ mod' = Exports \cup Tables \cup Names
         /\ \A t \in Tables : option'[t] # NULL /\ (option'[t]).settable_once
         /\ \A t \in Tables : \A n \in Consts[t] : (option'[t])._d[n] = CValue
<1>1. pc = "values" /\ "values" \in Tables /\ "attr" \in Options /\ "attr" # "values"
  BY DEF insert_value_flags, insert_flags, Tables, Options
<1>2. Fills("values") /\ ~pending'
  BY DEF insert_value_flags, insert_flags, Goto, Crash, Fills
<1>3. /\ \A o \in Options \ {"values"} : option'[o] = option[o]
      /\ ~pending /\ mod' = mod \cup Consts["values"] \cup {"values"}
      /\ option'["values"] # NULL /\ (option'["values"]).settable_once
      /\ \A n \in Consts["values"] : (option'["values"])._d[n] = CValue
  BY <1>1, <1>2, FilledEffect
<1>4. /\ mod = Exports \cup {"attr"} \cup Attributes /\ option["attr"] # NULL
      /\ option["attr"].settable_once
      /\ \A n \in Attributes : option["attr"]._d[n] = CValue
  BY <1>1, <1>3 DEF IInv, Entered
<1>5. Consts["attr"] = Attributes /\ Consts["values"] = WellKnown /\ Tables = {"attr", "values"}
  BY DEF Consts, Tables
<1>6. mod' = Exports \cup Tables \cup Names
  BY <1>3, <1>4, <1>5 DEF Names
<1>7. option'["attr"] = option["attr"]
  BY <1>1, <1>3
<1> QED BY <1>3, <1>4, <1>5, <1>6, <1>7

-------------------------------------------------------------------------------
(* What the program does afterwards.                                       *)
LEMMA DeleteInv ==
  ASSUME IInv, NEW x \in mod, Delete(x)
  PROVE  IInv' /\ option' = option
<1>1. /\ pc \in {"imported", "failed"} /\ mod' = mod \ {x}
      /\ refs' = IF x \in Exports THEN [refs EXCEPT ![x] = @ - 1] ELSE refs
      /\ UNCHANGED <<pc, globals, ready, option, insert_st, pending>>
  BY DEF Delete, Usable
<1>2. /\ Exc \in globals /\ refs \in [Exports -> Nat]
      /\ \A y \in Exports : refs[y] >= 1 + (IF y \in mod THEN 1 ELSE 0)
  BY DEF IInv, TypeOK, Exported
<1>3. /\ refs' \in [Exports -> Nat]
      /\ \A y \in Exports : refs'[y] >= 1 + (IF y \in mod' THEN 1 ELSE 0)
  <2>1. CASE x \in Exports
    <3>1. refs[x] >= 2 /\ refs[x] \in Nat
      BY <1>2, <2>1
    <3>2. refs' \in [Exports -> Nat]
      BY <1>1, <1>2, <2>1, <3>1
    <3>3. refs'[x] = refs[x] - 1 /\ \A y \in Exports \ {x} : refs'[y] = refs[y]
      BY <1>1, <1>2, <2>1
    <3> QED BY <1>1, <1>2, <3>1, <3>2, <3>3
  <2>2. CASE x \notin Exports
    BY <1>1, <1>2, <2>2
  <2> QED BY <2>1, <2>2
<1>4. TypeOK'
  BY <1>1, <1>3 DEF IInv, TypeOK
<1>5. Exported'
  BY <1>1, <1>2, <1>3 DEF IInv, Exported
<1> QED BY <1>1, <1>4, <1>5 DEF IInv, Stages, Entered

(* An Option changes, or the interpreter crashes.                          *)
LEMMA OptionInv ==
  ASSUME IInv, pc \in {"imported", "failed"}, pc' \in {pc, "crashed"},
         UNCHANGED <<globals, ready, mod, refs, insert_st, pending>>,
         option' \in [Options -> OptionObject \cup {NULL}]
  PROVE  IInv'
<1>1. TypeOK'
  BY DEF IInv, TypeOK, OptionObject
<1> QED BY <1>1 DEF IInv, Stages, Exported, Entered

(* A new Option.                                                           *)
LEMMA NewOption ==
  ASSUME IInv, NEW o \in Own, NEW flag \in BOOLEAN, option__new(o, flag)
  PROVE  IInv' /\ \A p \in Options \ {o} : option'[p] = option[p]
<1>1. /\ o \in Options /\ option \in [Options -> OptionObject \cup {NULL}]
      /\ pc \in {"imported", "failed"}
      /\ UNCHANGED <<globals, ready, mod, refs, insert_st>>
  BY DEF Options, IInv, TypeOK, OptionObject, option__new, Usable
<1>2. [settable_once |-> flag, _d |-> Empty] \in OptionObject
  BY DEF OptionObject, Empty
<1>3. \/ /\ option' = [option EXCEPT ![o] = [settable_once |-> flag, _d |-> Empty]]
         /\ UNCHANGED <<pc, pending>>
      \/ pc' = "crashed" /\ UNCHANGED <<option, pending>>
  BY DEF option__new, Crash
<1>4. option' \in [Options -> OptionObject \cup {NULL}]
  BY <1>1, <1>2, <1>3
<1>5. \A p \in Options \ {o} : option'[p] = option[p]
  BY <1>1, <1>3
<1>6. IInv'
  BY <1>1, <1>3, <1>4, OptionInv
<1> QED BY <1>5, <1>6

(* An Option that dies.                                                    *)
LEMMA DeallocOption ==
  ASSUME IInv, NEW o \in Own, option__dealloc(o)
  PROVE  IInv' /\ \A p \in Options \ {o} : option'[p] = option[p]
<1>1. /\ o \in Options /\ option \in [Options -> OptionObject \cup {NULL}]
      /\ pc \in {"imported", "failed"} /\ option' = [option EXCEPT ![o] = NULL]
      /\ UNCHANGED <<pc, globals, ready, mod, refs, insert_st, pending>>
  BY DEF Options, IInv, TypeOK, OptionObject, option__dealloc, Usable
<1>2. /\ option' \in [Options -> OptionObject \cup {NULL}]
      /\ \A p \in Options \ {o} : option'[p] = option[p]
  BY <1>1
<1> QED BY <1>1, <1>2, OptionInv

(* A store in an Option changes that name and nothing else.                *)
LEMMA AssignInv ==
  ASSUME IInv, NEW o \in Options, NEW n \in Names, NEW v \in Values \cup {NULL},
         Assign(o, n, v)
  PROVE  /\ IInv' /\ pc' = pc /\ option'[o] # NULL
         /\ (option'[o]).settable_once = option[o].settable_once
         /\ \A k \in Names \ {n} : (option'[o])._d[k] = option[o]._d[k]
         /\ \A p \in Options \ {o} : option'[p] = option[p]
<1>1. /\ option \in [Options -> OptionObject \cup {NULL}] /\ option[o] \in OptionObject
      /\ pc \in {"imported", "failed"} /\ option' = [option EXCEPT ![o]._d[n] = v]
      /\ UNCHANGED <<pc, globals, ready, mod, refs, insert_st, pending>>
  BY DEF IInv, TypeOK, OptionObject, Assign, Usable
<1> DEFINE new == [option[o] EXCEPT !._d = [option[o]._d EXCEPT ![n] = v]]
<1>2. new \in OptionObject /\ new.settable_once = option[o].settable_once
      /\ \A k \in Names \ {n} : new._d[k] = option[o]._d[k]
  <2>1. /\ option[o]._d \in [Names -> Values \cup {CValue, NULL}]
        /\ option[o].settable_once \in BOOLEAN
    BY <1>1 DEF OptionObject
  <2>2. [option[o]._d EXCEPT ![n] = v] \in [Names -> Values \cup {CValue, NULL}]
    BY <2>1
  <2> QED BY <1>1, <2>1, <2>2 DEF OptionObject
<1>3. option' = [option EXCEPT ![o] = new]
  BY <1>1
<1>4. NULL \notin OptionObject
  BY TablesAssumption DEF OptionObject
<1> HIDE DEF new
<1>5. /\ option' \in [Options -> OptionObject \cup {NULL}] /\ option'[o] = new
      /\ \A p \in Options \ {o} : option'[p] = option[p]
  BY <1>1, <1>2, <1>3
<1>6. IInv'
  BY <1>1, <1>5, OptionInv
<1> QED BY <1>1, <1>2, <1>4, <1>5, <1>6

(* The setter: a store, or the crash on the way to its message.            *)
LEMMA SetterEnds ==
  ASSUME IInv, NEW o \in Options, NEW n \in Names, NEW v \in Values,
         NEW kind \in NameKinds, option__setattro(o, n, v, kind)
  PROVE  \/ Assign(o, n, v)
         \/ IInv' /\ pc' = "crashed" /\ option' = option
<1>1. CASE Assign(o, n, v)
  BY <1>1
<1>2. CASE Usable /\ Crash /\ UNCHANGED <<globals, ready, mod, refs, option, insert_st>>
  BY <1>2, OptionInv DEF Usable, Crash, IInv, TypeOK, OptionObject
<1> QED BY <1>1, <1>2 DEF option__setattro, SlipsThrough

-------------------------------------------------------------------------------
(* What is true when an import ends well.                                  *)
Completes ==
  pc # "imported" /\ pc' = "imported" =>
    /\ mod' = Exports \cup Tables \cup Names
    /\ \A t \in Tables : option'[t] # NULL
    /\ \A t \in Tables : \A n \in Consts[t] : (option'[t])._d[n] = CValue

(* The invariant is inductive, and an import completes as promised.        *)
LEMMA StepInv == IInv /\ [Next]_vars => IInv' /\ Completes
<1> SUFFICES ASSUME IInv, [Next]_vars PROVE IInv' /\ Completes
  OBVIOUS
<1>1. CASE init_bop_array \/ PyType_Ready \/ GlobalStrings
  <2>1. pc' # "imported"
    BY <1>1 DEF init_bop_array, PyType_Ready, GlobalStrings, Goto
  <2> QED BY <1>1, <2>1, EarlyInv DEF Completes
<1>2. CASE Export
  <2>1. pc' # "imported"
    BY <1>2 DEF Export, Crash
  <2> QED BY <1>2, <2>1, ExportInv DEF Completes
<1>3. CASE insert_attr_flags
  <2>1. IInv'
    BY <1>3, FlagsInv DEF insert_attr_flags, Tables
  <2>2. pc' # "imported"
    BY <1>3 DEF insert_attr_flags, insert_flags, Goto, Crash
  <2> QED BY <2>1, <2>2 DEF Completes
<1>4. CASE insert_value_flags
  <2>1. IInv'
    BY <1>4, FlagsInv DEF insert_value_flags, Tables
  <2> QED BY <1>4, <2>1, FlagsComplete DEF Completes
<1>5. ASSUME NEW x \in mod, Delete(x) PROVE IInv' /\ Completes
  BY <1>5, DeleteInv DEF Completes, Delete
<1>6. ASSUME NEW o \in Own, NEW flag \in BOOLEAN, option__new(o, flag)
      PROVE  IInv' /\ Completes
  <2>1. pc' \in {pc, "crashed"}
    BY <1>6 DEF option__new, Crash
  <2> QED BY <1>6, <2>1, NewOption DEF Completes
<1>7. ASSUME NEW o \in Own, option__dealloc(o) PROVE IInv' /\ Completes
  BY <1>7, DeallocOption DEF Completes, option__dealloc
<1>8. ASSUME NEW o \in Options, NEW n \in Names, NEW v \in Values,
             NEW kind \in NameKinds, option__setattro(o, n, v, kind)
      PROVE  IInv' /\ Completes
  BY <1>8, SetterEnds, AssignInv DEF Completes
<1>9. ASSUME NEW o \in Options, NEW n \in Names, option__delattr(o, n)
      PROVE  IInv' /\ Completes
  BY <1>9, AssignInv DEF Completes, option__delattr
<1>10. CASE UNCHANGED vars
  BY <1>10 DEF vars, IInv, TypeOK, Stages, Exported, Entered, Completes
<1> QED BY <1>1, <1>2, <1>3, <1>4, <1>5, <1>6, <1>7, <1>8, <1>9, <1>10 DEF Next, Import

-------------------------------------------------------------------------------
(* The types of everything the import makes.                               *)
THEOREM TypeCorrect == Spec => []TypeOK
<1>1. IInv => TypeOK
  BY DEF IInv
<1> QED BY <1>1, InitInv, StepInv, PTL DEF Spec

(* A type that can be found in the module is ready, and the globals its    *)
(* methods read without a look are there, whatever failed.                 *)
THEOREM TypesCorrect == Spec => []TypesUsable
<1>1. IInv => TypesUsable
  BY Usable1
<1> QED BY <1>1, InitInv, StepInv, PTL DEF Spec

(* The C globals keep a reference of their own to what the module exports. *)
THEOREM GlobalsCorrect == Spec => []GlobalsHeld
<1>1. IInv => GlobalsHeld
  BY Usable1
<1> QED BY <1>1, InitInv, StepInv, PTL DEF Spec

(* An import that succeeds has made everything, for any number of          *)
(* constants and failures.                                                 *)
THEOREM ImportCorrect == Spec => ImportIsComplete
<1>1. Spec => [][Completes]_vars
  BY InitInv, StepInv, PTL DEF Spec
<1>2. [][Completes]_vars <=> ImportIsComplete
  BY PTL DEF Completes, ImportIsComplete
<1> QED BY <1>1, <1>2

-------------------------------------------------------------------------------
(* When the tables are what their documentation says.                      *)

(* The tables of an import that has ended are whole, and set once.         *)
Fixed ==
  pc = "imported" =>
    \A t \in Tables : /\ option[t] # NULL /\ option[t].settable_once
                      /\ \A n \in Consts[t] : option[t]._d[n] = CValue

(* The tables are left alone.                                              *)
LEMMA FixedIfSame ==
  ASSUME Fixed, pc' = pc, \A t \in Tables : option'[t] = option[t]
  PROVE  Fixed'
BY DEF Fixed

(* The program's stores: with a set-once Option, those that are no use      *)
(* against the rule meet only names that are not set.                       *)
LEMMA FixedSet ==
  ASSUME IInv, Fixed, ReadOnlyUse, NEW o \in Options, NEW n \in Names, NEW v \in Values,
         NEW kind \in NameKinds, option__setattro(o, n, v, kind)
  PROVE  Fixed'
<1>1. CASE pc' = "crashed"
  BY <1>1 DEF Fixed
<1>2. CASE Assign(o, n, v)
  <2>1. /\ pc' = pc /\ option'[o] # NULL
        /\ (option'[o]).settable_once = option[o].settable_once
        /\ \A k \in Names \ {n} : (option'[o])._d[k] = option[o]._d[k]
        /\ \A p \in Options \ {o} : option'[p] = option[p]
    BY <1>2, AssignInv
  <2>2. CASE o \notin Tables \/ pc # "imported"
    BY <2>1, <2>2 DEF Fixed, Options
  <2>3. CASE o \in Tables /\ pc = "imported"
    <3>1. option[o].settable_once /\ pc' # "crashed"
      BY <2>1, <2>3 DEF Fixed
    <3>2. option[o]._d[n] = NULL
      BY <2>3, <3>1 DEF option__setattro, ReadOnlyUse, Crash
    <3>3. CValue # NULL
      BY TablesAssumption
    <3>4. n \notin Consts[o] /\ Consts[o] \subseteq Names
      BY <2>3, <3>2, <3>3 DEF Fixed, Consts, Names, Tables
    <3>5. \A k \in Consts[o] : (option'[o])._d[k] = CValue
      BY <2>1, <2>3, <3>4 DEF Fixed
    <3> QED BY <2>1, <2>3, <3>1, <3>5 DEF Fixed, Options
  <2> QED BY <2>2, <2>3
<1> QED BY <1>1, <1>2, SetterEnds

(* Every step that uses the tables as read only leaves them fixed.         *)
LEMMA FixedStep ==
  ASSUME IInv, Fixed, [Next /\ ReadOnlyUse]_vars
  PROVE  Fixed'
<1>0. Tables \cap Own = {} /\ Tables \subseteq Options
  BY TablesAssumption DEF Options
<1>1. CASE init_bop_array \/ PyType_Ready \/ GlobalStrings \/ Export \/ insert_attr_flags
  <2>1. pc' # "imported"
    BY <1>1 DEF init_bop_array, PyType_Ready, GlobalStrings, Export, Crash, Goto,
                insert_attr_flags, insert_flags
  <2> QED BY <2>1 DEF Fixed
<1>2. CASE insert_value_flags
  BY <1>2, FlagsComplete DEF Fixed
<1>3. ASSUME NEW x \in mod, Delete(x) PROVE Fixed'
  BY <1>3, FixedIfSame DEF Delete
<1>4. ASSUME NEW o \in Own, NEW flag \in BOOLEAN, option__new(o, flag) PROVE Fixed'
  <2>1. \A t \in Tables : option'[t] = option[t]
    BY <1>0, <1>4, NewOption
  <2>2. pc' \in {pc, "crashed"}
    BY <1>4 DEF option__new, Crash
  <2> QED BY <2>1, <2>2, FixedIfSame DEF Fixed
<1>5. ASSUME NEW o \in Own, option__dealloc(o) PROVE Fixed'
  <2>1. \A t \in Tables : option'[t] = option[t]
    BY <1>0, <1>5, DeallocOption
  <2> QED BY <1>5, <2>1, FixedIfSame DEF option__dealloc
<1>6. CASE UNCHANGED vars
  BY <1>6, FixedIfSame DEF vars
<1>7. CASE ReadOnlyUse
  <2>1. ASSUME NEW o \in Options, NEW n \in Names, NEW v \in Values,
               NEW kind \in NameKinds, option__setattro(o, n, v, kind)
        PROVE  Fixed'
    BY <1>7, <2>1, FixedSet
  <2>2. ASSUME NEW o \in Options, NEW n \in Names, option__delattr(o, n) PROVE Fixed'
    <3>1. o \notin Tables
      BY <1>7, <2>2 DEF ReadOnlyUse
    <3>2. pc' = pc /\ \A t \in Tables : option'[t] = option[t]
      BY <1>0, <2>2, <3>1, AssignInv DEF option__delattr
    <3> QED BY <3>2, FixedIfSame
  <2> QED BY <1>1, <1>2, <1>3, <1>4, <1>5, <1>6, <2>1, <2>2 DEF Next, Import, vars
<1> QED BY <1>6, <1>7

(* "exposes various constants in the CAPI as a read only attribute         *)
(* accessor" (OptionType.c:18-19) is true of a program that neither         *)
(* deletes a constant from its table nor sets one by a name of a class of   *)
(* its own: whatever it deletes from the module, whichever Options it makes *)
(* and drops and whatever it tries to set, every table of an import that    *)
(* succeeded holds every constant with the library's value.                 *)
THEOREM ReadOnlyTables == Init /\ [][Next /\ ReadOnlyUse]_vars => []ConstantsReadOnly
<1>1. Init => IInv /\ Fixed
  BY InitInv DEF Init, Fixed
<1>2. IInv /\ Fixed /\ [Next /\ ReadOnlyUse]_vars => IInv' /\ Fixed'
  BY StepInv, FixedStep
<1>3. Fixed => ConstantsReadOnly
  BY DEF Fixed, ConstantsReadOnly
<1> QED BY <1>1, <1>2, <1>3, PTL
===============================================================================
