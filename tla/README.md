# A TLA+ model of PBSPy

PBSPy is a Python (2.x) extension module in C that wraps the interface library
of the PBS / TORQUE batch system (`pbs_ifl`), its resource monitor interface
and its log functions. This directory has TLA+ modules of its core, TLC
configurations that check them on small instances, and proofs that TLAPS checks
for every instance.

## 1. Inventory

Paths are relative to `src/src/main/c`.

| Component | State it keeps | Operations | Hard behaviour |
|---|---|---|---|
| **Server** `objects/PBSServerType.c` | `con_hdl`, `pbs_server`, its cached string `py_pbs_server`, `c_host`, `port`, `timeout`; the library's `pbs_server`, `pbs_errno` and connection table | constructor, destructor, `connect`, `disconnect`, 26 request methods, `timeout`, `repr` | handle lifetime, a global that every connect overwrites, error exits half-way, check of the handle long before its use |
| **Exception helper** `SET_PBS_EXCEPTION`, `module/mainModule.c` | static message buffers | make and set a `PBSException` | other code can run while the exception is built |
| **Attr and list conversion** `objects/PBSAttrType.c` | `name`, `value`, `rscn`, `bop` of an Attr; the C list a call builds | construction, setters and getters, `attr_to_c_attrl`, `attr_to_c_attropl`, `_free_*`, `PBSAttr_New`, `attrl_to_py_list` | borrowed strings, references and nodes on every error exit, iterators that run Python code |
| **Log** `objects/PBSLogType.c` | strings and mask of each object; the process's `msg_daemonname`, `*log_event_mask` and log file | `__init__`, setters, `open`, `close`, `error`, `event`, `record` | who owns a string, globals that point into objects |
| **BatchOp** `objects/PBSBatchOpType.c` | table of operators made at import; index of each object | conversion from a string, None or another BatchOp | an index that is always in the table, fallback when no operator is given |
| **Data** `objects/PBSDataType.c` | three references | `__init__`, getters, `PBSData_New`, `bs_to_py_list` | borrowed references, failures in the middle of an answer |
| **Option** `objects/OptionType.c` | a dictionary, `settable_once` | set, get, delete, iterate | "set once" through several operations |
| **Constants** `objects/PBSConstants.c` | two Option objects | filled at import | failure in the middle |
| **Mom** `objects/PBSMomType.c` (optional) | `stream`, `host`, `port`, `fullresp` | `open`, `close`, `config`, `addreq`, `getreq`, ... | unchecked stream |
| **Utilities** `common/utils.c`, `include/utils.h` | none | argument converters, argv and list copies | references on the error exits |
| **Module init** `module/mainModule.c` | global Python objects | `init` | early returns |

How they interact: a program calls methods of a Server (or Mom, Log). The
method checks its handle, converts its arguments (lists of Attr become linked
lists that point into the Attr's strings), calls the library with `con_hdl`,
frees the list and returns the answer or raises a `PBSException` with
`pbs_errno`. The extension never releases the interpreter lock: between two
points where Python code can run, a method is atomic. Those points are few
(reading an iterator that is Python code or a number that has an `__int__`,
comparing a key with an `__eq__` of its own, allocating a container object,
releasing one), and they are where the hazards are.

Not components of the running program: `setup.py`, `buildutils`, the Python
packages (imports only), the tests (read for call sequences), and
`torque4.cpp` (wrappers nothing calls).

### What makes each component correct

- Server: a handle is used only by the object that opened it, and only while
  open; errors reach the caller they belong to; what the object shows of itself
  is true of its connection.
- List conversion: nodes and references balance on every exit; the library gets
  the program's items in order, with strings that are alive.
- Log: every string has one owner and is freed once; the library's pointer to
  the name is valid.
- Module init, Option, constants: whatever fails on the way, a type that a
  program can reach is usable, a successful import is complete, and the tables of
  constants keep the library's values.
- Attr, BatchOp, Data: an object that a program can reach has the fields its
  methods read; the count of every object is the number of references to it; an
  answer that comes without an exception is whole.
- Mom: nothing, since no program can make one (section 6).

`PROJECT.json` lists the hazards with their lines; each is covered by the
properties named there, or says why not.

## 2. The plan

1. (done) `PBSServer`, `ConnPool`, `PBSServer_proofs`: the Server objects, the
   abstract connection pool, the refinement and the invariants.
2. (done) `AttrList`: the conversion of attribute lists.
3. (done) `PBSLog`: the Log objects.
4. (done) `NodeLoan`, the promise of `AttrList` (nodes are lent for one call and
   given back), and `AttrList_proofs`: its invariants and the refinement.
5. (done) `PBSLog_proofs`: types, `StringsOwned` and `OnlyInitLeaks`.
6. (done) `ModuleTables`: module initialisation, the Option objects and the
   constants, with an allocation that fails at any step; `ModuleTables_proofs`.
7. (done) `Answers`: Data, Attr and BatchOp objects, and how an answer of the
   library becomes such objects; `Answers_proofs`: types and whole Attrs.
8. (done) `AnswersCounts_proofs`: the reference counts, and what they are for, that
   no reference dangles and nothing is lost. `AnswersFaithful_proofs`: an answer
   without an exception is whole.
9. (done) Conditions under which what the code does wrong does not happen:
   `ChecksSuffice`, `FailuresReported`, `NameDefined`, `ReadOnlyTables` (see the
   proofs).
10. (left) A composition of `PBSServer` and `AttrList` has not been made: they share
   no variable, and what the one assumes of the other (the frame `"args"`: reading
   the arguments takes time, other code runs, then there is a list or an error) is
   what `CallReturns` and `LoanSpec` say of `AttrList`.

There are RECURSIVE operators nowhere: all modules can be proved about.

## 3. The modules

### PBSServer

One step is one C method, except where the code can enter Python: while the
arguments are read (`frame[t].pc = "args"`) and while the exception is built
(`frame[t].pc = "raise"`). Each thread has a frame, so any interleaving of
these parts with whole methods of other threads is a behaviour. Python code can
run in the middle of a method's arguments if one is a list, whose iterator may be
Python code, or a number, whose `__int__` may be (`msgjob`, `manager`, `terminate`,
`totpool`, `usepool`): `CallbackRequest`. The constructor, `connect` and the
`timeout` setter read their numbers before they look at any state, so that code
which runs there comes before their step.

| Module | Code |
|---|---|
| `svr[o]` | `PBSServerObject` (`include/PBSServerType.h:32-40`) |
| `conn`, `pbs_errno`, `lib_pbs_server` | the library's connection table and globals |
| `common_parse_init` | the set of ways lines 87-134 may end |
| `svr_connect` = `ConnectTo`, `ConnectFails`, `ConnectSucceeds`, `ConnectUndone` | lines 381-431, one operator for each exit |
| `svr_disconnect`, `reset_PBSServerObject`, `svr__dealloc` | 439-457, 59-84, 158-163 |
| `PlainRequest`, `CallbackRequest`, `Converted`, `ToLibrary`, `Granted`, `Refused` | the common course of the request methods; each method is an action that names its kind |
| `Raise`, `SET_PBS_EXCEPTION` | the two halves of the exception helper: arguments evaluated, exception set |

Abstracted: job ids, attributes, answers and message texts. A request keeps how
it is sent (which object, which handle, to whose connection) and how the answer
is reported. Kinds of requests: `rc`, `obj` (an object is made of the answer),
`stat`, `pool`, `avail`, `submit`, `unchecked`. `sent` and `ret` are what a step
gave to the library and to the program; they are observations, not state of the
code. A call with no arguments cannot fail while they are read, and a granted call
of kind `rc` or `pool` cannot fail any more, since a small number needs no memory.

`submit` has a format of six letters for four keywords; the interpreter refuses a
call that reaches the letters too many, perhaps after an `__int__` has run, and the
model allows this outcome for every call. `selstat` reads its first argument as the
list of attributes. A call of it with more arguments stores them through pointers
it was never given, which has no defined outcome and is not a step.

External: the library. `pbs_connect` gives a free entry of a finite table, or
-1 and an error; `pbs_disconnect` closes, or fails and leaves the entry open;
any request may be refused with any error. `stat` calls are assumed to reset
`pbs_errno` (the code relies on it: it tells an empty list from an error by
`pbs_errno`). The library's host global is set before every connect attempt, as
the comment at line 406 says.

### ConnPool

What the Server objects promise: each entry of the library's table is free,
belongs to one object, or has been abandoned (open, and nobody has the handle).
`PBSServer` implements it under the mapping `PoolOwner`. Abandoning is part of
the promise because the code does it: `connect` on a connected object, a failed
`pbs_disconnect` in `reset_PBSServerObject`.

### AttrList

Calls that convert a list of Attrs, one local record each (`loc[c]`). `heap` has
the allocated nodes, `refs` the references taken by `PyIter_Next`, `kept` the
Attrs the program still refers to. Each call has either a plain list, whose
iterator is C code, or a subclass whose iterator is Python code
(`loc[c].plain`). While a plain list is read nobody else runs: `Turn(c)` is what
lets a call go on, `MayRun` what lets the rest of the program. At every
`PyIter_Next` of an iterator written in Python, and while it is released, Attrs
may be created, changed and dropped and other calls, plain ones too, may begin.
A C list is a sequence of nodes (appending walks to the tail), an Attr has one
string instead of three, and the operator field is left out (it is in
`Answers`). A null pointer that is dereferenced ends the process (`crashed`).

### NodeLoan

What `AttrList` promises: nodes are borrowed one by one for the items a call is
given, the library sees all these items in their order or nothing, and at the
end of the call all its nodes are given back. In the mapping a node's borrower
is the call in whose list it is.

### PBSLog

Log objects with real memory cells: `daemon_name`, `filename` and `directory`
are cells or null, `free_daemon_name` is true when the counter of the code is
not 0, `msg_daemonname` is a pointer and may dangle. `Stored` is the pattern
"allocate, fail or copy" of `log__init` and `log_set_name`; a failure leaves the
field null, as in the code. The mask argument of `__init__` is read with `O!`, so
it is the default or an address (`MaskGiven`). The setter stores what
`PyLong_AsLong` gives: a number that is no C long becomes -1, success is reported
and the exception is left set (`out = "unraised"`). `error`, `event` and `record`
change nothing in the model and are not actions.

### ModuleTables

The import as a sequence of steps (`pc`), one for each part of the init function
that may return early: operator strings, types, global strings, exports, and the
two tables of constants. `globals` has the C variables that are not null,
`ready` the types that are ready, `mod` the names in the module's dictionary,
`refs` the references to what it exports. After the import, whether it succeeded
or not (a failed one leaves the module in `sys.modules`), the program may delete
names and use the Option objects: `option[o]` is an `OptionObject`. Results the
code does not look at (`PyModule_AddObject`, a constant whose strings cannot be
made) may be failures here too; they only leave `pending`, the exception that
makes the interpreter refuse the import. A name that a program sets may be a str,
a unicode, or a str of its own class (`NameKinds`): the `__hash__` and `__eq__` of the
last run in the lookup of line 131 and again in the store of line 137, so that the
check of a set-once Option may miss a name that is set (`SlipsThrough`). Nothing runs between two steps of the
import but garbage collection, which is not modelled.

### Answers

The heap of the interpreter, as far as the extension fills it: `heap[p]` is an
object with its kind, the reference count that the code leaves it with, its
pointers, and the text of a string or the index of a BatchOp. `held` are the
references of the program, `frame` the local variables of a conversion that is
running. An answer is converted one allocation after the other, as the code
does it, and each of them may fail:

| Module | Code |
|---|---|
| `bs_to_py_list`, `attrl_to_py_list` | `C_LINKED_LIST_TO_PY_LIST` (`include/utils.h:69-95`), used twice |
| `PBSData_New`, `DataString` | `objects/PBSDataType.c:184-217` |
| `attr__new`, `PBSAttr_New`, `set_dict_string`, `attr__init` | `objects/PBSAttrType.c:55-93, 286-322`, `common/utils.c:23-40` |
| `argv_to_sequence`, `sequence_to_argv` | `common/utils.c:72-148` |
| `convert_to_string`, `convert_to_batchop`, `BatchOp_New`, `batchop_index` | the converters of arguments, as functions from a heap to the heaps they may leave |
| `bs__init`, `attr_set_str`, `attr_set_bop`, `bop_set_op`, getters | what the program does with the objects, one step each |
| `Dealloc` | an object whose count is not above 0 dies before anything else happens, and gives up its fields |

`Balance(p)` is the count of `p` less the references there are to it: those of
the program and of local variables, and the number of fields in the heap that
lead to `p` (`Fields`). `Sound` says, without counting, that no reference leads to
an object that died. After a step that breaks it nothing more is modelled, as
what happens then is not defined. `PBS_NULLSTR`, the string the import makes once,
is a constant. References to None are not counted. Strings have no destructor that runs code (a subclass of
str may). In CPython 2 nobody checks whether a method that returns a list has left an
exception set. It reaches the program some time later (`Raise`), and before that the
program may use the list and call other methods; one of these that fails gives the
program an exception at once, and none is left then (`Ends`, `Fails`). A tuple of job
identifiers is the same as a list here; the array for the library (and the
`memset` of one place of it, `utils.c:123`) has no part in what follows. The empty tuple of `PBSAttr_New` always exists. The interpreter's
lock is not released in a conversion, so the program waits until it returns.

## 4. The runs

| Run | Shows | Bounds |
|---|---|---|
| `ServerThreads` | `PoolSpec`, `HandleOwnership`, `ReprShowsConnection`, `CacheCoherent`, `RequestsStayHome`, `ErrorReporting` in every interleaving | 2 threads, 2 objects, 2 handles, 2 hosts, one method of each shape |
| `ServerMethods` | `TypeOK`, `ErrorReporting` for all 28 methods with ports, timeouts and constructor arguments | 2 threads, 1 object, 1 handle |
| `AttrLists` | `TypeOK`, `NodesOwned`, `RefsConserved`, `ListIsWhatWasGiven`, `LentStringsLive`, `LoanSpec`, `CallReturns`, with plain lists and with iterators that change the Attrs | 2 calls, 2 Attrs, 1 other object, 1 string, 2 nodes |
| `Answers` | `TypeOK`, `AttrWhole`, `CountsKept`, `AnswerFaithful`, whatever allocation fails and whatever the program does with the objects | 11 objects (`Objs`), 3 answers of 1 or 2 statuses with up to 2 attributes, 1 list of 2 job identifiers, 2 operators, 2 references held (`MaxHeld`), 3 objects when the program makes one itself (`MaxOwn`) |
| `LogObjects` | `TypeOK`, `StringsOwned`, `OnlyInitLeaks` | 2 Logs, 3 cells, 1 name, 1 path, masks: the default, one that is no C long (`LONG_MAX` is small), an address |
| `ModuleInit` | `TypeOK`, `TypesUsable`, `GlobalsHeld`, `ImportIsComplete` | 2 rows of operators, 3 constants, 1 Option of the program's own, at most 2 failing exports (`Failures`), changes of 4 names only (`Touched`) |
| `DocPoolCount`, `DocCheckedHandle`, `DocDefaultServer`, `DocAttrError`, `DocLogName`, `DocDataInit` | a counterexample to what a comment or doc string says | smallest that shows it |

Why the bounds are enough. Ownership and reporting relate at most two objects,
two threads and two entries of the table; with two handles the table is full
when both objects are connected, and with two hosts the global host name can be
another's. In `ServerMethods` the methods differ only in their kind, and one
object is enough because no method touches another. Two nodes are a list of two, or one node in each of two lists, and then memory is
exhausted, a case the code handles. Three cells are the three strings of one Log, or a
conflict between two. Every failure (refusal, allocation, parsing) is possible
at every step, not only when a bound is reached. Symmetry is used in the runs
without liveness, over sets whose members the module never tells apart
(`DefaultHost` is not in one).

In `ModuleInit` the exports fail independently of each other and the program's
changes of different names do not meet, so two failures and one name of each
kind (constant, exception, type, table) are enough.

In `Answers` eleven objects hold the largest of the answers with the objects of
the Attr being made, and one less is already an answer that runs out of memory;
besides, every allocation may fail by itself. An answer is asked for only by a
program that has no object, since it uses nothing of those, and while no exception is left
set by an earlier answer, which would be set after this one too (these bounds are in
`Request`). `MaxOwn` keeps the objects a program makes apart from those of an
answer, which are already many. Once a count is wrong the program only drops
what it has (`Next`): a longer program adds nothing to what went wrong.

`ModuleInit` may stop after a crash, or when a failed import left no object to
use; `AttrLists` only after the crash of `DocAttrError`; `Answers` after a
reference to a dead object was left (`DocDataInit`), or when a leak leaves no
object to go on with. That is why these runs do not check for deadlock.

### Findings

1. `DocPoolCount`: `totpool` and `usepool` treat a count as an error code.
2. `DocCheckedHandle`: a method that takes a list or a number checks its handle too
   early;
   after a disconnect in between the library gets -1. (It never gets another
   object's handle: `RequestsStayHome`.)
3. `DocDefaultServer`: `connect()` goes to the previous host, not the default.
4. `DocAttrError`: an iterator that raises makes the conversion release a null
   pointer.
5. `DocLogName`: after the death of a Log, `msg_daemonname` points to freed
   memory; the existing test does this.
6. `DocDataInit`: `Data.__init__` stores pointers without taking references, and
   the destructor releases them; the existing test does this.

Not a finding, but seen in the model: a list of strings that is sent leaks one
reference for each item (`sequence_to_argv`), and an answer in which an
allocation failed has empty places, with an exception set, which the program may use
before the exception reaches it. A mask that is no C long is stored as -1. The constants
are a "read only attribute accessor" (`OptionType.c:17-19`), but a program can delete
one and set it again, or set it by a name of a class of its own.

### Fairness

Only `AttrList` has a liveness property. Strong
fairness of each call's own steps: the interpreter's lock goes to every thread
that waits, but here the conversion of a plain list, in which nobody gets it, is
several steps, so that a call is disabled again and again while others convert
plain lists; weak fairness would let it wait forever, which the lock does not.
`CallReturns` holds even for an iterator that never ends, because each item takes a
node: memory ends first. For `PBSServer` such a property would only restate the
fairness of its two inner steps, and is left out.

## 5. The proofs

`PBSServer_proofs` proves, for all values of the constants allowed by
`ConstantsAssumption`:

- `TypeCorrect`, `HandlesOwned`, `ReprCorrect`, `CacheCorrect`, `RequestsHome`,
  `ErrorsReported`: the invariants of the runs;
- `Refinement`: `Spec => PoolSpec`;
- `OneConnectionEach`, `ConnectionsNotStolen`: no object has two connections, a
  connection never passes to another object, an abandoned one stays so.

`ConstantsAssumption` says what kinds of values the constants have: handles,
ports and timeouts are natural numbers and error numbers positive ones, and the
markers (null, "UNKNOWN", free, orphan) are not hosts, objects or records.

The argument. `IInv` is the conjunction of the type invariant, `FrameOK` (the
error a frame carries is the one its call must report, and its object lives),
`AllOwned` and `AllNamed` (for each entry of the table: the object that has the
handle opened it, lives, and has its host name), `CacheCoherent`,
`RequestsStayHome` and `ErrorReporting`. `HandleOwnership` alone is not
inductive for the error reports: a raised exception is reported later, from its
frame, hence `FrameOK`. Every action is first shown to do one of six things to
one object (`StepEffect`: made, edited, lost its handle, closed, opened, opened
and undone), and the invariants and the refinement are proved for these six, not
for thirty actions. What a step reports and what it sends are summarised in the
same way (`StepReports`, `SendsHandle`). Objects that do not exist have blank
fields, which is why an identity can be used again after `svr__dealloc`.

`AttrList_proofs` proves the five invariants of `AttrLists` and
`Refinement`: `Spec => LoanSpec`. `AttrListAssumption` says that Attrs, other
objects, nodes' contents and the markers are apart, and that there are finitely
many calls (`RefsConserved` counts them). The inductive invariant adds `FrameOK`:
an idle call has no item, no list and is not plain, only a call that left its
loop has an item in hand, and it has failed. `RefsConserved` and
`ListIsWhatWasGiven` need this at the steps that end a call. For
`LentStringsLive`, `Turn` and `MayRun` say that while a plain list is being read
nothing changes the Attrs. Every step is of one of four kinds (`Took` a
node, `Left` the loop, `Freed` the list, `Other`), and each conjunct is proved for
the four; the same four are the steps of `NodeLoan`.

`PBSLog_proofs` proves `TypeOK`, `StringsOwned` and `OnlyInitLeaks`. They are
inductive together with nothing else; the work is in `__init__`, which stores
three strings one after the other, each of which may fail. `Mid` is the
invariant between these parts: fields already stored are new cells or null,
those still to come are as they were. `Replaced` is the effect of `__init__` and
of the name setter as a whole, and from it the two properties follow for both.

`ModuleTables_proofs` proves `TypeOK`, `TypesUsable`, `GlobalsHeld`
and `ImportIsComplete` for any set of constants, operators, Options and
failures. The inductive invariant says for each stage of the import what is
there: all operators before the types, all types before the strings, all of
these before anything is exported, and in the module only what was exported so
far. `ImportIsComplete` needs in addition that no exception is set only if the
tables filled so far are complete. `ReadOnlyTables` (`ConstantsReadOnly` for a program
that keeps to `ReadOnlyUse`) adds that after the import the tables are there, are
set-once and have their constants (`Fixed`): what else a program does (other
Options, names deleted from the module, refused stores) cannot change that.
`TablesAssumption` says that the names the
module exports, its operators, its constants and the markers are apart.

`Answers_proofs` proves `TypeOK` and `AttrWhole` for any answers, table of
operators and number of objects. `AnswersAssumption` says what the library
answers (each string may be null), that the markers are apart from objects and
strings, and that the names in the table of operators are strings. `AttrWhole` is not
inductive: the fields of an Attr are converted one after the other, and while
that goes on the Attr, the dictionary and the list are only in local variables.
`IInv` adds where in the answer the conversion is (`FrameFits`) and that each
local variable leads to an object of its kind (`FrameLeads`). `Good(h, x)` says
that `h` is a heap in which every Attr in use is whole, but perhaps `x`, the one
being made by `attr__new`; `Keeps(h, g)` that nothing vanished from `h` to `g`.
Taking and giving up a reference, making an object and storing a pointer are
shown to preserve the first and to respect the second, once each, and every step
but the freeing of an object is a chain of these. An object is freed in a state
in which no pointer leads to it (`Sound`, also of the next state), so that no
Attr loses a field with it.

`AnswersCounts_proofs` proves `CountsKept`, and two theorems about programs that
keep away from what the code does wrong:

- `MemorySafe`: without a `Data.__init__` (`Careful`) no reference ever leads to an
  object that died;
- `NothingLeaks`: if besides no list of strings is sent (`Plain`), every object is
  alive exactly as long as there are references to it, as many as its count says.

They hold for programs of any length: `Careful` and `Plain` are not bounded by
`Balance(p) = 0` as `Next` is. The argument. `Surplus(h, p)` is the count of `p` in
the heap `h` less the fields that lead to it. What each operation on a heap does to
it is proved once: `Py_INCREF` adds one, `Py_DECREF` takes one, a new object has one,
a pointer stored into a field takes one for the new and adds one for the old value.
A step keeps the balance if what it does to the surplus it also does to the
references of the program and of local variables (`Squares`). A stored pointer
overwrites another one without giving up its reference, so this needs that nothing
is lost that way: `Shape` says for each stage of a conversion which local variables
have an object, and which places of the lists, of the Data and of the dictionary are
still empty (`EmptyFrom` and the other parts of `Rooms`). The fields of an object
that dies are a part of the fields of the heap, and those of every other object
lose as many as their count does. `AnswersAssumption` says that there are finitely
many objects, which is what makes the fields countable.

`AnswersFaithful_proofs` proves `AnswerFaithful`. `Faithful(h, fr)` says what is
already shown at each stage of a conversion, as long as no exception is set: the
items before the current one, the strings of the Data in hand, the Attrs of the
inner list that are stored, the entries of the dictionary. `TextShown`, `AttrShown`
and `DataShown` say what a pointer shows, and that it does not lead to an object in
the hands of the conversion (`InHand`): a step changes only such objects, so that
what was shown stays so (`TextOn`, `AttrOn`, `DataOn`), and only the part that it
fills has to be looked at. An object that dies is not shown, since nothing shown
leads to it (`Closed`). Besides, the object for the empty string must remain that
(`EmptyIs`), whatever a program does with it. TLC finds the whole invariant, `FInv`,
true for the instance of `Answers`.

For what the code does wrong, a theorem says what a program must avoid so that it
does not happen, and thereby that there is no other way to it. Each is proved from
`Init /\ [][Next /\ C]_vars`, for a condition `C` on the steps:

| finding | theorem | what the program avoids |
|---|---|---|
| `DocCheckedHandle` | `ChecksSuffice` (`PBSServer_proofs`) | connecting or disconnecting an object while a list or number is read for it (`Apart`) |
| `DocAttrError` | `FailuresReported` (`AttrList_proofs`) | iterators that raise (`Quiet`) |
| `DocLogName` | `NameDefined` (`PBSLog_proofs`) | the death of the Log that gave the library its name, or a new name for it that there is no memory for (`NameStays`) |
| constants not read only (no run, seen in the model) | `ReadOnlyTables` (`ModuleTables_proofs`) | deleting a constant, or setting one by a name of a class of its own (`ReadOnlyUse`) |
| `DocDataInit` | `MemorySafe` (`AnswersCounts_proofs`) | `Data.__init__` (`Careful`) |

`ChecksSuffice` adds to `IInv` that a method reading its arguments has an object that is
still connected; `FailuresReported` that a call that failed has its item in hand;
`NameDefined` needs nothing but what the Logs own. `DocPoolCount` and
`DocDefaultServer` are wrong without anything else happening and have no such
condition.

Only model-checked: the liveness property `CallReturns` of `AttrList`, which is outside
what the prover does, as is `ENABLED`.

## 6. Not modelled

- **Mom.** `rm_common_parse_init` (`PBSMomType.c:68-104`) names three keywords and
  its format has two. With host and port, or with an older interpreter always,
  the parser refuses this; with fewer arguments it succeeds and the third
  argument, still null, is dereferenced (`PyInt_Check`). So no program can make a
  Mom, and every state behind the constructor is unreachable. It is also compiled
  only on request.
- `argv_count_to_sequence`, `convert_to_boolean_int`, `convert_to_complex_string`
  (`utils.c`) and the wrappers of `torque4.cpp`: nothing calls them.
- Message texts and the buffers they are made in, which are read before other
  code can run; what `repr` prints, but for the host and handle of a Server.
- Threads in `PBSLog`: none of its methods runs Python code in the middle.
- The cyclic garbage collector, but where it makes other code run
  (`SET_PBS_EXCEPTION`); destructors of subclasses of str, which could see the null
  field between lines 277 and 278 of `utils.c`: `convert_to_string` is one replacement.
- Whether a `stat` call of the library resets `pbs_errno`; the model assumes it, as
  the code does, and so cannot show what happens otherwise.
- An exception that is already set when `AttrList` begins a conversion.
- A codec written in Python: a unicode argument is encoded by C code.
- The libraries themselves, which are external.
