------------------------------ MODULE PBSServer -------------------------------
(***************************************************************************)
(* The Server objects of the extension (PBSServerType.c) over the IFL      *)
(* library: a table of connections, the library's globals pbs_server and   *)
(* pbs_errno, and the Python threads that call the methods.                *)
(*                                                                         *)
(* The extension never releases the interpreter lock, so a C method is one *)
(* step, except where it runs Python code and another thread (or a         *)
(* callback) can enter:                                                    *)
(*   - while it reads its arguments (frame "args"): a list of attributes   *)
(*     or resources may be a subclass with methods of its own, and a       *)
(*     number may be any object with an __int__,                           *)
(*   - while SET_PBS_EXCEPTION builds the exception (frame "raise"; the    *)
(*     allocation of a tuple may start the garbage collector).             *)
(* Strings are read by C code, and connect, the constructor and the        *)
(* timeout setter read their numbers before they look at the object.       *)
(* Everything else the interpreter or the library can answer is a choice:  *)
(* a request fails or not, an allocation fails or not, the table is full.  *)
(***************************************************************************)
EXTENDS Integers

CONSTANTS
  Threads,          \* threads of the Python program
  Servers,          \* Server objects (identities, reused after dealloc)
  Handles,          \* the library's connection table: its handles
  Hosts,            \* PBS servers
  DefaultHost,      \* the one the library connects to when given no name
  Ports,            \* ports the program may give, besides none
  Timeouts,         \* timeouts the program may give, besides none
  CtorHosts,        \* hosts the program may give to Server(...)
  Errnos,           \* error numbers of the library
  Methods,          \* the methods the program calls
  NULL,             \* the C null pointer
  PBS_UNKNOWN_HOST  \* the string that stands for "no server"

NoPort == 0
NoTimeout == -1
PBSE_NONE == 0                  \* the library's "no error"
EINVAL == 22
PBS_BATCH_SERVICE_PORT == 15001
NotCalled == -2                 \* this call has not reached the library

(* How a method talks to the library and how it reports what it answers:   *)
(* "rc" (a code, None is returned), "obj" (an object is made of the        *)
(* answer), "stat" (a list; NULL may be an empty one), "pool" (a count),   *)
(* "avail" (the error is part of the string), and "submit" and             *)
(* "unchecked", which do not check the handle first.                       *)
Unchecked == {"submit", "unchecked"}
Requests == {"rc", "obj", "stat", "pool", "avail"} \cup Unchecked
Calls == Requests \cup {"connect", "disconnect", "dealloc"}

Object == [con_hdl : Handles \cup {-1},
           pbs_server : Hosts \cup {NULL},
           py_pbs_server : Hosts \cup {PBS_UNKNOWN_HOST},
           c_host : Hosts \cup {NULL},
           port : Ports \cup {NoPort},
           timeout : Timeouts \cup {NoTimeout}]

Connection == [host : Hosts, port : Ports \cup {NoPort}, by : Servers]

Errors == Errnos \cup {PBSE_NONE, EINVAL}
Verdicts == Errnos \cup {PBSE_NONE, NotCalled}

Frame == [pc : {"idle", "args", "raise"}, self : Servers \cup {NULL},
          call : Calls, err : Errors, lib : Verdicts]

Request == [call : Calls, self : Servers, hdl : Handles \cup {-1},
            conn : Connection \cup {NULL}]

(* "exc" is a PBSException, "error" another exception, "null" a NULL        *)
(* return with no exception set.                                           *)
Result == [call : Calls, out : {"value", "exc", "error", "null"},
           err : Errors, lib : Verdicts]

ASSUME ConstantsAssumption ==
  /\ Handles \subseteq Nat
  /\ Ports \subseteq Nat \ {0}
  /\ Timeouts \subseteq Nat
  /\ Errnos \subseteq Nat \ {0}
  /\ DefaultHost \in Hosts
  /\ CtorHosts \subseteq Hosts
  /\ NULL \notin Hosts \cup Servers \cup Connection \cup Request \cup Result
  /\ PBS_UNKNOWN_HOST \notin Hosts \cup {NULL}
  /\ {"free", "orphan"} \cap Servers = {}

VARIABLES
  live,             \* the Server objects that exist
  svr,              \* the PBSServerObject of each identity
  conn,             \* library: each handle's connection, NULL when free
  lib_pbs_server,   \* library global: the host of the last pbs_connect
  pbs_errno,        \* library global: the last error
  frame,            \* what each thread is in the middle of
  sent,             \* the request this step gave to the library, or NULL
  ret               \* what the call that ended in this step gave, or NULL

libVars == <<conn, lib_pbs_server, pbs_errno>>
vars == <<live, svr, libVars, frame, sent, ret>>

Idle == [pc |-> "idle", self |-> NULL, call |-> "rc",
         err |-> PBSE_NONE, lib |-> NotCalled]

VALID_CONNECT_HDL(h) == ~(h < 0)
VALID_PORT(p) == ~(p <= 0)

-------------------------------------------------------------------------------
(* What the library does (external: modelled from how the code uses it).   *)

(* It answers a connect with a free handle, or with -1 and an error.       *)
pbs_connect(o, to) ==
  {[hdl |-> -1, conn |-> conn, err |-> e] : e \in Errnos} \cup
  {[hdl |-> h, err |-> pbs_errno,
    conn |-> [conn EXCEPT ![h] = [host |-> to.host, port |-> to.port, by |-> o]]]
     : h \in {g \in Handles : conn[g] = NULL}}

(* It closes a connection of table c, or fails and leaves it as it was.    *)
pbs_disconnect(c, h) ==
  {[rc |-> 0, conn |-> [c EXCEPT ![h] = NULL], err |-> pbs_errno]} \cup
  {[rc |-> e, conn |-> c, err |-> e] : e \in Errnos}

(* The connection a handle stands for, NULL for the handle -1.             *)
At(h) == IF h \in Handles THEN conn[h] ELSE NULL

-------------------------------------------------------------------------------
(* How a call proceeds and ends.                                           *)

Return(t, call, out, err, lib) ==
  /\ frame' = [frame EXCEPT ![t] = Idle]
  /\ ret' = [call |-> call, out |-> out, err |-> err, lib |-> lib]

(* SET_PBS_EXCEPTION: its arguments are evaluated now, the exception is    *)
(* built while other threads may run.                                      *)
Raise(t, o, call, err, lib) ==
  /\ frame' = [frame EXCEPT ![t] = [pc |-> "raise", self |-> o, call |-> call,
                                    err |-> err, lib |-> lib]]
  /\ ret' = NULL

(* Variant with a bug: pbs_errno is read when the exception is made.       *)
ExceptionFromGlobal(t) ==
  /\ frame[t].pc = "raise"
  /\ Return(t, frame[t].call, "exc",
            IF frame[t].lib = NotCalled THEN EINVAL ELSE pbs_errno, frame[t].lib)
  /\ sent' = NULL
  /\ UNCHANGED <<live, svr, libVars>>

(* The rest of SET_PBS_EXCEPTION; when the tuple cannot be allocated the    *)
(* interpreter's own MemoryError is what the caller gets.                  *)
SET_PBS_EXCEPTION(t) ==
  /\ frame[t].pc = "raise"
  /\ \E out \in {"exc", "error"} :
       Return(t, frame[t].call, out, frame[t].err, frame[t].lib)
  /\ sent' = NULL
  /\ UNCHANGED <<live, svr, libVars>>

(* A thread that is not inside a method calls method m of a live object.   *)
Call(t, o, m) ==
  /\ m \in Methods
  /\ frame[t].pc = "idle"
  /\ o \in live
  /\ UNCHANGED live

-------------------------------------------------------------------------------
(* Construction, destruction and the object's fields.                      *)

(* Variant with a bug: the cached string is cleared and not set again.     *)
BlankWithoutString == [con_hdl |-> -1, pbs_server |-> NULL,
                       py_pbs_server |-> NULL, c_host |-> NULL,
                       port |-> NoPort, timeout |-> NoTimeout]

(* The fields of a new object, and what reset_PBSServerObject leaves.      *)
Blank == [con_hdl |-> -1, pbs_server |-> NULL,
          py_pbs_server |-> PBS_UNKNOWN_HOST, c_host |-> NULL,
          port |-> NoPort, timeout |-> NoTimeout]

svr__new(o) ==
  /\ o \notin live
  /\ live' = live \cup {o}
  /\ svr' = [svr EXCEPT ![o] = Blank]
  /\ sent' = NULL /\ ret' = NULL
  /\ UNCHANGED <<libVars, frame>>

(* Variant with a bug: the connection is closed and the handle kept.       *)
ResetKeepingHandle(o, s, c) ==
  /\ svr' = [svr EXCEPT ![o] = [Blank EXCEPT !.con_hdl = s.con_hdl]]
  /\ \/ /\ VALID_CONNECT_HDL(s.con_hdl)
        /\ \E r \in pbs_disconnect(c, s.con_hdl) :
             conn' = r.conn /\ pbs_errno' = r.err
     \/ /\ ~VALID_CONNECT_HDL(s.con_hdl)
        /\ conn' = c
        /\ UNCHANGED pbs_errno

(* Close the connection of o, throwing away the return code, and clear it. *)
(* s and c are the object and the table at the moment of the call.         *)
reset_PBSServerObject(o, s, c) ==
  /\ svr' = [svr EXCEPT ![o] = Blank]
  /\ \/ /\ VALID_CONNECT_HDL(s.con_hdl)
        /\ \E r \in pbs_disconnect(c, s.con_hdl) :
             conn' = r.conn /\ pbs_errno' = r.err
     \/ /\ ~VALID_CONNECT_HDL(s.con_hdl)
        /\ conn' = c
        /\ UNCHANGED pbs_errno

(* The library request made for o with handle h.                           *)
Sending(call, o, h) == [call |-> call, self |-> o, hdl |-> h, conn |-> At(h)]

(* The last reference is dropped: a method in progress holds one.          *)
svr__dealloc(o) ==
  /\ o \in live
  /\ \A t \in Threads : frame[t].self # o
  /\ live' = live \ {o}
  /\ reset_PBSServerObject(o, svr[o], conn)
  /\ sent' = IF VALID_CONNECT_HDL(svr[o].con_hdl)
               THEN Sending("dealloc", o, svr[o].con_hdl) ELSE NULL
  /\ ret' = NULL
  /\ UNCHANGED <<lib_pbs_server, frame>>

Args(hosts) == [host : hosts \cup {NULL}, port : Ports \cup {NoPort},
                timeout : Timeouts \cup {NoTimeout}]
NoArgs == [host |-> NULL, port |-> NoPort, timeout |-> NoTimeout]

(* The ways common_parse_init may end for object s and arguments a: those  *)
(* that are given may be of a wrong type, or a port is given without a     *)
(* host; the old c_host is freed before the new one is allocated, and the  *)
(* other arguments are not stored if that fails.                           *)
common_parse_init(s, a) ==
  (IF a = NoArgs THEN {} ELSE {[out |-> "error", obj |-> s]}) \cup
  IF VALID_PORT(a.port) /\ a.host = NULL
    THEN {}
    ELSE {[out |-> "value",
           obj |-> [s EXCEPT
             !.c_host = IF a.host # NULL THEN a.host ELSE @,
             !.port = IF VALID_PORT(a.port) THEN a.port ELSE @,
             !.timeout = IF a.timeout >= 0 THEN a.timeout ELSE @]]} \cup
         {[out |-> "null", obj |-> [s EXCEPT !.c_host = NULL]] :
             h \in {a.host} \ {NULL}}

svr__init(o, a) ==
  /\ o \in live
  /\ \E p \in common_parse_init(svr[o], a) : svr' = [svr EXCEPT ![o] = p.obj]
  /\ sent' = NULL /\ ret' = NULL
  /\ UNCHANGED <<live, libVars, frame>>

svr_set_timeout(o, v) ==
  /\ o \in live
  /\ svr' = [svr EXCEPT ![o].timeout = v]
  /\ sent' = NULL /\ ret' = NULL
  /\ UNCHANGED <<live, libVars, frame>>

(* What repr() and str() show of the object.                               *)
svr__repr(o) ==
  IF svr[o].pbs_server # NULL
    THEN [host |-> svr[o].pbs_server, hdl |-> svr[o].con_hdl,
          port |-> IF svr[o].port # NoPort THEN svr[o].port
                                           ELSE PBS_BATCH_SERVICE_PORT]
    ELSE [host |-> svr[o].py_pbs_server]

-------------------------------------------------------------------------------
(* connect and disconnect.                                                 *)

(* The "host", "host:port" or NULL that pbs_connect is given.              *)
ConnectTo(s) ==
  [host |-> IF s.c_host # NULL THEN s.c_host ELSE DefaultHost,
   port |-> IF s.c_host # NULL /\ VALID_PORT(s.port) THEN s.port ELSE NoPort]

(* pbs_connect failed: con_hdl is overwritten, the other fields stay.      *)
ConnectFails(t, o, s, r) ==
  /\ r.hdl < 0
  /\ svr' = [svr EXCEPT ![o] = [s EXCEPT !.con_hdl = r.hdl]]
  /\ conn' = r.conn
  /\ pbs_errno' = r.err
  /\ Raise(t, o, "connect", r.err, r.err)

(* Variants with a bug: the name asked for is stored, not the library's;   *)
(* the cached string is made only the first time.                          *)
ConnectStoresRequest(t, o, s, r) ==
  /\ ~(r.hdl < 0)
  /\ svr' = [svr EXCEPT ![o] = [s EXCEPT !.con_hdl = r.hdl,
                                         !.pbs_server = s.c_host,
                                         !.py_pbs_server = lib_pbs_server']]
  /\ conn' = r.conn
  /\ pbs_errno' = r.err
  /\ Return(t, "connect", "value", PBSE_NONE, PBSE_NONE)

ConnectCachesOnce(t, o, s, r) ==
  /\ ~(r.hdl < 0)
  /\ svr' = [svr EXCEPT ![o] =
       [s EXCEPT !.con_hdl = r.hdl, !.pbs_server = lib_pbs_server',
                 !.py_pbs_server = IF @ = PBS_UNKNOWN_HOST
                                     THEN lib_pbs_server' ELSE @]]
  /\ conn' = r.conn
  /\ pbs_errno' = r.err
  /\ Return(t, "connect", "value", PBSE_NONE, PBSE_NONE)

(* It succeeded, and the library's host name is copied to the object.      *)
ConnectSucceeds(t, o, s, r) ==
  /\ ~(r.hdl < 0)
  /\ svr' = [svr EXCEPT ![o] = [s EXCEPT !.con_hdl = r.hdl,
                                         !.pbs_server = lib_pbs_server',
                                         !.py_pbs_server = lib_pbs_server']]
  /\ conn' = r.conn
  /\ pbs_errno' = r.err
  /\ Return(t, "connect", "value", PBSE_NONE, PBSE_NONE)

(* It succeeded, but there is no memory for a copy of the host name.       *)
ConnectUndone(t, o, s, r) ==
  /\ ~(r.hdl < 0)
  /\ reset_PBSServerObject(o, [s EXCEPT !.con_hdl = r.hdl], r.conn)
  /\ \E out \in {"null", "error"} : Return(t, "connect", out, PBSE_NONE, PBSE_NONE)

svr_connect(t, o, a) ==
  /\ Call(t, o, "connect")
  /\ sent' = NULL
  /\ \E p \in common_parse_init(svr[o], a) :
       \/ /\ p.out # "value"
          /\ svr' = [svr EXCEPT ![o] = p.obj]
          /\ Return(t, "connect", p.out, PBSE_NONE, NotCalled)
          /\ UNCHANGED libVars
       \/ /\ p.out = "value"
          /\ lib_pbs_server' = ConnectTo(p.obj).host
          /\ \E r \in pbs_connect(o, ConnectTo(p.obj)) :
               \/ ConnectFails(t, o, p.obj, r)
               \/ ConnectSucceeds(t, o, p.obj, r)
               \/ ConnectUndone(t, o, p.obj, r)

(* Variant with a bug: con_hdl is not set to -1 before the reset, which    *)
(* therefore closes the handle a second time, or tries to.                 *)
DisconnectKeepingHandle(t, o) ==
  /\ Call(t, o, "disconnect")
  /\ UNCHANGED lib_pbs_server
  /\ IF VALID_CONNECT_HDL(svr[o].con_hdl)
       THEN /\ sent' = Sending("disconnect", o, svr[o].con_hdl)
            /\ \E r \in pbs_disconnect(conn, svr[o].con_hdl) :
                 conn' = r.conn /\ pbs_errno' = r.err
       ELSE sent' = NULL /\ UNCHANGED <<conn, pbs_errno>>
  /\ Return(t, "disconnect", "value", PBSE_NONE, PBSE_NONE)
  /\ UNCHANGED svr

(* A failed pbs_disconnect is reported and leaves the object as it was.    *)
svr_disconnect(t, o) ==
  /\ Call(t, o, "disconnect")
  /\ UNCHANGED lib_pbs_server
  /\ \/ /\ ~VALID_CONNECT_HDL(svr[o].con_hdl)
        /\ reset_PBSServerObject(o, svr[o], conn)
        /\ sent' = NULL
        /\ Return(t, "disconnect", "value", PBSE_NONE, NotCalled)
     \/ /\ VALID_CONNECT_HDL(svr[o].con_hdl)
        /\ sent' = Sending("disconnect", o, svr[o].con_hdl)
        /\ \E r \in pbs_disconnect(conn, svr[o].con_hdl) :
             \/ /\ r.rc # 0
                /\ conn' = r.conn
                /\ pbs_errno' = r.err
                /\ Raise(t, o, "disconnect", r.err, r.rc)
                /\ UNCHANGED svr
             \/ /\ r.rc = 0
                /\ pbs_errno' = r.err
                /\ svr' = [svr EXCEPT ![o] = Blank]
                /\ conn' = r.conn
                /\ Return(t, "disconnect", "value", PBSE_NONE, PBSE_NONE)

-------------------------------------------------------------------------------
(* The requests.                                                           *)

(* RETURN_INVALID_HDL: the exception of a method that checks the handle.   *)
RETURN_INVALID_HDL(t, o, call) ==
  /\ ~VALID_CONNECT_HDL(svr[o].con_hdl)
  /\ Raise(t, o, call, EINVAL, NotCalled)
  /\ sent' = NULL
  /\ UNCHANGED <<svr, libVars>>

(* Arguments of the wrong type or number, or a list that cannot be         *)
(* converted; "null" is the PyMem_New failure that sets no exception.      *)
BadArguments(t, call) ==
  /\ \E out \in {"error", "null"} : Return(t, call, out, PBSE_NONE, NotCalled)
  /\ sent' = NULL
  /\ UNCHANGED <<svr, libVars>>

(* The library granted the request.  stat calls set pbs_errno (the code     *)
(* tells an empty list from a failure by it); a pool call gives a count     *)
(* and the code takes every count but 0 for an error.  There may be no      *)
(* memory for the object to return, but None and 0 are always there.       *)
Granted(t, o, call) ==
  /\ pbs_errno' = IF call = "stat" THEN PBSE_NONE ELSE pbs_errno
  /\ \/ Return(t, call, "value", PBSE_NONE, PBSE_NONE)
     \/ call \notin {"rc", "pool"} /\ Return(t, call, "error", PBSE_NONE, PBSE_NONE)
     \/ call = "pool" /\ Raise(t, o, call, pbs_errno, PBSE_NONE)

(* Variant with a bug: NULL from a stat call always means an empty list.   *)
RefusedStatIsEmpty(t, o, call, e) ==
  /\ pbs_errno' = e
  /\ \/ /\ call \in {"avail", "stat"}
        /\ Return(t, call, "value", PBSE_NONE, e)
     \/ /\ call = "submit" /\ Return(t, call, "null", PBSE_NONE, e)
     \/ /\ call \notin {"avail", "stat", "submit"}
        /\ Raise(t, o, call, e, e)

(* The library refused it with error e.                                    *)
Refused(t, o, call, e) ==
  /\ pbs_errno' = e
  /\ \/ /\ call = "avail"  /\ Return(t, call, "value", PBSE_NONE, e)
     \/ /\ call = "submit" /\ Return(t, call, "null", PBSE_NONE, e)
     \/ /\ call \notin {"avail", "submit"}
        /\ Raise(t, o, call, e, e)

(* The library call: the handle is read from the object at this moment.    *)
ToLibrary(t, o, call) ==
  /\ sent' = Sending(call, o, svr[o].con_hdl)
  /\ Granted(t, o, call) \/ \E e \in Errnos : Refused(t, o, call, e)
  /\ UNCHANGED <<svr, conn, lib_pbs_server>>

(* A request whose arguments are read without entering Python.             *)
PlainRequest(t, o, call) ==
  \/ call \notin Unchecked /\ RETURN_INVALID_HDL(t, o, call)
  \/ /\ call \in Unchecked \/ VALID_CONNECT_HDL(svr[o].con_hdl)
     /\ BadArguments(t, call) \/ ToLibrary(t, o, call)

(* A request that takes a list or a number.  The handle is checked first;  *)
(* the argument may be left out, or be read without entering Python, or    *)
(* other code may run before all arguments are read.                       *)
CallbackRequest(t, o, call) ==
  \/ PlainRequest(t, o, call)
  \/ /\ call \in Unchecked \/ VALID_CONNECT_HDL(svr[o].con_hdl)
     /\ frame' = [frame EXCEPT ![t] = [pc |-> "args", self |-> o, call |-> call,
                                       err |-> PBSE_NONE, lib |-> NotCalled]]
     /\ sent' = NULL /\ ret' = NULL
     /\ UNCHANGED <<svr, libVars>>

(* The arguments are read (or cannot be) and the method goes on.           *)
Converted(t) ==
  /\ frame[t].pc = "args"
  /\ BadArguments(t, frame[t].call) \/ ToLibrary(t, frame[t].self, frame[t].call)
  /\ UNCHANGED live

svr_avail(t, o)       == Call(t, o, "avail")       /\ PlainRequest(t, o, "avail")
svr_asyrunjob(t, o)   == Call(t, o, "asyrunjob")   /\ PlainRequest(t, o, "rc")
svr_deljob(t, o)      == Call(t, o, "deljob")      /\ PlainRequest(t, o, "rc")
svr_holdjob(t, o)     == Call(t, o, "holdjob")     /\ PlainRequest(t, o, "rc")
svr_locjob(t, o)      == Call(t, o, "locjob")      /\ PlainRequest(t, o, "obj")
svr_movejob(t, o)     == Call(t, o, "movejob")     /\ PlainRequest(t, o, "rc")
svr_orderjob(t, o)    == Call(t, o, "orderjob")    /\ PlainRequest(t, o, "rc")
svr_rerunjob(t, o)    == Call(t, o, "rerunjob")    /\ PlainRequest(t, o, "rc")
svr_rlsjob(t, o)      == Call(t, o, "rlsjob")      /\ PlainRequest(t, o, "rc")
svr_sigjob(t, o)      == Call(t, o, "sigjob")      /\ PlainRequest(t, o, "rc")
svr_rescrelease(t, o) == Call(t, o, "rescrelease") /\ PlainRequest(t, o, "rc")

svr_msgjob(t, o)      == Call(t, o, "msgjob")      /\ CallbackRequest(t, o, "rc")
svr_terminate(t, o)   == Call(t, o, "terminate")   /\ CallbackRequest(t, o, "rc")
svr_totpool(t, o)     == Call(t, o, "totpool")     /\ CallbackRequest(t, o, "pool")
svr_usepool(t, o)     == Call(t, o, "usepool")     /\ CallbackRequest(t, o, "pool")
svr_manager(t, o)     == Call(t, o, "manager")     /\ CallbackRequest(t, o, "rc")

svr_alterjob(t, o)    == Call(t, o, "alterjob")    /\ CallbackRequest(t, o, "rc")
svr_selectjob(t, o)   == Call(t, o, "selectjob")   /\ CallbackRequest(t, o, "obj")
svr_rescreserve(t, o) == Call(t, o, "rescreserve") /\ CallbackRequest(t, o, "obj")
svr_rescquery(t, o)   == Call(t, o, "rescquery")   /\ CallbackRequest(t, o, "unchecked")
generic_query(t, o)   == CallbackRequest(t, o, "stat")
svr_statserver(t, o)  == Call(t, o, "statserver")  /\ CallbackRequest(t, o, "stat")
svr_statjob(t, o)     == Call(t, o, "statjob")     /\ generic_query(t, o)
svr_statque(t, o)     == Call(t, o, "statque")     /\ generic_query(t, o)
svr_statnode(t, o)    == Call(t, o, "statnode")    /\ generic_query(t, o)

(* The format has six letters for four keywords: with an "extend", which   *)
(* its fourth letter reads as a number, or with anything else that reaches *)
(* that letter, the interpreter refuses the call, perhaps only after an    *)
(* __int__ has run (BadArguments), and an older one refuses every call.    *)
svr_submit(t, o)      == Call(t, o, "submit")      /\ CallbackRequest(t, o, "submit")

(* The list is the first argument: nothing ever fills py_select_list.  A    *)
(* call with more arguments, stored through pointers that are not given to *)
(* the parser, has no defined outcome and is not a step.                   *)
svr_selstat(t, o)     == Call(t, o, "selstat")     /\ CallbackRequest(t, o, "stat")

-------------------------------------------------------------------------------
Init ==
  /\ live = {}
  /\ svr = [o \in Servers |-> Blank]
  /\ conn = [h \in Handles |-> NULL]
  /\ lib_pbs_server = NULL
  /\ pbs_errno = PBSE_NONE
  /\ frame = [t \in Threads |-> Idle]
  /\ sent = NULL
  /\ ret = NULL

PlainMethod(t, o) ==
  \/ svr_avail(t, o)    \/ svr_asyrunjob(t, o) \/ svr_deljob(t, o)
  \/ svr_holdjob(t, o)  \/ svr_locjob(t, o)    \/ svr_movejob(t, o)
  \/ svr_orderjob(t, o) \/ svr_rerunjob(t, o)  \/ svr_rlsjob(t, o)
  \/ svr_sigjob(t, o)   \/ svr_rescrelease(t, o)

CallbackMethod(t, o) ==
  \/ svr_msgjob(t, o)     \/ svr_terminate(t, o)   \/ svr_totpool(t, o)
  \/ svr_usepool(t, o)    \/ svr_manager(t, o)
  \/ svr_alterjob(t, o)   \/ svr_selectjob(t, o)   \/ svr_submit(t, o)
  \/ svr_rescquery(t, o)  \/ svr_rescreserve(t, o)
  \/ svr_statserver(t, o) \/ svr_statjob(t, o)     \/ svr_statque(t, o)
  \/ svr_statnode(t, o)   \/ svr_selstat(t, o)

Next ==
  \/ \E o \in Servers :
       \/ svr__new(o)
       \/ svr__dealloc(o)
       \/ \E a \in Args(CtorHosts) : svr__init(o, a)
       \/ \E v \in Timeouts \cup {NoTimeout} : svr_set_timeout(o, v)
  \/ \E t \in Threads, o \in Servers :
       \/ \E a \in Args(Hosts) : svr_connect(t, o, a)
       \/ svr_disconnect(t, o)
       \/ PlainMethod(t, o)
       \/ CallbackMethod(t, o)
  \/ \E t \in Threads : Converted(t) \/ SET_PBS_EXCEPTION(t)

Spec == Init /\ [][Next]_vars

-------------------------------------------------------------------------------
TypeOK ==
  /\ live \in SUBSET Servers
  /\ svr \in [Servers -> Object]
  /\ conn \in [Handles -> Connection \cup {NULL}]
  /\ lib_pbs_server \in Hosts \cup {NULL}
  /\ pbs_errno \in Errnos \cup {PBSE_NONE}
  /\ frame \in [Threads -> Frame]
  /\ sent \in Request \cup {NULL}
  /\ ret \in Result \cup {NULL}

(* The handle of a Server object is its own open connection: never a closed *)
(* entry of the table, never one another object opened; an object that does *)
(* not exist has none.  (con_hdl, through connect, disconnect, dealloc and  *)
(* the error exits of connect, PBSServerType.c:59-84, 381-457.)             *)
HandleOwnership ==
  \A o \in Servers :
    VALID_CONNECT_HDL(svr[o].con_hdl) =>
      /\ o \in live
      /\ At(svr[o].con_hdl) # NULL
      /\ At(svr[o].con_hdl).by = o

(* A connected object shows the server and the handle it is connected to,   *)
(* although the name is copied from a global of the library that every      *)
(* connect overwrites (PBSServerType.c:177-189, 413-424).                   *)
ReprShowsConnection ==
  \A o \in Servers :
    VALID_CONNECT_HDL(svr[o].con_hdl) =>
      /\ svr[o].pbs_server # NULL
      /\ svr__repr(o).host = At(svr[o].con_hdl).host
      /\ svr__repr(o).hdl = svr[o].con_hdl

(* py_pbs_server is "PyString cache of above" (PBSServerType.h:38): it is   *)
(* the string of pbs_server, or "UNKNOWN" when there is none, after every   *)
(* way a connect or a disconnect may end.                                   *)
CacheCoherent ==
  \A o \in Servers :
    svr[o].py_pbs_server = IF svr[o].pbs_server = NULL
                             THEN PBS_UNKNOWN_HOST ELSE svr[o].pbs_server

(* No request ever reaches the connection of another object or a closed     *)
(* one, also when other threads ran between the check of the handle and     *)
(* the request: methods read con_hdl again when they call the library.      *)
RequestsStayHome ==
  sent # NULL =>
    \/ sent.hdl = -1
    \/ sent.conn # NULL /\ sent.conn.by = sent.self

(* A library error is reported to the caller it belongs to, with its own    *)
(* number, whatever other threads did to pbs_errno while the exception was  *)
(* built; and what the library granted is not reported as a PBSException.   *)
(* Excepted are the methods that do not work so: submit returns NULL with   *)
(* no exception, avail answers in the string, and the pool calls.           *)
ErrorReporting ==
  ret # NULL /\ ret.call \notin {"submit", "avail", "pool"} =>
    /\ ret.lib \in Errnos => ret.out \in {"exc", "error"}
    /\ ret.out = "exc" => ret.err = IF ret.lib \in Errnos THEN ret.lib ELSE EINVAL
    /\ ret.out = "exc" => ret.lib # PBSE_NONE

(* The Server objects implement the connection pool of ConnPool: an entry   *)
(* belongs to the object that opened it while that object has its handle.   *)
Orphan == "orphan"
Free == "free"
PoolOwner == [h \in Handles |->
                IF conn[h] = NULL THEN Free
                ELSE IF svr[conn[h].by].con_hdl = h THEN conn[h].by
                ELSE Orphan]
Pool == INSTANCE ConnPool WITH owner <- PoolOwner
PoolSpec == Pool!Spec

-------------------------------------------------------------------------------
(* What the documentation says, and the code does not do.                  *)

(* "called with no arguments, default server and port are used"             *)
(* (PBSServerType.c:377).                                                   *)
NoArgsMeansDefault ==
  [][\A t \in Threads, o \in Servers :
       svr_connect(t, o, NoArgs) => lib_pbs_server' = DefaultHost]_vars

(* "blow out if connection not initialized" (PBSServerType.c:332, 960 and   *)
(* in every method that checks): such a method gives the library a handle   *)
(* only when there is a connection.                                         *)
CheckedRequestsAreConnected ==
  sent # NULL /\ sent.call \notin Unchecked => VALID_CONNECT_HDL(sent.hdl)

(* totpool "returns the total number of nodes known to the PBS server"      *)
(* (PBSServerType.c:1421), usepool "the number of nodes currently in use"   *)
(* (1457): a count that the library gives is never raised as an exception.  *)
PoolCountsReturned ==
  ret # NULL /\ ret.call = "pool" /\ ret.lib = PBSE_NONE => ret.out # "exc"
===============================================================================
