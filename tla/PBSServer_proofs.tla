--------------------------- MODULE PBSServer_proofs ----------------------------
(***************************************************************************)
(* What holds of the Server objects for every number of threads, objects,  *)
(* handles, hosts and errors.                                              *)
(***************************************************************************)
EXTENDS PBSServer, TLAPS

(* A thread's step inside a method, or the method it calls, seen as one of *)
(* the few things that can happen to a request.                            *)
RequestStep(t, o, call) ==
  \/ RETURN_INVALID_HDL(t, o, call)
  \/ BadArguments(t, call)
  \/ /\ call \in Unchecked \/ VALID_CONNECT_HDL(svr[o].con_hdl) \/ frame[t].pc = "args"
     /\ ToLibrary(t, o, call)
  \/ /\ call \in Unchecked \/ VALID_CONNECT_HDL(svr[o].con_hdl)
     /\ frame' = [frame EXCEPT ![t] = [pc |-> "args", self |-> o, call |-> call,
                                       err |-> PBSE_NONE, lib |-> NotCalled]]
     /\ sent' = NULL /\ ret' = NULL
     /\ UNCHANGED <<svr, libVars>>

(* Every request method of the table svr__methods is such a step.          *)
LEMMA MethodIsRequest ==
  ASSUME NEW t \in Threads, NEW o \in Servers, PlainMethod(t, o) \/ CallbackMethod(t, o)
  PROVE  /\ frame[t].pc = "idle"
         /\ \E call \in Requests : o \in live /\ UNCHANGED live /\ RequestStep(t, o, call)
<1> DEFINE Step(call) == o \in live /\ UNCHANGED live /\ RequestStep(t, o, call)
<1>1. ASSUME NEW call \in Requests, CallbackRequest(t, o, call), o \in live, UNCHANGED live
      PROVE  Step(call)
  BY <1>1 DEF CallbackRequest, PlainRequest, RequestStep
<1>2. ASSUME NEW call \in Requests, PlainRequest(t, o, call), o \in live, UNCHANGED live
      PROVE  Step(call)
  BY <1>2 DEF PlainRequest, RequestStep
<1>3. "rc" \in Requests /\ "obj" \in Requests /\ "stat" \in Requests /\ "pool" \in Requests
      /\ "avail" \in Requests /\ "submit" \in Requests /\ "unchecked" \in Requests
  BY DEF Requests, Unchecked
<1>4. ASSUME PlainMethod(t, o)
      PROVE  frame[t].pc = "idle" /\ \E call \in Requests : Step(call)
  <2>1. /\ frame[t].pc = "idle"
        /\ \E call \in Requests : PlainRequest(t, o, call) /\ o \in live /\ UNCHANGED live
    BY <1>3, <1>4 DEF PlainMethod, Call, svr_avail, svr_asyrunjob, svr_deljob,
       svr_holdjob, svr_locjob, svr_movejob, svr_orderjob, svr_rerunjob,
       svr_rlsjob, svr_sigjob, svr_rescrelease
  <2> QED BY <2>1, <1>2
<1>5. ASSUME CallbackMethod(t, o)
      PROVE  frame[t].pc = "idle" /\ \E call \in Requests : Step(call)
  <2>1. /\ frame[t].pc = "idle"
        /\ \E call \in Requests : CallbackRequest(t, o, call) /\ o \in live /\ UNCHANGED live
    BY <1>3, <1>5 DEF CallbackMethod, Call, svr_msgjob, svr_terminate, svr_totpool,
       svr_usepool, svr_manager, svr_alterjob, svr_selectjob, svr_rescquery, svr_rescreserve, svr_submit, svr_statserver, svr_statjob,
       svr_statque, svr_statnode, svr_selstat, generic_query
  <2> QED BY <2>1, <1>1
<1> QED BY <1>4, <1>5

-------------------------------------------------------------------------------
(* Typing.                                                                 *)

(* A new or reset Server is a well-formed object.                          *)
LEMMA BlankType == Blank \in Object
BY DEF Blank, Object, NoPort, NoTimeout

(* A returning call leaves well-formed frames and a result.                *)
LEMMA ReturnType ==
  ASSUME TypeOK, NEW t \in Threads, NEW call \in Calls,
         NEW out \in {"value", "exc", "error", "null"}, NEW err \in Errors,
         NEW lib \in Verdicts, Return(t, call, out, err, lib)
  PROVE  frame' \in [Threads -> Frame] /\ ret' \in Result
<1>1. Idle \in Frame
  BY DEF Idle, Frame, Calls, Requests, Errors, Verdicts
<1>2. frame' \in [Threads -> Frame]
  BY <1>1 DEF TypeOK, Return
<1>3. ret' \in Result
  BY DEF Return, Result
<1> QED BY <1>2, <1>3

(* A call that raises leaves well-formed frames.                           *)
LEMMA RaiseType ==
  ASSUME TypeOK, NEW t \in Threads, NEW o \in Servers, NEW call \in Calls,
         NEW err \in Errors, NEW lib \in Verdicts, Raise(t, o, call, err, lib)
  PROVE  frame' \in [Threads -> Frame] /\ ret' = NULL
<1>1. [pc |-> "raise", self |-> o, call |-> call, err |-> err, lib |-> lib] \in Frame
  BY DEF Frame
<1> QED BY <1>1 DEF TypeOK, Raise

(* What is recorded of a request is well-formed.                           *)
LEMMA SendingType ==
  ASSUME TypeOK, NEW o \in Servers, NEW call \in Calls
  PROVE  Sending(call, o, svr[o].con_hdl) \in Request
BY DEF TypeOK, Sending, Request, At, Object

(* What pbs_disconnect may answer.                                         *)
LEMMA DisconnectAnswers ==
  ASSUME TypeOK, NEW c \in [Handles -> Connection \cup {NULL}], NEW h \in Handles,
         NEW r \in pbs_disconnect(c, h)
  PROVE  /\ r.conn \in [Handles -> Connection \cup {NULL}]
         /\ r.conn = c \/ r.conn = [c EXCEPT ![h] = NULL]
         /\ \/ r.rc = 0 /\ r.conn = [c EXCEPT ![h] = NULL]
            \/ r.rc \in Errnos /\ r.conn = c /\ r.err = r.rc
         /\ r.err \in Errnos \cup {PBSE_NONE}
<1>1. CASE r = [rc |-> 0, conn |-> [c EXCEPT ![h] = NULL], err |-> pbs_errno]
  BY <1>1 DEF TypeOK
<1>2. CASE \E e \in Errnos : r = [rc |-> e, conn |-> c, err |-> e]
  BY <1>2, ConstantsAssumption
<1> QED BY <1>1, <1>2 DEF pbs_disconnect

(* What pbs_connect may answer.                                            *)
LEMMA ConnectAnswers ==
  ASSUME TypeOK, NEW o \in Servers, NEW h \in Hosts, NEW p \in Ports \cup {NoPort},
         NEW r \in pbs_connect(o, [host |-> h, port |-> p])
  PROVE  /\ r.conn \in [Handles -> Connection \cup {NULL}]
         /\ r.hdl \in Handles \cup {-1}
         /\ r.hdl < 0 => r.conn = conn /\ r.err \in Errnos
         /\ ~(r.hdl < 0) =>
              /\ r.hdl \in Handles
              /\ conn[r.hdl] = NULL
              /\ r.conn = [conn EXCEPT ![r.hdl] = [host |-> h, port |-> p, by |-> o]]
         /\ r.err \in Errnos \cup {PBSE_NONE}
<1>1. [host |-> h, port |-> p, by |-> o] \in Connection
  BY DEF Connection
<1>2. CASE \E e \in Errnos : r = [hdl |-> -1, conn |-> conn, err |-> e]
  BY <1>2 DEF TypeOK
<1>3. CASE \E g \in Handles : conn[g] = NULL /\
             r = [hdl |-> g, err |-> pbs_errno,
                  conn |-> [conn EXCEPT ![g] = [host |-> h, port |-> p, by |-> o]]]
  <2>1. PICK g \in Handles : conn[g] = NULL /\
             r = [hdl |-> g, err |-> pbs_errno,
                  conn |-> [conn EXCEPT ![g] = [host |-> h, port |-> p, by |-> o]]]
    BY <1>3
  <2>2. g \in Nat
    BY ConstantsAssumption
  <2> QED BY <1>1, <2>1, <2>2 DEF TypeOK
<1> QED BY <1>2, <1>3 DEF pbs_connect

(* The parsed arguments leave the connection fields of the object alone.   *)
LEMMA ParseKeeps ==
  ASSUME NEW s \in Object, NEW H \in SUBSET Hosts, NEW a \in Args(H),
         NEW p \in common_parse_init(s, a)
  PROVE  /\ p.obj \in Object
         /\ p.out \in {"value", "error", "null"}
         /\ p.obj.con_hdl = s.con_hdl
         /\ p.obj.pbs_server = s.pbs_server
         /\ p.obj.py_pbs_server = s.py_pbs_server
<1>1. CASE p = [out |-> "error", obj |-> s]
  BY <1>1
<1>2. CASE p = [out |-> "value",
                obj |-> [s EXCEPT
                  !.c_host = IF a.host # NULL THEN a.host ELSE @,
                  !.port = IF VALID_PORT(a.port) THEN a.port ELSE @,
                  !.timeout = IF a.timeout >= 0 THEN a.timeout ELSE @]]
  <2>1. a.host \in Hosts \cup {NULL} /\ a.port \in Ports \cup {NoPort}
        /\ a.timeout \in Timeouts \cup {NoTimeout}
    BY DEF Args
  <2> QED BY <1>2, <2>1 DEF Object
<1>3. CASE p = [out |-> "null", obj |-> [s EXCEPT !.c_host = NULL]]
  BY <1>3 DEF Object
<1> QED BY <1>1, <1>2, <1>3 DEF common_parse_init

-------------------------------------------------------------------------------
(* What a step can do to the objects and the table of connections.         *)

Only(o, s) == svr' = [svr EXCEPT ![o] = s]

(* o is created.                                                           *)
Made(o) ==
  /\ o \notin live
  /\ live' = live \cup {o}
  /\ Only(o, Blank)
  /\ UNCHANGED conn

(* Only fields of o that say nothing about its connection are set.         *)
Edited(o) ==
  /\ o \in live
  /\ UNCHANGED <<live, conn>>
  /\ \E s \in Object : /\ Only(o, s)
                       /\ s.con_hdl = svr[o].con_hdl
                       /\ s.pbs_server = svr[o].pbs_server
                       /\ s.py_pbs_server = svr[o].py_pbs_server

(* o has no handle any more, and the table is as it was.                   *)
Lost(o) ==
  /\ o \in live
  /\ live' \in {live, live \ {o}}
  /\ UNCHANGED conn
  /\ \E s \in Object : /\ Only(o, s)
                       /\ s.con_hdl = -1
                       /\ \/ s = Blank
                          \/ /\ s.pbs_server = svr[o].pbs_server
                             /\ s.py_pbs_server = svr[o].py_pbs_server

(* The connection of o is closed and o cleared.                            *)
Closed(o) ==
  /\ o \in live
  /\ live' \in {live, live \ {o}}
  /\ svr[o].con_hdl \in Handles
  /\ conn' = [conn EXCEPT ![svr[o].con_hdl] = NULL]
  /\ Only(o, Blank)

(* o is connected by the free entry h.                                     *)
Opened(o, h) ==
  /\ o \in live
  /\ UNCHANGED live
  /\ conn[h] = NULL
  /\ \E s \in Object, c \in Connection :
       /\ Only(o, s)
       /\ s.con_hdl = h /\ s.pbs_server = c.host /\ s.py_pbs_server = c.host
       /\ c.by = o
       /\ conn' = [conn EXCEPT ![h] = c]

(* The free entry h is opened for o, and nobody knows.                     *)
Undone(o, h) ==
  /\ o \in live
  /\ UNCHANGED live
  /\ conn[h] = NULL
  /\ Only(o, Blank)
  /\ \E c \in Connection : c.by = o /\ conn' = [conn EXCEPT ![h] = c]

Effect ==
  \/ UNCHANGED <<live, svr, conn>>
  \/ \E o \in Servers :
       \/ Made(o) \/ Edited(o) \/ Lost(o) \/ Closed(o)
       \/ \E h \in Handles : Opened(o, h) \/ Undone(o, h)

(* The part of TypeOK that Effect does not speak of.                       *)
OthersOK ==
  /\ lib_pbs_server \in Hosts \cup {NULL}
  /\ pbs_errno \in Errnos \cup {PBSE_NONE}
  /\ frame \in [Threads -> Frame]
  /\ sent \in Request \cup {NULL}
  /\ ret \in Result \cup {NULL}

(* tp_new gives an object that has no connection and touches no other.     *)
LEMMA NewEffect ==
  ASSUME TypeOK, NEW o \in Servers, svr__new(o)
  PROVE  Effect /\ OthersOK'
<1>1. Made(o)
  BY DEF svr__new, Made, Only, libVars
<1>2. OthersOK'
  BY DEF svr__new, OthersOK, TypeOK, libVars
<1> QED BY <1>1, <1>2 DEF Effect

(* __init__ changes neither the handle nor the names of the server it shows. *)
LEMMA InitEffect ==
  ASSUME TypeOK, NEW o \in Servers, NEW a \in Args(CtorHosts), svr__init(o, a)
  PROVE  Effect /\ OthersOK'
<1>1. PICK p \in common_parse_init(svr[o], a) : svr' = [svr EXCEPT ![o] = p.obj]
  BY DEF svr__init
<1>2. svr[o] \in Object /\ CtorHosts \in SUBSET Hosts
  BY ConstantsAssumption DEF TypeOK
<1>3. Edited(o)
  BY <1>1, <1>2, ParseKeeps DEF svr__init, Edited, Only, libVars
<1>4. OthersOK'
  BY DEF svr__init, OthersOK, TypeOK, libVars
<1> QED BY <1>3, <1>4 DEF Effect

(* Setting the timeout changes neither the handle nor the names.           *)
LEMMA SetTimeoutEffect ==
  ASSUME TypeOK, NEW o \in Servers, NEW v \in Timeouts \cup {NoTimeout},
         svr_set_timeout(o, v)
  PROVE  Effect /\ OthersOK'
<1> DEFINE s == [svr[o] EXCEPT !.timeout = v]
<1>1. s \in Object /\ s.con_hdl = svr[o].con_hdl /\ s.pbs_server = svr[o].pbs_server
      /\ s.py_pbs_server = svr[o].py_pbs_server
  BY DEF TypeOK, Object
<1>2. svr' = [svr EXCEPT ![o] = s]
  BY DEF svr_set_timeout
<1>3. Edited(o)
  BY <1>1, <1>2 DEF svr_set_timeout, Edited, Only, libVars
<1>4. OthersOK'
  BY DEF svr_set_timeout, OthersOK, TypeOK, libVars
<1> QED BY <1>3, <1>4 DEF Effect

(* Every way a reset may end: s is the object, c the table before it.      *)
LEMMA ResetEnds ==
  ASSUME TypeOK, NEW o \in Servers, NEW s \in Object,
         NEW c \in [Handles -> Connection \cup {NULL}], reset_PBSServerObject(o, s, c)
  PROVE  /\ Only(o, Blank)
         /\ \/ conn' = c
            \/ s.con_hdl \in Handles /\ conn' = [c EXCEPT ![s.con_hdl] = NULL]
         /\ pbs_errno' \in Errnos \cup {PBSE_NONE}
<1>1. CASE VALID_CONNECT_HDL(s.con_hdl)
  <2>1. s.con_hdl \in Handles
    BY <1>1 DEF Object, VALID_CONNECT_HDL
  <2>2. PICK r \in pbs_disconnect(c, s.con_hdl) : conn' = r.conn /\ pbs_errno' = r.err
    BY <1>1 DEF reset_PBSServerObject
  <2> QED BY <2>1, <2>2, DisconnectAnswers DEF reset_PBSServerObject, Only
<1>2. CASE ~VALID_CONNECT_HDL(s.con_hdl)
  BY <1>2 DEF reset_PBSServerObject, Only, TypeOK
<1> QED BY <1>1, <1>2

(* The death of an object resets it, closing or losing its connection.     *)
LEMMA DeallocEffect ==
  ASSUME TypeOK, NEW o \in Servers, svr__dealloc(o)
  PROVE  Effect /\ OthersOK'
<1>1. svr[o] \in Object /\ conn \in [Handles -> Connection \cup {NULL}]
  BY DEF TypeOK
<1>2. /\ Only(o, Blank)
      /\ \/ conn' = conn
         \/ svr[o].con_hdl \in Handles /\ conn' = [conn EXCEPT ![svr[o].con_hdl] = NULL]
      /\ pbs_errno' \in Errnos \cup {PBSE_NONE}
  BY <1>1, ResetEnds DEF svr__dealloc
<1>3. Lost(o) \/ Closed(o)
  BY <1>2, BlankType DEF svr__dealloc, Lost, Closed, Blank
<1>4. "dealloc" \in Calls
  BY DEF Calls
<1>5. OthersOK'
  BY <1>2, <1>4, SendingType DEF svr__dealloc, OthersOK, TypeOK
<1> QED BY <1>3, <1>5 DEF Effect

(* The ways a connect may end: refused, failed, made, or undone again.     *)
LEMMA ConnectEffect ==
  ASSUME TypeOK, NEW t \in Threads, NEW o \in Servers, NEW a \in Args(Hosts),
         svr_connect(t, o, a)
  PROVE  Effect /\ OthersOK'
<1>1. PICK p \in common_parse_init(svr[o], a) :
       \/ /\ p.out # "value"
          /\ svr' = [svr EXCEPT ![o] = p.obj]
          /\ Return(t, "connect", p.out, PBSE_NONE, NotCalled)
          /\ UNCHANGED libVars
       \/ /\ p.out = "value"
          /\ lib_pbs_server' = ConnectTo(p.obj).host
          /\ \E r \in pbs_connect(o, ConnectTo(p.obj)) :
               \/ ConnectFails(t, o, p.obj, r)
               \/ ConnectSucceeds(t, o, p.obj, r)
               \/ ConnectUndone(t, o, p.obj, r)
  BY DEF svr_connect
<1>2. svr[o] \in Object /\ Hosts \in SUBSET Hosts
  BY DEF TypeOK
<1>3. /\ p.obj \in Object /\ p.out \in {"value", "error", "null"}
      /\ p.obj.con_hdl = svr[o].con_hdl
      /\ p.obj.pbs_server = svr[o].pbs_server
      /\ p.obj.py_pbs_server = svr[o].py_pbs_server
  BY <1>2, ParseKeeps
<1>4. o \in live /\ UNCHANGED live /\ sent' = NULL
  BY DEF svr_connect, Call
<1>5. "connect" \in Calls /\ PBSE_NONE \in Errors /\ PBSE_NONE \in Verdicts
      /\ NotCalled \in Verdicts
  BY DEF Calls, Errors, Verdicts
<1>6. CASE /\ p.out # "value"
           /\ svr' = [svr EXCEPT ![o] = p.obj]
           /\ Return(t, "connect", p.out, PBSE_NONE, NotCalled)
           /\ UNCHANGED libVars
  <2>1. Edited(o)
    BY <1>3, <1>4, <1>6 DEF Edited, Only, libVars
  <2>2. frame' \in [Threads -> Frame] /\ ret' \in Result
    BY <1>3, <1>5, <1>6, ReturnType
  <2>3. OthersOK'
    BY <1>4, <1>6, <2>2 DEF OthersOK, TypeOK, libVars
  <2> QED BY <2>1, <2>3 DEF Effect
<1>7. CASE /\ p.out = "value"
           /\ lib_pbs_server' = ConnectTo(p.obj).host
           /\ \E r \in pbs_connect(o, ConnectTo(p.obj)) :
                \/ ConnectFails(t, o, p.obj, r)
                \/ ConnectSucceeds(t, o, p.obj, r)
                \/ ConnectUndone(t, o, p.obj, r)
  <2> DEFINE to == ConnectTo(p.obj)
  <2>1. PICK r \in pbs_connect(o, to) :
               \/ ConnectFails(t, o, p.obj, r)
               \/ ConnectSucceeds(t, o, p.obj, r)
               \/ ConnectUndone(t, o, p.obj, r)
    BY <1>7
  <2>2. to.host \in Hosts /\ to.port \in Ports \cup {NoPort}
        /\ to = [host |-> to.host, port |-> to.port]
    BY <1>3, ConstantsAssumption DEF ConnectTo, Object
  <2> HIDE DEF to
  <2>3. /\ r.conn \in [Handles -> Connection \cup {NULL}]
        /\ r.hdl \in Handles \cup {-1}
        /\ r.hdl < 0 => r.conn = conn /\ r.err \in Errnos
        /\ ~(r.hdl < 0) =>
             /\ r.hdl \in Handles
             /\ conn[r.hdl] = NULL
             /\ r.conn = [conn EXCEPT ![r.hdl] =
                            [host |-> to.host, port |-> to.port, by |-> o]]
        /\ r.err \in Errnos \cup {PBSE_NONE}
    BY <2>1, <2>2, ConnectAnswers
  <2>4. lib_pbs_server' = to.host
    BY <1>7 DEF to
  <2>5. [host |-> to.host, port |-> to.port, by |-> o] \in Connection
    BY <2>2 DEF Connection
  <2>6. CASE ConnectFails(t, o, p.obj, r)
    <3> DEFINE s == [p.obj EXCEPT !.con_hdl = r.hdl]
    <3>1. r.hdl < 0 /\ r.hdl = -1
      BY <2>3, <2>6, ConstantsAssumption DEF ConnectFails
    <3>2. s \in Object /\ s.con_hdl = -1 /\ s.pbs_server = svr[o].pbs_server
          /\ s.py_pbs_server = svr[o].py_pbs_server
      BY <1>3, <3>1 DEF Object
    <3>3. Lost(o)
      BY <1>4, <2>3, <2>6, <3>1, <3>2 DEF ConnectFails, Lost, Only
    <3>4. r.err \in Errors /\ r.err \in Verdicts
      BY <2>3, <3>1 DEF Errors, Verdicts
    <3>5. frame' \in [Threads -> Frame] /\ ret' = NULL
      BY <1>5, <2>6, <3>4, RaiseType DEF ConnectFails
    <3>6. OthersOK'
      BY <1>4, <2>2, <2>3, <2>4, <2>6, <3>5 DEF ConnectFails, OthersOK
    <3> QED BY <3>3, <3>6 DEF Effect
  <2>7. CASE ConnectSucceeds(t, o, p.obj, r)
    <3> DEFINE s == [p.obj EXCEPT !.con_hdl = r.hdl, !.pbs_server = to.host,
                                  !.py_pbs_server = to.host]
               c == [host |-> to.host, port |-> to.port, by |-> o]
    <3>1. r.hdl \in Handles /\ conn[r.hdl] = NULL /\ conn' = [conn EXCEPT ![r.hdl] = c]
      BY <2>3, <2>7 DEF ConnectSucceeds
    <3>2. s \in Object /\ s.con_hdl = r.hdl /\ s.pbs_server = c.host
          /\ s.py_pbs_server = c.host
      BY <1>3, <2>2, <3>1 DEF Object
    <3>3. svr' = [svr EXCEPT ![o] = s]
      BY <2>4, <2>7 DEF ConnectSucceeds
    <3>4. c \in Connection /\ c.by = o
      BY <2>5
    <3> HIDE DEF s, c
    <3>5. Opened(o, r.hdl)
      BY <1>4, <3>1, <3>2, <3>3, <3>4 DEF Opened, Only
    <3>6. frame' \in [Threads -> Frame] /\ ret' \in Result
      BY <1>5, <2>7, ReturnType DEF ConnectSucceeds
    <3>7. OthersOK'
      BY <1>4, <2>2, <2>3, <2>4, <2>7, <3>6 DEF ConnectSucceeds, OthersOK
    <3> QED BY <3>1, <3>5, <3>7 DEF Effect
  <2>8. CASE ConnectUndone(t, o, p.obj, r)
    <3> DEFINE s == [p.obj EXCEPT !.con_hdl = r.hdl]
               c == [host |-> to.host, port |-> to.port, by |-> o]
    <3>1. r.hdl \in Handles /\ conn[r.hdl] = NULL /\ r.conn = [conn EXCEPT ![r.hdl] = c]
      BY <2>3, <2>8 DEF ConnectUndone
    <3>2. s \in Object /\ s.con_hdl = r.hdl
      BY <1>3, <3>1 DEF Object
    <3>3. reset_PBSServerObject(o, s, r.conn)
      BY <2>8 DEF ConnectUndone
    <3>4. c \in Connection /\ c.by = o
      BY <2>5
    <3> HIDE DEF s, c
    <3>5. /\ Only(o, Blank)
          /\ conn' = r.conn \/ conn' = [r.conn EXCEPT ![r.hdl] = NULL]
          /\ pbs_errno' \in Errnos \cup {PBSE_NONE}
      BY <2>3, <3>2, <3>3, ResetEnds
    <3>6. ASSUME conn' = r.conn PROVE Undone(o, r.hdl)
      BY <1>4, <3>1, <3>4, <3>5, <3>6 DEF Undone
    <3>7. ASSUME conn' = [r.conn EXCEPT ![r.hdl] = NULL] PROVE Lost(o)
      <4>1. conn' = conn
        BY <3>1, <3>7 DEF TypeOK
      <4> QED BY <1>4, <3>5, <4>1, BlankType DEF Lost, Blank
    <3>8. frame' \in [Threads -> Frame] /\ ret' \in Result
      BY <1>5, <2>8, ReturnType DEF ConnectUndone
    <3>9. OthersOK'
      BY <1>4, <2>2, <2>4, <3>5, <3>8 DEF OthersOK
    <3> QED BY <3>1, <3>5, <3>6, <3>7, <3>9 DEF Effect
  <2> QED BY <2>1, <2>6, <2>7, <2>8
<1> QED BY <1>1, <1>6, <1>7

(* A disconnect closes the connection, or fails and changes nothing.       *)
LEMMA DisconnectEffect ==
  ASSUME TypeOK, NEW t \in Threads, NEW o \in Servers, svr_disconnect(t, o)
  PROVE  Effect /\ OthersOK'
<1> DEFINE h == svr[o].con_hdl
<1>1. o \in live /\ UNCHANGED <<live, lib_pbs_server>>
  BY DEF svr_disconnect, Call
<1>2. svr[o] \in Object /\ conn \in [Handles -> Connection \cup {NULL}]
  BY DEF TypeOK
<1>3. "disconnect" \in Calls /\ PBSE_NONE \in Errors /\ PBSE_NONE \in Verdicts
      /\ NotCalled \in Verdicts
  BY DEF Calls, Errors, Verdicts
<1>4. CASE ~VALID_CONNECT_HDL(h)
  <2>1. /\ reset_PBSServerObject(o, svr[o], conn)
        /\ sent' = NULL
        /\ Return(t, "disconnect", "value", PBSE_NONE, NotCalled)
    BY <1>4 DEF svr_disconnect
  <2>2. Only(o, Blank) /\ conn' = conn /\ pbs_errno' = pbs_errno
    BY <1>4, <2>1 DEF reset_PBSServerObject, Only
  <2>3. Lost(o)
    BY <1>1, <2>2, BlankType DEF Lost, Blank
  <2>4. frame' \in [Threads -> Frame] /\ ret' \in Result
    BY <1>3, <2>1, ReturnType
  <2>5. OthersOK'
    BY <1>1, <2>1, <2>2, <2>4 DEF OthersOK, TypeOK
  <2> QED BY <2>3, <2>5 DEF Effect
<1>5. CASE VALID_CONNECT_HDL(h)
  <2>1. h \in Handles
    BY <1>2, <1>5 DEF Object, VALID_CONNECT_HDL
  <2>2. sent' \in Request
    BY <1>3, <1>5, SendingType DEF svr_disconnect
  <2>3. PICK r \in pbs_disconnect(conn, h) :
             \/ /\ r.rc # 0
                /\ conn' = r.conn
                /\ pbs_errno' = r.err
                /\ Raise(t, o, "disconnect", r.err, r.rc)
                /\ UNCHANGED svr
             \/ /\ r.rc = 0
                /\ pbs_errno' = r.err
                /\ svr' = [svr EXCEPT ![o] = Blank]
                /\ conn' = r.conn
                /\ Return(t, "disconnect", "value", PBSE_NONE, PBSE_NONE)
    BY <1>5 DEF svr_disconnect
  <2>4. /\ \/ r.rc = 0 /\ r.conn = [conn EXCEPT ![h] = NULL]
           \/ r.rc \in Errnos /\ r.conn = conn /\ r.err = r.rc
        /\ r.err \in Errnos \cup {PBSE_NONE}
    <3>1. r \in pbs_disconnect(conn, h) /\ conn \in [Handles -> Connection \cup {NULL}]
      BY <1>2, <2>3
    <3> HIDE DEF h
    <3> QED BY <2>1, <3>1, DisconnectAnswers
  <2>5. CASE r.rc # 0
    <3>1. r.err \in Errors /\ r.rc \in Verdicts
      BY <2>4, <2>5 DEF Errors, Verdicts
    <3>2. frame' \in [Threads -> Frame] /\ ret' = NULL
      BY <1>3, <2>3, <2>5, <3>1, RaiseType
    <3>3. OthersOK'
      BY <1>1, <2>2, <2>3, <2>4, <2>5, <3>2 DEF OthersOK, TypeOK
    <3>4. UNCHANGED <<live, svr, conn>>
      BY <1>1, <2>3, <2>4, <2>5
    <3> QED BY <3>3, <3>4 DEF Effect
  <2>6. CASE r.rc = 0
    <3>1. frame' \in [Threads -> Frame] /\ ret' \in Result
      BY <1>3, <2>3, <2>6, ReturnType
    <3>2. OthersOK'
      BY <1>1, <2>2, <2>3, <2>4, <2>6, <3>1 DEF OthersOK, TypeOK
    <3>3. Closed(o)
      BY <1>1, <2>1, <2>3, <2>4, <2>6, ConstantsAssumption DEF Closed, Only
    <3> QED BY <3>2, <3>3 DEF Effect
  <2> QED BY <2>5, <2>6
<1> QED BY <1>4, <1>5

(* A request changes no object and no connection.                          *)
LEMMA RequestEffect ==
  ASSUME TypeOK, NEW t \in Threads, NEW o \in Servers, NEW call \in Requests,
         UNCHANGED live, RequestStep(t, o, call)
  PROVE  Effect /\ OthersOK'
<1>1. call \in Calls /\ PBSE_NONE \in Errors /\ EINVAL \in Errors
      /\ PBSE_NONE \in Verdicts /\ NotCalled \in Verdicts /\ pbs_errno \in Errors
  BY DEF Calls, Errors, Verdicts, TypeOK
<1>2. CASE RETURN_INVALID_HDL(t, o, call)
  <2>1. frame' \in [Threads -> Frame] /\ ret' = NULL
    BY <1>1, <1>2, RaiseType DEF RETURN_INVALID_HDL
  <2> QED BY <1>2, <2>1 DEF RETURN_INVALID_HDL, Effect, OthersOK, TypeOK, libVars
<1>3. CASE BadArguments(t, call)
  <2>1. frame' \in [Threads -> Frame] /\ ret' \in Result
    BY <1>1, <1>3, ReturnType DEF BadArguments
  <2> QED BY <1>3, <2>1 DEF BadArguments, Effect, OthersOK, TypeOK, libVars
<1>4. CASE ToLibrary(t, o, call)
  <2>1. UNCHANGED <<live, svr, conn, lib_pbs_server>> /\ sent' \in Request
    BY <1>1, <1>4, SendingType DEF ToLibrary
  <2>2. CASE Granted(t, o, call)
    <3>1. pbs_errno' \in Errnos \cup {PBSE_NONE}
      BY <2>2 DEF Granted, TypeOK
    <3>2. frame' \in [Threads -> Frame] /\ ret' \in Result \cup {NULL}
      BY <1>1, <2>2, ReturnType, RaiseType DEF Granted
    <3> QED BY <2>1, <3>1, <3>2 DEF Effect, OthersOK, TypeOK
  <2>3. ASSUME NEW e \in Errnos, Refused(t, o, call, e) PROVE Effect /\ OthersOK'
    <3>1. e \in Errors /\ e \in Verdicts /\ pbs_errno' \in Errnos \cup {PBSE_NONE}
      BY <2>3 DEF Refused, Errors, Verdicts
    <3>2. frame' \in [Threads -> Frame] /\ ret' \in Result \cup {NULL}
      BY <1>1, <2>3, <3>1, ReturnType, RaiseType DEF Refused
    <3> QED BY <2>1, <3>1, <3>2 DEF Effect, OthersOK, TypeOK
  <2> QED BY <1>4, <2>2, <2>3 DEF ToLibrary
<1>5. CASE /\ frame' = [frame EXCEPT ![t] =
                        [pc |-> "args", self |-> o, call |-> call,
                         err |-> PBSE_NONE, lib |-> NotCalled]]
           /\ sent' = NULL /\ ret' = NULL
           /\ UNCHANGED <<svr, libVars>>
  <2>1. [pc |-> "args", self |-> o, call |-> call,
         err |-> PBSE_NONE, lib |-> NotCalled] \in Frame
    BY <1>1 DEF Frame
  <2>2. frame' \in [Threads -> Frame]
    BY <1>5, <2>1 DEF TypeOK
  <2> QED BY <1>5, <2>2 DEF Effect, OthersOK, TypeOK, libVars
<1> QED BY <1>2, <1>3, <1>4, <1>5 DEF RequestStep

(* The calls that report errors as ErrorReporting says, and what the       *)
(* arguments of SET_PBS_EXCEPTION are in one of them.                      *)
Reporting == Calls \ {"submit", "avail", "pool"}
Honest(err, lib) ==
  lib # PBSE_NONE /\ err = IF lib \in Errnos THEN lib ELSE EINVAL

(* A thread in the middle of a conversion is in one of the requests, and   *)
(* an exception under construction has its own error.                      *)
FrameOK ==
  \A t \in Threads :
    /\ frame[t].pc = "args" => frame[t].call \in Requests /\ frame[t].self \in Servers
    /\ frame[t].pc = "raise" /\ frame[t].call \in Reporting =>
         Honest(frame[t].err, frame[t].lib)

(* A call whose arguments are read goes on as a request of its object.     *)
LEMMA ConvertedIsRequest ==
  ASSUME TypeOK, FrameOK, NEW t \in Threads, Converted(t)
  PROVE  /\ frame[t].call \in Requests /\ frame[t].self \in Servers
         /\ UNCHANGED live
         /\ RequestStep(t, frame[t].self, frame[t].call)
BY DEF FrameOK, Converted, RequestStep

(* Building an exception changes no object and no connection.              *)
LEMMA ExceptionEffect ==
  ASSUME TypeOK, NEW t \in Threads, SET_PBS_EXCEPTION(t)
  PROVE  Effect /\ OthersOK'
<1>1. frame[t].call \in Calls /\ frame[t].err \in Errors /\ frame[t].lib \in Verdicts
  BY DEF TypeOK, Frame
<1>2. frame' \in [Threads -> Frame] /\ ret' \in Result
  BY <1>1, ReturnType DEF SET_PBS_EXCEPTION
<1> QED BY <1>2 DEF SET_PBS_EXCEPTION, Effect, OthersOK, TypeOK, libVars

(* Every step of the program does one of six things to one object.         *)
LEMMA StepEffect ==
  ASSUME TypeOK, FrameOK, Next
  PROVE  Effect /\ OthersOK'
<1>1. ASSUME NEW o \in Servers, svr__new(o) PROVE Effect /\ OthersOK'
  BY <1>1, NewEffect
<1>2. ASSUME NEW o \in Servers, svr__dealloc(o) PROVE Effect /\ OthersOK'
  BY <1>2, DeallocEffect
<1>3. ASSUME NEW o \in Servers, NEW a \in Args(CtorHosts), svr__init(o, a)
      PROVE  Effect /\ OthersOK'
  BY <1>3, InitEffect
<1>4. ASSUME NEW o \in Servers, NEW v \in Timeouts \cup {NoTimeout}, svr_set_timeout(o, v)
      PROVE  Effect /\ OthersOK'
  BY <1>4, SetTimeoutEffect
<1>5. ASSUME NEW t \in Threads, NEW o \in Servers, NEW a \in Args(Hosts), svr_connect(t, o, a)
      PROVE  Effect /\ OthersOK'
  BY <1>5, ConnectEffect
<1>6. ASSUME NEW t \in Threads, NEW o \in Servers, svr_disconnect(t, o)
      PROVE  Effect /\ OthersOK'
  BY <1>6, DisconnectEffect
<1>7. ASSUME NEW t \in Threads, NEW o \in Servers, PlainMethod(t, o) \/ CallbackMethod(t, o)
      PROVE  Effect /\ OthersOK'
  BY <1>7, MethodIsRequest, RequestEffect
<1>8. ASSUME NEW t \in Threads, Converted(t) PROVE Effect /\ OthersOK'
  BY <1>8, ConvertedIsRequest, RequestEffect
<1>9. ASSUME NEW t \in Threads, SET_PBS_EXCEPTION(t) PROVE Effect /\ OthersOK'
  BY <1>9, ExceptionEffect
<1> QED BY <1>1, <1>2, <1>3, <1>4, <1>5, <1>6, <1>7, <1>8, <1>9 DEF Next

-------------------------------------------------------------------------------
(* The invariants.                                                         *)

(* What a step can do to the calls in progress.                            *)
Reports(t) ==
  \/ UNCHANGED frame /\ ret' = NULL
  \/ \E call \in Requests, o \in Servers :
       /\ frame' = [frame EXCEPT ![t] = [pc |-> "args", self |-> o, call |-> call,
                                         err |-> PBSE_NONE, lib |-> NotCalled]]
       /\ ret' = NULL
  \/ \E call \in Calls, o \in Servers, err \in Errors, lib \in Verdicts :
       Raise(t, o, call, err, lib) /\ (call \in Reporting => Honest(err, lib))
  \/ \E call \in Calls, out \in {"value", "exc", "error", "null"},
        err \in Errors, lib \in Verdicts :
       /\ Return(t, call, out, err, lib)
       /\ call \in Reporting => /\ lib \in Errnos => out \in {"exc", "error"}
                                /\ out = "exc" => Honest(err, lib)

(* Whatever a thread reports, its frame stays honest and its error correct.*)
LEMMA ReportsKept ==
  ASSUME TypeOK, FrameOK, NEW t \in Threads, Reports(t)
  PROVE  FrameOK' /\ ErrorReporting'
<1>1. CASE UNCHANGED frame /\ ret' = NULL
  BY <1>1 DEF FrameOK, ErrorReporting
<1>2. ASSUME NEW call \in Requests, NEW o \in Servers,
             frame' = [frame EXCEPT ![t] = [pc |-> "args", self |-> o, call |-> call,
                                            err |-> PBSE_NONE, lib |-> NotCalled]],
             ret' = NULL
      PROVE  FrameOK' /\ ErrorReporting'
  BY <1>2 DEF FrameOK, ErrorReporting, TypeOK
<1>3. ASSUME NEW call \in Calls, NEW o \in Servers, NEW err \in Errors, NEW lib \in Verdicts,
             Raise(t, o, call, err, lib), call \in Reporting => Honest(err, lib)
      PROVE  FrameOK' /\ ErrorReporting'
  BY <1>3 DEF FrameOK, ErrorReporting, TypeOK, Raise
<1>4. ASSUME NEW call \in Calls, NEW out \in {"value", "exc", "error", "null"},
             NEW err \in Errors, NEW lib \in Verdicts, Return(t, call, out, err, lib),
             call \in Reporting => /\ lib \in Errnos => out \in {"exc", "error"}
                                   /\ out = "exc" => Honest(err, lib)
      PROVE  FrameOK' /\ ErrorReporting'
  <2>1. FrameOK'
    BY <1>4 DEF FrameOK, TypeOK, Return, Idle
  <2>2. ErrorReporting'
    BY <1>4 DEF ErrorReporting, Return, Reporting, Honest
  <2> QED BY <2>1, <2>2
<1> QED BY <1>1, <1>2, <1>3, <1>4 DEF Reports

(* connect reports a refused connection with the error the library gave.   *)
LEMMA ConnectReports ==
  ASSUME TypeOK, NEW t \in Threads, NEW o \in Servers, NEW a \in Args(Hosts),
         svr_connect(t, o, a)
  PROVE  Reports(t)
<1>1. PICK p \in common_parse_init(svr[o], a) :
       \/ /\ p.out # "value"
          /\ Return(t, "connect", p.out, PBSE_NONE, NotCalled)
       \/ \E r \in pbs_connect(o, ConnectTo(p.obj)) :
            \/ ConnectFails(t, o, p.obj, r)
            \/ ConnectSucceeds(t, o, p.obj, r)
            \/ ConnectUndone(t, o, p.obj, r)
  BY DEF svr_connect
<1>2. "connect" \in Calls /\ PBSE_NONE \in Errors /\ PBSE_NONE \in Verdicts
      /\ NotCalled \in Verdicts /\ NotCalled \notin Errnos /\ PBSE_NONE \notin Errnos
  BY ConstantsAssumption DEF Calls, Errors, Verdicts, NotCalled, PBSE_NONE
<1>3. svr[o] \in Object /\ Hosts \in SUBSET Hosts
  BY DEF TypeOK
<1>4. p.obj \in Object /\ p.out \in {"value", "error", "null"}
  BY <1>3, ParseKeeps
<1>5. CASE p.out # "value" /\ Return(t, "connect", p.out, PBSE_NONE, NotCalled)
  BY <1>2, <1>4, <1>5 DEF Reports
<1>6. ASSUME NEW r \in pbs_connect(o, ConnectTo(p.obj)), ConnectFails(t, o, p.obj, r)
      PROVE  Reports(t)
  <2>1. r.err \in Errnos
    <3>1. r.hdl < 0
      BY <1>6 DEF ConnectFails
    <3>2. CASE \E e \in Errnos : r = [hdl |-> -1, conn |-> conn, err |-> e]
      BY <3>2
    <3>3. CASE \E g \in Handles : r.hdl = g
      BY <3>1, <3>3, ConstantsAssumption
    <3> QED BY <1>6, <3>2, <3>3 DEF pbs_connect
  <2>2. r.err \in Errors /\ r.err \in Verdicts /\ Honest(r.err, r.err)
    BY <1>2, <2>1 DEF Errors, Verdicts, Honest
  <2>3. Raise(t, o, "connect", r.err, r.err)
    BY <1>6 DEF ConnectFails
  <2> QED BY <1>2, <2>2, <2>3 DEF Reports
<1>7. ASSUME NEW r \in pbs_connect(o, ConnectTo(p.obj)), ConnectSucceeds(t, o, p.obj, r)
      PROVE  Reports(t)
  <2>1. Return(t, "connect", "value", PBSE_NONE, PBSE_NONE)
    BY <1>7 DEF ConnectSucceeds
  <2> QED BY <1>2, <2>1 DEF Reports
<1>8. ASSUME NEW r \in pbs_connect(o, ConnectTo(p.obj)), ConnectUndone(t, o, p.obj, r)
      PROVE  Reports(t)
  <2>1. PICK out \in {"null", "error"} : Return(t, "connect", out, PBSE_NONE, PBSE_NONE)
    BY <1>8 DEF ConnectUndone
  <2> QED BY <1>2, <2>1 DEF Reports
<1> QED BY <1>1, <1>5, <1>6, <1>7, <1>8

(* disconnect reports a failure with the error the library gave.           *)
LEMMA DisconnectReports ==
  ASSUME TypeOK, NEW t \in Threads, NEW o \in Servers, svr_disconnect(t, o)
  PROVE  Reports(t)
<1>1. "disconnect" \in Calls /\ PBSE_NONE \in Errors /\ PBSE_NONE \in Verdicts
      /\ NotCalled \in Verdicts /\ NotCalled \notin Errnos /\ PBSE_NONE \notin Errnos
  BY ConstantsAssumption DEF Calls, Errors, Verdicts, NotCalled, PBSE_NONE
<1>2. CASE Return(t, "disconnect", "value", PBSE_NONE, NotCalled)
  BY <1>1, <1>2 DEF Reports
<1>3. CASE Return(t, "disconnect", "value", PBSE_NONE, PBSE_NONE)
  BY <1>1, <1>3 DEF Reports
<1>4. ASSUME NEW r \in pbs_disconnect(conn, svr[o].con_hdl), r.rc # 0,
             Raise(t, o, "disconnect", r.err, r.rc)
      PROVE  Reports(t)
  <2>1. r.rc \in Errnos /\ r.err = r.rc
    BY <1>4 DEF pbs_disconnect
  <2>2. r.err \in Errors /\ r.rc \in Verdicts /\ Honest(r.err, r.rc)
    BY <1>1, <2>1 DEF Errors, Verdicts, Honest
  <2> QED BY <1>1, <1>4, <2>2 DEF Reports
<1> QED BY <1>2, <1>3, <1>4 DEF svr_disconnect

(* A request reports what the library answered, or that it was not asked.  *)
LEMMA RequestReports ==
  ASSUME TypeOK, NEW t \in Threads, NEW o \in Servers, NEW call \in Requests,
         RequestStep(t, o, call)
  PROVE  Reports(t)
<1>1. call \in Calls /\ PBSE_NONE \in Errors /\ EINVAL \in Errors
      /\ PBSE_NONE \in Verdicts /\ NotCalled \in Verdicts /\ NotCalled # PBSE_NONE
      /\ NotCalled \notin Errnos /\ PBSE_NONE \notin Errnos /\ pbs_errno \in Errors
  BY ConstantsAssumption DEF Calls, Errors, Verdicts, NotCalled, PBSE_NONE, TypeOK
<1>2. CASE RETURN_INVALID_HDL(t, o, call)
  <2>1. Honest(EINVAL, NotCalled)
    BY <1>1 DEF Honest
  <2> QED BY <1>1, <1>2, <2>1 DEF RETURN_INVALID_HDL, Reports
<1>3. CASE BadArguments(t, call)
  <2>1. PICK out \in {"error", "null"} : Return(t, call, out, PBSE_NONE, NotCalled)
    BY <1>3 DEF BadArguments
  <2> QED BY <1>1, <2>1 DEF Reports
<1>4. CASE Granted(t, o, call)
  <2>1. CASE \E out \in {"value", "error"} : Return(t, call, out, PBSE_NONE, PBSE_NONE)
    BY <1>1, <2>1 DEF Reports
  <2>2. CASE call = "pool" /\ Raise(t, o, call, pbs_errno, PBSE_NONE)
    BY <1>1, <2>2 DEF Reports, Reporting
  <2> QED BY <1>4, <2>1, <2>2 DEF Granted
<1>5. ASSUME NEW e \in Errnos, Refused(t, o, call, e) PROVE Reports(t)
  <2>1. e \in Errors /\ e \in Verdicts /\ Honest(e, e)
    BY <1>1 DEF Errors, Verdicts, Honest
  <2>2. CASE call \notin Reporting /\ \E out \in {"value", "null"} :
                Return(t, call, out, PBSE_NONE, e)
    BY <1>1, <2>1, <2>2 DEF Reports
  <2>3. CASE Raise(t, o, call, e, e)
    BY <1>1, <2>1, <2>3 DEF Reports
  <2> QED BY <1>5, <2>2, <2>3 DEF Refused, Reporting
<1>6. CASE /\ frame' = [frame EXCEPT ![t] =
                        [pc |-> "args", self |-> o, call |-> call,
                         err |-> PBSE_NONE, lib |-> NotCalled]]
           /\ ret' = NULL
  BY <1>6 DEF Reports
<1> QED BY <1>2, <1>3, <1>4, <1>5, <1>6 DEF RequestStep, ToLibrary

(* The exception carries the error noted when it was raised.               *)
LEMMA ExceptionReports ==
  ASSUME TypeOK, FrameOK, NEW t \in Threads, SET_PBS_EXCEPTION(t)
  PROVE  Reports(t)
<1>1. frame[t].call \in Calls /\ frame[t].err \in Errors /\ frame[t].lib \in Verdicts
  BY DEF TypeOK, Frame
<1>2. frame[t].call \in Reporting => Honest(frame[t].err, frame[t].lib)
  BY DEF FrameOK, SET_PBS_EXCEPTION
<1>3. PICK out \in {"exc", "error"} :
        Return(t, frame[t].call, out, frame[t].err, frame[t].lib)
  BY DEF SET_PBS_EXCEPTION
<1> QED BY <1>1, <1>2, <1>3 DEF Reports

(* Every step keeps the frames honest and reports what it should.          *)
LEMMA StepReports ==
  ASSUME TypeOK, FrameOK, ErrorReporting, Next
  PROVE  FrameOK' /\ ErrorReporting'
<1>1. ASSUME UNCHANGED frame, ret' = NULL PROVE FrameOK' /\ ErrorReporting'
  BY <1>1 DEF FrameOK, ErrorReporting
<1>2. ASSUME NEW o \in Servers,
             svr__new(o) \/ svr__dealloc(o) \/ (\E a \in Args(CtorHosts) : svr__init(o, a))
               \/ (\E v \in Timeouts \cup {NoTimeout} : svr_set_timeout(o, v))
      PROVE  FrameOK' /\ ErrorReporting'
  BY <1>1, <1>2 DEF svr__new, svr__dealloc, svr__init, svr_set_timeout
<1>3. ASSUME NEW t \in Threads, Reports(t) PROVE FrameOK' /\ ErrorReporting'
  BY <1>3, ReportsKept
<1>4. ASSUME NEW t \in Threads, NEW o \in Servers, NEW a \in Args(Hosts), svr_connect(t, o, a)
      PROVE  Reports(t)
  BY <1>4, ConnectReports
<1>5. ASSUME NEW t \in Threads, NEW o \in Servers, svr_disconnect(t, o)
      PROVE  Reports(t)
  BY <1>5, DisconnectReports
<1>6. ASSUME NEW t \in Threads, NEW o \in Servers, PlainMethod(t, o) \/ CallbackMethod(t, o)
      PROVE  Reports(t)
  BY <1>6, MethodIsRequest, RequestReports
<1>7. ASSUME NEW t \in Threads, Converted(t) PROVE Reports(t)
  BY <1>7, ConvertedIsRequest, RequestReports
<1>8. ASSUME NEW t \in Threads, SET_PBS_EXCEPTION(t) PROVE Reports(t)
  BY <1>8, ExceptionReports
<1> QED BY <1>2, <1>3, <1>4, <1>5, <1>6, <1>7, <1>8 DEF Next

(* Every step preserves the type invariant.                                *)
LEMMA TypeStep ==
  ASSUME TypeOK, Effect, OthersOK'
  PROVE  TypeOK'
<1>1. CASE UNCHANGED <<live, svr, conn>>
  BY <1>1 DEF TypeOK, OthersOK
<1>2. ASSUME NEW o \in Servers, Made(o) PROVE TypeOK'
  BY <1>2, BlankType DEF Made, Only, TypeOK, OthersOK
<1>3. ASSUME NEW o \in Servers, Edited(o) PROVE TypeOK'
  BY <1>3 DEF Edited, Only, TypeOK, OthersOK
<1>4. ASSUME NEW o \in Servers, Lost(o) PROVE TypeOK'
  BY <1>4 DEF Lost, Only, TypeOK, OthersOK
<1>5. ASSUME NEW o \in Servers, Closed(o) PROVE TypeOK'
  BY <1>5, BlankType DEF Closed, Only, TypeOK, OthersOK
<1>6. ASSUME NEW o \in Servers, NEW h \in Handles, Opened(o, h) PROVE TypeOK'
  BY <1>6 DEF Opened, Only, TypeOK, OthersOK
<1>7. ASSUME NEW o \in Servers, NEW h \in Handles, Undone(o, h) PROVE TypeOK'
  BY <1>7, BlankType DEF Undone, Only, TypeOK, OthersOK
<1> QED BY <1>1, <1>2, <1>3, <1>4, <1>5, <1>6, <1>7 DEF Effect

(* With the types known, a handle is valid when it is an entry of the table. *)
LEMMA ValidHandle ==
  ASSUME TypeOK, NEW o \in Servers
  PROVE  /\ VALID_CONNECT_HDL(svr[o].con_hdl) <=> svr[o].con_hdl \in Handles
         /\ svr[o].con_hdl \in Handles => At(svr[o].con_hdl) = conn[svr[o].con_hdl]
         /\ svr[o].con_hdl \notin Handles => svr[o].con_hdl = -1
<1>1. svr[o].con_hdl \in Handles \cup {-1}
  BY DEF TypeOK, Object
<1>2. CASE svr[o].con_hdl \in Handles
  <2>1. svr[o].con_hdl \in Nat
    BY <1>2, ConstantsAssumption
  <2>2. VALID_CONNECT_HDL(svr[o].con_hdl)
    BY <2>1 DEF VALID_CONNECT_HDL
  <2> QED BY <1>2, <2>2 DEF At
<1>3. CASE svr[o].con_hdl \notin Handles
  <2>1. svr[o].con_hdl = -1
    BY <1>1, <1>3
  <2>2. ~VALID_CONNECT_HDL(svr[o].con_hdl)
    BY <2>1 DEF VALID_CONNECT_HDL
  <2> QED BY <1>3, <2>1, <2>2
<1> QED BY <1>2, <1>3

(* HandleOwnership and ReprShowsConnection without the operators.          *)
Owned(o) ==
  /\ o \in live
  /\ conn[svr[o].con_hdl] # NULL
  /\ conn[svr[o].con_hdl].by = o
Named(o) ==
  /\ svr[o].pbs_server # NULL
  /\ svr[o].pbs_server = conn[svr[o].con_hdl].host
AllOwned == \A o \in Servers : svr[o].con_hdl \in Handles => Owned(o)
AllNamed == \A o \in Servers : svr[o].con_hdl \in Handles => Named(o)

(* HandleOwnership in the form the step lemmas use.                        *)
LEMMA OwnedForm == ASSUME TypeOK PROVE HandleOwnership <=> AllOwned
BY ValidHandle DEF HandleOwnership, AllOwned, Owned

(* ReprShowsConnection in the form the step lemmas use.                    *)
LEMMA NamedForm == ASSUME TypeOK PROVE ReprShowsConnection <=> AllNamed
BY ValidHandle DEF ReprShowsConnection, AllNamed, Named, svr__repr

(* Who has which entry, one case for each thing a step can do: the handle   *)
(* of another object is never the one that is closed or opened.            *)
LEMMA OwnershipStep ==
  ASSUME TypeOK, AllOwned, AllNamed, Effect
  PROVE  AllOwned' /\ AllNamed'
<1> USE DEF AllOwned, AllNamed, Owned, Named, Only
<1>0. Blank.con_hdl = -1 /\ -1 \notin Handles
  BY ConstantsAssumption DEF Blank
<1>1. CASE UNCHANGED <<live, svr, conn>>
  BY <1>1
<1>2. ASSUME NEW o \in Servers, Made(o) PROVE AllOwned' /\ AllNamed'
  BY <1>0, <1>2 DEF Made, TypeOK
<1>3. ASSUME NEW o \in Servers, Edited(o) PROVE AllOwned' /\ AllNamed'
  BY <1>3 DEF Edited, TypeOK
<1>4. ASSUME NEW o \in Servers, Lost(o) PROVE AllOwned' /\ AllNamed'
  BY <1>0, <1>4 DEF Lost, TypeOK
<1>5. ASSUME NEW o \in Servers, Closed(o) PROVE AllOwned' /\ AllNamed'
  BY <1>0, <1>5 DEF Closed, TypeOK
<1>6. ASSUME NEW o \in Servers, NEW h \in Handles, Opened(o, h)
      PROVE  AllOwned' /\ AllNamed'
  <2>1. PICK s \in Object, c \in Connection :
          /\ Only(o, s)
          /\ s.con_hdl = h /\ s.pbs_server = c.host /\ s.py_pbs_server = c.host
          /\ c.by = o
          /\ conn' = [conn EXCEPT ![h] = c]
    BY <1>6 DEF Opened
  <2>2. c # NULL /\ c.host # NULL
    BY ConstantsAssumption DEF Connection
  <2>3. o \in live' /\ live' = live /\ conn[h] = NULL
    BY <1>6 DEF Opened
  <2>4. svr'[o] = s /\ \A u \in Servers \ {o} : svr'[u] = svr[u]
    BY <2>1 DEF TypeOK
  <2>5. conn'[h] = c /\ \A g \in Handles \ {h} : conn'[g] = conn[g]
    BY <2>1 DEF TypeOK
  <2>6. \A u \in Servers \ {o} : svr[u].con_hdl \in Handles => svr[u].con_hdl # h
    BY <2>3
  <2>7. ASSUME NEW u \in Servers, svr'[u].con_hdl \in Handles
        PROVE  Owned(u)' /\ Named(u)'
    <3>1. CASE u = o
      BY <2>1, <2>2, <2>3, <2>4, <2>5, <3>1
    <3>2. CASE u # o
      <4>1. svr'[u] = svr[u] /\ conn'[svr[u].con_hdl] = conn[svr[u].con_hdl]
        BY <2>4, <2>5, <2>6, <2>7, <3>2
      <4> QED BY <2>3, <2>7, <4>1
    <3> QED BY <3>1, <3>2
  <2> QED BY <2>7
<1>7. ASSUME NEW o \in Servers, NEW h \in Handles, Undone(o, h)
      PROVE  AllOwned' /\ AllNamed'
  BY <1>0, <1>7 DEF Undone, TypeOK
<1> QED BY <1>1, <1>2, <1>3, <1>4, <1>5, <1>6, <1>7 DEF Effect

(* Every step keeps the cached string equal to the name it caches.         *)
LEMMA CacheStep ==
  ASSUME TypeOK, CacheCoherent, Effect
  PROVE  CacheCoherent'
<1> USE DEF CacheCoherent, Only
<1>0. Blank.pbs_server = NULL /\ Blank.py_pbs_server = PBS_UNKNOWN_HOST
  BY DEF Blank
<1>1. CASE UNCHANGED <<live, svr, conn>>
  BY <1>1
<1>2. ASSUME NEW o \in Servers, Made(o) PROVE CacheCoherent'
  BY <1>0, <1>2 DEF Made, TypeOK
<1>3. ASSUME NEW o \in Servers, Edited(o) PROVE CacheCoherent'
  BY <1>3 DEF Edited, TypeOK
<1>4. ASSUME NEW o \in Servers, Lost(o) PROVE CacheCoherent'
  BY <1>0, <1>4 DEF Lost, TypeOK
<1>5. ASSUME NEW o \in Servers, Closed(o) PROVE CacheCoherent'
  BY <1>0, <1>5 DEF Closed, TypeOK
<1>6. ASSUME NEW o \in Servers, NEW h \in Handles, Opened(o, h) PROVE CacheCoherent'
  <2>1. PICK s \in Object, c \in Connection :
          Only(o, s) /\ s.pbs_server = c.host /\ s.py_pbs_server = c.host
    BY <1>6 DEF Opened
  <2>2. c.host # NULL
    BY ConstantsAssumption DEF Connection
  <2> QED BY <2>1, <2>2 DEF TypeOK
<1>7. ASSUME NEW o \in Servers, NEW h \in Handles, Undone(o, h) PROVE CacheCoherent'
  BY <1>0, <1>7 DEF Undone, TypeOK
<1> QED BY <1>1, <1>2, <1>3, <1>4, <1>5, <1>6, <1>7 DEF Effect

(* Whatever goes to the library goes with the handle the object has then.  *)
SentNow == \E o \in Servers, call \in Calls : sent' = Sending(call, o, svr[o].con_hdl)

(* What a step gives to the library is the handle its object has now.      *)
LEMMA SendsHandle ==
  ASSUME TypeOK, FrameOK, Next
  PROVE  sent' = NULL \/ SentNow
<1>1. "dealloc" \in Calls /\ "disconnect" \in Calls /\ Requests \subseteq Calls
  BY DEF Calls
<1>2. ASSUME NEW o \in Servers,
             svr__new(o) \/ svr__dealloc(o) \/ (\E a \in Args(CtorHosts) : svr__init(o, a))
               \/ (\E v \in Timeouts \cup {NoTimeout} : svr_set_timeout(o, v))
      PROVE  sent' = NULL \/ SentNow
  BY <1>1, <1>2 DEF svr__new, svr__dealloc, svr__init, svr_set_timeout, SentNow
<1>3. ASSUME NEW t \in Threads, NEW o \in Servers,
             (\E a \in Args(Hosts) : svr_connect(t, o, a)) \/ svr_disconnect(t, o)
      PROVE  sent' = NULL \/ SentNow
  BY <1>1, <1>3 DEF svr_connect, svr_disconnect, SentNow
<1>4. ASSUME NEW t \in Threads, NEW o \in Servers, NEW call \in Requests,
             RequestStep(t, o, call)
      PROVE  sent' = NULL \/ SentNow
  BY <1>1, <1>4 DEF RequestStep, RETURN_INVALID_HDL, BadArguments, ToLibrary, SentNow
<1>5. ASSUME NEW t \in Threads, NEW o \in Servers, PlainMethod(t, o) \/ CallbackMethod(t, o)
      PROVE  sent' = NULL \/ SentNow
  BY <1>4, <1>5, MethodIsRequest
<1>6. ASSUME NEW t \in Threads, Converted(t) PROVE sent' = NULL \/ SentNow
  BY <1>4, <1>6, ConvertedIsRequest
<1>7. ASSUME NEW t \in Threads, SET_PBS_EXCEPTION(t) PROVE sent' = NULL
  BY <1>7 DEF SET_PBS_EXCEPTION
<1> QED BY <1>2, <1>3, <1>5, <1>6, <1>7 DEF Next

(* Every request of a step reaches the connection of its own object.       *)
LEMMA HomeStep ==
  ASSUME TypeOK, FrameOK, AllOwned, Next
  PROVE  RequestsStayHome'
<1>1. CASE sent' = NULL
  BY <1>1 DEF RequestsStayHome
<1>2. CASE SentNow
  <2>1. PICK o \in Servers, call \in Calls : sent' = Sending(call, o, svr[o].con_hdl)
    BY <1>2 DEF SentNow
  <2>2. sent'.hdl = svr[o].con_hdl /\ sent'.conn = At(svr[o].con_hdl) /\ sent'.self = o
    BY <2>1 DEF Sending
  <2>3. CASE svr[o].con_hdl \in Handles
    <3>1. sent'.conn # NULL /\ sent'.conn.by = sent'.self
      BY <2>2, <2>3, ValidHandle DEF AllOwned, Owned
    <3> QED BY <3>1 DEF RequestsStayHome
  <2>4. CASE svr[o].con_hdl \notin Handles
    BY <2>2, <2>4, ValidHandle DEF RequestsStayHome
  <2> QED BY <2>3, <2>4
<1> QED BY <1>1, <1>2, SendsHandle

-------------------------------------------------------------------------------
(* The theorems.                                                           *)

(* The invariant that is inductive: what the properties say, and what is   *)
(* true of the calls in progress.                                          *)
IInv ==
  /\ TypeOK
  /\ FrameOK
  /\ AllOwned
  /\ AllNamed
  /\ CacheCoherent
  /\ RequestsStayHome
  /\ ErrorReporting

(* The inductive invariant holds of the interpreter that starts.           *)
LEMMA IInvInit == ASSUME Init PROVE IInv
<1>1. Idle \in Frame
  BY DEF Idle, Frame, Calls, Requests, Errors, Verdicts
<1>2. TypeOK
  BY <1>1, BlankType DEF Init, TypeOK
<1>3. FrameOK
  BY DEF Init, FrameOK, Idle
<1>4. AllOwned /\ AllNamed
  BY ConstantsAssumption DEF Init, AllOwned, AllNamed, Blank
<1>5. CacheCoherent /\ RequestsStayHome /\ ErrorReporting
  BY DEF Init, CacheCoherent, RequestsStayHome, ErrorReporting, Blank
<1> QED BY <1>2, <1>3, <1>4, <1>5 DEF IInv

(* The inductive invariant is preserved by every step.                     *)
LEMMA IInvStep == ASSUME IInv, [Next]_vars PROVE IInv'
<1>1. CASE Next
  <2> USE DEF IInv
  <2>1. Effect /\ OthersOK'
    BY <1>1, StepEffect
  <2>2. TypeOK'
    BY <2>1, TypeStep
  <2>3. FrameOK' /\ ErrorReporting'
    BY <1>1, StepReports
  <2>4. AllOwned' /\ AllNamed'
    BY <2>1, OwnershipStep
  <2>5. CacheCoherent'
    BY <2>1, CacheStep
  <2>6. RequestsStayHome'
    BY <1>1, HomeStep
  <2> QED BY <2>2, <2>3, <2>4, <2>5, <2>6
<1>2. CASE UNCHANGED vars
  BY <1>2 DEF vars, libVars, IInv, TypeOK, FrameOK, AllOwned, Owned, AllNamed, Named,
              CacheCoherent, RequestsStayHome, ErrorReporting
<1> QED BY <1>1, <1>2

(* The inductive invariant, from which the others follow.                  *)
THEOREM Invariance == Spec => []IInv
BY IInvInit, IInvStep, PTL DEF Spec

(* Every variable keeps its type, in particular con_hdl is always -1 or a   *)
(* handle of the library's table.                                          *)
THEOREM TypeCorrect == Spec => []TypeOK
<1>1. IInv => TypeOK
  BY DEF IInv
<1> QED BY <1>1, Invariance, PTL

(* A Server object's handle is its own open connection, for any number of   *)
(* threads and objects: no connect, disconnect, destruction or error exit   *)
(* of connect leaves an object with a closed handle or another's.           *)
THEOREM HandlesOwned == Spec => []HandleOwnership
<1>1. IInv => HandleOwnership
  BY OwnedForm DEF IInv
<1> QED BY <1>1, Invariance, PTL

(* repr() of a connected object names the server it is connected to.       *)
THEOREM ReprCorrect == Spec => []ReprShowsConnection
<1>1. IInv => ReprShowsConnection
  BY NamedForm DEF IInv
<1> QED BY <1>1, Invariance, PTL

(* The cached Python string never disagrees with the C string.             *)
THEOREM CacheCorrect == Spec => []CacheCoherent
<1>1. IInv => CacheCoherent
  BY DEF IInv
<1> QED BY <1>1, Invariance, PTL

(* No request reaches another object's connection or a closed one, however  *)
(* the threads interleave between the check of the handle and its use.      *)
THEOREM RequestsHome == Spec => []RequestsStayHome
<1>1. IInv => RequestsStayHome
  BY DEF IInv
<1> QED BY <1>1, Invariance, PTL

(* A library error is reported to the call that made it, with its number.   *)
THEOREM ErrorsReported == Spec => []ErrorReporting
<1>1. IInv => ErrorReporting
  BY DEF IInv
<1> QED BY <1>1, Invariance, PTL

-------------------------------------------------------------------------------
(* The Server objects implement the connection pool.                       *)

(* o owns an entry of the pool exactly when it has its handle.             *)
LEMMA PoolOwnerIs ==
  ASSUME TypeOK, AllOwned, NEW h \in Handles
  PROVE  /\ conn[h] = NULL <=> PoolOwner[h] = Free
         /\ \A o \in Servers : PoolOwner[h] = o <=> svr[o].con_hdl = h
<1>1. Free \notin Servers /\ Orphan \notin Servers /\ Free # Orphan
  BY ConstantsAssumption DEF Free, Orphan
<1>2. PoolOwner[h] = IF conn[h] = NULL THEN Free
                     ELSE IF svr[conn[h].by].con_hdl = h THEN conn[h].by ELSE Orphan
  BY DEF PoolOwner
<1>3. conn[h] # NULL => conn[h].by \in Servers
  BY DEF TypeOK, Connection
<1>4. \A o \in Servers : svr[o].con_hdl = h => conn[h] # NULL /\ conn[h].by = o
  BY DEF AllOwned, Owned
<1> QED BY <1>1, <1>2, <1>3, <1>4

(* A step that does one of the six things is a step of the pool, or none.  *)
LEMMA PoolStep ==
  ASSUME TypeOK, AllOwned, Effect
  PROVE  Pool!Next \/ UNCHANGED PoolOwner
<1> DEFINE P == PoolOwner
           Q == PoolOwner'
<1>0. /\ Free \notin Servers /\ Orphan \notin Servers /\ Free # Orphan
      /\ Blank.con_hdl = -1 /\ -1 \notin Handles
  BY ConstantsAssumption DEF Free, Orphan, Blank
<1>1. \A h \in Handles :
        /\ conn[h] = NULL <=> P[h] = Free
        /\ \A o \in Servers : P[h] = o <=> svr[o].con_hdl = h
  BY PoolOwnerIs
<1>2. \A h \in Handles :
        P[h] = IF conn[h] = NULL THEN Free
               ELSE IF svr[conn[h].by].con_hdl = h THEN conn[h].by ELSE Orphan
  BY DEF PoolOwner
<1>3. \A h \in Handles :
        Q[h] = IF conn'[h] = NULL THEN Free
               ELSE IF svr'[conn'[h].by].con_hdl = h THEN conn'[h].by ELSE Orphan
  BY DEF PoolOwner
<1>4. DOMAIN P = Handles /\ DOMAIN Q = Handles /\ P = [h \in Handles |-> P[h]]
      /\ Q = [h \in Handles |-> Q[h]]
  BY DEF PoolOwner
<1>5. \A h \in Handles : conn[h] # NULL => conn[h].by \in Servers
  BY DEF TypeOK, Connection
<1>6. DOMAIN svr = Servers /\ DOMAIN conn = Handles
  BY DEF TypeOK
<1>7. ASSUME \A h \in Handles : Q[h] = P[h] PROVE UNCHANGED PoolOwner
  BY <1>4, <1>7
<1>8. CASE UNCHANGED <<live, svr, conn>>
  BY <1>8 DEF PoolOwner
<1>9. ASSUME NEW o \in Servers, Made(o) \/ Edited(o) PROVE UNCHANGED PoolOwner
  <2>1. svr'[o].con_hdl = svr[o].con_hdl /\ \A u \in Servers \ {o} : svr'[u] = svr[u]
    <3>1. CASE Made(o)
      <4>1. svr[o].con_hdl = -1
        BY <3>1, ValidHandle DEF Made, AllOwned, Owned
      <4> QED BY <1>0, <1>6, <3>1, <4>1 DEF Made, Only
    <3>2. CASE Edited(o)
      BY <1>6, <3>2 DEF Edited, Only
    <3> QED BY <1>9, <3>1, <3>2
  <2>2. conn' = conn
    BY <1>9 DEF Made, Edited
  <2>3. \A h \in Handles : Q[h] = P[h]
    BY <1>2, <1>3, <1>5, <2>1, <2>2
  <2> QED BY <1>7, <2>3
<1>10. ASSUME NEW o \in Servers, Lost(o) PROVE Pool!Abandon(o)
  <2>1. svr'[o].con_hdl = -1 /\ (\A u \in Servers \ {o} : svr'[u] = svr[u]) /\ conn' = conn
    BY <1>6, <1>10 DEF Lost, Only
  <2>2. \A h \in Handles : Q[h] = IF P[h] = o THEN Orphan ELSE P[h]
    <3>1. ASSUME NEW h \in Handles, conn[h] = NULL
          PROVE  Q[h] = IF P[h] = o THEN Orphan ELSE P[h]
      BY <1>0, <1>2, <1>3, <2>1, <3>1
    <3>2. ASSUME NEW h \in Handles, conn[h] # NULL, conn[h].by = o
          PROVE  Q[h] = IF P[h] = o THEN Orphan ELSE P[h]
      <4>1. svr'[o].con_hdl # h
        BY <1>0, <2>1
      <4>2. Q[h] = Orphan
        BY <1>3, <2>1, <3>2, <4>1
      <4> QED BY <1>2, <3>2, <4>2
    <3>3. ASSUME NEW h \in Handles, conn[h] # NULL, conn[h].by # o
          PROVE  Q[h] = IF P[h] = o THEN Orphan ELSE P[h]
      <4>1. conn[h].by \in Servers \ {o}
        BY <1>5, <3>3
      <4> QED BY <1>0, <1>2, <1>3, <2>1, <3>3, <4>1
    <3> QED BY <3>1, <3>2, <3>3
  <2> QED BY <1>4, <2>2 DEF Pool!Abandon, Pool!Abandoned
<1>11. ASSUME NEW o \in Servers, Closed(o) PROVE Pool!Release(o, svr[o].con_hdl)
  <2> DEFINE g == svr[o].con_hdl
  <2>1. /\ g \in Handles /\ svr'[o].con_hdl = -1 /\ \A u \in Servers \ {o} : svr'[u] = svr[u]
        /\ conn'[g] = NULL /\ \A h \in Handles \ {g} : conn'[h] = conn[h]
    BY <1>0, <1>6, <1>11 DEF Closed, Only
  <2> HIDE DEF g
  <2>2. P[g] = o
    BY <1>1, <2>1 DEF g
  <2>3. Q[g] = Free
    BY <1>3, <2>1
  <2>4. ASSUME NEW h \in Handles \ {g} PROVE Q[h] = P[h]
    <3>1. P[h] # o
      BY <1>1, <2>4 DEF g
    <3>2. CASE conn[h] = NULL
      BY <1>2, <1>3, <2>1, <3>2
    <3>3. CASE conn[h] # NULL /\ conn[h].by # o
      BY <1>2, <1>3, <1>5, <2>1, <3>3
    <3>4. CASE conn[h] # NULL /\ conn[h].by = o
      <4>1. svr[o].con_hdl # h /\ svr'[o].con_hdl # h
        BY <1>0, <2>1, <2>4 DEF g
      <4> QED BY <1>2, <1>3, <2>1, <3>4, <4>1
    <3> QED BY <3>2, <3>3, <3>4
  <2>5. Q = [P EXCEPT ![g] = Free]
    BY <1>4, <2>1, <2>3, <2>4
  <2> QED BY <2>2, <2>5 DEF Pool!Release, g
<1>12. ASSUME NEW o \in Servers, NEW g \in Handles, Opened(o, g)
       PROVE  Pool!Acquire(o, g)
  <2>1. /\ conn[g] = NULL /\ svr'[o].con_hdl = g /\ \A u \in Servers \ {o} : svr'[u] = svr[u]
        /\ conn'[g] # NULL /\ conn'[g].by = o /\ \A h \in Handles \ {g} : conn'[h] = conn[h]
    BY <1>6, <1>12, ConstantsAssumption DEF Opened, Only
  <2>2. P[g] = Free /\ Q[g] = o
    BY <1>1, <1>3, <2>1
  <2>3. ASSUME NEW h \in Handles \ {g}
        PROVE  Q[h] = IF P[h] = o THEN Orphan ELSE P[h]
    <3>1. CASE conn[h] = NULL
      BY <1>0, <1>2, <1>3, <2>1, <3>1
    <3>2. CASE conn[h] # NULL /\ conn[h].by = o
      <4>1. Q[h] = Orphan
        BY <1>3, <2>1, <2>3, <3>2
      <4> QED BY <1>2, <3>2, <4>1
    <3>3. CASE conn[h] # NULL /\ conn[h].by # o
      <4>1. conn[h].by \in Servers \ {o}
        BY <1>5, <3>3
      <4> QED BY <1>0, <1>2, <1>3, <2>1, <3>3, <4>1
    <3> QED BY <3>1, <3>2, <3>3
  <2>4. Q = [[h \in Handles |-> IF P[h] = o THEN Orphan ELSE P[h]] EXCEPT ![g] = o]
    BY <1>4, <2>2, <2>3
  <2> QED BY <2>2, <2>4 DEF Pool!Acquire, Pool!Abandoned
<1>13. ASSUME NEW o \in Servers, NEW g \in Handles, Undone(o, g)
       PROVE  Pool!Leak(o, g)
  <2>1. /\ conn[g] = NULL /\ svr'[o].con_hdl = -1 /\ \A u \in Servers \ {o} : svr'[u] = svr[u]
        /\ conn'[g] # NULL /\ conn'[g].by = o /\ \A h \in Handles \ {g} : conn'[h] = conn[h]
    BY <1>0, <1>6, <1>13, ConstantsAssumption DEF Undone, Only
  <2>2. \A h \in Handles : svr'[o].con_hdl # h
    BY <1>0, <2>1
  <2>3. P[g] = Free /\ Q[g] = Orphan
    BY <1>1, <1>3, <2>1, <2>2
  <2>4. ASSUME NEW h \in Handles \ {g}
        PROVE  Q[h] = IF P[h] = o THEN Orphan ELSE P[h]
    <3>1. CASE conn[h] = NULL
      BY <1>0, <1>2, <1>3, <2>1, <3>1
    <3>2. CASE conn[h] # NULL /\ conn[h].by = o
      <4>1. Q[h] = Orphan
        BY <1>3, <2>1, <2>2, <2>4, <3>2
      <4> QED BY <1>2, <3>2, <4>1
    <3>3. CASE conn[h] # NULL /\ conn[h].by # o
      <4>1. conn[h].by \in Servers \ {o}
        BY <1>5, <3>3
      <4> QED BY <1>0, <1>2, <1>3, <2>1, <3>3, <4>1
    <3> QED BY <3>1, <3>2, <3>3
  <2>5. Q = [[h \in Handles |-> IF P[h] = o THEN Orphan ELSE P[h]] EXCEPT ![g] = Orphan]
    BY <1>4, <2>3, <2>4
  <2> QED BY <2>3, <2>5 DEF Pool!Leak, Pool!Abandoned
<1>14. ASSUME NEW o \in Servers, Closed(o) PROVE svr[o].con_hdl \in Handles
  BY <1>14 DEF Closed
<1> QED BY <1>8, <1>9, <1>10, <1>11, <1>12, <1>13, <1>14 DEF Effect, Pool!Next

(* Every behaviour of the Server objects is one of the connection pool:     *)
(* the entries of the table are acquired, released, abandoned and leaked    *)
(* only as ConnPool allows.                                                *)
THEOREM Refinement == Spec => PoolSpec
<1>1. Init => Pool!Init
  BY DEF Init, Pool!Init, PoolOwner
<1>2. IInv /\ [Next]_vars => [Pool!Next]_PoolOwner
  <2>1. ASSUME IInv, Next PROVE Pool!Next \/ UNCHANGED PoolOwner
    <3>1. Effect
      BY <2>1, StepEffect DEF IInv
    <3> QED BY <2>1, <3>1, PoolStep DEF IInv
  <2>2. ASSUME UNCHANGED vars PROVE UNCHANGED PoolOwner
    BY <2>2 DEF vars, libVars, PoolOwner
  <2> QED BY <2>1, <2>2
<1> QED BY <1>1, <1>2, Invariance, PTL DEF Spec, PoolSpec, Pool!Spec

(* No two entries of the table ever belong to the same Server object.      *)
THEOREM OneConnectionEach == Spec => []Pool!AtMostOne
<1>1. IInv => Pool!AtMostOne
  BY PoolOwnerIs DEF IInv, Pool!AtMostOne
<1> QED BY <1>1, Invariance, PTL

(* No step moves a connection from one Server object to another, and a      *)
(* connection whose handle was lost (connect on a connected object, a       *)
(* disconnect that failed while the object was cleared) is never recovered. *)
THEOREM ConnectionsNotStolen == Spec => Pool!NoTheft
<1> DEFINE Keeps == \A h \in Handles :
             /\ PoolOwner[h] \in Servers => PoolOwner'[h] \in {PoolOwner[h], Free, Orphan}
             /\ PoolOwner[h] = Orphan => PoolOwner'[h] = Orphan
<1>1. IInv /\ [Next]_vars => [Keeps]_PoolOwner
  <2>1. ASSUME IInv, Next PROVE Pool!Next \/ UNCHANGED PoolOwner
    <3>1. Effect
      BY <2>1, StepEffect DEF IInv
    <3> QED BY <2>1, <3>1, PoolStep DEF IInv
  <2>2. ASSUME UNCHANGED vars PROVE UNCHANGED PoolOwner
    BY <2>2 DEF vars, libVars, PoolOwner
  <2>3. ASSUME Pool!Next PROVE Keeps
    <3>1. Free \notin Servers /\ Orphan \notin Servers /\ Free # Orphan
      BY ConstantsAssumption DEF Free, Orphan
    <3>2. DOMAIN PoolOwner = Handles
      BY DEF PoolOwner
    <3> HIDE DEF Keeps
    <3>3. PICK o \in Servers :
            \/ Pool!Abandon(o)
            \/ \E h \in Handles : Pool!Acquire(o, h) \/ Pool!Release(o, h) \/ Pool!Leak(o, h)
      BY <2>3 DEF Pool!Next
    <3>4. CASE Pool!Abandon(o)
      BY <3>1, <3>4 DEF Pool!Abandon, Pool!Abandoned, Keeps
    <3>5. ASSUME NEW g \in Handles, Pool!Acquire(o, g) PROVE Keeps
      BY <3>1, <3>5 DEF Pool!Acquire, Pool!Abandoned, Keeps
    <3>6. ASSUME NEW g \in Handles, Pool!Release(o, g) PROVE Keeps
      BY <3>1, <3>2, <3>6 DEF Pool!Release, Keeps
    <3>7. ASSUME NEW g \in Handles, Pool!Leak(o, g) PROVE Keeps
      BY <3>1, <3>7 DEF Pool!Leak, Pool!Abandoned, Keeps
    <3> QED BY <3>3, <3>4, <3>5, <3>6, <3>7
  <2> QED BY <2>1, <2>2, <2>3
<1> QED BY <1>1, Invariance, PTL DEF Spec, Pool!NoTheft

-------------------------------------------------------------------------------
(* When the check of the handle is worth something.                        *)

(* A step in which no thread connects or disconnects an object while        *)
(* another reads the arguments, lists and numbers, that it gave to a        *)
(* method of that object.                                                  *)
Apart ==
  \A t, u \in Threads : frame[t].pc = "args" =>
    /\ ~svr_disconnect(u, frame[t].self)
    /\ \A a \in Args(Hosts) : ~svr_connect(u, frame[t].self, a)

(* A method that reads its arguments has an object still connected.        *)
CheckHolds(t) ==
  /\ frame[t].self \in live
  /\ frame[t].call \in Unchecked \/ VALID_CONNECT_HDL(svr[frame[t].self].con_hdl)
ArgsConnected == \A t \in Threads : frame[t].pc = "args" => CheckHolds(t)

(* What happens to an object whose handle stays, or for which no arguments  *)
(* are being read, is nothing to those who read theirs.                     *)
LEMMA ArgsKept ==
  ASSUME TypeOK, FrameOK, ArgsConnected, NEW o \in Servers, NEW t \in Threads,
         \/ \A u \in Threads : frame[u].pc = "args" => frame[u].self # o
         \/ svr'[o].con_hdl = svr[o].con_hdl /\ o \in live',
         \A p \in Servers \ {o} : svr'[p] = svr[p],
         \A p \in live \ {o} : p \in live',
         \A u \in Threads \ {t} : frame'[u] = frame[u],
         frame'[t] = frame[t] \/ frame'[t].pc # "args"
  PROVE  ArgsConnected'
<1> SUFFICES ASSUME NEW u \in Threads, frame'[u].pc = "args" PROVE CheckHolds(u)'
  BY DEF ArgsConnected
<1>1. frame'[u] = frame[u] /\ frame[u].pc = "args"
  OBVIOUS
<1>2. CheckHolds(u) /\ frame[u].self \in Servers
  BY <1>1 DEF ArgsConnected, FrameOK
<1>3. CASE frame[u].self # o
  BY <1>1, <1>2, <1>3 DEF CheckHolds
<1>4. CASE frame[u].self = o
  BY <1>1, <1>2, <1>4 DEF CheckHolds
<1> QED BY <1>3, <1>4

(* A request: arguments are read only after the check; what is sent by a    *)
(* method that checks has the handle that was checked.                     *)
LEMMA RequestConnected ==
  ASSUME TypeOK, FrameOK, ArgsConnected, NEW t \in Threads, NEW o \in Servers,
         NEW call \in Requests, o \in live, UNCHANGED live, RequestStep(t, o, call),
         frame[t].pc = "args" => frame[t].self = o /\ frame[t].call = call
  PROVE  ArgsConnected' /\ CheckedRequestsAreConnected'
<1>1. CASE /\ call \in Unchecked \/ VALID_CONNECT_HDL(svr[o].con_hdl)
           /\ frame' = [frame EXCEPT ![t] = [pc |-> "args", self |-> o, call |-> call,
                                             err |-> PBSE_NONE, lib |-> NotCalled]]
           /\ sent' = NULL /\ ret' = NULL
           /\ UNCHANGED <<svr, libVars>>
  <2>1. CheckedRequestsAreConnected'
    BY <1>1 DEF CheckedRequestsAreConnected
  <2>2. ASSUME NEW u \in Threads, frame'[u].pc = "args" PROVE CheckHolds(u)'
    <3>1. CASE u = t
      BY <1>1, <3>1 DEF CheckHolds, TypeOK
    <3>2. CASE u # t
      <4>1. frame'[u] = frame[u]
        BY <1>1, <3>2 DEF TypeOK
      <4> QED BY <1>1, <2>2, <4>1 DEF ArgsConnected, CheckHolds
    <3> QED BY <3>1, <3>2
  <2> QED BY <2>1, <2>2 DEF ArgsConnected
<1>2. CASE RETURN_INVALID_HDL(t, o, call) \/ BadArguments(t, call)
  <2>1. sent' = NULL /\ UNCHANGED svr
    BY <1>2 DEF RETURN_INVALID_HDL, BadArguments
  <2>2. frame'[t].pc # "args" /\ \A u \in Threads \ {t} : frame'[u] = frame[u]
    BY <1>2 DEF RETURN_INVALID_HDL, BadArguments, Raise, Return, Idle, TypeOK
  <2>3. ArgsConnected'
    BY <2>1, <2>2, ArgsKept
  <2> QED BY <2>1, <2>3 DEF CheckedRequestsAreConnected
<1>3. CASE /\ call \in Unchecked \/ VALID_CONNECT_HDL(svr[o].con_hdl) \/ frame[t].pc = "args"
           /\ ToLibrary(t, o, call)
  <2>1. sent' = Sending(call, o, svr[o].con_hdl) /\ UNCHANGED svr
    BY <1>3 DEF ToLibrary
  <2>2. frame'[t].pc # "args" /\ \A u \in Threads \ {t} : frame'[u] = frame[u]
    BY <1>3 DEF ToLibrary, Granted, Refused, Raise, Return, Idle, TypeOK
  <2>3. ArgsConnected'
    BY <2>1, <2>2, ArgsKept
  <2>4. call \in Unchecked \/ VALID_CONNECT_HDL(svr[o].con_hdl)
    BY <1>3 DEF ArgsConnected, CheckHolds
  <2>5. sent'.call = call /\ sent'.hdl = svr[o].con_hdl
    BY <2>1 DEF Sending
  <2> QED BY <2>3, <2>4, <2>5 DEF CheckedRequestsAreConnected
<1> QED BY <1>1, <1>2, <1>3 DEF RequestStep

(* connect and disconnect change one object, and their thread is not        *)
(* reading arguments afterwards.                                           *)
LEMMA ConnectTouches ==
  ASSUME TypeOK, NEW t \in Threads, NEW o \in Servers,
         (\E a \in Args(Hosts) : svr_connect(t, o, a)) \/ svr_disconnect(t, o)
  PROVE  /\ UNCHANGED live
         /\ frame'[t].pc # "args" /\ \A u \in Threads \ {t} : frame'[u] = frame[u]
         /\ \A p \in Servers \ {o} : svr'[p] = svr[p]
<1>1. ASSUME NEW a \in Args(Hosts), svr_connect(t, o, a)
      PROVE  /\ UNCHANGED live
             /\ frame'[t].pc # "args" /\ \A u \in Threads \ {t} : frame'[u] = frame[u]
             /\ \A p \in Servers \ {o} : svr'[p] = svr[p]
  <2>1. UNCHANGED live
    BY <1>1 DEF svr_connect, Call
  <2>2. \E s : svr' = [svr EXCEPT ![o] = s]
    BY <1>1 DEF svr_connect, ConnectFails, ConnectSucceeds, ConnectUndone,
                reset_PBSServerObject
  <2>3. \E f : f.pc # "args" /\ frame' = [frame EXCEPT ![t] = f]
    <3>1. ASSUME NEW call, NEW out, NEW err, NEW lib, Return(t, call, out, err, lib)
          PROVE  Idle.pc # "args" /\ frame' = [frame EXCEPT ![t] = Idle]
      BY <3>1 DEF Return, Idle
    <3>2. ASSUME NEW call, NEW err, NEW lib, Raise(t, o, call, err, lib)
          PROVE  \E f : f.pc # "args" /\ frame' = [frame EXCEPT ![t] = f]
      <4> DEFINE f == [pc |-> "raise", self |-> o, call |-> call, err |-> err, lib |-> lib]
      <4>1. f.pc # "args" /\ frame' = [frame EXCEPT ![t] = f]
        BY <3>2 DEF Raise
      <4> QED BY <4>1
    <3> QED BY <1>1, <3>1, <3>2
            DEF svr_connect, ConnectFails, ConnectSucceeds, ConnectUndone
  <2> QED BY <2>1, <2>2, <2>3 DEF TypeOK
<1>2. ASSUME svr_disconnect(t, o)
      PROVE  /\ UNCHANGED live
             /\ frame'[t].pc # "args" /\ \A u \in Threads \ {t} : frame'[u] = frame[u]
             /\ \A p \in Servers \ {o} : svr'[p] = svr[p]
  BY <1>2 DEF svr_disconnect, Call, Raise, Return, Idle, reset_PBSServerObject, TypeOK
<1> QED BY <1>1, <1>2

(* Every step that keeps apart keeps the checks.                           *)
LEMMA ApartStep ==
  ASSUME IInv, ArgsConnected, CheckedRequestsAreConnected, [Next /\ Apart]_vars
  PROVE  ArgsConnected' /\ CheckedRequestsAreConnected'
<1> USE DEF IInv
<1>1. ASSUME NEW o \in Servers, svr__new(o)
      PROVE  ArgsConnected' /\ CheckedRequestsAreConnected'
  BY <1>1 DEF svr__new, libVars, ArgsConnected, CheckHolds, CheckedRequestsAreConnected,
              TypeOK, FrameOK
<1>2. ASSUME NEW o \in Servers, svr__dealloc(o)
      PROVE  ArgsConnected' /\ CheckedRequestsAreConnected'
  <2>1. /\ UNCHANGED frame /\ \A u \in Threads : frame[u].self # o
        /\ live' = live \ {o} /\ \A p \in Servers \ {o} : svr'[p] = svr[p]
    BY <1>2 DEF svr__dealloc, reset_PBSServerObject, TypeOK
  <2>2. ArgsConnected'
    BY <2>1 DEF ArgsConnected, CheckHolds, FrameOK
  <2>3. CheckedRequestsAreConnected'
    BY <1>2 DEF svr__dealloc, Sending, CheckedRequestsAreConnected
  <2> QED BY <2>2, <2>3
<1>3. ASSUME NEW o \in Servers,
             \/ \E a \in Args(CtorHosts) : svr__init(o, a)
             \/ \E v \in Timeouts \cup {NoTimeout} : svr_set_timeout(o, v)
      PROVE  ArgsConnected' /\ CheckedRequestsAreConnected'
  <2>1. o \in live /\ UNCHANGED <<live, frame>> /\ sent' = NULL
    BY <1>3 DEF svr__init, svr_set_timeout
  <2>2. svr[o] \in Object /\ CtorHosts \in SUBSET Hosts
    BY ConstantsAssumption DEF TypeOK
  <2>3. \E s : s.con_hdl = svr[o].con_hdl /\ svr' = [svr EXCEPT ![o] = s]
    <3>1. ASSUME NEW a \in Args(CtorHosts), svr__init(o, a)
          PROVE  \E s : s.con_hdl = svr[o].con_hdl /\ svr' = [svr EXCEPT ![o] = s]
      BY <2>2, <3>1, ParseKeeps DEF svr__init
    <3>2. ASSUME NEW v \in Timeouts \cup {NoTimeout}, svr_set_timeout(o, v)
          PROVE  \E s : s.con_hdl = svr[o].con_hdl /\ svr' = [svr EXCEPT ![o] = s]
      <4>1. /\ [svr[o] EXCEPT !.timeout = v].con_hdl = svr[o].con_hdl
            /\ svr' = [svr EXCEPT ![o] = [svr[o] EXCEPT !.timeout = v]]
        BY <2>2, <3>2 DEF svr_set_timeout, Object
      <4> QED BY <4>1
    <3> QED BY <1>3, <3>1, <3>2
  <2>4. svr'[o].con_hdl = svr[o].con_hdl /\ \A p \in Servers \ {o} : svr'[p] = svr[p]
    BY <2>3 DEF TypeOK
  <2>5. ArgsConnected'
    BY <2>1, <2>4 DEF ArgsConnected, CheckHolds, FrameOK
  <2> QED BY <2>1, <2>5 DEF CheckedRequestsAreConnected
<1>4. ASSUME NEW t \in Threads, NEW o \in Servers,
             (\E a \in Args(Hosts) : svr_connect(t, o, a)) \/ svr_disconnect(t, o)
      PROVE  ArgsConnected' /\ CheckedRequestsAreConnected'
  <2>1. CheckedRequestsAreConnected'
    BY <1>4 DEF svr_connect, svr_disconnect, Sending, CheckedRequestsAreConnected
  <2>2. CASE UNCHANGED vars
    BY <2>1, <2>2 DEF vars, ArgsConnected, CheckHolds
  <2>3. CASE Apart
    <3>1. \A u \in Threads : frame[u].pc = "args" => frame[u].self # o
      BY <1>4, <2>3 DEF Apart
    <3> QED BY <1>4, <2>1, <3>1, ConnectTouches, ArgsKept
  <2> QED BY <2>2, <2>3
<1>5. ASSUME NEW t \in Threads, NEW o \in Servers, PlainMethod(t, o) \/ CallbackMethod(t, o)
      PROVE  ArgsConnected' /\ CheckedRequestsAreConnected'
  BY <1>5, MethodIsRequest, RequestConnected
<1>6. ASSUME NEW t \in Threads, Converted(t)
      PROVE  ArgsConnected' /\ CheckedRequestsAreConnected'
  <2>1. frame[t].self \in live
    BY <1>6 DEF Converted, ArgsConnected, CheckHolds
  <2> QED BY <1>6, <2>1, ConvertedIsRequest, RequestConnected
<1>7. ASSUME NEW t \in Threads, SET_PBS_EXCEPTION(t)
      PROVE  ArgsConnected' /\ CheckedRequestsAreConnected'
  <2>1. UNCHANGED <<live, svr>> /\ sent' = NULL
    BY <1>7 DEF SET_PBS_EXCEPTION
  <2>2. frame'[t].pc # "args" /\ \A u \in Threads \ {t} : frame'[u] = frame[u]
    BY <1>7 DEF SET_PBS_EXCEPTION, Return, Idle, TypeOK
  <2>3. ArgsConnected'
    BY <2>1, <2>2 DEF ArgsConnected, CheckHolds
  <2> QED BY <2>1, <2>3 DEF CheckedRequestsAreConnected
<1>8. CASE UNCHANGED vars
  BY <1>8 DEF vars, ArgsConnected, CheckHolds, CheckedRequestsAreConnected
<1> QED BY <1>1, <1>2, <1>3, <1>4, <1>5, <1>6, <1>7, <1>8 DEF Next

(* "blow out if connection not initialized" (PBSServerType.c:332, 960) is   *)
(* true of a program that keeps connect and disconnect of an object apart   *)
(* from the reading of arguments for it, be it the methods of a list or the *)
(* __int__ of a number: of all that runs then, the death of other objects,  *)
(* __init__ and the timeout setter, and requests of other threads that      *)
(* succeed or fail do not take the connection away between the check of     *)
(* the handle and its use.                                                  *)
THEOREM ChecksSuffice == Init /\ [][Next /\ Apart]_vars => []CheckedRequestsAreConnected
<1>1. Init => ArgsConnected /\ CheckedRequestsAreConnected
  BY DEF Init, ArgsConnected, CheckedRequestsAreConnected, Idle
<1>2. IInv /\ ArgsConnected /\ CheckedRequestsAreConnected /\ [Next /\ Apart]_vars
        => ArgsConnected' /\ CheckedRequestsAreConnected'
  BY ApartStep
<1>3. Init => IInv
  BY IInvInit
<1>4. IInv /\ [Next /\ Apart]_vars => IInv'
  BY IInvStep
<1> QED BY <1>1, <1>2, <1>3, <1>4, PTL
===============================================================================
