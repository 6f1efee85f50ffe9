------------------------------ MODULE Services ------------------------------
(***************************************************************************)
(* The services of a base_rpc (reg_services) and their functions           *)
(* (base_rpc_service::_reg_funcs, invoke), as the worker of the request    *)
(* handler uses them while the program may still be registering more.      *)
(*                                                                         *)
(* Each find and each operator[] of one of the std::maps is one step, and  *)
(* so is an assignment to what operator[] returned: a new entry is there   *)
(* before its value is.  The worker makes several such steps for a         *)
(* request, the program for a registration, and neither holds a lock.      *)
(***************************************************************************)
EXTENDS Naturals, FiniteSets, Functions

CONSTANTS
    Names,         \* service names, and the values of rpc_service
    Objects,       \* base_rpc_service objects
    Cmds,          \* names of functions, and the values of cmd
    NoCmd,         \* a request whose args have no "cmd"
    Null,          \* a null pointer
    MaxFunctions,  \* bound: functions handed to _reg_funcs
    MaxRequests    \* bound: requests served

VARIABLES
    services,      \* _services
    funcs,         \* _rpc_funcs of each object
    made,          \* functions handed to _reg_funcs so far, each a new one
    registering,   \* where the program is
    entry,         \* the service name or the object, and what it is to have
    worker,        \* where the worker is
    request,       \* *it: the rpc_service and the cmd of the request
    object,        \* p
    func,          \* the local func of invoke
    ack,           \* ack_map is not empty
    done           \* requests gone through

maps    == <<services, funcs>>
program == <<maps, made, registering, entry>>
serving == <<worker, request, object, func, ack, done>>
vars    == <<program, serving>>

Empty == [x \in {} |-> x]
With(f, k, v) == [x \in DOMAIN f \cup {k} |-> IF x = k THEN v ELSE f[x]]

\* operator[] makes the entry that is not there, with the value v of its type.
Bracket(f, k, v) == IF k \in DOMAIN f THEN f ELSE With(f, k, v)

\* A std::function that holds nothing: to call it is to throw.
NoFunc == 0

Init ==
    /\ services = Empty
    /\ funcs = [o \in Objects |-> Empty] /\ made = 0
    /\ registering = "idle" /\ entry = <<Null, Null>>
    /\ worker = "idle" /\ done = 0 /\ ack = FALSE
    /\ request = [rpc_service |-> Null, cmd |-> NoCmd]
    /\ object = Null /\ func = NoFunc

ProgramAt(from, to) == registering = from /\ registering' = to
WorkerAt(from, to) == worker = from /\ worker' = to

-----------------------------------------------------------------------------
(* Faults: slips that the properties below must notice.                    *)

\* _services[...] without the find before it.
FindNot ==
    /\ WorkerAt("find", "index")
    /\ UNCHANGED <<program, request, object, func, ack, done>>

-----------------------------------------------------------------------------
(* The program.                                                            *)

\* _services[service_name]: a new entry holds a null pointer at first.
RegServices(name, o) ==
    /\ ProgramAt("idle", "store")
    /\ services' = Bracket(services, name, Null)
    /\ entry' = <<name, o>>
    /\ UNCHANGED <<funcs, made, serving>>

\* = service: it replaces whatever had the name.
StoreService ==
    /\ ProgramAt("store", "idle")
    /\ services' = [services EXCEPT ![entry[1]] = entry[2]]
    /\ UNCHANGED <<funcs, made, entry, serving>>

\* _reg_funcs keeps the first function of a name.
RegFuncs(o, cmd) ==
    /\ made < MaxFunctions
    /\ ProgramAt("idle", IF cmd \in DOMAIN funcs[o] THEN "idle" ELSE "insert")
    /\ made' = made + 1
    /\ entry' = <<o, cmd>>
    /\ UNCHANGED <<maps, serving>>

\* _rpc_funcs[name]
InsertFunc ==
    /\ ProgramAt("insert", "assign")
    /\ funcs' = [funcs EXCEPT ![entry[1]] = Bracket(@, entry[2], NoFunc)]
    /\ UNCHANGED <<services, made, entry, serving>>

\* = func
AssignFunc ==
    /\ ProgramAt("assign", "idle")
    /\ funcs' = [funcs EXCEPT ![entry[1]][entry[2]] = made]
    /\ UNCHANGED <<services, made, entry, serving>>

-----------------------------------------------------------------------------
(* The worker: the loop of thread_loop over the requests it took.          *)

Take(name, cmd) ==
    /\ done < MaxRequests
    /\ WorkerAt("idle", "find")
    /\ request' = [rpc_service |-> name, cmd |-> cmd]
    /\ ack' = FALSE
    /\ UNCHANGED <<program, object, func, done>>

\* No such service: continue.
Find ==
    /\ LET known == request.rpc_service \in DOMAIN services IN
         /\ WorkerAt("find", IF known THEN "index" ELSE "idle")
         /\ done' = IF known THEN done ELSE done + 1
    /\ UNCHANGED <<program, request, object, func, ack>>

\* p = _services[...], which looks again.
Index ==
    /\ WorkerAt("index", "invoke")
    /\ services' = Bracket(services, request.rpc_service, Null)
    /\ object' = services'[request.rpc_service]
    /\ UNCHANGED <<funcs, made, registering, entry, request, func, ack, done>>

\* invoke of a null pointer, or with no "cmd" in its arguments, whose end() it
\* would look at, crashes; an unknown cmd returns false.
Invoke ==
    /\ WorkerAt("invoke", IF object = Null \/ request.cmd = NoCmd THEN "crashed"
                          ELSE IF request.cmd \in DOMAIN funcs[object] THEN "copy"
                          ELSE "answer")
    /\ UNCHANGED <<program, request, object, func, ack, done>>

\* func = _rpc_funcs[...], which looks again.
CopyFunc ==
    /\ WorkerAt("copy", "call")
    /\ funcs' = [funcs EXCEPT ![object] = Bracket(@, request.cmd, NoFunc)]
    /\ func' = funcs'[object][request.cmd]
    /\ UNCHANGED <<services, made, registering, entry, request, object, ack, done>>

\* The function returns or throws; thread_loop does not look at what invoke
\* makes of it, only at ack_map.
Call ==
    /\ WorkerAt("call", "answer")
    /\ ack' \in {FALSE, func # NoFunc}
    /\ UNCHANGED <<program, request, object, func, done>>

\* if (ack_map.size() > 0) send_req.
Answer ==
    /\ WorkerAt("answer", "idle")
    /\ done' = done + 1
    /\ UNCHANGED <<program, request, object, func, ack>>

-----------------------------------------------------------------------------
Program == \/ \E name \in Names, o \in Objects : RegServices(name, o)
           \/ StoreService
           \/ \E o \in Objects, cmd \in Cmds : RegFuncs(o, cmd)
           \/ InsertFunc \/ AssignFunc

Worker == \/ \E name \in Names, cmd \in Cmds \cup {NoCmd} : Take(name, cmd)
          \/ Find \/ Index \/ Invoke \/ CopyFunc \/ Call \/ Answer

Next == Program \/ Worker

Spec == Init /\ [][Next]_vars
-----------------------------------------------------------------------------
(* Properties.                                                             *)

\* While a function runs it is still the one its object has for the cmd of
\* the request, whatever the program has registered since the worker looked,
\* or none at all: the worker came between an entry and its value.
CallsTheRegistered ==
    worker = "call" =>
        /\ object \in Objects
        /\ request.cmd \in DOMAIN funcs[object]
        /\ func \in {NoFunc, funcs[object][request.cmd]}

\* An entry without a value is one that the program is about to fill: the
\* operator[] of the worker leaves none behind, which would be found from
\* then on, and keep _reg_funcs from registering the function.
EmptyIsPending ==
    /\ \A name \in DOMAIN services :
          services[name] = Null => registering = "store" /\ entry[1] = name
    /\ \A o \in Objects : \A cmd \in DOMAIN funcs[o] :
          funcs[o][cmd] = NoFunc => registering = "assign" /\ entry = <<o, cmd>>

\* No step of the worker changes a map: what its find has found does not go
\* away, so that the operator[] behind it has nothing to insert.
WorkerOnlyReads == [][UNCHANGED serving \/ UNCHANGED maps]_vars

\* The lookups of the worker hold although nothing is locked: it runs what is
\* registered for the request, and what it looks at it never changes.
LookupsHold == [](CallsTheRegistered /\ EmptyIsPending) /\ WorkerOnlyReads
=============================================================================
