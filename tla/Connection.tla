----------------------------- MODULE Connection -----------------------------
(***************************************************************************)
(* From the stream of one peer to the services: the tracker thread divides *)
(* what it reads into requests (Framing) and pushes them to the handler    *)
(* (RpcHandler), whose worker serves them.  _receive_data_handle is one    *)
(* call after the other, so that the next read comes after the push of the *)
(* last one: on the tracker thread, but for what start_connect itself      *)
(* reads, while there is no read task (RpcClient).                         *)
(***************************************************************************)
EXTENDS Framing

CONSTANTS
    Registered,    \* requests whose rpc_service names a registered service
    Acked,         \* those whose service fills ack_map
    ListenFirst,   \* TRUE: the peer is a client of an rpc_server; FALSE: the
                   \*       server of an rpc_client
    MaxRuns        \* bound: calls of start_connect or start_listen

\* What the end of a message is taken for is known by where it was read.
Requests == Messages \cup {-n : n \in 1..End[N]}

RequestOf(v) == IF v = Junk THEN -from ELSE v

\* A client connects once: to connect again is to have another stream.
ASSUME ConnectionAssumption ==
    /\ Registered \subseteq Requests /\ Acked \subseteq Registered
    /\ ListenFirst \in BOOLEAN
    /\ MaxRuns \in Nat /\ (ListenFirst \/ MaxRuns <= 1)

VARIABLES
    queue, lock, batch, running, waitStop, worker, tracker, inhand, owner, runs,
    receiving, served, invoked, acks, owed       \* those of RpcHandler

handlerVars == <<queue, lock, batch, worker, tracker, inhand, owner, running, waitStop,
                 runs, receiving, served, invoked, acks, owed>>
connectionVars == <<vars, handlerVars>>

\* The module of its proofs, which adds theorems about RpcHandler and nothing
\* else.  No line of a read is empty, so it holds fewer of them than bytes.
Handler == INSTANCE RpcHandlerProofs WITH MaxBatch <- MaxRead

ConnectionInit == Init /\ Handler!Init

-----------------------------------------------------------------------------
\* _on_data_receive, while a read task is registered and nothing else is under
\* way on this thread.
Receive ==
    /\ receiving /\ tracker = "idle"
    /\ Read
    /\ UNCHANGED handlerVars

Divide ==
    /\ DivideNoEnd \/ DivideEmpty \/ DivideBadJson \/ DivideLine
    /\ UNCHANGED handlerVars

\* _req_msg_parse returns, and _receive_data_handle calls _push_req_map with
\* all the requests of the read.  An assertion ends the process instead.
Parsed(found) ==
    /\ Deliver
    /\ IF pc' = "aborted"
       THEN UNCHANGED handlerVars
       ELSE /\ inhand' = [i \in 1..Len(found) |-> RequestOf(found[i])]
            /\ tracker' = "push"
            /\ UNCHANGED <<queue, lock, batch, worker, owner, running, waitStop, runs,
                           receiving, served, invoked, acks, owed>>

\* A fault: the overload of _push_req_map for one request, for the first.
PushFirst == Parsed(SubSeq(values, 1, 1))

Push == Parsed(values)

\* The handler's own steps.  The program destroys the object while no callback
\* of the tracker thread is under way.
Handle ==
    /\ \/ Handler!TrackerLock \/ Handler!TrackerAppend
       \/ Handler!Worker
       \/ Handler!OwnerBegin \/ Handler!OwnerClear \/ Handler!OwnerStart
       \/ Handler!OwnerSignal \/ Handler!OwnerFlag \/ Handler!OwnerJoin
       \/ pc = "read" /\ Handler!OwnerStop
    /\ pc # "aborted"
    /\ UNCHANGED vars

ConnectionNext == Receive \/ Divide \/ Push \/ Handle

ConnectionSpec == ConnectionInit /\ [][ConnectionNext]_connectionVars

-----------------------------------------------------------------------------
(* Properties.                                                             *)

\* What the handler has been given and has not thrown away, oldest first.
Flow == served \o batch \o queue \o inhand

\* What was read is what was served, is being served, waits or is about to be
\* pushed, in this order and without a gap, if nothing is received before the
\* one call of run(): no request is lost between the parser, the tracker
\* thread and the worker.
NothingLost ==
    ~ListenFirst =>
        /\ Len(Flow) = Len(delivered)
        /\ \A i \in 1..Len(Flow) :
              delivered[i] = IF Flow[i] \in Messages THEN Flow[i] ELSE Junk

\* However the stream is cut, and whatever the threads do: the messages of the
\* peer are served in the order in which it sent them, each at most once, and
\* none before all of it was read; run() may only leave some out.
ServedInOrder ==
    /\ \A i \in 1..Len(served) : served[i] \in Messages => End[served[i]] <= pos
    /\ \A i, j \in 1..Len(served) :
          i < j /\ served[i] \in Messages /\ served[j] \in Messages
             => served[i] < served[j]

\* The handler's account of it is right, too.
ConnectionSafe == Handler!Conservation /\ NothingLost /\ ServedInOrder
=============================================================================
