------------------------------- MODULE Parts --------------------------------
(***************************************************************************)
(* The smaller parts of the library, one specification for all: a          *)
(* behaviour is one of one part, which is chosen at the start, and the     *)
(* other parts stay as they are.  Each property below is that of its part. *)
(*                                                                         *)
(*   lookup    HostLookup                                                  *)
(*   thread    BaseThread                                                  *)
(*   client    RpcClient, of a program that waits for the end              *)
(*   write     WritePath                                                   *)
(*   answer    AnswerPath                                                  *)
(*   handler   RpcHandler, in a server                                     *)
(*   refs      RefCount                                                    *)
(*   services  Services                                                    *)
(***************************************************************************)
EXTENDS HostLookup

CONSTANTS
    None,                                       \* nobody, and nothing
    Spawned,                                    \* of BaseThread
    MaxConns, MaxSends,                         \* of RpcClient
    Senders, Messages, Length, Room, MaxErrors, \* of WritePath
    Clients, MaxAsked,                          \* of AnswerPath
    Requests, Registered, Acked, MaxBatch, MaxRuns,      \* of RpcHandler
    Objects, Pointers,                          \* of RefCount
    ServiceNames, Services, Cmds, MaxFunctions, MaxServed   \* of Services

ASSUME PartsAssumption ==
    /\ MaxConns \in Nat
    /\ Length \in Nat \ {0} /\ Room \in Nat /\ "free" \notin Senders
    /\ None \notin Clients
    /\ None \notin Objects /\ IsFiniteSet(Pointers)
    /\ None \notin Services
    /\ Registered \subseteq Requests /\ Acked \subseteq Registered
    /\ MaxBatch \in Nat \ {0} /\ MaxRuns \in Nat

VARIABLES
    part,
    running, waitStop, exited, runOnce, stopFlag, handle, owner, baseThread, attr,
    fd, status, noticed, files, sockets, peer, unread, sent, clientPc, clientLock,
        hand, tasks, ids, copy, log,
    pc, msg, from, writeLock, result, writeTasks, tracker, current, kernel, wire, errors,
    serverPeer, asked, answered, list, accepting, subject, queue, answering, asker, front,
    requests, lock, batch, serves, stops, worker, receiver, inhand, program, runs,
        receiving, served, invoked, acks, owed,
    ref, del, life, slot, step, next,
    services, funcs, made, registering, entry, invoker, request, object, func, ack, done

lookupVars  == vars
threadsVars == <<running, waitStop, exited, runOnce, stopFlag, handle, owner, baseThread, attr>>
clientVars  == <<fd, status, noticed, files, sockets, peer, unread, sent, clientPc,
                 clientLock, hand, tasks, ids, copy, log>>
writeVars   == <<pc, msg, from, writeLock, result, writeTasks, tracker, current, kernel,
                 wire, errors>>
answerVars  == <<serverPeer, asked, answered, list, accepting, subject, queue, answering,
                 asker, front>>
handlerVars == <<requests, lock, batch, serves, stops, worker, receiver, inhand, program,
                 runs, receiving, served, invoked, acks, owed>>
refsVars    == <<ref, del, life, slot, step, next>>
serviceVars == <<services, funcs, made, registering, entry, invoker, request, object, func,
                 ack, done>>
partsVars   == <<part, lookupVars, threadsVars, clientVars, writeVars, answerVars,
                 handlerVars, refsVars, serviceVars>>

\* The modules with the proofs of a part hold nothing but its specification
\* and theorems about it, which PartsProofs uses.
Base == INSTANCE BaseThread WITH Threads <- Spawned, NoThread <- None, thread <- baseThread
Client == INSTANCE RpcClientProofs WITH
            Eager <- FALSE, made <- sockets, pc <- clientPc, mutex <- clientLock
Write == INSTANCE WritePathProofs WITH mutex <- writeLock, tasks <- writeTasks
Answer == INSTANCE AnswerPath WITH
            MaxRequests <- MaxAsked, peer <- serverPeer, tracker <- accepting,
            worker <- answering, request <- asker
Handler == INSTANCE RpcHandlerProofs WITH
            ListenFirst <- TRUE, queue <- requests, running <- serves, waitStop <- stops,
            tracker <- receiver, owner <- program
Ref == INSTANCE RefCountProofs WITH Slots <- Pointers, Null <- None
Service == INSTANCE Services WITH
            Names <- ServiceNames, Objects <- Services, NoCmd <- None, Null <- None,
            MaxRequests <- MaxServed, worker <- invoker

PartsInit ==
    /\ part \in {"lookup", "thread", "client", "write", "answer", "handler",
               "refs", "services"}
    /\ Init /\ Base!Init /\ Client!Init /\ Write!Init /\ Answer!Init /\ Handler!Init
    /\ Ref!Init /\ Service!Init

-----------------------------------------------------------------------------
(* A step of one part.                                                     *)

InLookup ==
    /\ part = "lookup"
    /\ UNCHANGED <<part, threadsVars, clientVars, writeVars, answerVars,
                   handlerVars, refsVars, serviceVars>>
InThread ==
    /\ part = "thread"
    /\ UNCHANGED <<part, lookupVars, clientVars, writeVars, answerVars,
                   handlerVars, refsVars, serviceVars>>
InClient ==
    /\ part = "client"
    /\ UNCHANGED <<part, lookupVars, threadsVars, writeVars, answerVars,
                   handlerVars, refsVars, serviceVars>>
InWrite ==
    /\ part = "write"
    /\ UNCHANGED <<part, lookupVars, threadsVars, clientVars, answerVars,
                   handlerVars, refsVars, serviceVars>>
InAnswer ==
    /\ part = "answer"
    /\ UNCHANGED <<part, lookupVars, threadsVars, clientVars, writeVars,
                   handlerVars, refsVars, serviceVars>>
InHandler ==
    /\ part = "handler"
    /\ UNCHANGED <<part, lookupVars, threadsVars, clientVars, writeVars,
                   answerVars, refsVars, serviceVars>>
InRefs ==
    /\ part = "refs"
    /\ UNCHANGED <<part, lookupVars, threadsVars, clientVars, writeVars,
                   answerVars, handlerVars, serviceVars>>
InServices ==
    /\ part = "services"
    /\ UNCHANGED <<part, lookupVars, threadsVars, clientVars, writeVars,
                   answerVars, handlerVars, refsVars>>

PartsNext ==
    \/ InLookup /\ Next
    \/ InThread /\ Base!Next
    \/ InClient /\ Client!Next
    \/ InWrite /\ Write!Next
    \/ InAnswer /\ Answer!Next
    \/ InHandler /\ Handler!Next
    \/ InRefs /\ Ref!Next
    \/ InServices /\ Service!Next

\* The fairness of each part, in terms of its own variables.
PartsFairness ==
    /\ \A c \in Calls : /\ WF_lookupVars(part = "lookup" /\ Caller(c))
                       /\ WF_lookupVars(part = "lookup" /\ Answering(c))
    /\ WF_threadsVars(part = "thread" /\ Base!Stopping)
    /\ \A t \in Spawned : WF_threadsVars(part = "thread" /\ Base!FairThread(t))
    /\ WF_clientVars(part = "client" /\ Client!Connecting)
    /\ WF_clientVars(part = "client" /\ Client!Tracking)
    /\ \A s \in Senders : WF_writeVars(part = "write" /\ Write!FairSending(s))
    /\ WF_writeVars(part = "write" /\ Write!FairPeerReads)
    /\ WF_writeVars(part = "write" /\ Write!FairTracker)
    /\ WF_answerVars(part = "answer" /\ Answer!Tracker)
    /\ WF_answerVars(part = "answer" /\ Answer!Worker)

PartsSpec == PartsInit /\ [][PartsNext]_partsVars /\ PartsFairness

-----------------------------------------------------------------------------
(* The properties of the parts, under their names there.                   *)

\* One thread at a time, is_running exact, no ended thread left to be joined.
ThreadSafe == Base!ThreadSafe

\* stop() returns.
StopEnds == Base!StopEnds

\* A client's socket, its task and what it was sent stay together.
ClientSafe == Client!ClientSafe

\* A client hears everything it was sent, and the end.
ClientLive == Client!ClientLive

\* What send_req returns, and what the peer sees, of a cut or failed write.
WriteSafe == Write!WriteSafe

\* What is in a write task is sent.
QueuedIsSent == Write!QueuedIsSent

\* The answer goes to the client that asked.
AnswerSafe == Answer!AnswerSafe

\* Every client gets its answers.
AllAnswered == Answer!AllAnswered

\* Nothing but run() takes a request away, though a server receives before it.
ImplementsPipe == Handler!ImplementsPipe

\* Reference counts are exact; nothing is used after it was deleted, or leaked.
RefSafe == Ref!RefSafe

\* The worker calls what is registered, and changes nothing there.
LookupsHold == Service!LookupsHold
=============================================================================
