----------------------------- MODULE RpcHandler -----------------------------
(***************************************************************************)
(* The request queue of a base_rpc and the thread that serves it           *)
(* (base_rpc::rpc_data_handle_thread on top of base_thread and condition). *)
(*                                                                         *)
(* Three threads meet here.  The tracker thread receives data and pushes   *)
(* the parsed requests.  The worker thread waits for requests, takes all   *)
(* of them and serves them without the lock.  The owner thread is the      *)
(* program: it calls rpc_client::start_connect or rpc_server::start_listen *)
(* (each starts the handler with run()) and finally destroys the object    *)
(* (~base_rpc calls stop()).                                               *)
(***************************************************************************)
EXTENDS Naturals, Sequences, Functions

CONSTANTS
    Requests,      \* the requests that may be received, each at most once
    Registered,    \* those whose rpc_service names a registered service
    Acked,         \* those whose service fills ack_map
    MaxBatch,      \* bound: requests found in one read of the connection
    ListenFirst,   \* TRUE: rpc_server::start_listen, which starts receiving
                   \*       before run(); FALSE: rpc_client::start_connect,
                   \*       which starts receiving after it
    MaxRuns        \* bound: calls of start_connect or start_listen

ASSUME HandlerAssumption ==
    /\ Registered \subseteq Requests
    /\ Acked \subseteq Registered
    /\ MaxBatch \in Nat \ {0}
    /\ ListenFirst \in BOOLEAN
    /\ MaxRuns \in Nat

VARIABLES
    queue,         \* _req_map_lists
    lock,          \* who holds the mutex of _req_map_cond
    batch,         \* the worker's local req_map_lists, from `it' on
    running,       \* _bRunning
    waitStop,      \* _bWaitStop
    worker,        \* where the worker thread is
    tracker,       \* where the tracker thread is
    inhand,        \* req_maps, the requests the tracker is about to push
    owner,         \* where the owner thread is
    runs,          \* calls of run() so far
    receiving,     \* a read task or accept task is registered
    served,        \* history: the requests the worker has gone through
    invoked,       \* history: those whose service was called
    acks,          \* history: those answered through send_req
    owed           \* history: pushed and not thrown away by run()

threadVars == <<running, waitStop, runs, receiving>>
history    == <<served, invoked, acks, owed>>
vars == <<queue, lock, batch, worker, tracker, inhand, owner, threadVars, history>>

WorkerPC  == {"none", "loop", "acquire", "locked", "waiting", "woken",
              "relocked", "expired", "handle", "exited"}
TrackerPC == {"idle", "push", "append"}
OwnerPC   == {"idle", "clear", "start", "signal", "flag", "join", "gone"}

\* Requests not received so far, or received and thrown away.
Fresh == Requests \ (Range(owed) \cup Range(inhand))

\* The requests of one read: each is a request of its own.
Batches(S) == {b \in UNION {[1..n -> S] : n \in 1..MaxBatch} : IsInjective(b)}

Init ==
    /\ queue = <<>> /\ lock = "free" /\ batch = <<>>
    /\ running = FALSE /\ waitStop = FALSE
    /\ worker = "none" /\ tracker = "idle" /\ inhand = <<>>
    /\ owner = "idle" /\ runs = 0 /\ receiving = FALSE
    /\ served = <<>> /\ invoked = <<>> /\ acks = <<>> /\ owed = <<>>

-----------------------------------------------------------------------------
(* Faults: what a slip in the code would turn an action into.  No part of   *)
(* the specification; each refutes one of the properties below.            *)

\* The tracker appends without taking the mutex.
TrackerLockMissing ==
    /\ tracker = "push"
    /\ tracker' = "append"
    /\ UNCHANGED <<queue, lock, batch, worker, inhand, owner, threadVars, history>>

\* push_front: the newest requests overtake the waiting ones.
TrackerAppendFront ==
    /\ tracker = "append"
    /\ queue' = inhand \o queue
    /\ owed' = owed \o inhand
    /\ inhand' = <<>>
    /\ worker' = IF worker = "waiting" THEN "woken" ELSE worker
    /\ lock' = "free" /\ tracker' = "idle"
    /\ UNCHANGED <<batch, owner, threadVars, served, invoked, acks>>

\* thread_loop returns false after a timeout: the thread ends.
WorkerExpireEnds ==
    /\ worker = "expired" /\ lock = "free"
    /\ worker' = "exited"
    /\ UNCHANGED <<queue, lock, batch, tracker, inhand, owner, threadVars, history>>

\* The queue is copied and not cleared.
WorkerTakeKeeps ==
    /\ worker \in {"locked", "relocked"} /\ queue # <<>>
    /\ batch' = queue
    /\ lock' = "free" /\ worker' = "handle"
    /\ UNCHANGED <<queue, tracker, inhand, owner, threadVars, history>>

\* The loop tests for the end of the list before it advances.
WorkerHandleOverrun ==
    /\ worker = "handle" /\ batch # <<>>
    /\ LET r == Head(batch) IN
         /\ served'  = Append(served, r)
         /\ invoked' = IF r \in Registered THEN Append(invoked, r) ELSE invoked
         /\ acks'    = IF r \in Acked THEN Append(acks, r) ELSE acks
    /\ batch' = Tail(batch)
    /\ worker' = IF Len(batch) = 0 THEN "loop" ELSE "handle"
    /\ UNCHANGED <<queue, lock, tracker, inhand, owner, threadVars, owed>>

\* stop() joins the thread without asking it to stop.
OwnerFlagSilent ==
    /\ owner = "flag"
    /\ IF running THEN owner' = "join" /\ UNCHANGED lock
                  ELSE owner' = "gone" /\ lock' = "free"
    /\ UNCHANGED <<queue, batch, worker, tracker, inhand, threadVars, history>>

-----------------------------------------------------------------------------
(* The tracker thread.                                                     *)

\* _receive_data_handle parsed a chunk into requests (none: returns early).
TrackerReceive ==
    /\ receiving /\ tracker = "idle"
    /\ \E b \in Batches(Fresh) : inhand' = b
    /\ tracker' = "push"
    /\ UNCHANGED <<queue, lock, batch, worker, owner, threadVars, history>>

TrackerLock ==
    /\ tracker = "push" /\ lock = "free"
    /\ lock' = "tracker" /\ tracker' = "append"
    /\ UNCHANGED <<queue, batch, worker, inhand, owner, threadVars, history>>

\* pthread_cond_signal wakes the worker if it waits, and is lost otherwise.
Signalled == IF worker = "waiting" THEN "woken" ELSE worker

\* _push_req_map: append all of them, signal, unlock.
TrackerAppend ==
    /\ tracker = "append"
    /\ queue' = queue \o inhand
    /\ owed' = owed \o inhand
    /\ inhand' = <<>>
    /\ worker' = Signalled
    /\ lock' = "free" /\ tracker' = "idle"
    /\ UNCHANGED <<batch, owner, threadVars, served, invoked, acks>>

-----------------------------------------------------------------------------
(* The worker thread: base_thread::thread_func around thread_loop.         *)

\* while(!_bWaitStop)
WorkerLoop ==
    /\ worker = "loop"
    /\ worker' = IF waitStop THEN "exited" ELSE "acquire"
    /\ UNCHANGED <<queue, lock, batch, tracker, inhand, owner, threadVars, history>>

WorkerAcquire ==
    /\ worker = "acquire" /\ lock = "free"
    /\ lock' = "worker" /\ worker' = "locked"
    /\ UNCHANGED <<queue, batch, tracker, inhand, owner, threadVars, history>>

\* Nothing queued: time_wait(1000) releases the mutex and waits.
WorkerSleep ==
    /\ worker = "locked" /\ queue = <<>>
    /\ lock' = "free" /\ worker' = "waiting"
    /\ UNCHANGED <<queue, batch, tracker, inhand, owner, threadVars, history>>

\* The wait ends: after one second, or spuriously, as POSIX allows.
WorkerTimeout ==
    /\ worker = "waiting"
    /\ worker' = "expired"
    /\ UNCHANGED <<queue, lock, batch, tracker, inhand, owner, threadVars, history>>

WorkerSpurious ==
    /\ worker = "waiting"
    /\ worker' = "woken"
    /\ UNCHANGED <<queue, lock, batch, tracker, inhand, owner, threadVars, history>>

\* pthread_cond_timedwait takes the mutex again before it returns 0.
WorkerReacquire ==
    /\ worker = "woken" /\ lock = "free"
    /\ lock' = "worker" /\ worker' = "relocked"
    /\ UNCHANGED <<queue, batch, tracker, inhand, owner, threadVars, history>>

\* It takes it before returning ETIMEDOUT, too; thread_loop then returns
\* without a look at the queue.
WorkerExpire ==
    /\ worker = "expired" /\ lock = "free"
    /\ worker' = "loop"
    /\ UNCHANGED <<queue, lock, batch, tracker, inhand, owner, threadVars, history>>

\* Woken for nothing: thread_loop returns true.
WorkerIdle ==
    /\ worker = "relocked" /\ queue = <<>>
    /\ lock' = "free" /\ worker' = "loop"
    /\ UNCHANGED <<queue, batch, tracker, inhand, owner, threadVars, history>>

\* req_map_lists = _req_map_lists; _req_map_lists.clear(); unlock.
WorkerTake ==
    /\ worker \in {"locked", "relocked"} /\ queue # <<>>
    /\ batch' = queue /\ queue' = <<>>
    /\ lock' = "free" /\ worker' = "handle"
    /\ UNCHANGED <<tracker, inhand, owner, threadVars, history>>

\* One turn of the loop over req_map_lists: look the service up, call it,
\* answer if it filled ack_map.  The lock is not held.
WorkerHandle ==
    /\ worker = "handle" /\ batch # <<>>
    /\ LET r == Head(batch) IN
         /\ served'  = Append(served, r)
         /\ invoked' = IF r \in Registered THEN Append(invoked, r) ELSE invoked
         /\ acks'    = IF r \in Acked THEN Append(acks, r) ELSE acks
    /\ batch' = Tail(batch)
    /\ worker' = IF Len(batch) = 1 THEN "loop" ELSE "handle"
    /\ UNCHANGED <<queue, lock, tracker, inhand, owner, threadVars, owed>>
-----------------------------------------------------------------------------
(* The owner thread.                                                       *)

\* start_listen registers the accept task and then calls run();
\* start_connect connects and then calls run().
OwnerBegin ==
    /\ owner = "idle" /\ runs < MaxRuns
    /\ runs' = runs + 1
    /\ receiving' = (receiving \/ ListenFirst)
    /\ owner' = "clear"
    /\ UNCHANGED <<queue, lock, batch, running, waitStop, worker, tracker, inhand, history>>

\* rpc_data_handle_thread::run: _req_map_lists.clear(), without the lock.
OwnerClear ==
    /\ owner = "clear"
    /\ queue' = <<>>
    /\ owed' = SubSeq(owed, 1, Len(owed) - Len(queue))
    /\ owner' = "start"
    /\ UNCHANGED <<lock, batch, worker, tracker, inhand, threadVars, served, invoked, acks>>

\* base_thread::_run: a thread is created unless one was; pthread_create may
\* fail.  start_connect goes on to recv_data whatever run() returned.
OwnerStart ==
    /\ owner = "start"
    /\ \/ /\ running
          /\ UNCHANGED <<running, waitStop, worker>>
       \/ /\ ~running
          /\ waitStop' = FALSE
          /\ \/ running' = TRUE /\ worker' = "loop"
             \/ running' = FALSE /\ UNCHANGED worker
    /\ owner' = "idle" /\ receiving' = TRUE
    /\ UNCHANGED <<queue, lock, batch, tracker, inhand, runs, history>>

\* ~base_rpc calls _rpc_handler.stop(), which takes the mutex and keeps it to
\* the end.  The connections were closed before; the program is assumed to
\* destroy the object while no callback of the tracker thread is under way.
OwnerStop ==
    /\ owner = "idle" /\ tracker = "idle" /\ lock = "free"
    /\ receiving' = FALSE
    /\ lock' = "owner" /\ owner' = "signal"
    /\ UNCHANGED <<queue, batch, running, waitStop, worker, tracker, inhand, runs, history>>

OwnerSignal ==
    /\ owner = "signal"
    /\ worker' = Signalled
    /\ owner' = "flag"
    /\ UNCHANGED <<queue, lock, batch, tracker, inhand, threadVars, history>>

\* base_thread::stop: the thread is asked to stop, if there is one.
OwnerFlag ==
    /\ owner = "flag"
    /\ IF running THEN waitStop' = TRUE /\ owner' = "join" /\ UNCHANGED lock
                  ELSE lock' = "free" /\ owner' = "gone" /\ UNCHANGED waitStop
    /\ UNCHANGED <<queue, batch, running, worker, tracker, inhand, runs, receiving, history>>

\* pthread_join returned; _bRunning = false; the auto_cond unlocks.
OwnerJoin ==
    /\ owner = "join" /\ worker = "exited"
    /\ running' = FALSE
    /\ lock' = "free" /\ owner' = "gone"
    /\ UNCHANGED <<queue, batch, waitStop, worker, tracker, inhand, runs, receiving, history>>
-----------------------------------------------------------------------------
Tracker == TrackerReceive \/ TrackerLock \/ TrackerAppend

Worker == \/ WorkerLoop \/ WorkerAcquire \/ WorkerSleep \/ WorkerTimeout
          \/ WorkerSpurious \/ WorkerReacquire \/ WorkerExpire \/ WorkerIdle
          \/ WorkerTake \/ WorkerHandle

Owner == \/ OwnerBegin \/ OwnerClear \/ OwnerStart
         \/ OwnerStop \/ OwnerSignal \/ OwnerFlag \/ OwnerJoin

Next == Tracker \/ Worker \/ Owner

Spec == Init /\ [][Next]_vars

\* A thread that can step does so.  Calls of the program (OwnerBegin,
\* OwnerStop) and arrivals (TrackerReceive) need never happen.
Fairness ==
    /\ WF_vars(Worker)
    /\ WF_vars(TrackerLock \/ TrackerAppend)
    /\ WF_vars(OwnerClear \/ OwnerStart \/ OwnerSignal \/ OwnerFlag \/ OwnerJoin)

FairSpec == Spec /\ Fairness
-----------------------------------------------------------------------------
(* Properties.                                                             *)

\* Every variable has its type, and the worker is in its service loop only
\* while there is a request left in its list.
TypeOK ==
    /\ queue \in Seq(Requests) /\ batch \in Seq(Requests)
    /\ inhand \in Seq(Requests) /\ owed \in Seq(Requests)
    /\ served \in Seq(Requests) /\ invoked \in Seq(Registered)
    /\ acks \in Seq(Acked)
    /\ lock \in {"free", "owner", "worker", "tracker"}
    /\ running \in BOOLEAN /\ waitStop \in BOOLEAN /\ receiving \in BOOLEAN
    /\ runs \in 0..MaxRuns
    /\ worker \in WorkerPC /\ tracker \in TrackerPC /\ owner \in OwnerPC
    /\ worker = "handle" => batch # <<>>

\* No request is lost, duplicated or overtaken between the push by the
\* tracker thread and its service by the worker: what was pushed is what was
\* served, then what the worker holds, then what is queued, in this order.
Conservation == owed = served \o batch \o queue

\* The threads about to touch _req_map_lists.
Accessing == {t \in {"owner", "worker", "tracker"} :
                 \/ t = "owner" /\ owner = "clear"
                 \/ t = "worker" /\ worker \in {"locked", "relocked"}
                 \/ t = "tracker" /\ tracker = "append"}

\* No two threads are ever about to touch _req_map_lists at the same time:
\* std::list has no lock of its own.
RaceFree == \A t, u \in Accessing : t = u

\* run() never throws away a request that was received and not served.
NothingDiscarded == [][Len(owed') >= Len(owed)]_owed

\* The handler implements the abstract pipe: what the worker holds and what
\* is queued is pending, in that order.
Pipe == INSTANCE RequestPipe WITH pending <- batch \o queue, served <- served
ImplementsPipe == Pipe!Spec

\* Every pushed request that calls for an answer is answered, however pushes,
\* signals and timeouts interleave, unless the object is being destroyed:
\* the timed wait makes up for a signal that found nobody waiting.
Answered ==
    \A r \in Acked :
        (r \in Range(owed) /\ running) ~> (r \in Range(acks) \/ waitStop)

\* stop() returns if the worker is serving requests, or about to test
\* _bWaitStop, at the time when the flag is set: it then ends without asking
\* for the mutex.  That stop() finds it serving is not enough: it may finish
\* and test the flag while stop() has the mutex and has not set it yet.
StopWhileServing ==
    (owner = "join" /\ worker \in {"loop", "handle"}) ~> (owner = "gone")

\* stop() blocks its caller until the thread has stopped, and the thread stops.
StopReturns == (owner = "join") ~> (owner = "gone")
=============================================================================
