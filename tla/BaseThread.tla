----------------------------- MODULE BaseThread -----------------------------
(***************************************************************************)
(* A base_thread and the program thread that owns it: run, RunOnce, stop   *)
(* and wait_for_thread_end against thread_func.  A thread started by run() *)
(* has the thread_loop of select_tracker, which goes round by itself until *)
(* _stop_flag is set or select fails; one started by RunOnce() is detached *)
(* and makes one pass, as GetHostThread does.                              *)
(*                                                                         *)
(* The owner calls one function at a time.  _bRunning alone says whether a *)
(* thread may be started: it stays TRUE when a thread ends by itself.      *)
(***************************************************************************)

CONSTANTS
    Threads,       \* the threads pthread_create may create
    NoThread       \* a handle of 0

VARIABLES
    running,       \* _bRunning
    waitStop,      \* _bWaitStop
    exited,        \* _bExited
    runOnce,       \* run_once
    stopFlag,      \* select_tracker::_stop_flag
    handle,        \* _hThread
    owner,         \* where the owner is
    thread,        \* where each thread is
    attr           \* what pthread knows of it

flags == <<running, waitStop, exited, runOnce, stopFlag>>
vars  == <<flags, handle, owner, thread, attr>>

OwnerPC  == {"idle", "stopping", "joining", "waiting", "over", "aborted"}
ThreadPC == {"none", "begin", "test", "loop", "leaving", "exit", "done"}

Init ==
    /\ running = FALSE /\ waitStop = FALSE /\ exited = FALSE
    /\ runOnce = FALSE /\ stopFlag = FALSE
    /\ handle = NoThread /\ owner = "idle"
    /\ thread = [t \in Threads |-> "none"]
    /\ attr = [t \in Threads |-> "joinable"]

Live(t)   == thread[t] \notin {"none", "done"}
IsRunning == running /\ ~exited

OwnerAt(from, to) == owner = from /\ owner' = to
ThreadAt(t, from, to) ==
    /\ thread[t] = from
    /\ thread' = [thread EXCEPT ![t] = to]

-----------------------------------------------------------------------------
(* Faults: slips that the properties below must notice.                    *)

\* stop() does not wait for the thread.
JoinNot ==
    /\ OwnerAt("joining", "idle")
    /\ attr' = [attr EXCEPT ![handle] = "joined"]
    /\ handle' = NoThread /\ running' = FALSE
    /\ UNCHANGED <<waitStop, exited, runOnce, stopFlag, thread>>

\* _stop_flag is left alone: base_thread::stop and nothing else.
StopFlagForgotten ==
    /\ OwnerAt("idle", "stopping")
    /\ UNCHANGED <<flags, handle, thread, attr>>

-----------------------------------------------------------------------------
(* The owner.                                                              *)

\* _run: with _bRunning set it reports success and does nothing.  Otherwise
\* pthread_create may fail, which puts _bRunning and _hThread back.  Only
\* the run() of select_tracker resets _stop_flag.
Start(once) ==
    /\ owner = "idle" /\ ~running
    /\ runOnce' = once /\ waitStop' = FALSE /\ exited' = FALSE
    /\ stopFlag' = (once /\ stopFlag)
    /\ \/ \E t \in Threads :
             /\ ThreadAt(t, "none", "begin")
             /\ handle' = t /\ running' = TRUE
       \/ /\ handle' = NoThread /\ running' = FALSE
          /\ UNCHANGED thread
    /\ UNCHANGED <<owner, attr>>

\* select_tracker::run of a running thread still resets _stop_flag.
StartAgain ==
    /\ owner = "idle" /\ running
    /\ stopFlag' = FALSE
    /\ UNCHANGED <<running, waitStop, exited, runOnce, handle, owner, thread, attr>>

\* select_tracker::stop sets _stop_flag and goes on to base_thread::stop.
StopFlag ==
    /\ OwnerAt("idle", "stopping")
    /\ stopFlag' = TRUE
    /\ UNCHANGED <<running, waitStop, exited, runOnce, handle, thread, attr>>

\* stop and wait_for_stop: nothing to do, or _bWaitStop and the assertion
\* that the thread is not a detached one.
Stop ==
    /\ \/ /\ ~running
          /\ OwnerAt("stopping", "idle")
          /\ UNCHANGED waitStop
       \/ /\ running
          /\ OwnerAt("stopping", IF runOnce THEN "aborted" ELSE "joining")
          /\ waitStop' = TRUE
    /\ UNCHANGED <<running, exited, runOnce, stopFlag, handle, thread, attr>>

\* pthread_join returns; stop clears _hThread and _bRunning.
Join ==
    /\ OwnerAt("joining", "idle")
    /\ thread[handle] = "done"
    /\ attr' = [attr EXCEPT ![handle] = "joined"]
    /\ handle' = NoThread /\ running' = FALSE
    /\ UNCHANGED <<waitStop, exited, runOnce, stopFlag, thread>>

\* wait_for_thread_end joins and leaves _bRunning and _hThread as they are:
\* whoever called stop afterwards would join a second time, so the owner,
\* after it, only asks is_running.  (Nothing in the repository calls it.)
WaitEnd ==
    /\ running
    /\ OwnerAt("idle", IF runOnce THEN "aborted" ELSE "waiting")
    /\ UNCHANGED <<flags, handle, thread, attr>>

WaitEndJoin ==
    /\ OwnerAt("waiting", "over")
    /\ thread[handle] = "done"
    /\ attr' = [attr EXCEPT ![handle] = "joined"]
    /\ UNCHANGED <<flags, handle, thread>>

-----------------------------------------------------------------------------
(* thread_func.                                                            *)

\* A thread of RunOnce detaches itself.
ThreadBegin(t) ==
    /\ ThreadAt(t, "begin", "test")
    /\ attr' = [attr EXCEPT ![t] = IF runOnce THEN "detached" ELSE @]
    /\ UNCHANGED <<flags, handle, owner>>

\* while(!_bWaitStop)
ThreadTest(t) ==
    /\ ThreadAt(t, "test", IF waitStop THEN "leaving" ELSE "loop")
    /\ UNCHANGED <<flags, handle, owner, attr>>

\* thread_loop returns: of a RunOnce thread, once; of a tracker, true for
\* _stop_flag or, whatever the flag is, false for a failed select.
ThreadLoop(t) ==
    /\ \/ runOnce /\ ThreadAt(t, "loop", "leaving")
       \/ ~runOnce /\ stopFlag /\ ThreadAt(t, "loop", "test")
       \/ ~runOnce /\ ThreadAt(t, "loop", "leaving")
    /\ UNCHANGED <<flags, handle, owner, attr>>

ThreadExited(t) ==
    /\ ThreadAt(t, "leaving", "exit")
    /\ exited' = TRUE
    /\ UNCHANGED <<running, waitStop, runOnce, stopFlag, handle, owner, attr>>

\* on_exit, and the thread is gone.
ThreadDone(t) ==
    /\ ThreadAt(t, "exit", "done")
    /\ UNCHANGED <<flags, handle, owner, attr>>

-----------------------------------------------------------------------------
Stopping == Stop \/ Join

Owner == (\E once \in BOOLEAN : Start(once)) \/ StartAgain \/ StopFlag
            \/ Stopping \/ WaitEnd \/ WaitEndJoin

Thread(t) == \/ ThreadBegin(t) \/ ThreadTest(t) \/ ThreadLoop(t)
             \/ ThreadExited(t) \/ ThreadDone(t)

Next == Owner \/ \E t \in Threads : Thread(t)

Spec == Init /\ [][Next]_vars

\* Threads run, and so does an owner inside stop().  A thread_loop whose
\* _stop_flag is set returns; one that nobody stops may go round for ever.
FairThread(t) == (stopFlag \/ runOnce \/ thread[t] # "loop") /\ Thread(t)

Fairness == WF_vars(Stopping) /\ \A t \in Threads : WF_vars(FairThread(t))

FairSpec == Spec /\ Fairness
-----------------------------------------------------------------------------
(* Properties.                                                             *)

\* Every variable has its type.
TypeOK ==
    /\ {running, waitStop, exited, runOnce, stopFlag} \subseteq BOOLEAN
    /\ handle \in Threads \cup {NoThread}
    /\ owner \in OwnerPC
    /\ thread \in [Threads -> ThreadPC]
    /\ attr \in [Threads -> {"joinable", "detached", "joined"}]

\* Of one base_thread object at most one thread runs, however often it is
\* started, fails to start, ends by itself and is stopped.
OneThread == \A t, u \in Threads : Live(t) /\ Live(u) => t = u

\* is_running, asked between two calls of the owner, tells the truth: there
\* is a thread that has not yet said that it is leaving.
IsRunningExact ==
    owner \in {"idle", "over"} =>
        (IsRunning <=> \E t \in Threads : Live(t) /\ thread[t] # "exit")

\* No thread that has ended is forgotten by the library and still waits to
\* be joined: it is detached, joined, or the one stop() will join.
NoneLeaked ==
    \A t \in Threads : thread[t] = "done" /\ attr[t] = "joinable" =>
        running /\ handle = t /\ ~runOnce

\* What a base_thread promises its owner.
ThreadSafe == OneThread /\ IsRunningExact /\ NoneLeaked

\* stop() returns, whatever the thread is doing when _stop_flag is set; the
\* only way out of it besides is the assertion about run_once.
StopEnds == owner = "stopping" ~> owner \in {"idle", "aborted"}
=============================================================================
