----------------------------- MODULE HostLookup -----------------------------
(***************************************************************************)
(* How inet_client::start_connect finds the address of its server: the     *)
(* handshake of NetConnectUtils::GetHostName with the detached thread it    *)
(* starts (GetHostThread on top of base_thread::RunOnce).                   *)
(*                                                                         *)
(* Each call works on a NetConnectUtils of its own, a temporary that is     *)
(* destroyed at the end of the call, in whichever way it ends.  The thread  *)
(* may still be in gethostbyname by then.  It refers to the temporary by a  *)
(* raw pointer, which the destructor takes away from it (SetOuterDelete).   *)
(***************************************************************************)
EXTENDS Naturals, FiniteSets

CONSTANTS
    Calls,         \* calls of start_connect, of one client or of several
    Names,         \* the host names they ask for
    NameOf,        \* which one each of them asks for
    NoName         \* no name

ASSUME LookupAssumption == NameOf \in [Calls -> Names] /\ NoName \notin Names

VARIABLES
    caller,        \* where the thread that called start_connect is
    thread,        \* where its GetHostThread is
    condLock,      \* who holds the mutex of m_cond
    mutex,         \* who holds m_mutex of the GetHostThread
    outer,         \* m_outer # 0
    hostent,       \* m_hostent # 0
    found,         \* server_ip # NULL
    hostBuf,       \* whose address is in the static result of gethostbyname
    address,       \* server_host: whose address start_connect connects to
    alive          \* the NetConnectUtils exists

callerVars == <<caller, alive, address>>
threadVars == <<thread, found, hostBuf>>
shared     == <<condLock, mutex, outer, hostent>>
vars == <<callerVars, threadVars, shared>>

CallerPC == {"idle", "enter", "waiting", "woken", "expired", "signalled",
             "timedout", "copy", "connect", "close", "done", "crashed"}
ThreadPC == {"none", "resolve", "resolved", "cond", "publish", "signal",
             "unlock", "leave", "ended"}

Init ==
    /\ caller = [c \in Calls |-> "idle"] /\ thread = [c \in Calls |-> "none"]
    /\ condLock = [c \in Calls |-> "free"] /\ mutex = [c \in Calls |-> "free"]
    /\ outer = [c \in Calls |-> FALSE] /\ hostent = [c \in Calls |-> FALSE]
    /\ found = [c \in Calls |-> FALSE]
    /\ hostBuf = NoName /\ address = [c \in Calls |-> NoName]
    /\ alive = [c \in Calls |-> FALSE]

CallerAt(c, from, to) == caller[c] = from /\ caller' = [caller EXCEPT ![c] = to]
ThreadAt(c, from, to) == thread[c] = from /\ thread' = [thread EXCEPT ![c] = to]

-----------------------------------------------------------------------------
(* Faults: what a slip in the code would make of some of the actions below, *)
(* to show that the properties can fail.                                   *)

\* The thread tests m_outer before it locks m_mutex.
ThreadEnterUnlocked(c) ==
    /\ ThreadAt(c, "resolved", IF outer[c] THEN "cond" ELSE "leave")
    /\ UNCHANGED <<callerVars, found, hostBuf, shared>>

\* The destructor runs before the auto_cond of GetHostName is gone.
CallerTimedOutKeeps(c) ==
    /\ CallerAt(c, "timedout", "close")
    /\ UNCHANGED <<alive, address, threadVars, shared>>

\* The mutex of m_cond is not released when the name was not found.
ThreadPublishKeeps(c) ==
    /\ ThreadAt(c, "publish", IF found[c] THEN "signal" ELSE "leave")
    /\ hostent' = [hostent EXCEPT ![c] = found[c]]
    /\ condLock' = [condLock EXCEPT ![c] = IF found[c] THEN "free" ELSE @]
    /\ UNCHANGED <<callerVars, found, hostBuf, mutex, outer>>

\* A null m_hostent is skipped: server_host keeps what was on the stack.
CallerCopySkips(c) ==
    /\ CallerAt(c, "copy", "connect")
    /\ address' = [address EXCEPT ![c] = IF hostent[c] THEN hostBuf ELSE @]
    /\ UNCHANGED <<alive, threadVars, shared>>

-----------------------------------------------------------------------------
(* The caller.                                                             *)

\* A new NetConnectUtils, a new GetHostThread, run_once: pthread_create may
\* fail, and nobody looks.
CallerStart(c) ==
    /\ CallerAt(c, "idle", "enter")
    /\ alive' = [alive EXCEPT ![c] = TRUE]
    /\ outer' = [outer EXCEPT ![c] = TRUE]
    /\ \/ thread' = [thread EXCEPT ![c] = "resolve"]
       \/ UNCHANGED thread
    /\ UNCHANGED <<address, found, hostBuf, condLock, mutex, hostent>>

\* Only now does it lock m_cond, and waits, which unlocks it again: whatever
\* the thread did so far it did unheard.
CallerWait(c) ==
    /\ condLock[c] = "free"
    /\ CallerAt(c, "enter", "waiting")
    /\ UNCHANGED <<alive, address, threadVars, shared>>

\* timeout_ms passed, or a spurious wakeup.
CallerExpire(c) ==
    /\ CallerAt(c, "waiting", "expired")
    /\ UNCHANGED <<alive, address, threadVars, shared>>

CallerSpurious(c) ==
    /\ CallerAt(c, "waiting", "woken")
    /\ UNCHANGED <<alive, address, threadVars, shared>>

\* pthread_cond_timedwait locks the mutex again and returns.
CallerRelock(c) ==
    /\ condLock[c] = "free"
    /\ condLock' = [condLock EXCEPT ![c] = "caller"]
    /\ CallerAt(c, "woken", "signalled") \/ CallerAt(c, "expired", "timedout")
    /\ UNCHANGED <<alive, address, threadVars, mutex, outer, hostent>>

\* The auto_cond unlocks, on the way to the result or with the exception.
CallerSignalled(c) ==
    /\ CallerAt(c, "signalled", "copy")
    /\ condLock' = [condLock EXCEPT ![c] = "free"]
    /\ UNCHANGED <<alive, address, threadVars, mutex, outer, hostent>>

CallerTimedOut(c) ==
    /\ CallerAt(c, "timedout", "close")
    /\ condLock' = [condLock EXCEPT ![c] = "free"]
    /\ UNCHANGED <<alive, address, threadVars, mutex, outer, hostent>>

\* *m_hostent->h_addr is copied: m_hostent may be null, and what it points to
\* belongs to gethostbyname.
CallerCopy(c) ==
    /\ \/ /\ ~hostent[c] /\ CallerAt(c, "copy", "crashed")
          /\ UNCHANGED address
       \/ /\ hostent[c] /\ CallerAt(c, "copy", "connect")
          /\ address' = [address EXCEPT ![c] = hostBuf]
    /\ UNCHANGED <<alive, threadVars, shared>>

\* ConnectToServer returns or throws.
CallerConnect(c) ==
    /\ CallerAt(c, "connect", "close")
    /\ UNCHANGED <<alive, address, threadVars, shared>>

\* ~NetConnectUtils: SetOuterDelete, under m_mutex of the thread.
CallerClose(c) ==
    /\ mutex[c] = "free"
    /\ CallerAt(c, "close", "done")
    /\ outer' = [outer EXCEPT ![c] = FALSE]
    /\ alive' = [alive EXCEPT ![c] = FALSE]
    /\ UNCHANGED <<address, threadVars, condLock, mutex, hostent>>

-----------------------------------------------------------------------------
(* The thread.                                                             *)

\* gethostbyname: NULL, or a pointer to the one result all threads share.
ThreadResolve(c) ==
    /\ ThreadAt(c, "resolve", "resolved")
    /\ \/ /\ found' = [found EXCEPT ![c] = TRUE]
          /\ hostBuf' = NameOf[c]
       \/ UNCHANGED <<found, hostBuf>>
    /\ UNCHANGED <<callerVars, shared>>

\* Lock m_mutex; if (m_outer).
ThreadEnter(c) ==
    /\ mutex[c] = "free"
    /\ mutex' = [mutex EXCEPT ![c] = "thread"]
    /\ ThreadAt(c, "resolved", IF outer[c] THEN "cond" ELSE "leave")
    /\ UNCHANGED <<callerVars, found, hostBuf, condLock, outer, hostent>>

ThreadCond(c) ==
    /\ condLock[c] = "free"
    /\ condLock' = [condLock EXCEPT ![c] = "thread"]
    /\ ThreadAt(c, "cond", "publish")
    /\ UNCHANGED <<callerVars, found, hostBuf, mutex, outer, hostent>>

\* Nothing found: return.  Otherwise publish it, and auto_cond::signal, which
\* unlocks and then signals.
ThreadPublish(c) ==
    /\ ThreadAt(c, "publish", IF found[c] THEN "signal" ELSE "leave")
    /\ hostent' = [hostent EXCEPT ![c] = found[c]]
    /\ condLock' = [condLock EXCEPT ![c] = "free"]
    /\ UNCHANGED <<callerVars, found, hostBuf, mutex, outer>>

ThreadSignal(c) ==
    /\ ThreadAt(c, "signal", "unlock")
    /\ caller' = [caller EXCEPT ![c] = IF @ = "waiting" THEN "woken" ELSE @]
    /\ UNCHANGED <<alive, address, found, hostBuf, shared>>

\* The destructor of the auto_cond unlocks a second time: nothing happens, or
\* the caller loses its lock.
ThreadUnlock(c) ==
    /\ ThreadAt(c, "unlock", "leave")
    /\ condLock' = [condLock EXCEPT ![c] = "free"]
    /\ UNCHANGED <<callerVars, found, hostBuf, mutex, outer, hostent>>

\* m_mutex is unlocked; the thread ends and its object stays: base_thread
\* calls on_exit, which is not OnExit.
ThreadLeave(c) ==
    /\ ThreadAt(c, "leave", "ended")
    /\ mutex' = [mutex EXCEPT ![c] = "free"]
    /\ UNCHANGED <<callerVars, found, hostBuf, condLock, outer, hostent>>
-----------------------------------------------------------------------------
Caller(c) == \/ CallerWait(c) \/ CallerExpire(c) \/ CallerSpurious(c)
             \/ CallerRelock(c) \/ CallerSignalled(c) \/ CallerTimedOut(c)
             \/ CallerCopy(c) \/ CallerConnect(c) \/ CallerClose(c)

\* The thread behind gethostbyname, which may take as long as it likes.
Answering(c) == \/ ThreadEnter(c) \/ ThreadCond(c) \/ ThreadPublish(c)
                \/ ThreadSignal(c) \/ ThreadUnlock(c) \/ ThreadLeave(c)

Next == \E c \in Calls :
            CallerStart(c) \/ Caller(c) \/ ThreadResolve(c) \/ Answering(c)

Spec == Init /\ [][Next]_vars

\* Threads run.  That a name is ever resolved is not assumed.
Fairness == \A c \in Calls : WF_vars(Caller(c)) /\ WF_vars(Answering(c))

FairSpec == Spec /\ Fairness
-----------------------------------------------------------------------------
(* Properties.                                                             *)

\* Every variable has its type, and m_mutex is held by a thread exactly from
\* its test of m_outer to its end.
TypeOK ==
    /\ caller \in [Calls -> CallerPC] /\ thread \in [Calls -> ThreadPC]
    /\ condLock \in [Calls -> {"free", "caller", "thread"}]
    /\ mutex \in [Calls -> {"free", "thread"}]
    /\ outer \in [Calls -> BOOLEAN] /\ hostent \in [Calls -> BOOLEAN]
    /\ found \in [Calls -> BOOLEAN] /\ alive \in [Calls -> BOOLEAN]
    /\ \A c \in Calls : mutex[c] = "thread" <=>
          thread[c] \in {"cond", "publish", "signal", "unlock", "leave"}
    /\ hostBuf \in Names \cup {NoName} /\ address \in [Calls -> Names \cup {NoName}]

\* The thread never uses a NetConnectUtils, or the m_cond in it, that its
\* caller has given up in the meantime, not even after signalling it.
NoUseAfterDestroy ==
    \A c \in Calls : thread[c] \in {"cond", "publish", "signal", "unlock"} => alive[c]

\* However long a lookup takes, neither the two mutexes nor a lost signal
\* block anybody: every start_connect returns or throws (or crashes), and a
\* thread that got its answer ends.  So there are always times when no call is
\* under way and the only threads left are in gethostbyname.
LookupEnds ==
    []<>(\A c \in Calls : /\ caller[c] \in {"idle", "done", "crashed"}
                          /\ thread[c] \in {"none", "resolve", "ended"})

\* A caller waits (and in the end reports a timeout) only as long as the name
\* was not resolved: it never waits for a signal that has already come.
AnswerNotMissed ==
    \A c \in Calls :
        caller[c] = "waiting" =>
            ~(hostent[c] /\ thread[c] \in {"unlock", "leave", "ended"})

\* Whoever connects does so to an address that was looked up: its own, unless
\* another lookup has answered as well.  (Then it may be the other one's.)
AddressLookedUp ==
    \A c \in Calls : caller[c] = "connect" =>
        /\ found[c]
        /\ \/ address[c] = NameOf[c]
           \/ \E d \in Calls \ {c} : found[d] /\ address[c] = NameOf[d]
=============================================================================
