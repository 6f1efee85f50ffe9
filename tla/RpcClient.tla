----------------------------- MODULE RpcClient ------------------------------
(***************************************************************************)
(* An rpc_client and its connections, one after the other: start_connect,  *)
(* called by the program, against the tracker thread, which reads the      *)
(* socket and notices the end of a connection.                             *)
(*                                                                         *)
(* Both threads work on the one inet_client.  Its _fd is a number that the *)
(* kernel gives out again as soon as it is closed; read tasks and the      *)
(* tracker's copy of them hold such numbers.  io_fd::_mutex covers _read   *)
(* and nothing else: not disconnect, not init, not read_task::done.        *)
(*                                                                         *)
(* What a peer sends fits into one read; IoLoop has the longer ones.       *)
(***************************************************************************)
EXTENDS Naturals, FiniteSets, Sequences, FiniteSetsExt

CONSTANTS
    MaxConns,      \* bound: sockets made by start_connect
    MaxSends,      \* bound: chunks a peer sends on a connection
    Eager          \* the program reconnects while it is connected; otherwise
                   \* after a failure, or after _on_disconnect was called

Conns   == 1..MaxConns
Numbers == 1..MaxConns      \* descriptors; a closed one holds connection 0
Threads == {"program", "tracker"}

VARIABLES
    fd,            \* _fd
    status,        \* _connect_status
    noticed,       \* _on_disconnect was called since the last start_connect
    files,         \* the connection behind each descriptor
    made,          \* sockets made
    peer,          \* what became of each connection
    unread,        \* chunks the peer has sent and nobody has read
    sent,          \* chunks it has sent
    pc,            \* where each thread is
    mutex,         \* who holds io_fd::_mutex
    hand,          \* what a thread has read and not yet handed on
    tasks,         \* _uncomplete_task_lists
    ids,           \* read tasks made
    copy,          \* task_lists of thread_loop: the tasks still to be run
    log            \* history: what rpc_client::_on_data_receive got

client  == <<fd, status, noticed>>
network == <<files, made, peer, unread, sent>>
tracker == <<tasks, ids, copy>>
vars == <<client, network, pc, mutex, hand, tracker, log>>

Nothing == [conn |-> 0, chunks |-> <<>>]

Init ==
    /\ fd = 0 /\ status = FALSE /\ noticed = FALSE
    /\ files = [n \in Numbers |-> 0] /\ made = 0
    /\ peer = [c \in Conns |-> "none"]
    /\ unread = [c \in Conns |-> <<>>] /\ sent = [c \in Conns |-> 0]
    /\ pc = [t \in Threads |-> "rest"] /\ mutex = "free"
    /\ hand = [t \in Threads |-> Nothing]
    /\ tasks = {} /\ ids = 0 /\ copy = {}
    /\ log = [c \in Conns |-> <<>>]

At(t, from, to) == pc[t] = from /\ pc' = [pc EXCEPT ![t] = to]

\* Where a thread goes on when its outermost _read returns.
After(t) == IF t = "program" THEN "rest" ELSE "finish"

-----------------------------------------------------------------------------
(* What ::read on descriptor n finds: a result of its own for each case.   *)

Behind(n)  == IF n = 0 THEN 0 ELSE files[n]
HasData(n) == Behind(n) # 0 /\ unread[Behind(n)] # <<>>
AtEnd(n)   == Behind(n) # 0 /\ ~HasData(n) /\ peer[Behind(n)] = "closed"
WouldBlock(n) == Behind(n) # 0 /\ ~HasData(n) /\ peer[Behind(n)] = "up"
\* EBADF, or a socket that is not connected.
Fails(n)   == ~HasData(n) /\ ~AtEnd(n) /\ ~WouldBlock(n)

\* ::read returns all there is, and thread t has it.
ReadAll(t, n) ==
    /\ hand' = [hand EXCEPT ![t] = [conn |-> Behind(n), chunks |-> unread[Behind(n)]]]
    /\ unread' = [unread EXCEPT ![Behind(n)] = <<>>]

HandOn(t) ==
    /\ log' = IF hand[t].conn = 0 THEN log
              ELSE [log EXCEPT ![hand[t].conn] = @ \o hand[t].chunks]
    /\ hand' = [hand EXCEPT ![t] = Nothing]

-----------------------------------------------------------------------------
(* Faults: slips that the properties below must notice.                    *)

\* _on_disconnect closes the socket and leaves its tasks.
NoticeDeleteNot(t) ==
    /\ \/ At(t, "notice", "close") \/ At(t, "noticelocked", "closelocked")
    /\ UNCHANGED <<client, network, mutex, hand, tracker, log>>

\* _on_data_receive does not ask for more.
HandOnForgets(t) ==
    /\ HandOn(t)
    /\ \/ At(t, "deliver", After(t)) /\ mutex' = "free"
       \/ At(t, "handon", "finish") /\ UNCHANGED mutex
    /\ UNCHANGED <<client, network, tracker, log>>

-----------------------------------------------------------------------------
(* The program: start_connect.                                             *)

StartConnect ==
    /\ made < MaxConns
    /\ Eager \/ ~status \/ noticed
    /\ At("program", "rest", IF status THEN "disconnect" ELSE "socket")
    /\ UNCHANGED <<client, network, mutex, hand, tracker, log>>

\* inet_socket::disconnect closes the descriptor; _fd and the tasks stay.
Disconnect ==
    /\ At("program", "disconnect", "socket")
    /\ files' = [n \in Numbers |-> IF n = fd THEN 0 ELSE files[n]]
    /\ status' = FALSE
    /\ UNCHANGED <<fd, noticed, made, peer, unread, sent, mutex, hand, tracker, log>>

\* init: the lowest descriptor that is free.  Whatever _fd was is forgotten.
Socket ==
    /\ At("program", "socket", "connect")
    /\ LET n == Min({m \in Numbers : files[m] = 0}) IN
         /\ fd' = n
         /\ files' = [files EXCEPT ![n] = made + 1]
    /\ made' = made + 1
    /\ peer' = [peer EXCEPT ![made + 1] = "connecting"]
    /\ noticed' = FALSE
    /\ UNCHANGED <<status, unread, sent, mutex, hand, tracker, log>>

\* CONNECTUTILS_CONNECT throws, and the descriptor stays open, or succeeds,
\* and recv_data reads what is there already.
Connect ==
    /\ \/ /\ At("program", "connect", "rest")
          /\ peer' = [peer EXCEPT ![Behind(fd)] = "failed"]
          /\ UNCHANGED status
       \/ /\ At("program", "connect", "enter")
          /\ peer' = [peer EXCEPT ![Behind(fd)] = "up"]
          /\ status' = TRUE
    /\ UNCHANGED <<fd, noticed, files, made, unread, sent, mutex, hand, tracker, log>>

-----------------------------------------------------------------------------
(* io_fd::_read, on either thread, and what it calls.                      *)

Enter(t) ==
    /\ mutex = "free"
    /\ \/ /\ fd = 0 /\ At(t, "enter", After(t))
          /\ UNCHANGED mutex
       \/ /\ fd # 0 /\ At(t, "enter", "read")
          /\ mutex' = t
    /\ UNCHANGED <<client, network, hand, tracker, log>>

\* Data goes to on_read_done, and so does the 0 at the end; EAGAIN adds a
\* task; any other error just returns.
Read(t) ==
    /\ \/ HasData(fd) /\ At(t, "read", "deliver") /\ ReadAll(t, fd) /\ UNCHANGED mutex
       \/ /\ \/ AtEnd(fd) /\ At(t, "read", "noticelocked") /\ UNCHANGED mutex
             \/ WouldBlock(fd) /\ At(t, "read", "add") /\ UNCHANGED mutex
             \/ Fails(fd) /\ At(t, "read", After(t)) /\ mutex' = "free"
          /\ UNCHANGED <<hand, unread>>
    /\ UNCHANGED <<client, files, made, peer, sent, tracker, log>>

\* rpc_client::_on_data_receive hands the data on and calls recv_data again,
\* inside the lock, which is recursive, or from read_task::done without it.
Deliver(t) ==
    /\ HandOn(t)
    /\ \/ At(t, "deliver", "read")
       \/ At(t, "handon", "enter")
    /\ UNCHANGED <<client, network, mutex, tracker>>

Add(t) ==
    /\ At(t, "add", After(t))
    /\ tasks' = tasks \cup {[id |-> ids + 1, fd |-> fd, conn |-> Behind(fd)]}
    /\ ids' = ids + 1
    /\ mutex' = "free"
    /\ UNCHANGED <<client, network, hand, copy, log>>

\* _on_disconnect: delete_all_task, which does nothing for descriptor 0,
NoticeDelete(t) ==
    /\ \/ At(t, "notice", "close") \/ At(t, "noticelocked", "closelocked")
    /\ tasks' = {k \in tasks : fd = 0 \/ k.fd # fd}
    /\ UNCHANGED <<client, network, mutex, hand, ids, copy, log>>

\* close, which sets _fd to 0, and the listener's _on_disconnect.
NoticeClose(t) ==
    /\ \/ At(t, "close", "finish") /\ UNCHANGED mutex
       \/ At(t, "closelocked", After(t)) /\ mutex' = "free"
    /\ files' = [n \in Numbers |-> IF n = fd THEN 0 ELSE files[n]]
    /\ fd' = 0 /\ noticed' = TRUE
    /\ UNCHANGED <<status, made, peer, unread, sent, hand, tracker, log>>

-----------------------------------------------------------------------------
(* The tracker thread: select_tracker::thread_loop.                        *)

Copy ==
    /\ At("tracker", "rest", "select")
    /\ tasks # {}
    /\ copy' = tasks
    /\ UNCHANGED <<client, network, mutex, hand, tasks, ids, log>>

\* select fails for a descriptor that was closed, and the thread ends.
Select ==
    /\ \/ /\ \E k \in copy : Behind(k.fd) = 0
          /\ At("tracker", "select", "dead")
          /\ copy' = {}
       \/ /\ \A k \in copy : Behind(k.fd) # 0
          /\ LET ready == {k \in copy : ~WouldBlock(k.fd)} IN
               /\ copy' = ready
               /\ At("tracker", "select", IF ready = {} THEN "rest" ELSE "task")
    /\ UNCHANGED <<client, network, mutex, hand, tasks, ids, log>>

\* The task that was registered first.
Current == CHOOSE k \in copy : \A j \in copy : k.id <= j.id

\* read_task::done reads the number it was made with, without the lock; 0
\* and -1 alike end up in _on_disconnect.
Task ==
    /\ pc["tracker"] = "task"
    /\ LET n == Current.fd IN
       \/ HasData(n) /\ At("tracker", "task", "handon") /\ ReadAll("tracker", n)
       \/ ~HasData(n) /\ At("tracker", "task", "notice") /\ UNCHANGED <<hand, unread>>
    /\ UNCHANGED <<client, files, made, peer, sent, mutex, tracker, log>>

\* done returned true: del_task, and on to the next one.
Finish ==
    /\ At("tracker", "finish", IF Cardinality(copy) = 1 THEN "rest" ELSE "task")
    /\ tasks' = tasks \ {Current}
    /\ copy' = copy \ {Current}
    /\ UNCHANGED <<client, network, mutex, hand, ids, log>>

-----------------------------------------------------------------------------
(* The peers.                                                              *)

Send(c) ==
    /\ peer[c] = "up" /\ sent[c] < MaxSends
    /\ sent' = [sent EXCEPT ![c] = @ + 1]
    /\ unread' = [unread EXCEPT ![c] = Append(@, sent[c] + 1)]
    /\ UNCHANGED <<client, files, made, peer, pc, mutex, hand, tracker, log>>

Close(c) ==
    /\ peer[c] = "up"
    /\ peer' = [peer EXCEPT ![c] = "closed"]
    /\ UNCHANGED <<client, files, made, unread, sent, pc, mutex, hand, tracker, log>>

-----------------------------------------------------------------------------
Reading(t) == \/ Enter(t) \/ Read(t) \/ Deliver(t) \/ Add(t)
              \/ NoticeDelete(t) \/ NoticeClose(t)

Connecting == Disconnect \/ Socket \/ Connect \/ Reading("program")
Tracking   == Copy \/ Select \/ Task \/ Finish \/ Reading("tracker")

Next == \/ StartConnect \/ Connecting \/ Tracking
        \/ \E c \in Conns : Send(c) \/ Close(c)

Spec == Init /\ [][Next]_vars

\* The threads run: start_connect comes to an end, and so does each round of
\* the tracker.  Nothing is assumed of the program and of the peers.
FairSpec == Spec /\ WF_vars(Connecting) /\ WF_vars(Tracking)
-----------------------------------------------------------------------------
(* Properties.                                                             *)

\* The connection the client has.
Now == Behind(fd)
Busy == \E t \in Threads : pc[t] \notin {"rest", "select"}

\* A connected client is watched by exactly one read task, of its own
\* connection: with none it would hear nothing any more, and with two the
\* second one would find nothing to read and close the connection.
WatchedOnce ==
    ~Busy /\ Now # 0 /\ peer[Now] \in {"up", "closed"} =>
        \E k \in tasks : tasks = {k} /\ k.conn = Now

\* No read task outlives its connection.
TasksOfOpen == \A k \in tasks : Behind(k.fd) = k.conn

\* What is delivered is what was sent on that connection, in order and
\* without a gap, whichever of the two threads read it.
InOrder == \A c \in Conns : log[c] = [i \in 1..Len(log[c]) |-> i]

\* A connection is closed only when its peer has closed it; a descriptor
\* that is lost stays open, but only that of an attempt that failed.
OnlyEndedClosed ==
    \A c \in Conns :
        /\ peer[c] = "up" => Behind(fd) = c
        /\ peer[c] = "closed" => (\A n \in Numbers : files[n] = c => n = fd)

\* Everything sent on a connection is read, across any number of reconnects,
\* and the end of a connection is noticed, so that the program may reconnect.
ClientLive ==
    []<>(\A c \in Conns : /\ unread[c] = <<>>
                          /\ peer[c] = "closed" => noticed \/ made > c)

\* A client that reconnects when it may keeps its socket, its one task and
\* what it was sent together, on either thread.
ClientSafe == WatchedOnce /\ TasksOfOpen /\ InOrder /\ OnlyEndedClosed
=============================================================================
