------------------------------- MODULE IoLoop -------------------------------
(***************************************************************************)
(* The receiving side of an rpc_server: the thread of its select_tracker,  *)
(* the accept task and the read tasks it runs (io_fd::read_task,           *)
(* inet_server::socket_accept_task), and the callbacks these make into     *)
(* inet_socket and rpc_server, which call back into io_fd::_read.          *)
(*                                                                         *)
(* All of that runs on one thread, as calls inside calls: `stack' holds    *)
(* the calls under way, one frame for each done() and each _read.  The     *)
(* other actors are the peers, which connect, send and close at any time,  *)
(* and in particular between two reads of the same callback.               *)
(*                                                                         *)
(* Data is counted in units that divide the size of both buffers: a read   *)
(* task reads up to DoneSize of them at a time (buf[1024]), and _read up   *)
(* to ReadSize (read_buf[2048]).                                           *)
(***************************************************************************)
EXTENDS Integers, Sequences, FiniteSets

CONSTANTS
    Peers,         \* the clients, each of which connects at most once
    Server,        \* the inet_server, which is no client
    DoneSize,      \* what read_task::done reads at a time
    ReadSize,      \* what _read reads at a time
    MaxClients,    \* bound: peers connected at the same time
    MaxInFlight,   \* bound: units sent and not read, per peer
    MaxSends,      \* bound: units sent in all, per peer
    MaxAcceptErrors, \* bound: calls of ::accept that fail
    Resetting      \* the peers whose connection may be reset

ASSUME IoAssumption ==
    /\ IsFiniteSet(Peers) /\ Server \notin Peers
    /\ Resetting \subseteq Peers
    /\ DoneSize \in Nat \ {0} /\ ReadSize = 2 * DoneSize
    /\ {MaxClients, MaxInFlight, MaxSends, MaxAcceptErrors} \subseteq Nat

\* Descriptors: standard input, the listening socket, and one per client.
Stdin    == 0
ListenFd == 1
ConnFds  == 2..(1 + Cardinality(Peers))

VARIABLES
    link,          \* a peer's connection: "none", "backlog" or "accepted"
    end,           \* whether the peer ended it: "open", "closed" or "reset"
    rx,            \* units that wait in it to be read
    sends,         \* bound: units sent so far
    fd,            \* _fd of the peer's inet_socket on the server, 0 if closed
    clients,       \* _client_fd_lists
    tasks,         \* _uncomplete_task_lists, in the order of the ids
    snap,          \* task_lists of thread_loop, from `it' on; likewise
    ready,         \* the descriptors select found readable
    stack,         \* the calls under way, the innermost one last
    errors,        \* bound: calls of ::accept that failed
    status,        \* "run", or how the tracker thread went wrong
    cutOff         \* history: the peers disconnected though they had not closed

peerVars == <<link, end, rx, sends>>
vars == <<peerVars, fd, clients, tasks, snap, ready, stack, errors, status, cutOff>>

-----------------------------------------------------------------------------
(* Tasks and frames.                                                       *)

Elements(s) == {s[i] : i \in DOMAIN s}

\* Tasks are told apart by identity, as del_task(ref_obj) does.  A new one is
\* put behind all others.
Used == {t.id : t \in tasks \cup snap \cup {f.task : f \in Elements(stack)}}
FreshId == CHOOSE i \in {n + 1 : n \in Used \cup {0}} : \A n \in Used : n < i

Task(type, f, obj) == [id |-> FreshId, type |-> type, fd |-> f, obj |-> obj]
NoTask == [id |-> 0, type |-> "none", fd |-> Stdin, obj |-> Server]

\* kind: whose call it is.  at: "read" before its system call, "called" when
\* the callback it makes was called.  full: the buffer was filled.
DoneFrame(t)   == [kind |-> "done", task |-> t, obj |-> t.obj, at |-> "read", full |-> FALSE]
AcceptFrame(t) == [kind |-> "accept", task |-> t, obj |-> t.obj, at |-> "read", full |-> FALSE]
ReadFrame(p)   == [kind |-> "read", task |-> NoTask, obj |-> p, at |-> "read", full |-> FALSE]

Top    == stack[Len(stack)]
Under  == SubSeq(stack, 1, Len(stack) - 1)
Called(full) == Append(Under, [Top EXCEPT !.at = "called", !.full = full])

Running(kind, at) ==
    status = "run" /\ stack # <<>> /\ Top.kind = kind /\ Top.at = at

Without(t) == {u \in tasks : u.id # t.id}

\* _client_fd_lists.remove
Drop(p) ==
    LET i == CHOOSE i \in DOMAIN clients : clients[i] = p
    IN  IF p \notin Elements(clients) THEN clients
        ELSE [j \in 1..Len(clients) - 1 |-> IF j < i THEN clients[j] ELSE clients[j + 1]]

Owners(f) == {p \in Peers : fd[p] = f}

\* What ::read returns on a descriptor: a number of units, 0 at the end of
\* the stream, -1 if there is nothing yet (Again), if the connection was reset
\* or if nobody has the descriptor.
Read(f, size) ==
    IF Owners(f) = {} THEN -1
    ELSE LET p == CHOOSE q \in Peers : fd[q] = f
         IN  IF rx[p] > 0 THEN IF rx[p] < size THEN rx[p] ELSE size
             ELSE IF end[p] = "closed" THEN 0 ELSE -1

\* It takes n units out of the connection; a reset is reported once.
Drain(f, n) ==
    /\ rx'  = [p \in Peers |-> IF fd[p] = f /\ n > 0 THEN rx[p] - n ELSE rx[p]]
    /\ end' = [p \in Peers |-> IF fd[p] = f /\ end[p] = "reset" THEN "closed" ELSE end[p]]
    /\ UNCHANGED <<link, sends>>

\* An inet_socket lives as long as the server has it in its list, or a
\* callback that holds a reference to it is under way.
Alive(p) == p \in Elements(clients)

Init ==
    /\ link = [p \in Peers |-> "none"] /\ end = [p \in Peers |-> "open"]
    /\ rx = [p \in Peers |-> 0] /\ sends = [p \in Peers |-> 0]
    /\ fd = [p \in Peers |-> 0] /\ clients = <<>>
    /\ tasks = {[id |-> 1, type |-> "accept", fd |-> ListenFd, obj |-> Server]}
    /\ snap = {} /\ ready = {} /\ stack = <<>>
    /\ errors = 0 /\ status = "run" /\ cutOff = {}

-----------------------------------------------------------------------------
(* The peers.                                                              *)

Connected == {p \in Peers : link[p] # "none" /\ ~(link[p] = "accepted" /\ fd[p] = 0)}

Connect(p) ==
    /\ link[p] = "none" /\ Cardinality(Connected) < MaxClients
    /\ link' = [link EXCEPT ![p] = "backlog"]
    /\ UNCHANGED <<end, rx, sends, fd, clients, tasks, snap, ready, stack, errors, status, cutOff>>

Send(p) ==
    /\ p \in Connected /\ end[p] = "open"
    /\ rx[p] < MaxInFlight /\ sends[p] < MaxSends
    /\ rx' = [rx EXCEPT ![p] = @ + 1]
    /\ sends' = [sends EXCEPT ![p] = @ + 1]
    /\ UNCHANGED <<link, end, fd, clients, tasks, snap, ready, stack, errors, status, cutOff>>

\* The peer closes its side, or resets the connection: what was not read of
\* it is lost.
Close(p) ==
    /\ p \in Connected /\ end[p] = "open"
    /\ \/ end' = [end EXCEPT ![p] = "closed"] /\ UNCHANGED rx
       \/ /\ p \in Resetting
          /\ end' = [end EXCEPT ![p] = "reset"]
          /\ rx' = [rx EXCEPT ![p] = 0]
    /\ UNCHANGED <<link, sends, fd, clients, tasks, snap, ready, stack, errors, status, cutOff>>

-----------------------------------------------------------------------------
(* The tracker thread: select_tracker::thread_loop.                        *)

Open == {Stdin, ListenFd} \cup {fd[p] : p \in Peers}

Readable == {f \in Open : \/ f = ListenFd /\ \E p \in Peers : link[p] = "backlog"
                          \/ \E p \in Owners(f) : f # Stdin /\ (rx[p] > 0 \/ end[p] # "open")}

\* Copy the list under the lock, wait in select until one of its descriptors
\* is readable.  select fails if one of them is closed, and the thread ends.
TrackerSelect ==
    /\ status = "run" /\ stack = <<>> /\ snap = {}
    /\ LET watched == {t.fd : t \in tasks} IN
         /\ watched \subseteq Open => watched \cap Readable # {}
         /\ status' = IF watched \subseteq Open THEN status ELSE "dead"
         /\ snap' = tasks /\ ready' = watched \cap Readable
    /\ UNCHANGED <<peerVars, fd, clients, tasks, stack, errors, cutOff>>

FirstTask == CHOOSE t \in snap : \A u \in snap : t.id <= u.id

\* The next task of the copy: done() if its descriptor was readable, even if
\* the task was deleted in the meantime.
TrackerTask ==
    /\ status = "run" /\ stack = <<>> /\ snap # {}
    /\ LET t == FirstTask IN
       /\ snap' = snap \ {t}
       /\ stack' = IF t.fd \notin ready THEN <<>>
                  ELSE IF t.type = "accept" THEN <<AcceptFrame(t)>> ELSE <<DoneFrame(t)>>
    /\ UNCHANGED <<peerVars, fd, clients, tasks, ready, errors, status, cutOff>>

-----------------------------------------------------------------------------
(* Faults: what a slip in the code would make of some of the actions below, *)
(* to show that the properties can fail.                                   *)

\* close() marks the socket with -1, the way descriptors usually are.
DisconnectMinusOne(p) ==
    /\ tasks' = {u \in tasks : u.fd # fd[p]}
    /\ fd' = [fd EXCEPT ![p] = -1]
    /\ clients' = Drop(p)
    /\ cutOff' = IF end[p] = "open" THEN cutOff \cup {p} ELSE cutOff

\* delete_all_task is forgotten.
DisconnectKeepsTasks(p) ==
    /\ fd' = [fd EXCEPT ![p] = 0]
    /\ clients' = Drop(p)
    /\ cutOff' = IF end[p] = "open" THEN cutOff \cup {p} ELSE cutOff
    /\ UNCHANGED tasks

\* The server keeps the socket in its list.
DisconnectKeepsClient(p) ==
    /\ tasks' = {u \in tasks : fd[p] = 0 \/ u.fd # fd[p]}
    /\ fd' = [fd EXCEPT ![p] = 0]
    /\ cutOff' = IF end[p] = "open" THEN cutOff \cup {p} ELSE cutOff
    /\ UNCHANGED clients

\* rpc_server::_on_data_receive does not ask for more.
ReadFirstForgets(full) == stack' = Called(full)

\* done() of a read task returns false: the task stays.
DoneLoopKeeps ==
    /\ Running("done", "called")
    /\ stack' = IF Top.full THEN Append(Under, [Top EXCEPT !.at = "read"]) ELSE Under
    /\ UNCHANGED <<peerVars, fd, clients, tasks, snap, ready, errors, status, cutOff>>

\* done() reads until ::read fails.
DoneLoopAgain ==
    /\ Running("done", "called")
    /\ stack' = Append(Under, [Top EXCEPT !.at = "read"])
    /\ UNCHANGED <<peerVars, fd, clients, tasks, snap, ready, errors, status, cutOff>>

\* _read reads until ::read fails.
ReadLoopAgain ==
    /\ Running("read", "called")
    /\ stack' = Append(Under, [Top EXCEPT !.at = "read"])
    /\ UNCHANGED <<peerVars, fd, clients, tasks, snap, ready, errors, status, cutOff>>

\* done() of the accept task returns true when ::accept failed.
AcceptFailsDone ==
    /\ Running("accept", "read")
    /\ errors < MaxAcceptErrors /\ errors' = errors + 1
    /\ stack' = Under /\ tasks' = Without(Top.task)
    /\ UNCHANGED <<peerVars, fd, clients, snap, ready, status, cutOff>>

\* No new accept task.
AcceptRearmForgets ==
    /\ Running("accept", "called")
    /\ tasks' = Without(Top.task)
    /\ stack' = Under
    /\ UNCHANGED <<peerVars, fd, clients, snap, ready, errors, status, cutOff>>

-----------------------------------------------------------------------------
(* The callbacks.                                                          *)

\* rpc_server::_on_data_receive pushes the requests to the handler and calls
\* _read, which asks the FIRST client for more, whoever the data came from.
\* The list is not empty: the client whose data this is is in it.
ReadFirst(full) ==
    LET front == Head(clients) IN
      stack' = IF fd[front] = 0 THEN Called(full)
               ELSE Append(Called(full), ReadFrame(front))

\* inet_socket::_on_disconnect: delete the tasks of the descriptor, close it,
\* and let rpc_server::_on_disconnect drop the socket from its list.
Disconnect(p) ==
    /\ tasks' = {u \in tasks : fd[p] = 0 \/ u.fd # fd[p]}
    /\ fd' = [fd EXCEPT ![p] = 0]
    /\ clients' = Drop(p)
    /\ cutOff' = IF end[p] = "open" THEN cutOff \cup {p} ELSE cutOff

\* The body of the loop in read_task::done: whatever ::read returned goes to
\* the socket, -1 included, which the socket takes for the end of the stream.
DoneRead ==
    /\ Running("done", "read")
    /\ LET p == Top.obj
           n == Read(Top.task.fd, DoneSize)
       IN  /\ Drain(Top.task.fd, n)
           /\ \/ /\ ~Alive(p)
                 /\ status' = "freed"
                 /\ UNCHANGED <<fd, clients, tasks, stack, cutOff>>
              \/ /\ Alive(p) /\ n > 0
                 /\ ReadFirst(n = DoneSize)
                 /\ UNCHANGED <<fd, clients, tasks, status, cutOff>>
              \/ /\ Alive(p) /\ n <= 0
                 /\ Disconnect(p)
                 /\ stack' = Called(FALSE)
                 /\ UNCHANGED status
    /\ UNCHANGED <<snap, ready, errors>>

\* while(size == sizeof(buf)); then done() returns true and the task goes.
DoneLoop ==
    /\ Running("done", "called")
    /\ IF Top.full
       THEN stack' = Append(Under, [Top EXCEPT !.at = "read"]) /\ UNCHANGED tasks
       ELSE stack' = Under /\ tasks' = Without(Top.task)
    /\ UNCHANGED <<peerVars, fd, clients, snap, ready, errors, status, cutOff>>

\* The body of the loop in io_fd::_read.  If a call inside this one closed
\* the socket, _fd is 0 by now, and that is standard input.
ReadRead ==
    /\ Running("read", "read")
    /\ LET p == Top.obj
           n == Read(fd[p], ReadSize)
       IN  \/ /\ fd[p] = Stdin
              /\ status' = "stdin"
              /\ UNCHANGED <<peerVars, fd, clients, tasks, stack, cutOff>>
           \/ /\ fd[p] # Stdin
              /\ Drain(fd[p], n)
              /\ \/ /\ n > 0
                    /\ ReadFirst(n = ReadSize)
                    /\ UNCHANGED <<fd, clients, tasks, cutOff>>
                 \/ /\ n = 0
                    /\ Disconnect(p)
                    /\ stack' = Called(FALSE)
                 \/ /\ n = -1 /\ end[p] = "open"       \* EAGAIN
                    /\ tasks' = tasks \cup {Task("read", fd[p], p)}
                    /\ stack' = Under
                    /\ UNCHANGED <<fd, clients, cutOff>>
                 \/ /\ n = -1 /\ end[p] # "open"       \* any other error
                    /\ stack' = Under
                    /\ UNCHANGED <<fd, clients, tasks, cutOff>>
              /\ UNCHANGED status
    /\ UNCHANGED <<snap, ready, errors>>

\* while((size_t)read_size == size)
ReadLoop ==
    /\ Running("read", "called")
    /\ stack' = IF Top.full THEN Append(Under, [Top EXCEPT !.at = "read"]) ELSE Under
    /\ UNCHANGED <<peerVars, fd, clients, tasks, snap, ready, errors, status, cutOff>>

\* socket_accept_task::done up to rpc_server::_on_client_connect, which keeps
\* the new socket and asks it for data.
AcceptClient ==
    /\ Running("accept", "read")
    /\ \E p \in Peers :
          /\ link[p] = "backlog"
          /\ link' = [link EXCEPT ![p] = "accepted"]
          /\ LET free == ConnFds \ {fd[q] : q \in Peers} IN
               fd' = [fd EXCEPT ![p] = CHOOSE f \in free : \A g \in free : f <= g]
          /\ clients' = Append(clients, p)
          /\ stack' = Append(Called(FALSE), ReadFrame(p))
    /\ UNCHANGED <<end, rx, sends, tasks, snap, ready, errors, status, cutOff>>

\* ::accept fails: done() returns false and the task stays.
AcceptFails ==
    /\ Running("accept", "read")
    /\ errors < MaxAcceptErrors /\ errors' = errors + 1
    /\ stack' = Under
    /\ UNCHANGED <<peerVars, fd, clients, tasks, snap, ready, status, cutOff>>

\* ... and then arms a new accept task; done() returns true.
AcceptRearm ==
    /\ Running("accept", "called")
    /\ tasks' = Without(Top.task) \cup {Task("accept", ListenFd, Server)}
    /\ stack' = Under
    /\ UNCHANGED <<peerVars, fd, clients, snap, ready, errors, status, cutOff>>

-----------------------------------------------------------------------------
PeerStep == \E p \in Peers : Connect(p) \/ Send(p) \/ Close(p)

TrackerStep == \/ TrackerSelect \/ TrackerTask
               \/ DoneRead \/ DoneLoop \/ ReadRead \/ ReadLoop
               \/ AcceptClient \/ AcceptFails \/ AcceptRearm

Next == PeerStep \/ TrackerStep

Spec == Init /\ [][Next]_vars

\* The tracker thread runs; the peers need never do anything.
FairSpec == Spec /\ WF_vars(TrackerStep)
-----------------------------------------------------------------------------
(* Properties.                                                             *)

Frame == [kind : {"done", "accept", "read"}, at : {"read", "called"}, full : BOOLEAN]

\* Every variable has its type, and the server's list holds no client twice.
TypeOK ==
    /\ link \in [Peers -> {"none", "backlog", "accepted"}]
    /\ end \in [Peers -> {"open", "closed", "reset"}]
    /\ rx \in [Peers -> 0..MaxInFlight] /\ sends \in [Peers -> 0..MaxSends]
    /\ fd \in [Peers -> {0} \cup ConnFds]
    /\ clients \in Seq(Peers)
    /\ \A i, j \in DOMAIN clients : clients[i] = clients[j] => i = j
    /\ \A t \in tasks \cup snap :
          /\ t.type \in {"accept", "read"}
          /\ t.fd \in Nat /\ t.id \in Nat \ {0} /\ t.obj \in Peers \cup {Server}
    /\ \A f \in Elements(stack) :
          [kind |-> f.kind, at |-> f.at, full |-> f.full] \in Frame
    /\ ready \subseteq Nat /\ errors \in 0..MaxAcceptErrors
    /\ status \in {"run", "dead", "freed", "stdin"} /\ cutOff \subseteq Peers

AcceptTasks == {t \in tasks : t.type = "accept"}

\* There is always exactly one accept task, so the server never stops taking
\* connections, and never calls ::accept (on a blocking socket) for nothing.
AcceptArmed ==
    /\ Cardinality(AcceptTasks) = 1
    /\ Running("accept", "read") => \E p \in Peers : link[p] = "backlog"

\* Every read task waits on the descriptor of a socket that is open and in
\* the server's list, and it is that socket it will call: no task is left
\* behind when a client goes, nor passed on to the next user of its descriptor.
TasksOwned ==
    \A t \in tasks :
        t.type = "read" => t.fd # 0 /\ fd[t.obj] = t.fd /\ Alive(t.obj)

\* The server's list is that of the open sockets: none is leaked, none closed
\* and kept.
ClientsOpen == \A p \in Peers : Alive(p) <=> fd[p] # 0

\* The tracker thread never ends.
TrackerLives == status # "dead"

\* So select is only ever asked about open descriptors.
TasksSound == TasksOwned /\ TrackerLives

\* No task calls a socket that was closed and destroyed.
NoDanglingListener == status # "freed"

\* No connection's reads go to standard input.
NeverReadsStdin == status # "stdin"

\* No client is disconnected that did not close its connection.
HealthyStaysConnected == cutOff = {}

\* Every connection is accepted, also behind failing calls of ::accept.
EveryoneAccepted ==
    \A p \in Peers : link[p] = "backlog" ~> link[p] = "accepted"

\* What an accepted client sent is read.
AllDataRead ==
    \A p \in Peers : (link[p] = "accepted" /\ rx[p] > 0) ~> (rx[p] = 0)

\* The socket of a client that closed its connection is closed and dropped.
ClosedReleased ==
    \A p \in Peers : (link[p] = "accepted" /\ end[p] # "open") ~> (fd[p] = 0 /\ ~Alive(p))
=============================================================================
