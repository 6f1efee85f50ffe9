----------------------------- MODULE WritePath ------------------------------
(***************************************************************************)
(* The way out: send_req, called by the program and by the worker of the   *)
(* request handler, io_fd::_write under the lock of the socket, and the    *)
(* write tasks of the tracker thread, which do not take it.                *)
(*                                                                         *)
(* The socket does not block.  A write takes what there is room for, fails *)
(* with EAGAIN when there is none, or with another error, which passes     *)
(* (ENOBUFS; what follows when the peer has closed is RpcClient's).        *)
(* The test of errno in _write is the wrong way round: it is the other     *)
(* error that makes a write task, and EAGAIN that gives up.                *)
(***************************************************************************)
EXTENDS Naturals, Sequences, FiniteSets

CONSTANTS
    Senders,       \* threads that call send_req
    Messages,      \* what they send, each once
    Length,        \* bytes of a message, the last one its '\n'
    Room,          \* bytes the kernel keeps until the peer reads them
    MaxErrors      \* bound: errors other than EAGAIN

VARIABLES
    pc,            \* where each sender is
    msg,           \* the message it sends
    from,          \* buf: the first byte of it that is not written
    mutex,         \* who holds io_fd::_mutex
    result,        \* what send_req returned for a message
    tasks,         \* the write tasks: message and first byte of _send_buf
    tracker,       \* where the tracker thread is
    current,       \* the task it runs
    kernel,        \* bytes accepted and not read by the peer
    wire,          \* history: bytes the peer has read
    errors         \* errors so far

sender == <<pc, msg, from, mutex, result>>
task   == <<tasks, tracker, current>>
net    == <<kernel, wire, errors>>
vars   == <<sender, task, net>>

NoTask == [msg |-> 0, from |-> 0]

Init ==
    /\ pc = [s \in Senders |-> "idle"]
    /\ msg = [s \in Senders |-> 0] /\ from = [s \in Senders |-> 0]
    /\ mutex = "free" /\ result = [m \in Messages |-> "none"]
    /\ tasks = {} /\ tracker = "rest" /\ current = NoTask
    /\ kernel = <<>> /\ wire = <<>> /\ errors = 0

At(s, a, b) == pc[s] = a /\ pc' = [pc EXCEPT ![s] = b]
Free == Room - Len(kernel)
Least(a, b) == IF a < b THEN a ELSE b

\* ::write of message m from byte i on: how much is taken, and by it.
Taken(i) == Least(Free, Length - i + 1)
Write(m, i) == kernel' = kernel \o [k \in 1..Taken(i) |-> <<m, i + k - 1>>]

-----------------------------------------------------------------------------
(* Faults: slips that the properties below must notice.                    *)

\* EAGAIN is reported as success.
WriteBlockedZero(s) ==
    /\ Free = 0
    /\ At(s, "write", "idle")
    /\ mutex' = "free"
    /\ result' = [result EXCEPT ![msg[s]] = "false"]
    /\ UNCHANGED <<msg, from, task, net>>

\* done returns true when nothing could be written.
TaskFailsDone ==
    /\ tracker = "write"
    /\ \/ Free = 0 /\ UNCHANGED errors
       \/ errors < MaxErrors /\ errors' = errors + 1
    /\ tasks' = tasks \ {current}
    /\ tracker' = "rest"
    /\ UNCHANGED <<sender, current, kernel, wire>>

-----------------------------------------------------------------------------
(* send_req.                                                               *)

\* _format_req_msg, which ends the message with its only '\n'.
Send(s, m) ==
    /\ result[m] = "none" /\ \A r \in Senders : msg[r] # m
    /\ At(s, "idle", "enter")
    /\ msg' = [msg EXCEPT ![s] = m]
    /\ from' = [from EXCEPT ![s] = 1]
    /\ UNCHANGED <<mutex, result, task, net>>

Enter(s) ==
    /\ mutex = "free"
    /\ At(s, "enter", "write")
    /\ mutex' = s
    /\ UNCHANGED <<msg, from, result, task, net>>

\* The loop of _write.  It returns 0 at the end, and that is the bool false.
WriteSome(s) ==
    /\ pc[s] = "write" /\ Free > 0
    /\ Write(msg[s], from[s])
    /\ from' = [from EXCEPT ![s] = @ + Taken(@)]
    /\ IF from'[s] > Length
         THEN /\ At(s, "write", "idle")
              /\ mutex' = "free"
              /\ result' = [result EXCEPT ![msg[s]] = "false"]
         ELSE UNCHANGED <<pc, mutex, result>>
    /\ UNCHANGED <<msg, task, wire, errors>>

\* EAGAIN: -1, which is the bool true; the rest of the message is dropped.
WriteBlocked(s) ==
    /\ Free = 0
    /\ At(s, "write", "idle")
    /\ mutex' = "free"
    /\ result' = [result EXCEPT ![msg[s]] = "true"]
    /\ UNCHANGED <<msg, from, task, net>>

\* Another error: a write task gets a copy of the rest, and 0 is returned.
WriteFails(s) ==
    /\ errors < MaxErrors
    /\ errors' = errors + 1
    /\ At(s, "write", "idle")
    /\ mutex' = "free"
    /\ tasks' = tasks \cup {[msg |-> msg[s], from |-> from[s]]}
    /\ result' = [result EXCEPT ![msg[s]] = "false"]
    /\ UNCHANGED <<msg, from, tracker, current, kernel, wire>>

-----------------------------------------------------------------------------
(* The tracker thread.                                                     *)

\* select says that there is room; write_task::done.
TaskStart ==
    /\ tracker = "rest" /\ Free > 0
    /\ current' \in tasks
    /\ tracker' = "write"
    /\ UNCHANGED <<sender, tasks, net>>

TaskWrite ==
    /\ tracker = "write" /\ Free > 0
    /\ Write(current.msg, current.from)
    /\ LET rest == [current EXCEPT !.from = @ + Taken(@)] IN
         /\ tasks' = (tasks \ {current}) \cup {rest}
         /\ current' = rest
         /\ tracker' = IF rest.from > Length THEN "free" ELSE "write"
    /\ UNCHANGED <<sender, wire, errors>>

\* -1 for whatever reason: done returns false and the task stays.
TaskFails ==
    /\ tracker = "write"
    /\ \/ Free = 0 /\ UNCHANGED errors
       \/ errors < MaxErrors /\ errors' = errors + 1
    /\ tracker' = "rest"
    /\ UNCHANGED <<sender, tasks, current, kernel, wire>>

\* delete []_send_buf, a pointer that was moved to the end of the buffer:
\* the allocator aborts, or does not.  Then del_task.
TaskFree ==
    /\ tracker = "free"
    /\ \/ tracker' = "crashed" /\ UNCHANGED tasks
       \/ tracker' = "rest" /\ tasks' = tasks \ {current}
    /\ UNCHANGED <<sender, current, net>>

-----------------------------------------------------------------------------
PeerReads ==
    /\ kernel # <<>>
    /\ wire' = Append(wire, Head(kernel))
    /\ kernel' = Tail(kernel)
    /\ UNCHANGED <<sender, task, errors>>

Sending(s) == Enter(s) \/ WriteSome(s) \/ WriteBlocked(s) \/ WriteFails(s)
Tracker == TaskStart \/ TaskWrite \/ TaskFails \/ TaskFree

\* An abort ends them all.
Next ==
    /\ tracker # "crashed"
    /\ \/ \E s \in Senders : Sending(s) \/ \E m \in Messages : Send(s, m)
       \/ Tracker \/ PeerReads

Spec == Init /\ [][Next]_vars

\* The threads run, and the peer goes on reading.
FairSending(s) == tracker # "crashed" /\ Sending(s)
FairPeerReads  == tracker # "crashed" /\ PeerReads
FairTracker    == tracker # "crashed" /\ Tracker

FairSpec ==
    /\ Spec
    /\ \A s \in Senders : WF_vars(FairSending(s))
    /\ WF_vars(FairPeerReads) /\ WF_vars(FairTracker)
-----------------------------------------------------------------------------
(* Properties.                                                             *)

Stream == wire \o kernel
Handed(m) == Cardinality({i \in 1..Len(Stream) : Stream[i][1] = m})
Queued(m) == {t \in tasks : t.msg = m}

\* send_req tells the truth, the wrong way round: it returns false exactly
\* when the whole message is with the kernel or in a write task, and true
\* when a part of it was dropped.
ReportExact ==
    \A m \in Messages :
        LET kept == Handed(m) = Length
                      \/ \E t \in Queued(m) : Handed(m) + (Length - t.from + 1) = Length
        IN  /\ result[m] = "false" => kept
            /\ result[m] = "true" => ~kept

\* However writes are cut and retried, the bytes of a message go out in
\* order, each once: what the peer has is the beginning of the message.
InSequence ==
    \A i, j \in 1..Len(Stream) :
        i < j /\ Stream[i][1] = Stream[j][1] => Stream[i][2] < Stream[j][2]

\* Two threads that send at once do not mix their lines, as long as no write
\* has failed: the rest of a message in a write task goes out without the
\* lock, between the lines of others.
LinesNotMixed ==
    errors = 0 =>
        \A i, j, k \in 1..Len(Stream) :
            i < j /\ j < k /\ Stream[i][1] = Stream[k][1] => Stream[j][1] = Stream[i][1]

\* What is queued is sent, if the peer reads, once the errors are over (or
\* the program aborts in the delete[]).
QueuedIsSent ==
    \A m \in Messages : Queued(m) # {} ~> Handed(m) = Length \/ tracker = "crashed"

\* What is known of a message after send_req, and what its peer sees of it.
WriteSafe == ReportExact /\ InSequence /\ LinesNotMixed
=============================================================================
