----------------------------- MODULE AnswerPath -----------------------------
(***************************************************************************)
(* Whom an rpc_server answers.  A request does not say who sent it: its    *)
(* answer goes to the first client of _client_fd_lists, which the worker   *)
(* looks up without the mutex under which the tracker thread changes the   *)
(* list as clients come and go.                                            *)
(*                                                                         *)
(* So the answer reaches who asked as long as there is one client at a     *)
(* time and it waits for its answers: that is how clients behave here.     *)
(***************************************************************************)
EXTENDS Naturals, Sequences, FiniteSets

CONSTANTS
    Clients,       \* clients, each connecting once
    None,          \* no client
    MaxRequests    \* bound: requests of a client

VARIABLES
    peer,          \* what each client does
    asked,         \* the requests it has sent
    answered,      \* the answers it has got
    list,          \* _client_fd_lists
    tracker,       \* what the tracker thread does, and to which client
    subject,
    queue,         \* the requests of the handler, by who sent them
    worker,        \* where the worker is
    request,       \* who sent the request it serves
    front          \* the local ref_obj client of rpc_server::_write

peers   == <<peer, asked, answered>>
serving == <<queue, worker, request, front>>
vars    == <<peers, list, tracker, subject, serving>>

Init ==
    /\ peer = [c \in Clients |-> "away"]
    /\ asked = [c \in Clients |-> 0] /\ answered = [c \in Clients |-> 0]
    /\ list = <<>> /\ tracker = "rest" /\ subject = None
    /\ queue = <<>> /\ worker = "idle" /\ request = None /\ front = None

TrackerAt(a, b) == tracker = a /\ tracker' = b
WorkerAt(a, b)  == worker = a /\ worker' = b

-----------------------------------------------------------------------------
(* Faults: slips that the properties below must notice.                    *)

\* _on_disconnect does not find the client in the list.
RemoveNot ==
    /\ TrackerAt("remove", "rest")
    /\ peer' = [peer EXCEPT ![subject] = "gone"]
    /\ UNCHANGED <<asked, answered, list, subject, serving>>

-----------------------------------------------------------------------------
(* The clients.                                                            *)

Ask(c) ==
    /\ peer[c] = "up" /\ asked[c] < MaxRequests
    /\ asked' = [asked EXCEPT ![c] = @ + 1]
    /\ UNCHANGED <<peer, answered, list, tracker, subject, serving>>

Leave(c) ==
    /\ peer[c] = "up" /\ asked[c] = answered[c]
    /\ peer' = [peer EXCEPT ![c] = "leaving"]
    /\ UNCHANGED <<asked, answered, list, tracker, subject, serving>>

-----------------------------------------------------------------------------
(* The tracker thread, with _client_fd_mutex held in "push" and "remove",  *)
(* while the list is not to be looked at.                                  *)

\* The next client comes when the one before was taken off the list.
Accept(c) ==
    /\ peer[c] = "away" /\ \A d \in Clients : peer[d] \in {"away", "gone"}
    /\ TrackerAt("rest", "push")
    /\ subject' = c
    /\ peer' = [peer EXCEPT ![c] = "up"]
    /\ UNCHANGED <<asked, answered, list, serving>>

Push ==
    /\ TrackerAt("push", "rest")
    /\ list' = Append(list, subject)
    /\ UNCHANGED <<peers, subject, serving>>

\* The number of requests received is the number sent less those on the way.
Received(c) == answered[c] + Cardinality({i \in 1..Len(queue) : queue[i] = c})
                 + (IF worker # "idle" /\ request = c THEN 1 ELSE 0)

Receive(c) ==
    /\ TrackerAt("rest", "rest")
    /\ Received(c) < asked[c]
    /\ queue' = Append(queue, c)
    /\ UNCHANGED <<peers, list, subject, worker, request, front>>

\* The end of the connection, after everything the client had sent.
Disconnect(c) ==
    /\ peer[c] = "leaving"
    /\ TrackerAt("rest", "remove")
    /\ subject' = c
    /\ UNCHANGED <<peers, list, serving>>

\* find, and remove if it is there.
Remove ==
    /\ TrackerAt("remove", "rest")
    /\ \/ \E i \in 1..Len(list) :
            /\ list[i] = subject
            /\ list' = SubSeq(list, 1, i - 1) \o SubSeq(list, i + 1, Len(list))
       \/ (\A i \in 1..Len(list) : list[i] # subject) /\ UNCHANGED list
    /\ peer' = [peer EXCEPT ![subject] = "gone"]
    /\ UNCHANGED <<asked, answered, subject, serving>>

-----------------------------------------------------------------------------
(* The worker: a request whose service fills ack_map.                      *)

Take ==
    /\ queue # <<>>
    /\ WorkerAt("idle", "front")
    /\ request' = Head(queue)
    /\ queue' = Tail(queue)
    /\ UNCHANGED <<peers, list, tracker, subject, front>>

\* _client_fd_lists.front(): of an empty list, whatever lies there.
Front ==
    /\ WorkerAt("front", "send")
    /\ front' \in IF list = <<>> THEN Clients \cup {None} ELSE {Head(list)}
    /\ UNCHANGED <<peers, list, tracker, subject, queue, request>>

Send ==
    /\ WorkerAt("send", "idle")
    /\ answered' = IF front = None \/ peer[front] # "up" THEN answered
                   ELSE [answered EXCEPT ![front] = @ + 1]
    /\ UNCHANGED <<peer, asked, list, tracker, subject, queue, request, front>>

-----------------------------------------------------------------------------
Tracker == Push \/ Remove
            \/ \E c \in Clients : Receive(c) \/ Disconnect(c)

Worker == Take \/ Front \/ Send

Next == \/ \E c \in Clients : Ask(c) \/ Leave(c) \/ Accept(c)
        \/ Tracker \/ Worker

Spec == Init /\ [][Next]_vars

FairSpec == Spec /\ WF_vars(Tracker) /\ WF_vars(Worker)
-----------------------------------------------------------------------------
(* Properties.                                                             *)

\* The worker looks at the list only while the tracker thread leaves it
\* alone, and finds a client there, although it takes no lock.
FrontSafe == worker = "front" => tracker = "rest" /\ list # <<>>

\* The answer goes to the client that asked, and it is still there.
AnswersTheAsker == worker = "send" => front = request /\ peer[front] = "up"

\* Every client gets all its answers.
AllAnswered == (\E c \in Clients : asked[c] # answered[c]) ~> asked = answered

\* With one client at a time, the first client of the list is the one that
\* asked, although the worker does not lock the list.
AnswerSafe == FrontSafe /\ AnswersTheAsker
=============================================================================
