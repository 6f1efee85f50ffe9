---------------------------- MODULE RequestPipe ----------------------------
(***************************************************************************)
(* What the receiving half of a base_rpc promises to the code above it,    *)
(* with no threads, locks or timeouts: requests go in at one end in the    *)
(* order in which they arrive, and come out at the other in that order,    *)
(* each once.  The only way to lose one is Reset, a call of run() that     *)
(* throws away what has not been started.                                  *)
(***************************************************************************)
EXTENDS Naturals, Sequences, Functions

CONSTANT Requests        \* the requests a peer may send

VARIABLES pending,       \* received, not served yet, oldest first
          served         \* given to their service, in order

pipeVars == <<pending, served>>

TypeOK == /\ pending \in Seq(Requests)
          /\ served \in Seq(Requests)

Init == /\ pending = <<>>
        /\ served = <<>>

\* A read of the connection yielded more requests, none of which is waiting
\* or was served already.
Submit == /\ pending' \in Seq(Requests)
          /\ Len(pending) <= Len(pending')
          /\ SubSeq(pending', 1, Len(pending)) = pending
          /\ IsInjective(served \o pending')
          /\ UNCHANGED served

\* The oldest request is served.
Serve == /\ pending # <<>>
         /\ served' = Append(served, Head(pending))
         /\ pending' = Tail(pending)

\* Only the n oldest requests survive.
Reset(n) == /\ pending' = SubSeq(pending, 1, n)
            /\ UNCHANGED served

Next == \/ Submit
        \/ Serve
        \/ \E n \in 0..Len(pending) : Reset(n)

Spec == Init /\ [][Next]_pipeVars
=============================================================================
