------------------------------ MODULE Framing ------------------------------
(***************************************************************************)
(* How a base_rpc cuts what it reads from a connection into requests:      *)
(* _receive_data_handle, _req_msg_parse and _divide_req_msg.               *)
(*                                                                         *)
(* The peer sends messages 1, 2, ..., N, each one line of JSON.  What they  *)
(* say does not matter here, only where they end: the bytes of message m   *)
(* are those at the positions End[m-1] .. End[m]-1 of the stream, and the  *)
(* last of them is its '\n'.  A read returns any number of bytes up to the  *)
(* size of its buffer, so it may end, and the next one begin, anywhere.    *)
(***************************************************************************)
EXTENDS Integers, Sequences

CONSTANTS
    N,             \* bound: messages the peer sends
    End,           \* where each of them ends
    MaxRead        \* the size of the buffer a read fills

ASSUME FramingAssumption ==
    /\ N \in Nat
    /\ MaxRead \in Nat \ {0}
    /\ End \in [0..N -> Nat]
    /\ End[0] = 0
    /\ \A i, j \in 0..N : i < j => End[i] + 2 <= End[j]

Messages == 1..N

\* What is left of a message whose first bytes are gone may still be JSON:
\* an object, which is no request of the peer's, or some other value.
Junk      == 0
NotObject == -1

VARIABLES
    pc,            \* "read": between two calls of _receive_data_handle
    from,          \* history: where the last chunk read begins
    pos,           \* where it ends: every byte before pos was read
    at,            \* req_msg, where the text still to be divided begins
    values,        \* json_value_list
    unreadPtr,     \* unread_ptr was set
    unreadSize,    \* _divide_unread_size
    delivered      \* history: the requests pushed to the handler, in order

vars == <<pc, from, pos, at, values, unreadPtr, unreadSize, delivered>>

Init ==
    /\ pc = "read" /\ from = 0 /\ pos = 0 /\ at = 0
    /\ values = <<>> /\ unreadPtr = FALSE /\ unreadSize = 0
    /\ delivered = <<>>

-----------------------------------------------------------------------------
\* A read of n bytes.  The text to divide is what was kept of the last one,
\* if anything, followed by this one.
Read ==
    /\ pc = "read"
    /\ \E n \in 1..MaxRead :
          /\ pos + n <= End[N]
          /\ pos' = pos + n
    /\ from' = pos /\ at' = pos - unreadSize
    /\ values' = <<>> /\ unreadPtr' = FALSE
    /\ pc' = "divide"
    /\ UNCHANGED <<unreadSize, delivered>>

\* m is the message that the byte at `at' belongs to.
Holds(m) == End[m - 1] <= at /\ at < End[m]

\* _divide_req_msg failed: _req_msg_parse returns false, and with it go the
\* requests found before.
Fail ==
    /\ pc' = "read"
    /\ UNCHANGED <<from, pos, at, values, unreadSize, delivered>>

-----------------------------------------------------------------------------
(* Faults, to show that the properties below can fail: DivideNoEnd that     *)
(* keeps the text for the next read, and DivideLine that skips a byte too   *)
(* many, that puts a value before the others, that asks for one more line   *)
(* after the last byte, and that stops after one line.                      *)

DivideNoEndKeeps ==
    /\ pc = "divide"
    /\ \E m \in Messages : Holds(m) /\ End[m] > pos
    /\ unreadPtr' = TRUE /\ pc' = "deliver"
    /\ UNCHANGED <<from, pos, at, values, unreadSize, delivered>>

DivideLineWith(Add(_, _), skip, Goto(_)) ==
    /\ pc = "divide"
    /\ \E m \in Messages :
          /\ Holds(m) /\ End[m] <= pos /\ at < End[m] - 1
          /\ \E v \in IF at = End[m - 1] THEN {m} ELSE {Junk, NotObject} :
                values' = Add(values, v)
          /\ at' = End[m] + skip
          /\ pc' = Goto(End[m])
    /\ UNCHANGED <<from, pos, unreadPtr, unreadSize, delivered>>

PushFront(s, v) == <<v>> \o s
UntilEnd(e)     == IF e = pos THEN "deliver" ELSE "divide"
OneMore(e)      == "divide"
Once(e)         == "deliver"

DivideLineSkips == DivideLineWith(Append, 1, UntilEnd)
DivideLineFront == DivideLineWith(PushFront, 0, UntilEnd)
DivideLineMore  == DivideLineWith(Append, 0, OneMore)
DivideLineOnce  == DivideLineWith(Append, 0, Once)
-----------------------------------------------------------------------------

\* -1: no '\n' in what is left.
DivideNoEnd ==
    /\ pc = "divide"
    /\ \E m \in Messages : Holds(m) /\ End[m] > pos
    /\ unreadPtr' = TRUE
    /\ Fail

\* -2: the text begins with a '\n'.
DivideEmpty ==
    /\ pc = "divide"
    /\ \E m \in Messages : Holds(m) /\ End[m] <= pos /\ at = End[m] - 1
    /\ UNCHANGED unreadPtr
    /\ Fail

\* -100: the line is no JSON.  Only the end of a message can be that.
DivideBadJson ==
    /\ pc = "divide"
    /\ \E m \in Messages :
          Holds(m) /\ End[m] <= pos /\ at < End[m] - 1 /\ at # End[m - 1]
    /\ UNCHANGED unreadPtr
    /\ Fail

\* The line is JSON: a message, or what the end of one happens to be.  Go on
\* behind its '\n', unless that was the last byte.
DivideLine ==
    /\ pc = "divide"
    /\ \E m \in Messages :
          /\ Holds(m) /\ End[m] <= pos /\ at < End[m] - 1
          /\ \E v \in IF at = End[m - 1] THEN {m} ELSE {Junk, NotObject} :
                values' = Append(values, v)
          /\ at' = End[m]
          /\ pc' = IF End[m] = pos THEN "deliver" ELSE "divide"
    /\ UNCHANGED <<from, pos, unreadPtr, unreadSize, delivered>>

\* The rest of _req_msg_parse: each value becomes a request, and all of them
\* are pushed.  Asking a value that is no object for a member aborts.
Deliver ==
    /\ pc = "deliver"
    /\ unreadSize' = IF unreadPtr THEN pos - at ELSE 0
    /\ IF \E i \in 1..Len(values) : values[i] = NotObject
       THEN pc' = "aborted" /\ UNCHANGED delivered
       ELSE pc' = "read" /\ delivered' = delivered \o values
    /\ UNCHANGED <<from, pos, at, values, unreadPtr>>

Next == \/ Read
        \/ DivideNoEnd \/ DivideEmpty \/ DivideBadJson \/ DivideLine
        \/ Deliver

Spec == Init /\ [][Next]_vars
-----------------------------------------------------------------------------
(* Properties.                                                             *)

\* Every variable has its type, and what is still to be divided is part of
\* what was read.
TypeOK ==
    /\ pc \in {"read", "divide", "deliver", "aborted"}
    /\ from \in Nat /\ pos \in 0..End[N] /\ at \in 0..pos
    /\ values \in Seq(Messages \cup {Junk, NotObject})
    /\ delivered \in Seq(Messages \cup {Junk})
    /\ unreadPtr \in BOOLEAN /\ unreadSize \in Nat

\* Nothing is ever kept from one read for the next: the branch of
\* _req_msg_parse that glues two reads together, into a buffer of fixed size
\* that every client of a server shares, is never taken, so it can neither
\* overflow nor mix the text of two clients.
NoResidue == unreadSize = 0 /\ (pc = "deliver" => ~unreadPtr)

\* However the stream is cut, no message is delivered before all of it was
\* read, none twice, and none before one the peer sent earlier.
InOrder ==
    /\ \A i \in 1..Len(delivered) :
          delivered[i] # Junk => End[delivered[i]] <= pos
    /\ \A i, j \in 1..Len(delivered) :
          i < j /\ delivered[i] # Junk /\ delivered[j] # Junk
             => delivered[i] < delivered[j]

\* _req_msg_parse returns.
Returns == pc \in {"divide", "deliver"} /\ pc' \in {"read", "aborted"}

\* A read that begins where message i ends and ends where message j does
\* yields exactly the messages in between, whatever went wrong before it:
\* a cut message spoils no later read.
AlignedDelivered ==
    [][\A i, j \in 0..N :
          Returns /\ from = End[i] /\ pos = End[j]
             => delivered' = delivered \o [k \in 1..(j - i) |-> i + k]]_vars

\* A read yields all of the messages that lie wholly inside it or nothing.
AllOrNothing ==
    [][Returns =>
          \/ delivered' = delivered
          \/ \A m \in Messages :
                from <= End[m - 1] /\ End[m] <= pos
                   => \E k \in 1..Len(delivered') : delivered'[k] = m]_vars

\* Every message that ends with a '\n' is divided from the others and
\* delivered once all of it was read.
EveryLineDelivered ==
    pc = "read" => \A m \in Messages : End[m] <= pos =>
                      \E k \in 1..Len(delivered) : delivered[k] = m
=============================================================================
