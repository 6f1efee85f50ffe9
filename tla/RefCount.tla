------------------------------ MODULE RefCount ------------------------------
(***************************************************************************)
(* c_ref and ref_obj: the objects that count their references themselves   *)
(* (sockets, tasks, the tracker) and the smart pointers to them, in the    *)
(* hands of several threads.                                               *)
(*                                                                         *)
(* One thread uses a slot (a ref_obj variable) at a time; the counts of an *)
(* object are touched by all.  Each step is one InterlockedIncrement, one  *)
(* InterlockedDecrement or one assignment of the code between them.        *)
(***************************************************************************)
EXTENDS Integers, FiniteSets

CONSTANTS
    Objects,       \* the objects that may be made
    Slots,         \* the ref_obj variables
    Null           \* a ref_obj whose p is 0

VARIABLES
    ref,           \* m_lRef
    del,           \* m_lDel
    life,          \* what became of the object
    slot,          \* p of each ref_obj
    step,          \* where the operation on a ref_obj is
    next           \* lp of an operator=, already counted

counts == <<ref, del>>
slots  == <<slot, step, next>>
vars   == <<counts, life, slots>>

Steps == {"idle", "release", "last", "destroy", "temp", "templast", "read", "set"}

Init ==
    /\ ref = [o \in Objects |-> 0] /\ del = [o \in Objects |-> 1]
    /\ life = [o \in Objects |-> "new"]
    /\ slot = [s \in Slots |-> Null] /\ next = [s \in Slots |-> Null]
    /\ step = [s \in Slots |-> "idle"]

At(s, from, to) == step[s] = from /\ step' = [step EXCEPT ![s] = to]

\* The references to o there are: those of slots, which an operation gives
\* up with the decrement, those an operator= has taken, and one that the
\* destructor of o has made of itself.
Kinds == {"slot", "next", "temp"}
Holds(kind, s, o) ==
    \/ kind = "slot" /\ slot[s] = o /\ step[s] \in {"idle", "release"}
    \/ kind = "next" /\ next[s] = o
    \/ kind = "temp" /\ slot[s] = o /\ step[s] = "temp"
References(o) == {h \in Kinds \X Slots : Holds(h[1], h[2], o)}

-----------------------------------------------------------------------------
(* Faults: slips that the properties below must notice.                    *)

\* Release tests the count before it takes its own reference off.
ReleaseStale(s) ==
    /\ At(s, "release", IF ref[slot[s]] = 0 THEN "last" ELSE "read")
    /\ ref' = [ref EXCEPT ![slot[s]] = @ - 1]
    /\ UNCHANGED <<del, life, slot, next>>

-----------------------------------------------------------------------------
\* ref_obj(new T): AddRef of a new object.
Wrap(s, o) ==
    /\ life[o] = "new" /\ slot[s] = Null
    /\ At(s, "idle", "idle")
    /\ slot' = [slot EXCEPT ![s] = o]
    /\ life' = [life EXCEPT ![o] = "alive"]
    /\ ref' = [ref EXCEPT ![o] = @ + 1]
    /\ UNCHANGED <<del, next>>

\* ref_obj(const ref_obj&).
Copy(s, u) ==
    /\ step[u] = "idle" /\ slot[u] # Null /\ slot[s] = Null
    /\ At(s, "idle", "idle")
    /\ slot' = [slot EXCEPT ![s] = slot[u]]
    /\ ref' = [ref EXCEPT ![slot[u]] = @ + 1]
    /\ UNCHANGED <<del, life, next>>

\* operator=: AddRef of the new object, which may be the old one, then
\* Release of the old one, then the assignment.
Assign(s, u) ==
    /\ step[u] = "idle" /\ slot[u] # Null
    /\ At(s, "idle", IF slot[s] = Null THEN "set" ELSE "release")
    /\ next' = [next EXCEPT ![s] = slot[u]]
    /\ ref' = [ref EXCEPT ![slot[u]] = @ + 1]
    /\ UNCHANGED <<del, life, slot>>

\* ~ref_obj, or operator= of a null pointer.
Clear(s) ==
    /\ slot[s] # Null
    /\ At(s, "idle", "release")
    /\ UNCHANGED <<counts, life, slot, next>>

\* Release: the first decrement.
Release(s) ==
    /\ At(s, "release", IF ref[slot[s]] = 1 THEN "last" ELSE "read")
    /\ ref' = [ref EXCEPT ![slot[s]] = @ - 1]
    /\ UNCHANGED <<del, life, slot, next>>

\* The second decrement.
Last(s) ==
    /\ At(s, "last", IF del[slot[s]] = 1 THEN "destroy" ELSE "read")
    /\ del' = [del EXCEPT ![slot[s]] = @ - 1]
    /\ UNCHANGED <<ref, life, slot, next>>

\* The destructor may make a ref_obj of its object for a call, and drop it.
\* Bound: once (each time takes one more off m_lDel).
DestroyTemp(s) ==
    /\ At(s, "destroy", "temp")
    /\ del[slot[s]] = 0
    /\ ref' = [ref EXCEPT ![slot[s]] = @ + 1]
    /\ UNCHANGED <<del, life, slot, next>>

DestroyTempRelease(s) ==
    /\ At(s, "temp", IF ref[slot[s]] = 1 THEN "templast" ELSE "destroy")
    /\ ref' = [ref EXCEPT ![slot[s]] = @ - 1]
    /\ UNCHANGED <<del, life, slot, next>>

\* Here m_lDel pays: the object is not deleted a second time.
DestroyTempLast(s) ==
    /\ At(s, "templast", "destroy")
    /\ del' = [del EXCEPT ![slot[s]] = @ - 1]
    /\ life' = [life EXCEPT ![slot[s]] = IF del[slot[s]] = 1 THEN "deleted" ELSE @]
    /\ UNCHANGED <<ref, slot, next>>

\* delete this; return 0.
Destroy(s) ==
    /\ At(s, "destroy", "set")
    /\ life' = [life EXCEPT ![slot[s]] = IF @ = "deleted" THEN "twice" ELSE "deleted"]
    /\ UNCHANGED <<counts, slot, next>>

\* return m_lRef, of an object that another thread may have deleted since.
\* No ref_obj looks at the result.
ReadBack(s) ==
    /\ At(s, "read", "set")
    /\ UNCHANGED <<counts, life, slot, next>>

\* p = lp, or the ref_obj is gone.
Set(s) ==
    /\ At(s, "set", "idle")
    /\ slot' = [slot EXCEPT ![s] = next[s]]
    /\ next' = [next EXCEPT ![s] = Null]
    /\ UNCHANGED <<counts, life>>

-----------------------------------------------------------------------------
Begin(s) ==
    \/ \E o \in Objects : Wrap(s, o)
    \/ \E u \in Slots \ {s} : Copy(s, u)
    \/ \E u \in Slots : Assign(s, u)
    \/ Clear(s)

Finish(s) ==
    \/ Release(s) \/ Last(s) \/ DestroyTempRelease(s)
    \/ DestroyTempLast(s) \/ Destroy(s) \/ ReadBack(s) \/ Set(s)

Next == \E s \in Slots : Begin(s) \/ DestroyTemp(s) \/ Finish(s)

Spec == Init /\ [][Next]_vars

-----------------------------------------------------------------------------
(* Properties.                                                             *)

\* Every variable has its type.
TypeOK ==
    /\ ref \in [Objects -> Int] /\ del \in [Objects -> Int]
    /\ life \in [Objects -> {"new", "alive", "deleted", "twice"}]
    /\ slot \in [Slots -> Objects \cup {Null}]
    /\ next \in [Slots -> Objects \cup {Null}]
    /\ step \in [Slots -> Steps]

\* m_lRef is the number of references there are, at every moment.
CountExact == \A o \in Objects : ref[o] = Cardinality(References(o))

\* No object is used by way of a reference after it was deleted, whichever
\* thread drops the last one, and none is deleted twice.
UsedAlive ==
    \A o \in Objects :
        /\ life[o] # "twice"
        /\ References(o) # {} => life[o] = "alive"

\* An object without references and without an operation on it is gone:
\* the last of several concurrent releases deletes it.
NotLeaked ==
    \A o \in Objects :
        life[o] = "alive" =>
            \/ References(o) # {}
            \/ \E s \in Slots : slot[s] = o /\ step[s] \in {"last", "destroy", "templast"}

\* What the smart pointers promise: the count is exact at every step, nothing
\* is used after it was deleted or deleted twice, and nothing is leaked.
RefSafe == CountExact /\ UsedAlive /\ NotLeaked
=============================================================================
