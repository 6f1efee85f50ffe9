-------------------------- MODULE RpcHandlerProofs --------------------------
(***************************************************************************)
(* What RpcHandler guarantees for every set of requests, every bound on    *)
(* the size of a read and every number of calls of run().                  *)
(***************************************************************************)
EXTENDS RpcHandler, SequenceTheorems, TLAPS

(***************************************************************************)
(* Sequences.                                                              *)
(***************************************************************************)

\* What follows the head of a sequence of one is empty.
LEMMA TailOfOne ==
    ASSUME NEW S, NEW b \in Seq(S), Len(b) = 1 PROVE Tail(b) = <<>>
<1>1. b # <<>>
  <2>1. <<>> \in Seq(S) /\ Len(<<>>) = 0
    BY EmptySeq
  <2> QED BY <2>1
<1>2. Tail(b) \in Seq(S) /\ Len(Tail(b)) = 0
  BY <1>1, HeadTailProperties
<1> QED BY <1>2, EmptySeq

\* Moving the head of a sequence to the end of the one before it changes
\* nothing of the whole.
LEMMA MoveHead ==
    ASSUME NEW S, NEW s \in Seq(S), NEW b \in Seq(S), b # <<>>
    PROVE  Append(s, Head(b)) \o Tail(b) = s \o b
<1>1. /\ Head(b) \in S /\ Tail(b) \in Seq(S)
      /\ Len(Tail(b)) = Len(b) - 1
      /\ \A i \in 1..Len(Tail(b)) : Tail(b)[i] = b[i + 1]
  BY HeadTailProperties
<1>2. /\ Append(s, Head(b)) \in Seq(S)
      /\ Len(Append(s, Head(b))) = Len(s) + 1
      /\ \A i \in 1..Len(s) : Append(s, Head(b))[i] = s[i]
      /\ Append(s, Head(b))[Len(s) + 1] = Head(b)
  BY <1>1, AppendProperties
<1>3. /\ Append(s, Head(b)) \o Tail(b) \in Seq(S)
      /\ Len(Append(s, Head(b)) \o Tail(b)) = Len(s) + 1 + (Len(b) - 1)
      /\ \A i \in 1..(Len(s) + 1 + (Len(b) - 1)) :
            (Append(s, Head(b)) \o Tail(b))[i] =
               IF i <= Len(s) + 1 THEN Append(s, Head(b))[i]
                                  ELSE Tail(b)[i - (Len(s) + 1)]
  BY <1>1, <1>2, ConcatProperties
<1>4. /\ s \o b \in Seq(S)
      /\ Len(s \o b) = Len(s) + Len(b)
      /\ \A i \in 1..(Len(s) + Len(b)) :
            (s \o b)[i] = IF i <= Len(s) THEN s[i] ELSE b[i - Len(s)]
  BY ConcatProperties
<1>5. Len(s) \in Nat /\ Len(b) \in Nat \ {0} /\ Head(b) = b[1]
  BY EmptySeq, LenProperties
<1>6. ASSUME NEW i \in 1..Len(s \o b)
      PROVE  (Append(s, Head(b)) \o Tail(b))[i] = (s \o b)[i]
  <2>1. CASE i <= Len(s)
    BY <2>1, <1>2, <1>3, <1>4, <1>5
  <2>2. CASE i = Len(s) + 1
    BY <2>2, <1>2, <1>3, <1>4, <1>5
  <2>3. CASE i > Len(s) + 1
    <3>1. i - (Len(s) + 1) \in 1..Len(Tail(b))
      BY <2>3, <1>1, <1>4, <1>5
    <3>2. (Append(s, Head(b)) \o Tail(b))[i] = b[(i - (Len(s) + 1)) + 1]
      BY <2>3, <3>1, <1>1, <1>3, <1>4, <1>5
    <3> QED BY <2>3, <3>2, <1>4, <1>5
  <2> QED BY <2>1, <2>2, <2>3, <1>4, <1>5
<1>7. Len(Append(s, Head(b)) \o Tail(b)) = Len(s \o b)
  BY <1>3, <1>4, <1>5
<1> QED BY <1>3, <1>4, <1>6, <1>7, SeqEqual

\* A sequence without repetitions may be cut, and two that have nothing in
\* common may be joined.
LEMMA PrefixInjective ==
    ASSUME NEW S, NEW s \in Seq(S), NEW t \in Seq(S), IsInjective(s \o t)
    PROVE  IsInjective(s) /\ Range(s) \subseteq Range(s \o t)
<1>1. /\ s \o t \in Seq(S)
      /\ Len(s \o t) = Len(s) + Len(t)
      /\ \A i \in 1..(Len(s) + Len(t)) :
            (s \o t)[i] = IF i <= Len(s) THEN s[i] ELSE t[i - Len(s)]
  BY ConcatProperties
<1>2. Len(s) \in Nat /\ Len(t) \in Nat
  BY LenProperties
<1>3. DOMAIN s = 1..Len(s) /\ DOMAIN (s \o t) = 1..(Len(s) + Len(t))
  BY <1>1, LenProperties
<1>4. \A i \in DOMAIN s : i \in DOMAIN (s \o t) /\ (s \o t)[i] = s[i]
  BY <1>1, <1>2, <1>3
<1>5. IsInjective(s)
  BY <1>4 DEF IsInjective
<1>6. Range(s) \subseteq Range(s \o t)
  BY <1>4 DEF Range
<1> QED BY <1>5, <1>6

LEMMA ConcatInjective ==
    ASSUME NEW S, NEW s \in Seq(S), NEW t \in Seq(S),
           IsInjective(s), IsInjective(t), Range(s) \cap Range(t) = {}
    PROVE  IsInjective(s \o t)
<1>1. /\ s \o t \in Seq(S)
      /\ Len(s \o t) = Len(s) + Len(t)
      /\ \A i \in 1..(Len(s) + Len(t)) :
            (s \o t)[i] = IF i <= Len(s) THEN s[i] ELSE t[i - Len(s)]
  BY ConcatProperties
<1>2. Len(s) \in Nat /\ Len(t) \in Nat
  BY LenProperties
<1>3. /\ DOMAIN s = 1..Len(s) /\ DOMAIN t = 1..Len(t)
      /\ DOMAIN (s \o t) = 1..(Len(s) + Len(t))
  BY <1>1, LenProperties
<1>4. \A i \in DOMAIN s, j \in DOMAIN t : s[i] # t[j]
  BY DEF Range
<1> SUFFICES ASSUME NEW i \in DOMAIN (s \o t), NEW j \in DOMAIN (s \o t),
                    (s \o t)[i] = (s \o t)[j]
             PROVE  i = j
  BY DEF IsInjective
<1>5. CASE i \in DOMAIN s /\ j \in DOMAIN s
  <2>1. s[i] = s[j]
    BY <1>5, <1>1, <1>2, <1>3
  <2> QED BY <1>5, <2>1 DEF IsInjective
<1>6. CASE i \notin DOMAIN s /\ j \notin DOMAIN s
  <2>1. i - Len(s) \in DOMAIN t /\ j - Len(s) \in DOMAIN t
    BY <1>6, <1>2, <1>3
  <2>2. t[i - Len(s)] = t[j - Len(s)]
    BY <1>6, <1>1, <1>2, <1>3
  <2>3. i - Len(s) = j - Len(s)
    BY <2>1, <2>2 DEF IsInjective
  <2> QED BY <2>3, <1>2, <1>3
<1>7. CASE i \in DOMAIN s /\ j \notin DOMAIN s
  <2>1. j - Len(s) \in DOMAIN t /\ s[i] = t[j - Len(s)]
    BY <1>7, <1>1, <1>2, <1>3
  <2> QED BY <1>4, <1>7, <2>1
<1>8. CASE i \notin DOMAIN s /\ j \in DOMAIN s
  <2>1. i - Len(s) \in DOMAIN t /\ s[j] = t[i - Len(s)]
    BY <1>8, <1>1, <1>2, <1>3
  <2> QED BY <1>4, <1>8, <2>1
<1> QED BY <1>5, <1>6, <1>7, <1>8

\* The head of a concatenation is the head of its first part.
LEMMA HeadTailOfConcat ==
    ASSUME NEW S, NEW b \in Seq(S), NEW q \in Seq(S), b # <<>>
    PROVE  /\ b \o q # <<>>
           /\ Head(b \o q) = Head(b)
           /\ Tail(b \o q) = Tail(b) \o q
<1>0. Head(b) \in S /\ Tail(b) \in Seq(S) /\ Len(Tail(b)) = Len(b) - 1
      /\ \A i \in 1..Len(Tail(b)) : Tail(b)[i] = b[i + 1]
  BY HeadTailProperties
<1>1. Len(b) \in Nat \ {0} /\ Len(q) \in Nat
  BY EmptySeq, LenProperties
<1>2. /\ b \o q \in Seq(S)
      /\ Len(b \o q) = Len(b) + Len(q)
      /\ \A i \in 1..(Len(b) + Len(q)) :
            (b \o q)[i] = IF i <= Len(b) THEN b[i] ELSE q[i - Len(b)]
  BY ConcatProperties
<1>3. b \o q # <<>>
  BY <1>1, <1>2, EmptySeq
<1>4. Head(b \o q) = Head(b)
  BY <1>1, <1>2
<1>5. /\ Tail(b \o q) \in Seq(S)
      /\ Len(Tail(b \o q)) = Len(b \o q) - 1
      /\ \A i \in 1..Len(Tail(b \o q)) : Tail(b \o q)[i] = (b \o q)[i + 1]
  BY <1>2, <1>3, HeadTailProperties
<1>6. /\ Tail(b) \o q \in Seq(S)
      /\ Len(Tail(b) \o q) = Len(Tail(b)) + Len(q)
      /\ \A i \in 1..(Len(Tail(b)) + Len(q)) :
            (Tail(b) \o q)[i] = IF i <= Len(Tail(b)) THEN Tail(b)[i]
                                 ELSE q[i - Len(Tail(b))]
  BY <1>0, ConcatProperties
<1>7. Len(Tail(b \o q)) = Len(Tail(b) \o q)
  BY <1>0, <1>1, <1>2, <1>5, <1>6
<1>8. ASSUME NEW i \in 1..Len(Tail(b \o q))
      PROVE  Tail(b \o q)[i] = (Tail(b) \o q)[i]
  <2>1. i \in 1..(Len(b) + Len(q) - 1) /\ i + 1 \in 1..(Len(b) + Len(q))
    BY <1>1, <1>2, <1>5
  <2>2. CASE i <= Len(b) - 1
    BY <2>1, <2>2, <1>0, <1>1, <1>2, <1>5, <1>6
  <2>3. CASE i > Len(b) - 1
    <3>1. Tail(b \o q)[i] = q[(i + 1) - Len(b)]
      BY <2>1, <2>3, <1>1, <1>2, <1>5
    <3>2. (Tail(b) \o q)[i] = q[i - (Len(b) - 1)]
      BY <2>1, <2>3, <1>0, <1>1, <1>6
    <3>3. (i + 1) - Len(b) = i - (Len(b) - 1)
      BY <2>1, <1>1
    <3> QED BY <3>1, <3>2, <3>3
  <2> QED BY <2>1, <2>2, <2>3, <1>1
<1>9. Tail(b \o q) = Tail(b) \o q
  BY <1>5, <1>6, <1>7, <1>8, SeqEqual
<1> QED BY <1>3, <1>4, <1>9

\* A sequence is the prefix of its concatenation with another.
LEMMA PrefixOfConcat ==
    ASSUME NEW S, NEW s \in Seq(S), NEW t \in Seq(S)
    PROVE  SubSeq(s \o t, 1, Len(s)) = s
<1>1. CASE s = <<>>
  BY <1>1, SubSeqEmpty, EmptySeq
<1>2. CASE s # <<>>
  <2>1. Len(s) \in Nat \ {0}
    BY <1>2, EmptySeq
  <2>2. SubSeq(s \o t, 1, Len(s)) = SubSeq(s, 1, Len(s))
    BY <2>1, SubSeqOfConcat1
  <2> QED BY <2>2, SubSeqFull
<1> QED BY <1>1, <1>2

\* The requests of one read are a sequence that is not empty.
LEMMA BatchesAreSequences ==
    ASSUME NEW S \in SUBSET Requests, NEW b \in Batches(S)
    PROVE  b \in Seq(Requests) /\ b # <<>>
<1>1. PICK n \in 1..MaxBatch : b \in [1..n -> S]
  BY DEF Batches
<1>2. n \in Nat /\ n >= 1
  BY <1>1, HandlerAssumption
<1>3. b \in [1..n -> Requests]
  BY <1>1
<1>4. b \in Seq(Requests)
  BY <1>2, <1>3, SeqDef
<1>5. 1 \in DOMAIN b
  BY <1>1, <1>2
<1> QED BY <1>4, <1>5

(***************************************************************************)
(* Types.                                                                  *)
(***************************************************************************)

\* TypeOK is inductive: the worker never serves past the end of its list
\* (base_rpc_interface.cpp:178-190), and every request it serves, answers or
\* throws away is one a peer may send.
THEOREM TypeCorrect == Spec => []TypeOK
<1>1. Init => TypeOK
  <2>1. <<>> \in Seq(Requests) /\ <<>> \in Seq(Registered) /\ <<>> \in Seq(Acked)
    BY EmptySeq
  <2>2. Init => runs \in 0..MaxRuns
    BY HandlerAssumption DEF Init
  <2> QED BY <2>1, <2>2 DEF Init, TypeOK, WorkerPC, TrackerPC, OwnerPC
<1>2. TypeOK /\ [Next]_vars => TypeOK'
  <2> SUFFICES ASSUME TypeOK, [Next]_vars PROVE TypeOK'
    OBVIOUS
  <2> USE DEF TypeOK, WorkerPC, TrackerPC, OwnerPC, threadVars, history
  <2>1. CASE TrackerReceive
    <3>1. PICK b \in Batches(Fresh) : inhand' = b
      BY <2>1 DEF TrackerReceive
    <3>2. inhand' \in Seq(Requests)
      BY <3>1, BatchesAreSequences DEF Fresh
    <3> QED BY <2>1, <3>2 DEF TrackerReceive
  <2>2. CASE TrackerLock
    BY <2>2 DEF TrackerLock
  <2>3. CASE TrackerAppend
    <3>1. /\ queue \o inhand \in Seq(Requests)
          /\ owed \o inhand \in Seq(Requests)
          /\ <<>> \in Seq(Requests)
      BY ConcatProperties, EmptySeq
    <3>2. Signalled \in WorkerPC /\ (Signalled = "handle" => worker = "handle")
      BY DEF Signalled
    <3> QED BY <2>3, <3>1, <3>2 DEF TrackerAppend
  <2>4. CASE WorkerLoop
    BY <2>4 DEF WorkerLoop
  <2>5. CASE WorkerAcquire
    BY <2>5 DEF WorkerAcquire
  <2>6. CASE WorkerSleep
    BY <2>6 DEF WorkerSleep
  <2>7. CASE WorkerTimeout
    BY <2>7 DEF WorkerTimeout
  <2>8. CASE WorkerSpurious
    BY <2>8 DEF WorkerSpurious
  <2>9. CASE WorkerReacquire
    BY <2>9 DEF WorkerReacquire
  <2>10. CASE WorkerExpire
    BY <2>10 DEF WorkerExpire
  <2>11. CASE WorkerIdle
    BY <2>11 DEF WorkerIdle
  <2>12. CASE WorkerTake
    BY <2>12, EmptySeq DEF WorkerTake
  <2>13. CASE WorkerHandle
    <3> DEFINE r == Head(batch)
    <3>1. /\ r \in Requests /\ Tail(batch) \in Seq(Requests)
          /\ Len(Tail(batch)) = Len(batch) - 1
      BY <2>13, HeadTailProperties DEF WorkerHandle
    <3>2. Append(served, r) \in Seq(Requests)
      BY <3>1, AppendProperties
    <3>3. r \in Registered => Append(invoked, r) \in Seq(Registered)
      BY AppendProperties
    <3>4. r \in Acked => Append(acks, r) \in Seq(Acked)
      BY AppendProperties
    <3>5. worker' = "handle" => batch' # <<>>
      <4>1. Len(batch) \in Nat \ {0}
        BY <2>13, EmptySeq DEF WorkerHandle
      <4>2. worker' = "handle" => Len(Tail(batch)) # 0
        BY <2>13, <3>1, <4>1 DEF WorkerHandle
      <4> QED BY <2>13, <4>2, EmptySeq DEF WorkerHandle
    <3> QED BY <2>13, <3>1, <3>2, <3>3, <3>4, <3>5 DEF WorkerHandle
  <2>14. CASE OwnerBegin
    BY <2>14, HandlerAssumption DEF OwnerBegin
  <2>15. CASE OwnerClear
    <3>1. Len(owed) \in Nat /\ Len(queue) \in Nat
      BY LenProperties
    <3>2. \A i \in 1..(Len(owed) - Len(queue)) : owed[i] \in Requests
      BY <3>1, ElementOfSeq
    <3>3. SubSeq(owed, 1, Len(owed) - Len(queue)) \in Seq(Requests)
      BY <3>1, <3>2, SubSeqProperties
    <3> QED BY <2>15, <3>3, EmptySeq DEF OwnerClear
  <2>16. CASE OwnerStart
    BY <2>16 DEF OwnerStart
  <2>17. CASE OwnerStop
    BY <2>17 DEF OwnerStop
  <2>18. CASE OwnerSignal
    <3>1. Signalled \in WorkerPC /\ (Signalled = "handle" => worker = "handle")
      BY DEF Signalled
    <3> QED BY <2>18, <3>1 DEF OwnerSignal
  <2>19. CASE OwnerFlag
    BY <2>19 DEF OwnerFlag
  <2>20. CASE OwnerJoin
    BY <2>20 DEF OwnerJoin
  <2>21. CASE UNCHANGED vars
    BY <2>21 DEF vars
  <2> QED
    BY <2>1, <2>2, <2>3, <2>4, <2>5, <2>6, <2>7, <2>8, <2>9, <2>10, <2>11,
       <2>12, <2>13, <2>14, <2>15, <2>16, <2>17, <2>18, <2>19,
       <2>20, <2>21
    DEF Next, Tracker, Worker, Owner
<1> QED BY <1>1, <1>2, PTL DEF Spec

(***************************************************************************)
(* The mutex of _req_map_cond.                                             *)
(***************************************************************************)

\* Who holds the mutex, and that there is no worker thread before _run has
\* created one: run() cannot start a second one while the first is in a
\* critical section.
Ownership ==
    /\ lock = "worker" <=> worker \in {"locked", "relocked"}
    /\ lock = "tracker" <=> tracker = "append"
    /\ lock = "owner" <=> owner \in {"signal", "flag", "join"}
    /\ ~running /\ owner # "gone" => worker = "none"

THEOREM OwnershipHolds == Spec => []Ownership
<1>1. Init => Ownership
  BY DEF Init, Ownership
<1>2. TypeOK /\ Ownership /\ [Next]_vars => Ownership'
  <2> SUFFICES ASSUME TypeOK, Ownership, [Next]_vars PROVE Ownership'
    OBVIOUS
  <2> USE DEF Ownership, threadVars, history
  <2>1. CASE TrackerReceive
    BY <2>1 DEF TrackerReceive
  <2>2. CASE TrackerLock
    BY <2>2 DEF TrackerLock
  <2>3. CASE TrackerAppend
    BY <2>3 DEF TrackerAppend, Signalled
  <2>4. CASE WorkerLoop
    BY <2>4 DEF WorkerLoop
  <2>5. CASE WorkerAcquire
    BY <2>5 DEF WorkerAcquire
  <2>6. CASE WorkerSleep
    BY <2>6 DEF WorkerSleep
  <2>7. CASE WorkerTimeout
    BY <2>7 DEF WorkerTimeout
  <2>8. CASE WorkerSpurious
    BY <2>8 DEF WorkerSpurious
  <2>9. CASE WorkerReacquire
    BY <2>9 DEF WorkerReacquire
  <2>10. CASE WorkerExpire
    BY <2>10 DEF WorkerExpire
  <2>11. CASE WorkerIdle
    BY <2>11 DEF WorkerIdle
  <2>12. CASE WorkerTake
    BY <2>12 DEF WorkerTake
  <2>13. CASE WorkerHandle
    BY <2>13 DEF WorkerHandle
  <2>14. CASE OwnerBegin
    BY <2>14 DEF OwnerBegin
  <2>15. CASE OwnerClear
    BY <2>15 DEF OwnerClear
  <2>16. CASE OwnerStart
    BY <2>16 DEF OwnerStart
  <2>17. CASE OwnerStop
    BY <2>17 DEF OwnerStop
  <2>18. CASE OwnerSignal
    BY <2>18 DEF OwnerSignal, Signalled
  <2>19. CASE OwnerFlag
    BY <2>19 DEF OwnerFlag
  <2>20. CASE OwnerJoin
    BY <2>20 DEF OwnerJoin
  <2>21. CASE UNCHANGED vars
    BY <2>21 DEF vars
  <2> QED
    BY <2>1, <2>2, <2>3, <2>4, <2>5, <2>6, <2>7, <2>8, <2>9, <2>10,
       <2>11, <2>12, <2>13, <2>14, <2>15, <2>16, <2>17, <2>18, <2>19,
       <2>20, <2>21
    DEF Next, Tracker, Worker, Owner
<1> QED BY <1>1, <1>2, TypeCorrect, PTL DEF Spec

(***************************************************************************)
(* No request is lost, duplicated or overtaken.                            *)
(***************************************************************************)

\* Conservation is not inductive: WorkerTake overwrites the worker's list, so
\* the list must be empty whenever the worker is not serving.
QueueInv ==
    /\ Conservation
    /\ worker # "handle" => batch = <<>>

LEMMA QueueInvStep ==
    TypeOK /\ Ownership /\ QueueInv /\ [Next]_vars => QueueInv'
<1> SUFFICES ASSUME TypeOK, Ownership, QueueInv, [Next]_vars PROVE QueueInv'
  OBVIOUS
<1> USE DEF QueueInv, Conservation, threadVars, history
<1>0. /\ queue \in Seq(Requests) /\ batch \in Seq(Requests)
      /\ inhand \in Seq(Requests) /\ served \in Seq(Requests)
      /\ served \o batch \in Seq(Requests)
  BY ConcatProperties DEF TypeOK
<1>1. CASE TrackerReceive
  BY <1>1 DEF TrackerReceive
<1>2. CASE TrackerLock
  BY <1>2 DEF TrackerLock
<1>3. CASE TrackerAppend
  <2>0. \A s, t, u \in Seq(Requests) : (s \o t) \o u = s \o (t \o u)
    BY ConcatAssociative
  <2>1. (served \o batch \o queue) \o inhand
          = (served \o batch) \o (queue \o inhand)
    BY <1>0, <2>0
  <2>2. owed' = served' \o batch' \o queue'
    BY <1>3, <2>1 DEF TrackerAppend
  <2>3. worker' # "handle" => batch' = <<>>
    BY <1>3 DEF TrackerAppend, Signalled
  <2> QED BY <2>2, <2>3
<1>4. CASE WorkerLoop
  BY <1>4 DEF WorkerLoop
<1>5. CASE WorkerAcquire
  BY <1>5 DEF WorkerAcquire
<1>6. CASE WorkerSleep
  BY <1>6 DEF WorkerSleep
<1>7. CASE WorkerTimeout
  BY <1>7 DEF WorkerTimeout
<1>8. CASE WorkerSpurious
  BY <1>8 DEF WorkerSpurious
<1>9. CASE WorkerReacquire
  BY <1>9 DEF WorkerReacquire
<1>10. CASE WorkerExpire
  BY <1>10 DEF WorkerExpire
<1>11. CASE WorkerIdle
  BY <1>11 DEF WorkerIdle
<1>12. CASE WorkerTake
  <2>1. served \o queue = (served \o queue) \o <<>>
    BY <1>0, ConcatProperties, ConcatEmptySeq
  <2>2. batch = <<>> /\ served \o batch = served
    BY <1>12, <1>0, ConcatEmptySeq DEF WorkerTake
  <2> QED BY <1>12, <2>1, <2>2 DEF WorkerTake
<1>13. CASE WorkerHandle
  <2>1. Append(served, Head(batch)) \o Tail(batch) = served \o batch
    BY <1>13, <1>0, MoveHead DEF WorkerHandle
  <2>2. owed' = served' \o batch' \o queue'
    BY <1>13, <2>1 DEF WorkerHandle
  <2>3. Len(batch) = 1 => Tail(batch) = <<>>
    BY <1>0, TailOfOne
  <2> QED BY <1>13, <2>2, <2>3 DEF WorkerHandle
<1>14. CASE OwnerBegin
  BY <1>14 DEF OwnerBegin
<1>15. CASE OwnerClear
  <2>1. Len(owed) - Len(queue) = Len(served \o batch)
    BY <1>0, ConcatProperties, LenProperties
  <2>2. SubSeq(owed, 1, Len(owed) - Len(queue)) = served \o batch
    BY <1>0, <2>1, PrefixOfConcat
  <2>3. (served \o batch) \o <<>> = served \o batch
    BY <1>0, ConcatEmptySeq
  <2> QED BY <1>15, <2>2, <2>3 DEF OwnerClear
<1>16. CASE OwnerStart
  BY <1>16 DEF OwnerStart, Ownership
<1>17. CASE OwnerStop
  BY <1>17 DEF OwnerStop
<1>18. CASE OwnerSignal
  BY <1>18 DEF OwnerSignal, Signalled
<1>19. CASE OwnerFlag
  BY <1>19 DEF OwnerFlag
<1>20. CASE OwnerJoin
  BY <1>20 DEF OwnerJoin
<1>21. CASE UNCHANGED vars
  BY <1>21 DEF vars
<1> QED
  BY <1>1, <1>2, <1>3, <1>4, <1>5, <1>6, <1>7, <1>8, <1>9, <1>10,
     <1>11, <1>12, <1>13, <1>14, <1>15, <1>16, <1>17, <1>18, <1>19,
     <1>20, <1>21
  DEF Next, Tracker, Worker, Owner

THEOREM RequestsConserved == Spec => []Conservation
<1>1. Init => QueueInv
  <2>1. <<>> = <<>> \o <<>> \o <<>>
    BY EmptySeq, ConcatEmptySeq
  <2> QED BY <2>1 DEF Init, QueueInv, Conservation
<1>2. QueueInv => Conservation
  BY DEF QueueInv
<1> QED BY <1>1, <1>2, QueueInvStep, TypeCorrect, OwnershipHolds, PTL DEF Spec

(***************************************************************************)
(* run() clears the queue without the lock.  That is no race the first     *)
(* time a client connects: nobody else is there yet.                       *)
(***************************************************************************)

\* Until run() has created the worker and start_connect has asked for data,
\* the owner is alone.
FirstRun ==
    /\ runs = 0 => /\ owner \notin {"clear", "start"} /\ worker = "none"
                   /\ tracker = "idle" /\ ~receiving
    /\ owner = "clear" => worker = "none" /\ tracker = "idle" /\ ~receiving

THEOREM FirstRunRaceFree ==
    ASSUME MaxRuns <= 1, ~ListenFirst
    PROVE  Spec => []RaceFree
<1>1. Init => FirstRun
  BY DEF Init, FirstRun
<1>2. TypeOK /\ Ownership /\ FirstRun /\ [Next]_vars => FirstRun'
  <2> SUFFICES ASSUME TypeOK, Ownership, FirstRun, [Next]_vars PROVE FirstRun'
    OBVIOUS
  <2> USE DEF FirstRun, threadVars, history
  <2>1. CASE TrackerReceive
    BY <2>1 DEF TrackerReceive
  <2>2. CASE TrackerLock
    BY <2>2 DEF TrackerLock
  <2>3. CASE TrackerAppend
    BY <2>3 DEF TrackerAppend, Signalled
  <2>4. CASE WorkerLoop
    BY <2>4 DEF WorkerLoop
  <2>5. CASE WorkerAcquire
    BY <2>5 DEF WorkerAcquire
  <2>6. CASE WorkerSleep
    BY <2>6 DEF WorkerSleep
  <2>7. CASE WorkerTimeout
    BY <2>7 DEF WorkerTimeout
  <2>8. CASE WorkerSpurious
    BY <2>8 DEF WorkerSpurious
  <2>9. CASE WorkerReacquire
    BY <2>9 DEF WorkerReacquire
  <2>10. CASE WorkerExpire
    BY <2>10 DEF WorkerExpire
  <2>11. CASE WorkerIdle
    BY <2>11 DEF WorkerIdle
  <2>12. CASE WorkerTake
    BY <2>12 DEF WorkerTake
  <2>13. CASE WorkerHandle
    BY <2>13 DEF WorkerHandle
  <2>14. CASE OwnerBegin
    <3>1. runs = 0
      BY <2>14, HandlerAssumption DEF OwnerBegin, TypeOK
    <3> QED BY <2>14, <3>1 DEF OwnerBegin, TypeOK
  <2>15. CASE OwnerClear
    BY <2>15 DEF OwnerClear
  <2>16. CASE OwnerStart
    <3>1. runs # 0 /\ runs' = runs /\ owner' = "idle"
      BY <2>16 DEF OwnerStart
    <3> QED BY <3>1
  <2>17. CASE OwnerStop
    BY <2>17 DEF OwnerStop
  <2>18. CASE OwnerSignal
    BY <2>18 DEF OwnerSignal, Signalled
  <2>19. CASE OwnerFlag
    BY <2>19 DEF OwnerFlag
  <2>20. CASE OwnerJoin
    BY <2>20 DEF OwnerJoin
  <2>21. CASE UNCHANGED vars
    BY <2>21 DEF vars
  <2> QED
    BY <2>1, <2>2, <2>3, <2>4, <2>5, <2>6, <2>7, <2>8, <2>9, <2>10,
       <2>11, <2>12, <2>13, <2>14, <2>15, <2>16, <2>17, <2>18, <2>19,
       <2>20, <2>21
    DEF Next, Tracker, Worker, Owner
<1>3. Ownership /\ FirstRun => RaceFree
  BY DEF Ownership, FirstRun, RaceFree, Accessing
<1> QED BY <1>1, <1>2, <1>3, TypeCorrect, OwnershipHolds, PTL DEF Spec

(***************************************************************************)
(* The handler implements the abstract pipe.                               *)
(***************************************************************************)

\* No request is twice among those pushed and those about to be.
Unique ==
    /\ IsInjective(owed) /\ IsInjective(inhand)
    /\ Range(owed) \cap Range(inhand) = {}

LEMMA UniqueStep ==
    TypeOK /\ QueueInv /\ Unique /\ [Next]_vars => Unique'
<1> SUFFICES ASSUME TypeOK, QueueInv, Unique, [Next]_vars PROVE Unique'
  OBVIOUS
<1> USE DEF Unique, threadVars, history
<1>0. /\ queue \in Seq(Requests) /\ inhand \in Seq(Requests)
      /\ owed \in Seq(Requests) /\ served \o batch \in Seq(Requests)
  BY ConcatProperties DEF TypeOK
<1>1. CASE TrackerReceive
  <2>1. inhand' \in Batches(Fresh) /\ owed' = owed
    BY <1>1 DEF TrackerReceive
  <2>2. IsInjective(inhand') /\ Range(inhand') \subseteq Fresh
    BY <2>1 DEF Batches, Range
  <2>3. Range(owed') \cap Range(inhand') = {}
    BY <2>1, <2>2 DEF Fresh
  <2> QED BY <2>1, <2>2, <2>3
<1>2. CASE TrackerAppend
  <2>1. owed' = owed \o inhand /\ inhand' = <<>>
    BY <1>2 DEF TrackerAppend
  <2>2. IsInjective(owed')
    BY <1>0, <2>1, ConcatInjective
  <2>3. IsInjective(inhand') /\ Range(inhand') = {}
    BY <2>1 DEF IsInjective, Range
  <2> QED BY <2>2, <2>3
<1>3. CASE OwnerClear
  <2>1. owed = (served \o batch) \o queue
    BY DEF QueueInv, Conservation
  <2>2. Len(owed) - Len(queue) = Len(served \o batch)
    BY <1>0, <2>1, ConcatProperties, LenProperties
  <2>3. owed' = served \o batch /\ inhand' = inhand
    BY <1>0, <1>3, <2>1, <2>2, PrefixOfConcat DEF OwnerClear
  <2>4. IsInjective(owed') /\ Range(owed') \subseteq Range(owed)
    BY <1>0, <2>1, <2>3, PrefixInjective
  <2> QED BY <2>3, <2>4
<1>4. CASE UNCHANGED <<owed, inhand>>
  BY <1>4
<1> QED
  BY <1>1, <1>2, <1>3, <1>4
  DEF Next, Tracker, Worker, Owner, vars, TrackerLock, WorkerLoop,
      WorkerAcquire, WorkerSleep, WorkerTimeout, WorkerSpurious,
      WorkerReacquire, WorkerExpire, WorkerIdle, WorkerTake, WorkerHandle,
      OwnerBegin, OwnerStart, OwnerStop, OwnerSignal, OwnerFlag, OwnerJoin

\* Every step of the three threads is a step of the pipe or leaves it alone:
\* pushing is Submit, serving is Serve, run() is the Reset that keeps what the
\* worker already holds, and handing the queue to the worker is invisible.
THEOREM HandlerImplementsPipe == Spec => ImplementsPipe
<1>1. Init => Pipe!Init
  <2>1. <<>> \o <<>> = <<>>
    BY EmptySeq, ConcatEmptySeq
  <2> QED BY <2>1 DEF Init, Pipe!Init
<1>2. TypeOK /\ QueueInv /\ QueueInv' /\ Unique' /\ [Next]_vars
         => [Pipe!Next]_(Pipe!pipeVars)
  <2> SUFFICES ASSUME TypeOK, QueueInv, QueueInv', Unique', [Next]_vars
               PROVE  \/ Pipe!Next
                      \/ batch' \o queue' = batch \o queue /\ served' = served
    BY DEF Pipe!pipeVars
  <2> USE DEF threadVars, history
  <2>0. /\ queue \in Seq(Requests) /\ batch \in Seq(Requests)
        /\ inhand \in Seq(Requests) /\ batch \o queue \in Seq(Requests)
    BY ConcatProperties DEF TypeOK
  <2>1. CASE TrackerReceive
    BY <2>1 DEF TrackerReceive
  <2>2. CASE TrackerLock
    BY <2>2 DEF TrackerLock
  <2>3. CASE TrackerAppend
    <3> DEFINE before == batch \o queue
               after  == before \o inhand
    <3>1. \A s, t, u \in Seq(Requests) : (s \o t) \o u = s \o (t \o u)
      BY ConcatAssociative
    <3>2. batch' \o queue' = after /\ served' = served
      BY <2>3, <2>0, <3>1 DEF TrackerAppend
    <3>3. /\ after \in Seq(Requests)
          /\ Len(before) <= Len(after)
          /\ SubSeq(after, 1, Len(before)) = before
      BY <2>0, ConcatProperties, LenProperties, PrefixOfConcat
    <3>4. owed' = served \o after
      <4>1. owed' = (served' \o batch') \o queue'
        BY DEF QueueInv, Conservation
      <4>2. served \in Seq(Requests)
        BY DEF TypeOK
      <4>3. batch' = batch /\ queue' = queue \o inhand /\ served' = served
        BY <2>3 DEF TrackerAppend
      <4>4. queue \o inhand \in Seq(Requests)
        BY <2>0, ConcatProperties
      <4>5. (served \o batch) \o (queue \o inhand)
              = served \o (batch \o (queue \o inhand))
        BY <2>0, <3>1, <4>2, <4>4
      <4>6. batch \o (queue \o inhand) = (batch \o queue) \o inhand
        BY <2>0, <3>1
      <4> QED BY <4>1, <4>3, <4>5, <4>6
    <3>5. IsInjective(served \o after)
      BY <3>4 DEF Unique
    <3>6. Pipe!Submit
      BY <3>2, <3>3, <3>5 DEF Pipe!Submit, Pipe!IsInjective, IsInjective
    <3> QED BY <3>6 DEF Pipe!Next
  <2>4. CASE WorkerLoop
    BY <2>4 DEF WorkerLoop
  <2>5. CASE WorkerAcquire
    BY <2>5 DEF WorkerAcquire
  <2>6. CASE WorkerSleep
    BY <2>6 DEF WorkerSleep
  <2>7. CASE WorkerTimeout
    BY <2>7 DEF WorkerTimeout
  <2>8. CASE WorkerSpurious
    BY <2>8 DEF WorkerSpurious
  <2>9. CASE WorkerReacquire
    BY <2>9 DEF WorkerReacquire
  <2>10. CASE WorkerExpire
    BY <2>10 DEF WorkerExpire
  <2>11. CASE WorkerIdle
    BY <2>11 DEF WorkerIdle
  <2>12. CASE WorkerTake
    <3>1. batch = <<>>
      BY <2>12 DEF WorkerTake, QueueInv
    <3>2. queue \o <<>> = queue /\ <<>> \o queue = queue
      BY <2>0, ConcatEmptySeq
    <3> QED BY <2>12, <3>1, <3>2 DEF WorkerTake
  <2>13. CASE WorkerHandle
    <3>1. batch # <<>> /\ queue' = queue
      BY <2>13 DEF WorkerHandle
    <3>2. /\ batch \o queue # <<>>
          /\ Head(batch \o queue) = Head(batch)
          /\ Tail(batch \o queue) = Tail(batch) \o queue
      BY <2>0, <3>1, HeadTailOfConcat
    <3>3. Pipe!Serve
      BY <2>13, <3>1, <3>2 DEF WorkerHandle, Pipe!Serve
    <3> QED BY <3>3 DEF Pipe!Next
  <2>14. CASE OwnerBegin
    BY <2>14 DEF OwnerBegin
  <2>15. CASE OwnerClear
    <3>1. /\ batch' \o queue' = batch /\ served' = served
      BY <2>15, <2>0, ConcatEmptySeq DEF OwnerClear
    <3>2. SubSeq(batch \o queue, 1, Len(batch)) = batch
      BY <2>0, PrefixOfConcat
    <3>3. Len(batch) \in 0..Len(batch \o queue)
      BY <2>0, ConcatProperties, LenProperties
    <3>4. Pipe!Reset(Len(batch))
      BY <3>1, <3>2 DEF Pipe!Reset
    <3> QED BY <3>3, <3>4 DEF Pipe!Next
  <2>16. CASE OwnerStart
    BY <2>16 DEF OwnerStart
  <2>17. CASE OwnerStop
    BY <2>17 DEF OwnerStop
  <2>18. CASE OwnerSignal
    BY <2>18 DEF OwnerSignal
  <2>19. CASE OwnerFlag
    BY <2>19 DEF OwnerFlag
  <2>20. CASE OwnerJoin
    BY <2>20 DEF OwnerJoin
  <2>21. CASE UNCHANGED vars
    BY <2>21 DEF vars
  <2> QED
    BY <2>1, <2>2, <2>3, <2>4, <2>5, <2>6, <2>7, <2>8, <2>9, <2>10,
       <2>11, <2>12, <2>13, <2>14, <2>15, <2>16, <2>17, <2>18, <2>19,
       <2>20, <2>21
    DEF Next, Tracker, Worker, Owner
<1>3. Init => QueueInv /\ Unique
  <2>1. <<>> = <<>> \o <<>> \o <<>>
    BY EmptySeq, ConcatEmptySeq
  <2>2. IsInjective(<<>>) /\ Range(<<>>) = {}
    BY DEF IsInjective, Range
  <2> QED BY <2>1, <2>2 DEF Init, QueueInv, Conservation, Unique
<1> QED
  BY <1>1, <1>2, <1>3, QueueInvStep, UniqueStep, TypeCorrect, OwnershipHolds,
     PTL
  DEF Spec, ImplementsPipe, Pipe!Spec

=============================================================================
