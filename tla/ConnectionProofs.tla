--------------------------- MODULE ConnectionProofs --------------------------
(***************************************************************************)
(* The composition keeps what its parts promise: the requests of a read    *)
(* are what RpcHandler takes for granted of them, new and each of its own, *)
(* for any messages, cut into reads of any size.                           *)
(***************************************************************************)
EXTENDS Connection, FramingProofs

\* Only the first line of a read can be the end of a message, and only if the
\* read is not the first one; and there are no more lines than bytes.
LinesInv ==
    Dividing =>
        /\ pos <= from + MaxRead /\ from < pos
        /\ from + Len(values) <= at
        /\ pc = "deliver" => values # <<>>
        /\ values # <<>> => \E i \in 0..N : at = End[i]
        /\ \A k \in 1..Len(values) : values[k] \notin Messages => k = 1 /\ from > 0

LEMMA LinesInvHolds == Spec => []LinesInv
<1>1. Init => LinesInv
  BY DEF Init, LinesInv, Dividing
<1>2. ReadInv /\ FoundInv /\ OrderInv /\ LinesInv /\ [Next]_vars => LinesInv'
  <2> SUFFICES ASSUME ReadInv, FoundInv, OrderInv, LinesInv, [Next]_vars, Dividing'
               PROVE  LinesInv'
    BY DEF LinesInv
  <2>0. /\ from \in Nat /\ pos \in Nat /\ at \in Nat /\ MaxRead \in Nat
        /\ values \in Seq(Messages \cup {Junk, NotObject})
    BY EndFacts, FramingAssumption DEF ReadInv, TypeOK
  <2>1. CASE Read
    <3>1. PICK n \in 1..MaxRead : pos' = pos + n
      BY <2>1 DEF Read
    <3>2. /\ n \in Nat /\ n >= 1 /\ n <= MaxRead
          /\ from' = pos /\ at' = pos /\ values' = <<>> /\ pc' = "divide"
      BY <2>0, <2>1, <3>1 DEF Read, ReadInv, NoResidue
    <3> QED BY <2>0, <3>1, <3>2 DEF LinesInv
  <2>2. CASE DivideNoEnd \/ DivideEmpty \/ DivideBadJson \/ Deliver
    BY <2>2 DEF DivideNoEnd, DivideEmpty, DivideBadJson, Deliver, Fail, Dividing
  <2>3. CASE DivideLine
    <3>a. PICK m \in Messages :
             /\ Holds(m) /\ at < End[m] - 1 /\ at' = End[m]
             /\ \E v \in IF at = End[m - 1] THEN {m} ELSE {Junk, NotObject} :
                   values' = Append(values, v)
      BY <2>3 DEF DivideLine
    <3>1. PICK v \in IF at = End[m - 1] THEN {m} ELSE {Junk, NotObject} :
             values' = Append(values, v)
      BY <3>a
    <3>2. /\ Holds(m) /\ at < End[m] - 1 /\ at' = End[m]
          /\ m \in 0..N /\ m - 1 \in 0..N /\ End[m] \in Nat /\ End[m - 1] \in Nat
      BY <3>a, EndFacts
    <3>3. UNCHANGED <<from, pos>> /\ Dividing
      BY <2>3 DEF DivideLine, Dividing
    <3>4. /\ Len(values) \in Nat /\ Len(values') = Len(values) + 1
          /\ \A k \in 1..Len(values) : values'[k] = values[k]
          /\ values'[Len(values) + 1] = v
      <4>1. v \in Messages \cup {Junk, NotObject}
        BY <3>1
      <4> QED BY <2>0, <3>1, <4>1, AppendProperties, LenProperties
    <3>5. ASSUME v \notin Messages PROVE Len(values) = 0 /\ from > 0
      <4>1. at # End[m - 1]
        BY <3>1, <3>5
      <4>2. ~\E i \in 0..N : at = End[i]
        <5> SUFFICES ASSUME NEW i \in 0..N, at = End[i] PROVE FALSE
          OBVIOUS
        <5>1. End[m - 1] < End[i] /\ End[i] < End[m]
          BY <2>0, <3>2, <4>1 DEF Holds
        <5>2. ~(i <= m - 1) /\ ~(m <= i)
          BY <3>2, <5>1, EndFacts
        <5> QED BY <3>2, <5>2, FramingAssumption
      <4>3. values = <<>> /\ at = from
        BY <3>3, <4>2 DEF LinesInv, FoundInv
      <4>4. at > 0
        BY <2>0, <3>2, <4>1 DEF Holds
      <4> QED BY <2>0, <3>4, <4>3, <4>4
    <3>6. from + Len(values') <= at'
      <4>1. from + Len(values) <= at
        BY <3>3 DEF LinesInv
      <4> QED BY <2>0, <3>2, <3>4, <4>1
    <3>7. pos <= from + MaxRead /\ from < pos
      BY <3>3 DEF LinesInv
    <3>8. values' # <<>> /\ \E i \in 0..N : at' = End[i]
      <4>1. Len(values') # 0
        BY <3>4
      <4> QED BY <3>2, <4>1
    <3>9. ASSUME NEW k \in 1..Len(values'), values'[k] \notin Messages
          PROVE  k = 1 /\ from > 0
      <4>1. CASE k <= Len(values)
        <5>1. k \in 1..Len(values) /\ values[k] \notin Messages
          BY <3>4, <3>9, <4>1
        <5> QED BY <3>3, <5>1 DEF LinesInv
      <4>2. CASE k = Len(values) + 1
        <5>1. v \notin Messages
          BY <3>4, <3>9, <4>2
        <5> QED BY <3>5, <4>2, <5>1
      <4> QED BY <3>4, <4>1, <4>2
    <3> QED BY <3>3, <3>6, <3>7, <3>8, <3>9 DEF LinesInv
  <2>4. CASE UNCHANGED vars
    BY <2>4 DEF vars, LinesInv, Dividing
  <2> QED BY <2>1, <2>2, <2>3, <2>4 DEF Next
<1> QED BY <1>1, <1>2, ReadInvHolds, FoundInvHolds, OrderInvHolds, PTL DEF Spec

\* r was read before position p.
Old(r, p) == IF r \in Messages THEN End[r] <= p ELSE -r < p

\* Where the read that is being divided begins, or the last one ended.
Behindhand == IF Dividing THEN from ELSE pos

\* The tracker pushes what it has before it reads on; the handler knows
\* nothing that is still to be found.
PushedInv ==
    /\ owed \in Seq(Requests) /\ queue \in Seq(Requests) /\ inhand \in Seq(Requests)
    /\ tracker = "idle" => inhand = <<>>
    /\ pc # "read" => tracker = "idle"
    /\ Dividing => receiving
    /\ \A i \in 1..Len(owed) : Old(owed[i], Behindhand)
    /\ \A i \in 1..Len(inhand) : Old(inhand[i], Behindhand)

\* What was pushed is in order, and what is about to be comes behind it.
OrderedInv ==
    /\ Sorted(owed) /\ Sorted(inhand)
    /\ \A i \in 1..Len(owed), j \in 1..Len(inhand) :
          owed[i] \in Messages /\ inhand[j] \in Messages => owed[i] < inhand[j]

ValueOf(r) == IF r \in Messages THEN r ELSE Junk

\* What a client received waits, is served or about to be pushed.
Accounted ==
    /\ Len(delivered) = Len(owed) + Len(inhand)
    /\ \A i \in 1..Len(owed) : delivered[i] = ValueOf(owed[i])
    /\ \A i \in 1..Len(inhand) : delivered[Len(owed) + i] = ValueOf(inhand[i])

\* Until its one call of run() has cleared the list, a client received nothing;
\* from then on all that was delivered was pushed or is about to be.
FlowInv ==
    ~ListenFirst =>
        /\ runs = 0 => owner \notin {"clear", "start"}
        /\ runs = 0 \/ owner = "clear" =>
              /\ ~receiving /\ tracker = "idle" /\ queue = <<>> /\ owed = <<>>
        /\ Accounted

LEMMA FramingPart == ConnectionSpec => Spec
<1>1. ConnectionInit => Init
  BY DEF ConnectionInit
<1>2. [ConnectionNext]_connectionVars => [Next]_vars
  BY DEF ConnectionNext, Receive, Divide, Push, Parsed, Handle, Next, connectionVars
<1> QED BY <1>1, <1>2, PTL DEF ConnectionSpec, Spec

ReadsInv == ReadInv /\ FoundInv /\ OrderInv /\ LinesInv

LEMMA ReadsInvHolds == ConnectionSpec => []ReadsInv
BY FramingPart, ReadInvHolds, FoundInvHolds, OrderInvHolds, LinesInvHolds, PTL DEF ReadsInv

-----------------------------------------------------------------------------
(* What the handler is given.                                              *)

LEMMA OldLater ==
    ASSUME NEW r \in Requests, NEW p \in Nat, NEW q \in Nat, p <= q, Old(r, p)
    PROVE  Old(r, q)
<1>1. r \in Messages => End[r] \in Nat
  BY EndFacts
<1>2. r \notin Messages => -r \in Nat
  BY EndFacts, FramingAssumption DEF Requests
<1> QED BY <1>1, <1>2 DEF Old

Pushed == [i \in 1..Len(values) |-> RequestOf(values[i])]

\* A request of a read is new: it lies behind all the handler was given.
LEMMA PushedLaw ==
    ASSUME ReadsInv, pc = "deliver", \A i \in 1..Len(values) : values[i] # NotObject
    PROVE  /\ Len(values) \in 1..MaxRead
           /\ Pushed \in Seq(Requests) /\ Len(Pushed) = Len(values)
           /\ \A i \in 1..Len(values) :
                 /\ Pushed[i] = RequestOf(values[i])
                 /\ values[i] = ValueOf(Pushed[i])
                 /\ Pushed[i] \in Messages <=> values[i] \in Messages
                 /\ Old(Pushed[i], pos) /\ ~Old(Pushed[i], from)
           /\ \A i, j \in 1..Len(values) : Pushed[i] = Pushed[j] => i = j
           /\ Sorted(Pushed)
<1>1. /\ from \in Nat /\ pos \in Nat /\ at = pos /\ pos <= End[N] /\ End[N] \in Nat
      /\ MaxRead \in Nat /\ values \in Seq(Messages \cup {Junk, NotObject})
      /\ Dividing
  BY EndFacts, FramingAssumption DEF ReadsInv, ReadInv, TypeOK, Dividing
<1>2. /\ pos <= from + MaxRead /\ from < pos /\ from + Len(values) <= pos /\ values # <<>>
      /\ \A k \in 1..Len(values) : values[k] \notin Messages => k = 1 /\ from > 0
  BY <1>1 DEF ReadsInv, LinesInv
<1>3. Sorted(values) /\ Behind(values, from) /\ Before(values, pos)
  BY <1>1 DEF ReadsInv, OrderInv
<1>4. Len(values) \in 1..MaxRead
  <2>1. Len(values) \in Nat /\ Len(values) # 0
    BY <1>1, <1>2, EmptySeq, LenProperties
  <2> QED BY <1>1, <1>2, <2>1
<1>5. ASSUME NEW i \in 1..Len(values)
      PROVE  \/ values[i] \in Messages /\ RequestOf(values[i]) = values[i]
             \/ values[i] = Junk /\ RequestOf(values[i]) = -from
                /\ -from \notin Messages /\ i = 1 /\ from > 0
  <2>1. values[i] \in Messages \cup {Junk} /\ Junk \notin Messages
    BY <1>1, ElementOfSeq, FramingAssumption DEF Messages, Junk
  <2>2. values[i] \notin Messages => -from \notin Messages /\ i = 1 /\ from > 0
    BY <1>1, <1>2, FramingAssumption DEF Messages
  <2> QED BY <2>1, <2>2 DEF RequestOf
<1>6. ASSUME NEW i \in 1..Len(values)
      PROVE  /\ RequestOf(values[i]) \in Requests
             /\ values[i] = ValueOf(RequestOf(values[i]))
             /\ RequestOf(values[i]) \in Messages <=> values[i] \in Messages
  <2>1. from > 0 => -from \in Requests
    <3>1. from > 0 => from \in 1..End[N]
      BY <1>1, <1>2
    <3> QED BY <3>1 DEF Requests
  <2> QED BY <1>5, <2>1, FramingAssumption DEF Requests, ValueOf, Messages, Junk
<1>7. ASSUME NEW i \in 1..Len(values)
      PROVE  Old(RequestOf(values[i]), pos) /\ ~Old(RequestOf(values[i]), from)
  <2>1. CASE values[i] \in Messages
    <3>1. /\ End[values[i]] <= pos /\ from <= End[values[i] - 1]
          /\ End[values[i] - 1] \in Nat /\ End[values[i]] \in Nat
          /\ End[values[i] - 1] + 2 <= End[values[i]]
      BY <1>3, <2>1, EndFacts DEF Before, Behind
    <3>2. ~(End[values[i]] <= from)
      BY <1>1, <3>1
    <3> QED BY <1>5, <1>6, <2>1, <3>1, <3>2 DEF Old
  <2>2. CASE values[i] \notin Messages
    <3>1. RequestOf(values[i]) = -from /\ -from \notin Messages /\ -(-from) = from
      BY <1>1, <1>5, <2>2
    <3> QED BY <1>1, <1>2, <3>1 DEF Old
  <2> QED BY <2>1, <2>2
<1>8. /\ Pushed \in Seq(Requests) /\ Len(Pushed) = Len(values)
      /\ \A i \in 1..Len(values) : Pushed[i] = RequestOf(values[i])
  <2>1. Pushed \in [1..Len(values) -> Requests]
    BY <1>6 DEF Pushed
  <2>2. Len(values) \in Nat
    BY <1>1, LenProperties
  <2>3. Pushed \in Seq(Requests)
    BY <2>1, <2>2, SeqDef
  <2> QED BY <2>2, <2>3 DEF Pushed
<1>9. ASSUME NEW i \in 1..Len(values), NEW j \in 1..Len(values), Pushed[i] = Pushed[j]
      PROVE  i = j
  <2>1. RequestOf(values[i]) = RequestOf(values[j])
    BY <1>8, <1>9
  <2>2. CASE values[i] \in Messages
    <3>1. values[j] \in Messages /\ values[i] = values[j] /\ values[i] \in Nat
      BY <1>5, <2>1, <2>2, EndFacts
    <3>2. ~(i < j) /\ ~(j < i)
      BY <1>3, <3>1 DEF Sorted
    <3> QED BY <1>1, <3>2
  <2>3. CASE values[i] \notin Messages
    BY <1>5, <2>1, <2>3
  <2> QED BY <2>2, <2>3
<1>10. Sorted(Pushed)
  <2> SUFFICES ASSUME NEW x \in 1..Len(values), NEW y \in 1..Len(values), x < y,
                      Pushed[x] \in Messages, Pushed[y] \in Messages
               PROVE  Pushed[x] < Pushed[y]
    BY <1>8 DEF Sorted
  <2>1. /\ values[x] \in Messages /\ Pushed[x] = values[x]
        /\ values[y] \in Messages /\ Pushed[y] = values[y]
    BY <1>5, <1>8
  <2> QED BY <1>3, <2>1 DEF Sorted
<1> QED BY <1>4, <1>6, <1>7, <1>8, <1>9, <1>10

\* Of the handler's steps only run() and the push change what it was given.
LEMMA HandleLaw ==
    ASSUME Handle
    PROVE  /\ UNCHANGED vars /\ pc # "aborted"
           /\ \/ UNCHANGED <<owed, inhand, tracker>> /\ (queue' = queue \/ queue' = <<>>)
                 /\ ((receiving => receiving') \/ pc = "read")
              \/ Handler!TrackerLock /\ UNCHANGED <<owed, inhand, queue, receiving>>
              \/ Handler!TrackerAppend /\ UNCHANGED receiving
              \/ Handler!OwnerClear /\ UNCHANGED <<inhand, tracker, receiving>>
<1>1. UNCHANGED vars /\ pc # "aborted"
  BY DEF Handle
<1>2. CASE Handler!TrackerLock \/ Handler!TrackerAppend \/ Handler!OwnerClear
  BY <1>1, <1>2 DEF Handler!TrackerLock, Handler!TrackerAppend, Handler!OwnerClear,
                    Handler!threadVars, Handler!history
<1>3. CASE Handler!Worker
  <2>1. CASE Handler!WorkerLoop \/ Handler!WorkerAcquire \/ Handler!WorkerSleep
    BY <1>1, <2>1 DEF Handler!WorkerLoop, Handler!WorkerAcquire, Handler!WorkerSleep,
                      Handler!threadVars, Handler!history
  <2>2. CASE \/ Handler!WorkerTimeout \/ Handler!WorkerSpurious
             \/ Handler!WorkerReacquire \/ Handler!WorkerExpire \/ Handler!WorkerIdle
    BY <1>1, <2>2 DEF Handler!WorkerTimeout, Handler!WorkerSpurious,
                      Handler!WorkerReacquire, Handler!WorkerExpire, Handler!WorkerIdle,
                      Handler!threadVars, Handler!history
  <2>3. CASE Handler!WorkerTake
    BY <1>1, <2>3 DEF Handler!WorkerTake, Handler!threadVars, Handler!history
  <2>4. CASE Handler!WorkerHandle
    BY <1>1, <2>4 DEF Handler!WorkerHandle, Handler!threadVars
  <2> QED BY <1>3, <2>1, <2>2, <2>3, <2>4 DEF Handler!Worker
<1>4. CASE \/ Handler!OwnerBegin \/ Handler!OwnerStart
           \/ Handler!OwnerSignal \/ Handler!OwnerFlag \/ Handler!OwnerJoin
  <2>1. receiving => receiving'
    BY <1>4 DEF Handler!OwnerBegin, Handler!OwnerStart, Handler!OwnerSignal,
                Handler!OwnerFlag, Handler!OwnerJoin, Handler!threadVars
  <2> QED BY <1>1, <1>4, <2>1 DEF Handler!OwnerBegin, Handler!OwnerStart,
             Handler!OwnerSignal, Handler!OwnerFlag, Handler!OwnerJoin,
             Handler!threadVars, Handler!history
<1>5. CASE pc = "read" /\ Handler!OwnerStop
  BY <1>1, <1>5 DEF Handler!OwnerStop, Handler!history
<1> QED BY <1>1, <1>2, <1>3, <1>4, <1>5 DEF Handle

\* run() takes requests away from the end.
LEMMA ClearLaw ==
    ASSUME Handler!OwnerClear, owed \in Seq(Requests), queue \in Seq(Requests)
    PROVE  /\ owed' \in Seq(Requests) /\ Len(owed') <= Len(owed) /\ queue' = <<>>
           /\ \A i \in 1..Len(owed') : owed'[i] = owed[i]
<1>1. owed' = SubSeq(owed, 1, Len(owed) - Len(queue)) /\ queue' = <<>>
  BY DEF Handler!OwnerClear
<1>2. Len(owed) \in Nat /\ Len(queue) \in Nat
  BY LenProperties
<1>3. \A i \in 1..(Len(owed) - Len(queue)) : owed[i] \in Requests
  BY <1>2, ElementOfSeq
<1>4. owed' \in Seq(Requests) /\ Len(owed') <= Len(owed)
      /\ \A i \in 1..Len(owed') : owed'[i] = owed[i]
  <2>1. CASE Len(queue) < Len(owed)
    BY <1>1, <1>2, <1>3, <2>1, SubSeqProperties
  <2>2. CASE Len(owed) <= Len(queue)
    <3>1. owed' = <<>>
      BY <1>1, <1>2, <2>2, SubSeqProperties
    <3> QED BY <1>2, <3>1, EmptySeq
  <2> QED BY <1>2, <2>1, <2>2
<1> QED BY <1>1, <1>4

LEMMA AppendLaw ==
    ASSUME Handler!TrackerAppend, owed \in Seq(Requests), inhand \in Seq(Requests),
           queue \in Seq(Requests)
    PROVE  /\ owed' \in Seq(Requests) /\ queue' \in Seq(Requests) /\ inhand' = <<>>
           /\ Len(owed) \in Nat /\ Len(inhand) \in Nat
           /\ Len(owed') = Len(owed) + Len(inhand)
           /\ \A i \in 1..Len(owed') :
                 owed'[i] = IF i <= Len(owed) THEN owed[i] ELSE inhand[i - Len(owed)]
BY ConcatProperties, LenProperties DEF Handler!TrackerAppend

LEMMA PushStep ==
    ASSUME ReadsInv, PushedInv, Push
    PROVE  \/ pc' = "aborted" /\ UNCHANGED handlerVars /\ UNCHANGED delivered
           \/ /\ pc' = "read" /\ inhand' = Pushed /\ tracker' = "push"
              /\ delivered' = delivered \o values
              /\ \A i \in 1..Len(values) : values[i] # NotObject
              /\ UNCHANGED <<queue, lock, batch, worker, owner, running, waitStop, runs,
                             receiving, served, invoked, acks, owed>>
BY DEF Push, Parsed, Deliver, Pushed

LEMMA PushedInvHolds == ConnectionSpec => []PushedInv
<1>1. ConnectionInit => PushedInv
  <2>1. \A S : <<>> \in Seq(S)
    BY EmptySeq
  <2> QED BY <2>1, EmptySeq DEF ConnectionInit, Init, Handler!Init, PushedInv, Dividing
<1>2. ReadsInv /\ PushedInv /\ [ConnectionNext]_connectionVars => PushedInv'
  <2> SUFFICES ASSUME ReadsInv, PushedInv, [ConnectionNext]_connectionVars PROVE PushedInv'
    OBVIOUS
  <2>0. /\ from \in Nat /\ pos \in Nat /\ from <= pos
        /\ owed \in Seq(Requests) /\ queue \in Seq(Requests) /\ inhand \in Seq(Requests)
        /\ \A i \in 1..Len(owed) : owed[i] \in Requests
        /\ \A i \in 1..Len(inhand) : inhand[i] \in Requests
    BY EndFacts, FramingAssumption, ElementOfSeq
       DEF ReadsInv, ReadInv, TypeOK, OrderInv, PushedInv
  <2>1. CASE Receive
    <3>1. pc = "read" /\ pc' = "divide" /\ from' = pos /\ receiving /\ tracker = "idle"
      BY <2>1 DEF Receive, Read
    <3>2. Behindhand' = Behindhand
      BY <3>1 DEF Behindhand, Dividing
    <3>3. UNCHANGED handlerVars
      BY <2>1 DEF Receive
    <3> QED BY <3>1, <3>2, <3>3 DEF PushedInv, handlerVars, Old
  <2>2. CASE Divide
    <3>1. UNCHANGED <<from, pos>> /\ Dividing /\ pc' \in {"read", "divide", "deliver"}
      BY <2>2 DEF Divide, DivideNoEnd, DivideEmpty, DivideBadJson, DivideLine, Fail, Dividing
    <3>2. Behindhand \in Nat /\ Behindhand' \in Nat /\ Behindhand <= Behindhand'
      BY <2>0, <3>1 DEF Behindhand, Dividing
    <3>3. UNCHANGED handlerVars
      BY <2>2 DEF Divide
    <3>4. tracker = "idle" /\ receiving
      BY <3>1 DEF PushedInv, Dividing
    <3>5. /\ \A i \in 1..Len(owed) : Old(owed[i], Behindhand')
          /\ \A i \in 1..Len(inhand) : Old(inhand[i], Behindhand')
      BY <2>0, <3>2, OldLater DEF PushedInv
    <3> QED BY <3>1, <3>3, <3>4, <3>5 DEF PushedInv, handlerVars, Old
  <2>3. CASE Push
    <3>1. UNCHANGED <<from, pos>> /\ Dividing /\ Behindhand = from /\ tracker = "idle"
      BY <2>3 DEF Push, Parsed, Deliver, Dividing, Behindhand, PushedInv
    <3>2. Behindhand' = pos /\ pos' = pos
      BY <2>3, <3>1, PushStep DEF Behindhand, Dividing
    <3>3. /\ \A i \in 1..Len(owed) : Old(owed[i], pos)
          /\ \A i \in 1..Len(inhand) : Old(inhand[i], pos)
      BY <2>0, <3>1, OldLater DEF PushedInv
    <3>4. CASE pc' = "aborted" /\ UNCHANGED handlerVars
      BY <3>1, <3>2, <3>3, <3>4 DEF PushedInv, handlerVars, Old, Dividing
    <3>5. CASE /\ pc' = "read" /\ inhand' = Pushed /\ tracker' = "push"
               /\ \A i \in 1..Len(values) : values[i] # NotObject
               /\ UNCHANGED <<queue, owed>>
      <4>1. pc = "deliver"
        BY <2>3 DEF Push, Parsed, Deliver
      <4>2. /\ Pushed \in Seq(Requests)
            /\ \A i \in 1..Len(Pushed) : Old(Pushed[i], pos)
        BY <3>5, <4>1, PushedLaw
      <4>3. \A i \in 1..Len(inhand') : Old(inhand'[i], pos)
        BY <3>5, <4>2
      <4> QED BY <2>0, <3>2, <3>3, <3>5, <4>2, <4>3 DEF PushedInv, Old, Dividing
    <3> QED BY <2>3, <3>4, <3>5, PushStep
  <2>4. CASE Handle
    <3>1. UNCHANGED <<pc, from, pos>>
      BY <2>4, HandleLaw DEF vars
    <3>2. Behindhand' = Behindhand /\ Dividing' = Dividing
      BY <3>1 DEF Behindhand, Dividing
    <3>3. CASE /\ UNCHANGED <<owed, inhand, tracker>> /\ (queue' = queue \/ queue' = <<>>)
               /\ ((receiving => receiving') \/ pc = "read")
      <4>1. queue' \in Seq(Requests)
        BY <2>0, <3>3, EmptySeq
      <4>2. Dividing' => receiving'
        BY <3>2, <3>3 DEF PushedInv, Dividing
      <4> QED BY <3>1, <3>2, <3>3, <4>1, <4>2 DEF PushedInv, Old
    <3>4. CASE Handler!TrackerLock /\ UNCHANGED <<owed, inhand, queue, receiving>>
      <4>1. tracker # "idle" /\ tracker' # "idle"
        BY <3>4 DEF Handler!TrackerLock
      <4> QED BY <3>1, <3>2, <3>4, <4>1 DEF PushedInv, Old
    <3>5. CASE Handler!TrackerAppend /\ UNCHANGED receiving
      <4>1. tracker # "idle" /\ tracker' = "idle"
        BY <3>5 DEF Handler!TrackerAppend
      <4>2. \A i \in 1..Len(owed') : Old(owed'[i], Behindhand)
        <5> SUFFICES ASSUME NEW i \in 1..Len(owed') PROVE Old(owed'[i], Behindhand)
          OBVIOUS
        <5>1. CASE i <= Len(owed)
          BY <2>0, <3>5, <5>1, AppendLaw DEF PushedInv
        <5>2. CASE i > Len(owed)
          <6>1. i - Len(owed) \in 1..Len(inhand) /\ owed'[i] = inhand[i - Len(owed)]
            BY <2>0, <3>5, <5>2, AppendLaw
          <6> QED BY <6>1 DEF PushedInv
        <5> QED BY <2>0, <3>5, <5>1, <5>2, AppendLaw
      <4>3. Len(inhand') = 0
        BY <2>0, <3>5, AppendLaw, EmptySeq
      <4>4. inhand' \in Seq(Requests)
        BY <2>0, <3>5, AppendLaw, EmptySeq
      <4> QED BY <2>0, <3>1, <3>2, <3>5, <4>1, <4>2, <4>3, <4>4, AppendLaw DEF PushedInv, Old
    <3>6. CASE Handler!OwnerClear /\ UNCHANGED <<inhand, tracker, receiving>>
      <4>1. /\ owed' \in Seq(Requests) /\ queue' \in Seq(Requests)
            /\ \A i \in 1..Len(owed') : i \in 1..Len(owed) /\ owed'[i] = owed[i]
        <5>1. Len(owed) \in Nat /\ Len(owed') \in Nat
          BY <2>0, <3>6, ClearLaw, LenProperties
        <5> QED BY <2>0, <3>6, <5>1, ClearLaw, EmptySeq
      <4> QED BY <3>1, <3>2, <3>6, <4>1 DEF PushedInv, Old
    <3> QED BY <2>4, <3>3, <3>4, <3>5, <3>6, HandleLaw
  <2>5. CASE UNCHANGED connectionVars
    BY <2>5 DEF connectionVars, vars, handlerVars, PushedInv, Old, Behindhand, Dividing
  <2> QED BY <2>1, <2>2, <2>3, <2>4, <2>5 DEF ConnectionNext
<1> QED BY <1>1, <1>2, ReadsInvHolds, PTL DEF ConnectionSpec

-----------------------------------------------------------------------------
(* The parts.                                                              *)

LEMMA HandlerSetting ==
    /\ Registered \subseteq Requests /\ Acked \subseteq Registered
    /\ MaxRead \in Nat \ {0} /\ ListenFirst \in BOOLEAN /\ MaxRuns \in Nat
BY ConnectionAssumption, FramingAssumption

\* What a read yields is a batch as RpcHandler takes it.
LEMMA PushReceives ==
    ASSUME ReadsInv, PushedInv, Push, pc' = "read"
    PROVE  Handler!TrackerReceive
<1>1. /\ inhand' = Pushed /\ tracker' = "push"
      /\ \A i \in 1..Len(values) : values[i] # NotObject
      /\ UNCHANGED <<queue, lock, batch, worker, owner, running, waitStop, runs,
                     receiving, served, invoked, acks, owed>>
  BY PushStep
<1>2. pc = "deliver" /\ receiving /\ tracker = "idle" /\ Behindhand = from
  BY DEF Push, Parsed, Deliver, PushedInv, Dividing, Behindhand
<1>3. /\ Len(values) \in 1..MaxRead /\ Len(Pushed) = Len(values)
      /\ \A i \in 1..Len(values) : ~Old(Pushed[i], from)
      /\ \A i, j \in 1..Len(values) : Pushed[i] = Pushed[j] => i = j
      /\ Pushed \in Seq(Requests)
  BY <1>1, <1>2, PushedLaw
<1>4. DOMAIN Pushed = 1..Len(values)
  BY DEF Pushed
<1>5. ASSUME NEW i \in 1..Len(values)
      PROVE  Pushed[i] \in Handler!Fresh
  <2>1. Pushed[i] \in Requests
    BY <1>3, ElementOfSeq
  <2>2. owed \in Seq(Requests) /\ inhand = <<>>
        /\ \A k \in 1..Len(owed) : Old(owed[k], from)
    BY <1>2 DEF PushedInv
  <2>3. DOMAIN owed = 1..Len(owed) /\ DOMAIN inhand = {}
    BY <2>2, LenProperties
  <2>4. Pushed[i] \notin Handler!Range(owed)
    BY <1>3, <2>2, <2>3 DEF Handler!Range
  <2>5. Pushed[i] \notin Handler!Range(inhand)
    BY <2>3 DEF Handler!Range
  <2> QED BY <2>1, <2>4, <2>5 DEF Handler!Fresh
<1>6. Pushed \in [1..Len(values) -> Handler!Fresh]
  <2>1. Pushed = [i \in 1..Len(values) |-> Pushed[i]]
    BY DEF Pushed
  <2> QED BY <1>5, <2>1
<1>7. Handler!IsInjective(Pushed)
  BY <1>3, <1>4 DEF Handler!IsInjective
<1>8. Pushed \in Handler!Batches(Handler!Fresh)
  BY <1>3, <1>6, <1>7 DEF Handler!Batches
<1> QED BY <1>1, <1>2, <1>8 DEF Handler!TrackerReceive, Handler!threadVars, Handler!history

LEMMA HandlerPart == ConnectionSpec => Handler!Spec
<1>1. ConnectionInit => Handler!Init
  BY DEF ConnectionInit
<1>2. ReadsInv /\ PushedInv /\ [ConnectionNext]_connectionVars
         => [Handler!Next]_(Handler!vars)
  <2> SUFFICES ASSUME ReadsInv, PushedInv, [ConnectionNext]_connectionVars
               PROVE  Handler!Next \/ UNCHANGED Handler!vars
    OBVIOUS
  <2>0. UNCHANGED handlerVars => UNCHANGED Handler!vars
    BY DEF handlerVars, Handler!vars, Handler!threadVars, Handler!history
  <2>1. CASE Receive \/ Divide
    BY <2>0, <2>1 DEF Receive, Divide
  <2>2. CASE Push
    <3>1. UNCHANGED handlerVars \/ pc' = "read"
      BY <2>2, PushStep
    <3> QED BY <2>0, <2>2, <3>1, PushReceives DEF Handler!Next, Handler!Tracker
  <2>3. CASE Handle
    BY <2>3 DEF Handle, Handler!Next, Handler!Tracker, Handler!Owner
  <2>4. CASE UNCHANGED connectionVars
    BY <2>0, <2>4 DEF connectionVars
  <2> QED BY <2>1, <2>2, <2>3, <2>4 DEF ConnectionNext
<1> QED BY <1>1, <1>2, ReadsInvHolds, PushedInvHolds, PTL DEF ConnectionSpec, Handler!Spec

\* The handler's threads take nothing from what Framing says of the cuts: what
\* is delivered of a stream is in order and aligned, and nothing is kept of it.
THEOREM FramingKept ==
    ConnectionSpec => /\ [](TypeOK /\ NoResidue /\ InOrder)
                      /\ AlignedDelivered /\ AllOrNothing
<1>1. Spec => [](TypeOK /\ NoResidue /\ InOrder)
  BY TypeCorrect, NothingKept, DeliveredInOrder, PTL
<1> QED BY <1>1, FramingPart, AlignedReadsDelivered, AllDeliveredOrNone

\* However a stream is cut and the threads interleave: to the code above it a
\* base_rpc is the abstract pipe, now that it is known what goes into it.
THEOREM StreamImplementsPipe == ConnectionSpec => Handler!ImplementsPipe
<1>1. Handler!Spec => Handler!ImplementsPipe
  BY HandlerSetting, Handler!HandlerImplementsPipe
<1> QED BY <1>1, HandlerPart

\* A client's run() and its threads never touch _req_map_lists at once: it
\* connects once, and reads only then.
THEOREM ClientRaceFree ==
    ASSUME ~ListenFirst
    PROVE  ConnectionSpec => []Handler!RaceFree
<1>1. MaxRuns <= 1
  BY ConnectionAssumption
<1>2. Handler!Spec => []Handler!RaceFree
  BY <1>1, HandlerSetting, Handler!FirstRunRaceFree
<1> QED BY <1>2, HandlerPart

\* The handler's TypeOK and Conservation hold of the requests of a stream.
LEMMA HandlerHolds == ConnectionSpec => [](Handler!TypeOK /\ Handler!Conservation)
<1>1. Handler!Spec => []Handler!TypeOK
  BY HandlerSetting, Handler!TypeCorrect
<1>2. Handler!Spec => []Handler!Conservation
  BY HandlerSetting, Handler!RequestsConserved
<1> QED BY <1>1, <1>2, HandlerPart, PTL

-----------------------------------------------------------------------------
(* The order.                                                              *)

\* A message of a later read has a larger number.
LEMMA LaterRead ==
    ASSUME NEW a \in Messages, NEW b \in Messages, NEW p \in Nat, Old(a, p), ~Old(b, p)
    PROVE  a < b
<1>1. /\ a \in 0..N /\ b \in 0..N /\ End[a] \in Nat /\ End[b] \in Nat
      /\ End[a] <= p /\ ~(End[b] <= p)
  BY EndFacts DEF Old
<1>2. b <= a => End[b] <= End[a]
  BY <1>1, EndFacts
<1> QED BY <1>1, <1>2, EndFacts

LEMMA OrderedInvHolds == ConnectionSpec => []OrderedInv
<1>1. ConnectionInit => OrderedInv
  BY EmptySeq DEF ConnectionInit, Handler!Init, OrderedInv, Sorted
<1>2. ReadsInv /\ PushedInv /\ OrderedInv /\ [ConnectionNext]_connectionVars => OrderedInv'
  <2> SUFFICES ASSUME ReadsInv, PushedInv, OrderedInv, [ConnectionNext]_connectionVars
               PROVE  OrderedInv'
    OBVIOUS
  <2>0. UNCHANGED <<owed, inhand>> => OrderedInv'
    BY DEF OrderedInv, Sorted
  <2>1. CASE Receive \/ Divide \/ UNCHANGED connectionVars
    BY <2>0, <2>1 DEF Receive, Divide, connectionVars, handlerVars
  <2>2. CASE Push /\ UNCHANGED handlerVars
    BY <2>0, <2>2 DEF handlerVars
  <2>3. CASE /\ Push /\ inhand' = Pushed /\ UNCHANGED owed
             /\ \A i \in 1..Len(values) : values[i] # NotObject
    <3>1. pc = "deliver" /\ Behindhand = from /\ from \in Nat
      BY <2>3 DEF Push, Parsed, Deliver, Behindhand, Dividing, ReadsInv, ReadInv, TypeOK
    <3>2. /\ Len(Pushed) = Len(values) /\ Sorted(Pushed)
          /\ \A j \in 1..Len(values) : ~Old(Pushed[j], from)
      BY <2>3, <3>1, PushedLaw
    <3>3. ASSUME NEW i \in 1..Len(owed), NEW j \in 1..Len(Pushed),
                 owed[i] \in Messages, Pushed[j] \in Messages
          PROVE  owed[i] < Pushed[j]
      <4>1. Old(owed[i], from) /\ ~Old(Pushed[j], from)
        BY <3>1, <3>2 DEF PushedInv
      <4> QED BY <3>1, <3>3, <4>1, LaterRead
    <3>4. Sorted(owed') /\ Sorted(inhand')
      BY <2>3, <3>2 DEF OrderedInv, Sorted
    <3> QED BY <2>3, <3>3, <3>4 DEF OrderedInv
  <2>4. CASE Handle
    <3>1. CASE UNCHANGED <<owed, inhand>>
      BY <2>0, <3>1
    <3>2. CASE Handler!TrackerAppend
      <4>1. /\ Len(owed) \in Nat /\ Len(inhand) \in Nat
            /\ Len(owed') = Len(owed) + Len(inhand)
            /\ \A i \in 1..Len(owed') :
                  owed'[i] = IF i <= Len(owed) THEN owed[i] ELSE inhand[i - Len(owed)]
            /\ inhand' = <<>>
        BY <3>2, AppendLaw DEF PushedInv
      <4>2. Sorted(owed')
        <5> SUFFICES ASSUME NEW x \in 1..Len(owed'), NEW y \in 1..Len(owed'), x < y,
                            owed'[x] \in Messages, owed'[y] \in Messages
                     PROVE  owed'[x] < owed'[y]
          BY DEF Sorted
        <5>1. CASE y <= Len(owed)
          <6>1. /\ x \in 1..Len(owed) /\ y \in 1..Len(owed)
                /\ owed'[x] = owed[x] /\ owed'[y] = owed[y]
            BY <4>1, <5>1
          <6> QED BY <6>1 DEF OrderedInv, Sorted
        <5>2. CASE x > Len(owed)
          <6> DEFINE u == x - Len(owed)  v == y - Len(owed)
          <6>1. /\ u \in 1..Len(inhand) /\ v \in 1..Len(inhand) /\ u < v
                /\ owed'[x] = inhand[u] /\ owed'[y] = inhand[v]
            BY <4>1, <5>2
          <6> QED BY <6>1 DEF OrderedInv, Sorted
        <5>3. CASE x <= Len(owed) /\ y > Len(owed)
          <6> DEFINE v == y - Len(owed)
          <6>1. /\ x \in 1..Len(owed) /\ v \in 1..Len(inhand)
                /\ owed'[x] = owed[x] /\ owed'[y] = inhand[v]
            BY <4>1, <5>3
          <6> QED BY <6>1 DEF OrderedInv
        <5> QED BY <4>1, <5>1, <5>2, <5>3
      <4>3. Len(inhand') = 0
        BY <4>1, EmptySeq
      <4> QED BY <4>2, <4>3 DEF OrderedInv, Sorted
    <3>3. CASE Handler!OwnerClear /\ UNCHANGED inhand
      <4>1. \A i \in 1..Len(owed') : i \in 1..Len(owed) /\ owed'[i] = owed[i]
        <5>1. Len(owed) \in Nat /\ Len(owed') \in Nat
          BY <3>3, ClearLaw, LenProperties DEF PushedInv
        <5> QED BY <3>3, <5>1, ClearLaw DEF PushedInv
      <4> QED BY <3>3, <4>1 DEF OrderedInv, Sorted
    <3> QED BY <2>4, <3>1, <3>2, <3>3, HandleLaw
  <2> QED BY <2>1, <2>2, <2>3, <2>4, PushStep DEF ConnectionNext
<1> QED BY <1>1, <1>2, ReadsInvHolds, PushedInvHolds, PTL DEF ConnectionSpec

LEMMA PushAccounts ==
    ASSUME ReadsInv, PushedInv, Accounted, Push, pc' = "read"
    PROVE  Accounted'
<1>1. /\ pc = "deliver" /\ tracker = "idle" /\ inhand = <<>> /\ UNCHANGED owed
      /\ inhand' = Pushed /\ delivered' = delivered \o values
      /\ \A i \in 1..Len(values) : values[i] # NotObject
  BY PushStep DEF Push, Parsed, Deliver, PushedInv
<1>2. Len(Pushed) = Len(values) /\ \A i \in 1..Len(values) : values[i] = ValueOf(Pushed[i])
  BY <1>1, PushedLaw
<1>3. /\ delivered \in Seq(Messages \cup {Junk, NotObject})
      /\ values \in Seq(Messages \cup {Junk, NotObject}) /\ owed \in Seq(Requests)
  <2>1. Messages \cup {Junk} \subseteq Messages \cup {Junk, NotObject}
    OBVIOUS
  <2>2. delivered \in Seq(Messages \cup {Junk})
    BY DEF ReadsInv, ReadInv, TypeOK
  <2>3. delivered \in Seq(Messages \cup {Junk, NotObject})
    BY <2>1, <2>2, SeqMonotonic
  <2> QED BY <2>3 DEF ReadsInv, ReadInv, TypeOK, PushedInv
<1>4. /\ Len(delivered) \in Nat /\ Len(values) \in Nat /\ Len(owed) \in Nat
      /\ Len(delivered') = Len(delivered) + Len(values)
      /\ \A i \in 1..(Len(delivered) + Len(values)) :
            delivered'[i] = IF i <= Len(delivered) THEN delivered[i]
                                                   ELSE values[i - Len(delivered)]
  BY <1>1, <1>3, ConcatProperties, LenProperties
<1>5. Len(inhand) = 0 /\ Len(delivered) = Len(owed)
  BY <1>1, <1>4, EmptySeq DEF Accounted
<1>6. ASSUME NEW i \in 1..Len(owed) PROVE delivered'[i] = ValueOf(owed[i])
  BY <1>4, <1>5 DEF Accounted
<1>7. ASSUME NEW i \in 1..Len(values)
      PROVE  delivered'[Len(owed) + i] = ValueOf(Pushed[i])
  <2>1. /\ Len(owed) + i \in 1..(Len(delivered) + Len(values))
        /\ ~(Len(owed) + i <= Len(delivered)) /\ (Len(owed) + i) - Len(delivered) = i
    BY <1>4, <1>5
  <2> QED BY <1>2, <1>4, <2>1
<1> QED BY <1>1, <1>2, <1>4, <1>5, <1>6, <1>7 DEF Accounted, ValueOf

LEMMA AppendAccounts ==
    ASSUME PushedInv, Accounted, Handler!TrackerAppend, UNCHANGED delivered
    PROVE  Accounted'
<1>1. /\ Len(owed) \in Nat /\ Len(inhand) \in Nat
      /\ Len(owed') = Len(owed) + Len(inhand)
      /\ \A i \in 1..Len(owed') :
            owed'[i] = IF i <= Len(owed) THEN owed[i] ELSE inhand[i - Len(owed)]
      /\ inhand' = <<>> /\ Len(inhand') = 0
  BY AppendLaw, EmptySeq DEF PushedInv
<1>2. ASSUME NEW i \in 1..Len(owed') PROVE delivered'[i] = ValueOf(owed'[i])
  <2>1. CASE i <= Len(owed)
    BY <1>1, <2>1 DEF Accounted
  <2>2. CASE i > Len(owed)
    <3> DEFINE j == i - Len(owed)
    <3>1. j \in 1..Len(inhand) /\ Len(owed) + j = i /\ owed'[i] = inhand[j]
      BY <1>1, <2>2
    <3>2. delivered[Len(owed) + j] = ValueOf(inhand[j])
      BY <3>1 DEF Accounted
    <3> QED BY <3>1, <3>2
  <2> QED BY <1>1, <2>1, <2>2
<1> QED BY <1>1, <1>2 DEF Accounted, ValueOf

LEMMA FlowInvHolds == ConnectionSpec => []FlowInv
<1>1. ConnectionInit => FlowInv
  BY EmptySeq DEF ConnectionInit, Init, Handler!Init, FlowInv, Accounted
<1>2. ReadsInv /\ PushedInv /\ Handler!TypeOK /\ FlowInv /\ [ConnectionNext]_connectionVars
         => FlowInv'
  <2> SUFFICES ASSUME ReadsInv, PushedInv, Handler!TypeOK, FlowInv,
                      [ConnectionNext]_connectionVars, ~ListenFirst
               PROVE  FlowInv'
    BY DEF FlowInv
  <2>0. UNCHANGED handlerVars /\ UNCHANGED delivered => FlowInv'
    BY DEF FlowInv, Accounted, ValueOf, handlerVars
  <2>1. CASE Receive \/ Divide \/ UNCHANGED connectionVars
    BY <2>0, <2>1 DEF Receive, Divide, Read, DivideNoEnd, DivideEmpty, DivideBadJson,
                      DivideLine, Fail, connectionVars, vars
  <2>2. CASE Push
    <3>1. CASE UNCHANGED handlerVars /\ UNCHANGED delivered
      BY <2>0, <3>1
    <3>2. CASE pc' = "read" /\ UNCHANGED <<owner, runs>>
      <4>1. receiving
        BY <2>2 DEF Push, Parsed, Deliver, PushedInv, Dividing
      <4>2. ~(runs = 0 \/ owner = "clear")
        BY <4>1 DEF FlowInv
      <4>3. Accounted'
        BY <2>2, <3>2, PushAccounts DEF FlowInv
      <4> QED BY <3>2, <4>2, <4>3 DEF FlowInv
    <3> QED BY <2>2, <3>1, <3>2, PushStep
  <2>3. CASE Handle
    <3>1. UNCHANGED delivered
      BY <2>3 DEF Handle, vars
    <3>2. Accounted /\ (UNCHANGED <<owed, inhand>> => Accounted')
      BY <3>1 DEF FlowInv, Accounted, ValueOf
    <3>3. CASE Handler!TrackerLock
      <4>1. UNCHANGED <<owed, inhand, owner, runs>> /\ tracker # "idle"
        BY <3>3 DEF Handler!TrackerLock, Handler!threadVars, Handler!history
      <4> QED BY <3>2, <4>1 DEF FlowInv
    <3>4. CASE Handler!TrackerAppend
      <4>1. UNCHANGED <<owner, runs>> /\ tracker # "idle"
        BY <3>4 DEF Handler!TrackerAppend, Handler!threadVars
      <4>2. Accounted'
        BY <3>1, <3>2, <3>4, AppendAccounts
      <4> QED BY <4>1, <4>2 DEF FlowInv
    <3>5. CASE Handler!Worker
      <4>1. UNCHANGED <<owed, inhand, owner, runs, receiving, tracker>>
        <5>1. CASE Handler!WorkerHandle
          BY <5>1 DEF Handler!WorkerHandle, Handler!threadVars
        <5>2. CASE Handler!WorkerTake \/ Handler!WorkerLoop \/ Handler!WorkerAcquire
          BY <5>2 DEF Handler!WorkerTake, Handler!WorkerLoop, Handler!WorkerAcquire,
                      Handler!threadVars, Handler!history
        <5>3. CASE \/ Handler!WorkerSleep \/ Handler!WorkerTimeout
                   \/ Handler!WorkerSpurious
          BY <5>3 DEF Handler!WorkerSleep, Handler!WorkerTimeout,
                      Handler!WorkerSpurious, Handler!threadVars, Handler!history
        <5>4. CASE \/ Handler!WorkerReacquire \/ Handler!WorkerExpire
                   \/ Handler!WorkerIdle
          BY <5>4 DEF Handler!WorkerReacquire, Handler!WorkerExpire,
                      Handler!WorkerIdle, Handler!threadVars, Handler!history
        <5> QED BY <3>5, <5>1, <5>2, <5>3, <5>4 DEF Handler!Worker
      <4>2. queue' = queue \/ queue' = <<>>
        BY <2>3, <4>1, HandleLaw DEF Handler!TrackerLock, Handler!TrackerAppend,
                                     Handler!OwnerClear
      <4> QED BY <3>2, <4>1, <4>2 DEF FlowInv
    <3>6. CASE Handler!OwnerBegin
      <4>1. /\ owner = "idle" /\ runs < MaxRuns /\ runs' = runs + 1 /\ owner' = "clear"
            /\ receiving' = (receiving \/ ListenFirst)
            /\ UNCHANGED <<owed, inhand, queue, tracker>>
        BY <3>6 DEF Handler!OwnerBegin, Handler!history
      <4>2. runs \in 0..MaxRuns /\ MaxRuns \in Nat /\ MaxRuns <= 1
        BY ConnectionAssumption DEF Handler!TypeOK
      <4>3. runs = 0 /\ runs' # 0
        BY <4>1, <4>2
      <4>4. ~receiving /\ ~receiving'
        BY <4>1, <4>3 DEF FlowInv
      <4> QED BY <3>2, <4>1, <4>3, <4>4 DEF FlowInv
    <3>7. CASE Handler!OwnerClear
      <4>1. /\ owner = "clear" /\ owner' = "start" /\ queue' = <<>>
            /\ owed' = SubSeq(owed, 1, Len(owed) - Len(queue))
            /\ UNCHANGED <<inhand, tracker, receiving, runs>>
        BY <3>7 DEF Handler!OwnerClear, Handler!threadVars
      <4>2. owed = <<>> /\ runs # 0
        BY <4>1 DEF FlowInv
      <4>3. owed' = <<>>
        <5>1. Len(owed') \in Nat /\ Len(owed') <= 0 /\ owed' \in Seq(Requests)
          BY <3>7, <4>2, ClearLaw, EmptySeq, LenProperties DEF PushedInv
        <5> QED BY <5>1, EmptySeq
      <4> QED BY <3>2, <4>1, <4>2, <4>3 DEF FlowInv
    <3>8. CASE Handler!OwnerStart
      <4>1. owner = "start" /\ owner' = "idle" /\ UNCHANGED <<owed, inhand, runs>>
        BY <3>8 DEF Handler!OwnerStart, Handler!history
      <4>2. runs # 0
        BY <4>1 DEF FlowInv
      <4> QED BY <3>2, <4>1, <4>2 DEF FlowInv
    <3>9. CASE Handler!OwnerJoin
      <4>1. /\ owner' = "gone"
            /\ UNCHANGED <<owed, inhand, runs, queue, tracker, receiving>>
        BY <3>9 DEF Handler!OwnerJoin, Handler!history
      <4> QED BY <3>2, <4>1 DEF FlowInv
    <3>10. CASE Handler!OwnerStop
      <4>1. /\ owner' = "signal" /\ ~receiving'
            /\ UNCHANGED <<owed, inhand, runs, queue, tracker>>
        BY <3>10 DEF Handler!OwnerStop, Handler!history
      <4> QED BY <3>2, <4>1 DEF FlowInv
    <3>11. CASE Handler!OwnerSignal \/ Handler!OwnerFlag
      <4>1. /\ owner' \in {"flag", "join", "gone"}
            /\ UNCHANGED <<owed, inhand, runs, queue, tracker, receiving>>
        BY <3>11 DEF Handler!OwnerSignal, Handler!OwnerFlag, Handler!threadVars, Handler!history
      <4> QED BY <3>2, <4>1 DEF FlowInv
    <3> QED BY <2>3, <3>3, <3>4, <3>5, <3>6, <3>7, <3>8, <3>9, <3>10, <3>11 DEF Handle
  <2> QED BY <2>1, <2>2, <2>3 DEF ConnectionNext
<1> QED BY <1>1, <1>2, ReadsInvHolds, PushedInvHolds, HandlerHolds, PTL DEF ConnectionSpec

-----------------------------------------------------------------------------
(* What is served.                                                         *)

\* A list keeps its place at the front of what is appended to it.
LEMMA FrontOf ==
    ASSUME NEW S, NEW s \in Seq(S), NEW t \in Seq(S), NEW u \in Seq(S)
    PROVE  /\ Len(s) <= Len(s \o t \o u)
           /\ \A i \in 1..Len(s) : (s \o t \o u)[i] = s[i]
<1>1. /\ s \o t \in Seq(S) /\ Len(s \o t) = Len(s) + Len(t)
      /\ \A i \in 1..(Len(s) + Len(t)) :
            (s \o t)[i] = IF i <= Len(s) THEN s[i] ELSE t[i - Len(s)]
  BY ConcatProperties
<1>2. /\ Len(s \o t \o u) = Len(s \o t) + Len(u)
      /\ \A i \in 1..(Len(s \o t) + Len(u)) :
            (s \o t \o u)[i] = IF i <= Len(s \o t) THEN (s \o t)[i]
                                                   ELSE u[i - Len(s \o t)]
  BY <1>1, ConcatProperties
<1>3. Len(s) \in Nat /\ Len(t) \in Nat /\ Len(u) \in Nat
  BY LenProperties
<1> QED BY <1>1, <1>2, <1>3

\* For any messages, reads of any size and any interleaving of the tracker
\* thread, the worker and the program: nothing a client reads is lost or
\* doubled on its way to the services, and the messages of a peer, read whole
\* or not at all, are served in its order.
THEOREM ConnectionIsSafe == ConnectionSpec => []ConnectionSafe
<1>1. Handler!TypeOK /\ Handler!Conservation /\ PushedInv /\ FlowInv => NothingLost
  <2> SUFFICES ASSUME Handler!TypeOK, Handler!Conservation, PushedInv, FlowInv, ~ListenFirst
               PROVE  /\ Len(Flow) = Len(delivered)
                      /\ \A i \in 1..Len(Flow) : delivered[i] = ValueOf(Flow[i])
    BY DEF NothingLost, ValueOf
  <2>1. Flow = owed \o inhand
    BY DEF Flow, Handler!Conservation
  <2>2. Accounted
    BY DEF FlowInv
  <2>3. /\ Len(owed) \in Nat /\ Len(inhand) \in Nat
        /\ Len(Flow) = Len(owed) + Len(inhand)
        /\ \A i \in 1..(Len(owed) + Len(inhand)) :
              Flow[i] = IF i <= Len(owed) THEN owed[i] ELSE inhand[i - Len(owed)]
    BY <2>1, ConcatProperties, LenProperties DEF PushedInv
  <2>4. ASSUME NEW i \in 1..Len(Flow) PROVE delivered[i] = ValueOf(Flow[i])
    <3>1. CASE i <= Len(owed)
      <4>1. i \in 1..Len(owed) /\ Flow[i] = owed[i]
        BY <2>3, <3>1
      <4> QED BY <2>2, <4>1 DEF Accounted
    <3>2. CASE i > Len(owed)
      <4> DEFINE j == i - Len(owed)
      <4>1. j \in 1..Len(inhand) /\ Len(owed) + j = i /\ Flow[i] = inhand[j]
        BY <2>3, <3>2
      <4>2. delivered[Len(owed) + j] = ValueOf(inhand[j])
        BY <2>2, <4>1 DEF Accounted
      <4> QED BY <4>1, <4>2
    <3> QED BY <2>3, <3>1, <3>2
  <2> QED BY <2>2, <2>3, <2>4 DEF Accounted
<1>2. ReadsInv /\ Handler!TypeOK /\ Handler!Conservation /\ PushedInv /\ OrderedInv
         => ServedInOrder
  <2> SUFFICES ASSUME ReadsInv, Handler!TypeOK, Handler!Conservation, PushedInv, OrderedInv
               PROVE  ServedInOrder
    OBVIOUS
  <2>1. /\ served \in Seq(Requests) /\ batch \in Seq(Requests) /\ queue \in Seq(Requests)
        /\ owed = served \o batch \o queue
    BY DEF Handler!TypeOK, Handler!Conservation
  <2>2. Len(served) <= Len(owed) /\ \A i \in 1..Len(served) : owed[i] = served[i]
    BY <2>1, FrontOf
  <2>3. Len(served) \in Nat /\ Len(owed) \in Nat
    BY <2>1, LenProperties DEF PushedInv
  <2>4. \A i \in 1..Len(served) : i \in 1..Len(owed) /\ served[i] = owed[i]
    BY <2>2, <2>3
  <2>5. Behindhand \in Nat /\ pos \in Nat /\ Behindhand <= pos
    BY EndFacts, FramingAssumption
       DEF ReadsInv, ReadInv, TypeOK, OrderInv, Behindhand
  <2>6. ASSUME NEW i \in 1..Len(served), served[i] \in Messages
        PROVE  End[served[i]] <= pos
    <3>1. End[served[i]] <= Behindhand /\ End[served[i]] \in Nat
      BY <2>4, <2>6, EndFacts DEF PushedInv, Old
    <3> QED BY <2>5, <3>1
  <2>7. Sorted(served)
    BY <2>4 DEF OrderedInv, Sorted
  <2> QED BY <2>6, <2>7 DEF ServedInOrder, Sorted
<1> QED BY <1>1, <1>2, ReadsInvHolds, PushedInvHolds, OrderedInvHolds, FlowInvHolds,
           HandlerHolds, PTL DEF ConnectionSafe

=============================================================================
