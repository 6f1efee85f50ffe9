---------------------------- MODULE PartsProofs -----------------------------
(***************************************************************************)
(* The parts side by side: what the modules of proofs say of one of them   *)
(* holds of all together, and the proofs of the smaller ones: lookups,     *)
(* threads, services and answers.                                          *)
(***************************************************************************)
EXTENDS Parts, FiniteSetTheorems, SequenceTheorems, TLAPS

-----------------------------------------------------------------------------
(* Lookups.                                                                *)

\* The thread that uses the NetConnectUtils was not cut off from it, and a
\* thread is cut off before the object goes.  There is no thread before
\* there is a call.
Order ==
    \A c \in Calls :
        /\ caller[c] = "idle" => thread[c] = "none"
        /\ thread[c] \in {"cond", "publish", "signal", "unlock"} => outer[c]
        /\ outer[c] => alive[c]

LEMMA TypeStep ==
    ASSUME TypeOK, Order, [Next]_vars PROVE TypeOK'
<1> USE DEF TypeOK, Order, CallerPC, ThreadPC, callerVars, threadVars, shared
<1>1. ASSUME NEW c \in Calls, CallerStart(c) PROVE TypeOK'
  <2>1. thread[c] = "none" /\ (thread'[c] \in {"none", "resolve"})
    BY <1>1 DEF CallerStart, CallerAt
  <2> QED BY <1>1, <2>1 DEF CallerStart, CallerAt
<1>2. ASSUME NEW c \in Calls, Caller(c) PROVE TypeOK'
  <2>1. CASE CallerWait(c)
    BY <2>1 DEF CallerWait, CallerAt
  <2>2. CASE CallerExpire(c)
    BY <2>2 DEF CallerExpire, CallerAt
  <2>3. CASE CallerSpurious(c)
    BY <2>3 DEF CallerSpurious, CallerAt
  <2>4. CASE CallerRelock(c)
    BY <2>4 DEF CallerRelock, CallerAt
  <2>5. CASE CallerSignalled(c)
    BY <2>5 DEF CallerSignalled, CallerAt
  <2>6. CASE CallerTimedOut(c)
    BY <2>6 DEF CallerTimedOut, CallerAt
  <2>7. CASE CallerCopy(c)
    BY <2>7 DEF CallerCopy, CallerAt
  <2>8. CASE CallerConnect(c)
    BY <2>8 DEF CallerConnect, CallerAt
  <2>9. CASE CallerClose(c)
    BY <2>9 DEF CallerClose, CallerAt
  <2> QED BY <1>2, <2>1, <2>2, <2>3, <2>4, <2>5, <2>6, <2>7, <2>8, <2>9
          DEF Caller
<1>3. ASSUME NEW c \in Calls, ThreadResolve(c) PROVE TypeOK'
  <2>1. hostBuf' \in Names \cup {NoName} /\ found' \in [Calls -> BOOLEAN]
    <3>1. NameOf[c] \in Names
      BY LookupAssumption
    <3>2. CASE UNCHANGED <<found, hostBuf>>
      BY <3>2
    <3>3. CASE hostBuf' = NameOf[c] /\ found' = [found EXCEPT ![c] = TRUE]
      BY <3>1, <3>3
    <3> QED BY <1>3, <3>2, <3>3 DEF ThreadResolve
  <2>2. /\ thread' = [thread EXCEPT ![c] = "resolved"] /\ thread[c] = "resolve"
        /\ UNCHANGED <<caller, alive, address, condLock, mutex, outer, hostent>>
    BY <1>3 DEF ThreadResolve, ThreadAt
  <2>3. \A d \in Calls : mutex'[d] = "thread" <=>
          thread'[d] \in {"cond", "publish", "signal", "unlock", "leave"}
    BY <2>2
  <2>4. thread' \in [Calls -> ThreadPC]
    BY <2>2
  <2> QED BY <2>1, <2>2, <2>3, <2>4
<1>4. ASSUME NEW c \in Calls, Answering(c) PROVE TypeOK'
  <2>1. CASE ThreadEnter(c)
    BY <2>1 DEF ThreadEnter, ThreadAt
  <2>2. CASE ThreadCond(c)
    BY <2>2 DEF ThreadCond, ThreadAt
  <2>3. CASE ThreadPublish(c)
    BY <2>3 DEF ThreadPublish, ThreadAt
  <2>4. CASE ThreadSignal(c)
    BY <2>4 DEF ThreadSignal, ThreadAt
  <2>5. CASE ThreadUnlock(c)
    BY <2>5 DEF ThreadUnlock, ThreadAt
  <2>6. CASE ThreadLeave(c)
    BY <2>6 DEF ThreadLeave, ThreadAt
  <2> QED BY <1>4, <2>1, <2>2, <2>3, <2>4, <2>5, <2>6 DEF Answering
<1>5. CASE UNCHANGED vars
  BY <1>5 DEF vars
<1> QED BY <1>1, <1>2, <1>3, <1>4, <1>5 DEF Next

\* CallerClose waits for m_mutex, so no thread is past its test of m_outer.
LEMMA OrderStep ==
    ASSUME TypeOK, Order, [Next]_vars PROVE Order'
<1> USE DEF TypeOK, Order, callerVars, threadVars, shared
<1>1. ASSUME NEW c \in Calls, CallerStart(c) PROVE Order'
  <2>1. thread[c] = "none" /\ (thread'[c] \in {"none", "resolve"})
    BY <1>1 DEF CallerStart, CallerAt
  <2> QED BY <1>1, <2>1 DEF CallerStart, CallerAt
<1>2. ASSUME NEW c \in Calls, Caller(c) PROVE Order'
  <2>1. CASE CallerWait(c)
    BY <2>1 DEF CallerWait, CallerAt
  <2>2. CASE CallerExpire(c)
    BY <2>2 DEF CallerExpire, CallerAt
  <2>3. CASE CallerSpurious(c)
    BY <2>3 DEF CallerSpurious, CallerAt
  <2>4. CASE CallerRelock(c)
    BY <2>4 DEF CallerRelock, CallerAt
  <2>5. CASE CallerSignalled(c)
    BY <2>5 DEF CallerSignalled, CallerAt
  <2>6. CASE CallerTimedOut(c)
    BY <2>6 DEF CallerTimedOut, CallerAt
  <2>7. CASE CallerCopy(c)
    BY <2>7 DEF CallerCopy, CallerAt
  <2>8. CASE CallerConnect(c)
    BY <2>8 DEF CallerConnect, CallerAt
  <2>9. CASE CallerClose(c)
    BY <2>9 DEF CallerClose, CallerAt
  <2> QED BY <1>2, <2>1, <2>2, <2>3, <2>4, <2>5, <2>6, <2>7, <2>8, <2>9
          DEF Caller
<1>3. ASSUME NEW c \in Calls, ThreadResolve(c) PROVE Order'
  <2>1. /\ thread' = [thread EXCEPT ![c] = "resolved"] /\ thread[c] = "resolve"
        /\ UNCHANGED <<caller, alive, outer>>
    BY <1>3 DEF ThreadResolve, ThreadAt
  <2> QED BY <2>1
<1>4. ASSUME NEW c \in Calls, Answering(c) PROVE Order'
  <2>1. CASE ThreadEnter(c)
    BY <2>1 DEF ThreadEnter, ThreadAt
  <2>2. CASE ThreadCond(c)
    BY <2>2 DEF ThreadCond, ThreadAt
  <2>3. CASE ThreadPublish(c)
    BY <2>3 DEF ThreadPublish, ThreadAt
  <2>4. CASE ThreadSignal(c)
    BY <2>4 DEF ThreadSignal, ThreadAt
  <2>5. CASE ThreadUnlock(c)
    BY <2>5 DEF ThreadUnlock, ThreadAt
  <2>6. CASE ThreadLeave(c)
    BY <2>6 DEF ThreadLeave, ThreadAt
  <2> QED BY <1>4, <2>1, <2>2, <2>3, <2>4, <2>5, <2>6 DEF Answering
<1>5. CASE UNCHANGED vars
  BY <1>5 DEF vars
<1> QED BY <1>1, <1>2, <1>3, <1>4, <1>5 DEF Next

\* The buffer of gethostbyname has the address of a name that was found, once
\* one was found, and so has whatever was copied from it.
Buffer ==
    /\ \A c \in Calls : found[c] => \E d \in Calls : found[d] /\ hostBuf = NameOf[d]
    /\ \A c \in Calls : hostent[c] => found[c]
    /\ \A c \in Calls : caller[c] = "connect" =>
          found[c] /\ \E d \in Calls : found[d] /\ address[c] = NameOf[d]

\* Only gethostbyname writes the buffer, and no name is ever lost again.
LEMMA BufferStep ==
    ASSUME TypeOK, Buffer, [Next]_vars PROVE Buffer'
<1> USE DEF TypeOK, Buffer, callerVars, threadVars, shared
<1>1. ASSUME NEW c \in Calls, CallerStart(c) PROVE Buffer'
  BY <1>1 DEF CallerStart, CallerAt
<1>2. ASSUME NEW c \in Calls, Caller(c) PROVE Buffer'
  <2>1. CASE CallerWait(c)
    BY <2>1 DEF CallerWait, CallerAt
  <2>2. CASE CallerExpire(c)
    BY <2>2 DEF CallerExpire, CallerAt
  <2>3. CASE CallerSpurious(c)
    BY <2>3 DEF CallerSpurious, CallerAt
  <2>4. CASE CallerRelock(c)
    BY <2>4 DEF CallerRelock, CallerAt
  <2>5. CASE CallerSignalled(c)
    BY <2>5 DEF CallerSignalled, CallerAt
  <2>6. CASE CallerTimedOut(c)
    BY <2>6 DEF CallerTimedOut, CallerAt
  <2>7. CASE CallerCopy(c)
    BY <2>7 DEF CallerCopy, CallerAt
  <2>8. CASE CallerConnect(c)
    BY <2>8 DEF CallerConnect, CallerAt
  <2>9. CASE CallerClose(c)
    BY <2>9 DEF CallerClose, CallerAt
  <2> QED BY <1>2, <2>1, <2>2, <2>3, <2>4, <2>5, <2>6, <2>7, <2>8, <2>9
          DEF Caller
<1>3. ASSUME NEW c \in Calls, ThreadResolve(c) PROVE Buffer'
  <2>1. UNCHANGED <<caller, address, hostent>>
    BY <1>3 DEF ThreadResolve
  <2>2. CASE UNCHANGED <<found, hostBuf>>
    BY <2>1, <2>2
  <2>3. CASE hostBuf' = NameOf[c] /\ found' = [found EXCEPT ![c] = TRUE]
    <3>1. found'[c] /\ \A d \in Calls : found[d] => found'[d]
      BY <2>3
    <3> QED BY <2>1, <2>3, <3>1
  <2> QED BY <1>3, <2>2, <2>3 DEF ThreadResolve
<1>4. ASSUME NEW c \in Calls, Answering(c) PROVE Buffer'
  <2>1. CASE ThreadEnter(c)
    BY <2>1 DEF ThreadEnter, ThreadAt
  <2>2. CASE ThreadCond(c)
    BY <2>2 DEF ThreadCond, ThreadAt
  <2>3. CASE ThreadPublish(c)
    BY <2>3 DEF ThreadPublish, ThreadAt
  <2>4. CASE ThreadSignal(c)
    BY <2>4 DEF ThreadSignal, ThreadAt
  <2>5. CASE ThreadUnlock(c)
    BY <2>5 DEF ThreadUnlock, ThreadAt
  <2>6. CASE ThreadLeave(c)
    BY <2>6 DEF ThreadLeave, ThreadAt
  <2> QED BY <1>4, <2>1, <2>2, <2>3, <2>4, <2>5, <2>6 DEF Answering
<1>5. CASE UNCHANGED vars
  BY <1>5 DEF vars
<1> QED BY <1>1, <1>2, <1>3, <1>4, <1>5 DEF Next

LEMMA InitHolds == Init => TypeOK /\ Order /\ Buffer
BY LookupAssumption DEF Init, TypeOK, Order, Buffer, CallerPC, ThreadPC

\* Every variable keeps its type, and m_mutex is held by the thread exactly
\* where the code holds it.
THEOREM TypeCorrect == Spec => []TypeOK
BY InitHolds, TypeStep, OrderStep, PTL DEF Spec

\* The detached thread never uses the NetConnectUtils of a call that is over,
\* nor the condition variable inside it, whenever the call gives up.
THEOREM LookupSafe == Spec => []NoUseAfterDestroy
<1>1. Order => NoUseAfterDestroy
  BY DEF Order, NoUseAfterDestroy
<1> QED BY <1>1, InitHolds, TypeStep, OrderStep, PTL DEF Spec

\* A call connects to the address it asked for unless another call's lookup
\* answered too, and never to one that was not looked up.
THEOREM AddressesLookedUp == Spec => []AddressLookedUp
<1>1. Buffer => AddressLookedUp
  BY DEF Buffer, AddressLookedUp
<1> QED BY <1>1, InitHolds, TypeStep, OrderStep, BufferStep, PTL DEF Spec

-----------------------------------------------------------------------------
(* A step of one part is a stutter of the others.                          *)

LEMMA OneAtATime ==
    ASSUME PartsNext
    PROVE  /\ Next \/ UNCHANGED lookupVars
           /\ Base!Next \/ UNCHANGED threadsVars
           /\ Client!Next \/ UNCHANGED clientVars
           /\ Write!Next \/ UNCHANGED writeVars
           /\ Answer!Next \/ UNCHANGED answerVars
           /\ Handler!Next \/ UNCHANGED handlerVars
           /\ Ref!Next \/ UNCHANGED refsVars
           /\ Service!Next \/ UNCHANGED serviceVars
BY DEF PartsNext, InLookup, InThread, InClient, InWrite, InAnswer, InHandler, InRefs, InServices

LEMMA LookupPart == PartsSpec => Spec
<1>1. PartsInit => Init
  BY DEF PartsInit
<1>2. [PartsNext]_partsVars => [Next]_vars
  BY OneAtATime DEF partsVars, lookupVars
<1> QED BY <1>1, <1>2, PTL DEF PartsSpec, Spec

LEMMA ThreadPart == PartsSpec => Base!Spec
<1>1. PartsInit => Base!Init
  BY DEF PartsInit
<1>2. [PartsNext]_partsVars => [Base!Next]_(Base!vars)
  BY OneAtATime DEF partsVars, threadsVars, Base!vars, Base!flags
<1> QED BY <1>1, <1>2, PTL DEF PartsSpec, Base!Spec

LEMMA ClientPart == PartsSpec => Client!Spec
<1>1. PartsInit => Client!Init
  BY DEF PartsInit
<1>2. [PartsNext]_partsVars => [Client!Next]_(Client!vars)
  BY OneAtATime DEF partsVars, clientVars, Client!vars, Client!client, Client!network,
  Client!tracker
<1> QED BY <1>1, <1>2, PTL DEF PartsSpec, Client!Spec

LEMMA WritePart == PartsSpec => Write!Spec
<1>1. PartsInit => Write!Init
  BY DEF PartsInit
<1>2. [PartsNext]_partsVars => [Write!Next]_(Write!vars)
  BY OneAtATime DEF partsVars, writeVars, Write!vars, Write!sender, Write!task, Write!net
<1> QED BY <1>1, <1>2, PTL DEF PartsSpec, Write!Spec

LEMMA AnswerPart == PartsSpec => Answer!Spec
<1>1. PartsInit => Answer!Init
  BY DEF PartsInit
<1>2. [PartsNext]_partsVars => [Answer!Next]_(Answer!vars)
  BY OneAtATime DEF partsVars, answerVars, Answer!vars, Answer!peers, Answer!serving
<1> QED BY <1>1, <1>2, PTL DEF PartsSpec, Answer!Spec

LEMMA HandlerPart == PartsSpec => Handler!Spec
<1>1. PartsInit => Handler!Init
  BY DEF PartsInit
<1>2. [PartsNext]_partsVars => [Handler!Next]_(Handler!vars)
  BY OneAtATime DEF partsVars, handlerVars, Handler!vars, Handler!threadVars, Handler!history
<1> QED BY <1>1, <1>2, PTL DEF PartsSpec, Handler!Spec

LEMMA RefPart == PartsSpec => Ref!Spec
<1>1. PartsInit => Ref!Init
  BY DEF PartsInit
<1>2. [PartsNext]_partsVars => [Ref!Next]_(Ref!vars)
  BY OneAtATime DEF partsVars, refsVars, Ref!vars, Ref!counts, Ref!slots
<1> QED BY <1>1, <1>2, PTL DEF PartsSpec, Ref!Spec

LEMMA ServicePart == PartsSpec => Service!Spec
<1>1. PartsInit => Service!Init
  BY DEF PartsInit
<1>2. [PartsNext]_partsVars => [Service!Next]_(Service!vars)
  BY OneAtATime DEF partsVars, serviceVars, Service!vars, Service!program, Service!maps,
                    Service!serving
<1> QED BY <1>1, <1>2, PTL DEF PartsSpec, Service!Spec

-----------------------------------------------------------------------------
(* Proved above, or in modules of their own.                               *)

\* For any number of calls that look up any names: no lookup thread uses the
\* object of a call that is over, and no call connects to an address nobody
\* looked up.
THEOREM LookupsStaySafe == PartsSpec => [](TypeOK /\ NoUseAfterDestroy /\ AddressLookedUp)
BY LookupPart, TypeCorrect, LookupSafe, AddressesLookedUp, PTL

\* Across any number of reconnects of a program that waits for the end of its
\* connection: a client at rest has one read task, of the connection it has; no
\* task outlives its connection; what is delivered is what was sent; and only
\* ended connections are closed.
THEOREM ClientIsSafe == PartsSpec => []ClientSafe
<1>1. Client!Patient
  BY PartsAssumption DEF Client!Patient
<1>2. Client!Spec => []Client!ClientSafe
  BY <1>1, Client!ClientIsSafe
<1>3. Client!ClientSafe <=> ClientSafe
  BY DEF ClientSafe
<1> QED BY ClientPart, <1>2, <1>3, PTL

\* For any number of threads that send at once, any messages and any room in
\* the kernel: what send_req returns says whether the message is kept, its
\* bytes go out in order and each once, and lines are not mixed before the
\* first error.
THEOREM WritesAreSafe == PartsSpec => []WriteSafe
<1>1. Write!Setting
  BY PartsAssumption DEF Write!Setting
<1>2. Write!Spec => []Write!WriteSafe
  BY <1>1, Write!WritesAreSafe
<1>3. Write!WriteSafe <=> WriteSafe
  BY DEF WriteSafe
<1> QED BY WritePart, <1>2, <1>3, PTL

\* A server that receives before its handler runs takes requests away only in
\* run(): otherwise it is a pipe, for any requests, batches and calls of run().
THEOREM PipeImplemented == PartsSpec => ImplementsPipe
<1>1. /\ Registered \subseteq Requests /\ Acked \subseteq Registered
      /\ MaxBatch \in Nat \ {0} /\ TRUE \in BOOLEAN /\ MaxRuns \in Nat
  BY PartsAssumption
<1>2. Handler!Spec => Handler!ImplementsPipe
  BY <1>1, Handler!HandlerImplementsPipe
<1> QED BY HandlerPart, <1>2 DEF ImplementsPipe

\* For any objects and any number of pointers on any number of threads: the
\* count is exact, nothing is used after its delete or deleted twice, and
\* nothing is leaked.
THEOREM PointersAreSafe == PartsSpec => []RefSafe
<1>1. Ref!Setting
  BY PartsAssumption DEF Ref!Setting, Ref!IsFiniteSet, IsFiniteSet
<1>2. Ref!Spec => []Ref!RefSafe
  BY <1>1, Ref!PointersAreSafe
<1>3. Ref!RefSafe <=> RefSafe
  BY DEF RefSafe
<1> QED BY RefPart, <1>2, <1>3, PTL

-----------------------------------------------------------------------------
(* Threads.                                                                *)

(***************************************************************************)
(* ThreadSafe is not inductive: that there is one thread says nothing of   *)
(* whether _bRunning knows of it, and it is _bRunning that keeps run()     *)
(* from making a second one.                                               *)
(***************************************************************************)

\* While _bRunning is set, _hThread is a thread that was created.
Handle == running => handle \in Spawned /\ baseThread[handle] # "none"

\* Whatever runs is what _bRunning and _hThread say.
Known == \A t \in Spawned : Base!Live(t) => running /\ handle = t

\* _bExited is that of the present thread.
Exits == running => (exited <=> baseThread[handle] \in {"exit", "done"})

\* stop() and wait_for_thread_end join a thread that was not detached.
Joinable == owner \in {"joining", "waiting"} => running /\ ~runOnce

\* A thread of RunOnce detaches itself before anything else.
Detached ==
    running /\ runOnce => attr[handle] = "detached" \/ baseThread[handle] = "begin"

ThreadInv == Base!TypeOK /\ Handle /\ Known /\ Exits /\ Joinable /\ Detached /\ Base!NoneLeaked

-----------------------------------------------------------------------------
LEMMA ThreadInit == Base!Init => ThreadInv
BY DEF Base!Init, ThreadInv, Base!TypeOK, Base!OwnerPC, Base!ThreadPC, Handle, Known,
       Base!Live, Exits,
       Joinable, Detached, Base!NoneLeaked

\* The owner's steps.
LEMMA OwnerStep == ThreadInv /\ Base!Owner => ThreadInv'
<1> SUFFICES ASSUME ThreadInv, Base!Owner PROVE ThreadInv'
  OBVIOUS
<1> USE DEF Base!TypeOK, Base!OwnerPC, Base!ThreadPC, Base!flags
<1>1. ASSUME NEW once \in BOOLEAN, Base!Start(once) PROVE ThreadInv'
  <2>1. CASE UNCHANGED baseThread /\ running' = FALSE /\ handle' = None
    BY <1>1, <2>1 DEF ThreadInv, Base!Start, Handle, Known, Base!Live, Exits, Joinable, Detached,
                      Base!NoneLeaked
  <2>2. ASSUME NEW t \in Spawned, Base!ThreadAt(t, "none", "begin"), handle' = t, running' = TRUE
        PROVE  ThreadInv'
    <3>1. \A u \in Spawned : baseThread'[u] = IF u = t THEN "begin" ELSE baseThread[u]
      BY <2>2 DEF ThreadInv, Base!ThreadAt
    <3>2. Base!TypeOK'
      BY <1>1, <2>2 DEF ThreadInv, Base!Start, Base!ThreadAt
    <3>3. \A u \in Spawned : ~Base!Live(u)
      BY <1>1 DEF ThreadInv, Base!Start, Known
    <3>4. Handle' /\ Known'
      BY <2>2, <3>1, <3>3 DEF Handle, Known, Base!Live
    <3>5. Exits' /\ Joinable' /\ Detached'
      BY <1>1, <2>2, <3>1 DEF Base!Start, Exits, Joinable, Detached
    <3>6. Base!NoneLeaked'
      BY <1>1, <3>1 DEF ThreadInv, Base!Start, Base!NoneLeaked
    <3> QED BY <3>2, <3>4, <3>5, <3>6 DEF ThreadInv
  <2> QED BY <1>1, <2>1, <2>2 DEF Base!Start
<1>2. CASE Base!StartAgain
  BY <1>2 DEF ThreadInv, Base!StartAgain, Handle, Known, Base!Live, Exits, Joinable, Detached,
  Base!NoneLeaked
<1>3. CASE Base!StopFlag
  BY <1>3 DEF ThreadInv, Base!StopFlag, Base!OwnerAt, Handle, Known, Base!Live, Exits,
  Joinable, Detached,
              Base!NoneLeaked
<1>4. CASE Base!Stop
  BY <1>4 DEF ThreadInv, Base!Stop, Base!OwnerAt, Handle, Known, Base!Live, Exits, Joinable,
  Detached, Base!NoneLeaked
<1>5. CASE Base!Join
  <2>1. running /\ handle \in Spawned /\ baseThread[handle] = "done"
    BY <1>5 DEF ThreadInv, Base!Join, Base!OwnerAt, Joinable, Handle
  <2>2. \A t \in Spawned : attr'[t] = IF t = handle THEN "joined" ELSE attr[t]
    BY <1>5 DEF ThreadInv, Base!Join
  <2>3. Base!TypeOK' /\ Joinable'
    BY <1>5 DEF ThreadInv, Base!Join, Base!OwnerAt, Joinable
  <2>4. Handle' /\ Exits' /\ Detached'
    BY <1>5 DEF Base!Join, Handle, Exits, Detached
  <2>5. Known'
    BY <1>5, <2>1 DEF ThreadInv, Base!Join, Known, Base!Live
  <2>6. Base!NoneLeaked'
    BY <1>5, <2>2 DEF ThreadInv, Base!Join, Base!NoneLeaked
  <2> QED BY <2>3, <2>4, <2>5, <2>6 DEF ThreadInv
<1>6. CASE Base!WaitEnd
  BY <1>6 DEF ThreadInv, Base!WaitEnd, Base!OwnerAt, Handle, Known, Base!Live, Exits, Joinable,
  Detached,
              Base!NoneLeaked
<1>7. CASE Base!WaitEndJoin
  <2>1. running /\ ~runOnce /\ handle \in Spawned
    BY <1>7 DEF ThreadInv, Base!WaitEndJoin, Base!OwnerAt, Joinable, Handle
  <2>2. \A t \in Spawned : attr'[t] = IF t = handle THEN "joined" ELSE attr[t]
    BY <1>7 DEF ThreadInv, Base!WaitEndJoin
  <2>3. Base!TypeOK' /\ Joinable' /\ Handle' /\ Exits'
    BY <1>7 DEF ThreadInv, Base!WaitEndJoin, Base!OwnerAt, Joinable, Handle, Exits
  <2>4. Known' /\ Detached'
    BY <1>7, <2>1 DEF ThreadInv, Base!WaitEndJoin, Known, Base!Live, Detached
  <2>5. Base!NoneLeaked'
    BY <1>7, <2>2 DEF ThreadInv, Base!WaitEndJoin, Base!NoneLeaked
  <2> QED BY <2>3, <2>4, <2>5 DEF ThreadInv
<1> QED BY <1>1, <1>2, <1>3, <1>4, <1>5, <1>6, <1>7 DEF Base!Owner, Base!Stopping

\* A step of a thread: it is the one the handle says.
LEMMA ThreadStep == ASSUME ThreadInv, NEW t \in Spawned, Base!Thread(t) PROVE ThreadInv'
<1> USE DEF Base!TypeOK, Base!OwnerPC, Base!ThreadPC, Base!flags
<1>1. running /\ handle = t /\ Base!Live(t)
  BY DEF ThreadInv, Known, Base!Live, Base!Thread, Base!ThreadAt, Base!ThreadBegin,
         Base!ThreadTest, Base!ThreadLoop,
         Base!ThreadExited, Base!ThreadDone
<1>2. ASSUME NEW at \in {"begin", "test", "loop", "leaving", "exit"},
             NEW to \in {"test", "loop", "leaving", "exit", "done"},
             Base!ThreadAt(t, at, to),
             UNCHANGED <<running, waitStop, runOnce, stopFlag, handle, owner>>,
             attr' = attr \/ (at = "begin" /\ attr' = [attr EXCEPT ![t] = "detached"]),
             runOnce => attr'[t] = "detached",
             exited' \in BOOLEAN,
             exited' <=> to \in {"exit", "done"}
      PROVE  ThreadInv'
  <2>1. \A u \in Spawned : baseThread'[u] = IF u = t THEN to ELSE baseThread[u]
    BY <1>2 DEF ThreadInv, Base!ThreadAt
  <2>2. \A u \in Spawned : u # t => attr'[u] = attr[u]
    BY <1>2 DEF ThreadInv
  <2>3. Base!TypeOK'
    BY <1>2 DEF ThreadInv, Base!ThreadAt
  <2>4. Handle' /\ Exits' /\ Joinable' /\ Detached'
    BY <1>1, <1>2, <2>1 DEF ThreadInv, Handle, Exits, Joinable, Detached
  <2>5. Known'
    BY <1>1, <1>2, <2>1 DEF ThreadInv, Known, Base!Live
  <2>6. Base!NoneLeaked'
    BY <1>1, <1>2, <2>1, <2>2 DEF ThreadInv, Base!NoneLeaked
  <2> QED BY <2>3, <2>4, <2>5, <2>6 DEF ThreadInv
<1>3. runOnce => attr[t] = "detached" \/ baseThread[t] = "begin"
  BY <1>1 DEF ThreadInv, Detached
<1>4. exited <=> baseThread[t] \in {"exit", "done"}
  BY <1>1 DEF ThreadInv, Exits
<1>5. CASE Base!ThreadBegin(t)
  BY <1>2, <1>3, <1>4, <1>5 DEF ThreadInv, Base!ThreadBegin, Base!ThreadAt
<1>6. CASE Base!ThreadTest(t)
  BY <1>2, <1>3, <1>4, <1>6 DEF ThreadInv, Base!ThreadTest, Base!ThreadAt
<1>7. CASE Base!ThreadLoop(t)
  BY <1>2, <1>3, <1>4, <1>7 DEF ThreadInv, Base!ThreadLoop, Base!ThreadAt
<1>8. CASE Base!ThreadExited(t)
  BY <1>2, <1>3, <1>4, <1>8 DEF ThreadInv, Base!ThreadExited, Base!ThreadAt
<1>9. CASE Base!ThreadDone(t)
  BY <1>2, <1>3, <1>4, <1>9 DEF ThreadInv, Base!ThreadDone, Base!ThreadAt
<1> QED BY <1>5, <1>6, <1>7, <1>8, <1>9 DEF Base!Thread

LEMMA ThreadStutter == ThreadInv /\ UNCHANGED Base!vars => ThreadInv'
BY DEF ThreadInv, Base!TypeOK, Base!OwnerPC, Base!ThreadPC, Handle, Known, Base!Live, Exits,
       Joinable, Detached,
       Base!NoneLeaked, Base!vars, Base!flags

\* The variables of the thread keep their types.
THEOREM ThreadsTyped == PartsSpec => []Base!TypeOK
<1>1. ThreadInv /\ [Base!Next]_(Base!vars) => ThreadInv'
  BY OwnerStep, ThreadStep, ThreadStutter DEF Base!Next
<1>2. ThreadInv => Base!TypeOK
  BY DEF ThreadInv
<1> QED BY ThreadPart, ThreadInit, <1>1, <1>2, PTL DEF Base!Spec

\* However often a base_thread is started, fails to start, ends by itself and
\* is stopped: at most one thread runs, is_running tells the truth, and no
\* ended thread waits for a join that will not come.
THEOREM ThreadsSafe == PartsSpec => []ThreadSafe
<1>1. ThreadInv /\ [Base!Next]_(Base!vars) => ThreadInv'
  BY OwnerStep, ThreadStep, ThreadStutter DEF Base!Next
<1>2. ThreadInv => ThreadSafe
  <2> SUFFICES ASSUME ThreadInv PROVE ThreadSafe
    OBVIOUS
  <2>1. Base!OneThread /\ Base!NoneLeaked
    BY DEF ThreadInv, Base!OneThread, Known
  <2>2. Base!IsRunning <=> \E t \in Spawned : Base!Live(t) /\ baseThread[t] # "exit"
    BY DEF ThreadInv, Base!IsRunning, Handle, Known, Base!Live, Exits
  <2> QED BY <2>1, <2>2 DEF ThreadSafe, Base!ThreadSafe, Base!IsRunningExact
<1> QED BY ThreadPart, ThreadInit, <1>1, <1>2, PTL DEF Base!Spec

-----------------------------------------------------------------------------
(* Services.                                                               *)

(***************************************************************************)
(* LookupsHold is not inductive: each operator[], of the worker and of the *)
(* program, finds the entry that the step before has found or made.        *)
(***************************************************************************)

\* Every object has its functions, and their numbers are those given out.
OfObjects == made \in Nat /\ funcs = [o \in Services |-> funcs[o]]

\* Every name has an object, or is about to be given one.
Named == \A name \in DOMAIN services : services[name] \in Services \cup {None}

\* What the program is about to fill is there, and not filled by anyone else.
Registering ==
    /\ registering \in {"idle", "store", "insert", "assign"}
    /\ registering = "store" =>
          /\ entry[1] \in DOMAIN services
          /\ entry[2] \in Services
    /\ registering \in {"insert", "assign"} =>
          /\ entry = <<entry[1], entry[2]>> /\ entry[1] \in Services
          /\ made > 0
    /\ registering = "insert" => entry[2] \notin DOMAIN funcs[entry[1]]
    /\ registering = "assign" =>
          /\ entry[2] \in DOMAIN funcs[entry[1]]
          /\ funcs[entry[1]][entry[2]] = Service!NoFunc

\* What find has found, operator[] finds again.
Found ==
    /\ invoker = "index" => request.rpc_service \in DOMAIN services
    /\ invoker = "invoke" => object \in Services \cup {None}
    /\ invoker \in {"copy", "call"} => object \in Services
    /\ invoker = "copy" => request.cmd \in DOMAIN funcs[object]

ServiceInv ==
    /\ OfObjects /\ Named /\ Registering /\ Found
    /\ Service!CallsTheRegistered /\ Service!EmptyIsPending

-----------------------------------------------------------------------------
\* operator[] of what is there changes nothing.
LEMMA BracketFinds ==
    ASSUME NEW f, NEW k \in DOMAIN f, NEW v PROVE Service!Bracket(f, k, v) = f
BY DEF Service!Bracket

LEMMA ServiceInit == Service!Init => ServiceInv
BY DEF Service!Init, ServiceInv, OfObjects, Named, Registering, Found,
       Service!CallsTheRegistered, Service!EmptyIsPending, Service!Empty

\* reg_services makes an entry, and fills it.
LEMMA RegServicesStep ==
    ASSUME ServiceInv, NEW name \in ServiceNames, NEW o \in Services,
           Service!RegServices(name, o)
    PROVE  ServiceInv'
<1> USE DEF ServiceInv, Service!RegServices, Service!ProgramAt, Service!serving
<1>1. /\ DOMAIN services' = DOMAIN services \cup {name}
      /\ \A n \in DOMAIN services : services'[n] = services[n]
      /\ name \notin DOMAIN services => services'[name] = None
  <2>1. services' = Service!Bracket(services, name, None)
    OBVIOUS
  <2> QED BY <2>1 DEF Service!Bracket, Service!With
<1>2. entry'[1] = name /\ entry'[2] = o /\ registering = "idle" /\ registering' = "store"
  OBVIOUS
<1>3. OfObjects' /\ Named'
  BY <1>1 DEF OfObjects, Named
<1>4. Registering'
  BY <1>1, <1>2 DEF Registering
<1>5. Found' /\ Service!CallsTheRegistered'
  BY <1>1 DEF Found, Service!CallsTheRegistered
<1>6. Service!EmptyIsPending'
  BY <1>1, <1>2 DEF Service!EmptyIsPending
<1> QED BY <1>3, <1>4, <1>5, <1>6

LEMMA StoreServiceStep == ServiceInv /\ Service!StoreService => ServiceInv'
<1> SUFFICES ASSUME ServiceInv, Service!StoreService PROVE ServiceInv'
  OBVIOUS
<1> USE DEF ServiceInv, Service!StoreService, Service!ProgramAt, Service!serving
<1>1. /\ registering = "store" /\ registering' = "idle"
      /\ entry[1] \in DOMAIN services /\ entry[2] \in Services
  BY DEF Registering
<1>2. /\ DOMAIN services' = DOMAIN services
      /\ services'[entry[1]] = entry[2]
      /\ \A n \in DOMAIN services : n # entry[1] => services'[n] = services[n]
  BY <1>1
<1>3. OfObjects' /\ Named'
  BY <1>1, <1>2 DEF OfObjects, Named
<1>4. Registering'
  BY <1>1 DEF Registering
<1>5. Found' /\ Service!CallsTheRegistered'
  BY <1>2 DEF Found, Service!CallsTheRegistered
<1>6. Service!EmptyIsPending'
  <2>1. None \notin Services
    BY PartsAssumption
  <2> QED BY <1>1, <1>2, <2>1 DEF Service!EmptyIsPending
<1> QED BY <1>3, <1>4, <1>5, <1>6

\* _reg_funcs looks for the name, makes an entry, and fills it.
LEMMA RegFuncsStep ==
    ASSUME ServiceInv, NEW o \in Services, NEW cmd \in Cmds, Service!RegFuncs(o, cmd)
    PROVE  ServiceInv'
<1> USE DEF ServiceInv, Service!RegFuncs, Service!ProgramAt, Service!serving, Service!maps
<1>1. /\ entry' = <<o, cmd>> /\ registering = "idle" /\ made' = made + 1
      /\ registering' \in {"idle", "insert"}
      /\ registering' = "insert" => cmd \notin DOMAIN funcs[o]
  OBVIOUS
<1>2. OfObjects' /\ Named'
  BY <1>1 DEF OfObjects, Named
<1>3. Registering'
  BY <1>1 DEF Registering, OfObjects
<1>4. Found' /\ Service!CallsTheRegistered'
  BY DEF Found, Service!CallsTheRegistered
<1>5. Service!EmptyIsPending'
  BY <1>1 DEF Service!EmptyIsPending
<1> QED BY <1>2, <1>3, <1>4, <1>5

LEMMA InsertFuncStep == ServiceInv /\ Service!InsertFunc => ServiceInv'
<1> SUFFICES ASSUME ServiceInv, Service!InsertFunc PROVE ServiceInv'
  OBVIOUS
<1> USE DEF ServiceInv, Service!InsertFunc, Service!ProgramAt, Service!serving
<1> DEFINE o == entry[1]
           cmd == entry[2]
<1>1. /\ registering = "insert" /\ registering' = "assign" /\ UNCHANGED entry
      /\ entry = <<o, cmd>> /\ o \in Services /\ cmd \notin DOMAIN funcs[o] /\ made > 0
  BY DEF Registering
<1>2. /\ funcs' = [funcs EXCEPT ![o] = Service!Bracket(funcs[o], cmd, Service!NoFunc)]
      /\ DOMAIN funcs = Services
  BY <1>1 DEF OfObjects
<1>3. /\ \A p \in Services : p # o => funcs'[p] = funcs[p]
      /\ funcs'[o] = Service!Bracket(funcs[o], cmd, Service!NoFunc)
      /\ DOMAIN funcs' = Services
  BY <1>1, <1>2
<1>4. /\ DOMAIN funcs'[o] = DOMAIN funcs[o] \cup {cmd}
      /\ \A c \in DOMAIN funcs[o] : funcs'[o][c] = funcs[o][c]
      /\ funcs'[o][cmd] = Service!NoFunc
  <2> DEFINE f == funcs[o]
             g == funcs'[o]
  <2>1. g = Service!Bracket(f, cmd, Service!NoFunc) /\ cmd \notin DOMAIN f
    BY <1>1, <1>3
  <2> HIDE DEF f, g
  <2>2. /\ DOMAIN g = DOMAIN f \cup {cmd} /\ g[cmd] = Service!NoFunc
        /\ \A c \in DOMAIN f : g[c] = f[c]
    BY <2>1 DEF Service!Bracket, Service!With
  <2> QED BY <2>2 DEF f, g
<1>5. OfObjects' /\ Named'
  BY <1>2, <1>3 DEF OfObjects, Named
<1>6. Registering'
  BY <1>1, <1>4 DEF Registering
<1>7. \A p \in Services : \A c \in DOMAIN funcs[p] :
        c \in DOMAIN funcs'[p] /\ funcs'[p][c] = funcs[p][c]
  BY <1>3, <1>4
<1>8. Found' /\ Service!CallsTheRegistered'
  BY <1>7 DEF Found, Service!CallsTheRegistered
<1>9. Service!EmptyIsPending'
  <2>1. ASSUME NEW p \in Services, NEW c \in DOMAIN funcs'[p], funcs'[p][c] = Service!NoFunc
        PROVE  entry = <<p, c>>
    <3>1. CASE p = o
      BY <1>1, <1>4, <2>1, <3>1 DEF Service!EmptyIsPending
    <3>2. CASE p # o
      BY <1>1, <1>3, <2>1, <3>2 DEF Service!EmptyIsPending
    <3> QED BY <3>1, <3>2
  <2>2. \A name \in DOMAIN services : services[name] # None
    BY <1>1 DEF Service!EmptyIsPending
  <2> QED BY <1>1, <2>1, <2>2 DEF Service!EmptyIsPending
<1> QED BY <1>5, <1>6, <1>8, <1>9

LEMMA AssignFuncStep == ServiceInv /\ Service!AssignFunc => ServiceInv'
<1> SUFFICES ASSUME ServiceInv, Service!AssignFunc PROVE ServiceInv'
  OBVIOUS
<1> USE DEF ServiceInv, Service!AssignFunc, Service!ProgramAt, Service!serving
<1> DEFINE o == entry[1]
           cmd == entry[2]
<1>1. /\ registering = "assign" /\ registering' = "idle"
      /\ entry = <<o, cmd>> /\ o \in Services /\ cmd \in DOMAIN funcs[o]
      /\ funcs[o][cmd] = Service!NoFunc /\ made # Service!NoFunc
  BY DEF Registering, OfObjects, Service!NoFunc
<1>2. funcs' = [funcs EXCEPT ![o] = [funcs[o] EXCEPT ![cmd] = made]] /\ DOMAIN funcs = Services
  BY <1>1 DEF OfObjects
<1>3. /\ \A p \in Services : p # o => funcs'[p] = funcs[p]
      /\ funcs'[o] = [funcs[o] EXCEPT ![cmd] = made]
      /\ DOMAIN funcs' = Services
  BY <1>1, <1>2
<1>4. /\ DOMAIN funcs'[o] = DOMAIN funcs[o] /\ funcs'[o][cmd] = made
      /\ \A c \in DOMAIN funcs[o] : c # cmd => funcs'[o][c] = funcs[o][c]
  BY <1>1, <1>3
<1>5. OfObjects' /\ Named'
  BY <1>2, <1>3 DEF OfObjects, Named
<1>6. Registering'
  BY <1>1 DEF Registering
<1>7. \A p \in Services : \A c \in DOMAIN funcs[p] :
        /\ c \in DOMAIN funcs'[p]
        /\ funcs[p][c] # Service!NoFunc => funcs'[p][c] = funcs[p][c]
  BY <1>1, <1>3, <1>4
<1>8. Found' /\ Service!CallsTheRegistered'
  BY <1>7 DEF Found, Service!CallsTheRegistered
<1>9. Service!EmptyIsPending'
  <2>1. ASSUME NEW p \in Services, NEW c \in DOMAIN funcs'[p] PROVE funcs'[p][c] # Service!NoFunc
    <3>1. CASE p = o
      BY <1>1, <1>4, <2>1, <3>1 DEF Service!EmptyIsPending
    <3>2. CASE p # o
      <4>1. c \in DOMAIN funcs[p] /\ funcs'[p][c] = funcs[p][c]
        BY <1>3, <2>1, <3>2
      <4>2. entry # <<p, c>>
        BY <1>1, <3>2
      <4> QED BY <4>1, <4>2 DEF Service!EmptyIsPending
    <3> QED BY <3>1, <3>2
  <2>2. \A name \in DOMAIN services : services[name] # None
    BY <1>1 DEF Service!EmptyIsPending
  <2> QED BY <2>1, <2>2 DEF Service!EmptyIsPending
<1> QED BY <1>5, <1>6, <1>8, <1>9

\* A registration leaves what the worker has found as it is.
LEMMA RegisterStep == ServiceInv /\ Service!Program => ServiceInv'
BY RegServicesStep, StoreServiceStep, RegFuncsStep, InsertFuncStep, AssignFuncStep
   DEF Service!Program

\* The worker inserts nothing: its operator[] is only asked for what is there.
LEMMA WorkerReads == ServiceInv /\ Service!Worker => UNCHANGED Service!program
<1> SUFFICES ASSUME ServiceInv, Service!Worker PROVE UNCHANGED Service!program
  OBVIOUS
<1> USE DEF Service!program, Service!maps, Service!WorkerAt
<1>1. CASE Service!Index
  <2>1. request.rpc_service \in DOMAIN services
    BY <1>1 DEF ServiceInv, Found, Service!Index
  <2>2. UNCHANGED services
    BY <1>1, <2>1, BracketFinds DEF Service!Index
  <2> QED BY <1>1, <2>2 DEF Service!Index
<1>2. CASE Service!CopyFunc
  <2>1. /\ object \in Services /\ request.cmd \in DOMAIN funcs[object]
        /\ funcs = [o \in Services |-> funcs[o]]
    BY <1>2 DEF ServiceInv, Found, OfObjects, Service!CopyFunc
  <2>2. funcs' = [funcs EXCEPT ![object] = funcs[object]]
    BY <1>2, <2>1, BracketFinds DEF Service!CopyFunc
  <2>3. UNCHANGED funcs
    BY <2>1, <2>2
  <2> QED BY <1>2, <2>3 DEF Service!CopyFunc
<1>3. CASE \/ \E name \in ServiceNames, cmd \in Cmds \cup {None} : Service!Take(name, cmd)
           \/ Service!Find \/ Service!Invoke \/ Service!Call \/ Service!Answer
  BY <1>3 DEF Service!Take, Service!Find, Service!Invoke, Service!Call, Service!Answer
<1> QED BY <1>1, <1>2, <1>3 DEF Service!Worker

LEMMA ServiceStep == ServiceInv /\ Service!Worker => ServiceInv'
<1> SUFFICES ASSUME ServiceInv, Service!Worker PROVE ServiceInv'
  OBVIOUS
<1>1. UNCHANGED <<services, funcs, made, registering, entry>>
  BY WorkerReads DEF Service!program, Service!maps
<1>2. OfObjects' /\ Named' /\ Registering' /\ Service!EmptyIsPending'
  BY <1>1 DEF ServiceInv, OfObjects, Named, Registering, Service!EmptyIsPending
<1> USE DEF ServiceInv, Service!WorkerAt, Found, Service!CallsTheRegistered
<1>3. CASE \E name \in ServiceNames, cmd \in Cmds \cup {None} : Service!Take(name, cmd)
  BY <1>2, <1>3 DEF Service!Take
<1>4. CASE Service!Find
  BY <1>1, <1>2, <1>4 DEF Service!Find
<1>5. CASE Service!Index
  BY <1>1, <1>2, <1>5 DEF Service!Index, Named
<1>6. CASE Service!Invoke
  BY <1>1, <1>2, <1>6 DEF Service!Invoke
<1>7. CASE Service!CopyFunc
  BY <1>1, <1>2, <1>7 DEF Service!CopyFunc
<1>8. CASE Service!Call
  BY <1>1, <1>2, <1>8 DEF Service!Call
<1>9. CASE Service!Answer
  BY <1>1, <1>2, <1>9 DEF Service!Answer
<1> QED BY <1>3, <1>4, <1>5, <1>6, <1>7, <1>8, <1>9 DEF Service!Worker

LEMMA ServiceStutter == ServiceInv /\ UNCHANGED Service!vars => ServiceInv'
BY DEF ServiceInv, OfObjects, Named, Registering, Found, Service!CallsTheRegistered,
       Service!EmptyIsPending, Service!vars, Service!program, Service!maps, Service!serving

\* However the steps of the program's registrations come between those of the
\* worker's lookups: it runs the function that is registered for the request,
\* or the empty one of an entry not yet filled; its operator[] inserts
\* nothing; and an entry without a value is one that is just being registered.
THEOREM LookupsAreSafe == PartsSpec => LookupsHold
<1>1. ServiceInv /\ [Service!Next]_(Service!vars) => ServiceInv'
  BY RegisterStep, ServiceStep, ServiceStutter DEF Service!Next
<1>2. ServiceInv => Service!CallsTheRegistered /\ Service!EmptyIsPending
  BY DEF ServiceInv
<1>3. ServiceInv /\ [Service!Next]_(Service!vars)
         => [UNCHANGED Service!serving \/ UNCHANGED Service!maps]_(Service!vars)
  <2>1. Service!Program => UNCHANGED Service!serving
    BY DEF Service!Program, Service!RegServices, Service!StoreService, Service!RegFuncs,
           Service!InsertFunc, Service!AssignFunc
  <2> QED BY <2>1, WorkerReads DEF Service!Next, Service!program
<1> QED BY ServicePart, ServiceInit, <1>1, <1>2, <1>3, PTL
        DEF LookupsHold, Service!Spec, Service!LookupsHold, Service!WorkerOnlyReads

-----------------------------------------------------------------------------
(***************************************************************************)
(* Answers.  AnswerSafe is not inductive: that the first client of the     *)
(* list is the one that asked follows from there being no other, and that  *)
(* it is still there from its waiting for the answer.                      *)
(***************************************************************************)

Present(c) == serverPeer[c] \in {"up", "leaving"}

AnswerTypes ==
    /\ serverPeer \in [Clients -> {"away", "up", "leaving", "gone"}]
    /\ asked \in [Clients -> Nat] /\ answered \in [Clients -> Nat]
    /\ list \in Seq(Clients) /\ queue \in Seq(Clients)
    /\ accepting \in {"rest", "push", "remove"}
    /\ answering \in {"idle", "front", "send"}

\* One client is connected, and is the list unless it is about to be pushed.
OneClient ==
    /\ \A c, d \in Clients : Present(c) /\ Present(d) => c = d
    /\ accepting = "push" =>
          /\ subject \in Clients /\ Present(subject)
          /\ list = <<>> /\ queue = <<>> /\ answering = "idle"
    /\ accepting = "remove" => subject \in Clients /\ serverPeer[subject] = "leaving"
    /\ accepting # "push" => \A c \in Clients : Present(c) => list = <<c>>
    /\ (\A c \in Clients : ~Present(c)) => list = <<>>

Serving == IF answering = "idle" THEN 0 ELSE 1

\* All requests under way are its requests, and it waits for their answers.
ItsRequests ==
    /\ \A i \in 1..Len(queue) : serverPeer[queue[i]] = "up"
    /\ answering # "idle" => asker \in Clients /\ serverPeer[asker] = "up"
    /\ answering = "send" => front = asker
    /\ \A c \in Clients :
         IF serverPeer[c] = "up" THEN answered[c] + (Len(queue) + Serving) <= asked[c]
                                 ELSE asked[c] = answered[c]

AnswerInv == AnswerTypes /\ OneClient /\ ItsRequests

LEMMA AnswerInit == Answer!Init => AnswerInv
BY DEF Answer!Init, AnswerInv, AnswerTypes, OneClient, ItsRequests, Present, Serving

\* While a client is up all requests are its own.
LEMMA UpAlone ==
    ASSUME AnswerInv, NEW c \in Clients, serverPeer[c] = "up"
    PROVE  /\ \A i \in 1..Len(queue) : queue[i] = c
           /\ answering # "idle" => asker = c
           /\ \A d \in Clients : d # c => ~Present(d)
<1>1. \A i \in 1..Len(queue) : queue[i] \in Clients
  BY DEF AnswerInv, AnswerTypes
<1> QED BY <1>1 DEF AnswerInv, OneClient, ItsRequests, Present

LEMMA SameCardinality == \A S : Answer!Cardinality(S) = Cardinality(S)
BY DEF Answer!Cardinality, Cardinality

\* The requests of a client that were received.
LEMMA ReceivedLaw ==
    ASSUME AnswerInv, NEW c \in Clients
    PROVE  Answer!Received(c) =
             answered[c] + (IF serverPeer[c] = "up" THEN Len(queue) + Serving ELSE 0)
<1> DEFINE Of == {i \in 1..Len(queue) : queue[i] = c}
<1>1. Len(queue) \in Nat /\ answered[c] \in Nat
  BY DEF AnswerInv, AnswerTypes
<1>2. CASE serverPeer[c] = "up"
  <2>1. Of = 1..Len(queue)
    BY <1>2, UpAlone
  <2>2. Cardinality(1..Len(queue)) = Len(queue)
    <3>1. \A n \in Nat : Cardinality(1..n) = n
      <4> SUFFICES ASSUME NEW n \in Nat PROVE Cardinality(1..n) = n
        OBVIOUS
      <4>1. n \in Int /\ 1 \in Int
        OBVIOUS
      <4>2. Cardinality(1..n) = IF 1 > n THEN 0 ELSE n - 1 + 1
        BY <4>1, FS_Interval
      <4> QED BY <4>2
    <3> QED BY <1>1, <3>1
  <2>3. answering # "idle" => asker = c
    BY <1>2, UpAlone
  <2> HIDE DEF Of
  <2>4. Cardinality(Of) = Len(queue)
    BY <2>1, <2>2
  <2>5. Answer!Cardinality({i \in 1..Len(queue) : queue[i] = c}) = Len(queue)
    BY <2>4, SameCardinality DEF Of
  <2>6. (IF answering # "idle" /\ asker = c THEN 1 ELSE 0) = Serving
    BY <2>3 DEF Serving
  <2>7. Answer!Received(c) = answered[c] + Len(queue) + Serving
    BY <2>5, <2>6 DEF Answer!Received
  <2>8. Serving \in Nat
    BY DEF Serving
  <2> QED BY <1>1, <1>2, <2>7, <2>8
<1>3. CASE serverPeer[c] # "up"
  <2>1. Of = {}
    BY <1>3 DEF AnswerInv, ItsRequests
  <2>2. ~(answering # "idle" /\ asker = c)
    BY <1>3 DEF AnswerInv, ItsRequests
  <2>3. Answer!Cardinality({i \in 1..Len(queue) : queue[i] = c}) = 0
    BY <2>1, FS_EmptySet, SameCardinality
  <2> QED BY <1>1, <1>3, <2>2, <2>3 DEF Answer!Received
<1> QED BY <1>2, <1>3

\* The clients.
LEMMA AskStep == ASSUME AnswerInv, NEW c \in Clients, Answer!Ask(c) PROVE AnswerInv'
<1> USE DEF Answer!serving
<1>1. AnswerTypes'
  BY DEF AnswerInv, AnswerTypes, Answer!Ask
<1>2. OneClient'
  BY DEF AnswerInv, OneClient, Present, Answer!Ask
<1>3. ItsRequests'
  BY DEF AnswerInv, AnswerTypes, ItsRequests, Serving, Answer!Ask
<1> QED BY <1>1, <1>2, <1>3 DEF AnswerInv

\* Who has got all its answers has no request under way.
LEMMA LeaveStep == ASSUME AnswerInv, NEW c \in Clients, Answer!Leave(c) PROVE AnswerInv'
<1> USE DEF Answer!serving
<1>1. Len(queue) = 0 /\ answering = "idle"
  <2>1. Len(queue) \in Nat /\ answered[c] \in Nat /\ Serving \in Nat
    BY DEF AnswerInv, AnswerTypes, Serving
  <2>2. answered[c] + (Len(queue) + Serving) <= answered[c]
    BY DEF AnswerInv, ItsRequests, Answer!Leave
  <2>3. Len(queue) = 0 /\ Serving = 0
    BY <2>1, <2>2
  <2> QED BY <2>3 DEF Serving
<1>2. AnswerTypes'
  BY DEF AnswerInv, AnswerTypes, Answer!Leave
<1>3. \A d \in Clients : Present(d)' <=> Present(d)
  BY DEF AnswerInv, AnswerTypes, Present, Answer!Leave
<1>4. OneClient'
  BY <1>3 DEF AnswerInv, AnswerTypes, OneClient, Answer!Leave
<1>5. ItsRequests'
  BY <1>1 DEF AnswerInv, AnswerTypes, ItsRequests, Serving, Answer!Leave
<1> QED BY <1>2, <1>4, <1>5 DEF AnswerInv

LEMMA AcceptStep == ASSUME AnswerInv, NEW c \in Clients, Answer!Accept(c) PROVE AnswerInv'
<1> USE DEF Answer!serving
<1>1. \A d \in Clients : ~Present(d)
  BY DEF Present, Answer!Accept
<1>2. list = <<>> /\ answering = "idle"
  BY <1>1 DEF AnswerInv, OneClient, ItsRequests, Present
<1>3. queue = <<>>
  <2>1. \A i \in 1..Len(queue) : queue[i] \in Clients /\ Present(queue[i])
    BY DEF AnswerInv, AnswerTypes, ItsRequests, Present
  <2>2. 1..Len(queue) = {}
    BY <1>1, <2>1
  <2>3. Len(queue) \in Nat /\ queue \in Seq(Clients)
    BY DEF AnswerInv, AnswerTypes
  <2>4. Len(queue) = 0
    <3>1. Len(queue) \in Nat /\ (Len(queue) >= 1 => 1 \in 1..Len(queue))
      BY <2>3
    <3> QED BY <2>2, <3>1
  <2> QED BY <2>3, <2>4, EmptySeq
<1>4. serverPeer' = [serverPeer EXCEPT ![c] = "up"] /\ accepting' = "push" /\ subject' = c
  BY DEF Answer!Accept, Answer!TrackerAt
<1>5. UNCHANGED <<asked, answered, list, queue, answering, asker, front>>
  BY DEF Answer!Accept
<1>6. AnswerTypes'
  BY <1>4, <1>5 DEF AnswerInv, AnswerTypes
<1>7. \A d \in Clients : Present(d)' <=> d = c
  BY <1>1, <1>4 DEF AnswerInv, AnswerTypes, Present
<1>8. OneClient'
  BY <1>2, <1>3, <1>4, <1>5, <1>7 DEF OneClient
<1>9. ItsRequests'
  <2>1. Len(queue) = 0 /\ Len(queue') = 0 /\ Serving' = 0
    BY <1>2, <1>3, <1>5 DEF Serving
  <2>2. \A d \in Clients : asked[d] = answered[d]
    BY <1>1 DEF AnswerInv, ItsRequests, Present
  <2>3. \A d \in Clients : answered[d] \in Nat
    BY DEF AnswerInv, AnswerTypes
  <2> QED BY <1>2, <1>5, <2>1, <2>2, <2>3 DEF ItsRequests
<1> QED BY <1>6, <1>8, <1>9 DEF AnswerInv

\* The tracker thread.
LEMMA PushStep == ASSUME AnswerInv, Answer!Push PROVE AnswerInv'
<1> USE DEF Answer!peers, Answer!serving
<1>1. list' = <<subject>> /\ subject \in Clients /\ Present(subject)
  BY DEF AnswerInv, OneClient, Answer!Push, Answer!TrackerAt
<1>2. accepting' = "rest" /\ UNCHANGED <<serverPeer, asked, answered, subject, queue, answering,
                                          asker, front>>
  BY DEF Answer!Push, Answer!TrackerAt
<1>3. AnswerTypes'
  BY <1>1, <1>2 DEF AnswerInv, AnswerTypes
<1>4. OneClient'
  <2>1. \A d \in Clients : Present(d)' <=> Present(d)
    BY <1>2 DEF Present
  <2>2. \A d \in Clients : Present(d) => d = subject
    BY <1>1 DEF AnswerInv, OneClient
  <2> QED BY <1>1, <1>2, <2>1, <2>2 DEF OneClient
<1>5. ItsRequests'
  BY <1>2 DEF AnswerInv, ItsRequests, Serving
<1> QED BY <1>3, <1>4, <1>5 DEF AnswerInv

\* Only of who has not got all its answers is anything on the way.
LEMMA ReceiveStep == ASSUME AnswerInv, NEW c \in Clients, Answer!Receive(c) PROVE AnswerInv'
<1> USE DEF Answer!peers
<1>1. queue' = Append(queue, c) /\ accepting = "rest" /\ accepting' = "rest"
      /\ UNCHANGED <<serverPeer, asked, answered, list, subject, answering, asker, front>>
  BY DEF Answer!Receive, Answer!TrackerAt
<1>2. asked[c] \in Nat /\ answered[c] \in Nat /\ Len(queue) \in Nat /\ Serving \in Nat
  BY DEF AnswerInv, AnswerTypes, Serving
<1>3. Answer!Received(c) < asked[c]
  BY DEF Answer!Receive
<1>4. serverPeer[c] = "up" /\ answered[c] + (Len(queue) + Serving) < asked[c]
  BY <1>2, <1>3, ReceivedLaw DEF AnswerInv, ItsRequests
<1>5. AnswerTypes'
  BY <1>1 DEF AnswerInv, AnswerTypes
<1>6. OneClient'
  BY <1>1 DEF AnswerInv, OneClient, Present
<1>7. Len(queue') = Len(queue) + 1
      /\ \A i \in 1..Len(queue') : queue'[i] = IF i = Len(queue) + 1 THEN c ELSE queue[i]
  <2>1. queue \in Seq(Clients)
    BY DEF AnswerInv, AnswerTypes
  <2> QED BY <1>1, <1>2, <2>1
<1>8. \A i \in 1..Len(queue') : serverPeer'[queue'[i]] = "up"
  BY <1>1, <1>2, <1>4, <1>7 DEF AnswerInv, ItsRequests
<1>9. \A d \in Clients : d # c => serverPeer[d] # "up"
  BY <1>4, UpAlone DEF Present
<1>10. Serving' = Serving
  BY <1>1 DEF Serving
<1>11. \A d \in Clients :
         IF serverPeer[d]' = "up" THEN answered[d]' + (Len(queue)' + Serving') <= asked[d]'
                                  ELSE asked[d]' = answered[d]'
  BY <1>1, <1>2, <1>4, <1>7, <1>9, <1>10 DEF AnswerInv, ItsRequests
<1>12. ItsRequests'
  BY <1>1, <1>8, <1>11 DEF AnswerInv, ItsRequests
<1> QED BY <1>5, <1>6, <1>12 DEF AnswerInv

LEMMA DisconnectStep ==
    ASSUME AnswerInv, NEW c \in Clients, Answer!Disconnect(c) PROVE AnswerInv'
<1> USE DEF Answer!peers, Answer!serving
<1>1. AnswerTypes' /\ OneClient'
  BY DEF AnswerInv, AnswerTypes, OneClient, Present, Answer!Disconnect, Answer!TrackerAt
<1>2. ItsRequests'
  BY DEF AnswerInv, ItsRequests, Serving, Answer!Disconnect
<1> QED BY <1>1, <1>2 DEF AnswerInv

\* It is found, and the list is empty then.
LEMMA RemoveStep == ASSUME AnswerInv, Answer!Remove PROVE AnswerInv'
<1> USE DEF Answer!serving
<1>1. subject \in Clients /\ serverPeer[subject] = "leaving" /\ list = <<subject>>
  BY DEF AnswerInv, OneClient, Present, Answer!Remove, Answer!TrackerAt
<1>2. list' = <<>>
  <2>1. PICK i \in 1..Len(list) :
          list' = SubSeq(list, 1, i - 1) \o SubSeq(list, i + 1, Len(list))
    BY <1>1 DEF Answer!Remove
  <2>2. Len(list) = 1 /\ i = 1
    BY <1>1
  <2> QED BY <1>1, <2>1, <2>2
<1>3. serverPeer' = [serverPeer EXCEPT ![subject] = "gone"] /\ accepting' = "rest"
      /\ UNCHANGED <<asked, answered, subject, queue, answering, asker, front>>
  BY DEF Answer!Remove, Answer!TrackerAt
<1>4. AnswerTypes'
  BY <1>1, <1>2, <1>3 DEF AnswerInv, AnswerTypes
<1>5. \A d \in Clients : ~Present(d)'
  BY <1>1, <1>3 DEF AnswerInv, AnswerTypes, OneClient, Present
<1>6. OneClient'
  BY <1>2, <1>3, <1>5 DEF OneClient
<1>7. ItsRequests'
  BY <1>1, <1>3 DEF AnswerInv, AnswerTypes, ItsRequests, Serving
<1> QED BY <1>4, <1>6, <1>7 DEF AnswerInv

\* The worker.
LEMMA TakeStep == ASSUME AnswerInv, Answer!Take PROVE AnswerInv'
<1> USE DEF Answer!peers
<1>1. answering = "idle" /\ answering' = "front" /\ asker' = Head(queue)
      /\ queue' = Tail(queue) /\ queue # <<>>
      /\ UNCHANGED <<serverPeer, asked, answered, list, accepting, subject, front>>
  BY DEF Answer!Take, Answer!WorkerAt
<1>2. queue \in Seq(Clients)
  BY DEF AnswerInv, AnswerTypes
<1>3. /\ Head(queue) = queue[1] /\ Len(queue) \in Nat \ {0} /\ Len(queue') = Len(queue) - 1
      /\ queue' \in Seq(Clients) /\ \A i \in 1..Len(queue') : queue'[i] = queue[i + 1]
  BY <1>1, <1>2
<1>4. queue[1] \in Clients /\ serverPeer[queue[1]] = "up"
  BY <1>2, <1>3 DEF AnswerInv, ItsRequests
<1>5. AnswerTypes'
  BY <1>1, <1>3 DEF AnswerInv, AnswerTypes
<1>6. OneClient'
  BY <1>1 DEF AnswerInv, OneClient, Present
<1>7. Serving = 0 /\ Serving' = 1
  BY <1>1 DEF Serving
<1>8. \A i \in 1..Len(queue') : serverPeer'[queue'[i]] = "up"
  BY <1>1, <1>3 DEF AnswerInv, ItsRequests
<1>9. Len(queue') + Serving' = Len(queue) + Serving
  BY <1>3, <1>7
<1>10. ItsRequests'
  BY <1>1, <1>3, <1>4, <1>8, <1>9 DEF AnswerInv, ItsRequests
<1> QED BY <1>5, <1>6, <1>10 DEF AnswerInv

\* Who waits for an answer is the one client of the list.
LEMMA Listed ==
    ASSUME AnswerInv, answering # "idle"
    PROVE  /\ accepting = "rest" /\ asker \in Clients /\ serverPeer[asker] = "up"
           /\ list = <<asker>>
<1>1. asker \in Clients /\ serverPeer[asker] = "up" /\ Present(asker)
  BY DEF AnswerInv, ItsRequests, Present
<1>2. accepting # "push"
  BY DEF AnswerInv, OneClient
<1>3. accepting # "remove"
  BY <1>1 DEF AnswerInv, OneClient, Present
<1> QED BY <1>1, <1>2, <1>3 DEF AnswerInv, AnswerTypes, OneClient

LEMMA FrontStep == ASSUME AnswerInv, Answer!Front PROVE AnswerInv'
<1> USE DEF Answer!peers
<1>1. answering = "front" /\ answering' = "send"
      /\ UNCHANGED <<serverPeer, asked, answered, list, accepting, subject, queue, asker>>
  BY DEF Answer!Front, Answer!WorkerAt
<1>2. front' = asker
  BY <1>1, Listed DEF Answer!Front
<1>3. AnswerTypes' /\ OneClient'
  BY <1>1 DEF AnswerInv, AnswerTypes, OneClient, Present
<1>4. ItsRequests'
  BY <1>1, <1>2 DEF AnswerInv, ItsRequests, Serving
<1> QED BY <1>3, <1>4 DEF AnswerInv

LEMMA SendStep == ASSUME AnswerInv, None \notin Clients, Answer!Send PROVE AnswerInv'
<1>1. answering = "send" /\ answering' = "idle"
      /\ UNCHANGED <<serverPeer, asked, list, accepting, subject, queue, asker, front>>
  BY DEF Answer!Send, Answer!WorkerAt
<1>2. front = asker /\ asker \in Clients /\ serverPeer[asker] = "up" /\ accepting = "rest"
  BY <1>1, Listed DEF AnswerInv, ItsRequests
<1>3. answered' = [answered EXCEPT ![asker] = @ + 1]
  BY <1>2 DEF Answer!Send
<1>4. AnswerTypes' /\ OneClient'
  BY <1>1, <1>2, <1>3 DEF AnswerInv, AnswerTypes, OneClient, Present
<1>5. \A d \in Clients : d # asker => serverPeer[d] # "up"
  BY <1>2, UpAlone DEF Present
<1>6. answered[asker] \in Nat /\ Len(queue) \in Nat /\ asked[asker] \in Nat
  BY <1>2 DEF AnswerInv, AnswerTypes
<1>7. Serving = 1 /\ Serving' = 0
  BY <1>1 DEF Serving
<1>8. answered[asker]' = answered[asker] + 1
      /\ \A d \in Clients : d # asker => answered[d]' = answered[d]
  <2>1. answered \in [Clients -> Nat]
    BY DEF AnswerInv, AnswerTypes
  <2> QED BY <1>1, <1>2, <1>3, <2>1
<1>9. \A d \in Clients :
        IF serverPeer[d]' = "up" THEN answered[d]' + (Len(queue)' + Serving') <= asked[d]'
                                 ELSE asked[d]' = answered[d]'
  BY <1>1, <1>2, <1>5, <1>6, <1>7, <1>8 DEF AnswerInv, ItsRequests
<1>10. ItsRequests'
  BY <1>1, <1>9 DEF AnswerInv, ItsRequests
<1> QED BY <1>4, <1>10 DEF AnswerInv

LEMMA AnswerStutter == AnswerInv /\ UNCHANGED Answer!vars => AnswerInv'
BY DEF AnswerInv, AnswerTypes, OneClient, ItsRequests, Present, Serving, Answer!vars,
       Answer!peers, Answer!serving

\* An answer goes to the client that asked, whatever clients come and go, and
\* the worker finds a client in the list although it does not lock it.
THEOREM AnswersAreSafe == PartsSpec => []AnswerSafe
<1>1. None \notin Clients
  BY PartsAssumption
<1>2. AnswerInv /\ [Answer!Next]_(Answer!vars) => AnswerInv'
  BY <1>1, AskStep, LeaveStep, AcceptStep, PushStep, ReceiveStep, DisconnectStep, RemoveStep,
     TakeStep, FrontStep, SendStep, AnswerStutter
     DEF Answer!Next, Answer!Tracker, Answer!Worker
<1>3. AnswerInv => AnswerSafe
  <2> SUFFICES ASSUME AnswerInv PROVE AnswerSafe
    OBVIOUS
  <2>1. Answer!FrontSafe
    BY Listed DEF Answer!FrontSafe
  <2>2. Answer!AnswersTheAsker
    BY Listed DEF AnswerInv, ItsRequests, Answer!AnswersTheAsker
  <2> QED BY <2>1, <2>2 DEF AnswerSafe, Answer!AnswerSafe
<1> QED BY AnswerPart, AnswerInit, <1>2, <1>3, PTL DEF Answer!Spec

=============================================================================
