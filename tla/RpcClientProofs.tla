-------------------------- MODULE RpcClientProofs ---------------------------
(***************************************************************************)
(* Why a client that reconnects when it may keeps its socket, its read     *)
(* task and its data together, over any number of connections.             *)
(***************************************************************************)
EXTENDS RpcClient, SequenceTheorems, FiniteSetTheorems,
        WellFoundedInduction, TLAPS

\* The program calls start_connect again only after a failure or after
\* _on_disconnect; client_reconnect shows what becomes of one that does not.
Patient == MaxConns \in Nat /\ Eager = FALSE

(***************************************************************************)
(* io_fd::_mutex is not what keeps the two threads apart: half of the      *)
(* steps are outside of it.  It is that reading is a turn that one thread  *)
(* has at a time.  The program has it from its connect to the add_task at  *)
(* the end of its _read; then the task has it, and the tracker, when it    *)
(* runs the task, until it has added the next one.  With the end of the    *)
(* connection the turn is gone, and only then may the program connect      *)
(* again.  The mutex is never contended.                                   *)
(***************************************************************************)

ReadSteps == {"enter", "read", "deliver", "add", "noticelocked", "closelocked"}
ProgramPC == {"rest", "disconnect", "socket", "connect"} \cup ReadSteps
TrackerPC == {"rest", "select", "task", "finish", "handon", "notice", "close"} \cup ReadSteps

ReadTask  == [id : Nat, fd : Numbers, conn : Conns]
PeerState == {"none", "connecting", "failed", "up", "closed"}

\* The tracker thread never dies.
Places ==
    /\ pc \in [Threads -> ProgramPC \cup TrackerPC]
    /\ pc["program"] \in ProgramPC /\ pc["tracker"] \in TrackerPC
    /\ mutex \in Threads \cup {"free"}

Sockets ==
    /\ fd \in 0..MaxConns /\ status \in BOOLEAN /\ noticed \in BOOLEAN
    /\ made \in 0..MaxConns /\ files \in [Numbers -> 0..MaxConns]
    /\ peer \in [Conns -> PeerState]

Chunks ==
    /\ unread \in [Conns -> Seq(Nat)] /\ sent \in [Conns -> Nat]
    /\ hand \in [Threads -> [conn : 0..MaxConns, chunks : Seq(Nat)]]
    /\ log \in [Conns -> Seq(Nat)]

Tasks == tasks \subseteq ReadTask /\ copy \subseteq ReadTask /\ ids \in Nat

\* Every variable has its type.
TypeOK == Places /\ Sockets /\ Chunks /\ Tasks

\* The client has a connection, as far as it knows.
Online == Now # 0 /\ peer[Now] \in {"up", "closed"}

\* Descriptors are given out from the lowest on, so that there are never more
\* of them than connections; a connection that is or was alive has no other
\* than _fd.
Descriptors ==
    /\ \A n \in Numbers : files[n] # 0 => n <= made /\ files[n] <= made
    /\ fd # 0 => files[fd] # 0
    /\ \A c \in Conns :
        /\ c > made => peer[c] = "none"
        /\ peer[c] \in {"connecting", "up", "closed"} =>
              \A n \in Numbers : files[n] = c => n = fd
        /\ peer[c] = "up" => Now = c

\* Where the program is, and what it may still expect.
Program ==
    /\ noticed => fd = 0
    /\ Online => status /\ pc["program"] \in {"rest"} \cup ReadSteps
    /\ pc["program"] = "disconnect" => noticed
    /\ pc["program"] \in {"disconnect", "socket"} => made < MaxConns
    /\ \A c \in Conns : peer[c] = "connecting" <=> pc["program"] = "connect" /\ Now = c
    /\ pc["program"] = "connect" => fd # 0 /\ peer[Now] = "connecting"

TrackerReads == ReadSteps \cup {"handon", "notice", "close"}

\* The connection is in one pair of hands.
Turn ==
    /\ pc["program"] \in ReadSteps =>
        Online /\ tasks = {} /\ pc["tracker"] \in {"rest", "finish"}
    /\ pc["tracker"] \in {"select", "task"} =>
        Online /\ tasks # {} /\ copy = tasks /\ pc["program"] = "rest"
    /\ pc["tracker"] \in TrackerReads =>
        Online /\ pc["program"] = "rest"
        /\ (\E k \in copy : copy = {k} /\ k.id <= ids)
        /\ tasks = IF pc["tracker"] \in {"close", "closelocked"} THEN {} ELSE copy
    /\ pc["tracker"] = "finish" => \E k \in copy : copy = {k} /\ k.id <= ids
    /\ pc["tracker"] = "rest" => copy = {}
    /\ ~Online => tasks = {} /\ pc["tracker"] \in {"rest", "finish"}
    /\ Online /\ pc["program"] = "rest" /\ pc["tracker"] \in {"rest", "select", "task", "finish"} =>
        \E k \in tasks : tasks \ (IF pc["tracker"] = "finish" THEN copy ELSE {}) = {k}
    /\ \A k \in tasks : k.fd = fd /\ k.conn = Now /\ k.id <= ids

\* What a thread found is still so when it acts on it.
Found ==
    /\ pc["tracker"] = "task" => HasData(fd) \/ AtEnd(fd)
    /\ pc["tracker"] \in {"notice", "close", "noticelocked", "closelocked"} => AtEnd(fd)
    /\ pc["program"] \in {"noticelocked", "closelocked"} => AtEnd(fd)

\* What was delivered, what a thread has in its hand and what is still to be
\* read are what was sent.
Held(c) == IF hand["program"].conn = c THEN hand["program"].chunks
           ELSE IF hand["tracker"].conn = c THEN hand["tracker"].chunks ELSE <<>>

Upto(n) == [i \in 1..n |-> i]

Stream ==
    /\ hand["program"] # Nothing => pc["program"] = "deliver" /\ hand["program"].conn = Now
    /\ hand["tracker"] # Nothing =>
           pc["tracker"] \in {"handon", "deliver"} /\ hand["tracker"].conn = Now
    /\ \A c \in Conns : log[c] \o (Held(c) \o unread[c]) = Upto(sent[c])

IInv == TypeOK /\ Descriptors /\ Program /\ Turn /\ Found /\ Stream
-----------------------------------------------------------------------------
\* The kernel gives out the lowest free descriptor, and there is one.
LEMMA LowestFree ==
    ASSUME Patient, Sockets, Descriptors, made < MaxConns
    PROVE  LET n == Min({m \in Numbers : files[m] = 0})
           IN  n \in Numbers /\ files[n] = 0 /\ n <= made + 1
<1> DEFINE Unused == {m \in Numbers : files[m] = 0}
<1>1. made + 1 \in Unused
  BY DEF Patient, Sockets, Descriptors, Numbers
<1>2. Unused \in SUBSET Nat
  BY DEF Patient, Numbers
<1>3. PICK n \in Unused : \A m \in Unused : <<m, n>> \notin OpToRel(<, Nat)
  BY <1>1, <1>2, NatLessThanWellFounded, WFMin
<1>4. \A m \in Unused : n <= m
  <2> TAKE m \in Unused
  <2>1. <<m, n>> \notin {ss \in Nat \X Nat : ss[1] < ss[2]}
    BY <1>3 DEF OpToRel
  <2> HIDE DEF Unused
  <2> QED BY <2>1, <1>2
<1>5. Min(Unused) \in Unused /\ \A m \in Unused : Min(Unused) <= m
  BY <1>4 DEF Min
<1> QED BY <1>1, <1>5

-----------------------------------------------------------------------------
(* The thread whose turn it is.                                            *)

LEMMA ReaderLaw ==
    ASSUME Patient, IInv, NEW t \in Threads, pc[t] \in TrackerReads
    PROVE  /\ Online /\ fd \in Numbers /\ Now \in Conns /\ Now = files[fd] /\ ~Fails(fd)
           /\ \A u \in Threads : u # t => hand[u] = Nothing /\ pc[u] \notin TrackerReads
<1> USE DEF IInv, TypeOK, Threads
<1>1. t = "program" => pc[t] \in ReadSteps
  BY DEF Places, ProgramPC, ReadSteps, TrackerReads
<1>2. Online /\ \A u \in Threads : u # t => pc[u] \in {"rest", "finish"}
  BY <1>1 DEF Turn, TrackerReads, ReadSteps
<1>3. fd \in Numbers /\ Now \in Conns /\ Now = files[fd] /\ ~Fails(fd)
  BY <1>2 DEF Patient, Online, Now, Behind, Sockets, Numbers, Conns, Fails, AtEnd, WouldBlock
<1> QED BY <1>2, <1>3 DEF Stream, TrackerReads, ReadSteps

\* Nothing but the place of the reader changes.
LEMMA TurnKept ==
    ASSUME Patient, IInv, NEW t \in Threads, pc[t] \in TrackerReads,
           pc'[t] \in TrackerReads, t = "program" => pc'[t] \in ReadSteps,
           pc[t] \in {"close", "closelocked"} <=> pc'[t] \in {"close", "closelocked"},
           \A u \in Threads : u # t => pc'[u] = pc[u],
           UNCHANGED <<fd, Online, Now, tasks, copy, ids>>
    PROVE  Turn'
<1> USE DEF IInv, Threads
<1>1. CASE t = "program"
  <2>1. pc["program"] \in ReadSteps
    BY <1>1 DEF TypeOK, Places, ProgramPC, ReadSteps, TrackerReads
  <2> QED BY <1>1, <2>1 DEF Turn, ReadSteps, TrackerReads
<1>2. CASE t = "tracker"
  BY <1>2 DEF Turn, ReadSteps, TrackerReads
<1> QED BY <1>1, <1>2

LEMMA ReadAllTyped ==
    ASSUME Patient, IInv, NEW t \in Threads, NEW n \in 0..MaxConns, HasData(n), ReadAll(t, n),
           log' = log, sent' = sent
    PROVE  Chunks'
<1> USE DEF IInv, TypeOK
<1>1. Behind(n) \in Conns /\ unread[Behind(n)] \in Seq(Nat)
  BY DEF Patient, Sockets, Chunks, HasData, Behind, Conns, Numbers
<1>2. [conn |-> Behind(n), chunks |-> unread[Behind(n)]] \in [conn : 0..MaxConns, chunks : Seq(Nat)]
  BY <1>1 DEF Conns
<1>3. hand' \in [Threads -> [conn : 0..MaxConns, chunks : Seq(Nat)]]
  BY <1>2 DEF Chunks, ReadAll
<1>4. unread' \in [Conns -> Seq(Nat)]
  BY EmptySeq DEF Chunks, ReadAll
<1> QED BY <1>3, <1>4 DEF Chunks

LEMMA ReadAllStream ==
    ASSUME Patient, IInv, NEW t \in Threads, NEW n \in 0..MaxConns, HasData(n), ReadAll(t, n),
           \A u \in Threads : hand[u] = Nothing, log' = log, sent' = sent,
           NEW c \in Conns
    PROVE  log'[c] \o (Held(c)' \o unread'[c]) = log[c] \o (Held(c) \o unread[c])
<1> DEFINE b == Behind(n)
<1>1. b \in Conns /\ unread[b] \in Seq(Nat) /\ unread[c] \in Seq(Nat) /\ c # 0
  BY DEF IInv, TypeOK, Sockets, Chunks, HasData, Behind, Conns, Numbers, Patient
<1>2. Held(c) = <<>>
  BY DEF Held, Nothing, Threads
<1>3. /\ \A u \in Threads : hand'[u] = IF u = t THEN [conn |-> b, chunks |-> unread[b]] ELSE Nothing
      /\ unread'[c] = IF c = b THEN <<>> ELSE unread[c]
  BY <1>1 DEF ReadAll, IInv, TypeOK, Chunks
<1>4. Held(c)' = IF c = b THEN unread[b] ELSE <<>>
  BY <1>1, <1>3 DEF Held, Nothing, Threads
<1> HIDE DEF b
<1>5. Held(c)' \o unread'[c] = Held(c) \o unread[c]
  BY <1>1, <1>2, <1>3, <1>4, ConcatEmptySeq
<1> QED BY <1>5

LEMMA Regroup == \A x, y, z \in Seq(Nat) : (x \o y) \o z = x \o (y \o z)
BY ConcatAssociative

LEMMA HandOnStream ==
    ASSUME Patient, IInv, NEW t \in Threads, HandOn(t),
           \A u \in Threads : u # t => hand[u] = Nothing, unread' = unread,
           NEW c \in Conns
    PROVE  log'[c] \o (Held(c)' \o unread'[c]) = log[c] \o (Held(c) \o unread[c])
<1> DEFINE h == hand[t]
<1>1. /\ c # 0 /\ h.conn \in 0..MaxConns /\ h.chunks \in Seq(Nat)
      /\ log[c] \in Seq(Nat) /\ unread[c] \in Seq(Nat)
  BY DEF IInv, TypeOK, Chunks, Conns, Patient
<1>2. log'[c] = IF c = h.conn THEN log[c] \o h.chunks ELSE log[c]
  BY <1>1 DEF HandOn, IInv, TypeOK, Chunks
<1>3. \A u \in Threads : hand'[u] = Nothing
  BY DEF HandOn, IInv, TypeOK, Chunks
<1>4. Held(c)' = <<>>
  BY <1>1, <1>3 DEF Held, Nothing, Threads
<1>5. Held(c) = IF c = h.conn THEN h.chunks ELSE <<>>
  BY <1>1 DEF Held, Nothing, Threads
<1> HIDE DEF h
<1>6. CASE c = h.conn
  <2>1. (log[c] \o h.chunks) \o unread[c] = log[c] \o (h.chunks \o unread[c])
    BY <1>1, Regroup
  <2> QED BY <1>1, <1>2, <1>4, <1>5, <1>6, <2>1, ConcatEmptySeq
<1>7. CASE c # h.conn
  BY <1>2, <1>4, <1>5, <1>7
<1> QED BY <1>6, <1>7

\* The tracker's copy of the list is one task.
LEMMA CurrentLaw ==
    ASSUME Patient, IInv, pc["tracker"] \in {"select", "task", "finish"} \cup TrackerReads
    PROVE  /\ copy = {Current} /\ Current \in ReadTask /\ Cardinality(copy) = 1
           /\ Current.id <= ids
           /\ pc["tracker"] \in {"select", "task"} =>
                 tasks = copy /\ Current.fd = fd /\ Current.conn = Now /\ Online
<1> USE DEF IInv, TypeOK
<1>1. PICK k \in copy : copy = {k} /\ k.id <= ids
  BY DEF Turn, TrackerReads, ReadSteps
<1>2. k \in ReadTask /\ k.id \in Nat
  BY <1>1 DEF Tasks, ReadTask
<1>3. Current = k
  BY <1>1, <1>2 DEF Current
<1>4. Cardinality(copy) = 1
  BY <1>1, FS_Singleton
<1>5. pc["tracker"] \in {"select", "task"} => tasks = copy /\ k.fd = fd /\ k.conn = Now /\ Online
  BY <1>1 DEF Turn
<1> QED BY <1>1, <1>2, <1>3, <1>4, <1>5

\* One more chunk at the end of the stream.
LEMMA OneMore ==
    ASSUME NEW n \in Nat, NEW a \in Seq(Nat), NEW b \in Seq(Nat), NEW d \in Seq(Nat),
           a \o (b \o d) = Upto(n)
    PROVE  a \o (b \o Append(d, n + 1)) = Upto(n + 1)
<1> USE DEF Upto
<1> DEFINE s == a \o (b \o d)
           t == a \o (b \o Append(d, n + 1))
<1>1. Append(d, n + 1) \in Seq(Nat) /\ Len(Append(d, n + 1)) = Len(d) + 1
  OBVIOUS
<1>2. s \in Seq(Nat) /\ t \in Seq(Nat)
  BY <1>1, ConcatProperties
<1>3. Len(s) = Len(a) + (Len(b) + Len(d)) /\ Len(t) = Len(a) + (Len(b) + (Len(d) + 1))
  BY <1>1, ConcatProperties
<1>4. Len(s) = n
  <2>1. DOMAIN s = 1..Len(s) /\ DOMAIN s = 1..n /\ Len(s) \in Nat
    BY <1>2, LenProperties
  <2> QED BY <2>1
<1>5. t = Append(s, n + 1)
  <2>1. Append(d, n + 1) = d \o <<n + 1>>
    OBVIOUS
  <2>2. <<n + 1>> \in Seq(Nat) /\ b \o d \in Seq(Nat)
    BY ConcatProperties
  <2>3. b \o (d \o <<n + 1>>) = (b \o d) \o <<n + 1>>
    BY <2>2, Regroup
  <2>4. a \o ((b \o d) \o <<n + 1>>) = s \o <<n + 1>>
    BY <2>2, Regroup
  <2>5. t = s \o <<n + 1>>
    BY <2>1, <2>3, <2>4
  <2> HIDE DEF s, t
  <2> QED BY <1>2, <2>5
<1> HIDE DEF t
<1>6. \A i \in 1..(n + 1) : t[i] = i
  BY <1>2, <1>4, <1>5
<1>7. DOMAIN t = 1..(n + 1)
  BY <1>2, <1>4, <1>5
<1>8. t = [i \in DOMAIN t |-> t[i]]
  BY <1>2
<1>9. t = [i \in 1..(n + 1) |-> i]
  BY <1>6, <1>7, <1>8
<1> QED BY <1>9 DEF t

-----------------------------------------------------------------------------
LEMMA InitIInv == Patient /\ Init => IInv
<1> SUFFICES ASSUME Patient, Init PROVE IInv
  OBVIOUS
<1> USE DEF Patient, Init, Conns, Numbers, Threads, Behind, Now, Online
<1>1. Places
  BY DEF Places, ProgramPC, TrackerPC
<1>1a. Tasks
  BY DEF Tasks
<1>1b. 0 \in 0..MaxConns
  OBVIOUS
<1>1c. Sockets
  BY <1>1b DEF Sockets, PeerState
<1>2. Chunks
  BY EmptySeq DEF Chunks, Nothing
<1>3. Descriptors /\ Program
  BY DEF Descriptors, Program
<1>4. Turn /\ Found
  BY DEF Turn, Found, ReadSteps, TrackerReads
<1>5. \A c \in Conns : log[c] \o (Held(c) \o unread[c]) = Upto(sent[c])
  <2> TAKE c \in Conns
  <2>1. log[c] = <<>> /\ Held(c) = <<>> /\ unread[c] = <<>> /\ sent[c] = 0
    BY DEF Held, Nothing
  <2>2. <<>> \o (<<>> \o <<>>) = Upto(0)
    BY DEF Upto
  <2> QED BY <2>1, <2>2
<1>6. Stream
  BY <1>5 DEF Stream
<1> QED BY <1>1, <1>1a, <1>1c, <1>2, <1>3, <1>4, <1>6 DEF IInv, TypeOK

LEMMA StartConnectIInv ==
    ASSUME Patient, IInv, StartConnect
    PROVE  IInv'
<1> USE DEF Patient, StartConnect, IInv, TypeOK, Conns, Numbers, Threads, Behind, Now, Online, At,
            client, network, tracker
<1>1. Places'
  BY DEF Places, ProgramPC, TrackerPC, ReadSteps
<1>2. Sockets'
  BY DEF Sockets, PeerState
<1>3. Chunks'
  BY DEF Chunks
<1>4. Tasks'
  BY DEF Tasks
<1>5. Descriptors'
  BY DEF Descriptors, Program, Turn, Sockets, Places
<1>6. Program'
  BY DEF Program, Turn, Sockets, Places, ReadSteps, TrackerReads, Descriptors
<1>7. Turn'
  BY DEF Turn, ReadSteps, TrackerReads, Sockets, Places, Program
<1>8. Found'
  BY DEF Found, Turn, ReadSteps, TrackerReads, Sockets, Places, HasData, AtEnd, WouldBlock
<1>9. Stream'
  BY DEF Stream, Turn, ReadSteps, TrackerReads, Sockets, Chunks, Places, Held
<1> QED BY <1>1, <1>2, <1>3, <1>4, <1>5, <1>6, <1>7, <1>8, <1>9

LEMMA DisconnectIInv ==
    ASSUME Patient, IInv, Disconnect
    PROVE  IInv'
<1> USE DEF Patient, Disconnect, IInv, TypeOK, Conns, Numbers, Threads, Behind, Now, Online, At,
            client, network, tracker
<1>1. Places'
  BY DEF Places, ProgramPC, TrackerPC, ReadSteps
<1>2. Sockets'
  <2>1. 0 \in 0..MaxConns
    OBVIOUS
  <2>2. status' \in BOOLEAN
    OBVIOUS
  <2>3. files' \in [Numbers -> 0..MaxConns]
    BY <2>1 DEF Sockets
  <2> QED BY <2>2, <2>3 DEF Sockets
<1>3. Chunks'
  BY DEF Chunks
<1>4. Tasks'
  BY DEF Tasks
<1>5. Descriptors'
  BY DEF Descriptors, Program, Turn, Sockets, Places
<1>6. Program'
  BY DEF Program, Turn, Sockets, Places, ReadSteps, TrackerReads, Descriptors
<1>7. Turn'
  BY DEF Turn, ReadSteps, TrackerReads, Sockets, Places, Program
<1>8. Found'
  BY DEF Found, Turn, ReadSteps, TrackerReads, Sockets, Places, HasData, AtEnd, WouldBlock
<1>9. Stream'
  BY DEF Stream, Turn, ReadSteps, TrackerReads, Sockets, Chunks, Places, Held
<1> QED BY <1>1, <1>2, <1>3, <1>4, <1>5, <1>6, <1>7, <1>8, <1>9

LEMMA SocketIInv ==
    ASSUME Patient, IInv, Socket
    PROVE  IInv'
<1> USE DEF Patient, Socket, IInv, TypeOK, Conns, Numbers, Threads, Behind, Now, Online, At,
            client, network, tracker
<1>0. PICK n \in Numbers : /\ files[n] = 0 /\ n <= made + 1 /\ fd' = n
                           /\ files' = [files EXCEPT ![n] = made + 1]
  <2>1. made < MaxConns
    BY DEF Program
  <2> QED BY <2>1, LowestFree
<1>0a. ~Online /\ made + 1 \in 0..MaxConns /\ made + 1 \in Conns
  BY DEF Program, Sockets, ReadSteps
<1>1. Places'
  BY DEF Places, ProgramPC, TrackerPC, ReadSteps
<1>2. Sockets'
  <2>1. files' \in [Numbers -> 0..MaxConns]
    BY <1>0, <1>0a DEF Sockets
  <2>2. peer' \in [Conns -> PeerState]
    BY <1>0a DEF Sockets, PeerState
  <2>3. fd' \in 0..MaxConns /\ made' \in 0..MaxConns
    BY <1>0, <1>0a
  <2> QED BY <2>1, <2>2, <2>3 DEF Sockets
<1>3. Chunks'
  BY DEF Chunks
<1>4. Tasks'
  BY DEF Tasks
<1>5. Descriptors'
  <2>1. \A m \in Numbers : files'[m] = IF m = n THEN made + 1 ELSE files[m]
    BY <1>0 DEF Sockets
  <2>2. \A m \in Numbers : files'[m] # 0 => m <= made' /\ files'[m] <= made'
    BY <1>0, <1>0a, <2>1 DEF Descriptors, Sockets
  <2>3. \A c \in Conns : peer'[c] = IF c = made + 1 THEN "connecting" ELSE peer[c]
    BY DEF Sockets
  <2>4. \A c \in Conns : peer[c] \notin {"connecting", "up"}
    BY <1>0a DEF Descriptors, Program
  <2>5. \A c \in Conns : peer[c] = "closed" => \A m \in Numbers : files[m] # c
    BY <1>0a DEF Descriptors, Sockets
  <2>6. ASSUME NEW c \in Conns
        PROVE  /\ c > made' => peer'[c] = "none"
               /\ peer'[c] \in {"connecting", "up", "closed"} =>
                     \A m \in Numbers : files'[m] = c => m = fd'
               /\ peer'[c] = "up" => Now' = c
    <3>1. \A m \in Numbers : files[m] # made + 1
      BY DEF Descriptors, Sockets
    <3>2. c > made' => c > made /\ c # made + 1
      BY DEF Sockets
    <3> QED BY <1>0, <2>1, <2>3, <2>4, <2>5, <3>1, <3>2 DEF Descriptors
  <2>7. fd' # 0 => files'[fd'] # 0
    BY <1>0, <2>1 DEF Sockets
  <2> QED BY <2>2, <2>6, <2>7 DEF Descriptors
<1>6. Program'
  <2>1. \A c \in Conns : peer'[c] = IF c = made + 1 THEN "connecting" ELSE peer[c]
    BY DEF Sockets
  <2>2. Now' = made + 1 /\ fd' # 0
    BY <1>0 DEF Sockets
  <2>3. pc'["program"] = "connect"
    BY DEF Places
  <2> HIDE DEF Now
  <2> QED BY <1>0, <1>0a, <2>1, <2>2, <2>3 DEF Program
<1>7. Turn'
  BY DEF Turn, ReadSteps, TrackerReads, Sockets, Places, Program
<1>8. Found'
  BY DEF Found, Turn, ReadSteps, TrackerReads, Sockets, Places, HasData, AtEnd, WouldBlock
<1>9. Stream'
  BY DEF Stream, Turn, ReadSteps, TrackerReads, Sockets, Chunks, Places, Held
<1> QED BY <1>1, <1>2, <1>3, <1>4, <1>5, <1>6, <1>7, <1>8, <1>9

LEMMA ConnectIInv ==
    ASSUME Patient, IInv, Connect
    PROVE  IInv'
<1> USE DEF Patient, Connect, IInv, TypeOK, Conns, Numbers, Threads, Behind, Now, Online, At,
            client, network, tracker
<1>1. Places'
  BY DEF Places, ProgramPC, TrackerPC, ReadSteps
<1>2. Sockets'
  BY DEF Sockets, PeerState
<1>3. Chunks'
  BY DEF Chunks
<1>4. Tasks'
  BY DEF Tasks
<1>5. Descriptors'
  BY DEF Descriptors, Program, Turn, Sockets, Places
<1>6. Program'
  BY DEF Program, Turn, Sockets, Places, ReadSteps, TrackerReads, Descriptors
<1>7. Turn'
  <2>1. /\ ~Online /\ tasks = {} /\ pc["tracker"] \in {"rest", "finish"}
        /\ pc'["tracker"] = pc["tracker"] /\ pc'["program"] \in {"rest", "enter"}
    BY DEF Turn, Program, ReadSteps, Places
  <2>2. Now \in Conns /\ Now' = Now
    BY DEF Program, Sockets, Descriptors
  <2>3. pc'["program"] = "enter" <=> Online'
    BY <2>2 DEF Sockets, Places
  <2> HIDE DEF Online, Now, Connect, At
  <2> QED BY <2>1, <2>3 DEF Turn, ReadSteps, TrackerReads, Connect
<1>8. Found'
  BY DEF Found, Turn, ReadSteps, TrackerReads, Sockets, Places, HasData, AtEnd, WouldBlock
<1>9. Stream'
  BY DEF Stream, Turn, ReadSteps, TrackerReads, Sockets, Chunks, Places, Held
<1> QED BY <1>1, <1>2, <1>3, <1>4, <1>5, <1>6, <1>7, <1>8, <1>9

LEMMA EnterIInv ==
    ASSUME Patient, IInv, NEW t \in Threads, Enter(t)
    PROVE  IInv'
<1> USE DEF Patient, Enter, IInv, TypeOK, Conns, Numbers, Threads, Behind, Now, Online, At,
            client, network, tracker, After
<1>0. pc[t] = "enter" /\ pc[t] \in TrackerReads
  BY DEF TrackerReads, ReadSteps
<1>1. Places'
  <2>1. CASE t = "program"
    BY <2>1 DEF Places, ProgramPC, TrackerPC, ReadSteps
  <2>2. CASE t = "tracker"
    BY <2>2 DEF Places, ProgramPC, TrackerPC, ReadSteps
  <2> QED BY <2>1, <2>2
<1>2. Sockets'
  BY DEF Sockets, PeerState
<1>3. Chunks'
  BY DEF Chunks
<1>4. Tasks'
  BY DEF Tasks
<1>5. Descriptors'
  BY DEF Descriptors, Program, Turn, Sockets, Places
<1>6. Program'
  BY DEF Program, Turn, Sockets, Places, ReadSteps, TrackerReads, Descriptors
<1>7. Turn'
  <2>1. fd # 0 /\ ~Fails(fd)
    BY <1>0, ReaderLaw DEF Patient, Numbers
  <2>2. /\ pc'[t] \in ReadSteps \ {"close", "closelocked"}
        /\ \A u \in Threads : u # t => pc'[u] = pc[u]
    BY <2>1 DEF Places, ReadSteps
  <2>3. UNCHANGED <<fd, Online, Now, tasks, copy, ids>>
    OBVIOUS
  <2> QED BY <1>0, <2>2, <2>3, TurnKept DEF ReadSteps, TrackerReads
<1>8. Found'
  BY DEF Found, Turn, ReadSteps, TrackerReads, Sockets, Places, HasData, AtEnd, WouldBlock
<1>9. Stream'
  BY DEF Stream, Turn, ReadSteps, TrackerReads, Sockets, Chunks, Places, Held
<1> QED BY <1>1, <1>2, <1>3, <1>4, <1>5, <1>6, <1>7, <1>8, <1>9

LEMMA ReadIInv ==
    ASSUME Patient, IInv, NEW t \in Threads, Read(t)
    PROVE  IInv'
<1> USE DEF Patient, Read, IInv, TypeOK, Conns, Numbers, Threads, Behind, Now, Online, At,
            client, network, tracker, After
<1>0. pc[t] = "read" /\ pc[t] \in TrackerReads
  BY DEF TrackerReads, ReadSteps
<1>1. Places'
  <2>1. CASE t = "program"
    BY <2>1 DEF Places, ProgramPC, TrackerPC, ReadSteps
  <2>2. CASE t = "tracker"
    BY <2>2 DEF Places, ProgramPC, TrackerPC, ReadSteps
  <2> QED BY <2>1, <2>2
<1>2. Sockets'
  BY DEF Sockets, PeerState
<1>3. Chunks'
  <2>1. CASE HasData(fd) /\ ReadAll(t, fd)
    BY <2>1, ReadAllTyped DEF Sockets
  <2> QED BY <2>1 DEF Chunks
<1>4. Tasks'
  BY DEF Tasks
<1>5. Descriptors'
  BY DEF Descriptors, Program, Turn, Sockets, Places
<1>6. Program'
  BY DEF Program, Turn, Sockets, Places, ReadSteps, TrackerReads, Descriptors
<1>7. Turn'
  <2>1. fd # 0 /\ ~Fails(fd)
    BY <1>0, ReaderLaw DEF Patient, Numbers
  <2>2. /\ pc'[t] \in ReadSteps \ {"close", "closelocked"}
        /\ \A u \in Threads : u # t => pc'[u] = pc[u]
    BY <2>1 DEF Places, ReadSteps
  <2>3. UNCHANGED <<fd, Online, Now, tasks, copy, ids>>
    OBVIOUS
  <2> QED BY <1>0, <2>2, <2>3, TurnKept DEF ReadSteps, TrackerReads
<1>8. Found'
  BY DEF Found, Turn, ReadSteps, TrackerReads, Sockets, Places, HasData, AtEnd, WouldBlock
<1>9. Stream'
  <2>1. CASE HasData(fd) /\ At(t, "read", "deliver") /\ ReadAll(t, fd)
    <3>1. \A u \in Threads : hand[u] = Nothing
      BY <1>0, ReaderLaw DEF Stream
    <3>2. \A c \in Conns : log'[c] \o (Held(c)' \o unread'[c]) = Upto(sent'[c])
      <4>1. fd \in 0..MaxConns
        BY DEF Sockets
      <4>2. \A c \in Conns :
                log'[c] \o (Held(c)' \o unread'[c]) = log[c] \o (Held(c) \o unread[c])
        BY <2>1, <3>1, <4>1, ReadAllStream
      <4> QED BY <4>2 DEF Stream
    <3>3. \A u \in Threads : hand'[u] # Nothing => u = t /\ hand'[u].conn = Now
      BY <2>1, <3>1 DEF ReadAll, Chunks
    <3>4. pc'[t] = "deliver" /\ Now' = Now
      BY <2>1 DEF Places
    <3> QED BY <3>2, <3>3, <3>4 DEF Stream
  <2>2. CASE UNCHANGED <<hand, unread>> /\ ~HasData(fd)
    <3>1. \A u \in Threads : hand[u] = Nothing
      BY <1>0, ReaderLaw DEF Stream
    <3> QED BY <2>2, <3>1 DEF Stream, Held
  <2> QED BY <2>1, <2>2 DEF AtEnd, WouldBlock, Fails
<1> QED BY <1>1, <1>2, <1>3, <1>4, <1>5, <1>6, <1>7, <1>8, <1>9

LEMMA DeliverIInv ==
    ASSUME Patient, IInv, NEW t \in Threads, Deliver(t)
    PROVE  IInv'
<1> USE DEF Patient, Deliver, IInv, TypeOK, Conns, Numbers, Threads, Behind, Now, Online, At,
            client, network, tracker, After
<1>0. pc[t] \in {"deliver", "handon"} /\ pc[t] \in TrackerReads
  BY DEF TrackerReads, ReadSteps
<1>1. Places'
  <2>1. CASE t = "program"
    BY <2>1 DEF Places, ProgramPC, TrackerPC, ReadSteps
  <2>2. CASE t = "tracker"
    BY <2>2 DEF Places, ProgramPC, TrackerPC, ReadSteps
  <2> QED BY <2>1, <2>2
<1>2. Sockets'
  BY DEF Sockets, PeerState
<1>3. Chunks'
  <2>1. hand' \in [Threads -> [conn : 0..MaxConns, chunks : Seq(Nat)]]
    <3>1. Nothing \in [conn : 0..MaxConns, chunks : Seq(Nat)]
      BY EmptySeq DEF Nothing
    <3> QED BY <3>1 DEF Chunks, HandOn
  <2>2. log' \in [Conns -> Seq(Nat)]
    <3>1. hand[t].conn \in 0..MaxConns /\ hand[t].chunks \in Seq(Nat)
      BY DEF Chunks
    <3> QED BY <3>1, ConcatProperties DEF Chunks, HandOn
  <2> QED BY <2>1, <2>2 DEF Chunks
<1>4. Tasks'
  BY DEF Tasks
<1>5. Descriptors'
  BY DEF Descriptors, Program, Turn, Sockets, Places
<1>6. Program'
  BY DEF Program, Turn, Sockets, Places, ReadSteps, TrackerReads, Descriptors
<1>7. Turn'
  <2>1. /\ pc'[t] \in ReadSteps \ {"close", "closelocked"}
        /\ \A u \in Threads : u # t => pc'[u] = pc[u]
    BY DEF Places, ReadSteps
  <2>2. UNCHANGED <<fd, Online, Now, tasks, copy, ids>>
    OBVIOUS
  <2> QED BY <1>0, <2>1, <2>2, TurnKept DEF ReadSteps, TrackerReads
<1>8. Found'
  BY DEF Found, Turn, ReadSteps, TrackerReads, Sockets, Places, HasData, AtEnd, WouldBlock
<1>9. Stream'
  <2>1. \A u \in Threads : u # t => hand[u] = Nothing
    BY <1>0, ReaderLaw
  <2>2. \A u \in Threads : hand'[u] = Nothing
    BY <2>1 DEF HandOn, Chunks
  <2>3. \A c \in Conns : log'[c] \o (Held(c)' \o unread'[c]) = Upto(sent'[c])
    BY <2>1, HandOnStream DEF Stream
  <2> QED BY <2>2, <2>3 DEF Stream
<1> QED BY <1>1, <1>2, <1>3, <1>4, <1>5, <1>6, <1>7, <1>8, <1>9

LEMMA AddIInv ==
    ASSUME Patient, IInv, NEW t \in Threads, Add(t)
    PROVE  IInv'
<1> USE DEF Patient, Add, IInv, TypeOK, Conns, Numbers, Threads, Behind, Now, Online, At,
            client, network, tracker, After
<1>0. pc[t] = "add" /\ pc[t] \in TrackerReads /\ fd \in Numbers /\ Now \in Conns /\ Online
  BY ReaderLaw DEF TrackerReads, ReadSteps
<1>0a. ids \in Nat /\ ids' = ids + 1
  BY DEF Tasks
<1>0b. PICK k \in ReadTask : /\ k = [id |-> ids + 1, fd |-> fd, conn |-> Now]
                             /\ tasks' = tasks \cup {k}
  <2>1. [id |-> ids + 1, fd |-> fd, conn |-> Now] \in ReadTask
    BY <1>0, <1>0a DEF ReadTask
  <2> QED BY <2>1
<1>1. Places'
  <2>1. CASE t = "program"
    BY <2>1 DEF Places, ProgramPC, TrackerPC, ReadSteps
  <2>2. CASE t = "tracker"
    BY <2>2 DEF Places, ProgramPC, TrackerPC, ReadSteps
  <2> QED BY <2>1, <2>2
<1>2. Sockets'
  BY DEF Sockets, PeerState
<1>3. Chunks'
  BY DEF Chunks
<1>4. Tasks'
  BY <1>0a, <1>0b DEF Tasks
<1>5. Descriptors'
  BY DEF Descriptors, Program, Turn, Sockets, Places
<1>6. Program'
  BY DEF Program, Turn, Sockets, Places, ReadSteps, TrackerReads, Descriptors
<1>7. Turn'
  <2>1. k.id = ids + 1 /\ k.fd = fd /\ k.conn = Now
    BY <1>0b
  <2>2. \A j \in tasks' : j.fd = fd' /\ j.conn = Now' /\ j.id <= ids'
    BY <1>0a, <1>0b, <2>1 DEF Turn, Tasks, ReadTask
  <2>3. CASE t = "program"
    <3>1. tasks = {} /\ pc["tracker"] \in {"rest", "finish"} /\ pc'["tracker"] = pc["tracker"]
      BY <1>0, <2>3 DEF Turn, ReadSteps, Places
    <3>2. pc'["program"] = "rest"
      BY <2>3 DEF Places
    <3>3. tasks' = {k} /\ k \notin copy
      BY <1>0a, <1>0b, <2>1, <3>1 DEF Turn, Tasks, ReadTask
    <3> QED BY <1>0, <1>0a, <2>2, <3>1, <3>2, <3>3 DEF Turn, ReadSteps, TrackerReads, Tasks, ReadTask
  <2>4. CASE t = "tracker"
    <3>1. /\ tasks = copy /\ pc["program"] = "rest" /\ pc'["program"] = "rest"
          /\ \E j \in copy : copy = {j} /\ j.id <= ids
      BY <1>0, <2>4 DEF Turn, TrackerReads, ReadSteps, Places
    <3>2. pc'["tracker"] = "finish"
      BY <2>4 DEF Places
    <3>3. tasks' \ copy = {k}
      BY <1>0a, <1>0b, <2>1, <3>1 DEF Tasks, ReadTask
    <3> QED BY <1>0, <1>0a, <2>2, <3>1, <3>2, <3>3 DEF Turn, ReadSteps, TrackerReads, Tasks, ReadTask
  <2> QED BY <2>3, <2>4
<1>8. Found'
  BY DEF Found, Turn, ReadSteps, TrackerReads, Sockets, Places, HasData, AtEnd, WouldBlock
<1>9. Stream'
  BY DEF Stream, Turn, ReadSteps, TrackerReads, Sockets, Chunks, Places, Held
<1> QED BY <1>1, <1>2, <1>3, <1>4, <1>5, <1>6, <1>7, <1>8, <1>9

LEMMA NoticeDeleteIInv ==
    ASSUME Patient, IInv, NEW t \in Threads, NoticeDelete(t)
    PROVE  IInv'
<1> USE DEF Patient, NoticeDelete, IInv, TypeOK, Conns, Numbers, Threads, Behind, Now, Online, At,
            client, network, tracker, After
<1>1. Places'
  <2>1. CASE t = "program"
    BY <2>1 DEF Places, ProgramPC, TrackerPC, ReadSteps
  <2>2. CASE t = "tracker"
    BY <2>2 DEF Places, ProgramPC, TrackerPC, ReadSteps
  <2> QED BY <2>1, <2>2
<1>2. Sockets'
  BY DEF Sockets, PeerState
<1>3. Chunks'
  BY DEF Chunks
<1>4. Tasks'
  BY DEF Tasks
<1>5. Descriptors'
  BY DEF Descriptors, Program, Turn, Sockets, Places
<1>6. Program'
  BY DEF Program, Turn, Sockets, Places, ReadSteps, TrackerReads, Descriptors
<1>7. Turn'
  BY DEF Turn, ReadSteps, TrackerReads, Sockets, Places, Program
<1>8. Found'
  BY DEF Found, Turn, ReadSteps, TrackerReads, Sockets, Places, HasData, AtEnd, WouldBlock
<1>9. Stream'
  BY DEF Stream, Turn, ReadSteps, TrackerReads, Sockets, Chunks, Places, Held
<1> QED BY <1>1, <1>2, <1>3, <1>4, <1>5, <1>6, <1>7, <1>8, <1>9

LEMMA NoticeCloseIInv ==
    ASSUME Patient, IInv, NEW t \in Threads, NoticeClose(t)
    PROVE  IInv'
<1> USE DEF Patient, NoticeClose, IInv, TypeOK, Conns, Numbers, Threads, Behind, Now, Online, At,
            client, network, tracker, After
<1>0. /\ pc[t] \in {"close", "closelocked"} /\ pc[t] \in TrackerReads
      /\ fd \in Numbers /\ Now \in Conns /\ Online /\ peer[Now] = "closed"
  <2>1. pc[t] \in {"close", "closelocked"} /\ pc[t] \in TrackerReads
    BY DEF TrackerReads, ReadSteps
  <2>2. AtEnd(fd)
    BY <2>1 DEF Found, Places, ProgramPC, ReadSteps
  <2> QED BY <2>1, <2>2, ReaderLaw DEF AtEnd
<1>1. Places'
  <2>1. CASE t = "program"
    BY <2>1 DEF Places, ProgramPC, TrackerPC, ReadSteps
  <2>2. CASE t = "tracker"
    BY <2>2 DEF Places, ProgramPC, TrackerPC, ReadSteps
  <2> QED BY <2>1, <2>2
<1>2. Sockets'
  BY DEF Sockets, PeerState
<1>3. Chunks'
  BY DEF Chunks
<1>4. Tasks'
  BY DEF Tasks
<1>5. Descriptors'
  <2>1. \A n \in Numbers : files'[n] = IF n = fd THEN 0 ELSE files[n]
    BY DEF Sockets
  <2>2. ASSUME NEW c \in Conns, peer[c] = "up" PROVE FALSE
    BY <1>0, <2>2 DEF Descriptors
  <2>3. ASSUME NEW c \in Conns PROVE c # 0
    OBVIOUS
  <2> QED BY <2>1, <2>2, <2>3 DEF Descriptors
<1>6. Program'
  BY DEF Program, Turn, Sockets, Places, ReadSteps, TrackerReads, Descriptors
<1>7. Turn'
  BY DEF Turn, ReadSteps, TrackerReads, Sockets, Places, Program
<1>8. Found'
  BY DEF Found, Turn, ReadSteps, TrackerReads, Sockets, Places, HasData, AtEnd, WouldBlock
<1>9. Stream'
  BY DEF Stream, Turn, ReadSteps, TrackerReads, Sockets, Chunks, Places, Held
<1> QED BY <1>1, <1>2, <1>3, <1>4, <1>5, <1>6, <1>7, <1>8, <1>9

LEMMA CopyIInv ==
    ASSUME Patient, IInv, Copy
    PROVE  IInv'
<1> USE DEF Patient, Copy, IInv, TypeOK, Conns, Numbers, Threads, Behind, Now, Online, At,
            client, network, tracker
<1>1. Places'
  BY DEF Places, ProgramPC, TrackerPC, ReadSteps
<1>2. Sockets'
  BY DEF Sockets, PeerState
<1>3. Chunks'
  BY DEF Chunks
<1>4. Tasks'
  BY DEF Tasks
<1>5. Descriptors'
  BY DEF Descriptors, Program, Turn, Sockets, Places
<1>6. Program'
  BY DEF Program, Turn, Sockets, Places, ReadSteps, TrackerReads, Descriptors
<1>7. Turn'
  BY DEF Turn, ReadSteps, TrackerReads, Sockets, Places, Program
<1>8. Found'
  BY DEF Found, Turn, ReadSteps, TrackerReads, Sockets, Places, HasData, AtEnd, WouldBlock
<1>9. Stream'
  BY DEF Stream, Turn, ReadSteps, TrackerReads, Sockets, Chunks, Places, Held
<1> QED BY <1>1, <1>2, <1>3, <1>4, <1>5, <1>6, <1>7, <1>8, <1>9

LEMMA SelectIInv ==
    ASSUME Patient, IInv, Select
    PROVE  IInv'
<1> USE DEF Patient, Select, IInv, TypeOK, Conns, Numbers, Threads, Behind, Now, Online, At,
            client, network, tracker
<1>0. /\ copy = {Current} /\ tasks = copy /\ Current \in ReadTask /\ Current.fd = fd
      /\ Current.id <= ids /\ Online /\ pc["tracker"] = "select" /\ pc["program"] = "rest"
  BY CurrentLaw DEF Turn
<1>0a. \/ copy' = {} /\ pc' = [pc EXCEPT !["tracker"] = "rest"]
       \/ /\ copy' = copy /\ pc' = [pc EXCEPT !["tracker"] = "task"]
          /\ ~WouldBlock(fd)
  <2> DEFINE ready == {k \in copy : ~WouldBlock(k.fd)}
  <2>1. \A k \in copy : Behind(k.fd) # 0
    BY <1>0
  <2>2. ready = IF WouldBlock(fd) THEN {} ELSE copy
    BY <1>0
  <2>3. copy' = ready /\ pc' = [pc EXCEPT !["tracker"] = IF ready = {} THEN "rest" ELSE "task"]
    BY <2>1
  <2> HIDE DEF ready
  <2> QED BY <1>0, <2>2, <2>3
<1> HIDE DEF Select
<1>0b. UNCHANGED <<fd, status, noticed, network, mutex, hand, tasks, ids, log>>
  BY DEF Select
<1>1. Places'
  BY <1>0a, <1>0b DEF Places, ProgramPC, TrackerPC, ReadSteps
<1>2. Sockets'
  BY <1>0b DEF Sockets, PeerState
<1>3. Chunks'
  BY <1>0b DEF Chunks
<1>4. Tasks'
  BY <1>0a, <1>0b DEF Tasks
<1>5. Descriptors'
  BY <1>0b DEF Descriptors, Program, Turn, Sockets, Places
<1>6. Program'
  BY <1>0, <1>0a, <1>0b DEF Program, Turn, Sockets, Places, ReadSteps, TrackerReads, Descriptors
<1>7. Turn'
  BY <1>0, <1>0a, <1>0b DEF Turn, ReadSteps, TrackerReads, Sockets, Places, Program
<1>8. Found'
  BY <1>0, <1>0a, <1>0b DEF Found, Turn, ReadSteps, TrackerReads, Sockets, Places, HasData, AtEnd, WouldBlock
<1>9. Stream'
  BY <1>0, <1>0a, <1>0b DEF Stream, Turn, ReadSteps, TrackerReads, Sockets, Chunks, Places, Held
<1> QED BY <1>1, <1>2, <1>3, <1>4, <1>5, <1>6, <1>7, <1>8, <1>9

LEMMA TaskIInv ==
    ASSUME Patient, IInv, Task
    PROVE  IInv'
<1> USE DEF Patient, Task, IInv, TypeOK, Conns, Numbers, Threads, Behind, Now, Online, At,
            client, network, tracker
<1>0. pc["tracker"] = "task" /\ Current.fd = fd /\ fd \in 0..MaxConns
  BY CurrentLaw DEF Sockets
<1>1. Places'
  BY DEF Places, ProgramPC, TrackerPC, ReadSteps
<1>2. Sockets'
  BY DEF Sockets, PeerState
<1>3. Chunks'
  <2>1. CASE HasData(fd) /\ ReadAll("tracker", fd)
    BY <1>0, <2>1, ReadAllTyped
  <2> QED BY <1>0, <2>1 DEF Chunks
<1>4. Tasks'
  BY DEF Tasks
<1>5. Descriptors'
  BY DEF Descriptors, Program, Turn, Sockets, Places
<1>6. Program'
  BY DEF Program, Turn, Sockets, Places, ReadSteps, TrackerReads, Descriptors
<1>7. Turn'
  BY DEF Turn, ReadSteps, TrackerReads, Sockets, Places, Program
<1>8. Found'
  <2>1. HasData(fd) \/ AtEnd(fd)
    BY <1>0 DEF Found
  <2>2. pc["program"] = "rest" /\ pc'["program"] = "rest"
    BY <1>0 DEF Turn, Places
  <2>3. \/ pc'["tracker"] = "handon"
        \/ pc'["tracker"] = "notice" /\ ~HasData(fd) /\ unread' = unread
    <3>1. CASE At("tracker", "task", "handon")
      BY <3>1 DEF Places
    <3>2. CASE At("tracker", "task", "notice") /\ ~HasData(Current.fd) /\ UNCHANGED <<hand, unread>>
      BY <1>0, <3>2 DEF Places
    <3> QED BY <3>1, <3>2
  <2> QED BY <2>1, <2>2, <2>3 DEF Found, HasData, AtEnd
<1>9. Stream'
  <2>1. \A u \in Threads : hand[u] = Nothing
    BY <1>0 DEF Stream, Turn, ReadSteps
  <2>2. CASE HasData(fd) /\ At("tracker", "task", "handon") /\ ReadAll("tracker", fd)
    <3>1. \A c \in Conns :
              log'[c] \o (Held(c)' \o unread'[c]) = log[c] \o (Held(c) \o unread[c])
      BY <1>0, <2>1, <2>2, ReadAllStream
    <3>2. \A c \in Conns : log'[c] \o (Held(c)' \o unread'[c]) = Upto(sent'[c])
      BY <3>1 DEF Stream
    <3>3. \A u \in Threads : hand'[u] # Nothing => u = "tracker" /\ hand'[u].conn = Now
      BY <2>1, <2>2 DEF ReadAll, Chunks
    <3>4. pc'["tracker"] = "handon" /\ Now' = Now
      BY <2>2 DEF Places
    <3> QED BY <3>2, <3>3, <3>4 DEF Stream
  <2>3. CASE UNCHANGED <<hand, unread>>
    BY <2>1, <2>3 DEF Stream, Held
  <2> QED BY <1>0, <2>2, <2>3
<1> QED BY <1>1, <1>2, <1>3, <1>4, <1>5, <1>6, <1>7, <1>8, <1>9

LEMMA FinishIInv ==
    ASSUME Patient, IInv, Finish
    PROVE  IInv'
<1> USE DEF Patient, Finish, IInv, TypeOK, Conns, Numbers, Threads, Behind, Now, Online, At,
            client, network, tracker
<1>0. pc["tracker"] = "finish" /\ copy = {Current} /\ Cardinality(copy) = 1
  BY CurrentLaw
<1>0a. pc'["tracker"] = "rest" /\ pc'["program"] = pc["program"] /\ copy' = {}
  BY <1>0 DEF Places
<1>0b. tasks' = tasks \ copy
  BY <1>0
<1>1. Places'
  BY DEF Places, ProgramPC, TrackerPC, ReadSteps
<1>2. Sockets'
  BY DEF Sockets, PeerState
<1>3. Chunks'
  BY DEF Chunks
<1>4. Tasks'
  BY DEF Tasks
<1>5. Descriptors'
  BY DEF Descriptors, Program, Turn, Sockets, Places
<1>6. Program'
  BY DEF Program, Turn, Sockets, Places, ReadSteps, TrackerReads, Descriptors
<1>7. Turn'
  BY <1>0, <1>0a, <1>0b DEF Turn, ReadSteps, TrackerReads, Sockets, Places, Program
<1>8. Found'
  BY <1>0, <1>0a, <1>0b DEF Found, Turn, ReadSteps, TrackerReads, Sockets, Places, HasData, AtEnd, WouldBlock
<1>9. Stream'
  BY DEF Stream, Turn, ReadSteps, TrackerReads, Sockets, Chunks, Places, Held
<1> QED BY <1>1, <1>2, <1>3, <1>4, <1>5, <1>6, <1>7, <1>8, <1>9

LEMMA SendIInv ==
    ASSUME Patient, IInv, NEW c \in Conns, Send(c)
    PROVE  IInv'
<1> USE DEF Patient, Send, IInv, TypeOK, Conns, Numbers, Threads, Behind, Now, Online, At,
            client, network, tracker
<1>0. sent[c] \in Nat /\ unread[c] \in Seq(Nat) /\ log[c] \in Seq(Nat) /\ Held(c) \in Seq(Nat)
  BY EmptySeq DEF Chunks, Held
<1>0a. /\ \A d \in Conns : d # c => sent'[d] = sent[d] /\ unread'[d] = unread[d]
       /\ sent'[c] = sent[c] + 1 /\ unread'[c] = Append(unread[c], sent[c] + 1)
  BY DEF Chunks
<1>1. Places'
  BY DEF Places
<1>2. Sockets'
  BY DEF Sockets, PeerState
<1>3. Chunks'
  <2>1. Append(unread[c], sent[c] + 1) \in Seq(Nat) /\ sent[c] + 1 \in Nat
    BY <1>0
  <2> QED BY <2>1 DEF Chunks
<1>4. Tasks'
  BY DEF Tasks
<1>5. Descriptors'
  BY DEF Descriptors, Program, Turn, Sockets, Places
<1>6. Program'
  BY DEF Program, Turn, Sockets, Places, ReadSteps, TrackerReads, Descriptors
<1>7. Turn'
  BY DEF Turn, ReadSteps, TrackerReads, Sockets, Places, Program
<1>8. Found'
  <2>1. unread'[c] # <<>>
    <3>1. Len(Append(unread[c], sent[c] + 1)) = Len(unread[c]) + 1 /\ Len(unread[c]) \in Nat
      BY <1>0
    <3>2. Len(<<>>) = 0
      OBVIOUS
    <3> DEFINE more == Append(unread[c], sent[c] + 1)
    <3> HIDE DEF more
    <3>3. more # <<>>
      <4>1. Len(more) = Len(unread[c]) + 1
        BY <3>1 DEF more
      <4> QED BY <3>1, <3>2, <4>1
    <3> QED BY <1>0a, <3>3 DEF more
  <2> QED BY <2>1, <1>0a DEF Found, HasData, AtEnd
<1>9. Stream'
  <2>1. ASSUME NEW d \in Conns
        PROVE  log'[d] \o (Held(d)' \o unread'[d]) = Upto(sent'[d])
    <3>1. Held(d)' = Held(d) /\ log' = log
      BY DEF Held
    <3>2. CASE d # c
      BY <1>0a, <3>1, <3>2 DEF Stream
    <3>3. CASE d = c
      <4>1. log[c] \o (Held(c) \o unread[c]) = Upto(sent[c])
        BY DEF Stream
      <4>2. log[c] \o (Held(c) \o Append(unread[c], sent[c] + 1)) = Upto(sent[c] + 1)
        BY <1>0, <4>1, OneMore
      <4> QED BY <1>0a, <3>1, <3>3, <4>2
    <3> QED BY <3>2, <3>3
  <2> QED BY <2>1 DEF Stream
<1> QED BY <1>1, <1>2, <1>3, <1>4, <1>5, <1>6, <1>7, <1>8, <1>9

LEMMA CloseIInv ==
    ASSUME Patient, IInv, NEW c \in Conns, Close(c)
    PROVE  IInv'
<1> USE DEF Patient, Close, IInv, TypeOK, Conns, Numbers, Threads, Behind, Now, Online, At,
            client, network, tracker
<1>1. Places'
  BY DEF Places
<1>2. Sockets'
  BY DEF Sockets, PeerState
<1>3. Chunks'
  BY DEF Chunks
<1>4. Tasks'
  BY DEF Tasks
<1>5. Descriptors'
  BY DEF Descriptors, Program, Turn, Sockets, Places
<1>6. Program'
  BY DEF Program, Turn, Sockets, Places, ReadSteps, TrackerReads, Descriptors
<1>7. Turn'
  BY DEF Turn, ReadSteps, TrackerReads, Sockets, Places, Program
<1>8. Found'
  BY DEF Found, Turn, ReadSteps, TrackerReads, Sockets, Places, HasData, AtEnd, WouldBlock
<1>9. Stream'
  BY DEF Stream, Turn, ReadSteps, TrackerReads, Sockets, Chunks, Places, Held
<1> QED BY <1>1, <1>2, <1>3, <1>4, <1>5, <1>6, <1>7, <1>8, <1>9

LEMMA NextIInv == Patient /\ IInv /\ [Next]_vars => IInv'
<1> SUFFICES ASSUME Patient, IInv, [Next]_vars PROVE IInv'
  OBVIOUS
<1>1. CASE UNCHANGED vars
  <2> USE <1>1 DEF vars, client, network, tracker, IInv, Online, Now, Behind
  <2>1. TypeOK'
    BY DEF TypeOK, Places, Sockets, Chunks, Tasks
  <2>2. Descriptors' /\ Program'
    BY DEF Descriptors, Program
  <2>3. Turn' /\ Found'
    BY DEF Turn, Found, HasData, AtEnd
  <2>4. Stream'
    BY DEF Stream, Held
  <2> QED BY <2>1, <2>2, <2>3, <2>4
<1>2. CASE Connecting \/ StartConnect
  BY <1>2, StartConnectIInv, DisconnectIInv, SocketIInv, ConnectIInv, EnterIInv, ReadIInv,
     DeliverIInv, AddIInv, NoticeDeleteIInv, NoticeCloseIInv DEF Connecting, Reading, Threads
<1>3. CASE Tracking
  BY <1>3, CopyIInv, SelectIInv, TaskIInv, FinishIInv, EnterIInv, ReadIInv, DeliverIInv,
     AddIInv, NoticeDeleteIInv, NoticeCloseIInv DEF Tracking, Reading, Threads
<1>4. CASE \E c \in Conns : Send(c) \/ Close(c)
  BY <1>4, SendIInv, CloseIInv
<1> QED BY <1>1, <1>2, <1>3, <1>4 DEF Next

-----------------------------------------------------------------------------
(* The properties.                                                         *)

\* What was delivered is the beginning of what was sent.
LEMMA BeginsWith ==
    ASSUME NEW n \in Nat, NEW a \in Seq(Nat), NEW b \in Seq(Nat), a \o b = Upto(n)
    PROVE  a = Upto(Len(a))
<1> USE DEF Upto
<1>1. Len(a) + Len(b) = n /\ Len(a) \in Nat /\ Len(b) \in Nat
  <2>1. a \o b \in Seq(Nat) /\ Len(a \o b) = Len(a) + Len(b)
    BY ConcatProperties
  <2>2. DOMAIN (a \o b) = 1..(Len(a) + Len(b)) /\ Len(a) + Len(b) \in Nat
    BY <2>1, LenProperties
  <2>3. 1..(Len(a) + Len(b)) = 1..n
    BY <2>2
  <2> QED BY <2>2, <2>3
<1>2. \A i \in 1..Len(a) : a[i] = i
  <2> TAKE i \in 1..Len(a)
  <2>1. i \in 1..n /\ i \in 1..(Len(a) + Len(b)) /\ i <= Len(a)
    BY <1>1
  <2>2. (a \o b)[i] = a[i]
    BY <2>1, ConcatProperties
  <2> QED BY <2>1, <2>2
<1> QED BY <1>2

LEMMA IInvClientSafe == Patient /\ IInv => ClientSafe
<1> SUFFICES ASSUME Patient, IInv PROVE ClientSafe
  OBVIOUS
<1> USE DEF Patient, IInv, TypeOK, Conns, Numbers
<1>1. WatchedOnce
  BY DEF WatchedOnce, Busy, Threads, Turn, Online, Places, TrackerPC, ProgramPC, ReadSteps
<1>2. TasksOfOpen
  BY DEF TasksOfOpen, Turn, Now
<1>3. InOrder
  <2> SUFFICES ASSUME NEW c \in Conns PROVE log[c] = Upto(Len(log[c]))
    BY DEF InOrder, Upto
  <2>1. log[c] \in Seq(Nat) /\ Held(c) \o unread[c] \in Seq(Nat) /\ sent[c] \in Nat
    BY EmptySeq, ConcatProperties DEF Chunks, Held, Threads
  <2>2. log[c] \o (Held(c) \o unread[c]) = Upto(sent[c])
    BY DEF Stream
  <2> QED BY <2>1, <2>2, BeginsWith
<1>4. OnlyEndedClosed
  BY DEF OnlyEndedClosed, Descriptors, Now
<1> QED BY <1>1, <1>2, <1>3, <1>4 DEF ClientSafe

\* For a program that connects again only after a failure or after the end of
\* its connection, every variable keeps its type, and the tracker thread lives.
THEOREM TypeCorrect == ASSUME Patient PROVE Spec => []TypeOK
<1>1. Init => IInv
  BY InitIInv, Patient
<1>2. IInv /\ [Next]_vars => IInv'
  BY NextIInv, Patient
<1>3. IInv => TypeOK
  BY DEF IInv
<1> QED BY <1>1, <1>2, <1>3, PTL DEF Spec

\* Across any number of reconnects of such a program: a client at rest has one
\* read task, of the connection it has; no task outlives its connection; what
\* is delivered is what was sent; and only ended connections are closed.
THEOREM ClientIsSafe == ASSUME Patient PROVE Spec => []ClientSafe
<1>1. Init => IInv
  BY InitIInv, Patient
<1>2. IInv /\ [Next]_vars => IInv'
  BY NextIInv, Patient
<1>3. IInv => ClientSafe
  BY IInvClientSafe, Patient
<1> QED BY <1>1, <1>2, <1>3, PTL DEF Spec
=============================================================================
