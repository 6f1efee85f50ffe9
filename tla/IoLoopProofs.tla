---------------------------- MODULE IoLoopProofs ----------------------------
(***************************************************************************)
(* Why the bookkeeping of a server's tracker thread is right, for any      *)
(* number of peers, any sizes of the buffers and anything the peers do.    *)
(***************************************************************************)
EXTENDS IoLoop, FiniteSetTheorems, SequenceTheorems, WellFoundedInduction, TLAPS

(***************************************************************************)
(* The properties lean on each other.  A task is told from the others by   *)
(* its id; a frame may hold a task that was deleted in the meantime, and   *)
(* so may the copy of the list.  What saves the accept task is that it is  *)
(* never deleted but by its own done(), which runs at the bottom of the    *)
(* stack, and only if there is somebody to accept.                         *)
(***************************************************************************)

Ids == Nat \ {0}
ReadTasks   == [id : Ids, type : {"read"}, fd : ConnFds, obj : Peers]
ListenTasks == [id : Ids, type : {"accept"}, fd : {ListenFd}, obj : {Server}]
Places == {"read", "called"}
DoneFrames   == [kind : {"done"}, task : ReadTasks, obj : Peers, at : Places, full : BOOLEAN]
AcceptFrames == [kind : {"accept"}, task : ListenTasks, obj : {Server}, at : Places, full : BOOLEAN]
ReadFrames   == [kind : {"read"}, task : {NoTask}, obj : Peers, at : Places, full : BOOLEAN]
Frames == DoneFrames \cup AcceptFrames \cup ReadFrames

\* The types, finer than TypeOK has them.
Typed ==
    /\ link \in [Peers -> {"none", "backlog", "accepted"}]
    /\ end \in [Peers -> {"open", "closed", "reset"}]
    /\ rx \in [Peers -> 0..MaxInFlight] /\ sends \in [Peers -> 0..MaxSends]
    /\ fd \in [Peers -> {0} \cup ConnFds]
    /\ clients \in Seq(Peers)
    /\ \A i, j \in DOMAIN clients : clients[i] = clients[j] => i = j
    /\ tasks \subseteq ReadTasks \cup ListenTasks /\ IsFiniteSet(tasks)
    /\ snap \subseteq ReadTasks \cup ListenTasks /\ IsFiniteSet(snap)
    /\ stack \in Seq(Frames)
    /\ ready \subseteq Nat /\ errors \in 0..MaxAcceptErrors
    /\ status \in {"run", "freed", "stdin"} /\ cutOff \subseteq Peers

\* An open socket is that of one accepted connection, which is in the list.
Sockets ==
    /\ ClientsOpen
    /\ \A p \in Peers : fd[p] # 0 => link[p] = "accepted"
    /\ \A p, q \in Peers : fd[p] = fd[q] /\ fd[p] # 0 => p = q

\* A task is known by its id; one that runs is not waiting to be run.
Identified ==
    /\ \A t, u \in tasks \cup snap : t.id = u.id => t = u
    /\ \A i \in DOMAIN stack : \A t \in tasks : stack[i].task.id = t.id => stack[i].task = t
    /\ \A i \in DOMAIN stack : \A t \in snap : stack[i].task.id # t.id

Backlog == \E p \in Peers : link[p] = "backlog"

\* The one accept task is in the list until its own done() has made another.
Listening ==
    /\ \E t \in tasks : AcceptTasks = {t}
    /\ \A t \in snap : t.type = "accept" => t \in tasks
    /\ \A i \in DOMAIN stack : stack[i].kind = "accept" =>
          i = 1 /\ stack[i].task \in tasks
    /\ \A i \in DOMAIN stack : stack[i].kind = "accept" /\ stack[i].at = "read" => Backlog
    /\ ListenFd \in ready /\ (\E t \in snap : t.type = "accept") => Backlog

IInv == Typed /\ Sockets /\ Identified /\ Listening /\ TasksOwned

-----------------------------------------------------------------------------
(* Numbers: the least one of a set, and a bound of a finite set.           *)

LEMMA LeastOf ==
    ASSUME NEW S \in SUBSET Nat, S # {}
    PROVE  \E n \in S : \A m \in S : n <= m
<1>1. PICK n \in S : \A m \in S : <<m, n>> \notin OpToRel(<, Nat)
  BY NatLessThanWellFounded, WFMin
<1>2. ASSUME NEW m \in S PROVE ~(m < n)
  <2>1. <<m, n>> \notin {ss \in Nat \X Nat : ss[1] < ss[2]}
    BY <1>1 DEF OpToRel
  <2> QED BY <2>1
<1> QED BY <1>2

Unbounded(n) == \E f \in [1..n -> Nat] : \A b \in Nat : \E i \in 1..n : f[i] > b

LEMMA OneMore ==
    ASSUME NEW n \in Nat, ~Unbounded(n)
    PROVE  ~Unbounded(n + 1)
<1> SUFFICES ASSUME NEW f \in [1..n + 1 -> Nat]
             PROVE  \E b \in Nat : \A i \in 1..n + 1 : f[i] <= b
  <2>1. ASSUME NEW f \in [1..n + 1 -> Nat], NEW i \in 1..n + 1, NEW b \in Nat
        PROVE  f[i] <= b <=> ~(f[i] > b)
    <3>1. f[i] \in Nat
      OBVIOUS
    <3> QED BY <3>1
  <2> QED BY <2>1 DEF Unbounded
<1> DEFINE g == [i \in 1..n |-> f[i]]
<1>1. g \in [1..n -> Nat]
  OBVIOUS
<1>2. PICK b \in Nat : \A i \in 1..n : ~(g[i] > b)
  <2> HIDE DEF g
  <2> QED BY <1>1 DEF Unbounded
<1>3. \A i \in 1..n : f[i] <= b
  BY <1>2
<1>4. f[n + 1] \in Nat
  OBVIOUS
<1>5. \E c \in Nat : f[n + 1] <= c /\ b <= c
  BY <1>4
<1>6. PICK c \in Nat : f[n + 1] <= c /\ b <= c
  BY <1>5
<1>7. \A i \in 1..n + 1 : i = n + 1 \/ i \in 1..n
  OBVIOUS
<1>8. \A i \in 1..n : f[i] <= c
  BY <1>3, <1>6
<1> QED BY <1>6, <1>7, <1>8

LEMMA BoundOf ==
    ASSUME NEW S \in SUBSET Nat, IsFiniteSet(S)
    PROVE  \E b \in Nat : \A n \in S : n <= b
<1> DEFINE T == {n \in Nat : Unbounded(n)}
<1>1. T = {}
  <2>1. SUFFICES ASSUME T # {} PROVE FALSE
    OBVIOUS
  <2> HIDE DEF T
  <2>2. T \in SUBSET Nat
    BY DEF T
  <2>3. PICK n \in T : \A m \in T : n <= m
    BY <2>1, <2>2, LeastOf
  <2>4. n \in Nat /\ Unbounded(n)
    BY <2>3 DEF T
  <2>5. n # 0
    <3>1. ASSUME Unbounded(0) PROVE FALSE
      BY <3>1 DEF Unbounded
    <3> QED BY <2>4, <3>1
  <2>6. n - 1 \in Nat /\ n - 1 \notin T
    BY <2>3, <2>4, <2>5
  <2>7. ~Unbounded(n - 1)
    BY <2>6 DEF T
  <2>8. (n - 1) + 1 = n
    BY <2>4
  <2>9. ~Unbounded((n - 1) + 1)
    BY <2>6, <2>7, OneMore
  <2> QED BY <2>4, <2>8, <2>9
<1>2. PICK n \in Nat : ExistsSurjection(1..n, S)
  BY FS_NatSurjection
<1>3. PICK f \in [1..n -> S] : \A x \in S : \E i \in 1..n : f[i] = x
  BY <1>2 DEF ExistsSurjection, Surjection
<1>4. f \in [1..n -> Nat] /\ ~Unbounded(n)
  BY <1>1, <1>3
<1>5. PICK b \in Nat : \A i \in 1..n : ~(f[i] > b)
  BY <1>4 DEF Unbounded
<1>6. \A i \in 1..n : f[i] \in Nat /\ f[i] <= b
  BY <1>4, <1>5
<1> QED BY <1>3, <1>5, <1>6

-----------------------------------------------------------------------------
(* What the helpers return.                                                *)

\* A new task has an id of its own, behind all others.
LEMMA FreshLaw ==
    ASSUME Used \subseteq Nat, IsFiniteSet(Used)
    PROVE  FreshId \in Ids /\ \A n \in Used : n < FreshId
<1> DEFINE B == {b \in Nat : \A n \in Used : n <= b}
<1>1. PICK b \in B : \A c \in B : b <= c
  <2>1. B # {}
    BY BoundOf
  <2> QED BY <2>1, LeastOf
<1>2. b \in Used \cup {0}
  <2>1. SUFFICES ASSUME b \notin Used, b # 0 PROVE FALSE
    OBVIOUS
  <2>2. b - 1 \in B
    BY <2>1
  <2> QED BY <1>1, <2>2
<1>3. b + 1 \in {n + 1 : n \in Used \cup {0}} /\ \A n \in Used : n < b + 1
  BY <1>2
<1> DEFINE I == {n + 1 : n \in Used \cup {0}}
<1>4. \E i \in I : \A n \in Used : n < i
  BY <1>3
<1>5. FreshId \in I /\ \A n \in Used : n < FreshId
  BY <1>4 DEF FreshId
<1> QED BY <1>5 DEF Ids

\* A socket that is closed can be opened: one of as many descriptors as there
\* are peers is free.
LEMMA FreeLaw ==
    ASSUME IsFiniteSet(Peers), fd \in [Peers -> {0} \cup ConnFds],
           NEW p \in Peers, fd[p] = 0
    PROVE  LET free == ConnFds \ {fd[q] : q \in Peers}
           IN  (CHOOSE f \in free : \A g \in free : f <= g) \in free
<1> DEFINE free == ConnFds \ {fd[q] : q \in Peers}
<1>1. Cardinality(Peers) \in Nat
  BY FS_CardinalityType
<1>2. IsFiniteSet(ConnFds) /\ Cardinality(ConnFds) = Cardinality(Peers)
  <2>1. /\ IsFiniteSet(2..1 + Cardinality(Peers))
        /\ Cardinality(2..1 + Cardinality(Peers)) =
              IF 2 > 1 + Cardinality(Peers) THEN 0 ELSE 1 + Cardinality(Peers) - 2 + 1
    BY <1>1, FS_Interval
  <2> QED BY <1>1, <2>1 DEF ConnFds
<1>3. /\ IsFiniteSet(Peers \ {p})
      /\ Cardinality(Peers \ {p}) < Cardinality(ConnFds)
  <2>1. /\ IsFiniteSet(Peers \ {p})
        /\ Cardinality(Peers \ {p}) = Cardinality(Peers) - 1
    BY FS_RemoveElement
  <2> QED BY <1>1, <1>2, <2>1
<1>4. free # {}
  <2>1. SUFFICES ASSUME free = {} PROVE FALSE
    OBVIOUS
  <2> DEFINE h == [f \in ConnFds |-> CHOOSE q \in Peers : fd[q] = f]
  <2>2. \A f \in ConnFds : h[f] \in Peers /\ fd[h[f]] = f
    BY <2>1
  <2>3. \A f \in ConnFds : f # 0
    BY <1>1 DEF ConnFds
  <2>4. h \in [ConnFds -> Peers \ {p}]
    BY <2>2, <2>3
  <2>5. PICK f, g \in ConnFds : f # g /\ h[f] = h[g]
    <3> HIDE DEF h
    <3> QED BY <1>2, <1>3, <2>4, FS_PigeonHole
  <2> QED BY <2>2, <2>5
<1>5. free \subseteq Nat
  BY <1>1 DEF ConnFds
<1>6. \E f \in free : \A g \in free : f <= g
  <2> HIDE DEF free
  <2> QED BY <1>4, <1>5, LeastOf
<1> QED BY <1>6

\* list::remove takes one client out, and nobody else.
LEMMA DropLaw ==
    ASSUME clients \in Seq(Peers),
           \A i, j \in DOMAIN clients : clients[i] = clients[j] => i = j,
           NEW p
    PROVE  /\ Drop(p) \in Seq(Peers)
           /\ \A i, j \in DOMAIN Drop(p) : Drop(p)[i] = Drop(p)[j] => i = j
           /\ \A q : q \in Elements(Drop(p)) <=> q \in Elements(clients) /\ q # p
<1>1. CASE p \notin Elements(clients)
  BY <1>1 DEF Drop, Elements
<1>2. CASE p \in Elements(clients)
  <2> DEFINE i == CHOOSE i \in DOMAIN clients : clients[i] = p
  <2>1. i \in DOMAIN clients /\ clients[i] = p
    BY <1>2 DEF Elements
  <2> DEFINE n == Len(clients)
             d == [j \in 1..n - 1 |-> IF j < i THEN clients[j] ELSE clients[j + 1]]
  <2>2. n \in Nat /\ i \in 1..n /\ DOMAIN clients = 1..n
    BY <2>1
  <2>3. Drop(p) = d
    BY <1>2 DEF Drop
  <2> HIDE DEF i
  <2>4. d \in Seq(Peers) /\ DOMAIN d = 1..n - 1
    <3>1. d \in [1..n - 1 -> Peers] /\ n - 1 \in Nat
      BY <2>2
    <3> HIDE DEF d
    <3> QED BY <3>1
  <2>5. \A j, k \in 1..n - 1 : d[j] = d[k] => j = k
    BY <2>2
  <2>6. ASSUME NEW q PROVE (\E j \in 1..n - 1 : d[j] = q) <=> (\E j \in 1..n : clients[j] = q) /\ q # p
    <3>1. ASSUME NEW j \in 1..n - 1 PROVE \E k \in 1..n : clients[k] = d[j] /\ k # i
      BY <2>2
    <3>2. ASSUME NEW j \in 1..n, j # i PROVE \E k \in 1..n - 1 : d[k] = clients[j]
      <4>1. CASE j < i
        BY <2>2, <4>1
      <4>2. CASE j > i
        <5>1. j - 1 \in 1..n - 1 /\ d[j - 1] = clients[j]
          BY <2>2, <4>2
        <5> QED BY <5>1
      <4> QED BY <2>2, <3>2, <4>1, <4>2
    <3> HIDE DEF d
    <3> QED BY <2>1, <2>2, <3>1, <3>2
  <2> HIDE DEF d
  <2>7. \A q : q \in Elements(d) <=> \E j \in 1..n - 1 : d[j] = q
    BY <2>4 DEF Elements
  <2>8. \A q : q \in Elements(clients) <=> \E j \in 1..n : clients[j] = q
    BY <2>2 DEF Elements
  <2> HIDE DEF n
  <2>9. \A q : q \in Elements(d) <=> q \in Elements(clients) /\ q # p
    BY <2>6, <2>7, <2>8
  <2> QED BY <2>3, <2>4, <2>5, <2>9
<1> QED BY <1>1, <1>2
-----------------------------------------------------------------------------
(* The stack.                                                              *)

\* What is on the stack behind a step, frame by frame.
LEMMA UnderLaw ==
    ASSUME stack \in Seq(Frames), stack # <<>>
    PROVE  /\ Top \in Frames /\ Len(stack) \in DOMAIN stack
           /\ Under \in Seq(Frames)
           /\ DOMAIN Under = 1..Len(stack) - 1
           /\ \A i \in DOMAIN Under : i \in DOMAIN stack /\ Under[i] = stack[i]
BY DEF Top, Under

LEMMA AtLaw ==
    ASSUME NEW f \in Frames, NEW at \in Places, NEW full \in BOOLEAN
    PROVE  /\ [f EXCEPT !.at = at, !.full = full] \in Frames
           /\ [f EXCEPT !.at = at] \in Frames
BY DEF Frames, DoneFrames, AcceptFrames, ReadFrames, Places

LEMMA AppendLaw ==
    ASSUME stack \in Seq(Frames), stack # <<>>, NEW f \in Frames
    PROVE  /\ Append(Under, f) \in Seq(Frames)
           /\ DOMAIN Append(Under, f) = DOMAIN stack
           /\ \A i \in DOMAIN stack :
                 Append(Under, f)[i] = IF i = Len(stack) THEN f ELSE stack[i]
<1>1. Under \in Seq(Frames) /\ Len(Under) = Len(stack) - 1
      /\ \A i \in 1..Len(stack) - 1 : Under[i] = stack[i]
  <2>1. Under \in Seq(Frames) /\ DOMAIN Under = 1..Len(stack) - 1
    BY UnderLaw
  <2>2. Len(stack) - 1 \in Nat
    OBVIOUS
  <2>3. Len(Under) = Len(stack) - 1
    <3> HIDE DEF Under
    <3> QED BY <2>1, <2>2, LenProperties
  <2> QED BY <2>1, <2>3, UnderLaw
<1>2. Len(stack) \in Nat /\ DOMAIN stack = 1..Len(stack)
  OBVIOUS
<1> HIDE DEF Under
<1> QED BY <1>1, <1>2

LEMMA CalledLaw ==
    ASSUME stack \in Seq(Frames), stack # <<>>, NEW full \in BOOLEAN
    PROVE  /\ Called(full) \in Seq(Frames)
           /\ DOMAIN Called(full) = DOMAIN stack /\ Called(full) # <<>>
           /\ \A i \in DOMAIN stack :
                 Called(full)[i] = IF i = Len(stack) THEN [Top EXCEPT !.at = "called", !.full = full]
                                   ELSE stack[i]
<1>1. Top \in Frames
  BY UnderLaw
<1>2. [Top EXCEPT !.at = "called", !.full = full] \in Frames
  BY <1>1, AtLaw DEF Places
<1>3. Len(stack) \in DOMAIN stack
  BY UnderLaw
<1> QED BY <1>2, <1>3, AppendLaw DEF Called

\* A step of the innermost call: the frames below stay, and a frame that is
\* new is that of a _read.
StackFrom ==
    \A i \in DOMAIN stack' :
        \/ /\ i \in DOMAIN stack
           /\ stack'[i].kind = stack[i].kind /\ stack'[i].task = stack[i].task
           /\ stack[i].kind = "accept" => stack'[i].at \in {stack[i].at, "called"}
        \/ stack'[i].kind = "read" /\ stack'[i].task = NoTask

LEMMA UnderFrom ==
    ASSUME stack \in Seq(Frames), stack # <<>>, stack' = Under
    PROVE  StackFrom
BY UnderLaw DEF StackFrom

LEMMA CalledFrom ==
    ASSUME stack \in Seq(Frames), stack # <<>>, NEW full \in BOOLEAN, stack' = Called(full)
    PROVE  StackFrom
<1>1. Top \in Frames /\ Top = stack[Len(stack)]
  BY UnderLaw DEF Top
<1>2. LET f == [Top EXCEPT !.at = "called", !.full = full]
      IN  f.kind = Top.kind /\ f.task = Top.task /\ f.at = "called"
  BY <1>1 DEF Frames, DoneFrames, AcceptFrames, ReadFrames
<1> QED BY <1>1, <1>2, CalledLaw DEF StackFrom

LEMMA AgainFrom ==
    ASSUME stack \in Seq(Frames), stack # <<>>, Top.kind # "accept",
           stack' = Append(Under, [Top EXCEPT !.at = "read"])
    PROVE  StackFrom /\ stack' \in Seq(Frames)
<1> DEFINE f == [Top EXCEPT !.at = "read"]
<1>1. Top \in Frames /\ Top = stack[Len(stack)]
  BY UnderLaw DEF Top
<1>2. f \in Frames
  BY <1>1, AtLaw DEF Places
<1>3. f.kind = Top.kind /\ f.task = Top.task
  BY <1>1 DEF Frames, DoneFrames, AcceptFrames, ReadFrames
<1> HIDE DEF f
<1>4. stack' = Append(Under, f)
  BY DEF f
<1> QED BY <1>1, <1>2, <1>3, <1>4, AppendLaw DEF StackFrom

LEMMA PushFrom ==
    ASSUME stack \in Seq(Frames), stack # <<>>, NEW full \in BOOLEAN, NEW p \in Peers,
           stack' = Append(Called(full), ReadFrame(p))
    PROVE  /\ StackFrom /\ stack' \in Seq(Frames)
           /\ DOMAIN stack' = 1..Len(stack) + 1
           /\ \A i \in DOMAIN stack : stack'[i] = Called(full)[i]
           /\ stack'[Len(stack) + 1] = ReadFrame(p)
<1>1. ReadFrame(p) \in Frames
  BY DEF ReadFrame, Frames, ReadFrames, Places
<1>2. Called(full) \in Seq(Frames) /\ DOMAIN Called(full) = DOMAIN stack
  BY CalledLaw
<1>3. Len(Called(full)) = Len(stack) /\ DOMAIN stack = 1..Len(stack) /\ Len(stack) \in Nat
  BY <1>2
<1> DEFINE c == Called(full)
<1> HIDE DEF c
<1>4. /\ stack' \in Seq(Frames) /\ DOMAIN stack' = 1..Len(stack) + 1
      /\ \A i \in DOMAIN stack : stack'[i] = c[i]
      /\ stack'[Len(stack) + 1] = ReadFrame(p)
  <2>1. c \in Seq(Frames) /\ Len(c) = Len(stack) /\ stack' = Append(c, ReadFrame(p))
    BY <1>2, <1>3 DEF c
  <2> QED BY <1>1, <1>3, <2>1
<1>5. Top \in Frames /\ Top = stack[Len(stack)]
  BY UnderLaw DEF Top
<1>6. LET f == [Top EXCEPT !.at = "called", !.full = full]
      IN  f.kind = Top.kind /\ f.task = Top.task /\ f.at = "called"
  BY <1>5 DEF Frames, DoneFrames, AcceptFrames, ReadFrames
<1>7. \A i \in DOMAIN stack :
         /\ stack'[i].kind = stack[i].kind /\ stack'[i].task = stack[i].task
         /\ stack'[i].at \in {stack[i].at, "called"}
  BY <1>4, <1>5, <1>6, CalledLaw DEF c
<1>8. ReadFrame(p).kind = "read" /\ ReadFrame(p).task = NoTask
  BY DEF ReadFrame
<1>9. StackFrom
  BY <1>3, <1>4, <1>7, <1>8 DEF StackFrom
<1> QED BY <1>4, <1>9 DEF c

-----------------------------------------------------------------------------
(* Reads.                                                                  *)

\* What ::read returns on a descriptor of a connection.
LEMMA ReadLaw ==
    ASSUME Typed, Sockets, NEW f \in ConnFds, NEW size \in Nat \ {0}
    PROVE  LET n == Read(f, size) IN
           /\ n \in -1..size
           /\ Owners(f) = {} => n = -1
           /\ \A p \in Peers : fd[p] = f =>
                 /\ rx[p] > 0 => n > 0 /\ n <= rx[p] /\ (rx[p] < size => n = rx[p])
                 /\ rx[p] = 0 => n = IF end[p] = "closed" THEN 0 ELSE -1
<1>1. f # 0
  <2>1. Cardinality(Peers) \in Nat
    BY IoAssumption, FS_CardinalityType
  <2> QED BY <2>1 DEF ConnFds
<1>2. CASE Owners(f) = {}
  BY <1>2 DEF Read, Owners
<1>3. ASSUME NEW p \in Peers, fd[p] = f
      PROVE  LET n == Read(f, size) IN
             /\ n \in -1..size
             /\ rx[p] > 0 => n > 0 /\ n <= rx[p] /\ (rx[p] < size => n = rx[p])
             /\ rx[p] = 0 => n = IF end[p] = "closed" THEN 0 ELSE -1
  <2>1. (CHOOSE q \in Peers : fd[q] = f) = p
    BY <1>1, <1>3 DEF Sockets
  <2>2. Owners(f) # {}
    BY <1>3 DEF Owners
  <2>3. rx[p] \in Nat
    BY IoAssumption DEF Typed
  <2>4. Read(f, size) = IF rx[p] > 0 THEN IF rx[p] < size THEN rx[p] ELSE size
                        ELSE IF end[p] = "closed" THEN 0 ELSE -1
    <3> DEFINE r == CHOOSE q \in Peers : fd[q] = f
    <3>1. Read(f, size) = IF Owners(f) = {} THEN -1
                          ELSE IF rx[r] > 0 THEN IF rx[r] < size THEN rx[r] ELSE size
                          ELSE IF end[r] = "closed" THEN 0 ELSE -1
      BY DEF Read
    <3> HIDE DEF r
    <3>2. r = p
      BY <2>1 DEF r
    <3> QED BY <2>2, <3>1, <3>2
  <2> QED BY <2>3, <2>4
<1> QED BY <1>2, <1>3 DEF Owners

LEMMA DrainLaw ==
    ASSUME Typed, Sockets, NEW f \in ConnFds, NEW size \in Nat \ {0},
           Drain(f, Read(f, size))
    PROVE  /\ link' = link /\ sends' \in [Peers -> 0..MaxSends]
           /\ rx' \in [Peers -> 0..MaxInFlight]
           /\ end' \in [Peers -> {"open", "closed", "reset"}]
<1> DEFINE n == Read(f, size)
<1>1. \A p \in Peers : fd[p] = f /\ n > 0 => rx[p] - n \in 0..MaxInFlight
  <2> SUFFICES ASSUME NEW p \in Peers, fd[p] = f, n > 0 PROVE rx[p] - n \in 0..MaxInFlight
    OBVIOUS
  <2>1. rx[p] \in 0..MaxInFlight /\ MaxInFlight \in Nat
    BY IoAssumption DEF Typed
  <2>2. n \in Int /\ n <= rx[p]
    <3>1. n \in -1..size
      BY ReadLaw
    <3>2. rx[p] = 0 => n <= 0
      BY ReadLaw
    <3>3. rx[p] > 0 => n <= rx[p]
      BY ReadLaw
    <3> HIDE DEF n
    <3> QED BY <2>1, <3>1, <3>2, <3>3
  <2> HIDE DEF n
  <2> QED BY <2>1, <2>2
<1>2. rx' = [p \in Peers |-> IF fd[p] = f /\ n > 0 THEN rx[p] - n ELSE rx[p]]
  BY DEF Drain
<1> HIDE DEF n
<1>3. rx' \in [Peers -> 0..MaxInFlight]
  BY <1>1, <1>2 DEF Typed
<1> QED BY <1>3 DEF Drain, Typed

-----------------------------------------------------------------------------
(* What one step keeps of the invariant.                                   *)

LEMMA ConnLaw == ConnFds \subseteq Nat \ {Stdin, ListenFd}
<1>1. Cardinality(Peers) \in Nat
  BY IoAssumption, FS_CardinalityType
<1> QED BY <1>1 DEF ConnFds, Stdin, ListenFd

LEMMA FrameLaw ==
    ASSUME NEW f \in Frames
    PROVE  /\ f.kind = "done" => f.task \in ReadTasks /\ f.obj \in Peers
           /\ f.kind = "accept" => f.task \in ListenTasks
           /\ f.kind = "read" => f.task = NoTask /\ f.obj \in Peers
           /\ f.kind \in {"done", "accept", "read"}
           /\ f.task.id \in Nat /\ f.at \in Places /\ f.full \in BOOLEAN
BY DEF Frames, DoneFrames, AcceptFrames, ReadFrames, NoTask, ReadTasks, ListenTasks, Ids

LEMMA TaskLaw ==
    ASSUME NEW t \in ReadTasks \cup ListenTasks
    PROVE  /\ t.id \in Ids /\ t.id # NoTask.id /\ t.type \in {"read", "accept"}
           /\ t.type = "read" <=> t \in ReadTasks
           /\ t.type = "accept" <=> t \in ListenTasks
           /\ t.fd \in ConnFds \cup {ListenFd}
           /\ t.type = "accept" <=> t.fd = ListenFd
<1>1. ListenFd \notin ConnFds
  BY ConnLaw
<1> QED BY <1>1 DEF ReadTasks, ListenTasks, Ids, NoTask

\* The calls go on, and tasks that read are deleted.
LEMMA TasksKept ==
    ASSUME Typed, Identified, Listening, StackFrom, stack' \in Seq(Frames),
           tasks' \subseteq tasks, AcceptTasks \subseteq tasks',
           snap' = snap, ready' = ready, Backlog => Backlog'
    PROVE  Identified' /\ Listening'
<1>1. \A t \in tasks \cup snap : t.id # NoTask.id
  BY TaskLaw DEF Typed
<1>2. Identified'
  <2>1. \A t, u \in tasks' \cup snap' : t.id = u.id => t = u
    BY DEF Identified
  <2>2. ASSUME NEW i \in DOMAIN stack', NEW t \in tasks', stack'[i].task.id = t.id
        PROVE  stack'[i].task = t
    BY <1>1, <2>2 DEF Identified, StackFrom
  <2>3. ASSUME NEW i \in DOMAIN stack', NEW t \in snap' PROVE stack'[i].task.id # t.id
    BY <1>1 DEF Identified, StackFrom
  <2> QED BY <2>1, <2>2, <2>3 DEF Identified
<1>3. AcceptTasks' = AcceptTasks
  BY DEF AcceptTasks
<1>4. Listening'
  <2>1. \E t \in tasks' : AcceptTasks' = {t}
    BY <1>3 DEF Listening
  <2>2. ASSUME NEW t \in snap', t.type = "accept" PROVE t \in tasks'
    BY <2>2 DEF Listening, AcceptTasks
  <2>3. ASSUME NEW i \in DOMAIN stack', stack'[i].kind = "accept"
        PROVE  /\ i = 1 /\ stack'[i].task \in tasks'
               /\ stack'[i].at = "read" => Backlog'
    <3>1. /\ i \in DOMAIN stack /\ stack[i].kind = "accept"
          /\ stack'[i].task = stack[i].task
          /\ stack'[i].at = "read" => stack[i].at = "read"
      BY <2>3 DEF StackFrom
    <3>2. stack[i] \in Frames
      BY <3>1 DEF Typed
    <3>3. stack[i].task.type = "accept"
      BY <3>1, <3>2, FrameLaw DEF ListenTasks
    <3> QED BY <3>1, <3>3 DEF Listening, AcceptTasks
  <2>4. ListenFd \in ready' /\ (\E t \in snap' : t.type = "accept") => Backlog'
    BY DEF Listening
  <2> QED BY <2>1, <2>2, <2>3, <2>4 DEF Listening
<1> QED BY <1>2, <1>4

\* A socket is closed and dropped, with its tasks.
LEMMA DisconnectLaw ==
    ASSUME Typed, Sockets, Identified, Listening, TasksOwned,
           NEW p \in Peers, Disconnect(p), link' = link
    PROVE  /\ Sockets' /\ TasksOwned'
           /\ tasks' \subseteq tasks /\ AcceptTasks \subseteq tasks'
           /\ fd' \in [Peers -> {0} \cup ConnFds] /\ cutOff' \subseteq Peers
           /\ clients' \in Seq(Peers)
           /\ \A i, j \in DOMAIN clients' : clients'[i] = clients'[j] => i = j
<1>1. /\ clients' = Drop(p)
      /\ fd' = [fd EXCEPT ![p] = 0]
      /\ tasks' = {u \in tasks : fd[p] = 0 \/ u.fd # fd[p]}
  BY DEF Disconnect
<1>2. fd \in [Peers -> {0} \cup ConnFds]
  BY DEF Typed
<1>3. /\ clients' \in Seq(Peers)
      /\ \A i, j \in DOMAIN clients' : clients'[i] = clients'[j] => i = j
      /\ \A q : q \in Elements(clients') <=> q \in Elements(clients) /\ q # p
  BY <1>1, DropLaw DEF Typed
<1>4. \A q \in Peers : fd'[q] = IF q = p THEN 0 ELSE fd[q]
  BY <1>1, <1>2
<1>5. Sockets'
  BY <1>3, <1>4 DEF Sockets, ClientsOpen, Alive
<1>6. AcceptTasks \subseteq tasks'
  <2>1. fd[p] # 0 => fd[p] # ListenFd
    BY <1>2, ConnLaw
  <2>2. \A t \in AcceptTasks : t.fd = ListenFd
    BY TaskLaw DEF Typed, AcceptTasks
  <2> QED BY <1>1, <2>1, <2>2 DEF AcceptTasks
<1>7. TasksOwned'
  <2>1. SUFFICES ASSUME NEW t \in tasks', t.type = "read"
                 PROVE  t.fd # 0 /\ fd'[t.obj] = t.fd /\ t.obj \in Elements(clients')
    BY DEF TasksOwned, Alive
  <2>2. t \in tasks /\ (fd[p] = 0 \/ t.fd # fd[p])
    BY <1>1
  <2>3. t.fd # 0 /\ fd[t.obj] = t.fd /\ t.obj \in Elements(clients)
    BY <2>1, <2>2 DEF TasksOwned, Alive
  <2>4. t.obj \in Peers /\ t.obj # p
    <3>1. t.obj \in Peers
      BY <2>1, <2>2, TaskLaw DEF Typed, ReadTasks
    <3> QED BY <2>2, <2>3, <3>1
  <2> QED BY <1>3, <1>4, <2>3, <2>4
<1>8. fd' \in [Peers -> {0} \cup ConnFds] /\ cutOff' \subseteq Peers
  BY <1>1, <1>2 DEF Disconnect, Typed
<1> QED BY <1>1, <1>3, <1>5, <1>6, <1>7, <1>8

\* There is a new id whenever a task is made.
LEMMA FreshTask ==
    ASSUME Typed
    PROVE  /\ FreshId \in Ids
           /\ \A t \in tasks \cup snap : t.id # FreshId
           /\ \A i \in DOMAIN stack : stack[i].task.id # FreshId
<1>1. Used \subseteq Nat
  <2>1. \A t \in tasks \cup snap : t.id \in Nat
    BY TaskLaw DEF Typed, Ids
  <2>2. \A f \in Elements(stack) : f.task.id \in Nat
    BY FrameLaw DEF Typed, Elements
  <2> QED BY <2>1, <2>2 DEF Used
<1>2. IsFiniteSet(Used)
  <2> DEFINE A == tasks \cup snap
             B == DOMAIN stack
             a == [t \in A |-> t.id]
             b == [i \in B |-> stack[i].task.id]
             Ia == {a[t] : t \in A}
             Ib == {b[i] : i \in B}
  <2>1. IsFiniteSet(A)
    BY FS_Union DEF Typed
  <2>2. IsFiniteSet(B)
    <3>1. B = 1..Len(stack) /\ Len(stack) \in Nat
      BY DEF Typed
    <3>2. IsFiniteSet(1..Len(stack))
      BY <3>1, FS_Interval
    <3> QED BY <3>1, <3>2
  <2>3. Used = Ia \cup Ib
    BY DEF Used, Elements
  <2> HIDE DEF A, B, a, b
  <2>4. a \in Surjection(A, Ia)
    BY DEF Surjection, a
  <2>5. b \in Surjection(B, Ib)
    BY DEF Surjection, b
  <2> HIDE DEF Ia, Ib
  <2>6. IsFiniteSet(Ia) /\ IsFiniteSet(Ib)
    BY <2>1, <2>2, <2>4, <2>5, FS_Surjection
  <2> QED BY <2>3, <2>6, FS_Union
<1>3. FreshId \in Ids /\ \A n \in Used : n < FreshId
  BY <1>1, <1>2, FreshLaw
<1>4. FreshId \notin Used
  <2>1. FreshId \in Nat /\ ~(FreshId < FreshId)
    BY <1>3 DEF Ids
  <2> QED BY <1>3, <2>1
<1> QED BY <1>3, <1>4 DEF Used, Elements

-----------------------------------------------------------------------------
(* The steps.                                                              *)

LEMMA InitIInv == Init => IInv
<1> SUFFICES ASSUME Init PROVE IInv
  OBVIOUS
<1> DEFINE t == [id |-> 1, type |-> "accept", fd |-> ListenFd, obj |-> Server]
<1>1. tasks = {t} /\ t \in ListenTasks /\ t.type = "accept"
  BY DEF Init, ListenTasks, Ids
<1>2. Typed
  <2>1. IsFiniteSet(tasks) /\ IsFiniteSet(snap)
    <3>1. snap = {}
      BY DEF Init
    <3> HIDE DEF t
    <3> QED BY <1>1, <3>1, FS_Singleton, FS_EmptySet
  <2>2. 0 \in 0..MaxInFlight /\ 0 \in 0..MaxSends /\ 0 \in 0..MaxAcceptErrors
    BY IoAssumption
  <2> QED BY <1>1, <2>1, <2>2 DEF Init, Typed
<1>3. Sockets
  BY DEF Init, Sockets, ClientsOpen, Alive, Elements
<1>4. Identified
  BY <1>1 DEF Init, Identified
<1>5. Listening
  <2>1. AcceptTasks = {t}
    BY <1>1 DEF AcceptTasks
  <2> QED BY <1>1, <2>1 DEF Init, Listening
<1>6. TasksOwned
  BY <1>1 DEF TasksOwned
<1> QED BY <1>2, <1>3, <1>4, <1>5, <1>6 DEF IInv

LEMMA PeerIInv ==
    ASSUME IInv, PeerStep
    PROVE  IInv'
<1>1. PICK p \in Peers : Connect(p) \/ Send(p) \/ Close(p)
  BY DEF PeerStep
<1>2. Typed /\ Sockets /\ Identified /\ Listening /\ TasksOwned
  BY DEF IInv
<1>3. /\ UNCHANGED <<fd, clients, tasks, snap, ready, stack, errors, status, cutOff>>
      /\ \/ link' = link
         \/ link[p] = "none" /\ link' = [link EXCEPT ![p] = "backlog"]
  <2>1. CASE Connect(p)
    BY <2>1 DEF Connect
  <2>2. CASE Send(p)
    BY <2>2 DEF Send
  <2>3. CASE Close(p)
    BY <2>3 DEF Close
  <2> QED BY <1>1, <2>1, <2>2, <2>3
<1>4. Typed'
  <2>1. /\ end' \in [Peers -> {"open", "closed", "reset"}]
        /\ link' \in [Peers -> {"none", "backlog", "accepted"}]
    BY <1>1, <1>2 DEF Typed, Connect, Send, Close
  <2>2. rx' \in [Peers -> 0..MaxInFlight] /\ sends' \in [Peers -> 0..MaxSends]
    <3>1. MaxInFlight \in Nat /\ MaxSends \in Nat
      BY IoAssumption
    <3>2. rx \in [Peers -> 0..MaxInFlight] /\ sends \in [Peers -> 0..MaxSends]
      BY <1>2 DEF Typed
    <3>3. CASE Connect(p) \/ Close(p)
      BY <3>1, <3>2, <3>3 DEF Connect, Close
    <3>4. CASE Send(p)
      <4>1. rx[p] + 1 \in 0..MaxInFlight /\ sends[p] + 1 \in 0..MaxSends
        BY <3>1, <3>2, <3>4 DEF Send
      <4> QED BY <3>2, <3>4, <4>1 DEF Send
    <3> QED BY <1>1, <3>3, <3>4
  <2> QED BY <1>2, <1>3, <2>1, <2>2 DEF Typed
<1>5. Sockets'
  <2>1. \A q \in Peers : link[q] = "accepted" => link'[q] = "accepted"
    BY <1>2, <1>3 DEF Typed
  <2> QED BY <1>2, <1>3, <2>1 DEF Sockets, ClientsOpen, Alive
<1>6. Identified' /\ Listening'
  <2>1. Backlog => Backlog'
    BY <1>2, <1>3 DEF Backlog, Typed
  <2>2. StackFrom /\ stack' \in Seq(Frames)
    BY <1>2, <1>3 DEF StackFrom, Typed
  <2>3. AcceptTasks \subseteq tasks'
    BY <1>3 DEF AcceptTasks
  <2> QED BY <1>2, <1>3, <2>1, <2>2, <2>3, TasksKept
<1>7. TasksOwned'
  BY <1>2, <1>3 DEF TasksOwned, Alive
<1> QED BY <1>4, <1>5, <1>6, <1>7 DEF IInv

\* select never fails: only open descriptors are watched.
LEMMA WatchedOpen ==
    ASSUME IInv
    PROVE  {t.fd : t \in tasks} \subseteq Open
<1> SUFFICES ASSUME NEW t \in tasks PROVE t.fd \in Open
  OBVIOUS
<1>1. t \in ReadTasks \cup ListenTasks
  BY DEF IInv, Typed
<1>2. CASE t \in ListenTasks
  BY <1>2 DEF ListenTasks, Open
<1>3. CASE t \in ReadTasks
  <2>1. t.type = "read" /\ t.obj \in Peers
    BY <1>3 DEF ReadTasks
  <2> QED BY <2>1 DEF IInv, TasksOwned, Open
<1> QED BY <1>1, <1>2, <1>3

LEMMA SelectIInv ==
    ASSUME IInv, TrackerSelect
    PROVE  IInv'
<1>1. Typed /\ Sockets /\ Identified /\ Listening /\ TasksOwned
  BY DEF IInv
<1>2. /\ stack = <<>> /\ snap = {} /\ status' = status /\ snap' = tasks
      /\ UNCHANGED <<link, end, rx, sends, fd, clients, tasks, stack, errors, cutOff>>
  BY WatchedOpen DEF TrackerSelect, peerVars
<1>3. ready' = {t.fd : t \in tasks} \cap Readable
  BY DEF TrackerSelect
<1>4. Typed'
  <2>1. \A t \in tasks : t.fd \in Nat
    <3>1. \A u \in tasks : u.fd \in ConnFds \cup {ListenFd}
      BY <1>1, TaskLaw DEF Typed
    <3>2. ConnFds \cup {ListenFd} \subseteq Nat
      BY ConnLaw DEF ListenFd
    <3> HIDE DEF ListenFd
    <3> QED BY <3>1, <3>2
  <2>2. ready' \subseteq Nat
    BY <1>3, <2>1
  <2> QED BY <1>1, <1>2, <2>2 DEF Typed
<1>5. Sockets' /\ TasksOwned'
  BY <1>1, <1>2 DEF Sockets, ClientsOpen, TasksOwned, Alive
<1>6. Identified'
  BY <1>1, <1>2 DEF Identified
<1>7. Listening'
  <2>1. ListenFd \in ready' => Backlog'
    <3>1. \A f \in Readable : f = ListenFd => Backlog \/ ListenFd \in {fd[p] : p \in Peers}
      BY DEF Readable, Backlog, Owners
    <3>2. ListenFd \notin {fd[p] : p \in Peers}
      BY <1>1, ConnLaw DEF Typed, ListenFd
    <3> QED BY <1>2, <1>3, <3>1, <3>2 DEF Backlog
  <2>2. AcceptTasks' = AcceptTasks
    BY <1>2 DEF AcceptTasks
  <2> QED BY <1>1, <1>2, <2>1, <2>2 DEF Listening
<1> QED BY <1>4, <1>5, <1>6, <1>7 DEF IInv

\* The copy has a first task.
LEMMA FirstLaw ==
    ASSUME Typed, snap # {}
    PROVE  FirstTask \in snap
<1> DEFINE I == {t.id : t \in snap}
<1>1. \A t \in snap : t.id \in Nat
  BY TaskLaw DEF Typed, Ids
<1>2. PICK n \in I : \A m \in I : n <= m
  <2>1. I \in SUBSET Nat /\ I # {}
    BY <1>1
  <2> HIDE DEF I
  <2> QED BY <2>1, LeastOf
<1>3. \E t \in snap : \A u \in snap : t.id <= u.id
  BY <1>2
<1> QED BY <1>3 DEF FirstTask

LEMMA TaskIInv ==
    ASSUME IInv, TrackerTask
    PROVE  IInv'
<1> DEFINE t == FirstTask
           f == IF t.type = "accept" THEN AcceptFrame(t) ELSE DoneFrame(t)
<1>1. Typed /\ Sockets /\ Identified /\ Listening /\ TasksOwned
  BY DEF IInv
<1>2. /\ stack = <<>> /\ snap' = snap \ {t}
      /\ \/ stack' = <<>> /\ t.fd \notin ready
         \/ stack' = <<f>> /\ t.fd \in ready
      /\ UNCHANGED <<link, end, rx, sends, fd, clients, tasks, ready, errors, status, cutOff>>
  <2>1. stack' = IF t.fd \notin ready THEN <<>>
                 ELSE IF t.type = "accept" THEN <<AcceptFrame(t)>> ELSE <<DoneFrame(t)>>
    BY DEF TrackerTask
  <2>2. /\ stack = <<>> /\ snap' = snap \ {t}
        /\ UNCHANGED <<link, end, rx, sends, fd, clients, tasks, ready, errors, status, cutOff>>
    BY DEF TrackerTask, peerVars
  <2> HIDE DEF t
  <2> QED BY <2>1, <2>2
<1>3. t \in snap
  BY <1>1, FirstLaw DEF TrackerTask
<1>4. t \in ReadTasks \cup ListenTasks
  BY <1>1, <1>3 DEF Typed
<1> HIDE DEF t
<1>5. /\ f \in Frames /\ f.task = t /\ f.at = "read"
      /\ f.kind = "accept" <=> t.type = "accept"
  BY <1>4 DEF ReadTasks, ListenTasks, AcceptFrame, DoneFrame, Frames, AcceptFrames, DoneFrames, Places
<1> HIDE DEF f
<1>6. stack' \in Seq(Frames) /\ \A i \in DOMAIN stack' : i = 1 /\ stack'[i] = f /\ t.fd \in ready
  <2>1. <<f>> \in Seq(Frames) /\ DOMAIN <<f>> = {1} /\ <<f>>[1] = f
    BY <1>5
  <2>2. CASE stack' = <<>>
    BY <2>2
  <2>3. CASE stack' = <<f>> /\ t.fd \in ready
    BY <2>1, <2>3
  <2> QED BY <1>2, <2>2, <2>3
<1>7. Typed'
  <2>1. IsFiniteSet(snap \ {t})
    BY <1>1, FS_RemoveElement DEF Typed
  <2> QED BY <1>1, <1>2, <1>6, <2>1 DEF Typed
<1>8. Sockets' /\ TasksOwned'
  BY <1>1, <1>2 DEF Sockets, ClientsOpen, TasksOwned, Alive
<1>9. Identified'
  BY <1>1, <1>2, <1>3, <1>5, <1>6 DEF Identified
<1>10. Listening'
  <2>1. AcceptTasks' = AcceptTasks
    BY <1>2 DEF AcceptTasks
  <2>2. t.type = "accept" /\ t.fd \in ready => Backlog'
    <3>1. t.type = "accept" => t.fd = ListenFd
      BY <1>4, TaskLaw
    <3> QED BY <1>1, <1>2, <1>3, <3>1 DEF Listening, Backlog
  <2> QED BY <1>1, <1>2, <1>3, <1>5, <1>6, <2>1, <2>2 DEF Listening, Backlog
<1> QED BY <1>7, <1>8, <1>9, <1>10 DEF IInv
\* The call that is under way.
LEMMA RunningLaw ==
    ASSUME Typed, NEW kind, NEW at, Running(kind, at)
    PROVE  /\ stack \in Seq(Frames) /\ stack # <<>>
           /\ Top \in Frames /\ Len(stack) \in DOMAIN stack /\ Top = stack[Len(stack)]
           /\ Top.kind = kind /\ Top.at = at
<1>1. stack \in Seq(Frames) /\ stack # <<>> /\ Top.kind = kind /\ Top.at = at
  BY DEF Running, Typed
<1> QED BY <1>1, UnderLaw DEF Top

\* The task that runs is deleted by its id, and no other with it.
LEMMA WithoutLaw ==
    ASSUME Typed, Identified, NEW i \in DOMAIN stack
    PROVE  /\ Without(stack[i].task) = tasks \ {stack[i].task}
           /\ IsFiniteSet(Without(stack[i].task))
<1>1. Without(stack[i].task) = tasks \ {stack[i].task}
  BY DEF Without, Identified
<1> QED BY <1>1, FS_Subset DEF Typed

\* More is read of the first client, if its socket is open.
LEMMA ReadFirstLaw ==
    ASSUME Typed, stack # <<>>, clients # <<>>, NEW full \in BOOLEAN, ReadFirst(full)
    PROVE  StackFrom /\ stack' \in Seq(Frames)
<1>1. Head(clients) \in Peers
  BY DEF Typed
<1>2. stack \in Seq(Frames)
  BY DEF Typed
<1>3. CASE stack' = Called(full)
  BY <1>2, <1>3, CalledLaw, CalledFrom
<1>4. CASE stack' = Append(Called(full), ReadFrame(Head(clients)))
  BY <1>1, <1>2, <1>4, PushFrom
<1> QED BY <1>3, <1>4 DEF ReadFirst

LEMMA DoneLoopIInv ==
    ASSUME IInv, DoneLoop
    PROVE  IInv'
<1>1. Typed /\ Sockets /\ Identified /\ Listening /\ TasksOwned
  BY DEF IInv
<1>2. /\ stack \in Seq(Frames) /\ stack # <<>> /\ Top \in Frames
      /\ Len(stack) \in DOMAIN stack /\ Top = stack[Len(stack)] /\ Top.kind = "done"
  BY <1>1, RunningLaw DEF DoneLoop
<1>3. /\ \/ stack' = Append(Under, [Top EXCEPT !.at = "read"]) /\ tasks' = tasks
         \/ stack' = Under /\ tasks' = Without(Top.task)
      /\ UNCHANGED <<link, end, rx, sends, fd, clients, snap, ready, errors, status, cutOff>>
  BY DEF DoneLoop, peerVars
<1>4. StackFrom /\ stack' \in Seq(Frames)
  BY <1>2, <1>3, AgainFrom, UnderFrom, UnderLaw
<1>5. tasks' \subseteq tasks /\ AcceptTasks \subseteq tasks' /\ IsFiniteSet(tasks')
  <2>1. Without(Top.task) = tasks \ {Top.task} /\ IsFiniteSet(Without(Top.task))
    BY <1>1, <1>2, WithoutLaw
  <2>2. Top.task \notin AcceptTasks
    BY <1>2, FrameLaw DEF AcceptTasks, ReadTasks
  <2>3. IsFiniteSet(tasks) /\ AcceptTasks \subseteq tasks
    BY <1>1 DEF Typed, AcceptTasks
  <2> QED BY <1>3, <2>1, <2>2, <2>3
<1>6. Typed'
  BY <1>1, <1>3, <1>4, <1>5 DEF Typed
<1>7. Sockets' /\ TasksOwned'
  BY <1>1, <1>3, <1>5 DEF Sockets, ClientsOpen, TasksOwned, Alive
<1>8. Identified' /\ Listening'
  BY <1>1, <1>3, <1>4, <1>5, TasksKept DEF Backlog
<1> QED BY <1>6, <1>7, <1>8 DEF IInv

LEMMA ReadLoopIInv ==
    ASSUME IInv, ReadLoop
    PROVE  IInv'
<1>1. Typed /\ Sockets /\ Identified /\ Listening /\ TasksOwned
  BY DEF IInv
<1>2. stack \in Seq(Frames) /\ stack # <<>> /\ Top.kind = "read"
  BY <1>1, RunningLaw DEF ReadLoop
<1>3. /\ \/ stack' = Append(Under, [Top EXCEPT !.at = "read"])
         \/ stack' = Under
      /\ UNCHANGED <<link, end, rx, sends, fd, clients, tasks, snap, ready, errors, status, cutOff>>
  BY DEF ReadLoop, peerVars
<1>4. StackFrom /\ stack' \in Seq(Frames)
  BY <1>2, <1>3, AgainFrom, UnderFrom, UnderLaw
<1>5. Typed'
  BY <1>1, <1>3, <1>4 DEF Typed
<1>6. Sockets' /\ TasksOwned'
  BY <1>1, <1>3 DEF Sockets, ClientsOpen, TasksOwned, Alive
<1>7. Identified' /\ Listening'
  BY <1>1, <1>3, <1>4, TasksKept DEF Backlog, AcceptTasks
<1> QED BY <1>5, <1>6, <1>7 DEF IInv

LEMMA DoneReadIInv ==
    ASSUME IInv, DoneRead
    PROVE  IInv'
<1> DEFINE p == Top.obj
           n == Read(Top.task.fd, DoneSize)
<1>1. Typed /\ Sockets /\ Identified /\ Listening /\ TasksOwned
  BY DEF IInv
<1>2. /\ stack \in Seq(Frames) /\ stack # <<>> /\ Top \in Frames
      /\ Top.kind = "done"
  BY <1>1, RunningLaw DEF DoneRead
<1>3. p \in Peers /\ Top.task.fd \in ConnFds
  BY <1>2, FrameLaw DEF ReadTasks
<1>4. /\ link' = link /\ sends' \in [Peers -> 0..MaxSends]
      /\ rx' \in [Peers -> 0..MaxInFlight]
      /\ end' \in [Peers -> {"open", "closed", "reset"}]
  BY <1>1, <1>3, DrainLaw, IoAssumption DEF DoneRead
<1>5. snap' = snap /\ ready' = ready /\ errors' = errors
  BY DEF DoneRead
<1>6. CASE status' = "freed" /\ UNCHANGED <<fd, clients, tasks, stack, cutOff>>
  <2>1. StackFrom /\ stack' \in Seq(Frames)
    BY <1>2, <1>6 DEF StackFrom
  <2>2. Typed'
    BY <1>1, <1>4, <1>5, <1>6 DEF Typed
  <2>3. Sockets' /\ TasksOwned'
    BY <1>1, <1>4, <1>6 DEF Sockets, ClientsOpen, TasksOwned, Alive
  <2>4. Identified' /\ Listening'
    BY <1>1, <1>4, <1>5, <1>6, <2>1, TasksKept DEF Backlog, AcceptTasks
  <2> QED BY <2>2, <2>3, <2>4 DEF IInv
<1>7. CASE /\ Alive(p) /\ ReadFirst(n = DoneSize)
           /\ UNCHANGED <<fd, clients, tasks, status, cutOff>>
  <2>1. clients # <<>>
    BY <1>7 DEF Alive, Elements
  <2>2. StackFrom /\ stack' \in Seq(Frames)
    BY <1>1, <1>2, <1>7, <2>1, ReadFirstLaw
  <2>3. Typed'
    BY <1>1, <1>4, <1>5, <1>7, <2>2 DEF Typed
  <2>4. Sockets' /\ TasksOwned'
    BY <1>1, <1>4, <1>7 DEF Sockets, ClientsOpen, TasksOwned, Alive
  <2>5. Identified' /\ Listening'
    BY <1>1, <1>4, <1>5, <1>7, <2>2, TasksKept DEF Backlog, AcceptTasks
  <2> QED BY <2>3, <2>4, <2>5 DEF IInv
<1>8. CASE Disconnect(p) /\ stack' = Called(FALSE) /\ status' = status
  <2>1. StackFrom /\ stack' \in Seq(Frames)
    BY <1>2, <1>8, CalledLaw, CalledFrom
  <2>2. /\ Sockets' /\ TasksOwned'
        /\ tasks' \subseteq tasks /\ AcceptTasks \subseteq tasks'
        /\ fd' \in [Peers -> {0} \cup ConnFds] /\ cutOff' \subseteq Peers
        /\ clients' \in Seq(Peers)
        /\ \A i, j \in DOMAIN clients' : clients'[i] = clients'[j] => i = j
    BY <1>1, <1>3, <1>4, <1>8, DisconnectLaw
  <2>3. IsFiniteSet(tasks')
    BY <1>1, <2>2, FS_Subset DEF Typed
  <2>4. Typed'
    BY <1>1, <1>4, <1>5, <1>8, <2>1, <2>2, <2>3 DEF Typed
  <2>5. Identified' /\ Listening'
    BY <1>1, <1>4, <1>5, <2>1, <2>2, TasksKept DEF Backlog
  <2> QED BY <2>2, <2>4, <2>5 DEF IInv
<1> QED BY <1>6, <1>7, <1>8 DEF DoneRead
\* The server's list is not empty while a socket of it is open.
LEMMA ListedLaw ==
    ASSUME Sockets, NEW p \in Peers, fd[p] # 0
    PROVE  Alive(p) /\ clients # <<>>
BY DEF Sockets, ClientsOpen, Alive, Elements

LEMMA ReadReadIInv ==
    ASSUME IInv, ReadRead
    PROVE  IInv'
<1> DEFINE p == Top.obj
           n == Read(fd[p], ReadSize)
<1>1. Typed /\ Sockets /\ Identified /\ Listening /\ TasksOwned
  BY DEF IInv
<1>2. /\ stack \in Seq(Frames) /\ stack # <<>> /\ Top \in Frames
      /\ Top.kind = "read"
  BY <1>1, RunningLaw DEF ReadRead
<1>3. p \in Peers
  BY <1>2, FrameLaw
<1>4. snap' = snap /\ ready' = ready /\ errors' = errors
  BY DEF ReadRead
<1>5. CASE fd[p] = Stdin
  <2>1. status' = "stdin" /\ UNCHANGED <<link, end, rx, sends, fd, clients, tasks, stack, cutOff>>
    BY <1>5 DEF ReadRead, peerVars
  <2>2. StackFrom /\ stack' \in Seq(Frames)
    BY <1>2, <2>1 DEF StackFrom
  <2>3. Typed'
    BY <1>1, <1>4, <2>1 DEF Typed
  <2>4. Sockets' /\ TasksOwned'
    BY <1>1, <2>1 DEF Sockets, ClientsOpen, TasksOwned, Alive
  <2>5. Identified' /\ Listening'
    BY <1>1, <1>4, <2>1, <2>2, TasksKept DEF Backlog, AcceptTasks
  <2> QED BY <2>3, <2>4, <2>5 DEF IInv
<1>6. CASE fd[p] # Stdin
  <2>1. fd[p] \in ConnFds /\ fd[p] # 0
    BY <1>1, <1>3, <1>6 DEF Typed, Stdin
  <2>2. Alive(p) /\ clients # <<>>
    BY <1>1, <1>3, <2>1, ListedLaw
  <2>3. Drain(fd[p], n) /\ status' = status
    BY <1>6 DEF ReadRead
  <2>4. /\ link' = link /\ sends' \in [Peers -> 0..MaxSends]
        /\ rx' \in [Peers -> 0..MaxInFlight]
        /\ end' \in [Peers -> {"open", "closed", "reset"}]
    <3>1. ReadSize \in Nat \ {0}
      BY IoAssumption
    <3> QED BY <1>1, <2>1, <2>3, <3>1, DrainLaw
  <2>5. CASE ReadFirst(n = ReadSize) /\ UNCHANGED <<fd, clients, tasks, cutOff>>
    <3>1. StackFrom /\ stack' \in Seq(Frames)
      BY <1>1, <1>2, <2>2, <2>5, ReadFirstLaw
    <3>2. Typed'
      BY <1>1, <1>4, <2>3, <2>4, <2>5, <3>1 DEF Typed
    <3>3. Sockets' /\ TasksOwned'
      BY <1>1, <2>4, <2>5 DEF Sockets, ClientsOpen, TasksOwned, Alive
    <3>4. Identified' /\ Listening'
      BY <1>1, <1>4, <2>4, <2>5, <3>1, TasksKept DEF Backlog, AcceptTasks
    <3> QED BY <3>2, <3>3, <3>4 DEF IInv
  <2>6. CASE Disconnect(p) /\ stack' = Called(FALSE)
    <3>1. StackFrom /\ stack' \in Seq(Frames)
      BY <1>2, <2>6, CalledLaw, CalledFrom
    <3>2. /\ Sockets' /\ TasksOwned'
          /\ tasks' \subseteq tasks /\ AcceptTasks \subseteq tasks'
          /\ fd' \in [Peers -> {0} \cup ConnFds] /\ cutOff' \subseteq Peers
          /\ clients' \in Seq(Peers)
          /\ \A i, j \in DOMAIN clients' : clients'[i] = clients'[j] => i = j
      BY <1>1, <1>3, <2>4, <2>6, DisconnectLaw
    <3>3. IsFiniteSet(tasks')
      BY <1>1, <3>2, FS_Subset DEF Typed
    <3>4. Typed'
      BY <1>1, <1>4, <2>3, <2>4, <3>1, <3>2, <3>3 DEF Typed
    <3>5. Identified' /\ Listening'
      BY <1>1, <1>4, <2>4, <3>1, <3>2, TasksKept DEF Backlog
    <3> QED BY <3>2, <3>4, <3>5 DEF IInv
  <2>7. CASE stack' = Under /\ UNCHANGED <<fd, clients, tasks, cutOff>>
    <3>1. StackFrom /\ stack' \in Seq(Frames)
      BY <1>2, <2>7, UnderFrom, UnderLaw
    <3>2. Typed'
      BY <1>1, <1>4, <2>3, <2>4, <2>7, <3>1 DEF Typed
    <3>3. Sockets' /\ TasksOwned'
      BY <1>1, <2>4, <2>7 DEF Sockets, ClientsOpen, TasksOwned, Alive
    <3>4. Identified' /\ Listening'
      BY <1>1, <1>4, <2>4, <2>7, <3>1, TasksKept DEF Backlog, AcceptTasks
    <3> QED BY <3>2, <3>3, <3>4 DEF IInv
  <2>8. CASE /\ tasks' = tasks \cup {Task("read", fd[p], p)}
             /\ stack' = Under /\ UNCHANGED <<fd, clients, cutOff>>
    <3> DEFINE t == Task("read", fd[p], p)
    <3>1. t \in ReadTasks /\ t.id = FreshId /\ t.fd = fd[p] /\ t.obj = p /\ t.type = "read"
      BY <1>1, <1>3, <2>1, FreshTask DEF Task, ReadTasks
    <3>2. tasks' = tasks \cup {t}
      BY <2>8
    <3> HIDE DEF t
    <3>3. /\ \A u \in tasks \cup snap : u.id # t.id
          /\ \A i \in DOMAIN stack : stack[i].task.id # t.id
      BY <1>1, <3>1, FreshTask
    <3>4. /\ stack' \in Seq(Frames)
          /\ \A i \in DOMAIN stack' : i \in DOMAIN stack /\ stack'[i] = stack[i]
      BY <1>2, <2>8, UnderLaw
    <3>5. IsFiniteSet(tasks')
      BY <1>1, <3>2, FS_AddElement DEF Typed
    <3>6. Typed'
      BY <1>1, <1>4, <2>3, <2>4, <2>8, <3>1, <3>2, <3>4, <3>5 DEF Typed
    <3>7. Sockets'
      BY <1>1, <2>4, <2>8 DEF Sockets, ClientsOpen, Alive
    <3>8. TasksOwned'
      <4>1. fd' = fd /\ clients' = clients
        BY <2>8
      <4> QED BY <1>1, <2>1, <2>2, <3>1, <3>2, <4>1 DEF TasksOwned, Alive
    <3>9. Identified'
      BY <1>1, <1>4, <3>2, <3>3, <3>4 DEF Identified
    <3>10. Listening'
      <4>1. AcceptTasks' = AcceptTasks
        BY <3>1, <3>2 DEF AcceptTasks
      <4> QED BY <1>1, <1>4, <2>4, <3>2, <3>4, <4>1 DEF Listening, Backlog
    <3> QED BY <3>6, <3>7, <3>8, <3>9, <3>10 DEF IInv
  <2> QED BY <1>6, <2>5, <2>6, <2>7, <2>8 DEF ReadRead
<1> QED BY <1>5, <1>6

\* While a task accepts nothing runs around it, and it is not waiting to run.
LEMMA AcceptLaw ==
    ASSUME IInv, NEW at, Running("accept", at)
    PROVE  /\ Len(stack) = 1 /\ Top = stack[1] /\ Under = <<>>
           /\ Top.task \in ListenTasks /\ AcceptTasks = {Top.task}
           /\ \A t \in snap : t.type # "accept"
<1>1. Typed /\ Identified /\ Listening
  BY DEF IInv
<1>2. /\ stack \in Seq(Frames) /\ Top \in Frames /\ Top.kind = "accept"
      /\ Len(stack) \in DOMAIN stack /\ Top = stack[Len(stack)]
  BY <1>1, RunningLaw
<1>3. Len(stack) = 1 /\ Top.task \in tasks
  BY <1>1, <1>2 DEF Listening
<1>4. Under = <<>>
  BY <1>2, <1>3 DEF Under
<1>5. Top.task \in ListenTasks /\ Top.task.type = "accept"
  BY <1>2, FrameLaw DEF ListenTasks
<1>6. AcceptTasks = {Top.task}
  BY <1>1, <1>3, <1>5 DEF Listening, AcceptTasks
<1>7. ASSUME NEW t \in snap, t.type = "accept" PROVE FALSE
  <2>1. t \in tasks
    BY <1>1, <1>7 DEF Listening
  <2>2. t = Top.task
    BY <1>6, <1>7, <2>1 DEF AcceptTasks
  <2> QED BY <1>1, <1>2, <2>2 DEF Identified
<1> QED BY <1>2, <1>3, <1>4, <1>5, <1>6, <1>7

LEMMA AcceptClientIInv ==
    ASSUME IInv, AcceptClient
    PROVE  IInv'
<1>1. Typed /\ Sockets /\ Identified /\ Listening /\ TasksOwned
  BY DEF IInv
<1>2. /\ stack \in Seq(Frames) /\ stack # <<>> /\ Top \in Frames
      /\ Top.kind = "accept"
  BY <1>1, RunningLaw DEF AcceptClient
<1>3. /\ Len(stack) = 1 /\ Top = stack[1] /\ Top.task \in ListenTasks
      /\ AcceptTasks = {Top.task} /\ \A t \in snap : t.type # "accept"
  BY AcceptLaw DEF AcceptClient
<1>4. PICK p \in Peers :
         /\ link[p] = "backlog" /\ link' = [link EXCEPT ![p] = "accepted"]
         /\ LET free == ConnFds \ {fd[q] : q \in Peers} IN
              fd' = [fd EXCEPT ![p] = CHOOSE f \in free : \A g \in free : f <= g]
         /\ clients' = Append(clients, p)
         /\ stack' = Append(Called(FALSE), ReadFrame(p))
  BY DEF AcceptClient
<1>5. UNCHANGED <<end, rx, sends, tasks, snap, ready, errors, status, cutOff>>
  BY DEF AcceptClient
<1> DEFINE free == ConnFds \ {fd[q] : q \in Peers}
           f == CHOOSE f \in free : \A g \in free : f <= g
<1>6. link \in [Peers -> {"none", "backlog", "accepted"}] /\ fd \in [Peers -> {0} \cup ConnFds]
  BY <1>1 DEF Typed
<1>7. fd[p] = 0 /\ p \notin Elements(clients)
  BY <1>1, <1>4 DEF Sockets, ClientsOpen, Alive
<1>8. f \in ConnFds /\ f # 0 /\ \A q \in Peers : fd[q] # f
  <2>1. f \in free
    BY <1>6, <1>7, IoAssumption, FreeLaw
  <2> HIDE DEF f
  <2>2. 0 \notin ConnFds
    BY ConnLaw DEF Stdin
  <2> QED BY <2>1, <2>2
<1>9. fd' = [fd EXCEPT ![p] = f]
  BY <1>4
<1> HIDE DEF f
<1>10. \A q \in Peers : /\ fd'[q] = IF q = p THEN f ELSE fd[q]
                        /\ link'[q] = IF q = p THEN "accepted" ELSE link[q]
  BY <1>4, <1>6, <1>9
<1>11. /\ clients' \in Seq(Peers)
       /\ \A i, j \in DOMAIN clients' : clients'[i] = clients'[j] => i = j
       /\ \A q : q \in Elements(clients') <=> q \in Elements(clients) \/ q = p
  <2>1. clients \in Seq(Peers) /\ \A i, j \in DOMAIN clients : clients[i] = clients[j] => i = j
    BY <1>1 DEF Typed
  <2>2. /\ clients' \in Seq(Peers) /\ DOMAIN clients' = 1..Len(clients) + 1
        /\ \A i \in 1..Len(clients) : clients'[i] = clients[i]
        /\ clients'[Len(clients) + 1] = p
    BY <1>4, <2>1
  <2>3. Len(clients) \in Nat /\ DOMAIN clients = 1..Len(clients)
    BY <2>1
  <2>4. \A i \in DOMAIN clients' : i \in DOMAIN clients \/ i = Len(clients) + 1
    BY <2>2, <2>3
  <2>5. \A i \in DOMAIN clients : clients[i] # p /\ i \in DOMAIN clients'
    BY <1>7, <2>2, <2>3 DEF Elements
  <2>6. Len(clients) + 1 \in DOMAIN clients'
    BY <2>2, <2>3
  <2>7. \A i, j \in DOMAIN clients' : clients'[i] = clients'[j] => i = j
    BY <2>1, <2>2, <2>3, <2>4, <2>5
  <2>8. \A q : q \in Elements(clients') <=> q \in Elements(clients) \/ q = p
    BY <2>2, <2>3, <2>4, <2>5, <2>6 DEF Elements
  <2> QED BY <2>2, <2>7, <2>8
<1>12. StackFrom /\ stack' \in Seq(Frames)
  BY <1>2, <1>4, PushFrom
<1>13. Typed'
  <2>1. /\ link' \in [Peers -> {"none", "backlog", "accepted"}]
        /\ fd' \in [Peers -> {0} \cup ConnFds]
    BY <1>4, <1>6, <1>8, <1>9
  <2> QED BY <1>1, <1>5, <1>11, <1>12, <2>1 DEF Typed
<1>14. Sockets'
  BY <1>1, <1>8, <1>10, <1>11 DEF Sockets, ClientsOpen, Alive
<1>15. TasksOwned'
  <2>1. \A q \in Peers : fd[q] # 0 => fd'[q] = fd[q]
    BY <1>7, <1>10
  <2>2. \A t \in tasks : t.type = "read" => t.obj \in Peers
    BY <1>1, TaskLaw DEF Typed, ReadTasks
  <2> QED BY <1>1, <1>5, <1>11, <2>1, <2>2 DEF TasksOwned, Alive
<1>16. Identified'
  <2>1. \A t \in tasks \cup snap : t.id # NoTask.id
    BY <1>1, TaskLaw DEF Typed
  <2> QED BY <1>1, <1>5, <1>12, <2>1 DEF Identified, StackFrom
<1>17. Listening'
  <2>1. AcceptTasks' = AcceptTasks
    BY <1>5 DEF AcceptTasks
  <2>2. Len(stack) = 1 /\ DOMAIN stack = {1}
    BY <1>2, <1>3
  <2>3. /\ DOMAIN stack' = 1..2 /\ stack'[2].kind = "read"
        /\ stack'[1].task = Top.task /\ stack'[1].at = "called"
    <3>1. /\ DOMAIN stack' = 1..Len(stack) + 1
          /\ \A i \in DOMAIN stack : stack'[i] = Called(FALSE)[i]
          /\ stack'[Len(stack) + 1] = ReadFrame(p)
      BY <1>2, <1>4, PushFrom
    <3>2. stack'[1] = [Top EXCEPT !.at = "called", !.full = FALSE]
      BY <1>2, <2>2, <3>1, CalledLaw
    <3>3. stack'[1].task = Top.task /\ stack'[1].at = "called"
      BY <1>2, <3>2 DEF Frames, DoneFrames, AcceptFrames, ReadFrames
    <3> QED BY <2>2, <3>1, <3>3 DEF ReadFrame
  <2>4. Top.task \in tasks
    BY <1>3 DEF AcceptTasks
  <2>5. \A i \in DOMAIN stack' : i = 1 \/ i = 2
    BY <2>3
  <2> QED BY <1>1, <1>3, <1>5, <2>1, <2>3, <2>4, <2>5 DEF Listening
<1> QED BY <1>13, <1>14, <1>15, <1>16, <1>17 DEF IInv

LEMMA AcceptFailsIInv ==
    ASSUME IInv, AcceptFails
    PROVE  IInv'
<1>1. Typed /\ Sockets /\ Identified /\ Listening /\ TasksOwned
  BY DEF IInv
<1>2. stack \in Seq(Frames) /\ stack # <<>>
  BY <1>1, RunningLaw DEF AcceptFails
<1>3. /\ stack' = Under /\ errors < MaxAcceptErrors /\ errors' = errors + 1
      /\ UNCHANGED <<link, end, rx, sends, fd, clients, tasks, snap, ready, status, cutOff>>
  BY DEF AcceptFails, peerVars
<1>4. StackFrom /\ stack' \in Seq(Frames)
  BY <1>2, <1>3, UnderFrom, UnderLaw
<1>5. errors' \in 0..MaxAcceptErrors
  BY <1>1, <1>3, IoAssumption DEF Typed
<1>6. Typed'
  BY <1>1, <1>3, <1>4, <1>5 DEF Typed
<1>7. Sockets' /\ TasksOwned'
  BY <1>1, <1>3 DEF Sockets, ClientsOpen, TasksOwned, Alive
<1>8. Identified' /\ Listening'
  BY <1>1, <1>3, <1>4, TasksKept DEF Backlog, AcceptTasks
<1> QED BY <1>6, <1>7, <1>8 DEF IInv

LEMMA AcceptRearmIInv ==
    ASSUME IInv, AcceptRearm
    PROVE  IInv'
<1> DEFINE t == Task("accept", ListenFd, Server)
<1>1. Typed /\ Sockets /\ Identified /\ Listening /\ TasksOwned
  BY DEF IInv
<1>2. /\ Len(stack) = 1 /\ Top = stack[1] /\ Under = <<>>
      /\ Top.task \in ListenTasks /\ AcceptTasks = {Top.task}
      /\ \A u \in snap : u.type # "accept"
  BY AcceptLaw DEF AcceptRearm
<1>3. /\ tasks' = Without(Top.task) \cup {t} /\ stack' = <<>>
      /\ UNCHANGED <<link, end, rx, sends, fd, clients, snap, ready, errors, status, cutOff>>
  BY <1>2 DEF AcceptRearm, peerVars
<1>4. t \in ListenTasks /\ t.type = "accept" /\ t.id = FreshId
  BY <1>1, FreshTask DEF Task, ListenTasks
<1> HIDE DEF t
<1>5. \A u \in tasks \cup snap : u.id # t.id
  BY <1>1, <1>4, FreshTask
<1>6. Without(Top.task) = tasks \ {Top.task} /\ IsFiniteSet(Without(Top.task))
  <2>1. 1 \in DOMAIN stack
    BY <1>1, <1>2 DEF Typed
  <2> QED BY <1>1, <1>2, <2>1, WithoutLaw
<1>7. tasks' = (tasks \ {Top.task}) \cup {t} /\ IsFiniteSet(tasks')
  BY <1>3, <1>6, FS_AddElement
<1>8. Typed'
  <2>1. stack' \in Seq(Frames)
    BY <1>3
  <2> QED BY <1>1, <1>3, <1>4, <1>7, <2>1 DEF Typed
<1>9. Sockets'
  BY <1>1, <1>3 DEF Sockets, ClientsOpen, Alive
<1>10. TasksOwned'
  BY <1>1, <1>3, <1>4, <1>7 DEF TasksOwned, Alive
<1>11. Identified'
  BY <1>1, <1>3, <1>5, <1>7 DEF Identified
<1>12. Listening'
  <2>1. AcceptTasks' = {t}
    BY <1>2, <1>4, <1>7 DEF AcceptTasks
  <2> QED BY <1>2, <1>3, <1>7, <2>1 DEF Listening
<1> QED BY <1>8, <1>9, <1>10, <1>11, <1>12 DEF IInv
-----------------------------------------------------------------------------
(* The properties.                                                         *)

LEMMA NextIInv == IInv /\ [Next]_vars => IInv'
<1> SUFFICES ASSUME IInv, [Next]_vars PROVE IInv'
  OBVIOUS
<1>1. CASE PeerStep
  BY <1>1, PeerIInv
<1>2. CASE TrackerSelect
  BY <1>2, SelectIInv
<1>3. CASE TrackerTask
  BY <1>3, TaskIInv
<1>4. CASE DoneRead
  BY <1>4, DoneReadIInv
<1>5. CASE DoneLoop
  BY <1>5, DoneLoopIInv
<1>6. CASE ReadRead
  BY <1>6, ReadReadIInv
<1>7. CASE ReadLoop
  BY <1>7, ReadLoopIInv
<1>8. CASE AcceptClient
  BY <1>8, AcceptClientIInv
<1>9. CASE AcceptFails
  BY <1>9, AcceptFailsIInv
<1>10. CASE AcceptRearm
  BY <1>10, AcceptRearmIInv
<1>11. CASE UNCHANGED vars
  <2>1. UNCHANGED <<link, end, rx, sends, fd, clients, tasks, snap, ready, stack, errors, status, cutOff>>
    BY <1>11 DEF vars, peerVars
  <2>2. Typed' /\ Sockets' /\ TasksOwned'
    BY <2>1 DEF IInv, Typed, Sockets, ClientsOpen, TasksOwned, Alive
  <2>3. Identified' /\ Listening'
    BY <2>1 DEF IInv, Identified, Listening, Backlog, AcceptTasks
  <2> QED BY <2>2, <2>3 DEF IInv
<1> QED BY <1>1, <1>2, <1>3, <1>4, <1>5, <1>6, <1>7, <1>8, <1>9, <1>10, <1>11
        DEF Next, TrackerStep

\* The invariant on which the properties below rest.
THEOREM Bookkeeping == Spec => []IInv
BY InitIInv, NextIInv, PTL DEF Spec

LEMMA FramesTyped ==
    ASSUME Typed, NEW f \in Elements(stack)
    PROVE  [kind |-> f.kind, at |-> f.at, full |-> f.full] \in Frame
<1>1. f \in Frames
  BY DEF Typed, Elements
<1> QED BY <1>1, FrameLaw DEF Frame, Places

LEMMA IInvTypeOK == IInv => TypeOK
<1> SUFFICES ASSUME IInv PROVE TypeOK
  OBVIOUS
<1>1. Typed
  BY DEF IInv
<1>2. \A t \in tasks \cup snap :
         /\ t.type \in {"accept", "read"}
         /\ t.fd \in Nat /\ t.id \in Nat \ {0} /\ t.obj \in Peers \cup {Server}
  <2> SUFFICES ASSUME NEW t \in ReadTasks \cup ListenTasks
               PROVE  /\ t.type \in {"accept", "read"}
                      /\ t.fd \in Nat /\ t.id \in Nat \ {0} /\ t.obj \in Peers \cup {Server}
    BY <1>1 DEF Typed
  <2>1. ConnFds \cup {ListenFd} \subseteq Nat
    BY ConnLaw DEF ListenFd
  <2>2. t.fd \in Nat /\ t.id \in Ids /\ t.type \in {"read", "accept"}
    BY <2>1, TaskLaw
  <2>3. t.obj \in Peers \cup {Server}
    BY DEF ReadTasks, ListenTasks
  <2> QED BY <2>2, <2>3 DEF Ids
<1>3. \A f \in Elements(stack) : [kind |-> f.kind, at |-> f.at, full |-> f.full] \in Frame
  BY <1>1, FramesTyped
<1> QED BY <1>1, <1>2, <1>3 DEF TypeOK, Typed

LEMMA IInvAcceptArmed == IInv => AcceptArmed
<1> SUFFICES ASSUME IInv PROVE AcceptArmed
  OBVIOUS
<1>1. Typed /\ Listening
  BY DEF IInv
<1>2. Cardinality(AcceptTasks) = 1
  <2>1. PICK t \in tasks : AcceptTasks = {t}
    BY <1>1 DEF Listening
  <2> QED BY <2>1, FS_Singleton
<1>3. ASSUME Running("accept", "read") PROVE Backlog
  <2>1. Len(stack) \in DOMAIN stack /\ stack[Len(stack)].kind = "accept" /\ stack[Len(stack)].at = "read"
    BY <1>1, <1>3, RunningLaw
  <2> QED BY <1>1, <2>1 DEF Listening
<1> QED BY <1>2, <1>3 DEF AcceptArmed, Backlog

\* Every variable keeps its type, and no client is twice in the server's list.
THEOREM TypeCorrect == Spec => []TypeOK
BY Bookkeeping, IInvTypeOK, PTL

\* However many clients come and go, and however often ::accept fails, there
\* is one accept task (inet_server::socket_accept_task), and it calls the
\* blocking ::accept only when somebody waits to be accepted.
THEOREM AcceptsAlways == Spec => []AcceptArmed
BY Bookkeeping, IInvAcceptArmed, PTL

\* No read task outlives the socket it reads for or finds its descriptor in
\* other hands (inet_socket::_on_disconnect, io_fd::delete_all_task), and
\* select is never asked about a closed descriptor: the tracker thread lives.
THEOREM TasksStaySound == Spec => []TasksSound
<1>1. IInv => TasksSound
  BY DEF IInv, TasksSound, Typed, TrackerLives
<1> QED BY <1>1, Bookkeeping, PTL

\* rpc_server keeps the sockets that are open, and no other.
THEOREM KeepsOpenClients == Spec => []ClientsOpen
<1>1. IInv => ClientsOpen
  BY DEF IInv, Sockets
<1> QED BY <1>1, Bookkeeping, PTL
(***************************************************************************)
(* What the code is right about only while one client is connected at a    *)
(* time, sends less than a buffer before it is read, and never resets its  *)
(* connection; the runs io_bulk and io_stale show what happens otherwise.  *)
(* Then "the first client" is the one whose data arrived, no callback is   *)
(* under way around the one that closes a socket but those that are done   *)
(* with it, and a socket with a task in the copy of the list is only read  *)
(* by that task.                                                           *)
(***************************************************************************)

Modest == MaxClients <= 1 /\ Resetting = {} /\ MaxInFlight < DoneSize

Due(t) == rx[t.obj] > 0 \/ end[t.obj] # "open"

\* The read tasks but the one whose done() is under way.
Waiting == {t \in tasks : t.type = "read" /\ (stack # <<>> => t # stack[1].task)}

Alone == \A p, q \in Connected : p = q

Unharmed == status = "run" /\ cutOff = {} /\ \A p \in Peers : end[p] # "reset"

\* A task at the bottom, with calls of _read on it; the innermost one reads.
Calls ==
    \A i \in DOMAIN stack :
        /\ stack[i].kind = "read" <=> i # 1
        /\ stack[i].full = FALSE
        /\ stack[i].at = "read" => i = Len(stack)

\* Who is about to read has something to find, and nobody else waits for it.
Reading ==
    \A i \in DOMAIN stack : stack[i].at = "read" =>
        /\ Waiting = {}
        /\ stack[i].kind = "read" => fd[stack[i].obj] # 0
        /\ stack[i].kind = "done" =>
              /\ stack[i].task \in tasks /\ stack[i].obj = stack[i].task.obj
              /\ Due(stack[i].task)

\* No task that reads is in the copy of the list behind one that runs.
Copied ==
    \A t \in snap : t.type = "read" =>
        /\ stack = <<>> /\ t \in tasks /\ ListenFd \notin ready
        /\ t.fd \in ready => Due(t)

Solo ==
    /\ Alone /\ Unharmed /\ Calls /\ Reading /\ Copied
    /\ \A t, u \in Waiting : t = u

SInv == IInv /\ Solo

LEMMA InitSolo == Init => Solo
<1> SUFFICES ASSUME Init PROVE Solo
  OBVIOUS
<1>1. Connected = {} /\ Waiting = {}
  BY DEF Init, Connected, Waiting
<1>2. Alone /\ Unharmed /\ Calls /\ Reading /\ Copied
  BY <1>1 DEF Init, Alone, Unharmed, Calls, Reading, Copied
<1> QED BY <1>1, <1>2 DEF Solo

LEMMA OpenConnected ==
    ASSUME Sockets, NEW p \in Peers, fd[p] # 0 \/ link[p] = "backlog"
    PROVE  p \in Connected
BY DEF Sockets, Connected

\* While somebody waits to be accepted there is no socket to read from.
LEMMA NobodyElse ==
    ASSUME IInv, Alone, Backlog
    PROVE  Waiting = {} /\ \A t \in tasks : t.type # "read"
<1>1. Typed /\ Sockets /\ TasksOwned
  BY DEF IInv
<1>2. PICK p \in Peers : link[p] = "backlog"
  BY DEF Backlog
<1>3. ASSUME NEW t \in tasks, t.type = "read" PROVE FALSE
  <2>1. t.obj \in Peers /\ fd[t.obj] # 0
    BY <1>1, <1>3, TaskLaw DEF Typed, ReadTasks, TasksOwned
  <2>2. link[t.obj] = "accepted"
    BY <1>1, <2>1 DEF Sockets
  <2>3. t.obj = p
    BY <1>1, <1>2, <2>1, OpenConnected DEF Alone
  <2> QED BY <1>2, <2>2, <2>3
<1> QED BY <1>3 DEF Waiting

LEMMA ConnectedKept ==
    ASSUME Alone, link' = link, \A p \in Peers : fd[p] = 0 => fd'[p] = 0
    PROVE  Alone'
<1>1. Connected' \subseteq Connected
  BY DEF Connected
<1> QED BY <1>1 DEF Alone

LEMMA WaitingKept ==
    ASSUME stack # <<>>, tasks' \subseteq tasks,
           stack' # <<>> => stack'[1].task = stack[1].task,
           stack' = <<>> => stack[1].task \notin tasks' \/ stack[1].kind # "done",
           stack[1].kind # "done" => stack[1].task.type # "read"
    PROVE  Waiting' \subseteq Waiting
BY DEF Waiting

\* The copy holds no task that reads while calls are under way.
LEMMA CopiedKept ==
    ASSUME Copied, stack # <<>>, snap' = snap
    PROVE  Copied'
BY DEF Copied

\* How the calls under way go on: the innermost one has called, has called
\* and waits for a read, or has returned.
Resting == \A i \in DOMAIN stack : stack[i].at # "read"

LEMMA LenLaw ==
    ASSUME NEW s \in Seq(Frames), NEW n \in Nat, DOMAIN s = 1..n
    PROVE  Len(s) = n /\ (n # 0 => s # <<>>)
BY LenProperties

LEMMA SoloCalled ==
    ASSUME stack \in Seq(Frames), stack # <<>>, Calls, stack' = Called(FALSE)
    PROVE  /\ Calls' /\ Resting' /\ stack' # <<>> /\ stack'[1].task = stack[1].task
<1>1. /\ Called(FALSE) \in Seq(Frames) /\ DOMAIN Called(FALSE) = DOMAIN stack
      /\ Called(FALSE) # <<>>
      /\ \A i \in DOMAIN stack :
            Called(FALSE)[i] = IF i = Len(stack) THEN [Top EXCEPT !.at = "called", !.full = FALSE]
                               ELSE stack[i]
  BY CalledLaw
<1>2. Top \in Frames /\ Top = stack[Len(stack)] /\ Len(stack) \in DOMAIN stack
  BY UnderLaw DEF Top
<1>3. LET f == [Top EXCEPT !.at = "called", !.full = FALSE]
      IN  f.kind = Top.kind /\ f.task = Top.task /\ f.at = "called" /\ f.full = FALSE
  BY <1>2 DEF Frames, DoneFrames, AcceptFrames, ReadFrames
<1>4. Len(stack') = Len(stack)
  <2>1. DOMAIN stack = 1..Len(stack) /\ Len(stack) \in Nat
    OBVIOUS
  <2>2. DOMAIN stack' = 1..Len(stack) /\ stack' \in Seq(Frames)
    BY <1>1, <2>1
  <2> QED BY <2>1, <2>2, LenLaw
<1>5. \A i \in DOMAIN stack : /\ stack'[i].kind = stack[i].kind /\ stack'[i].task = stack[i].task
                              /\ stack'[i].full = FALSE /\ stack'[i].at # "read"
  BY <1>1, <1>2, <1>3 DEF Calls
<1>6. 1 \in DOMAIN stack
  BY <1>2
<1>7. DOMAIN stack' = DOMAIN stack
  BY <1>1
<1>8. Calls'
  BY <1>5, <1>7 DEF Calls
<1> QED BY <1>1, <1>5, <1>6, <1>7, <1>8 DEF Resting

LEMMA SoloUnder ==
    ASSUME stack \in Seq(Frames), stack # <<>>, Calls, stack' = Under
    PROVE  /\ Calls' /\ Resting'
           /\ stack' # <<>> => stack'[1] = stack[1]
           /\ stack' = <<>> <=> Len(stack) = 1
<1>1. /\ Under \in Seq(Frames) /\ DOMAIN Under = 1..Len(stack) - 1
      /\ \A i \in DOMAIN Under : i \in DOMAIN stack /\ Under[i] = stack[i]
  BY UnderLaw
<1>2. Len(stack) \in Nat \ {0} /\ DOMAIN stack = 1..Len(stack)
  OBVIOUS
<1>3. \A i \in DOMAIN Under : i # Len(stack)
  BY <1>1, <1>2
<1>4. Resting' /\ Calls'
  BY <1>1, <1>3 DEF Calls, Resting
<1>5. Len(stack) = 1 => Under = <<>>
  BY DEF Under
<1>6. Len(stack) # 1 => 1 \in DOMAIN Under
  BY <1>1, <1>2
<1>7. Under # <<>> => Under[1] = stack[1]
  BY <1>1, <1>5, <1>6
<1> QED BY <1>4, <1>5, <1>6, <1>7

LEMMA SoloPush ==
    ASSUME stack \in Seq(Frames), stack # <<>>, Calls, NEW p \in Peers,
           stack' = Append(Called(FALSE), ReadFrame(p))
    PROVE  /\ Calls' /\ stack' # <<>> /\ stack'[1].task = stack[1].task
           /\ \A i \in DOMAIN stack' : stack'[i].at = "read" =>
                 stack'[i].kind = "read" /\ stack'[i].obj = p
<1>1. /\ stack' \in Seq(Frames) /\ DOMAIN stack' = 1..Len(stack) + 1
      /\ \A i \in DOMAIN stack : stack'[i] = Called(FALSE)[i]
      /\ stack'[Len(stack) + 1] = ReadFrame(p)
  BY PushFrom
<1>2. \A i \in DOMAIN stack :
         Called(FALSE)[i] = IF i = Len(stack) THEN [Top EXCEPT !.at = "called", !.full = FALSE]
                            ELSE stack[i]
  BY CalledLaw
<1>3. Top \in Frames /\ Top = stack[Len(stack)] /\ Len(stack) \in DOMAIN stack
  BY UnderLaw DEF Top
<1>4. LET f == [Top EXCEPT !.at = "called", !.full = FALSE]
      IN  f.kind = Top.kind /\ f.task = Top.task /\ f.at = "called" /\ f.full = FALSE
  BY <1>3 DEF Frames, DoneFrames, AcceptFrames, ReadFrames
<1>5. \A i \in DOMAIN stack : /\ stack'[i].kind = stack[i].kind /\ stack'[i].task = stack[i].task
                              /\ stack'[i].full = FALSE /\ stack'[i].at # "read"
  <2>1. \A i \in DOMAIN stack :
           stack'[i] = IF i = Len(stack) THEN [Top EXCEPT !.at = "called", !.full = FALSE]
                       ELSE stack[i]
    BY <1>1, <1>2
  <2> QED BY <1>3, <1>4, <2>1 DEF Calls
<1>6. Len(stack) \in Nat \ {0} /\ DOMAIN stack = 1..Len(stack)
  OBVIOUS
<1>7. \A i \in DOMAIN stack' : i \in DOMAIN stack \/ i = Len(stack) + 1
  <2>1. \A n \in Nat : \A i \in 1..n + 1 : i \in 1..n \/ i = n + 1
    OBVIOUS
  <2> QED BY <1>1, <1>6, <2>1
<1>8. Len(stack') = Len(stack) + 1 /\ stack' # <<>>
  <2>1. Len(stack) + 1 \in Nat \ {0}
    BY <1>6
  <2> QED BY <1>1, <2>1, LenLaw
<1>9. /\ ReadFrame(p).kind = "read" /\ ReadFrame(p).full = FALSE /\ ReadFrame(p).obj = p
  BY DEF ReadFrame
<1>10. Len(stack) + 1 # 1 /\ 1 \in DOMAIN stack
  BY <1>6
<1>11. Calls'
  <2> SUFFICES ASSUME NEW i \in DOMAIN stack'
               PROVE  /\ stack'[i].kind = "read" <=> i # 1
                      /\ stack'[i].full = FALSE
                      /\ stack'[i].at = "read" => i = Len(stack')
    BY DEF Calls
  <2>1. CASE i \in DOMAIN stack
    BY <1>5, <2>1 DEF Calls
  <2>2. CASE i = Len(stack) + 1
    BY <1>1, <1>8, <1>9, <1>10, <2>2
  <2> QED BY <1>7, <2>1, <2>2
<1> QED BY <1>1, <1>5, <1>7, <1>8, <1>9, <1>10, <1>11
LEMMA PeerSolo ==
    ASSUME Modest, SInv, PeerStep
    PROVE  Solo'
<1>1. PICK p \in Peers : Connect(p) \/ Send(p) \/ Close(p)
  BY DEF PeerStep
<1>2. Typed /\ Sockets /\ Solo
  BY DEF SInv, IInv
<1>3. UNCHANGED <<fd, clients, tasks, snap, ready, stack, errors, status, cutOff>>
  <2>1. CASE Connect(p)
    BY <2>1 DEF Connect
  <2>2. CASE Send(p)
    BY <2>2 DEF Send
  <2>3. CASE Close(p)
    BY <2>3 DEF Close
  <2> QED BY <1>1, <2>1, <2>2, <2>3
<1>4. /\ rx \in [Peers -> 0..MaxInFlight] /\ end \in [Peers -> {"open", "closed", "reset"}]
      /\ link \in [Peers -> {"none", "backlog", "accepted"}]
  BY <1>2 DEF Typed
<1>5. \A q \in Peers : /\ rx[q] > 0 => rx'[q] > 0
                       /\ end[q] # "open" => end'[q] # "open"
                       /\ end[q] # "reset" => end'[q] # "reset"
  <2>1. CASE Connect(p)
    BY <2>1 DEF Connect
  <2>2. CASE Send(p)
    <3>1. end' = end /\ rx' = [rx EXCEPT ![p] = rx[p] + 1]
      BY <2>2 DEF Send
    <3>2. rx[p] \in Nat
      BY <1>4, IoAssumption
    <3> QED BY <1>4, <3>1, <3>2
  <2>3. CASE Close(p)
    <3>1. end' = [end EXCEPT ![p] = "closed"] /\ rx' = rx
      BY <2>3 DEF Close, Modest
    <3> QED BY <1>4, <3>1
  <2> QED BY <1>1, <2>1, <2>2, <2>3
<1>6. \A t : t.obj \in Peers => (Due(t) => Due(t)')
  BY <1>5 DEF Due
<1>7. Alone'
  <2>1. CASE link' = link
    BY <1>2, <1>3, <2>1, ConnectedKept DEF Solo
  <2>2. CASE Connect(p)
    <3>1. Connected = {}
      <4>1. IsFiniteSet(Connected)
        BY IoAssumption, FS_Subset DEF Connected
      <4>2. Cardinality(Connected) \in Nat /\ Cardinality(Connected) < MaxClients
        BY <2>2, <4>1, FS_CardinalityType DEF Connect
      <4>3. Cardinality(Connected) = 0
        BY <4>2, IoAssumption DEF Modest
      <4> QED BY <4>1, <4>3, FS_EmptySet
    <3>2. link' = [link EXCEPT ![p] = "backlog"]
      BY <2>2 DEF Connect
    <3>3. Connected' \subseteq {p}
      BY <1>3, <1>4, <3>1, <3>2 DEF Connected
    <3> QED BY <3>3 DEF Alone
  <2>3. Connect(p) \/ link' = link
    BY <1>1 DEF Send, Close
  <2> QED BY <2>1, <2>2, <2>3
<1>8. Unharmed' /\ Calls'
  BY <1>2, <1>3, <1>5 DEF Solo, Unharmed, Calls
<1>9. Waiting' = Waiting
  BY <1>3 DEF Waiting
<1>10. Reading'
  <2>1. SUFFICES ASSUME NEW i \in DOMAIN stack, stack[i].at = "read"
                 PROVE  /\ Waiting = {}
                        /\ stack[i].kind = "read" => fd[stack[i].obj] # 0
                        /\ stack[i].kind = "done" =>
                              /\ stack[i].task \in tasks /\ stack[i].obj = stack[i].task.obj
                              /\ \/ rx'[stack[i].task.obj] > 0
                                 \/ end'[stack[i].task.obj] # "open"
    BY <1>3, <1>9 DEF Reading, Due
  <2>2. stack[i].kind = "done" => stack[i].task.obj \in Peers
    BY <1>2, FrameLaw DEF Typed, ReadTasks
  <2>3. stack[i].kind = "done" => Due(stack[i].task)
    BY <1>2, <2>1 DEF Solo, Reading
  <2>4. ASSUME stack[i].kind = "done"
        PROVE  rx'[stack[i].task.obj] > 0 \/ end'[stack[i].task.obj] # "open"
    BY <1>5, <2>2, <2>3, <2>4 DEF Due
  <2> QED BY <1>2, <2>1, <2>4 DEF Solo, Reading
<1>11. Copied'
  <2>1. \A t \in snap : t.type = "read" => t.obj \in Peers
    BY <1>2, TaskLaw DEF Typed, ReadTasks
  <2> QED BY <1>2, <1>3, <1>6, <2>1 DEF Solo, Copied
<1> QED BY <1>2, <1>7, <1>8, <1>9, <1>10, <1>11 DEF Solo

LEMMA SelectSolo ==
    ASSUME Modest, SInv, TrackerSelect
    PROVE  Solo'
<1>1. IInv /\ Typed /\ Sockets /\ TasksOwned /\ Solo
  BY DEF SInv, IInv
<1>2. /\ stack = <<>> /\ snap = {} /\ status' = status /\ snap' = tasks
      /\ UNCHANGED <<link, end, rx, sends, fd, clients, tasks, stack, errors, cutOff>>
  BY <1>1, WatchedOpen DEF TrackerSelect, peerVars
<1>3. ready' \subseteq Readable
  BY DEF TrackerSelect
<1>4. Alone'
  BY <1>1, <1>2, ConnectedKept DEF Solo
<1>5. Unharmed' /\ Calls' /\ Reading' /\ Waiting' = Waiting
  BY <1>1, <1>2 DEF Solo, Unharmed, Calls, Reading, Waiting
<1>6. Copied'
  <2>1. ASSUME NEW t \in tasks, t.type = "read"
        PROVE  ListenFd \notin ready' /\ (t.fd \in ready' => Due(t))
    <3>1. /\ t.obj \in Peers /\ t.fd # 0 /\ fd[t.obj] = t.fd /\ t.fd # ListenFd
      BY <1>1, <2>1, TaskLaw DEF Typed, ReadTasks, TasksOwned
    <3>2. ~Backlog
      BY <1>1, <2>1, NobodyElse DEF Solo
    <3>3. \A p \in Peers : fd[p] # ListenFd
      BY <1>1, ConnLaw DEF Typed, ListenFd
    <3>4. ListenFd \notin Readable
      BY <3>2, <3>3 DEF Readable, Backlog, Owners
    <3>5. ASSUME t.fd \in Readable PROVE Due(t)
      <4>1. PICK p \in Owners(t.fd) : rx[p] > 0 \/ end[p] # "open"
        BY <3>1, <3>5 DEF Readable
      <4>2. p = t.obj
        BY <1>1, <3>1, <4>1 DEF Owners, Sockets
      <4> QED BY <4>1, <4>2 DEF Due
    <3> QED BY <1>3, <3>4, <3>5
  <2> QED BY <1>2, <2>1 DEF Copied, Due
<1> QED BY <1>1, <1>4, <1>5, <1>6 DEF Solo

LEMMA TaskSolo ==
    ASSUME Modest, SInv, TrackerTask
    PROVE  Solo'
<1> DEFINE t == FirstTask
           f == IF t.type = "accept" THEN AcceptFrame(t) ELSE DoneFrame(t)
<1>1. IInv /\ Typed /\ Listening /\ Solo
  BY DEF SInv, IInv
<1>2. /\ stack = <<>> /\ snap' = snap \ {t}
      /\ \/ stack' = <<>> /\ t.fd \notin ready
         \/ stack' = <<f>> /\ t.fd \in ready
      /\ UNCHANGED <<link, end, rx, sends, fd, clients, tasks, ready, errors, status, cutOff>>
  <2>1. stack' = IF t.fd \notin ready THEN <<>>
                 ELSE IF t.type = "accept" THEN <<AcceptFrame(t)>> ELSE <<DoneFrame(t)>>
    BY DEF TrackerTask
  <2>2. /\ stack = <<>> /\ snap' = snap \ {t}
        /\ UNCHANGED <<link, end, rx, sends, fd, clients, tasks, ready, errors, status, cutOff>>
    BY DEF TrackerTask, peerVars
  <2> HIDE DEF t
  <2> QED BY <2>1, <2>2
<1>3. t \in snap
  BY <1>1, FirstLaw DEF TrackerTask
<1>4. t \in ReadTasks \cup ListenTasks
  BY <1>1, <1>3 DEF Typed
<1> HIDE DEF t
<1>5. /\ f.task = t /\ f.at = "read" /\ f.full = FALSE /\ f.obj = t.obj
      /\ f.kind = IF t.type = "accept" THEN "accept" ELSE "done"
  BY DEF AcceptFrame, DoneFrame
<1> HIDE DEF f
<1>6. Alone'
  BY <1>1, <1>2, ConnectedKept DEF Solo
<1>7. Unharmed'
  BY <1>1, <1>2 DEF Solo, Unharmed
<1>8. CASE stack' = <<>>
  <2>1. Calls' /\ Reading' /\ Waiting' = Waiting
    BY <1>2, <1>8 DEF Calls, Reading, Waiting
  <2>2. Copied'
    BY <1>1, <1>2, <1>8 DEF Solo, Copied, Due
  <2> QED BY <1>1, <1>6, <1>7, <2>1, <2>2 DEF Solo
<1>9. CASE stack' = <<f>> /\ t.fd \in ready
  <2>1. /\ DOMAIN stack' = {1} /\ stack'[1] = f /\ Len(stack') = 1 /\ stack' # <<>>
    BY <1>9
  <2>2. Calls'
    BY <1>5, <2>1 DEF Calls
  <2>3. CASE t.type = "accept"
    <3>1. ListenFd \in ready
      BY <1>4, <1>9, <2>3, TaskLaw
    <3>2. Backlog
      BY <1>1, <1>3, <2>3, <3>1 DEF Listening
    <3>3. \A u \in tasks : u.type # "read"
      BY <1>1, <3>2, NobodyElse DEF Solo
    <3>4. Waiting' = {}
      BY <1>2, <3>3 DEF Waiting
    <3>5. Reading'
      BY <1>5, <2>1, <2>3, <3>4 DEF Reading
    <3>6. Copied'
      BY <1>1, <1>2, <3>1 DEF Solo, Copied
    <3> QED BY <1>6, <1>7, <2>2, <3>4, <3>5, <3>6 DEF Solo
  <2>4. CASE t.type = "read"
    <3>1. t \in tasks /\ Due(t) /\ t \in Waiting
      BY <1>1, <1>2, <1>3, <1>9, <2>4 DEF Solo, Copied, Waiting
    <3>2. \A u \in tasks : u.type = "read" => u = t
      BY <1>1, <1>2, <3>1 DEF Solo, Waiting
    <3>3. Waiting' = {}
      BY <1>2, <1>5, <2>1, <3>2 DEF Waiting
    <3>4. Reading'
      BY <1>2, <1>5, <2>1, <2>4, <3>1, <3>3 DEF Reading, Due
    <3>5. Copied'
      BY <1>1, <1>2, <3>2 DEF Solo, Copied
    <3> QED BY <1>6, <1>7, <2>2, <3>3, <3>4, <3>5 DEF Solo
  <2> QED BY <1>4, <2>3, <2>4, TaskLaw
<1> QED BY <1>2, <1>8, <1>9

LEMMA DoneLoopSolo ==
    ASSUME Modest, SInv, DoneLoop
    PROVE  Solo'
<1>1. Typed /\ Identified /\ Solo
  BY DEF SInv, IInv
<1>2. /\ stack \in Seq(Frames) /\ stack # <<>> /\ Top = stack[Len(stack)]
      /\ Len(stack) \in DOMAIN stack /\ Top.kind = "done"
  BY <1>1, RunningLaw DEF DoneLoop
<1>3. Len(stack) = 1 /\ Top = stack[1] /\ Top.full = FALSE
  BY <1>1, <1>2 DEF Solo, Calls
<1>4. /\ stack' = Under /\ tasks' = Without(Top.task)
      /\ UNCHANGED <<link, end, rx, sends, fd, clients, snap, ready, errors, status, cutOff>>
  BY <1>3 DEF DoneLoop, peerVars
<1>5. Calls' /\ Resting' /\ stack' = <<>>
  BY <1>1, <1>2, <1>3, <1>4, SoloUnder DEF Solo
<1>6. tasks' = tasks \ {stack[1].task}
  BY <1>1, <1>2, <1>3, <1>4, WithoutLaw
<1>7. Waiting' \subseteq Waiting
  BY <1>2, <1>3, <1>5, <1>6, WaitingKept
<1>8. Alone' /\ Copied'
  BY <1>1, <1>2, <1>4, ConnectedKept, CopiedKept DEF Solo
<1>9. Unharmed' /\ Reading'
  BY <1>1, <1>4, <1>5 DEF Solo, Unharmed, Reading, Resting
<1> QED BY <1>1, <1>5, <1>7, <1>8, <1>9 DEF Solo

LEMMA ReadLoopSolo ==
    ASSUME Modest, SInv, ReadLoop
    PROVE  Solo'
<1>1. Typed /\ Solo
  BY DEF SInv, IInv
<1>2. /\ stack \in Seq(Frames) /\ stack # <<>> /\ Top = stack[Len(stack)]
      /\ Len(stack) \in DOMAIN stack /\ Top.kind = "read"
  BY <1>1, RunningLaw DEF ReadLoop
<1>3. Len(stack) # 1 /\ Top.full = FALSE
  BY <1>1, <1>2 DEF Solo, Calls
<1>4. /\ stack' = Under
      /\ UNCHANGED <<link, end, rx, sends, fd, clients, tasks, snap, ready, errors, status, cutOff>>
  BY <1>3 DEF ReadLoop, peerVars
<1>5. Calls' /\ Resting' /\ stack' # <<>> /\ stack'[1] = stack[1]
  BY <1>1, <1>2, <1>3, <1>4, SoloUnder DEF Solo
<1>6. Waiting' = Waiting
  BY <1>2, <1>4, <1>5 DEF Waiting
<1>7. Alone' /\ Copied'
  BY <1>1, <1>2, <1>4, ConnectedKept, CopiedKept DEF Solo
<1>8. Unharmed' /\ Reading'
  BY <1>1, <1>4, <1>5 DEF Solo, Unharmed, Reading, Resting
<1> QED BY <1>1, <1>5, <1>6, <1>7, <1>8 DEF Solo
\* "The first client" is open, and the calls go on as those of one client do.
LEMMA FirstSolo ==
    ASSUME SInv, stack # <<>>, clients # <<>>, ReadFirst(FALSE),
           UNCHANGED <<fd, tasks>>, Waiting = {}, stack[1].task \in tasks \/ Len(stack) # 1
    PROVE  Calls' /\ Reading' /\ Waiting' = {}
<1>1. Typed /\ Sockets /\ Solo
  BY DEF SInv, IInv
<1>2. Head(clients) \in Peers /\ fd[Head(clients)] # 0
  <2>1. clients \in Seq(Peers)
    BY <1>1 DEF Typed
  <2>2. Head(clients) = clients[1] /\ 1 \in DOMAIN clients /\ Head(clients) \in Peers
    BY <2>1
  <2>3. Alive(Head(clients))
    BY <2>2 DEF Alive, Elements
  <2> QED BY <1>1, <2>2, <2>3 DEF Sockets, ClientsOpen
<1>3. stack \in Seq(Frames)
  BY <1>1 DEF Typed
<1> DEFINE p == Head(clients)
<1>4. stack' = Append(Called(FALSE), ReadFrame(p))
  BY <1>2 DEF ReadFirst
<1>5. /\ Calls' /\ stack' # <<>> /\ stack'[1].task = stack[1].task
      /\ \A i \in DOMAIN stack' : stack'[i].at = "read" =>
            stack'[i].kind = "read" /\ stack'[i].obj = p
  <2> HIDE DEF p
  <2>1. p \in Peers
    BY <1>2 DEF p
  <2> QED BY <1>1, <1>3, <1>4, <2>1, SoloPush DEF Solo
<1>6. Waiting' = {}
  BY <1>5 DEF Waiting
<1>7. Reading'
  BY <1>2, <1>5, <1>6 DEF Reading
<1> QED BY <1>5, <1>6, <1>7

\* A socket whose peer closed it is closed and dropped, and nobody is cut off.
LEMMA DisconnectSolo ==
    ASSUME SInv, NEW p \in Peers, end[p] # "open", stack # <<>>,
           Disconnect(p), stack' = Called(FALSE), UNCHANGED <<link, end, status, snap>>,
           Waiting = {}
    PROVE  Solo'
<1>1. IInv /\ Typed /\ Solo
  BY DEF SInv, IInv
<1>2. stack \in Seq(Frames)
  BY <1>1 DEF Typed
<1>3. Calls' /\ Resting' /\ stack' # <<>> /\ stack'[1].task = stack[1].task
  BY <1>1, <1>2, SoloCalled DEF Solo
<1>4. Waiting' = {}
  BY <1>3 DEF Waiting, Disconnect
<1>5. Alone'
  <2>1. \A q \in Peers : fd[q] = 0 => fd'[q] = 0
    BY <1>1 DEF Disconnect, Typed
  <2> QED BY <1>1, <2>1, ConnectedKept DEF Solo
<1>6. Unharmed' /\ Reading' /\ Copied'
  BY <1>1, <1>3, CopiedKept DEF Solo, Unharmed, Disconnect, Reading, Resting
<1> QED BY <1>3, <1>4, <1>5, <1>6 DEF Solo

\* Reading takes nothing that waits to be read away from another descriptor,
\* and there are no resets to report.
LEMMA DrainSolo ==
    ASSUME Typed, Unharmed, NEW f, NEW n, Drain(f, n)
    PROVE  end' = end
<1>1. end' = [p \in Peers |-> IF fd[p] = f /\ end[p] = "reset" THEN "closed" ELSE end[p]]
  BY DEF Drain
<1>2. \A p \in Peers : end'[p] = end[p]
  BY <1>1 DEF Unharmed
<1>3. end \in [Peers -> {"open", "closed", "reset"}]
  BY DEF Typed
<1> QED BY <1>1, <1>2, <1>3

LEMMA DoneReadSolo ==
    ASSUME Modest, SInv, DoneRead
    PROVE  Solo'
<1> DEFINE p == Top.obj
           n == Read(Top.task.fd, DoneSize)
<1>1. IInv /\ Typed /\ Sockets /\ TasksOwned /\ Solo
  BY DEF SInv, IInv
<1>2. /\ stack \in Seq(Frames) /\ stack # <<>> /\ Top = stack[Len(stack)] /\ Top \in Frames
      /\ Len(stack) \in DOMAIN stack /\ Top.kind = "done" /\ Top.at = "read"
  BY <1>1, RunningLaw DEF DoneRead
<1>3. Len(stack) = 1 /\ Top = stack[1]
  BY <1>1, <1>2 DEF Solo, Calls
<1>4. Waiting = {} /\ Top.task \in tasks /\ p = Top.task.obj /\ Due(Top.task)
  BY <1>1, <1>2 DEF Solo, Reading
<1>5. Top.task \in ReadTasks /\ p \in Peers
  BY <1>2, FrameLaw
<1>6. fd[p] = Top.task.fd /\ Alive(p) /\ Top.task.fd \in ConnFds
  BY <1>1, <1>4, <1>5 DEF TasksOwned, ReadTasks
<1>7. Drain(Top.task.fd, n)
  BY DEF DoneRead
<1>8. end' = end /\ link' = link /\ snap' = snap
  BY <1>1, <1>7, DrainSolo DEF Solo, Drain, DoneRead
<1>9. /\ n \in Int /\ n < DoneSize
      /\ n <= 0 => end[p] # "open"
  <2>1. rx[p] \in 0..MaxInFlight /\ MaxInFlight \in Nat /\ DoneSize \in Nat \ {0}
    BY <1>1, <1>5, IoAssumption DEF Typed
  <2>2. /\ n \in -1..DoneSize
        /\ rx[p] > 0 => n > 0 /\ n <= rx[p]
        /\ rx[p] = 0 => n = IF end[p] = "closed" THEN 0 ELSE -1
    BY <1>1, <1>5, <1>6, <2>1, ReadLaw
  <2>3. rx[p] > 0 \/ end[p] # "open"
    BY <1>4 DEF Due
  <2> HIDE DEF n, p
  <2> QED BY <2>1, <2>2, <2>3 DEF Modest
<1>10. CASE n > 0 /\ ReadFirst(n = DoneSize) /\ UNCHANGED <<fd, clients, tasks, status, cutOff>>
  <2>1. n # DoneSize /\ DoneSize \in Nat
    BY <1>9, IoAssumption
  <2>2. ReadFirst(FALSE)
    <3>1. (n = DoneSize) = FALSE
      BY <2>1
    <3> QED BY <1>10, <3>1
  <2>3. clients # <<>>
    BY <1>6 DEF Alive, Elements
  <2>4. Calls' /\ Reading' /\ Waiting' = {}
    BY <1>2, <1>3, <1>4, <1>10, <2>2, <2>3, FirstSolo
  <2>5. Alone' /\ Copied'
    BY <1>1, <1>2, <1>8, <1>10, ConnectedKept, CopiedKept DEF Solo
  <2>6. Unharmed'
    BY <1>1, <1>8, <1>10 DEF Solo, Unharmed
  <2> QED BY <2>4, <2>5, <2>6 DEF Solo
<1>11. CASE n <= 0 /\ Disconnect(p) /\ stack' = Called(FALSE) /\ status' = status
  BY <1>2, <1>4, <1>5, <1>8, <1>9, <1>11, DisconnectSolo
<1> QED BY <1>6, <1>10, <1>11 DEF DoneRead

LEMMA ReadReadSolo ==
    ASSUME Modest, SInv, ReadRead
    PROVE  Solo'
<1> DEFINE p == Top.obj
           n == Read(fd[p], ReadSize)
<1>1. IInv /\ Typed /\ Sockets /\ Solo
  BY DEF SInv, IInv
<1>2. /\ stack \in Seq(Frames) /\ stack # <<>> /\ Top = stack[Len(stack)] /\ Top \in Frames
      /\ Len(stack) \in DOMAIN stack /\ Top.kind = "read" /\ Top.at = "read"
  BY <1>1, RunningLaw DEF ReadRead
<1>3. Len(stack) # 1 /\ p \in Peers
  BY <1>1, <1>2, FrameLaw DEF Solo, Calls
<1>4. Waiting = {} /\ fd[p] # 0
  BY <1>1, <1>2 DEF Solo, Reading
<1>5. fd[p] \in ConnFds /\ Alive(p) /\ clients # <<>>
  BY <1>1, <1>3, <1>4, ListedLaw DEF Typed
<1>6. Drain(fd[p], n) /\ status' = status
  BY <1>4 DEF ReadRead, Stdin
<1>7. end' = end /\ link' = link /\ snap' = snap
  BY <1>1, <1>6, DrainSolo DEF Solo, Drain, ReadRead
<1>8. /\ n \in Int /\ n < ReadSize
      /\ n = 0 => end[p] # "open"
      /\ n = -1 => end[p] = "open"
  <2>1. rx[p] \in 0..MaxInFlight /\ MaxInFlight \in Nat /\ DoneSize \in Nat \ {0}
        /\ ReadSize \in Nat \ {0} /\ DoneSize < ReadSize
    BY <1>1, <1>3, IoAssumption DEF Typed
  <2>2. /\ n \in -1..ReadSize
        /\ rx[p] > 0 => n > 0 /\ n <= rx[p]
        /\ rx[p] = 0 => n = IF end[p] = "closed" THEN 0 ELSE -1
    BY <1>1, <1>3, <1>5, <2>1, ReadLaw
  <2>3. end[p] \in {"open", "closed"}
    BY <1>1, <1>3 DEF Typed, Solo, Unharmed
  <2> HIDE DEF n, p
  <2> QED BY <2>1, <2>2, <2>3 DEF Modest
<1>9. CASE n > 0 /\ ReadFirst(n = ReadSize) /\ UNCHANGED <<fd, clients, tasks, cutOff>>
  <2>1. n # ReadSize /\ ReadSize \in Nat
    BY <1>8, IoAssumption
  <2>2. ReadFirst(FALSE)
    <3>1. (n = ReadSize) = FALSE
      BY <2>1
    <3> QED BY <1>9, <3>1
  <2>3. Calls' /\ Reading' /\ Waiting' = {}
    BY <1>2, <1>3, <1>4, <1>5, <1>9, <2>2, FirstSolo
  <2>4. Alone' /\ Copied'
    BY <1>1, <1>2, <1>7, <1>9, ConnectedKept, CopiedKept DEF Solo
  <2>5. Unharmed'
    BY <1>1, <1>6, <1>7, <1>9 DEF Solo, Unharmed
  <2> QED BY <2>3, <2>4, <2>5 DEF Solo
<1>10. CASE n = 0 /\ Disconnect(p) /\ stack' = Called(FALSE)
  BY <1>2, <1>3, <1>4, <1>6, <1>7, <1>8, <1>10, DisconnectSolo
<1>11. CASE /\ tasks' = tasks \cup {Task("read", fd[p], p)}
            /\ stack' = Under /\ UNCHANGED <<fd, clients, cutOff>>
  <2> DEFINE t == Task("read", fd[p], p)
  <2>1. Calls' /\ Resting' /\ stack' # <<>> /\ stack'[1] = stack[1]
    BY <1>1, <1>2, <1>3, <1>11, SoloUnder DEF Solo
  <2>2. tasks' = tasks \cup {t}
    BY <1>11
  <2> HIDE DEF t
  <2>3. Waiting' \subseteq {t}
    BY <1>2, <1>4, <2>1, <2>2 DEF Waiting
  <2>4. Alone' /\ Copied'
    BY <1>1, <1>2, <1>7, <1>11, ConnectedKept, CopiedKept DEF Solo
  <2>5. Unharmed' /\ Reading'
    BY <1>1, <1>6, <1>7, <1>11, <2>1 DEF Solo, Unharmed, Reading, Resting
  <2>6. \A u, v \in Waiting' : u = v
    BY <2>3
  <2> QED BY <2>1, <2>4, <2>5, <2>6 DEF Solo
<1> QED BY <1>4, <1>8, <1>9, <1>10, <1>11 DEF ReadRead, Stdin

LEMMA AcceptClientSolo ==
    ASSUME Modest, SInv, AcceptClient
    PROVE  Solo'
<1>1. IInv /\ Typed /\ Sockets /\ Solo /\ IInv'
  BY AcceptClientIInv DEF SInv, IInv
<1>2. stack \in Seq(Frames) /\ stack # <<>> /\ Top = stack[1]
  BY <1>1, RunningLaw, AcceptLaw DEF AcceptClient
<1>3. PICK p \in Peers :
         /\ link[p] = "backlog" /\ link' = [link EXCEPT ![p] = "accepted"]
         /\ LET free == ConnFds \ {fd[q] : q \in Peers} IN
              fd' = [fd EXCEPT ![p] = CHOOSE f \in free : \A g \in free : f <= g]
         /\ clients' = Append(clients, p)
         /\ stack' = Append(Called(FALSE), ReadFrame(p))
  BY DEF AcceptClient
<1>4. UNCHANGED <<end, rx, sends, tasks, snap, ready, errors, status, cutOff>>
  BY DEF AcceptClient
<1>5. /\ Calls' /\ stack' # <<>> /\ stack'[1].task = stack[1].task
      /\ \A i \in DOMAIN stack' : stack'[i].at = "read" =>
            stack'[i].kind = "read" /\ stack'[i].obj = p
  BY <1>1, <1>2, <1>3, SoloPush DEF Solo
<1>6. \A t \in tasks : t.type # "read"
  BY <1>1, <1>3, NobodyElse DEF Solo, Backlog
<1>7. Waiting' = {}
  BY <1>4, <1>6 DEF Waiting
<1>8. fd'[p] # 0
  <2>1. p \in Elements(clients')
    <3>1. clients \in Seq(Peers) /\ Len(clients) \in Nat
      BY <1>1 DEF Typed
    <3>2. Len(clients) + 1 \in DOMAIN clients' /\ clients'[Len(clients) + 1] = p
      BY <1>3, <3>1
    <3> QED BY <3>2 DEF Elements
  <2> QED BY <1>1, <2>1 DEF IInv, Sockets, ClientsOpen, Alive
<1>9. Reading'
  BY <1>5, <1>7, <1>8 DEF Reading
<1>10. Alone'
  <2>1. p \in Connected
    BY <1>1, <1>3, OpenConnected
  <2>2. \A q \in Peers : q # p => fd'[q] = fd[q] /\ link'[q] = link[q]
    BY <1>1, <1>3 DEF Typed
  <2>3. Connected' \subseteq Connected
    BY <2>1, <2>2 DEF Connected
  <2> QED BY <1>1, <2>3 DEF Solo, Alone
<1>11. Unharmed' /\ Copied'
  BY <1>1, <1>2, <1>4, CopiedKept DEF Solo, Unharmed
<1> QED BY <1>5, <1>7, <1>9, <1>10, <1>11 DEF Solo

LEMMA AcceptEndSolo ==
    ASSUME Modest, SInv, AcceptFails \/ AcceptRearm
    PROVE  Solo'
<1>1. IInv /\ Typed /\ Solo
  BY DEF SInv, IInv
<1>2. PICK at : Running("accept", at)
  BY DEF AcceptFails, AcceptRearm
<1>3. /\ Len(stack) = 1 /\ Under = <<>> /\ Top = stack[1] /\ Top.task \in ListenTasks
  BY <1>1, <1>2, AcceptLaw
<1>4. stack \in Seq(Frames) /\ stack # <<>>
  BY <1>1, <1>2, RunningLaw
<1>5. stack' = <<>> /\ UNCHANGED <<link, end, fd, clients, snap, ready, status, cutOff>>
  BY <1>3 DEF AcceptFails, AcceptRearm, peerVars
<1>6. \A t \in tasks' : t \in tasks \/ t.type = "accept"
  BY DEF AcceptFails, AcceptRearm, Without, Task
<1>7. Waiting' \subseteq Waiting
  <2>1. Top.task.type # "read"
    BY <1>3 DEF ListenTasks
  <2> QED BY <1>3, <1>5, <1>6, <2>1 DEF Waiting
<1>8. Calls' /\ Reading'
  BY <1>5 DEF Calls, Reading
<1>9. Alone' /\ Copied'
  BY <1>1, <1>4, <1>5, ConnectedKept, CopiedKept DEF Solo
<1>10. Unharmed'
  BY <1>1, <1>5 DEF Solo, Unharmed
<1> QED BY <1>1, <1>7, <1>8, <1>9, <1>10 DEF Solo

LEMMA NextSolo ==
    ASSUME Modest
    PROVE  SInv /\ [Next]_vars => SInv'
<1> SUFFICES ASSUME SInv, [Next]_vars PROVE Solo'
  BY NextIInv DEF SInv
<1>1. CASE PeerStep
  BY <1>1, PeerSolo
<1>2. CASE TrackerSelect
  BY <1>2, SelectSolo
<1>3. CASE TrackerTask
  BY <1>3, TaskSolo
<1>4. CASE DoneRead
  BY <1>4, DoneReadSolo
<1>5. CASE DoneLoop
  BY <1>5, DoneLoopSolo
<1>6. CASE ReadRead
  BY <1>6, ReadReadSolo
<1>7. CASE ReadLoop
  BY <1>7, ReadLoopSolo
<1>8. CASE AcceptClient
  BY <1>8, AcceptClientSolo
<1>9. CASE AcceptFails \/ AcceptRearm
  BY <1>9, AcceptEndSolo
<1>10. CASE UNCHANGED vars
  <2>1. UNCHANGED <<link, end, rx, sends, fd, clients, tasks, snap, ready, stack, errors, status, cutOff>>
    BY <1>10 DEF vars, peerVars
  <2>2. Alone' /\ Unharmed' /\ Calls' /\ Reading' /\ Copied' /\ Waiting' = Waiting
    BY <2>1 DEF SInv, Solo, Alone, Connected, Unharmed, Calls, Reading, Copied, Waiting, Due
  <2> QED BY <2>2 DEF SInv, Solo
<1> QED BY <1>1, <1>2, <1>3, <1>4, <1>5, <1>6, <1>7, <1>8, <1>9, <1>10
        DEF Next, TrackerStep

THEOREM OneAtATime ==
    ASSUME Modest
    PROVE  Spec => []SInv
<1>1. Init => SInv
  BY InitIInv, InitSolo DEF SInv
<1>2. SInv /\ [Next]_vars => SInv'
  BY NextSolo
<1> QED BY <1>1, <1>2, PTL DEF Spec

\* With one well-behaved client at a time no task calls a socket that was
\* closed and destroyed (select_tracker::thread_loop runs done() also of the
\* tasks that were deleted since it copied the list) ...
THEOREM NothingDangles ==
    ASSUME Modest
    PROVE  Spec => []NoDanglingListener
<1>1. SInv => NoDanglingListener
  BY DEF SInv, Solo, Unharmed, NoDanglingListener
<1> QED BY <1>1, OneAtATime, PTL

\* ... io_fd::_read never goes on with the _fd of a socket that was closed in
\* a call it made itself ...
THEOREM StdinUntouched ==
    ASSUME Modest
    PROVE  Spec => []NeverReadsStdin
<1>1. SInv => NeverReadsStdin
  BY DEF SInv, Solo, Unharmed, NeverReadsStdin
<1> QED BY <1>1, OneAtATime, PTL

\* ... and read_task::done never passes the -1 of a read that would block to
\* inet_socket::_on_data_receive, which disconnects a client that is fine.
THEOREM HealthyKept ==
    ASSUME Modest
    PROVE  Spec => []HealthyStaysConnected
<1>1. SInv => HealthyStaysConnected
  BY DEF SInv, Solo, Unharmed, HealthyStaysConnected
<1> QED BY <1>1, OneAtATime, PTL
=============================================================================
