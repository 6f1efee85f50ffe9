-------------------------- MODULE WritePathProofs ---------------------------
(***************************************************************************)
(* Why send_req tells the truth (the wrong way round), and the bytes of    *)
(* messages go out in order: for any senders, messages, lengths and room,  *)
(* any errors, and a tracker thread that writes without the lock.          *)
(***************************************************************************)
EXTENDS WritePath, SequenceTheorems, FiniteSetTheorems, TLAPS

\* What is assumed of the constants.
Setting == Length \in Nat \ {0} /\ Room \in Nat /\ "free" \notin Senders

(***************************************************************************)
(* WriteSafe is not inductive: it speaks of messages that were reported.   *)
(* Before, what is with the kernel of a message is what is before the      *)
(* first byte that its one sender has left; afterwards, what is before the *)
(* first byte of its one task.  The mutex is not what keeps the order of   *)
(* bytes: it is that nobody else ever writes bytes of the message.  It     *)
(* keeps lines apart, while there are no tasks.                            *)
(***************************************************************************)

Bytes == Messages \X (1..Length)

Types ==
    /\ pc \in [Senders -> {"idle", "enter", "write"}]
    /\ msg \in [Senders -> Messages \cup {0}]
    /\ from \in [Senders -> Nat]
    /\ mutex \in Senders \cup {"free"}
    /\ result \in [Messages -> {"none", "true", "false"}]
    /\ tasks \subseteq [msg : Messages, from : 1..Length + 1]
    /\ tracker \in {"rest", "write", "free", "crashed"}
    /\ wire \in Seq(Bytes) /\ kernel \in Seq(Bytes) /\ Len(kernel) <= Room
    /\ errors \in Nat

Locked == \A s \in Senders : pc[s] = "write" <=> mutex = s

Busy(s) == pc[s] # "idle"

\* A message that is being sent has one sender, which has the rest of it.
Underway ==
    /\ \A s \in Senders : Busy(s) => msg[s] \in Messages
    /\ \A s \in Senders, m \in Messages : Busy(s) /\ msg[s] = m =>
         /\ result[m] = "none" /\ from[s] \in 1..Length /\ Handed(m) = from[s] - 1
         /\ pc[s] = "enter" => from[s] = 1
    /\ \A s, r \in Senders : Busy(s) /\ Busy(r) /\ msg[s] = msg[r] => s = r

\* A message in a write task has one task, which has the rest of it.
Rests ==
    /\ \A t \in tasks :
         /\ result[t.msg] = "false" /\ Handed(t.msg) = t.from - 1
         /\ t.from > Length => tracker \in {"free", "crashed"} /\ t = current
    /\ \A t, u \in tasks : t.msg = u.msg => t = u
    /\ tracker # "rest" => current \in tasks
    /\ tracker = "free" => current.from = Length + 1

Reported ==
    \A m \in Messages :
        /\ result[m] = "none" => Handed(m) = 0 \/ \E s \in Senders : Busy(s) /\ msg[s] = m
        /\ result[m] = "true" => Handed(m) < Length
        /\ result[m] = "false" => Handed(m) = Length \/ \E t \in tasks : t.msg = m

\* No byte is ahead of the count of its message.
Counted ==
    \A m \in Messages : \A i \in 1..Len(Stream) :
        Stream[i][1] = m => Stream[i][2] <= Handed(m)

Together ==
    \A i, j, k \in 1..Len(Stream) :
        i < j /\ j < k /\ Stream[i][1] = Stream[k][1] => Stream[j][1] = Stream[i][1]

Last(m) == \A i, j \in 1..Len(Stream) : i < j /\ Stream[i][1] = m => Stream[j][1] = m

\* Before any error there are no tasks, lines are not mixed, and what the
\* holder of the mutex has written lies together at the end.
Unmixed ==
    errors = 0 =>
        /\ tasks = {} /\ Together
        /\ \A s \in Senders, m \in Messages : pc[s] = "write" /\ msg[s] = m => Last(m)

IInv == Types /\ Locked /\ Underway /\ Rests /\ Reported /\ Counted
        /\ InSequence /\ Unmixed

-----------------------------------------------------------------------------
(* What a step does to the stream of bytes.                                *)

LEMMA StreamType == Types => Stream \in Seq(Bytes) /\ Len(Stream) = Len(wire) + Len(kernel)
BY DEF Types, Stream

Of(m) == {i \in 1..Len(Stream) : Stream[i][1] = m}

LEMMA HandedType ==
    ASSUME Types, NEW m
    PROVE  /\ IsFiniteSet(Of(m)) /\ Handed(m) = Cardinality(Of(m)) /\ Handed(m) \in Nat
           /\ Handed(m) = 0 => \A i \in 1..Len(Stream) : Stream[i][1] # m
<1>1. IsFiniteSet(1..Len(Stream))
  <2>1. Len(Stream) \in Int /\ 1 \in Int
    BY StreamType
  <2> QED BY <2>1, FS_Interval
<1>2. Of(m) \subseteq 1..Len(Stream)
  BY DEF Of
<1>3. IsFiniteSet(Of(m))
  BY <1>1, <1>2, FS_Subset
<1>4. Handed(m) = Cardinality(Of(m))
  BY DEF Handed, Of
<1>5. Cardinality(Of(m)) \in Nat /\ (Cardinality(Of(m)) = 0 <=> Of(m) = {})
  BY <1>3, FS_CardinalityType, FS_EmptySet
<1>6. Of(m) = {} => \A i \in 1..Len(Stream) : Stream[i][1] # m
  BY DEF Of
<1> QED BY <1>3, <1>4, <1>5, <1>6

Same == Stream' = Stream /\ \A m : Handed(m)' = Handed(m)

LEMMA QuietLaw == ASSUME UNCHANGED <<wire, kernel>> PROVE Same
BY DEF Same, Stream, Handed

\* The peer reads the first byte; the stream is as it was.
LEMMA ReadsLaw ==
    ASSUME Setting, Types, PeerReads
    PROVE  /\ Same
           /\ wire' \in Seq(Bytes) /\ kernel' \in Seq(Bytes) /\ Len(kernel') <= Room
<1>1. wire \in Seq(Bytes) /\ kernel \in Seq(Bytes) /\ kernel # <<>> /\ Len(kernel) <= Room
      /\ wire' = Append(wire, Head(kernel)) /\ kernel' = Tail(kernel)
  BY DEF Types, PeerReads
<1>2. /\ Head(kernel) \in Bytes /\ Len(kernel) \in Nat \ {0} /\ Head(kernel) = kernel[1]
      /\ kernel' \in Seq(Bytes) /\ Len(kernel') = Len(kernel) - 1
      /\ \A k \in 1..Len(kernel') : kernel'[k] = kernel[k + 1]
  BY <1>1
<1>3. /\ wire' \in Seq(Bytes) /\ Len(wire') = Len(wire) + 1 /\ Len(wire) \in Nat
      /\ \A k \in 1..Len(wire) : wire'[k] = wire[k]
      /\ wire'[Len(wire) + 1] = kernel[1]
  BY <1>1, <1>2
<1>4. wire' \o kernel' = wire \o kernel
  <2> DEFINE a == wire' \o kernel'  b == wire \o kernel
  <2>1. /\ a \in Seq(Bytes) /\ Len(a) = Len(wire) + Len(kernel)
        /\ b \in Seq(Bytes) /\ Len(b) = Len(wire) + Len(kernel)
    BY <1>1, <1>2, <1>3
  <2>2. \A k \in 1..Len(a) : a[k] = IF k <= Len(wire') THEN wire'[k] ELSE kernel'[k - Len(wire')]
    BY <1>2, <1>3
  <2>3. \A k \in 1..Len(b) : b[k] = IF k <= Len(wire) THEN wire[k] ELSE kernel[k - Len(wire)]
    BY <1>1
  <2> HIDE DEF a, b
  <2>4. \A k \in 1..Len(a) : a[k] = b[k]
    <3> SUFFICES ASSUME NEW k \in 1..Len(a) PROVE a[k] = b[k]
      OBVIOUS
    <3>1. k \in 1..Len(b) /\ k \in Nat
      BY <1>2, <1>3, <2>1
    <3>2. CASE k <= Len(wire)
      BY <1>3, <2>2, <2>3, <3>1, <3>2
    <3>3. CASE k = Len(wire) + 1
      BY <1>2, <1>3, <2>2, <2>3, <3>1, <3>3
    <3>4. CASE k > Len(wire) + 1
      <4>1. k - Len(wire') \in 1..Len(kernel') /\ k - Len(wire') + 1 = k - Len(wire)
        BY <1>2, <1>3, <2>1, <3>1, <3>4
      <4>2. a[k] = kernel'[k - Len(wire')]
        BY <1>3, <2>2, <3>1, <3>4
      <4>3. b[k] = kernel[k - Len(wire)]
        BY <1>3, <2>3, <3>1, <3>4
      <4> QED BY <1>2, <4>1, <4>2, <4>3
    <3> QED BY <1>3, <3>1, <3>2, <3>3, <3>4
  <2>5. a = b
    BY <2>1, <2>4, SeqEqual
  <2> QED BY <2>5 DEF a, b
<1>5. Same
  BY <1>4 DEF Same, Stream, Handed
<1>6. Len(kernel') <= Room
  BY <1>1, <1>2 DEF Setting
<1> QED BY <1>2, <1>3, <1>5, <1>6

\* n bytes of message m from byte i on are new.
Grown(m, i, n) ==
    /\ Len(Stream') = Len(Stream) + n
    /\ \A k \in 1..Len(Stream) : Stream'[k] = Stream[k]
    /\ \A k \in Len(Stream) + 1..Len(Stream) + n : Stream'[k] = <<m, i + (k - Len(Stream)) - 1>>
    /\ \A x : Handed(x)' = Handed(x) + (IF x = m THEN n ELSE 0)

LEMMA TakenType ==
    ASSUME Setting, Types, NEW i \in 1..Length, Free > 0
    PROVE  /\ Taken(i) \in Nat /\ Taken(i) >= 1 /\ i + Taken(i) <= Length + 1
           /\ Len(kernel) + Taken(i) <= Room
BY DEF Setting, Types, Free, Taken, Least

LEMMA WriteLaw ==
    ASSUME Setting, Types, NEW m \in Messages, NEW i \in 1..Length, Free > 0,
           Write(m, i), UNCHANGED wire
    PROVE  /\ kernel' \in Seq(Bytes) /\ Len(kernel') <= Room
           /\ Grown(m, i, Taken(i))
<1> DEFINE n == Taken(i)
           added == [k \in 1..n |-> <<m, i + k - 1>>]
<1>1. n \in Nat /\ n >= 1 /\ i + n <= Length + 1 /\ Len(kernel) + n <= Room
  BY TakenType
<1>2. Length \in Nat
  BY DEF Setting
<1>3. kernel' = kernel \o added
  BY DEF Write
<1> HIDE DEF n
<1>4. added \in Seq(Bytes) /\ Len(added) = n /\ \A k \in 1..n : added[k] = <<m, i + k - 1>>
  <2>1. \A k \in 1..n : <<m, i + k - 1>> \in Bytes
    BY <1>1, <1>2 DEF Bytes
  <2>2. added \in [1..n -> Bytes]
    BY <2>1
  <2>3. added \in Seq(Bytes)
    <3> HIDE DEF added
    <3>1. Seq(Bytes) = UNION {[1..k -> Bytes] : k \in Nat}
      BY SeqDef
    <3> QED BY <1>1, <2>2, <3>1
  <2>4. Len(added) \in Nat /\ DOMAIN added = 1..Len(added) /\ DOMAIN added = 1..n
    BY <2>3, LenProperties
  <2>5. Len(added) = n
    <3> HIDE DEF added
    <3>1. \A a, b \in Nat : 1..a = 1..b => a = b
      <4> SUFFICES ASSUME NEW a \in Nat, NEW b \in Nat, 1..a = 1..b PROVE a = b
        OBVIOUS
      <4>1. a >= 1 => a \in 1..b
        OBVIOUS
      <4>2. b >= 1 => b \in 1..a
        OBVIOUS
      <4> QED BY <4>1, <4>2
    <3> QED BY <1>1, <2>4, <3>1
  <2>6. \A k \in 1..n : added[k] = <<m, i + k - 1>>
    OBVIOUS
  <2> QED BY <2>3, <2>5, <2>6
<1> HIDE DEF added
<1>5. kernel \in Seq(Bytes) /\ wire \in Seq(Bytes) /\ wire' = wire
  BY DEF Types
<1>6. kernel' \in Seq(Bytes) /\ Len(kernel') = Len(kernel) + n
  BY <1>3, <1>4, <1>5, ConcatProperties
<1>7. Stream' = Stream \o added
  <2>1. \A a, b, c \in Seq(Bytes) : a \o (b \o c) = (a \o b) \o c
    BY ConcatAssociative
  <2>2. wire \o (kernel \o added) = (wire \o kernel) \o added
    BY <1>4, <1>5, <2>1
  <2> QED BY <1>3, <1>5, <2>2 DEF Stream
<1>8. Stream \in Seq(Bytes) /\ Len(Stream) \in Nat
  BY StreamType
<1>9. /\ Len(Stream') = Len(Stream) + n
      /\ \A k \in 1..Len(Stream) : Stream'[k] = Stream[k]
      /\ \A k \in Len(Stream) + 1..Len(Stream) + n : Stream'[k] = added[k - Len(Stream)]
  <2>1. /\ Len(Stream \o added) = Len(Stream) + Len(added)
        /\ \A k \in 1..Len(Stream) + Len(added) :
             (Stream \o added)[k] = IF k <= Len(Stream) THEN Stream[k]
                                                       ELSE added[k - Len(Stream)]
    BY <1>4, <1>8, ConcatProperties
  <2> QED BY <1>1, <1>4, <1>7, <1>8, <2>1
<1>10. \A k \in Len(Stream) + 1..Len(Stream) + n :
         /\ k - Len(Stream) \in 1..n
         /\ Stream'[k] = <<m, i + (k - Len(Stream)) - 1>>
  <2> SUFFICES ASSUME NEW k \in Len(Stream) + 1..Len(Stream) + n
               PROVE  /\ k - Len(Stream) \in 1..n
                      /\ Stream'[k] = <<m, i + (k - Len(Stream)) - 1>>
    OBVIOUS
  <2>1. k - Len(Stream) \in 1..n
    BY <1>1, <1>8
  <2>2. Stream'[k] = added[k - Len(Stream)]
    BY <1>9
  <2> QED BY <1>4, <2>1, <2>2
<1>11. \A x : Handed(x)' = Handed(x) + (IF x = m THEN n ELSE 0)
  <2> SUFFICES ASSUME NEW x PROVE Handed(x)' = Handed(x) + (IF x = m THEN n ELSE 0)
    OBVIOUS
  <2>1. IsFiniteSet(Of(x)) /\ Handed(x) = Cardinality(Of(x)) /\ Handed(x) \in Nat
    BY HandedType
  <2>2. Handed(x)' = Cardinality(Of(x)')
    BY DEF Handed, Of
  <2>3. CASE x # m
    <3>1. Of(x)' = Of(x)
      <4>1. ASSUME NEW k \in 1..Len(Stream') PROVE k \in Of(x)' <=> k \in Of(x)
        <5>1. CASE k <= Len(Stream)
          BY <1>8, <1>9, <5>1 DEF Of
        <5>2. CASE k > Len(Stream)
          <6>1. Stream'[k][1] = m
            BY <1>1, <1>8, <1>9, <1>10, <5>2
          <6> QED BY <1>1, <1>8, <2>3, <5>2, <6>1 DEF Of
        <5> QED BY <1>8, <5>1, <5>2
      <4> QED BY <1>1, <1>8, <1>9, <4>1 DEF Of
    <3> QED BY <2>1, <2>2, <2>3, <3>1
  <2>4. CASE x = m
    <3> DEFINE T == Len(Stream) + 1..Len(Stream) + n
    <3>1. Of(x)' = Of(x) \cup T
      <4>1. ASSUME NEW k \in 1..Len(Stream') PROVE k \in Of(x)' <=> k \in Of(x) \/ k \in T
        <5>1. CASE k <= Len(Stream)
          BY <1>8, <1>9, <5>1 DEF Of
        <5>2. CASE k > Len(Stream)
          <6>1. Stream'[k][1] = m /\ k \in T
            BY <1>1, <1>8, <1>9, <1>10, <5>2
          <6> QED BY <2>4, <6>1 DEF Of
        <5> QED BY <1>8, <5>1, <5>2
      <4>2. Of(x)' \subseteq 1..Len(Stream')
        BY DEF Of
      <4>3. Of(x) \cup T \subseteq 1..Len(Stream')
        BY <1>1, <1>8, <1>9 DEF Of
      <4> HIDE DEF T
      <4> QED BY <4>1, <4>2, <4>3
    <3>2. Of(x) \cap T = {}
      BY <1>1, <1>8 DEF Of
    <3>3. IsFiniteSet(T) /\ Cardinality(T) = n
      <4> DEFINE a == Len(Stream) + 1  b == Len(Stream) + n
      <4>1. a \in Int /\ b \in Int /\ ~(a > b) /\ b - a + 1 = n
        BY <1>1, <1>8
      <4> HIDE DEF a, b
      <4>2. IsFiniteSet(a..b) /\ Cardinality(a..b) = n
        BY <4>1, FS_Interval
      <4> QED BY <4>2 DEF a, b
    <3> HIDE DEF T
    <3>4. Cardinality(Of(x) \cup T) =
            Cardinality(Of(x)) + Cardinality(T) - Cardinality(Of(x) \cap T)
      BY <2>1, <3>3, FS_Union
    <3>5. Cardinality(Of(x) \cap T) = 0
      BY <3>2, FS_EmptySet
    <3> QED BY <1>1, <2>1, <2>2, <2>4, <3>1, <3>3, <3>4, <3>5
  <2> QED BY <2>3, <2>4
<1> QED BY <1>1, <1>6, <1>9, <1>10, <1>11 DEF Grown, n

\* What is new of a message comes after what there was of it.
LEMMA GrownInOrder ==
    ASSUME Setting, Types, Counted, InSequence, NEW m \in Messages, NEW i \in 1..Length,
           NEW n \in Nat, Handed(m) = i - 1, Grown(m, i, n)
    PROVE  Counted' /\ InSequence'
<1> DEFINE L == Len(Stream)
<1>1. L \in Nat /\ Len(Stream') = L + n /\ i \in Nat
  BY StreamType DEF Setting, Grown
<1>2. \A k \in 1..L : Stream[k] \in Bytes /\ Stream[k][1] \in Messages /\ Stream[k][2] \in Nat
  BY StreamType DEF Bytes, Setting
<1>3. \A k \in 1..L : Stream'[k] = Stream[k]
  BY DEF Grown
<1>4. \A k \in L + 1..L + n : Stream'[k][1] = m /\ Stream'[k][2] = i + (k - L) - 1
  BY DEF Grown
<1>5. \A x : Handed(x)' = Handed(x) + (IF x = m THEN n ELSE 0)
  BY DEF Grown
<1>6. \A x \in Messages : \A k \in 1..L :
        Stream[k][1] = x => Stream[k][2] <= Handed(x) /\ Handed(x) \in Nat
  BY HandedType DEF Counted
<1>7. \A a, b \in 1..L : a < b /\ Stream[a][1] = Stream[b][1] => Stream[a][2] < Stream[b][2]
  BY DEF InSequence
<1> HIDE DEF L
<1>8. \A x \in Messages : \A k \in 1..L + n :
        Stream'[k][1] = x => Stream'[k][2] <= Handed(x)'
  <2> SUFFICES ASSUME NEW x \in Messages, NEW k \in 1..L + n, Stream'[k][1] = x
               PROVE  Stream'[k][2] <= Handed(x)'
    OBVIOUS
  <2>1. CASE k <= L
    <3>1. k \in 1..L /\ Stream'[k] = Stream[k]
      BY <1>1, <1>3, <2>1
    <3>2. Stream[k][2] \in Nat /\ Stream[k][2] <= Handed(x) /\ Handed(x) \in Nat
      BY <1>2, <1>6, <3>1
    <3>3. Stream[k][2] <= Handed(x)'
      BY <1>5, <3>2
    <3> QED BY <3>1, <3>3
  <2>2. CASE k > L
    <3>1. k \in L + 1..L + n
      BY <1>1, <2>2
    <3>2. Handed(m)' = i - 1 + n
      BY <1>5
    <3>3. x = m /\ Stream'[k][2] = i + (k - L) - 1
      BY <1>4, <3>1
    <3>4. i + (k - L) - 1 <= i - 1 + n
      BY <1>1, <3>1
    <3> QED BY <3>2, <3>3, <3>4
  <2> QED BY <1>1, <2>1, <2>2
<1>9. \A a, b \in 1..L + n :
        a < b /\ Stream'[a][1] = Stream'[b][1] => Stream'[a][2] < Stream'[b][2]
  <2> SUFFICES ASSUME NEW a \in 1..L + n, NEW b \in 1..L + n, a < b,
                      Stream'[a][1] = Stream'[b][1]
               PROVE  Stream'[a][2] < Stream'[b][2]
    OBVIOUS
  <2>1. CASE b <= L
    <3>1. a \in 1..L /\ b \in 1..L
      BY <1>1, <2>1
    <3> QED BY <1>3, <1>7, <3>1
  <2>2. CASE a <= L /\ b > L
    <3>1. a \in 1..L /\ b \in L + 1..L + n
      BY <1>1, <2>2
    <3>2. Stream'[b][1] = m /\ Stream'[b][2] = i + (b - L) - 1
      BY <1>4, <3>1
    <3>3. Stream[a][1] = m
      BY <1>3, <3>1, <3>2
    <3>4. Stream[a][2] \in Nat /\ Stream[a][2] <= i - 1
      BY <1>2, <1>6, <3>1, <3>3
    <3>5. i - 1 < i + (b - L) - 1
      BY <1>1, <3>1
    <3>6. Stream[a][2] < i + (b - L) - 1
      BY <1>1, <3>1, <3>4, <3>5
    <3> QED BY <1>3, <3>1, <3>2, <3>6
  <2>3. CASE a > L
    <3>1. a \in L + 1..L + n /\ b \in L + 1..L + n
      BY <1>1, <2>3
    <3>2. Stream'[a][2] = i + (a - L) - 1 /\ Stream'[b][2] = i + (b - L) - 1
      BY <1>4, <3>1
    <3> QED BY <1>1, <3>1, <3>2
  <2> QED BY <1>1, <2>1, <2>2, <2>3
<1> QED BY <1>1, <1>8, <1>9 DEF Counted, InSequence

\* What is new of the message at the end leaves the others together.
LEMMA GrownTogether ==
    ASSUME Types, Together, NEW m, Last(m), NEW i, NEW n \in Nat, Grown(m, i, n)
    PROVE  Together' /\ Last(m)'
<1> DEFINE L == Len(Stream)
<1>1. L \in Nat /\ Len(Stream') = L + n
  BY StreamType DEF Grown
<1>2. \A k \in 1..L : Stream'[k][1] = Stream[k][1]
  BY DEF Grown
<1>3. \A k \in L + 1..L + n : Stream'[k][1] = m
  BY DEF Grown
<1>4. \A a, b, c \in 1..L :
        a < b /\ b < c /\ Stream[a][1] = Stream[c][1] => Stream[b][1] = Stream[a][1]
  BY DEF Together
<1>5. \A a, b \in 1..L : a < b /\ Stream[a][1] = m => Stream[b][1] = m
  BY DEF Last
<1> HIDE DEF L
<1>6. \A k \in 1..L + n : k \in 1..L \/ k \in L + 1..L + n
  BY <1>1
<1>7. \A a, b \in 1..L + n : a < b /\ Stream'[a][1] = m => Stream'[b][1] = m
  <2> SUFFICES ASSUME NEW a \in 1..L + n, NEW b \in 1..L + n, a < b, Stream'[a][1] = m
               PROVE  Stream'[b][1] = m
    OBVIOUS
  <2>1. b \in L + 1..L + n \/ (a \in 1..L /\ b \in 1..L)
    BY <1>1
  <2> QED BY <1>2, <1>3, <1>5, <2>1
<1>8. \A a, b, c \in 1..L + n :
        a < b /\ b < c /\ Stream'[a][1] = Stream'[c][1] => Stream'[b][1] = Stream'[a][1]
  <2> SUFFICES ASSUME NEW a \in 1..L + n, NEW b \in 1..L + n, NEW c \in 1..L + n,
                      a < b, b < c, Stream'[a][1] = Stream'[c][1]
               PROVE  Stream'[b][1] = Stream'[a][1]
    OBVIOUS
  <2>1. CASE c \in 1..L
    <3>1. a \in 1..L /\ b \in 1..L
      BY <1>1, <2>1
    <3> QED BY <1>2, <1>4, <2>1, <3>1
  <2>2. CASE c \in L + 1..L + n
    <3>1. Stream'[a][1] = m
      BY <1>3, <2>2
    <3> QED BY <1>7, <3>1
  <2> QED BY <1>6, <2>1, <2>2
<1> QED BY <1>1, <1>7, <1>8 DEF Together, Last

\* Nothing new.
LEMMA SameOrder ==
    ASSUME Same
    PROVE  /\ Counted => Counted'
           /\ InSequence => InSequence'
           /\ Together => Together'
           /\ \A m : Last(m) => Last(m)'
BY DEF Same, Counted, InSequence, Together, Last

-----------------------------------------------------------------------------
(* The steps.                                                              *)

LEMMA InitInv == ASSUME Setting PROVE Init => IInv
<1> SUFFICES ASSUME Init PROVE IInv
  OBVIOUS
<1>1. Stream = <<>> /\ Len(Stream) = 0
  BY DEF Init, Stream
<1>2. \A m : Handed(m) = 0
  <2>1. \A m : {i \in 1..Len(Stream) : Stream[i][1] = m} = {}
    BY <1>1
  <2> QED BY <2>1, FS_EmptySet DEF Handed
<1>3. Types
  BY DEF Init, Types, Setting
<1>4. Locked /\ Underway /\ Rests /\ Reported
  BY <1>2 DEF Init, Setting, Locked, Underway, Rests, Reported, Busy
<1>5. Counted /\ InSequence /\ Unmixed
  BY <1>1 DEF Init, Counted, InSequence, Unmixed, Together, Last
<1> QED BY <1>3, <1>4, <1>5 DEF IInv

\* Nobody has sent any of the message yet.
LEMMA SendStep ==
    ASSUME Setting, IInv, NEW s \in Senders, NEW m \in Messages, Send(s, m)
    PROVE  IInv'
<1> USE DEF task, net
<1>1. Same
  BY QuietLaw DEF Send
<1>2. pc[s] = "idle" /\ pc' = [pc EXCEPT ![s] = "enter"] /\ msg' = [msg EXCEPT ![s] = m]
      /\ from' = [from EXCEPT ![s] = 1] /\ result[m] = "none" /\ \A r \in Senders : msg[r] # m
      /\ UNCHANGED <<mutex, result, tasks, tracker, current, kernel, wire, errors>>
  BY DEF Send, At
<1>3. Handed(m) = 0
  BY <1>2 DEF IInv, Reported
<1>4. Types'
  BY <1>2 DEF IInv, Types
<1>5. \A r \in Senders : /\ pc'[r] = IF r = s THEN "enter" ELSE pc[r]
                         /\ msg'[r] = IF r = s THEN m ELSE msg[r]
                         /\ from'[r] = IF r = s THEN 1 ELSE from[r]
  BY <1>2 DEF IInv, Types
<1>6. Locked'
  BY <1>2, <1>5 DEF IInv, Locked
<1>7. Underway'
  <2>1. 1 \in 1..Length
    BY DEF Setting
  <2> QED BY <1>1, <1>2, <1>3, <1>5, <2>1 DEF IInv, Underway, Busy, Same
<1>8. Rests'
  BY <1>1, <1>2 DEF IInv, Rests, Same
<1>9. Reported'
  BY <1>1, <1>2, <1>5 DEF IInv, Reported, Busy, Same
<1>10. Counted' /\ InSequence'
  BY <1>1, SameOrder DEF IInv
<1>11. Unmixed'
  BY <1>1, <1>2, <1>5, SameOrder DEF IInv, Unmixed
<1> QED BY <1>4, <1>6, <1>7, <1>8, <1>9, <1>10, <1>11 DEF IInv

\* Nothing of the message has been written, so that it will be together.
LEMMA EnterStep == ASSUME Setting, IInv, NEW s \in Senders, Enter(s) PROVE IInv'
<1> USE DEF task, net
<1>1. Same
  BY QuietLaw DEF Enter
<1>2. pc[s] = "enter" /\ pc' = [pc EXCEPT ![s] = "write"] /\ mutex = "free" /\ mutex' = s
      /\ UNCHANGED <<msg, from, result, tasks, tracker, current, kernel, wire, errors>>
  BY DEF Enter, At
<1>3. Types'
  BY <1>2 DEF IInv, Types
<1>4. \A r \in Senders : pc'[r] = IF r = s THEN "write" ELSE pc[r]
  BY <1>2 DEF IInv, Types
<1>5. Locked'
  BY <1>2, <1>4 DEF IInv, Locked, Setting
<1>6. Underway'
  BY <1>1, <1>2, <1>4 DEF IInv, Underway, Busy, Same
<1>7. Rests'
  BY <1>1, <1>2 DEF IInv, Rests, Same
<1>8. Reported'
  BY <1>1, <1>2, <1>4 DEF IInv, Reported, Busy, Same
<1>9. Counted' /\ InSequence'
  BY <1>1, SameOrder DEF IInv
<1>10. ASSUME NEW m \in Messages, msg[s] = m PROVE Last(m)
  <2>1. Handed(m) = from[s] - 1 /\ from[s] = 1
    BY <1>2, <1>10 DEF IInv, Underway, Busy
  <2>2. \A i \in 1..Len(Stream) : Stream[i][1] # m
    BY <2>1, HandedType DEF IInv
  <2> QED BY <2>2 DEF Last
<1>11. Unmixed'
  BY <1>1, <1>2, <1>4, <1>10, SameOrder DEF IInv, Unmixed
<1> QED BY <1>3, <1>5, <1>6, <1>7, <1>8, <1>9, <1>11 DEF IInv

\* The sender in the loop of _write.
LEMMA Writer ==
    ASSUME IInv, NEW s \in Senders, pc[s] = "write"
    PROVE  /\ msg[s] \in Messages /\ result[msg[s]] = "none"
           /\ from[s] \in 1..Length /\ Handed(msg[s]) = from[s] - 1
           /\ mutex = s /\ \A r \in Senders : pc[r] = "write" => r = s
           /\ \A r \in Senders : Busy(r) /\ msg[r] = msg[s] => r = s
           /\ \A t \in tasks : t.msg # msg[s]
BY DEF IInv, Locked, Underway, Rests, Busy

LEMMA WriteSomeStep == ASSUME Setting, IInv, NEW s \in Senders, WriteSome(s) PROVE IInv'
<1> USE DEF task
<1>1. pc[s] = "write" /\ Free > 0
  BY DEF WriteSome
<1>2. PICK m \in Messages, i \in 1..Length :
        /\ m = msg[s] /\ i = from[s] /\ result[m] = "none" /\ Handed(m) = i - 1 /\ mutex = s
        /\ \A r \in Senders : pc[r] = "write" => r = s
        /\ \A r \in Senders : Busy(r) /\ msg[r] = m => r = s
        /\ \A t \in tasks : t.msg # m
  BY <1>1, Writer
<1>3. Types
  BY DEF IInv
<1>4. PICK n \in Nat : n = Taken(i) /\ n >= 1 /\ i + n <= Length + 1
  BY <1>1, <1>3, TakenType
<1>5. Write(m, i) /\ from' = [from EXCEPT ![s] = i + n]
      /\ UNCHANGED <<msg, tasks, tracker, current, wire, errors>>
  BY <1>2, <1>4 DEF WriteSome, IInv, Types
<1>6. kernel' \in Seq(Bytes) /\ Len(kernel') <= Room /\ Grown(m, i, n)
  BY <1>1, <1>3, <1>4, <1>5, WriteLaw
<1>7. \A x : Handed(x)' = Handed(x) + (IF x = m THEN n ELSE 0)
  BY <1>6 DEF Grown
<1>8. \A x \in Messages : Handed(x) \in Nat
  BY <1>3, HandedType
<1>9. Handed(m)' = i + n - 1 /\ \A x \in Messages : x # m => Handed(x)' = Handed(x)
  BY <1>2, <1>7, <1>8
<1>10. Length \in Nat /\ \A r \in Senders : from'[r] = IF r = s THEN i + n ELSE from[r]
  BY <1>3, <1>5 DEF Setting, Types
<1>11. Counted' /\ InSequence'
  BY <1>2, <1>3, <1>6, GrownInOrder DEF IInv
<1>12. errors' = 0 => Together' /\ Last(m)'
  <2>1. errors = 0 => Together /\ Last(m)
    BY <1>1, <1>2 DEF IInv, Unmixed
  <2> QED BY <1>3, <1>5, <1>6, <2>1, GrownTogether
<1>13. Rests'
  BY <1>2, <1>5, <1>9 DEF IInv, Types, Rests, WriteSome, At
<1>14. CASE i + n > Length
  <2>1. pc' = [pc EXCEPT ![s] = "idle"] /\ mutex' = "free"
        /\ result' = [result EXCEPT ![m] = "false"]
    BY <1>2, <1>10, <1>14 DEF WriteSome, At
  <2>2. \A r \in Senders : pc'[r] = IF r = s THEN "idle" ELSE pc[r]
    BY <1>3, <2>1 DEF Types
  <2>3. \A x \in Messages : result'[x] = IF x = m THEN "false" ELSE result[x]
    BY <1>3, <2>1 DEF Types
  <2>4. Handed(m)' = Length
    BY <1>4, <1>9, <1>10, <1>14
  <2>5. Types'
    BY <1>3, <1>5, <1>6, <2>1 DEF Types
  <2>6. Locked'
    BY <1>2, <2>1, <2>2 DEF IInv, Locked, Setting
  <2>7. Underway'
    BY <1>2, <1>5, <1>9, <1>10, <2>2, <2>3 DEF IInv, Underway, Busy
  <2>8. Reported'
    BY <1>2, <1>5, <1>9, <2>2, <2>3, <2>4 DEF IInv, Reported, Busy
  <2>9. Unmixed'
    BY <1>2, <1>5, <1>12, <2>2 DEF IInv, Unmixed
  <2> QED BY <1>11, <1>13, <2>5, <2>6, <2>7, <2>8, <2>9 DEF IInv
<1>15. CASE ~(i + n > Length)
  <2>1. UNCHANGED <<pc, mutex, result>>
    BY <1>10, <1>15 DEF WriteSome
  <2>2. i + n \in 1..Length
    BY <1>4, <1>10, <1>15
  <2>3. Types'
    BY <1>3, <1>5, <1>6, <2>1 DEF Types
  <2>4. Locked'
    BY <2>1 DEF IInv, Locked
  <2>5. Underway'
    <3>1. \A r \in Senders, x \in Messages : Busy(r) /\ msg[r] = x =>
            /\ result[x] = "none" /\ from'[r] \in 1..Length /\ Handed(x)' = from'[r] - 1
            /\ pc[r] = "enter" => from'[r] = 1
      BY <1>1, <1>2, <1>9, <1>10, <2>2 DEF IInv, Underway
    <3> QED BY <1>5, <2>1, <3>1 DEF IInv, Underway, Busy
  <2>6. Reported'
    <3>1. Busy(s) /\ msg[s] = m
      BY <1>1, <1>2 DEF Busy
    <3> QED BY <1>2, <1>5, <1>9, <2>1, <3>1 DEF IInv, Reported, Busy
  <2>7. Unmixed'
    BY <1>2, <1>5, <1>12, <2>1 DEF IInv, Unmixed
  <2> QED BY <1>11, <1>13, <2>3, <2>4, <2>5, <2>6, <2>7 DEF IInv
<1> QED BY <1>14, <1>15

\* The end of a _write without a byte more.
LEMMA GivesUp ==
    ASSUME Setting, IInv, NEW s \in Senders, At(s, "write", "idle"), mutex' = "free",
           UNCHANGED <<msg, from, tracker, current, kernel, wire>>
    PROVE  /\ Same /\ Locked' /\ Counted' /\ InSequence'
           /\ \A r \in Senders : pc'[r] = IF r = s THEN "idle" ELSE pc[r]
           /\ (\/ result' = [result EXCEPT ![msg[s]] = "true"]
               \/ result' = [result EXCEPT ![msg[s]] = "false"]) => Underway'
<1>1. Same
  BY QuietLaw
<1>2. pc[s] = "write" /\ pc' = [pc EXCEPT ![s] = "idle"]
  BY DEF At
<1>3. \A r \in Senders : pc'[r] = IF r = s THEN "idle" ELSE pc[r]
  BY <1>2 DEF IInv, Types
<1>4. Locked'
  BY <1>2, <1>3, Writer DEF IInv, Locked, Setting
<1>5. Counted' /\ InSequence'
  BY <1>1, SameOrder DEF IInv
<1>6. ASSUME \/ result' = [result EXCEPT ![msg[s]] = "true"]
             \/ result' = [result EXCEPT ![msg[s]] = "false"]
      PROVE  Underway'
  <2>1. \A x \in Messages : x # msg[s] => result'[x] = result[x]
    BY <1>6 DEF IInv, Types
  <2>2. \A r \in Senders : Busy(r) /\ msg[r] = msg[s] => r = s
    BY <1>2, Writer
  <2> QED BY <1>1, <1>3, <2>1, <2>2 DEF IInv, Underway, Busy, Same
<1> QED BY <1>1, <1>3, <1>4, <1>5, <1>6

LEMMA WriteBlockedStep ==
    ASSUME Setting, IInv, NEW s \in Senders, WriteBlocked(s) PROVE IInv'
<1> USE DEF task, net
<1>1. PICK m \in Messages : m = msg[s]
  BY Writer DEF WriteBlocked, At
<1>2. pc[s] = "write" /\ result[m] = "none" /\ Handed(m) = from[s] - 1 /\ from[s] \in 1..Length
      /\ \A t \in tasks : t.msg # m
  BY <1>1, Writer DEF WriteBlocked, At
<1>3. At(s, "write", "idle") /\ mutex' = "free" /\ result' = [result EXCEPT ![m] = "true"]
      /\ UNCHANGED <<msg, from, tasks, tracker, current, kernel, wire, errors>>
  BY <1>1 DEF WriteBlocked
<1>4. Same /\ Locked' /\ Counted' /\ InSequence' /\ Underway'
      /\ \A r \in Senders : pc'[r] = IF r = s THEN "idle" ELSE pc[r]
  BY <1>1, <1>3, GivesUp
<1>5. \A x \in Messages : result'[x] = IF x = m THEN "true" ELSE result[x]
  BY <1>3 DEF IInv, Types
<1>6. Types'
  BY <1>3 DEF IInv, Types, At
<1>7. Rests'
  <2>1. \A t \in tasks : t.msg \in Messages
    BY DEF IInv, Types
  <2> QED BY <1>2, <1>3, <1>4, <1>5, <2>1 DEF IInv, Rests, Same
<1>8. Handed(m)' < Length
  BY <1>2, <1>4 DEF Same, Setting
<1>9. Reported'
  BY <1>1, <1>3, <1>4, <1>5, <1>8 DEF IInv, Reported, Busy, Same
<1>10. Unmixed'
  BY <1>3, <1>4, SameOrder DEF IInv, Unmixed
<1> QED BY <1>4, <1>6, <1>7, <1>9, <1>10 DEF IInv

LEMMA WriteFailsStep ==
    ASSUME Setting, IInv, NEW s \in Senders, WriteFails(s) PROVE IInv'
<1>1. PICK m \in Messages : m = msg[s]
  BY Writer DEF WriteFails, At
<1>2. pc[s] = "write" /\ result[m] = "none" /\ Handed(m) = from[s] - 1 /\ from[s] \in 1..Length
      /\ \A t \in tasks : t.msg # m
  BY <1>1, Writer DEF WriteFails, At
<1>3. PICK u : u = [msg |-> m, from |-> from[s]]
  OBVIOUS
<1>4. At(s, "write", "idle") /\ mutex' = "free" /\ result' = [result EXCEPT ![m] = "false"]
      /\ errors' = errors + 1 /\ tasks' = tasks \cup {u}
      /\ UNCHANGED <<msg, from, tracker, current, kernel, wire>>
  BY <1>1, <1>3 DEF WriteFails
<1>5. Same /\ Locked' /\ Counted' /\ InSequence' /\ Underway'
      /\ \A r \in Senders : pc'[r] = IF r = s THEN "idle" ELSE pc[r]
  BY <1>1, <1>4, GivesUp
<1>6. \A x \in Messages : result'[x] = IF x = m THEN "false" ELSE result[x]
  BY <1>4 DEF IInv, Types
<1>7. u \in [msg : Messages, from : 1..Length + 1] /\ u.msg = m /\ u.from = from[s]
      /\ u.from <= Length
  BY <1>2, <1>3 DEF Setting
<1>8. Types'
  BY <1>4, <1>7 DEF IInv, Types, At
<1>9. Rests'
  <2>1. \A t \in tasks : t.msg \in Messages
    BY DEF IInv, Types
  <2>2. Handed(m)' = u.from - 1
    BY <1>2, <1>5, <1>7 DEF Same
  <2>3. \A t \in tasks : result'[t.msg] = "false" /\ Handed(t.msg)' = t.from - 1
    BY <1>2, <1>5, <1>6, <2>1 DEF IInv, Rests, Same
  <2>4. result'[m] = "false" /\ ~(u.from > Length)
    BY <1>6, <1>7 DEF Setting
  <2>5. \A t \in tasks' :
          /\ result'[t.msg] = "false" /\ Handed(t.msg)' = t.from - 1
          /\ t.from > Length => tracker' \in {"free", "crashed"} /\ t = current'
    BY <1>4, <1>7, <2>2, <2>3, <2>4 DEF IInv, Rests
  <2>6. \A t, v \in tasks' : t.msg = v.msg => t = v
    BY <1>2, <1>4, <1>7 DEF IInv, Rests
  <2>7. (tracker' # "rest" => current' \in tasks')
        /\ (tracker' = "free" => current'.from = Length + 1)
    BY <1>4 DEF IInv, Rests
  <2> QED BY <2>5, <2>6, <2>7 DEF Rests
<1>10. Reported'
  BY <1>1, <1>4, <1>5, <1>6, <1>7 DEF IInv, Reported, Busy, Same
<1>11. Unmixed'
  BY <1>4 DEF IInv, Types, Unmixed
<1> QED BY <1>5, <1>8, <1>9, <1>10, <1>11 DEF IInv

\* The tracker thread.
LEMMA TaskStartStep == ASSUME Setting, IInv, TaskStart PROVE IInv'
<1> USE DEF sender, net
<1>1. Same
  BY QuietLaw DEF TaskStart
<1>2. tracker = "rest" /\ tracker' = "write" /\ current' \in tasks
      /\ UNCHANGED <<pc, msg, from, mutex, result, tasks, kernel, wire, errors>>
  BY DEF TaskStart
<1>3. Types'
  BY <1>2 DEF IInv, Types
<1>4. Locked' /\ Underway'
  BY <1>1, <1>2 DEF IInv, Locked, Underway, Busy, Same
<1>5. Rests'
  BY <1>1, <1>2 DEF IInv, Rests, Same
<1>6. Reported'
  BY <1>1, <1>2 DEF IInv, Reported, Busy, Same
<1>7. Counted' /\ InSequence'
  BY <1>1, SameOrder DEF IInv
<1>8. Unmixed'
  BY <1>1, <1>2, SameOrder DEF IInv, Unmixed
<1> QED BY <1>3, <1>4, <1>5, <1>6, <1>7, <1>8 DEF IInv

\* The task is the only one that writes its message, lock or not.
LEMMA TaskWriteStep == ASSUME Setting, IInv, TaskWrite PROVE IInv'
<1> USE DEF sender
<1>1. tracker = "write" /\ Free > 0 /\ current \in tasks
  BY DEF IInv, Rests, TaskWrite
<1>2. Types /\ current \in [msg : Messages, from : 1..Length + 1] /\ Length \in Nat
  BY <1>1 DEF IInv, Types, Setting
<1>3. PICK m \in Messages, i \in 1..Length : m = current.msg /\ i = current.from
  BY <1>1, <1>2 DEF IInv, Rests
<1>4. result[m] = "false" /\ Handed(m) = i - 1 /\ \A t \in tasks : t.msg = m => t = current
  BY <1>1, <1>3 DEF IInv, Rests
<1>5. PICK n \in Nat : n = Taken(i) /\ n >= 1 /\ i + n <= Length + 1
  BY <1>1, <1>2, TakenType
<1>6. PICK rest : rest = [current EXCEPT !.from = @ + Taken(@)]
  OBVIOUS
<1>7. rest \in [msg : Messages, from : 1..Length + 1] /\ rest.msg = m /\ rest.from = i + n
  BY <1>2, <1>3, <1>5, <1>6
<1>8. /\ Write(m, i) /\ tasks' = (tasks \ {current}) \cup {rest} /\ current' = rest
      /\ tracker' = IF i + n > Length THEN "free" ELSE "write"
      /\ UNCHANGED <<pc, msg, from, mutex, result, wire, errors>>
  BY <1>3, <1>6, <1>7 DEF TaskWrite
<1>9. kernel' \in Seq(Bytes) /\ Len(kernel') <= Room /\ Grown(m, i, n)
  BY <1>1, <1>2, <1>5, <1>8, WriteLaw
<1>10. Handed(m)' = i + n - 1 /\ \A x \in Messages : x # m => Handed(x)' = Handed(x)
  <2>1. \A x : Handed(x)' = Handed(x) + (IF x = m THEN n ELSE 0)
    BY <1>9 DEF Grown
  <2>2. \A x \in Messages : Handed(x) \in Nat
    BY <1>2, HandedType
  <2> QED BY <1>4, <2>1, <2>2
<1>11. Types'
  BY <1>2, <1>7, <1>8, <1>9 DEF Types
<1>12. Locked'
  BY <1>8 DEF IInv, Locked
<1>13. Underway'
  BY <1>4, <1>8, <1>10 DEF IInv, Underway, Busy
<1>14. Rests'
  <2>1. \A t \in tasks : t.msg \in Messages
    BY <1>2 DEF Types
  <2>2. \A t \in tasks \ {current} : t.msg # m /\ t.from <= Length
    BY <1>1, <1>2, <1>4 DEF IInv, Rests, Types
  <2>3. \A t \in tasks' :
          /\ result'[t.msg] = "false" /\ Handed(t.msg)' = t.from - 1
          /\ t.from > Length => tracker' \in {"free", "crashed"} /\ t = current'
    BY <1>4, <1>7, <1>8, <1>10, <2>1, <2>2 DEF IInv, Rests
  <2>4. \A t, u \in tasks' : t.msg = u.msg => t = u
    BY <1>7, <1>8, <2>2 DEF IInv, Rests
  <2>5. tracker' = "free" => current'.from = Length + 1
    BY <1>2, <1>3, <1>5, <1>7, <1>8
  <2> QED BY <1>8, <2>3, <2>4, <2>5 DEF Rests
<1>15. Reported'
  <2>1. \A t \in tasks : t.msg # m => t \in tasks'
    BY <1>3, <1>8
  <2> QED BY <1>4, <1>7, <1>8, <1>10, <2>1 DEF IInv, Reported, Busy
<1>16. Counted' /\ InSequence'
  BY <1>2, <1>4, <1>9, GrownInOrder DEF IInv
<1>17. Unmixed'
  BY <1>1, <1>8 DEF IInv, Unmixed
<1> QED BY <1>11, <1>12, <1>13, <1>14, <1>15, <1>16, <1>17 DEF IInv

LEMMA TaskFailsStep == ASSUME Setting, IInv, TaskFails PROVE IInv'
<1> USE DEF sender
<1>1. Same
  BY QuietLaw DEF TaskFails
<1>2. tracker = "write" /\ tracker' = "rest"
      /\ UNCHANGED <<pc, msg, from, mutex, result, tasks, current, kernel, wire>>
  BY DEF TaskFails
<1>3. errors' \in Nat
  BY DEF IInv, Types, TaskFails
<1>4. Types'
  BY <1>2, <1>3 DEF IInv, Types
<1>5. Locked' /\ Underway'
  BY <1>1, <1>2 DEF IInv, Locked, Underway, Busy, Same
<1>6. Rests'
  BY <1>1, <1>2 DEF IInv, Rests, Same
<1>7. Reported'
  BY <1>1, <1>2 DEF IInv, Reported, Busy, Same
<1>8. Counted' /\ InSequence'
  BY <1>1, SameOrder DEF IInv
<1>9. Unmixed'
  <2>1. errors \in Nat /\ tasks # {}
    BY <1>2 DEF IInv, Types, Rests
  <2>2. errors # 0 /\ errors' # 0
    BY <2>1 DEF IInv, Unmixed, TaskFails
  <2> QED BY <2>2 DEF Unmixed
<1> QED BY <1>4, <1>5, <1>6, <1>7, <1>8, <1>9 DEF IInv

LEMMA TaskFreeStep == ASSUME Setting, IInv, TaskFree PROVE IInv'
<1> USE DEF sender, net
<1>1. Same
  BY QuietLaw DEF TaskFree
<1>2. /\ tracker = "free" /\ current \in tasks /\ current.from = Length + 1
      /\ \/ tracker' = "crashed" /\ tasks' = tasks
         \/ tracker' = "rest" /\ tasks' = tasks \ {current}
      /\ UNCHANGED <<pc, msg, from, mutex, result, current, kernel, wire, errors>>
  BY DEF IInv, Rests, TaskFree
<1>3. Types'
  BY <1>2 DEF IInv, Types
<1>4. Locked' /\ Underway'
  BY <1>1, <1>2 DEF IInv, Locked, Underway, Busy, Same
<1>5. Rests'
  BY <1>1, <1>2 DEF IInv, Rests, Same
<1>6. Reported'
  <2>1. Handed(current.msg) = Length
    BY <1>2 DEF IInv, Rests, Setting
  <2>2. \A t \in tasks : t \in tasks' \/ Handed(t.msg) = Length
    BY <1>2, <2>1
  <2> QED BY <1>1, <1>2, <2>2 DEF IInv, Reported, Busy, Same
<1>7. Counted' /\ InSequence'
  BY <1>1, SameOrder DEF IInv
<1>8. Unmixed'
  BY <1>2 DEF IInv, Unmixed
<1> QED BY <1>3, <1>4, <1>5, <1>6, <1>7, <1>8 DEF IInv

LEMMA PeerReadsStep == ASSUME Setting, IInv, PeerReads PROVE IInv'
<1> USE DEF sender, task
<1>1. Same /\ wire' \in Seq(Bytes) /\ kernel' \in Seq(Bytes) /\ Len(kernel') <= Room
  BY ReadsLaw DEF IInv
<1>2. UNCHANGED <<pc, msg, from, mutex, result, tasks, tracker, current, errors>>
  BY DEF PeerReads
<1>3. Types'
  BY <1>1, <1>2 DEF IInv, Types
<1>4. Locked' /\ Underway' /\ Rests' /\ Reported'
  BY <1>1, <1>2 DEF IInv, Locked, Underway, Rests, Reported, Busy, Same
<1>5. Counted' /\ InSequence'
  BY <1>1, SameOrder DEF IInv
<1>6. Unmixed'
  BY <1>1, <1>2, SameOrder DEF IInv, Unmixed
<1> QED BY <1>3, <1>4, <1>5, <1>6 DEF IInv

LEMMA StutterStep == IInv /\ UNCHANGED vars => IInv'
<1> SUFFICES ASSUME IInv, UNCHANGED vars PROVE IInv'
  OBVIOUS
<1> USE DEF vars, sender, task, net
<1>1. Same
  BY QuietLaw
<1>2. Types' /\ Locked' /\ Underway' /\ Rests' /\ Reported'
  BY <1>1 DEF IInv, Types, Locked, Underway, Rests, Reported, Busy, Same
<1>3. Counted' /\ InSequence'
  BY <1>1, SameOrder DEF IInv
<1>4. Unmixed'
  BY <1>1, SameOrder DEF IInv, Unmixed
<1> QED BY <1>2, <1>3, <1>4 DEF IInv

LEMMA InvStep == ASSUME Setting PROVE IInv /\ [Next]_vars => IInv'
BY SendStep, EnterStep, WriteSomeStep, WriteBlockedStep, WriteFailsStep, TaskStartStep,
   TaskWriteStep, TaskFailsStep, TaskFreeStep, PeerReadsStep, StutterStep
   DEF Next, Sending, Tracker

-----------------------------------------------------------------------------
\* Whatever threads send at once and however their writes are cut, blocked and
\* retried: what send_req returns tells whether the message is kept, the bytes
\* of a message are in order and each there once, and before the first error
\* no two messages are mixed.
THEOREM WritesAreSafe == ASSUME Setting PROVE Spec => []WriteSafe
<1>1. IInv => WriteSafe
  <2> SUFFICES ASSUME IInv PROVE WriteSafe
    OBVIOUS
  <2>1. ReportExact
    <3> SUFFICES ASSUME NEW m \in Messages
                 PROVE  LET kept == Handed(m) = Length
                              \/ \E t \in Queued(m) : Handed(m) + (Length - t.from + 1) = Length
                        IN  /\ result[m] = "false" => kept
                            /\ result[m] = "true" => ~kept
      BY DEF ReportExact
    <3>1. \A t \in tasks : t.msg = m =>
            result[m] = "false" /\ Handed(m) = t.from - 1 /\ t.from \in Nat
      BY DEF IInv, Types, Rests, Setting
    <3>2. CASE result[m] = "false"
      <4>1. \A t \in tasks : t.msg = m => Handed(m) + (Length - t.from + 1) = Length
        BY <3>1 DEF Setting
      <4> QED BY <3>2, <4>1 DEF IInv, Reported, Queued
    <3>3. CASE result[m] = "true"
      <4>1. Queued(m) = {}
        BY <3>1, <3>3 DEF Queued
      <4>2. Handed(m) < Length /\ Handed(m) \in Nat /\ Length \in Nat
        BY <3>3, HandedType DEF IInv, Reported, Setting
      <4> QED BY <3>3, <4>1, <4>2
    <3> QED BY <3>2, <3>3
  <2>2. LinesNotMixed
    BY DEF IInv, Unmixed, Together, LinesNotMixed
  <2> QED BY <2>1, <2>2 DEF IInv, WriteSafe
<1> QED BY InitInv, InvStep, <1>1, PTL DEF Spec
=============================================================================
