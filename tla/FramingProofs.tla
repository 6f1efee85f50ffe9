--------------------------- MODULE FramingProofs ---------------------------
(***************************************************************************)
(* What the framing of requests guarantees for any number of messages, of  *)
(* any lengths, cut into reads of any size.                                *)
(***************************************************************************)
EXTENDS Framing, SequenceTheorems, TLAPS

\* Messages end in the order in which they were sent, and none is empty.
LEMMA EndFacts ==
    /\ \A i \in 0..N : End[i] \in Nat
    /\ \A i, j \in 0..N : i < j => End[i] + 2 <= End[j]
    /\ \A i, j \in 0..N : i <= j => End[i] <= End[j]
    /\ \A m \in Messages : /\ m \in 0..N /\ m - 1 \in 0..N /\ m \in Nat
                           /\ End[m - 1] + 2 <= End[m] /\ End[m] <= End[N]
<1>1. /\ N \in Nat /\ \A i \in 0..N : End[i] \in Nat
      /\ \A i, j \in 0..N : i < j => End[i] + 2 <= End[j]
  BY FramingAssumption
<1>2. ASSUME NEW i \in 0..N, NEW j \in 0..N, i <= j
      PROVE  End[i] <= End[j]
  <2>1. CASE i = j
    BY <2>1, <1>1
  <2>2. CASE i < j
    <3>1. End[i] \in Nat /\ End[j] \in Nat /\ End[i] + 2 <= End[j]
      BY <2>2, <1>1
    <3> QED BY <3>1
  <2> QED BY <1>1, <1>2, <2>1, <2>2
<1>3. ASSUME NEW m \in Messages
      PROVE  /\ m \in 0..N /\ m - 1 \in 0..N /\ m \in Nat
             /\ End[m - 1] + 2 <= End[m] /\ End[m] <= End[N]
  <2>1. m \in 0..N /\ m - 1 \in 0..N /\ m \in Nat /\ N \in 0..N /\ m - 1 < m
        /\ m <= N
    BY <1>1 DEF Messages
  <2> QED BY <2>1, <1>1, <1>2
<1> QED BY <1>1, <1>2, <1>3

(***************************************************************************)
(* Types, and the reassembly buffer.                                       *)
(***************************************************************************)

\* TypeOK needs the second conjunct: a text kept from the last read would
\* begin before it.
ReadInv ==
    /\ TypeOK
    /\ NoResidue
    /\ pc = "divide" => ~unreadPtr /\ at < pos
    /\ pc = "deliver" => at = pos

LEMMA ReadInvHolds == Spec => []ReadInv
<1>1. Init => ReadInv
  <2>1. \A S : <<>> \in Seq(S)
    BY EmptySeq
  <2>2. <<>> \in Seq(Messages \cup {Junk, NotObject})
        /\ <<>> \in Seq(Messages \cup {Junk})
    BY <2>1
  <2>3. End[N] \in Nat
    BY EndFacts, FramingAssumption
  <2>4. Init => pos \in 0..End[N] /\ at \in 0..pos
    BY <2>3 DEF Init
  <2>5. Init => TypeOK
    <3> SUFFICES ASSUME Init PROVE TypeOK
      OBVIOUS
    <3>1. /\ pc \in {"read", "divide", "deliver", "aborted"}
          /\ unreadPtr \in BOOLEAN /\ from = 0 /\ unreadSize = 0
          /\ values = <<>> /\ delivered = <<>>
      BY DEF Init
    <3>2. from \in Nat /\ unreadSize \in Nat
      BY <3>1
    <3> QED BY <2>2, <2>4, <3>1, <3>2 DEF TypeOK
  <2> QED BY <2>5 DEF Init, ReadInv, NoResidue
<1>2. ReadInv /\ [Next]_vars => ReadInv'
  <2> SUFFICES ASSUME ReadInv, [Next]_vars PROVE ReadInv'
    OBVIOUS
  <2> USE DEF ReadInv, NoResidue
  <2>0. End[N] \in Nat /\ pos \in Nat /\ at \in Nat
    BY EndFacts, FramingAssumption DEF TypeOK
  <2>1. CASE Read
    <3>1. PICK n \in 1..MaxRead : pos + n <= End[N] /\ pos' = pos + n
      BY <2>1 DEF Read
    <3>2. n \in Nat /\ n >= 1
      BY FramingAssumption
    <3>3. <<>> \in Seq(Messages \cup {Junk, NotObject})
      BY EmptySeq
    <3>4. pos' \in 0..End[N] /\ at' \in 0..pos' /\ at' < pos'
      BY <2>0, <2>1, <3>1, <3>2 DEF Read, TypeOK
    <3> QED BY <2>0, <2>1, <3>3, <3>4 DEF Read, TypeOK
  <2>2. CASE DivideNoEnd
    BY <2>2 DEF DivideNoEnd, Fail, TypeOK
  <2>3. CASE DivideEmpty
    BY <2>3 DEF DivideEmpty, Fail, TypeOK
  <2>4. CASE DivideBadJson
    BY <2>4 DEF DivideBadJson, Fail, TypeOK
  <2>5. CASE DivideLine
    <3>1. PICK m \in Messages :
             /\ Holds(m) /\ End[m] <= pos /\ at < End[m] - 1
             /\ \E v \in IF at = End[m - 1] THEN {m} ELSE {Junk, NotObject} :
                   values' = Append(values, v)
             /\ at' = End[m]
             /\ pc' = IF End[m] = pos THEN "deliver" ELSE "divide"
      BY <2>5 DEF DivideLine
    <3>2. PICK v \in Messages \cup {Junk, NotObject} : values' = Append(values, v)
      BY <3>1
    <3>3. values' \in Seq(Messages \cup {Junk, NotObject})
      BY <3>2, AppendProperties DEF TypeOK
    <3>4. End[m] \in Nat
      BY EndFacts
    <3>5. at' \in 0..pos' /\ (End[m] # pos => at' < pos')
      BY <2>0, <2>5, <3>1, <3>4 DEF DivideLine
    <3> QED BY <2>5, <3>1, <3>3, <3>5 DEF DivideLine, TypeOK
  <2>6. CASE Deliver
    <3>1. CASE \E i \in 1..Len(values) : values[i] = NotObject
      BY <2>6, <3>1 DEF Deliver, TypeOK
    <3>2. CASE ~ \E i \in 1..Len(values) : values[i] = NotObject
      <4>1. values \in Seq(Messages \cup {Junk})
        <5>1. /\ Len(values) \in Nat
              /\ values \in [1..Len(values) -> Messages \cup {Junk, NotObject}]
          BY LenProperties DEF TypeOK
        <5>2. values \in [1..Len(values) -> Messages \cup {Junk}]
          BY <5>1, <3>2
        <5> QED BY <5>1, <5>2, SeqDef
      <4>2. delivered \o values \in Seq(Messages \cup {Junk})
        BY <4>1, ConcatProperties DEF TypeOK
      <4> QED BY <2>6, <3>2, <4>2 DEF Deliver, TypeOK
    <3> QED BY <3>1, <3>2
  <2>7. CASE UNCHANGED vars
    BY <2>7 DEF vars, TypeOK
  <2> QED BY <2>1, <2>2, <2>3, <2>4, <2>5, <2>6, <2>7 DEF Next
<1> QED BY <1>1, <1>2, PTL DEF Spec

THEOREM TypeCorrect == Spec => []TypeOK
BY ReadInvHolds, PTL DEF ReadInv

\* Whatever arrives, _divide_unread_size stays zero: the reassembly code of
\* _req_msg_parse (base_rpc_interface.cpp:67-71 and 83-87) never runs.
THEOREM NothingKept == Spec => []NoResidue
BY ReadInvHolds, PTL DEF ReadInv

(***************************************************************************)
(* A read between two ends of messages yields the messages between them.   *)
(***************************************************************************)

\* Messages i+1 .. i+k, in order.
Run(i, k) == [x \in 1..k |-> i + x]

LEMMA RunAppend ==
    ASSUME NEW i \in 0..N, NEW k \in Nat, i + k + 1 \in Messages
    PROVE  Append(Run(i, k), i + k + 1) = Run(i, k + 1)
<1>1. /\ Run(i, k) \in Seq(Int) /\ Len(Run(i, k)) = k
      /\ Run(i, k + 1) \in Seq(Int) /\ Len(Run(i, k + 1)) = k + 1
  <2>1. Run(i, k) \in [1..k -> Int] /\ Run(i, k + 1) \in [1..(k + 1) -> Int]
    BY FramingAssumption DEF Run
  <2>2. Run(i, k) \in Seq(Int) /\ Run(i, k + 1) \in Seq(Int)
    BY <2>1, SeqDef
  <2>3. Len(Run(i, k)) = k /\ Len(Run(i, k + 1)) = k + 1
    BY DEF Run
  <2> QED BY <2>2, <2>3
<1>2. i + k + 1 \in Int
  BY FramingAssumption
<1>3. /\ Append(Run(i, k), i + k + 1) \in Seq(Int)
      /\ Len(Append(Run(i, k), i + k + 1)) = k + 1
      /\ \A j \in 1..k : Append(Run(i, k), i + k + 1)[j] = Run(i, k)[j]
      /\ Append(Run(i, k), i + k + 1)[k + 1] = i + k + 1
  BY <1>1, <1>2, AppendProperties
<1>4. ASSUME NEW j \in 1..(k + 1)
      PROVE  Append(Run(i, k), i + k + 1)[j] = Run(i, k + 1)[j]
  BY <1>3, FramingAssumption DEF Run
<1> QED BY <1>1, <1>3, <1>4, SeqEqual

\* While a read that began where message i ends is divided, what was found so
\* far are the messages up to the next one.
RunInv ==
    \A i \in 0..N :
        from = End[i] /\ pc \in {"divide", "deliver"} =>
            \E k \in Nat : /\ i + k \in 0..N
                          /\ at = End[i + k]
                          /\ values = Run(i, k)

LEMMA RunInvHolds == Spec => []RunInv
<1>1. Init => RunInv
  BY DEF Init, RunInv
<1>2. ReadInv /\ RunInv /\ [Next]_vars => RunInv'
  <2> SUFFICES ASSUME ReadInv, RunInv, [Next]_vars,
                      NEW i \in 0..N,
                      from' = End[i], pc' \in {"divide", "deliver"}
               PROVE  \E k \in Nat : /\ i + k \in 0..N
                                    /\ at' = End[i + k]
                                    /\ values' = Run(i, k)
    BY DEF RunInv
  <2>1. CASE Read
    <3>1. at' = End[i] /\ values' = <<>>
      BY <2>1 DEF Read, ReadInv, NoResidue, TypeOK
    <3>2. Run(i, 0) = <<>>
      BY DEF Run
    <3>3. 0 \in Nat /\ i + 0 = i
      BY FramingAssumption
    <3> QED BY <3>1, <3>2, <3>3
  <2>2. CASE DivideNoEnd \/ DivideEmpty \/ DivideBadJson \/ Deliver
    BY <2>2 DEF DivideNoEnd, DivideEmpty, DivideBadJson, Deliver, Fail
  <2>3. CASE DivideLine
    <3>1. PICK k \in Nat : /\ i + k \in 0..N
                           /\ at = End[i + k]
                           /\ values = Run(i, k)
      BY <2>3 DEF DivideLine, RunInv
    <3>2. PICK m \in Messages :
             /\ Holds(m) /\ at' = End[m]
             /\ \E v \in IF at = End[m - 1] THEN {m} ELSE {Junk, NotObject} :
                   values' = Append(values, v)
      BY <2>3 DEF DivideLine
    <3>3. m = i + k + 1
      <4>1. m \in Nat /\ m \in 0..N /\ m - 1 \in 0..N
            /\ End[m] \in Nat /\ End[m - 1] \in Nat
        BY EndFacts
      <4>2. End[m - 1] <= End[i + k] /\ End[i + k] < End[m]
            /\ End[i + k] \in Nat
        BY <3>1, <3>2, EndFacts DEF Holds
      <4>3. ~(i + k < m - 1)
        BY <3>1, <4>1, <4>2, EndFacts
      <4>4. ~(m <= i + k)
        BY <3>1, <4>1, <4>2, EndFacts
      <4>5. i + k \in Int /\ m \in Int
        BY <3>1, <4>1, FramingAssumption
      <4> QED BY <4>3, <4>4, <4>5
    <3>4. m - 1 = i + k
      BY <3>1, <3>3, FramingAssumption
    <3>5. values' = Append(values, m)
      BY <3>1, <3>2, <3>4
    <3>6. values' = Run(i, k + 1)
      BY <3>1, <3>3, <3>5, RunAppend
    <3>7. k + 1 \in Nat /\ i + (k + 1) = m /\ m \in 0..N
      BY <3>1, <3>3, EndFacts, FramingAssumption
    <3> QED BY <3>2, <3>6, <3>7
  <2>4. CASE UNCHANGED vars
    BY <2>4 DEF vars, RunInv
  <2> QED BY <2>1, <2>2, <2>3, <2>4 DEF Next
<1> QED BY <1>1, <1>2, ReadInvHolds, PTL DEF Spec

\* Aligned reads lose nothing and invent nothing, whatever came before them.
THEOREM AlignedReadsDelivered == Spec => AlignedDelivered
<1>1. ReadInv /\ RunInv /\ [Next]_vars =>
         [\A i, j \in 0..N :
             Returns /\ from = End[i] /\ pos = End[j]
                => delivered' = delivered \o [k \in 1..(j - i) |-> i + k]]_vars
  <2> SUFFICES ASSUME ReadInv, RunInv, [Next]_vars, ~ UNCHANGED vars,
                      NEW i \in 0..N, NEW j \in 0..N,
                      Returns, from = End[i], pos = End[j]
               PROVE  delivered' = delivered \o [k \in 1..(j - i) |-> i + k]
    OBVIOUS
  <2>0. pc \in {"divide", "deliver"} /\ pc' \in {"read", "aborted"}
    BY DEF Returns
  <2>1. PICK k \in Nat : /\ i + k \in 0..N /\ at = End[i + k]
                         /\ values = Run(i, k)
    BY <2>0 DEF RunInv
  <2>2. ASSUME pc = "divide" PROVE FALSE
    <3>1. i + k < j
      <4>1. End[i + k] < End[j]
        BY <2>1, <2>2 DEF ReadInv
      <4>2. ~(j <= i + k)
        BY <2>1, <4>1, EndFacts
      <4> QED BY <2>1, <4>2, FramingAssumption
    <3>2. ASSUME NEW m \in Messages, Holds(m)
          PROVE  m = i + k + 1 /\ m <= j /\ End[m] <= pos /\ at = End[m - 1]
      <4>1. m \in Nat /\ m \in 0..N /\ m - 1 \in 0..N
            /\ End[m] \in Nat /\ End[m - 1] \in Nat
        BY EndFacts
      <4>2. End[m - 1] <= End[i + k] /\ End[i + k] < End[m]
            /\ End[i + k] \in Nat
        BY <2>1, <3>2, EndFacts DEF Holds
      <4>3. ~(i + k < m - 1)
        BY <2>1, <4>1, <4>2, EndFacts
      <4>4. ~(m <= i + k)
        BY <2>1, <4>1, <4>2, EndFacts
      <4>5. m = i + k + 1 /\ m <= j /\ m - 1 = i + k
        BY <2>1, <3>1, <4>1, <4>3, <4>4, FramingAssumption
      <4>6. End[m] <= End[j]
        BY <4>1, <4>5, EndFacts
      <4> QED BY <2>1, <4>5, <4>6
    <3>3. ASSUME NEW m \in Messages, Holds(m)
          PROVE  End[m - 1] < End[m] - 1 /\ End[m] \in Nat /\ pos \in Nat
      <4>1. End[m - 1] + 2 <= End[m] /\ End[m] \in Nat /\ End[m - 1] \in Nat
        BY EndFacts
      <4> QED BY <4>1, EndFacts
    <3>4. ~DivideNoEnd
      BY <3>2, <3>3 DEF DivideNoEnd
    <3>5. ~DivideEmpty
      BY <3>2, <3>3 DEF DivideEmpty
    <3>6. ~DivideBadJson
      BY <3>2 DEF DivideBadJson
    <3>7. ~DivideLine
      BY <2>0 DEF DivideLine
    <3>8. ~Read /\ ~Deliver
      BY <2>2 DEF Read, Deliver
    <3> QED BY <3>4, <3>5, <3>6, <3>7, <3>8 DEF Next
  <2>3. pc = "deliver" /\ at = pos
    BY <2>0, <2>2 DEF ReadInv
  <2>4. k = j - i
    <3>1. End[i + k] = End[j]
      BY <2>1, <2>3
    <3>2. ~(i + k < j) /\ ~(j < i + k)
      BY <2>1, <3>1, EndFacts
    <3> QED BY <2>1, <3>2, FramingAssumption
  <2>5. \A x \in 1..Len(values) : values[x] # NotObject
    <3>1. DOMAIN values = 1..k /\ \A x \in 1..k : values[x] = i + x
      BY <2>1 DEF Run
    <3>2. DOMAIN values = 1..Len(values)
      BY LenProperties DEF ReadInv, TypeOK
    <3>3. \A x \in 1..k : i + x # -1
      BY FramingAssumption
    <3> QED BY <3>1, <3>2, <3>3 DEF NotObject
  <2>6. Deliver
    BY <2>3 DEF Next, Read, DivideNoEnd, DivideEmpty, DivideBadJson,
                DivideLine, vars
  <2>7. delivered' = delivered \o values
    BY <2>5, <2>6 DEF Deliver
  <2> QED BY <2>1, <2>4, <2>7 DEF Run
<1> QED BY <1>1, ReadInvHolds, RunInvHolds, PTL DEF Spec, AlignedDelivered

(***************************************************************************)
(* Messages are delivered in order, each at most once.                     *)
(***************************************************************************)

Dividing == pc \in {"divide", "deliver"}

Sorted(s) == \A x, y \in 1..Len(s) :
                x < y /\ s[x] \in Messages /\ s[y] \in Messages => s[x] < s[y]

\* All of s lies before position p; all of s lies from position p on.
Before(s, p) == \A x \in 1..Len(s) : s[x] \in Messages => End[s[x]] <= p
Behind(s, p) == \A x \in 1..Len(s) : s[x] \in Messages => p <= End[s[x] - 1]

OrderInv ==
    /\ from <= pos
    /\ Sorted(delivered) /\ Before(delivered, pos)
    /\ Dividing => /\ from <= at
                   /\ Before(delivered, from)
                   /\ Sorted(values) /\ Behind(values, from) /\ Before(values, at)

LEMMA BeforeWeaken ==
    ASSUME NEW S, NEW s \in Seq(S), NEW p \in Nat, NEW q \in Nat, p <= q, Before(s, p)
    PROVE  Before(s, q)
<1>1. ASSUME NEW x \in 1..Len(s), s[x] \in Messages PROVE End[s[x]] <= q
  <2>1. End[s[x]] \in Nat /\ End[s[x]] <= p
    BY <1>1, EndFacts DEF Before
  <2> QED BY <2>1
<1> QED BY <1>1 DEF Before

\* A line that is a message lies behind the lines before it.
LEMMA SortedAppend ==
    ASSUME NEW S, NEW s \in Seq(S), NEW v \in S,
           Sorted(s), v \in Messages => Before(s, End[v - 1])
    PROVE  Sorted(Append(s, v))
<1>1. /\ Len(s) \in Nat /\ Len(Append(s, v)) = Len(s) + 1
      /\ \A i \in 1..Len(s) : Append(s, v)[i] = s[i]
      /\ Append(s, v)[Len(s) + 1] = v
  BY AppendProperties, LenProperties
<1> SUFFICES ASSUME NEW x \in 1..(Len(s) + 1), NEW y \in 1..(Len(s) + 1), x < y,
                    Append(s, v)[x] \in Messages, Append(s, v)[y] \in Messages
             PROVE  Append(s, v)[x] < Append(s, v)[y]
  BY <1>1 DEF Sorted
<1>2. x \in 1..Len(s) /\ Append(s, v)[x] = s[x]
  BY <1>1
<1>3. CASE y <= Len(s)
  BY <1>1, <1>2, <1>3 DEF Sorted
<1>4. CASE y = Len(s) + 1
  <2>1. s[x] \in Messages /\ v \in Messages
    BY <1>1, <1>2, <1>4
  <2>2. End[s[x]] <= End[v - 1]
    BY <1>2, <2>1 DEF Before
  <2>3. ~(v - 1 < s[x])
    <3>1. v - 1 \in 0..N /\ s[x] \in 0..N /\ End[v - 1] \in Nat /\ End[s[x]] \in Nat
      BY <2>1, EndFacts
    <3> QED BY <2>2, <3>1, EndFacts
  <2>4. s[x] < v
    BY <2>1, <2>3, EndFacts
  <2> QED BY <1>1, <1>2, <1>4, <2>4
<1> QED BY <1>1, <1>3, <1>4

LEMMA SortedConcat ==
    ASSUME NEW S, NEW s \in Seq(S), NEW t \in Seq(S), NEW p \in Nat,
           Sorted(s), Sorted(t), Before(s, p), Behind(t, p)
    PROVE  Sorted(s \o t)
<1>1. /\ Len(s) \in Nat /\ Len(t) \in Nat /\ Len(s \o t) = Len(s) + Len(t)
      /\ \A i \in 1..(Len(s) + Len(t)) :
            (s \o t)[i] = IF i <= Len(s) THEN s[i] ELSE t[i - Len(s)]
  BY ConcatProperties, LenProperties
<1> SUFFICES ASSUME NEW x \in 1..(Len(s) + Len(t)), NEW y \in 1..(Len(s) + Len(t)),
                    x < y, (s \o t)[x] \in Messages, (s \o t)[y] \in Messages
             PROVE  (s \o t)[x] < (s \o t)[y]
  BY <1>1 DEF Sorted
<1>2. CASE y <= Len(s)
  BY <1>1, <1>2 DEF Sorted
<1>3. CASE x > Len(s)
  <2>1. x - Len(s) \in 1..Len(t) /\ y - Len(s) \in 1..Len(t)
        /\ x - Len(s) < y - Len(s)
    BY <1>1, <1>3
  <2>2. (s \o t)[x] = t[x - Len(s)] /\ (s \o t)[y] = t[y - Len(s)]
    BY <1>1, <1>3
  <2> QED BY <2>1, <2>2 DEF Sorted
<1>4. CASE x <= Len(s) /\ y > Len(s)
  <2>1. x \in 1..Len(s) /\ y - Len(s) \in 1..Len(t)
    BY <1>1, <1>4
  <2>2. (s \o t)[x] = s[x] /\ (s \o t)[y] = t[y - Len(s)]
    BY <1>1, <1>4
  <2>3. s[x] \in Messages /\ t[y - Len(s)] \in Messages
    BY <2>2
  <2>4. End[s[x]] <= p /\ p <= End[t[y - Len(s)] - 1]
    BY <2>1, <2>3 DEF Before, Behind
  <2>5. ASSUME NEW a \in Messages, NEW b \in Messages,
               End[a] <= p, p <= End[b - 1]
        PROVE  a < b
    <3>1. /\ a \in 0..N /\ b - 1 \in 0..N /\ a \in Nat /\ b \in Nat
          /\ End[a] \in Nat /\ End[b - 1] \in Nat
      BY EndFacts
    <3>2. b - 1 < a => End[b - 1] + 2 <= End[a]
      BY <3>1, EndFacts
    <3> QED BY <2>5, <3>1, <3>2
  <2>6. s[x] < t[y - Len(s)]
    BY <2>3, <2>4, <2>5
  <2> QED BY <2>2, <2>6
<1> QED BY <1>1, <1>2, <1>3, <1>4

LEMMA OrderInvHolds == Spec => []OrderInv
<1>1. Init => OrderInv
  <2> SUFFICES ASSUME Init PROVE OrderInv
    OBVIOUS
  <2>1. delivered = <<>> /\ from = 0 /\ pos = 0 /\ ~Dividing
    BY DEF Init, Dividing
  <2>2. 1..Len(<<>>) = {}
    BY EmptySeq
  <2> QED BY <2>1, <2>2 DEF OrderInv, Sorted, Before
<1>2. ReadInv /\ OrderInv /\ [Next]_vars => OrderInv'
  <2> SUFFICES ASSUME ReadInv, OrderInv, [Next]_vars PROVE OrderInv'
    OBVIOUS
  <2>0. /\ values \in Seq(Messages \cup {Junk, NotObject})
        /\ delivered \in Seq(Messages \cup {Junk, NotObject})
        /\ from \in Nat /\ pos \in Nat /\ at \in Nat /\ at <= pos
    <3>1. delivered \in Seq(Messages \cup {Junk, NotObject})
      <4>1. Messages \cup {Junk} \subseteq Messages \cup {Junk, NotObject}
        OBVIOUS
      <4>2. delivered \in Seq(Messages \cup {Junk})
        BY DEF ReadInv, TypeOK
      <4> QED BY <4>1, <4>2, SeqMonotonic
    <3> QED BY <3>1, EndFacts, FramingAssumption DEF ReadInv, TypeOK
  <2>1. CASE Read
    <3>1. PICK n \in 1..MaxRead : pos' = pos + n
      BY <2>1 DEF Read
    <3>2. n \in Nat /\ pos' \in Nat /\ pos <= pos'
      BY <2>0, <3>1, FramingAssumption
    <3>3. from' = pos /\ at' = pos /\ values' = <<>> /\ delivered' = delivered
      BY <2>0, <2>1 DEF Read, ReadInv, NoResidue
    <3>4. Before(delivered, pos')
      BY <2>0, <3>2, BeforeWeaken DEF OrderInv
    <3>5. Sorted(<<>>) /\ Behind(<<>>, pos) /\ Before(<<>>, pos)
      BY EmptySeq DEF Sorted, Behind, Before
    <3> QED BY <2>0, <3>2, <3>3, <3>4, <3>5 DEF OrderInv, Sorted, Before, Behind
  <2>2. CASE DivideNoEnd \/ DivideEmpty \/ DivideBadJson
    <3>1. pc' = "read" /\ UNCHANGED <<from, pos, at, values, delivered>>
      BY <2>2 DEF DivideNoEnd, DivideEmpty, DivideBadJson, Fail
    <3> QED BY <3>1 DEF OrderInv, Dividing, Sorted, Before, Behind
  <2>3. CASE DivideLine
    <3>a. PICK m \in Messages :
             /\ Holds(m) /\ at' = End[m]
             /\ \E v \in IF at = End[m - 1] THEN {m} ELSE {Junk, NotObject} :
                   values' = Append(values, v)
      BY <2>3 DEF DivideLine
    <3>1. PICK v \in IF at = End[m - 1] THEN {m} ELSE {Junk, NotObject} :
             /\ Holds(m) /\ at' = End[m] /\ values' = Append(values, v)
      BY <3>a
    <3>2. /\ UNCHANGED <<from, pos, delivered>> /\ Dividing
      BY <2>3 DEF DivideLine, Dividing
    <3>3. at' \in Nat /\ at <= at' /\ End[m - 1] \in Nat /\ End[m] \in Nat
      BY <2>0, <3>1, EndFacts DEF Holds
    <3>4. v \in Messages \cup {Junk, NotObject}
      BY <3>1
    <3>5. v \in Messages => v = m /\ at = End[m - 1]
      <4>1. Junk \notin Messages /\ NotObject \notin Messages
        BY FramingAssumption DEF Messages, Junk, NotObject
      <4> QED BY <3>1, <4>1
    <3>6. Sorted(values')
      BY <2>0, <3>1, <3>2, <3>4, <3>5, SortedAppend DEF OrderInv
    <3>7. /\ Len(values) \in Nat /\ Len(values') = Len(values) + 1
          /\ \A i \in 1..Len(values) : values'[i] = values[i]
          /\ values'[Len(values) + 1] = v
      BY <2>0, <3>1, <3>4, AppendProperties, LenProperties
    <3>8. ASSUME NEW x \in 1..Len(values'), values'[x] \in Messages
          PROVE  End[values'[x]] <= at' /\ from <= End[values'[x] - 1]
      <4>1. CASE x <= Len(values)
        <5>1. values'[x] = values[x] /\ x \in 1..Len(values)
          BY <3>7, <4>1
        <5>2. End[values[x]] <= at /\ from <= End[values[x] - 1]
              /\ End[values[x]] \in Nat
          BY <3>2, <3>8, <5>1, EndFacts DEF OrderInv, Before, Behind
        <5> QED BY <2>0, <3>3, <5>1, <5>2
      <4>2. CASE x = Len(values) + 1
        <5>1. values'[x] = m /\ at = End[m - 1]
          BY <3>5, <3>7, <3>8, <4>2
        <5> QED BY <2>0, <3>1, <3>2, <3>3, <5>1 DEF OrderInv
      <4> QED BY <3>7, <4>1, <4>2
    <3>9. from <= at'
      BY <2>0, <3>2, <3>3 DEF OrderInv
    <3>10. Before(values', at') /\ Behind(values', from)
      BY <3>8 DEF Before, Behind
    <3>11. /\ Sorted(delivered') /\ Before(delivered', pos')
           /\ Before(delivered', from') /\ from' <= pos'
      BY <3>2 DEF OrderInv
    <3> QED BY <3>2, <3>6, <3>9, <3>10, <3>11 DEF OrderInv, Sorted, Before, Behind
  <2>4. CASE Deliver
    <3>1. /\ UNCHANGED <<from, pos, at, values>> /\ Dividing /\ at = pos
          /\ ~Dividing'
      BY <2>4 DEF Deliver, Dividing, ReadInv
    <3>2. CASE delivered' = delivered
      BY <3>1, <3>2 DEF OrderInv, Sorted, Before
    <3>3. CASE delivered' = delivered \o values
      <4>1. Sorted(delivered')
        BY <2>0, <3>1, <3>3, SortedConcat DEF OrderInv
      <4>2. ASSUME NEW x \in 1..Len(delivered'), delivered'[x] \in Messages
            PROVE  End[delivered'[x]] <= pos
        <5>1. /\ Len(delivered) \in Nat /\ Len(values) \in Nat
              /\ x \in 1..(Len(delivered) + Len(values))
              /\ delivered'[x] = IF x <= Len(delivered) THEN delivered[x]
                                 ELSE values[x - Len(delivered)]
          BY <2>0, <3>3, ConcatProperties, LenProperties
        <5>2. CASE x <= Len(delivered)
          BY <4>2, <5>1, <5>2 DEF OrderInv, Before
        <5>3. CASE x > Len(delivered)
          <6>1. x - Len(delivered) \in 1..Len(values)
            BY <5>1, <5>3
          <6> QED BY <3>1, <4>2, <5>1, <5>3, <6>1 DEF OrderInv, Before
        <5> QED BY <5>1, <5>2, <5>3
      <4>3. Before(delivered', pos)
        BY <4>2 DEF Before
      <4> QED BY <3>1, <4>1, <4>3 DEF OrderInv, Sorted, Before
    <3> QED BY <2>4, <3>2, <3>3 DEF Deliver
  <2>5. CASE UNCHANGED vars
    BY <2>5 DEF vars, OrderInv, Dividing, Sorted, Before, Behind
  <2> QED BY <2>1, <2>2, <2>3, <2>4, <2>5 DEF Next
<1> QED BY <1>1, <1>2, ReadInvHolds, PTL DEF Spec

\* However the stream is cut, each push of _receive_data_handle lies behind the
\* ones before it.
THEOREM DeliveredInOrder == Spec => []InOrder
<1>1. ReadInv /\ OrderInv => InOrder
  <2> SUFFICES ASSUME ReadInv, OrderInv PROVE InOrder
    OBVIOUS
  <2>1. ASSUME NEW x \in 1..Len(delivered), delivered[x] # Junk
        PROVE  delivered[x] \in Messages
    BY <2>1, ElementOfSeq DEF ReadInv, TypeOK
  <2> QED BY <2>1 DEF OrderInv, InOrder, Sorted, Before
<1> QED BY <1>1, OrderInvHolds, ReadInvHolds, PTL

(***************************************************************************)
(* A read yields all its messages or none.                                 *)
(***************************************************************************)

\* The text still to be divided begins where the read or a message does, and
\* the messages of the read before it were found.
FoundInv ==
    Dividing =>
        /\ at = from \/ \E i \in 0..N : at = End[i]
        /\ \A m \in Messages : from <= End[m - 1] /\ End[m] <= at =>
              \E k \in 1..Len(values) : values[k] = m

LEMMA FoundInvHolds == Spec => []FoundInv
<1>1. Init => FoundInv
  BY DEF Init, FoundInv, Dividing
<1>2. ReadInv /\ FoundInv /\ [Next]_vars => FoundInv'
  <2> SUFFICES ASSUME ReadInv, FoundInv, [Next]_vars PROVE FoundInv'
    OBVIOUS
  <2>1. CASE Read
    <3>1. from' = pos /\ at' = pos /\ pos \in Nat
      BY <2>1, EndFacts, FramingAssumption DEF Read, ReadInv, NoResidue, TypeOK
    <3>2. ASSUME NEW m \in Messages PROVE ~(pos <= End[m - 1] /\ End[m] <= pos)
      <4>1. End[m - 1] \in Nat /\ End[m] \in Nat /\ End[m - 1] + 2 <= End[m]
        BY EndFacts
      <4> QED BY <3>1, <4>1
    <3> QED BY <3>1, <3>2 DEF FoundInv
  <2>2. CASE DivideNoEnd \/ DivideEmpty \/ DivideBadJson \/ Deliver
    BY <2>2 DEF DivideNoEnd, DivideEmpty, DivideBadJson, Deliver, Fail, FoundInv, Dividing
  <2>3. CASE DivideLine
    <3>1. PICK n \in Messages :
             /\ Holds(n) /\ at' = End[n]
             /\ \E v \in IF at = End[n - 1] THEN {n} ELSE {Junk, NotObject} :
                   values' = Append(values, v)
      BY <2>3 DEF DivideLine
    <3>2. PICK v \in IF at = End[n - 1] THEN {n} ELSE {Junk, NotObject} :
             values' = Append(values, v)
      BY <3>1
    <3>3. /\ n \in Nat /\ n \in 0..N /\ n - 1 \in 0..N
          /\ End[n] \in Nat /\ End[n - 1] \in Nat
      BY EndFacts
    <3>4. Dividing /\ from' = from
      BY <2>3 DEF DivideLine, Dividing
    <3>5. /\ values \in Seq(Messages \cup {Junk, NotObject})
          /\ v \in Messages \cup {Junk, NotObject} /\ at \in Nat
      BY <3>2, EndFacts, FramingAssumption DEF ReadInv, TypeOK
    <3>6. /\ Len(values) \in Nat /\ Len(values') = Len(values) + 1
          /\ \A k \in 1..Len(values) : values'[k] = values[k]
          /\ values'[Len(values) + 1] = v
      BY <3>2, <3>5, AppendProperties, LenProperties
    <3>7. ASSUME NEW m \in Messages, from <= End[m - 1], End[m] <= at'
          PROVE  \E k \in 1..Len(values') : values'[k] = m
      <4>1. /\ m \in Nat /\ m \in 0..N /\ m - 1 \in 0..N
            /\ End[m] \in Nat /\ End[m - 1] \in Nat
        BY EndFacts
      <4>2. CASE End[m] <= at
        <5>1. PICK k \in 1..Len(values) : values[k] = m
          BY <3>4, <3>7, <4>2 DEF FoundInv
        <5>2. k \in 1..Len(values') /\ values'[k] = m
          BY <3>6, <5>1
        <5> QED BY <5>2
      <4>3. CASE at < End[m]
        <5>1. End[n - 1] <= at /\ at < End[n] /\ End[m] <= End[n]
          BY <3>1, <3>7 DEF Holds
        <5>2. ~(n < m)
          BY <3>3, <4>1, <5>1, EndFacts
        <5>3. ~(m <= n - 1)
          <6>1. m <= n - 1 => End[m] <= End[n - 1]
            BY <3>3, <4>1, EndFacts
          <6> QED BY <3>3, <3>5, <4>1, <4>3, <5>1, <6>1
        <5>4. m = n
          BY <3>3, <4>1, <5>2, <5>3
        <5>5. at = End[n - 1]
          <6>1. CASE at = from
            BY <3>3, <3>5, <3>7, <5>1, <5>4, <6>1
          <6>2. CASE \E i \in 0..N : at = End[i]
            <7>1. PICK i \in 0..N : at = End[i]
              BY <6>2
            <7>2. ~(i < n - 1)
              BY <3>3, <5>1, <7>1, EndFacts
            <7>3. ~(n <= i)
              BY <3>3, <5>1, <7>1, EndFacts
            <7>4. i = n - 1
              BY <3>3, <7>2, <7>3, FramingAssumption
            <7> QED BY <7>1, <7>4
          <6> QED BY <3>4, <6>1, <6>2 DEF FoundInv
        <5>6. v = m
          BY <3>2, <5>4, <5>5
        <5>7. Len(values) + 1 \in 1..Len(values') /\ values'[Len(values) + 1] = m
          BY <3>6, <5>6
        <5> QED BY <5>7
      <4> QED BY <3>5, <4>1, <4>2, <4>3
    <3> QED BY <3>1, <3>3, <3>4, <3>7 DEF FoundInv
  <2>4. CASE UNCHANGED vars
    BY <2>4 DEF vars, FoundInv, Dividing
  <2> QED BY <2>1, <2>2, <2>3, <2>4 DEF Next
<1> QED BY <1>1, <1>2, ReadInvHolds, PTL DEF Spec

\* However a read lies to the messages: _req_msg_parse pushes every message
\* that is wholly in it, or nothing at all.
THEOREM AllDeliveredOrNone == Spec => AllOrNothing
<1>1. ReadInv /\ FoundInv /\ [Next]_vars =>
         [Returns =>
            \/ delivered' = delivered
            \/ \A m \in Messages :
                  from <= End[m - 1] /\ End[m] <= pos
                     => \E k \in 1..Len(delivered') : delivered'[k] = m]_vars
  <2> SUFFICES ASSUME ReadInv, FoundInv, [Next]_vars, ~ UNCHANGED vars, Returns,
                      delivered' # delivered,
                      NEW m \in Messages, from <= End[m - 1], End[m] <= pos
               PROVE  \E k \in 1..Len(delivered') : delivered'[k] = m
    OBVIOUS
  <2>1. Deliver /\ delivered' = delivered \o values
    BY DEF Next, Read, DivideNoEnd, DivideEmpty, DivideBadJson, DivideLine, Deliver, Fail, vars
  <2>2. Dividing /\ at = pos
    BY <2>1 DEF Deliver, Dividing, ReadInv
  <2>3. PICK k \in 1..Len(values) : values[k] = m
    BY <2>2 DEF FoundInv
  <2>4. /\ values \in Seq(Messages \cup {Junk, NotObject})
        /\ delivered \in Seq(Messages \cup {Junk, NotObject})
    <3>1. Messages \cup {Junk} \subseteq Messages \cup {Junk, NotObject}
      OBVIOUS
    <3> QED BY <3>1, SeqMonotonic DEF ReadInv, TypeOK
  <2>5. /\ Len(delivered) \in Nat /\ Len(values) \in Nat
        /\ Len(delivered') = Len(delivered) + Len(values)
        /\ \A x \in 1..(Len(delivered) + Len(values)) :
              delivered'[x] = IF x <= Len(delivered) THEN delivered[x]
                              ELSE values[x - Len(delivered)]
    BY <2>1, <2>4, ConcatProperties, LenProperties
  <2>6. /\ Len(delivered) + k \in 1..Len(delivered') /\ ~(Len(delivered) + k <= Len(delivered))
        /\ (Len(delivered) + k) - Len(delivered) = k
    BY <2>5
  <2>7. delivered'[Len(delivered) + k] = m
    BY <2>3, <2>5, <2>6
  <2> QED BY <2>6, <2>7
<1> QED BY <1>1, ReadInvHolds, FoundInvHolds, PTL DEF Spec, AllOrNothing
=============================================================================
