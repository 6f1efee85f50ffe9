--------------------------- MODULE RefCountProofs ---------------------------
(***************************************************************************)
(* Why the smart pointers are safe, for any objects, any finite set of     *)
(* ref_obj variables and any interleaving of their operations.             *)
(***************************************************************************)
EXTENDS RefCount, FiniteSetTheorems, TLAPS

(***************************************************************************)
(* RefSafe is not inductive: between the decrement that finds the last     *)
(* reference and the delete there is no reference left, and what keeps the *)
(* object from being found again, or deleted by somebody else, is that the *)
(* thread in between is the only one that knows of it.                     *)
(***************************************************************************)

\* What is assumed of the constants.
Setting == IsFiniteSet(Slots) /\ Null \notin Objects

Late == {"last", "destroy", "temp", "templast"}

\* An operation on a ref_obj that gives its object up has one.
Held ==
    \A s \in Slots :
        /\ step[s] \in {"release", "read"} \cup Late => slot[s] \in Objects
        /\ step[s] = "idle" => next[s] = Null

\* Whoever took the last reference is alone with the object.
Lone ==
    \A s \in Slots : step[s] \in Late =>
        /\ life[slot[s]] = "alive"
        /\ References(slot[s]) \subseteq {<<"temp", s>>}
        /\ \A u \in Slots : step[u] \in Late /\ slot[u] = slot[s] => u = s

\* m_lDel is 1 until somebody destroys the object.
Dels ==
    /\ \A o \in Objects :
         /\ life[o] \in {"new", "alive"}
         /\ \A s \in Slots : slot[s] = o => step[s] \notin Late \ {"last"}
         => del[o] = 1
    /\ \A s \in Slots :
         /\ step[s] = "destroy" => del[slot[s]] <= 0
         /\ step[s] \in {"temp", "templast"} => del[slot[s]] = 0

IInv == TypeOK /\ CountExact /\ UsedAlive /\ NotLeaked /\ Held /\ Lone /\ Dels

-----------------------------------------------------------------------------
(* What a step does to the references.                                     *)

LEMMA Referring ==
    ASSUME NEW o, NEW kind \in Kinds, NEW s \in Slots
    PROVE  <<kind, s>> \in References(o) <=> Holds(kind, s, o)
BY DEF References

\* The references to an object are finitely many.
LEMMA Finite ==
    ASSUME IsFiniteSet(Slots), NEW o
    PROVE  IsFiniteSet(References(o))
<1>1. IsFiniteSet(Kinds)
  <2>1. IsFiniteSet({}) /\ Kinds = (({} \cup {"slot"}) \cup {"next"}) \cup {"temp"}
    BY FS_EmptySet DEF Kinds
  <2> QED BY <2>1, FS_AddElement
<1>2. IsFiniteSet(Kinds \X Slots)
  BY <1>1, FS_Product
<1>3. References(o) \subseteq Kinds \X Slots
  BY DEF References
<1> QED BY <1>2, <1>3, FS_Subset

Same == \A x \in Objects : References(x)' = References(x)

Gains(kind, s, o) ==
    /\ <<kind, s>> \notin References(o)
    /\ \A x \in Objects :
         References(x)' = IF x = o THEN References(x) \cup {<<kind, s>>} ELSE References(x)

Loses(kind, s, o) ==
    /\ <<kind, s>> \in References(o)
    /\ \A x \in Objects :
         References(x)' = IF x = o THEN References(x) \ {<<kind, s>>} ELSE References(x)

\* The references follow from who holds what.
LEMMA SameLaw ==
    ASSUME \A x \in Objects, k \in Kinds, u \in Slots : Holds(k, u, x)' <=> Holds(k, u, x)
    PROVE  Same
<1> SUFFICES ASSUME NEW x \in Objects, NEW h \in Kinds \X Slots
             PROVE  h \in References(x)' <=> h \in References(x)
  BY DEF Same, References
<1> QED BY DEF References

LEMMA GainsLaw ==
    ASSUME NEW o \in Objects, NEW kind \in Kinds, NEW s \in Slots,
           ~Holds(kind, s, o),
           \A x \in Objects, k \in Kinds, u \in Slots :
               Holds(k, u, x)' <=> Holds(k, u, x) \/ (k = kind /\ u = s /\ x = o)
    PROVE  Gains(kind, s, o)
<1>1. <<kind, s>> \notin References(o)
  BY Referring
<1> SUFFICES ASSUME NEW x \in Objects, NEW h \in Kinds \X Slots
             PROVE  h \in References(x)' <=> h \in References(x) \/ (h = <<kind, s>> /\ x = o)
  BY <1>1 DEF Gains, References
<1> QED BY DEF References

LEMMA LosesLaw ==
    ASSUME NEW o \in Objects, NEW kind \in Kinds, NEW s \in Slots,
           Holds(kind, s, o),
           \A x \in Objects, k \in Kinds, u \in Slots :
               Holds(k, u, x)' <=> Holds(k, u, x) /\ ~(k = kind /\ u = s /\ x = o)
    PROVE  Loses(kind, s, o)
<1>1. <<kind, s>> \in References(o)
  BY Referring
<1> SUFFICES ASSUME NEW x \in Objects, NEW h \in Kinds \X Slots
             PROVE  h \in References(x)' <=> h \in References(x) /\ ~(h = <<kind, s>> /\ x = o)
  BY <1>1 DEF Loses, References
<1> QED BY DEF References

\* The count goes along.
LEMMA CountGains ==
    ASSUME IsFiniteSet(Slots), TypeOK, CountExact, NEW o \in Objects,
           NEW kind \in Kinds, NEW s \in Slots, Gains(kind, s, o),
           ref' = [ref EXCEPT ![o] = @ + 1]
    PROVE  CountExact'
<1>1. Cardinality(References(o)') = Cardinality(References(o)) + 1
  BY Finite, FS_AddElement DEF Gains
<1> QED BY <1>1 DEF TypeOK, CountExact, Gains

LEMMA CountLoses ==
    ASSUME IsFiniteSet(Slots), TypeOK, CountExact, NEW o \in Objects,
           NEW kind \in Kinds, NEW s \in Slots, Loses(kind, s, o),
           ref' = [ref EXCEPT ![o] = @ - 1]
    PROVE  /\ CountExact'
           /\ ref[o] = 1 <=> References(o)' = {}
<1>1. IsFiniteSet(References(o)) /\ IsFiniteSet(References(o)')
  <2>1. IsFiniteSet(References(o)) /\ References(o)' \subseteq References(o)
    BY Finite DEF Loses
  <2> QED BY <2>1, FS_Subset
<1>2. Cardinality(References(o)') = Cardinality(References(o)) - 1
  BY <1>1, FS_RemoveElement DEF Loses
<1>3. Cardinality(References(o)') = 0 <=> References(o)' = {}
  BY <1>1, FS_EmptySet
<1>4. CountExact'
  BY <1>2 DEF TypeOK, CountExact, Loses
<1>5. Cardinality(References(o)) \in Nat
  BY <1>1, FS_CardinalityType
<1>6. ref[o] = Cardinality(References(o))
  BY DEF CountExact
<1> QED BY <1>2, <1>3, <1>4, <1>5, <1>6

-----------------------------------------------------------------------------
(* The steps.                                                              *)

LEMMA InitInv == ASSUME Null \notin Objects PROVE Init => IInv
<1> SUFFICES ASSUME Init PROVE IInv
  OBVIOUS
<1>1. TypeOK /\ Held /\ Lone /\ Dels
  BY DEF Init, TypeOK, Steps, Held, Lone, Dels, Late
<1>2. \A o \in Objects : References(o) = {}
  <2> SUFFICES ASSUME NEW o \in Objects, NEW h \in Kinds \X Slots
               PROVE  ~Holds(h[1], h[2], o)
    BY DEF References
  <2> QED BY DEF Init, Holds
<1>3. CountExact /\ UsedAlive /\ NotLeaked
  BY <1>2, FS_EmptySet DEF Init, CountExact, UsedAlive, NotLeaked
<1> QED BY <1>1, <1>3 DEF IInv

\* What is referred to in the ordinary way is alive, and nobody is about to
\* destroy it.
LEMMA Referred ==
    ASSUME IInv, NEW o \in Objects, NEW kind \in Kinds \ {"temp"}, NEW s \in Slots,
           Holds(kind, s, o)
    PROVE  life[o] = "alive" /\ \A u \in Slots : step[u] \in Late => slot[u] # o
<1>1. <<kind, s>> \in References(o)
  BY Referring
<1> QED BY <1>1 DEF IInv, UsedAlive, Lone

LEMMA WrapStep ==
    ASSUME IsFiniteSet(Slots), Null \notin Objects, IInv,
           NEW s \in Slots, NEW o \in Objects, Wrap(s, o)
    PROVE  IInv'
<1>1. TypeOK' /\ Held'
  BY DEF IInv, TypeOK, Steps, Held, Late, Wrap, At
<1>2. Gains("slot", s, o)
  <2>1. ~Holds("slot", s, o)
    BY DEF Wrap, Holds
  <2>2. \A x \in Objects, k \in Kinds, u \in Slots :
          Holds(k, u, x)' <=> Holds(k, u, x) \/ (k = "slot" /\ u = s /\ x = o)
    BY DEF IInv, TypeOK, Wrap, At, Holds, Kinds
  <2> QED BY <2>1, <2>2, GainsLaw DEF Kinds
<1>3. CountExact'
  BY <1>2, CountGains DEF IInv, Wrap, Kinds
<1>4. UsedAlive' /\ NotLeaked'
  BY <1>2 DEF IInv, TypeOK, UsedAlive, NotLeaked, Gains, Wrap, At
<1>5. \A u \in Slots : step[u] \in Late => slot[u] # o
  BY DEF IInv, Lone, Wrap
<1>6. Lone'
  BY <1>2, <1>5 DEF IInv, TypeOK, Held, Lone, Late, Gains, Wrap, At
<1>7. Dels'
  BY <1>5 DEF IInv, TypeOK, Held, Dels, Late, Wrap, At
<1> QED BY <1>1, <1>3, <1>4, <1>6, <1>7 DEF IInv

LEMMA CopyStep ==
    ASSUME IsFiniteSet(Slots), Null \notin Objects, IInv,
           NEW s \in Slots, NEW u \in Slots, Copy(s, u)
    PROVE  IInv'
<1>1. PICK o \in Objects : o = slot[u]
  BY DEF IInv, TypeOK, Copy
<1>2. TypeOK' /\ Held'
  BY DEF IInv, TypeOK, Steps, Held, Late, Copy, At
<1>3. life[o] = "alive" /\ \A v \in Slots : step[v] \in Late => slot[v] # o
  BY <1>1, Referred DEF Copy, Holds, Kinds
<1>4. Gains("slot", s, o)
  <2>1. ~Holds("slot", s, o)
    BY DEF Copy, Holds
  <2>2. \A x \in Objects, k \in Kinds, v \in Slots :
          Holds(k, v, x)' <=> Holds(k, v, x) \/ (k = "slot" /\ v = s /\ x = o)
    BY <1>1 DEF IInv, TypeOK, Copy, At, Holds, Kinds
  <2> QED BY <1>1, <2>1, <2>2, GainsLaw DEF Kinds
<1>5. CountExact'
  BY <1>1, <1>4, CountGains DEF IInv, Copy, Kinds
<1>6. UsedAlive' /\ NotLeaked'
  BY <1>1, <1>3, <1>4 DEF IInv, TypeOK, UsedAlive, NotLeaked, Gains, Copy, At
<1>7. Lone'
  BY <1>1, <1>3, <1>4 DEF IInv, TypeOK, Held, Lone, Late, Gains, Copy, At
<1>8. Dels'
  BY <1>1, <1>3 DEF IInv, TypeOK, Held, Dels, Late, Copy, At
<1> QED BY <1>2, <1>5, <1>6, <1>7, <1>8 DEF IInv

LEMMA AssignStep ==
    ASSUME IsFiniteSet(Slots), Null \notin Objects, IInv,
           NEW s \in Slots, NEW u \in Slots, Assign(s, u)
    PROVE  IInv'
<1>1. PICK o \in Objects : o = slot[u]
  BY DEF IInv, TypeOK, Assign
<1>2. TypeOK' /\ Held'
  BY DEF IInv, TypeOK, Steps, Held, Late, Assign, At
<1>3. life[o] = "alive" /\ \A v \in Slots : step[v] \in Late => slot[v] # o
  BY <1>1, Referred DEF Assign, Holds, Kinds
<1>4. Gains("next", s, o)
  <2>1. ~Holds("next", s, o)
    BY <1>1 DEF IInv, Held, Assign, At, Holds
  <2>2. \A x \in Objects, k \in Kinds, v \in Slots :
          Holds(k, v, x)' <=> Holds(k, v, x) \/ (k = "next" /\ v = s /\ x = o)
    BY <1>1 DEF IInv, TypeOK, Held, Assign, At, Holds, Kinds
  <2> QED BY <1>1, <2>1, <2>2, GainsLaw DEF Kinds
<1>5. CountExact'
  BY <1>1, <1>4, CountGains DEF IInv, Assign, Kinds
<1>6. UsedAlive' /\ NotLeaked'
  BY <1>1, <1>3, <1>4 DEF IInv, TypeOK, UsedAlive, NotLeaked, Gains, Assign, At
<1>7. Lone'
  BY <1>1, <1>3, <1>4 DEF IInv, TypeOK, Held, Lone, Late, Gains, Assign, At
<1>8. Dels'
  BY <1>1, <1>3 DEF IInv, TypeOK, Held, Dels, Late, Assign, At
<1> QED BY <1>2, <1>5, <1>6, <1>7, <1>8 DEF IInv

LEMMA ClearStep ==
    ASSUME Null \notin Objects, IInv, NEW s \in Slots, Clear(s)
    PROVE  IInv'
<1> USE DEF counts
<1>1. TypeOK' /\ Held'
  BY DEF IInv, TypeOK, Steps, Held, Late, Clear, At
<1>2. Same
  <2>1. \A x \in Objects, k \in Kinds, u \in Slots : Holds(k, u, x)' <=> Holds(k, u, x)
    BY DEF IInv, TypeOK, Clear, At, Holds
  <2> QED BY <2>1, SameLaw
<1>3. CountExact' /\ UsedAlive' /\ NotLeaked'
  BY <1>2 DEF IInv, TypeOK, CountExact, UsedAlive, NotLeaked, Same, Clear, At
<1>4. Lone' /\ Dels'
  BY <1>2 DEF IInv, TypeOK, Held, Lone, Dels, Late, Same, Clear, At
<1> QED BY <1>1, <1>3, <1>4 DEF IInv

\* Whoever takes the last reference off is alone from here on.
LEMMA ReleaseStep ==
    ASSUME IsFiniteSet(Slots), Null \notin Objects, IInv, NEW s \in Slots, Release(s)
    PROVE  IInv'
<1>1. PICK o \in Objects : o = slot[s]
  BY DEF IInv, Held, Release, At
<1>2. TypeOK' /\ Held'
  BY <1>1 DEF IInv, TypeOK, Steps, Held, Late, Release, At
<1>3. life[o] = "alive" /\ \A v \in Slots : step[v] \in Late => slot[v] # o
  BY <1>1, Referred DEF Release, At, Holds, Kinds
<1>4. Loses("slot", s, o)
  <2>1. Holds("slot", s, o)
    BY <1>1 DEF Release, At, Holds
  <2>2. \A x \in Objects, k \in Kinds, v \in Slots :
          Holds(k, v, x)' <=> Holds(k, v, x) /\ ~(k = "slot" /\ v = s /\ x = o)
    BY <1>1 DEF IInv, TypeOK, Release, At, Holds, Kinds
  <2> QED BY <1>1, <2>1, <2>2, LosesLaw DEF Kinds
<1>5. CountExact' /\ (ref[o] = 1 <=> References(o)' = {})
  BY <1>1, <1>4, CountLoses DEF IInv, Release, Kinds
<1>6. step' = [step EXCEPT ![s] = IF References(o)' = {} THEN "last" ELSE "read"]
  BY <1>1, <1>5 DEF Release, At
<1>7. UsedAlive' /\ NotLeaked'
  BY <1>1, <1>3, <1>4, <1>6 DEF IInv, TypeOK, UsedAlive, NotLeaked, Loses, Release
<1>8. Lone'
  BY <1>1, <1>3, <1>4, <1>6 DEF IInv, TypeOK, Held, Lone, Late, Loses, Release
<1>9. Dels'
  BY <1>1, <1>3, <1>6 DEF IInv, TypeOK, Held, Dels, Late, Release
<1> QED BY <1>2, <1>5, <1>7, <1>8, <1>9 DEF IInv

\* The destroyer of an object is alone with it, and finds m_lDel at 1.
LEMMA LastStep ==
    ASSUME Null \notin Objects, IInv, NEW s \in Slots, Last(s)
    PROVE  IInv'
<1>1. PICK o \in Objects : o = slot[s] /\ life[o] = "alive"
  BY DEF IInv, Held, Lone, Late, Last, At
<1>2. \A u \in Slots : step[u] \in Late /\ slot[u] = o => u = s
  BY <1>1 DEF IInv, Lone, Late, Last, At
<1>3. del[o] = 1
  BY <1>1, <1>2 DEF IInv, Dels, Late, Last, At
<1>4. step' = [step EXCEPT ![s] = "destroy"] /\ step[s] = "last"
  BY <1>1, <1>3 DEF Last, At
<1>5. TypeOK' /\ Held'
  BY <1>1, <1>4 DEF IInv, TypeOK, Steps, Held, Late, Last
<1>6. Same
  <2>1. \A x \in Objects, k \in Kinds, u \in Slots : Holds(k, u, x)' <=> Holds(k, u, x)
    BY <1>4 DEF IInv, TypeOK, Last, Holds
  <2> QED BY <2>1, SameLaw
<1>7. CountExact' /\ UsedAlive' /\ NotLeaked'
  BY <1>4, <1>6 DEF IInv, TypeOK, CountExact, UsedAlive, NotLeaked, Same, Last
<1>8. Lone'
  BY <1>4, <1>6 DEF IInv, TypeOK, Held, Lone, Late, Same, Last
<1>9. Dels'
  BY <1>1, <1>2, <1>3, <1>4 DEF IInv, TypeOK, Held, Dels, Late, Last
<1> QED BY <1>5, <1>7, <1>8, <1>9 DEF IInv

LEMMA DestroyTempStep ==
    ASSUME IsFiniteSet(Slots), Null \notin Objects, IInv, NEW s \in Slots, DestroyTemp(s)
    PROVE  IInv'
<1>1. PICK o \in Objects : o = slot[s] /\ life[o] = "alive"
  BY DEF IInv, Held, Lone, Late, DestroyTemp, At
<1>2. \A u \in Slots : step[u] \in Late /\ slot[u] = o => u = s
  BY <1>1 DEF IInv, Lone, Late, DestroyTemp, At
<1>3. TypeOK' /\ Held'
  BY <1>1 DEF IInv, TypeOK, Steps, Held, Late, DestroyTemp, At
<1>4. Gains("temp", s, o)
  <2>1. ~Holds("temp", s, o)
    BY DEF DestroyTemp, At, Holds
  <2>2. \A x \in Objects, k \in Kinds, v \in Slots :
          Holds(k, v, x)' <=> Holds(k, v, x) \/ (k = "temp" /\ v = s /\ x = o)
    BY <1>1 DEF IInv, TypeOK, DestroyTemp, At, Holds, Kinds
  <2> QED BY <1>1, <2>1, <2>2, GainsLaw DEF Kinds
<1>5. CountExact'
  BY <1>1, <1>4, CountGains DEF IInv, DestroyTemp, Kinds
<1>6. UsedAlive' /\ NotLeaked'
  BY <1>1, <1>4 DEF IInv, TypeOK, UsedAlive, NotLeaked, Gains, DestroyTemp, At
<1>7. Lone'
  BY <1>1, <1>2, <1>4 DEF IInv, TypeOK, Held, Lone, Late, Gains, DestroyTemp, At
<1>8. Dels'
  BY <1>1 DEF IInv, TypeOK, Held, Dels, Late, DestroyTemp, At
<1> QED BY <1>3, <1>5, <1>6, <1>7, <1>8 DEF IInv

LEMMA DestroyTempReleaseStep ==
    ASSUME IsFiniteSet(Slots), Null \notin Objects, IInv,
           NEW s \in Slots, DestroyTempRelease(s)
    PROVE  IInv'
<1>1. PICK o \in Objects : o = slot[s] /\ life[o] = "alive" /\ References(o) \subseteq {<<"temp", s>>}
  BY DEF IInv, Held, Lone, Late, DestroyTempRelease, At
<1>2. \A u \in Slots : step[u] \in Late /\ slot[u] = o => u = s
  BY <1>1 DEF IInv, Lone, Late, DestroyTempRelease, At
<1>3. Loses("temp", s, o)
  <2>1. Holds("temp", s, o)
    BY <1>1 DEF DestroyTempRelease, At, Holds
  <2>2. \A x \in Objects, k \in Kinds, v \in Slots :
          Holds(k, v, x)' <=> Holds(k, v, x) /\ ~(k = "temp" /\ v = s /\ x = o)
    BY <1>1 DEF IInv, TypeOK, DestroyTempRelease, At, Holds, Kinds
  <2> QED BY <1>1, <2>1, <2>2, LosesLaw DEF Kinds
<1>4. CountExact' /\ (ref[o] = 1 <=> References(o)' = {})
  BY <1>1, <1>3, CountLoses DEF IInv, DestroyTempRelease, Kinds
<1>5. References(o)' = {}
  BY <1>1, <1>3 DEF Loses
<1>6. step' = [step EXCEPT ![s] = "templast"] /\ step[s] = "temp"
  BY <1>1, <1>4, <1>5 DEF DestroyTempRelease, At
<1>7. TypeOK' /\ Held'
  BY <1>1, <1>6 DEF IInv, TypeOK, Steps, Held, Late, DestroyTempRelease
<1>8. UsedAlive' /\ NotLeaked'
  BY <1>1, <1>3, <1>6 DEF IInv, TypeOK, UsedAlive, NotLeaked, Loses, DestroyTempRelease
<1>9. Lone'
  BY <1>1, <1>2, <1>3, <1>5, <1>6 DEF IInv, TypeOK, Held, Lone, Late, Loses,
                                      DestroyTempRelease
<1>10. Dels'
  BY <1>1, <1>6 DEF IInv, TypeOK, Held, Dels, Late, DestroyTempRelease
<1> QED BY <1>4, <1>7, <1>8, <1>9, <1>10 DEF IInv

LEMMA DestroyTempLastStep ==
    ASSUME Null \notin Objects, IInv, NEW s \in Slots, DestroyTempLast(s)
    PROVE  IInv'
<1>1. PICK o \in Objects : o = slot[s] /\ life[o] = "alive" /\ del[o] = 0
  BY DEF IInv, Held, Lone, Dels, Late, DestroyTempLast, At
<1>2. \A u \in Slots : step[u] \in Late /\ slot[u] = o => u = s
  BY <1>1 DEF IInv, Lone, Late, DestroyTempLast, At
<1>3. life' = life
  BY <1>1 DEF IInv, TypeOK, DestroyTempLast
<1>4. TypeOK' /\ Held'
  BY <1>1, <1>3 DEF IInv, TypeOK, Steps, Held, Late, DestroyTempLast, At
<1>5. Same
  <2>1. \A x \in Objects, k \in Kinds, u \in Slots : Holds(k, u, x)' <=> Holds(k, u, x)
    BY DEF IInv, TypeOK, DestroyTempLast, At, Holds
  <2> QED BY <2>1, SameLaw
<1>6. CountExact' /\ UsedAlive' /\ NotLeaked'
  BY <1>3, <1>5 DEF IInv, TypeOK, CountExact, UsedAlive, NotLeaked, Same,
                    DestroyTempLast, At
<1>7. Lone'
  BY <1>3, <1>5 DEF IInv, TypeOK, Held, Lone, Late, Same, DestroyTempLast, At
<1>8. Dels'
  BY <1>1, <1>2, <1>3 DEF IInv, TypeOK, Held, Dels, Late, DestroyTempLast, At
<1> QED BY <1>4, <1>6, <1>7, <1>8 DEF IInv

\* The one delete: nothing refers to the object any more.
LEMMA DestroyStep ==
    ASSUME Null \notin Objects, IInv, NEW s \in Slots, Destroy(s)
    PROVE  IInv'
<1> USE DEF counts
<1>1. PICK o \in Objects : o = slot[s] /\ life[o] = "alive" /\ References(o) \subseteq {<<"temp", s>>}
  BY DEF IInv, Held, Lone, Late, Destroy, At
<1>2. References(o) = {}
  <2>1. ~Holds("temp", s, o)
    BY DEF Destroy, At, Holds
  <2> QED BY <1>1, <2>1, Referring DEF Kinds
<1>3. \A u \in Slots : step[u] \in Late /\ slot[u] = o => u = s
  BY <1>1 DEF IInv, Lone, Late, Destroy, At
<1>4. life' = [life EXCEPT ![o] = "deleted"]
  BY <1>1 DEF IInv, TypeOK, Destroy
<1>5. TypeOK' /\ Held'
  BY <1>1, <1>4 DEF IInv, TypeOK, Steps, Held, Late, Destroy, At
<1>6. Same
  <2>1. \A x \in Objects, k \in Kinds, u \in Slots : Holds(k, u, x)' <=> Holds(k, u, x)
    BY DEF IInv, TypeOK, Destroy, At, Holds
  <2> QED BY <2>1, SameLaw
<1>7. CountExact' /\ UsedAlive' /\ NotLeaked'
  BY <1>1, <1>2, <1>4, <1>6 DEF IInv, TypeOK, CountExact, UsedAlive, NotLeaked, Same,
                                Destroy, At
<1>8. Lone'
  BY <1>1, <1>3, <1>4, <1>6 DEF IInv, TypeOK, Held, Lone, Late, Same, Destroy, At
<1>9. Dels'
  BY <1>1, <1>3, <1>4 DEF IInv, TypeOK, Held, Dels, Late, Destroy, At
<1> QED BY <1>5, <1>7, <1>8, <1>9 DEF IInv

LEMMA ReadBackStep ==
    ASSUME Null \notin Objects, IInv, NEW s \in Slots, ReadBack(s)
    PROVE  IInv'
<1> USE DEF counts
<1>1. TypeOK' /\ Held'
  BY DEF IInv, TypeOK, Steps, Held, Late, ReadBack, At
<1>2. Same
  <2>1. \A x \in Objects, k \in Kinds, u \in Slots : Holds(k, u, x)' <=> Holds(k, u, x)
    BY DEF IInv, TypeOK, ReadBack, At, Holds
  <2> QED BY <2>1, SameLaw
<1>3. CountExact' /\ UsedAlive' /\ NotLeaked'
  BY <1>2 DEF IInv, TypeOK, CountExact, UsedAlive, NotLeaked, Same, ReadBack, At
<1>4. Lone' /\ Dels'
  BY <1>2 DEF IInv, TypeOK, Held, Lone, Dels, Late, Same, ReadBack, At
<1> QED BY <1>1, <1>3, <1>4 DEF IInv

\* The reference an operator= has taken becomes that of the slot.
LEMMA SetStep ==
    ASSUME IsFiniteSet(Slots), Null \notin Objects, IInv, NEW s \in Slots, Set(s)
    PROVE  IInv'
<1> USE DEF counts
<1>1. TypeOK' /\ Held'
  BY DEF IInv, TypeOK, Steps, Held, Late, Set, At
<1>2. CASE next[s] = Null
  <2>1. Same
    <3>1. \A x \in Objects, k \in Kinds, u \in Slots : Holds(k, u, x)' <=> Holds(k, u, x)
      BY <1>2 DEF IInv, TypeOK, Set, At, Holds
    <3> QED BY <3>1, SameLaw
  <2>2. CountExact' /\ UsedAlive' /\ NotLeaked'
    BY <2>1 DEF IInv, TypeOK, CountExact, UsedAlive, NotLeaked, Same, Set, At
  <2>3. Lone'
    BY <1>2, <2>1 DEF IInv, TypeOK, Held, Lone, Late, Same, Set, At
  <2>4. Dels'
    BY <1>2 DEF IInv, TypeOK, Held, Dels, Late, Set, At
  <2> QED BY <1>1, <2>2, <2>3, <2>4 DEF IInv
<1>3. CASE next[s] # Null
  <2>1. PICK o \in Objects : o = next[s]
    BY <1>3 DEF IInv, TypeOK
  <2>2. life[o] = "alive" /\ \A v \in Slots : step[v] \in Late => slot[v] # o
    BY <2>1, Referred DEF Holds, Kinds
  <2>3. \A x \in Objects, k \in Kinds, v \in Slots :
          Holds(k, v, x)' <=> \/ Holds(k, v, x) /\ ~(k = "next" /\ v = s /\ x = o)
                              \/ k = "slot" /\ v = s /\ x = o
    BY <2>1 DEF IInv, TypeOK, Set, At, Holds, Kinds
  <2>4. \A x \in Objects :
          References(x)' =
            IF x = o THEN (References(x) \ {<<"next", s>>}) \cup {<<"slot", s>>}
            ELSE References(x)
    <3> SUFFICES ASSUME NEW x \in Objects, NEW h \in Kinds \X Slots
                 PROVE  h \in References(x)' <=>
                          \/ h \in References(x) /\ ~(h = <<"next", s>> /\ x = o)
                          \/ h = <<"slot", s>> /\ x = o
      BY DEF References, Kinds
    <3> QED BY <2>3 DEF References
  <2>5. <<"next", s>> \in References(o) /\ <<"slot", s>> \notin References(o)
    BY <2>1, Referring DEF Holds, Kinds, Set, At
  <2>6. Cardinality(References(o)') = Cardinality(References(o))
    <3> DEFINE R == References(o) \ {<<"next", s>>}
    <3>1. IsFiniteSet(References(o)) /\ R \subseteq References(o)
      BY Finite
    <3>2. IsFiniteSet(R) /\ Cardinality(R) = Cardinality(References(o)) - 1
      BY <2>5, <3>1, FS_RemoveElement
    <3>3. Cardinality(R \cup {<<"slot", s>>}) = Cardinality(R) + 1
      BY <2>5, <3>2, FS_AddElement
    <3>4. Cardinality(References(o)) \in Nat
      BY <3>1, FS_CardinalityType
    <3>5. References(o)' = R \cup {<<"slot", s>>}
      BY <2>4
    <3> QED BY <3>2, <3>3, <3>4, <3>5
  <2>7. CountExact'
    BY <2>4, <2>6 DEF IInv, TypeOK, CountExact, Set
  <2>8. UsedAlive' /\ NotLeaked'
    <3>1. \A x \in Objects : References(x)' = {} <=> References(x) = {}
      BY <2>4, <2>5
    <3> QED BY <3>1 DEF IInv, TypeOK, UsedAlive, NotLeaked, Set, At
  <2>9. Lone'
    BY <2>1, <2>2, <2>4 DEF IInv, TypeOK, Held, Lone, Late, Set, At
  <2>10. Dels'
    BY <2>1, <2>2 DEF IInv, TypeOK, Held, Dels, Late, Set, At
  <2> QED BY <1>1, <2>7, <2>8, <2>9, <2>10 DEF IInv
<1> QED BY <1>2, <1>3

LEMMA StutterStep == IInv /\ UNCHANGED vars => IInv'
<1> SUFFICES ASSUME IInv, UNCHANGED vars PROVE IInv'
  OBVIOUS
<1> USE DEF vars, counts, slots
<1>1. Same
  <2>1. \A x \in Objects, k \in Kinds, u \in Slots : Holds(k, u, x)' <=> Holds(k, u, x)
    BY DEF Holds
  <2> QED BY <2>1, SameLaw
<1> QED BY <1>1 DEF IInv, TypeOK, CountExact, UsedAlive, NotLeaked, Held, Lone, Dels, Same

LEMMA InvStep ==
    ASSUME IsFiniteSet(Slots), Null \notin Objects
    PROVE  IInv /\ [Next]_vars => IInv'
BY WrapStep, CopyStep, AssignStep, ClearStep, ReleaseStep, LastStep, DestroyTempStep,
   DestroyTempReleaseStep, DestroyTempLastStep, DestroyStep, ReadBackStep, SetStep,
   StutterStep DEF Next, Begin, Finish

-----------------------------------------------------------------------------
\* Every variable keeps its type.
THEOREM TypeCorrect ==
    ASSUME Setting
    PROVE  Spec => []TypeOK
<1>1. IInv => TypeOK
  BY DEF IInv
<1> QED BY InitInv, InvStep, <1>1, PTL DEF Spec, Setting

\* Whatever the threads do with their ref_objs, and in whatever order: m_lRef
\* is exact, nothing is used after it was deleted, nothing is deleted twice
\* and nothing is leaked.
THEOREM PointersAreSafe ==
    ASSUME Setting
    PROVE  Spec => []RefSafe
<1>1. IInv => RefSafe
  BY DEF IInv, RefSafe
<1> QED BY InitInv, InvStep, <1>1, PTL DEF Spec, Setting
=============================================================================
