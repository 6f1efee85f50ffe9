------------------------------ MODULE JsonValue ------------------------------
(***************************************************************************)
(* Json::Value: what its operations return, and what they make of it.      *)
(*                                                                         *)
(* A value is a record with its type, its payload, and the comments that   *)
(* are attached to it.  An array is a function from the indices that were  *)
(* ever asked for, and an object one from its member names: both are       *)
(* std::maps in the code.  An operation that throws returns <<>>, and      *)
(* otherwise <<result>>; one that would run into an assert is not defined, *)
(* and its users test for that.                                            *)
(*                                                                         *)
(* Texts are strings.  Characters that a TLA+ string cannot hold have      *)
(* stand-ins: ~ for backspace, ^ for U+0001, and <n> for a byte over 127.  *)
(* The NUL character is left out.                                          *)
(***************************************************************************)
EXTENDS Integers, Sequences, FiniteSets, TLC, FiniteSetsExt

CONSTANTS
    MaxInt,        \* Value::maxInt; an Int is one of -MaxInt - 1..MaxInt
    MaxUInt        \* Value::maxUInt

MinInt == -MaxInt - 1

Types == <<"null", "int", "uint", "real", "string", "bool", "array", "object">>
Rank(type) == CHOOSE i \in 1..8 : Types[i] = type

NoComments == [p \in {} |-> ""]

Null      == [type |-> "null", comments |-> NoComments]
Int_(n)   == [type |-> "int", comments |-> NoComments, int |-> n]
UInt_(n)  == [type |-> "uint", comments |-> NoComments, uint |-> n]
Str(s)    == [type |-> "string", comments |-> NoComments, str |-> s]
Bool(b)   == [type |-> "bool", comments |-> NoComments, bool |-> b]
Array(f)  == [type |-> "array", comments |-> NoComments, map |-> f]
Object(f) == [type |-> "object", comments |-> NoComments, map |-> f]

\* A double, num * 10^exp, with as few digits as will do.
RECURSIVE Real(_, _)
Real(num, exp) ==
    IF num = 0 THEN [type |-> "real", comments |-> NoComments, num |-> 0, exp |-> 0]
    ELSE IF num % 10 = 0 THEN Real(num \div 10, exp + 1)
    ELSE [type |-> "real", comments |-> NoComments, num |-> num, exp |-> exp]

Empty == [k \in {} |-> Null]

\* Value(ValueType).  That of "string" holds a null pointer, which no writer
\* and no asCString survives: it is left out.
Default(type) ==
    CASE type = "null" -> Null          [] type = "int" -> Int_(0)
      [] type = "uint" -> UInt_(0)      [] type = "real" -> Real(0, 0)
      [] type = "bool" -> Bool(FALSE)   [] type = "array" -> Array(Empty)
      [] type = "object" -> Object(Empty)

IsArray(v)  == v.type \in {"null", "array"}
IsObject(v) == v.type \in {"null", "object"}
IsIntegral(v) == v.type \in {"int", "uint", "bool"}
IsNumeric(v)  == IsIntegral(v) \/ v.type = "real"

-----------------------------------------------------------------------------
(* Numbers.                                                                *)

RECURSIVE Pow10(_)
Pow10(n) == IF n = 0 THEN 1 ELSE 10 * Pow10(n - 1)

\* num * 10^exp < (or =) an integer n, for exponents of either sign.
Scale(exp) == IF exp < 0 THEN Pow10(-exp) ELSE 1
Whole(v)   == IF v.exp < 0 THEN v.num ELSE v.num * Pow10(v.exp)
RealLess(v, n) == Whole(v) < n * Scale(v.exp)
RealMore(v, n) == Whole(v) > n * Scale(v.exp)
Between(v, a, b) == ~RealLess(v, a) /\ ~RealMore(v, b)

\* Conversion of a double to an integer: towards zero.
Truncated(v) == LET w == Whole(v) IN
    IF w < 0 THEN -((-w) \div Scale(v.exp)) ELSE w \div Scale(v.exp)

Compare2(v, w) == Whole(v) * Scale(w.exp) < Whole(w) * Scale(v.exp)

-----------------------------------------------------------------------------
(* Strings.                                                                *)

Ch(s, i) == SubSeq(s, i, i)

\* strcmp: the order of characters is that of ASCII.
Ascii == " !\"#$%&'()*+,-./0123456789:;<=>?@ABCDEFGHIJKLMNOPQRSTUVWXYZ[\\]^_"
Lower == "abcdefghijklmnopqrstuvwxyz{|}~"
Place(s, c) == CHOOSE i \in 1..Len(s) : Ch(s, i) = c
Chars(s) == {Ch(s, i) : i \in 1..Len(s)}
Code == [c \in Chars(Ascii) \cup Chars(Lower) |->
            IF c \in Chars(Ascii) THEN 31 + Place(Ascii, c) ELSE 96 + Place(Lower, c)]
CodeOf(c) ==
    IF c \in DOMAIN Code THEN Code[c]
    ELSE CASE c = "\t" -> 9 [] c = "\n" -> 10 [] c = "\f" -> 12 [] c = "\r" -> 13

RECURSIVE StrLess(_, _)
StrLess(s, t) ==
    /\ t # ""
    /\ \/ s = ""
       \/ CodeOf(Ch(s, 1)) < CodeOf(Ch(t, 1))
       \/ Ch(s, 1) = Ch(t, 1) /\ StrLess(Tail(s), Tail(t))

\* Value::CZString::operator<: keys are either all indices or all names.
KeyLess(type, k, l) == IF type = "array" THEN k < l ELSE StrLess(k, l)

\* The keys of a map, in its order.
RECURSIVE Sorted(_, _)
Sorted(type, keys) ==
    IF keys = {} THEN <<>>
    ELSE LET k == CHOOSE k \in keys : \A l \in keys \ {k} : KeyLess(type, k, l)
         IN  <<k>> \o Sorted(type, keys \ {k})

-----------------------------------------------------------------------------
(* Comparisons.                                                            *)

RECURSIVE Equal(_, _)

\* std::map's operator==: the same keys, with equal values.
SameMap(f, g) == DOMAIN f = DOMAIN g /\ \A k \in DOMAIN f : Equal(f[k], g[k])

\* operator==: comments do not count, and an int is no uint.
Equal(v, w) ==
    /\ v.type = w.type
    /\ CASE v.type = "null" -> TRUE
         [] v.type = "int" -> v.int = w.int
         [] v.type = "uint" -> v.uint = w.uint
         [] v.type = "real" -> v.num = w.num /\ v.exp = w.exp
         [] v.type = "string" -> v.str = w.str
         [] v.type = "bool" -> v.bool = w.bool
         [] OTHER -> SameMap(v.map, w.map)

RECURSIVE Less(_, _)

\* std::map's operator<: the first pair that differs decides.
RECURSIVE MapLess(_, _, _, _, _)
MapLess(type, f, ks, g, ls) ==
    /\ ls # <<>>
    /\ \/ ks = <<>>
       \/ KeyLess(type, Head(ks), Head(ls))
       \/ /\ Head(ks) = Head(ls)
          /\ \/ Less(f[Head(ks)], g[Head(ls)])
             \/ /\ ~Less(g[Head(ls)], f[Head(ks)])
                /\ MapLess(type, f, Tail(ks), g, Tail(ls))

\* operator<: by type, then by size, then by contents.
Less(v, w) ==
    IF v.type # w.type THEN Rank(v.type) < Rank(w.type)
    ELSE CASE v.type = "null" -> FALSE
           [] v.type = "int" -> v.int < w.int
           [] v.type = "uint" -> v.uint < w.uint
           [] v.type = "real" -> Compare2(v, w)
           [] v.type = "string" -> StrLess(v.str, w.str)
           [] v.type = "bool" -> ~v.bool /\ w.bool
           [] OTHER ->
                LET m == Cardinality(DOMAIN v.map)
                    n == Cardinality(DOMAIN w.map)
                IN  IF m # n THEN m < n
                    ELSE MapLess(v.type, v.map, Sorted(v.type, DOMAIN v.map),
                                 w.map, Sorted(w.type, DOMAIN w.map))

-----------------------------------------------------------------------------
(* Conversions.                                                            *)

AsString(v) ==
    CASE v.type = "null" -> <<"">>
      [] v.type = "string" -> <<v.str>>
      [] v.type = "bool" -> <<IF v.bool THEN "true" ELSE "false">>
      [] OTHER -> <<>>

\* maxInt itself, as a uint, is out of range here.
AsInt(v) ==
    CASE v.type = "null" -> <<0>>
      [] v.type = "int" -> <<v.int>>
      [] v.type = "uint" -> IF v.uint < MaxInt THEN <<v.uint>> ELSE <<>>
      [] v.type = "real" -> IF Between(v, MinInt, MaxInt) THEN <<Truncated(v)>> ELSE <<>>
      [] v.type = "bool" -> <<IF v.bool THEN 1 ELSE 0>>
      [] OTHER -> <<>>

AsUInt(v) ==
    CASE v.type = "null" -> <<0>>
      [] v.type = "int" -> IF v.int >= 0 THEN <<v.int>> ELSE <<>>
      [] v.type = "uint" -> <<v.uint>>
      [] v.type = "real" -> IF Between(v, 0, MaxUInt) THEN <<Truncated(v)>> ELSE <<>>
      [] v.type = "bool" -> <<IF v.bool THEN 1 ELSE 0>>
      [] OTHER -> <<>>

AsDouble(v) ==
    CASE v.type = "null" -> <<Real(0, 0)>>
      [] v.type = "int" -> <<Real(v.int, 0)>>
      [] v.type = "uint" -> <<Real(v.uint, 0)>>
      [] v.type = "real" -> <<Real(v.num, v.exp)>>
      [] v.type = "bool" -> <<Real(IF v.bool THEN 1 ELSE 0, 0)>>
      [] OTHER -> <<>>

AsBool(v) ==
    CASE v.type = "null" -> FALSE
      [] v.type = "int" -> v.int # 0
      [] v.type = "uint" -> v.uint # 0
      [] v.type = "real" -> v.num # 0
      [] v.type = "string" -> v.str # ""
      [] v.type = "bool" -> v.bool
      [] OTHER -> DOMAIN v.map # {}

\* It takes a number for convertible to a string, which asString does not.
IsConvertibleTo(v, type) ==
    CASE v.type = "null" -> TRUE
      [] v.type = "int" ->
           \/ type = "null" /\ v.int = 0
           \/ type = "uint" /\ v.int >= 0
           \/ type \in {"int", "real", "string", "bool"}
      [] v.type = "uint" ->
           \/ type = "null" /\ v.uint = 0
           \/ type = "int" /\ v.uint <= MaxInt
           \/ type \in {"uint", "real", "string", "bool"}
      [] v.type = "real" ->
           \/ type = "null" /\ v.num = 0
           \/ type = "int" /\ Between(v, MinInt, MaxInt)
           \/ type = "uint" /\ Between(v, 0, MaxUInt)
           \/ type \in {"real", "string", "bool"}
      [] v.type = "bool" ->
           \/ type = "null" /\ ~v.bool
           \/ type \in {"int", "uint", "real", "string", "bool"}
      [] v.type = "string" ->
           \/ type = "string"
           \/ type = "null" /\ v.str = ""
      [] OTHER ->
           \/ type = v.type
           \/ type = "null" /\ DOMAIN v.map = {}

-----------------------------------------------------------------------------
(* Arrays and objects.                                                     *)

\* Of an array, the highest index and one, whatever there is below it.
Size(v) ==
    CASE v.type = "array" -> IF DOMAIN v.map = {} THEN 0 ELSE Max(DOMAIN v.map) + 1
      [] v.type = "object" -> Cardinality(DOMAIN v.map)
      [] OTHER -> 0

IsEmpty(v) == (IsArray(v) \/ IsObject(v)) /\ Size(v) = 0
IsValidIndex(v, i) == i < Size(v)

\* operator=: everything but the comments.
Assign(v, w) == [w EXCEPT !.comments = v.comments]

\* clear: null, an array or an object, which stays one.
Clear(v) == IF v.type = "null" THEN v ELSE [v EXCEPT !.map = Empty]

\* Both operator[] on a value that may be changed: null becomes a container,
\* and what is not there is made.
Become(v, container) == IF v.type = "null" THEN Assign(v, container) ELSE v
Touch(v, k) ==
    IF k \in DOMAIN v.map THEN v
    ELSE [v EXCEPT !.map = [l \in DOMAIN v.map \cup {k} |->
                                IF l = k THEN Null ELSE v.map[l]]]
AtIndex(v, i) == Touch(Become(v, Array(Empty)), i)
AtName(v, k)  == Touch(Become(v, Object(Empty)), k)

\* Both operator[] on a constant value: Value::null for what is not there.
Find(v, k) == IF v.type # "null" /\ k \in DOMAIN v.map THEN v.map[k] ELSE Null
IsMember(v, k) == v.type # "null" /\ k \in DOMAIN v.map
Get(v, k, default) == IF IsMember(v, k) THEN v.map[k] ELSE default

\* v[k] = w, and append, which is the same for the index size().
SetIndex(v, i, w) == LET a == AtIndex(v, i) IN [a EXCEPT !.map[i] = Assign(@, w)]
SetName(v, k, w)  == LET o == AtName(v, k) IN [o EXCEPT !.map[k] = Assign(@, w)]
AppendTo(v, w)    == SetIndex(v, Size(v), w)

\* Fault: one element too many stays.
ResizedKeepsOne(v, n) ==
    LET a == Become(v, Array(Empty)) IN
    IF n > Size(a) THEN AtIndex(a, n - 1)
    ELSE [a EXCEPT !.map = [i \in {j \in DOMAIN a.map : j <= n} |-> a.map[i]]]

\* resize; its assert fails when the last element that is to stay is a hole.
Resized(v, n) ==
    LET a == Become(v, Array(Empty)) IN
    IF n = 0 THEN Clear(a)
    ELSE IF n > Size(a) THEN AtIndex(a, n - 1)
    ELSE [a EXCEPT !.map = [i \in {j \in DOMAIN a.map : j < n} |-> a.map[i]]]

ResizeHolds(v, n) == Size(Resized(v, n)) = n

\* removeMember: what is left, and what is returned.
RemoveMember(v, k) ==
    IF IsMember(v, k) THEN [v EXCEPT !.map = [l \in DOMAIN v.map \ {k} |-> v.map[l]]] ELSE v

GetMemberNames(v) == IF v.type = "null" THEN <<>> ELSE Sorted("object", DOMAIN v.map)

-----------------------------------------------------------------------------
(* Iterators: a place in the order of the keys, and behind the last of     *)
(* them for end().  Those of a value that is no container are null.        *)

Order(v) == IF v.type \in {"array", "object"} THEN Sorted(v.type, DOMAIN v.map) ELSE <<>>

NullIterator == [isNull |-> TRUE, at |-> 0]
Iterator(at) == [isNull |-> FALSE, at |-> at]
BeginOf(v) == IF v.type \in {"array", "object"} THEN Iterator(1) ELSE NullIterator
EndOf(v)   == IF v.type \in {"array", "object"} THEN Iterator(Len(Order(v)) + 1) ELSE NullIterator

Increment(it) == [it EXCEPT !.at = @ + 1]
Decrement(it) == [it EXCEPT !.at = @ - 1]

\* The assignment leaves out isNull_: only one between iterators of
\* containers, or of other values, does what it says.
CopyIterator(it, other) == [it EXCEPT !.at = other.at]

IsEqual(it, other) == IF it.isNull THEN other.isNull ELSE it.at = other.at

\* it - other: the steps from it to other, which must not be before it.
ComputeDistance(it, other) == IF it.isNull /\ other.isNull THEN 0 ELSE other.at - it.at

Deref(v, it)      == v.map[Order(v)[it.at]]
IteratorKey(v, it) == LET k == Order(v)[it.at] IN IF v.type = "array" THEN Int_(k) ELSE Str(k)
IteratorIndex(v, it) == IF v.type = "array" THEN Order(v)[it.at] ELSE MaxUInt
IteratorName(v, it) == IF v.type = "array" THEN "" ELSE Order(v)[it.at]

-----------------------------------------------------------------------------
(* Comments.                                                               *)

SetComment(v, placement, text) ==
    [v EXCEPT !.comments = [p \in DOMAIN v.comments \cup {placement} |->
                               IF p = placement THEN text ELSE v.comments[p]]]
HasComment(v, placement) == placement \in DOMAIN v.comments

-----------------------------------------------------------------------------
(* Json::Path: a text is taken apart into indices and names.  (The % forms, *)
(* which take their argument from elsewhere, are left out.)                *)

\* The first place from p on where there is one of the characters, and the
\* first where there is none of them.
RECURSIVE FirstOf(_, _, _)
FirstOf(chars, s, p) ==
    IF p > Len(s) \/ Ch(s, p) \in chars THEN p ELSE FirstOf(chars, s, p + 1)
RECURSIVE Behind(_, _, _)
Behind(chars, s, p) ==
    IF p > Len(s) \/ Ch(s, p) \notin chars THEN p ELSE Behind(chars, s, p + 1)

Digits == {"0", "1", "2", "3", "4", "5", "6", "7", "8", "9"}
RECURSIVE Decimal(_, _)
Decimal(s, n) == IF s = "" THEN n ELSE Decimal(Tail(s), 10 * n + CodeOf(Ch(s, 1)) - 48)

\* makePath from position p on.  A missing ']' is an error that goes
\* unreported; the text goes on behind whatever was there instead.
RECURSIVE MakePath(_, _)
MakePath(path, p) ==
    IF p > Len(path) THEN <<>>
    ELSE IF Ch(path, p) = "[" THEN
        LET q == Behind(Digits, path, p + 1)
        IN  <<[index |-> Decimal(SubSeq(path, p + 1, q - 1), 0)]>>
                \o MakePath(path, q + 1)
    ELSE IF Ch(path, p) = "." THEN MakePath(path, p + 1)
    ELSE LET q == FirstOf({"[", "."}, path, p)
         IN  <<[name |-> SubSeq(path, p, q - 1)]>> \o MakePath(path, q)

IsIndex(arg) == "index" \in DOMAIN arg
KeyOf(arg)   == IF IsIndex(arg) THEN arg.index ELSE arg.name
Fits(v, arg) == IF IsIndex(arg) THEN IsArray(v) ELSE IsObject(v)

\* resolve asserts, in operator[], that the types fit.
RECURSIVE Resolve(_, _)
Resolve(v, args) ==
    IF args = <<>> THEN v ELSE Resolve(Find(v, KeyOf(Head(args))), Tail(args))
RECURSIVE Resolvable(_, _)
Resolvable(v, args) ==
    args = <<>> \/ /\ Fits(v, Head(args))
                   /\ Resolvable(Find(v, KeyOf(Head(args))), Tail(args))

\* resolve with a default: the test of the index is the wrong way round, so
\* that a valid one gives the default.
RECURSIVE ResolveOr(_, _, _)
ResolveOr(v, args, default) ==
    IF args = <<>> THEN v
    ELSE LET arg == Head(args) IN
         IF \/ ~Fits(v, arg)
            \/ IsIndex(arg) /\ IsValidIndex(v, arg.index)
            \/ ~IsIndex(arg) /\ ~IsMember(v, arg.name)
           THEN default
           ELSE ResolveOr(Find(v, KeyOf(arg)), Tail(args), default)

\* make: every node on the way is made.
RECURSIVE Make(_, _)
Make(v, args) ==
    IF args = <<>> THEN v
    ELSE LET arg == Head(args)
             m == IF IsIndex(arg) THEN AtIndex(v, arg.index) ELSE AtName(v, arg.name)
         IN  [m EXCEPT !.map[KeyOf(arg)] = Make(@, Tail(args))]
=============================================================================
