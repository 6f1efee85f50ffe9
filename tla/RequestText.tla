----------------------------- MODULE RequestText -----------------------------
(***************************************************************************)
(* What a request is on the wire: _format_req_msg makes a line of a        *)
(* command and its arguments with Json::Value and Json::FastWriter, and    *)
(* _req_msg_parse takes the line apart again with Json::Reader.            *)
(*                                                                         *)
(* Three things grow here, one step at a time, and the properties say what *)
(* the library makes of them: a text, out of fragments, which is read; a   *)
(* value, under the operations of Json::Value, which is written and read   *)
(* back; the arguments of a request.                                       *)
(***************************************************************************)
EXTENDS JsonReader, JsonWriter, SequencesExt

CONSTANTS
    Beginnings,    \* sequences of fragments that a text begins with
    Fragments,     \* what it goes on with
    MaxFragments,  \* bound: fragments added
    Keys,          \* member names
    MaxSize,       \* bound: indices asked for are below, sizes not over it
    MaxNodes,      \* bound: values in the root, itself included
    Comments,      \* pairs of a placement and a comment
    Args,          \* names of arguments
    Texts,         \* values of arguments
    Services       \* the cmd of send_req

VARIABLES
    frags,         \* the text that is read
    root,          \* the value that is changed
    service, args  \* the cmd and the req_map of send_req

vars == <<frags, root, service, args>>

\* The values without others in them that are put into the root.  The first is
\* read back as a double, and asInt refuses the second.
Scalars == {Int_(-MaxInt), UInt_(MaxInt), Real(-25, -1), Str("\n\"^~\\"), Bool(FALSE)}

\* And the values the root is compared with, in their order.
Samples == <<
    Null, Int_(-MaxInt), Int_(5), UInt_(MaxInt), Real(-25, -1), Str("\n\"^~\\"), Bool(FALSE),
    Array(0 :> Null), Array(2 :> Bool(FALSE)), Array((0 :> Int_(-MaxInt)) @@ (1 :> Int_(-MaxInt))),
    Object("a" :> UInt_(MaxInt)), Object("b" :> Null),
    Object(("a" :> Null) @@ ("b" :> Array(Empty)))>>

Init ==
    /\ frags \in Beginnings
    /\ root = Null
    /\ service \in Services /\ args = [k \in {} |-> ""]

-----------------------------------------------------------------------------
(* Requests.                                                               *)

\* Fault: the writer that is nicer to look at.
FormatReqMsgStyled(cmd, map) ==
    StyledWrite(SetName(SetName(Null, "rpc_service", Str(cmd)), "args",
                        Object([k \in DOMAIN map |-> Str(map[k])])), FALSE)

\* _format_req_msg: without arguments "args" is null.
FormatReqMsg(cmd, map) ==
    LET argJson == IF DOMAIN map = {} THEN Null
                   ELSE Object([k \in DOMAIN map |-> Str(map[k])])
    IN  FastWrite(SetName(SetName(Null, "rpc_service", Str(cmd)), "args", argJson))

\* The part of _req_msg_parse behind the Reader: an argument of the name
\* rpc_service takes the place of the service.  <<>> when it throws, or runs
\* into an assert.
ArgsOf(a, name) ==
    LET names == Range(GetMemberNames(a)) IN
    IF name = <<>> \/ \E k \in names : AsString(a.map[k]) = <<>> THEN <<>>
    ELSE <<[k \in names |-> AsString(a.map[k])[1]] @@ ("rpc_service" :> name[1])>>
ReqArgs(json) ==
    IF ~IsObject(json) \/ ~IsObject(Find(json, "args")) THEN <<>>
    ELSE ArgsOf(Find(json, "args"), AsString(Find(json, "rpc_service")))

-----------------------------------------------------------------------------
(* What grows.                                                             *)

AddFragment(f) ==
    /\ \E b \in Beginnings : IsPrefix(b, frags) /\ Len(frags) < Len(b) + MaxFragments
    /\ frags' = Append(frags, f)
    /\ UNCHANGED <<root, service, args>>

AddArg(k, t) ==
    /\ k \notin DOMAIN args
    /\ args' = args @@ (k :> t)
    /\ UNCHANGED <<frags, root, service>>

IsContainer(v) == v.type \in {"array", "object"}
Places(v) == {<<>>} \cup (IF IsContainer(v) THEN {<<k>> : k \in DOMAIN v.map} ELSE {})

RECURSIVE Nodes(_)
Nodes(v) == IF IsContainer(v) THEN 1 + MapThenSumSet(LAMBDA k : Nodes(v.map[k]), DOMAIN v.map)
            ELSE 1
Commented(v) == \E p \in Places(v) : DOMAIN At(v, p).comments # {}

\* What an operation makes of the value at p; none makes it too large.
Changes(p, w) ==
    /\ root' = Put(root, p, w)
    /\ Nodes(root') <= MaxNodes
    /\ UNCHANGED <<frags, service, args>>

ChangeAt(p) ==
    LET v == At(root, p) IN
    \/ \E w \in Scalars \cup {Array(Empty), Object(Empty)} :
          \/ Changes(p, Assign(v, w))
          \/ IsArray(v) /\ Size(v) < MaxSize /\ Changes(p, AppendTo(v, w))
    \/ IsArray(v) /\ \E n \in 0..MaxSize :
          \/ n < MaxSize /\ Changes(p, AtIndex(v, n))
          \/ ResizeHolds(v, n) /\ Changes(p, Resized(v, n))
    \/ IsObject(v) /\ \E k \in Keys :
          \/ Changes(p, AtName(v, k))
          \/ Changes(p, RemoveMember(v, k))
    \/ (IsArray(v) \/ IsObject(v)) /\ Changes(p, Clear(v))
    \/ ~Commented(root) /\ \E c \in Comments : Changes(p, SetComment(v, c[1], c[2]))

Change == \E p \in Places(root) : ChangeAt(p)

Grow == \E f \in Fragments : AddFragment(f)
Fill == \E k \in Args, t \in Texts : AddArg(k, t)

Next == Grow \/ Change \/ Fill

-----------------------------------------------------------------------------
(* Requests survive.                                                       *)

Lines(text) == Cardinality({p \in 1..Len(text) : Ch(text, p) = "\n"})

IsLine(text) == Lines(text) = 1 /\ Ch(text, Len(text)) = "\n"
Arrives(r) == r.ok /\ ReqArgs(r.root) = <<args @@ ("rpc_service" :> service)>>
Survives(line) == IsLine(line) /\ Arrives(Parse(Upto(line, 1, Len(line)), All, TRUE))

\* A request is one line, whatever is in it, and the handler at the other end
\* gets the arguments of send_req: the service among them, but for an argument
\* that has its name.
RequestSurvives == Survives(FormatReqMsg(service, args))

-----------------------------------------------------------------------------
(* Values survive.                                                         *)

\* Alike but for what a text cannot tell: the type of a number, and a hole
\* in an array from a null.
RECURSIVE Alike(_, _)
Alike(v, w) ==
    IF IsNumeric(v) /\ v.type # "bool"
      THEN IsNumeric(w) /\ w.type # "bool" /\ AsDouble(v) = AsDouble(w)
    ELSE IF ~IsContainer(v) THEN Equal(v, w)
    ELSE /\ v.type = w.type
         /\ Size(v) = Size(w)
         /\ \A k \in IF v.type = "array" THEN 0..Size(v) - 1 ELSE DOMAIN v.map :
               Alike(Find(v, k), Find(w, k))

IsRead(r, v) == r.ok /\ Alike(v, r.root)
ReadsAlike(text, v) == IsRead(Parse(text, All, TRUE), v)
Told(line, v) == IsLine(line) /\ ReadsAlike(line, v)

\* Whatever was done to a value, each of the three writers writes a text that
\* is read as the same value, comments or not; the FastWriter's is one line,
\* as the cutting of what is received into requests needs it.
RoundTrip ==
    /\ Told(FastWrite(root), root)
    /\ ReadsAlike(StyledWrite(root, FALSE), root)
    /\ ReadsAlike(StyledWrite(root, TRUE), root)

-----------------------------------------------------------------------------
(* Texts are read for what they say.                                       *)

\* The text without spaces and comments, in tokens of the grammar.
TokensOf(f) ==
    CASE f \in {"/*c*/", "//c\n", "\r\n"} -> <<>>
      [] f = "\"a\":" -> <<"\"a\"", ":">>
      [] f = "\"b\":40" -> <<"\"b\"", ":", "40">>
      [] OTHER -> <<f>>
Tokens == FoldLeft(LAMBDA ts, f : ts \o TokensOf(f), <<>>, frags)

Atoms == ("1" :> Int_(1)) @@ ("40" :> UInt_(40)) @@ ("-4e1" :> Real(-4, 1))
         @@ ("\"a\"" :> Str("a")) @@ ("\"b\"" :> Str("b"))
IsName(t) == t \in DOMAIN Atoms /\ Atoms[t].type = "string"

\* How many brackets are open behind token i.
Depth(ts, i) ==
    Cardinality({j \in 1..i : ts[j] \in {"[", "{"}})
        - Cardinality({j \in 1..i : ts[j] \in {"]", "}"}})

\* What is between two brackets, in pieces between the commas.
Pieces(ts) ==
    LET cuts == {i \in 2..Len(ts) - 1 : ts[i] = "," /\ Depth(ts, i) = 1} \cup {1, Len(ts)}
        order == SetToSortSeq(cuts, <)
    IN  IF Len(ts) = 2 THEN <<>>
        ELSE [i \in 1..Len(order) - 1 |-> SubSeq(ts, order[i] + 1, order[i + 1] - 1)]

Closed(ts, open, close) ==
    /\ Len(ts) >= 2 /\ ts[1] = open /\ ts[Len(ts)] = close
    /\ Depth(ts, Len(ts)) = 0 /\ \A i \in 1..Len(ts) - 1 : Depth(ts, i) > 0

\* The value that tokens stand for by JSON's grammar, or <<>>.  Of two members
\* of a name the later one counts.
RECURSIVE Meaning(_)
Meaning(ts) ==
    LET ps == Pieces(ts)
        Pair(p) == Len(p) > 2 /\ IsName(p[1]) /\ p[2] = ":" /\ Meaning(SubSeq(p, 3, Len(p))) # <<>>
        Name(p) == Atoms[p[1]].str
        Latest(k) == CHOOSE i \in DOMAIN ps :
                       Name(ps[i]) = k /\ \A j \in DOMAIN ps : Name(ps[j]) = k => j <= i
        Part(p) == Meaning(SubSeq(p, 3, Len(p)))[1]
    IN  IF Len(ts) = 1 /\ ts[1] \in DOMAIN Atoms THEN <<Atoms[ts[1]]>>
        ELSE IF Closed(ts, "[", "]") /\ \A i \in DOMAIN ps : Meaning(ps[i]) # <<>>
          THEN <<Array([i \in 0..Len(ps) - 1 |-> Meaning(ps[i + 1])[1]])>>
        ELSE IF Closed(ts, "{", "}") /\ \A i \in DOMAIN ps : Pair(ps[i])
          THEN <<Object([k \in {Name(ps[i]) : i \in DOMAIN ps} |-> Part(ps[Latest(k)])])>>
        ELSE <<>>

Document == FoldLeft(LAMBDA d, f : d \o f, "", frags)
NoCommentIn(fs) == \A i \in DOMAIN fs : fs[i] \notin {"/*c*/", "//c\n"}

\* The line breaks before a place: the last characters of each.
Breaks(doc, place) ==
    {p \in 1..place - 1 : \/ Ch(doc, p) = "\n"
                          \/ Ch(doc, p) = "\r" /\ ~Has(doc, p, "\r\n")}

\* It fails with an error to show, and only then, and shows it on its line.
Explained(doc, r) ==
    /\ r.ok <=> r.errors = <<>>
    /\ \A i \in DOMAIN r.errors :
          LET at == r.errors[i].at IN
          GetLocationLineAndColumn(doc, at) =
              [line |-> Cardinality(Breaks(doc, at)) + 1, column |-> at - Max(Breaks(doc, at) \cup {0})]

\* Whether comments are kept makes no difference.
SameAs(r, q) == r.ok = q.ok /\ r.errors = q.errors /\ Equal(r.root, q.root)

\* A text of JSON is read as its meaning, comments or no comments allowed, and
\* no text that was cut short of one is read as whole.
Cut(doc) ==
    \A p \in 0..Len(doc) - 1 :
        \/ ~Parse(SubSeq(doc, 1, p), All, FALSE).ok
        \/ \A i \in p + 1..Len(doc) : Ch(doc, i) \in Space
Means(doc, r, m) ==
    m # <<>> /\ NoCommentIn(frags) =>
        /\ r.ok /\ Equal(r.root, m[1])
        /\ IsContainer(m[1]) => Parse(doc, StrictMode, TRUE).ok /\ Cut(doc)

\* A text is read for what it says.
Sound(doc, r) ==
    /\ Explained(doc, r)
    /\ SameAs(r, Parse(doc, All, FALSE))
    /\ Means(doc, r, Meaning(Tokens))
ReadsSound(doc) == Sound(doc, Parse(doc, All, TRUE))
ReaderSound == ReadsSound(Document)

-----------------------------------------------------------------------------
(* Laws of values.                                                         *)

\* operator< is an order that goes with operator==: of the samples, which are
\* in order, some are below a value, at most one equals it, the rest are above.
Ordered(v) ==
    LET below == {i \in DOMAIN Samples : Less(Samples[i], v)}
        same  == {i \in DOMAIN Samples : Equal(Samples[i], v)}
        above == {i \in DOMAIN Samples : Less(v, Samples[i])}
    IN  /\ \A i \in 2..Len(Samples) : Less(Samples[i - 1], Samples[i])
        /\ below \cup same \cup above = DOMAIN Samples /\ Cardinality(same) <= 1
        /\ \A i \in below, j \in same \cup above : i < j
        /\ \A i \in same, j \in above : i < j

\* What a conversion returns is what isConvertibleTo said, up to what is said
\* of maxInt, and of strings made of numbers; and it is the number it was.
Convertible(v) ==
    /\ AsInt(v) # <<>> => IsConvertibleTo(v, "int")
    /\ IsConvertibleTo(v, "int") => AsInt(v) # <<>> \/ Equal(v, UInt_(MaxInt))
    /\ IsConvertibleTo(v, "uint") <=> AsUInt(v) # <<>>
    /\ IsConvertibleTo(v, "real") <=> AsDouble(v) # <<>>
    /\ AsInt(v) # <<>> /\ AsUInt(v) # <<>> => AsInt(v) = AsUInt(v)
    /\ v.type # "string" =>
         (IsConvertibleTo(v, "null") <=> Equal(v, Default(v.type)))
    /\ AsBool(v) <=> ~IsConvertibleTo(v, "null")
    /\ IsContainer(v) => (AsBool(v) <=> ~IsEmpty(v))

\* A path leads to the part of a value that it names, and of an object a path
\* of one name to what get() would return.
PathText(v, k) == IF v.type = "array" THEN "[" \o ToString(k) \o "]" ELSE "." \o k
Found(v) ==
    IsContainer(v) => \A k \in DOMAIN v.map :
        LET path == MakePath(PathText(v, k), 1) IN
        Resolvable(v, path) /\ Resolve(v, path) = v.map[k] /\ Make(v, path) = v
Given(v) ==
    IsObject(v) => \A k \in Keys :
        LET path == MakePath(k, 1) IN
        \A w \in Scalars : ResolveOr(v, path, w) = Get(v, k, w)

\* What a path makes is null, and nothing else is touched.
Made(v) ==
    IsObject(v) => \A k \in Keys : IsArray(Find(v, k)) =>
        LET path == MakePath(k \o "[1]", 1)
            made == Make(v, path)
        IN  /\ Resolve(made, path) = Resolve(v, path)
            /\ \A p \in Places(v) \ {<<>>, <<k>>} : At(made, p) = At(v, p)
            /\ Equal(Find(Find(made, k), 0), Find(Find(v, k), 0))

\* resize of an array without holes leaves what is below the size, and its
\* assert holds.
Resizes(v) ==
    v.type = "array" /\ DOMAIN v.map = 0..Size(v) - 1 =>
        \A n \in 0..MaxSize :
            /\ ResizeHolds(v, n)
            /\ \A i \in 0..n - 1 : Find(Resized(v, n), i) = Find(v, i)

\* A walk from begin() to end() meets every part once, under its own key, and
\* in order; of an array it skips the holes, and ends below size().
Ahead(v, n) == LET it[i \in 0..n] == IF i = 0 THEN BeginOf(v) ELSE Increment(it[i - 1]) IN it[n]
Met(v, it) ==
    LET key == IteratorKey(v, it) IN
    IF v.type = "array"
      THEN /\ IteratorIndex(v, it) = key.int /\ key.int < Size(v) /\ IteratorName(v, it) = ""
           /\ Deref(v, it) = Find(v, key.int)
      ELSE /\ IteratorName(v, it) = key.str /\ IsMember(v, key.str)
           /\ Deref(v, it) = Find(v, key.str)
Walked(v) ==
    LET n    == ComputeDistance(BeginOf(v), EndOf(v))
        last == Decrement(EndOf(v))
    IN  /\ IsEqual(Ahead(v, n), CopyIterator(BeginOf(v), EndOf(v)))
        /\ \A i \in 0..n - 1 : Met(v, Ahead(v, i)) /\ ~IsEqual(Ahead(v, i), EndOf(v))
        /\ v.type = "object" =>
              n = Size(v) /\ [i \in 1..n |-> IteratorName(v, Ahead(v, i - 1))] = GetMemberNames(v)
        /\ v.type = "array" =>
              n = Cardinality(DOMAIN v.map) /\ (n > 0 => IteratorIndex(v, last) = Size(v) - 1)

\* Whatever was done to a value: it has one place in the order of values and
\* converts to what it says it does, paths and iterators lead to its parts, and
\* an array without holes can be resized.
ValueLaws ==
    /\ Ordered(root) /\ Resizes(root) /\ Walked(root)
    /\ Found(root) /\ Given(root) /\ Made(root)
    /\ \A p \in Places(root) : Convertible(At(root, p))
=============================================================================
