----------------------------- MODULE JsonWriter ------------------------------
(***************************************************************************)
(* Json::FastWriter, whose output is the text of a request, and the two    *)
(* styled writers, which print a value with its comments.                  *)
(*                                                                         *)
(* The styled writers are one here, with a flag for what they differ in:   *)
(* how a line is begun and indented.  Their members document_,             *)
(* indentString_, childValues_ and addChildValues_ are a record that goes  *)
(* through the calls: doc, indent, children and adding.                    *)
(***************************************************************************)
EXTENDS JsonValue

CONSTANTS
    RightMargin    \* rightMargin_

IndentSize == "   "      \* of the StyledWriter
Indentation == "\t"      \* of the StyledStreamWriter, as operator<< has it

-----------------------------------------------------------------------------
(* Numbers and strings.                                                    *)

\* uintToString and the two valueToString of integers.  The negation of the
\* least int overflows; in two's complement it stays what it is, and is
\* printed right.
ValueToString(n) == ToString(n)

RECURSIVE Zeros(_)
Zeros(n) == IF n <= 0 THEN "" ELSE "0" \o Zeros(n - 1)

\* valueToString of a double, of up to fifteen digits and near enough to one
\* to be printed without an exponent: the zeros at its end go, but for one.
RealToString(v) ==
    LET digits == ToString(IF v.num < 0 THEN -v.num ELSE v.num)
        padded == Zeros(1 - v.exp - Len(digits)) \o digits \o Zeros(v.exp)
        point  == IF v.exp < 0 THEN Len(padded) + v.exp ELSE Len(padded)
    IN  (IF v.num < 0 THEN "-" ELSE "") \o SubSeq(padded, 1, point)
            \o "." \o SubSeq(padded, point + 1, Len(padded)) \o "0"

\* Fault: line feeds are left as they are.
EscapedKeepsLines(c) == IF c = "\"" THEN "\\\"" ELSE IF c = "\\" THEN "\\\\" ELSE c

\* What valueToQuotedString makes of a character.
Escaped(c) ==
    CASE c = "\"" -> "\\\""   [] c = "\\" -> "\\\\"
      [] c = "~"  -> "\\b"    [] c = "\f" -> "\\f"
      [] c = "\n" -> "\\n"    [] c = "\r" -> "\\r"
      [] c = "\t" -> "\\t"    [] c = "^"  -> "\\u0001"
      [] OTHER -> c

RECURSIVE Escape(_)
Escape(s) == IF s = "" THEN "" ELSE Escaped(Ch(s, 1)) \o Escape(Tail(s))

ValueToQuotedString(s) == "\"" \o Escape(s) \o "\""

\* Of a value that has no others in it.
Simple(v) ==
    CASE v.type = "null" -> "null"
      [] v.type = "int" -> ValueToString(v.int)
      [] v.type = "uint" -> ValueToString(v.uint)
      [] v.type = "real" -> RealToString(v)
      [] v.type = "string" -> ValueToQuotedString(v.str)
      [] v.type = "bool" -> IF v.bool THEN "true" ELSE "false"

RECURSIVE Joined(_, _)
Joined(texts, separator) ==
    IF texts = <<>> THEN ""
    ELSE IF Len(texts) = 1 THEN Head(texts)
    ELSE Head(texts) \o separator \o Joined(Tail(texts), separator)

-----------------------------------------------------------------------------
(* FastWriter.                                                             *)

\* Every index below size() is written, null for a hole.
RECURSIVE FastValue(_)
FastValue(v) ==
    CASE v.type = "array" ->
           "[" \o Joined([i \in 1..Size(v) |-> FastValue(Find(v, i - 1))], ",") \o "]"
      [] v.type = "object" ->
           LET names == GetMemberNames(v) IN
           "{" \o Joined([i \in 1..Len(names) |->
                    ValueToQuotedString(names[i]) \o ":" \o FastValue(v.map[names[i]])], ",")
               \o "}"
      [] OTHER -> Simple(v)

FastWrite(root) == FastValue(root) \o "\n"

-----------------------------------------------------------------------------
(* StyledWriter, and with stream = TRUE StyledStreamWriter.                *)

Write(w, text) == [w EXCEPT !.doc = @ \o text]

PushValue(w, text) ==
    IF w.adding THEN [w EXCEPT !.children = Append(@, text)] ELSE Write(w, text)

LastChar(w) == Ch(w.doc, Len(w.doc))

\* The stream cannot see what it has written.
WriteIndent(w) ==
    IF w.stream THEN Write(w, "\n" \o w.indent)
    ELSE IF w.doc = "" THEN Write(w, w.indent)
    ELSE IF LastChar(w) = " " THEN w
    ELSE Write(w, (IF LastChar(w) = "\n" THEN "" ELSE "\n") \o w.indent)

WriteWithIndent(w, text) == Write(WriteIndent(w), text)

Step(w)     == IF w.stream THEN Indentation ELSE IndentSize
Indent(w)   == [w EXCEPT !.indent = @ \o Step(w)]
Unindent(w) == [w EXCEPT !.indent = SubSeq(@, 1, Len(@) - Len(Step(w)))]

\* A carriage return, and the line feed after it, become a line feed.
RECURSIVE NormalizeEOL(_)
NormalizeEOL(s) ==
    IF s = "" THEN ""
    ELSE IF Ch(s, 1) # "\r" THEN Ch(s, 1) \o NormalizeEOL(Tail(s))
    ELSE "\n" \o NormalizeEOL(IF Len(s) > 1 /\ Ch(s, 2) = "\n" THEN Tail(Tail(s)) ELSE Tail(s))

CommentBefore(w, v) ==
    IF HasComment(v, "before") THEN Write(w, NormalizeEOL(v.comments["before"]) \o "\n") ELSE w

CommentAfter(w, v) ==
    Write(w, (IF HasComment(v, "sameLine")
                THEN " " \o NormalizeEOL(v.comments["sameLine"]) ELSE "")
          \o (IF HasComment(v, "after")
                THEN "\n" \o NormalizeEOL(v.comments["after"]) \o "\n" ELSE ""))

RECURSIVE WriteValue(_, _)

\* isMultineArray, up to its first loop.
ManyOrNested(v) ==
    \/ Size(v) * 3 >= RightMargin
    \/ \E i \in 0..Size(v) - 1 :
          LET c == Find(v, i) IN (IsArray(c) \/ IsObject(c)) /\ Size(c) > 0

\* Its second one, which writes the elements into childValues_, and would
\* look at their comments if isMultiLine was not FALSE all the while.
RECURSIVE AddChildren(_, _, _)
AddChildren(w, v, i) ==
    IF i = Size(v) THEN w ELSE AddChildren(WriteValue(w, Find(v, i)), v, i + 1)

RECURSIVE LengthOf(_)
LengthOf(texts) == IF texts = <<>> THEN 0 ELSE Len(Head(texts)) + LengthOf(Tail(texts))

\* The writer with its childValues_, of an array that may fit in a line; and
\* whether it does not.
IsMultineArray(w, v) ==
    IF ManyOrNested(v) THEN [w EXCEPT !.children = <<>>]
    ELSE [AddChildren([w EXCEPT !.children = <<>>, !.adding = TRUE], v, 0)
             EXCEPT !.adding = FALSE]
TooLong(w, v) ==
    ManyOrNested(v) \/ 4 + (Size(v) - 1) * 2 + LengthOf(w.children) >= RightMargin

\* The lines of an array.  childValues_ is used up as it is, or is empty.
RECURSIVE WriteElements(_, _, _, _)
ElementWritten(w, v, i, texts) ==
    IF i + 1 = Size(v) THEN CommentAfter(w, Find(v, i))
    ELSE WriteElements(CommentAfter(Write(w, ","), Find(v, i)), v, i + 1, texts)
Element(w, c, i, texts) ==
    IF texts # <<>> THEN WriteWithIndent(w, texts[i + 1]) ELSE WriteValue(WriteIndent(w), c)
WriteElements(w, v, i, texts) ==
    ElementWritten(Element(CommentBefore(w, Find(v, i)), Find(v, i), i, texts), v, i, texts)

ArrayWritten(w, v) ==
    IF TooLong(w, v)
      THEN WriteWithIndent(Unindent(WriteElements(Indent(WriteWithIndent(w, "[")),
                                                  v, 0, w.children)), "]")
      ELSE Write(w, "[ " \o Joined(w.children, ", ") \o " ]")
WriteArrayValue(w, v) ==
    IF Size(v) = 0 THEN PushValue(w, "[]") ELSE ArrayWritten(IsMultineArray(w, v), v)

RECURSIVE WriteMembers(_, _, _)
MemberWritten(w, c, v, names) ==
    IF Len(names) = 1 THEN CommentAfter(w, c)
    ELSE WriteMembers(CommentAfter(Write(w, ","), c), v, Tail(names))
Member(w, name, c) ==
    WriteValue(Write(WriteWithIndent(CommentBefore(w, c), ValueToQuotedString(name)), " : "), c)
WriteMembers(w, v, names) ==
    MemberWritten(Member(w, Head(names), v.map[Head(names)]), v.map[Head(names)], v, names)

WriteValue(w, v) ==
    CASE v.type = "array" -> WriteArrayValue(w, v)
      [] v.type = "object" ->
           IF DOMAIN v.map = {} THEN PushValue(w, "{}")
           ELSE WriteWithIndent(Unindent(
                    WriteMembers(Indent(WriteWithIndent(w, "{")), v, GetMemberNames(v))), "}")
      [] OTHER -> PushValue(w, Simple(v))

\* write, of either class.
StyledWrite(root, stream) ==
    LET w == [doc |-> "", indent |-> "", children |-> <<>>, adding |-> FALSE,
              stream |-> stream]
    IN  CommentAfter(WriteValue(CommentBefore(w, root), root), root).doc \o "\n"
=============================================================================
