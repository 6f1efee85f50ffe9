----------------------------- MODULE JsonReader ------------------------------
(***************************************************************************)
(* Json::Reader: how a text becomes a value.                               *)
(*                                                                         *)
(* The members of the Reader are a record that goes through the calls: the *)
(* document and the place in it (pos is current_, from 1), the root and    *)
(* the path of the value at hand (nodes_), the comments that wait for a    *)
(* value (before), where the last value ended and which it was (last,      *)
(* lastPath), the errors, the token that was read last, and what the call  *)
(* has returned (ok).  Of an error only its two places are kept, 0 for     *)
(* none.                                                                   *)
(***************************************************************************)
EXTENDS JsonValue

Features(comments, strict) == [comments |-> comments, strict |-> strict]
All        == Features(TRUE, FALSE)
StrictMode == Features(FALSE, TRUE)

-----------------------------------------------------------------------------
(* Tokens.                                                                 *)

Space   == {" ", "\t", "\r", "\n"}
EOL     == {"\r", "\n"}
Numeric == Digits \cup {".", "e", "E", "+", "-"}

Has(doc, p, text) ==
    p + Len(text) <= Len(doc) + 1 /\ SubSeq(doc, p, p + Len(text) - 1) = text
Upto(doc, from, to) == SubSeq(doc, from, to - 1)

ContainsNewLine(doc, from, to) == \E p \in from..to - 1 : Ch(doc, p) \in EOL

\* The character behind the quote that ends a string, or 0.
RECURSIVE ReadString(_, _)
ReadString(doc, p) ==
    IF p > Len(doc) THEN 0
    ELSE IF Ch(doc, p) = "\\" THEN ReadString(doc, p + 2)
    ELSE IF Ch(doc, p) = "\"" THEN p + 1
    ELSE ReadString(doc, p + 1)

\* The character behind a comment that begins at p, or 0.
ReadCStyleComment(doc, p) ==
    LET Ends == {q \in p + 2..Len(doc) : Has(doc, q, "*/")}
    IN  IF Ends = {} THEN 0 ELSE Min(Ends) + 2
ReadCppStyleComment(doc, p) ==
    LET q == FirstOf(EOL, doc, p + 2)
    IN  IF q > Len(doc) THEN q ELSE q + 1

Token(type, start, end) == [type |-> type, start |-> start, end |-> end]
Literal == ("t" :> "true") @@ ("f" :> "false") @@ ("n" :> "null")
Mark == ("{" :> "{") @@ ("}" :> "}") @@ ("[" :> "[") @@ ("]" :> "]")
        @@ ("," :> ",") @@ (":" :> ":")

\* A token that turns out wrong is an error, and ends where that was seen.
Either(end, type, start, otherwise) ==
    IF end # 0 THEN Token(type, start, end) ELSE Token("error", start, otherwise)

\* readToken, but for what a comment does, at a character that is no space.
TokenAt(doc, p) ==
    LET c == Ch(doc, p) IN
    IF p > Len(doc) THEN Token("end", p, p)
    ELSE IF c \in DOMAIN Mark THEN Token(Mark[c], p, p + 1)
    ELSE IF c = "\"" THEN Either(ReadString(doc, p + 1), "string", p, Len(doc) + 1)
    ELSE IF Has(doc, p, "/*")
         THEN Either(ReadCStyleComment(doc, p), "comment", p, Len(doc) + 1)
    ELSE IF Has(doc, p, "//") THEN Token("comment", p, ReadCppStyleComment(doc, p))
    ELSE IF c = "/" THEN Token("error", p, Min({p + 2, Len(doc) + 1}))
    ELSE IF c \in Digits \cup {"-"}
         THEN Token("number", p, Behind(Numeric, doc, p + 1))
    ELSE IF c \in DOMAIN Literal /\ Has(doc, p, Literal[c])
         THEN Token(Literal[c], p, p + Len(Literal[c]))
    ELSE Token("error", p, p + 1)

SkipSpaces(doc, pos) == Behind(Space, doc, pos)

-----------------------------------------------------------------------------
(* The value at hand.                                                      *)

RECURSIVE At(_, _)
At(v, path) == IF path = <<>> THEN v ELSE At(v.map[Head(path)], Tail(path))

RECURSIVE Put(_, _, _)
Put(v, path, w) ==
    IF path = <<>> THEN w ELSE [v EXCEPT !.map[Head(path)] = Put(@, Tail(path), w)]

Current(s)   == At(s.root, s.path)
Becomes(s, v) == [s EXCEPT !.root = Put(@, s.path, Assign(Current(s), v))]
Enter(s, k)  == [s EXCEPT !.root = Put(@, s.path, Touch(Current(s), k)),
                          !.path = Append(@, k)]
Leave(s)     == [s EXCEPT !.path = SubSeq(@, 1, Len(@) - 1)]

Returns(s, ok) == [s EXCEPT !.ok = ok]
AddError(s, extra) ==
    [s EXCEPT !.ok = FALSE,
              !.errors = Append(@, [at |-> s.token.start, extra |-> extra])]

-----------------------------------------------------------------------------
(* Comments.                                                               *)

\* readComment's placement: behind the last value when on its line, and not
\* a comment of many lines.
SameLine(s, t) ==
    /\ s.last # 0
    /\ ~ContainsNewLine(s.doc, s.last, t.start)
    /\ Has(s.doc, t.start, "//") \/ ~ContainsNewLine(s.doc, t.start, t.end)

\* readComment and addComment.
AddComment(s, t) ==
    LET text == Upto(s.doc, t.start, t.end)
    IN  IF ~s.collect THEN s
        ELSE IF SameLine(s, t)
             THEN [s EXCEPT !.root =
                       Put(@, s.lastPath, SetComment(At(@, s.lastPath), "sameLine", text))]
        ELSE [s EXCEPT !.before = IF @ = "" THEN text ELSE @ \o "\n" \o text]

Takes(s, t) ==
    IF t.type = "comment" THEN AddComment([s EXCEPT !.token = t, !.pos = t.end], t)
    ELSE [s EXCEPT !.token = t, !.pos = t.end]

ReadToken(s) == Takes(s, TokenAt(s.doc, SkipSpaces(s.doc, s.pos)))

RECURSIVE PastComments(_)
PastComments(s) == IF s.token.type = "comment" THEN PastComments(ReadToken(s)) ELSE s

SkipCommentTokens(s) ==
    IF s.features.comments THEN PastComments(ReadToken(s)) ELSE ReadToken(s)

\* recoverFromError: on to a token of that type, or the end.
RECURSIVE RecoverFromError(_, _)
Recovered(s, until) ==
    IF s.token.type \in {until, "end"} THEN Returns(s, FALSE) ELSE RecoverFromError(s, until)
RecoverFromError(s, until) == Recovered(ReadToken(s), until)

\* Fault: an error that is not noted.
RecoverOnly(s, until) == RecoverFromError(s, until)

AddErrorAndRecover(s, until) == RecoverFromError(AddError(s, 0), until)

-----------------------------------------------------------------------------
(* Numbers.                                                                *)

Text(s) == Upto(s.doc, s.token.start, s.token.end)
Negative(text) == Ch(text, 1) = "-"
Magnitude(text) == IF Negative(text) THEN Tail(text) ELSE text

\* sscanf's %lf: the longest beginning that makes a number, or <<>>.
Run(m, p)   == Behind(Digits, m, p)
Power(m, p) == Decimal(Upto(m, p, Run(m, p)), 0)
Exponent(m, p) ==
    IF ~Has(m, p, "e") /\ ~Has(m, p, "E") THEN 0
    ELSE IF Has(m, p + 1, "-") THEN -Power(m, p + 2)
    ELSE Power(m, IF Has(m, p + 1, "+") THEN p + 2 ELSE p + 1)

\* Digits up to point, and, if there is one, those behind it, up to end.
Signed(text, n) == IF Negative(text) THEN -n ELSE n
DoubleFrom(text, m, point, end) ==
    LET after == IF end > point THEN end - point - 1 ELSE 0 IN
    IF point = 1 /\ after = 0 THEN <<>>
    ELSE <<Real(Signed(text, Decimal(Upto(m, 1, point) \o Upto(m, point + 1, end), 0)),
                Exponent(m, end) - after)>>
DoubleAt(text, m, point) ==
    DoubleFrom(text, m, point, IF Has(m, point, ".") THEN Run(m, point + 1) ELSE point)
DoubleOf(text) == DoubleAt(text, Magnitude(text), Run(Magnitude(text), 1))

\* decodeDouble: it fails when no beginning of the token is a number.
DoubleRead(s, d) == IF d = <<>> THEN AddError(s, 0) ELSE Returns(Becomes(s, d[1]), TRUE)
DecodeDouble(s)  == DoubleRead(s, DoubleOf(Text(s)))

IsDouble(text) ==
    \E i \in 1..Len(text) :
        \/ Ch(text, i) \in {".", "e", "E", "+"}
        \/ i > 1 /\ Ch(text, i) = "-"

\* Once it has reached a tenth of what fits, with a digit to come, it is
\* left to decodeDouble.
TooLarge(text) ==
    LET m == Magnitude(text)
        threshold == (IF Negative(text) THEN MaxInt + 1 ELSE MaxUInt) \div 10
    IN  \E i \in 1..Len(m) : Decimal(SubSeq(m, 1, i - 1), 0) >= threshold

DecodeNumber(s) ==
    LET text == Text(s)
        n    == Decimal(Magnitude(text), 0)
    IN  IF IsDouble(text) \/ TooLarge(text) THEN DecodeDouble(s)
        ELSE Returns(Becomes(s, IF Negative(text) THEN Int_(-n)
                                ELSE IF n <= MaxInt THEN Int_(n) ELSE UInt_(n)), TRUE)

-----------------------------------------------------------------------------
(* Strings.                                                                *)

Byte(n) == "<" \o ToString(n) \o ">"
Characters == [n \in {CodeOf(c) : c \in DOMAIN Code \cup {"\t", "\n", "\f", "\r"}} |->
                  CHOOSE c \in DOMAIN Code \cup {"\t", "\n", "\f", "\r"} : CodeOf(c) = n]
Character(n) == IF n = 8 THEN "~" ELSE IF n = 1 THEN "^" ELSE Characters[n]

CodePointToUTF8(cp) ==
    IF cp <= 127 THEN Character(cp)
    ELSE IF cp <= 2047 THEN Byte(192 + cp \div 64) \o Byte(128 + (cp % 64))
    ELSE IF cp <= 65535
         THEN Byte(224 + cp \div 4096) \o Byte(128 + ((cp \div 64) % 64)) \o Byte(128 + (cp % 64))
    ELSE IF cp <= 1114111
         THEN Byte(240 + ((cp \div 262144) % 8)) \o Byte(128 + ((cp \div 4096) % 64))
                  \o Byte(128 + ((cp \div 64) % 64)) \o Byte(128 + (cp % 64))
    ELSE ""

HexValue(c) == IF c \in Digits THEN CodeOf(c) - 48
               ELSE IF c \in {"A", "B", "C", "D", "E", "F"} THEN CodeOf(c) - 55
               ELSE CodeOf(c) - 87
Hex == Digits \cup {"a", "b", "c", "d", "e", "f", "A", "B", "C", "D", "E", "F"}

\* What a decoding of the characters p..end - 1 gives: a value and where it
\* stopped, or an error and where.
Decoded(value, p) == [ok |-> TRUE, value |-> value, at |-> p]
Failed(p)         == [ok |-> FALSE, at |-> p]

DecodeUnicodeEscapeSequence(doc, p, end) ==
    LET Bad == {q \in p..p + 3 : Ch(doc, q) \notin Hex}
        D(i) == HexValue(Ch(doc, p + i))
    IN  IF end - p < 4 THEN Failed(p)
        ELSE IF Bad # {} THEN Failed(Min(Bad) + 1)
        ELSE Decoded(4096 * D(0) + 256 * D(1) + 16 * D(2) + D(3), p + 4)

\* The second half of a pair may be any \u; high is the first.
Paired(high, low) ==
    IF low.ok THEN Decoded(65536 + (high.value % 1024) * 1024 + (low.value % 1024), low.at)
    ELSE low
Surrogate(doc, q, end, high) ==
    IF ~high.ok \/ high.value \notin 55296..56319 THEN high
    ELSE IF end - q < 6 THEN Failed(q)
    ELSE IF ~Has(doc, q, "\\u") THEN Failed(IF Ch(doc, q) = "\\" THEN q + 2 ELSE q + 1)
    ELSE Paired(high, DecodeUnicodeEscapeSequence(doc, q + 2, end))
DecodeUnicodeCodePoint(doc, p, end) ==
    Surrogate(doc, p + 4, end, DecodeUnicodeEscapeSequence(doc, p, end))

Unescaped == ("\"" :> "\"") @@ ("/" :> "/") @@ ("\\" :> "\\") @@ ("b" :> "~")
             @@ ("f" :> "\f") @@ ("n" :> "\n") @@ ("r" :> "\r") @@ ("t" :> "\t")

\* decodeString, between the quotes; readString has seen to it that neither
\* a quote nor the end is met where decodeString asks for them.
RECURSIVE Decode(_, _, _, _)
Goes(doc, end, decoded, u) ==
    IF u.ok THEN Decode(doc, u.at, end, decoded \o CodePointToUTF8(u.value)) ELSE u
Decode(doc, p, end, decoded) ==
    IF p = end THEN Decoded(decoded, p)
    ELSE IF Ch(doc, p) # "\\" THEN Decode(doc, p + 1, end, decoded \o Ch(doc, p))
    ELSE IF Ch(doc, p + 1) = "u"
         THEN Goes(doc, end, decoded, DecodeUnicodeCodePoint(doc, p + 2, end))
    ELSE IF Ch(doc, p + 1) \in DOMAIN Unescaped
         THEN Decode(doc, p + 2, end, decoded \o Unescaped[Ch(doc, p + 1)])
    ELSE Failed(p + 2)

DecodeText(s) == Decode(s.doc, s.token.start + 1, s.token.end - 1, "")

StringRead(s, d) ==
    IF d.ok THEN Returns(Becomes(s, Str(d.value)), TRUE) ELSE AddError(s, d.at)
DecodeString(s) == StringRead(s, DecodeText(s))

-----------------------------------------------------------------------------
(* Values.                                                                 *)

RECURSIVE ReadValue(_)

\* readObject's loop, in the order of its tokens.  Behind a comment after a
\* member any token but '}' is taken for the comma.
RECURSIVE ReadMembers(_, _)
AfterMember(s, name) == IF s.token.type = "}" THEN Returns(s, TRUE) ELSE ReadMembers(s, name)
Comma(s, name) ==
    IF s.token.type \notin {"}", ",", "comment"} THEN AddErrorAndRecover(s, "}")
    ELSE AfterMember(PastComments(s), name)
MemberRead(s, name) ==
    IF ~s.ok THEN RecoverFromError(Leave(s), "}") ELSE Comma(ReadToken(Leave(s)), name)
Colon(s, name) ==
    IF s.token.type # ":" THEN AddErrorAndRecover(s, "}")
    ELSE MemberRead(ReadValue(Enter(s, name)), name)
NameRead(s, d) ==
    IF ~d.ok THEN RecoverFromError(AddError(s, d.at), "}") ELSE Colon(ReadToken(s), d.value)

\* A '}' where a name is due ends the object when the name before it was
\* empty, or there was none.
MemberName(s, name) ==
    IF s.token.type = "}" /\ name = "" THEN Returns(s, TRUE)
    ELSE IF s.token.type # "string" THEN AddErrorAndRecover(s, "}")
    ELSE NameRead(s, DecodeText(s))
ReadMembers(s, name) == MemberName(PastComments(ReadToken(s)), name)

ReadObject(s) == ReadMembers(Becomes(s, Object(Empty)), "")

\* readArray's loop.  The test for a missing comma never holds: any token
\* but ']' is taken for one.
RECURSIVE ReadElements(_, _)
AfterElement(s, index) ==
    IF s.token.type = "]" THEN Returns(s, TRUE) ELSE ReadElements(s, index + 1)
ElementRead(s, index) ==
    IF ~s.ok THEN RecoverFromError(Leave(s), "]")
    ELSE AfterElement(PastComments(ReadToken(Leave(s))), index)
ReadElements(s, index) == ElementRead(ReadValue(Enter(s, index)), index)

ReadArray(s) ==
    IF Has(s.doc, SkipSpaces(s.doc, s.pos), "]")
      THEN Returns(ReadToken(Becomes(s, Array(Empty))), TRUE)
      ELSE ReadElements(Becomes(s, Array(Empty)), 0)

\* The comments that waited go to the value that begins.
Begin(s) ==
    IF s.before = "" THEN s
    ELSE [s EXCEPT !.root = Put(@, s.path, SetComment(Current(s), "before", s.before)),
                   !.before = ""]

\* Also a value that went wrong is the last one.
Finish(s) == IF s.collect THEN [s EXCEPT !.last = s.pos, !.lastPath = s.path] ELSE s

\* readValue, at the value's first token.
ValueAt(s) ==
    CASE s.token.type = "{" -> Finish(ReadObject(s))
      [] s.token.type = "[" -> Finish(ReadArray(s))
      [] s.token.type = "number" -> Finish(DecodeNumber(s))
      [] s.token.type = "string" -> Finish(DecodeString(s))
      [] s.token.type = "true" -> Finish(Returns(Becomes(s, Bool(TRUE)), TRUE))
      [] s.token.type = "false" -> Finish(Returns(Becomes(s, Bool(FALSE)), TRUE))
      [] s.token.type = "null" -> Finish(Returns(Becomes(s, Null), TRUE))
      [] OTHER -> AddError(s, 0)

ReadValue(s) == ValueAt(Begin(SkipCommentTokens(s)))

\* parse, into a fresh value.  What follows the value is not looked at,
\* comments apart.
Reader(doc, features, collectComments) ==
    [doc |-> doc, pos |-> 1, root |-> Null, path |-> <<>>, before |-> "",
     last |-> 0, lastPath |-> <<>>, errors |-> <<>>, token |-> Token("end", 1, 1),
     ok |-> TRUE, features |-> features, collect |-> collectComments /\ features.comments]
LastComments(s) ==
    IF s.before = "" THEN s ELSE [s EXCEPT !.root = SetComment(@, "after", s.before)]
Rooted(s) ==
    IF s.features.strict /\ ~IsArray(s.root) /\ ~IsObject(s.root)
      THEN AddError([s EXCEPT !.token.start = 1], 0)
      ELSE s
Parse(doc, features, collectComments) ==
    Rooted(LastComments(SkipCommentTokens(ReadValue(Reader(doc, features, collectComments)))))

-----------------------------------------------------------------------------
(* Where an error is.                                                      *)

RECURSIVE LineAndColumn(_, _, _, _, _)
LineAndColumn(doc, location, p, start, line) ==
    IF p >= location \/ p > Len(doc) THEN [line |-> line + 1, column |-> location - start + 1]
    ELSE IF Ch(doc, p) \notin EOL THEN LineAndColumn(doc, location, p + 1, start, line)
    ELSE LET q == IF Has(doc, p, "\r\n") THEN p + 2 ELSE p + 1
         IN  LineAndColumn(doc, location, q, q, line + 1)

GetLocationLineAndColumn(doc, location) == LineAndColumn(doc, location, 1, 1, 0)
=============================================================================
