------------------------------- MODULE MCText --------------------------------
(***************************************************************************)
(* From a request to its line of text, and back, on small instances, one   *)
(* model for all: a behaviour is one of one part, which is chosen at the   *)
(* start, and the other parts stay as they are.  Each property below is    *)
(* that of its part.                                                       *)
(*                                                                         *)
(*   connection  Connection, of a client that connects once: four messages *)
(*               of different lengths, the shortest nothing but a byte and *)
(*               its '\n', the third longer than a read; of the requests,  *)
(*               one is answered, one known, one the end of a message, and *)
(*               the others unknown                                        *)
(*   read        RequestText: texts of up to four fragments, and those     *)
(*               that begin in an array or an object                       *)
(*   value       RequestText: values of up to four nodes, with a comment   *)
(*   request     RequestText: up to three arguments                        *)
(*                                                                         *)
(* An Int has six bits, and a line of a StyledWriter sixteen characters.   *)
(***************************************************************************)
EXTENDS MCFraming, Connection, TLC

MCRegistered == {1, 2, -4}
MCAcked      == {1}

VARIABLES part, frags, root, service, args

textVars == <<frags, root, service, args>>
allVars  == <<part, connectionVars, textVars>>

Text == INSTANCE RequestText WITH
            MaxInt <- 31, MaxUInt <- 63, RightMargin <- 16,
            Beginnings <- {<<>>, <<"[", "1">>, <<"{", "\"a\":">>},
            Fragments <- {"[", "]", "{", "}", ",", "\"b\":40", "-4e1",
                          "/*c*/", "//c\n", "\r\n"},
            MaxFragments <- 4,
            Keys <- {"a", "b"}, MaxSize <- 3, MaxNodes <- 4,
            Comments <- {<<"before", "//c">>, <<"sameLine", "/*c*/">>},
            Args <- {"cmd", "\"", "rpc_service"}, Texts <- {"", "x", "\n\\u", "}", "~^"},
            Services <- {"s", "\n"}

AllInit ==
    /\ part \in {"connection", "read", "value", "request"}
    /\ ConnectionInit /\ Text!Init
    /\ part = "read" \/ frags = <<>>
    /\ part = "request" \/ service = "s"

-----------------------------------------------------------------------------
(* A step of one part.                                                     *)

InConnection == part = "connection" /\ UNCHANGED <<part, textVars>>
InText       == UNCHANGED <<part, connectionVars>>

AllNext ==
    \/ InConnection /\ ConnectionNext
    \/ part = "read" /\ InText /\ Text!Grow
    \/ part = "value" /\ InText /\ Text!Change
    \/ part = "request" /\ InText /\ Text!Fill

AllSpec == AllInit /\ [][AllNext]_allVars

-----------------------------------------------------------------------------
(* The properties of the parts, under their names there.                   *)

\* A text is read for what it says, and not when it is cut short.
ReaderSound == part = "read" => Text!ReaderSound

\* What the writers write is read as the same value.
RoundTrip == part = "value" => Text!RoundTrip

\* Values are ordered, convertible, resizable and found by paths as promised.
ValueLaws == part = "value" => Text!ValueLaws

\* A request is one line, and arrives as it was sent.
RequestSurvives == part = "request" => Text!RequestSurvives
=============================================================================
