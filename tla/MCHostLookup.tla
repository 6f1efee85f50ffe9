---------------------------- MODULE MCHostLookup ----------------------------
(* HostLookup on small instances: two calls for different names, so that    *)
(* they can meet in gethostbyname, or one.                                  *)
EXTENDS HostLookup

CONSTANTS c1, c2, n1, n2

TwoCalls == {c1, c2}
OneCall  == {c1}
BothNames == {n1, n2}
MCNameOf  == [c \in Calls |-> IF c = c1 THEN n1 ELSE n2]
=============================================================================
