------------------------------ MODULE MCParts -------------------------------
(***************************************************************************)
(* Parts on small instances.                                               *)
(*                                                                         *)
(*   lookup    two calls for different names                               *)
(*   thread    started up to three times                                   *)
(*   client    three connections, two chunks on each                       *)
(*   write     two senders, three messages of two bytes, room for three,   *)
(*             two errors                                                  *)
(*   answer    three clients, three requests of each                       *)
(*   handler   start_listen called twice, three requests, of which one is  *)
(*             answered and one known                                      *)
(*   refs      two objects, three ref_objs                                 *)
(*   services  two names, two objects, one cmd                             *)
(***************************************************************************)
EXTENDS Parts

CONSTANTS c1, c2, n1, n2, t1, t2, t3, s1, s2, k1, k2, k3, r1, r2, r3, o1, o2, p1, p2, p3, cmd

TwoCalls     == {c1, c2}
TwoNames     == {n1, n2}
MCNameOf     == [c \in Calls |-> IF c = c1 THEN n1 ELSE n2]
ThreeThreads == {t1, t2, t3}
TwoSenders   == {s1, s2}
MCMessages   == 1..3
ThreeClients == {k1, k2, k3}
MCRequests   == {r1, r2, r3}
MCRegistered == {r1, r2}
MCAcked      == {r1}
TwoObjects   == {o1, o2}
ThreePointers == {p1, p2, p3}
OneCmd       == {cmd}
=============================================================================
