----------------------------- MODULE MCFraming -----------------------------
(* Framing on a small instance: four messages of different lengths, the    *)
(* shortest nothing but a byte and its '\n', the third longer than a read.  *)
EXTENDS Framing

MCEnd == [i \in 0..4 |-> CASE i = 0 -> 0 [] i = 1 -> 2 [] i = 2 -> 5
                           [] i = 3 -> 12 [] OTHER -> 15]
=============================================================================
