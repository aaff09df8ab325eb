------------------------------ MODULE FramingMC ------------------------------
(* Values for the constants of Framing.                                    *)
EXTENDS Framing

(* Empty bodies, bodies of the largest size and one larger, of bytes that  *)
(* could be taken for lengths.                                             *)
ShortBodies == {[k \in 1..n |-> b] : n \in 0..(MaxBody + 1), b \in Bytes}

(* The first body of two different bytes is no value's.                    *)
MixedBody == {<<0, 1>>}
=============================================================================
