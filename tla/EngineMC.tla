------------------------------ MODULE EngineMC ------------------------------
(* Values for the constants of Engine.                                     *)
EXTENDS Engine

CONSTANTS d1, d2

TwoDevices == {d1, d2}

(* Two programs that have no kind of resource in common.                   *)
Apart  == [s \in Sessions |->
            IF s = d1 THEN {"buffer", "texture"} ELSE {"module", "cpipeline", "bgl"}]

Sources == {"module"}

Ids  == [k \in Kinds |-> IF \E s \in Sessions : k \in Creates[s] THEN 1 ELSE 0]
Recs == [s \in Sessions |-> IF s = d1 THEN 2 ELSE 0]
=============================================================================
