----------------------------- MODULE SessionsMC -----------------------------
(* Sessions with three kinds: a buffer, a module whose creation may fail,  *)
(* and a group that names both (a creation that rests on others).          *)
EXTENDS Sessions

MCNames == [k \in Kinds |-> IF k = "group" THEN {"buffer", "module"} ELSE {}]
=============================================================================
