-------------------------------- MODULE Link --------------------------------
(***************************************************************************)
(* What one direction of a stream promises to those who send frames over   *)
(* it and those who read them (transport/mod.rs, protocol/codec.rs): the   *)
(* frames arrive in the order in which they were accepted, each once and   *)
(* as it was sent, and all of them arrive unless the stream breaks.        *)
(***************************************************************************)
EXTENDS Naturals, Sequences

CONSTANT Values

VARIABLES
    sent,   (* frames that were accepted for sending                       *)
    got,    (* frames that were read                                       *)
    up      (* FALSE once some of the frames may be lost                   *)

linkVars == <<sent, got, up>>

LInit == sent = <<>> /\ got = <<>> /\ up = TRUE

Send(v) == sent' = Append(sent, v) /\ UNCHANGED <<got, up>>

Deliver ==
    /\ Len(got) < Len(sent)
    /\ got' = Append(got, sent[Len(got) + 1])
    /\ UNCHANGED <<sent, up>>

Break == up /\ up' = FALSE /\ UNCHANGED <<sent, got>>

LNext == (\E v \in Values : Send(v)) \/ Deliver \/ Break

LSpec == LInit /\ [][LNext]_linkVars
LFair == WF_linkVars(up /\ Deliver)
=============================================================================
