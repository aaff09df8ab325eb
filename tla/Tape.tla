-------------------------------- MODULE Tape --------------------------------
(***************************************************************************)
(* What recording promises its user. An encoder is a tape: the commands    *)
(* stand on it in the order of the calls, whether a call was made on the   *)
(* encoder or on a pass. A tape that is closed does not change, is         *)
(* submitted at most once, and is executed with the others of its          *)
(* submission, in the order of the submissions, as a whole. A submission   *)
(* is refused only for a risky command, and then has no effect at all.     *)
(***************************************************************************)
EXTENDS Naturals, Sequences, FiniteSets

CONSTANTS
    Encoders,
    Ordered,   (* those whose commands are told in order                   *)
    Commands,
    Risky,     (* commands that may name what is gone                      *)
    Fits(_)    (* submissions that a frame can carry                       *)

VARIABLES
    phase,     (* of each encoder                                          *)
    said,      (* the commands its user gave so far                        *)
    queue,     (* submissions under way: sequences of tapes                *)
    executed   (* the tapes the device was given, in order                 *)

tapeVars == <<phase, said, queue, executed>>

Init ==
    /\ phase = [e \in Encoders |-> "recording"]
    /\ said = [e \in Encoders |-> <<>>]
    /\ queue = <<>> /\ executed = <<>>

Say(e, c) ==
    /\ phase[e] = "recording" /\ e \in Ordered
    /\ said' = [said EXCEPT ![e] = Append(@, c)]
    /\ UNCHANGED <<phase, queue, executed>>

(* No order is promised to the others until they are closed.               *)
Scribble(e) ==
    /\ phase[e] = "recording" /\ e \notin Ordered
    /\ said'[e] \in Seq(Commands)
    /\ said' = [said EXCEPT ![e] = said'[e]]
    /\ UNCHANGED <<phase, queue, executed>>

Close(e) ==
    /\ phase[e] = "recording"
    /\ phase' = [phase EXCEPT ![e] = "finished"]
    /\ UNCHANGED <<said, queue, executed>>

GiveUp(e) ==
    /\ phase[e] \in {"recording", "finished"}
    /\ phase' = [phase EXCEPT ![e] = "gone"]
    /\ said' = [said EXCEPT ![e] = <<>>]
    /\ UNCHANGED <<queue, executed>>

(* The tapes of a submission, each in its place.                           *)
Submit(es) ==
    /\ \A j \in DOMAIN es : phase[es[j]] = "finished"
    /\ \A i, j \in DOMAIN es : es[i] = es[j] => i = j
    /\ phase' = [e \in Encoders |-> IF \E j \in DOMAIN es : es[j] = e
                                    THEN "gone" ELSE phase[e]]
    /\ said' = [e \in Encoders |-> IF \E j \in DOMAIN es : es[j] = e
                                   THEN <<>> ELSE said[e]]
    /\ LET tapes == [j \in DOMAIN es |-> said[es[j]]] IN
       queue' = IF Fits(tapes) THEN Append(queue, tapes) ELSE queue
    /\ UNCHANGED executed

Execute ==
    /\ queue # <<>>
    /\ executed' = executed \o Head(queue)
    /\ queue' = Tail(queue)
    /\ UNCHANGED <<phase, said>>

Refuse ==
    /\ queue # <<>>
    /\ \E tape \in {Head(queue)[i] : i \in DOMAIN Head(queue)} :
          \E j \in DOMAIN tape : tape[j] \in Risky
    /\ queue' = Tail(queue)
    /\ UNCHANGED <<phase, said, executed>>

Selections == UNION {[1..n -> Encoders] : n \in 0..Cardinality(Encoders)}

Next ==
    \/ \E e \in Encoders : Scribble(e) \/ Close(e) \/ GiveUp(e)
    \/ \E e \in Encoders, c \in Commands : Say(e, c)
    \/ \E es \in Selections : Submit(es)
    \/ Execute \/ Refuse

Spec == Init /\ [][Next]_tapeVars
=============================================================================
