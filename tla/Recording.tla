------------------------------ MODULE Recording ------------------------------
(***************************************************************************)
(* Command encoders and passes, from the first call to the device:         *)
(* the drop-in's (dispatch.rs), the facade's (client/encoder.rs), and the  *)
(* replay of what they recorded (server/engine.rs).                        *)
(*                                                                         *)
(* An encoder records into a list. A pass records into a list of its own   *)
(* and puts it behind its encoder's when it is dropped; the facade's pass  *)
(* borrows the encoder until then, the drop-in's holds a reference, and    *)
(* its user is free of the borrow if it asks for that (forget_lifetime).   *)
(* A recording names resources without holding them, so a buffer whose     *)
(* last handle is dropped is destroyed under it. Several threads record    *)
(* and submit; the frames they ship stand on one ordered stream (Mux), and *)
(* the server carries out one at a time (Alone).                           *)
(***************************************************************************)
EXTENDS Naturals, Sequences, FiniteSets

CONSTANTS
    Encoders, Passes,
    Resources,
    Buffers,        (* those that Destroy removes at the server            *)
    Kept,           (* those whose users keep a handle until all that      *)
                    (* names them is submitted                             *)
    Calls,          (* the commands users record                           *)
    Borrowing,      (* encoders whose passes borrow them; the passes of    *)
                    (* the others forget the borrow                        *)
    MaxCommands,    (* bound, by encoder: commands recorded                *)
    MaxHandles,     (* bound, by resource: clones of its handle            *)
    WireCap,        (* bound: frames under way                             *)
    MaxFrame        (* most commands a frame carries, of MAX_FRAME_BYTES   *)

Commands == [op : {"encoder", "begin", "pass"}, uses : SUBSET Resources]
NoPass   == [enc |-> "none", cmds |-> <<>>]

ASSUME RecordingAssumption ==
    /\ IsFiniteSet(Encoders) /\ NoPass.enc \notin Encoders
    /\ Buffers \subseteq Resources /\ Kept \subseteq Resources
    /\ Calls \subseteq Commands
    /\ Borrowing \subseteq Encoders
    /\ MaxCommands \in [Encoders -> Nat]
    /\ MaxHandles \in [Resources -> Nat \ {0}]
    /\ WireCap \in Nat /\ MaxFrame \in Nat

VARIABLES
    phase,      (* of each encoder: recording, finished, gone              *)
    recording,  (* what stands behind the encoder's mutex                  *)
    finished,   (* CommandBuffer: what finish took out                     *)
    passes,     (* the passes that are open: their encoder and commands    *)
    handles,    (* clones of each resource's handle                        *)
    wire,       (* frames on their way to the server                       *)
    table,      (* resources the server knows                              *)
    executed,   (* command buffers given to the device, in order           *)
    refusal     (* of a submission: none, answered, discarded              *)

encoderVars == <<phase, recording, finished, passes>>
serverVars  == <<table, executed>>
vars        == <<encoderVars, handles, wire, serverVars, refusal>>

Init ==
    /\ phase = [e \in Encoders |-> "recording"]
    /\ recording = [e \in Encoders |-> <<>>]
    /\ finished = [e \in Encoders |-> <<>>]
    /\ passes = [p \in Passes |-> NoPass]
    /\ handles = [r \in Resources |-> 1]
    /\ wire = <<>>
    /\ table = Resources /\ executed = <<>>
    /\ refusal = "none"
-----------------------------------------------------------------------------
OpenPasses(e) == {p \in Passes : passes[p].enc = e}
Open(p)       == passes[p] # NoPass

(* A pass borrows its encoder: nothing else is done with the encoder       *)
(* meanwhile.                                                              *)
Unborrowed(e) == e \in Borrowing => OpenPasses(e) = {}

Held(c) == \A r \in c.uses : handles[r] > 0

Room(e) ==
    Len(recording[e]) + Cardinality(UNION {{p} \X DOMAIN passes[p].cmds :
                                             p \in OpenPasses(e)})
       < MaxCommands[e]

Push(e, cmds) == recording' = [recording EXCEPT ![e] = @ \o cmds]

(* copy_buffer_to_buffer, copy_texture_to_buffer, clear_buffer.            *)
Record(e, c) ==
    /\ phase[e] = "recording" /\ Unborrowed(e) /\ Room(e)
    /\ c.op = "encoder" /\ Held(c)
    /\ Push(e, <<c>>)
    /\ UNCHANGED <<phase, finished, passes, handles, wire, serverVars, refusal>>

(* begin_compute_pass, begin_render_pass: the pass starts with what it     *)
(* will be opened with at the server, attachments included.                *)
BeginPass(e, p, c) ==
    /\ phase[e] = "recording" /\ Unborrowed(e) /\ Room(e)
    /\ ~Open(p)
    /\ c.op = "begin" /\ Held(c)
    /\ passes' = [passes EXCEPT ![p] = [enc |-> e, cmds |-> <<c>>]]
    /\ UNCHANGED <<phase, recording, finished, handles, wire, serverVars, refusal>>

(* set_pipeline, set_bind_group, set_*_buffer, draw*, dispatch*.           *)
RecordInPass(p, c) ==
    /\ Open(p) /\ Room(passes[p].enc)
    /\ c.op = "pass" /\ Held(c)
    /\ passes' = [passes EXCEPT ![p].cmds = Append(@, c)]
    /\ UNCHANGED <<phase, recording, finished, handles, wire, serverVars, refusal>>

(* Fault: the pass goes in front of what its encoder has.                  *)
EndPass_InFront(p) ==
    /\ Open(p)
    /\ recording' = [recording EXCEPT ![passes[p].enc] = passes[p].cmds \o @]
    /\ passes' = [passes EXCEPT ![p] = NoPass]
    /\ UNCHANGED <<phase, finished, handles, wire, serverVars, refusal>>

(* Drop of the pass; end() does no more.                                   *)
EndPass(p) ==
    /\ Open(p)
    /\ Push(passes[p].enc, passes[p].cmds)
    /\ passes' = [passes EXCEPT ![p] = NoPass]
    /\ UNCHANGED <<phase, finished, handles, wire, serverVars, refusal>>

(* Fault: the recording is copied, not taken.                              *)
Finish_Copies(e) ==
    /\ phase[e] = "recording" /\ Unborrowed(e)
    /\ phase' = [phase EXCEPT ![e] = "finished"]
    /\ finished' = [finished EXCEPT ![e] = recording[e]]
    /\ UNCHANGED <<recording, passes, handles, wire, serverVars, refusal>>

(* finish takes the recording and leaves an empty one, into which a pass   *)
(* that is still open will go.                                             *)
Finish(e) ==
    /\ phase[e] = "recording" /\ Unborrowed(e)
    /\ phase' = [phase EXCEPT ![e] = "finished"]
    /\ finished' = [finished EXCEPT ![e] = recording[e]]
    /\ recording' = [recording EXCEPT ![e] = <<>>]
    /\ UNCHANGED <<passes, handles, wire, serverVars, refusal>>

(* An encoder or a command buffer is dropped unused.                       *)
Discarded(e) ==
    /\ phase' = [phase EXCEPT ![e] = "gone"]
    /\ finished' = [finished EXCEPT ![e] = <<>>]
    /\ recording' = [recording EXCEPT ![e] = <<>>]
    /\ UNCHANGED <<handles, wire, serverVars, refusal>>

Abandon(e) ==
    /\ phase[e] \in {"recording", "finished"} /\ Unborrowed(e)
    /\ Discarded(e)
    /\ UNCHANGED passes

(* A panic unwinds an encoder and its passes. One that takes only the pass *)
(* is an EndPass: the pass is dropped, and so recorded.                    *)
Unwind(e) ==
    /\ Discarded(e)
    /\ passes' = [p \in Passes |-> IF p \in OpenPasses(e) THEN NoPass ELSE passes[p]]

(* A feature the protocol lacks: the call is reported to the handler of    *)
(* uncaptured errors and otherwise left out, or panics if there is none.   *)
Unsupported(e) ==
    /\ phase[e] = "recording"
    /\ UNCHANGED vars \/ Unwind(e)

(* A call that is not bridged yet panics, handler or not.                  *)
Unwired(e) == phase[e] = "recording" /\ Unwind(e)
-----------------------------------------------------------------------------
Size(recs) ==
    LET upTo[n \in 0..Len(recs)] ==
            IF n = 0 THEN 0 ELSE upTo[n - 1] + Len(recs[n])
    IN  upTo[Len(recs)]
Fits(recs) == Size(recs) <= MaxFrame

Selections == {q \in UNION {[1..n -> Encoders] : n \in 0..Cardinality(Encoders)} :
                  /\ \A j \in DOMAIN q : phase[q[j]] = "finished"
                  /\ \A i, j \in DOMAIN q : q[i] = q[j] => i = j}

(* Queue::submit of the command buffers es. A frame over the limit does    *)
(* not encode, and send returns without a word.                            *)
Submit(es) ==
    /\ Len(wire) < WireCap
    /\ LET recs == [j \in DOMAIN es |-> finished[es[j]]] IN
       wire' = IF Fits(recs) THEN Append(wire, [op |-> "submit", recs |-> recs])
                             ELSE wire
    /\ phase' = [e \in Encoders |-> IF \E j \in DOMAIN es : es[j] = e
                                    THEN "gone" ELSE phase[e]]
    /\ finished' = [e \in Encoders |-> IF \E j \in DOMAIN es : es[j] = e
                                       THEN <<>> ELSE finished[e]]
    /\ UNCHANGED <<recording, passes, handles, serverVars, refusal>>

(* Clone and drop of a handle. The last drop ships Destroy.                *)
Clone(r) ==
    /\ handles[r] \in 1..(MaxHandles[r] - 1)
    /\ handles' = [handles EXCEPT ![r] = @ + 1]
    /\ UNCHANGED <<encoderVars, wire, serverVars, refusal>>

Uses(cmds) == UNION {cmds[j].uses : j \in DOMAIN cmds}
Unsent ==
    {r \in Resources :
       \/ \E e \in Encoders : r \in Uses(recording[e]) \cup Uses(finished[e])
       \/ \E p \in Passes : r \in Uses(passes[p].cmds)}

Destroy(r) == [op |-> "destroy", name |-> r]

(* Fault: every drop ships Destroy.                                        *)
DropHandle_Each(r) ==
    /\ handles[r] > 0 /\ Len(wire) < WireCap
    /\ handles[r] = 1 /\ r \in Kept => r \notin Unsent
    /\ handles' = [handles EXCEPT ![r] = @ - 1]
    /\ wire' = Append(wire, Destroy(r))
    /\ UNCHANGED <<encoderVars, serverVars, refusal>>

DropHandle(r) ==
    /\ handles[r] > 0 /\ Len(wire) < WireCap
    /\ handles[r] = 1 /\ r \in Kept => r \notin Unsent
    /\ handles' = [handles EXCEPT ![r] = @ - 1]
    /\ wire' = IF handles[r] = 1 THEN Append(wire, Destroy(r))
                                 ELSE wire
    /\ UNCHANGED <<encoderVars, serverVars, refusal>>
-----------------------------------------------------------------------------
(* Fault: a Destroy comes on a stream of its own and overtakes.            *)
ServeDestroy_OutOfTurn ==
    /\ \E i \in DOMAIN wire :
          /\ wire[i].op = "destroy"
          /\ table' = table \ ({wire[i].name} \cap Buffers)
          /\ wire' = SubSeq(wire, 1, i - 1) \o SubSeq(wire, i + 1, Len(wire))
    /\ UNCHANGED <<encoderVars, handles, executed, refusal>>

(* Engine: Destroy of anything but a buffer is ignored.                    *)
ServeDestroy ==
    /\ wire # <<>> /\ Head(wire).op = "destroy"
    /\ table' = table \ ({Head(wire).name} \cap Buffers)
    /\ wire' = Tail(wire)
    /\ UNCHANGED <<encoderVars, handles, executed, refusal>>

Needed(recs) == UNION {Uses(recs[i]) : i \in DOMAIN recs}

(* Fault: the command buffers replayed so far are submitted all the same.  *)
ServeSubmit_InPart ==
    /\ wire # <<>> /\ Head(wire).op = "submit"
    /\ LET recs == Head(wire).recs IN
       /\ executed' = executed \o SelectSeq(recs, LAMBDA cmds : Uses(cmds) \subseteq table)
       /\ refusal' = IF Needed(recs) \subseteq table THEN refusal ELSE "answered"
    /\ wire' = Tail(wire)
    /\ UNCHANGED <<encoderVars, handles, table>>

(* Engine::submit: every recording is replayed before any is submitted,    *)
(* and the first name that is unknown ends it.                             *)
ServeSubmit ==
    /\ wire # <<>> /\ Head(wire).op = "submit"
    /\ LET recs == Head(wire).recs IN
       IF Needed(recs) \subseteq table
       THEN executed' = executed \o recs /\ UNCHANGED refusal
       ELSE refusal' = "answered" /\ UNCHANGED executed
    /\ wire' = Tail(wire)
    /\ UNCHANGED <<encoderVars, handles, table>>

(* The reader finds nobody waiting for the answer to a send.               *)
Discard ==
    /\ refusal = "answered"
    /\ refusal' = "discarded"
    /\ UNCHANGED <<encoderVars, handles, wire, serverVars>>
-----------------------------------------------------------------------------
User ==
    \/ \E e \in Encoders, c \in Calls :
          Record(e, c) \/ \E p \in Passes : BeginPass(e, p, c)
    \/ \E p \in Passes : EndPass(p) \/ \E c \in Calls : RecordInPass(p, c)
    \/ \E e \in Encoders : Finish(e) \/ Abandon(e) \/ Unsupported(e) \/ Unwired(e)
    \/ \E es \in Selections : Submit(es)
    \/ \E r \in Resources : Clone(r) \/ DropHandle(r)

Next == User \/ ServeDestroy \/ ServeSubmit \/ Discard

Spec == Init /\ [][Next]_vars
-----------------------------------------------------------------------------
Recordings == Seq(Calls)
Frames == [op : {"destroy"}, name : Resources]
          \cup [op : {"submit"}, recs : Seq(Recordings)]

(* Types, and how the parts of an encoder fit: a command buffer exists     *)
(* between finish and submit, and with the borrow an encoder has one pass  *)
(* at most, and only while it records.                                     *)
TypeOK ==
    /\ phase \in [Encoders -> {"recording", "finished", "gone"}]
    /\ recording \in [Encoders -> Recordings]
    /\ finished \in [Encoders -> Recordings]
    /\ passes \in [Passes -> [enc : Encoders, cmds : Recordings] \cup {NoPass}]
    /\ handles \in [Resources -> Nat]
    /\ \A r \in Resources : handles[r] <= MaxHandles[r]
    /\ wire \in Seq(Frames)
    /\ table \subseteq Resources /\ executed \in Seq(Recordings)
    /\ refusal \in {"none", "answered", "discarded"}
    /\ \A e \in Encoders : phase[e] # "finished" => finished[e] = <<>>
    /\ \A e \in Borrowing :
          /\ phase[e] # "recording" => recording[e] = <<>> /\ OpenPasses(e) = {}
          /\ \A p, q \in OpenPasses(e) : p = q

(* Whatever names a resource its user keeps finds it at the server: before *)
(* the submission a handle stands for it, while one does the resource is   *)
(* there to stay, and what is under way comes before the Destroy.          *)
UnsentIsHeld == \A r \in Kept : r \in Unsent => handles[r] > 0
HeldStays ==
    \A r \in Kept : handles[r] > 0 => /\ r \in table
                                      /\ \A i \in DOMAIN wire : wire[i] # Destroy(r)
SentIsThere ==
    \A r \in Kept : \A j \in DOMAIN wire :
       wire[j].op = "submit" /\ r \in Needed(wire[j].recs) =>
          r \in table /\ \A i \in 1..(j - 1) : wire[i] # Destroy(r)
KeptIsThere == UnsentIsHeld /\ HeldStays /\ SentIsThere

(* The server never refuses a submission that names only what is kept.     *)
Serving == wire # <<>> /\ Head(wire).op = "submit" /\ wire' = Tail(wire)
ServesKept == Serving /\ Needed(Head(wire).recs) \subseteq Kept =>
                 executed' = executed \o Head(wire).recs
KeptIsExecuted == [][ServesKept]_vars

(* What the user has said to an encoder whose passes borrow it, in the     *)
(* order of the calls; of the others, what will become of it.              *)
Said(e) ==
    CASE phase[e] = "finished" -> finished[e]
      [] phase[e] = "recording" /\ e \in Borrowing /\ OpenPasses(e) # {} ->
            recording[e] \o passes[CHOOSE p \in Passes : passes[p].enc = e].cmds
      [] OTHER -> recording[e]

Tapes == [e \in Encoders |-> IF phase[e] = "gone" THEN <<>> ELSE Said(e)]

(* The submissions among frames under way.                                 *)
Submissions(frames) ==
    LET upTo[n \in 0..Len(frames)] ==
            IF n = 0 THEN <<>>
            ELSE IF frames[n].op = "submit" THEN Append(upTo[n - 1], frames[n].recs)
                                            ELSE upTo[n - 1]
    IN  upTo[Len(frames)]

(* What is recorded, finished, submitted and executed is what the user     *)
(* said, in that order; a submission takes effect as a whole or not at     *)
(* all, and is refused only if it names something its user did not keep.   *)
Promise == INSTANCE Tape WITH
    Ordered <- Borrowing,
    Commands <- Calls,
    Risky <- {c \in Calls : c.uses \cap (Buffers \ Kept) # {}},
    said <- Tapes,
    queue <- Submissions(wire)
ImplementsTape == Promise!Spec

(* A submission refused for a dropped resource comes back to its user.     *)
RefusalSurfaces == refusal # "discarded"
=============================================================================
