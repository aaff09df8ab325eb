--------------------------- MODULE RecordingProofs ---------------------------
(***************************************************************************)
(* Proofs about Recording for any encoders, passes, resources, calls and   *)
(* bounds: its types and how the parts of an encoder fit, that what users  *)
(* keep is there when it is replayed, and that it implements Tape.         *)
(***************************************************************************)
EXTENDS Recording, QueueFacts, TLAPS

(* What one list names, as lists grow.                                     *)
LEMMA UsesEmpty == Uses(<<>>) = {}
BY DEF Uses

LEMMA UsesAppend ==
    ASSUME NEW s \in Recordings, NEW c \in Calls
    PROVE  Append(s, c) \in Recordings /\ Uses(Append(s, c)) = Uses(s) \cup c.uses
<1>1. Append(s, c) \in Recordings /\ Len(Append(s, c)) = Len(s) + 1
    BY AppendFacts DEF Recordings
<1>2. /\ \A k \in 1..Len(s) : Append(s, c)[k] = s[k]
      /\ Append(s, c)[Len(s) + 1] = c
    BY AppendFacts DEF Recordings
<1>3. DOMAIN s = 1..Len(s) /\ DOMAIN Append(s, c) = 1..(Len(s) + 1) /\ Len(s) \in Nat
    BY <1>1 DEF Recordings
<1>4. ASSUME NEW r, r \in Uses(Append(s, c)) PROVE r \in Uses(s) \cup c.uses
    <2>1. PICK k \in 1..(Len(s) + 1) : r \in Append(s, c)[k].uses
        BY <1>3, <1>4 DEF Uses
    <2>2. k \in 1..Len(s) \/ k = Len(s) + 1
        BY <1>3
    <2>3. QED
        BY <1>2, <1>3, <2>1, <2>2 DEF Uses
<1>5. ASSUME NEW r, r \in Uses(s) \cup c.uses PROVE r \in Uses(Append(s, c))
    <2>1. CASE r \in c.uses
        <3>1. Len(s) + 1 \in DOMAIN Append(s, c)
            BY <1>3
        <3>2. QED
            BY <1>2, <2>1, <3>1 DEF Uses
    <2>2. CASE r \in Uses(s)
        <3>1. PICK k \in 1..Len(s) : r \in s[k].uses
            BY <1>3, <2>2 DEF Uses
        <3>2. k \in DOMAIN Append(s, c)
            BY <1>3
        <3>3. QED
            BY <1>2, <3>1, <3>2 DEF Uses
    <2>3. QED
        BY <1>5, <2>1, <2>2
<1>6. QED
    BY <1>1, <1>4, <1>5

LEMMA UsesConcat ==
    ASSUME NEW s \in Recordings, NEW t \in Recordings
    PROVE  s \o t \in Recordings /\ Uses(s \o t) \subseteq Uses(s) \cup Uses(t)
<1>1. /\ s \o t \in Recordings /\ Len(s) \in Nat /\ Len(t) \in Nat
      /\ Len(s \o t) = Len(s) + Len(t)
      /\ DOMAIN (s \o t) = 1..(Len(s) + Len(t))
      /\ DOMAIN s = 1..Len(s) /\ DOMAIN t = 1..Len(t)
    BY DEF Recordings
<1>2. \A k \in 1..(Len(s) + Len(t)) :
         (s \o t)[k] = IF k <= Len(s) THEN s[k] ELSE t[k - Len(s)]
    BY <1>1 DEF Recordings
<1>3. ASSUME NEW r, r \in Uses(s \o t) PROVE r \in Uses(s) \cup Uses(t)
    <2>1. PICK k \in 1..(Len(s) + Len(t)) : r \in (s \o t)[k].uses
        BY <1>1, <1>3 DEF Uses
    <2>2. CASE k <= Len(s)
        <3>1. k \in DOMAIN s /\ (s \o t)[k] = s[k]
            BY <1>1, <1>2, <2>2
        <3>2. QED
            BY <2>1, <3>1 DEF Uses
    <2>3. CASE ~(k <= Len(s))
        <3>1. k - Len(s) \in DOMAIN t /\ (s \o t)[k] = t[k - Len(s)]
            BY <1>1, <1>2, <2>3
        <3>2. QED
            BY <2>1, <3>1 DEF Uses
    <2>4. QED
        BY <2>2, <2>3
<1>4. QED
    BY <1>1, <1>3
-----------------------------------------------------------------------------
(* A single call is a recording.                                           *)
LEMMA OneCall ==
    ASSUME NEW c \in Calls
    PROVE  <<c>> \in Recordings /\ Uses(<<c>>) = c.uses
<1>1. <<>> \in Recordings /\ Append(<<>>, c) = <<c>>
    BY DEF Recordings
<1>2. QED
    BY <1>1, UsesAppend, UsesEmpty
-----------------------------------------------------------------------------
(* TypeOK in two parts: the encoders with their passes, and the rest.      *)
EncoderOK ==
    /\ phase \in [Encoders -> {"recording", "finished", "gone"}]
    /\ recording \in [Encoders -> Recordings]
    /\ finished \in [Encoders -> Recordings]
    /\ passes \in [Passes -> [enc : Encoders, cmds : Recordings] \cup {NoPass}]
    /\ \A e \in Encoders : phase[e] # "finished" => finished[e] = <<>>
    /\ \A e \in Borrowing :
          /\ phase[e] # "recording" => recording[e] = <<>> /\ OpenPasses(e) = {}
          /\ \A p, q \in OpenPasses(e) : p = q
RestOK ==
    /\ handles \in [Resources -> Nat]
    /\ \A r \in Resources : handles[r] <= MaxHandles[r]
    /\ wire \in Seq(Frames)
    /\ table \subseteq Resources /\ executed \in Seq(Recordings)
    /\ refusal \in {"none", "answered", "discarded"}

LEMMA TypeParts == (TypeOK <=> EncoderOK /\ RestOK) /\ (TypeOK' <=> EncoderOK' /\ RestOK')
BY DEF TypeOK, EncoderOK, RestOK

(* An open pass is one of an encoder's.                                    *)
LEMMA OpenFacts ==
    ASSUME EncoderOK, NEW p \in Passes, Open(p)
    PROVE  /\ passes[p].enc \in Encoders /\ passes[p].cmds \in Recordings
           /\ p \in OpenPasses(passes[p].enc)
           /\ passes[p].enc \in Borrowing => phase[passes[p].enc] = "recording"
<1>1. passes[p] \in [enc : Encoders, cmds : Recordings]
    BY DEF EncoderOK, Open
<1>2. p \in OpenPasses(passes[p].enc)
    BY DEF OpenPasses
<1>3. passes[p].enc \in Borrowing => OpenPasses(passes[p].enc) # {}
    BY <1>2
<1>4. QED
    BY <1>1, <1>2, <1>3 DEF EncoderOK

LEMMA EncoderInit == Init => EncoderOK
<1>1. <<>> \in Recordings
    BY DEF Recordings
<1>2. Init => \A e \in Encoders : OpenPasses(e) = {}
    BY RecordingAssumption DEF Init, OpenPasses
<1>3. QED
    BY <1>1, <1>2, RecordingAssumption DEF Init, EncoderOK

LEMMA RestInit == Init => RestOK
BY RecordingAssumption DEF Init, RestOK

(* Passes that are only taken away, or stay, keep what is said of them.    *)
LEMMA PassesShrink ==
    ASSUME EncoderOK,
           \A p \in Passes : passes'[p] = passes[p] \/ passes'[p] = NoPass
    PROVE  \A e \in Encoders : OpenPasses(e)' \subseteq OpenPasses(e)
BY RecordingAssumption DEF OpenPasses

LEMMA EncoderRecord ==
    ASSUME EncoderOK, NEW e \in Encoders, NEW c \in Calls, Record(e, c)
    PROVE  EncoderOK'
<1>1. recording[e] \o <<c>> \in Recordings
    BY OneCall, UsesConcat DEF EncoderOK
<1>2. recording' \in [Encoders -> Recordings]
    BY <1>1 DEF EncoderOK, Record, Push
<1>3. \A x \in Encoders : phase[x] # "recording" => recording'[x] = recording[x]
    BY DEF EncoderOK, Record, Push
<1>4. phase' = phase /\ finished' = finished /\ passes' = passes
    BY DEF Record
<1>5. QED
    BY <1>2, <1>3, <1>4, RecordingAssumption DEF EncoderOK, OpenPasses

LEMMA EncoderBegin ==
    ASSUME EncoderOK, NEW e \in Encoders, NEW p \in Passes, NEW c \in Calls,
           BeginPass(e, p, c)
    PROVE  EncoderOK'
<1>1. <<c>> \in Recordings
    BY OneCall
<1>2. /\ passes' = [passes EXCEPT ![p] = [enc |-> e, cmds |-> <<c>>]]
      /\ phase' = phase /\ finished' = finished /\ recording' = recording
    BY DEF BeginPass
<1>3. passes' \in [Passes -> [enc : Encoders, cmds : Recordings] \cup {NoPass}]
    BY <1>1, <1>2 DEF EncoderOK
<1>4. \A x \in Encoders : OpenPasses(x)' \subseteq OpenPasses(x) \cup {p}
    BY <1>2 DEF OpenPasses, EncoderOK
<1>5. \A x \in Encoders : x # e => OpenPasses(x)' \subseteq OpenPasses(x)
    BY <1>2 DEF OpenPasses, EncoderOK
<1>6. e \in Borrowing => OpenPasses(e) = {} /\ phase[e] = "recording"
    BY DEF BeginPass, Unborrowed
<1>7. \A x \in Borrowing : /\ phase[x] # "recording" => OpenPasses(x)' = {}
                           /\ \A q, r \in OpenPasses(x)' : q = r
    <2> TAKE x \in Borrowing
    <2>1. CASE x = e
        BY <1>4, <1>6, <2>1
    <2>2. CASE x # e
        <3>1. OpenPasses(x)' \subseteq OpenPasses(x)
            BY <1>5, <2>2, RecordingAssumption
        <3>2. QED
            BY <3>1 DEF EncoderOK
    <2>3. QED
        BY <2>1, <2>2
<1>8. QED
    BY <1>2, <1>3, <1>7 DEF EncoderOK

LEMMA EncoderInPass ==
    ASSUME EncoderOK, NEW p \in Passes, NEW c \in Calls, RecordInPass(p, c)
    PROVE  EncoderOK'
<1>1. passes[p].enc \in Encoders /\ Append(passes[p].cmds, c) \in Recordings
    BY OpenFacts, UsesAppend DEF RecordInPass
<1>2. passes[p] \in [enc : Encoders, cmds : Recordings]
    BY DEF EncoderOK, RecordInPass, Open
<1>3. /\ passes' = [passes EXCEPT ![p].cmds = Append(@, c)]
      /\ phase' = phase /\ finished' = finished /\ recording' = recording
    BY DEF RecordInPass
<1>4. passes'[p] = [enc |-> passes[p].enc, cmds |-> Append(passes[p].cmds, c)]
    BY <1>2, <1>3 DEF EncoderOK
<1>5. passes' \in [Passes -> [enc : Encoders, cmds : Recordings] \cup {NoPass}]
    BY <1>1, <1>3, <1>4 DEF EncoderOK
<1>6. \A q \in Passes : passes'[q].enc = passes[q].enc
    BY <1>3, <1>4 DEF EncoderOK
<1>7. \A x \in Encoders : OpenPasses(x)' = OpenPasses(x)
    BY <1>6 DEF OpenPasses
<1>8. QED
    BY <1>3, <1>5, <1>7, RecordingAssumption DEF EncoderOK

LEMMA EncoderEnd ==
    ASSUME EncoderOK, NEW p \in Passes, EndPass(p)
    PROVE  EncoderOK'
<1> DEFINE e == passes[p].enc
<1>1. /\ e \in Encoders /\ passes[p].cmds \in Recordings
      /\ e \in Borrowing => phase[e] = "recording"
    BY OpenFacts DEF EndPass
<1>2. recording[e] \o passes[p].cmds \in Recordings
    BY <1>1, UsesConcat DEF EncoderOK
<1>3. /\ recording' = [recording EXCEPT ![e] = @ \o passes[p].cmds]
      /\ passes' = [passes EXCEPT ![p] = NoPass]
      /\ phase' = phase /\ finished' = finished
    BY DEF EndPass, Push
<1>4. recording' \in [Encoders -> Recordings]
    BY <1>2, <1>3 DEF EncoderOK
<1>5. passes' \in [Passes -> [enc : Encoders, cmds : Recordings] \cup {NoPass}]
    BY <1>3 DEF EncoderOK
<1>6. \A x \in Encoders : OpenPasses(x)' \subseteq OpenPasses(x)
    BY <1>3, PassesShrink DEF EncoderOK
<1>7. \A x \in Encoders : x # e => recording'[x] = recording[x]
    BY <1>3 DEF EncoderOK
<1>8. \A x \in Borrowing : /\ phase[x] # "recording" => recording'[x] = <<>> /\ OpenPasses(x)' = {}
                           /\ \A q, r \in OpenPasses(x)' : q = r
    BY <1>1, <1>6, <1>7, RecordingAssumption DEF EncoderOK
<1>9. QED
    BY <1>3, <1>4, <1>5, <1>8 DEF EncoderOK

LEMMA EncoderFinish ==
    ASSUME EncoderOK, NEW e \in Encoders, Finish(e)
    PROVE  EncoderOK'
<1>1. /\ phase' = [phase EXCEPT ![e] = "finished"]
      /\ finished' = [finished EXCEPT ![e] = recording[e]]
      /\ recording' = [recording EXCEPT ![e] = <<>>]
      /\ passes' = passes
      /\ e \in Borrowing => OpenPasses(e) = {}
    BY DEF Finish, Unborrowed
<1>2. <<>> \in Recordings
    BY DEF Recordings
<1>3. \A x \in Encoders : OpenPasses(x)' = OpenPasses(x)
    BY <1>1 DEF OpenPasses
<1>4. \A x \in Borrowing : /\ phase'[x] # "recording" => recording'[x] = <<>> /\ OpenPasses(x)' = {}
                           /\ \A q, r \in OpenPasses(x)' : q = r
    BY <1>1, <1>3, RecordingAssumption DEF EncoderOK
<1>5. QED
    BY <1>1, <1>2, <1>4 DEF EncoderOK

(* Encoders that are given up, with all of their passes or with none       *)
(* open that borrows.                                                      *)
LEMMA EncoderDiscard ==
    ASSUME EncoderOK, NEW e \in Encoders, Discarded(e),
           \A p \in Passes : passes'[p] = passes[p] \/ passes'[p] = NoPass,
           passes' \in [Passes -> [enc : Encoders, cmds : Recordings] \cup {NoPass}],
           e \in Borrowing => OpenPasses(e)' = {}
    PROVE  EncoderOK'
<1>1. \A x \in Encoders : OpenPasses(x)' \subseteq OpenPasses(x)
    BY PassesShrink
<1>2. <<>> \in Recordings
    BY DEF Recordings
<1>3. \A x \in Borrowing : /\ phase'[x] # "recording" => recording'[x] = <<>> /\ OpenPasses(x)' = {}
                           /\ \A q, r \in OpenPasses(x)' : q = r
    BY <1>1, RecordingAssumption DEF EncoderOK, Discarded
<1>4. QED
    BY <1>2, <1>3 DEF EncoderOK, Discarded

LEMMA EncoderAbandon ==
    ASSUME EncoderOK, NEW e \in Encoders, Abandon(e)
    PROVE  EncoderOK'
<1>1. e \in Borrowing => OpenPasses(e)' = {}
    BY DEF Abandon, Unborrowed, OpenPasses
<1>2. QED
    BY <1>1, EncoderDiscard DEF Abandon, EncoderOK

LEMMA EncoderUnwind ==
    ASSUME EncoderOK, NEW e \in Encoders, Unwind(e)
    PROVE  EncoderOK'
<1>1. \A p \in Passes : passes'[p] = passes[p] \/ passes'[p] = NoPass
    BY DEF Unwind
<1>2. passes' \in [Passes -> [enc : Encoders, cmds : Recordings] \cup {NoPass}]
    BY DEF Unwind, EncoderOK
<1>3. OpenPasses(e)' = {}
    BY RecordingAssumption DEF Unwind, OpenPasses
<1>4. QED
    BY <1>1, <1>2, <1>3, EncoderDiscard DEF Unwind

LEMMA EncoderSubmit ==
    ASSUME EncoderOK, NEW es, es \in Selections, Submit(es)
    PROVE  EncoderOK'
<1>1. /\ recording' = recording /\ passes' = passes
      /\ phase' = [e \in Encoders |-> IF \E j \in DOMAIN es : es[j] = e
                                      THEN "gone" ELSE phase[e]]
      /\ finished' = [e \in Encoders |-> IF \E j \in DOMAIN es : es[j] = e
                                         THEN <<>> ELSE finished[e]]
    BY DEF Submit
<1>2. \A e \in Encoders : phase[e] = "recording" => phase'[e] = "recording"
    BY <1>1 DEF Selections
<1>3. <<>> \in Recordings
    BY DEF Recordings
<1>4. \A e \in Encoders : phase'[e] # "recording" => phase[e] # "recording"
    BY <1>2
<1>5. \A x \in Encoders : OpenPasses(x)' = OpenPasses(x)
    BY <1>1 DEF OpenPasses
<1>6. \A x \in Borrowing : /\ phase'[x] # "recording" => recording'[x] = <<>> /\ OpenPasses(x)' = {}
                           /\ \A q, r \in OpenPasses(x)' : q = r
    BY <1>1, <1>4, <1>5, RecordingAssumption DEF EncoderOK
<1>7. QED
    BY <1>1, <1>3, <1>6 DEF EncoderOK

LEMMA EncoderStep == EncoderOK /\ [Next]_vars => EncoderOK'
<1> SUFFICES ASSUME EncoderOK, [Next]_vars PROVE EncoderOK'
    OBVIOUS
<1>1. ASSUME UNCHANGED encoderVars PROVE EncoderOK'
    BY <1>1 DEF EncoderOK, OpenPasses, encoderVars
<1>2. CASE UNCHANGED vars
    BY <1>1, <1>2 DEF vars
<1>3. CASE User
    <2>1. ASSUME NEW e \in Encoders, Unsupported(e) PROVE EncoderOK'
        BY <1>1, <2>1, EncoderUnwind DEF Unsupported, vars
    <2>2. ASSUME NEW e \in Encoders, Unwired(e) PROVE EncoderOK'
        BY <2>2, EncoderUnwind DEF Unwired
    <2>3. ASSUME NEW r \in Resources, Clone(r) \/ DropHandle(r) PROVE EncoderOK'
        BY <1>1, <2>3 DEF Clone, DropHandle
    <2>4. QED
        BY <1>3, <2>1, <2>2, <2>3, EncoderRecord, EncoderBegin, EncoderInPass,
           EncoderEnd, EncoderFinish, EncoderAbandon, EncoderSubmit DEF User
<1>4. CASE ServeDestroy \/ ServeSubmit \/ Discard
    BY <1>1, <1>4 DEF ServeDestroy, ServeSubmit, Discard
<1>5. QED
    BY <1>2, <1>3, <1>4 DEF Next
-----------------------------------------------------------------------------
(* What a submission ships.                                                *)
Shipped(es) == [j \in DOMAIN es |-> finished[es[j]]]

LEMMA ShippedType ==
    ASSUME EncoderOK, NEW es \in Selections
    PROVE  /\ Shipped(es) \in Seq(Recordings)
           /\ [op |-> "submit", recs |-> Shipped(es)] \in Frames
<1>1. PICK n \in 0..Cardinality(Encoders) : es \in [1..n -> Encoders]
    BY DEF Selections
<1>2. n \in Nat /\ DOMAIN es = 1..n
    BY <1>1
<1>3. Shipped(es) \in [1..n -> Recordings]
    BY <1>1, <1>2 DEF Shipped, EncoderOK
<1>4. Shipped(es) \in Seq(Recordings)
    BY <1>2, <1>3, BuiltFacts
<1>5. QED
    BY <1>4 DEF Frames

LEMMA RestSubmit ==
    ASSUME EncoderOK, RestOK, NEW es \in Selections, Submit(es)
    PROVE  RestOK'
<1>1. wire' = IF Fits(Shipped(es)) THEN Append(wire, [op |-> "submit", recs |-> Shipped(es)])
                                   ELSE wire
    BY DEF Submit, Shipped
<1>2. wire' \in Seq(Frames)
    BY <1>1, ShippedType, AppendFacts DEF RestOK
<1>3. QED
    BY <1>2 DEF Submit, serverVars, RestOK

LEMMA RestHandles ==
    ASSUME RestOK, NEW r \in Resources, Clone(r) \/ DropHandle(r)
    PROVE  RestOK'
<1>1. CASE Clone(r)
    <2>1. handles' = [handles EXCEPT ![r] = @ + 1] /\ handles[r] \in 1..(MaxHandles[r] - 1)
        BY <1>1 DEF Clone
    <2>2. /\ handles \in [Resources -> Nat] /\ MaxHandles \in [Resources -> Nat \ {0}]
          /\ \A x \in Resources : handles[x] <= MaxHandles[x]
        BY RecordingAssumption DEF RestOK
    <2>3. handles' \in [Resources -> Nat] /\ \A x \in Resources : handles'[x] <= MaxHandles[x]
        BY ONLY <2>1, <2>2, r \in Resources
    <2>4. QED
        BY <1>1, <2>3 DEF Clone, RestOK, serverVars
<1>2. CASE DropHandle(r)
    <2>1. Destroy(r) \in Frames
        BY DEF Frames, Destroy
    <2>2. wire' \in Seq(Frames)
        BY <1>2, <2>1, AppendFacts DEF DropHandle, RestOK
    <2>3. handles' = [handles EXCEPT ![r] = @ - 1] /\ handles[r] > 0
        BY <1>2 DEF DropHandle
    <2>4. /\ handles \in [Resources -> Nat] /\ MaxHandles \in [Resources -> Nat \ {0}]
          /\ \A x \in Resources : handles[x] <= MaxHandles[x]
        BY RecordingAssumption DEF RestOK
    <2>5. handles' \in [Resources -> Nat] /\ \A x \in Resources : handles'[x] <= MaxHandles[x]
        BY ONLY <2>3, <2>4, r \in Resources
    <2>6. QED
        BY <1>2, <2>2, <2>5 DEF DropHandle, RestOK, serverVars
<1>3. QED
    BY <1>1, <1>2

(* The frame the server takes, and what it leaves.                         *)
LEMMA HeadFrame ==
    ASSUME RestOK, wire # <<>>
    PROVE  /\ Head(wire) \in Frames /\ Head(wire) = wire[1]
           /\ Tail(wire) \in Seq(Frames)
           /\ Head(wire).op = "submit" => Head(wire).recs \in Seq(Recordings)
           /\ Head(wire).op = "destroy" => /\ Head(wire).name \in Resources
                                           /\ Head(wire) = [op |-> "destroy", name |-> Head(wire).name]
<1>1. wire \in Seq(Frames)
    BY DEF RestOK
<1>2. /\ Head(wire) \in Frames /\ Head(wire) = wire[1]
      /\ Tail(wire) \in Seq(Frames)
    BY <1>1, TailFacts
<1>3. QED
    BY <1>2 DEF Frames

LEMMA RestServe ==
    ASSUME RestOK, ServeDestroy \/ ServeSubmit
    PROVE  RestOK'
<1>1. wire # <<>> /\ wire' = Tail(wire) /\ handles' = handles
    BY DEF ServeDestroy, ServeSubmit
<1>2. wire' \in Seq(Frames)
    BY <1>1, HeadFrame
<1>3. CASE ServeDestroy
    BY <1>1, <1>2, <1>3 DEF ServeDestroy, RestOK
<1>4. CASE ServeSubmit
    <2>1. executed \o Head(wire).recs \in Seq(Recordings)
        BY <1>1, <1>4, HeadFrame DEF ServeSubmit, RestOK
    <2>2. executed' \in Seq(Recordings) /\ table' = table
        BY <1>4, <2>1 DEF ServeSubmit, RestOK
    <2>3. refusal' \in {"none", "answered", "discarded"}
        BY <1>4 DEF ServeSubmit, RestOK
    <2>4. QED
        BY <1>1, <1>2, <2>2, <2>3 DEF RestOK
<1>5. QED
    BY <1>3, <1>4

(* The user's actions, for proofs that distinguish them less.              *)
Recorder == \/ \E e \in Encoders, c \in Calls : Record(e, c)
            \/ \E e \in Encoders, p \in Passes, c \in Calls : BeginPass(e, p, c)
            \/ \E p \in Passes, c \in Calls : RecordInPass(p, c)
            \/ \E p \in Passes : EndPass(p)
            \/ \E e \in Encoders : Finish(e) \/ Abandon(e)
            \/ \E e \in Encoders : phase[e] = "recording" /\ Unwind(e)

LEMMA UserCases ==
    ASSUME User
    PROVE  \/ Recorder \/ UNCHANGED vars
           \/ \E es \in Selections : Submit(es)
           \/ \E r \in Resources : Clone(r) \/ DropHandle(r)
BY DEF User, Recorder, Unsupported, Unwired

LEMMA RecorderFrame ==
    ASSUME Recorder
    PROVE  UNCHANGED <<handles, wire, serverVars, refusal>>
BY DEF Recorder, Record, BeginPass, RecordInPass, EndPass, Finish, Abandon, Unwind, Discarded

LEMMA RestStep == EncoderOK /\ RestOK /\ [Next]_vars => RestOK'
<1> SUFFICES ASSUME EncoderOK, RestOK, [Next]_vars PROVE RestOK'
    OBVIOUS
<1>1. ASSUME UNCHANGED <<handles, wire, serverVars, refusal>> PROVE RestOK'
    BY <1>1 DEF RestOK, serverVars
<1>2. CASE UNCHANGED vars
    BY <1>1, <1>2 DEF vars
<1>3. CASE User
    BY <1>1, <1>2, <1>3, UserCases, RecorderFrame, RestSubmit, RestHandles
<1>4. CASE Discard
    BY <1>4 DEF Discard, RestOK, serverVars
<1>5. QED
    BY <1>2, <1>3, <1>4, RestServe DEF Next

(* Every encoder, command buffer, pass and frame is well typed, a command  *)
(* buffer exists only between finish and submit, and a pass that borrows   *)
(* its encoder is its only one and is over before finish takes the         *)
(* recording.                                                              *)
THEOREM TypeCorrect == Spec => []TypeOK
<1>1. Init => TypeOK
    BY EncoderInit, RestInit, TypeParts
<1>2. TypeOK /\ [Next]_vars => TypeOK'
    BY EncoderStep, RestStep, TypeParts
<1>3. QED
    BY <1>1, <1>2, PTL DEF Spec
-----------------------------------------------------------------------------
LEMMA UnsentCases ==
    ASSUME NEW r \in Resources
    PROVE  /\ r \in Unsent <=> \/ \E e \in Encoders : r \in Uses(recording[e])
                               \/ \E e \in Encoders : r \in Uses(finished[e])
                               \/ \E p \in Passes : r \in Uses(passes[p].cmds)
           /\ r \in Unsent' <=> \/ \E e \in Encoders : r \in Uses(recording'[e])
                                \/ \E e \in Encoders : r \in Uses(finished'[e])
                                \/ \E p \in Passes : r \in Uses(passes'[p].cmds)
BY DEF Unsent

(* Recording adds to what is unsent only what the user holds.              *)
LEMMA UnsentGrows ==
    ASSUME EncoderOK, RestOK, Recorder
    PROVE  \A r \in Resources : r \in Unsent' => r \in Unsent \/ handles[r] > 0
<1>0. Uses(<<>>) = {} /\ Uses(NoPass.cmds) = {}
    BY UsesEmpty DEF NoPass
<1>1. ASSUME NEW e \in Encoders, NEW c \in Calls, Record(e, c),
             NEW r \in Resources, r \in Unsent'
      PROVE  r \in Unsent \/ handles[r] > 0
    <2>1. recording' = [recording EXCEPT ![e] = @ \o <<c>>] /\ Held(c)
          /\ finished' = finished /\ passes' = passes
        BY <1>1 DEF Record, Push
    <2>2. recording'[e] = recording[e] \o <<c>>
          /\ \A x \in Encoders : x # e => recording'[x] = recording[x]
        BY <2>1 DEF EncoderOK
    <2>3. Uses(recording'[e]) \subseteq Uses(recording[e]) \cup c.uses
        BY <2>2, OneCall, UsesConcat DEF EncoderOK
    <2>4. r \in c.uses => handles[r] > 0
        BY <2>1 DEF Held
    <2>5. ASSUME NEW x \in Encoders PROVE r \in Uses(recording'[x]) => r \in Unsent \/ handles[r] > 0
        BY <1>1, <2>1, <2>2, <2>3, <2>4, UnsentCases
    <2>6. ASSUME NEW x \in Encoders PROVE r \in Uses(finished'[x]) => r \in Unsent \/ handles[r] > 0
        BY <1>1, <2>1, <2>2, <2>3, <2>4, UnsentCases
    <2>7. ASSUME NEW q \in Passes PROVE r \in Uses(passes'[q].cmds) => r \in Unsent \/ handles[r] > 0
        BY <1>1, <2>1, <2>2, <2>3, <2>4, UnsentCases
    <2>8. QED
        BY <2>5, <2>6, <2>7, <1>1, UnsentCases
<1>2. ASSUME NEW e \in Encoders, NEW p \in Passes, NEW c \in Calls, BeginPass(e, p, c),
             NEW r \in Resources, r \in Unsent'
      PROVE  r \in Unsent \/ handles[r] > 0
    <2>1. passes' = [passes EXCEPT ![p] = [enc |-> e, cmds |-> <<c>>]] /\ Held(c)
          /\ finished' = finished /\ recording' = recording
        BY <1>2 DEF BeginPass
    <2>2. passes'[p].cmds = <<c>> /\ \A q \in Passes : q # p => passes'[q] = passes[q]
        BY <2>1 DEF EncoderOK
    <2>3. Uses(passes'[p].cmds) = c.uses
        BY <2>2, OneCall
    <2>4. r \in c.uses => handles[r] > 0
        BY <2>1 DEF Held
    <2>5. ASSUME NEW x \in Encoders PROVE r \in Uses(recording'[x]) => r \in Unsent \/ handles[r] > 0
        BY <1>2, <2>1, <2>2, <2>3, <2>4, UnsentCases
    <2>6. ASSUME NEW x \in Encoders PROVE r \in Uses(finished'[x]) => r \in Unsent \/ handles[r] > 0
        BY <1>2, <2>1, <2>2, <2>3, <2>4, UnsentCases
    <2>7. ASSUME NEW q \in Passes PROVE r \in Uses(passes'[q].cmds) => r \in Unsent \/ handles[r] > 0
        BY <1>2, <2>1, <2>2, <2>3, <2>4, UnsentCases
    <2>8. QED
        BY <2>5, <2>6, <2>7, <1>2, UnsentCases
<1>3. ASSUME NEW p \in Passes, NEW c \in Calls, RecordInPass(p, c),
             NEW r \in Resources, r \in Unsent'
      PROVE  r \in Unsent \/ handles[r] > 0
    <2>1. passes' = [passes EXCEPT ![p].cmds = Append(@, c)] /\ Held(c)
          /\ finished' = finished /\ recording' = recording
          /\ passes[p] \in [enc : Encoders, cmds : Recordings]
        BY <1>3 DEF EncoderOK, RecordInPass, Open
    <2>2. passes'[p].cmds = Append(passes[p].cmds, c)
          /\ \A q \in Passes : q # p => passes'[q] = passes[q]
        BY <2>1 DEF EncoderOK
    <2>3. Uses(passes'[p].cmds) = Uses(passes[p].cmds) \cup c.uses
        BY <2>1, <2>2, UsesAppend
    <2>4. r \in c.uses => handles[r] > 0
        BY <2>1 DEF Held
    <2>5. ASSUME NEW x \in Encoders PROVE r \in Uses(recording'[x]) => r \in Unsent \/ handles[r] > 0
        BY <1>3, <2>1, <2>2, <2>3, <2>4, UnsentCases
    <2>6. ASSUME NEW x \in Encoders PROVE r \in Uses(finished'[x]) => r \in Unsent \/ handles[r] > 0
        BY <1>3, <2>1, <2>2, <2>3, <2>4, UnsentCases
    <2>7. ASSUME NEW q \in Passes PROVE r \in Uses(passes'[q].cmds) => r \in Unsent \/ handles[r] > 0
        BY <1>3, <2>1, <2>2, <2>3, <2>4, UnsentCases
    <2>8. QED
        BY <2>5, <2>6, <2>7, <1>3, UnsentCases
<1>4. ASSUME NEW p \in Passes, EndPass(p), NEW r \in Resources, r \in Unsent'
      PROVE  r \in Unsent \/ handles[r] > 0
    <2> DEFINE e == passes[p].enc
    <2>1. /\ recording' = [recording EXCEPT ![e] = @ \o passes[p].cmds]
          /\ passes' = [passes EXCEPT ![p] = NoPass] /\ finished' = finished
          /\ e \in Encoders /\ passes[p].cmds \in Recordings
        BY <1>4, OpenFacts DEF EndPass, Push
    <2>2. /\ recording'[e] = recording[e] \o passes[p].cmds
          /\ \A x \in Encoders : x # e => recording'[x] = recording[x]
          /\ passes'[p] = NoPass /\ \A q \in Passes : q # p => passes'[q] = passes[q]
        BY <2>1 DEF EncoderOK
    <2>3. Uses(recording'[e]) \subseteq Uses(recording[e]) \cup Uses(passes[p].cmds)
        BY <2>1, <2>2, UsesConcat DEF EncoderOK
    <2>4. ASSUME NEW x \in Encoders PROVE r \in Uses(recording'[x]) => r \in Unsent \/ handles[r] > 0
        BY <1>0, <1>4, <2>1, <2>2, <2>3, UnsentCases
    <2>5. ASSUME NEW x \in Encoders PROVE r \in Uses(finished'[x]) => r \in Unsent \/ handles[r] > 0
        BY <1>0, <1>4, <2>1, <2>2, <2>3, UnsentCases
    <2>6. ASSUME NEW q \in Passes PROVE r \in Uses(passes'[q].cmds) => r \in Unsent \/ handles[r] > 0
        BY <1>0, <1>4, <2>1, <2>2, <2>3, UnsentCases
    <2>7. QED
        BY <2>4, <2>5, <2>6, <1>0, <1>4, UnsentCases
<1>5. ASSUME NEW e \in Encoders, Finish(e), NEW r \in Resources, r \in Unsent'
      PROVE  r \in Unsent \/ handles[r] > 0
    <2>1. /\ finished' = [finished EXCEPT ![e] = recording[e]]
          /\ recording' = [recording EXCEPT ![e] = <<>>] /\ passes' = passes
        BY <1>5 DEF Finish
    <2>2. /\ finished'[e] = recording[e] /\ recording'[e] = <<>>
          /\ \A x \in Encoders : x # e => /\ finished'[x] = finished[x]
                                          /\ recording'[x] = recording[x]
        BY <2>1 DEF EncoderOK
    <2>3. ASSUME NEW x \in Encoders PROVE r \in Uses(recording'[x]) => r \in Unsent \/ handles[r] > 0
        BY <1>0, <1>5, <2>1, <2>2, UnsentCases
    <2>4. ASSUME NEW x \in Encoders PROVE r \in Uses(finished'[x]) => r \in Unsent \/ handles[r] > 0
        BY <1>0, <1>5, <2>1, <2>2, UnsentCases
    <2>5. ASSUME NEW q \in Passes PROVE r \in Uses(passes'[q].cmds) => r \in Unsent \/ handles[r] > 0
        BY <1>0, <1>5, <2>1, <2>2, UnsentCases
    <2>6. QED
        BY <2>3, <2>4, <2>5, <1>0, <1>5, UnsentCases
<1>6. ASSUME NEW e \in Encoders, Abandon(e) \/ Unwind(e), NEW r \in Resources, r \in Unsent'
      PROVE  r \in Unsent \/ handles[r] > 0
    <2>1. /\ finished' = [finished EXCEPT ![e] = <<>>]
          /\ recording' = [recording EXCEPT ![e] = <<>>]
        BY <1>6 DEF Abandon, Unwind, Discarded
    <2>2. \A p \in Passes : passes'[p] = passes[p] \/ passes'[p] = NoPass
        BY <1>6 DEF Abandon, Unwind
    <2>3. \A x \in Encoders : /\ finished'[x] = finished[x] \/ finished'[x] = <<>>
                              /\ recording'[x] = recording[x] \/ recording'[x] = <<>>
        BY <2>1 DEF EncoderOK
    <2>4. ASSUME NEW x \in Encoders PROVE r \in Uses(recording'[x]) => r \in Unsent \/ handles[r] > 0
        BY <1>0, <1>6, <2>2, <2>3, UnsentCases
    <2>5. ASSUME NEW x \in Encoders PROVE r \in Uses(finished'[x]) => r \in Unsent \/ handles[r] > 0
        BY <1>0, <1>6, <2>2, <2>3, UnsentCases
    <2>6. ASSUME NEW q \in Passes PROVE r \in Uses(passes'[q].cmds) => r \in Unsent \/ handles[r] > 0
        BY <1>0, <1>6, <2>2, <2>3, UnsentCases
    <2>7. QED
        BY <2>4, <2>5, <2>6, <1>0, <1>6, UnsentCases
<1>7. QED
    BY <1>1, <1>2, <1>3, <1>4, <1>5, <1>6 DEF Recorder

LEMMA KeptRecorder ==
    ASSUME EncoderOK, RestOK, KeptIsThere, Recorder
    PROVE  KeptIsThere'
<1>1. UnsentIsHeld'
    BY UnsentGrows, RecorderFrame, RecordingAssumption DEF KeptIsThere, UnsentIsHeld
<1>2. HeldStays' /\ SentIsThere'
    BY RecorderFrame DEF KeptIsThere, HeldStays, SentIsThere, serverVars
<1>3. QED
    BY <1>1, <1>2 DEF KeptIsThere

LEMMA KeptSubmit ==
    ASSUME EncoderOK, RestOK, KeptIsThere, NEW es \in Selections, Submit(es)
    PROVE  KeptIsThere'
<1> DEFINE f == [op |-> "submit", recs |-> Shipped(es)]
           w == Append(wire, f)
<1>1. f \in Frames /\ wire \in Seq(Frames)
    BY ShippedType DEF RestOK
<1>2. /\ handles' = handles /\ table' = table
      /\ recording' = recording /\ passes' = passes
      /\ wire' = w \/ wire' = wire
    BY DEF Submit, Shipped, serverVars
<1>3. \A e \in Encoders : finished'[e] = finished[e] \/ finished'[e] = <<>>
    BY DEF Submit
<1>4. Unsent' \subseteq Unsent
    BY <1>2, <1>3, UsesEmpty DEF Unsent
<1>5. \A r \in Needed(Shipped(es)) : \E e \in Encoders : r \in Uses(finished[e])
    <2>1. PICK n \in 0..Cardinality(Encoders) : es \in [1..n -> Encoders]
        BY DEF Selections
    <2>2. QED
        BY <2>1 DEF Needed, Shipped
<1>6. \A r \in Kept : r \in Needed(f.recs) => handles[r] > 0
    BY <1>5, RecordingAssumption DEF Unsent, KeptIsThere, UnsentIsHeld
<1>7. /\ \A k \in 1..Len(wire) : w[k] = wire[k]
      /\ w[Len(wire) + 1] = f /\ DOMAIN w = 1..(Len(wire) + 1)
      /\ DOMAIN wire = 1..Len(wire) /\ Len(wire) \in Nat
    BY <1>1, AppendFacts
<1>8. \A r : f # Destroy(r)
    BY DEF Destroy
<1>9. UnsentIsHeld'
    BY <1>2, <1>4 DEF KeptIsThere, UnsentIsHeld
<1> HIDE DEF f, w
<1>10. CASE wire' = wire
    BY <1>2, <1>9, <1>10 DEF KeptIsThere, HeldStays, SentIsThere
<1>11. CASE wire' = w
    <2>1. HeldStays'
        BY <1>2, <1>7, <1>8, <1>11 DEF KeptIsThere, HeldStays
    <2>2. SentIsThere'
        <3> SUFFICES ASSUME NEW r \in Kept, NEW j \in DOMAIN w, w[j].op = "submit",
                            r \in Needed(w[j].recs)
                     PROVE  r \in table /\ \A i \in 1..(j - 1) : w[i] # Destroy(r)
            BY <1>2, <1>11 DEF SentIsThere
        <3>1. CASE j = Len(wire) + 1
            <4>1. handles[r] > 0
                BY <1>6, <1>7, <3>1
            <4>2. QED
                BY <1>7, <3>1, <4>1 DEF KeptIsThere, HeldStays
        <3>2. CASE j \in 1..Len(wire)
            BY <1>7, <3>2 DEF KeptIsThere, SentIsThere
        <3>3. QED
            BY <1>7, <3>1, <3>2
    <2>3. QED
        BY <1>9, <2>1, <2>2 DEF KeptIsThere
<1>12. QED
    BY <1>2, <1>10, <1>11

LEMMA KeptHandles ==
    ASSUME EncoderOK, RestOK, KeptIsThere, NEW x \in Resources, Clone(x) \/ DropHandle(x)
    PROVE  KeptIsThere'
<1>1. Unsent' = Unsent /\ table' = table
    BY DEF Clone, DropHandle, Unsent, encoderVars, serverVars
<1>2. CASE Clone(x)
    <2>1. wire' = wire /\ \A r \in Resources : handles'[r] > 0 <=> handles[r] > 0
        BY <1>2 DEF Clone, RestOK
    <2>2. QED
        BY <1>1, <2>1, RecordingAssumption
        DEF KeptIsThere, UnsentIsHeld, HeldStays, SentIsThere
<1>3. CASE DropHandle(x)
    <2> DEFINE w == Append(wire, Destroy(x))
    <2>1. /\ handles' = [handles EXCEPT ![x] = @ - 1] /\ handles[x] > 0
          /\ handles[x] = 1 /\ x \in Kept => x \notin Unsent
          /\ wire' = IF handles[x] = 1 THEN w ELSE wire
        BY <1>3 DEF DropHandle
    <2>2. /\ \A r \in Resources : handles'[r] > 0 => handles[r] > 0
          /\ \A r \in Resources : r # x => handles'[r] = handles[r]
          /\ handles[x] # 1 => handles'[x] > 0
          /\ handles[x] = 1 => ~(handles'[x] > 0)
        BY <2>1 DEF RestOK
    <2>3. /\ \A k \in 1..Len(wire) : w[k] = wire[k]
          /\ w[Len(wire) + 1] = Destroy(x) /\ DOMAIN w = 1..(Len(wire) + 1)
          /\ DOMAIN wire = 1..Len(wire) /\ Len(wire) \in Nat
        <3>1. Destroy(x) \in Frames /\ wire \in Seq(Frames)
            BY DEF Frames, Destroy, RestOK
        <3>2. QED
            BY <3>1, AppendFacts
    <2>4. UnsentIsHeld'
        BY <1>1, <2>1, <2>2, RecordingAssumption DEF KeptIsThere, UnsentIsHeld
    <2> HIDE DEF w
    <2>5. CASE handles[x] # 1
        <3>1. wire' = wire
            BY <2>1, <2>5
        <3>2. QED
            BY <1>1, <2>2, <2>4, <3>1, RecordingAssumption
            DEF KeptIsThere, HeldStays, SentIsThere
    <2>6. CASE handles[x] = 1
        <3>1. wire' = w
            BY <2>1, <2>6
        <3>2. \A r \in Kept : r # x => Destroy(r) # Destroy(x)
            BY DEF Destroy
        <3>3. HeldStays'
            BY <1>1, <2>2, <2>3, <2>6, <3>1, <3>2, RecordingAssumption
            DEF KeptIsThere, HeldStays
        <3>4. Destroy(x).op # "submit"
            BY DEF Destroy
        <3>5. SentIsThere'
            BY <1>1, <2>3, <3>1, <3>4 DEF KeptIsThere, SentIsThere
        <3>6. QED
            BY <2>4, <3>3, <3>5 DEF KeptIsThere
    <2>7. QED
        BY <2>5, <2>6
<1>4. QED
    BY <1>2, <1>3

(* Serving takes the first frame; what a Destroy removes is named by no    *)
(* handle and by no submission behind it.                                  *)
LEMMA KeptServe ==
    ASSUME RestOK, KeptIsThere, ServeDestroy \/ ServeSubmit
    PROVE  KeptIsThere'
<1>1. wire # <<>> /\ wire' = Tail(wire) /\ handles' = handles /\ Unsent' = Unsent
    BY DEF ServeDestroy, ServeSubmit, Unsent, encoderVars
<1>2. /\ Len(wire) \in Nat \ {0} /\ Len(wire') = Len(wire) - 1
      /\ \A k \in 1..Len(wire') : wire'[k] = wire[k + 1]
      /\ DOMAIN wire = 1..Len(wire) /\ DOMAIN wire' = 1..Len(wire')
    BY <1>1, TailFacts DEF RestOK
<1>3. \A r \in Kept : r \in table /\ r \notin table' => wire[1] = Destroy(r)
    BY <1>1, HeadFrame DEF ServeDestroy, ServeSubmit, Destroy
<1>4. UnsentIsHeld'
    BY <1>1 DEF KeptIsThere, UnsentIsHeld
<1>5. HeldStays'
    BY <1>1, <1>2, <1>3 DEF KeptIsThere, HeldStays
<1>6. SentIsThere'
    <2> SUFFICES ASSUME NEW r \in Kept, NEW j \in 1..Len(wire'), wire'[j].op = "submit",
                        r \in Needed(wire'[j].recs)
                 PROVE  r \in table' /\ \A i \in 1..(j - 1) : wire'[i] # Destroy(r)
        BY <1>2 DEF SentIsThere
    <2>1. j + 1 \in 1..Len(wire) /\ wire'[j] = wire[j + 1]
        BY <1>2
    <2>2. r \in table /\ \A i \in 1..j : wire[i] # Destroy(r)
        BY <1>2, <2>1 DEF KeptIsThere, SentIsThere
    <2>3. \A i \in 1..(j - 1) : i + 1 \in 1..j /\ wire'[i] = wire[i + 1]
        BY <1>2
    <2>4. 1 \in 1..j
        OBVIOUS
    <2>5. QED
        BY <1>3, <2>2, <2>3, <2>4
<1>7. QED
    BY <1>4, <1>5, <1>6 DEF KeptIsThere

(* A recording holds the names of resources only, yet one whose user keeps *)
(* a handle until everything that names it is submitted is found by the    *)
(* server's replay, whatever else is dropped and in whatever order threads *)
(* record, submit and drop.                                                *)
THEOREM KeptCorrect == Spec => []KeptIsThere
<1>1. Init => KeptIsThere
    <2> SUFFICES ASSUME Init PROVE KeptIsThere
        OBVIOUS
    <2>1. Unsent = {}
        BY UsesEmpty DEF Init, Unsent, NoPass
    <2>2. QED
        BY <2>1, RecordingAssumption
        DEF Init, KeptIsThere, UnsentIsHeld, HeldStays, SentIsThere
<1>2. TypeOK /\ KeptIsThere /\ [Next]_vars => KeptIsThere'
    <2> SUFFICES ASSUME EncoderOK, RestOK, KeptIsThere, [Next]_vars PROVE KeptIsThere'
        BY TypeParts
    <2>1. ASSUME UNCHANGED <<encoderVars, handles, wire, serverVars>> PROVE KeptIsThere'
        BY <2>1 DEF KeptIsThere, UnsentIsHeld, HeldStays, SentIsThere, Unsent,
                    encoderVars, serverVars
    <2>2. CASE UNCHANGED vars
        BY <2>1, <2>2 DEF vars
    <2>3. CASE User
        BY <2>1, <2>2, <2>3, UserCases, KeptRecorder, KeptSubmit, KeptHandles
    <2>4. CASE Discard
        BY <2>1, <2>4 DEF Discard
    <2>5. QED
        BY <2>2, <2>3, <2>4, KeptServe DEF Next
<1>3. QED
    BY <1>1, <1>2, TypeCorrect, PTL DEF Spec

(* A submission that names only what its users keep is executed when its   *)
(* turn comes, as a whole and in the order it was recorded: the server     *)
(* never refuses it.                                                       *)
THEOREM KeptExecuted == Spec => KeptIsExecuted
<1>1. TypeOK /\ KeptIsThere /\ [Next]_vars => [ServesKept]_vars
    <2> SUFFICES ASSUME EncoderOK, RestOK, KeptIsThere, [Next]_vars, Serving,
                        Needed(Head(wire).recs) \subseteq Kept
                 PROVE  executed' = executed \o Head(wire).recs
        BY TypeParts DEF ServesKept
    <2>1. /\ 1 \in DOMAIN wire /\ wire[1] = Head(wire)
          /\ Len(wire) \in Nat /\ Len(wire') = Len(wire) - 1
        BY TailFacts DEF RestOK, Serving
    <2>2. Needed(Head(wire).recs) \subseteq table
        BY <2>1 DEF KeptIsThere, SentIsThere, Serving
    <2>3. wire' # wire
        BY <2>1
    <2>4. \A f \in Frames : wire' # Append(wire, f)
        BY <2>1, AppendFacts DEF RestOK
    <2>5. ASSUME NEW es \in Selections, Submit(es) PROVE FALSE
        <3>1. wire' = wire \/ wire' = Append(wire, [op |-> "submit", recs |-> Shipped(es)])
            BY <2>5 DEF Submit, Shipped
        <3>2. QED
            BY <2>3, <2>4, <3>1, ShippedType
    <2>6. ASSUME NEW r \in Resources, Clone(r) \/ DropHandle(r) PROVE FALSE
        <3>1. wire' = wire \/ wire' = Append(wire, Destroy(r))
            BY <2>6 DEF Clone, DropHandle
        <3>2. Destroy(r) \in Frames
            BY DEF Frames, Destroy
        <3>3. QED
            BY <2>3, <2>4, <3>1, <3>2
    <2>7. ServeSubmit
        BY <2>3, <2>5, <2>6, UserCases, RecorderFrame
        DEF Next, vars, Discard, ServeDestroy, Serving
    <2>8. QED
        BY <2>2, <2>7 DEF ServeSubmit
<1>2. QED
    BY <1>1, TypeCorrect, KeptCorrect, PTL DEF Spec, KeptIsExecuted
-----------------------------------------------------------------------------
(* The submissions under way, as frames are sent and served.               *)
Queues == Seq(Seq(Recordings))
Added(q, f) == IF f.op = "submit" THEN Append(q, f.recs) ELSE q
Collected(up, w) ==
    /\ up \in [0..Len(w) -> Queues] /\ up[0] = <<>> /\ Submissions(w) = up[Len(w)]
    /\ \A n \in 1..Len(w) : up[n] = Added(up[n - 1], w[n])

LEMMA AddedType ==
    ASSUME NEW q \in Queues, NEW f \in Frames
    PROVE  Added(q, f) \in Queues
<1>1. f.op = "submit" => f.recs \in Seq(Recordings)
    BY DEF Frames
<1>2. CASE f.op = "submit"
    BY <1>1, <1>2, AppendFacts DEF Added, Queues
<1>3. CASE f.op # "submit"
    BY <1>3 DEF Added
<1>4. QED
    BY <1>2, <1>3

LEMMA Collection ==
    ASSUME NEW w \in Seq(Frames)
    PROVE  \E up : Collected(up, w)
<1> DEFINE N == Len(w)
           none == <<>>
           step == [n \in 1..N |-> [q \in Queues |-> Added(q, w[n])]]
           up == CHOOSE u : u = [n \in 0..Len(w) |->
                    IF n = 0 THEN <<>>
                    ELSE IF w[n].op = "submit" THEN Append(u[n - 1], w[n].recs)
                                               ELSE u[n - 1]]
<1>1. N \in Nat /\ none \in Queues /\ \A n \in 1..N : w[n] \in Frames
    BY DEF Queues
<1>2. Steps(step, N, Queues)
    BY <1>1, AddedType DEF Steps
<1> HIDE DEF step, N
<1>3. PICK g : Iterates(g, N, Queues, none, step)
    <2>1. N \in Nat /\ none \in Queues
        BY <1>1
    <2> HIDE DEF none
    <2>2. QED
        BY ONLY <1>2, <2>1, Recursion
<1>4. g = [n \in 0..N |-> IF n = 0 THEN <<>>
                          ELSE IF w[n].op = "submit" THEN Append(g[n - 1], w[n].recs)
                                                     ELSE g[n - 1]]
    <2>1. g \in [0..N -> Queues] /\ g[0] = <<>>
          /\ \A n \in 1..N : g[n] = step[n][g[n - 1]]
        BY <1>3 DEF Iterates
    <2>2. \A n \in 1..N : g[n] = Added(g[n - 1], w[n])
        <3> TAKE n \in 1..N
        <3>1. n - 1 \in 0..N
            BY <1>1
        <3>2. g[n - 1] \in Queues
            BY <2>1, <3>1
        <3>3. QED
            BY <2>1, <3>2 DEF step
    <2>3. \A n \in 0..N : n # 0 => n \in 1..N
        BY <1>1
    <2>4. \A n \in 0..N : g[n] = IF n = 0 THEN <<>> ELSE Added(g[n - 1], w[n])
        BY <2>1, <2>2, <2>3
    <2>5. QED
        BY <2>1, <2>4 DEF Added
<1>5. up = [n \in 0..N |-> IF n = 0 THEN <<>>
                           ELSE IF w[n].op = "submit" THEN Append(up[n - 1], w[n].recs)
                                                      ELSE up[n - 1]]
    BY <1>4, Zenon DEF N
<1>6. Submissions(w) = up[N]
    BY DEF Submissions, N
<1> HIDE DEF up
<1>7. up[0] = <<>> /\ \A n \in 1..N : up[n] = Added(up[n - 1], w[n])
    <2>1. 0 \in 0..N /\ \A n \in 1..N : n \in 0..N /\ n # 0
        BY <1>1
    <2>2. QED
        BY <1>5, <2>1 DEF Added
<1>8. Follows(up, N, Queues, none, step)
    <2>1. up = [n \in 0..N |-> up[n]]
        BY <1>5
    <2>2. QED
        BY <1>7, <2>1 DEF Follows, step
<1>9. Iterates(up, N, Queues, none, step)
    <2>1. N \in Nat /\ none \in Queues
        BY <1>1
    <2> HIDE DEF none
    <2>2. QED
        BY ONLY <1>2, <1>8, <2>1, Following
<1>10. Collected(up, w)
    BY <1>6, <1>7, <1>9 DEF Iterates, Collected, N
<1>11. QED
    BY <1>10

LEMMA SubmissionsSent ==
    ASSUME NEW w \in Seq(Frames), NEW f \in Frames
    PROVE  Submissions(Append(w, f)) = Added(Submissions(w), f)
<1> DEFINE v == Append(w, f)
           N == Len(w)
<1>1. /\ v \in Seq(Frames) /\ Len(v) = N + 1 /\ N \in Nat
      /\ \A n \in 1..N : v[n] = w[n]
      /\ v[N + 1] = f
    BY AppendFacts
<1> HIDE DEF v
<1>2. PICK up : Collected(up, w)
    BY Collection
<1>3. PICK vp : Collected(vp, v)
    BY <1>1, Collection
<1>4. /\ up[0] = <<>> /\ vp[0] = <<>>
      /\ \A n \in 1..N : up[n] = Added(up[n - 1], w[n])
      /\ \A n \in 1..(N + 1) : vp[n] = Added(vp[n - 1], v[n])
      /\ Submissions(w) = up[N] /\ Submissions(v) = vp[N + 1]
    BY <1>1, <1>2, <1>3 DEF Collected
<1> HIDE DEF N
<1> DEFINE P == {m \in Nat : m <= N => vp[m] = up[m]}
<1>5. P \in SUBSET Nat /\ 0 \in P
    BY <1>4
<1>6. ASSUME NEW m \in P PROVE m + 1 \in P
    <2> SUFFICES ASSUME m + 1 <= N PROVE vp[m + 1] = up[m + 1]
        OBVIOUS
    <2>1. m + 1 \in 1..N /\ m + 1 \in 1..(N + 1) /\ (m + 1) - 1 = m /\ vp[m] = up[m]
        BY <1>1
    <2>2. vp[m + 1] = Added(vp[m], v[m + 1]) /\ up[m + 1] = Added(up[m], w[m + 1])
        BY <1>4, <2>1
    <2>3. QED
        BY <1>1, <2>1, <2>2
<1> HIDE DEF P
<1>7. P = Nat
    BY <1>5, <1>6, NatInd
<1>8. vp[N] = up[N]
    BY <1>1, <1>7 DEF P
<1>9. vp[N + 1] = Added(vp[N], f)
    <2>1. N + 1 \in 1..(N + 1) /\ (N + 1) - 1 = N
        BY <1>1
    <2>2. QED
        BY <1>1, <1>4, <2>1
<1>10. QED
    BY <1>4, <1>8, <1>9 DEF v

(* One in front of a queue, of which the rest grows.                       *)
LEMMA FrontGrows ==
    ASSUME NEW S, NEW r \in S, NEW q \in Seq(S), NEW x \in S
    PROVE  Append(<<r>> \o q, x) = <<r>> \o Append(q, x)
OBVIOUS

LEMMA FrontFacts ==
    ASSUME NEW S, NEW r \in S, NEW q \in Seq(S)
    PROVE  /\ <<r>> \o q # <<>> /\ Head(<<r>> \o q) = r /\ Tail(<<r>> \o q) = q
           /\ <<r>> \o q \in Seq(S)
OBVIOUS

(* What a frame puts in front of the submissions behind it.                *)
Before(f, q) == IF f.op = "submit" THEN <<f.recs>> \o q ELSE q

LEMMA BeforeAdded ==
    ASSUME NEW f \in Frames, NEW g \in Frames, NEW q \in Queues
    PROVE  Added(Before(f, q), g) = Before(f, Added(q, g))
<1>1. /\ f.op = "submit" => f.recs \in Seq(Recordings)
      /\ g.op = "submit" => g.recs \in Seq(Recordings)
    BY DEF Frames
<1>2. CASE f.op = "submit" /\ g.op = "submit"
    BY <1>1, <1>2, FrontGrows DEF Added, Before, Queues
<1>3. CASE ~(f.op = "submit" /\ g.op = "submit")
    BY <1>3 DEF Added, Before
<1>4. QED
    BY <1>2, <1>3

LEMMA SubmissionsServed ==
    ASSUME NEW w \in Seq(Frames), w # <<>>
    PROVE  /\ Submissions(w) = Before(Head(w), Submissions(Tail(w)))
           /\ Submissions(Tail(w)) \in Queues
<1> DEFINE v == Tail(w)
           N == Len(v)
           f == Head(w)
<1>1. /\ v \in Seq(Frames) /\ Len(w) = N + 1 /\ N \in Nat
      /\ \A n \in 1..N : v[n] = w[n + 1] /\ v[n] \in Frames
      /\ w[1] = f /\ f \in Frames
    <2>1. /\ v \in Seq(Frames) /\ Len(w) \in Nat \ {0} /\ N = Len(w) - 1
          /\ \A n \in 1..N : v[n] = w[n + 1]
          /\ w[1] = f /\ f \in Frames
        BY TailFacts
    <2>2. \A n \in 1..N : v[n] \in Frames
        BY <2>1
    <2>3. QED
        BY <2>1, <2>2
<1> HIDE DEF v, f
<1>2. PICK up : Collected(up, w)
    BY Collection
<1>3. PICK vp : Collected(vp, v)
    BY <1>1, Collection
<1>4. /\ up[0] = <<>> /\ vp[0] = <<>> /\ vp \in [0..N -> Queues]
      /\ \A n \in 1..(N + 1) : up[n] = Added(up[n - 1], w[n])
      /\ \A n \in 1..N : vp[n] = Added(vp[n - 1], v[n])
      /\ Submissions(w) = up[N + 1] /\ Submissions(v) = vp[N]
    BY <1>1, <1>2, <1>3 DEF Collected
<1> HIDE DEF N
<1> DEFINE P == {m \in Nat : m <= N => up[m + 1] = Before(f, vp[m])}
<1>5. 0 \in P
    <2>1. 1 \in 1..(N + 1) /\ 1 - 1 = 0
        BY <1>1
    <2>2. up[1] = Added(<<>>, f)
        BY <1>1, <1>4, <2>1
    <2>3. Added(<<>>, f) = Before(f, <<>>)
        <3>1. f.op = "submit" => f.recs \in Seq(Recordings)
            BY <1>1 DEF Frames
        <3>2. QED
            BY <3>1 DEF Added, Before
    <2>4. 0 + 1 = 1
        OBVIOUS
    <2>5. QED
        BY <1>4, <2>2, <2>3, <2>4
<1>6. ASSUME NEW m \in Nat, m \in P PROVE m + 1 \in P
    <2> SUFFICES ASSUME m + 1 <= N PROVE up[m + 2] = Before(f, vp[m + 1])
        OBVIOUS
    <2>1. /\ m + 1 \in 1..N /\ m + 2 \in 1..(N + 1) /\ (m + 1) - 1 = m
          /\ (m + 2) - 1 = m + 1 /\ m \in 0..N /\ (m + 1) + 1 = m + 2
          /\ up[m + 1] = Before(f, vp[m])
        BY <1>1, <1>6
    <2>2. vp[m + 1] = Added(vp[m], v[m + 1]) /\ up[m + 2] = Added(up[m + 1], v[m + 1])
        BY <1>1, <1>4, <2>1
    <2>3. vp[m] \in Queues /\ v[m + 1] \in Frames
        BY <1>1, <1>4, <2>1
    <2>4. Added(Before(f, vp[m]), v[m + 1]) = Before(f, Added(vp[m], v[m + 1]))
        BY <1>1, <2>3, BeforeAdded
    <2>5. QED
        BY <2>1, <2>2, <2>4
<1>7. P \in SUBSET Nat
    OBVIOUS
<1> HIDE DEF P
<1>8. P = Nat
    BY <1>5, <1>6, <1>7, NatInd
<1>9. up[N + 1] = Before(f, vp[N]) /\ vp[N] \in Queues
    BY <1>1, <1>4, <1>8 DEF P
<1>10. QED
    BY <1>4, <1>9 DEF v, f
-----------------------------------------------------------------------------
(* What stands on the tapes of Tape.                                       *)
TapeIs ==
    \A e \in Encoders :
       /\ phase[e] = "finished" => Tapes[e] = finished[e]
       /\ phase[e] = "gone" => Tapes[e] = <<>>
       /\ phase[e] = "recording" /\ (e \notin Borrowing \/ OpenPasses(e) = {})
             => Tapes[e] = recording[e]
       /\ phase[e] = "recording" /\ e \in Borrowing
             => \A p \in OpenPasses(e) : Tapes[e] = recording[e] \o passes[p].cmds

LEMMA TapeNow == EncoderOK => TapeIs
<1> SUFFICES ASSUME EncoderOK, NEW e \in Encoders
             PROVE  /\ phase[e] = "finished" => Tapes[e] = finished[e]
                    /\ phase[e] = "gone" => Tapes[e] = <<>>
                    /\ phase[e] = "recording" /\ (e \notin Borrowing \/ OpenPasses(e) = {})
                          => Tapes[e] = recording[e]
                    /\ phase[e] = "recording" /\ e \in Borrowing
                          => \A p \in OpenPasses(e) :
                                Tapes[e] = recording[e] \o passes[p].cmds
    BY DEF TapeIs
<1>1. Tapes[e] = IF phase[e] = "gone" THEN <<>> ELSE Said(e)
    BY DEF Tapes
<1>2. phase[e] = "finished" => Said(e) = finished[e]
    BY DEF Said
<1>3. phase[e] = "recording" /\ (e \notin Borrowing \/ OpenPasses(e) = {})
         => Said(e) = recording[e]
    BY DEF Said
<1>4. ASSUME phase[e] = "recording", e \in Borrowing, NEW p \in OpenPasses(e)
      PROVE  Said(e) = recording[e] \o passes[p].cmds
    <2> DEFINE q == CHOOSE q \in Passes : passes[q].enc = e
    <2>1. q \in OpenPasses(e)
        BY <1>4 DEF OpenPasses
    <2>2. q = p
        BY <1>4, <2>1 DEF EncoderOK
    <2>3. Said(e) = recording[e] \o passes[q].cmds
        BY <1>4 DEF Said
    <2>4. QED
        BY <2>2, <2>3
<1>5. QED
    BY <1>1, <1>2, <1>3, <1>4

LEMMA TapeNext == EncoderOK' => TapeIs'
BY TapeNow, PTL

(* A tape stays as it is while its encoder and its passes do; without the  *)
(* borrow the passes do not count until they are over.                     *)
LEMMA TapeStays ==
    ASSUME EncoderOK, EncoderOK', NEW e \in Encoders,
           phase'[e] = phase[e], recording'[e] = recording[e],
           finished'[e] = finished[e],
           e \in Borrowing => /\ OpenPasses(e)' = OpenPasses(e)
                              /\ \A p \in OpenPasses(e) : passes'[p] = passes[p]
    PROVE  Tapes'[e] = Tapes[e]
<1>1. TapeIs /\ TapeIs'
    BY TapeNow, TapeNext
<1>2. phase[e] \in {"recording", "finished", "gone"}
    BY DEF EncoderOK
<1>3. CASE phase[e] # "recording"
    BY <1>1, <1>2, <1>3 DEF TapeIs
<1>4. CASE phase[e] = "recording" /\ (e \notin Borrowing \/ OpenPasses(e) = {})
    BY <1>1, <1>4 DEF TapeIs
<1>5. CASE phase[e] = "recording" /\ e \in Borrowing /\ OpenPasses(e) # {}
    <2>1. PICK p \in OpenPasses(e) : TRUE
        BY <1>5
    <2>2. Tapes[e] = recording[e] \o passes[p].cmds
        BY <1>1, <1>5, <2>1 DEF TapeIs
    <2>3. Tapes'[e] = recording'[e] \o passes'[p].cmds
        BY <1>1, <1>5, <2>1 DEF TapeIs
    <2>4. QED
        BY <2>1, <2>2, <2>3, <1>5
<1>6. QED
    BY <1>3, <1>4, <1>5

LEMMA OneTape ==
    ASSUME NEW e \in Encoders, \A x \in Encoders \ {e} : Tapes'[x] = Tapes[x],
           NEW t, Tapes'[e] = t
    PROVE  Tapes' = [Tapes EXCEPT ![e] = t]
BY DEF Tapes

LEMMA SameTapes ==
    ASSUME \A x \in Encoders : Tapes'[x] = Tapes[x]
    PROVE  Tapes' = Tapes
BY DEF Tapes

(* An encoder whose tape is written on, without an order or in order.      *)
Sees == <<phase, wire, executed>>

LEMMA Written ==
    ASSUME UNCHANGED Sees, NEW e \in Encoders, phase[e] = "recording",
           \A x \in Encoders \ {e} : Tapes'[x] = Tapes[x],
           \/ e \notin Borrowing /\ Tapes'[e] \in Recordings
           \/ \E c \in Calls : e \in Borrowing /\ Tapes'[e] = Append(Tapes[e], c)
    PROVE  Promise!Next
<1>1. /\ phase' = phase /\ executed' = executed
      /\ Submissions(wire)' = Submissions(wire)
    BY DEF Sees
<1>2. CASE e \notin Borrowing /\ Tapes'[e] \in Recordings
    <2>1. Tapes' = [Tapes EXCEPT ![e] = Tapes'[e]]
        BY OneTape
    <2>2. Promise!Scribble(e)
        BY <1>1, <1>2, <2>1 DEF Promise!Scribble, Recordings
    <2>3. QED
        BY <2>2 DEF Promise!Next
<1>3. ASSUME NEW c \in Calls, e \in Borrowing, Tapes'[e] = Append(Tapes[e], c)
      PROVE  Promise!Next
    <2>1. Tapes' = [Tapes EXCEPT ![e] = Append(Tapes[e], c)]
        BY <1>3, OneTape
    <2>2. Promise!Say(e, c)
        BY <1>1, <1>3, <2>1 DEF Promise!Say
    <2>3. QED
        BY <2>2 DEF Promise!Next
<1>4. QED
    BY <1>2, <1>3

LEMMA Unwritten ==
    ASSUME UNCHANGED Sees, \A x \in Encoders : Tapes'[x] = Tapes[x]
    PROVE  UNCHANGED Promise!tapeVars
<1>1. Tapes' = Tapes
    BY SameTapes
<1>2. Submissions(wire)' = Submissions(wire)
    BY DEF Sees
<1>3. QED
    BY <1>1, <1>2 DEF Sees, Promise!tapeVars

LEMMA TapeRecord ==
    ASSUME EncoderOK, EncoderOK', NEW e \in Encoders, NEW c \in Calls, Record(e, c)
    PROVE  Promise!Next
<1>1. /\ phase[e] = "recording" /\ UNCHANGED Sees /\ finished' = finished
      /\ passes' = passes /\ recording' = [recording EXCEPT ![e] = @ \o <<c>>]
      /\ e \in Borrowing => OpenPasses(e) = {}
    BY DEF Record, Push, Unborrowed, Sees, serverVars
<1>2. \A x \in Encoders : OpenPasses(x)' = OpenPasses(x)
    BY <1>1 DEF OpenPasses
<1>3. \A x \in Encoders \ {e} : Tapes'[x] = Tapes[x]
    <2> TAKE x \in Encoders \ {e}
    <2>1. phase'[x] = phase[x] /\ recording'[x] = recording[x] /\ finished'[x] = finished[x]
        BY <1>1 DEF Sees, EncoderOK
    <2>2. QED
        BY <1>1, <1>2, <2>1, TapeStays
<1>4. Tapes[e] = recording[e] /\ Tapes'[e] = recording'[e]
    BY <1>1, <1>2, TapeNow, TapeNext DEF TapeIs, Sees
<1>5. recording[e] \in Recordings /\ recording'[e] \in Recordings
    BY DEF EncoderOK
<1>6. recording'[e] = recording[e] \o <<c>>
    BY <1>1 DEF EncoderOK
<1>7. recording[e] \o <<c>> = Append(recording[e], c)
    BY <1>5 DEF Recordings
<1>8. QED
    BY <1>1, <1>3, <1>4, <1>5, <1>6, <1>7, Written

(* The calls of a pass that borrows stand behind its encoder's.            *)
LEMMA TapeBegin ==
    ASSUME EncoderOK, EncoderOK', NEW e \in Encoders, NEW p \in Passes, NEW c \in Calls,
           BeginPass(e, p, c)
    PROVE  [Promise!Next]_(Promise!tapeVars)
<1>1. /\ phase[e] = "recording" /\ UNCHANGED Sees /\ finished' = finished
      /\ passes' = [passes EXCEPT ![p] = [enc |-> e, cmds |-> <<c>>]]
      /\ recording' = recording /\ passes[p] = NoPass
      /\ e \in Borrowing => OpenPasses(e) = {}
    BY DEF BeginPass, Unborrowed, Sees, serverVars, Open
<1>2. \A x \in Encoders \ {e} : OpenPasses(x)' = OpenPasses(x) /\ p \notin OpenPasses(x)
    BY <1>1, RecordingAssumption DEF OpenPasses, EncoderOK
<1>3. \A x \in Encoders \ {e} : Tapes'[x] = Tapes[x]
    <2> TAKE x \in Encoders \ {e}
    <2>1. phase'[x] = phase[x] /\ recording'[x] = recording[x] /\ finished'[x] = finished[x]
        BY <1>1 DEF Sees
    <2>2. \A q \in OpenPasses(x) : passes'[q] = passes[q]
        BY <1>1, <1>2 DEF OpenPasses, EncoderOK
    <2>3. QED
        BY <1>2, <2>1, <2>2, TapeStays
<1>4. CASE e \in Borrowing
    <2>1. p \in OpenPasses(e)' /\ passes'[p].cmds = <<c>>
        BY <1>1 DEF OpenPasses, EncoderOK
    <2>2. Tapes[e] = recording[e]
        BY <1>1, <1>4, TapeNow DEF TapeIs
    <2>3. Tapes'[e] = recording[e] \o <<c>>
        BY <1>1, <1>4, <2>1, TapeNext DEF TapeIs, Sees
    <2>4. recording[e] \in Recordings
        BY DEF EncoderOK
    <2>5. recording[e] \o <<c>> = Append(recording[e], c)
        BY <2>4 DEF Recordings
    <2>6. QED
        BY <1>1, <1>3, <1>4, <2>2, <2>3, <2>5, Written
<1>5. CASE e \notin Borrowing
    <2>1. Tapes'[e] = Tapes[e]
        BY <1>1, <1>5, TapeStays DEF Sees
    <2>2. QED
        BY <1>1, <1>3, <2>1, Unwritten
<1>6. QED
    BY <1>4, <1>5

LEMMA TapeInPass ==
    ASSUME EncoderOK, EncoderOK', NEW p \in Passes, NEW c \in Calls, RecordInPass(p, c)
    PROVE  [Promise!Next]_(Promise!tapeVars)
<1>1. /\ UNCHANGED Sees /\ finished' = finished /\ recording' = recording
      /\ passes' = [passes EXCEPT ![p].cmds = Append(@, c)] /\ Open(p)
    BY DEF RecordInPass, Sees, serverVars
<1>2. PICK e \in Encoders :
         /\ e = passes[p].enc /\ passes[p].cmds \in Recordings /\ p \in OpenPasses(e)
         /\ e \in Borrowing => phase[e] = "recording"
    BY <1>1, OpenFacts
<1>3. passes'[p] = [enc |-> passes[p].enc, cmds |-> Append(passes[p].cmds, c)]
    <2>1. passes[p] \in [enc : Encoders, cmds : Recordings]
        BY <1>1 DEF EncoderOK, Open
    <2>2. QED
        BY <1>1, <2>1 DEF EncoderOK
<1>4. \A q \in Passes : passes'[q].enc = passes[q].enc /\ (q # p => passes'[q] = passes[q])
    BY <1>1, <1>3 DEF EncoderOK
<1>5. \A x \in Encoders : OpenPasses(x)' = OpenPasses(x)
    BY <1>4 DEF OpenPasses
<1>6. \A x \in Encoders \ {e} : Tapes'[x] = Tapes[x]
    <2> TAKE x \in Encoders \ {e}
    <2>1. \A q \in OpenPasses(x) : passes'[q] = passes[q]
        BY <1>2, <1>4 DEF OpenPasses
    <2>2. QED
        BY <1>1, <1>5, <2>1, TapeStays DEF Sees
<1>7. CASE e \in Borrowing
    <2>1. p \in OpenPasses(e)' /\ passes'[p].cmds = Append(passes[p].cmds, c)
        BY <1>2, <1>3, <1>5
    <2>2. Tapes[e] = recording[e] \o passes[p].cmds
        BY <1>2, <1>7, TapeNow DEF TapeIs
    <2>3. Tapes'[e] = recording[e] \o Append(passes[p].cmds, c)
        <3>1. phase'[e] = "recording" /\ recording'[e] = recording[e]
            BY <1>1, <1>2, <1>7 DEF Sees
        <3>2. Tapes'[e] = recording'[e] \o passes'[p].cmds
            BY <1>7, <2>1, <3>1, TapeNext DEF TapeIs
        <3>3. QED
            BY <2>1, <3>1, <3>2
    <2>4. recording[e] \in Seq(Calls) /\ passes[p].cmds \in Seq(Calls) /\ c \in Calls
        BY <1>2 DEF EncoderOK, Recordings
    <2>5. recording[e] \o Append(passes[p].cmds, c)
             = Append(recording[e] \o passes[p].cmds, c)
        <3>1. \A s, t \in Seq(Calls) : s \o Append(t, c) = Append(s \o t, c)
            BY JoinGrows
        <3>2. QED
            BY ONLY <2>4, <3>1
    <2>6. QED
        BY <1>1, <1>2, <1>6, <1>7, <2>2, <2>3, <2>5, Written
<1>8. CASE e \notin Borrowing
    <2>1. Tapes'[e] = Tapes[e]
        BY <1>1, <1>2, <1>8, TapeStays DEF Sees
    <2>2. QED
        BY <1>1, <1>6, <2>1, Unwritten
<1>9. QED
    BY <1>7, <1>8

(* The end of a pass that borrows changes nothing its user could see. That *)
(* of another may come when its encoder is finished or gone: what it       *)
(* recorded is then nowhere.                                               *)
LEMMA TapeEnd ==
    ASSUME EncoderOK, EncoderOK', NEW p \in Passes, EndPass(p)
    PROVE  [Promise!Next]_(Promise!tapeVars)
<1>1. PICK e \in Encoders :
         /\ e = passes[p].enc /\ p \in OpenPasses(e)
         /\ e \in Borrowing => phase[e] = "recording"
    BY OpenFacts DEF EndPass
<1>2. /\ UNCHANGED Sees /\ finished' = finished
      /\ recording' = [recording EXCEPT ![e] = @ \o passes[p].cmds]
      /\ passes' = [passes EXCEPT ![p] = NoPass]
    BY <1>1 DEF EndPass, Push, Sees, serverVars
<1>3. \A x \in Encoders \ {e} : OpenPasses(x)' = OpenPasses(x) /\ p \notin OpenPasses(x)
    BY <1>1, <1>2, RecordingAssumption DEF OpenPasses, EncoderOK
<1>4. recording'[e] = recording[e] \o passes[p].cmds
      /\ \A x \in Encoders \ {e} : recording'[x] = recording[x]
    <2>1. recording \in [Encoders -> Recordings]
        BY DEF EncoderOK
    <2>2. QED
        BY ONLY <1>2, <2>1, e \in Encoders
<1>5. \A x \in Encoders \ {e} : Tapes'[x] = Tapes[x]
    <2> TAKE x \in Encoders \ {e}
    <2>1. \A q \in OpenPasses(x) : passes'[q] = passes[q]
        BY <1>2, <1>3 DEF OpenPasses, EncoderOK
    <2>2. QED
        BY <1>2, <1>3, <1>4, <2>1, TapeStays DEF Sees
<1>6. TapeIs /\ TapeIs' /\ phase[e] \in {"recording", "finished", "gone"}
      /\ phase'[e] = phase[e]
    BY <1>1, <1>2, TapeNow, TapeNext DEF EncoderOK, Sees
<1>7. CASE e \in Borrowing
    <2>1. \A q \in OpenPasses(e) : q = p
        BY <1>1, <1>7 DEF EncoderOK
    <2>2. OpenPasses(e)' = {}
        BY <1>2, <2>1, RecordingAssumption DEF OpenPasses, EncoderOK
    <2>3. Tapes[e] = recording[e] \o passes[p].cmds /\ Tapes'[e] = recording'[e]
        BY <1>1, <1>6, <1>7, <2>2 DEF TapeIs
    <2>4. QED
        BY <1>2, <1>4, <1>5, <2>3, Unwritten
<1>8. CASE e \notin Borrowing /\ phase[e] = "recording"
    <2>1. Tapes'[e] = recording'[e] /\ recording'[e] \in Recordings
        BY <1>1, <1>6, <1>8 DEF TapeIs, EncoderOK
    <2>2. QED
        BY <1>1, <1>2, <1>5, <1>8, <2>1, Written
<1>9. CASE phase[e] # "recording"
    <2>1. Tapes'[e] = Tapes[e]
        BY <1>1, <1>2, <1>6, <1>9 DEF TapeIs
    <2>2. QED
        BY <1>2, <1>5, <2>1, Unwritten
<1>10. QED
    BY <1>7, <1>8, <1>9

LEMMA TapeFinish ==
    ASSUME EncoderOK, EncoderOK', NEW e \in Encoders, Finish(e)
    PROVE  Promise!Next
<1>1. /\ phase[e] = "recording" /\ phase' = [phase EXCEPT ![e] = "finished"]
      /\ finished' = [finished EXCEPT ![e] = recording[e]]
      /\ recording' = [recording EXCEPT ![e] = <<>>]
      /\ UNCHANGED <<passes, wire, executed>>
      /\ e \in Borrowing => OpenPasses(e) = {}
    BY DEF Finish, Unborrowed, serverVars
<1>2. \A x \in Encoders : OpenPasses(x)' = OpenPasses(x)
    BY <1>1 DEF OpenPasses
<1>3. \A x \in Encoders \ {e} : Tapes'[x] = Tapes[x]
    <2> TAKE x \in Encoders \ {e}
    <2>1. phase'[x] = phase[x] /\ recording'[x] = recording[x] /\ finished'[x] = finished[x]
        BY <1>1 DEF EncoderOK
    <2>2. QED
        BY <1>1, <1>2, <2>1, TapeStays
<1>4. Tapes'[e] = Tapes[e]
    <2>1. phase'[e] = "finished" /\ finished'[e] = recording[e]
        BY <1>1 DEF EncoderOK
    <2>2. QED
        BY <1>1, <2>1, TapeNow, TapeNext DEF TapeIs
<1>5. Tapes' = Tapes /\ Submissions(wire)' = Submissions(wire)
    BY <1>1, <1>3, <1>4, SameTapes
<1>6. Promise!Close(e)
    BY <1>1, <1>5 DEF Promise!Close
<1>7. QED
    BY <1>6 DEF Promise!Next

LEMMA TapeDiscard ==
    ASSUME EncoderOK, EncoderOK', NEW e \in Encoders, Discarded(e),
           phase[e] \in {"recording", "finished"},
           \A p \in Passes : passes[p].enc # e => passes'[p] = passes[p],
           \A p \in Passes : passes'[p] = passes[p] \/ passes'[p] = NoPass
    PROVE  Promise!Next
<1>1. /\ phase' = [phase EXCEPT ![e] = "gone"]
      /\ finished' = [finished EXCEPT ![e] = <<>>]
      /\ recording' = [recording EXCEPT ![e] = <<>>]
      /\ UNCHANGED <<wire, executed>>
    BY DEF Discarded, serverVars
<1>2. \A x \in Encoders \ {e} : OpenPasses(x)' = OpenPasses(x)
    <2> TAKE x \in Encoders \ {e}
    <2>1. OpenPasses(x)' \subseteq OpenPasses(x)
        BY PassesShrink
    <2>2. ASSUME NEW p \in OpenPasses(x) PROVE p \in OpenPasses(x)'
        BY DEF OpenPasses
    <2>3. QED
        BY <2>1, <2>2
<1>3. \A x \in Encoders \ {e} : Tapes'[x] = Tapes[x]
    <2> TAKE x \in Encoders \ {e}
    <2>1. phase'[x] = phase[x] /\ recording'[x] = recording[x] /\ finished'[x] = finished[x]
        BY <1>1 DEF EncoderOK
    <2>2. \A p \in OpenPasses(x) : passes'[p] = passes[p]
        BY DEF OpenPasses
    <2>3. QED
        BY <1>2, <2>1, <2>2, TapeStays
<1>4. Tapes'[e] = <<>>
    <2>1. phase'[e] = "gone"
        BY <1>1 DEF EncoderOK
    <2>2. QED
        BY <2>1, TapeNext DEF TapeIs
<1>5. Tapes' = [Tapes EXCEPT ![e] = <<>>]
    BY <1>3, <1>4, OneTape
<1>6. Promise!GiveUp(e)
    BY <1>1, <1>5 DEF Promise!GiveUp
<1>7. QED
    BY <1>6 DEF Promise!Next

(* What a submission carries are the tapes of its command buffers.         *)
LEMMA TapeSubmit ==
    ASSUME EncoderOK, EncoderOK', RestOK, NEW es \in Selections, Submit(es)
    PROVE  Promise!Next
<1> DEFINE In(e) == \E j \in DOMAIN es : es[j] = e
<1>1. /\ phase' = [e \in Encoders |-> IF In(e) THEN "gone" ELSE phase[e]]
      /\ finished' = [e \in Encoders |-> IF In(e) THEN <<>> ELSE finished[e]]
      /\ UNCHANGED <<recording, passes, executed>>
      /\ wire' = IF Fits(Shipped(es)) THEN Append(wire, [op |-> "submit", recs |-> Shipped(es)])
                                      ELSE wire
    BY DEF Submit, Shipped, serverVars
<1>2. /\ \A j \in DOMAIN es : phase[es[j]] = "finished" /\ es[j] \in Encoders
      /\ \A i, j \in DOMAIN es : es[i] = es[j] => i = j
      /\ es \in UNION {[1..n -> Encoders] : n \in 0..Cardinality(Encoders)}
    BY DEF Selections
<1>3. Tapes' = [e \in Encoders |-> IF In(e) THEN <<>> ELSE Tapes[e]]
    <2>1. ASSUME NEW e \in Encoders, In(e) PROVE Tapes'[e] = <<>>
        BY <1>1, <2>1, TapeNext DEF TapeIs
    <2>2. ASSUME NEW e \in Encoders, ~In(e) PROVE Tapes'[e] = Tapes[e]
        <3>1. phase'[e] = phase[e] /\ finished'[e] = finished[e]
              /\ recording'[e] = recording[e]
            BY <1>1, <2>2
        <3>2. OpenPasses(e)' = OpenPasses(e)
            BY <1>1 DEF OpenPasses
        <3>3. QED
            BY <1>1, <3>1, <3>2, TapeStays
    <2> HIDE DEF In
    <2>3. Tapes' = [e \in Encoders |-> Tapes'[e]]
        BY DEF Tapes
    <2>4. QED
        BY <2>1, <2>2, <2>3
<1>4. [j \in DOMAIN es |-> Tapes[es[j]]] = Shipped(es)
    BY <1>2, TapeNow DEF TapeIs, Shipped
<1>5. Submissions(wire') = IF Fits(Shipped(es)) THEN Append(Submissions(wire), Shipped(es))
                                                ELSE Submissions(wire)
    <2> DEFINE f == [op |-> "submit", recs |-> Shipped(es)]
    <2>1. f \in Frames /\ wire \in Seq(Frames)
        BY ShippedType DEF RestOK
    <2>2. Submissions(Append(wire, f)) = Added(Submissions(wire), f)
        BY <2>1, SubmissionsSent
    <2>3. Added(Submissions(wire), f) = Append(Submissions(wire), Shipped(es))
        BY DEF Added
    <2>4. QED
        BY <1>1, <2>2, <2>3
<1>6. Promise!Submit(es)
    BY <1>1, <1>2, <1>3, <1>4, <1>5 DEF Promise!Submit
<1>7. Promise!Cardinality(Encoders) = Cardinality(Encoders)
    BY DEF Cardinality, Promise!Cardinality
<1>8. QED
    BY <1>2, <1>6, <1>7 DEF Promise!Next, Promise!Selections

LEMMA TapeRecorder ==
    ASSUME EncoderOK, EncoderOK', Recorder
    PROVE  [Promise!Next]_(Promise!tapeVars)
<1>1. ASSUME NEW e \in Encoders, Abandon(e) PROVE Promise!Next
    <2>1. Discarded(e) /\ passes' = passes /\ phase[e] \in {"recording", "finished"}
        BY <1>1 DEF Abandon
    <2>2. QED
        BY <2>1, TapeDiscard
<1>2. ASSUME NEW e \in Encoders, Unwind(e), phase[e] = "recording" PROVE Promise!Next
    <2>1. /\ Discarded(e)
          /\ \A p \in Passes : passes[p].enc # e => passes'[p] = passes[p]
          /\ \A p \in Passes : passes'[p] = passes[p] \/ passes'[p] = NoPass
        BY <1>2 DEF Unwind, OpenPasses
    <2>2. QED
        BY <1>2, <2>1, TapeDiscard
<1>3. QED
    BY <1>1, <1>2, TapeRecord, TapeBegin, TapeInPass, TapeEnd, TapeFinish DEF Recorder

(* Nothing but buffers ever leaves the table.                              *)
OnlyBuffersGo == Resources \ Buffers \subseteq table

(* Steps that do not touch the encoders.                                   *)
LEMMA TapesRest ==
    ASSUME UNCHANGED encoderVars
    PROVE  Tapes' = Tapes /\ phase' = phase
BY DEF Tapes, Said, OpenPasses, encoderVars

LEMMA TapeHandles ==
    ASSUME RestOK, NEW r \in Resources, Clone(r) \/ DropHandle(r)
    PROVE  UNCHANGED Promise!tapeVars
<1>1. UNCHANGED <<encoderVars, executed>> /\ (wire' = wire \/ wire' = Append(wire, Destroy(r)))
    BY DEF Clone, DropHandle, serverVars
<1>2. Destroy(r) \in Frames /\ Destroy(r).op = "destroy" /\ wire \in Seq(Frames)
    BY DEF Frames, Destroy, RestOK
<1>3. Submissions(Append(wire, Destroy(r))) = Submissions(wire)
    BY <1>2, SubmissionsSent DEF Added
<1>4. Submissions(wire') = Submissions(wire)
    BY <1>1, <1>3
<1>5. QED
    BY <1>1, <1>4, TapesRest DEF Promise!tapeVars

(* A submission is served in its turn, and one that is refused names what  *)
(* its user did not keep.                                                  *)
LEMMA TapeServe ==
    ASSUME RestOK, KeptIsThere, OnlyBuffersGo, ServeDestroy \/ ServeSubmit
    PROVE  [Promise!Next]_(Promise!tapeVars)
<1> DEFINE f == Head(wire)
<1>1. /\ wire \in Seq(Frames) /\ wire # <<>> /\ wire' = Tail(wire)
      /\ UNCHANGED encoderVars
    BY DEF RestOK, ServeDestroy, ServeSubmit
<1>2. /\ Submissions(wire) = Before(f, Submissions(wire'))
      /\ Submissions(wire') \in Queues
    BY <1>1, SubmissionsServed
<1>3. Tapes' = Tapes /\ phase' = phase
    BY <1>1, TapesRest
<1>4. CASE ServeDestroy
    <2>1. Submissions(wire) = Submissions(wire') /\ executed' = executed
        BY <1>2, <1>4 DEF ServeDestroy, Before
    <2>2. QED
        BY <1>3, <2>1 DEF Promise!tapeVars
<1>5. CASE ServeSubmit
    <2>1. f.op = "submit" /\ f.recs \in Seq(Recordings)
        BY <1>1, <1>5, HeadFrame DEF ServeSubmit
    <2>2. /\ Submissions(wire) # <<>> /\ Head(Submissions(wire)) = f.recs
          /\ Tail(Submissions(wire)) = Submissions(wire')
        <3>1. Submissions(wire) = <<f.recs>> \o Submissions(wire')
            BY <1>2, <2>1 DEF Before
        <3>2. \A q \in Queues : LET l == <<f.recs>> \o q IN
                 l # <<>> /\ Head(l) = f.recs /\ Tail(l) = q
            BY <2>1, FrontFacts DEF Queues
        <3>3. QED
            BY <1>2, <3>1, <3>2
    <2>3. CASE Needed(f.recs) \subseteq table
        <3>1. executed' = executed \o f.recs
            BY <1>5, <2>3 DEF ServeSubmit
        <3>2. Promise!Execute
            BY <1>3, <2>2, <3>1 DEF Promise!Execute
        <3>3. QED
            BY <3>2 DEF Promise!Next
    <2>4. CASE ~(Needed(f.recs) \subseteq table)
        <3>1. executed' = executed
            BY <1>5, <2>4 DEF ServeSubmit
        <3>2. PICK r : r \in Needed(f.recs) /\ r \notin table
            BY <2>4
        <3>3. PICK i \in DOMAIN f.recs : r \in Uses(f.recs[i])
            BY <3>2 DEF Needed
        <3>4. PICK j \in DOMAIN f.recs[i] : r \in f.recs[i][j].uses
            BY <3>3 DEF Uses
        <3>5. f.recs[i] \in Recordings /\ f.recs[i][j] \in Calls
            <4>1. f.recs[i] \in Recordings
                BY <2>1
            <4>2. \A s \in Recordings : \A n \in DOMAIN s : s[n] \in Calls
                BY DEF Recordings
            <4>3. QED
                BY <4>1, <4>2
        <3>6. r \in Resources
            BY <3>4, <3>5, RecordingAssumption DEF Commands
        <3>7. r \in Buffers
            BY <3>2, <3>6 DEF OnlyBuffersGo
        <3>8. r \notin Kept
            <4>1. 1 \in DOMAIN wire /\ wire[1] = f
                BY <1>1, TailFacts
            <4>2. QED
                BY <2>1, <3>2, <4>1 DEF KeptIsThere, SentIsThere
        <3>9. f.recs[i][j] \in {c \in Calls : c.uses \cap (Buffers \ Kept) # {}}
            BY <3>4, <3>5, <3>7, <3>8
        <3>10. Promise!Refuse
            BY <1>3, <2>2, <3>1, <3>9 DEF Promise!Refuse
        <3>11. QED
            BY <3>10 DEF Promise!Next
    <2>5. QED
        BY <2>3, <2>4
<1>6. QED
    BY <1>4, <1>5

(* Whatever threads record, pass, finish, submit and drop, an encoder is a *)
(* tape: what is executed is what was said, in the order of the calls and  *)
(* of the submissions, each as a whole, and one is refused only for a      *)
(* resource its user did not keep.                                         *)
THEOREM TapeCorrect == Spec => ImplementsTape
<1>1. Init => Promise!Init
    <2> SUFFICES ASSUME Init PROVE Promise!Init
        OBVIOUS
    <2>1. Tapes = [e \in Encoders |-> <<>>]
        <3>1. EncoderOK /\ \A e \in Encoders : OpenPasses(e) = {}
            BY EncoderInit, RecordingAssumption DEF Init, OpenPasses
        <3>2. \A e \in Encoders : Tapes[e] = <<>>
            BY <3>1, TapeNow DEF Init, TapeIs
        <3>3. QED
            BY <3>2 DEF Tapes
    <2>2. Submissions(<<>>) = <<>>
        <3>1. <<>> \in Seq(Frames) /\ Len(<<>>) = 0
            OBVIOUS
        <3>2. PICK up : Collected(up, <<>>)
            BY <3>1, Collection
        <3>3. QED
            BY <3>1, <3>2 DEF Collected
    <2>3. QED
        BY <2>1, <2>2 DEF Init, Promise!Init
<1>2. Init => OnlyBuffersGo
    BY DEF Init, OnlyBuffersGo
<1>3. OnlyBuffersGo /\ [Next]_vars => OnlyBuffersGo'
    <2>1. ASSUME OnlyBuffersGo, UNCHANGED table PROVE OnlyBuffersGo'
        BY <2>1 DEF OnlyBuffersGo
    <2>2. ASSUME OnlyBuffersGo, ServeDestroy PROVE OnlyBuffersGo'
        BY <2>2 DEF OnlyBuffersGo, ServeDestroy
    <2>3. [Next]_vars => UNCHANGED table \/ ServeDestroy
        BY UserCases, RecorderFrame
        DEF Next, vars, serverVars, Submit, Clone, DropHandle, ServeSubmit, Discard
    <2>4. QED
        BY <2>1, <2>2, <2>3
<1>4. TypeOK /\ TypeOK' /\ KeptIsThere /\ OnlyBuffersGo /\ [Next]_vars
      => [Promise!Next]_(Promise!tapeVars)
    <2> SUFFICES ASSUME EncoderOK, RestOK, EncoderOK', KeptIsThere, OnlyBuffersGo, [Next]_vars
                 PROVE  [Promise!Next]_(Promise!tapeVars)
        BY TypeParts
    <2>1. ASSUME UNCHANGED <<encoderVars, wire, executed>>
          PROVE  UNCHANGED Promise!tapeVars
        BY <2>1, TapesRest DEF Promise!tapeVars
    <2>2. CASE UNCHANGED vars
        BY <2>1, <2>2 DEF vars, serverVars
    <2>3. CASE User
        BY <2>2, <2>3, UserCases, TapeRecorder, TapeSubmit, TapeHandles
    <2>4. CASE Discard
        BY <2>1, <2>4 DEF Discard, serverVars
    <2>5. QED
        BY <2>2, <2>3, <2>4, TapeServe DEF Next
<1>5. QED
    BY <1>1, <1>2, <1>3, <1>4, TypeCorrect, KeptCorrect, PTL
       DEF Spec, ImplementsTape, Promise!Spec
=============================================================================
