---------------------------- MODULE EngineProofs ----------------------------
(***************************************************************************)
(* Proofs about Engine for any sessions, kinds, ids and submissions. What  *)
(* the queue computes command by command is followed by the induction of   *)
(* QueueFacts.                                                             *)
(***************************************************************************)
EXTENDS Engine, QueueFacts, TLAPS

(* The names a session may come to know, and the frames it may send.       *)
Mine(s)   == {r \in Names : r.kind \in Creates[s]}
Flawed    == {"none", "invalid", "unsupported"}
NoneOrBad == {"none", "invalid"}
Creation(s) == [op : {"create"}, name : Mine(s), refs : SUBSET Mine(s), flaw : Flawed]
Derivation(s) == [op : {"derive"}, name : Mine(s), refs : SUBSET Mine(s),
                  flaw : NoneOrBad]
Writing(s)  == [op : {"write"}, name : Mine(s), value : Values, flaw : NoneOrBad]
Reading(s)  == [op : {"read"}, name : Mine(s), flaw : NoneOrBad]
Submission(s) == [op : {"submit"}, recs : Seq(Seq(Commands(Mine(s)))),
                  flaw : Flawed]
FramesOf(s) ==
    {NoFrame} \cup [op : {"ack"}] \cup [op : {"destroy"}, name : Mine(s)]
    \cup Creation(s) \cup Derivation(s) \cup Writing(s) \cup Reading(s) \cup Submission(s)

(* A frame is one of its session's, and a name stands for an object of a   *)
(* session that creates its kind.                                          *)
FacadeInv ==
    /\ minted \in [Sessions -> [Kinds -> Nat]]
    /\ live \in [Sessions -> SUBSET Names]
    /\ \A s \in Sessions : live[s] \subseteq Mine(s)
    /\ frame = [s \in Sessions |-> frame[s]]
    /\ \A s \in Sessions : frame[s] \in FramesOf(s)

LEMMA NamesOfKind ==
    ASSUME NEW k \in Kinds, NEW i \in 1..MaxId[k]
    PROVE  [kind |-> k, id |-> i] \in Names
BY DEF Names

LEMMA HandedIsMine ==
    ASSUME FacadeInv, NEW s \in Sessions, NEW k, Mint(s, k)
    PROVE  Handed(s, k) \in Mine(s)
<1>1. k \in Kinds /\ k \in Creates[s]
    BY FacadeAssumption DEF Mint
<1>2. minted[s][k] + 1 \in 1..MaxId[k]
    BY <1>1, FacadeAssumption DEF Mint, FacadeInv
<1>3. QED
    BY <1>1, <1>2, NamesOfKind DEF Handed, Mine

LEMMA MintKeeps ==
    ASSUME FacadeInv, NEW s \in Sessions, NEW k, Mint(s, k)
    PROVE  /\ minted' \in [Sessions -> [Kinds -> Nat]]
           /\ live' \in [Sessions -> SUBSET Names]
           /\ \A t \in Sessions : live'[t] \subseteq Mine(t)
<1>1. Handed(s, k) \in Mine(s)
    BY HandedIsMine
<1>2. k \in Kinds /\ minted[s] \in [Kinds -> Nat]
    BY FacadeAssumption DEF Mint, FacadeInv
<1>3. [minted[s] EXCEPT ![k] = @ + 1] \in [Kinds -> Nat]
    BY <1>2
<1>4. minted' \in [Sessions -> [Kinds -> Nat]]
    BY <1>3 DEF Mint, FacadeInv
<1>5. QED
    BY <1>1, <1>4 DEF Mint, FacadeInv, Mine

LEMMA SendKeeps ==
    ASSUME FacadeInv, NEW s \in Sessions, NEW f \in FramesOf(s), Send(s, f)
    PROVE  /\ frame' = [t \in Sessions |-> frame'[t]]
           /\ \A t \in Sessions : frame'[t] \in FramesOf(t)
BY DEF FacadeInv, Send

(* More names make more commands.                                          *)
LEMMA CommandsGrow ==
    ASSUME NEW M, NEW N \in SUBSET M
    PROVE  Commands(N) \subseteq Commands(M)
BY DEF Commands

LEMMA UsesOfCommand ==
    ASSUME NEW N, NEW c \in Commands(N)
    PROVE  Uses(c) \subseteq N
BY DEF Commands, Uses

LEMMA SeenIsMine ==
    ASSUME NEW s \in Sessions
    PROVE  Seen(s) \subseteq Mine(s)
BY DEF Seen, Mine

LEMMA RecordingsAreSequences ==
    ASSUME NEW M, NEW N \in SUBSET M
    PROVE  Recordings(N) \subseteq Seq(Commands(M))
<1>1. SUFFICES ASSUME NEW n \in 1..MaxCommands, NEW r \in [1..n -> Commands(N)]
               PROVE  r \in Seq(Commands(M))
    BY DEF Recordings
<1>2. r \in [1..n -> Commands(M)]
    BY CommandsGrow
<1>3. n \in Nat
    OBVIOUS
<1>4. QED
    BY ONLY <1>2, <1>3, BuiltFacts

LEMMA UserKeeps ==
    ASSUME FacadeInv, NEW s \in Sessions, User(s)
    PROVE  FacadeInv'
<1> USE FacadeAssumption
<1>1. ASSUME NEW k \in Creates[s], NEW refs \in SUBSET live[s], NEW flaw \in Flawed,
             Create(s, k, refs, flaw)
      PROVE  FacadeInv'
    <2>1. Mint(s, k) /\ Handed(s, k) \in Mine(s)
        BY <1>1, HandedIsMine DEF Create
    <2>2. refs \in SUBSET Mine(s)
        BY <1>1 DEF FacadeInv
    <2>3. [op |-> "create", name |-> Handed(s, k), refs |-> refs, flaw |-> flaw]
             \in FramesOf(s)
        BY <2>1, <2>2 DEF FramesOf, Creation
    <2>4. QED
        BY <1>1, <2>1, <2>3, SendKeeps, MintKeeps DEF Create, Unsent, FacadeInv
<1>2. ASSUME NEW r \in live[s], Drop(s, r) PROVE FacadeInv'
    <2>1. [op |-> "destroy", name |-> r] \in FramesOf(s)
        BY <1>2 DEF FramesOf, FacadeInv
    <2>2. QED
        BY <1>2, <2>1, SendKeeps DEF Drop, FacadeInv
<1>3. ASSUME NEW r \in live[s], NEW flaw \in {"none", "invalid"}, Derive(s, r, flaw)
      PROVE  FacadeInv'
    <2>1. Mint(s, "bgl") /\ Handed(s, "bgl") \in Mine(s)
        BY <1>3, HandedIsMine DEF Derive
    <2>2. {r} \in SUBSET Mine(s)
        BY <1>3 DEF FacadeInv
    <2>3. [op |-> "derive", name |-> Handed(s, "bgl"), refs |-> {r}, flaw |-> flaw]
             \in FramesOf(s)
        BY <1>3, <2>1, <2>2 DEF FramesOf, Derivation, NoneOrBad
    <2>4. QED
        BY <1>3, <2>1, <2>3, SendKeeps, MintKeeps DEF Derive, FacadeInv
<1>4. ASSUME NEW r \in live[s], NEW flaw \in {"none", "invalid"}, Read(s, r, flaw)
      PROVE  FacadeInv'
    <2>1. [op |-> "read", name |-> r, flaw |-> flaw] \in FramesOf(s)
        BY <1>4 DEF FramesOf, FacadeInv, Reading, NoneOrBad
    <2>2. QED
        BY <1>4, <2>1, SendKeeps DEF Read, FacadeInv
<1>5. ASSUME NEW r \in live[s], NEW flaw \in {"none", "invalid"}, NEW v \in Values,
             Write(s, r, v, flaw)
      PROVE  FacadeInv'
    <2>1. [op |-> "write", name |-> r, value |-> v, flaw |-> flaw] \in FramesOf(s)
        BY <1>5 DEF FramesOf, FacadeInv, Writing, NoneOrBad
    <2>2. QED
        BY <1>5, <2>1, SendKeeps DEF Write, Unsent, FacadeInv
<1>6. ASSUME NEW n \in 0..MaxRecordings[s], NEW flaw \in Flawed,
             NEW recs \in [1..n -> Recordings(Seen(s))], Submit(s, recs, flaw)
      PROVE  FacadeInv'
    <2>1. recs \in [1..n -> Seq(Commands(Mine(s)))]
        BY <1>6, SeenIsMine, RecordingsAreSequences
    <2>2. n \in Nat
        BY <1>6
    <2>3. recs \in Seq(Seq(Commands(Mine(s))))
        BY ONLY <2>1, <2>2, BuiltFacts
    <2>4. [op |-> "submit", recs |-> recs, flaw |-> flaw] \in FramesOf(s)
        BY <1>6, <2>3 DEF FramesOf, Submission
    <2>5. QED
        BY <1>6, <2>4, SendKeeps DEF Submit, Unsent, FacadeInv
<1>7. ASSUME Ack(s) PROVE FacadeInv'
    <2>1. [op |-> "ack"] \in FramesOf(s)
        BY DEF FramesOf
    <2>2. QED
        BY <1>7, <2>1, SendKeeps DEF Ack, FacadeInv
<1>8. QED
    BY <1>1, <1>2, <1>3, <1>4, <1>5, <1>6, <1>7 DEF User, Flawed
-----------------------------------------------------------------------------
(* Types of the server's state, and whose objects the tables hold.         *)

Labels == {"idle", "built", "resolved", "staged", "mapping", "answered", "dead"}

ServerType ==
    /\ tables \in [Names -> Objects \cup {NoObject}]
    /\ lock \in Sessions \cup {Free} /\ poisoned \in BOOLEAN
    /\ staged \in Seq(ObjectWrites)
    /\ pc \in [Sessions -> Labels]
    /\ hand \in [Sessions -> SUBSET Objects]
    /\ bufs \in [Sessions -> Seq(Seq(ObjectCommands))]
    /\ answer \in [Sessions -> Answers]

(* Between a frame's arrival and its answer there is a frame, and only a   *)
(* creation waits for its object or to put it into the tables.             *)
Busy ==
    \A s \in Sessions :
       /\ pc[s] # "idle" => frame[s] # NoFrame
       /\ pc[s] \in {"built", "resolved"} => frame[s].op = "create"

TypeInv == FacadeInv /\ ServerType /\ Busy

LEMMA TypeInit == Init => TypeInv
<1> SUFFICES ASSUME Init PROVE TypeInv
    OBVIOUS
<1>1. FacadeInv
    BY DEF Init, FacadeInit, FacadeInv, FramesOf
<1>2. ServerType
    <2>1. tables \in [Names -> Objects \cup {NoObject}]
        BY DEF Init
    <2>2. staged \in Seq(ObjectWrites)
        BY DEF Init
    <2>3. bufs \in [Sessions -> Seq(Seq(ObjectCommands))]
        BY DEF Init
    <2>4. hand \in [Sessions -> SUBSET Objects] /\ pc \in [Sessions -> Labels]
        BY DEF Init, Labels
    <2>5. answer \in [Sessions -> Answers]
        BY DEF Init, Answers
    <2>6. QED
        BY <2>1, <2>2, <2>3, <2>4, <2>5 DEF Init, ServerType
<1>3. Busy
    BY DEF Init, Busy
<1>4. QED
    BY <1>1, <1>2, <1>3 DEF TypeInv

(* What a step that leaves the frames alone keeps of the facade.           *)
LEMMA FacadeStays ==
    ASSUME FacadeInv, UNCHANGED facadeVars
    PROVE  FacadeInv'
BY DEF FacadeInv, facadeVars

(* The frame at hand, by its operation.                                    *)
LEMMA FrameShapes ==
    ASSUME FacadeInv, NEW s \in Sessions
    PROVE  /\ frame[s].op = "create" => frame[s] \in Creation(s)
           /\ frame[s].op = "derive" => frame[s] \in Derivation(s)
           /\ frame[s].op = "write" => frame[s] \in Writing(s)
           /\ frame[s].op = "read" => frame[s] \in Reading(s)
           /\ frame[s].op = "submit" => frame[s] \in Submission(s)
           /\ frame[s].op = "destroy" => frame[s].name \in Mine(s)
           /\ frame[s].op \in {"ack", "destroy", "create", "derive", "write",
                                "read", "submit"} => frame[s] # NoFrame
BY DEF FacadeInv, FramesOf, Creation, Derivation, Writing, Reading, Submission,
       NoFrame

LEMMA FoundAreObjects ==
    ASSUME ServerType, NEW refs \in SUBSET Names, Found(refs)
    PROVE  {tables[r] : r \in refs} \subseteq Objects
BY DEF ServerType, Found

LEMMA MineAreNames == \A s : Mine(s) \subseteq Names
BY DEF Mine

(* A command whose names are found is replayed on objects.                 *)
LEMMA ReplayedCommand ==
    ASSUME ServerType, NEW N \in SUBSET Names, NEW c \in Commands(N),
           Found(Uses(c))
    PROVE  OnObjects(c) \in ObjectCommands
<1>1. CASE c.op = "copy"
    <2>1. c \in [op : {"copy"}, from : N, to : N]
        BY <1>1 DEF Commands
    <2>2. tables[c.from] \in Objects /\ tables[c.to] \in Objects
        BY <1>1, <2>1 DEF Uses, Found, ServerType
    <2>3. QED
        BY <1>1, <2>1, <2>2 DEF OnObjects, ObjectCommands
<1>2. CASE c.op # "copy"
    <2>1. c \in [op : {"clear", "use"}, to : N]
        BY <1>2 DEF Commands
    <2>2. tables[c.to] \in Objects
        BY <1>2, <2>1 DEF Uses, Found, ServerType
    <2>3. QED
        BY <1>2, <2>1, <2>2 DEF OnObjects, ObjectCommands
<1>3. QED
    BY <1>1, <1>2

(* The parts a handler's steps are made of keep its own state typed.       *)
HandlerType ==
    /\ pc \in [Sessions -> Labels]
    /\ hand \in [Sessions -> SUBSET Objects]
    /\ bufs \in [Sessions -> Seq(Seq(ObjectCommands))]
    /\ answer \in [Sessions -> Answers]

LEMMA AnswerType ==
    ASSUME HandlerType, NEW s \in Sessions, NEW a \in Answers, Answer(s, a)
    PROVE  HandlerType'
BY DEF HandlerType, Answer, Goto, Labels

LEMMA PlainAnswers ==
    {Ok, Unknown, Invalid, Internal} \subseteq Answers
BY DEF Answers

LEMMA PanicType ==
    ASSUME HandlerType, NEW s \in Sessions, Panic(s)
    PROVE  HandlerType'
<1>1. pc' \in [Sessions -> Labels]
    BY DEF HandlerType, Panic, Goto, Labels
<1>2. bufs' \in [Sessions -> Seq(Seq(ObjectCommands))]
    BY DEF HandlerType, Panic
<1>3. hand' \in [Sessions -> SUBSET Objects]
    BY DEF HandlerType, Panic
<1>4. QED
    BY <1>1, <1>2, <1>3 DEF HandlerType, Panic

LEMMA GotoType ==
    ASSUME HandlerType, NEW s \in Sessions, NEW label \in Labels, Goto(s, label),
           UNCHANGED <<bufs, answer>>, hand' \in [Sessions -> SUBSET Objects]
    PROVE  HandlerType'
BY DEF HandlerType, Goto

LEMMA LookupType ==
    ASSUME ServerType, NEW s \in Sessions, NEW refs \in SUBSET Names, Found(refs),
           Lookup(s, refs)
    PROVE  hand' \in [Sessions -> SUBSET Objects]
BY FoundAreObjects DEF ServerType, Lookup

LEMMA ReplayedRecording ==
    ASSUME ServerType, NEW N \in SUBSET Names, NEW rec \in Seq(Commands(N)),
           Found(UsedBy(rec))
    PROVE  /\ [j \in DOMAIN rec |-> OnObjects(rec[j])] \in Seq(ObjectCommands)
           /\ UsedBy(rec) \in SUBSET N
<1>1. Len(rec) \in Nat /\ DOMAIN rec = 1..Len(rec)
      /\ \A j \in DOMAIN rec : rec[j] \in Commands(N)
    OBVIOUS
<1>2. \A j \in DOMAIN rec : Uses(rec[j]) \subseteq UsedBy(rec)
    BY DEF UsedBy
<1>3. \A j \in DOMAIN rec : OnObjects(rec[j]) \in ObjectCommands
    BY <1>1, <1>2, ReplayedCommand DEF Found
<1>4. [j \in DOMAIN rec |-> OnObjects(rec[j])] \in [1..Len(rec) -> ObjectCommands]
    BY <1>1, <1>3
<1>5. [j \in DOMAIN rec |-> OnObjects(rec[j])] \in Seq(ObjectCommands)
    BY ONLY <1>1, <1>4, BuiltFacts
<1>6. UsedBy(rec) \in SUBSET N
    BY <1>1, UsesOfCommand DEF UsedBy
<1>7. QED
    BY <1>5, <1>6

(* One step per action of the handler.                                     *)
LEMMA HandlerKeepsType ==
    ASSUME TypeInv, NEW s \in Sessions, Handler(s)
    PROVE  ServerType'
<1> USE DEF At, Lock, tableVars, deviceVars
<1> DEFINE TableType == /\ tables \in [Names -> Objects \cup {NoObject}]
                        /\ lock \in Sessions \cup {Free} /\ poisoned \in BOOLEAN
                        /\ staged \in Seq(ObjectWrites)
<1>a. TableType /\ HandlerType
    BY DEF TypeInv, ServerType, HandlerType
<1>b. SUFFICES TableType' /\ HandlerType'
    BY DEF ServerType, HandlerType
<1>c. \A r \in Mine(s) : r \in Names /\ [by |-> s, name |-> r] \in Objects
    BY DEF Objects, Mine
<1>d. hand \in [Sessions -> SUBSET Objects]
    BY <1>a DEF HandlerType
<1>e. FacadeInv /\ ServerType /\ Busy
    BY DEF TypeInv
<1>1. CASE AckFrame(s)
    BY <1>1, <1>a, AnswerType, PlainAnswers DEF AckFrame
<1>2. CASE Remove(s)
    BY <1>2, <1>a, AnswerType, PlainAnswers DEF Remove
<1>3. CASE Build(s)
    <2>1. TableType'
        BY <1>3, <1>a DEF Build
    <2>2. frame[s].flaw \in Flawed
        BY <1>3, <1>e, FrameShapes DEF Build, Creation
    <2>3. HandlerType'
        <3>1. CASE frame[s].flaw = "none"
            BY <1>3, <3>1, <1>a, <1>d, GotoType DEF Build, Labels
        <3>2. CASE frame[s].flaw = "unsupported"
            BY <1>3, <3>2, <1>a, AnswerType, PlainAnswers DEF Build
        <3>3. CASE frame[s].flaw = "invalid"
            BY <1>3, <3>3, <1>a, PanicType DEF Build
        <3>4. QED
            BY <2>2, <3>1, <3>2, <3>3 DEF Flawed
    <2>4. QED
        BY <2>1, <2>3
<1>4. CASE Resolve(s)
    <2>1. frame[s] \in Creation(s) /\ frame[s].refs \in SUBSET Names
        BY <1>4, <1>e, FrameShapes, MineAreNames DEF Resolve, Creation
    <2>2. ASSUME NEW a \in Refusals(frame[s]), Answer(s, a), UNCHANGED lock
          PROVE  TableType' /\ HandlerType'
        <3>1. a \in Answers
            BY PlainAnswers DEF Refusals
        <3>2. QED
            BY <1>4, <2>2, <3>1, <1>a, AnswerType DEF Resolve
    <2>3. ASSUME Found(frame[s].refs), Lookup(s, frame[s].refs), lock' = s,
                 Goto(s, "resolved"), UNCHANGED <<bufs, answer>>
          PROVE  TableType' /\ HandlerType'
        BY <1>4, <1>a, <2>1, <2>3, <1>e, LookupType, GotoType DEF Resolve, Labels
    <2>4. QED
        BY <1>4, <2>2, <2>3 DEF Resolve
<1>5. CASE BuildLocked(s)
    <2>1. TableType'
        BY <1>5, <1>a DEF BuildLocked
    <2>2. HandlerType'
        BY <1>5, <1>a, <1>d, PanicType, GotoType DEF BuildLocked, Labels
    <2>3. QED
        BY <2>1, <2>2
<1>6. CASE Insert(s)
    <2>1. HandlerType'
        BY <1>6, <1>a, AnswerType, PlainAnswers DEF Insert
    <2>2. tables' \in [Names -> Objects \cup {NoObject}]
        <3>1. frame[s] \in Creation(s)
            BY <1>6, <1>e, FrameShapes DEF Insert, Busy
        <3>2. [by |-> s, name |-> frame[s].name] \in Objects
            BY <3>1, <1>c DEF Creation
        <3>3. QED
            BY <1>6, <1>a, <3>2 DEF Insert
    <2>3. QED
        BY <1>6, <1>a, <2>1, <2>2 DEF Insert
<1>7. CASE DeriveLayout(s)
    <2>1. frame[s] \in Derivation(s) /\ frame[s].refs \in SUBSET Names
        BY <1>7, <1>e, FrameShapes, MineAreNames DEF DeriveLayout, Derivation
    <2>2. tables' \in [Names -> Objects \cup {NoObject}]
        <3>1. tables' = tables
              \/ tables' = [tables EXCEPT ![frame[s].name] = [by |-> s, name |-> frame[s].name]]
            BY <1>7, <2>1 DEF DeriveLayout, Derivation, NoneOrBad
        <3>2. [by |-> s, name |-> frame[s].name] \in Objects
            BY <2>1, <1>c DEF Derivation
        <3>3. QED
            BY <3>1, <3>2, <1>a
    <2>3. TableType'
        BY <1>7, <1>a, <2>1, <2>2 DEF DeriveLayout, Derivation, NoneOrBad
    <2>4. HandlerType'
        <3>1. CASE ~Found(frame[s].refs)
            BY <1>7, <3>1, <1>a, AnswerType, PlainAnswers DEF DeriveLayout
        <3>2. CASE Found(frame[s].refs) /\ frame[s].flaw = "invalid"
            BY <1>7, <3>2, <1>a, PanicType DEF DeriveLayout
        <3>3. CASE Found(frame[s].refs) /\ frame[s].flaw = "none"
            <4>1. /\ Lookup(s, frame[s].refs) /\ Goto(s, "answered") /\ UNCHANGED bufs
                  /\ answer' = [answer EXCEPT ![s] = Ok]
                BY <1>7, <3>3 DEF DeriveLayout
            <4>2. hand' \in [Sessions -> SUBSET Objects]
                BY <2>1, <3>3, <4>1, <1>e, LookupType
            <4>3. QED
                BY <1>a, <4>1, <4>2, PlainAnswers DEF HandlerType, Goto, Labels
        <3>4. QED
            BY <2>1, <3>1, <3>2, <3>3 DEF Derivation, NoneOrBad
    <2>5. QED
        BY <2>3, <2>4
<1>8. CASE Stage(s)
    <2>1. frame[s] \in Writing(s) /\ {frame[s].name} \in SUBSET Names
        BY <1>8, <1>e, FrameShapes, MineAreNames DEF Stage, Writing
    <2>2. CASE ~Found({frame[s].name})
        BY <1>8, <2>2, <1>a, AnswerType, PlainAnswers DEF Stage
    <2>3. CASE Found({frame[s].name}) /\ frame[s].flaw = "invalid"
        BY <1>8, <2>3, <1>a, PanicType DEF Stage
    <2>4. CASE Found({frame[s].name}) /\ frame[s].flaw = "none"
        <3>1. /\ Lookup(s, {frame[s].name}) /\ Goto(s, "staged")
              /\ UNCHANGED <<poisoned, bufs, answer, tables>>
              /\ lock' \in {s, Free}
              /\ staged' = Append(staged, [op |-> "write", to |-> tables[frame[s].name],
                                           value |-> frame[s].value])
            BY <1>8, <2>4 DEF Stage
        <3>2. tables[frame[s].name] \in Objects
            BY <2>1, <2>4, <1>a DEF Found
        <3>3. [op |-> "write", to |-> tables[frame[s].name], value |-> frame[s].value]
                 \in ObjectWrites
            BY <2>1, <3>2 DEF ObjectWrites, Writing
        <3>4. staged' \in Seq(ObjectWrites)
            BY <3>1, <3>3, <1>a, AppendFacts
        <3>5. HandlerType'
            BY <1>a, <2>1, <2>4, <3>1, <1>e, LookupType, GotoType DEF Labels
        <3>6. QED
            BY <1>a, <3>1, <3>4, <3>5
    <2>5. QED
        BY <2>1, <2>2, <2>3, <2>4 DEF Writing, NoneOrBad
<1>9. CASE Flush(s)
    BY <1>9, <1>a, AnswerType, PlainAnswers DEF Flush, QueueSubmit
<1>10. CASE Snapshot(s)
    <2>1. frame[s] \in Reading(s) /\ {frame[s].name} \in SUBSET Names
        BY <1>10, <1>e, FrameShapes, MineAreNames DEF Snapshot, Reading
    <2>2. CASE Found({frame[s].name})
        BY <1>10, <2>1, <2>2, <1>a, <1>e, LookupType, GotoType DEF Snapshot, Labels
    <2>3. CASE ~Found({frame[s].name})
        BY <1>10, <2>3, <1>a, AnswerType, PlainAnswers DEF Snapshot
    <2>4. QED
        BY <2>2, <2>3
<1>11. CASE CopyOut(s)
    <2>1. {Internal} \cup {Data(v) : v \in Values} \subseteq Answers
        BY DEF Answers
    <2>2. QED
        BY <1>11, <2>1, <1>a, PanicType, AnswerType DEF CopyOut
<1>12. CASE Replay(s)
    <2> DEFINE i   == Len(bufs[s]) + 1
               rec == frame[s].recs[i]
    <2>1. rec \in Seq(Commands(Mine(s)))
        <3>1. frame[s].recs \in Seq(Seq(Commands(Mine(s))))
            BY <1>12, <1>e, FrameShapes DEF Replay, Submission
        <3>2. i \in 1..Len(frame[s].recs)
            BY <1>12, <1>a, <3>1 DEF Replay, HandlerType
        <3>3. QED
            BY <3>1, <3>2
    <2>2. TableType'
        BY <1>12, <1>a DEF Replay
    <2>3. CASE Answer(s, Unknown)
        BY <2>2, <2>3, <1>a, AnswerType, PlainAnswers
    <2>4. CASE Panic(s)
        BY <2>2, <2>4, <1>a, PanicType
    <2>5. ASSUME Found(UsedBy(rec)), Lookup(s, UsedBy(rec)), UNCHANGED <<pc, answer>>,
                 bufs' = [bufs EXCEPT ![s] = Append(@, [j \in DOMAIN rec |-> OnObjects(rec[j])])]
          PROVE  HandlerType'
        <3> HIDE DEF rec
        <3>1. /\ [j \in DOMAIN rec |-> OnObjects(rec[j])] \in Seq(ObjectCommands)
              /\ UsedBy(rec) \in SUBSET Names
            BY <2>1, <2>5, <1>e, ReplayedRecording, MineAreNames
        <3>2. bufs[s] \in Seq(Seq(ObjectCommands))
            BY <1>a DEF HandlerType
        <3>3. Append(bufs[s], [j \in DOMAIN rec |-> OnObjects(rec[j])])
                 \in Seq(Seq(ObjectCommands))
            BY ONLY <3>1, <3>2, AppendFacts
        <3>4. hand' \in [Sessions -> SUBSET Objects]
            BY <2>5, <3>1, <1>e, LookupType
        <3>5. bufs' \in [Sessions -> Seq(Seq(ObjectCommands))]
            BY <1>a, <2>5, <3>3 DEF HandlerType
        <3>6. QED
            BY <1>a, <2>5, <3>4, <3>5 DEF HandlerType
    <2>6. QED
        BY <1>12, <2>2, <2>3, <2>4, <2>5 DEF Replay
<1>13. CASE SubmitAll(s)
    <2>1. staged' = staged \/ staged' = <<>>
        BY <1>13 DEF SubmitAll, QueueSubmit
    <2>2. TableType'
        <3>1. <<>> \in Seq(ObjectWrites) /\ staged \in Seq(ObjectWrites)
            BY <1>a
        <3>2. UNCHANGED <<tables, lock, poisoned>>
            BY <1>13 DEF SubmitAll
        <3>3. QED
            BY <1>a, <2>1, <3>1, <3>2
    <2>3. HandlerType'
        BY <1>13, <1>a, PanicType, AnswerType, PlainAnswers DEF SubmitAll
    <2>4. QED
        BY <2>2, <2>3
<1>14. CASE Reply(s)
    <2>1. bufs' \in [Sessions -> Seq(Seq(ObjectCommands))]
        BY <1>14, <1>a DEF Reply, HandlerType
    <2>2. answer' \in [Sessions -> Answers]
        BY <1>14, <1>a DEF Reply, HandlerType, Answers
    <2>3. hand' \in [Sessions -> SUBSET Objects] /\ pc' \in [Sessions -> Labels]
        BY <1>14, <1>a DEF Reply, HandlerType, Goto, Labels
    <2>4. QED
        BY <1>14, <1>a, <2>1, <2>2, <2>3 DEF Reply, HandlerType
<1>15. CASE LockPanics(s)
    BY <1>15, <1>a, PanicType DEF LockPanics
<1>16. QED
    BY <1>1, <1>2, <1>3, <1>4, <1>5, <1>6, <1>7, <1>8, <1>9, <1>10, <1>11,
       <1>12, <1>13, <1>14, <1>15 DEF Handler

LEMMA HandlerKeepsFacade ==
    ASSUME FacadeInv, NEW s \in Sessions, Handler(s)
    PROVE  FacadeInv'
<1>1. CASE Reply(s)
    <2>1. frame' = [frame EXCEPT ![s] = NoFrame] /\ UNCHANGED <<minted, live>>
        BY <1>1 DEF Reply
    <2>2. QED
        BY <2>1 DEF FacadeInv, FramesOf
<1>2. CASE ~Reply(s)
    <2>1. UNCHANGED facadeVars
        BY <1>2 DEF Handler, AckFrame, Remove, Build, Resolve, BuildLocked, Insert,
                    DeriveLayout, Stage, Flush, Snapshot, CopyOut, Replay, SubmitAll,
                    LockPanics
    <2>2. QED
        BY <2>1, FacadeStays
<1>3. QED
    BY <1>1, <1>2

(* A handler's step moves its own pc, and nobody's frame but its own.      *)
LEMMA OwnPc ==
    ASSUME TypeInv, NEW s \in Sessions, Handler(s)
    PROVE  /\ \A t \in Sessions \ {s} : pc'[t] = pc[t] /\ frame'[t] = frame[t]
           /\ pc'[s] # "idle" => frame'[s] = frame[s] /\ frame[s] # NoFrame
           /\ pc'[s] = "resolved" => pc[s] = "idle" /\ frame[s].op = "create" /\ lock' = s
           /\ pc'[s] = "built" => frame[s].op = "create"
           /\ pc'[s] = "staged" => pc[s] = "idle" /\ frame[s].op = "write"
<1> USE DEF At, Goto, Answer, Panic, TypeInv, ServerType
<1>0. frame[s].op \in {"ack", "destroy", "create", "derive", "write", "read", "submit"}
      => frame[s] # NoFrame
    BY FrameShapes
<1>1. CASE Reply(s)
    BY <1>1, FrameShapes DEF Reply, FacadeInv
<1>2. CASE AckFrame(s) \/ Remove(s)
    BY <1>2, <1>0 DEF AckFrame, Remove, facadeVars
<1>3. CASE Build(s)
    BY <1>3, <1>0, FrameShapes DEF Build, facadeVars, Creation, Flawed
<1>4. CASE Resolve(s)
    BY <1>4, <1>0 DEF Resolve, facadeVars
<1>5. CASE BuildLocked(s) \/ Insert(s) \/ Flush(s) \/ CopyOut(s)
    BY <1>5, <1>0 DEF BuildLocked, Insert, Flush, CopyOut, facadeVars, Busy
<1>6. CASE DeriveLayout(s)
    BY <1>6, <1>0, FrameShapes DEF DeriveLayout, facadeVars, Derivation, NoneOrBad
<1>7. CASE Stage(s)
    BY <1>7, <1>0, FrameShapes DEF Stage, facadeVars, Writing, NoneOrBad
<1>8. CASE Snapshot(s)
    BY <1>8, <1>0 DEF Snapshot, facadeVars
<1>9. CASE Replay(s) \/ SubmitAll(s)
    BY <1>9, <1>0 DEF Replay, SubmitAll, facadeVars
<1>10. CASE LockPanics(s)
    BY <1>10, <1>0 DEF LockPanics, Takes, facadeVars, Busy
<1>11. QED
    BY <1>1, <1>2, <1>3, <1>4, <1>5, <1>6, <1>7, <1>8, <1>9, <1>10 DEF Handler

LEMMA TypeStep == TypeInv /\ [Next]_vars => TypeInv'
<1> SUFFICES ASSUME TypeInv, [Next]_vars PROVE TypeInv'
    OBVIOUS
<1>1. ASSUME NEW s \in Sessions, User(s), UNCHANGED engineVars PROVE TypeInv'
    <2>1. FacadeInv'
        BY <1>1, UserKeeps DEF TypeInv
    <2>2. ServerType'
        BY <1>1 DEF TypeInv, ServerType, engineVars, tableVars, deviceVars, handlerVars
    <2>3. \A t \in Sessions : frame[t] # NoFrame => frame'[t] = frame[t]
        BY <1>1 DEF User, Create, Drop, Derive, Read, Write, Submit, Ack, Send, Unsent, TypeInv,
                    FacadeInv
    <2>4. Busy'
        BY <1>1, <2>3 DEF TypeInv, Busy, engineVars, handlerVars
    <2>5. QED
        BY <2>1, <2>2, <2>4 DEF TypeInv
<1>2. ASSUME NEW s \in Sessions, Handler(s) PROVE TypeInv'
    <2>1. FacadeInv' /\ ServerType'
        BY <1>2, HandlerKeepsFacade, HandlerKeepsType DEF TypeInv
    <2>2. Busy'
        BY <1>2, OwnPc DEF TypeInv, Busy
    <2>3. QED
        BY <2>1, <2>2 DEF TypeInv
<1>3. CASE UNCHANGED vars
    BY <1>3 DEF vars, facadeVars, engineVars, tableVars, deviceVars, handlerVars, TypeInv,
                FacadeInv, ServerType, Busy
<1>4. QED
    BY <1>1, <1>2, <1>3 DEF Next

(* Every state of the server is well typed, every frame is one its session *)
(* may send, and every object in the tables or in a handler's hands is one *)
(* some session created.                                                   *)
THEOREM TypeCorrect == Spec => []TypeInv
BY TypeInit, TypeStep, PTL DEF Spec
-----------------------------------------------------------------------------
(* What the queue computes. The contents after n commands are a function   *)
(* on 0..Len(cmds) that QueueFacts shows to exist.                         *)

(* The commands D keep the contents in S.                                  *)
Keeps(D, S) == \A x \in S, d \in D : Apply(x, d) \in S
Ran(run, S, c, cmds) ==
    /\ run \in [0..Len(cmds) -> S] /\ run[0] = c /\ Run(c, cmds) = run[Len(cmds)]
    /\ \A n \in 1..Len(cmds) : run[n] = Apply(run[n - 1], cmds[n])

LEMMA RunFacts ==
    ASSUME NEW S, NEW c \in S, NEW D, NEW cmds \in Seq(D), Keeps(D, S)
    PROVE  \E run : Ran(run, S, c, cmds)
<1> DEFINE N == Len(cmds)
           step == [n \in 1..N |-> [x \in S |-> Apply(x, cmds[n])]]
           run == CHOOSE r : r = [n \in 0..Len(cmds) |->
                                    IF n = 0 THEN c ELSE Apply(r[n - 1], cmds[n])]
<1>1. N \in Nat /\ \A n \in 1..N : cmds[n] \in D
    OBVIOUS
<1>2. Steps(step, N, S)
    BY <1>1 DEF Steps, Keeps
<1> HIDE DEF step, N
<1>3. PICK g : Iterates(g, N, S, c, step)
    <2>1. N \in Nat /\ c \in S
        BY <1>1
    <2>2. QED
        BY ONLY <1>2, <2>1, Recursion
<1>4. g = [n \in 0..N |-> IF n = 0 THEN c ELSE Apply(g[n - 1], cmds[n])]
    <2>1. g \in [0..N -> S] /\ g[0] = c
          /\ \A n \in 1..N : g[n] = step[n][g[n - 1]]
        BY <1>3 DEF Iterates
    <2>2. \A n \in 1..N : g[n] = Apply(g[n - 1], cmds[n])
        <3> TAKE n \in 1..N
        <3>1. n - 1 \in 0..N
            BY <1>1
        <3>2. g[n - 1] \in S
            BY <2>1, <3>1
        <3>3. QED
            BY <2>1, <3>2 DEF step
    <2>3. \A n \in 0..N : n # 0 => n \in 1..N
        BY <1>1
    <2>4. \A n \in 0..N : g[n] = IF n = 0 THEN c ELSE Apply(g[n - 1], cmds[n])
        BY <2>1, <2>2, <2>3
    <2>5. QED
        BY <2>1, <2>4
<1>5. run = [n \in 0..N |-> IF n = 0 THEN c ELSE Apply(run[n - 1], cmds[n])]
    BY <1>4, Zenon DEF N
<1>6. Run(c, cmds) = run[N]
    BY DEF Run, N
<1> HIDE DEF run
<1>7. run[0] = c /\ \A n \in 1..N : run[n] = Apply(run[n - 1], cmds[n])
    <2>1. 0 \in 0..N /\ \A n \in 1..N : n \in 0..N /\ n # 0
        BY <1>1
    <2>2. QED
        BY <1>5, <2>1
<1>8. Follows(run, N, S, c, step)
    <2>1. run = [n \in 0..N |-> run[n]]
        BY <1>5
    <2>2. QED
        BY <1>7, <2>1 DEF Follows, step
<1>9. Iterates(run, N, S, c, step)
    <2>1. N \in Nat /\ c \in S
        BY <1>1
    <2>2. QED
        BY ONLY <1>2, <1>8, <2>1, Following
<1>10. Ran(run, S, c, cmds)
    BY <1>6, <1>7, <1>9 DEF Iterates, Ran, N
<1>11. QED
    BY <1>10

LEMMA RunKeeps ==
    ASSUME NEW S, NEW c \in S, NEW D, NEW cmds \in Seq(D), Keeps(D, S)
    PROVE  Run(c, cmds) \in S
<1>1. PICK run : Ran(run, S, c, cmds)
    BY RunFacts
<1>2. Len(cmds) \in 0..Len(cmds)
    OBVIOUS
<1>3. QED
    BY <1>1, <1>2 DEF Ran

(* The same of a list of command buffers.                                  *)
RanAll(run, S, c, recs) ==
    /\ run \in [0..Len(recs) -> S] /\ run[0] = c /\ RunAll(c, recs) = run[Len(recs)]
    /\ \A n \in 1..Len(recs) : run[n] = Run(run[n - 1], recs[n])

LEMMA RunAllFacts ==
    ASSUME NEW S, NEW c \in S, NEW D, NEW recs \in Seq(Seq(D)), Keeps(D, S)
    PROVE  \E run : RanAll(run, S, c, recs)
<1> DEFINE N == Len(recs)
           step == [n \in 1..N |-> [x \in S |-> Run(x, recs[n])]]
           run == CHOOSE r : r = [n \in 0..Len(recs) |->
                                    IF n = 0 THEN c ELSE Run(r[n - 1], recs[n])]
<1>1. N \in Nat /\ \A n \in 1..N : recs[n] \in Seq(D)
    OBVIOUS
<1>2. Steps(step, N, S)
    BY <1>1, RunKeeps DEF Steps
<1> HIDE DEF step, N
<1>3. PICK g : Iterates(g, N, S, c, step)
    <2>1. N \in Nat /\ c \in S
        BY <1>1
    <2>2. QED
        BY ONLY <1>2, <2>1, Recursion
<1>4. g = [n \in 0..N |-> IF n = 0 THEN c ELSE Run(g[n - 1], recs[n])]
    <2>1. g \in [0..N -> S] /\ g[0] = c
          /\ \A n \in 1..N : g[n] = step[n][g[n - 1]]
        BY <1>3 DEF Iterates
    <2>2. \A n \in 1..N : g[n] = Run(g[n - 1], recs[n])
        <3> TAKE n \in 1..N
        <3>1. n - 1 \in 0..N
            BY <1>1
        <3>2. g[n - 1] \in S
            BY <2>1, <3>1
        <3>3. QED
            BY <2>1, <3>2 DEF step
    <2>3. \A n \in 0..N : n # 0 => n \in 1..N
        BY <1>1
    <2>4. \A n \in 0..N : g[n] = IF n = 0 THEN c ELSE Run(g[n - 1], recs[n])
        BY <2>1, <2>2, <2>3
    <2>5. QED
        BY <2>1, <2>4
<1>5. run = [n \in 0..N |-> IF n = 0 THEN c ELSE Run(run[n - 1], recs[n])]
    BY <1>4, Zenon DEF N
<1>6. RunAll(c, recs) = run[N]
    BY DEF RunAll, N
<1> HIDE DEF run
<1>7. run[0] = c /\ \A n \in 1..N : run[n] = Run(run[n - 1], recs[n])
    <2>1. 0 \in 0..N /\ \A n \in 1..N : n \in 0..N /\ n # 0
        BY <1>1
    <2>2. QED
        BY <1>5, <2>1
<1>8. Follows(run, N, S, c, step)
    <2>1. run = [n \in 0..N |-> run[n]]
        BY <1>5
    <2>2. QED
        BY <1>7, <2>1 DEF Follows, step
<1>9. Iterates(run, N, S, c, step)
    <2>1. N \in Nat /\ c \in S
        BY <1>1
    <2>2. QED
        BY ONLY <1>2, <1>8, <2>1, Following
<1>10. RanAll(run, S, c, recs)
    BY <1>6, <1>7, <1>9 DEF Iterates, RanAll, N
<1>11. QED
    BY <1>10

LEMMA RunAllKeeps ==
    ASSUME NEW S, NEW c \in S, NEW D, NEW recs \in Seq(Seq(D)), Keeps(D, S)
    PROVE  RunAll(c, recs) \in S
<1>1. PICK run : RanAll(run, S, c, recs)
    BY RunAllFacts
<1>2. Len(recs) \in 0..Len(recs)
    OBVIOUS
<1>3. QED
    BY <1>1, <1>2 DEF RanAll
-----------------------------------------------------------------------------
(* The contents of resources are contents whatever is submitted.           *)

Contents    == [Objects -> Values]
ContentsInv == contents \in Contents

LEMMA CommandsKeepContents ==
    Keeps(ObjectCommands, Contents) /\ Keeps(ObjectWrites, Contents)
<1>1. 0 \in Values
    BY FacadeAssumption DEF Values
<1>2. ASSUME NEW x \in Contents, NEW d \in ObjectCommands PROVE Apply(x, d) \in Contents
    <2>1. CASE d \in [op : {"clear", "use"}, to : Objects]
        BY <1>1, <2>1 DEF Apply, Contents
    <2>2. CASE d \in [op : {"copy"}, from : Objects, to : Objects]
        BY <2>2 DEF Apply, Contents
    <2>3. QED
        BY <1>2, <2>1, <2>2 DEF ObjectCommands
<1>3. ASSUME NEW x \in Contents, NEW d \in ObjectWrites PROVE Apply(x, d) \in Contents
    BY <1>3 DEF Apply, Contents, ObjectWrites
<1>4. QED
    BY <1>2, <1>3 DEF Keeps

LEMMA SubmitKeepsContents ==
    ASSUME NEW c \in Contents, NEW w \in Seq(ObjectWrites),
           NEW recs \in Seq(Seq(ObjectCommands))
    PROVE  RunAll(Run(c, w), recs) \in Contents
<1>1. Run(c, w) \in Contents
    BY CommandsKeepContents, RunKeeps
<1>2. QED
    BY <1>1, CommandsKeepContents, RunAllKeeps

LEMMA ContentsStep ==
    TypeInv /\ ContentsInv /\ [Next]_vars => ContentsInv'
<1> SUFFICES ASSUME TypeInv, ContentsInv, [Next]_vars PROVE ContentsInv'
    OBVIOUS
<1> USE DEF ContentsInv
<1>1. CASE contents' = contents
    BY <1>1
<1>2. CASE contents' # contents
    <2>1. PICK s \in Sessions : Flush(s) \/ SubmitAll(s)
        BY <1>2 DEF Next, vars, engineVars, deviceVars, Handler, AckFrame, Remove,
           Build, Resolve, BuildLocked, Insert, DeriveLayout, Stage, Snapshot, CopyOut,
           Replay, Reply, LockPanics
    <2>2. \E recs \in Seq(Seq(ObjectCommands)) :
             contents' = RunAll(Run(contents, staged), recs)
        <3>1. CASE Flush(s)
            <4>1. <<>> \in Seq(Seq(ObjectCommands))
                OBVIOUS
            <4>2. contents' = RunAll(Run(contents, staged), <<>>)
                BY <3>1 DEF Flush, QueueSubmit
            <4>3. QED
                BY <4>1, <4>2
        <3>2. CASE SubmitAll(s)
            <4>1. bufs[s] \in Seq(Seq(ObjectCommands))
                BY DEF TypeInv, ServerType
            <4>2. contents' = RunAll(Run(contents, staged), bufs[s])
                BY <1>2, <3>2 DEF SubmitAll, QueueSubmit, deviceVars
            <4>3. QED
                BY <4>1, <4>2
        <3>3. QED
            BY <2>1, <3>1, <3>2
    <2>3. staged \in Seq(ObjectWrites)
        BY DEF TypeInv, ServerType
    <2>4. QED
        BY <2>2, <2>3, SubmitKeepsContents
<1>3. QED
    BY <1>1, <1>2

(* Every state of the server is well typed: what the tables and a          *)
(* handler's hands hold are objects some session created, and no list of   *)
(* command buffers brings the contents of a resource out of their range.   *)
THEOREM TypeOKCorrect == Spec => []TypeOK
<1>1. Init => ContentsInv
    BY FacadeAssumption DEF Init, ContentsInv, Contents, Values
<1>2. TypeInv /\ ContentsInv => TypeOK
    BY DEF ContentsInv, TypeInv, ServerType, TypeOK, Contents, Labels
<1>3. QED
    BY <1>1, <1>2, ContentsStep, TypeCorrect, PTL DEF Spec
-----------------------------------------------------------------------------
(* Who holds the lock, and what is held back.                              *)

LEMMA HolderStep == TypeInv /\ HolderGoesOn /\ [Next]_vars => HolderGoesOn'
<1> SUFFICES ASSUME TypeInv, HolderGoesOn, [Next]_vars PROVE HolderGoesOn'
    OBVIOUS
<1>1. ASSUME NEW s \in Sessions, User(s), UNCHANGED engineVars PROVE HolderGoesOn'
    <2>1. \A t \in Sessions : frame[t] # NoFrame => frame'[t] = frame[t]
        BY <1>1 DEF User, Create, Drop, Derive, Read, Write, Submit, Ack, Send, Unsent, TypeInv,
                    FacadeInv
    <2>2. QED
        BY <1>1, <2>1 DEF TypeInv, ServerType, Busy, HolderGoesOn, engineVars,
                          tableVars, handlerVars
<1>2. ASSUME NEW s \in Sessions, Handler(s) PROVE HolderGoesOn'
    <2> USE DEF At, Goto, Answer, Lock, TypeInv, ServerType
    <2>1. CASE BuildLocked(s)
        BY <1>2, <2>1 DEF BuildLocked, HolderGoesOn
    <2>2. CASE Resolve(s)
        BY <1>2, <2>2, OwnPc DEF Resolve, HolderGoesOn
    <2>3. CASE Stage(s)
        <3>1. frame[s] \in Writing(s)
            BY <2>3, FrameShapes DEF Stage
        <3>2. \/ lock' = Free
              \/ /\ lock' = s /\ pc'[s] = "staged"
                 /\ frame'[s].name.kind = "texture"
            BY <2>3, <3>1 DEF Stage, Writing, NoneOrBad, facadeVars
        <3>3. QED
            BY <3>2 DEF HolderGoesOn
    <2>4. CASE Flush(s)
        <3>1. lock' = Free \/ (lock' = lock /\ lock # s)
            BY <2>4 DEF Flush
        <3>2. QED
            BY <1>2, <3>1, OwnPc DEF HolderGoesOn
    <2>5. CASE ~(BuildLocked(s) \/ Resolve(s) \/ Stage(s) \/ Flush(s))
        <3>1. lock' = lock
            BY <1>2, <2>5 DEF Handler, AckFrame, Remove, Build, Insert, DeriveLayout,
               Snapshot, CopyOut, Replay, SubmitAll, Reply, LockPanics, tableVars
        <3>2. pc[s] \notin {"resolved", "staged"}
            BY <1>2, <2>5 DEF Handler, AckFrame, Remove, Build, Insert, DeriveLayout,
               Snapshot, CopyOut, Replay, SubmitAll, Reply, LockPanics, Takes
        <3>3. QED
            BY <1>2, <3>1, <3>2, OwnPc DEF HolderGoesOn
    <2>6. QED
        BY <2>1, <2>2, <2>3, <2>4, <2>5
<1>3. CASE UNCHANGED vars
    BY <1>3 DEF vars, facadeVars, engineVars, tableVars, handlerVars, HolderGoesOn
<1>4. QED
    BY <1>1, <1>2, <1>3 DEF Next

(* The lock on the tables is held only by a handler that can go on by      *)
(* itself: it is never done, dead, awaiting the device or about to lock    *)
(* the tables again, so nobody waits for the lock for ever.                *)
THEOREM HolderCorrect == Spec => []HolderGoesOn
<1>1. Init => HolderGoesOn
    BY DEF Init, HolderGoesOn
<1>2. QED
    BY <1>1, TypeInit, TypeStep, HolderStep, PTL DEF Spec

LEMMA FlushStep == TypeInv /\ WritesAreFlushed /\ [Next]_vars => WritesAreFlushed'
<1> SUFFICES ASSUME TypeInv, WritesAreFlushed, [Next]_vars PROVE WritesAreFlushed'
    OBVIOUS
<1>1. ASSUME NEW s \in Sessions, User(s), UNCHANGED engineVars PROVE WritesAreFlushed'
    BY <1>1 DEF WritesAreFlushed, engineVars, deviceVars, handlerVars
<1>2. ASSUME NEW s \in Sessions, Handler(s) PROVE WritesAreFlushed'
    <2>1. CASE Stage(s)
        <3>1. frame[s] \in Writing(s)
            BY <2>1, FrameShapes DEF Stage, TypeInv, At
        <3>2. (staged' = staged /\ pc[s] # "staged") \/ pc'[s] = "staged"
            BY <2>1, <3>1 DEF Stage, Writing, NoneOrBad, Goto, At, TypeInv, ServerType
        <3>3. QED
            BY <1>2, <3>2, OwnPc DEF WritesAreFlushed
    <2>2. CASE Flush(s)
        BY <2>2 DEF Flush, QueueSubmit, WritesAreFlushed
    <2>3. CASE SubmitAll(s)
        <3>1. staged' = <<>> \/ (staged' = staged /\ pc[s] # "staged")
            BY <2>3 DEF SubmitAll, QueueSubmit, At, deviceVars
        <3>2. QED
            BY <1>2, <3>1, OwnPc DEF WritesAreFlushed
    <2>4. CASE ~(Stage(s) \/ Flush(s) \/ SubmitAll(s))
        <3>1. staged' = staged /\ pc[s] # "staged"
            BY <1>2, <2>4 DEF Handler, AckFrame, Remove, Build, Resolve, BuildLocked,
               Insert, DeriveLayout, Snapshot, CopyOut, Replay, Reply, LockPanics,
               Takes, At, deviceVars
        <3>2. QED
            BY <1>2, <3>1, OwnPc DEF WritesAreFlushed
    <2>5. QED
        BY <2>1, <2>2, <2>3, <2>4
<1>3. CASE UNCHANGED vars
    BY <1>3 DEF vars, engineVars, deviceVars, handlerVars, WritesAreFlushed
<1>4. QED
    BY <1>1, <1>2, <1>3 DEF Next

(* A queue write is held back only while the handler that staged it, or    *)
(* one that staged another, is about to flush: none is left for the        *)
(* submission of a later frame.                                            *)
THEOREM FlushedCorrect == Spec => []WritesAreFlushed
<1>1. Init => WritesAreFlushed
    BY DEF Init, WritesAreFlushed
<1>2. QED
    BY <1>1, TypeInit, TypeStep, FlushStep, PTL DEF Spec
-----------------------------------------------------------------------------
(* Whose resources an id stands for, when no two sessions create the same  *)
(* kind.                                                                   *)

NoKindInCommon ==
    \A s, t \in Sessions : s # t => Creates[s] \cap Creates[t] = {}

(* What the tables hold under a name was put there by a session whose name *)
(* it is.                                                                  *)
OwnTables == \A r \in Names : tables[r] # NoObject => r \in Mine(tables[r].by)

(* Hence what a handler looks up was created by its own session.           *)
ResolvesToOwn == \A s \in Sessions : \A o \in hand[s] : o.by = s

OwnInv == OwnTables /\ ResolvesToOwn

LEMMA FoundIsOwn ==
    ASSUME NoKindInCommon, ServerType, OwnTables, NEW s \in Sessions,
           NEW refs \in SUBSET Mine(s), Found(refs)
    PROVE  \A o \in {tables[r] : r \in refs} : o.by = s
<1>1. SUFFICES ASSUME NEW r \in refs PROVE tables[r].by = s
    OBVIOUS
<1>2. r \in Names /\ r.kind \in Creates[s]
    BY DEF Mine
<1>3. tables[r] # NoObject /\ tables[r].by \in Sessions
    BY <1>2 DEF Found, ServerType, Objects
<1>4. r.kind \in Creates[tables[r].by]
    BY <1>2, <1>3 DEF OwnTables, Mine
<1>5. QED
    BY <1>2, <1>3, <1>4 DEF NoKindInCommon

LEMMA LookupIsOwn ==
    ASSUME NoKindInCommon, ServerType, OwnInv, NEW s \in Sessions,
           NEW refs \in SUBSET Mine(s), Found(refs), Lookup(s, refs)
    PROVE  ResolvesToOwn'
<1>1. \A o \in {tables[r] : r \in refs} : o.by = s
    BY FoundIsOwn DEF OwnInv
<1>2. /\ \A t \in Sessions \ {s} : hand'[t] = hand[t]
      /\ hand'[s] = hand[s] \cup {tables[r] : r \in refs}
    BY DEF Lookup, ServerType
<1>3. QED
    BY <1>1, <1>2 DEF OwnInv, ResolvesToOwn

LEMMA TablesStayOwn ==
    ASSUME ServerType, OwnTables, NEW s \in Sessions, NEW n \in Mine(s),
           tables' \in {tables, [tables EXCEPT ![n] = NoObject],
                        [tables EXCEPT ![n] = [by |-> s, name |-> n]]}
    PROVE  OwnTables'
<1>1. n \in Names
    BY DEF Mine
<1>2. CASE tables' = tables
    BY <1>2 DEF OwnTables
<1>3. CASE tables' = [tables EXCEPT ![n] = NoObject]
    BY <1>1, <1>3 DEF OwnTables, ServerType
<1>4. CASE tables' = [tables EXCEPT ![n] = [by |-> s, name |-> n]]
    BY <1>1, <1>4 DEF OwnTables, ServerType
<1>5. QED
    BY <1>2, <1>3, <1>4

LEMMA OwnStep ==
    ASSUME NoKindInCommon, TypeInv, OwnInv, [Next]_vars
    PROVE  OwnInv'
<1>1. ASSUME NEW s \in Sessions, User(s), UNCHANGED engineVars PROVE OwnInv'
    BY <1>1 DEF OwnInv, OwnTables, ResolvesToOwn, engineVars, tableVars, handlerVars
<1>2. ASSUME NEW s \in Sessions, Handler(s) PROVE OwnInv'
    <2> USE DEF TypeInv, At
    <2>1. OwnTables'
        <3>1. CASE Remove(s)
            BY <3>1, FrameShapes, TablesStayOwn DEF Remove, OwnInv
        <3>2. CASE Insert(s)
            <4>1. frame[s].name \in Mine(s)
                BY <3>2, FrameShapes DEF Insert, Busy, Creation
            <4>2. QED
                BY <3>2, <4>1, TablesStayOwn DEF Insert, OwnInv
        <3>3. CASE DeriveLayout(s)
            <4>1. frame[s] \in Derivation(s)
                BY <3>3, FrameShapes DEF DeriveLayout
            <4>2. tables' \in {tables, [tables EXCEPT ![frame[s].name] =
                                           [by |-> s, name |-> frame[s].name]]}
                BY <3>3, <4>1 DEF DeriveLayout, Derivation, NoneOrBad
            <4>3. QED
                BY <4>1, <4>2, TablesStayOwn DEF Derivation, OwnInv
        <3>4. CASE ~(Remove(s) \/ Insert(s) \/ DeriveLayout(s))
            <4>1. tables' = tables
                BY <1>2, <3>4 DEF Handler, AckFrame, Build, Resolve, BuildLocked, Stage,
                   Flush, Snapshot, CopyOut, Replay, SubmitAll, Reply, LockPanics, tableVars
            <4>2. QED
                BY <4>1 DEF OwnInv, OwnTables
        <3>5. QED
            BY <3>1, <3>2, <3>3, <3>4
    <2>2. ResolvesToOwn'
        <3>a. ASSUME hand' = hand PROVE ResolvesToOwn'
            BY <3>a DEF OwnInv, ResolvesToOwn
        <3>b. ASSUME hand' = [hand EXCEPT ![s] = {}] PROVE ResolvesToOwn'
            BY <3>b DEF OwnInv, ResolvesToOwn, ServerType
        <3>1. CASE Resolve(s)
            <4>1. frame[s].refs \in SUBSET Mine(s)
                BY <3>1, FrameShapes DEF Resolve, Creation
            <4>2. hand' = hand \/ (Found(frame[s].refs) /\ Lookup(s, frame[s].refs))
                BY <3>1 DEF Resolve, Answer
            <4>3. QED
                BY <4>1, <4>2, <3>a, LookupIsOwn
        <3>2. CASE DeriveLayout(s)
            <4>1. frame[s] \in Derivation(s) /\ frame[s].refs \in SUBSET Mine(s)
                BY <3>2, FrameShapes DEF DeriveLayout, Derivation
            <4>2. \/ hand' = hand
                  \/ hand' = [hand EXCEPT ![s] = {}]
                  \/ Found(frame[s].refs) /\ Lookup(s, frame[s].refs)
                BY <3>2, <4>1 DEF DeriveLayout, Answer, Panic, Derivation, NoneOrBad
            <4>3. QED
                BY <4>1, <4>2, <3>a, <3>b, LookupIsOwn
        <3>3. CASE Stage(s)
            <4>1. frame[s] \in Writing(s) /\ {frame[s].name} \in SUBSET Mine(s)
                BY <3>3, FrameShapes DEF Stage, Writing
            <4>2. \/ hand' = hand
                  \/ hand' = [hand EXCEPT ![s] = {}]
                  \/ Found({frame[s].name}) /\ Lookup(s, {frame[s].name})
                BY <3>3, <4>1 DEF Stage, Answer, Panic, Writing, NoneOrBad
            <4>3. QED
                BY <4>1, <4>2, <3>a, <3>b, LookupIsOwn
        <3>4. CASE Snapshot(s)
            <4>1. {frame[s].name} \in SUBSET Mine(s)
                BY <3>4, FrameShapes DEF Snapshot, Reading
            <4>2. hand' = hand \/ (Found({frame[s].name}) /\ Lookup(s, {frame[s].name}))
                BY <3>4 DEF Snapshot, Answer
            <4>3. QED
                BY <4>1, <4>2, <3>a, LookupIsOwn
        <3>5. CASE Replay(s)
            <4> DEFINE i   == Len(bufs[s]) + 1
                       rec == frame[s].recs[i]
            <4>1. rec \in Seq(Commands(Mine(s)))
                <5>1. frame[s].recs \in Seq(Seq(Commands(Mine(s))))
                    BY <3>5, FrameShapes DEF Replay, Submission
                <5>2. i \in 1..Len(frame[s].recs)
                    BY <3>5, <5>1 DEF Replay, ServerType
                <5>3. QED
                    BY <5>1, <5>2
            <4>2. \/ hand' = hand
                  \/ hand' = [hand EXCEPT ![s] = {}]
                  \/ Found(UsedBy(rec)) /\ Lookup(s, UsedBy(rec))
                BY <3>5 DEF Replay, Answer, Panic
            <4> HIDE DEF rec
            <4>3. ASSUME Found(UsedBy(rec)) PROVE UsedBy(rec) \in SUBSET Mine(s)
                BY <4>1, <4>3, MineAreNames, ReplayedRecording
            <4>4. QED
                BY <4>2, <4>3, <3>a, <3>b, LookupIsOwn
        <3>6. CASE ~(Resolve(s) \/ DeriveLayout(s) \/ Stage(s) \/ Snapshot(s) \/ Replay(s))
            <4>1. hand' = hand \/ hand' = [hand EXCEPT ![s] = {}]
                <5>1. CASE Build(s)
                    BY <5>1, FrameShapes DEF Build, Creation, Flawed, Answer, Panic
                <5>2. CASE ~Build(s)
                    BY <1>2, <3>6, <5>2 DEF Handler, AckFrame, Remove, BuildLocked, Insert,
                       Flush, CopyOut, SubmitAll, Reply, LockPanics, Answer, Panic
                <5>3. QED
                    BY <5>1, <5>2
            <4>2. QED
                BY <4>1, <3>a, <3>b
        <3>7. QED
            BY <3>1, <3>2, <3>3, <3>4, <3>5, <3>6
    <2>3. QED
        BY <2>1, <2>2 DEF OwnInv
<1>3. CASE UNCHANGED vars
    BY <1>3 DEF OwnInv, OwnTables, ResolvesToOwn, vars, engineVars, tableVars, handlerVars
<1>4. QED
    BY <1>1, <1>2, <1>3 DEF Next
-----------------------------------------------------------------------------
(* Two runs side by side, and what is left of a run when nothing is run.   *)

LEMMA Alongside ==
    ASSUME NEW N \in Nat, NEW f, NEW g, NEW R, <<f[0], g[0]>> \in R,
           \A n \in 1..N : <<f[n - 1], g[n - 1]>> \in R => <<f[n], g[n]>> \in R
    PROVE  <<f[N], g[N]>> \in R
<1> DEFINE P == {m \in Nat : m <= N => <<f[m], g[m]>> \in R}
<1>1. 0 \in P
    OBVIOUS
<1>2. ASSUME NEW m \in Nat, m \in P PROVE m + 1 \in P
    <2> SUFFICES ASSUME m + 1 <= N PROVE <<f[m + 1], g[m + 1]>> \in R
        OBVIOUS
    <2>1. m + 1 \in 1..N /\ (m + 1) - 1 = m /\ <<f[m], g[m]>> \in R
        BY <1>2
    <2>2. QED
        BY <2>1
<1>3. P \in SUBSET Nat
    OBVIOUS
<1> HIDE DEF P
<1>4. P = Nat
    BY <1>1, <1>2, <1>3, NatInd
<1>5. QED
    BY <1>4 DEF P

(* h takes a run of cmds to a run of others.                               *)
LEMMA RunMaps ==
    ASSUME NEW S, NEW c \in S, NEW D, NEW cmds \in Seq(D), Keeps(D, S),
           NEW T, NEW E, NEW others \in Seq(E), Keeps(E, T),
           NEW h \in [S -> T], Len(others) = Len(cmds),
           \A n \in 1..Len(cmds), x \in S :
              h[Apply(x, cmds[n])] = Apply(h[x], others[n])
    PROVE  h[Run(c, cmds)] = Run(h[c], others)
<1>1. PICK f : Ran(f, S, c, cmds)
    BY RunFacts
<1>2. h[c] \in T
    OBVIOUS
<1>3. PICK g : Ran(g, T, h[c], others)
    BY <1>2, RunFacts
<1> DEFINE R == {<<x, h[x]>> : x \in S}
<1>4. Len(cmds) \in Nat
    OBVIOUS
<1>5. <<f[0], g[0]>> \in R
    BY <1>1, <1>3 DEF Ran
<1>6. ASSUME NEW n \in 1..Len(cmds), <<f[n - 1], g[n - 1]>> \in R
      PROVE  <<f[n], g[n]>> \in R
    <2>1. n - 1 \in 0..Len(cmds) /\ n \in 0..Len(cmds) /\ n \in 1..Len(others)
        BY <1>4
    <2>2. f[n - 1] \in S /\ f[n] \in S /\ g[n - 1] = h[f[n - 1]]
        BY <1>1, <1>6, <2>1 DEF Ran
    <2>3. f[n] = Apply(f[n - 1], cmds[n]) /\ g[n] = Apply(g[n - 1], others[n])
        BY <1>1, <1>3, <2>1 DEF Ran
    <2>4. g[n] = h[f[n]]
        BY <2>2, <2>3
    <2>5. QED
        BY <2>2, <2>4
<1> HIDE DEF R
<1>7. <<f[Len(cmds)], g[Len(cmds)]>> \in R
    BY ONLY <1>4, <1>5, <1>6, Alongside
<1>8. QED
    BY <1>1, <1>3, <1>7 DEF Ran, R

MapsEach(h, S, recs, others) ==
    /\ Len(others) = Len(recs)
    /\ \A n \in 1..Len(recs), x \in S : h[Run(x, recs[n])] = Run(h[x], others[n])

LEMMA RunAllMaps ==
    ASSUME NEW S, NEW c \in S, NEW D, NEW recs \in Seq(Seq(D)), Keeps(D, S),
           NEW T, NEW E, NEW others \in Seq(Seq(E)), Keeps(E, T),
           NEW h \in [S -> T], MapsEach(h, S, recs, others)
    PROVE  h[RunAll(c, recs)] = RunAll(h[c], others)
<1>1. PICK f : RanAll(f, S, c, recs)
    BY RunAllFacts
<1>2. h[c] \in T
    OBVIOUS
<1>3. PICK g : RanAll(g, T, h[c], others)
    BY <1>2, RunAllFacts
<1> DEFINE R == {<<x, h[x]>> : x \in S}
<1>4. /\ Len(recs) \in Nat /\ Len(others) = Len(recs)
      /\ \A n \in 1..Len(recs), x \in S : h[Run(x, recs[n])] = Run(h[x], others[n])
    BY DEF MapsEach
<1>5. <<f[0], g[0]>> \in R
    BY <1>1, <1>3 DEF RanAll
<1>6. ASSUME NEW n \in 1..Len(recs), <<f[n - 1], g[n - 1]>> \in R
      PROVE  <<f[n], g[n]>> \in R
    <2>1. n - 1 \in 0..Len(recs) /\ n \in 0..Len(recs) /\ n \in 1..Len(others)
        BY <1>4
    <2>2. f[n - 1] \in S /\ f[n] \in S /\ g[n - 1] = h[f[n - 1]]
        BY <1>1, <1>6, <2>1 DEF RanAll
    <2>3. f[n] = Run(f[n - 1], recs[n]) /\ g[n] = Run(g[n - 1], others[n])
        BY <1>1, <1>3, <2>1 DEF RanAll
    <2>4. g[n] = h[f[n]]
        BY <1>4, <2>2, <2>3
    <2>5. QED
        BY <2>2, <2>4
<1> HIDE DEF R
<1>7. <<f[Len(recs)], g[Len(recs)]>> \in R
    BY ONLY <1>4, <1>5, <1>6, Alongside
<1>8. QED
    BY <1>1, <1>3, <1>4, <1>7 DEF RanAll, R

LEMMA RunNothing == \A c : Run(c, <<>>) = c /\ RunAll(c, <<>>) = c
<1> TAKE c
<1>1. c \in {c} /\ <<>> \in Seq({}) /\ <<>> \in Seq(Seq({})) /\ Len(<<>>) = 0
    OBVIOUS
<1>2. Keeps({}, {c})
    BY DEF Keeps
<1>3. PICK f : Ran(f, {c}, c, <<>>)
    BY <1>1, <1>2, RunFacts
<1>4. PICK g : RanAll(g, {c}, c, <<>>)
    BY <1>1, <1>2, RunAllFacts
<1>5. QED
    BY <1>1, <1>3, <1>4 DEF Ran, RanAll

LEMMA RunMore ==
    ASSUME NEW S, NEW c \in S, NEW D, NEW cmds \in Seq(D), NEW d \in D, Keeps(D, S)
    PROVE  Run(c, Append(cmds, d)) = Apply(Run(c, cmds), d)
<1>1. PICK f : Ran(f, S, c, cmds)
    BY RunFacts
<1>2. PICK more \in Seq(D) : more = Append(cmds, d)
    <2>1. Append(cmds, d) \in Seq(D)
        OBVIOUS
    <2>2. QED
        BY ONLY <2>1, Zenon
<1>3. PICK g : Ran(g, S, c, more)
    BY RunFacts
<1> DEFINE R == {<<x, x>> : x \in S}
           N == Len(cmds)
<1>4. N \in Nat /\ Len(more) = N + 1 /\ more[N + 1] = d
      /\ \A n \in 1..N : more[n] = cmds[n]
    BY <1>2
<1>5. <<f[0], g[0]>> \in R
    BY <1>1, <1>3 DEF Ran
<1>6. ASSUME NEW n \in 1..N, <<f[n - 1], g[n - 1]>> \in R
      PROVE  <<f[n], g[n]>> \in R
    <2>1. n - 1 \in 0..N /\ n \in 0..N /\ n \in 1..Len(more)
        BY <1>4
    <2>2. f[n - 1] \in S /\ f[n] \in S /\ g[n - 1] = f[n - 1]
        BY <1>1, <1>6, <2>1 DEF Ran
    <2>3. f[n] = Apply(f[n - 1], cmds[n]) /\ g[n] = Apply(g[n - 1], more[n])
        BY <1>1, <1>3, <2>1 DEF Ran
    <2>4. g[n] = f[n]
        BY <1>4, <2>2, <2>3
    <2>5. QED
        BY <2>2, <2>4
<1> HIDE DEF R
<1>7. <<f[N], g[N]>> \in R
    BY ONLY <1>4, <1>5, <1>6, Alongside
<1>8. f[N] = g[N]
    BY <1>7 DEF R
<1>9. N + 1 \in 1..Len(more) /\ (N + 1) - 1 = N
    BY <1>4
<1>10. g[N + 1] = Apply(g[N], d)
    BY <1>3, <1>4, <1>9 DEF Ran
<1>11. Run(c, more) = g[N + 1] /\ Run(c, cmds) = f[N]
    BY <1>1, <1>3, <1>4 DEF Ran
<1>12. QED
    BY <1>2, <1>8, <1>10, <1>11
-----------------------------------------------------------------------------
(* What the device will hold once it has carried out the staged writes.    *)

Now == Run(contents, staged)

LEMMA NowIsContents ==
    ASSUME TypeInv, ContentsInv PROVE Now \in Contents
BY CommandsKeepContents, RunKeeps DEF Now, ContentsInv, TypeInv, ServerType

LEMMA NowStaged ==
    ASSUME TypeInv, ContentsInv, NEW w \in ObjectWrites,
           staged' = Append(staged, w), UNCHANGED contents
    PROVE  Now' = Apply(Now, w)
<1>1. staged \in Seq(ObjectWrites) /\ contents \in Contents
    BY DEF ContentsInv, TypeInv, ServerType
<1>2. Run(contents, Append(staged, w)) = Apply(Run(contents, staged), w)
    BY <1>1, CommandsKeepContents, RunMore
<1>3. QED
    BY <1>2 DEF Now

LEMMA NowSubmitted ==
    ASSUME NEW recs, QueueSubmit(recs)
    PROVE  Now' = RunAll(Now, recs)
<1>1. contents' = RunAll(Now, recs) /\ staged' = <<>>
    BY DEF QueueSubmit, Now
<1>2. Now' = Run(contents', <<>>)
    BY <1>1 DEF Now
<1>3. QED
    BY <1>1, <1>2, RunNothing

(* Contents change only by a write that is staged and by a submission.     *)
LEMMA NowSteps ==
    ASSUME NEW s \in Sessions, Handler(s), ~Stage(s), ~SubmitAll(s)
    PROVE  Now' = Now
<1>1. CASE Flush(s)
    <2>1. Now' = RunAll(Now, <<>>)
        BY <1>1, NowSubmitted DEF Flush
    <2>2. QED
        BY <2>1, RunNothing
<1>2. CASE ~Flush(s)
    <2>1. UNCHANGED <<contents, staged>>
        BY <1>2 DEF Handler, AckFrame, Remove, Build, Resolve, BuildLocked,
           Insert, DeriveLayout, Snapshot, CopyOut, Replay, Reply, LockPanics,
           deviceVars
    <2>2. QED
        BY <2>1 DEF Now
<1>3. QED
    BY <1>1, <1>2
-----------------------------------------------------------------------------
(* Commands on the objects O leave the others alone.                       *)

On(O) ==
    [op : {"clear", "use"}, to : O] \cup [op : {"copy"}, from : O, to : O]

Same(c, O) == {x \in Contents : \A o \in Objects \ O : x[o] = c[o]}

LEMMA OthersAreKept ==
    ASSUME NEW c \in Contents, NEW O \in SUBSET Objects,
           NEW recs \in Seq(Seq(On(O)))
    PROVE  RunAll(c, recs) \in Same(c, O)
<1>1. c \in Same(c, O)
    BY DEF Same
<1>2. Keeps(On(O), Same(c, O))
    <2>1. SUFFICES ASSUME NEW x \in Same(c, O), NEW d \in On(O)
                   PROVE  Apply(x, d) \in Same(c, O)
        BY DEF Keeps
    <2>2. On(O) \subseteq ObjectCommands
        BY DEF On, ObjectCommands
    <2>3. Apply(x, d) \in Contents
        BY <2>2, CommandsKeepContents DEF Keeps, Same
    <2>4. ASSUME NEW o \in Objects \ O PROVE Apply(x, d)[o] = x[o]
        <3>1. x \in Contents
            BY DEF Same
        <3>2. CASE d \in [op : {"clear", "use"}, to : O]
            BY <3>1, <3>2 DEF Apply, Contents
        <3>3. CASE d \in [op : {"copy"}, from : O, to : O]
            BY <3>1, <3>3 DEF Apply, Contents
        <3>4. QED
            BY <3>2, <3>3 DEF On
    <2>5. QED
        BY <2>3, <2>4 DEF Same
<1>3. QED
    BY <1>1, <1>2, RunAllKeeps
-----------------------------------------------------------------------------
(* A session's view of contents, by its own names.                         *)

Nothing == MaxValue + 1
Stores  == [Names -> Values \cup {Nothing}]
View(s, y) ==
    [r \in Names |-> IF tables[r] # NoObject /\ tables[r].by = s
                     THEN y[tables[r]] ELSE Nothing]

(* Every object stands under its own name.                                 *)
OwnNames == \A r \in Names : tables[r] # NoObject => tables[r].name = r

LEMMA ViewIsStore ==
    ASSUME ServerType, NEW s \in Sessions, NEW y \in Contents
    PROVE  View(s, y) \in Stores
BY DEF View, Stores, ServerType, Contents

LEMMA ZeroIsValue == 0 \in Values /\ Nothing \notin Values
BY FacadeAssumption DEF Values, Nothing

LEMMA CommandsKeepStores ==
    ASSUME NEW s \in Sessions
    PROVE  Keeps(Commands(Mine(s)), Stores)
<1>1. SUFFICES ASSUME NEW x \in Stores, NEW d \in Commands(Mine(s))
               PROVE  Apply(x, d) \in Stores
    BY DEF Keeps
<1>2. CASE d \in [op : {"clear", "use"}, to : Mine(s)]
    BY <1>2, ZeroIsValue, MineAreNames DEF Apply, Stores
<1>3. CASE d \in [op : {"copy"}, from : Mine(s), to : Mine(s)]
    BY <1>3, ZeroIsValue, MineAreNames DEF Apply, Stores
<1>4. QED
    BY <1>2, <1>3 DEF Commands

(* Among sessions that create no kind in common, what is found under a     *)
(* name of a session's is an object of its own, and no name stands for     *)
(* another's.                                                              *)
LEMMA FoundFacts ==
    ASSUME NoKindInCommon, ServerType, OwnTables, OwnNames, NEW s \in Sessions,
           NEW n \in Mine(s), tables[n] # NoObject
    PROVE  /\ tables[n] \in Objects /\ tables[n].by = s
           /\ \A r \in Names : tables[r] = tables[n] => r = n
<1>1. n \in Names /\ {n} \in SUBSET Mine(s) /\ Found({n})
    BY DEF Found, Mine
<1>2. tables[n].by = s
    BY <1>1, FoundIsOwn
<1>3. QED
    BY <1>1, <1>2 DEF ServerType, OwnNames

LEMMA ViewOfWrite ==
    ASSUME NoKindInCommon, ServerType, OwnTables, OwnNames, NEW s \in Sessions,
           NEW n \in Mine(s), tables[n] # NoObject, NEW y \in Contents,
           NEW v \in Values
    PROVE  View(s, [y EXCEPT ![tables[n]] = v]) = [View(s, y) EXCEPT ![n] = v]
<1>1. tables[n] \in Objects /\ tables[n].by = s
      /\ \A r \in Names : tables[r] = tables[n] => r = n
    BY FoundFacts
<1>2. n \in Names
    BY MineAreNames
<1>3. ASSUME NEW r \in Names
      PROVE  View(s, [y EXCEPT ![tables[n]] = v])[r]
               = [View(s, y) EXCEPT ![n] = v][r]
    <2>1. tables[r] # NoObject => tables[r] \in Objects
        BY DEF ServerType
    <2>2. QED
        BY <1>1, <1>2, <2>1 DEF View, Contents
<1>4. QED
    BY <1>3 DEF View

LEMMA ViewOfRead ==
    ASSUME NoKindInCommon, ServerType, OwnTables, OwnNames, NEW s \in Sessions,
           NEW n \in Mine(s), tables[n] # NoObject, NEW y \in Contents
    PROVE  View(s, y)[n] = y[tables[n]] /\ y[tables[n]] \in Values
<1>1. tables[n] \in Objects /\ tables[n].by = s /\ n \in Names
    BY FoundFacts, MineAreNames
<1>2. QED
    BY <1>1 DEF View, Contents

(* A command on names does to a view what it does, on objects, to them.    *)
LEMMA ViewOfCommand ==
    ASSUME NoKindInCommon, ServerType, OwnTables, OwnNames, NEW s \in Sessions,
           NEW d \in Commands(Mine(s)), Found(Uses(d)), NEW y \in Contents
    PROVE  View(s, Apply(y, OnObjects(d))) = Apply(View(s, y), d)
<1>1. CASE d.op = "clear"
    <2>1. d.to \in Mine(s) /\ tables[d.to] # NoObject
        BY <1>1 DEF Commands, Uses, Found
    <2>2. Apply(y, OnObjects(d)) = [y EXCEPT ![tables[d.to]] = 0]
        <3>1. d \in [op : {"clear"}, to : Mine(s)]
            BY <1>1 DEF Commands
        <3>2. OnObjects(d).op = "clear" /\ OnObjects(d).to = tables[d.to]
            BY <1>1, <3>1 DEF OnObjects
        <3>3. QED
            BY <3>2 DEF Apply
    <2>3. Apply(View(s, y), d) = [View(s, y) EXCEPT ![d.to] = 0]
        BY <1>1 DEF Apply
    <2>4. PICK v \in Values : v = 0
        BY ZeroIsValue
    <2>5. View(s, [y EXCEPT ![tables[d.to]] = v]) = [View(s, y) EXCEPT ![d.to] = v]
        BY <2>1, ViewOfWrite
    <2>6. QED
        BY <2>2, <2>3, <2>4, <2>5
<1>2. CASE d.op = "copy"
    <2>1. d.to \in Mine(s) /\ tables[d.to] # NoObject
          /\ d.from \in Mine(s) /\ tables[d.from] # NoObject
        BY <1>2 DEF Commands, Uses, Found
    <2>2. Apply(y, OnObjects(d)) = [y EXCEPT ![tables[d.to]] = y[tables[d.from]]]
        <3>1. d \in [op : {"copy"}, from : Mine(s), to : Mine(s)]
            BY <1>2 DEF Commands
        <3>2. /\ OnObjects(d).op = "copy" /\ OnObjects(d).to = tables[d.to]
              /\ OnObjects(d).from = tables[d.from]
            BY <1>2, <3>1 DEF OnObjects
        <3>3. QED
            BY <3>2 DEF Apply
    <2>3. View(s, y)[d.from] = y[tables[d.from]] /\ y[tables[d.from]] \in Values
        BY <2>1, ViewOfRead
    <2>4. Apply(View(s, y), d) = [View(s, y) EXCEPT ![d.to] = View(s, y)[d.from]]
        BY <1>2 DEF Apply
    <2>5. PICK v \in Values : v = y[tables[d.from]]
        BY <2>3
    <2>6. View(s, [y EXCEPT ![tables[d.to]] = v]) = [View(s, y) EXCEPT ![d.to] = v]
        BY <2>1, ViewOfWrite
    <2>7. QED
        BY <2>2, <2>3, <2>4, <2>5, <2>6
<1>3. CASE d.op = "use"
    <2>1. d \in [op : {"use"}, to : Mine(s)]
        BY <1>3 DEF Commands
    <2>2. OnObjects(d).op = "use"
        BY <2>1 DEF OnObjects
    <2>3. Apply(y, OnObjects(d)) = y
        BY <2>2 DEF Apply
    <2>4. Apply(View(s, y), d) = View(s, y)
        BY <1>3 DEF Apply
    <2>5. QED
        BY <2>3, <2>4
<1>4. QED
    BY <1>1, <1>2, <1>3 DEF Commands
-----------------------------------------------------------------------------
(* What a handler replays, and whose objects it names.                     *)

OnRecording(rec) == [j \in DOMAIN rec |-> OnObjects(rec[j])]
Own(s) == {tables[r] : r \in {q \in Mine(s) : tables[q] # NoObject}}

(* The command buffers bs are what comes of the recordings recs.           *)
Replayed(bs, recs) ==
    \A i \in 1..Len(bs) : Found(UsedBy(recs[i])) /\ bs[i] = OnRecording(recs[i])

LEMMA RecordingOnOwn ==
    ASSUME ServerType, NEW s \in Sessions, NEW rec \in Seq(Commands(Mine(s))),
           Found(UsedBy(rec))
    PROVE  /\ OnRecording(rec) \in Seq(On(Own(s))) /\ Own(s) \in SUBSET Objects
           /\ Len(OnRecording(rec)) = Len(rec)
           /\ \A j \in 1..Len(rec) : /\ OnRecording(rec)[j] = OnObjects(rec[j])
                                     /\ Found(Uses(rec[j]))
<1>1. Len(rec) \in Nat /\ DOMAIN rec = 1..Len(rec)
      /\ \A j \in DOMAIN rec : rec[j] \in Commands(Mine(s))
    OBVIOUS
<1>2. \A j \in DOMAIN rec : Uses(rec[j]) \subseteq UsedBy(rec)
    BY DEF UsedBy
<1>3. \A j \in DOMAIN rec : Found(Uses(rec[j]))
    BY <1>2 DEF Found
<1>4. ASSUME NEW j \in DOMAIN rec PROVE OnObjects(rec[j]) \in On(Own(s))
    <2>1. PICK d \in Commands(Mine(s)) : d = rec[j] /\ Found(Uses(d))
        BY <1>1, <1>3
    <2>2. CASE d.op = "copy"
        <3>1. d \in [op : {"copy"}, from : Mine(s), to : Mine(s)]
            BY <2>2 DEF Commands
        <3>2. tables[d.from] \in Own(s) /\ tables[d.to] \in Own(s)
            BY <2>1, <2>2, <3>1 DEF Uses, Found, Own
        <3>3. QED
            BY <2>1, <2>2, <3>1, <3>2 DEF OnObjects, On
    <2>3. CASE d.op # "copy"
        <3>1. d \in [op : {"clear", "use"}, to : Mine(s)]
            BY <2>3 DEF Commands
        <3>2. tables[d.to] \in Own(s)
            BY <2>1, <2>3, <3>1 DEF Uses, Found, Own
        <3>3. QED
            BY <2>1, <2>3, <3>1, <3>2 DEF OnObjects, On
    <2>4. QED
        BY <2>2, <2>3
<1>5. OnRecording(rec) \in [1..Len(rec) -> On(Own(s))]
    BY <1>1, <1>4 DEF OnRecording
<1>6. OnRecording(rec) \in Seq(On(Own(s))) /\ Len(OnRecording(rec)) = Len(rec)
    BY ONLY <1>1, <1>5, BuiltFacts
<1>7. Own(s) \in SUBSET Objects
    BY MineAreNames DEF Own, ServerType
<1>8. QED
    BY <1>1, <1>3, <1>6, <1>7 DEF OnRecording

(* A view of the device after a command buffer is what the recording       *)
(* leaves of the view.                                                     *)
LEMMA ViewOfRecording ==
    ASSUME NoKindInCommon, ServerType, OwnTables, OwnNames, NEW s \in Sessions,
           NEW rec \in Seq(Commands(Mine(s))), Found(UsedBy(rec)),
           NEW y \in Contents
    PROVE  View(s, Run(y, OnRecording(rec))) = Run(View(s, y), rec)
<1> DEFINE h == [x \in Contents |-> View(s, x)]
<1>1. h \in [Contents -> Stores] /\ h[y] = View(s, y)
    BY ViewIsStore
<1>2. On(Own(s)) \subseteq ObjectCommands
    BY RecordingOnOwn DEF On, ObjectCommands
<1>3. Keeps(On(Own(s)), Contents)
    BY <1>2, CommandsKeepContents DEF Keeps
<1>4. PICK buf \in Seq(On(Own(s))) : buf = OnRecording(rec)
    BY RecordingOnOwn
<1>5. /\ Len(rec) = Len(buf)
      /\ \A j \in 1..Len(buf) : buf[j] = OnObjects(rec[j]) /\ Found(Uses(rec[j]))
    BY <1>4, RecordingOnOwn
<1>6. ASSUME NEW j \in 1..Len(buf), NEW x \in Contents
      PROVE  h[Apply(x, buf[j])] = Apply(h[x], rec[j])
    <2>1. rec[j] \in Commands(Mine(s)) /\ Found(Uses(rec[j]))
          /\ buf[j] = OnObjects(rec[j]) /\ buf[j] \in On(Own(s))
        BY <1>5
    <2>2. Apply(x, buf[j]) \in Contents
        BY <1>3, <2>1 DEF Keeps
    <2>3. View(s, Apply(x, OnObjects(rec[j]))) = Apply(View(s, x), rec[j])
        BY <2>1, ViewOfCommand
    <2>4. QED
        BY <2>1, <2>2, <2>3
<1> HIDE DEF h
<1>7. h[Run(y, buf)] = Run(h[y], rec)
    <2>1. Keeps(Commands(Mine(s)), Stores)
        BY CommandsKeepStores
    <2>2. QED
        BY ONLY <1>1, <1>3, <1>5, <1>6, <2>1, RunMaps
<1>8. Run(y, buf) \in Contents
    BY <1>3, RunKeeps
<1>9. QED
    BY <1>1, <1>4, <1>7, <1>8 DEF h

LEMMA SubmissionOnOwn ==
    ASSUME ServerType, NEW s \in Sessions,
           NEW recs \in Seq(Seq(Commands(Mine(s)))),
           NEW bs \in Seq(Seq(ObjectCommands)), Len(bs) = Len(recs),
           Replayed(bs, recs)
    PROVE  bs \in Seq(Seq(On(Own(s))))
<1>1. Len(bs) \in Nat /\ bs = [i \in 1..Len(bs) |-> bs[i]]
    OBVIOUS
<1>2. ASSUME NEW i \in 1..Len(bs) PROVE bs[i] \in Seq(On(Own(s)))
    <2>1. recs[i] \in Seq(Commands(Mine(s)))
        OBVIOUS
    <2>2. Found(UsedBy(recs[i])) /\ bs[i] = OnRecording(recs[i])
        BY DEF Replayed
    <2>3. QED
        BY <2>1, <2>2, RecordingOnOwn
<1>3. bs \in [1..Len(bs) -> Seq(On(Own(s)))]
    BY <1>1, <1>2
<1>4. QED
    BY ONLY <1>1, <1>3, BuiltFacts

LEMMA ViewOfSubmission ==
    ASSUME NoKindInCommon, ServerType, OwnTables, OwnNames, NEW s \in Sessions,
           NEW recs \in Seq(Seq(Commands(Mine(s)))),
           NEW bs \in Seq(Seq(ObjectCommands)), Len(bs) = Len(recs),
           Replayed(bs, recs), NEW y \in Contents
    PROVE  View(s, RunAll(y, bs)) = RunAll(View(s, y), recs)
<1> DEFINE h == [x \in Contents |-> View(s, x)]
<1>1. h \in [Contents -> Stores] /\ h[y] = View(s, y)
    BY ViewIsStore
<1>2. bs \in Seq(Seq(ObjectCommands)) /\ Keeps(ObjectCommands, Contents)
    BY CommandsKeepContents
<1>3. ASSUME NEW i \in 1..Len(bs), NEW x \in Contents
      PROVE  h[Run(x, bs[i])] = Run(h[x], recs[i])
    <2>1. recs[i] \in Seq(Commands(Mine(s))) /\ bs[i] \in Seq(ObjectCommands)
        OBVIOUS
    <2>2. Found(UsedBy(recs[i])) /\ bs[i] = OnRecording(recs[i])
        BY DEF Replayed
    <2>3. Run(x, bs[i]) \in Contents
        BY <1>2, <2>1, RunKeeps
    <2>4. View(s, Run(x, OnRecording(recs[i]))) = Run(View(s, x), recs[i])
        BY <2>1, <2>2, ViewOfRecording
    <2>5. QED
        BY <2>2, <2>3, <2>4
<1> HIDE DEF h
<1>4. h[RunAll(y, bs)] = RunAll(h[y], recs)
    <2>1. Keeps(Commands(Mine(s)), Stores)
        BY CommandsKeepStores
    <2>2. MapsEach(h, Contents, bs, recs)
        BY <1>3 DEF MapsEach
    <2>3. QED
        BY ONLY <1>1, <1>2, <2>1, <2>2, RunAllMaps
<1>5. RunAll(y, bs) \in Contents
    BY <1>2, RunAllKeeps
<1>6. QED
    BY <1>1, <1>4, <1>5 DEF h

(* What is done to the objects of one session is not seen by another.      *)
LEMMA ViewOfOthers ==
    ASSUME NoKindInCommon, ServerType, OwnTables, OwnNames, NEW s \in Sessions,
           NEW t \in Sessions \ {s}, NEW y \in Contents, NEW x \in Same(y, Own(s))
    PROVE  View(t, x) = View(t, y)
<1>1. ASSUME NEW r \in Names, tables[r] # NoObject, tables[r].by = t
      PROVE  x[tables[r]] = y[tables[r]]
    <2>1. tables[r] \in Objects
        BY <1>1 DEF ServerType
    <2>2. \A o \in Own(s) : o.by = s
        BY FoundFacts DEF Own
    <2>3. QED
        BY <1>1, <2>1, <2>2 DEF Same
<1>2. QED
    BY <1>1 DEF View
-----------------------------------------------------------------------------
(* What the frames of sessions that create no kind in common rest on.      *)

Minted(n, s) == n.id <= minted[s][n.kind]
Making(s) == /\ frame[s].op \in {"create", "derive"}
             /\ pc[s] \in {"idle", "resolved", "built"}

(* An object is made once the frame that asks for it has been carried out. *)
Made(o) == Minted(o.name, o.by) /\ ~(Making(o.by) /\ frame[o.by].name = o.name)

FramesInv ==
    \A s \in Sessions :
       /\ frame[s].op \in {"create", "derive"} => Minted(frame[s].name, s)
       /\ frame[s].op = "create" /\ frame[s].name.kind \in Simple
             => frame[s].refs = {}

(* What the tables hold has been made, and what has not is still zeroed.   *)
HeldIsMade == \A r \in Names : tables[r] # NoObject => Made(tables[r])
NewIsZero  == \A o \in Objects : ~Made(o) => Now[o] = 0
MadeInv    == HeldIsMade /\ NewIsZero

(* Only who is about to flush has writes held back.                        *)
StagedInv == \A k \in 1..Len(staged) : pc[staged[k].to.by] = "staged"

(* What a handler has looked up is what its names still stand for.         *)
Looked(s) ==
    /\ pc[s] = "idle" /\ frame[s].op # "submit" => hand[s] = {} /\ bufs[s] = <<>>
    /\ pc[s] = "idle" /\ frame[s].op = "submit" =>
          /\ Len(bufs[s]) <= Len(frame[s].recs)
          /\ Replayed(bufs[s], frame[s].recs)
    /\ pc[s] = "mapping" => /\ frame[s].op = "read" /\ Found({frame[s].name})
                            /\ hand[s] = {tables[frame[s].name]}
    /\ pc[s] \in {"resolved", "built"} => /\ Found(frame[s].refs)
                                          /\ frame[s].flaw # "unsupported"
    /\ pc[s] = "built" => frame[s].flaw = "none"
    /\ pc[s] = "staged" => frame[s].op = "write"
    /\ pc[s] = "answered" => answer[s] # Pending

LookedInv == \A s \in Sessions : Looked(s)

AloneInv == /\ OwnInv /\ OwnNames /\ FramesInv /\ MadeInv /\ StagedInv
            /\ LookedInv

LEMMA AloneInit == Init => AloneInv
<1> SUFFICES ASSUME Init PROVE AloneInv
    OBVIOUS
<1>1. OwnInv /\ OwnNames /\ StagedInv
    BY DEF Init, OwnInv, OwnTables, ResolvesToOwn, OwnNames, StagedInv
<1>2. FramesInv
    BY DEF Init, FacadeInit, FramesInv, NoFrame
<1>3. MadeInv
    <2>1. Now = contents
        BY RunNothing DEF Init, Now
    <2>2. QED
        BY <2>1 DEF Init, MadeInv, HeldIsMade, NewIsZero
<1>4. LookedInv
    BY DEF Init, FacadeInit, LookedInv, Looked, NoFrame
<1>5. QED
    BY <1>1, <1>2, <1>3, <1>4 DEF AloneInv
-----------------------------------------------------------------------------
(* A handler that does nothing has looked up what it had, as long as what  *)
(* its session's names stand for stays.                                    *)

LEMMA FoundStays ==
    ASSUME NEW t, \A r \in Mine(t) : tables'[r] = tables[r],
           NEW refs \in SUBSET Mine(t)
    PROVE  Found(refs)' <=> Found(refs)
BY DEF Found

LEMMA ReplayedStays ==
    ASSUME NEW t, \A r \in Mine(t) : tables'[r] = tables[r],
           NEW recs \in Seq(Seq(Commands(Mine(t)))), NEW bs,
           Len(bs) \in Nat, Len(bs) <= Len(recs), Replayed(bs, recs)
    PROVE  Replayed(bs, recs)'
<1>1. SUFFICES ASSUME NEW i \in 1..Len(bs)
               PROVE  Found(UsedBy(recs[i]))' /\ bs[i] = OnRecording(recs[i])'
    BY DEF Replayed, UsedBy, Uses
<1>2. PICK rec \in Seq(Commands(Mine(t))) : rec = recs[i]
    <2>1. i \in 1..Len(recs)
        OBVIOUS
    <2>2. QED
        BY <2>1
<1>3. \A j \in DOMAIN rec : rec[j] \in Commands(Mine(t))
    OBVIOUS
<1>4. UsedBy(rec) \in SUBSET Mine(t)
    BY <1>3, UsesOfCommand DEF UsedBy
<1>5. Found(UsedBy(rec))'
    <2>1. Found(UsedBy(rec))
        BY <1>2 DEF Replayed
    <2>2. QED
        BY <1>4, <2>1 DEF Found
<1>6. ASSUME NEW j \in DOMAIN rec PROVE OnObjects(rec[j])' = OnObjects(rec[j])
    <2>1. PICK d \in Commands(Mine(t)) : d = rec[j]
        BY <1>3
    <2>2. d.op = "copy" => d.from \in Mine(t) /\ d.to \in Mine(t)
        BY DEF Commands
    <2>3. d.op # "copy" => d.to \in Mine(t)
        BY DEF Commands
    <2>4. QED
        BY <2>1, <2>2, <2>3 DEF OnObjects
<1>7. OnRecording(rec)' = OnRecording(rec)
    BY <1>6 DEF OnRecording
<1>8. bs[i] = OnRecording(rec)
    BY <1>2 DEF Replayed
<1>9. QED
    BY <1>2, <1>5, <1>7, <1>8

LEMMA LookedStays ==
    ASSUME TypeInv, NEW t \in Sessions, Looked(t),
           frame'[t] = frame[t], pc'[t] = pc[t], hand'[t] = hand[t],
           bufs'[t] = bufs[t], answer'[t] = answer[t],
           \A r \in Mine(t) : tables'[r] = tables[r]
    PROVE  Looked(t)'
<1>1. ASSUME pc[t] = "idle", frame[t].op = "submit"
      PROVE  Replayed(bufs[t], frame[t].recs)'
    <2>1. PICK recs \in Seq(Seq(Commands(Mine(t)))) : recs = frame[t].recs
        BY <1>1, FrameShapes DEF TypeInv, Submission
    <2>2. PICK bs \in Seq(Seq(ObjectCommands)) : bs = bufs[t]
        BY DEF TypeInv, ServerType
    <2>3. Replayed(bs, recs) /\ Len(bs) <= Len(recs) /\ Len(bs) \in Nat
        BY <1>1, <2>1, <2>2 DEF Looked
    <2>4. Replayed(bs, recs)'
        BY <2>3, ReplayedStays
    <2>5. QED
        BY <2>1, <2>2, <2>4
<1>2. ASSUME pc[t] = "mapping"
      PROVE  Found({frame[t].name})' /\ tables'[frame[t].name] = tables[frame[t].name]
    <2>1. frame[t].name \in Mine(t) /\ Found({frame[t].name})
        BY <1>2, FrameShapes DEF Looked, TypeInv, Reading
    <2>2. QED
        BY <2>1 DEF Found
<1>3. ASSUME pc[t] \in {"resolved", "built"} PROVE Found(frame[t].refs)'
    <2>1. frame[t].refs \in SUBSET Mine(t) /\ Found(frame[t].refs)
        BY <1>3, FrameShapes DEF Looked, TypeInv, Creation, Busy
    <2>2. QED
        BY <2>1 DEF Found
<1>4. QED
    BY <1>1, <1>2, <1>3 DEF Looked
-----------------------------------------------------------------------------
(* What a user's step does.                                                *)

(* What is asked for is NoFrame if it is not sent.                         *)
Asks(s, f) ==
    /\ frame[s] = NoFrame /\ frame' = [frame EXCEPT ![s] = f]
    /\ \/ minted' = minted /\ f.op \notin {"create", "derive"}
       \/ \E k \in Kinds :
             /\ minted' = [minted EXCEPT ![s][k] = @ + 1]
             /\ f # NoFrame => /\ f.name = Handed(s, k)
                               /\ f.op = "create" /\ k \in Simple => f.refs = {}

LEMMA UnsentAsks ==
    ASSUME FacadeInv, NEW s \in Sessions, Unsent(s),
           \/ minted' = minted
           \/ \E k \in Kinds : minted' = [minted EXCEPT ![s][k] = @ + 1]
    PROVE  Asks(s, NoFrame)
<1>1. frame[s] = NoFrame /\ frame' = [frame EXCEPT ![s] = NoFrame]
    BY DEF Unsent, FacadeInv
<1>2. QED
    BY <1>1 DEF Asks, NoFrame

LEMMA UserAsks ==
    ASSUME FacadeInv, NEW s \in Sessions, User(s)
    PROVE  \E f : Asks(s, f)
<1> USE FacadeAssumption DEF Send, NoFrame
<1>1. ASSUME NEW k \in Creates[s], NEW refs \in SUBSET live[s], NEW flaw,
             Create(s, k, refs, flaw)
      PROVE  \E f : Asks(s, f)
    <2>1. PICK f : f = [op |-> "create", name |-> Handed(s, k), refs |-> refs, flaw |-> flaw]
        OBVIOUS
    <2>2. f.op = "create" /\ f.name = Handed(s, k) /\ f.refs = refs /\ f # NoFrame
        BY <2>1
    <2>3. k \in Kinds /\ minted' = [minted EXCEPT ![s][k] = @ + 1]
        BY <1>1 DEF Create, Mint
    <2>4. k \in Simple => refs = {}
        BY <1>1 DEF Create, Simple, Needs, May
    <2>5. CASE Send(s, f)
        <3>1. Asks(s, f)
            BY <2>2, <2>3, <2>4, <2>5 DEF Asks
        <3>2. QED
            BY <3>1
    <2>6. CASE Unsent(s)
        BY <2>3, <2>6, UnsentAsks
    <2>7. QED
        BY <1>1, <2>1, <2>5, <2>6 DEF Create
<1>2. ASSUME NEW r \in live[s], Drop(s, r) PROVE \E f : Asks(s, f)
    <2>1. Asks(s, [op |-> "destroy", name |-> r])
        BY <1>2 DEF Drop, Asks
    <2>2. QED
        BY <2>1
<1>3. ASSUME NEW r \in live[s], NEW flaw, Derive(s, r, flaw)
      PROVE  \E f : Asks(s, f)
    <2>1. PICK f : f = [op |-> "derive", name |-> Handed(s, "bgl"), refs |-> {r}, flaw |-> flaw]
        OBVIOUS
    <2>2. f.op = "derive" /\ f.name = Handed(s, "bgl") /\ f # NoFrame
        BY <2>1
    <2>3. "bgl" \in Kinds /\ minted' = [minted EXCEPT ![s]["bgl"] = @ + 1]
        BY <1>3 DEF Derive, Mint, Kinds
    <2>4. Asks(s, f)
        BY <1>3, <2>1, <2>2, <2>3 DEF Derive, Asks
    <2>5. QED
        BY <2>4
<1>4. ASSUME NEW r, NEW flaw, Read(s, r, flaw) PROVE \E f : Asks(s, f)
    <2>1. Asks(s, [op |-> "read", name |-> r, flaw |-> flaw])
        BY <1>4 DEF Read, Asks
    <2>2. QED
        BY <2>1
<1>5. ASSUME NEW r, NEW flaw, NEW v, Write(s, r, v, flaw) PROVE \E f : Asks(s, f)
    <2>1. PICK f : f = [op |-> "write", name |-> r, value |-> v, flaw |-> flaw]
        OBVIOUS
    <2>2. (Send(s, f) \/ Unsent(s)) /\ minted' = minted
        BY <1>5, <2>1 DEF Write
    <2>3. ASSUME Send(s, f) PROVE Asks(s, f)
        BY <2>1, <2>2, <2>3 DEF Asks
    <2>4. QED
        BY <2>2, <2>3, UnsentAsks
<1>6. ASSUME NEW recs, NEW flaw, Submit(s, recs, flaw) PROVE \E f : Asks(s, f)
    <2>1. PICK f : f = [op |-> "submit", recs |-> recs, flaw |-> flaw]
        OBVIOUS
    <2>2. (Send(s, f) \/ Unsent(s)) /\ minted' = minted
        BY <1>6, <2>1 DEF Submit
    <2>3. ASSUME Send(s, f) PROVE Asks(s, f)
        BY <2>1, <2>2, <2>3 DEF Asks
    <2>4. QED
        BY <2>2, <2>3, UnsentAsks
<1>7. ASSUME Ack(s) PROVE \E f : Asks(s, f)
    <2>1. Asks(s, [op |-> "ack"])
        BY <1>7 DEF Ack, Asks
    <2>2. QED
        BY <2>1
<1>8. QED
    BY <1>1, <1>2, <1>3, <1>4, <1>5, <1>6, <1>7 DEF User

LEMMA UserKeepsAlone ==
    ASSUME TypeInv, AloneInv, NEW s \in Sessions, User(s), UNCHANGED engineVars
    PROVE  AloneInv'
<1> USE DEF engineVars, tableVars, deviceVars, handlerVars
<1>1. PICK f : Asks(s, f)
    BY UserAsks DEF TypeInv
<1>2. /\ minted \in [Sessions -> [Kinds -> Nat]]
      /\ frame = [t \in Sessions |-> frame[t]]
      /\ frame[s] = NoFrame /\ pc[s] = "idle"
      /\ frame'[s] = f /\ \A t \in Sessions \ {s} : frame'[t] = frame[t]
    BY <1>1 DEF Asks, TypeInv, FacadeInv, Busy
<1>3. OwnInv' /\ OwnNames' /\ StagedInv'
    BY DEF AloneInv, OwnInv, OwnTables, ResolvesToOwn, OwnNames, StagedInv
<1>a. \A t \in Sessions, k \in Kinds :
         minted[t][k] \in Nat /\ minted'[t][k] \in Nat /\ minted[t][k] <= minted'[t][k]
    <2>1. \A t \in Sessions, k \in Kinds : minted[t][k] \in Nat
        BY <1>2
    <2>2. CASE minted' = minted
        BY <2>1, <2>2
    <2>3. ASSUME NEW j \in Kinds, minted' = [minted EXCEPT ![s][j] = @ + 1]
          PROVE  \A t \in Sessions, k \in Kinds :
                    minted'[t][k] = minted[t][k] + IF t = s /\ k = j THEN 1 ELSE 0
        BY ONLY <1>2, <2>1, <2>3
    <2>4. QED
        BY <1>1, <2>1, <2>2, <2>3 DEF Asks
<1>4. \A n \in Names, t \in Sessions :
         n.id <= minted[t][n.kind] => n.id <= minted'[t][n.kind]
    <2>1. \A n \in Names : n.kind \in Kinds /\ n.id \in Nat
        BY FacadeAssumption DEF Names
    <2>2. QED
        BY <1>a, <2>1
<1>5. FramesInv'
    <2>1. ASSUME NEW t \in Sessions \ {s}, frame[t].op \in {"create", "derive"}
          PROVE  frame[t].name.id <= minted'[t][frame[t].name.kind]
        <3>1. frame[t].name \in Names
            BY <2>1, FrameShapes, MineAreNames DEF TypeInv, Creation, Derivation
        <3>2. frame[t].name.id <= minted[t][frame[t].name.kind]
            BY <2>1 DEF AloneInv, FramesInv, Minted
        <3>3. QED
            BY <1>4, <3>1, <3>2
    <2>2. ASSUME f.op \in {"create", "derive"}
          PROVE  /\ f.name.id <= minted'[s][f.name.kind]
                 /\ f.op = "create" /\ f.name.kind \in Simple => f.refs = {}
        <3>1. PICK k \in Kinds : /\ minted' = [minted EXCEPT ![s][k] = @ + 1]
                                 /\ f.name = Handed(s, k)
                                 /\ f.op = "create" /\ k \in Simple => f.refs = {}
            BY <1>1, <2>2 DEF Asks, NoFrame
        <3>2. f.name.kind = k /\ f.name.id = minted[s][k] + 1
            BY <3>1 DEF Handed
        <3>3. minted[s] \in [Kinds -> Nat] /\ minted[s][k] \in Nat
            BY <1>2
        <3>4. minted'[s][k] = minted[s][k] + 1
            BY ONLY <1>2, <3>1, <3>3
        <3>5. QED
            BY <3>1, <3>2, <3>3, <3>4
    <2>3. ASSUME NEW t \in Sessions
          PROVE  /\ frame'[t].op \in {"create", "derive"} =>
                       frame'[t].name.id <= minted'[t][frame'[t].name.kind]
                 /\ frame'[t].op = "create" /\ frame'[t].name.kind \in Simple
                       => frame'[t].refs = {}
        <3>1. CASE t = s
            BY <1>2, <2>2, <3>1
        <3>2. CASE t # s
            BY <1>2, <2>1, <3>2 DEF AloneInv, FramesInv
        <3>3. QED
            BY <3>1, <3>2
    <2>4. QED
        BY <2>3 DEF FramesInv, Minted
<1>6. ASSUME NEW o \in Objects PROVE Made(o) => Made(o)'
    <2>1. o.by \in Sessions /\ o.name \in Names
        BY DEF Objects
    <2>2. SUFFICES ASSUME Made(o), Making(o.by)', frame'[o.by].name = o.name PROVE FALSE
        BY <1>4, <2>1 DEF Made, Minted
    <2>3. CASE o.by # s
        BY <1>2, <2>1, <2>2, <2>3 DEF Made, Making
    <2>4. CASE o.by = s
        <3>1. PICK k \in Kinds : o.name = Handed(s, k)
            BY <1>1, <1>2, <2>2, <2>4 DEF Making, Asks, NoFrame
        <3>2. o.name.kind = k /\ o.name.id = minted[s][k] + 1 /\ minted[s][k] \in Nat
            BY <1>2, <3>1 DEF Handed
        <3>3. QED
            BY <2>2, <2>4, <3>2 DEF Made, Minted
    <2>5. QED
        BY <2>3, <2>4
<1>7. MadeInv'
    <2>1. Now' = Now
        BY DEF Now
    <2>2. \A r \in Names : tables[r] # NoObject => tables[r] \in Objects
        BY DEF TypeInv, ServerType
    <2>3. QED
        BY <1>6, <2>1, <2>2 DEF AloneInv, MadeInv, HeldIsMade, NewIsZero
<1>8. LookedInv'
    <2>1. ASSUME NEW t \in Sessions \ {s} PROVE Looked(t)'
        <3>1. Looked(t) /\ frame'[t] = frame[t]
            BY <1>2 DEF AloneInv, LookedInv
        <3>2. UNCHANGED <<tables, pc, hand, bufs, answer>>
            OBVIOUS
        <3>3. QED
            BY <3>1, <3>2, LookedStays
    <2>2. Looked(s)'
        <3>1. hand[s] = {} /\ bufs[s] = <<>>
            <4>1. Looked(s) /\ frame[s].op = "none"
                BY <1>2 DEF AloneInv, LookedInv, NoFrame
            <4>2. QED
                BY <1>2, <4>1 DEF Looked
        <3>2. f.op = "submit" => Len(f.recs) \in Nat
            <4>1. FacadeInv'
                BY UserKeeps DEF TypeInv
            <4>2. f \in FramesOf(s)
                BY <1>2, <4>1 DEF FacadeInv, FramesOf, Mine, Creation, Derivation, Writing, Reading, Submission
            <4>3. QED
                BY <4>2 DEF FramesOf, Creation, Derivation, Writing, Reading, Submission, NoFrame
        <3>3. QED
            BY <1>2, <3>1, <3>2 DEF Looked, Replayed
    <2>3. QED
        BY <2>1, <2>2 DEF LookedInv
<1>9. QED
    BY <1>3, <1>5, <1>7, <1>8 DEF AloneInv
-----------------------------------------------------------------------------
(* What a handler's step leaves alone.                                     *)

LEMMA HandlerMoves ==
    ASSUME TypeInv, NEW s \in Sessions, Handler(s)
    PROVE  /\ minted' = minted
           /\ \A t \in Sessions \ {s} :
                 /\ frame'[t] = frame[t] /\ pc'[t] = pc[t] /\ hand'[t] = hand[t]
                 /\ bufs'[t] = bufs[t] /\ answer'[t] = answer[t]
           /\ \/ frame'[s] = NoFrame
              \/ /\ frame'[s] = frame[s]
                 /\ pc'[s] \in {"idle", "resolved", "built"} =>
                       pc[s] \in {"idle", "resolved", "built"}
<1> USE DEF At, Goto, Answer, Panic, Lookup, TypeInv, ServerType
<1>1. CASE Reply(s)
    BY <1>1 DEF Reply, FacadeInv
<1>2. CASE AckFrame(s) \/ Remove(s)
    BY <1>2 DEF AckFrame, Remove, facadeVars
<1>3. CASE Build(s)
    BY <1>3, FrameShapes DEF Build, facadeVars, Creation, Flawed
<1>4. CASE Resolve(s)
    BY <1>4 DEF Resolve, facadeVars
<1>5. CASE BuildLocked(s) \/ Insert(s) \/ Flush(s) \/ CopyOut(s)
    BY <1>5 DEF BuildLocked, Insert, Flush, CopyOut, facadeVars
<1>6. CASE DeriveLayout(s)
    BY <1>6, FrameShapes DEF DeriveLayout, facadeVars, Derivation, NoneOrBad
<1>7. CASE Stage(s)
    BY <1>7, FrameShapes DEF Stage, facadeVars, Writing, NoneOrBad
<1>8. CASE Snapshot(s)
    BY <1>8 DEF Snapshot, facadeVars
<1>9. CASE Replay(s) \/ SubmitAll(s)
    BY <1>9 DEF Replay, SubmitAll, facadeVars
<1>10. CASE LockPanics(s)
    BY <1>10 DEF LockPanics, facadeVars
<1>11. QED
    BY <1>1, <1>2, <1>3, <1>4, <1>5, <1>6, <1>7, <1>8, <1>9, <1>10 DEF Handler

(* Only the frame's own name changes what it stands for, and that is the   *)
(* last of the frame.                                                      *)
Placed(s, n, o) ==
    /\ n = frame[s].name /\ n \in Mine(s) /\ tables' = [tables EXCEPT ![n] = o]
    /\ pc'[s] = "answered" /\ frame'[s] = frame[s]
    /\ UNCHANGED <<contents, staged>>
    /\ \/ o = NoObject
       \/ o = [by |-> s, name |-> n] /\ frame[s].op \in {"create", "derive"}

LEMMA TablesMove ==
    ASSUME TypeInv, NEW s \in Sessions, Handler(s), tables' # tables
    PROVE  \E n \in Mine(s), o \in Objects \cup {NoObject} : Placed(s, n, o)
<1> USE DEF At, Goto, Answer, deviceVars, facadeVars
<1>0. pc \in [Sessions -> Labels] /\ FacadeInv
    BY DEF TypeInv, ServerType
<1>1. CASE Remove(s)
    <2>1. frame[s].name \in Mine(s)
        BY <1>0, <1>1, FrameShapes DEF Remove
    <2>2. Placed(s, frame[s].name, NoObject)
        BY <1>0, <1>1, <2>1 DEF Remove, Placed
    <2>3. QED
        BY <2>1, <2>2
<1>a. ASSUME NEW n \in Mine(s) PROVE [by |-> s, name |-> n] \in Objects
    BY MineAreNames DEF Objects
<1>2. CASE Insert(s)
    <2>1. frame[s].op = "create" /\ frame[s].name \in Mine(s)
        BY <1>0, <1>2, FrameShapes DEF Insert, Creation, TypeInv, Busy
    <2>2. Placed(s, frame[s].name, [by |-> s, name |-> frame[s].name])
        BY <1>0, <1>2, <2>1 DEF Insert, Placed
    <2>3. QED
        BY <1>a, <2>1, <2>2
<1>3. CASE DeriveLayout(s)
    <2>1. frame[s] \in Derivation(s)
        BY <1>0, <1>3, FrameShapes DEF DeriveLayout
    <2>2. /\ tables' = [tables EXCEPT ![frame[s].name] =
                           [by |-> s, name |-> frame[s].name]]
          /\ pc'[s] = "answered"
        BY <1>0, <1>3, <2>1 DEF DeriveLayout, Derivation, NoneOrBad
    <2>3. Placed(s, frame[s].name, [by |-> s, name |-> frame[s].name])
        BY <1>3, <2>1, <2>2 DEF DeriveLayout, Placed, Derivation
    <2>4. QED
        BY <1>a, <2>1, <2>3 DEF Derivation
<1>4. CASE ~(Remove(s) \/ Insert(s) \/ DeriveLayout(s))
    BY <1>4 DEF Handler, AckFrame, Build, Resolve, BuildLocked, Stage, Flush,
       Snapshot, CopyOut, Replay, SubmitAll, Reply, LockPanics, tableVars
<1>5. QED
    BY <1>1, <1>2, <1>3, <1>4

LEMMA MadeStays ==
    ASSUME TypeInv, NEW s \in Sessions, Handler(s), NEW o \in Objects, Made(o)
    PROVE  Made(o)'
<1>1. o.by \in Sessions
    BY DEF Objects
<1>2. Minted(o.name, o.by)' <=> Minted(o.name, o.by)
    BY HandlerMoves DEF Minted
<1>3. CASE o.by = s
    BY <1>2, <1>3, HandlerMoves DEF Made, Making, NoFrame
<1>4. CASE o.by # s
    BY <1>1, <1>2, <1>4, HandlerMoves DEF Made, Making
<1>5. QED
    BY <1>3, <1>4

(* Other sessions' names stand for what they stood for.                    *)
LEMMA OthersStay ==
    ASSUME NoKindInCommon, TypeInv, NEW s \in Sessions, Handler(s),
           NEW t \in Sessions \ {s}
    PROVE  \A r \in Mine(t) : tables'[r] = tables[r]
<1>1. CASE tables' = tables
    BY <1>1
<1>2. CASE tables' # tables
    <2>1. PICK n \in Mine(s), o \in Objects \cup {NoObject} : Placed(s, n, o)
        BY <1>2, TablesMove
    <2>2. n \notin Mine(t) /\ n \in Names
        BY DEF NoKindInCommon, Mine
    <2>3. \A r \in Mine(t) : r \in Names /\ r # n
        BY <2>2, MineAreNames
    <2>4. tables \in [Names -> Objects \cup {NoObject}]
        BY DEF TypeInv, ServerType
    <2>5. QED
        BY <2>1, <2>3, <2>4 DEF Placed
<1>3. QED
    BY <1>1, <1>2

LEMMA HandlerKeepsTables ==
    ASSUME TypeInv, AloneInv, NEW s \in Sessions, Handler(s)
    PROVE  OwnNames' /\ FramesInv' /\ HeldIsMade'
<1>0. /\ tables \in [Names -> Objects \cup {NoObject}]
      /\ OwnNames /\ FramesInv /\ HeldIsMade
    BY DEF TypeInv, ServerType, AloneInv, MadeInv
<1>1. FramesInv'
    <2>1. \A t \in Sessions : frame'[t] \in {frame[t], NoFrame}
        BY HandlerMoves
    <2>2. QED
        BY <1>0, <2>1, HandlerMoves DEF FramesInv, NoFrame, Minted
<1>2. \A o \in Objects : Made(o) => Made(o)'
    BY MadeStays
<1>3. CASE tables' = tables
    <2>1. ASSUME NEW r \in Names, tables[r] # NoObject
          PROVE  \E p \in Objects : p = tables[r] /\ Made(p)'
        BY <1>0, <1>2, <2>1 DEF HeldIsMade
    <2>2. HeldIsMade'
        BY <1>3, <2>1 DEF HeldIsMade
    <2>3. OwnNames'
        BY <1>0, <1>3 DEF OwnNames
    <2>4. QED
        BY <1>1, <2>2, <2>3
<1>4. CASE tables' # tables
    <2>1. PICK n \in Mine(s), o \in Objects \cup {NoObject} : Placed(s, n, o)
        BY <1>4, TablesMove
    <2>2. n \in Names /\ tables' = [tables EXCEPT ![n] = o]
        BY <2>1, MineAreNames DEF Placed
    <2>3. ASSUME o # NoObject PROVE Made(o)' /\ o.name = n
        <3>1. o = [by |-> s, name |-> n] /\ frame[s].op \in {"create", "derive"}
            BY <2>1, <2>3 DEF Placed
        <3>2. o.by = s /\ o.name = n
            BY <3>1
        <3>3. Minted(n, s)
            BY <1>0, <2>1, <3>1 DEF FramesInv, Placed
        <3>4. pc'[s] = "answered"
            BY <2>1 DEF Placed
        <3>5. QED
            BY <3>2, <3>3, <3>4, HandlerMoves DEF Made, Minted, Making
    <2>4. ASSUME NEW r \in Names, tables'[r] # NoObject
          PROVE  tables'[r].name = r /\ \E p \in Objects : p = tables'[r] /\ Made(p)'
        <3>1. CASE r = n
            BY <1>0, <2>2, <2>3, <2>4, <3>1
        <3>2. CASE r # n
            <4>1. tables'[r] = tables[r] /\ tables[r] \in Objects
                BY <1>0, <2>2, <2>4, <3>2
            <4>2. QED
                BY <1>0, <1>2, <2>4, <4>1 DEF OwnNames, HeldIsMade
        <3>3. QED
            BY <3>1, <3>2
    <2>5. OwnNames' /\ HeldIsMade'
        BY <2>4 DEF OwnNames, HeldIsMade
    <2>6. QED
        BY <1>1, <2>5
<1>5. QED
    BY <1>3, <1>4
-----------------------------------------------------------------------------
(* The two steps that change contents.                                     *)

LEMMA Staging ==
    ASSUME TypeInv, ContentsInv, NEW s \in Sessions, Stage(s)
    PROVE  /\ frame[s] \in Writing(s) /\ frame[s].name \in Mine(s)
           /\ \/ UNCHANGED <<contents, staged>> /\ pc'[s] \in {"answered", "dead"}
              \/ /\ tables[frame[s].name] # NoObject /\ frame[s].flaw = "none"
                 /\ pc'[s] = "staged"
                 /\ staged' = Append(staged, [op |-> "write",
                                 to |-> tables[frame[s].name], value |-> frame[s].value])
                 /\ Now' = [Now EXCEPT ![tables[frame[s].name]] = frame[s].value]
<1> USE DEF At, Goto, Answer, Panic
<1>1. frame[s] \in Writing(s) /\ frame[s].name \in Mine(s)
    BY FrameShapes DEF Stage, TypeInv, Writing
<1>2. pc \in [Sessions -> Labels] /\ UNCHANGED contents
    BY DEF TypeInv, ServerType, Stage
<1>3. CASE Found({frame[s].name}) /\ frame[s].flaw = "none"
    <2>1. PICK w : w = [op |-> "write", to |-> tables[frame[s].name],
                        value |-> frame[s].value]
        OBVIOUS
    <2>2. staged' = Append(staged, w) /\ pc'[s] = "staged"
        BY <1>2, <1>3, <2>1 DEF Stage
    <2>3. tables[frame[s].name] \in Objects /\ tables[frame[s].name] # NoObject
        BY <1>1, <1>3, MineAreNames DEF TypeInv, ServerType, Found
    <2>4. w \in ObjectWrites
        BY <1>1, <2>1, <2>3 DEF Writing, ObjectWrites
    <2>5. Now' = Apply(Now, w)
        BY <1>2, <2>2, <2>4, NowStaged
    <2>6. Apply(Now, w) = [Now EXCEPT ![tables[frame[s].name]] = frame[s].value]
        BY <2>1 DEF Apply
    <2>7. QED
        BY <1>1, <1>3, <2>1, <2>2, <2>3, <2>5, <2>6
<1>4. CASE ~(Found({frame[s].name}) /\ frame[s].flaw = "none")
    <2>1. UNCHANGED staged /\ pc'[s] \in {"answered", "dead"}
        BY <1>1, <1>2, <1>4 DEF Stage, Writing, NoneOrBad
    <2>2. QED
        BY <1>1, <1>2, <2>1
<1>5. QED
    BY <1>3, <1>4

LEMMA Submitting ==
    ASSUME TypeInv, AloneInv, NEW s \in Sessions, SubmitAll(s)
    PROVE  /\ frame[s] \in Submission(s)
           /\ frame[s].recs \in Seq(Seq(Commands(Mine(s))))
           /\ bufs[s] \in Seq(Seq(ObjectCommands))
           /\ bufs[s] \in Seq(Seq(On(Own(s)))) /\ Own(s) \in SUBSET Objects
           /\ Len(bufs[s]) = Len(frame[s].recs)
           /\ Replayed(bufs[s], frame[s].recs)
           /\ \/ UNCHANGED <<contents, staged>> /\ frame[s].flaw = "invalid"
                 /\ Panic(s)
              \/ UNCHANGED <<contents, staged>> /\ frame[s].flaw = "unsupported"
                 /\ Answer(s, Invalid)
              \/ Now' = RunAll(Now, bufs[s]) /\ staged' = <<>>
                 /\ frame[s].flaw = "none" /\ Answer(s, Ok)
<1>1. /\ frame[s] \in Submission(s)
      /\ frame[s].recs \in Seq(Seq(Commands(Mine(s))))
    BY FrameShapes DEF SubmitAll, At, TypeInv, Submission
<1>2. bufs[s] \in Seq(Seq(ObjectCommands)) /\ ServerType
    BY DEF TypeInv, ServerType
<1>3. /\ Len(bufs[s]) = Len(frame[s].recs) /\ Replayed(bufs[s], frame[s].recs)
    BY DEF SubmitAll, At, AloneInv, LookedInv, Looked
<1>4. bufs[s] \in Seq(Seq(On(Own(s))))
    BY <1>1, <1>2, <1>3, SubmissionOnOwn
<1>5. Own(s) \in SUBSET Objects
    BY <1>2, MineAreNames DEF Own, ServerType
<1>6. QueueSubmit(bufs[s]) => staged' = <<>> /\ Now' = RunAll(Now, bufs[s])
    BY NowSubmitted DEF QueueSubmit
<1>7. \/ UNCHANGED <<contents, staged>> /\ frame[s].flaw = "invalid" /\ Panic(s)
      \/ UNCHANGED <<contents, staged>> /\ frame[s].flaw = "unsupported"
         /\ Answer(s, Invalid)
      \/ Now' = RunAll(Now, bufs[s]) /\ staged' = <<>>
         /\ frame[s].flaw = "none" /\ Answer(s, Ok)
    BY <1>6 DEF SubmitAll, deviceVars
<1>8. QED
    BY ONLY <1>1, <1>2, <1>3, <1>4, <1>5, <1>7

LEMMA HandlerKeepsStaged ==
    ASSUME NoKindInCommon, TypeInv, ContentsInv, AloneInv, NEW s \in Sessions,
           Handler(s)
    PROVE  StagedInv'
<1>0. /\ StagedInv /\ OwnTables /\ staged \in Seq(ObjectWrites)
      /\ pc \in [Sessions -> Labels] /\ ServerType
    BY DEF AloneInv, OwnInv, TypeInv, ServerType
<1>1. \A k \in 1..Len(staged) : staged[k].to.by \in Sessions
    <2>1. \A w \in ObjectWrites : w.to \in Objects
        BY DEF ObjectWrites
    <2>2. \A o \in Objects : o.by \in Sessions
        BY DEF Objects
    <2>3. \A k \in 1..Len(staged) : staged[k] \in ObjectWrites
        BY <1>0
    <2>4. QED
        BY <2>1, <2>2, <2>3
<1>2. ASSUME staged' = staged, pc[s] # "staged" PROVE StagedInv'
    BY <1>0, <1>1, <1>2, HandlerMoves DEF StagedInv
<1>3. CASE Stage(s) /\ pc'[s] = "staged"
    <2>1. PICK w : w = [op |-> "write", to |-> tables[frame[s].name],
                        value |-> frame[s].value]
        OBVIOUS
    <2>2. frame[s] \in Writing(s) /\ frame[s].name \in Mine(s)
          /\ tables[frame[s].name] # NoObject /\ staged' = Append(staged, w)
        BY <1>3, <2>1, Staging
    <2>3. w.to.by = s
        BY <1>0, <2>1, <2>2, FoundFacts DEF AloneInv
    <2>4. tables[frame[s].name] \in Objects
        BY <1>0, <2>2, FoundFacts DEF AloneInv
    <2>5. w \in ObjectWrites
        BY <2>1, <2>2, <2>4 DEF ObjectWrites, Writing
    <2>6. ASSUME NEW k \in 1..Len(staged') PROVE pc'[staged'[k].to.by] = "staged"
        <3>1. CASE k = Len(staged) + 1
            <4>1. staged'[k] = w
                BY <1>0, <2>2, <2>5, <3>1
            <4>2. QED
                BY <1>3, <2>3, <4>1
        <3>2. CASE k # Len(staged) + 1
            <4>1. k \in 1..Len(staged) /\ staged'[k] = staged[k]
                BY <1>0, <2>2, <2>5, <2>6, <3>2
            <4>2. pc[staged[k].to.by] = "staged" /\ staged[k].to.by \in Sessions
                BY <1>0, <1>1, <4>1 DEF StagedInv
            <4>3. QED
                BY <1>3, <4>1, <4>2, HandlerMoves
        <3>3. QED
            BY <3>1, <3>2
    <2>7. QED
        BY <2>6 DEF StagedInv
<1>4. CASE staged' = <<>>
    BY <1>4 DEF StagedInv
<1>5. CASE ~(Stage(s) /\ pc'[s] = "staged") /\ staged' # <<>>
    <2>1. CASE Stage(s)
        BY <1>2, <1>5, <2>1, Staging DEF Stage, At
    <2>2. CASE SubmitAll(s)
        BY <1>2, <1>5, <2>2, Submitting DEF SubmitAll, At
    <2>3. CASE ~(Stage(s) \/ SubmitAll(s))
        BY <1>2, <1>5, <2>3 DEF Handler, AckFrame, Remove, Build, Resolve, BuildLocked,
           Insert, DeriveLayout, Flush, Snapshot, CopyOut, Replay, Reply,
           LockPanics, Takes, At, deviceVars, QueueSubmit
    <2>4. QED
        BY <2>1, <2>2, <2>3
<1>6. QED
    BY <1>3, <1>4, <1>5

LEMMA HandlerKeepsZero ==
    ASSUME NoKindInCommon, TypeInv, ContentsInv, AloneInv, NEW s \in Sessions,
           Handler(s)
    PROVE  NewIsZero'
<1>0. ServerType /\ HeldIsMade /\ NewIsZero /\ Now \in Contents
    BY NowIsContents DEF AloneInv, MadeInv, TypeInv
<1>1. \A o \in Objects : Made(o) => Made(o)'
    BY MadeStays
<1>2. SUFFICES ASSUME NEW o \in Objects, ~Made(o) PROVE Now'[o] = 0
    BY <1>1 DEF NewIsZero
<1>3. Now[o] = 0
    BY <1>0, <1>2 DEF NewIsZero
<1>4. CASE Now' = Now
    BY <1>3, <1>4
<1>5. CASE Stage(s) /\ Now' # Now
    <2>1. /\ frame[s].name \in Mine(s) /\ tables[frame[s].name] # NoObject
          /\ Now' = [Now EXCEPT ![tables[frame[s].name]] = frame[s].value]
        BY <1>5, Staging DEF Now
    <2>2. Made(tables[frame[s].name])
        BY <1>0, <2>1, MineAreNames DEF HeldIsMade
    <2>3. QED
        BY <1>0, <1>2, <1>3, <2>1, <2>2 DEF Contents
<1>6. CASE SubmitAll(s) /\ Now' # Now
    <2>1. Now' = RunAll(Now, bufs[s]) /\ bufs[s] \in Seq(Seq(On(Own(s))))
          /\ Own(s) \in SUBSET Objects
        BY <1>6, Submitting DEF Now
    <2>2. Now' \in Same(Now, Own(s))
        BY <1>0, <2>1, OthersAreKept
    <2>3. o \notin Own(s)
        BY <1>0, <1>2, MineAreNames DEF Own, HeldIsMade
    <2>4. QED
        BY <1>3, <2>2, <2>3 DEF Same
<1>7. QED
    BY <1>4, <1>5, <1>6, NowSteps

LEMMA ReplayMore ==
    ASSUME TypeInv, AloneInv, NEW s \in Sessions, At(s, "idle", {"submit"}),
           Len(bufs[s]) < Len(frame[s].recs), UNCHANGED <<tables, frame>>,
           Found(UsedBy(frame[s].recs[Len(bufs[s]) + 1])),
           bufs'[s] = Append(bufs[s], OnRecording(frame[s].recs[Len(bufs[s]) + 1]))
    PROVE  Len(bufs'[s]) <= Len(frame[s].recs) /\ Replayed(bufs[s], frame[s].recs)'
<1>1. PICK recs \in Seq(Seq(Commands(Mine(s)))) : recs = frame[s].recs
    BY FrameShapes DEF At, TypeInv, Submission
<1>2. PICK bs \in Seq(Seq(ObjectCommands)) : bs = bufs[s]
    BY DEF TypeInv, ServerType
<1>3. PICK rec \in Seq(Commands(Mine(s))) : rec = recs[Len(bs) + 1]
    <2>1. Len(bs) + 1 \in 1..Len(recs)
        BY <1>1, <1>2
    <2>2. QED
        BY <2>1
<1>4. Found(UsedBy(rec))
    BY <1>1, <1>2, <1>3
<1>5. PICK b \in Seq(ObjectCommands) : b = OnRecording(rec)
    <2>1. OnRecording(rec) \in Seq(ObjectCommands)
        <3>1. Mine(s) \in SUBSET Names /\ ServerType
            BY MineAreNames DEF TypeInv
        <3>2. [j \in DOMAIN rec |-> OnObjects(rec[j])] \in Seq(ObjectCommands)
            BY <1>4, <3>1, ReplayedRecording
        <3>3. QED
            BY <3>2 DEF OnRecording
    <2>2. QED
        BY <2>1
<1>6. PICK more \in Seq(Seq(ObjectCommands)) : more = Append(bs, b)
    <2>1. Append(bs, b) \in Seq(Seq(ObjectCommands))
        BY AppendFacts
    <2>2. QED
        BY ONLY <2>1, Zenon
<1>7. /\ Len(bs) \in Nat /\ Len(more) = Len(bs) + 1
      /\ more[Len(bs) + 1] = b /\ \A i \in 1..Len(bs) : more[i] = bs[i]
    BY <1>6, AppendFacts
<1>8. Replayed(bs, recs)
    BY <1>1, <1>2 DEF AloneInv, LookedInv, Looked, At
<1>9. Replayed(more, recs)
    <2>1. SUFFICES ASSUME NEW i \in 1..Len(more)
                   PROVE  Found(UsedBy(recs[i])) /\ more[i] = OnRecording(recs[i])
        BY DEF Replayed
    <2>2. CASE i = Len(bs) + 1
        BY <1>3, <1>4, <1>5, <1>7, <2>2
    <2>3. CASE i # Len(bs) + 1
        <3>1. i \in 1..Len(bs)
            BY <1>7, <2>1, <2>3
        <3>2. QED
            BY <1>7, <1>8, <3>1 DEF Replayed
    <2>4. QED
        BY <2>2, <2>3
<1>10. Replayed(more, recs)'
    <2>1. Len(more) \in Nat /\ Len(more) <= Len(recs)
        BY <1>1, <1>2, <1>7
    <2>2. QED
        BY <1>9, <2>1, ReplayedStays
<1>11. bufs'[s] = more /\ frame'[s].recs = recs
    BY <1>1, <1>2, <1>3, <1>5, <1>6
<1>12. QED
    BY <1>1, <1>2, <1>7, <1>10, <1>11

(* An answered frame has an answer, and a dead handler has nothing.        *)
LEMMA AnsweredLooks ==
    ASSUME NEW s, pc'[s] \in {"answered", "dead"},
           pc'[s] = "answered" => answer'[s] # Pending
    PROVE  Looked(s)'
BY DEF Looked

LEMMA AnswerLooks ==
    ASSUME ServerType, NEW s \in Sessions, NEW a, a # Pending, Answer(s, a)
    PROVE  Looked(s)'
<1>1. pc'[s] = "answered" /\ answer'[s] = a
    BY DEF Answer, Goto, ServerType
<1>2. QED
    BY <1>1, AnsweredLooks

LEMMA PanicLooks ==
    ASSUME ServerType, NEW s \in Sessions, Panic(s)
    PROVE  Looked(s)'
<1>1. pc'[s] = "dead"
    BY DEF Panic, Goto, ServerType
<1>2. QED
    BY <1>1, AnsweredLooks

LEMMA AnswersAreNotPending ==
    /\ Ok # Pending /\ Unknown # Pending /\ Invalid # Pending /\ Internal # Pending
    /\ \A v : Data(v) # Pending
BY DEF Ok, Unknown, Invalid, Internal, Data, Pending

LEMMA HandlerLooks ==
    ASSUME TypeInv, AloneInv, NEW s \in Sessions, Handler(s)
    PROVE  Looked(s)'
<1> USE DEF At, Goto, facadeVars
<1>0. ServerType /\ FacadeInv /\ Busy /\ Looked(s) /\ FramesInv
      /\ pc \in [Sessions -> Labels] /\ hand \in [Sessions -> SUBSET Objects]
    BY DEF TypeInv, ServerType, AloneInv, LookedInv
<1>1. CASE AckFrame(s) \/ Remove(s) \/ Insert(s) \/ Flush(s)
    BY <1>0, <1>1, AnswerLooks, AnswersAreNotPending DEF AckFrame, Remove, Insert, Flush
<1>2. CASE Build(s)
    <2>1. frame[s].flaw \in Flawed
        BY <1>0, <1>2, FrameShapes DEF Build, Creation
    <2>2. CASE frame[s].flaw = "none"
        <3>1. pc'[s] = "built" /\ frame[s].refs = {}
            BY <1>0, <1>2, <2>2 DEF Build, FramesInv
        <3>2. frame'[s] = frame[s] /\ UNCHANGED tables
            BY <1>2 DEF Build, tableVars
        <3>3. QED
            BY <2>2, <3>1, <3>2 DEF Looked, Found
    <2>3. CASE frame[s].flaw = "unsupported"
        BY <1>0, <1>2, <2>3, AnswerLooks, AnswersAreNotPending DEF Build
    <2>4. CASE frame[s].flaw = "invalid"
        BY <1>0, <1>2, <2>4, PanicLooks DEF Build
    <2>5. QED
        BY <2>1, <2>2, <2>3, <2>4 DEF Flawed
<1>3. CASE Resolve(s)
    <2>1. ASSUME NEW a \in Refusals(frame[s]), Answer(s, a) PROVE Looked(s)'
        BY <1>0, <2>1, AnswerLooks, AnswersAreNotPending DEF Refusals
    <2>2. ASSUME Found(frame[s].refs), frame[s].flaw # "unsupported", Goto(s, "resolved")
          PROVE  Looked(s)'
        <3>1. pc'[s] = "resolved" /\ frame' = frame /\ tables' = tables
            BY <1>0, <1>3, <2>2 DEF Resolve
        <3>2. QED
            BY <2>2, <3>1 DEF Looked, Found
    <2>3. QED
        BY <1>3, <2>1, <2>2 DEF Resolve
<1>4. CASE BuildLocked(s)
    <2>1. CASE frame[s].flaw = "invalid"
        BY <1>0, <1>4, <2>1, PanicLooks DEF BuildLocked
    <2>2. CASE frame[s].flaw # "invalid"
        <3>1. pc'[s] = "built" /\ frame' = frame /\ tables' = tables
            BY <1>0, <1>4, <2>2 DEF BuildLocked
        <3>2. frame[s].flaw \in Flawed
            BY <1>0, <1>4, FrameShapes DEF BuildLocked, Creation, Busy
        <3>3. Found(frame[s].refs) /\ frame[s].flaw = "none"
            BY <1>0, <1>4, <2>2, <3>2 DEF BuildLocked, Looked, Flawed
        <3>4. QED
            BY <3>1, <3>3 DEF Looked, Found
    <2>3. QED
        BY <2>1, <2>2
<1>5. CASE DeriveLayout(s)
    <2>1. frame[s].flaw \in NoneOrBad
        BY <1>0, <1>5, FrameShapes DEF DeriveLayout, Derivation
    <2>2. CASE ~Found(frame[s].refs)
        BY <1>0, <1>5, <2>2, AnswerLooks, AnswersAreNotPending DEF DeriveLayout
    <2>3. CASE Found(frame[s].refs) /\ frame[s].flaw = "invalid"
        BY <1>0, <1>5, <2>3, PanicLooks DEF DeriveLayout
    <2>4. CASE Found(frame[s].refs) /\ frame[s].flaw = "none"
        <3>1. pc'[s] = "answered" /\ answer'[s] = Ok
            BY <1>0, <1>5, <2>4 DEF DeriveLayout, ServerType
        <3>2. QED
            BY <3>1, AnsweredLooks, AnswersAreNotPending
    <2>5. QED
        BY <2>1, <2>2, <2>3, <2>4 DEF NoneOrBad
<1>6. CASE Stage(s)
    <2>1. frame[s] \in Writing(s)
        BY <1>0, <1>6, FrameShapes DEF Stage
    <2>2. CASE ~Found({frame[s].name})
        BY <1>0, <1>6, <2>2, AnswerLooks, AnswersAreNotPending DEF Stage
    <2>3. CASE Found({frame[s].name}) /\ frame[s].flaw = "invalid"
        BY <1>0, <1>6, <2>3, PanicLooks DEF Stage
    <2>4. CASE Found({frame[s].name}) /\ frame[s].flaw = "none"
        <3>1. pc'[s] = "staged" /\ frame'[s].op = "write"
            BY <1>0, <1>6, <2>4 DEF Stage
        <3>2. QED
            BY <3>1 DEF Looked
    <2>5. QED
        BY <2>1, <2>2, <2>3, <2>4 DEF Writing, NoneOrBad
<1>7. CASE Snapshot(s)
    <2>1. CASE ~Found({frame[s].name})
        BY <1>0, <1>7, <2>1, AnswerLooks, AnswersAreNotPending DEF Snapshot
    <2>2. CASE Found({frame[s].name})
        <3>1. hand[s] = {}
            BY <1>0, <1>7 DEF Snapshot, Looked
        <3>2. /\ pc'[s] = "mapping" /\ frame' = frame /\ tables' = tables
              /\ hand' = [hand EXCEPT ![s] = @ \cup {tables[r] : r \in {frame[s].name}}]
            BY <1>0, <1>7, <2>2 DEF Snapshot, tableVars, Lookup
        <3>3. hand'[s] = {tables[frame[s].name]}
            BY <1>0, <3>1, <3>2
        <3>4. frame[s].op = "read"
            BY <1>7 DEF Snapshot
        <3>5. QED
            BY <2>2, <3>2, <3>3, <3>4 DEF Looked, Found
    <2>3. QED
        BY <2>1, <2>2
<1>8. CASE CopyOut(s)
    <2>1. CASE frame[s].flaw = "invalid"
        BY <1>0, <1>8, <2>1, PanicLooks DEF CopyOut
    <2>2. CASE frame[s].flaw # "invalid"
        <3>1. PICK a \in {Internal} \cup {Data(v) : v \in Values} : Answer(s, a)
            BY <1>8, <2>2 DEF CopyOut
        <3>2. a # Pending
            BY AnswersAreNotPending
        <3>3. QED
            BY <1>0, <3>1, <3>2, AnswerLooks
    <2>3. QED
        BY <2>1, <2>2
<1>9. CASE Replay(s)
    <2> DEFINE rec == frame[s].recs[Len(bufs[s]) + 1]
    <2>1. CASE Answer(s, Unknown)
        BY <1>0, <2>1, AnswerLooks, AnswersAreNotPending
    <2>2. CASE Panic(s)
        BY <1>0, <2>2, PanicLooks
    <2>3. CASE /\ Found(UsedBy(rec)) /\ UNCHANGED pc
               /\ bufs' = [bufs EXCEPT ![s] =
                              Append(@, [j \in DOMAIN rec |-> OnObjects(rec[j])])]
        <3>1. /\ At(s, "idle", {"submit"}) /\ Len(bufs[s]) < Len(frame[s].recs)
              /\ UNCHANGED <<tables, frame>>
            BY <1>9 DEF Replay
        <3>2. bufs'[s] = Append(bufs[s], OnRecording(rec))
            BY <1>0, <2>3 DEF ServerType, OnRecording
        <3>3. Len(bufs'[s]) <= Len(frame[s].recs) /\ Replayed(bufs[s], frame[s].recs)'
            BY ONLY TypeInv, AloneInv, s \in Sessions, <2>3, <3>1, <3>2, ReplayMore
        <3>4. pc'[s] = "idle" /\ frame'[s].op = "submit" /\ frame'[s].recs = frame[s].recs
            BY <2>3, <3>1
        <3>5. QED
            BY <3>3, <3>4 DEF Looked
    <2>4. QED
        BY <1>9, <2>1, <2>2, <2>3 DEF Replay
<1>10. CASE SubmitAll(s)
    BY <1>0, <1>10, AnswerLooks, PanicLooks, AnswersAreNotPending DEF SubmitAll
<1>11. CASE Reply(s)
    <2>1. pc'[s] = "idle" /\ frame'[s] = NoFrame
        BY <1>0, <1>11 DEF Reply, FacadeInv
    <2>2. hand'[s] = {} /\ bufs'[s] = <<>>
        BY <1>0, <1>11 DEF Reply, ServerType
    <2>3. QED
        BY <2>1, <2>2 DEF Looked, NoFrame
<1>12. CASE LockPanics(s)
    BY <1>0, <1>12, PanicLooks DEF LockPanics
<1>13. QED
    BY <1>1, <1>2, <1>3, <1>4, <1>5, <1>6, <1>7, <1>8, <1>9, <1>10, <1>11, <1>12
    DEF Handler

LEMMA AloneStep ==
    ASSUME NoKindInCommon
    PROVE  TypeInv /\ ContentsInv /\ AloneInv /\ [Next]_vars => AloneInv'
<1> SUFFICES ASSUME TypeInv, ContentsInv, AloneInv, [Next]_vars PROVE AloneInv'
    OBVIOUS
<1>1. ASSUME NEW s \in Sessions, User(s), UNCHANGED engineVars PROVE AloneInv'
    BY <1>1, UserKeepsAlone
<1>2. ASSUME NEW s \in Sessions, Handler(s) PROVE AloneInv'
    <2>1. OwnInv'
        BY OwnStep DEF AloneInv
    <2>2. OwnNames' /\ FramesInv' /\ HeldIsMade'
        BY <1>2, HandlerKeepsTables
    <2>3. NewIsZero' /\ StagedInv'
        BY <1>2, HandlerKeepsZero, HandlerKeepsStaged
    <2>4. ASSUME NEW t \in Sessions \ {s} PROVE Looked(t)'
        <3>1. Looked(t) /\ \A r \in Mine(t) : tables'[r] = tables[r]
            BY <1>2, OthersStay DEF AloneInv, LookedInv
        <3>2. QED
            BY <1>2, <3>1, HandlerMoves, LookedStays
    <2>5. Looked(s)'
        BY <1>2, HandlerLooks
    <2>6. LookedInv'
        BY <2>4, <2>5 DEF LookedInv
    <2>7. QED
        BY <2>1, <2>2, <2>3, <2>6 DEF AloneInv, MadeInv
<1>3. CASE UNCHANGED vars
    <2>1. OwnInv' /\ OwnNames' /\ FramesInv' /\ MadeInv' /\ StagedInv'
        BY <1>3, OwnStep DEF vars, facadeVars, engineVars, tableVars, deviceVars,
           handlerVars, AloneInv, OwnNames, FramesInv, MadeInv, HeldIsMade, NewIsZero,
           StagedInv, Made, Making, Minted, Now
    <2>2. ASSUME NEW t \in Sessions PROVE Looked(t)'
        BY <1>3, LookedStays DEF vars, facadeVars, engineVars, tableVars, handlerVars,
           AloneInv, LookedInv
    <2>3. QED
        BY <2>1, <2>2 DEF AloneInv, LookedInv
<1>4. QED
    BY <1>1, <1>2, <1>3 DEF Next
-----------------------------------------------------------------------------
(* The state of Alone, and its steps in these terms.                       *)

Store == [s \in Sessions |-> View(s, Now)]
Done  == [s \in Sessions |-> CASE pc[s] = "staged"   -> Ok
                               [] pc[s] = "answered" -> answer[s]
                               [] OTHER              -> Pending]
Dead  == {s \in Sessions : pc[s] = "dead"}

Comes(s, c, a) ==
    Done' = [Done EXCEPT ![s] = a] /\ Store' = [Store EXCEPT ![s] = c]

LEMMA KnownIs ==
    ASSUME NEW s \in Sessions, NEW refs, \A r \in refs : Store[s][r] # Nothing
    PROVE  Promise!Known(s, refs)
BY DEF Promise!Known, Promise!Absent, Store, View, Now, Nothing

LEMMA UnknownIs ==
    ASSUME NEW s \in Sessions, NEW refs, NEW r \in refs, Store[s][r] = Nothing
    PROVE  ~Promise!Known(s, refs)
BY DEF Promise!Known, Promise!Absent, Store, View, Now, Nothing

Works(s) ==
    /\ frame[s] # NoFrame /\ Done[s] = Pending /\ s \notin Dead
    /\ UNCHANGED <<facadeVars, Dead, poisoned>>

LEMMA ExecuteIs ==
    ASSUME NEW s \in Sessions, Works(s),
           Promise!Succeed(s, frame[s]) \/ Promise!Fail(s, frame[s])
    PROVE  Promise!Next
<1>1. Promise!Execute(s)
    BY DEF Promise!Execute, Works, Done, Dead, Promise!NoFrame, NoFrame,
           Promise!Pending, Pending, Promise!facadeVars, facadeVars, Promise!Ok, Ok
<1>2. QED
    BY <1>1 DEF Promise!Next

Dies(s) ==
    /\ frame[s] # NoFrame /\ s \notin Dead /\ Dead' = Dead \cup {s}
    /\ UNCHANGED <<facadeVars, Store, Done>>
    /\ \/ /\ "flaw" \in DOMAIN frame[s] /\ frame[s].flaw = "invalid"
          /\ poisoned' \in {poisoned, TRUE}
       \/ poisoned /\ UNCHANGED poisoned

LEMMA CrashIs ==
    ASSUME NEW s \in Sessions, Dies(s)
    PROVE  Promise!Next
<1>1. Promise!Crash(s)
    BY DEF Promise!Crash, Dies, Dead, Promise!NoFrame, NoFrame,
           Promise!facadeVars, facadeVars, Store, Done, View, Now, Nothing, Pending, Ok
<1>2. QED
    BY <1>1 DEF Promise!Next

LEMMA ReplyIs ==
    ASSUME NEW s \in Sessions, Done[s] # Pending,
           Done' = [Done EXCEPT ![s] = Pending],
           frame' = [frame EXCEPT ![s] = NoFrame],
           UNCHANGED <<minted, live, Store, Dead, poisoned>>
    PROVE  Promise!Next
<1>1. Promise!Reply(s)
    BY DEF Promise!Reply, Dead, Promise!NoFrame, NoFrame, Promise!Pending,
           Store, Done, View, Now, Nothing, Pending, Ok
<1>2. QED
    BY <1>1 DEF Promise!Next

LEMMA AskIs ==
    ASSUME FacadeInv, NEW s \in Sessions, NEW f, Asks(s, f),
           UNCHANGED <<Store, Done, Dead, poisoned>>
    PROVE  Promise!Next
<1>1. frame'[s] = f
    BY DEF Asks, FacadeInv
<1>2. Promise!Ask(s)
    BY <1>1 DEF Promise!Ask, Asks, Dead, Promise!NoFrame, NoFrame,
           Store, Done, View, Now, Nothing, Pending, Ok
<1>3. QED
    BY <1>2 DEF Promise!Next

LEMMA StutterIs ==
    ASSUME UNCHANGED <<facadeVars, Store, Done, Dead, poisoned>>
    PROVE  UNCHANGED Promise!aloneVars
BY DEF Promise!aloneVars, Promise!facadeVars, facadeVars, Dead,
       Store, Done, View, Now, Nothing, Pending, Ok
-----------------------------------------------------------------------------
(* What the parts of a handler's step do to the state of Alone.            *)

LEMMA AnswerDone ==
    ASSUME ServerType, NEW s \in Sessions, NEW a, Answer(s, a), pc[s] # "dead"
    PROVE  Done' = [Done EXCEPT ![s] = a] /\ Dead' = Dead
BY DEF Answer, Goto, ServerType, Done, Dead

LEMMA GotoDone ==
    ASSUME ServerType, NEW s \in Sessions, NEW label, Goto(s, label), UNCHANGED answer,
           pc[s] \notin {"staged", "answered", "dead"},
           label \notin {"staged", "answered", "dead"}
    PROVE  Done' = Done /\ Dead' = Dead
BY DEF Goto, ServerType, Done, Dead

LEMMA StagedDone ==
    ASSUME ServerType, NEW s \in Sessions, Goto(s, "staged"), UNCHANGED answer,
           pc[s] # "dead"
    PROVE  Done' = [Done EXCEPT ![s] = Ok] /\ Dead' = Dead
BY DEF Goto, ServerType, Done, Dead

LEMMA PanicDone ==
    ASSUME ServerType, NEW s \in Sessions, Panic(s),
           pc[s] \notin {"staged", "answered"}
    PROVE  Done' = Done /\ Dead' = Dead \cup {s}
BY DEF Panic, Goto, ServerType, Done, Dead

LEMMA StoreSame ==
    ASSUME tables' = tables, Now' = Now
    PROVE  Store' = Store
BY DEF Store, View

LEMMA StorePlaced ==
    ASSUME NoKindInCommon, ServerType, OwnTables, NEW s \in Sessions,
           NEW n \in Mine(s), NEW o \in Objects \cup {NoObject},
           o = NoObject \/ o = [by |-> s, name |-> n],
           tables' = [tables EXCEPT ![n] = o], Now' = Now
    PROVE  Store' = [Store EXCEPT ![s] =
                       [Store[s] EXCEPT ![n] = IF o = NoObject THEN Nothing ELSE Now[o]]]
<1>1. n \in Names /\ tables \in [Names -> Objects \cup {NoObject}]
    BY MineAreNames DEF ServerType
<1>2. ASSUME NEW t \in Sessions \ {s} PROVE View(t, Now)' = View(t, Now)
    <2>1. tables[n] # NoObject => tables[n].by # t
        <3>1. n \notin Mine(t)
            BY DEF NoKindInCommon, Mine
        <3>2. QED
            BY <1>1, <3>1 DEF OwnTables
    <2>2. o # NoObject => o.by # t
        OBVIOUS
    <2>3. ASSUME NEW r \in Names
          PROVE  (tables'[r] # NoObject /\ tables'[r].by = t)
                    <=> (tables[r] # NoObject /\ tables[r].by = t)
        BY <1>1, <2>1, <2>2
    <2>4. ASSUME NEW r \in Names, tables[r] # NoObject, tables[r].by = t
          PROVE  tables'[r] = tables[r]
        BY <1>1, <2>1, <2>4
    <2>5. QED
        BY <2>3, <2>4 DEF View
<1>3. View(s, Now)' = [View(s, Now) EXCEPT ![n] = IF o = NoObject THEN Nothing ELSE Now[o]]
    <2>1. o # NoObject => o.by = s
        OBVIOUS
    <2>2. QED
        BY <1>1, <2>1 DEF View
<1>4. QED
    BY <1>2, <1>3 DEF Store

LEMMA StoreWritten ==
    ASSUME NoKindInCommon, ServerType, OwnTables, OwnNames, NEW s \in Sessions,
           NEW n \in Mine(s), NEW v \in Values, tables[n] # NoObject, Now \in Contents,
           Now' = [Now EXCEPT ![tables[n]] = v], tables' = tables
    PROVE  Store' = [Store EXCEPT ![s] = [Store[s] EXCEPT ![n] = v]]
<1>1. View(s, Now)' = [View(s, Now) EXCEPT ![n] = v]
    <2>1. PICK y \in Contents : y = Now
        OBVIOUS
    <2>a. View(s, [y EXCEPT ![tables[n]] = v]) = [View(s, y) EXCEPT ![n] = v]
        BY ViewOfWrite
    <2>2. View(s, Now)' = View(s, [y EXCEPT ![tables[n]] = v])
        BY <2>1 DEF View
    <2>3. QED
        BY <2>1, <2>2, <2>a
<1>2. ASSUME NEW t \in Sessions \ {s} PROVE View(t, Now)' = View(t, Now)
    <2>1. tables[n].by = s /\ tables[n] \in Objects
        BY FoundFacts
    <2>2. \A r \in Names : tables[r] # NoObject => tables[r] \in Objects
        BY DEF ServerType
    <2>3. \A o \in Objects : o # tables[n] => Now'[o] = Now[o]
        BY DEF Contents
    <2>4. QED
        BY <2>1, <2>2, <2>3 DEF View
<1>3. QED
    BY <1>1, <1>2 DEF Store

LEMMA StoreSubmitted ==
    ASSUME NoKindInCommon, ServerType, OwnTables, OwnNames, NEW s \in Sessions,
           NEW recs \in Seq(Seq(Commands(Mine(s)))),
           NEW bs \in Seq(Seq(ObjectCommands)), Len(bs) = Len(recs),
           Replayed(bs, recs), Now \in Contents,
           Now' = RunAll(Now, bs), tables' = tables
    PROVE  Store' = [Store EXCEPT ![s] = RunAll(Store[s], recs)]
<1>1. View(s, Now)' = RunAll(View(s, Now), recs)
    <2>1. View(s, RunAll(Now, bs)) = RunAll(View(s, Now), recs)
        BY ViewOfSubmission
    <2>2. View(s, Now)' = View(s, RunAll(Now, bs))
        BY DEF View
    <2>3. QED
        BY <2>1, <2>2
<1>2. ASSUME NEW t \in Sessions \ {s} PROVE View(t, Now)' = View(t, Now)
    <2>1. bs \in Seq(Seq(On(Own(s)))) /\ Own(s) \in SUBSET Objects
        BY SubmissionOnOwn, MineAreNames DEF Own, ServerType
    <2>2. RunAll(Now, bs) \in Same(Now, Own(s))
        BY <2>1, OthersAreKept
    <2>3. View(t, RunAll(Now, bs)) = View(t, Now)
        BY <2>2, ViewOfOthers
    <2>4. View(t, Now)' = View(t, RunAll(Now, bs))
        BY DEF View
    <2>5. QED
        BY <2>3, <2>4
<1>3. QED
    BY <1>1, <1>2 DEF Store
-----------------------------------------------------------------------------
(* The outcomes of a frame.                                                *)

LEMMA SucceedCreate ==
    ASSUME NEW s \in Sessions, frame[s].op \in {"create", "derive"},
           frame[s].flaw = "none", \A r \in frame[s].refs : Store[s][r] # Nothing,
           Comes(s, [Store[s] EXCEPT ![frame[s].name] = 0], Ok)
    PROVE  Promise!Succeed(s, frame[s])
<1>1. Promise!Outcome(s, [Store[s] EXCEPT ![frame[s].name] = 0], Ok)
    BY DEF Comes, Promise!Outcome, Store, Done, View, Now, Nothing, Ok, Pending,
       Promise!Ok, Promise!Pending
<1>2. Promise!Known(s, frame[s].refs)
    BY KnownIs
<1>3. QED
    BY <1>1, <1>2
    DEF Promise!Succeed, Promise!Named, Store, View, Now, Nothing, Promise!Ok, Ok

LEMMA SucceedWrite ==
    ASSUME NEW s \in Sessions, frame[s].op = "write",
           frame[s].flaw = "none", Store[s][frame[s].name] # Nothing,
           Comes(s, [Store[s] EXCEPT ![frame[s].name] = frame[s].value], Ok)
    PROVE  Promise!Succeed(s, frame[s])
<1>1. Promise!Outcome(s, [Store[s] EXCEPT ![frame[s].name] = frame[s].value], Ok)
    BY DEF Comes, Promise!Outcome, Store, Done, View, Now, Nothing, Ok, Pending,
       Promise!Ok, Promise!Pending
<1>2. Promise!Known(s, {frame[s].name})
    BY KnownIs
<1>3. QED
    BY <1>1, <1>2
    DEF Promise!Succeed, Promise!Named, Store, View, Now, Nothing, Promise!Ok, Ok

LEMMA SucceedRead ==
    ASSUME NEW s \in Sessions, frame[s].op = "read",
           frame[s].flaw = "none", Store[s][frame[s].name] # Nothing,
           Comes(s, Store[s], Data(Store[s][frame[s].name]))
    PROVE  Promise!Succeed(s, frame[s])
<1>1. Promise!Outcome(s, Store[s], Data(Store[s][frame[s].name]))
    BY DEF Comes, Promise!Outcome, Store, Done, View, Now, Nothing, Ok, Pending,
       Promise!Ok, Promise!Pending
<1>2. Promise!Known(s, {frame[s].name})
    BY KnownIs
<1>3. QED
    BY <1>1, <1>2
    DEF Promise!Succeed, Promise!Named, Store, View, Now, Nothing, Promise!Data, Data

LEMMA SucceedDestroy ==
    ASSUME NEW s \in Sessions, frame[s].op = "destroy",
           Comes(s, IF frame[s].name.kind = "buffer"
                    THEN [Store[s] EXCEPT ![frame[s].name] = Nothing]
                    ELSE Store[s], Ok)
    PROVE  Promise!Succeed(s, frame[s])
<1>1. Promise!Outcome(s, IF frame[s].name.kind = "buffer"
                         THEN [Store[s] EXCEPT ![frame[s].name] = Nothing]
                         ELSE Store[s], Ok)
    BY DEF Comes, Promise!Outcome, Store, Done, View, Now, Nothing, Ok, Pending,
       Promise!Ok, Promise!Pending
<1>2. QED
    BY <1>1
    DEF Promise!Succeed, Promise!Absent, Store, View, Now, Nothing, Promise!Ok, Ok

LEMMA SucceedAck ==
    ASSUME NEW s \in Sessions, frame[s].op = "ack", Comes(s, Store[s], Ok)
    PROVE  Promise!Succeed(s, frame[s])
<1>1. Promise!Outcome(s, Store[s], Ok)
    BY DEF Comes, Promise!Outcome, Store, Done, View, Now, Nothing, Ok, Pending,
       Promise!Ok, Promise!Pending
<1>2. QED
    BY <1>1 DEF Promise!Succeed, Store, View, Now, Nothing, Promise!Ok, Ok

LEMMA UsesIs == \A rec : UsedBy(rec) = UNION {Promise!Uses(rec[j]) : j \in DOMAIN rec}
BY DEF UsedBy, Uses, Promise!Uses

LEMMA RunAllIs == \A c, recs : Promise!RunAll(c, recs) = RunAll(c, recs)
BY DEF Promise!RunAll, RunAll, Promise!Run, Run, Promise!Apply, Apply

LEMMA SucceedSubmit ==
    ASSUME NEW s \in Sessions, frame[s].op = "submit", frame[s].flaw = "none",
           \A i \in DOMAIN frame[s].recs :
              \A r \in UsedBy(frame[s].recs[i]) : Store[s][r] # Nothing,
           Comes(s, RunAll(Store[s], frame[s].recs), Ok)
    PROVE  Promise!Succeed(s, frame[s])
<1>1. Promise!Outcome(s, Promise!RunAll(Store[s], frame[s].recs), Ok)
    BY RunAllIs DEF Comes, Promise!Outcome, Store, Done, View, Now, Nothing, Ok, Pending,
       Promise!Ok, Promise!Pending
<1>2. Promise!Named(frame[s]) = UNION {UsedBy(frame[s].recs[i]) : i \in DOMAIN frame[s].recs}
    BY UsesIs DEF Promise!Named
<1>3. Promise!Known(s, Promise!Named(frame[s]))
    BY <1>2, KnownIs
<1>4. QED
    BY <1>1, <1>3
    DEF Promise!Succeed, Store, View, Now, Nothing, Promise!Ok, Ok

LEMMA FailUnknown ==
    ASSUME NEW s \in Sessions, NEW r, Store[s][r] = Nothing, Comes(s, Store[s], Unknown),
           \/ frame[s].op \in {"create", "derive"} /\ r \in frame[s].refs
           \/ frame[s].op \in {"write", "read"} /\ r = frame[s].name
           \/ frame[s].op = "submit" /\ \E i \in DOMAIN frame[s].recs :
                                           r \in UsedBy(frame[s].recs[i])
    PROVE  Promise!Fail(s, frame[s])
<1>1. Promise!Outcome(s, Store[s], Unknown)
    BY DEF Comes, Promise!Outcome, Store, Done, View, Now, Nothing, Ok, Pending,
       Promise!Ok, Promise!Pending
<1>2. r \in Promise!Named(frame[s])
    BY UsesIs DEF Promise!Named
<1>3. ~Promise!Known(s, Promise!Named(frame[s]))
    BY <1>2, UnknownIs
<1>4. QED
    BY <1>1, <1>3 DEF Promise!Fail, Store, View, Now, Nothing, Promise!Unknown, Unknown

LEMMA FailOther ==
    ASSUME NEW s \in Sessions,
           \/ /\ frame[s].op \in {"create", "submit"} /\ frame[s].flaw = "unsupported"
              /\ Comes(s, Store[s], Invalid)
           \/ frame[s].op = "read" /\ Comes(s, Store[s], Internal)
    PROVE  Promise!Fail(s, frame[s])
<1>1. \A a : Comes(s, Store[s], a) => Promise!Outcome(s, Store[s], a)
    BY DEF Comes, Promise!Outcome, Store, Done, View, Now, Nothing, Ok, Pending,
       Promise!Ok, Promise!Pending
<1>2. QED
    BY <1>1 DEF Promise!Fail, Store, View, Now, Nothing, Promise!Invalid, Invalid,
       Promise!Internal, Internal
-----------------------------------------------------------------------------
(* Every step of a handler is a step of Alone, or none of it.              *)

Base == TypeInv /\ ContentsInv /\ AloneInv
Step == Promise!Next \/ UNCHANGED Promise!aloneVars

LEMMA BaseFacts ==
    ASSUME Base
    PROVE  /\ FacadeInv /\ ServerType /\ Busy /\ OwnTables /\ OwnNames
           /\ Now \in Contents /\ pc \in [Sessions -> Labels]
           /\ \A s \in Sessions : Looked(s)
           /\ \A s \in Sessions : [Store EXCEPT ![s] = Store[s]] = Store
BY NowIsContents DEF Base, TypeInv, AloneInv, OwnInv, LookedInv, ServerType, Store

LEMMA FoundIsKnown ==
    ASSUME NoKindInCommon, Base, NEW s \in Sessions, NEW n \in Mine(s)
    PROVE  /\ tables[n] # NoObject => /\ Store[s][n] = Now[tables[n]]
                                      /\ Store[s][n] # Nothing
                                      /\ Store[s][n] \in Values
           /\ tables[n] = NoObject => Store[s][n] = Nothing
<1>1. Store[s] = View(s, Now) /\ n \in Names
    BY MineAreNames DEF Store
<1>2. CASE tables[n] # NoObject
    <2>1. PICK y \in Contents : y = Now
        BY BaseFacts
    <2>2. View(s, y)[n] = y[tables[n]] /\ y[tables[n]] \in Values
        BY <1>2, BaseFacts, ViewOfRead
    <2>3. QED
        BY <1>1, <1>2, <2>1, <2>2, ZeroIsValue
<1>3. CASE tables[n] = NoObject
    BY <1>1, <1>3 DEF View
<1>4. QED
    BY <1>2, <1>3

LEMMA WorksIs ==
    ASSUME NEW s \in Sessions, frame[s] # NoFrame,
           pc[s] \notin {"staged", "answered", "dead"},
           UNCHANGED <<facadeVars, poisoned>>, Dead' = Dead
    PROVE  Works(s)
BY DEF Works, Done, Dead

(* The frame is answered in one step.                                      *)
LEMMA AnswerWorks ==
    ASSUME Base, NEW s \in Sessions, NEW a, Answer(s, a), frame[s] # NoFrame,
           pc[s] \notin {"staged", "answered", "dead"},
           UNCHANGED <<facadeVars, poisoned>>
    PROVE  Works(s) /\ Done' = [Done EXCEPT ![s] = a]
BY BaseFacts, AnswerDone, WorksIs

LEMMA AnswerComes ==
    ASSUME Base, NEW s \in Sessions, NEW a, Answer(s, a), frame[s] # NoFrame,
           pc[s] \notin {"staged", "answered", "dead"},
           UNCHANGED <<facadeVars, poisoned, tables>>, Now' = Now
    PROVE  Works(s) /\ Comes(s, Store[s], a)
BY BaseFacts, AnswerWorks, StoreSame DEF Comes

LEMMA PanicDies ==
    ASSUME Base, NEW s \in Sessions, Panic(s), frame[s] # NoFrame,
           pc[s] \notin {"staged", "answered", "dead"},
           UNCHANGED <<facadeVars, tables>>, Now' = Now,
           \/ /\ "flaw" \in DOMAIN frame[s] /\ frame[s].flaw = "invalid"
              /\ poisoned' \in {poisoned, TRUE}
           \/ poisoned /\ UNCHANGED poisoned
    PROVE  Promise!Next
<1>1. Done' = Done /\ Dead' = Dead \cup {s}
    BY BaseFacts, PanicDone
<1>2. Store' = Store /\ s \notin Dead
    BY StoreSame DEF Dead
<1>3. Dies(s)
    BY <1>1, <1>2 DEF Dies
<1>4. QED
    BY <1>3, CrashIs

(* A step on the way, which Alone does not see.                            *)
LEMMA GotoStutters ==
    ASSUME Base, NEW s \in Sessions, NEW label, Goto(s, label),
           pc[s] \notin {"staged", "answered", "dead"},
           label \notin {"staged", "answered", "dead"},
           UNCHANGED <<facadeVars, tables, poisoned, answer>>, Now' = Now
    PROVE  UNCHANGED Promise!aloneVars
<1>1. Done' = Done /\ Dead' = Dead /\ Store' = Store
    BY BaseFacts, GotoDone, StoreSame
<1>2. QED
    BY <1>1, StutterIs

LEMMA StepAck ==
    ASSUME Base, NEW s \in Sessions, AckFrame(s)
    PROVE  Step
<1>1. Answer(s, Ok) /\ pc[s] = "idle" /\ UNCHANGED <<facadeVars, poisoned, tables>>
      /\ Now' = Now
    BY DEF AckFrame, tableVars, deviceVars, Now
<1>2. frame[s] # NoFrame
    BY BaseFacts, FrameShapes DEF AckFrame
<1>3. Works(s) /\ Comes(s, Store[s], Ok)
    BY <1>1, <1>2, AnswerComes
<1>4. CASE frame[s].op = "ack"
    BY <1>3, <1>4, SucceedAck, ExecuteIs DEF Step
<1>5. CASE frame[s].op = "destroy" /\ frame[s].name.kind # "buffer"
    <2>1. Promise!Succeed(s, frame[s])
        BY <1>3, <1>5, SucceedDestroy
    <2>2. QED
        BY <1>3, <2>1, ExecuteIs DEF Step
<1>6. QED
    BY <1>4, <1>5 DEF AckFrame

LEMMA StepRemove ==
    ASSUME NoKindInCommon, Base, NEW s \in Sessions, Remove(s)
    PROVE  Step
<1>1. /\ Answer(s, Ok) /\ pc[s] = "idle" /\ frame[s].op = "destroy"
      /\ frame[s].name.kind = "buffer" /\ UNCHANGED <<facadeVars, poisoned>>
      /\ tables' = [tables EXCEPT ![frame[s].name] = NoObject] /\ Now' = Now
    BY DEF Remove, At, deviceVars, Now
<1>2. frame[s] # NoFrame /\ frame[s].name \in Mine(s)
    BY <1>1, BaseFacts, FrameShapes
<1>3. Works(s) /\ Done' = [Done EXCEPT ![s] = Ok]
    BY <1>1, <1>2, AnswerWorks
<1>4. PICK n \in Mine(s) : n = frame[s].name
    BY <1>2
<1>5. Store' = [Store EXCEPT ![s] = [Store[s] EXCEPT ![n] = Nothing]]
    <2>1. PICK o \in Objects \cup {NoObject} : o = NoObject
        OBVIOUS
    <2>2. Store' = [Store EXCEPT ![s] =
                      [Store[s] EXCEPT ![n] = IF o = NoObject THEN Nothing ELSE Now[o]]]
        BY <1>1, <1>4, <2>1, BaseFacts, StorePlaced
    <2>3. QED
        BY <2>1, <2>2
<1>6. Comes(s, IF frame[s].name.kind = "buffer"
               THEN [Store[s] EXCEPT ![frame[s].name] = Nothing] ELSE Store[s], Ok)
    BY <1>1, <1>3, <1>4, <1>5 DEF Comes
<1>7. Promise!Succeed(s, frame[s])
    BY <1>1, <1>6, SucceedDestroy
<1>8. QED
    BY <1>3, <1>7, ExecuteIs DEF Step

LEMMA StepBuild ==
    ASSUME Base, NEW s \in Sessions, Build(s)
    PROVE  Step
<1>1. /\ pc[s] = "idle" /\ frame[s].op = "create" /\ frame[s] \in Creation(s)
      /\ frame[s] # NoFrame /\ UNCHANGED <<facadeVars, poisoned, tables>> /\ Now' = Now
    BY BaseFacts, FrameShapes DEF Build, At, tableVars, deviceVars, Now
<1>2. CASE frame[s].flaw = "none"
    BY <1>1, <1>2, GotoStutters DEF Build, Step
<1>3. CASE frame[s].flaw = "unsupported"
    <2>1. Works(s) /\ Comes(s, Store[s], Invalid)
        BY <1>1, <1>3, AnswerComes DEF Build
    <2>2. QED
        BY <1>1, <1>3, <2>1, FailOther, ExecuteIs DEF Step
<1>4. CASE frame[s].flaw = "invalid"
    <2>1. "flaw" \in DOMAIN frame[s]
        BY <1>1 DEF Creation
    <2>2. poisoned' \in {poisoned, TRUE} /\ Panic(s)
        BY <1>1, <1>4 DEF Build
    <2>3. QED
        BY <1>1, <1>4, <2>1, <2>2, PanicDies DEF Step
<1>5. QED
    BY <1>1, <1>2, <1>3, <1>4 DEF Creation, Flawed

LEMMA StepResolve ==
    ASSUME NoKindInCommon, Base, NEW s \in Sessions, Resolve(s)
    PROVE  Step
<1>1. /\ pc[s] = "idle" /\ frame[s].op = "create" /\ frame[s] \in Creation(s)
      /\ frame[s] # NoFrame /\ UNCHANGED <<facadeVars, poisoned, tables>> /\ Now' = Now
      /\ frame[s].refs \in SUBSET Mine(s)
    BY BaseFacts, FrameShapes DEF Resolve, At, deviceVars, Now, Creation
<1>2. ASSUME Answer(s, Unknown), ~Found(frame[s].refs) PROVE Step
    <2>1. Works(s) /\ Comes(s, Store[s], Unknown)
        BY <1>1, <1>2, AnswerComes
    <2>2. PICK r \in frame[s].refs : Store[s][r] = Nothing
        BY <1>1, <1>2, FoundIsKnown DEF Found
    <2>3. Promise!Fail(s, frame[s])
        BY <1>1, <2>1, <2>2, FailUnknown
    <2>4. QED
        BY <2>1, <2>3, ExecuteIs DEF Step
<1>3. ASSUME Answer(s, Invalid), frame[s].flaw = "unsupported" PROVE Step
    <2>1. Works(s) /\ Comes(s, Store[s], Invalid)
        BY <1>1, <1>3, AnswerComes
    <2>2. QED
        BY <1>1, <1>3, <2>1, FailOther, ExecuteIs DEF Step
<1>4. ASSUME Goto(s, "resolved"), UNCHANGED answer PROVE Step
    BY <1>1, <1>4, GotoStutters DEF Step
<1>5. QED
    BY <1>2, <1>3, <1>4 DEF Resolve, Refusals

LEMMA StepBuildLocked ==
    ASSUME Base, NEW s \in Sessions, BuildLocked(s)
    PROVE  Step
<1>1. /\ pc[s] = "resolved" /\ frame[s] \in Creation(s)
      /\ frame[s] # NoFrame /\ UNCHANGED <<facadeVars, tables>> /\ Now' = Now
    BY BaseFacts, FrameShapes DEF BuildLocked, Busy, deviceVars, Now
<1>2. CASE frame[s].flaw = "invalid"
    <2>1. "flaw" \in DOMAIN frame[s]
        BY <1>1 DEF Creation
    <2>2. poisoned' \in {poisoned, TRUE} /\ Panic(s)
        BY <1>2 DEF BuildLocked
    <2>3. QED
        BY <1>1, <1>2, <2>1, <2>2, PanicDies DEF Step
<1>3. CASE frame[s].flaw # "invalid"
    BY <1>1, <1>3, GotoStutters DEF BuildLocked, Step
<1>4. QED
    BY <1>2, <1>3

(* What a creation puts under its name is an object no one wrote before.    *)
LEMMA StoreMade ==
    ASSUME NoKindInCommon, Base, NEW s \in Sessions, Making(s),
           frame[s].name \in Mine(s), Now' = Now,
           tables' = [tables EXCEPT ![frame[s].name] = [by |-> s, name |-> frame[s].name]]
    PROVE  Store' = [Store EXCEPT ![s] = [Store[s] EXCEPT ![frame[s].name] = 0]]
<1>1. PICK n \in Mine(s) : n = frame[s].name
    OBVIOUS
<1>2. PICK o \in Objects \cup {NoObject} : o = [by |-> s, name |-> n]
    BY MineAreNames DEF Objects
<1>3. o \in Objects /\ o # NoObject /\ o.by = s /\ o.name = n
    BY <1>2, MineAreNames DEF Objects, NoObject
<1>4. Now[o] = 0
    <2>1. ~Made(o)
        BY <1>1, <1>3 DEF Made
    <2>2. QED
        BY <1>3, <2>1 DEF Base, AloneInv, MadeInv, NewIsZero
<1>5. Store' = [Store EXCEPT ![s] =
                  [Store[s] EXCEPT ![n] = IF o = NoObject THEN Nothing ELSE Now[o]]]
    <2>1. ServerType /\ OwnTables /\ Now' = Now
        BY BaseFacts
    <2>2. o = NoObject \/ o = [by |-> s, name |-> n]
        BY <1>2
    <2>3. tables' = [tables EXCEPT ![n] = o]
        BY <1>1, <1>2
    <2>4. QED
        BY ONLY NoKindInCommon, <2>1, <2>2, <2>3, StorePlaced, ZenonT(30)
<1>6. QED
    BY <1>1, <1>3, <1>4, <1>5

LEMMA StepInsert ==
    ASSUME NoKindInCommon, Base, NEW s \in Sessions, Insert(s)
    PROVE  Step
<1>1. /\ pc[s] = "built" /\ frame[s].op = "create" /\ frame[s] \in Creation(s)
      /\ frame[s] # NoFrame /\ Answer(s, Ok) /\ UNCHANGED <<facadeVars, poisoned>>
      /\ tables' = [tables EXCEPT ![frame[s].name] = [by |-> s, name |-> frame[s].name]]
      /\ Now' = Now
    BY BaseFacts, FrameShapes DEF Insert, Busy, deviceVars, Now
<1>2. Store' = [Store EXCEPT ![s] = [Store[s] EXCEPT ![frame[s].name] = 0]]
    <2>1. frame[s].name \in Mine(s) /\ Making(s)
        BY <1>1 DEF Creation, Making
    <2>2. QED
        BY <1>1, <2>1, StoreMade
<1>3. Works(s) /\ Done' = [Done EXCEPT ![s] = Ok]
    BY <1>1, AnswerWorks
<1>4. Comes(s, [Store[s] EXCEPT ![frame[s].name] = 0], Ok)
    BY <1>2, <1>3 DEF Comes
<1>5. frame[s].flaw = "none" /\ \A r \in frame[s].refs : Store[s][r] # Nothing
    <2>1. /\ Found(frame[s].refs) /\ frame[s].refs \in SUBSET Mine(s)
          /\ frame[s].flaw = "none"
        BY <1>1, BaseFacts DEF Looked, Creation
    <2>2. QED
        BY <2>1, FoundIsKnown DEF Found
<1>6. Promise!Succeed(s, frame[s])
    BY <1>1, <1>4, <1>5, SucceedCreate
<1>7. QED
    BY <1>3, <1>6, ExecuteIs DEF Step

LEMMA StepDeriveLayout ==
    ASSUME NoKindInCommon, Base, NEW s \in Sessions, DeriveLayout(s)
    PROVE  Step
<1>1. /\ pc[s] = "idle" /\ frame[s].op = "derive" /\ frame[s] \in Derivation(s)
      /\ frame[s] # NoFrame /\ UNCHANGED facadeVars /\ Now' = Now
      /\ frame[s].refs \in SUBSET Mine(s)
    BY BaseFacts, FrameShapes DEF DeriveLayout, At, deviceVars, Now, Derivation
<1>2. CASE ~Found(frame[s].refs)
    <2>1. Answer(s, Unknown) /\ UNCHANGED <<tables, poisoned>>
        BY <1>2 DEF DeriveLayout
    <2>2. Works(s) /\ Comes(s, Store[s], Unknown)
        BY <1>1, <2>1, AnswerComes
    <2>3. PICK r \in frame[s].refs : Store[s][r] = Nothing
        BY <1>1, <1>2, FoundIsKnown DEF Found
    <2>4. Promise!Fail(s, frame[s])
        BY <1>1, <2>2, <2>3, FailUnknown
    <2>5. QED
        BY <2>2, <2>4, ExecuteIs DEF Step
<1>3. CASE Found(frame[s].refs) /\ frame[s].flaw = "invalid"
    <2>1. Panic(s) /\ UNCHANGED tables /\ poisoned' \in {poisoned, TRUE}
        BY <1>3 DEF DeriveLayout
    <2>2. "flaw" \in DOMAIN frame[s]
        BY <1>1 DEF Derivation
    <2>3. QED
        BY <1>1, <1>3, <2>1, <2>2, PanicDies DEF Step
<1>4. CASE Found(frame[s].refs) /\ frame[s].flaw = "none"
    <2>1. /\ Goto(s, "answered") /\ answer' = [answer EXCEPT ![s] = Ok]
          /\ UNCHANGED poisoned
          /\ tables' = [tables EXCEPT ![frame[s].name] =
                           [by |-> s, name |-> frame[s].name]]
        BY <1>4 DEF DeriveLayout
    <2>2. Done' = [Done EXCEPT ![s] = Ok] /\ Dead' = Dead
        BY <1>1, <2>1, BaseFacts DEF Goto, ServerType, Done, Dead
    <2>3. Works(s)
        BY <1>1, <2>1, <2>2, WorksIs
    <2>4. Store' = [Store EXCEPT ![s] = [Store[s] EXCEPT ![frame[s].name] = 0]]
        <3>1. frame[s].name \in Mine(s) /\ Making(s)
            BY <1>1 DEF Derivation, Making
        <3>2. QED
            BY <1>1, <2>1, <3>1, StoreMade
    <2>5. Comes(s, [Store[s] EXCEPT ![frame[s].name] = 0], Ok)
        BY <2>2, <2>4 DEF Comes
    <2>6. \A r \in frame[s].refs : Store[s][r] # Nothing
        BY <1>1, <1>4, FoundIsKnown DEF Found
    <2>7. Promise!Succeed(s, frame[s])
        BY <1>1, <1>4, <2>5, <2>6, SucceedCreate
    <2>8. QED
        BY <2>3, <2>7, ExecuteIs DEF Step
<1>5. QED
    BY <1>1, <1>2, <1>3, <1>4 DEF Derivation, NoneOrBad

LEMMA StepStage ==
    ASSUME NoKindInCommon, Base, NEW s \in Sessions, Stage(s)
    PROVE  Step
<1>1. /\ pc[s] = "idle" /\ frame[s].op = "write" /\ frame[s] \in Writing(s)
      /\ frame[s] # NoFrame /\ frame[s].name \in Mine(s)
      /\ UNCHANGED <<facadeVars, tables, contents>>
    BY BaseFacts, FrameShapes DEF Stage, At, Writing
<1>2. CASE ~Found({frame[s].name})
    <2>1. Answer(s, Unknown) /\ UNCHANGED <<poisoned, staged>>
        BY <1>2 DEF Stage
    <2>2. Now' = Now
        BY <1>1, <2>1 DEF Now
    <2>3. Works(s) /\ Comes(s, Store[s], Unknown)
        BY <1>1, <2>1, <2>2, AnswerComes
    <2>4. Store[s][frame[s].name] = Nothing
        BY <1>1, <1>2, FoundIsKnown DEF Found
    <2>5. Promise!Fail(s, frame[s])
        BY <1>1, <2>3, <2>4, FailUnknown
    <2>6. QED
        BY <2>3, <2>5, ExecuteIs DEF Step
<1>3. CASE Found({frame[s].name}) /\ frame[s].flaw = "invalid"
    <2>1. Panic(s) /\ UNCHANGED staged /\ poisoned' \in {poisoned, TRUE}
        BY <1>3 DEF Stage
    <2>2. Now' = Now /\ "flaw" \in DOMAIN frame[s]
        BY <1>1, <2>1 DEF Now, Writing
    <2>3. QED
        BY <1>1, <1>3, <2>1, <2>2, PanicDies DEF Step
<1>4. CASE Found({frame[s].name}) /\ frame[s].flaw = "none"
    <2>1. Goto(s, "staged") /\ UNCHANGED <<poisoned, answer>> /\ pc'[s] = "staged"
        BY <1>4, BaseFacts DEF Stage, Goto
    <2>2. Now' = [Now EXCEPT ![tables[frame[s].name]] = frame[s].value]
          /\ tables[frame[s].name] # NoObject
        BY <2>1, Staging DEF Base
    <2>3. Done' = [Done EXCEPT ![s] = Ok] /\ Dead' = Dead
        BY <1>1, <2>1, BaseFacts, StagedDone
    <2>4. Works(s)
        BY <1>1, <2>1, <2>3, WorksIs
    <2>5. PICK n \in Mine(s), v \in Values : n = frame[s].name /\ v = frame[s].value
        BY <1>1 DEF Writing
    <2>6. Store' = [Store EXCEPT ![s] = [Store[s] EXCEPT ![n] = v]]
        <3>1. ServerType /\ OwnTables /\ OwnNames /\ Now \in Contents
            BY BaseFacts
        <3>2. /\ tables[n] # NoObject /\ tables' = tables
              /\ Now' = [Now EXCEPT ![tables[n]] = v]
            BY <1>1, <2>2, <2>5
        <3>3. QED
            BY ONLY NoKindInCommon, <3>1, <3>2, StoreWritten
    <2>7. Comes(s, [Store[s] EXCEPT ![frame[s].name] = frame[s].value], Ok)
        BY <2>3, <2>5, <2>6 DEF Comes
    <2>8. Store[s][frame[s].name] # Nothing
        BY <1>1, <2>2, FoundIsKnown
    <2>9. Promise!Succeed(s, frame[s])
        BY <1>1, <1>4, <2>7, <2>8, SucceedWrite
    <2>10. QED
        BY <2>4, <2>9, ExecuteIs DEF Step
<1>5. QED
    BY <1>1, <1>2, <1>3, <1>4 DEF Writing, NoneOrBad

LEMMA StepFlush ==
    ASSUME Base, NEW s \in Sessions, Flush(s)
    PROVE  Step
<1>1. /\ pc[s] = "staged" /\ Answer(s, Ok)
      /\ UNCHANGED <<facadeVars, tables, poisoned>>
    BY DEF Flush
<1>2. Now' = Now
    BY NowSteps DEF Handler, Flush, Stage, SubmitAll, At
<1>3. Done' = [Done EXCEPT ![s] = Ok] /\ Dead' = Dead
    BY <1>1, BaseFacts, AnswerDone
<1>4. Done' = Done
    <2>1. Done[s] = Ok
        BY <1>1 DEF Done
    <2>2. [Done EXCEPT ![s] = Ok] = Done
        BY <2>1 DEF Done
    <2>3. QED
        BY <1>3, <2>2
<1>5. QED
    BY <1>1, <1>2, <1>3, <1>4, StoreSame, StutterIs DEF Step

LEMMA StepSnapshot ==
    ASSUME NoKindInCommon, Base, NEW s \in Sessions, Snapshot(s)
    PROVE  Step
<1>1. /\ pc[s] = "idle" /\ frame[s].op = "read" /\ frame[s] # NoFrame
      /\ frame[s].name \in Mine(s)
      /\ UNCHANGED <<facadeVars, tables, poisoned>> /\ Now' = Now
    BY BaseFacts, FrameShapes DEF Snapshot, At, Reading, tableVars, deviceVars, Now
<1>2. CASE Found({frame[s].name})
    BY <1>1, <1>2, GotoStutters DEF Snapshot, Step
<1>3. CASE ~Found({frame[s].name})
    <2>1. Works(s) /\ Comes(s, Store[s], Unknown)
        BY <1>1, <1>3, AnswerComes DEF Snapshot
    <2>2. Store[s][frame[s].name] = Nothing
        BY <1>1, <1>3, FoundIsKnown DEF Found
    <2>3. Promise!Fail(s, frame[s])
        BY <1>1, <2>1, <2>2, FailUnknown
    <2>4. QED
        BY <2>1, <2>3, ExecuteIs DEF Step
<1>4. QED
    BY <1>2, <1>3

(* A read comes after every write held back for the object it reads.       *)
LEMMA NothingHeldBack ==
    ASSUME NoKindInCommon, Base, NEW s \in Sessions, pc[s] # "staged",
           NEW o \in Objects, o.by = s
    PROVE  Now[o] = contents[o]
<1>1. contents \in Contents /\ staged \in Seq(ObjectWrites) /\ StagedInv
    BY DEF Base, AloneInv, ContentsInv, TypeInv, ServerType
<1>2. PICK c \in Contents : c = contents
    BY <1>1
<1>3. PICK D : D = {w \in ObjectWrites : w.to # o}
    OBVIOUS
<1>4. PICK S : S = {x \in Contents : x[o] = c[o]}
    OBVIOUS
<1>5. Keeps(D, S)
    <2>1. SUFFICES ASSUME NEW x \in S, NEW d \in D PROVE Apply(x, d) \in S
        BY DEF Keeps
    <2>2. d \in ObjectWrites /\ d.to # o /\ x \in Contents /\ x[o] = c[o]
        BY <1>3, <1>4
    <2>3. Apply(x, d) = [x EXCEPT ![d.to] = d.value] /\ d.to \in Objects
          /\ d.value \in Values
        BY <2>2 DEF Apply, ObjectWrites
    <2>4. QED
        BY <1>4, <2>2, <2>3 DEF Contents
<1>6. staged \in Seq(D)
    <2>1. ASSUME NEW k \in 1..Len(staged) PROVE staged[k] \in D
        <3>1. staged[k] \in ObjectWrites /\ staged[k].to # o
            BY <1>1 DEF StagedInv
        <3>2. QED
            BY <1>3, <3>1
    <2>2. Len(staged) \in Nat /\ staged \in [1..Len(staged) -> D]
        BY <1>1, <2>1
    <2>3. QED
        BY ONLY <2>2, BuiltFacts
<1>7. Run(c, staged) \in S
    BY <1>4, <1>5, <1>6, RunKeeps
<1>8. QED
    BY <1>2, <1>4, <1>7 DEF Now

LEMMA StepCopyOut ==
    ASSUME NoKindInCommon, Base, NEW s \in Sessions, CopyOut(s)
    PROVE  Step
<1>1. /\ pc[s] = "mapping" /\ frame[s].op = "read" /\ frame[s] \in Reading(s)
      /\ frame[s] # NoFrame /\ Found({frame[s].name})
      /\ hand[s] = {tables[frame[s].name]}
      /\ UNCHANGED <<facadeVars, tables, poisoned>> /\ Now' = Now
    BY BaseFacts, FrameShapes DEF CopyOut, Looked, tableVars, deviceVars, Now
<1>2. CASE frame[s].flaw = "invalid"
    <2>1. "flaw" \in DOMAIN frame[s]
        BY <1>1 DEF Reading
    <2>2. QED
        BY <1>1, <1>2, <2>1, PanicDies DEF CopyOut, Step
<1>3. CASE frame[s].flaw = "none"
    <2>1. frame[s].name \in Mine(s) /\ tables[frame[s].name] # NoObject
        BY <1>1 DEF Reading, Found
    <2>2. PICK o \in Objects : o = tables[frame[s].name] /\ o.by = s
        BY <2>1, BaseFacts, FoundFacts
    <2>3. PICK a \in {Internal, Data(contents[o])} : Answer(s, a)
        BY <1>1, <1>3, <2>2 DEF CopyOut
    <2>4. Works(s) /\ Comes(s, Store[s], a)
        BY <1>1, <2>3, AnswerComes
    <2>5. CASE a = Internal
        BY <1>1, <2>4, <2>5, FailOther, ExecuteIs DEF Step
    <2>6. CASE a = Data(contents[o])
        <3>1. Now[o] = contents[o]
            BY <1>1, <2>2, NothingHeldBack
        <3>2. Store[s][frame[s].name] = contents[o]
              /\ Store[s][frame[s].name] # Nothing
            BY <2>1, <2>2, <3>1, FoundIsKnown
        <3>3. Comes(s, Store[s], Data(Store[s][frame[s].name]))
            BY <2>4, <2>6, <3>2
        <3>4. Promise!Succeed(s, frame[s])
            BY <1>1, <1>3, <3>2, <3>3, SucceedRead
        <3>5. QED
            BY <2>4, <3>4, ExecuteIs DEF Step
    <2>7. QED
        BY <2>3, <2>5, <2>6
<1>4. QED
    BY <1>1, <1>2, <1>3 DEF Reading, NoneOrBad

LEMMA StepReplay ==
    ASSUME NoKindInCommon, Base, NEW s \in Sessions, Replay(s)
    PROVE  Step
<1>1. /\ pc[s] = "idle" /\ frame[s].op = "submit" /\ frame[s] \in Submission(s)
      /\ frame[s] # NoFrame /\ UNCHANGED <<facadeVars, tables>> /\ Now' = Now
    BY BaseFacts, FrameShapes DEF Replay, At, deviceVars, Now
<1>2. PICK recs \in Seq(Seq(Commands(Mine(s)))) : recs = frame[s].recs
    BY <1>1 DEF Submission
<1>3. PICK i \in 1..Len(recs) : i = Len(bufs[s]) + 1
    <2>1. bufs[s] \in Seq(Seq(ObjectCommands)) /\ Len(bufs[s]) < Len(recs)
        BY <1>2, BaseFacts DEF ServerType, Replay
    <2>2. QED
        BY <1>2, <2>1
<1>4. PICK rec \in Seq(Commands(Mine(s))) : rec = recs[i]
    BY <1>2
<1>5. UsedBy(rec) \in SUBSET Mine(s)
    BY UsesOfCommand DEF UsedBy
<1>6. rec = frame[s].recs[Len(bufs[s]) + 1]
    BY <1>2, <1>3, <1>4
<1>7. ASSUME ~Found(UsedBy(rec)), Answer(s, Unknown), UNCHANGED poisoned PROVE Step
    <2>1. Works(s) /\ Comes(s, Store[s], Unknown)
        BY <1>1, <1>7, AnswerComes
    <2>2. PICK r \in UsedBy(rec) : Store[s][r] = Nothing
        BY <1>5, <1>7, FoundIsKnown DEF Found
    <2>3. i \in DOMAIN frame[s].recs /\ r \in UsedBy(frame[s].recs[i])
        BY <1>2, <1>4
    <2>4. Promise!Fail(s, frame[s])
        BY <1>1, <2>1, <2>2, <2>3, FailUnknown
    <2>5. QED
        BY <2>1, <2>4, ExecuteIs DEF Step
<1>8. ASSUME frame[s].flaw = "invalid", Panic(s), poisoned' \in {TRUE, ~Found(UsedBy(rec))}
      PROVE  Step
    <2>1. poisoned = FALSE /\ poisoned' \in BOOLEAN
        BY <1>8, BaseFacts DEF Replay, Lock, Found, ServerType
    <2>2. poisoned' \in {poisoned, TRUE} /\ "flaw" \in DOMAIN frame[s]
        BY <1>1, <2>1 DEF Submission
    <2>3. QED
        BY <1>1, <1>8, <2>2, PanicDies DEF Step
<1>9. ASSUME UNCHANGED <<pc, answer, poisoned>> PROVE Step
    <2>1. Done' = Done /\ Dead' = Dead /\ Store' = Store
        BY <1>1, <1>9, StoreSame DEF Done, Dead
    <2>2. QED
        BY <1>1, <1>9, <2>1, StutterIs DEF Step
<1>10. QED
    BY <1>6, <1>7, <1>8, <1>9 DEF Replay

LEMMA StepSubmitAll ==
    ASSUME NoKindInCommon, Base, NEW s \in Sessions, SubmitAll(s)
    PROVE  Step
<1>1. /\ pc[s] = "idle" /\ frame[s].op = "submit" /\ frame[s] # NoFrame
      /\ UNCHANGED <<facadeVars, tables, poisoned>>
    BY BaseFacts, FrameShapes DEF SubmitAll, At, tableVars
<1>2. /\ frame[s] \in Submission(s) /\ Len(bufs[s]) = Len(frame[s].recs)
      /\ Replayed(bufs[s], frame[s].recs)
    BY Submitting DEF Base
<1>3. CASE UNCHANGED <<contents, staged>> /\ frame[s].flaw = "invalid" /\ Panic(s)
    <2>1. Now' = Now /\ "flaw" \in DOMAIN frame[s]
        BY <1>2, <1>3 DEF Now, Submission
    <2>2. QED
        BY <1>1, <1>3, <2>1, PanicDies DEF Step
<1>4. CASE Now' = RunAll(Now, bufs[s]) /\ frame[s].flaw = "none" /\ Answer(s, Ok)
    <2>1. Works(s) /\ Done' = [Done EXCEPT ![s] = Ok]
        BY <1>1, <1>4, AnswerWorks
    <2>2. PICK recs \in Seq(Seq(Commands(Mine(s)))) : recs = frame[s].recs
        BY <1>2 DEF Submission
    <2>3. PICK bs \in Seq(Seq(ObjectCommands)) : bs = bufs[s]
        BY BaseFacts DEF ServerType
    <2>4. Store' = [Store EXCEPT ![s] = RunAll(Store[s], recs)]
        <3>1. ServerType /\ OwnTables /\ OwnNames /\ Now \in Contents
            BY BaseFacts
        <3>2. Len(bs) = Len(recs) /\ Replayed(bs, recs)
            BY <1>2, <2>2, <2>3
        <3>3. Now' = RunAll(Now, bs) /\ tables' = tables
            BY <1>1, <1>4, <2>3
        <3>4. QED
            BY ONLY NoKindInCommon, <3>1, <3>2, <3>3, StoreSubmitted
    <2>5. Comes(s, RunAll(Store[s], frame[s].recs), Ok)
        BY <2>1, <2>2, <2>4 DEF Comes
    <2>6. ASSUME NEW i \in DOMAIN recs PROVE \A r \in UsedBy(recs[i]) : Store[s][r] # Nothing
        <3>1. PICK rec \in Seq(Commands(Mine(s))) : rec = recs[i]
            OBVIOUS
        <3>2. UsedBy(rec) \in SUBSET Mine(s)
            BY UsesOfCommand DEF UsedBy
        <3>3. Found(UsedBy(rec))
            <4>1. i \in 1..Len(bs)
                BY <1>2, <2>2, <2>3, <2>6
            <4>2. QED
                BY <1>2, <2>2, <2>3, <3>1, <4>1 DEF Replayed
        <3>4. QED
            BY <3>1, <3>2, <3>3, FoundIsKnown DEF Found
    <2>7. Promise!Succeed(s, frame[s])
        BY <1>1, <1>4, <2>2, <2>5, <2>6, SucceedSubmit
    <2>8. QED
        BY <2>1, <2>7, ExecuteIs DEF Step
<1>5. CASE /\ UNCHANGED <<contents, staged>> /\ frame[s].flaw = "unsupported"
           /\ Answer(s, Invalid)
    <2>1. Now' = Now
        BY <1>5 DEF Now
    <2>2. Works(s) /\ Comes(s, Store[s], Invalid)
        BY <1>1, <1>5, <2>1, AnswerComes
    <2>3. Promise!Fail(s, frame[s])
        BY <1>1, <1>5, <2>2, FailOther
    <2>4. QED
        BY <2>2, <2>3, ExecuteIs DEF Step
<1>6. QED
    <2>1. \/ UNCHANGED <<contents, staged>> /\ frame[s].flaw = "invalid" /\ Panic(s)
          \/ UNCHANGED <<contents, staged>> /\ frame[s].flaw = "unsupported"
             /\ Answer(s, Invalid)
          \/ Now' = RunAll(Now, bufs[s]) /\ frame[s].flaw = "none" /\ Answer(s, Ok)
        BY Submitting DEF Base
    <2>2. QED
        BY <1>3, <1>4, <1>5, <2>1

LEMMA StepReply ==
    ASSUME Base, NEW s \in Sessions, Reply(s)
    PROVE  Step
<1>1. /\ pc[s] = "answered" /\ Goto(s, "idle")
      /\ answer' = [answer EXCEPT ![s] = Pending]
      /\ frame' = [frame EXCEPT ![s] = NoFrame]
      /\ UNCHANGED <<minted, live, tables, poisoned>> /\ Now' = Now
    BY DEF Reply, tableVars, deviceVars, Now
<1>2. Done[s] # Pending
    BY <1>1, BaseFacts DEF Done, Looked
<1>3. Done' = [Done EXCEPT ![s] = Pending] /\ Dead' = Dead
    BY <1>1, BaseFacts DEF Goto, ServerType, Done, Dead
<1>4. Store' = Store
    BY <1>1, StoreSame
<1>5. QED
    BY <1>1, <1>2, <1>3, <1>4, ReplyIs DEF Step

LEMMA StepLockPanics ==
    ASSUME Base, NEW s \in Sessions, LockPanics(s)
    PROVE  Step
<1>1. /\ Panic(s) /\ poisoned /\ Takes(s) /\ Now' = Now
      /\ UNCHANGED <<facadeVars, tables, poisoned>>
    BY DEF LockPanics, tableVars, deviceVars, Now
<1>2. frame[s] # NoFrame /\ pc[s] \notin {"staged", "answered", "dead"}
    BY <1>1, BaseFacts, FrameShapes DEF Takes, Busy
<1>3. QED
    BY <1>1, <1>2, PanicDies DEF Step

LEMMA StepUser ==
    ASSUME Base, NEW s \in Sessions, User(s), UNCHANGED engineVars
    PROVE  Step
<1>1. PICK f : Asks(s, f)
    BY UserAsks, BaseFacts
<1>2. UNCHANGED <<tables, poisoned, pc, answer>> /\ Now' = Now
    BY DEF engineVars, tableVars, deviceVars, handlerVars, Now
<1>3. UNCHANGED <<Store, Done, Dead, poisoned>>
    BY <1>2, StoreSame DEF Done, Dead
<1>4. QED
    BY <1>1, <1>3, BaseFacts, AskIs DEF Step

LEMMA StepStutter ==
    ASSUME UNCHANGED vars PROVE Step
<1>1. UNCHANGED <<facadeVars, tables, poisoned, pc, answer>> /\ Now' = Now
    BY DEF vars, facadeVars, engineVars, tableVars, deviceVars, handlerVars, Now
<1>2. UNCHANGED <<facadeVars, Store, Done, Dead, poisoned>>
    BY <1>1, StoreSame DEF Done, Dead
<1>3. QED
    BY <1>2, StutterIs DEF Step

LEMMA EveryStep ==
    ASSUME NoKindInCommon, Base, [Next]_vars PROVE [Promise!Next]_(Promise!aloneVars)
<1>1. Step
    BY StepAck, StepRemove, StepBuild, StepResolve, StepBuildLocked, StepInsert,
       StepDeriveLayout, StepStage, StepFlush, StepSnapshot, StepCopyOut, StepReplay,
       StepSubmitAll, StepReply, StepLockPanics, StepUser, StepStutter
    DEF Next, Handler
<1>2. QED
    BY <1>1 DEF Step

LEMMA FirstState == Init => Promise!AloneInit
<1> SUFFICES ASSUME Init PROVE Promise!AloneInit
    OBVIOUS
<1>1. Promise!FacadeInit
    BY DEF Init, FacadeInit, Promise!FacadeInit, Kinds, Promise!Kinds, NoFrame,
           Promise!NoFrame
<1>2. tables = [r \in Names |-> NoObject] /\ \A s \in Sessions : pc[s] = "idle"
    BY DEF Init
<1>3. [s \in Sessions |-> [r \in Names |->
          IF tables[r] # NoObject /\ tables[r].by = s
          THEN Run(contents, staged)[tables[r]] ELSE MaxValue + 1]]
        = [s \in Sessions |-> [r \in Names |-> MaxValue + 1]]
    BY <1>2
<1>4. Promise!Names = Names
    BY DEF Names, Promise!Names, Kinds, Promise!Kinds
<1>5. QED
    BY <1>1, <1>2, <1>3, <1>4
    DEF Promise!AloneInit, Init, Promise!Absent, Promise!Pending, Pending

(* Of sessions that create no kind in common, each is answered as if it    *)
(* were alone with a server that carries out one frame at a time, however  *)
(* the steps of their handlers interleave: between the lock, the device's  *)
(* calls outside it and the queue they share (engine.rs), none sees or     *)
(* leaves a trace of another. A frame counts as done when it is answered,  *)
(* a write when it is staged.                                              *)
THEOREM AloneCorrect == ASSUME NoKindInCommon PROVE Spec => ImplementsAlone
<1>1. Init => Base
    <2>1. Init => ContentsInv
        BY FacadeAssumption DEF Init, ContentsInv, Contents, Values
    <2>2. QED
        BY <2>1, TypeInit, AloneInit DEF Base
<1>2. Base /\ [Next]_vars => Base'
    BY TypeStep, ContentsStep, AloneStep DEF Base
<1>3. Init => Promise!AloneInit
    BY FirstState
<1>4. Base /\ [Next]_vars => [Promise!Next]_(Promise!aloneVars)
    BY EveryStep
<1>5. QED
    BY <1>1, <1>2, <1>3, <1>4, PTL DEF Spec, ImplementsAlone, Promise!Spec
=============================================================================
