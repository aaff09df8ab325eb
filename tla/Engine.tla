------------------------------- MODULE Engine -------------------------------
(***************************************************************************)
(* The server: server/engine.rs and server/tables.rs, driven by one        *)
(* handler per session (handler.rs: dispatch a frame, write its answer,    *)
(* read the next).                                                         *)
(*                                                                         *)
(* Sessions share the device, its queue and the resource tables behind one *)
(* mutex. A step is what a handler does between two points where another   *)
(* may come in: taking or releasing the lock, a call of the device outside *)
(* it, an await. A panic while the lock is held poisons it, and every      *)
(* later lock().unwrap() panics in turn. wgpu, external here, raises       *)
(* validation errors as panics (no error handler is installed), keeps a    *)
(* resource alive while anything refers to it, and holds back queue writes *)
(* until the next submission.                                              *)
(***************************************************************************)
EXTENDS Facade

VARIABLES
    tables,     (* ResourceTables: the object under each name, or NoObject *)
    lock,       (* the session whose handler holds the tables, or Free     *)
    poisoned,   (* a handler has panicked with the lock                    *)
    contents,   (* of every object                                         *)
    staged,     (* queue writes that await a submission                    *)
    pc,         (* how far each handler is with its frame                  *)
    hand,       (* objects the handler has looked up for it                *)
    bufs,       (* recordings it has replayed, naming objects              *)
    answer      (* what it will answer                                     *)

tableVars   == <<tables, lock, poisoned>>
deviceVars  == <<contents, staged>>
handlerVars == <<pc, hand, bufs, answer>>
engineVars  == <<tableVars, deviceVars, handlerVars>>
vars        == <<facadeVars, engineVars>>

(* A name is minted once by a session, so this identifies an object.       *)
Objects  == [by : Sessions, name : Names]
NoObject == [by |-> "nobody"]
Free     == "free"
Pending  == [code |-> "pending"]
Ok       == [code |-> "ok"]
Unknown  == [code |-> "unknown"]
Invalid  == [code |-> "invalid"]
Internal == [code |-> "internal"]
Data(v)  == [code |-> "data", value |-> v]

Init ==
    /\ FacadeInit
    /\ tables = [r \in Names |-> NoObject]
    /\ lock = Free /\ poisoned = FALSE
    /\ contents = [o \in Objects |-> 0] /\ staged = <<>>
    /\ pc = [s \in Sessions |-> "idle"]
    /\ hand = [s \in Sessions |-> {}]
    /\ bufs = [s \in Sessions |-> <<>>]
    /\ answer = [s \in Sessions |-> Pending]

-----------------------------------------------------------------------------
(* The device's queue.                                                     *)

Apply(c, cmd) ==
    CASE cmd.op = "write" -> [c EXCEPT ![cmd.to] = cmd.value]
      [] cmd.op = "clear" -> [c EXCEPT ![cmd.to] = 0]
      [] cmd.op = "copy"  -> [c EXCEPT ![cmd.to] = c[cmd.from]]
      [] OTHER            -> c
Run(c, cmds) ==
    LET run[n \in 0..Len(cmds)] ==
            IF n = 0 THEN c ELSE Apply(run[n - 1], cmds[n])
    IN  run[Len(cmds)]
RunAll(c, recs) ==
    LET all[n \in 0..Len(recs)] ==
            IF n = 0 THEN c ELSE Run(all[n - 1], recs[n])
    IN  all[Len(recs)]

(* queue.submit: the writes held back, then the command buffers.           *)
QueueSubmit(recs) ==
    /\ contents' = RunAll(Run(contents, staged), recs)
    /\ staged' = <<>>

-----------------------------------------------------------------------------
(* Parts of a handler's steps.                                             *)

Goto(s, label) == pc' = [pc EXCEPT ![s] = label]

Answer(s, a) ==
    /\ Goto(s, "answered")
    /\ answer' = [answer EXCEPT ![s] = a]
    /\ UNCHANGED <<hand, bufs>>

(* The handler's task panics with the frame at hand; unwinding drops what  *)
(* it had looked up and recorded.                                          *)
Panic(s) ==
    /\ Goto(s, "dead")
    /\ hand' = [hand EXCEPT ![s] = {}] /\ bufs' = [bufs EXCEPT ![s] = <<>>]
    /\ UNCHANGED answer

(* tables.lock().unwrap(), to be released in the same step.                *)
Lock == lock = Free /\ ~poisoned

Found(refs)   == \A r \in refs : tables[r] # NoObject
Lookup(s, refs) == hand' = [hand EXCEPT ![s] = @ \cup {tables[r] : r \in refs}]

At(s, label, ops) == pc[s] = label /\ frame[s].op \in ops

(* Every handler that comes to take a poisoned lock panics.                *)
Takes(s) == \/ pc[s] = "built"
            \/ /\ pc[s] = "idle"
               /\ \/ frame[s].op \in {"derive", "write", "read"}
                  \/ frame[s].op = "create" /\ frame[s].name.kind \notin Simple
                  \/ frame[s].op = "destroy" /\ frame[s].name.kind = "buffer"
                  \/ frame[s].op = "submit" /\ Len(bufs[s]) < Len(frame[s].recs)
LockPanics(s) ==
    /\ Takes(s) /\ poisoned
    /\ Panic(s)
    /\ UNCHANGED <<facadeVars, tableVars, deviceVars>>

-----------------------------------------------------------------------------
(* Acks take no lock, and so does Destroy of anything but a buffer, which  *)
(* is ignored.                                                             *)
AckFrame(s) ==
    /\ pc[s] = "idle"
    /\ \/ frame[s].op = "ack"
       \/ frame[s].op = "destroy" /\ frame[s].name.kind # "buffer"
    /\ Answer(s, Ok)
    /\ UNCHANGED <<facadeVars, tableVars, deviceVars>>

Remove(s) ==
    /\ At(s, "idle", {"destroy"}) /\ frame[s].name.kind = "buffer"
    /\ Lock
    /\ tables' = [tables EXCEPT ![frame[s].name] = NoObject]
    /\ Answer(s, Ok)
    /\ UNCHANGED <<facadeVars, lock, poisoned, deviceVars>>

(* A creation that names nothing: the device's call comes before the lock. *)
Build(s) ==
    /\ At(s, "idle", {"create"}) /\ frame[s].name.kind \in Simple
    /\ CASE frame[s].flaw = "none" -> Goto(s, "built") /\ UNCHANGED <<hand, bufs, answer>>
         [] frame[s].flaw = "unsupported" -> Answer(s, Invalid)
         [] frame[s].flaw = "invalid" -> Panic(s)
    /\ UNCHANGED <<facadeVars, tableVars, deviceVars>>

(* What a creation that names others may be refused with, as the lookups   *)
(* come to it: an unsupported binding of a group is met after its layout.  *)
Refusals(f) ==
    {a \in {Unknown, Invalid} :
       \/ a = Unknown /\ ~Found(f.refs)
       \/ a = Invalid /\ f.flaw = "unsupported"
                      /\ Found({r \in f.refs : r.kind \in Needs(f.name.kind)})}

(* Fault: goes on with what a lookup did not find.                         *)
Resolve_Unchecked(s) ==
    /\ At(s, "idle", {"create"}) /\ frame[s].name.kind \notin Simple
    /\ Lock
    /\ Lookup(s, frame[s].refs) /\ lock' = s
    /\ Goto(s, "resolved") /\ UNCHANGED <<bufs, answer>>
    /\ UNCHANGED <<facadeVars, tables, poisoned, deviceVars>>

Resolve(s) ==
    /\ At(s, "idle", {"create"}) /\ frame[s].name.kind \notin Simple
    /\ Lock
    /\ \/ \E a \in Refusals(frame[s]) : Answer(s, a) /\ UNCHANGED lock
       \/ /\ Found(frame[s].refs) /\ frame[s].flaw # "unsupported"
          /\ Lookup(s, frame[s].refs) /\ lock' = s
          /\ Goto(s, "resolved") /\ UNCHANGED <<bufs, answer>>
    /\ UNCHANGED <<facadeVars, tables, poisoned, deviceVars>>

(* Fault: no drop(tables) before the tables are locked again.              *)
BuildLocked_Keeps(s) ==
    /\ pc[s] = "resolved"
    /\ IF frame[s].flaw = "invalid"
       THEN poisoned' = TRUE /\ Panic(s) /\ lock' = Free
       ELSE Goto(s, "built") /\ UNCHANGED <<lock, poisoned, hand, bufs, answer>>
    /\ UNCHANGED <<facadeVars, tables, deviceVars>>

(* The device's call under the lock, then drop(tables).                    *)
BuildLocked(s) ==
    /\ pc[s] = "resolved"
    /\ lock' = Free
    /\ IF frame[s].flaw = "invalid"
       THEN poisoned' = TRUE /\ Panic(s)
       ELSE Goto(s, "built") /\ UNCHANGED <<poisoned, hand, bufs, answer>>
    /\ UNCHANGED <<facadeVars, tables, deviceVars>>

(* Lock the tables, again or for the first time, and put the object in.    *)
Insert(s) ==
    /\ pc[s] = "built" /\ Lock
    /\ tables' = [tables EXCEPT ![frame[s].name] = [by |-> s, name |-> frame[s].name]]
    /\ Answer(s, Ok)
    /\ UNCHANGED <<facadeVars, lock, poisoned, deviceVars>>

(* Derive*PipelineBindGroupLayout holds the lock throughout.               *)
DeriveLayout(s) ==
    /\ At(s, "idle", {"derive"}) /\ Lock
    /\ CASE ~Found(frame[s].refs) -> Answer(s, Unknown) /\ UNCHANGED <<tables, poisoned>>
         [] Found(frame[s].refs) /\ frame[s].flaw = "invalid" ->
               poisoned' = TRUE /\ Panic(s) /\ UNCHANGED tables
         [] Found(frame[s].refs) /\ frame[s].flaw = "none" ->
               /\ tables' = [tables EXCEPT ![frame[s].name] =
                                [by |-> s, name |-> frame[s].name]]
               /\ Lookup(s, frame[s].refs) /\ Goto(s, "answered")
               /\ answer' = [answer EXCEPT ![s] = Ok]
               /\ UNCHANGED <<poisoned, bufs>>
    /\ UNCHANGED <<facadeVars, lock, deviceVars>>
-----------------------------------------------------------------------------
(* Fault: the flush after the write is forgotten.                          *)
Stage_NoFlush(s) ==
    /\ At(s, "idle", {"write"}) /\ Lock
    /\ IF Found({frame[s].name})
       THEN staged' = Append(staged, [op |-> "write", to |-> tables[frame[s].name],
                                      value |-> frame[s].value]) /\ Answer(s, Ok)
       ELSE UNCHANGED staged /\ Answer(s, Unknown)
    /\ UNCHANGED <<facadeVars, tableVars, contents>>

(* WriteBuffer, whose lock is released before the flush, and WriteTexture, *)
(* whose lock is not.                                                      *)
Stage(s) ==
    /\ At(s, "idle", {"write"}) /\ Lock
    /\ CASE ~Found({frame[s].name}) ->
               Answer(s, Unknown) /\ UNCHANGED <<lock, poisoned, staged>>
         [] Found({frame[s].name}) /\ frame[s].flaw = "invalid" ->
               poisoned' = TRUE /\ Panic(s) /\ UNCHANGED <<lock, staged>>
         [] Found({frame[s].name}) /\ frame[s].flaw = "none" ->
               /\ Lookup(s, {frame[s].name})
               /\ staged' = Append(staged, [op |-> "write", to |-> tables[frame[s].name],
                                            value |-> frame[s].value])
               /\ lock' = IF frame[s].name.kind = "texture" THEN s ELSE Free
               /\ Goto(s, "staged") /\ UNCHANGED <<poisoned, bufs, answer>>
    /\ UNCHANGED <<facadeVars, tables, contents>>

Flush(s) ==
    /\ pc[s] = "staged"
    /\ QueueSubmit(<<>>)
    /\ lock' = IF lock = s THEN Free ELSE lock
    /\ Answer(s, Ok)
    /\ UNCHANGED <<facadeVars, tables, poisoned>>

(* read_buffer takes a handle of the buffer and releases the lock ...      *)
Snapshot(s) ==
    /\ At(s, "idle", {"read"}) /\ Lock
    /\ IF Found({frame[s].name})
       THEN Lookup(s, {frame[s].name}) /\ Goto(s, "mapping") /\ UNCHANGED <<bufs, answer>>
       ELSE Answer(s, Unknown)
    /\ UNCHANGED <<facadeVars, tableVars, deviceVars>>

(* ... then maps it and polls the device, which may refuse (it is lost, or *)
(* the buffer is mapped already); a range outside the buffer panics.       *)
CopyOut(s) ==
    /\ pc[s] = "mapping"
    /\ IF frame[s].flaw = "invalid" THEN Panic(s)
       ELSE \E o \in hand[s], a \in {Internal} \cup {Data(v) : v \in Values} :
               /\ a \in {Internal, Data(contents[o])}
               /\ Answer(s, a)
    /\ UNCHANGED <<facadeVars, tableVars, deviceVars>>
-----------------------------------------------------------------------------
(* submit: recording by recording, the lock taken for each.                *)

OnObjects(cmd) ==
    IF cmd.op = "copy" THEN [cmd EXCEPT !.from = tables[cmd.from], !.to = tables[cmd.to]]
                       ELSE [cmd EXCEPT !.to = tables[cmd.to]]
UsedBy(rec) == UNION {Uses(rec[j]) : j \in DOMAIN rec}

(* Fault: each recording is submitted as soon as it is replayed.           *)
Replay_SubmitsEach(s) ==
    /\ At(s, "idle", {"submit"}) /\ Len(bufs[s]) < Len(frame[s].recs)
    /\ Lock
    /\ LET rec == frame[s].recs[Len(bufs[s]) + 1] IN
       IF Found(UsedBy(rec))
       THEN /\ QueueSubmit(<<[j \in DOMAIN rec |-> OnObjects(rec[j])]>>)
            /\ bufs' = [bufs EXCEPT ![s] = Append(@, <<>>)]
            /\ UNCHANGED <<pc, hand, answer>>
       ELSE Answer(s, Unknown) /\ UNCHANGED deviceVars
    /\ UNCHANGED <<facadeVars, tableVars>>

(* replay_recording. The first unknown name returns from submit. Finish    *)
(* raises what the encoder found invalid, after the lock is released; a    *)
(* vertex slice outside its buffer panics before.                          *)
Replay(s) ==
    /\ At(s, "idle", {"submit"}) /\ Len(bufs[s]) < Len(frame[s].recs)
    /\ Lock
    /\ LET rec == frame[s].recs[Len(bufs[s]) + 1] IN
       \/ ~Found(UsedBy(rec)) /\ Answer(s, Unknown) /\ UNCHANGED poisoned
       \/ frame[s].flaw = "invalid" /\ Panic(s)
          /\ poisoned' \in {TRUE, ~Found(UsedBy(rec))}
       \/ /\ Found(UsedBy(rec))
          /\ Lookup(s, UsedBy(rec))
          /\ bufs' = [bufs EXCEPT ![s] = Append(@, [j \in DOMAIN rec |-> OnObjects(rec[j])])]
          /\ UNCHANGED <<pc, answer, poisoned>>
    /\ UNCHANGED <<facadeVars, tables, lock, deviceVars>>

(* All recordings have become command buffers, or all that come before one *)
(* that does not decode.                                                   *)
SubmitAll(s) ==
    /\ At(s, "idle", {"submit"}) /\ Len(bufs[s]) = Len(frame[s].recs)
    /\ \/ frame[s].flaw = "invalid" /\ Panic(s) /\ UNCHANGED deviceVars
       \/ frame[s].flaw = "unsupported" /\ Answer(s, Invalid) /\ UNCHANGED deviceVars
       \/ frame[s].flaw = "none" /\ QueueSubmit(bufs[s]) /\ Answer(s, Ok)
    /\ UNCHANGED <<facadeVars, tableVars>>

(* The handler writes the answer, if the frame had a request id, and       *)
(* reads the next frame.                                                   *)
Reply(s) ==
    /\ pc[s] = "answered"
    /\ Goto(s, "idle")
    /\ hand' = [hand EXCEPT ![s] = {}] /\ bufs' = [bufs EXCEPT ![s] = <<>>]
    /\ answer' = [answer EXCEPT ![s] = Pending]
    /\ frame' = [frame EXCEPT ![s] = NoFrame]
    /\ UNCHANGED <<minted, live, tableVars, deviceVars>>
-----------------------------------------------------------------------------
Handler(s) ==
    \/ AckFrame(s) \/ Remove(s) \/ Build(s) \/ Resolve(s) \/ BuildLocked(s)
    \/ Insert(s) \/ DeriveLayout(s) \/ Stage(s) \/ Flush(s) \/ Snapshot(s)
    \/ CopyOut(s) \/ Replay(s) \/ SubmitAll(s) \/ Reply(s)
    \/ LockPanics(s)

Next == \E s \in Sessions : (User(s) /\ UNCHANGED engineVars) \/ Handler(s)

Spec == Init /\ [][Next]_vars
-----------------------------------------------------------------------------
(* Properties.                                                             *)

Answers  == {Pending, Ok, Unknown, Invalid, Internal} \cup {Data(v) : v \in Values}
ObjectCommands ==
    [op : {"clear", "use"}, to : Objects]
    \cup [op : {"copy"}, from : Objects, to : Objects]
ObjectWrites == [op : {"write"}, to : Objects, value : Values]

TypeOK ==
    /\ tables \in [Names -> Objects \cup {NoObject}]
    /\ lock \in Sessions \cup {Free} /\ poisoned \in BOOLEAN
    /\ contents \in [Objects -> Values] /\ staged \in Seq(ObjectWrites)
    /\ pc \in [Sessions -> {"idle", "built", "resolved", "staged", "mapping",
                            "answered", "dead"}]
    /\ hand \in [Sessions -> SUBSET Objects]
    /\ \A s \in Sessions : bufs[s] \in Seq(Seq(ObjectCommands))
    /\ answer \in [Sessions -> Answers]

(* The lock is held only by a handler that needs nothing else to go on: by *)
(* none that is done, dead, waiting for the device or for the lock itself. *)
HolderGoesOn ==
    lock # Free => \/ pc[lock] = "resolved"
                   \/ pc[lock] = "staged" /\ frame[lock].name.kind = "texture"

(* A queue write is never left behind for a later submission to carry out, *)
(* which might come after the read that should have seen it.               *)
WritesAreFlushed == staged # <<>> => \E s \in Sessions : pc[s] = "staged"

(* What sessions that share no kind are promised.                          *)
Promise == INSTANCE Alone WITH
    store <- LET now == Run(contents, staged)
             IN  [s \in Sessions |-> [r \in Names |->
                    IF tables[r] # NoObject /\ tables[r].by = s
                    THEN now[tables[r]] ELSE MaxValue + 1]],
    done <- [s \in Sessions |-> CASE pc[s] = "staged"   -> Ok
                                  [] pc[s] = "answered" -> answer[s]
                                  [] OTHER              -> Pending],
    dead <- {s \in Sessions : pc[s] = "dead"},
    wrecked <- poisoned
ImplementsAlone == Promise!Spec
=============================================================================
