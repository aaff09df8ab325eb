-------------------------------- MODULE Mux --------------------------------
(***************************************************************************)
(* The client's multiplexed stream and the server loop behind it:          *)
(* client/client.rs (Client, Mux, its writer and reader tasks) against     *)
(* server/handler.rs (handle_stream).                                      *)
(*                                                                         *)
(* Client tasks call `request` (insert a oneshot in `pending`, push the    *)
(* frame to the inbox, await the answer) or `send` (push and return). The  *)
(* writer task drains the inbox into the stream; the handler reads a       *)
(* frame, dispatches it, writes the answer back; the reader task hands     *)
(* each answer to the oneshot its request id names. The connection can     *)
(* fail at any point, a caller may drop its future, the client may be      *)
(* dropped. A `send` before the stream is open takes the cold path, a      *)
(* spawned task that works on a CLONE of the OnceCell.                     *)
(***************************************************************************)
EXTENDS Naturals, Sequences

CONSTANTS
    Tasks,       (* client tasks that share one Client                     *)
    Requests,    (* actions issued with `request`                          *)
    Sends,       (* actions issued with `send`                             *)
    Oversized,   (* actions whose frame exceeds MAX_FRAME_BYTES            *)
    Fatal,       (* actions that end the handler: their answer exceeds     *)
                 (* MAX_FRAME_BYTES, or the engine panics                  *)
    Skewed,      (* actions that ends of two versions may not understand   *)
                 (* of each other: the frame or its answer does not decode *)
    MaxCalls,    (* bound: how many request ids are minted                 *)
    WireCap,     (* bound: frames the flow control window holds, each way  *)
    HelloFirst,  (* TRUE: nothing is sent before a request has opened the  *)
                 (* stream, as Instance::request_adapter arranges          *)
    NoCall       (* marks an id that has not been minted                   *)

Actions  == Requests \cup Sends
Ids      == 1..MaxCalls
Failures == {"returned", "closed", "toolarge", "transport", "cancelled"}
Outcomes == {"none", "open"} \cup Failures \cup Actions

ASSUME MuxAssumption ==
    /\ MaxCalls \in Nat /\ WireCap \in Nat \ {0}
    /\ HelloFirst \in BOOLEAN
    /\ Requests \cap Sends = {}
    /\ NoCall \notin Actions
    /\ Actions \cap ({"none", "open"} \cup Failures) = {}

VARIABLES
    next,     (* next_request_id                                           *)
    call,     (* the action each id was minted for                         *)
    pc, cur,  (* where each task stands, and the id of its current call    *)
    mux,      (* Client::mux: "unopened", "ready" or "dropped"             *)
    pending,  (* Mux::pending: ids whose oneshot sender is in the map      *)
    inbox,    (* the writer's mpsc inbox                                   *)
    writer,   (* the writer task: "run" or "exited"                        *)
    toServer, (* frames written to the send stream, not yet read           *)
    handler,  (* handle_stream: "run" or "ended"                           *)
    reply,    (* the answer the handler is writing: none or one            *)
    toClient, (* answers written, not yet read                             *)
    reader,   (* the reader task: "run" or "exited"                        *)
    up,       (* the connection is alive                                   *)
    cold,     (* tasks spawned by the cold path of `send`                  *)
    aux,      (* frames of cold sends on the wire of a stream of their own *)
    outcome,  (* what the oneshot, or the early return, gave each call     *)
    issued,   (* history: ids in the order their frames were handed over   *)
    served,   (* history: ids in the order the engine dispatched them      *)
    stamp     (* history: how many ids had been handed over at the mint    *)

taskVars   == <<next, call, pc, cur, stamp>>
wireVars   == <<inbox, writer, toServer>>
serverVars == <<handler, reply, toClient, served>>
coldVars   == <<cold, aux>>
vars == <<taskVars, mux, pending, wireVars, serverVars, reader, up, coldVars,
          outcome, issued>>

Frame  == [id : Ids, action : Actions]
Reply  == [id : Ids, answer : Actions]
Members(s) == {s[k] : k \in DOMAIN s}

Init ==
    /\ next = 1
    /\ call = [i \in Ids |-> NoCall]
    /\ pc = [t \in Tasks |-> "idle"] /\ cur = [t \in Tasks |-> 0]
    /\ mux = "unopened" /\ pending = {}
    /\ inbox = <<>> /\ writer = "run" /\ toServer = <<>>
    /\ handler = "run" /\ reply = <<>> /\ toClient = <<>>
    /\ reader = "run" /\ up = TRUE
    /\ cold = {} /\ aux = {}
    /\ outcome = [i \in Ids |-> "none"]
    /\ issued = <<>> /\ served = <<>> /\ stamp = [i \in Ids |-> 0]

-----------------------------------------------------------------------------
(* Client tasks.                                                           *)

Goto(t, l)   == pc' = [pc EXCEPT ![t] = l]
Finish(t, o) == /\ Goto(t, "idle")
                /\ outcome' = [outcome EXCEPT ![cur[t]] = o]

(* Definitions named <Action>_<fault> are that action with a plausible      *)
(* fault. No specification uses them; they show that the properties below  *)
(* can fail.                                                               *)

(* Sends do not wait for the Hello request.                                *)
Mint_NoHello(t, a) ==
    /\ pc[t] = "idle" /\ mux # "dropped" /\ next <= MaxCalls
    /\ next' = next + 1
    /\ call' = [call EXCEPT ![next] = a]
    /\ stamp' = [stamp EXCEPT ![next] = Len(issued)]
    /\ cur' = [cur EXCEPT ![t] = next]
    /\ outcome' = [outcome EXCEPT ![next] = "open"]
    /\ Goto(t, "minted")
    /\ UNCHANGED <<mux, pending, wireVars, serverVars, reader, up, coldVars,
                   issued>>

(* mint_request_id and encode_frame. An oversized request returns the      *)
(* error, an oversized send is dropped without a word.                     *)
Mint(t, a) ==
    /\ pc[t] = "idle" /\ mux # "dropped" /\ next <= MaxCalls
    /\ HelloFirst /\ a \in Sends => mux = "ready"
    /\ next' = next + 1
    /\ call' = [call EXCEPT ![next] = a]
    /\ stamp' = [stamp EXCEPT ![next] = Len(issued)]
    /\ cur' = [cur EXCEPT ![t] = next]
    /\ IF a \in Oversized
       THEN /\ outcome' = [outcome EXCEPT ![next] =
                              IF a \in Sends THEN "returned" ELSE "toolarge"]
            /\ UNCHANGED pc
       ELSE /\ outcome' = [outcome EXCEPT ![next] = "open"]
            /\ Goto(t, "minted")
    /\ UNCHANGED <<mux, pending, wireVars, serverVars, reader, up, coldVars,
                   issued>>

IsRequest(t) == call[cur[t]] \in Requests

(* Client::mux: get_or_try_init runs Mux::open once, or fails with the     *)
(* connection.                                                             *)
OpenMux(t) ==
    /\ pc[t] = "minted" /\ IsRequest(t) /\ mux = "unopened"
    /\ IF up THEN mux' = "ready" /\ UNCHANGED <<pc, outcome>>
             ELSE Finish(t, "transport") /\ UNCHANGED mux
    /\ UNCHANGED <<next, call, cur, stamp, pending, wireVars, serverVars,
                   reader, up, coldVars, issued>>

(* pending.insert(request_id, resp_tx).                                    *)
Register(t) ==
    /\ pc[t] = "minted" /\ IsRequest(t) /\ mux = "ready"
    /\ pending' = pending \cup {cur[t]}
    /\ Goto(t, "registered")
    /\ UNCHANGED <<next, call, cur, stamp, mux, wireVars, serverVars, reader,
                   up, coldVars, outcome, issued>>

(* The frame takes its id from the counter, which has moved on since.      *)
Enqueue_NextId(i) ==
    /\ writer = "run"
    /\ inbox' = Append(inbox, [id |-> next, action |-> call[i]])

(* inbox.send(WriteJob), which fails only once the writer task is gone.    *)
Enqueue(i) ==
    /\ writer = "run"
    /\ inbox' = Append(inbox, [id |-> i, action |-> call[i]])

PushRequest(t) ==
    /\ pc[t] = "registered"
    /\ \/ /\ Enqueue(cur[t])
          /\ issued' = Append(issued, cur[t])
          /\ Goto(t, "waiting")
          /\ UNCHANGED <<pending, outcome>>
       \/ /\ writer = "exited"
          /\ pending' = pending \ {cur[t]}
          /\ Finish(t, "closed")
          /\ UNCHANGED <<inbox, issued>>
    /\ UNCHANGED <<next, call, cur, stamp, mux, writer, toServer, serverVars,
                   reader, up, coldVars>>

(* resp_rx.await completes: the oneshot was sent to, or its sender dropped.*)
Resume(t) ==
    /\ pc[t] = "waiting" /\ outcome[cur[t]] # "open"
    /\ Goto(t, "idle")
    /\ UNCHANGED <<next, call, cur, stamp, mux, pending, wireVars, serverVars,
                   reader, up, coldVars, outcome, issued>>

(* The caller drops the future of a request at one of its awaits. The      *)
(* entry in `pending` stays behind.                                        *)
Cancel(t) ==
    /\ \/ pc[t] = "minted" /\ IsRequest(t)
       \/ pc[t] = "waiting"
    /\ outcome[cur[t]] = "open"
    /\ Finish(t, "cancelled")
    /\ UNCHANGED <<next, call, cur, stamp, mux, pending, wireVars, serverVars,
                   reader, up, coldVars, issued>>

(* `send` with the stream open. The result of inbox.send is ignored.       *)
SendHot(t) ==
    /\ pc[t] = "minted" /\ ~IsRequest(t) /\ mux = "ready"
    /\ \/ Enqueue(cur[t]) /\ issued' = Append(issued, cur[t])
       \/ writer = "exited" /\ UNCHANGED <<inbox, issued>>
    /\ Finish(t, "returned")
    /\ UNCHANGED <<next, call, cur, stamp, mux, pending, writer, toServer,
                   serverVars, reader, up, coldVars>>

(* `send` finds no mux (mux.get() is None) ...                             *)
SendCold(t) ==
    /\ pc[t] = "minted" /\ ~IsRequest(t) /\ mux = "unopened"
    /\ Goto(t, "cold")
    /\ UNCHANGED <<next, call, cur, stamp, mux, pending, wireVars, serverVars,
                   reader, up, coldVars, outcome, issued>>

(* ... clones the OnceCell, which copies the mux if another task opened it *)
(* in between and is a new empty cell otherwise, and spawns a task.        *)
SendSpawn(t) ==
    /\ pc[t] = "cold"
    /\ cold' = cold \cup {[id |-> cur[t], cell |-> mux]}
    /\ issued' = Append(issued, cur[t])
    /\ Finish(t, "returned")
    /\ UNCHANGED <<next, call, cur, stamp, mux, pending, wireVars, serverVars,
                   reader, up, aux>>

(* The spawned task holds the shared mux: it pushes to the shared inbox.   *)
ColdShared(c) ==
    /\ c.cell = "ready"
    /\ \/ Enqueue(c.id)
       \/ writer = "exited" /\ UNCHANGED inbox
    /\ cold' = cold \ {c}
    /\ UNCHANGED <<taskVars, mux, pending, writer, toServer, serverVars,
                   reader, up, aux, outcome, issued>>

(* The spawned task tries again after writing, as if it had failed.        *)
ColdOwn_Retry(c) ==
    /\ c.cell = "unopened"
    /\ up /\ aux' = aux \cup {c.id}
    /\ UNCHANGED <<taskVars, mux, pending, wireVars, serverVars, reader, up,
                   cold, outcome, issued>>

(* It holds an empty cell: it opens a stream of its own, queues the frame, *)
(* and ends. That drops its Mux and aborts its writer, which may or may    *)
(* not have written the frame by then.                                     *)
ColdOwn(c) ==
    /\ c.cell = "unopened"
    /\ cold' = cold \ {c}
    /\ \/ up /\ aux' = aux \cup {c.id}
       \/ UNCHANGED aux
    /\ UNCHANGED <<taskVars, mux, pending, wireVars, serverVars, reader, up,
                   outcome, issued>>

(* Drop for Mux: the last Client handle goes away while no call is in      *)
(* progress; reader and writer are aborted, the queue goes with them.      *)
DropMux ==
    /\ mux = "ready" /\ \A t \in Tasks : pc[t] = "idle"
    /\ \A c \in cold : c.cell # "ready"
    /\ mux' = "dropped" /\ pending' = {}
    /\ inbox' = <<>> /\ writer' = "exited" /\ reader' = "exited"
    /\ UNCHANGED <<taskVars, toServer, serverVars, up, coldVars, outcome,
                   issued>>
-----------------------------------------------------------------------------
(* The writer and the reader task.                                         *)

(* Frames stay buffered until a request waits: flush is missing for sends. *)
WriterWrite_NoFlush ==
    /\ writer = "run" /\ mux = "ready" /\ inbox # <<>>
    /\ up /\ Len(toServer) < WireCap /\ pending # {}
    /\ toServer' = Append(toServer, Head(inbox))
    /\ inbox' = Tail(inbox)
    /\ UNCHANGED <<taskVars, mux, pending, writer, serverVars, reader, up,
                   coldVars, outcome, issued>>

(* recv, write_all and flush of one job; write_all waits for the window.   *)
WriterWrite ==
    /\ writer = "run" /\ mux = "ready" /\ inbox # <<>>
    /\ up /\ Len(toServer) < WireCap
    /\ toServer' = Append(toServer, Head(inbox))
    /\ inbox' = Tail(inbox)
    /\ UNCHANGED <<taskVars, mux, pending, writer, serverVars, reader, up,
                   coldVars, outcome, issued>>

(* The write fails: the connection is gone or the peer stopped the stream. *)
(* An idle writer notices nothing.                                         *)
WriterExit ==
    /\ writer = "run" /\ inbox # <<>> /\ (~up \/ handler = "ended")
    /\ writer' = "exited" /\ inbox' = <<>>
    /\ UNCHANGED <<taskVars, mux, pending, toServer, serverVars, reader, up,
                   coldVars, outcome, issued>>

(* An answer goes to the oldest pending request, whatever its id.          *)
ReaderDeliver_Oldest ==
    /\ reader = "run" /\ toClient # <<>>
    /\ \/ /\ pending = {}
          /\ UNCHANGED <<pending, outcome>>
       \/ \E i \in pending :
             /\ \A j \in pending : i <= j
             /\ pending' = pending \ {i}
             /\ outcome' = IF outcome[i] = "open"
                           THEN [outcome EXCEPT ![i] = Head(toClient).answer]
                           ELSE outcome
    /\ toClient' = Tail(toClient)
    /\ UNCHANGED <<taskVars, mux, wireVars, handler, reply, served, reader, up,
                   coldVars, issued>>

(* read_frame, decode_frame, pending.remove and the oneshot send. Answers  *)
(* to sends and to cancelled requests are discarded.                       *)
ReaderDeliver ==
    /\ reader = "run" /\ toClient # <<>>
    /\ LET r == Head(toClient) IN
          /\ pending' = pending \ {r.id}
          /\ outcome' = IF r.id \in pending /\ outcome[r.id] = "open"
                        THEN [outcome EXCEPT ![r.id] = r.answer] ELSE outcome
    /\ toClient' = Tail(toClient)
    /\ UNCHANGED <<taskVars, mux, wireVars, handler, reply, served, reader, up,
                   coldVars, issued>>

(* The loop ends and `pending` is not cleared.                             *)
ReaderExit_NoClear ==
    /\ reader = "run" /\ mux = "ready" /\ toClient = <<>>
    /\ handler = "ended" \/ ~up
    /\ reader' = "exited"
    /\ UNCHANGED <<taskVars, mux, pending, wireVars, serverVars, up, coldVars,
                   outcome, issued>>

(* The stream ended or failed, or decode_frame fails: leave the loop and   *)
(* clear `pending`, which drops every oneshot sender.                      *)
ReaderExit ==
    /\ reader = "run" /\ mux = "ready"
    /\ \/ toClient = <<>> /\ (handler = "ended" \/ ~up)
       \/ toClient # <<>> /\ Head(toClient).answer \in Skewed
    /\ reader' = "exited"
    /\ pending' = {}
    /\ outcome' = [i \in Ids |-> IF i \in pending /\ outcome[i] = "open"
                                 THEN "closed" ELSE outcome[i]]
    /\ UNCHANGED <<taskVars, mux, wireVars, serverVars, up, coldVars, issued>>
-----------------------------------------------------------------------------
(* The server's handle_stream, and the connection.                         *)

(* read_frame, decode_frame and engine.dispatch. decode_frame(&raw)? ends  *)
(* the handler; a fatal action has been dispatched when a panic or         *)
(* encode_frame(&response)? does.                                          *)
HandlerDispatch ==
    /\ handler = "run" /\ reply = <<>> /\ toServer # <<>>
    /\ LET f == Head(toServer) IN
       \/ /\ f.action \in Skewed
          /\ handler' = "ended" /\ UNCHANGED <<served, reply>>
       \/ /\ served' = Append(served, f.id)
          /\ IF f.action \in Fatal
             THEN handler' = "ended" /\ UNCHANGED reply
             ELSE /\ reply' = <<[id |-> f.id, answer |-> f.action]>>
                  /\ UNCHANGED handler
    /\ toServer' = Tail(toServer)
    /\ UNCHANGED <<taskVars, mux, pending, inbox, writer, toClient, reader, up,
                   coldVars, outcome, issued>>

(* An answer that finds the window full is dropped.                        *)
HandlerReply_Drop ==
    /\ handler = "run" /\ reply # <<>> /\ up
    /\ toClient' = IF Len(toClient) < WireCap
                   THEN Append(toClient, Head(reply)) ELSE toClient
    /\ reply' = <<>>
    /\ UNCHANGED <<taskVars, mux, pending, wireVars, handler, served, reader,
                   up, coldVars, outcome, issued>>

(* tx.write_all(&bytes).await? waits for the window.                       *)
HandlerReply ==
    /\ handler = "run" /\ reply # <<>> /\ up /\ Len(toClient) < WireCap
    /\ toClient' = Append(toClient, Head(reply))
    /\ reply' = <<>>
    /\ UNCHANGED <<taskVars, mux, pending, wireVars, handler, served, reader,
                   up, coldVars, outcome, issued>>

(* Nobody will read the answer: the write is lost, or it fails and ends    *)
(* the handler.                                                            *)
HandlerReplyLost ==
    /\ handler = "run" /\ reply # <<>> /\ (~up \/ reader = "exited")
    /\ reply' = <<>>
    /\ handler' \in {"run", "ended"}
    /\ UNCHANGED <<taskVars, mux, pending, wireVars, toClient, served, reader,
                   up, coldVars, outcome, issued>>

(* read_frame fails at the end of the stream: the loop returns Ok.         *)
HandlerEof ==
    /\ handler = "run" /\ mux # "unopened" /\ reply = <<>> /\ toServer = <<>>
    /\ writer = "exited" \/ ~up
    /\ handler' = "ended"
    /\ UNCHANGED <<taskVars, mux, pending, wireVars, reply, toClient, served,
                   reader, up, coldVars, outcome, issued>>

(* A cold send's own stream has a handler of its own (run_connection       *)
(* spawns one per stream); its answer goes to an aborted reader.           *)
AuxDispatch(i) ==
    /\ i \in aux
    /\ aux' = aux \ {i}
    /\ \/ served' = Append(served, i)
       \/ call[i] \in Skewed /\ UNCHANGED served
    /\ UNCHANGED <<taskVars, mux, pending, wireVars, handler, reply, toClient,
                   reader, up, cold, outcome, issued>>

(* The connection fails: of what was on the wire a prefix still arrives.   *)
Disconnect ==
    /\ up
    /\ up' = FALSE
    /\ \E k \in 0..Len(toServer) : toServer' = SubSeq(toServer, 1, k)
    /\ \E k \in 0..Len(toClient) : toClient' = SubSeq(toClient, 1, k)
    /\ UNCHANGED <<taskVars, mux, pending, inbox, writer, handler, reply,
                   served, reader, coldVars, outcome, issued>>
-----------------------------------------------------------------------------
TaskStep(t) == OpenMux(t) \/ Register(t) \/ PushRequest(t) \/ Resume(t)
               \/ SendHot(t) \/ SendCold(t) \/ SendSpawn(t)
Writer  == WriterWrite \/ WriterExit
Reader  == ReaderDeliver \/ ReaderExit
Handler == HandlerDispatch \/ HandlerReply \/ HandlerReplyLost \/ HandlerEof

Next == \/ \E t \in Tasks, a \in Actions : Mint(t, a)
        \/ \E t \in Tasks : TaskStep(t) \/ Cancel(t)
        \/ \E c \in cold : ColdShared(c) \/ ColdOwn(c)
        \/ \E i \in aux : AuxDispatch(i)
        \/ DropMux \/ Writer \/ Reader \/ Handler \/ Disconnect

Spec == Init /\ [][Next]_vars

(* The runtimes keep polling a task that is ready. Nothing obliges a       *)
(* caller to call, to cancel or to drop the client, nor the network to     *)
(* fail.                                                                   *)
Fairness == /\ \A t \in Tasks : WF_vars(TaskStep(t))
            /\ WF_vars(Writer) /\ WF_vars(Reader) /\ WF_vars(Handler)
FairSpec == Spec /\ Fairness
-----------------------------------------------------------------------------
(* Properties.                                                             *)

TypeOK ==
    /\ next \in 1..(MaxCalls + 1)
    /\ call \in [Ids -> Actions \cup {NoCall}]
    /\ pc \in [Tasks -> {"idle", "minted", "registered", "waiting", "cold"}]
    /\ cur \in [Tasks -> 0..MaxCalls]
    /\ mux \in {"unopened", "ready", "dropped"}
    /\ pending \in SUBSET Ids
    /\ inbox \in Seq(Frame) /\ toServer \in Seq(Frame)
    /\ writer \in {"run", "exited"} /\ reader \in {"run", "exited"}
    /\ handler \in {"run", "ended"}
    /\ reply \in Seq(Reply) /\ toClient \in Seq(Reply)
    /\ up \in BOOLEAN
    /\ cold \in SUBSET [id : Ids, cell : {"unopened", "ready", "dropped"}]
    /\ aux \in SUBSET Ids
    /\ outcome \in [Ids -> Outcomes]
    /\ issued \in Seq(Ids) /\ served \in Seq(Ids)
    /\ stamp \in [Ids -> Nat]

(* An answer reaches the request it answers, and only after the engine has *)
(* dispatched it: the reader demuxes by RequestId although the answers of  *)
(* sends and of cancelled requests come down the same stream.              *)
AnsweredFromOwnCall ==
    \A i \in Ids : outcome[i] \in Actions =>
        outcome[i] = call[i] /\ call[i] \in Requests /\ i \in Members(served)

(* No frame is dispatched twice, whichever of the two paths of `send` it   *)
(* took and whatever failed on the way.                                    *)
ServedOnce ==
    \A p, q \in DOMAIN served : served[p] = served[q] => p = q

(* The promise of `send`: whatever was handed over before a call began has *)
(* been dispatched when that call is, so a follow-up that references a     *)
(* resource created by an earlier send, of any task, finds it.             *)
FollowUpSees ==
    \A q \in DOMAIN served : \A p \in 1..stamp[served[q]] :
        \E r \in 1..(q - 1) : served[r] = issued[p]

InFlight(i) == \/ \E f \in Members(inbox) \cup Members(toServer) : f.id = i
               \/ \E r \in Members(reply) \cup Members(toClient) : r.id = i

Healthy == up /\ writer = "run" /\ handler = "run" /\ reader = "run"

(* A waiting request can still be woken: while the reader runs its sender  *)
(* is in `pending`, so the reader's exit fails it, and while nothing has   *)
(* failed its frame or its answer is on the way.                           *)
NoLostWaiter ==
    \A t \in Tasks : pc[t] = "waiting" /\ outcome[cur[t]] = "open" =>
        /\ reader = "run" => cur[t] \in pending
        /\ Healthy => InFlight(cur[t])

(* With nothing sent before the stream is open, the layer is the           *)
(* at-most-once FIFO remote call of RpcSpec: writer, wire, handler, reader *)
(* and every failure of theirs map to its steps or to stuttering.          *)
Rpc == INSTANCE RpcSpec
ImplementsRpc == Rpc!Spec

(* A request whose sender sits in `pending` while the reader runs comes to *)
(* an end whatever fails afterwards: answered, or failed by the clear at   *)
(* the reader's exit. No flow-control cycle between the two directions     *)
(* can hold it up.                                                         *)
ResolvedWhileReaderRuns ==
    \A i \in Ids : (i \in pending /\ reader = "run") ~> (outcome[i] # "open")

(* A frame in the shared inbox is dispatched unless something broke.       *)
QueuedIsServed ==
    \A i \in Ids : (\E f \in Members(inbox) : f.id = i) ~>
        (i \in Members(served) \/ ~up \/ handler = "ended" \/ mux = "dropped")

(* The module comment of client.rs: failures make all pending requests     *)
(* fail with ConnectionClosed, so no request waits for ever.               *)
EveryRequestEnds ==
    \A t \in Tasks : (pc[t] = "waiting") ~> (pc[t] # "waiting")
=============================================================================
