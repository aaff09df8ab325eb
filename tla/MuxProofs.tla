----------------------------- MODULE MuxProofs -----------------------------
(***************************************************************************)
(* Proofs about Mux for any number of tasks, calls, actions and any        *)
(* flow-control window.                                                    *)
(***************************************************************************)
EXTENDS Mux, QueueFacts, TLAPS

LEMMA InitType == Init => TypeOK
BY MuxAssumption DEF Init, TypeOK, Ids, Outcomes, Failures, Frame, Reply

(* Ids in use have been minted, and no two tasks work on the same one.     *)
CallOK ==
    /\ \A i \in Ids : i < next <=> call[i] # NoCall
    /\ \A t \in Tasks : pc[t] # "idle" => cur[t] \in Ids /\ cur[t] < next
    /\ \A t, u \in Tasks :
          pc[t] # "idle" /\ pc[u] # "idle" /\ t # u => cur[t] # cur[u]
    /\ \A c \in cold : c.id < next

LEMMA FrameOfCall ==
    ASSUME TypeOK, NEW i \in Ids, call[i] # NoCall
    PROVE  [id |-> i, action |-> call[i]] \in Frame
BY DEF TypeOK, Frame

(* One step per action: each keeps the types of what it assigns.           *)
LEMMA StepType == TypeOK /\ CallOK /\ [Next]_vars => TypeOK'
<1> SUFFICES ASSUME TypeOK, CallOK, [Next]_vars PROVE TypeOK'
    OBVIOUS
<1> USE MuxAssumption
<1> USE DEF TypeOK, CallOK, taskVars, wireVars, serverVars, coldVars, Goto,
            Finish, IsRequest
<1>1. ASSUME NEW t \in Tasks, NEW a \in Actions, Mint(t, a) PROVE TypeOK'
    <2>1. next \in Ids /\ next' \in 1..(MaxCalls + 1) /\ Len(issued) \in Nat
        BY <1>1 DEF Mint, Ids
    <2>2. /\ call' \in [Ids -> Actions \cup {NoCall}]
          /\ stamp' \in [Ids -> Nat]
        BY <1>1, <2>1 DEF Mint
    <2>3. cur' \in [Tasks -> 0..MaxCalls]
        BY <1>1, <2>1 DEF Mint, Ids
    <2>4. outcome' \in [Ids -> Outcomes]
        BY <1>1, <2>1 DEF Mint, Outcomes, Failures
    <2>5. pc' \in [Tasks -> {"idle", "minted", "registered", "waiting", "cold"}]
        BY <1>1 DEF Mint
    <2>6. QED
        BY <1>1, <2>1, <2>2, <2>3, <2>4, <2>5 DEF Mint
<1>2. ASSUME NEW t \in Tasks, OpenMux(t) PROVE TypeOK'
    BY <1>2 DEF OpenMux, Outcomes, Failures
<1>3. ASSUME NEW t \in Tasks, Register(t) PROVE TypeOK'
    BY <1>3 DEF Register
<1>4. ASSUME NEW t \in Tasks, PushRequest(t) PROVE TypeOK'
    <2>1. cur[t] \in Ids /\ call[cur[t]] # NoCall
        BY <1>4 DEF PushRequest
    <2>2. CASE writer = "run"
        <3>1. [id |-> cur[t], action |-> call[cur[t]]] \in Frame
            BY <2>1, FrameOfCall
        <3>2. /\ Append(inbox, [id |-> cur[t], action |-> call[cur[t]]])
                     \in Seq(Frame)
              /\ Append(issued, cur[t]) \in Seq(Ids)
            BY <2>1, <3>1, AppendFacts
        <3>3. QED
            BY <1>4, <2>2, <3>2 DEF PushRequest, Enqueue
    <2>3. CASE writer = "exited"
        BY <1>4, <2>3 DEF PushRequest, Enqueue, Outcomes, Failures
    <2>4. QED
        BY <2>2, <2>3
<1>5. ASSUME NEW t \in Tasks, Resume(t) PROVE TypeOK'
    BY <1>5 DEF Resume
<1>6. ASSUME NEW t \in Tasks, Cancel(t) PROVE TypeOK'
    BY <1>6 DEF Cancel, Outcomes, Failures
<1>7. ASSUME NEW t \in Tasks, SendHot(t) PROVE TypeOK'
    <2>1. cur[t] \in Ids /\ call[cur[t]] # NoCall
        BY <1>7 DEF SendHot
    <2>2. [id |-> cur[t], action |-> call[cur[t]]] \in Frame
        BY <2>1, FrameOfCall
    <2>5. /\ Append(inbox, [id |-> cur[t], action |-> call[cur[t]]])
                 \in Seq(Frame)
          /\ Append(issued, cur[t]) \in Seq(Ids)
        BY <2>1, <2>2, AppendFacts
    <2>3. outcome' \in [Ids -> Outcomes]
        BY <1>7 DEF SendHot, Outcomes, Failures
    <2>4. QED
        BY <1>7, <2>5, <2>3 DEF SendHot, Enqueue
<1>8. ASSUME NEW t \in Tasks, SendCold(t) PROVE TypeOK'
    BY <1>8 DEF SendCold
<1>9. ASSUME NEW t \in Tasks, SendSpawn(t) PROVE TypeOK'
    BY <1>9, AppendFacts DEF SendSpawn, Outcomes, Failures
<1>10. ASSUME NEW c \in cold, ColdShared(c) PROVE TypeOK'
    <2>1. c.id \in Ids /\ call[c.id] # NoCall
        OBVIOUS
    <2>2. [id |-> c.id, action |-> call[c.id]] \in Frame
        BY <2>1, FrameOfCall
    <2>3. Append(inbox, [id |-> c.id, action |-> call[c.id]]) \in Seq(Frame)
        BY <2>2, AppendFacts
    <2>4. QED
        BY <1>10, <2>3 DEF ColdShared, Enqueue
<1>11. ASSUME NEW c \in cold, ColdOwn(c) PROVE TypeOK'
    BY <1>11 DEF ColdOwn
<1>12. ASSUME NEW i \in aux, AuxDispatch(i) PROVE TypeOK'
    <2>1. CASE served' = Append(served, i)
        BY <1>12, <2>1, AppendFacts DEF AuxDispatch
    <2>2. CASE UNCHANGED served
        BY <1>12, <2>2 DEF AuxDispatch
    <2>3. QED
        BY <1>12, <2>1, <2>2 DEF AuxDispatch
<1>13. ASSUME DropMux PROVE TypeOK'
    BY <1>13 DEF DropMux
<1>14. ASSUME WriterWrite PROVE TypeOK'
    <2>1. inbox' \in Seq(Frame) /\ toServer' \in Seq(Frame)
        BY <1>14, TailFacts, AppendFacts DEF WriterWrite
    <2>2. QED
        BY <1>14, <2>1 DEF WriterWrite
<1>15. ASSUME WriterExit PROVE TypeOK'
    BY <1>15 DEF WriterExit
<1>16. ASSUME ReaderDeliver PROVE TypeOK'
    <2>1. Head(toClient) \in Reply /\ toClient' \in Seq(Reply)
        BY <1>16, TailFacts DEF ReaderDeliver
    <2>2. outcome' \in [Ids -> Outcomes] /\ pending' \in SUBSET Ids
        BY <1>16, <2>1 DEF ReaderDeliver, Reply, Outcomes
    <2>3. QED
        BY <1>16, <2>1, <2>2 DEF ReaderDeliver
<1>17. ASSUME ReaderExit PROVE TypeOK'
    BY <1>17 DEF ReaderExit, Outcomes, Failures
<1>18. ASSUME HandlerDispatch PROVE TypeOK'
    <2>1. Head(toServer) \in Frame /\ toServer' \in Seq(Frame)
        BY <1>18, TailFacts DEF HandlerDispatch
    <2>2. [id |-> Head(toServer).id, answer |-> Head(toServer).action] \in Reply
        BY <2>1 DEF Frame, Reply
    <2>3. <<[id |-> Head(toServer).id, answer |-> Head(toServer).action]>>
              \in Seq(Reply)
        BY <2>2
    <2>4. Append(served, Head(toServer).id) \in Seq(Ids)
        BY <2>1, AppendFacts DEF Frame
    <2>5. QED
        BY <1>18, <2>1, <2>3, <2>4 DEF HandlerDispatch
<1>19. ASSUME HandlerReply PROVE TypeOK'
    <2>1. toClient' \in Seq(Reply) /\ reply' \in Seq(Reply)
        BY <1>19, TailFacts, AppendFacts DEF HandlerReply
    <2>2. QED
        BY <1>19, <2>1 DEF HandlerReply
<1>20. ASSUME HandlerReplyLost PROVE TypeOK'
    BY <1>20 DEF HandlerReplyLost
<1>21. ASSUME HandlerEof PROVE TypeOK'
    BY <1>21 DEF HandlerEof
<1>22. ASSUME Disconnect PROVE TypeOK'
    <2>1. toServer' \in Seq(Frame) /\ toClient' \in Seq(Reply)
        BY <1>22, PrefixFacts DEF Disconnect
    <2>2. QED
        BY <1>22, <2>1 DEF Disconnect
<1>23. CASE UNCHANGED vars
    BY <1>23 DEF vars
<1>24. QED
    BY <1>1, <1>2, <1>3, <1>4, <1>5, <1>6, <1>7, <1>8, <1>9, <1>10, <1>11,
       <1>12, <1>13, <1>14, <1>15, <1>16, <1>17, <1>18, <1>19, <1>20, <1>21,
       <1>22, <1>23
    DEF Next, TaskStep, Writer, Reader, Handler

LEMMA StepCall == TypeOK /\ CallOK /\ [Next]_vars => CallOK'
<1> SUFFICES ASSUME TypeOK, CallOK, [Next]_vars PROVE CallOK'
    OBVIOUS
<1>0. /\ MaxCalls \in Nat /\ NoCall \notin Actions
      /\ next \in 1..(MaxCalls + 1)
      /\ call \in [Ids -> Actions \cup {NoCall}]
      /\ pc \in [Tasks -> {"idle", "minted", "registered", "waiting", "cold"}]
      /\ cur \in [Tasks -> 0..MaxCalls]
      /\ cold \in SUBSET [id : Ids, cell : {"unopened", "ready", "dropped"}]
    BY MuxAssumption DEF TypeOK
<1> USE <1>0
<1> USE DEF CallOK, taskVars, coldVars, Goto, Finish
<1>1. ASSUME NEW t \in Tasks, NEW a \in Actions, Mint(t, a) PROVE CallOK'
    <2>1. next \in Ids /\ a # NoCall
        BY <1>1 DEF Mint, Ids
    <2>2. next' = next + 1 /\ call' = [call EXCEPT ![next] = a]
        BY <1>1 DEF Mint
    <2>3. \A i \in Ids : i < next' <=> call'[i] # NoCall
        BY <2>1, <2>2 DEF Ids
    <2>4. \A u \in Tasks : pc'[u] # "idle" =>
              IF u = t THEN cur'[u] = next
                       ELSE pc[u] # "idle" /\ cur'[u] = cur[u]
        BY <1>1 DEF Mint
    <2>5. \A u \in Tasks : pc'[u] # "idle" => cur'[u] \in Ids /\ cur'[u] < next'
        BY <2>1, <2>2, <2>4 DEF Ids
    <2>6. \A u, v \in Tasks :
              pc'[u] # "idle" /\ pc'[v] # "idle" /\ u # v => cur'[u] # cur'[v]
        BY <2>1, <2>4 DEF Ids
    <2>7. \A c \in cold' : c.id < next'
        BY <1>1, <2>1, <2>2 DEF Mint, Ids
    <2>8. QED
        BY <2>3, <2>5, <2>6, <2>7
(* Every other step of a task leaves next, call and cur alone.             *)
<1>2. ASSUME NEW t \in Tasks, TaskStep(t) \/ Cancel(t) PROVE CallOK'
    <2>1. CASE OpenMux(t)
        BY <2>1 DEF OpenMux
    <2>2. CASE Register(t)
        BY <2>2 DEF Register
    <2>3. CASE PushRequest(t)
        BY <2>3 DEF PushRequest
    <2>4. CASE Resume(t)
        BY <2>4 DEF Resume
    <2>5. CASE SendHot(t)
        BY <2>5 DEF SendHot
    <2>6. CASE SendCold(t)
        BY <2>6 DEF SendCold
    <2>7. CASE Cancel(t)
        BY <2>7 DEF Cancel
    <2>8. CASE SendSpawn(t)
        <3>1. UNCHANGED <<next, call, cur>> /\ pc[t] # "idle"
            BY <2>8 DEF SendSpawn
        <3>2. \A u \in Tasks : pc'[u] # "idle" => pc[u] # "idle"
            BY <2>8 DEF SendSpawn
        <3>3. \A c \in cold' : c \in cold \/ c.id = cur[t]
            BY <2>8 DEF SendSpawn
        <3>4. QED
            BY <3>1, <3>2, <3>3
    <2>9. QED
        BY <1>2, <2>1, <2>2, <2>3, <2>4, <2>5, <2>6, <2>7, <2>8 DEF TaskStep
<1>3. ASSUME \/ \E c \in cold : ColdShared(c) \/ ColdOwn(c)
             \/ \E i \in aux : AuxDispatch(i)
             \/ DropMux \/ Writer \/ Reader \/ Handler \/ Disconnect
      PROVE  CallOK'
    <2>1. UNCHANGED taskVars /\ cold' \subseteq cold
        BY <1>3 DEF ColdShared, ColdOwn, AuxDispatch, DropMux, Writer,
            WriterWrite, WriterExit, Reader, ReaderDeliver, ReaderExit, Handler,
            HandlerDispatch, HandlerReply, HandlerReplyLost, HandlerEof,
            Disconnect
    <2>2. QED
        BY <2>1
<1>4. CASE UNCHANGED vars
    BY <1>4 DEF vars
<1>5. QED
    BY <1>1, <1>2, <1>3, <1>4 DEF Next

(* The types and the bookkeeping of ids are invariant, for any number of   *)
(* tasks and calls and whatever fails.                                     *)
THEOREM TypeCorrect == Spec => [](TypeOK /\ CallOK)
<1>1. Init => TypeOK /\ CallOK
    BY InitType, MuxAssumption DEF Init, CallOK, Ids
<1>2. TypeOK /\ CallOK /\ [Next]_vars => (TypeOK /\ CallOK)'
    BY StepType, StepCall
<1>3. QED
    BY <1>1, <1>2, PTL DEF Spec
-----------------------------------------------------------------------------
(* Answers.                                                                *)

(* What travels carries the action its id was minted for; an answer on its *)
(* way has been dispatched; only requests are waited for.                  *)
Tagged ==
    /\ \A k \in DOMAIN inbox : inbox[k].action = call[inbox[k].id]
    /\ \A k \in DOMAIN toServer : toServer[k].action = call[toServer[k].id]
    /\ \A k \in DOMAIN reply : /\ reply[k].answer = call[reply[k].id]
                               /\ reply[k].id \in Members(served)
    /\ \A k \in DOMAIN toClient : /\ toClient[k].answer = call[toClient[k].id]
                                  /\ toClient[k].id \in Members(served)
    /\ \A i \in pending : call[i] \in Requests

AnswerInv == Tagged /\ AnsweredFromOwnCall

LEMMA MembersOfAppend ==
    ASSUME NEW S, NEW s \in Seq(S), NEW e \in S
    PROVE  Members(Append(s, e)) = Members(s) \cup {e}
<1>1. /\ DOMAIN s = 1..Len(s) /\ DOMAIN Append(s, e) = 1..(Len(s) + 1)
      /\ Len(s) \in Nat
    BY AppendFacts
<1>2. \A k \in 1..Len(s) : Append(s, e)[k] = s[k]
    BY AppendFacts
<1>3. Append(s, e)[Len(s) + 1] = e
    BY AppendFacts
<1>4. ASSUME NEW x \in Members(Append(s, e)) PROVE x \in Members(s) \cup {e}
    BY <1>1, <1>2, <1>3 DEF Members
<1>5. ASSUME NEW x \in Members(s) \cup {e} PROVE x \in Members(Append(s, e))
    BY <1>1, <1>2, <1>3 DEF Members
<1>6. QED
    BY <1>4, <1>5

LEMMA StepAnswer ==
    TypeOK /\ CallOK /\ AnswerInv /\ [Next]_vars => AnswerInv'
<1> SUFFICES ASSUME TypeOK, CallOK, AnswerInv, [Next]_vars PROVE AnswerInv'
    OBVIOUS
<1>0. /\ call \in [Ids -> Actions \cup {NoCall}]
      /\ outcome \in [Ids -> Outcomes]
      /\ inbox \in Seq(Frame) /\ toServer \in Seq(Frame)
      /\ reply \in Seq(Reply) /\ toClient \in Seq(Reply)
      /\ served \in Seq(Ids) /\ pending \in SUBSET Ids
      /\ NoCall \notin Actions
      /\ Actions \cap ({"none", "open"} \cup Failures) = {}
    BY MuxAssumption DEF TypeOK
<1> USE <1>0
<1> USE DEF AnswerInv, Tagged, AnsweredFromOwnCall, taskVars, wireVars,
            serverVars, coldVars, Goto
(* A frame handed to the writer carries the action of its call.            *)
<1>1. ASSUME NEW i \in Ids, call[i] # NoCall, Enqueue(i)
      PROVE  /\ inbox' \in Seq(Frame)
             /\ \A k \in DOMAIN inbox' : inbox'[k].action = call[inbox'[k].id]
    BY <1>1, FrameOfCall, AppendFacts DEF Enqueue
<1>2. ASSUME NEW t \in Tasks, NEW a \in Actions, Mint(t, a) PROVE AnswerInv'
    <2>1. /\ next \in Ids /\ call[next] = NoCall
          /\ call' = [call EXCEPT ![next] = a]
          /\ UNCHANGED <<pending, inbox, toServer, reply, toClient, served>>
        BY <1>2 DEF Mint, CallOK, Ids, TypeOK
    <2>2. \A i \in Ids : call[i] \in Actions => call'[i] = call[i]
        BY <2>1
    <2>3. \A f \in Frame : f.id \in Ids /\ f.action \in Actions
        BY DEF Frame
    <2>4. \A r \in Reply : r.id \in Ids /\ r.answer \in Actions
        BY DEF Reply
    <2>5. Tagged'
        BY <2>1, <2>2, <2>3, <2>4 DEF Actions
    <2>6. \A i \in Ids : outcome'[i] \in Actions =>
              outcome[i] \in Actions /\ outcome'[i] = outcome[i]
        BY <1>2, <2>1 DEF Mint, Failures
    <2>7. QED
        BY <2>1, <2>2, <2>5, <2>6 DEF Actions
<1>3. ASSUME NEW t \in Tasks, TaskStep(t) \/ Cancel(t) PROVE AnswerInv'
    <2>1. CASE OpenMux(t)
        BY <2>1 DEF OpenMux, Finish, TypeOK, Failures
    <2>2. CASE Register(t)
        BY <2>2 DEF Register, IsRequest
    <2>3. CASE PushRequest(t)
        <3>1. cur[t] \in Ids /\ call[cur[t]] # NoCall
            BY <2>3 DEF PushRequest, CallOK, TypeOK
        <3>2. \A k \in DOMAIN inbox' : inbox'[k].action = call[inbox'[k].id]
            BY <2>3, <3>1, <1>1 DEF PushRequest
        <3>3. QED
            BY <2>3, <3>1, <3>2 DEF PushRequest, Finish, Failures
    <2>4. CASE Resume(t)
        BY <2>4 DEF Resume
    <2>5. CASE SendHot(t)
        <3>1. cur[t] \in Ids /\ call[cur[t]] # NoCall
            BY <2>5 DEF SendHot, CallOK, TypeOK
        <3>2. \A k \in DOMAIN inbox' : inbox'[k].action = call[inbox'[k].id]
            BY <2>5, <3>1, <1>1 DEF SendHot
        <3>3. QED
            BY <2>5, <3>1, <3>2 DEF SendHot, Finish, Failures
    <2>6. CASE SendCold(t)
        BY <2>6 DEF SendCold
    <2>7. CASE SendSpawn(t)
        BY <2>7 DEF SendSpawn, Finish, TypeOK, Failures
    <2>8. CASE Cancel(t)
        BY <2>8 DEF Cancel, Finish, TypeOK, Failures
    <2>9. QED
        BY <1>3, <2>1, <2>2, <2>3, <2>4, <2>5, <2>6, <2>7, <2>8 DEF TaskStep
<1>4. ASSUME NEW c \in cold, ColdShared(c) PROVE AnswerInv'
    <2>1. c.id \in Ids /\ call[c.id] # NoCall
        BY DEF CallOK, TypeOK
    <2>2. \A k \in DOMAIN inbox' : inbox'[k].action = call[inbox'[k].id]
        BY <1>4, <2>1, <1>1 DEF ColdShared
    <2>3. QED
        BY <1>4, <2>2 DEF ColdShared
<1>5. ASSUME NEW c \in cold, ColdOwn(c) PROVE AnswerInv'
    BY <1>5 DEF ColdOwn
<1>6. ASSUME NEW i \in aux, AuxDispatch(i) PROVE AnswerInv'
    <2>1. CASE served' = Append(served, i)
        BY <1>6, <2>1, MembersOfAppend DEF AuxDispatch, TypeOK
    <2>2. CASE UNCHANGED served
        BY <1>6, <2>2 DEF AuxDispatch, TypeOK
    <2>3. QED
        BY <1>6, <2>1, <2>2 DEF AuxDispatch
<1>7. ASSUME DropMux PROVE AnswerInv'
    BY <1>7 DEF DropMux
<1>8. ASSUME WriterWrite PROVE AnswerInv'
    BY <1>8, TailFacts, AppendFacts DEF WriterWrite
<1>9. ASSUME WriterExit PROVE AnswerInv'
    BY <1>9 DEF WriterExit
<1>10. ASSUME ReaderDeliver PROVE AnswerInv'
    BY <1>10, TailFacts DEF ReaderDeliver, Reply
<1>11. ASSUME ReaderExit PROVE AnswerInv'
    BY <1>11 DEF ReaderExit, Failures
<1>12. ASSUME HandlerDispatch PROVE AnswerInv'
    <2> DEFINE f == Head(toServer)
    <2>1. /\ f \in Frame /\ f.id \in Ids /\ f.action = call[f.id]
          /\ \A k \in DOMAIN toServer' : toServer'[k].action = call[toServer'[k].id]
        <3>1. toServer # <<>> /\ toServer' = Tail(toServer)
            BY <1>12 DEF HandlerDispatch
        <3>2. f \in Frame /\ f = toServer[1] /\ 1 \in DOMAIN toServer
            BY <3>1, TailFacts
        <3>3. \A k \in DOMAIN toServer' : /\ k + 1 \in DOMAIN toServer
                                         /\ toServer'[k] = toServer[k + 1]
            BY <3>1, TailFacts
        <3>4. UNCHANGED call
            BY <1>12 DEF HandlerDispatch
        <3>5. QED
            BY <3>2, <3>3, <3>4 DEF Frame
    <2>a. \/ UNCHANGED <<served, reply>>
          \/ /\ served' = Append(served, f.id)
             /\ \/ reply' = reply
                \/ reply' = <<[id |-> f.id, answer |-> f.action]>>
        BY <1>12 DEF HandlerDispatch
    <2>b. served' = Append(served, f.id) => Members(served') = Members(served) \cup {f.id}
        BY <2>1, MembersOfAppend DEF TypeOK
    <2>2. \/ Members(served') = Members(served) \cup {f.id}
          \/ Members(served') = Members(served) /\ reply' = reply
        <3>1. UNCHANGED served => Members(served') = Members(served)
            OBVIOUS
        <3>2. QED
            BY ONLY <2>a, <2>b, <3>1
    <2>3. \/ reply' = reply
          \/ /\ reply' = <<[id |-> f.id, answer |-> f.action]>>
             /\ Members(served') = Members(served) \cup {f.id}
        BY <2>a, <2>b
    <2>4. UNCHANGED <<call, pending, inbox, toClient, outcome>>
        BY <1>12 DEF HandlerDispatch
    <2>5. CASE reply' = reply
        BY <2>1, <2>2, <2>4, <2>5
    <2>6. CASE reply' = <<[id |-> f.id, answer |-> f.action]>>
        <3>1. DOMAIN reply' = {1} /\ reply'[1].id = f.id /\ reply'[1].answer = f.action
            BY <2>6
        <3>2. QED
            BY <2>1, <2>2, <2>4, <3>1
    <2>7. QED
        BY <2>3, <2>5, <2>6
<1>13. ASSUME HandlerReply PROVE AnswerInv'
    BY <1>13, TailFacts, AppendFacts DEF HandlerReply
<1>14. ASSUME HandlerReplyLost PROVE AnswerInv'
    BY <1>14 DEF HandlerReplyLost
<1>15. ASSUME HandlerEof PROVE AnswerInv'
    BY <1>15 DEF HandlerEof
<1>16. ASSUME Disconnect PROVE AnswerInv'
    BY <1>16, PrefixFacts DEF Disconnect
<1>17. CASE UNCHANGED vars
    BY <1>17 DEF vars
<1>18. QED
    BY <1>2, <1>3, <1>4, <1>5, <1>6, <1>7, <1>8, <1>9, <1>10, <1>11, <1>12,
       <1>13, <1>14, <1>15, <1>16, <1>17 DEF Next, Writer, Reader, Handler
(* Every answer a caller is given is the answer to its own request, which  *)
(* the engine has dispatched: demultiplexing by RequestId is right for any *)
(* number of tasks and calls, with either path of `send`, and through any  *)
(* failure.                                                                *)
THEOREM AnswersCorrect == Spec => []AnsweredFromOwnCall
<1>1. Init => AnswerInv
    BY MuxAssumption DEF Init, AnswerInv, Tagged, AnsweredFromOwnCall
<1>2. TypeOK /\ CallOK /\ AnswerInv /\ [Next]_vars => AnswerInv'
    BY StepAnswer
<1>3. AnswerInv => AnsweredFromOwnCall
    BY DEF AnswerInv
<1>4. QED
    BY <1>1, <1>2, <1>3, TypeCorrect, PTL DEF Spec
-----------------------------------------------------------------------------
(* Order, with nothing sent before the stream is open.                     *)

(* Ids are handed over once, after they were minted, and only ids handed   *)
(* over earlier count in their stamps.                                     *)
Handover ==
    /\ \A i \in Ids : stamp[i] <= Len(issued)
    /\ \A p \in 1..Len(issued) : issued[p] < next /\ stamp[issued[p]] < p
    /\ \A p, q \in 1..Len(issued) : issued[p] = issued[q] => p = q
    /\ \A t \in Tasks : pc[t] \in {"minted", "registered"} =>
          \A p \in 1..Len(issued) : issued[p] # cur[t]

(* The cold path of `send` is never taken.                                 *)
NoCold ==
    /\ cold = {} /\ aux = {}
    /\ \A t \in Tasks : /\ pc[t] # "cold"
                        /\ pc[t] = "minted" /\ ~IsRequest(t) => mux # "unopened"

(* The history `issued` is, in this order: what was served, what is on the *)
(* wire and, until something breaks, what is in the inbox.                 *)
Aligned ==
    /\ Len(served) + Len(toServer) <= Len(issued)
    /\ \A p \in 1..Len(served) : served[p] = issued[p]
    /\ \A k \in 1..Len(toServer) : toServer[k].id = issued[Len(served) + k]
    /\ up /\ writer = "run" =>
          /\ Len(served) + Len(toServer) + Len(inbox) = Len(issued)
          /\ \A k \in 1..Len(inbox) :
                inbox[k].id = issued[Len(served) + Len(toServer) + k]

(* Once the handler has ended, at a frame it could not read or otherwise,  *)
(* what it served still is how `issued` begins.                            *)
Begins ==
    /\ Len(served) <= Len(issued)
    /\ \A p \in 1..Len(served) : served[p] = issued[p]
Pipeline == Begins /\ (handler = "run" => Aligned)

OrderInv == Handover /\ NoCold /\ Pipeline

(* Handing over an id keeps Handover.                                      *)
LEMMA StepHandover ==
    ASSUME TypeOK, Handover, NEW t \in Tasks, cur[t] \in Ids, cur[t] < next,
           pc[t] \in {"minted", "registered"},
           \A u \in Tasks : pc[u] \in {"minted", "registered"} /\ u # t =>
                            cur[u] # cur[t],
           issued' = Append(issued, cur[t]), UNCHANGED <<next, stamp, cur>>,
           \A u \in Tasks : pc'[u] \in {"minted", "registered"} =>
                            u # t /\ pc[u] = pc'[u]
    PROVE  Handover'
<1>1. /\ issued \in Seq(Ids) /\ Len(issued) \in Nat /\ stamp \in [Ids -> Nat]
      /\ Len(issued') = Len(issued) + 1 /\ issued'[Len(issued) + 1] = cur[t]
      /\ \A k \in 1..Len(issued) : issued'[k] = issued[k]
      /\ next \in Nat
    BY AppendFacts, MuxAssumption DEF TypeOK, Ids
<1>2. \A i \in Ids : stamp'[i] <= Len(issued')
    BY <1>1 DEF Handover
<1>3. \A p \in 1..Len(issued') : issued'[p] < next' /\ stamp'[issued'[p]] < p
    BY <1>1 DEF Handover
<1>4. \A p, q \in 1..Len(issued') : issued'[p] = issued'[q] => p = q
    BY <1>1 DEF Handover
<1>5. ASSUME NEW u \in Tasks, pc'[u] \in {"minted", "registered"},
             NEW p \in 1..Len(issued')
      PROVE  issued'[p] # cur'[u]
    <2>1. u # t /\ pc[u] \in {"minted", "registered"} /\ cur'[u] = cur[u]
        BY <1>5
    <2>2. CASE p \in 1..Len(issued)
        BY <2>1, <2>2, <1>1 DEF Handover
    <2>3. CASE p = Len(issued) + 1
        BY <2>1, <2>3, <1>1
    <2>4. p \in 1..Len(issued) \/ p = Len(issued) + 1
        BY ONLY <1>1, p \in 1..Len(issued')
    <2>5. QED
        BY <2>2, <2>3, <2>4
<1>6. QED
    BY <1>2, <1>3, <1>4, <1>5 DEF Handover

(* Handing a frame to the writer keeps Aligned.                            *)
LEMMA StepAligned ==
    ASSUME TypeOK, Aligned, NEW i \in Ids, call[i] # NoCall, Enqueue(i),
           issued' = Append(issued, i),
           UNCHANGED <<served, toServer, up, writer>>
    PROVE  Aligned'
<1>1. /\ Len(issued) \in Nat
      /\ Len(issued') = Len(issued) + 1 /\ issued'[Len(issued) + 1] = i
      /\ \A k \in 1..Len(issued) : issued'[k] = issued[k]
    BY AppendFacts DEF TypeOK
<1>2. /\ Len(inbox) \in Nat /\ Len(inbox') = Len(inbox) + 1
      /\ inbox'[Len(inbox) + 1].id = i
      /\ \A k \in 1..Len(inbox) : inbox'[k] = inbox[k]
    <2>1. inbox \in Seq(Frame) /\ [id |-> i, action |-> call[i]] \in Frame
        BY FrameOfCall DEF TypeOK
    <2>2. inbox' = Append(inbox, [id |-> i, action |-> call[i]])
        BY DEF Enqueue
    <2>3. QED
        BY <2>1, <2>2, AppendFacts
<1>3. Len(served) \in Nat /\ Len(toServer) \in Nat
    BY DEF TypeOK
<1>4. /\ Len(served) + Len(toServer) <= Len(issued)
      /\ \A p \in 1..Len(served) : served[p] = issued[p]
      /\ \A k \in 1..Len(toServer) : toServer[k].id = issued[Len(served) + k]
    BY DEF Aligned
<1>5. Len(served) + Len(toServer) <= Len(issued')
    BY ONLY <1>1, <1>3, <1>4
<1>6. \A p \in 1..Len(served) : served[p] = issued'[p]
    BY ONLY <1>1, <1>3, <1>4
<1>7. \A k \in 1..Len(toServer) : toServer[k].id = issued'[Len(served) + k]
    BY ONLY <1>1, <1>3, <1>4
<1>8. ASSUME up, writer = "run"
      PROVE  /\ Len(served) + Len(toServer) + Len(inbox') = Len(issued')
             /\ \A k \in 1..Len(inbox') :
                   inbox'[k].id = issued'[Len(served) + Len(toServer) + k]
    <2>1. /\ Len(served) + Len(toServer) + Len(inbox) = Len(issued)
          /\ \A k \in 1..Len(inbox) :
                inbox[k].id = issued[Len(served) + Len(toServer) + k]
        BY <1>8 DEF Aligned
    <2>2. \A k \in 1..Len(inbox) :
              inbox'[k].id = issued'[Len(served) + Len(toServer) + k]
        BY ONLY <2>1, <1>1, <1>2, <1>3
    <2>3. inbox'[Len(inbox) + 1].id
              = issued'[Len(served) + Len(toServer) + (Len(inbox) + 1)]
        BY ONLY <2>1, <1>1, <1>2, <1>3
    <2>4. Len(served) + Len(toServer) + Len(inbox') = Len(issued')
        <3>1. /\ Len(issued') = Len(issued) + 1 /\ Len(inbox') = Len(inbox) + 1
              /\ Len(issued) \in Nat /\ Len(inbox) \in Nat
            BY <1>1, <1>2
        <3>2. QED
            BY ONLY <2>1, <3>1, <1>3
    <2>5. ASSUME NEW k \in 1..Len(inbox')
          PROVE  inbox'[k].id = issued'[Len(served) + Len(toServer) + k]
        <3>1. k \in 1..Len(inbox) \/ k = Len(inbox) + 1
            BY ONLY <1>2, k \in 1..Len(inbox')
        <3>2. QED
            BY ONLY <3>1, <2>2, <2>3
    <2>6. QED
        BY ONLY <2>4, <2>5
<1>9. QED
    BY ONLY <1>5, <1>6, <1>7, <1>8, UNCHANGED <<served, toServer, up, writer>>
    DEF Aligned

(* More is handed over, or nothing: what was served still is the beginning. *)
LEMMA BeginsStays ==
    ASSUME TypeOK, Begins, UNCHANGED served,
           issued' = issued \/ \E i \in Ids : issued' = Append(issued, i)
    PROVE  Begins'
<1>0. issued \in Seq(Ids) /\ Len(issued) \in Nat /\ Len(served) \in Nat
    BY DEF TypeOK
<1>1. /\ Len(issued) \in Nat /\ Len(served) \in Nat /\ Len(issued') \in Nat
      /\ Len(issued) <= Len(issued')
      /\ \A k \in 1..Len(issued) : issued'[k] = issued[k]
    <2>1. CASE issued' = issued
        BY <1>0, <2>1
    <2>2. ASSUME NEW i \in Ids, issued' = Append(issued, i)
          PROVE  /\ Len(issued') = Len(issued) + 1
                 /\ \A k \in 1..Len(issued) : issued'[k] = issued[k]
        BY ONLY <1>0, <2>2, i \in Ids, AppendFacts
    <2>3. QED
        BY <1>0, <2>1, <2>2
<1>2. Len(served) <= Len(issued') /\ \A p \in 1..Len(served) : served[p] = issued'[p]
    BY ONLY <1>1, Begins DEF Begins
<1>3. QED
    BY ONLY <1>2, UNCHANGED served DEF Begins

LEMMA StepPipeline ==
    ASSUME TypeOK, Pipeline, NEW i \in Ids, call[i] # NoCall, Enqueue(i),
           issued' = Append(issued, i),
           UNCHANGED <<served, toServer, up, writer, handler>>
    PROVE  Pipeline'
<1>1. Begins'
    BY BeginsStays DEF Pipeline
<1>2. ASSUME handler = "run" PROVE Aligned'
    BY <1>2, StepAligned DEF Pipeline
<1>3. QED
    BY <1>1, <1>2 DEF Pipeline

(* What the writer takes from the inbox it puts at the end of the wire ... *)
LEMMA WriteAligned ==
    ASSUME TypeOK, Aligned, WriterWrite
    PROVE  Aligned'
<1>0. /\ Len(issued) \in Nat /\ Len(served) \in Nat /\ Len(inbox) \in Nat
      /\ Len(toServer) \in Nat
      /\ issued \in Seq(Ids) /\ served \in Seq(Ids)
      /\ inbox \in Seq(Frame) /\ toServer \in Seq(Frame)
    BY DEF TypeOK
<1> USE <1>0
<1>1. /\ inbox # <<>> /\ inbox' = Tail(inbox)
      /\ toServer' = Append(toServer, Head(inbox))
      /\ up /\ writer = "run"
      /\ UNCHANGED <<issued, served, up, writer>>
    BY DEF WriterWrite, taskVars, serverVars
<1>2. /\ Head(inbox) \in Frame /\ Head(inbox) = inbox[1] /\ Len(inbox) > 0
      /\ Len(inbox') = Len(inbox) - 1
      /\ \A k \in 1..Len(inbox') : inbox'[k] = inbox[k + 1]
    BY <1>1, TailFacts
<1>3. /\ Len(toServer') = Len(toServer) + 1
      /\ toServer'[Len(toServer) + 1] = inbox[1]
      /\ \A k \in 1..Len(toServer) : toServer'[k] = toServer[k]
    BY <1>1, <1>2, AppendFacts
<1>4. /\ Len(served) + Len(toServer) + Len(inbox) = Len(issued)
      /\ \A k \in 1..Len(inbox) :
            inbox[k].id = issued[Len(served) + Len(toServer) + k]
    BY <1>1 DEF Aligned
<1>5. ASSUME NEW k \in 1..Len(toServer')
      PROVE  toServer'[k].id = issued'[Len(served') + k]
    <2>1. CASE k \in 1..Len(toServer)
        <3>1. toServer[k].id = issued[Len(served) + k]
            BY <2>1 DEF Aligned
        <3>2. toServer'[k] = toServer[k]
            BY <2>1, <1>3
        <3>3. QED
            BY ONLY <3>1, <3>2, <1>1
    <2>2. CASE k = Len(toServer) + 1
        <3>1. 1 \in 1..Len(inbox)
            BY ONLY <1>2, Len(inbox) \in Nat
        <3>2. inbox[1].id = issued[Len(served) + Len(toServer) + 1]
            BY ONLY <3>1, <1>4
        <3>3. Len(served) + Len(toServer) + 1 = Len(served) + k
            BY ONLY <2>2, <1>0
        <3>4. toServer'[k] = inbox[1]
            BY ONLY <2>2, <1>3
        <3>5. QED
            BY ONLY <3>2, <3>3, <3>4, <1>1
    <2>3. k \in 1..Len(toServer) \/ k = Len(toServer) + 1
        BY ONLY <1>3, <1>0, k \in 1..Len(toServer')
    <2>4. QED
        BY <2>1, <2>2, <2>3
<1>6. ASSUME NEW k \in 1..Len(inbox')
      PROVE  inbox'[k].id = issued'[Len(served') + Len(toServer') + k]
    <2>1. k + 1 \in 1..Len(inbox) /\ inbox'[k] = inbox[k + 1] /\ k \in Nat
        BY ONLY <1>2, <1>0, k \in 1..Len(inbox')
    <2>2. inbox[k + 1].id = issued[Len(served) + Len(toServer) + (k + 1)]
        BY ONLY <2>1, <1>4
    <2>3. Len(toServer') = Len(toServer) + 1
        BY <1>3
    <2>4. Len(served) + (Len(toServer) + 1) + k
              = Len(served) + Len(toServer) + (k + 1)
        BY ONLY <2>1, <1>0
    <2>5. QED
        BY ONLY <2>1, <2>2, <2>3, <2>4, <1>1
<1>7. /\ Len(served') + Len(toServer') + Len(inbox') = Len(issued')
      /\ Len(served') + Len(toServer') <= Len(issued')
    BY <1>1, <1>2, <1>3, <1>4
<1>8. \A p \in 1..Len(served') : served'[p] = issued'[p]
    BY <1>1 DEF Aligned
<1>9. QED
    BY <1>5, <1>6, <1>7, <1>8 DEF Aligned

(* ... and what the handler takes off its front it has dispatched last.    *)
LEMMA DispatchAligned ==
    ASSUME TypeOK, Aligned, toServer # <<>>, toServer' = Tail(toServer),
           served' = Append(served, Head(toServer).id),
           UNCHANGED <<issued, inbox, up, writer>>
    PROVE  Aligned'
<1>0. /\ Len(issued) \in Nat /\ Len(served) \in Nat /\ Len(inbox) \in Nat
      /\ Len(toServer) \in Nat
      /\ issued \in Seq(Ids) /\ served \in Seq(Ids)
      /\ inbox \in Seq(Frame) /\ toServer \in Seq(Frame)
    BY DEF TypeOK
<1> USE <1>0
<1>1. /\ toServer # <<>> /\ toServer' = Tail(toServer)
      /\ served' = Append(served, Head(toServer).id)
      /\ UNCHANGED <<issued, inbox, up, writer>>
    OBVIOUS
<1>2. /\ Head(toServer) \in Frame /\ Head(toServer) = toServer[1]
      /\ Len(toServer) > 0 /\ Len(toServer') = Len(toServer) - 1
      /\ \A k \in 1..Len(toServer') : toServer'[k] = toServer[k + 1]
    BY <1>1, TailFacts
<1>3. Head(toServer).id \in Ids
    BY <1>2 DEF Frame
<1>4. /\ Len(served') = Len(served) + 1
      /\ served'[Len(served) + 1] = toServer[1].id
      /\ \A k \in 1..Len(served) : served'[k] = served[k]
    BY <1>1, <1>2, <1>3, AppendFacts
<1>5. Len(served') + Len(toServer') = Len(served) + Len(toServer)
    BY <1>2, <1>4
<1>6. ASSUME NEW p \in 1..Len(served') PROVE served'[p] = issued'[p]
    <2>1. CASE p \in 1..Len(served)
        <3>1. served[p] = issued[p]
            BY <2>1 DEF Aligned
        <3>2. QED
            BY ONLY <2>1, <3>1, <1>1, <1>4
    <2>2. CASE p = Len(served) + 1
        <3>1. 1 \in 1..Len(toServer)
            BY ONLY <1>2, <1>0
        <3>2. toServer[1].id = issued[Len(served) + 1]
            BY <3>1 DEF Aligned
        <3>3. QED
            BY ONLY <2>2, <3>2, <1>1, <1>4
    <2>3. p \in 1..Len(served) \/ p = Len(served) + 1
        BY ONLY <1>4, <1>0, p \in 1..Len(served')
    <2>4. QED
        BY <2>1, <2>2, <2>3
<1>7. ASSUME NEW k \in 1..Len(toServer')
      PROVE  toServer'[k].id = issued'[Len(served') + k]
    <2>1. /\ k + 1 \in 1..Len(toServer) /\ toServer'[k] = toServer[k + 1]
          /\ k \in Nat
        BY ONLY <1>2, <1>0, k \in 1..Len(toServer')
    <2>2. toServer[k + 1].id = issued[Len(served) + (k + 1)]
        BY <2>1 DEF Aligned
    <2>3. Len(served') = Len(served) + 1
        BY <1>4
    <2>4. Len(served') + k = Len(served) + (k + 1)
        BY ONLY <2>1, <2>3, <1>0
    <2>5. QED
        BY ONLY <2>1, <2>2, <2>4, <1>1
<1>8. up' /\ writer' = "run" =>
          /\ Len(served') + Len(toServer') + Len(inbox') = Len(issued')
          /\ \A k \in 1..Len(inbox') :
                inbox'[k].id = issued'[Len(served') + Len(toServer') + k]
    <2>1. up /\ writer = "run" =>
              /\ Len(served) + Len(toServer) + Len(inbox) = Len(issued)
              /\ \A k \in 1..Len(inbox) :
                    inbox[k].id = issued[Len(served) + Len(toServer) + k]
        BY DEF Aligned
    <2>2. /\ inbox' = inbox /\ issued' = issued /\ up' = up /\ writer' = writer
        BY <1>1
    <2>3. QED
        BY ONLY <2>1, <2>2, <1>5
<1>9. Len(served') + Len(toServer') <= Len(issued')
    BY <1>1, <1>5 DEF Aligned
<1>10. QED
    BY <1>6, <1>7, <1>8, <1>9 DEF Aligned

LEMMA StepOrder ==
    ASSUME HelloFirst
    PROVE  TypeOK /\ CallOK /\ OrderInv /\ [Next]_vars => OrderInv'
<1> SUFFICES ASSUME TypeOK, CallOK, OrderInv, [Next]_vars PROVE OrderInv'
    OBVIOUS
<1>0. /\ MaxCalls \in Nat /\ NoCall \notin Actions /\ Ids = 1..MaxCalls
      /\ next \in 1..(MaxCalls + 1) /\ stamp \in [Ids -> Nat]
      /\ call \in [Ids -> Actions \cup {NoCall}]
      /\ pc \in [Tasks -> {"idle", "minted", "registered", "waiting", "cold"}]
      /\ cur \in [Tasks -> 0..MaxCalls]
      /\ Len(issued) \in Nat /\ Len(served) \in Nat /\ Len(inbox) \in Nat
      /\ Len(toServer) \in Nat
      /\ issued \in Seq(Ids) /\ served \in Seq(Ids)
      /\ inbox \in Seq(Frame) /\ toServer \in Seq(Frame)
    BY MuxAssumption DEF TypeOK, Ids
<1>a. \A u \in Tasks : /\ pc[u] # "cold"
                       /\ pc[u] = "minted" /\ call[cur[u]] \notin Requests =>
                             mux # "unopened"
    <2>1. NoCold
        BY DEF OrderInv
    <2>2. QED
        BY ONLY <2>1 DEF NoCold, IsRequest
<1> USE <1>0
<1> USE DEF OrderInv, taskVars, wireVars, serverVars, coldVars, Goto, IsRequest,
            Finish
(* What a step leaves alone stays in order.                                *)
<1>1. ASSUME UNCHANGED <<next, stamp, cur, issued>>,
             \A t \in Tasks : pc'[t] \in {"minted", "registered"} =>
                              pc[t] \in {"minted", "registered"}
      PROVE  Handover'
    BY <1>1 DEF Handover
<1>2. ASSUME UNCHANGED <<issued, served, toServer, inbox>>,
             up' /\ writer' = "run" => up /\ writer = "run",
             handler' = "run" => handler = "run"
      PROVE  Pipeline'
    BY <1>2 DEF Pipeline, Begins, Aligned
<1>3. ASSUME UNCHANGED <<cold, aux, call, cur, mux>>,
             \A t \in Tasks : pc'[t] \in {"minted", "cold"} => pc'[t] = pc[t]
      PROVE  NoCold'
    BY <1>3 DEF NoCold
<1>4. ASSUME NEW t \in Tasks, NEW a \in Actions, Mint(t, a) PROVE OrderInv'
    <2>1. /\ next \in Ids /\ next' = next + 1 /\ cur' = [cur EXCEPT ![t] = next]
          /\ stamp' = [stamp EXCEPT ![next] = Len(issued)]
          /\ call' = [call EXCEPT ![next] = a]
          /\ pc' = pc \/ pc' = [pc EXCEPT ![t] = "minted"]
          /\ pc[t] = "idle" /\ (a \in Sends => mux = "ready")
          /\ UNCHANGED <<mux, issued, served, toServer, inbox, up, writer, cold,
                         aux, handler>>
        BY <1>4 DEF Mint
    <2>2. \A p \in 1..Len(issued) : issued[p] \in Ids /\ issued[p] < next
        <3>1. Handover /\ issued \in Seq(Ids)
            OBVIOUS
        <3>2. QED  BY ONLY <3>1 DEF Handover
    <2>3. \A i \in Ids : stamp'[i] <= Len(issued')
        BY <2>1 DEF Handover
    <2>4. \A p \in 1..Len(issued') : issued'[p] < next' /\ stamp'[issued'[p]] < p
        BY <2>1, <2>2 DEF Handover
    <2>5. ASSUME NEW u \in Tasks, pc'[u] \in {"minted", "registered"},
                 NEW p \in 1..Len(issued')
          PROVE  issued'[p] # cur'[u]
        <3>1. CASE u = t
            BY <2>1, <2>2, <3>1
        <3>2. CASE u # t
            BY <2>1, <2>2, <2>5, <3>2 DEF Handover
        <3>3. QED
            BY <3>1, <3>2
    <2>6. Handover'
        BY <2>1, <2>3, <2>4, <2>5 DEF Handover
    <2>7. ASSUME NEW u \in Tasks
          PROVE  /\ pc'[u] # "cold"
                 /\ pc'[u] = "minted" /\ call'[cur'[u]] \notin Requests =>
                       mux' # "unopened"
        <3>1. CASE u = t
            BY <2>1, <3>1 DEF NoCold, Actions
        <3>2. CASE u # t
            <4>1. pc'[u] = pc[u] /\ cur'[u] = cur[u]
                BY <2>1, <3>2
            <4>2. pc[u] = "minted" => call'[cur[u]] = call[cur[u]]
                <5>1. pc[u] = "minted" => cur[u] \in Ids /\ cur[u] < next
                    BY DEF CallOK
                <5>2. QED
                    BY ONLY <5>1, <2>1, <1>0
            <4>3. QED
                BY ONLY <2>1, <4>1, <4>2, <1>a, u \in Tasks
        <3>3. QED
            BY <3>1, <3>2
    <2>8. NoCold'
        BY <2>1, <2>7 DEF NoCold
    <2>9. QED
        BY <2>1, <2>6, <2>8, <1>2
<1>5. ASSUME NEW t \in Tasks, TaskStep(t) \/ Cancel(t) PROVE OrderInv'
    <2>1. CASE OpenMux(t)
        <3>1. NoCold'
            BY <2>1 DEF OpenMux, NoCold
        <3>2. Handover' /\ Pipeline'
            BY <2>1, <1>1, <1>2 DEF OpenMux
        <3>3. QED
            BY <3>1, <3>2
    <2>2. CASE Register(t)
        BY <2>2, <1>1, <1>2, <1>3 DEF Register
    <2>3. CASE PushRequest(t)
        <3>1. /\ cur[t] \in Ids /\ cur[t] < next /\ call[cur[t]] # NoCall
              /\ pc[t] \in {"minted", "registered"}
              /\ \A u \in Tasks : pc[u] \in {"minted", "registered"} /\ u # t =>
                                  cur[u] # cur[t]
            BY <2>3 DEF PushRequest, CallOK
        <3>2. /\ UNCHANGED <<next, stamp, cur, call, served, toServer, up, writer,
                             mux, cold, aux, handler>>
              /\ \A u \in Tasks : pc'[u] \in {"minted", "registered", "cold"} =>
                                  u # t /\ pc[u] = pc'[u]
            BY <2>3 DEF PushRequest
        <3>3. CASE Enqueue(cur[t]) /\ issued' = Append(issued, cur[t])
            BY <3>1, <3>2, <3>3, <1>3, StepHandover, StepPipeline
        <3>4. CASE UNCHANGED <<inbox, issued>>
            BY <3>2, <3>4, <1>1, <1>2, <1>3
        <3>5. QED
            BY <2>3, <3>3, <3>4 DEF PushRequest
    <2>4. CASE Resume(t)
        BY <2>4, <1>1, <1>2, <1>3 DEF Resume
    <2>5. CASE SendHot(t)
        <3>1. /\ cur[t] \in Ids /\ cur[t] < next /\ call[cur[t]] # NoCall
              /\ pc[t] \in {"minted", "registered"}
              /\ \A u \in Tasks : pc[u] \in {"minted", "registered"} /\ u # t =>
                                  cur[u] # cur[t]
            BY <2>5 DEF SendHot, CallOK
        <3>2. /\ UNCHANGED <<next, stamp, cur, call, served, toServer, up, writer,
                             mux, cold, aux, handler>>
              /\ \A u \in Tasks : pc'[u] \in {"minted", "registered", "cold"} =>
                                  u # t /\ pc[u] = pc'[u]
            BY <2>5 DEF SendHot
        <3>3. CASE Enqueue(cur[t]) /\ issued' = Append(issued, cur[t])
            BY <3>1, <3>2, <3>3, <1>3, StepHandover, StepPipeline
        <3>4. CASE UNCHANGED <<inbox, issued>>
            BY <3>2, <3>4, <1>1, <1>2, <1>3
        <3>5. QED
            BY <2>5, <3>3, <3>4 DEF SendHot
    <2>6. CASE SendCold(t)
        BY <2>6 DEF SendCold, NoCold
    <2>7. CASE SendSpawn(t)
        <3>1. pc[t] = "cold"
            BY <2>7 DEF SendSpawn
        <3>2. QED
            BY ONLY <3>1, <1>a, t \in Tasks
    <2>8. CASE Cancel(t)
        BY <2>8, <1>1, <1>2, <1>3 DEF Cancel
    <2>9. QED
        BY <1>5, <2>1, <2>2, <2>3, <2>4, <2>5, <2>6, <2>7, <2>8 DEF TaskStep
<1>6. ASSUME \/ \E c \in cold : ColdShared(c) \/ ColdOwn(c)
             \/ \E i \in aux : AuxDispatch(i)
      PROVE  OrderInv'
    BY <1>6 DEF NoCold
<1>7. ASSUME DropMux PROVE OrderInv'
    <2>1. UNCHANGED <<next, stamp, cur, issued, pc, call, served, toServer,
                      cold, aux, handler>> /\ writer' = "exited" /\ mux' = "dropped"
        BY <1>7 DEF DropMux
    <2>2. QED
        BY <2>1, <1>1 DEF NoCold, Pipeline, Begins, Aligned
<1>8. ASSUME WriterWrite PROVE OrderInv'
    <2>1. UNCHANGED <<taskVars, mux, issued, served, up, writer, cold, aux, handler>>
        BY <1>8 DEF WriterWrite
    <2>2. Begins'
        BY <2>1, BeginsStays DEF Pipeline
    <2>3. handler = "run" => Aligned'
        BY <1>8, WriteAligned DEF Pipeline
    <2>4. Pipeline'
        BY <2>1, <2>2, <2>3 DEF Pipeline
    <2>5. QED
        BY <2>1, <2>4, <1>1, <1>3
<1>9. ASSUME WriterExit PROVE OrderInv'
    <2>1. UNCHANGED <<taskVars, mux, issued, served, toServer, cold, aux, handler>>
          /\ writer' = "exited"
        BY <1>9 DEF WriterExit
    <2>2. QED
        BY <2>1, <1>1, <1>3 DEF Pipeline, Begins, Aligned
<1>10. ASSUME ReaderDeliver PROVE OrderInv'
    BY <1>10, <1>1, <1>2, <1>3 DEF ReaderDeliver
<1>11. ASSUME ReaderExit PROVE OrderInv'
    BY <1>11, <1>1, <1>2, <1>3 DEF ReaderExit
<1>12. ASSUME HandlerDispatch PROVE OrderInv'
    <2>1. /\ handler = "run" /\ toServer # <<>> /\ toServer' = Tail(toServer)
          /\ UNCHANGED <<taskVars, mux, issued, inbox, up, writer, cold, aux>>
          /\ \/ UNCHANGED served /\ handler' = "ended"
             \/ served' = Append(served, Head(toServer).id)
        BY <1>12 DEF HandlerDispatch
    <2>2. CASE UNCHANGED served /\ handler' = "ended"
        <3>1. Begins'
            BY <2>1, <2>2, BeginsStays DEF Pipeline
        <3>2. Pipeline'
            BY <2>2, <3>1 DEF Pipeline
        <3>3. QED
            BY <2>1, <3>2, <1>1, <1>3
    <2>3. CASE served' = Append(served, Head(toServer).id)
        <3>1. Aligned
            BY <2>1 DEF Pipeline
        <3>2. Aligned'
            BY <2>1, <2>3, <3>1, DispatchAligned
        <3>3. TypeOK'
            BY StepType
        <3>4. Begins'
            <4>1. /\ Len(served') \in Nat /\ Len(toServer') \in Nat
                  /\ Len(issued') \in Nat
                BY <3>3 DEF TypeOK
            <4>2. QED
                BY ONLY <3>2, <4>1 DEF Aligned, Begins
        <3>5. Pipeline'
            BY <3>2, <3>4 DEF Pipeline
        <3>6. QED
            BY <2>1, <3>5, <1>1, <1>3
    <2>4. QED
        BY <2>1, <2>2, <2>3
<1>13. ASSUME HandlerReply PROVE OrderInv'
    BY <1>13, <1>1, <1>2, <1>3 DEF HandlerReply
<1>14. ASSUME HandlerReplyLost PROVE OrderInv'
    BY <1>14, <1>1, <1>2, <1>3 DEF HandlerReplyLost
<1>15. ASSUME HandlerEof PROVE OrderInv'
    BY <1>15, <1>1, <1>2, <1>3 DEF HandlerEof
<1>16. ASSUME Disconnect PROVE OrderInv'
    <2>1. UNCHANGED <<taskVars, mux, issued, served, cold, aux, handler>> /\ ~up'
        BY <1>16 DEF Disconnect
    <2>2. PICK n \in 0..Len(toServer) : toServer' = SubSeq(toServer, 1, n)
        BY <1>16 DEF Disconnect
    <2>3. /\ Len(toServer') = n
          /\ \A k \in 1..n : toServer'[k] = toServer[k]
        BY <2>2, PrefixFacts
    <2>4. ASSUME Aligned PROVE Aligned'
        <3>1. Len(served) + Len(toServer') <= Len(issued)
            <4>1. Len(served) + Len(toServer) <= Len(issued)
                BY <2>4 DEF Aligned
            <4>2. QED
                BY ONLY <4>1, <2>3, <1>0, n \in 0..Len(toServer)
        <3>2. ASSUME NEW k \in 1..Len(toServer')
              PROVE  toServer'[k].id = issued[Len(served) + k]
            <4>1. k \in 1..Len(toServer) /\ toServer'[k] = toServer[k]
                BY ONLY <2>3, <1>0, n \in 0..Len(toServer), k \in 1..Len(toServer')
            <4>2. QED
                BY <2>4, <4>1 DEF Aligned
        <3>3. \A p \in 1..Len(served) : served[p] = issued[p]
            BY <2>4 DEF Aligned
        <3>4. QED
            BY ONLY <2>1, <3>1, <3>2, <3>3 DEF Aligned
    <2>5. Begins'
        BY <2>1, BeginsStays DEF Pipeline
    <2>6. Pipeline'
        BY <2>1, <2>4, <2>5 DEF Pipeline
    <2>7. QED
        BY <2>1, <2>6, <1>1, <1>3
<1>17. CASE UNCHANGED vars
    BY <1>17, <1>1, <1>2, <1>3 DEF vars
<1>18. QED
    BY <1>4, <1>5, <1>6, <1>7, <1>8, <1>9, <1>10, <1>11, <1>12, <1>13, <1>14,
       <1>15, <1>16, <1>17 DEF Next, Writer, Reader, Handler

(* With nothing sent before the stream is open, what is dispatched is, in  *)
(* order and without a gap, what was handed over.                          *)
THEOREM OrderCorrect ==
    ASSUME HelloFirst
    PROVE  Spec => []OrderInv
<1>1. Init => OrderInv
    BY MuxAssumption DEF Init, OrderInv, Handover, NoCold, Pipeline, Begins, Aligned, IsRequest
<1>2. TypeOK /\ CallOK /\ OrderInv /\ [Next]_vars => OrderInv'
    BY StepOrder
<1>3. QED
    BY <1>1, <1>2, TypeCorrect, PTL DEF Spec

(* What was handed over before a call began has been dispatched when that  *)
(* call is.                                                                *)
LEMMA OrderGivesFollowUp == TypeOK /\ OrderInv => FollowUpSees
<1> SUFFICES ASSUME TypeOK, OrderInv,
                    NEW q \in DOMAIN served, NEW p \in 1..stamp[served[q]]
             PROVE  \E r \in 1..(q - 1) : served[r] = issued[p]
    BY DEF FollowUpSees
<1>1. /\ Len(served) \in Nat /\ Len(issued) \in Nat /\ Len(toServer) \in Nat
      /\ served \in Seq(Ids) /\ q \in 1..Len(served)
    BY DEF TypeOK
<1>2. served[q] \in Ids
    BY ONLY <1>1
<1>3. stamp[served[q]] \in Nat
    BY <1>2 DEF TypeOK
<1>4. q \in 1..Len(issued) /\ served[q] = issued[q]
    BY <1>1 DEF OrderInv, Pipeline, Begins
<1>5. stamp[issued[q]] < q
    BY <1>4 DEF OrderInv, Handover
<1>6. p \in 1..(q - 1) /\ p \in 1..Len(served)
    BY ONLY <1>1, <1>3, <1>4, <1>5, p \in 1..stamp[served[q]]
<1>7. served[p] = issued[p]
    BY <1>6 DEF OrderInv, Pipeline, Begins
<1>8. QED
    BY <1>6, <1>7

(* The promise of `send`: a call finds whatever was handed over before it  *)
(* began, by any task and for any number of calls, through any failure.    *)
THEOREM FollowUpsCorrect ==
    ASSUME HelloFirst
    PROVE  Spec => []FollowUpSees
<1>1. TypeOK /\ OrderInv => FollowUpSees
    BY OrderGivesFollowUp
<1>2. QED
    BY <1>1, TypeCorrect, OrderCorrect, PTL

-----------------------------------------------------------------------------
(* No frame is dispatched twice, on the cold path either.                  *)

IdsIn(q)  == {q[k].id : k \in DOMAIN q}
Differ(q) == \A j, k \in DOMAIN q : q[j].id = q[k].id => j = k
Spawned   == {c.id : c \in cold}

(* Ids whose frames are still to be handed over.                           *)
Coming == {i \in Ids : i >= next}
          \cup {cur[t] : t \in {u \in Tasks : pc[u] \in {"minted", "registered", "cold"}}}

Apart(sv, ts, ib, ax, cd, cm) ==
    /\ sv \cap (ts \cup ib \cup ax \cup cd \cup cm) = {}
    /\ ts \cap (ib \cup ax \cup cd \cup cm) = {}
    /\ ib \cap (ax \cup cd \cup cm) = {}
    /\ ax \cap (cd \cup cm) = {}
    /\ cd \cap cm = {}

(* A frame is at one place: to come, with a cold task, on a stream of its  *)
(* own, in the inbox, on the wire or dispatched, and there once.           *)
OnceInv ==
    /\ ServedOnce /\ Differ(toServer) /\ Differ(inbox)
    /\ \A c, d \in cold : c.id = d.id => c = d
    /\ Apart(Members(served), IdsIn(toServer), IdsIn(inbox), aux, Spawned, Coming)

(* The ids of a queue as frames come and go.                               *)
LEMMA IdsOfAppend ==
    ASSUME NEW q \in Seq(Frame), NEW f \in Frame
    PROVE  /\ IdsIn(Append(q, f)) = IdsIn(q) \cup {f.id}
           /\ Differ(q) /\ f.id \notin IdsIn(q) => Differ(Append(q, f))
<1>1. /\ Len(Append(q, f)) = Len(q) + 1 /\ Append(q, f)[Len(q) + 1] = f
      /\ \A k \in 1..Len(q) : Append(q, f)[k] = q[k]
      /\ DOMAIN Append(q, f) = 1..(Len(q) + 1) /\ DOMAIN q = 1..Len(q) /\ Len(q) \in Nat
    BY AppendFacts
<1>2. PICK r : r = Append(q, f)
    OBVIOUS
<1>3. QED
    BY ONLY <1>1, <1>2 DEF IdsIn, Differ

LEMMA IdsOfTail ==
    ASSUME NEW q \in Seq(Frame), q # <<>>
    PROVE  /\ Head(q) \in Frame
           /\ Head(q).id \in IdsIn(q) /\ IdsIn(Tail(q)) \subseteq IdsIn(q)
           /\ Differ(q) => Differ(Tail(q)) /\ Head(q).id \notin IdsIn(Tail(q))
<1>1. /\ Head(q) = q[1] /\ Head(q) \in Frame /\ Len(q) \in Nat \ {0}
      /\ \A k \in 1..(Len(q) - 1) : Tail(q)[k] = q[k + 1]
      /\ DOMAIN Tail(q) = 1..(Len(q) - 1) /\ DOMAIN q = 1..Len(q)
    BY TailFacts
<1>2. PICK r : r = Tail(q)
    OBVIOUS
<1>3. QED
    BY ONLY <1>1, <1>2 DEF IdsIn, Differ

LEMMA IdsOfPrefix ==
    ASSUME NEW q \in Seq(Frame), NEW n \in 0..Len(q)
    PROVE  /\ IdsIn(SubSeq(q, 1, n)) \subseteq IdsIn(q)
           /\ Differ(q) => Differ(SubSeq(q, 1, n))
<1>1. /\ \A k \in 1..n : SubSeq(q, 1, n)[k] = q[k]
      /\ DOMAIN SubSeq(q, 1, n) = 1..n /\ DOMAIN q = 1..Len(q) /\ Len(q) \in Nat
    BY PrefixFacts
<1>2. PICK r : r = SubSeq(q, 1, n)
    OBVIOUS
<1>3. QED
    BY ONLY <1>1, <1>2, n \in 0..Len(q) DEF IdsIn, Differ

LEMMA IdsOfNone == IdsIn(<<>>) = {} /\ Differ(<<>>)
BY DEF IdsIn, Differ

LEMMA OnceMore ==
    ASSUME ServedOnce, served \in Seq(Ids), NEW i \in Ids, i \notin Members(served),
           served' = Append(served, i)
    PROVE  ServedOnce'
<1>1. /\ Len(served') = Len(served) + 1 /\ served'[Len(served) + 1] = i
      /\ \A k \in 1..Len(served) : served'[k] = served[k]
      /\ DOMAIN served' = 1..(Len(served) + 1) /\ DOMAIN served = 1..Len(served)
      /\ Len(served) \in Nat
    BY AppendFacts
<1>2. \A k \in 1..Len(served) : served[k] # i
    BY <1>1 DEF Members
<1>3. QED
    BY ONLY <1>1, <1>2, ServedOnce DEF ServedOnce

(* A task whose frame leaves it was the only one that had it.              *)
Early == {"minted", "registered", "cold"}

LEMMA ComingStays ==
    ASSUME UNCHANGED <<next, cur>>,
           \A u \in Tasks : pc'[u] \in Early => pc[u] \in Early
    PROVE  Coming' \subseteq Coming
BY DEF Coming, Early

LEMMA ComingLeaves ==
    ASSUME TypeOK, CallOK, UNCHANGED <<next, cur>>, NEW t \in Tasks,
           pc[t] \in Early, pc'[t] \notin Early,
           \A u \in Tasks : pc'[u] \in Early => pc[u] \in Early
    PROVE  Coming' \subseteq Coming \ {cur[t]} /\ cur[t] \in Coming /\ cur[t] \in Ids
<1>1. cur[t] \in Ids /\ cur[t] < next /\ next \in Nat
    BY DEF CallOK, TypeOK, Early
<1>2. cur[t] \in Coming
    BY DEF Coming, Early
<1>3. \A u \in Tasks : pc'[u] \in Early => cur[u] # cur[t]
    BY DEF CallOK, Early
<1>4. \A i \in Ids : i >= next => i # cur[t]
    BY <1>1, MuxAssumption DEF Ids
<1>5. Coming' \subseteq Coming
    BY ComingStays
<1>6. ASSUME NEW i \in Coming' PROVE i # cur[t]
    BY <1>3, <1>4 DEF Coming, Early
<1>7. QED
    BY <1>1, <1>2, <1>5, <1>6

LEMMA StepOnce == TypeOK /\ CallOK /\ OnceInv /\ [Next]_vars => OnceInv'
<1> SUFFICES ASSUME TypeOK, CallOK, OnceInv, [Next]_vars PROVE OnceInv'
    OBVIOUS
<1>0. /\ served \in Seq(Ids) /\ toServer \in Seq(Frame) /\ inbox \in Seq(Frame)
      /\ pc \in [Tasks -> {"idle", "minted", "registered", "waiting", "cold"}]
      /\ cur \in [Tasks -> 0..MaxCalls] /\ aux \subseteq Ids
      /\ \A c \in cold : c.id \in Ids
      /\ \A t \in Tasks : pc[t] # "idle" => cur[t] \in Ids /\ call[cur[t]] # NoCall
      /\ \A c \in cold : call[c.id] # NoCall
    BY DEF TypeOK, CallOK
<1>a. /\ ServedOnce /\ Differ(toServer) /\ Differ(inbox)
      /\ \A c, d \in cold : c.id = d.id => c = d
      /\ Apart(Members(served), IdsIn(toServer), IdsIn(inbox), aux, Spawned, Coming)
    BY DEF OnceInv
<1> USE DEF taskVars, wireVars, serverVars, coldVars, Goto, Finish
(* Frames only get lost, or nothing moves.                                 *)
<1>1. ASSUME UNCHANGED <<served, aux, cold>>, Coming' \subseteq Coming,
             Differ(toServer)' /\ IdsIn(toServer)' \subseteq IdsIn(toServer),
             Differ(inbox)' /\ IdsIn(inbox)' \subseteq IdsIn(inbox)
      PROVE  OnceInv'
    <2>1. ServedOnce' /\ Members(served)' = Members(served) /\ Spawned' = Spawned
        BY <1>1, <1>a DEF ServedOnce, Members, Spawned
    <2>2. Apart(Members(served), IdsIn(toServer), IdsIn(inbox), aux, Spawned, Coming)'
        BY <1>1, <1>a, <2>1 DEF Apart
    <2>3. QED
        BY <1>1, <1>a, <2>1, <2>2 DEF OnceInv
<1>2. ASSUME UNCHANGED <<served, aux, cold, toServer, inbox>>, Coming' \subseteq Coming
      PROVE  OnceInv'
    BY <1>1, <1>2, <1>a DEF Differ, IdsIn
(* A task or a cold task puts its frame into the inbox.                    *)
<1>3. ASSUME NEW i \in Ids, call[i] # NoCall, Enqueue(i),
             UNCHANGED <<served, aux, toServer>>, cold' \subseteq cold,
             Coming' \subseteq Coming,
             \/ i \in Coming /\ i \notin Coming'
             \/ i \in Spawned /\ i \notin Spawned'
      PROVE  OnceInv'
    <2>1. PICK f \in Frame : f = [id |-> i, action |-> call[i]]
        BY <1>3, FrameOfCall
    <2>2. inbox' = Append(inbox, f) /\ f.id = i
        BY <1>3, <2>1 DEF Enqueue
    <2>3. i \notin IdsIn(inbox)
        BY <1>3, <1>a DEF Apart
    <2>4. IdsIn(inbox') = IdsIn(inbox) \cup {i} /\ Differ(inbox')
        BY <1>0, <1>a, <2>2, <2>3, IdsOfAppend
    <2>5. /\ ServedOnce' /\ Members(served)' = Members(served)
          /\ IdsIn(toServer)' = IdsIn(toServer) /\ Differ(toServer)'
          /\ Spawned' \subseteq Spawned
        BY <1>3, <1>a DEF ServedOnce, Members, Spawned, IdsIn, Differ
    <2>6. Apart(Members(served), IdsIn(toServer), IdsIn(inbox), aux, Spawned, Coming)'
        BY <1>3, <1>a, <2>4, <2>5 DEF Apart
    <2>7. QED
        BY <1>3, <1>a, <2>4, <2>5, <2>6 DEF OnceInv
<1>4. ASSUME NEW t \in Tasks, NEW a \in Actions, Mint(t, a) PROVE OnceInv'
    <2>1. /\ next \in Ids /\ next' = next + 1 /\ cur' = [cur EXCEPT ![t] = next]
          /\ pc' = pc \/ pc' = [pc EXCEPT ![t] = "minted"]
          /\ pc[t] = "idle" /\ UNCHANGED <<served, aux, cold, toServer, inbox>>
        BY <1>4 DEF Mint, TypeOK, Ids
    <2>2. next \in Coming
        BY <2>1, MuxAssumption DEF Coming, Ids
    <2>3. \A u \in Tasks : pc'[u] \in Early =>
              cur'[u] = next \/ (pc[u] \in Early /\ cur'[u] = cur[u])
        BY <1>0, <2>1 DEF Early
    <2>4. \A i \in Ids : i >= next' => i >= next
        BY <2>1, MuxAssumption DEF Ids
    <2>5. Coming' \subseteq Coming
        BY <2>2, <2>3, <2>4 DEF Coming, Early
    <2>6. QED
        BY <1>2, <2>1, <2>5
<1>5. ASSUME NEW t \in Tasks, TaskStep(t) \/ Cancel(t) PROVE OnceInv'
    <2>1. CASE OpenMux(t) \/ Register(t) \/ Resume(t) \/ SendCold(t) \/ Cancel(t)
        <3>1. /\ UNCHANGED <<next, cur, served, aux, cold, toServer, inbox>>
              /\ \A u \in Tasks : pc'[u] \in Early => pc[u] \in Early
            BY <1>0, <2>1 DEF OpenMux, Register, Resume, SendCold, Cancel, Early
        <3>2. QED
            BY <1>2, <3>1, ComingStays
    <2>2. CASE PushRequest(t) \/ SendHot(t)
        <3>1. /\ UNCHANGED <<next, cur, served, aux, cold, toServer>>
              /\ pc[t] \in Early /\ pc'[t] \notin Early
              /\ \A u \in Tasks : pc'[u] \in Early => pc[u] \in Early
              /\ Enqueue(cur[t]) \/ UNCHANGED inbox
            BY <1>0, <2>2 DEF PushRequest, SendHot, Early
        <3>2. /\ Coming' \subseteq Coming \ {cur[t]} /\ cur[t] \in Coming
              /\ cur[t] \in Ids /\ call[cur[t]] # NoCall
            BY <1>0, <3>1, ComingLeaves DEF Early
        <3>3. CASE Enqueue(cur[t])
            BY <1>3, <3>1, <3>2, <3>3
        <3>4. CASE UNCHANGED inbox
            BY <1>2, <3>1, <3>2, <3>4
        <3>5. QED
            BY <3>1, <3>3, <3>4
    <2>3. CASE SendSpawn(t)
        <3>1. /\ UNCHANGED <<next, cur, served, aux, inbox, toServer>>
              /\ pc[t] \in Early /\ pc'[t] \notin Early
              /\ \A u \in Tasks : pc'[u] \in Early => pc[u] \in Early
              /\ cold' = cold \cup {[id |-> cur[t], cell |-> mux]}
            BY <1>0, <2>3 DEF SendSpawn, Early
        <3>2. /\ Coming' \subseteq Coming \ {cur[t]} /\ cur[t] \in Coming
            BY <3>1, ComingLeaves
        <3>3. Spawned' = Spawned \cup {cur[t]} /\ cur[t] \notin Spawned
            <4>1. cur[t] \notin Spawned
                BY ONLY <1>a, <3>2 DEF Apart
            <4>2. PICK e : e = [id |-> cur[t], cell |-> mux]
                OBVIOUS
            <4>3. e.id = cur[t] /\ cold' = cold \cup {e}
                BY <3>1, <4>2
            <4>4. QED
                BY ONLY <4>1, <4>3 DEF Spawned
        <3>4. \A c, d \in cold' : c.id = d.id => c = d
            BY <1>a, <3>1, <3>3 DEF Spawned
        <3>5. /\ ServedOnce' /\ Members(served)' = Members(served)
              /\ IdsIn(toServer)' = IdsIn(toServer) /\ Differ(toServer)'
              /\ IdsIn(inbox)' = IdsIn(inbox) /\ Differ(inbox)'
            BY <1>a, <3>1 DEF ServedOnce, Members, IdsIn, Differ
        <3>6. Apart(Members(served), IdsIn(toServer), IdsIn(inbox), aux, Spawned, Coming)'
            BY <1>a, <3>1, <3>2, <3>3, <3>5 DEF Apart
        <3>7. QED
            BY <3>4, <3>5, <3>6 DEF OnceInv
    <2>4. QED
        BY <1>5, <2>1, <2>2, <2>3 DEF TaskStep
<1>6. ASSUME NEW c \in cold, ColdShared(c) PROVE OnceInv'
    <2>1. /\ UNCHANGED <<next, cur, pc, served, aux, toServer>> /\ cold' = cold \ {c}
          /\ Enqueue(c.id) \/ UNCHANGED inbox
        BY <1>6 DEF ColdShared
    <2>2. Coming' = Coming /\ c.id \in Spawned /\ c.id \notin Spawned'
          /\ Spawned' \subseteq Spawned
        BY <1>a, <2>1 DEF Coming, Spawned
    <2>3. CASE Enqueue(c.id)
        BY <1>0, <1>3, <2>1, <2>2, <2>3
    <2>4. CASE UNCHANGED inbox
        <3>1. /\ ServedOnce' /\ Members(served)' = Members(served)
              /\ IdsIn(toServer)' = IdsIn(toServer) /\ Differ(toServer)'
              /\ IdsIn(inbox)' = IdsIn(inbox) /\ Differ(inbox)'
            BY <1>a, <2>1, <2>4 DEF ServedOnce, Members, IdsIn, Differ
        <3>2. Apart(Members(served), IdsIn(toServer), IdsIn(inbox), aux, Spawned, Coming)'
            BY <1>a, <2>1, <2>2, <3>1 DEF Apart
        <3>3. QED
            BY <1>a, <2>1, <3>1, <3>2 DEF OnceInv
    <2>5. QED
        BY <2>1, <2>3, <2>4
<1>7. ASSUME NEW c \in cold, ColdOwn(c) PROVE OnceInv'
    <2>1. /\ UNCHANGED <<next, cur, pc, served, toServer, inbox>> /\ cold' = cold \ {c}
          /\ aux' = aux \cup {c.id} \/ aux' = aux
        BY <1>7 DEF ColdOwn
    <2>2. Coming' = Coming /\ c.id \in Spawned /\ c.id \notin Spawned'
          /\ Spawned' \subseteq Spawned
        BY <1>a, <2>1 DEF Coming, Spawned
    <2>3. /\ ServedOnce' /\ Members(served)' = Members(served)
          /\ IdsIn(toServer)' = IdsIn(toServer) /\ Differ(toServer)'
          /\ IdsIn(inbox)' = IdsIn(inbox) /\ Differ(inbox)'
        BY <1>a, <2>1 DEF ServedOnce, Members, IdsIn, Differ
    <2>4. Apart(Members(served), IdsIn(toServer), IdsIn(inbox), aux, Spawned, Coming)'
        BY <1>a, <2>1, <2>2, <2>3 DEF Apart
    <2>5. QED
        BY <1>a, <2>1, <2>3, <2>4 DEF OnceInv
<1>8. ASSUME NEW i \in aux, AuxDispatch(i) PROVE OnceInv'
    <2>1. /\ UNCHANGED <<next, cur, pc, cold, toServer, inbox>> /\ aux' = aux \ {i}
          /\ served' = Append(served, i) \/ UNCHANGED served
        BY <1>8 DEF AuxDispatch
    <2>2. i \in Ids /\ i \notin Members(served)
        BY <1>0, <1>a DEF Apart
    <2>3. ServedOnce' /\ Members(served') \in {Members(served), Members(served) \cup {i}}
        <3>1. CASE served' = Append(served, i)
            BY <1>0, <1>a, <2>1, <2>2, <3>1, OnceMore, MembersOfAppend
        <3>2. CASE UNCHANGED served
            BY <1>a, <3>2 DEF ServedOnce
        <3>3. QED
            BY <2>1, <3>1, <3>2
    <2>4. /\ IdsIn(toServer)' = IdsIn(toServer) /\ Differ(toServer)'
          /\ IdsIn(inbox)' = IdsIn(inbox) /\ Differ(inbox)'
          /\ Coming' = Coming /\ Spawned' = Spawned
        BY <1>a, <2>1 DEF IdsIn, Differ, Coming, Spawned
    <2>5. Apart(Members(served), IdsIn(toServer), IdsIn(inbox), aux, Spawned, Coming)'
        BY <1>a, <2>1, <2>3, <2>4 DEF Apart
    <2>6. QED
        BY <1>a, <2>1, <2>3, <2>4, <2>5 DEF OnceInv
<1>9. CASE DropMux \/ WriterExit
    <2>1. /\ UNCHANGED <<next, cur, pc, served, aux, cold, toServer>> /\ inbox' = <<>>
        BY <1>9 DEF DropMux, WriterExit
    <2>2. Coming' = Coming /\ Differ(toServer)' /\ IdsIn(toServer)' = IdsIn(toServer)
        BY <1>a, <2>1 DEF Coming, Differ, IdsIn
    <2>3. Differ(inbox') /\ IdsIn(inbox') \subseteq IdsIn(inbox)
        BY <2>1, IdsOfNone
    <2>4. QED
        BY <1>1, <2>1, <2>2, <2>3
<1>10. CASE WriterWrite
    <2>1. /\ UNCHANGED <<next, cur, pc, served, aux, cold>> /\ inbox # <<>>
          /\ toServer' = Append(toServer, Head(inbox)) /\ inbox' = Tail(inbox)
        BY <1>10 DEF WriterWrite
    <2>2. PICK f \in Frame : f = Head(inbox)
        BY <1>0, <2>1, IdsOfTail
    <2>3. /\ f.id \in IdsIn(inbox) /\ IdsIn(inbox') \subseteq IdsIn(inbox)
          /\ Differ(inbox') /\ f.id \notin IdsIn(inbox')
        BY <1>0, <1>a, <2>1, <2>2, IdsOfTail
    <2>4. f.id \notin IdsIn(toServer)
        BY <1>a, <2>3 DEF Apart
    <2>5. IdsIn(toServer') = IdsIn(toServer) \cup {f.id} /\ Differ(toServer')
        BY <1>0, <1>a, <2>1, <2>2, <2>4, IdsOfAppend
    <2>6. /\ ServedOnce' /\ Members(served)' = Members(served)
          /\ Coming' = Coming /\ Spawned' = Spawned
        BY <1>a, <2>1 DEF ServedOnce, Members, Coming, Spawned
    <2>7. Apart(Members(served), IdsIn(toServer), IdsIn(inbox), aux, Spawned, Coming)'
        BY <1>a, <2>1, <2>3, <2>5, <2>6 DEF Apart
    <2>8. QED
        BY <1>a, <2>1, <2>3, <2>5, <2>6, <2>7 DEF OnceInv
<1>11. CASE HandlerDispatch
    <2>1. /\ UNCHANGED <<next, cur, pc, inbox, aux, cold>> /\ toServer # <<>>
          /\ toServer' = Tail(toServer)
          /\ served' = Append(served, Head(toServer).id) \/ UNCHANGED served
        BY <1>11 DEF HandlerDispatch
    <2>2. PICK i \in Ids : i = Head(toServer).id
        BY <1>0, <2>1, IdsOfTail DEF Frame
    <2>3. /\ i \in IdsIn(toServer) /\ IdsIn(toServer') \subseteq IdsIn(toServer)
          /\ Differ(toServer') /\ i \notin IdsIn(toServer')
        BY <1>0, <1>a, <2>1, <2>2, IdsOfTail
    <2>4. i \notin Members(served) /\ (served' = Append(served, i) \/ UNCHANGED served)
        BY <1>a, <2>1, <2>2, <2>3 DEF Apart
    <2>5. ServedOnce' /\ Members(served') \in {Members(served), Members(served) \cup {i}}
        <3>1. CASE served' = Append(served, i)
            BY <1>0, <1>a, <2>4, <3>1, OnceMore, MembersOfAppend
        <3>2. CASE UNCHANGED served
            BY <1>a, <3>2 DEF ServedOnce
        <3>3. QED
            BY <2>4, <3>1, <3>2
    <2>6. /\ IdsIn(inbox)' = IdsIn(inbox) /\ Differ(inbox)'
          /\ Coming' = Coming /\ Spawned' = Spawned
        BY <1>a, <2>1 DEF IdsIn, Differ, Coming, Spawned
    <2>7. Apart(Members(served), IdsIn(toServer), IdsIn(inbox), aux, Spawned, Coming)'
        BY <1>a, <2>1, <2>3, <2>5, <2>6 DEF Apart
    <2>8. QED
        BY <1>a, <2>1, <2>3, <2>5, <2>6, <2>7 DEF OnceInv
<1>12. CASE Disconnect
    <2>1. /\ UNCHANGED <<next, cur, pc, served, aux, cold, inbox>>
        BY <1>12 DEF Disconnect
    <2>2. PICK k \in 0..Len(toServer) : toServer' = SubSeq(toServer, 1, k)
        BY <1>12 DEF Disconnect
    <2>3. Differ(toServer') /\ IdsIn(toServer') \subseteq IdsIn(toServer)
        BY <1>0, <1>a, <2>2, IdsOfPrefix
    <2>4. Coming' = Coming /\ Differ(inbox)' /\ IdsIn(inbox)' = IdsIn(inbox)
        BY <1>a, <2>1 DEF Coming, Differ, IdsIn
    <2>5. QED
        BY <1>1, <2>1, <2>3, <2>4
<1>13. CASE Reader \/ HandlerReply \/ HandlerReplyLost \/ HandlerEof \/ UNCHANGED vars
    <2>1. /\ UNCHANGED <<next, cur, pc, served, aux, cold, toServer, inbox>>
        BY <1>13 DEF Reader, ReaderDeliver, ReaderExit, HandlerReply, HandlerReplyLost,
           HandlerEof, vars
    <2>2. Coming' \subseteq Coming
        BY <2>1 DEF Coming
    <2>3. QED
        BY <1>2, <2>1, <2>2
<1>14. QED
    BY <1>4, <1>5, <1>6, <1>7, <1>8, <1>9, <1>10, <1>11, <1>12, <1>13
    DEF Next, Writer, Handler

(* No frame is dispatched twice, on the shared stream or on the streams    *)
(* that cold sends open, whichever fails and whoever is dropped.           *)
THEOREM ServedOnceCorrect == Spec => []ServedOnce
<1>1. Init => OnceInv
    <2> SUFFICES ASSUME Init PROVE OnceInv
        OBVIOUS
    <2>1. /\ served = <<>> /\ toServer = <<>> /\ inbox = <<>> /\ aux = {} /\ cold = {}
        BY DEF Init
    <2>2. Members(served) = {} /\ Spawned = {} /\ ServedOnce
        BY <2>1 DEF Members, Spawned, ServedOnce
    <2>3. Apart(Members(served), IdsIn(toServer), IdsIn(inbox), aux, Spawned, Coming)
        BY <2>1, <2>2, IdsOfNone DEF Apart
    <2>4. QED
        BY <2>1, <2>2, <2>3, IdsOfNone DEF OnceInv
<1>2. TypeOK /\ CallOK /\ OnceInv /\ [Next]_vars => OnceInv'
    BY StepOnce
<1>3. OnceInv => ServedOnce
    BY DEF OnceInv
<1>4. QED
    BY <1>1, <1>2, <1>3, TypeCorrect, PTL DEF Spec
-----------------------------------------------------------------------------
(* Waiting requests.                                                       *)

(* A queue is its head and the rest.                                       *)
LEMMA MembersOfTail ==
    ASSUME NEW S, NEW s \in Seq(S), s # <<>>
    PROVE  /\ Head(s) \in S
           /\ Members(s) = {Head(s)} \cup Members(Tail(s))
<1>1. /\ DOMAIN s = 1..Len(s) /\ Len(s) \in Nat \ {0} /\ Head(s) = s[1]
      /\ DOMAIN Tail(s) = 1..(Len(s) - 1) /\ Head(s) \in S
      /\ \A k \in 1..(Len(s) - 1) : Tail(s)[k] = s[k + 1]
    BY TailFacts
<1>2. ASSUME NEW x \in Members(s) PROVE x \in {Head(s)} \cup Members(Tail(s))
    <2>1. PICK k \in 1..Len(s) : x = s[k]
        BY <1>1 DEF Members
    <2>2. CASE k = 1
        BY <1>1, <2>1, <2>2
    <2>3. CASE k # 1
        <3>1. k - 1 \in 1..(Len(s) - 1) /\ x = Tail(s)[k - 1]
            BY <1>1, <2>1, <2>3
        <3>2. QED  BY <1>1, <3>1 DEF Members
    <2>4. QED  BY <2>2, <2>3
<1>3. ASSUME NEW x \in {Head(s)} \cup Members(Tail(s)) PROVE x \in Members(s)
    BY <1>1 DEF Members
<1>4. QED  BY <1>1, <1>2, <1>3

(* A request whose frame has been handed over, or is about to be, is in    *)
(* `pending` for the reader to fail, and while nothing has failed it is on *)
(* its way. Before it is pushed only the first half can be said.           *)
WaitInv ==
    \A t \in Tasks : outcome[cur[t]] = "open" =>
        /\ pc[t] \in {"registered", "waiting"} /\ reader = "run"
           => cur[t] \in pending
        /\ pc[t] = "waiting" /\ Healthy => InFlight(cur[t])

(* The handler answers one frame at a time.                                *)
OneReply == Len(reply) \in {0, 1}

(* What is on its way stays so, from one queue to the next, until the      *)
(* reader has it.                                                          *)
LEMMA StepFlight ==
    ASSUME TypeOK, OneReply, [Next]_vars, Healthy', NEW i, InFlight(i),
           ~(ReaderDeliver /\ Head(toClient).id = i)
    PROVE  InFlight(i)'
<1>0. /\ inbox \in Seq(Frame) /\ toServer \in Seq(Frame)
      /\ reply \in Seq(Reply) /\ toClient \in Seq(Reply)
    BY DEF TypeOK
<1> USE <1>0
<1> USE DEF InFlight
<1>1. CASE UNCHANGED <<inbox, toServer, reply, toClient>>
    BY <1>1
<1>2. ASSUME NEW e, inbox' = Append(inbox, e),
             UNCHANGED <<toServer, reply, toClient>>
      PROVE  InFlight(i)'
    <2>1. Members(inbox) \subseteq Members(Append(inbox, e))
        <3>1. /\ DOMAIN inbox = 1..Len(inbox) /\ Len(inbox) \in Nat
              /\ DOMAIN Append(inbox, e) = 1..(Len(inbox) + 1)
              /\ \A k \in 1..Len(inbox) : Append(inbox, e)[k] = inbox[k]
            OBVIOUS
        <3>2. QED  BY ONLY <3>1 DEF Members
    <2>2. QED  BY <1>2, <2>1
<1>3. CASE WriterWrite
    <2>1. /\ inbox # <<>> /\ inbox' = Tail(inbox)
          /\ toServer' = Append(toServer, Head(inbox))
          /\ UNCHANGED <<reply, toClient>>
        BY <1>3 DEF WriterWrite, serverVars
    <2>2. /\ Members(inbox) = {Head(inbox)} \cup Members(inbox')
          /\ Members(toServer') = Members(toServer) \cup {Head(inbox)}
        BY <2>1, MembersOfTail, MembersOfAppend
    <2>3. QED  BY <2>1, <2>2
<1>4. CASE HandlerDispatch
    <2> DEFINE a == [id |-> Head(toServer).id, answer |-> Head(toServer).action]
    <2>1. /\ toServer # <<>> /\ toServer' = Tail(toServer)
          /\ reply = <<>> /\ reply' = <<a>> /\ UNCHANGED <<inbox, toClient>>
        BY <1>4 DEF HandlerDispatch, Healthy
    <2>2. a.id = Head(toServer).id
        OBVIOUS
    <2> HIDE DEF a
    <2>3. Members(toServer) = {Head(toServer)} \cup Members(toServer')
        BY <2>1, MembersOfTail
    <2>4. Members(reply) = {} /\ a \in Members(reply')
        <3>1. reply = <<>> /\ DOMAIN reply' = {1} /\ reply'[1] = a
            BY <2>1
        <3>2. QED  BY <3>1 DEF Members
    <2>5. QED  BY <2>1, <2>2, <2>3, <2>4
<1>5. CASE HandlerReply
    <2>1. /\ reply # <<>> /\ reply' = <<>>
          /\ toClient' = Append(toClient, Head(reply))
          /\ UNCHANGED <<inbox, toServer>>
        BY <1>5 DEF HandlerReply, wireVars
    <2>2. Members(toClient') = Members(toClient) \cup {Head(reply)}
        BY <2>1, MembersOfTail, MembersOfAppend
    <2>3. Members(reply) = {Head(reply)}
        <3>1. DOMAIN reply = {1} /\ Head(reply) = reply[1]
            BY <2>1, TailFacts DEF OneReply
        <3>2. QED  BY ONLY <3>1 DEF Members
    <2>4. QED  BY <2>1, <2>2, <2>3
<1>6. CASE ReaderDeliver
    <2>1. /\ toClient # <<>> /\ toClient' = Tail(toClient)
          /\ UNCHANGED <<inbox, toServer, reply>> /\ Head(toClient).id # i
        BY <1>6 DEF ReaderDeliver, wireVars
    <2>2. Members(toClient) = {Head(toClient)} \cup Members(toClient')
        BY <2>1, MembersOfTail
    <2>3. QED  BY <2>1, <2>2
(* The other steps of the client tasks and the server touch no queue, or   *)
(* leave the stream broken.                                                *)
<1>7. ASSUME NEW t \in Tasks, TaskStep(t) \/ Cancel(t) PROVE InFlight(i)'
    BY <1>1, <1>2, <1>7 DEF TaskStep, Cancel, OpenMux, Register, PushRequest,
       Resume, SendHot, SendCold, SendSpawn, Enqueue, wireVars, serverVars
<1>8. ASSUME NEW c \in cold, ColdShared(c) \/ ColdOwn(c) PROVE InFlight(i)'
    BY <1>1, <1>2, <1>8 DEF ColdShared, ColdOwn, Enqueue, wireVars, serverVars
<1>9. CASE \/ \E t \in Tasks, a \in Actions : Mint(t, a)
           \/ \E j \in aux : AuxDispatch(j)
           \/ HandlerEof \/ UNCHANGED vars
    BY <1>1, <1>9 DEF Mint, AuxDispatch, HandlerEof, vars, wireVars, serverVars
<1>10. ~(DropMux \/ WriterExit \/ ReaderExit \/ Disconnect \/ HandlerReplyLost)
    BY DEF DropMux, WriterExit, ReaderExit, Disconnect, HandlerReplyLost, Healthy
<1>11. QED
    BY <1>3, <1>4, <1>5, <1>6, <1>7, <1>8, <1>9, <1>10
       DEF Next, Writer, Reader, Handler

(* One step per action; only a push puts a request on its way.             *)
LEMMA StepWait ==
    TypeOK /\ CallOK /\ OneReply /\ WaitInv /\ [Next]_vars => WaitInv'
<1> SUFFICES ASSUME TypeOK, CallOK, OneReply, WaitInv, [Next]_vars PROVE WaitInv'
    OBVIOUS
<1>0. /\ outcome \in [Ids -> Outcomes] /\ cur \in [Tasks -> 0..MaxCalls]
      /\ pc \in [Tasks -> {"idle", "minted", "registered", "waiting", "cold"}]
      /\ reply \in Seq(Reply) /\ toClient \in Seq(Reply)
      /\ Actions \cap ({"none", "open"} \cup Failures) = {}
      /\ \A r \in Reply : r.id \in Ids /\ r.answer \in Actions
      /\ \A u \in Tasks : pc[u] # "idle" => cur[u] \in Ids
      /\ \A t, u \in Tasks :
            pc[t] # "idle" /\ pc[u] # "idle" /\ t # u => cur[t] # cur[u]
    BY MuxAssumption DEF TypeOK, CallOK, Reply
<1> USE <1>0
<1> USE DEF WaitInv, taskVars, wireVars, serverVars, coldVars, Goto
(* A step that opens no request and takes none out of `pending` leaves the *)
(* flight of frames and answers to StepFlight.                             *)
<1>1. ASSUME \A u \in Tasks : outcome'[cur'[u]] = "open" =>
                 /\ pc'[u] \in {"registered", "waiting"} /\ reader' = "run"
                    => cur'[u] \in pending'
                 /\ pc'[u] = "waiting" =>
                    /\ pc[u] = "waiting" /\ cur'[u] = cur[u]
                    /\ outcome[cur[u]] = "open"
                    /\ ~(ReaderDeliver /\ Head(toClient).id = cur[u]),
             Healthy' => Healthy
      PROVE  WaitInv'
    <2>1. ASSUME NEW u \in Tasks, outcome'[cur'[u]] = "open", pc'[u] = "waiting",
                 Healthy'
          PROVE  InFlight(cur[u])'
        <3>1. /\ InFlight(cur[u]) /\ cur'[u] = cur[u]
              /\ ~(ReaderDeliver /\ Head(toClient).id = cur[u])
            BY <1>1, <2>1
        <3>2. QED  BY <2>1, <3>1, StepFlight DEF InFlight
    <2>2. QED  BY <1>1, <2>1
<1>2. Healthy' => Healthy
    BY DEF Next, vars, TaskStep, Cancel, OpenMux, Register, PushRequest, Resume,
       SendHot, SendCold, SendSpawn, Mint, ColdShared, ColdOwn, AuxDispatch,
       DropMux, Writer, WriterWrite, WriterExit, Reader, ReaderDeliver,
       ReaderExit, Handler, HandlerDispatch, HandlerReply, HandlerReplyLost,
       HandlerEof, Disconnect, Healthy
<1>3. ASSUME NEW t \in Tasks, NEW a \in Actions, Mint(t, a) PROVE WaitInv'
    <2>1. /\ next \in Ids /\ pc[t] = "idle" /\ next' = next + 1
          /\ UNCHANGED <<reader, pending>>
        BY <1>3 DEF Mint, TypeOK, Ids
    <2>2. ~ReaderDeliver
        BY <2>1 DEF ReaderDeliver, Ids
    <2>3. /\ \A u \in Tasks \ {t} : pc'[u] = pc[u] /\ cur'[u] = cur[u]
          /\ pc'[t] \in {"idle", "minted"}
          /\ \A j \in Ids \ {next} : outcome'[j] = outcome[j]
        BY <1>3, <2>1 DEF Mint
    <2>4. \A u \in Tasks : pc[u] # "idle" => cur[u] # next
        BY <2>1 DEF CallOK, Ids
    <2>5. QED  BY <1>1, <1>2, <2>1, <2>2, <2>3, <2>4
<1>4. ASSUME NEW t \in Tasks, Register(t) PROVE WaitInv'
    BY <1>1, <1>2, <1>4 DEF Register, ReaderDeliver
<1>5. ASSUME NEW t \in Tasks, PushRequest(t) PROVE WaitInv'
    <2>1. CASE Enqueue(cur[t]) /\ pc' = [pc EXCEPT ![t] = "waiting"]
               /\ UNCHANGED <<pending, outcome>>
        <3>1. /\ pc[t] = "registered" /\ pending' = pending
              /\ UNCHANGED <<cur, reader, outcome, toServer, reply, toClient>>
            BY <1>5, <2>1 DEF PushRequest
        <3>2. InFlight(cur[t])'
            <4>1. [id |-> cur[t], action |-> call[cur[t]]] \in Members(inbox')
                <5>1. /\ inbox \in Seq(Frame)
                      /\ inbox' = Append(inbox, [id |-> cur[t], action |-> call[cur[t]]])
                      /\ cur[t] \in Ids /\ call[cur[t]] # NoCall
                    BY <2>1, <3>1 DEF Enqueue, TypeOK, CallOK
                <5>2. QED  BY <5>1, FrameOfCall, MembersOfAppend
            <4>2. QED  BY <3>1, <4>1 DEF InFlight
        <3>3. \A u \in Tasks \ {t} : pc'[u] = pc[u]
            BY <2>1
        <3>4. ASSUME NEW u \in Tasks, u # t, pc'[u] = "waiting",
                     outcome'[cur'[u]] = "open", Healthy'
              PROVE  InFlight(cur[u])'
            <4>1. InFlight(cur[u]) /\ cur'[u] = cur[u]
                BY <1>2, <3>1, <3>3, <3>4
            <4>2. ~ReaderDeliver
                BY <1>5 DEF PushRequest, ReaderDeliver
            <4>3. QED  BY <3>4, <4>1, <4>2, StepFlight DEF InFlight
        <3>5. QED  BY <2>1, <3>1, <3>2, <3>3, <3>4
    <2>2. CASE pending' = pending \ {cur[t]} /\ Finish(t, "closed")
        <3>1. pc[t] = "registered" /\ UNCHANGED <<cur, reader>> /\ ~ReaderDeliver
            BY <1>5 DEF PushRequest, ReaderDeliver
        <3>2. QED  BY <1>1, <1>2, <2>2, <3>1 DEF Finish
    <2>3. QED  BY <1>5, <2>1, <2>2 DEF PushRequest
<1>6. ASSUME NEW t \in Tasks, Resume(t) PROVE WaitInv'
    BY <1>1, <1>2, <1>6 DEF Resume, ReaderDeliver
(* A call that returns leaves the others', whose ids are not its own.      *)
<1>7. ASSUME NEW t \in Tasks, pc[t] # "idle",
             \/ \E o \in {"returned", "transport", "cancelled"} : Finish(t, o)
             \/ pc' = [pc EXCEPT ![t] = "cold"] /\ UNCHANGED outcome
             \/ UNCHANGED <<pc, outcome>>,
             UNCHANGED <<cur, reader, pending>>, ~ReaderDeliver
      PROVE  WaitInv'
    <2>1. \A u \in Tasks : pc'[u] \in {"registered", "waiting"} =>
              /\ pc'[u] = pc[u] /\ cur'[u] = cur[u]
              /\ outcome'[cur[u]] = outcome[cur[u]]
        BY <1>7 DEF Finish
    <2>2. QED  BY <1>1, <1>2, <1>7, <2>1
<1>8. ASSUME NEW t \in Tasks,
             OpenMux(t) \/ SendHot(t) \/ SendCold(t) \/ SendSpawn(t) \/ Cancel(t)
      PROVE  WaitInv'
    <2>1. ~ReaderDeliver
        BY <1>8 DEF OpenMux, SendHot, SendCold, SendSpawn, Cancel, ReaderDeliver
    <2>2. QED
        BY <1>7, <1>8, <2>1 DEF OpenMux, SendHot, SendCold, SendSpawn, Cancel,
           Finish
<1>9. CASE ReaderDeliver
    <2> DEFINE r == Head(toClient)
    <2>1. /\ r \in Reply /\ r.id \in Ids /\ r.answer # "open"
          /\ UNCHANGED <<pc, cur, reader>> /\ reader = "run"
          /\ pending' = pending \ {r.id}
          /\ outcome' = IF r.id \in pending /\ outcome[r.id] = "open"
                        THEN [outcome EXCEPT ![r.id] = r.answer] ELSE outcome
        BY <1>9, MembersOfTail DEF ReaderDeliver
    <2> HIDE DEF r
    <2>2. ASSUME NEW u \in Tasks, pc[u] \in {"registered", "waiting"},
                 outcome'[cur[u]] = "open"
          PROVE  /\ outcome[cur[u]] = "open" /\ cur[u] \in pending
                 /\ cur[u] # r.id
        BY <2>1, <2>2
    <2>3. QED  BY <1>1, <1>2, <2>1, <2>2 DEF r
<1>10. CASE ReaderExit
    <2>1. reader' = "exited" /\ ~Healthy'
        BY <1>10 DEF ReaderExit, Healthy
    <2>2. QED  BY <2>1
<1>11. CASE DropMux
    BY <1>11 DEF DropMux
(* The rest leaves the calls, the map and the reader alone.                *)
<1>12. CASE UNCHANGED <<pc, cur, outcome, pending, reader>> /\ ~ReaderDeliver
    BY <1>1, <1>2, <1>12
<1>13. CASE \/ \E c \in cold : ColdShared(c) \/ ColdOwn(c)
            \/ \E i \in aux : AuxDispatch(i)
            \/ Writer \/ Handler \/ Disconnect
    <2>1. UNCHANGED <<pc, cur, outcome, pending, reader>>
        BY <1>13 DEF ColdShared, ColdOwn, AuxDispatch, Writer, WriterWrite,
           WriterExit, Handler, HandlerDispatch, HandlerReply,
           HandlerReplyLost, HandlerEof, Disconnect
    <2>2. CASE ~ReaderDeliver
        BY <1>12, <2>1, <2>2
    <2>3. CASE ReaderDeliver
        BY <1>9, <2>3
    <2>4. QED  BY <2>2, <2>3
<1>14. CASE UNCHANGED vars
    BY <1>9, <1>12, <1>14 DEF vars
<1>15. QED
    BY <1>3, <1>4, <1>5, <1>6, <1>8, <1>9, <1>10, <1>11, <1>13, <1>14
       DEF Next, TaskStep, Reader

(* An answer is written before the next frame is read.                     *)
LEMMA StepReply == OneReply /\ [Next]_vars => OneReply'
BY DEF OneReply, Next, vars, taskVars, wireVars, serverVars, coldVars, TaskStep,
   Cancel, OpenMux, Register, PushRequest, Resume, SendHot, SendCold, SendSpawn,
   Mint, ColdShared, ColdOwn, AuxDispatch, DropMux, Writer, WriterWrite,
   WriterExit, Reader, ReaderDeliver, ReaderExit, Handler, HandlerDispatch,
   HandlerReply, HandlerReplyLost, HandlerEof, Disconnect

(* No waiting request loses the last thing that can wake it: its place in  *)
(* `pending` while the reader runs, and its frame or its answer while      *)
(* nothing has failed.                                                     *)
THEOREM NoLostWaiterCorrect == Spec => []NoLostWaiter
<1>1. Init => WaitInv /\ OneReply
    BY DEF Init, WaitInv, OneReply
<1>2. TypeOK /\ CallOK /\ OneReply /\ WaitInv /\ [Next]_vars
      => WaitInv' /\ OneReply'
    BY StepWait, StepReply
<1>3. WaitInv => NoLostWaiter
    BY DEF WaitInv, NoLostWaiter
<1>4. QED
    BY <1>1, <1>2, <1>3, TypeCorrect, PTL DEF Spec
-----------------------------------------------------------------------------
(* The remote call of RpcSpec. A call's place in its order is where its    *)
(* frame is handed over, so a call that is not yet handed over must still  *)
(* be one that RpcSpec may issue or fail.                                  *)

(* A call at its start is open and nobody's to answer; once registered it  *)
(* may have been failed by the reader's exit, but not answered.            *)
StartInv ==
    \A t \in Tasks :
       /\ pc[t] = "minted" => outcome[cur[t]] = "open" /\ cur[t] \notin pending
       /\ pc[t] = "registered" => outcome[cur[t]] \in {"open", "closed"}
       /\ pc[t] \in {"registered", "waiting"} => IsRequest(t)

RpcInv == TypeOK /\ CallOK /\ AnswerInv /\ OrderInv /\ StartInv

(* What has not been handed over is not answered.                          *)
LEMMA StartIsUnanswered ==
    ASSUME RpcInv, NEW t \in Tasks, pc[t] \in {"minted", "registered"}
    PROVE  cur[t] \notin Members(served) /\ cur[t] \notin Members(issued)
<1>1. issued \in Seq(Ids) /\ served \in Seq(Ids)
    BY DEF RpcInv, TypeOK
<1>2. DOMAIN issued = 1..Len(issued) /\ DOMAIN served = 1..Len(served)
      /\ Len(issued) \in Nat /\ Len(served) \in Nat
    BY <1>1
<1>3. cur[t] \notin Members(issued)
    BY <1>2 DEF Members, RpcInv, OrderInv, Handover
<1>4. ASSUME NEW k \in DOMAIN served PROVE served[k] \in Members(issued)
    <2>1. Len(served) <= Len(issued) /\ served[k] = issued[k]
        <3>1. Begins
            BY DEF RpcInv, OrderInv, Pipeline
        <3>2. QED
            BY ONLY <1>2, <1>4, <3>1 DEF Begins
    <2>2. k \in DOMAIN issued
        BY <1>2, <2>1
    <2>3. QED
        BY <2>1, <2>2 DEF Members
<1>5. QED
    BY <1>3, <1>4 DEF Members

LEMMA StepStart ==
    ASSUME RpcInv, [Next]_vars
    PROVE  StartInv'
<1>0. /\ outcome \in [Ids -> Outcomes] /\ cur \in [Tasks -> 0..MaxCalls]
      /\ pc \in [Tasks -> {"idle", "minted", "registered", "waiting", "cold"}]
      /\ call \in [Ids -> Actions \cup {NoCall}] /\ pending \in SUBSET Ids
      /\ \A u \in Tasks : pc[u] # "idle" => cur[u] \in Ids /\ cur[u] < next
      /\ \A t, u \in Tasks :
            pc[t] # "idle" /\ pc[u] # "idle" /\ t # u => cur[t] # cur[u]
    BY DEF RpcInv, TypeOK, CallOK
<1> USE <1>0
<1>1. StartInv
    BY DEF RpcInv
<1> USE <1>1
<1> USE DEF StartInv, IsRequest, taskVars, wireVars, serverVars, coldVars, Goto, Finish
<1>2. ASSUME NEW t \in Tasks, NEW a \in Actions, Mint(t, a) PROVE StartInv'
    <2>1. /\ next \in Ids /\ pc[t] = "idle"
          /\ \A u \in Tasks : pc[u] # "idle" => cur[u] # next
        BY <1>2 DEF Mint, RpcInv, TypeOK, Ids
    <2>2. next \notin pending
        <3>1. call[next] = NoCall
            BY <2>1 DEF RpcInv, CallOK, TypeOK, Ids
        <3>2. QED
            BY <3>1, MuxAssumption DEF RpcInv, AnswerInv, Tagged, Actions
    <2>3. QED
        BY <1>2, <2>1, <2>2 DEF Mint
<1>3. ASSUME NEW t \in Tasks, OpenMux(t) PROVE StartInv'
    BY <1>3 DEF OpenMux
<1>4. ASSUME NEW t \in Tasks, Register(t) PROVE StartInv'
    BY <1>4 DEF Register
<1>5. ASSUME NEW t \in Tasks, PushRequest(t) PROVE StartInv'
    BY <1>5 DEF PushRequest
<1>6. ASSUME NEW t \in Tasks, Resume(t) \/ Cancel(t) PROVE StartInv'
    BY <1>6 DEF Resume, Cancel
<1>7. ASSUME NEW t \in Tasks, SendHot(t) \/ SendCold(t) \/ SendSpawn(t) PROVE StartInv'
    BY <1>7 DEF SendHot, SendCold, SendSpawn
<1>8. CASE DropMux
    BY <1>8 DEF DropMux
<1>9. CASE ReaderDeliver
    <2>1. toClient \in Seq(Reply) /\ toClient # <<>>
        BY <1>9 DEF ReaderDeliver, RpcInv, TypeOK
    <2>2. Head(toClient).id \in Ids /\ Head(toClient).id \in Members(served)
        <3>1. Head(toClient) = toClient[1] /\ 1 \in DOMAIN toClient
              /\ Head(toClient) \in Reply
            BY <2>1
        <3>2. QED
            BY <3>1 DEF Reply, RpcInv, AnswerInv, Tagged
    <2>3. \A t \in Tasks : pc[t] \in {"minted", "registered"}
                              => cur[t] # Head(toClient).id
        BY <2>2, StartIsUnanswered
    <2>4. QED
        BY <1>9, <2>2, <2>3 DEF ReaderDeliver
<1>10. CASE ReaderExit
    BY <1>10 DEF ReaderExit
<1>11. CASE UNCHANGED <<taskVars, pending, outcome>>
    BY <1>11
<1>12. QED
    BY <1>2, <1>3, <1>4, <1>5, <1>6, <1>7, <1>8, <1>9, <1>10, <1>11
       DEF Next, vars, TaskStep, ColdShared, ColdOwn, AuxDispatch, Writer,
       WriterWrite, WriterExit, Reader, Handler, HandlerDispatch, HandlerReply,
       HandlerReplyLost, HandlerEof, Disconnect

(* Every step is one of RpcSpec's, or changes nothing that it sees.        *)
LEMMA StepRpc ==
    ASSUME RpcInv, [Next]_vars
    PROVE  [Rpc!Next]_(Rpc!rpcVars)
<1>0. /\ outcome \in [Ids -> Outcomes] /\ cur \in [Tasks -> 0..MaxCalls]
      /\ call \in [Ids -> Actions \cup {NoCall}] /\ pending \in SUBSET Ids
      /\ \A u \in Tasks : pc[u] # "idle" => cur[u] \in Ids /\ call[cur[u]] # NoCall
      /\ Requests \cap Sends = {}
      /\ StartInv
    BY MuxAssumption DEF RpcInv, TypeOK, CallOK
<1> USE <1>0
<1> USE DEF taskVars, wireVars, serverVars, coldVars, Goto, Finish, IsRequest
<1>1. ASSUME NEW i \in Ids, NEW f \in Rpc!Failures, outcome[i] = "open",
             outcome' = [outcome EXCEPT ![i] = f],
             UNCHANGED <<call, issued, served>>
      PROVE  Rpc!Next
    <2>1. outcome' = [j \in Ids |-> IF j \in {i} THEN f ELSE outcome[j]]
        BY <1>1
    <2>2. Rpc!Fail({i})
        BY <1>1, <2>1 DEF Rpc!Fail
    <2>3. QED
        BY <2>2 DEF Rpc!Next
<1>2. ASSUME NEW t \in Tasks, NEW a \in Actions, Mint(t, a) PROVE Rpc!Next
    <2>1. next \in Ids /\ call[next] = NoCall
        BY <1>2 DEF Mint, RpcInv, CallOK, TypeOK, Ids
    <2>2. Rpc!Begin(next, a)
        BY <1>2, <2>1 DEF Mint, Rpc!Begin, Rpc!Failures
    <2>3. a \in Rpc!Actions
        BY DEF Actions, Rpc!Actions
    <2>4. QED
        BY <2>1, <2>2, <2>3 DEF Rpc!Next
<1>3. ASSUME NEW t \in Tasks, OpenMux(t) PROVE [Rpc!Next]_(Rpc!rpcVars)
    <2>1. CASE up
        BY <1>3, <2>1 DEF OpenMux, Rpc!rpcVars
    <2>2. CASE ~up
        BY <1>1, <1>3, <2>2 DEF OpenMux, StartInv, Rpc!Failures
    <2>3. QED
        BY <2>1, <2>2
<1>4. ASSUME NEW t \in Tasks, PushRequest(t) PROVE [Rpc!Next]_(Rpc!rpcVars)
    <2>1. cur[t] \in Ids /\ cur[t] \notin Members(issued)
          /\ outcome[cur[t]] \in {"open", "closed"} /\ call[cur[t]] \in Requests
        BY <1>4, StartIsUnanswered DEF PushRequest, StartInv
    <2>2. CASE issued' = Append(issued, cur[t]) /\ UNCHANGED outcome
        <3>1. Rpc!Issue(cur[t])
            BY <1>4, <2>1, <2>2 DEF PushRequest, Rpc!Issue, Rpc!Members, Members
        <3>2. QED
            BY <2>1, <3>1 DEF Rpc!Next
    <2>3. CASE outcome' = [outcome EXCEPT ![cur[t]] = "closed"] /\ UNCHANGED issued
        <3>1. CASE outcome[cur[t]] = "open"
            BY <1>1, <1>4, <2>1, <2>3, <3>1 DEF PushRequest, Rpc!Failures
        <3>2. CASE outcome[cur[t]] = "closed"
            BY <1>4, <2>3, <3>2 DEF PushRequest, Rpc!rpcVars
        <3>3. QED
            BY <2>1, <3>1, <3>2
    <2>4. QED
        BY <1>4, <2>2, <2>3 DEF PushRequest
<1>5. ASSUME NEW t \in Tasks, Cancel(t) PROVE Rpc!Next
    BY <1>1, <1>5 DEF Cancel, Rpc!Failures
<1>6. ASSUME NEW t \in Tasks, SendHot(t) PROVE Rpc!Next
    <2>1. cur[t] \in Ids /\ cur[t] \notin Members(issued)
          /\ outcome[cur[t]] = "open" /\ call[cur[t]] \in Sends
        BY <1>6, StartIsUnanswered DEF SendHot, StartInv, Actions
    <2>2. CASE issued' = Append(issued, cur[t])
        <3>1. Rpc!Issue(cur[t])
            BY <1>6, <2>1, <2>2 DEF SendHot, Rpc!Issue, Rpc!Members, Members
        <3>2. QED
            BY <2>1, <3>1 DEF Rpc!Next
    <2>3. CASE UNCHANGED issued
        BY <1>1, <1>6, <2>1, <2>3 DEF SendHot, Rpc!Failures
    <2>4. QED
        BY <1>6, <2>2, <2>3 DEF SendHot
<1>7. ASSUME NEW t \in Tasks, SendCold(t) \/ SendSpawn(t) PROVE FALSE
    BY <1>7 DEF SendCold, SendSpawn, RpcInv, OrderInv, NoCold
<1>8. cold = {} /\ aux = {}
    BY DEF RpcInv, OrderInv, NoCold
<1>9. CASE ReaderDeliver
    <2>1. toClient \in Seq(Reply) /\ toClient # <<>>
        BY <1>9 DEF ReaderDeliver, RpcInv, TypeOK
    <2> DEFINE r == Head(toClient)
    <2>2. r.id \in Ids /\ r.id \in Members(served) /\ r.answer = call[r.id]
        <3>1. r = toClient[1] /\ 1 \in DOMAIN toClient /\ r \in Reply
            BY <2>1
        <3>2. QED
            BY <3>1 DEF Reply, RpcInv, AnswerInv, Tagged
    <2>3. CASE r.id \in pending /\ outcome[r.id] = "open"
        <3>1. Rpc!Answer(r.id)
            BY <1>9, <2>2, <2>3 DEF ReaderDeliver, Rpc!Answer, Rpc!Members, Members
        <3>2. QED
            BY <2>2, <3>1 DEF Rpc!Next
    <2>4. CASE ~(r.id \in pending /\ outcome[r.id] = "open")
        BY <1>9, <2>4 DEF ReaderDeliver, Rpc!rpcVars
    <2>5. QED
        BY <2>3, <2>4
<1>10. CASE ReaderExit
    <2> DEFINE S == {i \in Ids : i \in pending /\ outcome[i] = "open"}
    <2>1. outcome' = [i \in Ids |-> IF i \in S THEN "closed" ELSE outcome[i]]
        BY <1>10 DEF ReaderExit
    <2>2. Rpc!Fail(S)
        BY <1>10, <2>1 DEF ReaderExit, Rpc!Fail, Rpc!Failures
    <2>3. S \in SUBSET Ids
        OBVIOUS
    <2>4. QED
        BY <2>2, <2>3 DEF Rpc!Next
<1>11. CASE HandlerDispatch /\ served' # served
    <2>1. /\ toServer \in Seq(Frame) /\ toServer # <<>> /\ handler = "run"
          /\ served \in Seq(Ids) /\ issued \in Seq(Ids)
        BY <1>11 DEF HandlerDispatch, RpcInv, TypeOK
    <2>2. Head(toServer) = toServer[1] /\ Len(toServer) \in Nat /\ 1 \in 1..Len(toServer)
          /\ Len(served) \in Nat /\ Len(issued) \in Nat
        BY <2>1
    <2>3. Head(toServer).id = issued[Len(served) + 1] /\ Len(served) < Len(issued)
        BY <2>1, <2>2 DEF RpcInv, OrderInv, Pipeline, Aligned
    <2>4. Rpc!Execute
        BY <1>11, <2>3 DEF HandlerDispatch, Rpc!Execute
    <2>5. QED
        BY <2>4 DEF Rpc!Next
<1>12. CASE UNCHANGED <<call, issued, served, outcome>>
    BY <1>12 DEF Rpc!rpcVars
<1>13. ASSUME HandlerDispatch, served' = served
       PROVE  UNCHANGED <<call, issued, served, outcome>>
    BY <1>13 DEF HandlerDispatch
<1>14. QED
    BY <1>13, <1>2, <1>3, <1>4, <1>5, <1>6, <1>7, <1>8, <1>9, <1>10, <1>11, <1>12
       DEF Next, vars, TaskStep, Register, Resume, DropMux, Writer, WriterWrite,
       WriterExit, Reader, Handler, HandlerReply, HandlerReplyLost, HandlerEof,
       Disconnect

(* The client layer is the remote call of RpcSpec, for any number of tasks *)
(* and calls, any window and through any failure: a call takes one place   *)
(* in one order and is executed at most once and in its turn, and it is    *)
(* answered only with what its own execution answered.                     *)
THEOREM RpcCorrect ==
    ASSUME HelloFirst
    PROVE  Spec => ImplementsRpc
<1>1. Init => AnswerInv /\ StartInv
    BY MuxAssumption DEF Init, AnswerInv, Tagged, AnsweredFromOwnCall, StartInv
<1>2. TypeOK /\ CallOK /\ AnswerInv /\ [Next]_vars => AnswerInv'
    BY StepAnswer
<1>3. TypeOK /\ CallOK /\ AnswerInv /\ OrderInv /\ StartInv /\ [Next]_vars
      => StartInv' /\ [Rpc!Next]_(Rpc!rpcVars)
    BY StepStart, StepRpc DEF RpcInv
<1>4. Init => Rpc!Init
    BY DEF Init, Rpc!Init
<1>5. Spec => []OrderInv
    BY OrderCorrect
<1>6. QED
    BY <1>1, <1>2, <1>3, <1>4, <1>5, TypeCorrect, PTL DEF Spec, ImplementsRpc, Rpc!Spec
=============================================================================
