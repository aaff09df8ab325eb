---------------------------- MODULE ServingProofs ----------------------------
(***************************************************************************)
(* Proofs about KeyStore and Serving for any processes, modes, clients and *)
(* bounds.                                                                 *)
(***************************************************************************)
EXTENDS Serving, QueueFacts, TLAPS

USE KeyStoreAssumption, ServingAssumption

(* What a process at some point holds, and which mode it is in.            *)
Writing == {"cutCert", "putCert", "cutKey", "putKey"}
Placed ==
    \A p \in Procs :
        /\ pc[p] \in AtFiles \ {"generate"} => UsesCa(p)
        /\ pc[p] \in Writing => mem[p].cert \in Versions /\ mem[p].key \in Versions
        /\ pc[p] = "bind" => mem[p].key \in Versions
        /\ HoldsPort(p) => mem[p].key \in Versions

(* The port has one holder; only that one writes --cert-out.               *)
PortInv ==
    /\ \A p, q \in Procs : HoldsPort(p) /\ HoldsPort(q) => p = q
    /\ \A p \in Procs : pc[p] \in {"cutOut", "putOut"} => mode[p] = "self"
    /\ OutIsListener

(* One process is at the CA's files. They hold a whole key only with its   *)
(* certificate beside it, announced; who writes them has found no key.     *)
FilesInv ==
    /\ \A p, q \in Procs :
          UsesCa(p) /\ UsesCa(q) /\ pc[p] \in AtFiles /\ pc[q] \in AtFiles
          => p = q
    /\ key \in Versions => cert = key /\ announced = {key}
    /\ key \notin Versions => announced = {}
    /\ \A p \in Procs : UsesCa(p) =>
          /\ pc[p] = "loadKey" => mem[p].cert = cert
          /\ pc[p] \in Writing \cup {"generate"} => key \notin Versions
          /\ pc[p] \in Writing => mem[p].cert = mem[p].key
          /\ pc[p] \in {"cutKey", "putKey"} => cert = mem[p].cert
          /\ pc[p] \in {"bind"} \cup Listening =>
                announced = {mem[p].key} /\ mem[p].cert = mem[p].key

(* The steps of a process and of the operator at the key store.            *)
KeyStep(p) == StartUp(p) \/ Die(p) \/ (\E m \in Modes : Start(p, m)) \/ CleanUp
-----------------------------------------------------------------------------
(* With no process and no file there is nothing to hold.                   *)
LEMMA KeyInitInv == Init => KeyTypeOK /\ Placed /\ PortInv /\ FilesInv
BY DEF Init, KeyTypeOK, Placed, PortInv, FilesInv, OutIsListener, HoldsPort,
       UsesCa, AtFiles, Listening, Writing, Contents, Versions, Nothing

(* What a process holds at each point of its start: one case per step.     *)
LEMMA KeyStepType ==
    ASSUME KeyTypeOK, Placed, NEW p \in Procs, KeyStep(p)
    PROVE  KeyTypeOK' /\ Placed'
<1> USE DEF KeyTypeOK, Placed, HoldsPort, UsesCa, AtFiles, Listening, Writing,
            Contents, Versions, Nothing, Goto, Hold, Exit, fileVars
<1>1. CASE Probe(p)
    BY <1>1 DEF Probe
<1>2. CASE LoadCert(p)
    <2>1. CASE Exit(p)
        BY <1>2, <2>1 DEF LoadCert
    <2>2. CASE ~Exit(p)
        <3>1. /\ Goto(p, "loadKey") /\ Hold(p, [cert |-> cert, key |-> Absent])
              /\ pc[p] = "loadCert"
              /\ UNCHANGED <<mode, cert, key, out, minted, announced>>
            BY <1>2, <2>2 DEF LoadCert
        <3>2. QED  BY <3>1
    <2>3. QED  BY <2>1, <2>2
<1>3. CASE LoadKey(p)
    <2>1. CASE Exit(p)
        BY <1>3, <2>1 DEF LoadKey
    <2>2. CASE ~Exit(p)
        <3>1. /\ Goto(p, "bind") /\ Hold(p, [cert |-> mem[p].cert, key |-> key])
              /\ pc[p] = "loadKey" /\ key \in Versions
              /\ UNCHANGED <<mode, cert, key, out, minted, announced>>
            BY <1>3, <2>2 DEF LoadKey
        <3>2. QED  BY <3>1
    <2>3. QED  BY <2>1, <2>2
<1>4. CASE Generate(p)
    BY <1>4 DEF Generate
<1>5. CASE SaveCert(p)
    BY <1>5 DEF SaveCert
<1>6. CASE SaveKey(p)
    <2>1. CASE pc[p] = "cutKey"
        BY <1>6, <2>1 DEF SaveKey
    <2>2. CASE pc[p] = "putKey" /\ Exit(p)
        BY <1>6, <2>2 DEF SaveKey
    <2>3. CASE pc[p] = "putKey" /\ ~Exit(p)
        BY <1>6, <2>3 DEF SaveKey, Saved
    <2>4. QED  BY <1>6, <2>1, <2>2, <2>3 DEF SaveKey
<1>7. CASE Bind(p)
    BY <1>7 DEF Bind, InUse
<1>8. CASE WriteOut(p)
    BY <1>8 DEF WriteOut
<1>9. CASE EngineReady(p)
    BY <1>9 DEF EngineReady
<1>10. CASE Die(p)
    BY <1>10 DEF Die
<1>11. ASSUME NEW m \in Modes, Start(p, m) PROVE KeyTypeOK' /\ Placed'
    BY <1>11 DEF Start
<1>12. CASE CleanUp
    BY <1>12 DEF CleanUp
<1>13. QED
    BY <1>1, <1>2, <1>3, <1>4, <1>5, <1>6, <1>7, <1>8, <1>9, <1>10, <1>11,
       <1>12 DEF KeyStep, StartUp

(* A port that is taken is bound by nobody else, and is held until the     *)
(* holder ends.                                                            *)
LEMMA KeyStepPort ==
    ASSUME KeyTypeOK, Placed, PortInv, NEW p \in Procs, KeyStep(p)
    PROVE  PortInv'
<1> USE DEF KeyTypeOK, Placed, PortInv, OutIsListener, HoldsPort, UsesCa,
            AtFiles, Listening, Writing, Nothing, Goto, Hold, Exit, fileVars
<1>1. CASE Probe(p)
    BY <1>1 DEF Probe
<1>2. CASE LoadCert(p)
    <2>1. CASE Exit(p)
        BY <1>2, <2>1 DEF LoadCert
    <2>2. CASE ~Exit(p)
        <3>1. /\ Goto(p, "loadKey") /\ Hold(p, [cert |-> cert, key |-> Absent])
              /\ pc[p] = "loadCert"
              /\ UNCHANGED <<mode, cert, key, out, minted, announced>>
            BY <1>2, <2>2 DEF LoadCert
        <3>2. QED  BY <3>1
    <2>3. QED  BY <2>1, <2>2
<1>3. CASE LoadKey(p)
    <2>1. CASE Exit(p)
        BY <1>3, <2>1 DEF LoadKey
    <2>2. CASE ~Exit(p)
        <3>1. /\ Goto(p, "bind") /\ Hold(p, [cert |-> mem[p].cert, key |-> key])
              /\ pc[p] = "loadKey" /\ key \in Versions
              /\ UNCHANGED <<mode, cert, key, out, minted, announced>>
            BY <1>3, <2>2 DEF LoadKey
        <3>2. QED  BY <3>1
    <2>3. QED  BY <2>1, <2>2
<1>4. CASE Generate(p)
    BY <1>4 DEF Generate
<1>5. CASE SaveCert(p)
    BY <1>5 DEF SaveCert
<1>6. CASE SaveKey(p)
    <2>1. CASE pc[p] = "cutKey"
        BY <1>6, <2>1 DEF SaveKey
    <2>2. CASE pc[p] = "putKey" /\ Exit(p)
        BY <1>6, <2>2 DEF SaveKey
    <2>3. CASE pc[p] = "putKey" /\ ~Exit(p)
        BY <1>6, <2>3 DEF SaveKey, Saved
    <2>4. QED  BY <1>6, <2>1, <2>2, <2>3 DEF SaveKey
<1>7. CASE Bind(p)
    <2>1. CASE InUse(p)
        BY <1>7, <2>1 DEF Bind
    <2>2. CASE ~InUse(p)
        <3>1. \A q \in Procs \ {p} : ~HoldsPort(q)
            BY <2>2 DEF InUse
        <3>2. /\ pc[p] = "bind" /\ UNCHANGED <<cert, key, out, mode, mem>>
              /\ Goto(p, IF mode[p] = "self" THEN "cutOut" ELSE "bound")
            BY <1>7, <2>2 DEF Bind
        <3>3. QED  BY <3>1, <3>2
    <2>3. QED  BY <2>1, <2>2
<1>8. CASE WriteOut(p)
    BY <1>8 DEF WriteOut
<1>9. CASE EngineReady(p)
    BY <1>9 DEF EngineReady
<1>10. CASE Die(p)
    BY <1>10 DEF Die
<1>11. ASSUME NEW m \in Modes, Start(p, m) PROVE PortInv'
    BY <1>11 DEF Start
<1>12. CASE CleanUp
    BY <1>12 DEF CleanUp
<1>13. QED
    BY <1>1, <1>2, <1>3, <1>4, <1>5, <1>6, <1>7, <1>8, <1>9, <1>10, <1>11,
       <1>12 DEF KeyStep, StartUp

(* What a start that was cut short leaves behind is never taken for a CA.  *)
LEMMA KeyStepFiles ==
    ASSUME KeyTypeOK, Placed, Careful, FilesInv, NEW p \in Procs, KeyStep(p)
    PROVE  FilesInv'
<1> USE DEF KeyTypeOK, Placed, FilesInv, HoldsPort, UsesCa, AtFiles,
            Listening, Writing, Contents, Versions, Nothing, Goto, Hold, Exit,
            fileVars
<1>1. CASE Probe(p)
    BY <1>1 DEF Probe
<1>2. CASE LoadCert(p)
    <2>1. CASE Exit(p)
        BY <1>2, <2>1 DEF LoadCert
    <2>2. CASE ~Exit(p)
        <3>1. /\ Goto(p, "loadKey") /\ Hold(p, [cert |-> cert, key |-> Absent])
              /\ pc[p] = "loadCert"
              /\ UNCHANGED <<mode, cert, key, out, minted, announced>>
            BY <1>2, <2>2 DEF LoadCert
        <3>2. QED  BY <3>1
    <2>3. QED  BY <2>1, <2>2
<1>3. CASE LoadKey(p)
    <2>1. CASE Exit(p)
        BY <1>3, <2>1 DEF LoadKey
    <2>2. CASE ~Exit(p)
        <3>1. /\ Goto(p, "bind") /\ Hold(p, [cert |-> mem[p].cert, key |-> key])
              /\ pc[p] = "loadKey" /\ key \in Versions
              /\ UNCHANGED <<mode, cert, key, out, minted, announced>>
            BY <1>3, <2>2 DEF LoadKey
        <3>2. QED  BY <3>1
    <2>3. QED  BY <2>1, <2>2
<1>4. CASE Generate(p)
    BY <1>4 DEF Generate
<1>5. CASE SaveCert(p)
    BY <1>5 DEF SaveCert
<1>6. CASE SaveKey(p)
    <2>1. /\ UsesCa(p) /\ key \notin Versions /\ announced = {}
          /\ mem[p].cert = mem[p].key /\ cert = mem[p].cert
          /\ mem[p].key \in Versions
        BY <1>6 DEF SaveKey
    <2>2. \A q \in Procs \ {p} :
              UsesCa(q) => pc[q] \notin AtFiles \cup {"bind"} \cup Listening
        BY <1>6, <2>1 DEF SaveKey
    <2>3. CASE pc[p] = "cutKey"
        BY <1>6, <2>1, <2>2, <2>3 DEF SaveKey
    <2>4. CASE pc[p] = "putKey" /\ Exit(p)
        BY <1>6, <2>1, <2>2, <2>4 DEF SaveKey
    <2>5. CASE pc[p] = "putKey" /\ ~Exit(p)
        <3>1. /\ Goto(p, "bind") /\ UNCHANGED <<mode, mem, cert>>
              /\ key' = mem[p].key /\ announced' = {mem[p].cert}
            BY <1>6, <2>1, <2>5 DEF SaveKey, Saved
        <3>2. QED  BY <2>1, <2>2, <2>5, <3>1
    <2>6. QED  BY <1>6, <2>3, <2>4, <2>5 DEF SaveKey
<1>7. CASE Bind(p)
    BY <1>7 DEF Bind, InUse
<1>8. CASE WriteOut(p)
    BY <1>8 DEF WriteOut
<1>9. CASE EngineReady(p)
    BY <1>9 DEF EngineReady
<1>10. CASE Die(p)
    BY <1>10 DEF Die
<1>11. ASSUME NEW m \in Modes, Start(p, m) PROVE FilesInv'
    BY <1>11 DEF Start
<1>12. CASE CleanUp
    BY <1>12 DEF CleanUp
<1>13. QED
    BY <1>1, <1>2, <1>3, <1>4, <1>5, <1>6, <1>7, <1>8, <1>9, <1>10, <1>11,
       <1>12 DEF KeyStep, StartUp
-----------------------------------------------------------------------------
(* The connections a process has, served or on their way: no two processes *)
(* have one in common, and none has been ended.                            *)
Owned(p) == conns[p] \cup Attempts(p)
OwnInv ==
    \A p \in Procs :
        /\ Owned(p) \subseteq 1..dialled
        /\ \A a \in Owned(p) : status[a] # "ended"
        /\ \A q \in Procs : Owned(p) \cap Owned(q) # {} => p = q

ServeTypeOK ==
    /\ pins \in SUBSET Versions /\ dialled \in 0..MaxDials
    /\ status \in [Dials -> Statuses]
    /\ queue \in [Procs -> Seq(Incoming)] /\ hand \in [Procs -> Seq(Incoming)]
    /\ conns \in [Procs -> SUBSET Dials]

(* The members of a queue.                                                 *)
LEMMA MembersFacts ==
    ASSUME NEW S, NEW s \in Seq(S)
    PROVE  /\ Members(<<>>) = {} /\ Members(s) \subseteq S
           /\ \A e \in S : Members(Append(s, e)) = Members(s) \cup {e}
           /\ \A e \in S : Members(<<e>>) = {e}
           /\ s # <<>> => /\ Head(s) \in Members(s)
                          /\ Members(Tail(s)) \subseteq Members(s)
<1>1. Members(<<>>) = {} /\ Members(s) \subseteq S
    BY DEF Members
<1>2. ASSUME NEW e \in S PROVE Members(Append(s, e)) = Members(s) \cup {e}
    <2>1. /\ DOMAIN Append(s, e) = 1..(Len(s) + 1) /\ DOMAIN s = 1..Len(s)
          /\ Len(s) \in Nat /\ Append(s, e)[Len(s) + 1] = e
          /\ \A k \in 1..Len(s) : Append(s, e)[k] = s[k]
        BY AppendFacts
    <2>2. QED  BY ONLY <2>1 DEF Members
<1>3. ASSUME NEW e \in S PROVE Members(<<e>>) = {e}
    BY DEF Members
<1>4. ASSUME s # <<>>
      PROVE  Head(s) \in Members(s) /\ Members(Tail(s)) \subseteq Members(s)
    <2>1. /\ DOMAIN Tail(s) = 1..(Len(s) - 1) /\ DOMAIN s = 1..Len(s)
          /\ Len(s) \in Nat \ {0} /\ Head(s) = s[1]
          /\ \A k \in 1..(Len(s) - 1) : Tail(s)[k] = s[k + 1]
        BY <1>4, TailFacts
    <2>2. QED  BY ONLY <2>1 DEF Members
<1>5. QED  BY <1>1, <1>2, <1>3, <1>4

(* A process that only loses connections keeps the invariant.              *)
LEMMA Fewer ==
    ASSUME OwnInv, dialled' = dialled,
           \A p \in Procs : Owned(p)' \subseteq Owned(p),
           \A p \in Procs : \A a \in Owned(p)' : status'[a] # "ended"
    PROVE  OwnInv'
BY DEF OwnInv

(* Steps that touch no connection.                                         *)
LEMMA Same ==
    ASSUME OwnInv, UNCHANGED <<dialled, status, queue, hand, conns>>
    PROVE  OwnInv'
<1>1. \A p \in Procs : Owned(p)' = Owned(p)
    BY DEF Owned, Attempts
<1>2. QED  BY <1>1 DEF OwnInv

(* Nobody has dialled.                                                     *)
LEMMA SInitInv == SInit => ServeTypeOK /\ OwnInv
BY DEF SInit, ServeTypeOK, OwnInv, Owned, Attempts, Members, Dials, Statuses

(* Every step of the specification, as one at the key store.               *)
LEMMA NextKey ==
    ASSUME Next PROVE (\E p \in Procs : KeyStep(p)) \/ UNCHANGED keyVars
BY SomeProcess DEF Next, ProcStep, Crash, IrohFails, QuicFails, Take,
   HandshakeDone, DialIroh, DialQuic, Attempt, Copy, Leave, KeyStep

(* What the steps do to what a process has.                                *)
LEMMA NextServe ==
    ASSUME KeyTypeOK, ServeTypeOK, OwnInv, Next
    PROVE  ServeTypeOK' /\ OwnInv'
<1> USE DEF ServeTypeOK, Dials
<1>1. CASE UNCHANGED serveVars
    BY <1>1, Same DEF serveVars
<1>2. ASSUME NEW v \in Versions, Copy(v) PROVE ServeTypeOK' /\ OwnInv'
    <2>1. pins' \in SUBSET Versions /\ OwnInv'
        BY <1>2, Same DEF Copy
    <2>2. QED  BY <1>2, <2>1 DEF Copy
<1>3. ASSUME NEW p \in Procs, NEW v \in 0..MaxKeys, NEW n \in Names \cup {ById},
             Attempt(p, v, n)
      PROVE  ServeTypeOK' /\ OwnInv'
    <2> DEFINE e == [id |-> dialled', version |-> v, name |-> n]
    <2>1. dialled' = dialled + 1 /\ dialled' \in 1..MaxDials /\ dialled \in Nat
        BY <1>3 DEF Attempt
    <2>2. e \in Incoming /\ e.id = dialled'
        BY <2>1 DEF Incoming
    <2> HIDE DEF e
    <2>3. /\ queue' = [queue EXCEPT ![p] = Append(queue[p], e)]
          /\ status' = [status EXCEPT ![dialled'] = "waiting"]
          /\ UNCHANGED <<pins, hand, conns>>
        BY <1>3 DEF Attempt, e
    <2>4. Append(queue[p], e) \in Seq(Incoming)
        BY <2>2, AppendFacts
    <2>5. ServeTypeOK'
        BY <2>1, <2>3, <2>4 DEF Statuses
    <2>6. Members(queue'[p]) = Members(queue[p]) \cup {e}
        BY <2>2, <2>3, MembersFacts
    <2>7. /\ Owned(p)' = Owned(p) \cup {dialled'}
          /\ \A q \in Procs \ {p} : Owned(q)' = Owned(q)
        BY <2>2, <2>3, <2>6 DEF Owned, Attempts
    <2>8. OwnInv'
        <3>1. \A q \in Procs : Owned(q)' \subseteq Owned(q) \cup {dialled'}
            BY <2>7
        <3>2. \A q \in Procs : /\ Owned(q) \subseteq 1..dialled
                               /\ dialled' \notin Owned(q)
            BY <2>1 DEF OwnInv
        <3>3. ASSUME NEW q \in Procs, NEW b \in Owned(q)'
              PROVE  b \in 1..dialled' /\ status'[b] # "ended"
            BY <2>1, <2>3, <3>1, <3>2 DEF OwnInv
        <3>4. ASSUME NEW q \in Procs, NEW s \in Procs,
                     (Owned(q) \cap Owned(s))' # {}
              PROVE  q = s
            <4>1. PICK b : b \in Owned(q)' /\ b \in Owned(s)'
                BY <3>4
            <4>2. CASE b = dialled'
                BY <2>7, <3>2, <4>1, <4>2
            <4>3. CASE b # dialled'
                <5>1. b \in Owned(q) /\ b \in Owned(s)
                    BY <3>1, <4>1, <4>3
                <5>2. QED  BY <5>1 DEF OwnInv
            <4>4. QED  BY <4>2, <4>3
        <3>5. QED  BY <3>3, <3>4 DEF OwnInv
    <2>9. QED  BY <2>5, <2>8
<1>4. ASSUME NEW a \in Dials, Leave(a) PROVE ServeTypeOK' /\ OwnInv'
    <2>1. /\ status' = [status EXCEPT ![a] = "gone"]
          /\ conns' = [p \in Procs |-> conns[p] \ {a}]
          /\ UNCHANGED <<pins, dialled, queue, hand>>
        BY <1>4 DEF Leave
    <2>2. ServeTypeOK'
        BY <2>1 DEF Statuses
    <2>3. \A p \in Procs : Owned(p)' \subseteq Owned(p)
        BY <2>1 DEF Owned, Attempts
    <2>4. \A p \in Procs : \A b \in Owned(p)' : status'[b] # "ended"
        BY <2>1, <2>3 DEF OwnInv
    <2>5. QED  BY <2>1, <2>2, <2>3, <2>4, Fewer
<1>5. ASSUME NEW p \in Procs, Take(p) PROVE ServeTypeOK' /\ OwnInv'
    <2>1. /\ queue[p] # <<>> /\ hand[p] = <<>>
          /\ hand' = [hand EXCEPT ![p] = <<Head(queue[p])>>]
          /\ queue' = [queue EXCEPT ![p] = Tail(queue[p])]
          /\ UNCHANGED <<pins, dialled, status, conns>>
        BY <1>5 DEF Take
    <2>2. /\ Head(queue[p]) \in Incoming /\ Tail(queue[p]) \in Seq(Incoming)
          /\ Head(queue[p]) \in Members(queue[p])
          /\ Members(Tail(queue[p])) \subseteq Members(queue[p])
        BY <2>1, TailFacts, MembersFacts
    <2>3. ServeTypeOK'
        BY <2>1, <2>2
    <2>4. Members(<<Head(queue[p])>>) = {Head(queue[p])}
        BY <2>2, MembersFacts
    <2>5. \A q \in Procs : Owned(q)' \subseteq Owned(q)
        BY <2>1, <2>2, <2>4 DEF Owned, Attempts
    <2>6. \A q \in Procs : \A b \in Owned(q)' : status'[b] # "ended"
        BY <2>1, <2>5 DEF OwnInv
    <2>7. QED  BY <2>1, <2>3, <2>5, <2>6, Fewer
<1>6. ASSUME NEW p \in Procs, HandshakeDone(p) PROVE ServeTypeOK' /\ OwnInv'
    <2> DEFINE r == Head(hand[p])
    <2>1. /\ hand[p] # <<>> /\ hand' = [hand EXCEPT ![p] = <<>>]
          /\ status' = [status EXCEPT ![r.id] = "served"]
          /\ conns' = [conns EXCEPT ![p] = conns[p] \cup {r.id}]
          /\ UNCHANGED <<pins, dialled, queue>>
        BY <1>6 DEF HandshakeDone
    <2>2. r \in Incoming /\ r \in Members(hand[p])
        BY <2>1, TailFacts, MembersFacts
    <2>3. r.id \in Dials /\ r.id \in Attempts(p)
        BY <2>2 DEF Incoming, Attempts
    <2> HIDE DEF r
    <2>4. <<>> \in Seq(Incoming) /\ Members(<<>>) = {}
        BY MembersFacts
    <2>5. ServeTypeOK'
        BY <2>1, <2>3, <2>4 DEF Statuses
    <2>6. \A q \in Procs : Owned(q)' \subseteq Owned(q)
        BY <2>1, <2>3, <2>4 DEF Owned, Attempts
    <2>7. \A q \in Procs : \A b \in Owned(q)' : status'[b] # "ended"
        BY <2>1, <2>6 DEF OwnInv
    <2>8. QED  BY <2>1, <2>5, <2>6, <2>7, Fewer
<1>7. ASSUME NEW p \in Procs, QuicFails(p) PROVE ServeTypeOK' /\ OwnInv'
    <2> DEFINE r == Head(hand[p])
    <2>1. /\ hand[p] # <<>> /\ hand' = [hand EXCEPT ![p] = <<>>]
          /\ \/ status' = [status EXCEPT ![r.id] = "refused"]
             \/ status' = [status EXCEPT ![r.id] = status[r.id]]
          /\ UNCHANGED <<pins, dialled, queue, conns>>
        BY <1>7 DEF QuicFails, Fails
    <2>2. r \in Incoming
        BY <2>1, TailFacts
    <2>3. r.id \in Dials
        BY <2>2 DEF Incoming
    <2> HIDE DEF r
    <2>4. <<>> \in Seq(Incoming) /\ Members(<<>>) = {}
        BY MembersFacts
    <2>5. ServeTypeOK'
        BY <2>1, <2>3, <2>4 DEF Statuses
    <2>6. \A q \in Procs : Owned(q)' \subseteq Owned(q)
        BY <2>1, <2>4 DEF Owned, Attempts
    <2>7. \A q \in Procs : \A b \in Owned(q)' : status'[b] # "ended"
        BY <2>1, <2>3, <2>6 DEF OwnInv
    <2>8. QED  BY <2>1, <2>5, <2>6, <2>7, Fewer
<1>8. ASSUME NEW p \in Procs, NEW s \in {"ended", "cut"}, Disconnect(p, s)
      PROVE  ServeTypeOK' /\ OwnInv'
    <2>1. <<>> \in Seq(Incoming) /\ Members(<<>>) = {}
        BY MembersFacts
    <2>2. ServeTypeOK'
        BY <1>8, <2>1 DEF Disconnect, Statuses
    <2>3. /\ Owned(p)' = {} /\ dialled' = dialled
          /\ \A q \in Procs \ {p} : Owned(q)' = Owned(q)
        BY <1>8, <2>1 DEF Disconnect, Owned, Attempts
    <2>4. ASSUME NEW q \in Procs, NEW b \in Owned(q)' PROVE status'[b] # "ended"
        <3>1. q # p /\ b \in Owned(q) /\ b \notin Owned(p)
            BY <2>3 DEF OwnInv
        <3>2. b \in Dials /\ status[b] # "ended"
            BY <3>1 DEF OwnInv
        <3>3. status'[b] = status[b]
            BY <1>8, <3>1, <3>2 DEF Disconnect, Owned
        <3>4. QED  BY <3>2, <3>3
    <2>5. QED  BY <2>2, <2>3, <2>4, Fewer
<1>9. CASE \E p \in Procs : \E s \in {"ended", "cut"} : Disconnect(p, s)
    BY <1>8, <1>9
<1>10. CASE \E p \in Procs, m \in Modes : Start(p, m) /\ UNCHANGED serveVars
    BY <1>1, <1>10
<1>11. CASE CleanUp /\ UNCHANGED serveVars
    BY <1>1, <1>11
<1>12. CASE \E v \in Versions : Copy(v)
    BY <1>2, <1>12
<1>13. CASE \E p \in Procs, v \in pins, n \in Names : DialQuic(p, v, n)
    BY <1>3, <1>13 DEF DialQuic, Versions
<1>14. CASE \E p \in Procs : DialIroh(p)
    BY <1>3, <1>14 DEF DialIroh
<1>15. CASE \E a \in Dials : Leave(a)
    BY <1>4, <1>15
<1>16. CASE \E p \in Procs : ProcStep(p)
    BY <1>1, <1>5, <1>6, <1>7, <1>9, <1>16 DEF ProcStep, IrohFails
<1>17. CASE \E p \in Procs : Crash(p)
    BY <1>9, <1>17 DEF Crash
<1>18. QED
    BY <1>10, <1>11, <1>12, <1>13, <1>14, <1>15, <1>16, <1>17 DEF Next
-----------------------------------------------------------------------------
(* The inductive invariant.                                                *)
Inv == /\ KeyTypeOK /\ Placed /\ PortInv /\ (Careful => FilesInv)
       /\ ServeTypeOK /\ OwnInv

(* It holds initially ...                                                  *)
LEMMA InvInit == SInit => Inv
BY KeyInitInv, SInitInv DEF SInit, Inv

(* ... and every step keeps it.                                            *)
LEMMA InvNext == Inv /\ [Next]_vars => Inv'
<1> SUFFICES ASSUME Inv, [Next]_vars PROVE Inv'
    OBVIOUS
<1>1. CASE Next
    <2>1. ServeTypeOK' /\ OwnInv'
        BY <1>1, NextServe DEF Inv
    <2>2. ASSUME NEW p \in Procs, KeyStep(p) PROVE Inv'
        <3>1. KeyTypeOK' /\ Placed'
            BY <2>2, KeyStepType DEF Inv
        <3>2. PortInv'
            BY <2>2, KeyStepPort DEF Inv
        <3>3. Careful => FilesInv'
            BY <2>2, KeyStepFiles DEF Inv
        <3>4. QED  BY <2>1, <3>1, <3>2, <3>3 DEF Inv
    <2>3. CASE UNCHANGED keyVars
        BY <2>1, <2>3 DEF Inv, keyVars, fileVars, KeyTypeOK, Placed, PortInv,
           FilesInv, OutIsListener, HoldsPort, UsesCa
    <2>4. QED  BY <1>1, <2>2, <2>3, NextKey
<1>2. CASE UNCHANGED vars
    <2>1. UNCHANGED keyVars /\ OwnInv' /\ ServeTypeOK'
        BY <1>2, Same DEF vars, serveVars, Inv, ServeTypeOK
    <2>2. QED
        BY <2>1 DEF Inv, keyVars, fileVars, KeyTypeOK, Placed, PortInv,
           FilesInv, OutIsListener, HoldsPort, UsesCa
<1>3. QED  BY <1>1, <1>2

(* The invariant holds in every behaviour of the servers and their         *)
(* clients.                                                                *)
THEOREM InvCorrect == Spec => []Inv
BY InvInit, InvNext, PTL DEF Spec

(* Every state is well typed, and whoever holds the port has a key to      *)
(* prove its identity with.                                                *)
THEOREM TypeCorrect == Spec => []TypeOK
<1>1. Inv => TypeOK
    BY DEF Inv, TypeOK, ServeTypeOK
<1>2. QED  BY <1>1, InvCorrect, PTL

(* Started with care, a server that loads a CA, or writes a new one, serves*)
(* the one certificate that was ever announced.                            *)
THEOREM AnnouncedCorrect ==
    ASSUME Careful PROVE Spec => []AnnouncedStays
<1>1. ASSUME Inv PROVE AnnouncedStays
    <2>1. ASSUME NEW p \in Procs, NEW v \in announced,
                 mode[p] = "ca", pc[p] \in Listening
          PROVE  mem[p] = [cert |-> v, key |-> v]
        <3>1. announced = {mem[p].key} /\ mem[p].cert = mem[p].key
            BY <1>1, <2>1 DEF Inv, FilesInv, UsesCa
        <3>2. mem[p] = [cert |-> mem[p].cert, key |-> mem[p].key]
            BY <1>1 DEF Inv, KeyTypeOK
        <3>3. QED  BY <3>1, <3>2
    <2>2. QED  BY <2>1 DEF AnnouncedStays
<1>2. QED  BY <1>1, InvCorrect, PTL

(* Whatever other processes are started, --cert-out has the certificate of *)
(* the one self-signed server that got the port.                           *)
THEOREM OutCorrect == Spec => []OutIsListener
<1>1. Inv => OutIsListener
    BY DEF Inv, PortInv
<1>2. QED  BY <1>1, InvCorrect, PTL

(* No handshake at a QUIC server ends a connection of another client, and  *)
(* an iroh server that ends itself takes nobody else's along.              *)
THEOREM OthersCorrect == Spec => OthersDoNotMatter
<1> DEFINE Kept == \A p \in Procs : mode[p] # "iroh" =>
                       \A a \in Owned(p) : status'[a] # "ended"
<1>1. ASSUME Inv, [Next]_vars, NEW p \in Procs, mode[p] # "iroh",
             NEW a \in Owned(p)
      PROVE  status'[a] # "ended"
    <2> USE DEF Inv, ServeTypeOK
    <2>1. status[a] # "ended" /\ a \in Dials
        BY <1>1 DEF OwnInv, Dials
    <2>2. CASE UNCHANGED status
        BY <2>1, <2>2
    <2>3. ASSUME NEW b, NEW s, s # "ended", status' = [status EXCEPT ![b] = s]
          PROVE  status'[a] # "ended"
        BY <2>1, <2>3
    <2>4. ASSUME NEW q \in Procs, IrohFails(q) PROVE status'[a] # "ended"
        <3>1. a \notin Owned(q)
            BY <1>1, <2>4 DEF IrohFails, OwnInv
        <3>2. status'[a] = status[a]
            BY <2>1, <2>4, <3>1 DEF IrohFails, Disconnect, Owned
        <3>3. QED  BY <2>1, <3>2
    <2>5. ASSUME NEW q \in Procs, Crash(q) PROVE status'[a] # "ended"
        BY <2>1, <2>5 DEF Crash, Disconnect
    <2>6. ASSUME NEW q \in Procs, QuicFails(q) PROVE status'[a] # "ended"
        BY <2>1, <2>6 DEF QuicFails
    <2>7. ASSUME NEW q \in Procs, HandshakeDone(q) PROVE status'[a] # "ended"
        BY <2>1, <2>7 DEF HandshakeDone
    <2>8. ASSUME NEW q \in Procs, NEW v, NEW n, Attempt(q, v, n)
          PROVE  status'[a] # "ended"
        BY <2>1, <2>8 DEF Attempt
    <2>9. ASSUME NEW b \in Dials, Leave(b) PROVE status'[a] # "ended"
        BY <2>1, <2>9 DEF Leave
    <2>10. CASE \E q \in Procs : ProcStep(q)
        BY <2>2, <2>4, <2>6, <2>7, <2>10 DEF ProcStep, serveVars, Take
    <2>11. QED
        BY <1>1, <2>2, <2>5, <2>8, <2>9, <2>10
           DEF Next, vars, serveVars, DialIroh, DialQuic, Copy
<1>2. Inv /\ [Next]_vars => Kept
    BY <1>1
<1>3. Spec => [][Kept]_vars
    BY <1>2, InvCorrect, PTL DEF Spec
<1>4. QED  BY <1>3, PTL DEF OthersDoNotMatter, Owned
=============================================================================
