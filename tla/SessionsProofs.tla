--------------------------- MODULE SessionsProofs ---------------------------
(***************************************************************************)
(* Proofs about Sessions for any kinds, devices and bounds: what a careful *)
(* user's devices find in tables that are never cleaned up.                *)
(***************************************************************************)
EXTENDS Sessions, QueueFacts, TLAPS

USE SessionsAssumption

(* From a to b no frame of a stream creates or destroys n.                 *)
Untouched(w, a, b, n) ==
    \A k \in a..b : n \notin w[k].makes /\ n \notin w[k].ends

(* The frame at i would find under n what device d created: its creation   *)
(* is on the stream before it, or done, and nothing is between.            *)
Own(w, tb, i, n, d) ==
    \/ \E j \in 1..(i - 1) : /\ n \in w[j].makes /\ w[j].device = d
                             /\ Untouched(w, j + 1, i - 1, n)
    \/ tb[n] = d /\ Untouched(w, 1, i - 1, n)

(* The table will have nothing under n: its Destroy is on the stream, or   *)
(* done, and no creation behind it.                                        *)
Gone(w, tb, n) ==
    \/ \E k \in 1..Len(w) : /\ n \in w[k].ends
                            /\ \A j \in (k + 1)..Len(w) : n \notin w[j].makes
    \/ tb[n] = 0 /\ \A j \in 1..Len(w) : n \notin w[j].makes

(* How these facts move along with a stream.                               *)
LEMMA OwnAppend ==
    ASSUME NEW w \in Seq(Frames), NEW e \in Frames, NEW tb,
           NEW i \in 1..(Len(w) + 1), NEW n, NEW d, Own(w, tb, i, n, d)
    PROVE  Own(Append(w, e), tb, i, n, d)
BY AppendFacts DEF Own, Untouched

LEMMA OwnBehind ==
    ASSUME NEW w \in Seq(Frames), NEW e \in Frames, NEW tb, NEW n, NEW d,
           Own(w, tb, Len(w) + 1, n, d), n \notin e.makes, n \notin e.ends
    PROVE  Own(Append(w, e), tb, Len(w) + 2, n, d)
<1> DEFINE v == Append(w, e)
<1>1. /\ \A k \in 1..Len(w) : v[k] = w[k]
      /\ v[Len(w) + 1] = e /\ Len(w) \in Nat
    BY AppendFacts
<1>2. ASSUME NEW a \in 1..(Len(w) + 1), Untouched(w, a, Len(w), n)
      PROVE  Untouched(v, a, Len(w) + 1, n)
    BY <1>1, <1>2 DEF Untouched
<1> HIDE DEF v
<1>3. CASE tb[n] = d /\ Untouched(w, 1, Len(w) + 1 - 1, n)
    BY <1>1, <1>2, <1>3 DEF Own, v
<1>4. ASSUME NEW j \in 1..(Len(w) + 1 - 1), n \in w[j].makes, w[j].device = d,
             Untouched(w, j + 1, Len(w) + 1 - 1, n)
      PROVE  Own(v, tb, Len(w) + 2, n, d)
    <2>1. j \in 1..Len(w) /\ Untouched(w, j + 1, Len(w), n)
        BY <1>1, <1>4
    <2>2. Untouched(v, j + 1, Len(w) + 1, n)
        BY <1>1, <1>2, <2>1
    <2>3. j \in 1..(Len(w) + 2 - 1) /\ n \in v[j].makes /\ v[j].device = d
          /\ Len(w) + 2 - 1 = Len(w) + 1
        BY <1>1, <1>4, <2>1
    <2>4. QED  BY <2>2, <2>3 DEF Own
<1>5. \/ \E j \in 1..(Len(w) + 1 - 1) :
            /\ n \in w[j].makes /\ w[j].device = d
            /\ Untouched(w, j + 1, Len(w) + 1 - 1, n)
      \/ tb[n] = d /\ Untouched(w, 1, Len(w) + 1 - 1, n)
    BY DEF Own
<1>6. Own(v, tb, Len(w) + 2, n, d)
    BY <1>3, <1>4, <1>5 DEF v
<1>7. QED  BY <1>6 DEF v

LEMMA OwnPrefix ==
    ASSUME NEW w \in Seq(Frames), NEW m \in 0..Len(w), NEW tb,
           NEW i \in 1..m, NEW n, NEW d, Own(w, tb, i, n, d)
    PROVE  Own(SubSeq(w, 1, m), tb, i, n, d)
BY PrefixFacts DEF Own, Untouched

(* Dispatching the head: what it creates is then in the table, and nothing *)
(* else changes there but what it creates or destroys.                     *)
LEMMA OwnTail ==
    ASSUME NEW w \in Seq(Frames), w # <<>>, NEW tb, NEW tc,
           NEW i \in 2..(Len(w) + 1), NEW n, NEW d, Own(w, tb, i, n, d),
           n \in w[1].makes /\ w[1].device = d => tc[n] = d,
           n \notin w[1].makes /\ n \notin w[1].ends => tc[n] = tb[n]
    PROVE  Own(Tail(w), tc, i - 1, n, d)
<1> DEFINE v == Tail(w)
<1>1. /\ Len(w) \in Nat \ {0} /\ Len(v) = Len(w) - 1
      /\ \A k \in 1..Len(v) : v[k] = w[k + 1]
    BY TailFacts
<1>2. ASSUME NEW a \in 2..i, Untouched(w, a, i - 1, n)
      PROVE  Untouched(v, a - 1, i - 2, n)
    BY <1>1, <1>2 DEF Untouched
<1> HIDE DEF v
<1>3. CASE tb[n] = d /\ Untouched(w, 1, i - 1, n)
    <2>1. n \notin w[1].makes /\ n \notin w[1].ends
          /\ Untouched(w, 2, i - 1, n)
        BY <1>3 DEF Untouched
    <2>2. tc[n] = d /\ Untouched(v, 1, i - 2, n)
        BY <1>2, <1>3, <2>1
    <2>3. QED  BY <2>2 DEF Own, v
<1>4. ASSUME NEW j \in 1..(i - 1), n \in w[j].makes, w[j].device = d,
             Untouched(w, j + 1, i - 1, n)
      PROVE  Own(v, tc, i - 1, n, d)
    <2>1. Untouched(v, j, i - 2, n)
        BY <1>2, <1>4
    <2>2. CASE j = 1
        <3>1. tc[n] = d
            BY <1>4, <2>2
        <3>2. QED  BY <2>1, <2>2, <3>1 DEF Own
    <2>3. CASE j # 1
        <3>1. j - 1 \in 1..(i - 2) /\ v[j - 1] = w[j] /\ (j - 1) + 1 = j
            BY <1>1, <2>3
        <3>2. QED  BY <1>4, <2>1, <3>1 DEF Own
    <2>4. QED  BY <2>2, <2>3
<1>5. QED  BY <1>3, <1>4 DEF Own, v

LEMMA GoneAppend ==
    ASSUME NEW w \in Seq(Frames), NEW e \in Frames, NEW tb, NEW n,
           n \notin e.makes, Gone(w, tb, n) \/ n \in e.ends
    PROVE  Gone(Append(w, e), tb, n)
<1> DEFINE v == Append(w, e)
<1>1. /\ Len(v) = Len(w) + 1 /\ Len(w) \in Nat
      /\ \A k \in 1..Len(w) : v[k] = w[k]
      /\ v[Len(w) + 1] = e
    BY AppendFacts
<1> HIDE DEF v
<1>2. CASE n \in e.ends
    <2>1. Len(v) \in 1..Len(v) /\ n \in v[Len(v)].ends
          /\ \A j \in (Len(v) + 1)..Len(v) : n \notin v[j].makes
        BY <1>1, <1>2
    <2>2. QED  BY <2>1 DEF Gone, v
<1>3. CASE tb[n] = 0 /\ \A j \in 1..Len(w) : n \notin w[j].makes
    <2>1. \A j \in 1..Len(v) : n \notin v[j].makes
        BY <1>1, <1>3
    <2>2. QED  BY <1>3, <2>1 DEF Gone, v
<1>4. ASSUME NEW k \in 1..Len(w), n \in w[k].ends,
             \A j \in (k + 1)..Len(w) : n \notin w[j].makes
      PROVE  Gone(v, tb, n)
    <2>1. k \in 1..Len(v) /\ n \in v[k].ends
          /\ \A j \in (k + 1)..Len(v) : n \notin v[j].makes
        BY <1>1, <1>4
    <2>2. QED  BY <2>1 DEF Gone
<1>5. QED  BY <1>2, <1>3, <1>4 DEF Gone, v

LEMMA GoneTail ==
    ASSUME NEW w \in Seq(Frames), w # <<>>, NEW tb, NEW tc, NEW n,
           Gone(w, tb, n),
           n \notin w[1].makes => tc[n] = tb[n] \/ tc[n] = 0,
           n \in w[1].ends => tc[n] = 0
    PROVE  Gone(Tail(w), tc, n)
<1> DEFINE v == Tail(w)
<1>1. /\ Len(w) \in Nat \ {0} /\ Len(v) = Len(w) - 1
      /\ \A k \in 1..Len(v) : v[k] = w[k + 1]
    BY TailFacts
<1> HIDE DEF v
<1>2. ASSUME NEW a \in Nat, \A j \in (a + 1)..Len(w) : n \notin w[j].makes
      PROVE  \A j \in a..Len(v) : j >= 1 => n \notin v[j].makes
    BY <1>1, <1>2
<1>3. CASE tb[n] = 0 /\ \A j \in 1..Len(w) : n \notin w[j].makes
    BY <1>1, <1>3 DEF Gone, v
<1>4. ASSUME NEW k \in 1..Len(w), n \in w[k].ends,
             \A j \in (k + 1)..Len(w) : n \notin w[j].makes
      PROVE  Gone(v, tc, n)
    <2>1. \A j \in k..Len(v) : n \notin v[j].makes
        BY <1>1, <1>4
    <2>2. CASE k = 1
        BY <1>4, <2>1, <2>2 DEF Gone
    <2>3. CASE k # 1
        <3>1. k - 1 \in 1..Len(v) /\ v[k - 1] = w[k] /\ (k - 1) + 1 = k
            BY <1>1, <2>3
        <3>2. QED  BY <1>4, <2>1, <3>1 DEF Gone
    <2>4. QED  BY <2>2, <2>3
<1>5. QED  BY <1>3, <1>4 DEF Gone, v
-----------------------------------------------------------------------------
(* With careful users only the latest stream has frames.                   *)
OnStream == \A s \in Devices : wire[s] # <<>> => s = stream

(* Ids are minted before they are held or named; and a creation that did   *)
(* not fail names none that did.                                           *)
IsMinted(mt, n) == n.id <= mt[n.kind]
Proper(f, dv, mt, fl) ==
    /\ f.device <= dv
    /\ f.device = dv => \A n \in f.names : IsMinted(mt, n)
    /\ f.ends # {} => f.makes = {}
    /\ \A n \in f.makes \ fl[f.device] :
          f.good /\ f.names \cap fl[f.device] = {}
Known ==
    /\ \A n \in held : IsMinted(minted, n)
    /\ \A i \in 1..Len(wire[stream]) :
          Proper(wire[stream][i], device, minted, failed)

(* Every frame will find what it names, whatever is in front of it; so     *)
(* will the next one; and what was dropped will be gone.                   *)
FramesFind ==
    \A i \in 1..Len(wire[stream]) :
        \A n \in wire[stream][i].names \ failed[wire[stream][i].device] :
            Own(wire[stream], table, i, n, wire[stream][i].device)
HandlesFind ==
    up => \A n \in held \ failed[device] :
              Own(wire[stream], table, Len(wire[stream]) + 1, n, device)
DroppedGoes ==
    up => \A n \in Things :
              IsMinted(minted, n) /\ n \notin held /\ n.kind \in Destroyable
              => Gone(wire[stream], table, n)

Inv == TypeOK /\ OnStream /\ Known /\ FramesFind /\ HandlesFind /\ DroppedGoes

(* At the beginning there is nothing to find.                              *)
LEMMA InvInit == Init => Inv
<1> SUFFICES ASSUME Init PROVE Inv
    OBVIOUS
<1>1. TypeOK
    <2>1. <<>> \in Seq(Frames) /\ 1 \in Devices
        BY DEF Devices
    <2>2. wire \in [Devices -> Seq(Frames)]
        BY <2>1 DEF Init
    <2>3. /\ minted \in [Kinds -> 0..MaxIds]
          /\ table \in [Things -> 0..MaxDevices]
        BY DEF Init
    <2>4. failed \in [Devices -> SUBSET Things]
        BY DEF Init
    <2>5. device \in 0..MaxDevices /\ stream = 1 /\ up = FALSE /\ held = {}
        BY DEF Init
    <2>6. QED  BY <2>1, <2>2, <2>3, <2>4, <2>5 DEF TypeOK
<1>2. stream \in Devices /\ wire[stream] = <<>> /\ Len(wire[stream]) = 0
    BY DEF Init, Devices
<1>3. OnStream /\ Known /\ FramesFind /\ HandlesFind /\ DroppedGoes
    BY <1>2 DEF Init, OnStream, Known, FramesFind, HandlesFind, DroppedGoes
<1>4. QED  BY <1>1, <1>3 DEF Inv

(* A frame that is sent stands last on the stream.                         *)
LEMMA SendFacts ==
    ASSUME TypeOK, NEW e \in Frames, Send(e)
    PROVE  /\ wire[stream] \in Seq(Frames)
           /\ wire' \in [Devices -> Seq(Frames)]
           /\ wire'[stream] = Append(wire[stream], e)
           /\ \A s \in Devices \ {stream} : wire'[s] = wire[s]
BY AppendFacts DEF TypeOK, Send

(* The types hold on.                                                      *)
LEMMA StepType == TypeOK /\ [Next]_vars => TypeOK'
<1> SUFFICES ASSUME TypeOK, [Next]_vars PROVE TypeOK'
    OBVIOUS
<1> USE DEF TypeOK
<1>1. CASE Connect
    <2>1. device + 1 \in Devices
        BY <1>1 DEF Connect, NewDevice, Devices
    <2>2. QED  BY <1>1, <2>1 DEF Connect, NewDevice, Devices
<1>2. CASE RequestDevice
    <2>1. device + 1 \in Devices
        BY <1>2 DEF RequestDevice, NewDevice, Devices
    <2>2. QED  BY <1>2, <2>1 DEF RequestDevice, NewDevice, Devices
<1>3. CASE Disconnect
    <2>1. PICK m \in 0..Len(wire[stream]) :
              wire' = [wire EXCEPT ![stream] = SubSeq(@, 1, m)]
        BY <1>3 DEF Disconnect
    <2>2. SubSeq(wire[stream], 1, m) \in Seq(Frames)
        BY PrefixFacts
    <2>3. wire' \in [Devices -> Seq(Frames)]
        BY <2>1, <2>2
    <2>4. QED  BY <1>3, <2>3 DEF Disconnect
<1>4. CASE Restart
    <2>1. <<>> \in Seq(Frames)
        OBVIOUS
    <2>2. wire' \in [Devices -> Seq(Frames)]
        BY <1>4, <2>1 DEF Restart
    <2>3. table' \in [Things -> 0..MaxDevices]
        BY <1>4 DEF Restart
    <2>4. QED  BY <1>4, <2>2, <2>3 DEF Restart
<1>5. ASSUME NEW k \in Kinds, Create(k) PROVE TypeOK'
    <2> DEFINE new == [kind |-> k, id |-> minted[k] + 1]
    <2>1. new \in Things /\ minted' \in [Kinds -> 0..MaxIds]
        BY <1>5 DEF Create, Things
    <2>2. PICK names \in SUBSET {n \in held : n.kind \in Names[k]},
               fate \in {"good", "unsent", "refused"} :
              /\ held' = held \cup {new}
              /\ failed' = IF fate # "good" \/ names \cap failed[device] # {}
                           THEN [failed EXCEPT ![device] = @ \cup {new}]
                           ELSE failed
              /\ IF fate = "unsent" THEN wire' = wire
                 ELSE Send([device |-> device, makes |-> {new},
                            good |-> fate = "good", names |-> names,
                            ends |-> {}])
        BY <1>5 DEF Create
    <2>m. \A n \in held \cup {new} : n.id <= minted'[n.kind]
        <3>1. minted' = [minted EXCEPT ![k] = @ + 1]
            BY <1>5 DEF Create
        <3>2. minted'[k] = minted[k] + 1 /\ minted[k] \in Nat
            BY <3>1
        <3>3. \A j \in Kinds : minted[j] <= minted'[j]
            BY <3>1
        <3>4. ASSUME NEW n \in held PROVE n.id <= minted'[n.kind]
            <4>1. /\ n.kind \in Kinds /\ n.id \in Nat
                  /\ n.id <= minted[n.kind]
                  /\ minted[n.kind] \in Nat /\ minted'[n.kind] \in Nat
                BY <2>1, <3>4 DEF Things
            <4>2. QED
                BY ONLY <3>3, <4>1
        <3>5. new.id = minted[k] + 1 /\ new.kind = k
            OBVIOUS
        <3> HIDE DEF new
        <3>6. QED
            BY ONLY <3>2, <3>4, <3>5
    <2> HIDE DEF new
    <2>3. /\ held' \subseteq Things /\ names \subseteq Things
          /\ \A n \in held' : n.id <= minted'[n.kind]
        BY <2>1, <2>2, <2>m
    <2>4. failed' \in [Devices -> SUBSET Things]
        BY <2>1, <2>2
    <2>5. CASE fate = "unsent"
        BY <1>5, <2>1, <2>2, <2>3, <2>4, <2>5 DEF Create
    <2>6. CASE fate # "unsent"
        <3>1. [device |-> device, makes |-> {new}, good |-> fate = "good",
               names |-> names, ends |-> {}] \in Frames
            BY <1>5, <2>1, <2>3 DEF Create, Frames
        <3>2. wire' \in [Devices -> Seq(Frames)]
            BY <2>2, <2>6, <3>1, SendFacts
        <3>3. QED  BY <1>5, <2>1, <2>3, <2>4, <3>2 DEF Create
    <2>7. QED  BY <2>5, <2>6
<1>6. ASSUME NEW n \in Things, Use(n) PROVE TypeOK'
    <2>1. [device |-> device, makes |-> {}, good |-> TRUE,
           names |-> {n}, ends |-> {}] \in Frames
        BY <1>6 DEF Use, Frames
    <2>2. wire' \in [Devices -> Seq(Frames)]
        BY <1>6, <2>1, SendFacts DEF Use
    <2>3. QED  BY <1>6, <2>2 DEF Use, clientVars
<1>7. ASSUME NEW n \in Things, Drop(n) PROVE TypeOK'
    <2>1. [device |-> device, makes |-> {}, good |-> TRUE,
           names |-> {}, ends |-> {n}] \in Frames
        BY <1>7 DEF Drop, Frames
    <2>2. wire' \in [Devices -> Seq(Frames)]
        BY <1>7, <2>1, SendFacts DEF Drop
    <2>3. QED  BY <1>7, <2>2 DEF Drop
<1>8. ASSUME NEW s \in Devices, Dispatch(s) PROVE TypeOK'
    <2>1. Head(wire[s]) \in Frames /\ Tail(wire[s]) \in Seq(Frames)
        BY <1>8, TailFacts DEF Dispatch
    <2>2. Head(wire[s]).device \in 0..MaxDevices
        BY <2>1 DEF Frames, Devices
    <2>3. table' \in [Things -> 0..MaxDevices]
        BY <1>8, <2>2 DEF Dispatch, Effect
    <2>4. wire' \in [Devices -> Seq(Frames)]
        BY <1>8, <2>1 DEF Dispatch
    <2>5. QED  BY <1>8, <2>3, <2>4 DEF Dispatch, clientVars
<1>9. CASE UNCHANGED vars
    BY <1>9 DEF vars, clientVars
<1>10. QED  BY <1>1, <1>2, <1>3, <1>4, <1>5, <1>6, <1>7, <1>8, <1>9 DEF Next

(* Sending a frame that names what is held: it and those before it find.   *)
LEMMA SendFinds ==
    ASSUME TypeOK, FramesFind, HandlesFind, up, NEW e \in Frames, Send(e),
           e.device = device, UNCHANGED <<stream, table>>,
           \A d \in Devices : failed[d] \subseteq failed'[d],
           e.names \ failed'[device] \subseteq held
    PROVE  FramesFind'
<1> DEFINE w == wire[stream]
           v == Append(w, e)
<1>1. w \in Seq(Frames) /\ wire'[stream'] = v /\ stream \in Devices
    BY SendFacts DEF TypeOK
<1>2. Len(v) = Len(w) + 1 /\ Len(w) \in Nat /\ v[Len(w) + 1] = e
      /\ \A k \in 1..Len(w) : v[k] = w[k] /\ w[k] \in Frames
    BY <1>1, AppendFacts
<1>3. ASSUME NEW i \in 1..Len(w), NEW n \in w[i].names \ failed'[w[i].device]
      PROVE  Own(v, table, i, n, w[i].device)
    <2>1. n \in w[i].names \ failed[w[i].device]
        BY <1>2, <1>3 DEF Frames
    <2>2. Own(w, table, i, n, w[i].device)
        BY <2>1 DEF FramesFind
    <2>3. QED  BY <1>1, <2>2, OwnAppend
<1>4. ASSUME NEW n \in e.names \ failed'[device]
      PROVE  Own(v, table, Len(w) + 1, n, device)
    <2>1. n \in held \ failed[device]
        BY <1>4 DEF TypeOK
    <2>2. Own(w, table, Len(w) + 1, n, device)
        BY <2>1 DEF HandlesFind
    <2>3. QED  BY <1>1, <1>2, <2>2, OwnAppend
<1> HIDE DEF v, w
<1>5. \A i \in 1..Len(v) : \A n \in v[i].names \ failed'[v[i].device] :
          Own(v, table, i, n, v[i].device)
    BY <1>2, <1>3, <1>4
<1>6. QED  BY <1>1, <1>5 DEF FramesFind

(* What was to be found or gone stays so when a frame that neither creates *)
(* nor destroys it is sent.                                                *)
LEMMA SendKeeps ==
    ASSUME TypeOK, up, NEW e \in Frames, Send(e), UNCHANGED <<stream, table>>,
           NEW n, n \notin e.makes
    PROVE  /\ HandlesFind /\ n \in held \ failed[device] /\ n \notin e.ends
              => Own(wire'[stream'], table', Len(wire'[stream']) + 1, n,
                     device)
           /\ Gone(wire[stream], table, n) \/ n \in e.ends
              => Gone(wire'[stream'], table', n)
<1> DEFINE w == wire[stream]
<1>1. w \in Seq(Frames) /\ wire'[stream'] = Append(w, e) /\ table' = table
    BY SendFacts DEF TypeOK
<1>2. Len(Append(w, e)) + 1 = Len(w) + 2
    BY <1>1, AppendFacts
<1>3. ASSUME HandlesFind, n \in held \ failed[device], n \notin e.ends
      PROVE  Own(Append(w, e), table, Len(w) + 2, n, device)
    BY <1>1, <1>3, OwnBehind DEF HandlesFind
<1>4. ASSUME Gone(w, table, n) \/ n \in e.ends
      PROVE  Gone(Append(w, e), table, n)
    BY <1>1, <1>4, GoneAppend
<1> HIDE DEF w
<1>5. QED  BY <1>1, <1>2, <1>3, <1>4 DEF w

(* Who is careful comes back to empty streams, and drops the handles of a  *)
(* device before the next.                                                 *)
LEMMA StepDevice ==
    ASSUME Careful, Inv, Connect \/ RequestDevice
    PROVE  OnStream' /\ Known' /\ FramesFind' /\ HandlesFind' /\ DroppedGoes'
<1> USE DEF Inv
<1>1. /\ held' = {} /\ wire' = wire /\ table' = table /\ failed' = failed
      /\ device' = device + 1 /\ minted' = [k \in Kinds |-> 0]
    BY DEF Connect, RequestDevice, NewDevice
<1>2. stream' = stream \/ \A s \in Devices : wire[s] = <<>>
    BY DEF Connect, RequestDevice
<1>3. OnStream'
    BY <1>1, <1>2 DEF OnStream
<1>4. stream' \in Devices /\ wire[stream] \in Seq(Frames)
    BY StepType DEF TypeOK, Next
<1>5. HandlesFind'
    BY <1>1 DEF HandlesFind
<1>6. DroppedGoes'
    <2>1. ASSUME NEW n \in Things PROVE ~IsMinted(minted', n)
        BY <1>1 DEF IsMinted, Things
    <2>2. QED  BY <2>1 DEF DroppedGoes
<1>7. CASE stream' = stream
    <2>1. FramesFind'
        BY <1>1, <1>7 DEF FramesFind
    <2>2. ASSUME NEW i \in 1..Len(wire[stream])
          PROVE  Proper(wire'[stream'][i], device', minted', failed')
        <3> DEFINE f == wire[stream][i]
        <3>1. f \in Frames /\ f' = f
            BY <1>1, <1>4, <1>7, <2>2
        <3>2. f.device \in Nat /\ device \in Nat
            BY <3>1 DEF Frames, Devices, TypeOK
        <3>3. Proper(f, device, minted, failed)
            BY <2>2 DEF Known
        <3> HIDE DEF f
        <3>4. Proper(f, device', minted', failed')
            BY <1>1, <3>1, <3>2, <3>3 DEF Proper
        <3>5. QED  BY <1>1, <1>7, <3>4 DEF f
    <2>3. Known'
        BY <1>1, <1>7, <2>2 DEF Known
    <2>4. QED  BY <1>3, <1>5, <1>6, <2>1, <2>3
<1>8. CASE \A s \in Devices : wire[s] = <<>>
    <2>1. Len(wire'[stream']) = 0
        BY <1>1, <1>4, <1>8
    <2>2. FramesFind' /\ Known'
        BY <1>1, <2>1 DEF FramesFind, Known
    <2>3. QED  BY <1>3, <1>5, <1>6, <2>2
<1>9. QED  BY <1>2, <1>7, <1>8

(* A lost connection leaves the beginning of its stream; a restarted server*)
(* nothing.                                                                *)
LEMMA StepDown ==
    ASSUME Inv, Disconnect \/ Restart
    PROVE  OnStream' /\ Known' /\ FramesFind' /\ HandlesFind' /\ DroppedGoes'
<1> USE DEF Inv
<1>1. /\ up' = FALSE
      /\ UNCHANGED <<device, stream, minted, held, failed>>
    BY DEF Disconnect, Restart
<1>2. HandlesFind' /\ DroppedGoes'
    BY <1>1 DEF HandlesFind, DroppedGoes
<1>3. stream \in Devices /\ wire[stream] \in Seq(Frames)
    BY DEF TypeOK
<1>4. CASE Restart
    <2>1. \A s \in Devices : wire'[s] = <<>>
        BY <1>4 DEF Restart
    <2>2. Len(wire'[stream']) = 0
        BY <1>1, <1>3, <2>1
    <2>3. OnStream' /\ FramesFind' /\ Known'
        BY <1>1, <2>1, <2>2 DEF OnStream, FramesFind, Known, IsMinted
    <2>4. QED  BY <1>2, <2>3
<1>5. CASE Disconnect
    <2> DEFINE w == wire[stream]
    <2>1. PICK m \in 0..Len(w) :
              wire' = [wire EXCEPT ![stream] = SubSeq(@, 1, m)]
        BY <1>5 DEF Disconnect
    <2>2. /\ wire'[stream] = SubSeq(w, 1, m) /\ table' = table
          /\ \A s \in Devices \ {stream} : wire'[s] = wire[s]
        BY <1>3, <1>5, <2>1 DEF Disconnect, TypeOK
    <2> DEFINE v == SubSeq(w, 1, m)
    <2>3. Len(v) = m /\ \A i \in 1..m : v[i] = w[i] /\ i \in 1..Len(w)
        BY <1>3, PrefixFacts
    <2>4. OnStream'
        BY <1>1, <2>2 DEF OnStream
    <2>5. ASSUME NEW i \in 1..m, NEW n \in w[i].names \ failed[w[i].device]
          PROVE  Own(v, table, i, n, w[i].device)
        <3>1. Own(w, table, i, n, w[i].device)
            BY <2>3, <2>5 DEF FramesFind
        <3>2. QED  BY <1>3, <3>1, OwnPrefix
    <2>6. \A i \in 1..m : Proper(w[i], device, minted, failed)
        BY <2>3 DEF Known
    <2> HIDE DEF v
    <2>7. FramesFind'
        BY <1>1, <2>2, <2>3, <2>5 DEF FramesFind, v
    <2>8. Known'
        BY <1>1, <2>2, <2>3, <2>6 DEF Known, Proper, IsMinted, v
    <2>9. QED  BY <1>2, <2>4, <2>7, <2>8
<1>6. QED  BY <1>4, <1>5

(* A call or a drop sends one frame about what the device holds.           *)
LEMMA StepSend ==
    ASSUME Inv, NEW m \in Things, Use(m) \/ Drop(m)
    PROVE  OnStream' /\ Known' /\ FramesFind' /\ HandlesFind' /\ DroppedGoes'
<1> USE DEF Inv
<1> DEFINE w == wire[stream]
<1>1. PICK e \in Frames :
          /\ Send(e) /\ e.device = device /\ e.makes = {}
          /\ e.names \subseteq held /\ held' = held \ e.ends
    <2>1. CASE Use(m)
        <3> DEFINE e == [device |-> device, makes |-> {}, good |-> TRUE,
                         names |-> {m}, ends |-> {}]
        <3>1. e \in Frames
            BY <2>1 DEF Use, Frames, TypeOK
        <3>2. QED  BY <2>1, <3>1 DEF Use, clientVars
    <2>2. CASE Drop(m)
        <3> DEFINE e == [device |-> device, makes |-> {}, good |-> TRUE,
                         names |-> {}, ends |-> {m}]
        <3>1. e \in Frames
            BY <2>2 DEF Drop, Frames, TypeOK
        <3>2. QED  BY <2>2, <3>1 DEF Drop
    <2>3. QED  BY <2>1, <2>2
<1>2. /\ up /\ UNCHANGED <<device, stream, up, minted, failed, table>>
    BY DEF Use, Drop, clientVars
<1>3. /\ w \in Seq(Frames) /\ wire'[stream] = Append(w, e)
      /\ \A s \in Devices \ {stream} : wire'[s] = wire[s]
    BY <1>1, SendFacts
<1>4. /\ Len(Append(w, e)) = Len(w) + 1 /\ Append(w, e)[Len(w) + 1] = e
      /\ \A i \in 1..Len(w) : Append(w, e)[i] = w[i]
    BY <1>3, AppendFacts
<1>5. OnStream'
    BY <1>2, <1>3 DEF OnStream
<1>6. FramesFind'
    BY <1>1, <1>2, SendFinds
<1>7. HandlesFind'
    <2>1. ASSUME NEW n \in held' \ failed'[device']
          PROVE  Own(wire'[stream'], table', Len(wire'[stream']) + 1, n,
                     device')
        BY <1>1, <1>2, <2>1, SendKeeps
    <2>2. QED  BY <2>1 DEF HandlesFind
<1>8. DroppedGoes'
    <2>1. ASSUME NEW n \in Things, IsMinted(minted', n), n \notin held',
                 n.kind \in Destroyable
          PROVE  Gone(wire'[stream'], table', n)
        <3>1. Gone(w, table, n) \/ n \in e.ends
            BY <1>1, <1>2, <2>1 DEF DroppedGoes, IsMinted
        <3>2. QED  BY <1>1, <1>2, <3>1, SendKeeps
    <2>2. QED  BY <2>1 DEF DroppedGoes
<1>9. Known'
    <2>1. \A i \in 1..Len(w) : Proper(w[i], device, minted, failed)
        BY DEF Known
    <2>2. Proper(e, device, minted, failed)
        BY <1>1, <1>2 DEF Proper, Known, TypeOK, Devices
    <2>3. \A i \in 1..Len(Append(w, e)) :
              Proper(Append(w, e)[i], device, minted, failed)
        BY <1>3, <1>4, <2>1, <2>2
    <2>4. (\A i \in 1..Len(wire[stream]) :
              Proper(wire[stream][i], device, minted, failed))'
        BY <1>2, <1>3, <2>3 DEF Proper, IsMinted
    <2>5. \A n \in held' : IsMinted(minted', n)
        BY <1>1, <1>2 DEF Known, IsMinted
    <2>6. QED  BY <2>4, <2>5 DEF Known
<1>10. QED  BY <1>5, <1>6, <1>7, <1>8, <1>9

(* A creation mints a name that nothing mentions yet. If it fails the name *)
(* counts as failed from then on; otherwise the frame stands last.         *)
LEMMA StepCreate ==
    ASSUME Inv, TypeOK', NEW k \in Kinds, Create(k)
    PROVE  OnStream' /\ Known' /\ FramesFind' /\ HandlesFind' /\ DroppedGoes'
<1> USE DEF Inv
<1> DEFINE w == wire[stream]
<1>0. PICK new \in Things : new = [kind |-> k, id |-> minted[k] + 1]
    BY DEF Create, TypeOK, Things
<1>1. PICK names \in SUBSET {n \in held : n.kind \in Names[k]},
           fate \in {"good", "unsent", "refused"} :
          /\ held' = held \cup {new}
          /\ failed' = IF fate # "good" \/ names \cap failed[device] # {}
                       THEN [failed EXCEPT ![device] = @ \cup {new}]
                       ELSE failed
          /\ IF fate = "unsent" THEN wire' = wire
             ELSE Send([device |-> device, makes |-> {new},
                        good |-> fate = "good", names |-> names, ends |-> {}])
    BY <1>0 DEF Create
<1>2. /\ up /\ minted' = [minted EXCEPT ![k] = @ + 1] /\ device \in Devices
      /\ UNCHANGED <<device, stream, up, table>>
    BY DEF Create, TypeOK
<1>3. ~IsMinted(minted, new) /\ names \subseteq Things
    BY <1>0, <1>1 DEF IsMinted, TypeOK
<1>4. \A n \in Things :
          /\ IsMinted(minted', n) => IsMinted(minted, n) \/ n = new
          /\ IsMinted(minted, n) => IsMinted(minted', n) /\ n # new
    BY <1>0, <1>2 DEF IsMinted, TypeOK, Things
<1>5. w \in Seq(Frames) /\ stream \in Devices
    BY DEF TypeOK
<1>6. /\ \A d \in Devices :
            /\ failed[d] \subseteq failed'[d]
            /\ failed'[d] \subseteq failed[d] \cup {new}
            /\ d # device => failed'[d] = failed[d]
      /\ fate # "good" \/ names \cap failed[device] # {}
         => new \in failed'[device]
      /\ ~(fate # "good" \/ names \cap failed[device] # {})
         => failed'[device] = failed[device]
    BY <1>1, <1>2 DEF TypeOK
<1>7. \A n \in held' : IsMinted(minted', n)
    <2>1. IsMinted(minted', new)
        BY <1>0, <1>2 DEF IsMinted, TypeOK
    <2>2. QED  BY <1>1, <1>4, <2>1 DEF Known, TypeOK
<1>8. ASSUME NEW f \in Frames, Proper(f, device, minted, failed)
      PROVE  Proper(f, device', minted', failed')
    <2>1. f.device \in Devices /\ f.names \subseteq Things
        BY <1>8 DEF Frames
    <2>2. f.device = device => new \notin f.names
        BY <1>3, <1>8 DEF Proper
    <2>3. f.names \cap failed'[f.device] = f.names \cap failed[f.device]
        BY <1>6, <2>1, <2>2
    <2>4. f.device = device => \A n \in f.names : IsMinted(minted', n)
        BY <1>4, <1>8, <2>1 DEF Proper
    <2>5. \A n \in f.makes \ failed'[f.device] : n \notin failed[f.device]
        BY <1>6, <2>1
    <2>6. QED  BY <1>2, <1>8, <2>3, <2>4, <2>5 DEF Proper
<1>9. CASE fate = "unsent"
    <2>1. wire' = wire /\ new \in failed'[device]
        BY <1>1, <1>6, <1>9
    <2>2. OnStream'
        BY <1>2, <2>1 DEF OnStream
    <2>3. \A i \in 1..Len(w) :
              w[i] \in Frames /\ Proper(w[i], device, minted, failed)
        BY <1>5 DEF Known
    <2>4. FramesFind'
        <3>1. ASSUME NEW i \in 1..Len(w),
                     NEW n \in w[i].names \ failed'[w[i].device]
              PROVE  Own(w, table, i, n, w[i].device)
            <4>1. n \notin failed[w[i].device]
                BY <1>6, <2>3, <3>1 DEF Frames
            <4>2. QED  BY <3>1, <4>1 DEF FramesFind
        <3>2. QED  BY <1>2, <2>1, <3>1 DEF FramesFind
    <2>5. HandlesFind'
        <3>1. held' \ failed'[device] \subseteq held \ failed[device]
            BY <1>1, <1>2, <1>6, <2>1
        <3>2. QED  BY <1>2, <2>1, <3>1 DEF HandlesFind
    <2>6. DroppedGoes'
        <3>1. ASSUME NEW n \in Things, IsMinted(minted', n), n \notin held'
              PROVE  IsMinted(minted, n) /\ n \notin held
            BY <1>1, <1>4, <3>1
        <3>2. QED  BY <1>2, <2>1, <3>1 DEF DroppedGoes
    <2>7. Known'
        <3>1. (\A i \in 1..Len(wire[stream]) :
                  Proper(wire[stream][i], device, minted, failed))'
            BY <1>2, <1>8, <2>1, <2>3 DEF Proper, IsMinted
        <3>2. QED  BY <1>7, <3>1 DEF Known
    <2>8. QED  BY <2>2, <2>4, <2>5, <2>6, <2>7
<1>10. CASE fate # "unsent"
    <2>1. PICK e \in Frames :
              /\ Send(e) /\ e.device = device /\ e.makes = {new}
              /\ e.names = names /\ e.ends = {} /\ e.good = (fate = "good")
        <3> DEFINE g == [device |-> device, makes |-> {new},
                         good |-> fate = "good", names |-> names, ends |-> {}]
        <3>1. g \in Frames
            BY <1>2, <1>3 DEF Frames
        <3>2. QED  BY <1>1, <1>10, <3>1
    <2>2. names \subseteq held
        BY <1>1
    <2>3. /\ wire'[stream] = Append(w, e)
          /\ \A s \in Devices \ {stream} : wire'[s] = wire[s]
        BY <2>1, SendFacts
    <2>4. /\ Len(Append(w, e)) = Len(w) + 1 /\ Append(w, e)[Len(w) + 1] = e
          /\ \A i \in 1..Len(w) : Append(w, e)[i] = w[i]
          /\ Len(w) \in Nat
        BY <1>5, <2>1, AppendFacts
    <2>5. OnStream'
        BY <1>2, <2>3 DEF OnStream
    <2>6. FramesFind'
        BY <1>2, <1>6, <2>1, <2>2, SendFinds
    <2>7. HandlesFind'
        <3>1. ASSUME NEW n \in held \ failed[device], n # new
              PROVE  Own(wire'[stream'], table', Len(wire'[stream']) + 1, n,
                         device)
            BY <1>2, <2>1, <3>1, SendKeeps
        <3>2. Own(Append(w, e), table, Len(w) + 2, new, device)
            <4>1. Len(w) + 1 \in 1..(Len(w) + 2 - 1)
                  /\ Untouched(Append(w, e), Len(w) + 1 + 1, Len(w) + 2 - 1,
                               new)
                BY <2>4 DEF Untouched
            <4>2. QED  BY <2>1, <2>4, <4>1 DEF Own
        <3>3. Own(wire'[stream'], table', Len(wire'[stream']) + 1, new, device)
            <4>1. Len(Append(w, e)) + 1 = Len(w) + 2
                BY <2>4
            <4>2. QED  BY <1>2, <2>3, <3>2, <4>1
        <3>4. \A n \in held' \ failed'[device] :
                  n = new \/ n \in held \ failed[device]
            BY <1>1, <1>2, <1>6
        <3>5. QED  BY <1>2, <3>1, <3>3, <3>4 DEF HandlesFind
    <2>8. DroppedGoes'
        <3>1. ASSUME NEW n \in Things, IsMinted(minted', n), n \notin held',
                     n.kind \in Destroyable
              PROVE  Gone(wire'[stream'], table', n)
            <4>1. n # new /\ Gone(w, table, n)
                BY <1>1, <1>2, <1>4, <3>1 DEF DroppedGoes
            <4>2. QED  BY <1>2, <2>1, <4>1, SendKeeps
        <3>2. QED  BY <3>1 DEF DroppedGoes
    <2>9. Proper(e, device', minted', failed')
        <3>1. \A n \in names : IsMinted(minted', n)
            BY <1>3, <1>4, <2>2 DEF Known
        <3>2. \A n \in {new} \ failed'[device] :
                  fate = "good" /\ names \cap failed'[device] = {}
            BY <1>6
        <3>3. device \in Nat
            BY <1>2 DEF Devices
        <3>4. fate = "good" => e.good
            BY <2>1
        <3>5. \A n \in e.makes \ failed'[e.device] :
                  e.good /\ e.names \cap failed'[e.device] = {}
            BY <2>1, <3>2, <3>4
        <3>6. device' = device /\ e.device <= device
            BY <1>2, <2>1, <3>3
        <3>7. e.ends = {} /\ \A n \in e.names : IsMinted(minted', n)
            BY <2>1, <3>1, Zenon
        <3>8. e.device <= device'
            BY <3>6
        <3>9. QED  BY <3>5, <3>7, <3>8, Zenon DEF Proper
    <2>10. Known'
        <3>1. \A i \in 1..Len(w) :
                  w[i] \in Frames /\ Proper(w[i], device, minted, failed)
            BY <1>5 DEF Known
        <3>2. (\A i \in 1..Len(wire[stream]) :
                  Proper(wire[stream][i], device, minted, failed))'
            <4>1. \A i \in 1..Len(w) : Proper(w[i], device', minted', failed')
                BY <1>8, <3>1
            <4>2. wire'[stream'] = Append(w, e)
                BY <1>2, <2>3
            <4>3. ASSUME NEW i \in 1..Len(wire'[stream'])
                  PROVE  Proper(wire'[stream'][i], device', minted', failed')
                <5>1. i \in 1..Len(w) \/ i = Len(w) + 1
                    BY ONLY <2>4, <4>2, <4>3
                <5>2. QED
                    BY ONLY <2>4, <2>9, <4>1, <4>2, <5>1
            <4>4. QED
                BY ONLY <4>3
        <3>3. QED  BY <1>7, <3>2 DEF Known
    <2>11. QED  BY <2>5, <2>6, <2>7, <2>8, <2>10
<1>11. QED  BY <1>9, <1>10

(* The frame that is dispatched finds what it names, so unless it failed   *)
(* it is carried out, and everything behind it moves up.                   *)
LEMMA StepDispatch ==
    ASSUME Inv, NEW s \in Devices, Dispatch(s)
    PROVE  OnStream' /\ Known' /\ FramesFind' /\ HandlesFind' /\ DroppedGoes'
<1> USE DEF Inv
<1> DEFINE w == wire[stream]
<1>1. s = stream /\ w # <<>> /\ w \in Seq(Frames) /\ stream \in Devices
    BY DEF Dispatch, OnStream, TypeOK
<1>2. /\ wire' = [wire EXCEPT ![stream] = Tail(@)]
      /\ table' = [n \in Things |-> Effect(Head(w), n)]
      /\ UNCHANGED <<device, stream, up, minted, held, failed>>
    BY <1>1 DEF Dispatch, clientVars
<1>3. /\ wire'[stream] = Tail(w)
      /\ \A r \in Devices \ {stream} : wire'[r] = wire[r]
    BY <1>1, <1>2 DEF TypeOK
<1>4. /\ Head(w) = w[1] /\ w[1] \in Frames /\ Len(w) \in Nat \ {0}
      /\ Tail(w) \in Seq(Frames) /\ Len(Tail(w)) = Len(w) - 1
      /\ \A i \in 1..Len(Tail(w)) :
            Tail(w)[i] = w[i + 1] /\ i + 1 \in 2..Len(w) /\ w[i + 1] \in Frames
    BY <1>1, TailFacts
<1>5. Proper(w[1], device, minted, failed)
    BY <1>4 DEF Known
<1>6. \A n \in w[1].names \ failed[w[1].device] : table[n] = w[1].device
    <2>1. ASSUME NEW n \in w[1].names \ failed[w[1].device]
          PROVE  Own(w, table, 1, n, w[1].device)
        BY <1>4, <2>1 DEF FramesFind
    <2>2. QED  BY <2>1 DEF Own
<1>7. ASSUME NEW n \in w[1].makes \ failed[w[1].device]
      PROVE  table'[n] = w[1].device
    <2>1. w[1].good /\ w[1].names \cap failed[w[1].device] = {}
        BY <1>5, <1>7 DEF Proper
    <2>2. Done(w[1])
        BY <1>4, <1>6, <2>1 DEF Done, Frames, Devices
    <2>3. n \in Things
        BY <1>4, <1>7 DEF Frames
    <2>4. QED  BY <1>2, <1>4, <1>7, <2>2, <2>3 DEF Effect
<1>8. ASSUME NEW n \in Things, n \notin w[1].makes
      PROVE  /\ table'[n] = table[n] \/ table'[n] = 0
             /\ n \notin w[1].ends => table'[n] = table[n]
             /\ n \in w[1].ends /\ n.kind \in Destroyable => table'[n] = 0
    BY <1>2, <1>4, <1>8 DEF Effect
<1>9. ASSUME NEW i \in 2..(Len(w) + 1), NEW d \in Devices,
             NEW n \in Things \ failed[d], Own(w, table, i, n, d)
      PROVE  Own(Tail(w), table', i - 1, n, d)
    <2>1. n \in w[1].makes /\ w[1].device = d => table'[n] = d
        BY <1>7, <1>9
    <2>2. n \notin w[1].makes /\ n \notin w[1].ends => table'[n] = table[n]
        BY <1>8, <1>9
    <2>3. QED  BY <1>1, <1>9, <2>1, <2>2, OwnTail
<1>10. OnStream'
    BY <1>1, <1>2, <1>3 DEF OnStream
<1>11. FramesFind'
    <2>1. ASSUME NEW i \in 1..Len(Tail(w)),
                 NEW n \in Tail(w)[i].names \ failed[Tail(w)[i].device]
          PROVE  Own(Tail(w), table', i, n, Tail(w)[i].device)
        <3> DEFINE j == i + 1
        <3>1. j \in 2..(Len(w) + 1) /\ j \in 1..Len(w) /\ j - 1 = i
              /\ Tail(w)[i] = w[j] /\ w[j] \in Frames
            BY <1>4, <2>1
        <3> HIDE DEF j
        <3>2. Own(w, table, j, n, w[j].device)
            BY <2>1, <3>1 DEF FramesFind
        <3>3. w[j].device \in Devices /\ n \in Things \ failed[w[j].device]
            BY <2>1, <3>1 DEF Frames
        <3>4. Own(Tail(w), table', j - 1, n, w[j].device)
            BY <1>9, <3>1, <3>2, <3>3
        <3>5. QED  BY <3>1, <3>4
    <2> DEFINE v == Tail(w)
    <2>2. \A i \in 1..Len(v) : \A n \in v[i].names \ failed[v[i].device] :
              Own(v, table', i, n, v[i].device)
        BY <2>1
    <2>3. wire'[stream'] = v /\ failed' = failed
        BY <1>2, <1>3
    <2> HIDE DEF v
    <2>4. QED  BY <2>2, <2>3 DEF FramesFind
<1>12. HandlesFind'
    <2>1. ASSUME up, NEW n \in held \ failed[device]
          PROVE  Own(Tail(w), table', Len(Tail(w)) + 1, n, device)
        <3>1. Own(w, table, Len(w) + 1, n, device)
            BY <2>1 DEF HandlesFind
        <3>2. device \in Devices /\ n \in Things
            BY <2>1 DEF TypeOK
        <3>3. /\ Len(w) + 1 \in 2..(Len(w) + 1)
              /\ Len(w) + 1 - 1 = Len(Tail(w)) + 1
            BY <1>4
        <3>4. Own(Tail(w), table', Len(w) + 1 - 1, n, device)
            BY <1>9, <2>1, <3>1, <3>2, <3>3
        <3>5. QED  BY <3>3, <3>4
    <2>2. QED  BY <1>2, <1>3, <2>1 DEF HandlesFind
<1>13. DroppedGoes'
    <2>1. ASSUME NEW n \in Things, n.kind \in Destroyable, Gone(w, table, n)
          PROVE  Gone(Tail(w), table', n)
        <3>1. n \in w[1].ends => n \notin w[1].makes
            BY <1>5 DEF Proper
        <3>2. n \notin w[1].makes => table'[n] = table[n] \/ table'[n] = 0
            BY <1>8
        <3>3. n \in w[1].ends => table'[n] = 0
            BY <1>8, <2>1, <3>1
        <3>4. QED  BY <1>1, <2>1, <3>2, <3>3, GoneTail
    <2>2. QED  BY <1>2, <1>3, <2>1 DEF DroppedGoes
<1>14. Known'
    <2>1. \A i \in 1..Len(Tail(w)) : Proper(Tail(w)[i], device, minted, failed)
        BY <1>4 DEF Known
    <2>2. QED  BY <1>2, <1>3, <2>1 DEF Known
<1>15. QED  BY <1>10, <1>11, <1>12, <1>13, <1>14
-----------------------------------------------------------------------------
LEMMA InvNext == ASSUME Careful PROVE Inv /\ [Next]_vars => Inv'
<1> SUFFICES ASSUME Inv, [Next]_vars
             PROVE  Inv'
    OBVIOUS
<1>1. TypeOK'
    BY StepType DEF Inv
<1>2. OnStream' /\ Known' /\ FramesFind' /\ HandlesFind' /\ DroppedGoes'
    <2>1. CASE UNCHANGED vars
        BY <2>1 DEF Inv, vars, clientVars, OnStream, Known, FramesFind,
           HandlesFind, DroppedGoes
    <2>2. QED  BY <1>1, <2>1, StepDevice, StepDown, StepSend, StepCreate,
                  StepDispatch DEF Next
<1>3. QED  BY <1>1, <1>2 DEF Inv

(* Users are careful when they come back to a server that has forgotten    *)
(* their last device: it has taken all its frames.                         *)
THEOREM InvCorrect == ASSUME Careful PROVE Spec => []Inv
BY InvInit, InvNext, PTL DEF Spec

(* Whoever the users are, every state is well typed.                       *)
THEOREM TypeCorrect == Spec => []TypeOK
<1>1. Init => TypeOK
    BY InvInit DEF Inv
<1>2. QED  BY <1>1, StepType, PTL DEF Spec

(* With careful users a frame finds under the names it gives what its own  *)
(* device created there, whoever used the names before.                    *)
THEOREM FindsOwnCorrect == ASSUME Careful PROVE Spec => []FindsOwn
<1>1. ASSUME Inv PROVE FindsOwn
    <2>1. ASSUME NEW s \in Devices, wire[s] # <<>>,
                 NEW n \in Head(wire[s]).names \ failed[Head(wire[s]).device]
          PROVE  table[n] = Head(wire[s]).device
        <3>1. s = stream /\ wire[s] \in Seq(Frames)
            BY <1>1, <2>1 DEF Inv, OnStream, TypeOK
        <3>2. Head(wire[s]) = wire[s][1] /\ 1 \in 1..Len(wire[s])
            BY <2>1, <3>1, TailFacts
        <3>3. Own(wire[s], table, 1, n, Head(wire[s]).device)
            BY <1>1, <2>1, <3>1, <3>2 DEF Inv, FramesFind
        <3>4. QED  BY <3>3 DEF Own
    <2>2. QED  BY <2>1 DEF FindsOwn
<1>2. QED  BY <1>1, InvCorrect, PTL

(* With careful users a server that has taken all frames of a device has   *)
(* what the device holds, and of the buffers it dropped none.              *)
THEOREM CaughtUpCorrect == ASSUME Careful PROVE Spec => []CaughtUp
<1>1. ASSUME Inv PROVE CaughtUp
    <2>1. ASSUME up, wire[stream] = <<>>, NEW n \in Things,
                 n.id <= minted[n.kind]
          PROVE  /\ n \in held \ failed[device] => table[n] = device
                 /\ n \notin held /\ n.kind \in Destroyable => table[n] = 0
        <3>1. Len(wire[stream]) = 0
            BY <2>1
        <3>2. n \in held \ failed[device]
              => Own(wire[stream], table, 1, n, device)
            BY <1>1, <2>1, <3>1 DEF Inv, HandlesFind
        <3>3. n \notin held /\ n.kind \in Destroyable
              => Gone(wire[stream], table, n)
            BY <1>1, <2>1 DEF Inv, DroppedGoes, IsMinted
        <3>4. QED  BY <3>1, <3>2, <3>3 DEF Own, Gone
    <2>2. QED  BY <2>1 DEF CaughtUp
<1>2. QED  BY <1>1, InvCorrect, PTL
=============================================================================
