------------------------------ MODULE Sessions ------------------------------
(***************************************************************************)
(* Devices that come one after the other to a server that keeps everything:*)
(* client/instance.rs, client/resources.rs and client/client.rs against    *)
(* server/handler.rs and the tables of server/engine.rs.                   *)
(*                                                                         *)
(* Every device mints ids from 1, and nothing is cleaned up when its       *)
(* connection ends, so the names of one device are those of the next: of a *)
(* second device of the same client, of a client that reconnects, or of    *)
(* the same program run again. What a stream still holds when its client   *)
(* ends is dispatched by its own handler, in its own time.                 *)
(*                                                                         *)
(* A frame is dispatched in one step (Engine shows when that may be said)  *)
(* and in the order of its stream (Mux). A thing in the tables is the      *)
(* number of the device that created it.                                   *)
(***************************************************************************)
EXTENDS Naturals, Sequences

CONSTANTS
    Kinds,       (* kinds of resources                                     *)
    Names,       (* by kind: the kinds its creation names                  *)
    Flawed,      (* kinds whose creation may fail for its arguments        *)
    Destroyable, (* kinds that Destroy removes                             *)
    MaxIds,      (* bound: ids a device mints of a kind                    *)
    MaxDevices,  (* bound: devices, one after the other                    *)
    MaxWire,     (* bound: frames on a stream                              *)
    Careful      (* a device comes when its predecessor has been forgotten *)

ASSUME SessionsAssumption ==
    /\ Names \in [Kinds -> SUBSET Kinds]
    /\ Flawed \subseteq Kinds /\ Destroyable \subseteq Kinds
    /\ MaxIds \in Nat /\ MaxDevices \in Nat \ {0} /\ MaxWire \in Nat
    /\ Careful \in BOOLEAN

Devices == 1..MaxDevices
Things  == [kind : Kinds, id : 1..MaxIds]

(* A frame: its device, what it creates, whether its arguments are good,   *)
(* what it names, and what it destroys.                                    *)
Frames == [device : Devices, makes : SUBSET Things, good : BOOLEAN,
           names : SUBSET Things, ends : SUBSET Things]

VARIABLES
    device,   (* the latest device                                         *)
    stream,   (* the stream it uses, named for the first device on it      *)
    up,       (* its connection stands                                     *)
    minted,   (* its IdMinter: the last id of each kind                    *)
    held,     (* handles not dropped                                       *)
    failed,   (* history, by device: creations that failed, themselves or  *)
              (* because they name one that did                            *)
    wire,     (* by stream: frames not yet dispatched                      *)
    table     (* by name: the device whose creation stands there, 0: none  *)

clientVars == <<device, stream, up, minted, held, failed>>
vars == <<clientVars, wire, table>>

Send(f) ==
    /\ Len(wire[stream]) < MaxWire
    /\ wire' = [wire EXCEPT ![stream] = Append(@, f)]

Init ==
    /\ device = 0 /\ stream = 1 /\ up = FALSE
    /\ minted = [k \in Kinds |-> 0] /\ held = {}
    /\ failed = [d \in Devices |-> {}]
    /\ wire = [d \in Devices |-> <<>>] /\ table = [n \in Things |-> 0]
-----------------------------------------------------------------------------
(* A new device has a minter of its own, and its user no handles yet.      *)
NewDevice ==
    /\ device < MaxDevices /\ device' = device + 1
    /\ minted' = [k \in Kinds |-> 0] /\ held' = {}
    /\ UNCHANGED <<failed, wire, table>>

(* A client connects, and its device is the first on the new stream.       *)
Connect ==
    /\ ~up /\ up' = TRUE
    /\ Careful => \A d \in Devices : wire[d] = <<>>
    /\ stream' = device + 1
    /\ NewDevice

(* Another device over the same client.                                    *)
RequestDevice ==
    /\ up /\ (Careful => held = {})
    /\ NewDevice /\ UNCHANGED <<stream, up>>

(* Fault: a creation that is not sent gives its id back.                   *)
Create_Returns(k) ==
    /\ up /\ minted[k] < MaxIds
    /\ \E names \in SUBSET {n \in held : n.kind \in Names[k]},
          fate \in {"good", "unsent", "refused"} :
        LET new == [kind |-> k, id |-> minted[k] + 1] IN
        /\ \A j \in Names[k] : \E n \in names : n.kind = j
        /\ fate # "good" => k \in Flawed
        /\ held' = held \cup {new}
        /\ failed' = IF fate # "good" \/ names \cap failed[device] # {}
                     THEN [failed EXCEPT ![device] = @ \cup {new}]
                     ELSE failed
        /\ IF fate = "unsent" THEN wire' = wire /\ minted' = minted
           ELSE /\ minted' = [minted EXCEPT ![k] = @ + 1]
                /\ Send([device |-> device, makes |-> {new},
                         good |-> fate = "good", names |-> names,
                         ends |-> {}])
    /\ UNCHANGED <<device, stream, up, table>>

(* A creation names handles that its user holds. It may not fit a frame,   *)
(* then it is not sent, or be refused for its arguments; the user gets a   *)
(* handle all the same.                                                    *)
Create(k) ==
    /\ up /\ minted[k] < MaxIds
    /\ minted' = [minted EXCEPT ![k] = @ + 1]
    /\ \E names \in SUBSET {n \in held : n.kind \in Names[k]},
          fate \in {"good", "unsent", "refused"} :
        LET new == [kind |-> k, id |-> minted[k] + 1] IN
        /\ \A j \in Names[k] : \E n \in names : n.kind = j
        /\ fate # "good" => k \in Flawed
        /\ held' = held \cup {new}
        /\ failed' = IF fate # "good" \/ names \cap failed[device] # {}
                     THEN [failed EXCEPT ![device] = @ \cup {new}]
                     ELSE failed
        /\ IF fate = "unsent" THEN wire' = wire
           ELSE Send([device |-> device, makes |-> {new},
                      good |-> fate = "good", names |-> names, ends |-> {}])
    /\ UNCHANGED <<device, stream, up, table>>

(* Any other call: a write, a read, a submission, a derived layout.        *)
Use(n) ==
    /\ up /\ n \in held
    /\ Send([device |-> device, makes |-> {}, good |-> TRUE,
             names |-> {n}, ends |-> {}])
    /\ UNCHANGED <<clientVars, table>>

(* Fault: every clone of a handle ships Destroy.                           *)
Drop_Clone(n) ==
    /\ up /\ n \in held
    /\ Send([device |-> device, makes |-> {}, good |-> TRUE,
             names |-> {}, ends |-> {n}])
    /\ UNCHANGED <<clientVars, table>>

(* The last handle of a resource is dropped.                               *)
Drop(n) ==
    /\ up /\ n \in held /\ held' = held \ {n}
    /\ Send([device |-> device, makes |-> {}, good |-> TRUE,
             names |-> {}, ends |-> {n}])
    /\ UNCHANGED <<device, stream, up, minted, failed, table>>

(* A client that ends, is killed or loses its connection: a part of what   *)
(* it sent has reached the server and is still dispatched.                 *)
Disconnect ==
    /\ up /\ up' = FALSE
    /\ \E n \in 0..Len(wire[stream]) :
          wire' = [wire EXCEPT ![stream] = SubSeq(@, 1, n)]
    /\ UNCHANGED <<device, stream, minted, held, failed, table>>

(* The server ends and is started again, with empty tables.                *)
Restart ==
    /\ up' = FALSE /\ wire' = [d \in Devices |-> <<>>]
    /\ table' = [n \in Things |-> 0]
    /\ UNCHANGED <<device, stream, minted, held, failed>>

(* What a frame does to the tables: what it names must be there, and a     *)
(* creation replaces what stands under its name.                           *)
Done(f) == f.good /\ \A n \in f.names : table[n] # 0
(* Fault: a creation leaves what it finds (HashMap's or_insert).           *)
Effect_KeepsOld(f, n) ==
    IF Done(f) /\ n \in f.makes /\ table[n] = 0 THEN f.device
    ELSE IF n \in f.ends /\ n.kind \in Destroyable THEN 0
    ELSE table[n]
(* Fault: Destroy is acknowledged only.                                    *)
Effect_NoDestroy(f, n) ==
    IF Done(f) /\ n \in f.makes THEN f.device ELSE table[n]

Effect(f, n) ==
    IF Done(f) /\ n \in f.makes THEN f.device
    ELSE IF n \in f.ends /\ n.kind \in Destroyable THEN 0
    ELSE table[n]

(* The handler of a stream takes its next frame.                           *)
Dispatch(s) ==
    /\ wire[s] # <<>> /\ wire' = [wire EXCEPT ![s] = Tail(@)]
    /\ table' = [n \in Things |-> Effect(Head(wire[s]), n)]
    /\ UNCHANGED clientVars

Next ==
    \/ Connect \/ RequestDevice \/ Disconnect \/ Restart
    \/ \E k \in Kinds : Create(k)
    \/ \E n \in Things : Use(n) \/ Drop(n)
    \/ \E s \in Devices : Dispatch(s)

Spec == Init /\ [][Next]_vars
FairSpec == Spec /\ \A s \in Devices : WF_vars(Dispatch(s))
-----------------------------------------------------------------------------
(* No handle has an id that its device has yet to mint, and might mint for *)
(* another one.                                                            *)
TypeOK ==
    /\ device \in 0..MaxDevices /\ stream \in Devices /\ up \in BOOLEAN
    /\ up => device \in Devices
    /\ minted \in [Kinds -> 0..MaxIds] /\ held \subseteq Things
    /\ failed \in [Devices -> SUBSET Things]
    /\ wire \in [Devices -> Seq(Frames)]
    /\ table \in [Things -> 0..MaxDevices]
    /\ \A n \in held : n.id <= minted[n.kind]

(* A frame finds, under every name it gives, what its own device created:  *)
(* neither what an earlier device left there nor nothing, unless that      *)
(* creation failed. It is what makes a program run twice against one       *)
(* server (client/ids.rs, server/tables.rs).                               *)
FindsOwn ==
    \A s \in Devices : wire[s] # <<>> =>
        LET f == Head(wire[s]) IN
        \A n \in f.names \ failed[f.device] : table[n] = f.device

(* Once the server has caught up with a device, it has under the device's  *)
(* names what the device holds, and of the buffers nothing else: an id that*)
(* was dropped stands for nothing, whatever it was to earlier devices.     *)
CaughtUp ==
    up /\ wire[stream] = <<>> =>
        \A n \in Things : n.id <= minted[n.kind] =>
            /\ n \in held \ failed[device] => table[n] = device
            /\ n \notin held /\ n.kind \in Destroyable => table[n] = 0

(* What a device of the standing connection has dropped is removed from the*)
(* tables while the connection lasts.                                      *)
DroppedIsFreed ==
    \A n \in Things, d \in Devices : n.kind \in Destroyable =>
        (/\ up /\ stream <= d /\ table[n] = d
         /\ ~(d = device /\ n \in held))
        ~> (~up \/ table[n] # d)
=============================================================================
