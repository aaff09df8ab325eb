------------------------------- MODULE Facade -------------------------------
(***************************************************************************)
(* What the users of the facade ask of the server: client/instance.rs,     *)
(* client/ids.rs, client/resources.rs and client/encoder.rs.               *)
(*                                                                         *)
(* A session is one Device over its ordered stream. It mints the ids of    *)
(* each kind from 1, ships every creation without waiting for the answer,  *)
(* and ships Destroy when the last handle of a resource is dropped; names  *)
(* (a kind and an id) are all that a frame says about a resource. Mux      *)
(* shows that the server takes the frames of a session in the order they   *)
(* were issued, so a session is modelled by the frame its handler takes    *)
(* next, with the handles as they were when it was issued.                 *)
(***************************************************************************)
EXTENDS Naturals, Sequences, FiniteSets

CONSTANTS
    Sessions,       (* the devices that share the server                   *)
    Creates,        (* the kinds each session's user creates               *)
    Large,          (* the kinds whose creation may not fit a frame        *)
    MaxId,          (* bound, by kind: ids minted                          *)
    MaxValue,       (* bound: contents are 0 (zeroed) to MaxValue          *)
    MaxRecordings,  (* bound, by session: recordings in a submission       *)
    MaxCommands     (* bound: commands in a recording                      *)

Kinds == {"buffer", "texture", "view", "sampler", "module", "bgl", "group",
          "playout", "cpipeline", "rpipeline"}

ASSUME FacadeAssumption ==
    /\ Creates \in [Sessions -> SUBSET Kinds] /\ Large \subseteq Kinds
    /\ MaxId \in [Kinds -> Nat]
    /\ MaxValue \in Nat /\ MaxCommands \in Nat
    /\ MaxRecordings \in [Sessions -> Nat]

Values == 0..MaxValue
Names  == UNION {[kind : {k}, id : 1..MaxId[k]] : k \in Kinds}

(* Kinds whose creation names no other resource, kinds with contents, and  *)
(* the kinds a creation must and may name.                                 *)
Simple  == {"buffer", "texture", "sampler", "module", "bgl"}
Storage == {"buffer", "texture"}
Needs(k) == CASE k = "view"                     -> {"texture"}
              [] k = "group"                    -> {"bgl"}
              [] k \in {"cpipeline", "rpipeline"} -> {"module"}
              [] OTHER                          -> {}
May(k)   == CASE k = "group"                    -> {"buffer", "sampler", "view"}
              [] k = "playout"                  -> {"bgl"}
              [] k \in {"cpipeline", "rpipeline"} -> {"playout"}
              [] OTHER                          -> {}

(* Arguments the engine answers InvalidArgument to, and those that wgpu    *)
(* raises a validation error for.                                          *)
Flaws(k) == {"none", "invalid"}
            \cup IF k \in {"module", "group"} THEN {"unsupported"} ELSE {}

VARIABLES
    minted,   (* IdMinter: the last id of each kind                        *)
    live,     (* names of the handles not yet dropped                      *)
    frame     (* the frame the server's handler takes next                 *)

facadeVars == <<minted, live, frame>>

NoFrame == [op |-> "none"]

FacadeInit ==
    /\ minted = [s \in Sessions |-> [k \in Kinds |-> 0]]
    /\ live = [s \in Sessions |-> {}]
    /\ frame = [s \in Sessions |-> NoFrame]
-----------------------------------------------------------------------------
Send(s, f) == frame[s] = NoFrame /\ frame' = [frame EXCEPT ![s] = f]

(* A frame over the limit does not encode: Client::send returns without a  *)
(* word, and the caller goes on as if it had been sent.                    *)
Unsent(s) == frame[s] = NoFrame /\ UNCHANGED frame

(* Mint an id, ship the creation, return the handle.                       *)
Handed(s, k) == [kind |-> k, id |-> minted[s][k] + 1]
Mint(s, k) ==
    /\ k \in Creates[s] /\ minted[s][k] < MaxId[k]
    /\ minted' = [minted EXCEPT ![s][k] = @ + 1]
    /\ live' = [live EXCEPT ![s] = @ \cup {Handed(s, k)}]

(* Device::create_*, Texture::create_view.                                 *)
Create(s, k, refs, flaw) ==
    /\ refs \subseteq live[s] /\ flaw \in Flaws(k)
    /\ {r.kind : r \in refs} \subseteq Needs(k) \cup May(k)
    /\ Needs(k) \subseteq {r.kind : r \in refs}
    /\ \/ Send(s, [op |-> "create", name |-> Handed(s, k), refs |-> refs,
                   flaw |-> flaw])
       \/ k \in Large /\ Unsent(s)
    /\ Mint(s, k)

(* get_bind_group_layout of a pipeline; an index it does not have is       *)
(* invalid.                                                                *)
Derive(s, p, flaw) ==
    /\ p \in live[s] /\ p.kind \in {"cpipeline", "rpipeline"}
    /\ flaw \in Flaws("bgl")
    /\ Send(s, [op |-> "derive", name |-> Handed(s, "bgl"), refs |-> {p},
                flaw |-> flaw])
    /\ Mint(s, "bgl")

(* The last handle is dropped.                                             *)
Drop(s, r) ==
    /\ r \in live[s]
    /\ live' = [live EXCEPT ![s] = @ \ {r}]
    /\ Send(s, [op |-> "destroy", name |-> r])
    /\ UNCHANGED minted

(* Queue::write_buffer, Buffer::write_range, Queue::write_texture.         *)
Write(s, r, v, flaw) ==
    /\ r \in live[s] /\ r.kind \in Storage /\ flaw \in Flaws(r.kind)
    /\ \/ Send(s, [op |-> "write", name |-> r, value |-> v, flaw |-> flaw])
       \/ Unsent(s)
    /\ UNCHANGED <<minted, live>>

(* Buffer::read_range.                                                     *)
Read(s, r, flaw) ==
    /\ r \in live[s] /\ r.kind = "buffer" /\ flaw \in Flaws(r.kind)
    /\ Send(s, [op |-> "read", name |-> r, flaw |-> flaw])
    /\ UNCHANGED <<minted, live>>

(* What the commands of a recording name and do to contents. Draws and     *)
(* dispatches stand as the names they use: what shaders compute is not     *)
(* modelled.                                                               *)
Commands(N) ==
    LET S == {r \in N : r.kind \in Storage} IN
       [op : {"clear"}, to : {r \in S : r.kind = "buffer"}]
       \cup {c \in [op : {"copy"}, from : S, to : S] :
                c.from # c.to /\ "buffer" \in {c.from.kind, c.to.kind}}
       \cup [op : {"use"}, to : {r \in N : r.kind # "texture"}]
Uses(c) == IF c.op = "copy" THEN {c.from, c.to} ELSE {c.to}

Recordings(N) == UNION {[1..n -> Commands(N)] : n \in 1..MaxCommands}

Seen(s) == {r \in Names : r.kind \in Creates[s] /\ r.id <= minted[s][r.kind]}

(* Queue::submit. A recording holds names, not handles, so what it names   *)
(* may have been dropped since it was recorded. An unsupported submission  *)
(* is one of another version, recs its recordings up to the first that does*)
(* not decode.                                                             *)
Submit(s, recs, flaw) ==
    /\ flaw = "invalid" => recs # <<>>
    /\ flaw = "unsupported" => Len(recs) < MaxRecordings[s]
    /\ \/ Send(s, [op |-> "submit", recs |-> recs, flaw |-> flaw])
       \/ Unsent(s)
    /\ UNCHANGED <<minted, live>>

(* Hello, RequestAdapter, RequestDevice and CreateCommandEncoder.          *)
Ack(s) == Send(s, [op |-> "ack"]) /\ UNCHANGED <<minted, live>>

User(s) ==
    /\ frame[s] = NoFrame
    /\ \/ \E k \in Creates[s], refs \in SUBSET live[s],
             flaw \in {"none", "invalid", "unsupported"} : Create(s, k, refs, flaw)
       \/ \E r \in live[s] : Drop(s, r)
       \/ \E r \in live[s], flaw \in {"none", "invalid"} :
             \/ Derive(s, r, flaw) \/ Read(s, r, flaw)
             \/ \E v \in Values : Write(s, r, v, flaw)
       \/ \E n \in 0..MaxRecordings[s], flaw \in {"none", "invalid", "unsupported"} :
             \E recs \in [1..n -> Recordings(Seen(s))] : Submit(s, recs, flaw)
       \/ Ack(s)
=============================================================================
