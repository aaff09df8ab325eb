---------------------------- MODULE MappedBuffer ----------------------------
(***************************************************************************)
(* The life of one drop-in buffer: dispatch.rs (Buffer, MapState,          *)
(* BufferMappedRange) over client/resources.rs (Buffer, BufferInner).      *)
(*                                                                         *)
(* The map slot of a buffer is shared by its handle, by the task that each *)
(* map_async spawns and by the write views that flush into it when they    *)
(* are dropped. The tasks ask the server over the ordered stream that also *)
(* carries the writes; wgpu's front end, external here, panics on a second *)
(* map without an unmap, on views outside the mapped range or overlapping, *)
(* and on an unmap with a view alive.                                      *)
(*                                                                         *)
(* The buffer has Size cells; a write stores its own number in the cells   *)
(* it covers, so contents tell apart every two writes. What does not fit a *)
(* frame is not sent (client.rs), and nobody is told. The connection stays *)
(* up (Mux models its failures); the server may still refuse a read.       *)
(***************************************************************************)
EXTENDS Naturals, Sequences, FiniteSets

CONSTANTS
    Size,         (* cells in the buffer                                   *)
    MaxMaps,      (* bound: calls to map_async                             *)
    MaxWrites,    (* bound: writes and view fills                          *)
    MaxViews,     (* bound: views alive at a time                          *)
    Rooms,        (* how many cells of data the largest frame may take     *)
    WholeMaps,    (* TRUE: every map starts at offset 0                    *)
    PatientUnmap  (* TRUE: unmap is called only after the map's callback   *)

ASSUME MappedBufferAssumption ==
    /\ Size \in Nat \ {0} /\ MaxMaps \in Nat /\ MaxWrites \in Nat
    /\ MaxViews \in Nat /\ Rooms \subseteq Nat
    /\ WholeMaps \in BOOLEAN /\ PatientUnmap \in BOOLEAN

Maps   == 1..MaxMaps
Values == 0..MaxWrites
Bytes  == Seq(Values)
Ranges == {r \in [lo : 0..Size, hi : 0..Size] : r.lo < r.hi}
NoRange == [lo |-> 0, hi |-> 0]
Unmapped == [kind |-> "none", bytes |-> <<>>]

VARIABLES
    mapped,   (* Buffer::mapped: the MapState, if any                      *)
    held,     (* wgpu's map context: the range the user holds mapped       *)
    last,     (* the latest map_async; 0 while mapped at creation          *)
    stage,    (* how far the task of each map_async has come               *)
    asked,    (* the range of each map_async                               *)
    fetched,  (* the bytes each task was answered with                     *)
    views,    (* views handed out by get_mapped_range and not yet dropped  *)
    handle,   (* the user still owns the buffer                            *)
    wire,     (* this buffer's actions on the ordered stream               *)
    store,    (* the server's buffer; <<>> once it is destroyed            *)
    written,  (* how many writes and fills there were                      *)
    told,     (* history: contents by the order of the user's own calls    *)
    room,     (* cells of data that fit a frame, the same all along        *)
    lost,     (* history: cells whose latest write did not fit a frame     *)
    missed,   (* history: an action reached the server after Destroy       *)
    panicked  (* get_mapped_range panicked                                 *)

taskVars == <<last, stage, asked, fetched>>
frameVars == <<room, lost>>
vars == <<mapped, held, taskVars, views, handle, wire, store, written, told,
          missed, panicked, frameVars>>

Zeros == [k \in 1..Size |-> 0]

(* A buffer is born unmapped, or mapped_at_creation with zeroed staging.   *)
Init ==
    /\ \/ mapped = Unmapped /\ held = NoRange
       \/ /\ mapped = [kind |-> "write", bytes |-> Zeros]
          /\ held = [lo |-> 0, hi |-> Size]
    /\ last = 0
    /\ stage = [m \in Maps |-> "unused"]
    /\ asked = [m \in Maps |-> NoRange]
    /\ fetched = [m \in Maps |-> <<>>]
    /\ views = {} /\ handle = TRUE /\ wire = <<>>
    /\ store = Zeros /\ written = 0 /\ told = Zeros
    /\ missed = FALSE /\ panicked = FALSE
    /\ room \in Rooms /\ lost = {}

-----------------------------------------------------------------------------
Slice(b, r)     == SubSeq(b, r.lo + 1, r.hi)
Splice(b, r, s) == [k \in 1..Len(b) |->
                      IF k \in (r.lo + 1)..r.hi THEN s[k - r.lo] ELSE b[k]]
Fill(r, v)      == [k \in 1..(r.hi - r.lo) |-> v]
Disjoint(r, s)  == r.hi <= s.lo \/ s.hi <= r.lo
Cells(r)        == (r.lo + 1)..r.hi

(* What is read or written of a range is as large as the range.            *)
Fits(r) == r.hi - r.lo <= room

Running(m) == stage[m] \in {"spawned", "sent", "answered", "failed", "stored"}

(* Client::send: a write is pushed to the stream as it is called; one that *)
(* encode_frame refuses is dropped without a word.                         *)
Send(r, data) ==
    IF Fits(r)
    THEN /\ wire' = Append(wire, [kind |-> "write", range |-> r, data |-> data])
         /\ lost' = lost \ Cells(r)
    ELSE lost' = lost \cup Cells(r) /\ UNCHANGED wire

(* The user's map is there to be used: mapped at creation, or called back. *)
Granted == held # NoRange /\ (last # 0 => stage[last] = "ok")

(* Definitions named <Action>_<fault> are that action with a plausible      *)
(* fault; no specification uses them.                                      *)

(* The write is pushed by a task of its own, so one may overtake another.  *)
WriteBuffer_Spawned(r) ==
    /\ handle /\ held = NoRange /\ written < MaxWrites
    /\ written' = written + 1
    /\ LET data == Fill(r, written')
           job  == [kind |-> "write", range |-> r, data |-> data] IN
          /\ told' = Splice(told, r, data)
          /\ \/ Send(r, data)
             \/ Fits(r) /\ wire' = <<job>> \o wire /\ lost' = lost \ Cells(r)
    /\ UNCHANGED <<mapped, held, taskVars, views, handle, store, missed,
                   panicked, room>>

(* Queue::write_buffer.                                                    *)
WriteBuffer(r) ==
    /\ handle /\ held = NoRange /\ written < MaxWrites
    /\ written' = written + 1
    /\ LET data == Fill(r, written') IN
          /\ Send(r, data)
          /\ told' = Splice(told, r, data)
    /\ UNCHANGED <<mapped, held, taskVars, views, handle, store, missed,
                   panicked, room>>

(* Buffer::map_async: clone the handle and the slot, spawn the task.       *)
MapAsync(r) ==
    /\ handle /\ held = NoRange /\ last < MaxMaps
    /\ WholeMaps => r.lo = 0
    /\ held' = r
    /\ last' = last + 1
    /\ stage' = [stage EXCEPT ![last'] = "spawned"]
    /\ asked' = [asked EXCEPT ![last'] = r]
    /\ UNCHANGED <<mapped, fetched, views, handle, wire, store, written, told,
                   missed, panicked, frameVars>>

(* The task's read_range pushes MapBufferForRead, whenever it is scheduled.*)
Ask(m) ==
    /\ stage[m] = "spawned"
    /\ stage' = [stage EXCEPT ![m] = "sent"]
    /\ wire' = Append(wire, [kind |-> "map", id |-> m])
    /\ UNCHANGED <<mapped, held, last, asked, fetched, views, handle, store,
                   written, told, missed, panicked, frameVars>>

(* *mapped.lock() = Some(Read(bytes)), whatever the slot holds by then.    *)
Keep(m) ==
    /\ stage[m] = "answered"
    /\ mapped' = [kind |-> "read", bytes |-> fetched[m]]
    /\ stage' = [stage EXCEPT ![m] = "stored"]
    /\ UNCHANGED <<held, last, asked, fetched, views, handle, wire, store,
                   written, told, missed, panicked, frameVars>>

(* BufferInner::drop ships Destroy when the last clone of the handle goes: *)
(* the user's, or that of a task that outlives it.                         *)
Destroyed(w) == Append(w, [kind |-> "destroy"])

(* The callback, and the end of the task, which drops its clone.           *)
Callback(m) ==
    /\ stage[m] \in {"stored", "failed"}
    /\ stage' = [stage EXCEPT ![m] = IF @ = "stored" THEN "ok" ELSE "err"]
    /\ wire' = IF ~handle /\ \A n \in Maps \ {m} : ~Running(n)
               THEN Destroyed(wire) ELSE wire
    /\ UNCHANGED <<mapped, held, last, asked, fetched, views, handle, store,
                   written, told, missed, panicked, frameVars>>

(* Buffer::get_mapped_range, with the absolute range wgpu passes. A read   *)
(* map slices the fetched bytes, a write map copies the staging.           *)
GetMappedRange(r) ==
    /\ handle /\ Granted /\ ~panicked
    /\ held.lo <= r.lo /\ r.hi <= held.hi
    /\ \A v \in views : Disjoint(v.range, r)
    /\ Cardinality(views) < MaxViews
    /\ IF mapped.kind # "none" /\ r.hi <= Len(mapped.bytes)
       THEN /\ views' = views \cup {[kind  |-> mapped.kind, range |-> r,
                                     bytes |-> Slice(mapped.bytes, r)]}
            /\ UNCHANGED panicked
       ELSE panicked' = TRUE /\ UNCHANGED views
    /\ UNCHANGED <<mapped, held, taskVars, handle, wire, store, written, told,
                   missed, frameVars>>

(* The user writes into a view of a write map.                             *)
FillView(v) ==
    /\ v.kind = "write" /\ written < MaxWrites
    /\ written' = written + 1
    /\ LET data == Fill(v.range, written') IN
          /\ views' = (views \ {v}) \cup {[v EXCEPT !.bytes = data]}
          /\ told' = Splice(told, v.range, data)
    /\ UNCHANGED <<mapped, held, taskVars, handle, wire, store, missed,
                   panicked, frameVars>>

(* The view flushes at the start of the staging, its offset forgotten.     *)
DropView_NoOffset(v) ==
    /\ views' = views \ {v}
    /\ mapped' = IF v.kind = "write" /\ mapped.kind = "write"
                 THEN [mapped EXCEPT !.bytes =
                          Splice(@, [lo |-> 0, hi |-> Len(v.bytes)], v.bytes)]
                 ELSE mapped
    /\ UNCHANGED <<held, taskVars, handle, wire, store, written, told, missed,
                   panicked, frameVars>>

(* Drop for BufferMappedRange: a write view is folded back into the slot,  *)
(* if that still holds a staging it fits in.                               *)
DropView(v) ==
    /\ views' = views \ {v}
    /\ mapped' = IF /\ v.kind = "write" /\ mapped.kind = "write"
                    /\ v.range.lo + Len(v.bytes) <= Len(mapped.bytes)
                 THEN [mapped EXCEPT !.bytes = Splice(@, v.range, v.bytes)]
                 ELSE mapped
    /\ UNCHANGED <<held, taskVars, handle, wire, store, written, told, missed,
                   panicked, frameVars>>

(* Unmap leaves the slot of a read map as it is.                           *)
Unmap_KeepRead ==
    /\ handle /\ held # NoRange /\ views = {}
    /\ PatientUnmap /\ last # 0 => ~Running(last)
    /\ held' = NoRange
    /\ mapped' = IF mapped.kind = "write" THEN Unmapped ELSE mapped
    /\ IF mapped.kind = "write"
       THEN Send([lo |-> 0, hi |-> Len(mapped.bytes)], mapped.bytes)
       ELSE UNCHANGED <<wire, lost>>
    /\ UNCHANGED <<taskVars, views, handle, store, written, told, missed,
                   panicked, room>>

(* Unmap ships whatever the slot holds.                                    *)
Unmap_ShipAny ==
    /\ handle /\ held # NoRange /\ views = {}
    /\ PatientUnmap /\ last # 0 => ~Running(last)
    /\ held' = NoRange
    /\ mapped' = Unmapped
    /\ Send([lo |-> 0, hi |-> Len(mapped.bytes)], mapped.bytes)
    /\ UNCHANGED <<taskVars, views, handle, store, written, told, missed,
                   panicked, room>>

(* Buffer::unmap: take the slot; a staging is written to the server whole. *)
Unmap ==
    /\ handle /\ held # NoRange /\ views = {}
    /\ PatientUnmap /\ last # 0 => ~Running(last)
    /\ held' = NoRange
    /\ mapped' = Unmapped
    /\ IF mapped.kind = "write"
       THEN Send([lo |-> 0, hi |-> Len(mapped.bytes)], mapped.bytes)
       ELSE UNCHANGED <<wire, lost>>
    /\ UNCHANGED <<taskVars, views, handle, store, written, told, missed,
                   panicked, room>>

(* The tasks own no handle: Destroy goes out with the user's.              *)
DropHandle_NoClone ==
    /\ handle /\ views = {}
    /\ handle' = FALSE
    /\ wire' = Destroyed(wire)
    /\ UNCHANGED <<mapped, held, taskVars, views, store, written, told, missed,
                   panicked, frameVars>>

(* The user drops the buffer, mapped or not.                               *)
DropHandle ==
    /\ handle /\ views = {}
    /\ handle' = FALSE
    /\ wire' = IF \E m \in Maps : Running(m) THEN wire ELSE Destroyed(wire)
    /\ UNCHANGED <<mapped, held, taskVars, views, store, written, told, missed,
                   panicked, frameVars>>
-----------------------------------------------------------------------------
(* The server, action by action in the order of the stream.                *)

ServeWrite ==
    /\ wire # <<>> /\ Head(wire).kind = "write"
    /\ wire' = Tail(wire)
    /\ IF store = <<>> THEN missed' = TRUE /\ UNCHANGED store
       ELSE store' = Splice(store, Head(wire).range, Head(wire).data)
            /\ UNCHANGED missed
    /\ UNCHANGED <<mapped, held, taskVars, views, handle, written, told,
                   panicked, frameVars>>

(* read_buffer answers with the bytes, or with an error. An answer that    *)
(* does not fit a frame ends the handler: the map fails, and whatever else *)
(* is on the stream may stay there for ever, as it may at any time here.   *)
ServeMap ==
    /\ wire # <<>> /\ Head(wire).kind = "map"
    /\ wire' = Tail(wire)
    /\ LET m == Head(wire).id IN
       \/ /\ store # <<>> /\ Fits(asked[m])
          /\ stage' = [stage EXCEPT ![m] = "answered"]
          /\ fetched' = [fetched EXCEPT ![m] = Slice(store, asked[m])]
          /\ UNCHANGED missed
       \/ /\ stage' = [stage EXCEPT ![m] = "failed"]
          /\ missed' = (missed \/ store = <<>>)
          /\ UNCHANGED fetched
    /\ UNCHANGED <<mapped, held, last, asked, views, handle, store, written,
                   told, panicked, frameVars>>

ServeDestroy ==
    /\ wire # <<>> /\ Head(wire).kind = "destroy"
    /\ wire' = Tail(wire) /\ store' = <<>>
    /\ UNCHANGED <<mapped, held, taskVars, views, handle, written, told,
                   missed, panicked, frameVars>>
-----------------------------------------------------------------------------
Task(m) == Ask(m) \/ Keep(m) \/ Callback(m)
Server  == ServeWrite \/ ServeMap \/ ServeDestroy

Next == \/ \E r \in Ranges : WriteBuffer(r) \/ MapAsync(r) \/ GetMappedRange(r)
        \/ \E m \in Maps : Task(m)
        \/ \E v \in views : FillView(v) \/ DropView(v)
        \/ Unmap \/ DropHandle \/ Server

Spec == Init /\ [][Next]_vars
-----------------------------------------------------------------------------
(* Properties.                                                             *)

View == [kind : {"read", "write"}, range : Ranges, bytes : Bytes]
Job  == [kind : {"write"}, range : Ranges, data : Bytes]
        \cup [kind : {"map"}, id : Maps] \cup [kind : {"destroy"}]

TypeOK ==
    /\ mapped \in [kind : {"none", "read", "write"}, bytes : Bytes]
    /\ held \in Ranges \cup {NoRange}
    /\ last \in 0..MaxMaps
    /\ stage \in [Maps -> {"unused", "spawned", "sent", "answered", "failed",
                           "stored", "ok", "err"}]
    /\ asked \in [Maps -> Ranges \cup {NoRange}]
    /\ fetched \in [Maps -> Bytes]
    /\ views \in SUBSET View
    /\ handle \in BOOLEAN /\ missed \in BOOLEAN /\ panicked \in BOOLEAN
    /\ wire \in Seq(Job)
    /\ store \in Bytes /\ told \in Bytes
    /\ written \in 0..MaxWrites
    /\ room \in Rooms /\ lost \in SUBSET (1..Size)

(* The comment on Buffer::mapped: the state is held from map until unmap,  *)
(* so an unmapped buffer holds none and get_mapped_range finds one.        *)
HeldFromMapUntilUnmap ==
    /\ mapped.kind # "none" => held # NoRange
    /\ Granted => mapped.kind # "none"

(* A view shows what the user's own calls left in the range it asked for:  *)
(* the writes issued before the map and, in a write map, the fills. A cell *)
(* whose latest write did not fit a frame is promised nothing.             *)
ViewShowsBuffer ==
    /\ ~panicked
    /\ \A v \in views :
          /\ Len(v.bytes) = v.range.hi - v.range.lo
          /\ \A k \in Cells(v.range) \ lost :
                v.bytes[k - v.range.lo] = told[k]

(* What a closed write map staged and what write_buffer wrote reach the    *)
(* server in the order of the calls, and nothing else does: once the       *)
(* stream has drained the server holds what the user's calls say, but for  *)
(* cells whose latest write did not fit a frame. A lost write takes no     *)
(* other along.                                                            *)
StoreCatchesUp ==
    wire = <<>> /\ held = NoRange /\ store # <<>> =>
        \A k \in (1..Size) \ lost : store[k] = told[k]

(* Destroy is the last action of a buffer on the stream, although a map    *)
(* task may outlive the user's handle.                                     *)
NothingAfterDestroy ==
    /\ ~missed
    /\ \A k \in DOMAIN wire : wire[k].kind = "destroy" => k = Len(wire)
=============================================================================
