------------------------- MODULE MappedBufferProofs -------------------------
(***************************************************************************)
(* Proofs about MappedBuffer for any size, any number of maps, writes and  *)
(* views.                                                                  *)
(***************************************************************************)
EXTENDS MappedBuffer, QueueFacts, TLAPS

USE DEF frameVars

(* What a slice, a splice and a fill are.                                  *)
LEMMA SliceType ==
    ASSUME NEW b \in Bytes, NEW r \in Ranges, r.hi <= Len(b)
    PROVE  Slice(b, r) \in Bytes /\ Len(Slice(b, r)) = r.hi - r.lo
<1>1. r.lo \in Nat /\ r.hi \in 0..Len(b) /\ r.lo <= r.hi
    BY DEF Ranges, Bytes
<1>2. QED
    BY <1>1, PartFacts DEF Slice, Bytes

LEMMA SpliceType ==
    ASSUME NEW b \in Bytes, NEW r \in Ranges, NEW s \in Bytes,
           Len(s) = r.hi - r.lo
    PROVE  Splice(b, r, s) \in Bytes /\ Len(Splice(b, r, s)) = Len(b)
<1>1. Len(b) \in Nat /\ r.lo \in Nat /\ r.hi \in Nat
    BY DEF Ranges, Bytes
<1>2. ASSUME NEW k \in 1..Len(b)
      PROVE  (IF k \in (r.lo + 1)..r.hi THEN s[k - r.lo] ELSE b[k]) \in Values
    <2>1. CASE k \in (r.lo + 1)..r.hi
        <3>1. k - r.lo \in 1..Len(s)
            BY <1>1, <2>1
        <3>2. QED
            BY <2>1, <3>1 DEF Bytes
    <2>2. CASE k \notin (r.lo + 1)..r.hi
        BY <2>2 DEF Bytes
    <2>3. QED
        BY <2>1, <2>2
<1>3. Splice(b, r, s) \in [1..Len(b) -> Values]
    BY <1>2 DEF Splice
<1>4. QED
    BY <1>1, <1>3, BuiltFacts DEF Bytes

LEMMA FillType ==
    ASSUME NEW r \in Ranges, NEW v \in Values
    PROVE  Fill(r, v) \in Bytes /\ Len(Fill(r, v)) = r.hi - r.lo
<1>1. r.hi - r.lo \in Nat
    BY DEF Ranges
<1>2. Fill(r, v) \in [1..(r.hi - r.lo) -> Values]
    BY DEF Fill
<1>3. QED
    BY <1>1, <1>2, BuiltFacts DEF Bytes

LEMMA ZerosType == Zeros \in Bytes /\ Len(Zeros) = Size
<1>1. Zeros \in [1..Size -> Values]
    BY MappedBufferAssumption DEF Zeros, Values
<1>2. QED
    BY <1>1, MappedBufferAssumption, BuiltFacts DEF Bytes

-----------------------------------------------------------------------------
(* Contents, stagings, views and the data of writes have the length of     *)
(* what they stand for, and what is asked for lies within the buffer.      *)
JobOK(j) == /\ j.kind = "write" => Len(j.data) = j.range.hi - j.range.lo
            /\ j.kind = "map" => asked[j.id] \in Ranges

WireOK == wire \in Seq(Job) /\ \A k \in 1..Len(wire) : JobOK(wire[k])

Sized ==
    /\ store # <<>> => Len(store) = Size
    /\ Len(told) = Size
    /\ mapped.kind = "write" => Len(mapped.bytes) = Size
    /\ \A v \in views : Len(v.bytes) = v.range.hi - v.range.lo
    /\ \A m \in Maps : stage[m] # "unused" => asked[m] \in Ranges
    /\ WireOK

(* An action put at the end of the stream.                                 *)
LEMMA WireGrows ==
    ASSUME WireOK,
           NEW j \in Job, JobOK(j), wire' = Append(wire, j), asked' = asked
    PROVE  WireOK'
<1>1. /\ wire' \in Seq(Job) /\ Len(wire') = Len(wire) + 1 /\ Len(wire) \in Nat
      /\ \A k \in 1..Len(wire) : wire'[k] = wire[k]
      /\ wire'[Len(wire) + 1] = j
    BY AppendFacts DEF WireOK
<1>2. ASSUME NEW k \in 1..Len(wire') PROVE JobOK(wire[k])'
    <2>1. CASE k \in 1..Len(wire)
        BY <1>1, <2>1 DEF JobOK, WireOK
    <2>2. CASE k = Len(wire) + 1
        BY <1>1, <2>2 DEF JobOK
    <2>3. QED
        BY <1>1, <2>1, <2>2
<1>3. QED
    BY <1>1, <1>2 DEF WireOK

LEMMA WireShrinks ==
    ASSUME WireOK,
           wire # <<>>, wire' = Tail(wire), asked' = asked
    PROVE  /\ Head(wire) \in Job /\ JobOK(Head(wire))
           /\ WireOK'
<1>1. /\ Head(wire) \in Job /\ wire' \in Seq(Job) /\ Head(wire) = wire[1]
      /\ Len(wire) \in Nat \ {0} /\ Len(wire') = Len(wire) - 1
      /\ \A k \in 1..Len(wire') : wire'[k] = wire[k + 1]
    BY TailFacts DEF WireOK
<1>2. JobOK(Head(wire))
    BY <1>1 DEF WireOK
<1>3. ASSUME NEW k \in 1..Len(wire') PROVE JobOK(wire[k])'
    <2>1. k + 1 \in 1..Len(wire) /\ wire'[k] = wire[k + 1]
        BY <1>1
    <2>2. JobOK(wire[k + 1])
        BY <2>1 DEF WireOK
    <2>3. QED
        BY <2>1, <2>2 DEF JobOK
<1>4. QED
    BY <1>1, <1>2, <1>3 DEF WireOK

(* A write is put at the end of the stream, or it is too large for a frame.*)
WriteJob(r, data) == [kind |-> "write", range |-> r, data |-> data]

LEMMA SendCases ==
    ASSUME NEW r, NEW data, Send(r, data)
    PROVE  \/ wire' = Append(wire, WriteJob(r, data)) /\ lost' = lost \ Cells(r)
           \/ wire' = wire /\ lost' = lost \cup Cells(r)
BY DEF Send, WriteJob

LEMMA SendType ==
    ASSUME WireOK, asked' = asked, lost \in SUBSET (1..Size),
           NEW r \in Ranges, NEW data \in Bytes, Len(data) = r.hi - r.lo,
           Send(r, data)
    PROVE  WireOK' /\ lost' \in SUBSET (1..Size)
<1>1. WriteJob(r, data) \in Job /\ JobOK(WriteJob(r, data))
    BY DEF WriteJob, Job, JobOK
<1>2. Cells(r) \subseteq 1..Size
    BY MappedBufferAssumption DEF Cells, Ranges
<1>3. CASE wire' = Append(wire, WriteJob(r, data)) /\ lost' = lost \ Cells(r)
    BY <1>1, <1>3, WireGrows
<1>4. CASE wire' = wire /\ lost' = lost \cup Cells(r)
    BY <1>2, <1>4 DEF WireOK, JobOK
<1>5. QED
    BY <1>3, <1>4, SendCases

TypeInv == TypeOK /\ Sized

LEMMA InitType == Init => TypeInv
<1> SUFFICES ASSUME Init PROVE TypeInv
    OBVIOUS
<1>1. /\ Zeros \in Bytes /\ Len(Zeros) = Size /\ <<>> \in Bytes
      /\ <<>> \in Seq(Job) /\ 0 \in 0..MaxWrites /\ 0 \in 0..MaxMaps
    BY ZerosType, MappedBufferAssumption DEF Bytes
<1>2. [lo |-> 0, hi |-> Size] \in Ranges
    BY MappedBufferAssumption DEF Ranges
<1>3. wire = <<>> /\ WireOK
    BY DEF Init, WireOK
<1>4. TypeOK
    <2>1. /\ mapped \in [kind : {"none", "read", "write"}, bytes : Bytes]
          /\ held \in Ranges \cup {NoRange}
        BY <1>1, <1>2 DEF Init, Unmapped
    <2>2. views \in SUBSET View /\ wire \in Seq(Job)
        BY <1>1 DEF Init
    <2>3. QED
        BY <1>1, <2>1, <2>2 DEF Init, TypeOK
<1>5. Sized
    BY <1>1, <1>3 DEF Init, Sized, Unmapped
<1>6. QED
    BY <1>4, <1>5 DEF TypeInv

(* One step per action: types and lengths of what it assigns.              *)
LEMMA StepType == TypeInv /\ [Next]_vars => TypeInv'
<1> SUFFICES ASSUME TypeOK, Sized, [Next]_vars PROVE TypeOK' /\ Sized'
    BY DEF TypeInv
<1>0. /\ WireOK
      /\ stage \in [Maps -> {"unused", "spawned", "sent", "answered", "failed",
                             "stored", "ok", "err"}]
      /\ asked \in [Maps -> Ranges \cup {NoRange}]
      /\ fetched \in [Maps -> Bytes]
      /\ store \in Bytes /\ told \in Bytes /\ Len(told) = Size
      /\ mapped \in [kind : {"none", "read", "write"}, bytes : Bytes]
      /\ lost \in SUBSET (1..Size)
    BY DEF TypeOK, Sized, WireOK
(* What the stream carries stays in order when nothing it depends on moves.*)
<1>w. ASSUME UNCHANGED <<wire, asked>>
      PROVE  WireOK'
    BY <1>0, <1>w DEF JobOK, WireOK
<1>t. WireOK' => wire' \in Seq(Job)
    BY DEF WireOK
<1> USE <1>t
<1>1. ASSUME NEW r \in Ranges, WriteBuffer(r) PROVE TypeOK' /\ Sized'
    <2> DEFINE data == Fill(r, written')
    <2>1. written' \in 0..MaxWrites /\ written' \in Values
        BY <1>1, MappedBufferAssumption DEF WriteBuffer, TypeOK, Values
    <2>2. data \in Bytes /\ Len(data) = r.hi - r.lo
        BY <2>1, FillType
    <2>4. Send(r, data) /\ asked' = asked /\ told' = Splice(told, r, data)
        BY <1>1 DEF WriteBuffer, taskVars
    <2>5. told' \in Bytes /\ Len(told') = Size
        BY <1>0, <2>2, <2>4, SpliceType
    <2>6. WireOK' /\ lost' \in SUBSET (1..Size)
        <3> HIDE DEF data
        <3>1. QED
            BY <1>0, <2>2, <2>4, SendType
    <2>7. QED
        BY <1>1, <2>1, <2>5, <2>6 DEF WriteBuffer, taskVars, TypeOK, Sized
<1>2. ASSUME NEW r \in Ranges, MapAsync(r) PROVE TypeOK' /\ Sized'
    <2>1. /\ last' \in Maps /\ last' \in 0..MaxMaps
          /\ asked' = [asked EXCEPT ![last'] = r]
          /\ stage' = [stage EXCEPT ![last'] = "spawned"]
          /\ held' = r
          /\ UNCHANGED <<mapped, fetched, views, handle, wire, store, written,
                         told, missed, panicked, frameVars>>
        BY <1>2, MappedBufferAssumption DEF MapAsync, TypeOK, Maps
    <2>2. ASSUME NEW k \in 1..Len(wire') PROVE JobOK(wire[k])'
        <3>1. wire'[k] = wire[k] /\ JobOK(wire[k]) /\ wire[k] \in Job
            BY <1>0, <2>1 DEF WireOK
        <3>2. wire[k].kind = "map" => wire[k].id \in Maps
            BY <3>1 DEF Job
        <3>3. QED
            BY <1>0, <2>1, <3>1, <3>2 DEF JobOK
    <2>3. \A m \in Maps : stage'[m] # "unused" => asked'[m] \in Ranges
        BY <1>0, <2>1 DEF Sized
    <2>4. QED
        BY <2>1, <2>2, <2>3, <1>0 DEF TypeOK, Sized, WireOK
<1>3. ASSUME NEW m \in Maps, Ask(m) PROVE TypeOK' /\ Sized'
    <2>1. /\ stage[m] = "spawned" /\ stage' = [stage EXCEPT ![m] = "sent"]
          /\ wire' = Append(wire, [kind |-> "map", id |-> m])
          /\ UNCHANGED <<mapped, held, last, asked, fetched, views, handle,
                         store, written, told, missed, panicked, frameVars>>
        BY <1>3 DEF Ask
    <2>2. [kind |-> "map", id |-> m] \in Job /\ JobOK([kind |-> "map", id |-> m])
        BY <2>1 DEF Job, JobOK, Sized
    <2>3. WireOK'
        BY <1>0, <2>1, <2>2, WireGrows
    <2>4. QED
        BY <1>0, <2>1, <2>3 DEF TypeOK, Sized
<1>4. ASSUME NEW m \in Maps, Keep(m) PROVE TypeOK' /\ Sized'
    BY <1>0, <1>4, <1>w DEF Keep, TypeOK, Sized
<1>5. ASSUME NEW m \in Maps, Callback(m) PROVE TypeOK' /\ Sized'
    <2>1. /\ stage[m] \in {"stored", "failed"}
          /\ stage' = [stage EXCEPT ![m] = IF @ = "stored" THEN "ok" ELSE "err"]
          /\ wire' = Append(wire, [kind |-> "destroy"]) \/ wire' = wire
          /\ UNCHANGED <<mapped, held, last, asked, fetched, views, handle,
                         store, written, told, missed, panicked, frameVars>>
        BY <1>5 DEF Callback, Destroyed
    <2>2. [kind |-> "destroy"] \in Job /\ JobOK([kind |-> "destroy"])
        BY DEF Job, JobOK
    <2>3. WireOK'
        BY <1>0, <2>1, <2>2, <1>w, WireGrows
    <2>4. QED
        BY <1>0, <2>1, <2>3 DEF TypeOK, Sized
<1>6. ASSUME NEW r \in Ranges, GetMappedRange(r) PROVE TypeOK' /\ Sized'
    <2>1. CASE mapped.kind # "none" /\ r.hi <= Len(mapped.bytes)
        <3>1. Slice(mapped.bytes, r) \in Bytes
              /\ Len(Slice(mapped.bytes, r)) = r.hi - r.lo
            BY <1>0, <2>1, SliceType
        <3>2. [kind |-> mapped.kind, range |-> r,
               bytes |-> Slice(mapped.bytes, r)] \in View
            BY <1>0, <2>1, <3>1 DEF View
        <3>3. QED
            BY <1>6, <1>w, <2>1, <3>1, <3>2
            DEF GetMappedRange, taskVars, TypeOK, Sized
    <2>2. CASE ~(mapped.kind # "none" /\ r.hi <= Len(mapped.bytes))
        BY <1>6, <1>w, <2>2 DEF GetMappedRange, taskVars, TypeOK, Sized
    <2>3. QED
        BY <2>1, <2>2
<1>7. ASSUME NEW v \in views, FillView(v) PROVE TypeOK' /\ Sized'
    <2> DEFINE data == Fill(v.range, written')
    <2>1. /\ written' \in 0..MaxWrites /\ written' \in Values
          /\ v \in View /\ v.range \in Ranges
        BY <1>7, MappedBufferAssumption DEF FillView, TypeOK, Values, View
    <2>2. data \in Bytes /\ Len(data) = v.range.hi - v.range.lo
        BY <2>1, FillType
    <2>3. [v EXCEPT !.bytes = data] \in View
          /\ Len([v EXCEPT !.bytes = data].bytes)
                = [v EXCEPT !.bytes = data].range.hi
                  - [v EXCEPT !.bytes = data].range.lo
        BY <2>1, <2>2 DEF View
    <2>4. views' = (views \ {v}) \cup {[v EXCEPT !.bytes = data]}
          /\ told' = Splice(told, v.range, data)
        BY <1>7 DEF FillView
    <2>5. told' \in Bytes /\ Len(told') = Size
        BY <1>0, <2>1, <2>2, <2>4, SpliceType
    <2>6. views' \in SUBSET View
          /\ \A u \in views' : Len(u.bytes) = u.range.hi - u.range.lo
        BY <2>3, <2>4 DEF TypeOK, Sized
    <2>7. QED
        BY <1>7, <1>w, <2>1, <2>5, <2>6 DEF FillView, taskVars, TypeOK, Sized
<1>8. ASSUME NEW v \in views, DropView(v) PROVE TypeOK' /\ Sized'
    <2>1. v \in View /\ v.range \in Ranges /\ v.bytes \in Bytes
          /\ Len(v.bytes) = v.range.hi - v.range.lo
        BY DEF TypeOK, Sized, View
    <2>2. Splice(mapped.bytes, v.range, v.bytes) \in Bytes
          /\ Len(Splice(mapped.bytes, v.range, v.bytes)) = Len(mapped.bytes)
        BY <1>0, <2>1, SpliceType
    <2>3. /\ mapped' \in [kind : {"none", "read", "write"}, bytes : Bytes]
          /\ mapped'.kind = "write" => Len(mapped'.bytes) = Size
        BY <1>0, <1>8, <2>2 DEF DropView, Sized
    <2>4. QED
        BY <1>8, <1>w, <2>3 DEF DropView, taskVars, TypeOK, Sized
<1>9. ASSUME Unmap PROVE TypeOK' /\ Sized'
    <2> DEFINE r == [lo |-> 0, hi |-> Len(mapped.bytes)]
    <2>1. /\ mapped' = Unmapped /\ held' = NoRange
          /\ UNCHANGED <<taskVars, views, handle, store, written, told, missed,
                         panicked, room>>
          /\ \/ mapped.kind = "write" /\ Send(r, mapped.bytes)
             \/ mapped.kind # "write" /\ UNCHANGED <<wire, lost>>
        BY <1>9 DEF Unmap
    <2>2. ASSUME mapped.kind = "write" PROVE WireOK' /\ lost' \in SUBSET (1..Size)
        <3>1. Len(mapped.bytes) = Size /\ mapped.bytes \in Bytes
            BY <1>0, <2>2 DEF Sized
        <3>2. r \in Ranges /\ Size = r.hi - r.lo
            BY <3>1, MappedBufferAssumption DEF Ranges
        <3>3. Send(r, mapped.bytes) /\ asked' = asked
            BY <2>1, <2>2 DEF taskVars
        <3> HIDE DEF r
        <3>4. QED
            BY <1>0, <3>1, <3>2, <3>3, SendType
    <2>3. ASSUME mapped.kind # "write" PROVE WireOK' /\ lost' \in SUBSET (1..Size)
        BY <1>0, <1>w, <2>1, <2>3 DEF taskVars
    <2>4. WireOK' /\ lost' \in SUBSET (1..Size)
        BY <2>2, <2>3
    <2>5. <<>> \in Bytes
        BY DEF Bytes
    <2>6. QED
        BY <1>0, <2>1, <2>4, <2>5 DEF taskVars, TypeOK, Sized, Unmapped
<1>10. ASSUME DropHandle PROVE TypeOK' /\ Sized'
    <2>1. /\ wire' = Append(wire, [kind |-> "destroy"]) \/ wire' = wire
          /\ handle' = FALSE
          /\ UNCHANGED <<mapped, held, taskVars, views, store, written, told,
                         missed, panicked, frameVars>>
        BY <1>10 DEF DropHandle, Destroyed
    <2>2. [kind |-> "destroy"] \in Job /\ JobOK([kind |-> "destroy"])
        BY DEF Job, JobOK
    <2>3. WireOK'
        BY <1>0, <2>1, <2>2, <1>w, WireGrows DEF taskVars
    <2>4. QED
        BY <1>0, <2>1, <2>3 DEF taskVars, TypeOK, Sized
<1>11. ASSUME ServeWrite PROVE TypeOK' /\ Sized'
    <2>1. /\ wire # <<>> /\ wire' = Tail(wire) /\ asked' = asked
          /\ Head(wire).kind = "write"
        BY <1>11 DEF ServeWrite, taskVars
    <2>2. /\ Head(wire) \in Job /\ JobOK(Head(wire))
          /\ WireOK'
        BY <1>0, <2>1, WireShrinks
    <2>3. /\ Head(wire).range \in Ranges /\ Head(wire).data \in Bytes
          /\ Len(Head(wire).data) = Head(wire).range.hi - Head(wire).range.lo
        BY <2>1, <2>2 DEF Job, JobOK
    <2>4. /\ Splice(store, Head(wire).range, Head(wire).data) \in Bytes
          /\ Len(Splice(store, Head(wire).range, Head(wire).data)) = Len(store)
        BY <1>0, <2>3, SpliceType
    <2>5. store' \in Bytes /\ (store' # <<>> => Len(store') = Size)
        BY <1>0, <1>11, <2>4 DEF ServeWrite, Sized
    <2>6. QED
        BY <1>11, <2>2, <2>5 DEF ServeWrite, taskVars, TypeOK, Sized
<1>12. ASSUME ServeMap PROVE TypeOK' /\ Sized'
    <2>1. /\ wire # <<>> /\ wire' = Tail(wire) /\ asked' = asked
          /\ Head(wire).kind = "map"
        BY <1>12 DEF ServeMap
    <2>2. /\ Head(wire) \in Job /\ JobOK(Head(wire))
          /\ WireOK'
        BY <1>0, <2>1, WireShrinks
    <2>3. Head(wire).id \in Maps /\ asked[Head(wire).id] \in Ranges
          /\ asked[Head(wire).id].hi <= Size
        BY <2>1, <2>2 DEF Job, JobOK, Ranges
    <2>4. store # <<>> => Slice(store, asked[Head(wire).id]) \in Bytes
        BY <1>0, <2>3, SliceType DEF Sized
    <2>5. /\ fetched' \in [Maps -> Bytes]
          /\ missed' \in BOOLEAN
          /\ stage' \in [Maps -> {"unused", "spawned", "sent", "answered",
                                  "failed", "stored", "ok", "err"}]
        <3>1. /\ fetched' = fetched
                 \/ /\ store # <<>>
                    /\ fetched' = [fetched EXCEPT ![Head(wire).id] =
                                     Slice(store, asked[Head(wire).id])]
            BY <1>12 DEF ServeMap
        <3>2. fetched' \in [Maps -> Bytes]
            BY <1>0, <2>3, <2>4, <3>1
        <3>3. \E x \in {"answered", "failed"} :
                 stage' = [stage EXCEPT ![Head(wire).id] = x]
            BY <1>12 DEF ServeMap
        <3>4. missed' \in BOOLEAN
            <4>1. missed \in BOOLEAN
                BY DEF TypeOK
            <4>2. missed' = missed \/ missed' = (missed \/ store = <<>>)
                BY <1>12 DEF ServeMap
            <4>3. QED
                BY <4>1, <4>2
        <3>5. QED
            BY <1>0, <3>2, <3>3, <3>4
    <2>6. \A m \in Maps : stage'[m] # "unused" => asked'[m] \in Ranges
        BY <1>0, <1>12, <2>3 DEF ServeMap, Sized
    <2>7. QED
        BY <1>12, <2>2, <2>5, <2>6 DEF ServeMap, TypeOK, Sized
<1>13. ASSUME ServeDestroy PROVE TypeOK' /\ Sized'
    <2>1. WireOK'
        BY <1>0, <1>13, WireShrinks DEF ServeDestroy, taskVars
    <2>2. QED
        BY <1>13, <2>1 DEF ServeDestroy, taskVars, TypeOK, Sized, Bytes
<1>14. CASE UNCHANGED vars
    BY <1>14, <1>w DEF vars, taskVars, TypeOK, Sized
<1>15. QED
    BY <1>1, <1>2, <1>3, <1>4, <1>5, <1>6, <1>7, <1>8, <1>9, <1>10, <1>11,
       <1>12, <1>13, <1>14 DEF Next, Task, Server

(* The type invariant, with the lengths that make every slice, splice and  *)
(* flush stay within the bytes it works on.                                *)
THEOREM TypeCorrect == Spec => [](TypeOK /\ Sized)
<1>1. Spec => []TypeInv
    BY InitType, StepType, PTL DEF Spec
<1>2. TypeInv <=> TypeOK /\ Sized
    BY DEF TypeInv
<1>3. QED
    BY <1>1, <1>2, PTL
-----------------------------------------------------------------------------
(* The stream of the buffer.                                               *)

Quiet == ~handle /\ \A m \in Maps : ~Running(m)

(* Each map on the stream is that of one waiting task; Destroy is last, is *)
(* sent once, and only when no handle is left, the user's or a task's.     *)
StreamInv ==
    /\ ~missed
    /\ store = <<>> => wire = <<>> /\ Quiet
    /\ \A k \in 1..Len(wire) :
          /\ wire[k].kind = "destroy" => k = Len(wire) /\ Quiet
          /\ wire[k].kind = "map" => stage[wire[k].id] = "sent"
    /\ \A j, k \in 1..Len(wire) :
          wire[j].kind = "map" /\ wire[k].kind = "map" /\ wire[j].id = wire[k].id
             => j = k

(* A write, or a map of a task that waits for it, put at the end.          *)
LEMMA StreamGrows ==
    ASSUME WireOK, StreamInv, NEW j \in Job, wire' = Append(wire, j),
           UNCHANGED <<store, missed, handle>>, ~Quiet,
           \A m \in Maps : Running(m)' <=> Running(m),
           \A m \in Maps : stage[m] = "sent" => stage'[m] = "sent",
           j.kind \in {"write", "map"},
           j.kind = "map" => stage[j.id] # "sent" /\ stage'[j.id] = "sent"
    PROVE  StreamInv'
<1>1. /\ Len(wire') = Len(wire) + 1 /\ Len(wire) \in Nat
      /\ \A k \in 1..Len(wire) : wire'[k] = wire[k] /\ wire[k] \in Job
      /\ wire'[Len(wire) + 1] = j
    BY AppendFacts DEF WireOK
<1>2. /\ store # <<>>
      /\ \A k \in 1..Len(wire) : wire[k].kind # "destroy"
    BY DEF StreamInv
<1>3. \A k \in 1..Len(wire) : wire[k].kind = "map" => wire[k].id \in Maps
    BY <1>1 DEF Job
<1>4. ASSUME NEW k \in 1..Len(wire')
      PROVE  /\ wire'[k].kind # "destroy"
             /\ wire'[k].kind = "map" => stage'[wire'[k].id] = "sent"
    <2>1. CASE k \in 1..Len(wire)
        BY <1>1, <1>2, <1>3, <2>1 DEF StreamInv
    <2>2. CASE k = Len(wire) + 1
        BY <1>1, <2>2
    <2>3. QED
        BY <1>1, <2>1, <2>2
<1>5. ASSUME NEW i \in 1..Len(wire'), NEW k \in 1..Len(wire'),
             wire'[i].kind = "map", wire'[k].kind = "map",
             wire'[i].id = wire'[k].id
      PROVE  i = k
    <2>1. \A n \in 1..Len(wire) : wire[n].kind = "map" => stage[wire[n].id] = "sent"
        BY DEF StreamInv
    <2>2. CASE i \in 1..Len(wire) /\ k \in 1..Len(wire)
        BY <1>1, <1>5, <2>2 DEF StreamInv
    <2>3. CASE i = Len(wire) + 1 /\ k \in 1..Len(wire)
        BY <1>1, <1>5, <2>1, <2>3
    <2>4. CASE i \in 1..Len(wire) /\ k = Len(wire) + 1
        BY <1>1, <1>5, <2>1, <2>4
    <2>5. QED
        BY <1>1, <2>2, <2>3, <2>4
<1>6. ~missed' /\ store' # <<>>
    BY <1>2 DEF StreamInv
<1>7. QED
    BY <1>4, <1>5, <1>6 DEF StreamInv

(* Destroy put at the end as the last handle goes.                         *)
LEMMA StreamEnds ==
    ASSUME WireOK, StreamInv, wire' = Append(wire, [kind |-> "destroy"]),
           UNCHANGED <<store, missed>>, ~Quiet, Quiet',
           \A m \in Maps : stage[m] = "sent" => stage'[m] = "sent"
    PROVE  StreamInv'
<1> DEFINE j == [kind |-> "destroy"]
<1>1. /\ Len(wire') = Len(wire) + 1 /\ Len(wire) \in Nat
      /\ \A k \in 1..Len(wire) : wire'[k] = wire[k] /\ wire[k] \in Job
      /\ wire'[Len(wire) + 1] = j /\ j.kind = "destroy"
    <2>1. j \in Job
        BY DEF Job
    <2>2. QED
        BY <2>1, AppendFacts DEF WireOK
<1>2. /\ store # <<>>
      /\ \A k \in 1..Len(wire) : wire[k].kind # "destroy"
    BY DEF StreamInv
<1>3. \A k \in 1..Len(wire) : wire[k].kind = "map" => wire[k].id \in Maps
    BY <1>1 DEF Job
<1>4. ASSUME NEW k \in 1..Len(wire')
      PROVE  /\ wire'[k].kind = "destroy" => k = Len(wire')
             /\ wire'[k].kind = "map" => stage'[wire'[k].id] = "sent"
    <2>1. CASE k \in 1..Len(wire)
        BY <1>1, <1>2, <1>3, <2>1 DEF StreamInv
    <2>2. CASE k = Len(wire) + 1
        BY <1>1, <2>2
    <2>3. QED
        BY <1>1, <2>1, <2>2
<1>5. \A i, k \in 1..Len(wire') :
         wire'[i].kind = "map" /\ wire'[k].kind = "map"
         /\ wire'[i].id = wire'[k].id => i = k
    <2>1. \A i \in 1..Len(wire') : wire'[i].kind = "map" => i \in 1..Len(wire)
        BY <1>1
    <2>2. QED
        BY <1>1, <2>1 DEF StreamInv
<1>6. ~missed' /\ store' # <<>>
    BY <1>2 DEF StreamInv
<1>7. QED
    BY <1>4, <1>5, <1>6 DEF StreamInv

(* The first action taken off.                                             *)
LEMMA StreamShrinks ==
    ASSUME WireOK, StreamInv, wire # <<>>, wire' = Tail(wire),
           UNCHANGED <<missed, handle>>, store' = <<>> => wire' = <<>> /\ Quiet',
           \A m \in Maps : ~Running(m) => ~Running(m)',
           \A m \in Maps : stage'[m] # stage[m] =>
                            Head(wire).kind = "map" /\ Head(wire).id = m
    PROVE  StreamInv'
<1>1. /\ Head(wire) = wire[1] /\ Len(wire) \in Nat \ {0}
      /\ Len(wire') = Len(wire) - 1
      /\ \A k \in 1..Len(wire') : wire'[k] = wire[k + 1]
      /\ \A k \in 1..Len(wire) : wire[k] \in Job
    BY TailFacts DEF WireOK
<1>2. \A k \in 1..Len(wire') : k + 1 \in 1..Len(wire) /\ k + 1 # 1
    BY <1>1
<1>3. 1 \in 1..Len(wire)
    BY <1>1
<1>4. ASSUME NEW k \in 1..Len(wire'), wire'[k].kind = "destroy"
      PROVE  k = Len(wire') /\ Quiet'
    <2>1. wire[k + 1].kind = "destroy"
        BY <1>1, <1>4
    <2>2. k + 1 = Len(wire) /\ Quiet
        BY <1>2, <2>1 DEF StreamInv
    <2>3. k = Len(wire')
        <3>1. Len(wire') = Len(wire) - 1 /\ Len(wire) \in Nat
            BY <1>1
        <3>2. QED
            BY ONLY <2>2, <3>1, k \in 1..Len(wire')
    <2>4. Quiet'
        <3>1. handle' = handle
            OBVIOUS
        <3>2. QED
            BY <2>2, <3>1 DEF Quiet
    <2>5. QED
        BY <2>3, <2>4
<1>5. ASSUME NEW k \in 1..Len(wire'), wire'[k].kind = "map"
      PROVE  stage'[wire'[k].id] = "sent"
    <2>1. wire[k + 1].kind = "map" /\ wire'[k] = wire[k + 1]
        BY <1>1, <1>5
    <2>2. wire[k + 1].id \in Maps /\ stage[wire[k + 1].id] = "sent"
        BY <1>1, <1>2, <2>1 DEF StreamInv, Job
    <2>3. wire[1].kind = "map" => wire[1].id # wire[k + 1].id
        BY <1>2, <1>3, <2>1 DEF StreamInv
    <2>4. QED
        BY <1>1, <2>1, <2>2, <2>3
<1>6. ASSUME NEW i \in 1..Len(wire'), NEW k \in 1..Len(wire'),
             wire'[i].kind = "map", wire'[k].kind = "map",
             wire'[i].id = wire'[k].id
      PROVE  i = k
    <2>1. /\ wire[i + 1].kind = "map" /\ wire[k + 1].kind = "map"
          /\ wire[i + 1].id = wire[k + 1].id
        BY <1>1, <1>6
    <2>2. i + 1 \in 1..Len(wire) /\ k + 1 \in 1..Len(wire)
        BY <1>2
    <2>3. i + 1 = k + 1
        BY <2>1, <2>2 DEF StreamInv
    <2>4. QED
        BY ONLY <2>3, i \in 1..Len(wire'), k \in 1..Len(wire'),
                Len(wire') \in Nat, <1>1
<1>7. QED
    BY <1>4, <1>5, <1>6 DEF StreamInv

(* A map_async that was not called yet has no task.                        *)
Fresh == \A m \in Maps : m > last => stage[m] = "unused"

LEMMA ServedMapIsSent ==
    ASSUME TypeInv, StreamInv, ServeMap
    PROVE  Head(wire).id \in Maps /\ stage[Head(wire).id] = "sent"
<1>1. wire # <<>> /\ Head(wire).kind = "map"
    BY DEF ServeMap
<1>2. WireOK
    BY DEF TypeInv, Sized
<1>3. Head(wire) \in Job /\ Head(wire) = wire[1] /\ 1 \in 1..Len(wire)
    BY <1>1, <1>2, TailFacts DEF WireOK
<1>4. QED
    BY <1>1, <1>3 DEF StreamInv, Job

LEMMA StepFresh == TypeInv /\ StreamInv /\ Fresh /\ [Next]_vars => Fresh'
<1> SUFFICES ASSUME TypeInv, StreamInv, Fresh, [Next]_vars PROVE Fresh'
    OBVIOUS
<1>1. /\ stage \in [Maps -> {"unused", "spawned", "sent", "answered", "failed",
                             "stored", "ok", "err"}]
      /\ last \in 0..MaxMaps /\ MaxMaps \in Nat /\ Maps = 1..MaxMaps
    BY MappedBufferAssumption DEF TypeInv, TypeOK, Maps
<1>2. CASE UNCHANGED <<last, stage>>
    BY <1>2 DEF Fresh
<1>3. ASSUME NEW r \in Ranges, MapAsync(r) PROVE Fresh'
    BY <1>1, <1>3 DEF MapAsync, Fresh
<1>4. ASSUME NEW m \in Maps, Task(m) PROVE Fresh'
    BY <1>1, <1>4 DEF Task, Ask, Keep, Callback, Fresh
<1>5. CASE ServeMap
    BY <1>1, <1>5, ServedMapIsSent DEF ServeMap, Fresh
<1>6. QED
    BY <1>2, <1>3, <1>4, <1>5
    DEF Next, Server, WriteBuffer, GetMappedRange, FillView, DropView, Unmap,
        DropHandle, ServeWrite, ServeDestroy, vars, taskVars

(* Quiet depends on the handle and on which tasks run.                     *)
LEMMA StepStream == TypeInv /\ StreamInv /\ Fresh /\ [Next]_vars => StreamInv'
<1> SUFFICES ASSUME TypeInv, StreamInv, Fresh, [Next]_vars PROVE StreamInv'
    OBVIOUS
<1>0. /\ WireOK
      /\ stage \in [Maps -> {"unused", "spawned", "sent", "answered", "failed",
                             "stored", "ok", "err"}]
      /\ \A k \in 1..Len(wire) : wire[k].kind = "map" => wire[k].id \in Maps
    <2>1. WireOK
        BY DEF TypeInv, Sized
    <2>2. \A k \in 1..Len(wire) : wire[k].kind = "map" => wire[k].id \in Maps
        BY <2>1 DEF WireOK, Job
    <2>3. QED
        BY <2>1, <2>2 DEF TypeInv, TypeOK
<1>1. ASSUME UNCHANGED <<wire, store, missed>>, handle' => handle,
             \A m \in Maps : Running(m)' => Running(m),
             \A m \in Maps : stage[m] = "sent" => stage'[m] = "sent"
      PROVE  StreamInv'
    <2>1. Quiet => Quiet'
        BY <1>1 DEF Quiet
    <2>2. QED
        BY <1>0, <1>1, <2>1 DEF StreamInv
<1>2. ASSUME NEW r \in Ranges, WriteBuffer(r) PROVE StreamInv'
    <2> DEFINE job == WriteJob(r, Fill(r, written'))
    <2>1. /\ handle /\ wire' \in {Append(wire, job), wire}
          /\ UNCHANGED <<handle, store, missed, stage>>
        BY <1>2, SendCases DEF WriteBuffer, taskVars
    <2>2. Fill(r, written') \in Bytes
        <3>1. written' \in Values
            BY <1>2, MappedBufferAssumption
            DEF WriteBuffer, TypeInv, TypeOK, Values
        <3>2. QED
            BY <3>1, FillType
    <2>3. job \in Job /\ job.kind = "write"
        BY <2>2 DEF Job, WriteJob
    <2>4. CASE wire' = Append(wire, job)
        BY <1>0, <2>1, <2>3, <2>4, StreamGrows DEF Quiet, Running
    <2>5. CASE wire' = wire
        BY <1>1, <2>1, <2>5 DEF Running
    <2>6. QED
        BY <2>1, <2>4, <2>5
<1>3. ASSUME NEW r \in Ranges, MapAsync(r) PROVE StreamInv'
    <2>1. /\ handle /\ UNCHANGED <<wire, store, missed, handle>>
          /\ last' \in Maps /\ last' > last
          /\ stage' = [stage EXCEPT ![last'] = "spawned"]
        BY <1>3, MappedBufferAssumption DEF MapAsync, TypeInv, TypeOK, Maps
    <2>2. stage[last'] = "unused"
        BY <2>1 DEF Fresh
    <2>3. Quiet' <=> Quiet
        BY <2>1 DEF Quiet
    <2>4. \A m \in Maps : stage[m] = "sent" => stage'[m] = "sent"
        BY <1>0, <2>1, <2>2
    <2>5. QED
        BY <1>0, <2>1, <2>3, <2>4 DEF StreamInv, Quiet
<1>4. ASSUME NEW m \in Maps, Ask(m) PROVE StreamInv'
    <2> DEFINE job == [kind |-> "map", id |-> m]
    <2>1. /\ stage[m] = "spawned" /\ stage' = [stage EXCEPT ![m] = "sent"]
          /\ wire' = Append(wire, job)
          /\ UNCHANGED <<handle, store, missed>>
        BY <1>4 DEF Ask
    <2>2. job \in Job /\ job.kind = "map" /\ job.id = m
        BY DEF Job
    <2>3. \A n \in Maps : /\ Running(n)' <=> Running(n)
                          /\ stage[n] = "sent" => stage'[n] = "sent"
        BY <1>0, <2>1 DEF Running
    <2>4. ~Quiet /\ stage'[m] = "sent" /\ stage[m] # "sent"
        BY <1>0, <2>1 DEF Quiet, Running
    <2>5. /\ job \in Job /\ job.kind \in {"write", "map"}
          /\ stage[job.id] # "sent" /\ stage'[job.id] = "sent"
          /\ wire' = Append(wire, job) /\ UNCHANGED <<store, missed, handle>>
        BY <2>1, <2>2, <2>4
    <2> HIDE DEF job
    <2>6. QED
        BY <1>0, <2>3, <2>4, <2>5, StreamGrows
<1>5. ASSUME NEW m \in Maps, Keep(m) PROVE StreamInv'
    <2>1. /\ stage[m] = "answered" /\ stage' = [stage EXCEPT ![m] = "stored"]
          /\ UNCHANGED <<wire, handle, store, missed>>
        BY <1>5 DEF Keep
    <2>2. QED
        BY <1>0, <1>1, <2>1 DEF Running
<1>6. ASSUME NEW m \in Maps, Callback(m) PROVE StreamInv'
    <2>1. /\ stage[m] \in {"stored", "failed"}
          /\ stage' = [stage EXCEPT ![m] = IF @ = "stored" THEN "ok" ELSE "err"]
          /\ wire' = IF ~handle /\ \A n \in Maps \ {m} : ~Running(n)
                     THEN Append(wire, [kind |-> "destroy"]) ELSE wire
          /\ UNCHANGED <<handle, store, missed>>
        BY <1>6 DEF Callback, Destroyed
    <2>2. /\ \A n \in Maps : Running(n)' <=> Running(n) /\ n # m
          /\ \A n \in Maps : stage[n] = "sent" => stage'[n] = "sent"
          /\ Running(m)
        BY <1>0, <2>1 DEF Running
    <2>3. CASE ~handle /\ \A n \in Maps \ {m} : ~Running(n)
        <3>1. ~Quiet /\ Quiet'
            BY <2>1, <2>2, <2>3 DEF Quiet
        <3>2. QED
            BY <1>0, <2>1, <2>2, <2>3, <3>1, StreamEnds
    <2>4. CASE ~(~handle /\ \A n \in Maps \ {m} : ~Running(n))
        BY <1>1, <2>1, <2>2, <2>4
    <2>5. QED
        BY <2>3, <2>4
<1>7. ASSUME NEW r \in Ranges, GetMappedRange(r) PROVE StreamInv'
    BY <1>1, <1>7 DEF GetMappedRange, taskVars, Running
<1>8. ASSUME NEW v \in views, FillView(v) \/ DropView(v) PROVE StreamInv'
    BY <1>1, <1>8 DEF FillView, DropView, taskVars, Running
<1>9. ASSUME Unmap PROVE StreamInv'
    <2> DEFINE job == WriteJob([lo |-> 0, hi |-> Len(mapped.bytes)], mapped.bytes)
    <2>1. /\ handle /\ UNCHANGED <<handle, store, missed, stage>>
          /\ \/ wire' = wire
             \/ mapped.kind = "write" /\ wire' = Append(wire, job)
        BY <1>9, SendCases DEF Unmap, taskVars
    <2>2. CASE mapped.kind = "write" /\ wire' = Append(wire, job)
        <3>1. Len(mapped.bytes) = Size /\ mapped.bytes \in Bytes
            BY <2>2 DEF TypeInv, TypeOK, Sized
        <3>2. job \in Job /\ job.kind = "write"
            BY <3>1, MappedBufferAssumption DEF Job, Ranges, WriteJob
        <3>3. QED
            BY <1>0, <2>1, <2>2, <3>2, StreamGrows DEF Quiet, Running
    <2>3. CASE wire' = wire
        BY <1>1, <2>1, <2>3 DEF Running
    <2>4. QED
        BY <2>1, <2>2, <2>3
<1>10. ASSUME DropHandle PROVE StreamInv'
    <2>1. /\ handle /\ ~handle' /\ UNCHANGED <<stage, store, missed>>
          /\ wire' = IF \E m \in Maps : Running(m)
                     THEN wire ELSE Append(wire, [kind |-> "destroy"])
        BY <1>10 DEF DropHandle, Destroyed, taskVars
    <2>2. CASE \E m \in Maps : Running(m)
        BY <1>1, <2>1, <2>2 DEF Running
    <2>3. CASE ~\E m \in Maps : Running(m)
        <3>1. ~Quiet /\ Quiet'
            BY <2>1, <2>3 DEF Quiet, Running
        <3>2. QED
            BY <1>0, <2>1, <2>3, <3>1, StreamEnds
    <2>4. QED
        BY <2>2, <2>3
<1>11. ASSUME ServeWrite PROVE StreamInv'
    <2>1. /\ wire # <<>> /\ wire' = Tail(wire) /\ UNCHANGED <<handle, stage>>
          /\ Head(wire).kind = "write"
        BY <1>11 DEF ServeWrite, taskVars
    <2>2. store # <<>>
        BY <2>1 DEF StreamInv
    <2>3. /\ missed' = missed
          /\ store' = Splice(store, Head(wire).range, Head(wire).data)
        BY <1>11, <2>2 DEF ServeWrite
    <2>4. store' # <<>>
        <3>1. Head(wire) \in Job /\ JobOK(Head(wire))
            BY <1>0, <2>1, TailFacts DEF WireOK
        <3>2. store \in Bytes /\ Len(store) = Size /\ Size # 0
            BY <2>2, MappedBufferAssumption DEF TypeInv, TypeOK, Sized
        <3>3. Len(store') = Size
            BY <2>1, <2>3, <3>1, <3>2, SpliceType DEF Job, JobOK
        <3>4. QED
            BY <3>2, <3>3
    <2>5. QED
        BY <1>0, <2>1, <2>3, <2>4, StreamShrinks DEF Running
<1>12. ASSUME ServeMap PROVE StreamInv'
    <2> DEFINE n == Head(wire).id
    <2>1. /\ wire # <<>> /\ wire' = Tail(wire) /\ UNCHANGED <<handle, store>>
          /\ Head(wire).kind = "map"
          /\ \E x \in {"answered", "failed"} : stage' = [stage EXCEPT ![n] = x]
        BY <1>12 DEF ServeMap
    <2>2. store # <<>>
        BY <2>1 DEF StreamInv
    <2>3. missed' = missed
        <3>1. missed' = missed \/ missed' = (missed \/ store = <<>>)
            BY <1>12 DEF ServeMap
        <3>2. missed \in BOOLEAN
            BY DEF TypeInv, TypeOK
        <3>3. QED
            BY <2>2, <3>1, <3>2
    <2>4. n \in Maps /\ stage[n] = "sent"
        BY <1>12, ServedMapIsSent
    <2>5. /\ \A m \in Maps : ~Running(m) => ~Running(m)'
          /\ \A m \in Maps : stage'[m] # stage[m] => m = n
        BY <1>0, <2>1, <2>4 DEF Running
    <2>6. QED
        BY <1>0, <2>1, <2>2, <2>3, <2>5, StreamShrinks
<1>13. ASSUME ServeDestroy PROVE StreamInv'
    <2>1. /\ wire # <<>> /\ wire' = Tail(wire) /\ store' = <<>>
          /\ UNCHANGED <<handle, stage, missed>> /\ Head(wire).kind = "destroy"
        BY <1>13 DEF ServeDestroy, taskVars
    <2>2. Head(wire) = wire[1] /\ Len(wire) \in Nat \ {0}
          /\ Len(Tail(wire)) = Len(wire) - 1 /\ Tail(wire) \in Seq(Job)
        BY <1>0, <2>1, TailFacts DEF WireOK
    <2>3. 1 = Len(wire) /\ Quiet
        <3>1. 1 \in 1..Len(wire)
            BY <2>2
        <3>2. QED
            BY <2>1, <2>2, <3>1 DEF StreamInv
    <2>4. wire' = <<>>
        BY <2>1, <2>2, <2>3
    <2>5. Quiet'
        BY <2>1, <2>3 DEF Quiet, Running
    <2>6. QED
        BY <1>0, <2>1, <2>4, <2>5, StreamShrinks DEF Running
<1>14. CASE UNCHANGED vars
    BY <1>1, <1>14 DEF vars, taskVars, Running
<1>15. QED
    BY <1>2, <1>3, <1>4, <1>5, <1>6, <1>7, <1>8, <1>9, <1>10, <1>11, <1>12,
       <1>13, <1>14 DEF Next, Task, Server

LEMMA StreamCorrect == Spec => [](TypeInv /\ StreamInv /\ Fresh)
<1>1. Init => StreamInv /\ Fresh
    BY MappedBufferAssumption DEF Init, StreamInv, Fresh, Zeros
<1>2. TypeInv /\ StreamInv /\ Fresh /\ [Next]_vars => StreamInv' /\ Fresh'
    BY StepStream, StepFresh
<1>3. TypeInv <=> TypeOK /\ Sized
    BY DEF TypeInv
<1>4. QED
    BY <1>1, <1>2, <1>3, TypeCorrect, PTL DEF Spec

(* Destroy is the last action of a buffer on its stream, and no action     *)
(* reaches the server after it, whichever of handle and tasks ends last.   *)
THEOREM NothingAfterDestroyCorrect == Spec => []NothingAfterDestroy
<1>1. TypeInv /\ StreamInv => NothingAfterDestroy
    <2>1. TypeInv => DOMAIN wire = 1..Len(wire)
        BY DEF TypeInv, Sized, WireOK
    <2>2. QED
        BY <2>1 DEF StreamInv, NothingAfterDestroy
<1>2. QED
    BY <1>1, StreamCorrect, PTL
-----------------------------------------------------------------------------
(* The slot of a patient user's buffer.                                    *)

(* At most the latest map_async has a task, none while the user holds no   *)
(* map, and the slot holds what that map put there.                        *)
SlotInv ==
    /\ \A m \in Maps : Running(m) => m = last /\ held # NoRange
    /\ mapped.kind # "none" => held # NoRange
    /\ held # NoRange /\ last = 0 => mapped.kind = "write"
    /\ \A m \in Maps :
          m = last /\ held # NoRange /\ stage[m] \in {"stored", "ok"}
             => mapped.kind = "read"

LEMMA StepSlot ==
    ASSUME PatientUnmap
    PROVE  TypeInv /\ StreamInv /\ SlotInv /\ [Next]_vars => SlotInv'
<1> SUFFICES ASSUME TypeInv, StreamInv, SlotInv, [Next]_vars PROVE SlotInv'
    OBVIOUS
<1>0. /\ stage \in [Maps -> {"unused", "spawned", "sent", "answered", "failed",
                             "stored", "ok", "err"}]
      /\ mapped \in [kind : {"none", "read", "write"}, bytes : Bytes]
      /\ last \in 0..MaxMaps /\ MaxMaps \in Nat /\ Maps = 1..MaxMaps
    BY MappedBufferAssumption DEF TypeInv, TypeOK, Maps
(* The slot, the map context and the tasks' stages are all it depends on.  *)
<1>1. ASSUME UNCHANGED <<held, last, stage>>, mapped'.kind = mapped.kind
      PROVE  SlotInv'
    BY <1>1 DEF SlotInv, Running
<1>2. ASSUME NEW r \in Ranges, WriteBuffer(r) \/ GetMappedRange(r)
      PROVE  SlotInv'
    BY <1>1, <1>2 DEF WriteBuffer, GetMappedRange, taskVars
<1>3. ASSUME NEW r \in Ranges, MapAsync(r) PROVE SlotInv'
    <2>1. /\ held = NoRange /\ held' = r /\ r # NoRange
          /\ last' = last + 1 /\ last' \in Maps /\ mapped' = mapped
          /\ stage' = [stage EXCEPT ![last'] = "spawned"]
        BY <1>0, <1>3 DEF MapAsync, Ranges, NoRange
    <2>2. \A m \in Maps : Running(m)' => m = last'
        BY <1>0, <2>1 DEF SlotInv, Running
    <2>3. mapped.kind = "none"
        BY <1>0, <2>1 DEF SlotInv
    <2>4. QED
        BY <1>0, <2>1, <2>2, <2>3 DEF SlotInv
<1>4. ASSUME NEW m \in Maps, Ask(m) PROVE SlotInv'
    BY <1>0, <1>4 DEF Ask, SlotInv, Running
<1>5. ASSUME NEW m \in Maps, Keep(m) PROVE SlotInv'
    <2>1. /\ Running(m) /\ m = last /\ held # NoRange
        BY <1>5 DEF Keep, SlotInv, Running
    <2>2. mapped'.kind = "read" /\ stage' = [stage EXCEPT ![m] = "stored"]
          /\ UNCHANGED <<held, last>>
        BY <1>5 DEF Keep
    <2>3. QED
        BY <1>0, <2>1, <2>2 DEF SlotInv, Running
<1>6. ASSUME NEW m \in Maps, Callback(m) PROVE SlotInv'
    <2>1. /\ UNCHANGED <<mapped, held, last>>
          /\ stage[m] \in {"stored", "failed"}
          /\ stage' = [stage EXCEPT ![m] = IF @ = "stored" THEN "ok" ELSE "err"]
        BY <1>6 DEF Callback
    <2>2. Running(m)
        BY <2>1 DEF Running
    <2>3. QED
        BY <1>0, <2>1, <2>2 DEF SlotInv, Running
<1>7. ASSUME NEW v \in views, FillView(v) PROVE SlotInv'
    BY <1>1, <1>7 DEF FillView, taskVars
<1>8. ASSUME NEW v \in views, DropView(v) PROVE SlotInv'
    <2>1. mapped'.kind = mapped.kind
        BY <1>0, <1>8 DEF DropView
    <2>2. QED
        BY <1>1, <1>8, <2>1 DEF DropView, taskVars
<1>9. ASSUME Unmap PROVE SlotInv'
    <2>1. /\ mapped'.kind = "none" /\ held' = NoRange /\ UNCHANGED <<last, stage>>
          /\ last # 0 => ~Running(last)
        BY <1>9 DEF Unmap, Unmapped, taskVars
    <2>2. \A m \in Maps : ~Running(m)
        BY <1>0, <2>1 DEF SlotInv
    <2>3. \A m \in Maps : ~Running(m)'
        BY <2>1, <2>2 DEF Running
    <2>4. mapped'.kind = "none" /\ held' = NoRange
        BY <2>1
    <2>5. QED
        BY ONLY <2>3, <2>4 DEF SlotInv
<1>10. ASSUME DropHandle PROVE SlotInv'
    BY <1>1, <1>10 DEF DropHandle, taskVars
<1>11. ASSUME ServeWrite \/ ServeDestroy PROVE SlotInv'
    BY <1>1, <1>11 DEF ServeWrite, ServeDestroy, taskVars
<1>12. ASSUME ServeMap PROVE SlotInv'
    <2> DEFINE n == Head(wire).id
    <2>1. /\ UNCHANGED <<mapped, held, last>>
          /\ \E x \in {"answered", "failed"} : stage' = [stage EXCEPT ![n] = x]
        BY <1>12 DEF ServeMap
    <2>2. n \in Maps /\ Running(n)
        BY <1>12, ServedMapIsSent DEF Running
    <2>3. QED
        BY <1>0, <2>1, <2>2 DEF SlotInv, Running
<1>13. CASE UNCHANGED vars
    BY <1>1, <1>13 DEF vars, taskVars
<1>14. QED
    BY <1>2, <1>3, <1>4, <1>5, <1>6, <1>7, <1>8, <1>9, <1>10, <1>11, <1>12,
       <1>13 DEF Next, Task, Server

LEMMA SlotCorrect ==
    ASSUME PatientUnmap
    PROVE  Spec => []SlotInv
<1>1. Init => SlotInv
    BY MappedBufferAssumption
    DEF Init, SlotInv, Running, Unmapped, NoRange, Maps
<1>2. TypeInv /\ StreamInv /\ SlotInv /\ [Next]_vars => SlotInv'
    BY StepSlot
<1>3. QED
    BY <1>1, <1>2, StreamCorrect, PTL DEF Spec

(* The comment on Buffer::mapped: the state is held from map until unmap,  *)
(* true of every buffer whose user lets a map be called back before it     *)
(* unmaps (otherwise the running task still stores what it fetched).       *)
THEOREM HeldCorrect ==
    ASSUME PatientUnmap
    PROVE  Spec => []HeldFromMapUntilUnmap
<1>1. Spec => []SlotInv
    BY SlotCorrect
<1>2. TypeInv /\ SlotInv => HeldFromMapUntilUnmap
    BY MappedBufferAssumption
    DEF TypeInv, TypeOK, SlotInv, HeldFromMapUntilUnmap, Granted, Maps
<1>3. QED
    BY <1>1, <1>2, StreamCorrect, PTL
-----------------------------------------------------------------------------
(* The contents.                                                           *)

In(k, r)     == k \in Cells(r)
Covers(j, k) == j.kind = "write" /\ In(k, j.range)

LEMMA SliceAt ==
    ASSUME NEW b \in Bytes, NEW r \in Ranges, r.hi <= Len(b),
           NEW k \in Nat, In(k, r)
    PROVE  Slice(b, r)[k - r.lo] = b[k]
<1>1. r.lo \in Nat /\ r.hi \in Nat /\ r.hi \in 0..Len(b) /\ r.lo <= r.hi
    BY DEF Ranges, Bytes
<1>2. \A i \in 1..(r.hi - r.lo) : Slice(b, r)[i] = b[r.lo + i]
    BY <1>1, PartFacts DEF Slice, Bytes
<1>3. k - r.lo \in 1..(r.hi - r.lo) /\ r.lo + (k - r.lo) = k
    BY <1>1 DEF In, Cells
<1>4. QED
    BY <1>2, <1>3

LEMMA SpliceAt ==
    ASSUME NEW b, NEW r, NEW s, NEW k \in 1..Len(b)
    PROVE  /\ In(k, r) => Splice(b, r, s)[k] = s[k - r.lo]
           /\ ~In(k, r) => Splice(b, r, s)[k] = b[k]
BY DEF Splice, In, Cells

(* No cell belongs to two views.                                           *)
LEMMA DisjointCells ==
    ASSUME NEW r \in Ranges, NEW s \in Ranges, Disjoint(r, s), NEW k \in Nat,
           In(k, r)
    PROVE  ~In(k, s) /\ Disjoint(s, r)
BY DEF Ranges, Disjoint, In, Cells

(* x is what the calls say of cell k, unless the latest of them was lost.  *)
Told(k, x) == k \in lost \/ x = told[k]

(* Cell k is what the user's calls say as soon as the stream is served: it *)
(* is so in the newest write under way that covers it, and if there is     *)
(* none, at the server.                                                    *)
Settled(k) ==
    /\ \A i \in 1..Len(wire) :
          /\ Covers(wire[i], k)
          /\ \A h \in (i + 1)..Len(wire) : ~Covers(wire[h], k)
          => Told(k, wire[i].data[k - wire[i].range.lo])
    /\ (\A i \in 1..Len(wire) : ~Covers(wire[i], k)) /\ store # <<>>
          => Told(k, store[k])

(* A lost write leaves its cells unpromised, and the others as they were.  *)
LEMMA SettledLost ==
    ASSUME NEW k, k \in lost'
    PROVE  Settled(k)'
BY DEF Settled, Told

LEMMA SettledStays ==
    ASSUME NEW k, Settled(k), UNCHANGED <<wire, store>>, told'[k] = told[k],
           k \in lost => k \in lost'
    PROVE  Settled(k)'
BY DEF Settled, Told

LEMMA SettledGrows ==
    ASSUME WireOK, NEW j \in Job, wire' = Append(wire, j), store' = store,
           NEW k,
           Covers(j, k) => k \in lost' \/ j.data[k - j.range.lo] = told'[k],
           ~Covers(j, k) => /\ Settled(k) /\ told'[k] = told[k]
                            /\ k \in lost => k \in lost'
    PROVE  Settled(k)'
<1> DEFINE n == Len(wire)
<1>1. /\ n \in Nat /\ Len(wire') = n + 1 /\ wire'[n + 1] = j
      /\ \A i \in 1..n : wire'[i] = wire[i]
    BY AppendFacts DEF WireOK
<1>2. ASSUME NEW i \in 1..Len(wire'), Covers(wire'[i], k),
             \A h \in (i + 1)..Len(wire') : ~Covers(wire'[h], k)
      PROVE  k \in lost' \/ wire'[i].data[k - wire'[i].range.lo] = told'[k]
    <2>1. CASE i = n + 1
        BY <1>1, <1>2, <2>1
    <2>2. CASE i # n + 1
        <3>1. i \in 1..n /\ n + 1 \in (i + 1)..Len(wire')
            BY <1>1, <2>2
        <3>2. ~Covers(j, k)
            BY <1>1, <1>2, <3>1
        <3>3. \A h \in (i + 1)..n : /\ h \in 1..n
                                    /\ h \in (i + 1)..Len(wire')
            BY <1>1, <3>1
        <3>4. /\ Covers(wire[i], k)
              /\ \A h \in (i + 1)..n : ~Covers(wire[h], k)
            BY <1>1, <1>2, <3>1, <3>3
        <3>5. QED
            BY <1>1, <3>1, <3>2, <3>4 DEF Settled, Told
    <2>3. QED
        BY <2>1, <2>2
<1>3. ASSUME \A i \in 1..Len(wire') : ~Covers(wire'[i], k), store' # <<>>
      PROVE  k \in lost' \/ store'[k] = told'[k]
    <2>1. n + 1 \in 1..Len(wire') /\ \A i \in 1..n : i \in 1..Len(wire')
        BY <1>1
    <2>2. ~Covers(j, k) /\ \A i \in 1..n : ~Covers(wire[i], k)
        BY <1>1, <1>3, <2>1
    <2>3. QED
        BY <1>3, <2>2 DEF Settled, Told
<1>4. QED
    BY <1>2, <1>3 DEF Settled, Told

LEMMA SettledShrinks ==
    ASSUME WireOK, wire # <<>>, wire' = Tail(wire), told' = told, lost' = lost,
           NEW k, Settled(k),
           store' # <<>> =>
              /\ store # <<>>
              /\ Covers(Head(wire), k) =>
                    store'[k] = Head(wire).data[k - Head(wire).range.lo]
              /\ ~Covers(Head(wire), k) => store'[k] = store[k]
    PROVE  Settled(k)'
<1> DEFINE n == Len(wire)
<1>1. /\ n \in Nat \ {0} /\ Len(wire') = n - 1 /\ Head(wire) = wire[1]
      /\ \A i \in 1..Len(wire') : wire'[i] = wire[i + 1]
    BY TailFacts DEF WireOK
<1>2. \A h \in 2..n : h - 1 \in 1..Len(wire') /\ wire'[h - 1] = wire[h]
    <2> TAKE h \in 2..n
    <2>1. h - 1 \in 1..Len(wire') /\ h - 1 + 1 = h
        BY <1>1
    <2>2. QED
        BY <1>1, <2>1
<1>3. ASSUME NEW i \in 1..Len(wire'), Covers(wire'[i], k),
             \A h \in (i + 1)..Len(wire') : ~Covers(wire'[h], k)
      PROVE  k \in lost' \/ wire'[i].data[k - wire'[i].range.lo] = told'[k]
    <2>1. i + 1 \in 1..n /\ Covers(wire[i + 1], k) /\ wire'[i] = wire[i + 1]
        BY <1>1, <1>3
    <2>2. ASSUME NEW h \in (i + 2)..n PROVE ~Covers(wire[h], k)
        <3>1. h \in 2..n /\ h - 1 \in (i + 1)..Len(wire')
            BY <1>1
        <3>2. QED
            BY <1>2, <1>3, <3>1
    <2>3. (i + 1) + 1 = i + 2
        OBVIOUS
    <2>4. QED
        BY <2>1, <2>2, <2>3 DEF Settled, Told
<1>4. ASSUME \A i \in 1..Len(wire') : ~Covers(wire'[i], k), store' # <<>>
      PROVE  k \in lost' \/ store'[k] = told'[k]
    <2>1. \A h \in (1 + 1)..n : ~Covers(wire[h], k)
        <3>1. \A h \in 2..n : ~Covers(wire[h], k)
            <4> TAKE h \in 2..n
            <4>1. h - 1 \in 1..Len(wire') /\ wire'[h - 1] = wire[h]
                BY <1>2
            <4>2. ~Covers(wire'[h - 1], k)
                BY <1>4, <4>1
            <4>3. QED
                BY <4>1, <4>2
        <3>2. QED
            BY <3>1
    <2>2. 1 \in 1..n
        BY <1>1
    <2>3. CASE Covers(wire[1], k)
        BY <1>1, <1>4, <2>1, <2>2, <2>3 DEF Settled, Told
    <2>4. CASE ~Covers(wire[1], k)
        <3>1. \A h \in 1..n : ~Covers(wire[h], k)
            <4> TAKE h \in 1..n
            <4>1. h = 1 \/ h \in (1 + 1)..n
                BY <1>1
            <4>2. QED
                BY <2>1, <2>4, <4>1
        <3>2. QED
            BY <1>1, <1>4, <2>4, <3>1 DEF Settled, Told
    <2>5. QED
        BY <2>3, <2>4
<1>5. QED
    BY <1>3, <1>4 DEF Settled, Told

(* A write map is the one that the buffer was created with; what the user  *)
(* put in its open views, and in the staging for the others, is what the   *)
(* calls say. Without one the stream and the server hold it.               *)
Shows(v) == \A k \in 1..Size :
               In(k, v.range) => Told(k, v.bytes[k - v.range.lo])

Staged(k) == (\A v \in views : ~In(k, v.range)) => mapped.bytes[k] = told[k]

ContentInv ==
    /\ mapped.kind = "write" => last = 0 /\ held # NoRange /\ lost = {}
    /\ \A u, v \in views : u # v => Disjoint(u.range, v.range)
    /\ \A v \in views : v.kind = "write" <=> mapped.kind = "write"
    /\ mapped.kind = "write" => /\ \A v \in views : Shows(v)
                                /\ \A k \in 1..Size : Staged(k)
    /\ mapped.kind # "write" => \A k \in 1..Size : Settled(k)

LEMMA StepContent ==
    TypeInv /\ StreamInv /\ Fresh /\ ContentInv /\ [Next]_vars => ContentInv'
<1> SUFFICES ASSUME TypeInv, StreamInv, Fresh, ContentInv, [Next]_vars
             PROVE  ContentInv'
    OBVIOUS
<1>0. /\ WireOK /\ Size \in Nat \ {0} /\ MaxMaps \in Nat /\ Maps = 1..MaxMaps
      /\ mapped \in [kind : {"none", "read", "write"}, bytes : Bytes]
      /\ last \in 0..MaxMaps
      /\ told \in Bytes /\ Len(told) = Size
      /\ store \in Bytes /\ (store # <<>> => Len(store) = Size)
      /\ mapped.kind = "write" => Len(mapped.bytes) = Size
      /\ \A v \in views :
            /\ v \in View /\ v.range \in Ranges /\ v.bytes \in Bytes
            /\ Len(v.bytes) = v.range.hi - v.range.lo
            /\ v.range.lo \in Nat /\ v.range.hi \in Nat /\ v.range.hi <= Size
    BY MappedBufferAssumption
    DEF TypeInv, TypeOK, Sized, Maps, View, Ranges
(* Only the stream and the server move.                                    *)
<1>s. ASSUME UNCHANGED <<mapped, held, last, views, told, lost>>,
             \A k \in 1..Size : Settled(k) => Settled(k)'
      PROVE  ContentInv'
    BY <1>s DEF ContentInv, Shows, Staged, Told
<1>u. ASSUME UNCHANGED <<wire, store, told, lost>>
      PROVE  \A k \in 1..Size : Settled(k) => Settled(k)'
    BY <1>u DEF Settled, Told
(* An action that writes nothing is put at the end of the stream.          *)
<1>a. ASSUME NEW j \in Job, j.kind # "write", wire' = Append(wire, j),
             UNCHANGED <<store, told, lost>>
      PROVE  \A k \in 1..Size : Settled(k) => Settled(k)'
    <2> TAKE k \in 1..Size
    <2> HAVE Settled(k)
    <2>1. ~Covers(j, k)
        BY <1>a DEF Covers
    <2>2. QED
        BY <1>0, <1>a, <2>1, SettledGrows
<1>1. ASSUME NEW r \in Ranges, WriteBuffer(r) PROVE ContentInv'
    <2> DEFINE data == Fill(r, written')
               job == WriteJob(r, data)
    <2>1. /\ told' = Splice(told, r, data) /\ held = NoRange
          /\ UNCHANGED <<mapped, held, last, views, store>>
          /\ \/ wire' = Append(wire, job) /\ lost' = lost \ Cells(r)
             \/ wire' = wire /\ lost' = lost \cup Cells(r)
        BY <1>1, SendCases DEF WriteBuffer, taskVars
    <2>2. job \in Job
        <3>1. written' \in Values
            BY <1>1, MappedBufferAssumption
            DEF WriteBuffer, TypeInv, TypeOK, Values
        <3>2. QED
            BY <3>1, FillType DEF Job, WriteJob
    <2>3. mapped.kind # "write"
        BY <2>1 DEF ContentInv
    <2> HIDE DEF data
    <2>4. ASSUME NEW k \in 1..Size PROVE Settled(k)'
        <3>1. /\ In(k, r) => told'[k] = data[k - r.lo]
              /\ ~In(k, r) => told'[k] = told[k]
            BY <1>0, <2>1, SpliceAt
        <3>2. Settled(k)
            BY <2>3 DEF ContentInv
        <3>3. CASE wire' = Append(wire, job) /\ lost' = lost \ Cells(r)
            <4>1. Covers(job, k) <=> In(k, r)
                BY DEF Covers, WriteJob
            <4>2. /\ Covers(job, k) => k \in lost' \/ job.data[k - job.range.lo] = told'[k]
                  /\ ~Covers(job, k) => /\ Settled(k) /\ told'[k] = told[k]
                                        /\ k \in lost => k \in lost'
                BY <3>1, <3>2, <3>3, <4>1 DEF WriteJob, In
            <4>3. store' = store /\ wire' = Append(wire, job)
                BY <2>1, <3>3
            <4> HIDE DEF job
            <4>4. QED
                BY ONLY <1>0, <2>2, <4>2, <4>3, SettledGrows
        <3>4. CASE wire' = wire /\ lost' = lost \cup Cells(r)
            <4>1. CASE In(k, r)
                BY <3>4, <4>1, SettledLost DEF In
            <4>2. CASE ~In(k, r)
                BY <2>1, <3>1, <3>2, <3>4, <4>2, SettledStays
            <4>3. QED
                BY <4>1, <4>2
        <3>5. QED
            BY <2>1, <3>3, <3>4
    <2>5. QED
        BY <2>1, <2>3, <2>4 DEF ContentInv
<1>2. ASSUME NEW r \in Ranges, MapAsync(r) PROVE ContentInv'
    <2>1. /\ held = NoRange /\ UNCHANGED <<mapped, views, wire, store, told, lost>>
        BY <1>2 DEF MapAsync
    <2>2. mapped.kind # "write"
        BY <2>1 DEF ContentInv
    <2>3. QED
        BY <1>u, <2>1, <2>2 DEF ContentInv
<1>3. ASSUME NEW m \in Maps, Ask(m) PROVE ContentInv'
    <2>1. [kind |-> "map", id |-> m] \in Job
        BY DEF Job
    <2>2. QED
        BY <1>a, <1>s, <1>3, <2>1 DEF Ask
<1>4. ASSUME NEW m \in Maps, Keep(m) PROVE ContentInv'
    <2>1. /\ stage[m] = "answered" /\ mapped'.kind = "read"
          /\ UNCHANGED <<held, last, views, wire, store, told, lost>>
        BY <1>4 DEF Keep
    <2>2. last # 0
        BY <1>0, <2>1 DEF Fresh
    <2>3. mapped.kind # "write"
        BY <2>2 DEF ContentInv
    <2>4. QED
        BY <1>u, <2>1, <2>3 DEF ContentInv
<1>5. ASSUME NEW m \in Maps, Callback(m) PROVE ContentInv'
    <2>1. [kind |-> "destroy"] \in Job
        BY DEF Job
    <2>2. /\ wire' = Append(wire, [kind |-> "destroy"]) \/ wire' = wire
          /\ UNCHANGED <<mapped, held, last, views, store, told, lost>>
        BY <1>5 DEF Callback, Destroyed
    <2>3. QED
        BY <1>a, <1>u, <1>s, <2>1, <2>2
<1>6. ASSUME NEW r \in Ranges, GetMappedRange(r) PROVE ContentInv'
    <2>1. /\ \A v \in views : Disjoint(v.range, r)
          /\ UNCHANGED <<mapped, held, last, wire, store, told, lost>>
        BY <1>6 DEF GetMappedRange, taskVars
    <2>2. CASE views' = views
        BY <1>s, <1>u, <2>1, <2>2
    <2>3. CASE views' # views
        <3> DEFINE n == [kind  |-> mapped.kind, range |-> r,
                         bytes |-> Slice(mapped.bytes, r)]
        <3>1. views' = views \cup {n} /\ r.hi <= Len(mapped.bytes)
            BY <1>6, <2>3 DEF GetMappedRange
        <3>2. n.kind = mapped.kind /\ n.range = r
              /\ n.bytes = Slice(mapped.bytes, r)
            OBVIOUS
        <3> HIDE DEF n
        <3>3. \A v \in views : Disjoint(v.range, r) /\ Disjoint(r, v.range)
            BY <2>1 DEF Disjoint
        <3>4. \A u, v \in views' : u # v => Disjoint(u.range, v.range)
            BY <3>1, <3>2, <3>3 DEF ContentInv
        <3>5. \A v \in views' : v.kind = "write" <=> mapped'.kind = "write"
            BY <2>1, <3>1, <3>2 DEF ContentInv
        <3>6. ASSUME mapped.kind = "write"
              PROVE  (\A v \in views' : Shows(v)') /\ \A k \in 1..Size : Staged(k)'
            <4>1. ASSUME NEW k \in 1..Size, In(k, r)
                  PROVE  n.bytes[k - r.lo] = told[k]
                <5>1. \A v \in views : ~In(k, v.range)
                    BY <1>0, <3>3, <4>1, DisjointCells
                <5>2. mapped.bytes[k] = told[k]
                    BY <3>6, <5>1 DEF ContentInv, Staged
                <5>3. Slice(mapped.bytes, r)[k - r.lo] = mapped.bytes[k]
                    BY <1>0, <3>1, <4>1, SliceAt
                <5>4. QED
                    BY <3>2, <5>2, <5>3
            <4>2. \A v \in views' : Shows(v)'
                BY <2>1, <3>1, <3>2, <3>6, <4>1 DEF ContentInv, Shows, Told
            <4>3. \A k \in 1..Size : Staged(k)'
                BY <2>1, <3>1, <3>6 DEF ContentInv, Staged
            <4>4. QED
                BY <4>2, <4>3
        <3>7. QED
            BY <1>u, <2>1, <3>4, <3>5, <3>6 DEF ContentInv
    <2>4. QED
        BY <2>2, <2>3
<1>7. ASSUME NEW v \in views, FillView(v) PROVE ContentInv'
    <2> DEFINE data == Fill(v.range, written')
               n == [v EXCEPT !.bytes = data]
    <2>1. /\ v.kind = "write"
          /\ views' = (views \ {v}) \cup {n}
          /\ told' = Splice(told, v.range, data)
          /\ UNCHANGED <<mapped, held, last, wire, store, lost>>
        BY <1>7 DEF FillView, taskVars
    <2>2. n.kind = "write" /\ n.range = v.range /\ n.bytes = data
        BY <1>0, <2>1 DEF View
    <2> HIDE DEF n, data
    <2>3. mapped.kind = "write"
        BY <2>1 DEF ContentInv
    <2>4. ASSUME NEW k \in 1..Size
          PROVE  /\ In(k, v.range) => told'[k] = data[k - v.range.lo]
                 /\ ~In(k, v.range) => told'[k] = told[k]
        BY <1>0, <2>1, SpliceAt
    <2>5. \A u \in views \ {v} : /\ Disjoint(u.range, v.range)
                                /\ Disjoint(v.range, u.range)
        BY DEF ContentInv
    <2>6. \A t, u \in views' : t # u => Disjoint(t.range, u.range)
        BY <2>1, <2>2, <2>5 DEF ContentInv
    <2>7. ASSUME NEW u \in views' PROVE Shows(u)'
        <3>1. CASE u = n
            BY <2>2, <2>4, <3>1 DEF Shows, Told
        <3>2. CASE u \in views \ {v}
            <4>1. Shows(u)
                BY <2>3, <3>2 DEF ContentInv
            <4>2. \A k \in 1..Size : In(k, u.range) => ~In(k, v.range)
                BY <1>0, <2>5, <3>2, DisjointCells
            <4>3. QED
                BY <2>1, <2>4, <4>1, <4>2 DEF Shows, Told
        <3>3. QED
            BY <2>1, <3>1, <3>2
    <2>8. ASSUME NEW k \in 1..Size, \A u \in views' : ~In(k, u.range)
          PROVE  mapped'.bytes[k] = told'[k]
        <3>1. ~In(k, v.range) /\ \A u \in views : ~In(k, u.range)
            BY <2>1, <2>2, <2>8
        <3>2. QED
            BY <2>1, <2>3, <2>4, <3>1 DEF ContentInv, Staged
    <2>9. QED
        BY <2>1, <2>2, <2>3, <2>6, <2>7, <2>8 DEF ContentInv, Staged
<1>8. ASSUME NEW v \in views, DropView(v) PROVE ContentInv'
    <2>1. /\ views' = views \ {v}
          /\ UNCHANGED <<held, last, wire, store, told, lost>>
        BY <1>8 DEF DropView, taskVars
    <2>2. CASE mapped.kind # "write"
        <3>1. mapped' = mapped
            BY <1>8, <2>2 DEF DropView
        <3>2. QED
            BY <1>u, <2>1, <2>2, <3>1 DEF ContentInv
    <2>3. CASE mapped.kind = "write"
        <3>1. v.kind = "write" /\ Shows(v)
            BY <2>3 DEF ContentInv
        <3>2. v.range.lo + Len(v.bytes) <= Len(mapped.bytes)
            BY <1>0, <2>3
        <3>3. /\ mapped'.kind = "write"
              /\ mapped'.bytes = Splice(mapped.bytes, v.range, v.bytes)
            BY <1>0, <1>8, <2>3, <3>1, <3>2 DEF DropView
        <3>4. ASSUME NEW k \in 1..Size, \A u \in views' : ~In(k, u.range)
              PROVE  mapped'.bytes[k] = told'[k]
            <4>1. CASE In(k, v.range)
                BY <1>0, <2>1, <2>3, <3>1, <3>3, <4>1, SpliceAt
                DEF ContentInv, Shows, Told
            <4>2. CASE ~In(k, v.range)
                <5>1. \A u \in views : ~In(k, u.range)
                    BY <2>1, <3>4, <4>2
                <5>2. mapped.bytes[k] = told[k]
                    BY <2>3, <5>1 DEF ContentInv, Staged
                <5>3. QED
                    BY <1>0, <2>1, <2>3, <3>3, <4>2, <5>2, SpliceAt
            <4>3. QED
                BY <4>1, <4>2
        <3>5. QED
            BY <2>1, <2>3, <3>3, <3>4 DEF ContentInv, Shows, Staged, Told
    <2>4. QED
        BY <2>2, <2>3
<1>9. ASSUME Unmap PROVE ContentInv'
    <2> DEFINE r == [lo |-> 0, hi |-> Len(mapped.bytes)]
               job == WriteJob(r, mapped.bytes)
    <2>1. /\ views = {} /\ mapped' = Unmapped /\ held' = NoRange
          /\ UNCHANGED <<last, views, store, told>>
          /\ mapped.kind # "write" => UNCHANGED <<wire, lost>>
          /\ mapped.kind = "write" =>
                \/ wire' = Append(wire, job) /\ lost' = lost \ Cells(r)
                \/ wire' = wire /\ lost' = lost \cup Cells(r)
        BY <1>9, SendCases DEF Unmap, taskVars
    <2>2. mapped'.kind = "none"
        BY <2>1 DEF Unmapped
    <2>3. ASSUME NEW k \in 1..Size, mapped.kind = "write" PROVE Settled(k)'
        <3>1. store' = store /\ told' = told
            BY <2>1
        <3>2. job \in Job
            BY <1>0, <2>3 DEF Job, Ranges, WriteJob
        <3>3. Covers(job, k) /\ k \in Cells(r)
            BY <1>0, <2>3 DEF Covers, In, Cells, WriteJob
        <3>4. mapped.bytes[k] = told[k]
            BY <2>1, <2>3 DEF ContentInv, Staged
        <3>5. job.data[k - job.range.lo] = told'[k]
            BY <2>1, <3>4 DEF WriteJob
        <3>6. CASE wire' = Append(wire, job)
            <4> HIDE DEF job
            <4>1. QED
                BY ONLY <1>0, <3>1, <3>2, <3>3, <3>5, <3>6, SettledGrows
        <3>7. CASE lost' = lost \cup Cells(r)
            BY <3>3, <3>7, SettledLost
        <3>8. QED
            BY <2>1, <2>3, <3>6, <3>7
    <2>4. ASSUME NEW k \in 1..Size, mapped.kind # "write" PROVE Settled(k)'
        BY <1>u, <2>1, <2>4 DEF ContentInv
    <2>5. QED
        BY <2>1, <2>2, <2>3, <2>4 DEF ContentInv
<1>10. ASSUME DropHandle PROVE ContentInv'
    <2>1. [kind |-> "destroy"] \in Job
        BY DEF Job
    <2>2. /\ wire' = Append(wire, [kind |-> "destroy"]) \/ wire' = wire
          /\ UNCHANGED <<mapped, held, last, views, store, told, lost>>
        BY <1>10 DEF DropHandle, Destroyed, taskVars
    <2>3. QED
        BY <1>a, <1>u, <1>s, <2>1, <2>2
<1>11. ASSUME ServeWrite PROVE ContentInv'
    <2> DEFINE j == Head(wire)
    <2>1. /\ wire # <<>> /\ wire' = Tail(wire) /\ j.kind = "write"
          /\ UNCHANGED <<mapped, held, last, views, told, lost>>
        BY <1>11 DEF ServeWrite, taskVars
    <2>2. store # <<>>
        BY <2>1 DEF StreamInv
    <2>3. store' = Splice(store, j.range, j.data)
        BY <1>11, <2>2 DEF ServeWrite
    <2> HIDE DEF j
    <2>4. ASSUME NEW k \in 1..Size
          PROVE  /\ Covers(j, k) => store'[k] = j.data[k - j.range.lo]
                 /\ ~Covers(j, k) => store'[k] = store[k]
        <3>1. k \in 1..Len(store)
            BY <1>0, <2>2
        <3>2. /\ In(k, j.range) => Splice(store, j.range, j.data)[k]
                                      = j.data[k - j.range.lo]
              /\ ~In(k, j.range) => Splice(store, j.range, j.data)[k] = store[k]
            BY ONLY <3>1, SpliceAt
        <3>3. QED
            BY <2>1, <2>3, <3>2 DEF Covers
    <2>5. \A k \in 1..Size : Settled(k) => Settled(k)'
        <3> TAKE k \in 1..Size
        <3> HAVE Settled(k)
        <3>1. QED
            BY <1>0, <2>1, <2>2, <2>4, SettledShrinks DEF j
    <2>6. QED
        BY <1>s, <2>1, <2>5
<1>12. ASSUME ServeMap \/ ServeDestroy PROVE ContentInv'
    <2>1. /\ wire # <<>> /\ wire' = Tail(wire) /\ Head(wire).kind # "write"
          /\ store' = store \/ store' = <<>>
          /\ UNCHANGED <<mapped, held, last, views, told, lost>>
        BY <1>12 DEF ServeMap, ServeDestroy, taskVars
    <2>2. \A k \in 1..Size : Settled(k) => Settled(k)'
        <3> TAKE k \in 1..Size
        <3> HAVE Settled(k)
        <3>1. ~Covers(Head(wire), k)
            BY <2>1 DEF Covers
        <3>2. QED
            BY <1>0, <2>1, <3>1, SettledShrinks
    <2>3. QED
        BY <1>s, <2>1, <2>2
<1>13. CASE UNCHANGED vars
    BY <1>s, <1>u, <1>13 DEF vars, taskVars
<1>14. QED
    BY <1>1, <1>2, <1>3, <1>4, <1>5, <1>6, <1>7, <1>8, <1>9, <1>10, <1>11,
       <1>12, <1>13 DEF Next, Task, Server

LEMMA ContentCorrect == Spec => []ContentInv
<1>1. Init => ContentInv
    <2> SUFFICES ASSUME Init PROVE ContentInv
        OBVIOUS
    <2>1. /\ views = {} /\ wire = <<>> /\ store = Zeros /\ told = Zeros
          /\ lost = {}
          /\ mapped.kind # "write"
             \/ (mapped.bytes = Zeros /\ last = 0 /\ held # NoRange)
        BY MappedBufferAssumption DEF Init, Unmapped, NoRange
    <2>2. \A k \in 1..Size : Settled(k)
        BY <2>1 DEF Settled, Told
    <2>3. QED
        BY <2>1, <2>2 DEF ContentInv, Staged
<1>2. TypeInv /\ StreamInv /\ Fresh /\ ContentInv /\ [Next]_vars => ContentInv'
    BY StepContent
<1>3. QED
    BY <1>1, <1>2, StreamCorrect, PTL DEF Spec

(* Nothing that the user wrote in a frame is lost or overtaken, in a map   *)
(* or out of one: when the stream has drained the server holds what the    *)
(* calls say, but for cells whose latest write was too large for a frame.  *)
(* That needs neither a patient user nor maps from offset 0.               *)
THEOREM StoreCorrect == Spec => []StoreCatchesUp
<1>1. ASSUME TypeInv, ContentInv PROVE StoreCatchesUp
    <2> SUFFICES ASSUME wire = <<>>, held = NoRange, store # <<>>,
                        NEW k \in (1..Size) \ lost
                 PROVE  store[k] = told[k]
        BY DEF StoreCatchesUp
    <2>1. mapped.kind # "write" /\ Len(wire) = 0
        BY <1>1 DEF ContentInv
    <2>2. QED
        BY <1>1, <2>1 DEF ContentInv, Settled, Told
<1>2. QED
    BY <1>1, ContentCorrect, StreamCorrect, PTL
-----------------------------------------------------------------------------
(* The views of a patient user who maps from offset 0.                     *)

(* What a read map fetched is what the user's calls say of its range.      *)
Fetched(b) == Len(b) = held.hi /\ \A k \in 1..held.hi : Told(k, b[k])

(* No write is under way behind a map: the buffer is held meanwhile.       *)
MapsLast == \A i, h \in 1..Len(wire) :
               i < h /\ wire[i].kind = "map" => wire[h].kind # "write"

ViewInv ==
    /\ ~panicked
    /\ held = NoRange => views = {}
    /\ held # NoRange /\ last # 0 => held = asked[last] /\ held.lo = 0
    /\ mapped.kind = "read" => Fetched(mapped.bytes)
    /\ \A m \in Maps : stage[m] = "answered" => Fetched(fetched[m])
    /\ \A v \in views : Shows(v)
    /\ MapsLast

(* An unmapped buffer, and one mapped since its creation, have no tasks.   *)
LEMMA NoTasks ==
    ASSUME TypeInv, StreamInv, Fresh, SlotInv, held = NoRange \/ last = 0
    PROVE  /\ \A m \in Maps : ~Running(m)
           /\ \A i \in 1..Len(wire) : wire[i].kind # "map"
<1>1. \A m \in Maps : ~Running(m)
    BY MappedBufferAssumption
    DEF TypeInv, TypeOK, Fresh, SlotInv, Running, Maps
<1>2. ASSUME NEW i \in 1..Len(wire), wire[i].kind = "map" PROVE FALSE
    <2>1. wire[i].id \in Maps
        BY <1>2 DEF TypeInv, Sized, WireOK, Job
    <2>2. stage[wire[i].id] = "sent"
        BY <1>2 DEF StreamInv
    <2>3. QED
        BY <1>1, <2>1, <2>2 DEF Running
<1>3. QED
    BY <1>1, <1>2

LEMMA StepView ==
    ASSUME PatientUnmap, WholeMaps
    PROVE  TypeInv /\ StreamInv /\ Fresh /\ SlotInv /\ ContentInv /\ ViewInv
           /\ [Next]_vars => ViewInv'
<1> SUFFICES ASSUME TypeInv, StreamInv, Fresh, SlotInv, ContentInv, ViewInv,
                    [Next]_vars
             PROVE  ViewInv'
    OBVIOUS
<1>0. /\ WireOK /\ Size \in Nat \ {0} /\ MaxMaps \in Nat /\ Maps = 1..MaxMaps
      /\ mapped \in [kind : {"none", "read", "write"}, bytes : Bytes]
      /\ stage \in [Maps -> {"unused", "spawned", "sent", "answered", "failed",
                             "stored", "ok", "err"}]
      /\ asked \in [Maps -> Ranges \cup {NoRange}]
      /\ fetched \in [Maps -> Bytes]
      /\ last \in 0..MaxMaps /\ held \in Ranges \cup {NoRange}
      /\ mapped.kind = "write" => Len(mapped.bytes) = Size
      /\ \A r \in Ranges : r.lo \in Nat /\ r.hi \in Nat /\ r.hi <= Size
    BY MappedBufferAssumption DEF TypeInv, TypeOK, Sized, Maps, Ranges
<1>c. ContentInv'
    BY StepContent
(* Only the stream moves: from its front, or at its end by no write, or by *)
(* one with no map before it.                                              *)
<1>s. ASSUME UNCHANGED <<panicked, held, views, last, asked, mapped, told, lost>>,
             \A m \in Maps : stage'[m] = "answered" =>
                                stage[m] = "answered" /\ fetched'[m] = fetched[m],
             MapsLast'
      PROVE  ViewInv'
    BY <1>s DEF ViewInv, Fetched, Shows, Told
<1>u. ASSUME UNCHANGED wire PROVE MapsLast'
    BY <1>u DEF ViewInv, MapsLast
<1>a. ASSUME NEW j \in Job, wire' = Append(wire, j),
             j.kind # "write" \/ \A i \in 1..Len(wire) : wire[i].kind # "map"
      PROVE  MapsLast'
    <2>1. /\ Len(wire') = Len(wire) + 1 /\ Len(wire) \in Nat
          /\ \A i \in 1..Len(wire) : wire'[i] = wire[i]
          /\ wire'[Len(wire) + 1] = j
        BY <1>0, <1>a, AppendFacts DEF WireOK
    <2> SUFFICES ASSUME NEW i \in 1..Len(wire'), NEW h \in 1..Len(wire'),
                        i < h, wire'[i].kind = "map"
                 PROVE  wire'[h].kind # "write"
        BY DEF MapsLast
    <2>2. i \in 1..Len(wire) /\ wire[i].kind = "map"
        BY <2>1
    <2>3. CASE h = Len(wire) + 1
        BY <1>a, <2>1, <2>2, <2>3
    <2>4. CASE h \in 1..Len(wire)
        BY <2>1, <2>2, <2>4 DEF ViewInv, MapsLast
    <2>5. QED
        BY <2>1, <2>3, <2>4
<1>t. ASSUME wire # <<>>, wire' = Tail(wire) PROVE MapsLast'
    <2>1. /\ Len(wire') = Len(wire) - 1 /\ Len(wire) \in Nat
          /\ \A i \in 1..Len(wire') : wire'[i] = wire[i + 1]
        BY <1>0, <1>t, TailFacts DEF WireOK
    <2> SUFFICES ASSUME NEW i \in 1..Len(wire'), NEW h \in 1..Len(wire'),
                        i < h, wire'[i].kind = "map"
                 PROVE  wire'[h].kind # "write"
        BY DEF MapsLast
    <2>2. /\ i + 1 \in 1..Len(wire) /\ h + 1 \in 1..Len(wire)
          /\ i + 1 < h + 1
        BY <2>1
    <2>3. QED
        BY <2>1, <2>2 DEF ViewInv, MapsLast
<1>d. [kind |-> "destroy"] \in Job
    BY DEF Job
<1>1. ASSUME NEW r \in Ranges, WriteBuffer(r) PROVE ViewInv'
    <2> DEFINE job == WriteJob(r, Fill(r, written'))
    <2>1. /\ held = NoRange /\ wire' \in {Append(wire, job), wire}
          /\ UNCHANGED <<mapped, held, views, last, asked, stage, fetched,
                         panicked>>
        BY <1>1, SendCases DEF WriteBuffer, taskVars
    <2>2. job \in Job
        <3>1. written' \in Values
            BY <1>1, MappedBufferAssumption
            DEF WriteBuffer, TypeInv, TypeOK, Values
        <3>2. QED
            BY <3>1, FillType DEF Job, WriteJob
    <2>3. /\ \A m \in Maps : ~Running(m)
          /\ \A i \in 1..Len(wire) : wire[i].kind # "map"
        BY <2>1, NoTasks
    <2>4. MapsLast'
        <3> HIDE DEF job
        <3>1. QED
            BY <1>a, <1>u, <2>1, <2>2, <2>3
    <2>5. mapped.kind = "none" /\ views = {}
        BY <1>0, <2>1 DEF SlotInv, ViewInv
    <2>6. \A m \in Maps : stage[m] # "answered"
        BY <2>3 DEF Running
    <2>7. QED
        BY <2>1, <2>4, <2>5, <2>6 DEF ViewInv
<1>2. ASSUME NEW r \in Ranges, MapAsync(r) PROVE ViewInv'
    <2>1. /\ held = NoRange /\ held' = r /\ r.lo = 0
          /\ last' = last + 1 /\ last' \in Maps
          /\ stage' = [stage EXCEPT ![last'] = "spawned"]
          /\ asked' = [asked EXCEPT ![last'] = r]
          /\ UNCHANGED <<mapped, fetched, views, wire, told, lost,
                         panicked>>
        BY <1>0, <1>2 DEF MapAsync
    <2>2. mapped.kind = "none" /\ views = {} /\ \A m \in Maps : ~Running(m)
        BY <1>0, <2>1, NoTasks DEF SlotInv, ViewInv
    <2>3. \A m \in Maps : stage'[m] # "answered"
        BY <1>0, <2>1, <2>2 DEF Running
    <2>4. held' = asked'[last'] /\ held'.lo = 0
        BY <1>0, <2>1
    <2>5. QED
        BY <1>u, <2>1, <2>2, <2>3, <2>4 DEF ViewInv
<1>3. ASSUME NEW m \in Maps, Ask(m) PROVE ViewInv'
    <2>1. [kind |-> "map", id |-> m] \in Job
        BY DEF Job
    <2>2. /\ wire' = Append(wire, [kind |-> "map", id |-> m])
          /\ stage' = [stage EXCEPT ![m] = "sent"]
          /\ UNCHANGED <<panicked, held, views, last, asked, mapped, told, lost,
                         fetched>>
        BY <1>3 DEF Ask
    <2>3. MapsLast'
        BY <1>a, <2>1, <2>2
    <2>4. QED
        BY <1>0, <1>s, <2>2, <2>3
<1>4. ASSUME NEW m \in Maps, Keep(m) PROVE ViewInv'
    <2>1. /\ stage[m] = "answered"
          /\ mapped' = [kind |-> "read", bytes |-> fetched[m]]
          /\ stage' = [stage EXCEPT ![m] = "stored"]
          /\ UNCHANGED <<panicked, held, views, last, asked, wire, told, lost,
                         fetched>>
        BY <1>4 DEF Keep
    <2>2. Fetched(fetched[m])
        BY <2>1 DEF ViewInv
    <2>3. Fetched(mapped.bytes)'
        BY <2>1, <2>2 DEF Fetched, Told
    <2>4. \A n \in Maps : stage'[n] = "answered" => Fetched(fetched[n])'
        BY <1>0, <2>1 DEF ViewInv, Fetched, Told
    <2>5. \A v \in views' : Shows(v)'
        BY <2>1 DEF ViewInv, Shows, Told
    <2>6. QED
        BY <1>u, <2>1, <2>3, <2>4, <2>5 DEF ViewInv
<1>5. ASSUME NEW m \in Maps, Callback(m) PROVE ViewInv'
    <2>1. /\ wire' = Append(wire, [kind |-> "destroy"]) \/ wire' = wire
          /\ stage' = [stage EXCEPT ![m] = IF @ = "stored" THEN "ok" ELSE "err"]
          /\ UNCHANGED <<panicked, held, views, last, asked, mapped, told, lost,
                         fetched>>
        BY <1>5 DEF Callback, Destroyed
    <2>2. MapsLast'
        BY <1>a, <1>d, <1>u, <2>1
    <2>3. QED
        BY <1>0, <1>s, <2>1, <2>2
<1>6. ASSUME NEW r \in Ranges, GetMappedRange(r) PROVE ViewInv'
    <2>1. /\ Granted /\ held.lo <= r.lo /\ r.hi <= held.hi /\ held # NoRange
          /\ UNCHANGED <<mapped, held, last, asked, stage, fetched, wire, told, lost>>
        BY <1>6 DEF GetMappedRange, Granted, taskVars
    <2>2. mapped.kind \in {"read", "write"}
        <3>1. CASE last = 0
            BY <2>1, <3>1 DEF SlotInv
        <3>2. CASE last # 0
            BY <1>0, <2>1, <3>2 DEF SlotInv, Granted
        <3>3. QED
            BY <3>1, <3>2
    <2>3. r.hi <= Len(mapped.bytes)
        <3>1. CASE mapped.kind = "write"
            BY <1>0, <3>1
        <3>2. CASE mapped.kind = "read"
            BY <2>1, <3>2 DEF ViewInv, Fetched, Told
        <3>3. QED
            BY <2>2, <3>1, <3>2
    <2> DEFINE n == [kind  |-> mapped.kind, range |-> r,
                     bytes |-> Slice(mapped.bytes, r)]
    <2>4. /\ views' = views \cup {n} /\ panicked' = panicked
        BY <1>6, <2>2, <2>3 DEF GetMappedRange
    <2>5. n.range = r /\ n.bytes = Slice(mapped.bytes, r)
        OBVIOUS
    <2> HIDE DEF n
    <2>6. \A v \in views' : Shows(v)'
        <3>1. CASE mapped.kind = "write"
            BY <1>c, <2>1, <3>1 DEF ContentInv
        <3>2. CASE mapped.kind = "read"
            <4>1. ASSUME NEW k \in 1..Size, In(k, r)
                  PROVE  Told(k, n.bytes[k - r.lo])
                <5>1. n.bytes[k - r.lo] = mapped.bytes[k]
                    BY <1>0, <2>3, <2>5, <4>1, SliceAt
                <5>2. k \in 1..held.hi
                    <6>1. held \in Ranges
                        BY <1>0, <2>1
                    <6>2. held.hi \in Nat /\ r.hi \in Nat /\ k <= r.hi
                        BY <1>0, <4>1, <6>1 DEF In, Cells
                    <6>3. QED
                        BY <2>1, <6>2
                <5>3. QED
                    BY <3>2, <5>1, <5>2 DEF ViewInv, Fetched, Told
            <4>2. QED
                BY <2>1, <2>4, <2>5, <4>1 DEF ViewInv, Shows, Told
        <3>3. QED
            BY <2>2, <3>1, <3>2
    <2>7. QED
        BY <1>u, <2>1, <2>4, <2>6 DEF ViewInv, Fetched, Told
<1>7. ASSUME NEW v \in views, FillView(v) PROVE ViewInv'
    <2>1. /\ v.kind = "write" /\ views # {}
          /\ UNCHANGED <<mapped, held, last, asked, stage, fetched, wire,
                         panicked>>
        BY <1>7 DEF FillView, taskVars
    <2>2. mapped.kind = "write" /\ last = 0
        BY <2>1 DEF ContentInv
    <2>3. \A u \in views' : Shows(u)'
        BY <1>c, <2>1, <2>2 DEF ContentInv
    <2>4. \A m \in Maps : stage[m] # "answered"
        BY <2>2, NoTasks DEF Running
    <2>5. QED
        BY <1>u, <2>1, <2>2, <2>3, <2>4 DEF ViewInv
<1>8. ASSUME NEW v \in views, DropView(v) PROVE ViewInv'
    <2>1. /\ views' = views \ {v}
          /\ mapped' = mapped \/ (mapped.kind = "write" /\ mapped'.kind = "write")
          /\ UNCHANGED <<held, last, asked, stage, fetched, wire, told, lost,
                         panicked>>
        BY <1>0, <1>8 DEF DropView, taskVars
    <2>2. QED
        BY <1>u, <2>1 DEF ViewInv, Fetched, Shows, Told
<1>9. ASSUME Unmap PROVE ViewInv'
    <2> DEFINE job == WriteJob([lo |-> 0, hi |-> Len(mapped.bytes)], mapped.bytes)
    <2>1. /\ views = {} /\ held' = NoRange /\ mapped'.kind = "none"
          /\ last # 0 => ~Running(last)
          /\ UNCHANGED <<last, asked, stage, fetched, views, told, panicked>>
          /\ \/ wire' = wire
             \/ mapped.kind = "write" /\ wire' = Append(wire, job)
        BY <1>9, SendCases DEF Unmap, Unmapped, taskVars
    <2>2. MapsLast'
        <3>1. CASE mapped.kind = "write" /\ wire' = Append(wire, job)
            <4>1. job \in Job
                BY <1>0, <3>1 DEF Job, Ranges, WriteJob
            <4>2. \A i \in 1..Len(wire) : wire[i].kind # "map"
                BY <3>1, NoTasks DEF ContentInv
            <4>3. wire' = Append(wire, job)
                BY <2>1, <3>1
            <4> HIDE DEF job
            <4>4. QED
                BY <1>a, <4>1, <4>2, <4>3
        <3>2. CASE wire' = wire
            BY <1>u, <3>2
        <3>3. QED
            BY <2>1, <3>1, <3>2
    <2>3. \A m \in Maps : stage'[m] # "answered"
        BY <1>0, <2>1 DEF SlotInv, Running
    <2>4. QED
        BY <2>1, <2>2, <2>3 DEF ViewInv
<1>10. ASSUME DropHandle PROVE ViewInv'
    <2>1. /\ wire' = Append(wire, [kind |-> "destroy"]) \/ wire' = wire
          /\ UNCHANGED <<panicked, held, views, last, asked, mapped, told, lost,
                         stage, fetched>>
        BY <1>10 DEF DropHandle, Destroyed, taskVars
    <2>2. MapsLast'
        BY <1>a, <1>d, <1>u, <2>1
    <2>3. QED
        BY <1>s, <2>1, <2>2
<1>11. ASSUME ServeWrite \/ ServeDestroy PROVE ViewInv'
    <2>1. /\ wire # <<>> /\ wire' = Tail(wire)
          /\ UNCHANGED <<panicked, held, views, last, asked, mapped, told, lost,
                         stage, fetched>>
        BY <1>11 DEF ServeWrite, ServeDestroy, taskVars
    <2>2. QED
        BY <1>s, <1>t, <2>1
<1>12. ASSUME ServeMap PROVE ViewInv'
    <2> DEFINE m == Head(wire).id
    <2>1. /\ wire # <<>> /\ wire' = Tail(wire) /\ Head(wire).kind = "map"
          /\ UNCHANGED <<panicked, held, views, last, asked, mapped, told, lost>>
        BY <1>12 DEF ServeMap
    <2>2. m \in Maps /\ stage[m] = "sent"
        BY <1>12, ServedMapIsSent
    <2>3. m = last /\ held # NoRange /\ last # 0
        BY <1>0, <2>2 DEF SlotInv, Running
    <2>4. held = asked[m] /\ held.lo = 0 /\ held \in Ranges
        BY <1>0, <2>3 DEF ViewInv
    <2>5. MapsLast'
        BY <1>t, <2>1
    <2>6. store # <<>> /\ Len(store) = Size /\ store \in Bytes
        BY <2>1 DEF StreamInv, TypeInv, TypeOK, Sized
    <2>7. \A k \in 1..Size : Told(k, store[k])
        <3>1. Head(wire) = wire[1] /\ Len(wire) \in Nat \ {0}
            BY <1>0, <2>1, TailFacts DEF WireOK
        <3>2. ASSUME NEW i \in 1..Len(wire) PROVE wire[i].kind # "write"
            <4>1. 1 \in 1..Len(wire) /\ (i = 1 \/ 1 < i)
                BY <3>1
            <4>2. QED
                BY <2>1, <3>1, <4>1 DEF ViewInv, MapsLast
        <3>3. mapped.kind # "write"
            BY <2>3 DEF ContentInv
        <3>4. QED
            BY <2>6, <3>2, <3>3 DEF ContentInv, Settled, Told, Covers
    <2> DEFINE s == Slice(store, held)
    <2>8. Fetched(s)
        <3>1. held.hi \in Nat /\ held.hi <= Len(store)
            BY <1>0, <2>4, <2>6
        <3>2. Len(s) = held.hi
            <4>1. Len(s) = held.hi - held.lo
                BY <2>4, <2>6, <3>1, SliceType
            <4>2. QED
                BY <2>4, <3>1, <4>1
        <3>3. ASSUME NEW k \in 1..held.hi PROVE Told(k, s[k])
            <4>1. In(k, held) /\ k - held.lo = k /\ k \in 1..Size
                BY <2>4, <2>6, <3>1 DEF In, Cells
            <4>2. s[k - held.lo] = store[k]
                BY <2>4, <2>6, <3>1, <4>1, SliceAt
            <4>3. QED
                BY <2>7, <4>1, <4>2
        <3>4. QED
            BY <3>2, <3>3 DEF Fetched, Told
    <2>9. \A n \in Maps : stage'[n] = "answered" => Fetched(fetched'[n])
        <3>1. \/ /\ stage' = [stage EXCEPT ![m] = "answered"]
                 /\ fetched' = [fetched EXCEPT ![m] = s]
              \/ /\ stage' = [stage EXCEPT ![m] = "failed"]
                 /\ fetched' = fetched
            BY <1>12, <2>4 DEF ServeMap
        <3> HIDE DEF s, m
        <3>2. QED
            BY <1>0, <2>2, <2>8, <3>1 DEF ViewInv
    <2>10. QED
        BY <2>1, <2>5, <2>9 DEF ViewInv, Fetched, Shows, Told
<1>13. CASE UNCHANGED vars
    BY <1>s, <1>u, <1>13 DEF vars, taskVars
<1>14. QED
    BY <1>1, <1>2, <1>3, <1>4, <1>5, <1>6, <1>7, <1>8, <1>9, <1>10, <1>11,
       <1>12, <1>13 DEF Next, Task, Server

(* get_mapped_range finds the map's bytes, and a view shows what the calls *)
(* of the user say of the range it asked for, true of every buffer whose   *)
(* user maps from offset 0 (a read map slices what it fetched from the     *)
(* start of the buffer) and waits for a map's callback before it unmaps.   *)
THEOREM ViewCorrect ==
    ASSUME PatientUnmap, WholeMaps
    PROVE  Spec => []ViewShowsBuffer
<1>1. Init => ViewInv
    BY MappedBufferAssumption
    DEF Init, ViewInv, MapsLast, Unmapped, NoRange, Maps
<1>2. TypeInv /\ StreamInv /\ Fresh /\ SlotInv /\ ContentInv /\ ViewInv
      /\ [Next]_vars => ViewInv'
    BY StepView
<1>3. ASSUME TypeInv, ViewInv PROVE ViewShowsBuffer
    <2> SUFFICES ASSUME NEW v \in views
                 PROVE  /\ Len(v.bytes) = v.range.hi - v.range.lo
                        /\ \A k \in Cells(v.range) \ lost :
                              v.bytes[k - v.range.lo] = told[k]
        BY <1>3 DEF ViewShowsBuffer, ViewInv
    <2>1. v.range \in Ranges /\ Len(v.bytes) = v.range.hi - v.range.lo
        BY <1>3 DEF TypeInv, TypeOK, Sized, View
    <2>2. Cells(v.range) \subseteq 1..Size
        BY <2>1, MappedBufferAssumption DEF Cells, Ranges
    <2>3. QED
        BY <1>3, <2>1, <2>2 DEF ViewInv, Shows, Told, In
<1>4. Spec => []SlotInv
    BY SlotCorrect
<1>5. QED
    BY <1>1, <1>2, <1>3, <1>4, StreamCorrect, ContentCorrect, PTL DEF Spec
=============================================================================
