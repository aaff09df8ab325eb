------------------------------- MODULE Framing -------------------------------
(***************************************************************************)
(* Frames over a stream of bytes, in one direction (protocol/codec.rs,     *)
(* transport/mod.rs): the sender is the writer task of a client's Mux, or  *)
(* the handler of a stream that answers it (server/handler.rs); the        *)
(* receiver is the handler, or the reader task. Or the other end is not    *)
(* this code at all, and any bytes come.                                   *)
(*                                                                         *)
(* A frame is the length of its body in four bytes, the most significant   *)
(* first, and the body. The stream takes and gives bytes a few at a time.  *)
(* It is finished when its sending half is dropped, even in the middle of  *)
(* a frame, and a connection can be lost with bytes on their way. The      *)
(* encoding of a value in a body, and flush, which does nothing here, are  *)
(* left out.                                                               *)
(***************************************************************************)
EXTENDS Naturals, Sequences

CONSTANTS
    Base,       (* how many values a byte has: 256                         *)
    MaxBody,    (* MAX_FRAME_BYTES                                         *)
    Window,     (* bytes that may be on their way at a time                *)
    Bodies,     (* bodies of the values that are sent                      *)
    Junk,       (* bodies that no value encodes to                         *)
    MaxFrames,  (* bound: how many values are offered                      *)
    MaxForeign  (* bound: how many bytes a foreign sender writes           *)

Bytes == 0..(Base - 1)

ASSUME FramingAssumption ==
    /\ Base \in Nat \ {0, 1} /\ Window \in Nat \ {0}
    /\ MaxBody \in Nat /\ MaxBody < Base * (Base * (Base * Base))
    /\ Bodies \subseteq Seq(Bytes) /\ Bodies \cap Junk = {}
    /\ MaxFrames \in Nat /\ MaxForeign \in Nat

VARIABLES
    role,       (* the sender: a "client", a "server", or "foreign"        *)
    inbox,      (* encoded frames that await the writer                    *)
    rest,       (* what write_all has still to write of its frame          *)
    sender,     (* "run" until the writer or the handler has ended         *)
    wire,       (* bytes on their way                                      *)
    stream,     (* "open", "fin" (finished) or "cut" (lost)                *)
    buf,        (* what read_frame has read of its frame                   *)
    receiver,   (* "run" until its loop has ended                          *)
    offered,    (* how many values were offered                            *)
    accepted,   (* history: bodies of the frames accepted for sending      *)
    got,        (* history: bodies of the frames received                  *)
    written,    (* history: all bytes the stream took                      *)
    ends        (* history: how many bytes were read when each was received *)

vars == <<role, inbox, rest, sender, wire, stream, buf, receiver, offered,
          accepted, got, written, ends>>

Ours == role # "foreign"

Init ==
    /\ role \in {"client", "server", "foreign"}
    /\ inbox = <<>> /\ rest = <<>> /\ sender = "run"
    /\ wire = <<>> /\ stream = "open" /\ buf = <<>> /\ receiver = "run"
    /\ offered = 0 /\ accepted = <<>> /\ got = <<>>
    /\ written = <<>> /\ ends = <<>>
-----------------------------------------------------------------------------
(* The codec.                                                              *)

Width == 4      (* bytes of a length, a u32                                *)

(* (len as u32).to_be_bytes() and u32::from_be_bytes.                      *)
Prefix(n) ==
    LET a == n \div Base
        b == a \div Base
        c == b \div Base
    IN  <<c % Base, b % Base, a % Base, n % Base>>
Length(bs) == ((bs[1] * Base + bs[2]) * Base + bs[3]) * Base + bs[4]

Encode(body) == Prefix(Len(body)) \o body

(* A body of exactly MAX_FRAME_BYTES is refused by the receiver.           *)
TooLarge_Strict(n) == n >= MaxBody

(* decode_frame on a whole frame: the receiver checks the length as well.  *)
TooLarge(n) == n > MaxBody
-----------------------------------------------------------------------------
(* The sender.                                                             *)

(* encode_frame. A client pushes what it can encode to the writer's inbox, *)
(* and returns the error to its caller otherwise. A handler encodes one    *)
(* response at a time, and an error ends it, which drops its stream.       *)
Offer(b) ==
    /\ Ours /\ offered < MaxFrames /\ sender = "run"
    /\ role = "server" => inbox = <<>> /\ rest = <<>>
    /\ offered' = offered + 1
    /\ IF Len(b) <= MaxBody
       THEN /\ inbox' = Append(inbox, Encode(b))
            /\ accepted' = Append(accepted, b)
            /\ UNCHANGED <<sender, stream>>
       ELSE /\ IF role = "client" THEN UNCHANGED <<sender, stream>>
               ELSE /\ sender' = "ended"
                    /\ stream' = IF stream = "open" THEN "fin" ELSE stream
            /\ UNCHANGED <<inbox, accepted>>
    /\ UNCHANGED <<role, rest, wire, buf, receiver, got, written, ends>>

(* inbox_rx.recv(): the next job.                                          *)
TakeJob ==
    /\ sender = "run" /\ rest = <<>> /\ inbox # <<>>
    /\ rest' = Head(inbox) /\ inbox' = Tail(inbox)
    /\ UNCHANGED <<role, sender, wire, stream, buf, receiver, offered,
                   accepted, got, written, ends>>

(* write in place of write_all: what the stream has no room for is lost.   *)
WritePart_Once ==
    /\ sender = "run" /\ stream = "open"
    /\ \E n \in 1..Len(rest) :
          /\ Len(wire) + n <= Window
          /\ wire' = wire \o SubSeq(rest, 1, n)
          /\ written' = written \o SubSeq(rest, 1, n)
          /\ rest' = <<>>
    /\ UNCHANGED <<role, inbox, sender, stream, buf, receiver, offered,
                   accepted, got, ends>>

(* write_all hands the stream as much as it takes, again and again.        *)
WritePart ==
    /\ sender = "run" /\ stream = "open"
    /\ \E n \in 1..Len(rest) :
          /\ Len(wire) + n <= Window
          /\ wire' = wire \o SubSeq(rest, 1, n)
          /\ written' = written \o SubSeq(rest, 1, n)
          /\ rest' = SubSeq(rest, n + 1, Len(rest))
    /\ UNCHANGED <<role, inbox, sender, stream, buf, receiver, offered,
                   accepted, got, ends>>

(* write_all fails: the writer breaks, the handler returns.                *)
WriteFails ==
    /\ sender = "run" /\ stream = "cut" /\ rest # <<>>
    /\ sender' = "ended"
    /\ UNCHANGED <<role, inbox, rest, wire, stream, buf, receiver, offered,
                   accepted, got, written, ends>>

(* The sending half is dropped, which finishes the stream: the Mux aborts  *)
(* its writer wherever that is in a frame, the handler returns when it has *)
(* nothing more to read.                                                   *)
DropStream ==
    /\ sender = "run"
    /\ role = "server" => inbox = <<>> /\ rest = <<>>
    /\ sender' = "ended" /\ stream' = IF stream = "open" THEN "fin" ELSE stream
    /\ UNCHANGED <<role, inbox, rest, wire, buf, receiver, offered, accepted,
                   got, written, ends>>

(* A sender that is not this code puts on the stream whatever it likes.    *)
ForeignWrite(b) ==
    /\ ~Ours /\ sender = "run" /\ stream = "open"
    /\ Len(wire) < Window /\ Len(written) < MaxForeign
    /\ wire' = Append(wire, b) /\ written' = Append(written, b)
    /\ UNCHANGED <<role, inbox, rest, sender, stream, buf, receiver, offered,
                   accepted, got, ends>>

Writer == TakeJob \/ WritePart \/ WriteFails
-----------------------------------------------------------------------------
(* The connection is lost, or the receiver gives up its half: some of what *)
(* is on its way still arrives.                                            *)
Cut ==
    /\ stream # "cut" /\ stream' = "cut"
    /\ \E n \in 0..Len(wire) : wire' = SubSeq(wire, 1, n)
    /\ UNCHANGED <<role, inbox, rest, sender, buf, receiver, offered, accepted,
                   got, written, ends>>
-----------------------------------------------------------------------------
(* The receiver.                                                           *)

(* What read_frame reads before it returns: a length, then as many bytes.  *)
Needed(bs) ==
    Width + IF Len(bs) < Width THEN 0 ELSE Length(SubSeq(bs, 1, Width))
Whole == Len(buf) >= Width /\ Len(buf) = Needed(buf)

(* read in place of read_exact: whatever has arrived.                      *)
Fill_All ==
    /\ receiver = "run" /\ ~Whole /\ wire # <<>>
    /\ buf' = buf \o wire /\ wire' = <<>>
    /\ UNCHANGED <<role, inbox, rest, sender, stream, receiver, offered,
                   accepted, got, written, ends>>

(* The whole frame is awaited before any of it is taken off the stream.    *)
Fill_Whole ==
    /\ receiver = "run" /\ ~Whole
    /\ LET n == Needed(buf) - Len(buf) IN
          /\ n <= Len(wire)
          /\ buf' = buf \o SubSeq(wire, 1, n)
          /\ wire' = SubSeq(wire, n + 1, Len(wire))
    /\ UNCHANGED <<role, inbox, rest, sender, stream, receiver, offered,
                   accepted, got, written, ends>>

(* read_exact takes what has arrived, and no more than it needs.           *)
Fill ==
    /\ receiver = "run" /\ ~Whole
    /\ \E n \in 1..Len(wire) :
          /\ Len(buf) + n <= Needed(buf)
          /\ buf' = buf \o SubSeq(wire, 1, n)
          /\ wire' = SubSeq(wire, n + 1, Len(wire))
    /\ UNCHANGED <<role, inbox, rest, sender, stream, receiver, offered,
                   accepted, got, written, ends>>

(* Of the bytes received so far, the last ends here.                       *)
LastEnd == IF ends = <<>> THEN 0 ELSE ends[Len(ends)]

Body == SubSeq(buf, Width + 1, Len(buf))

Deliver ==
    /\ got' = Append(got, Body) /\ ends' = Append(ends, LastEnd + Len(buf))
    /\ UNCHANGED receiver

(* A frame that does not decode is passed over.                            *)
Receive_Skip ==
    /\ receiver = "run" /\ Whole /\ buf' = <<>>
    /\ IF TooLarge(Len(Body)) \/ Body \in Junk
       THEN UNCHANGED <<receiver, got, ends>>
       ELSE Deliver
    /\ UNCHANGED <<role, inbox, rest, sender, wire, stream, offered, accepted,
                   written>>

(* read_frame returns; an error of decode_frame ends the loop.             *)
Receive ==
    /\ receiver = "run" /\ Whole /\ buf' = <<>>
    /\ IF TooLarge(Len(Body)) \/ Body \in Junk
       THEN receiver' = "ended" /\ UNCHANGED <<got, ends>>
       ELSE Deliver
    /\ UNCHANGED <<role, inbox, rest, sender, wire, stream, offered, accepted,
                   written>>

(* read_exact meets the end of the stream, or an error.                    *)
Eof ==
    /\ receiver = "run" /\ ~Whole /\ wire = <<>> /\ stream # "open"
    /\ receiver' = "ended"
    /\ UNCHANGED <<role, inbox, rest, sender, wire, stream, buf, offered,
                   accepted, got, written, ends>>

Reader == Fill \/ Receive \/ Eof

Next ==
    \/ \E b \in Bodies : Offer(b)
    \/ \E b \in Bytes : ForeignWrite(b)
    \/ Writer \/ DropStream \/ Cut \/ Reader

(* Both tasks are polled when they can go on; the stream moves its bytes.  *)
Spec     == Init /\ [][Next]_vars
FairSpec == Spec /\ WF_vars(Writer) /\ WF_vars(Reader)
-----------------------------------------------------------------------------
(* Properties.                                                             *)

(* Frames may be lost: the connection was, or the writer left some behind. *)
Up == \/ stream = "open"
      \/ stream = "fin" /\ inbox = <<>> /\ rest = <<>>

(* read_frame never reads into the frame that follows.                     *)
TypeOK ==
    /\ inbox \in Seq(Seq(Bytes)) /\ rest \in Seq(Bytes)
    /\ wire \in Seq(Bytes) /\ Len(wire) <= Window
    /\ buf \in Seq(Bytes) /\ Len(buf) <= Needed(buf)
    /\ accepted \in Seq(Bodies) /\ got \in Seq(Seq(Bytes))
    /\ written \in Seq(Bytes) /\ ends \in Seq(Nat)

(* Frame i of those received stands in the stream from here.               *)
Start(i) == IF i = 1 THEN 0 ELSE ends[i - 1]

(* decode_frame refuses the frame that begins after the first s bytes.     *)
Refused(s) ==
    LET n == Length(SubSeq(written, s + 1, s + Width))
    IN  /\ s + Width <= Len(written) /\ s + Width + n <= Len(written)
        /\ \/ n > MaxBody
           \/ SubSeq(written, s + Width + 1, s + Width + n) \in Junk

(* Whoever writes the bytes and however they are cut up: a reader returns  *)
(* the frames that they are, from the first byte on, none left out and     *)
(* none larger than MAX_FRAME_BYTES, and before the stream ends it stops   *)
(* only at a frame that decode_frame refuses.                              *)
ReadsAsWritten ==
    /\ Len(ends) = Len(got)
    /\ \A i \in 1..Len(got) :
          /\ Encode(got[i]) = SubSeq(written, Start(i) + 1, ends[i])
          /\ Len(got[i]) <= MaxBody
    /\ buf = SubSeq(written, LastEnd + 1, LastEnd + Len(buf))
    /\ receiver = "ended" /\ stream = "open" => Refused(LastEnd)

(* The receiver stops only where the stream ends, and if that is because   *)
(* the sender finished it (a response too large, a Mux with nothing left   *)
(* to write) then with everything that was accepted.                       *)
ReadsToTheEnd ==
    Ours /\ receiver = "ended" /\ Up => stream = "fin" /\ got = accepted

(* What a sender promises it promises only if it is this code.             *)
TheLink == INSTANCE Link WITH
    Values <- Bodies, sent <- accepted,
    got <- IF Ours THEN got ELSE <<>>, up <- Ours => Up

(* The stream is a link for frames, however the bytes are cut up: what is  *)
(* read is what was accepted, in that order, each once and as it was sent. *)
ImplementsLink == TheLink!LSpec

(* And everything accepted is read, as long as the stream is whole.        *)
FramesArrive == TheLink!LFair
=============================================================================
