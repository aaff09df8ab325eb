---------------------------- MODULE FramingProofs ----------------------------
(***************************************************************************)
(* Proofs about Framing for any bodies, any limit, any window and any way  *)
(* in which the stream cuts its bytes up.                                  *)
(***************************************************************************)
EXTENDS Framing, QueueFacts, TLAPS

(* Division with remainder, of a number with one more digit.               *)
LEMMA DivisionFacts ==
    ASSUME NEW b \in Nat \ {0}, NEW n \in Nat
    PROVE  /\ n \div b \in Nat /\ n % b \in 0..(b - 1)
           /\ n = (n \div b) * b + (n % b)
OBVIOUS

LEMMA FewerDigits ==
    ASSUME NEW b \in Nat \ {0}, NEW n \in Nat, NEW m \in Nat, n < b * m
    PROVE  n \div b < m
<1> DEFINE q == n \div b
<1>1. q \in Nat /\ n >= q * b
    BY DivisionFacts
<1>2. ASSUME q >= m PROVE FALSE
    <2>1. PICK d \in Nat : q = m + d
        BY <1>1, <1>2
    <2>2. q * b = m * b + d * b /\ d * b >= 0
        BY <2>1
    <2>3. QED
        BY <1>1, <2>2
<1>3. QED
    BY <1>1, <1>2

(* u32::from_be_bytes undoes to_be_bytes on what fits four bytes, so the   *)
(* receiver reads the length that encode_frame wrote.                      *)
LEMMA PrefixIsRead ==
    ASSUME NEW n \in Nat, n < Base * (Base * (Base * Base))
    PROVE  /\ Prefix(n) \in Seq(Bytes) /\ Len(Prefix(n)) = Width
           /\ Length(Prefix(n)) = n
<1> DEFINE a == n \div Base
           b == a \div Base
           c == b \div Base
<1>0. Base \in Nat \ {0}
    BY FramingAssumption
<1>1. a \in Nat /\ n % Base \in Bytes /\ n = a * Base + (n % Base)
    BY <1>0, DivisionFacts DEF Bytes
<1>2. b \in Nat /\ a % Base \in Bytes /\ a = b * Base + (a % Base)
    BY <1>0, <1>1, DivisionFacts DEF Bytes
<1>3. c \in Nat /\ b % Base \in Bytes /\ b = c * Base + (b % Base)
    BY <1>0, <1>2, DivisionFacts DEF Bytes
<1>4. c % Base \in Bytes /\ c % Base = c
    <2>1. a < Base * (Base * Base)
        BY <1>0, FewerDigits
    <2>2. b < Base * Base
        BY <1>0, <1>1, <2>1, FewerDigits
    <2>3. c < Base
        BY <1>0, <1>2, <2>2, FewerDigits
    <2>4. QED
        BY <1>0, <1>3, <2>3 DEF Bytes
<1>5. Prefix(n) = <<c % Base, b % Base, a % Base, n % Base>>
    BY DEF Prefix
<1> HIDE DEF a, b, c
<1>6. QED
    BY <1>1, <1>2, <1>3, <1>4, <1>5 DEF Length, Width

(* A length is a number, and depends on its four bytes only.               *)
LEMMA LengthFacts ==
    ASSUME NEW x \in Seq(Bytes), Len(x) >= Width
    PROVE  /\ Length(SubSeq(x, 1, Width)) \in Nat
           /\ Length(SubSeq(x, 1, Width)) = Length(x)
<1>1. /\ x[1] \in Bytes /\ x[2] \in Bytes /\ x[3] \in Bytes /\ x[4] \in Bytes
      /\ Bytes \subseteq Nat /\ Base \in Nat
    BY FramingAssumption DEF Bytes, Width
<1> DEFINE p == SubSeq(x, 1, Width)
<1>2. \A k \in 1..4 : p[k] = x[k]
    BY PrefixFacts DEF Width
<1>3. Length(x) \in Nat
    <2>1. /\ x[1] \in Nat /\ x[2] \in Nat /\ x[3] \in Nat /\ x[4] \in Nat
          /\ Base \in Nat
        BY <1>1
    <2>2. x[1] * Base + x[2] \in Nat
        BY <2>1
    <2> DEFINE y == x[1] * Base + x[2]
               z == y * Base + x[3]
    <2>3. y \in Nat
        BY <2>2
    <2>4. z \in Nat
        <3> HIDE DEF y
        <3>1. QED
            BY <2>1, <2>3
    <2>5. z * Base + x[4] \in Nat
        <3> HIDE DEF z
        <3>1. QED
            BY <2>1, <2>4
    <2>6. QED
        BY <2>5 DEF Length
<1> HIDE DEF p
<1>4. Length(p) = Length(x)
    BY <1>2 DEF Length
<1>5. QED
    BY <1>3, <1>4 DEF p

(* A frame: its length and its body, and how much of it read_frame needs   *)
(* once it has the beginning of it.                                        *)
LEMMA FrameFacts ==
    ASSUME NEW b \in Bodies, Len(b) <= MaxBody
    PROVE  /\ Encode(b) \in Seq(Bytes) /\ Len(b) \in Nat
           /\ Len(Encode(b)) = Width + Len(b)
           /\ \A k \in 1..Len(b) : Encode(b)[Width + k] = b[k]
           /\ \A x \in Seq(Bytes) :
                 /\ Len(x) >= Width
                 /\ \A k \in 1..Width : x[k] = Encode(b)[k]
                 => Needed(x) = Width + Len(b)
<1>1. /\ b \in Seq(Bytes) /\ Len(b) \in Nat /\ MaxBody \in Nat
      /\ Len(b) < Base * (Base * (Base * Base))
    <2>1. Base * (Base * (Base * Base)) \in Nat
        BY FramingAssumption
    <2>2. QED
        BY <2>1, FramingAssumption
<1> DEFINE p == Prefix(Len(b))
<1>2. p \in Seq(Bytes) /\ Len(p) = Width /\ Length(p) = Len(b)
    BY <1>1, PrefixIsRead
<1> HIDE DEF p
<1>3. /\ Encode(b) \in Seq(Bytes) /\ Len(Encode(b)) = Width + Len(b)
      /\ \A k \in 1..Width : Encode(b)[k] = p[k]
      /\ \A k \in 1..Len(b) : Encode(b)[Width + k] = b[k]
    <2>1. Encode(b) = p \o b
        BY DEF Encode, p
    <2>2. /\ p \o b \in Seq(Bytes) /\ Len(p \o b) = Len(p) + Len(b)
          /\ \A k \in 1..Len(p) : (p \o b)[k] = p[k]
          /\ \A k \in 1..Len(b) : (p \o b)[Len(p) + k] = b[k]
        BY <1>1, <1>2
    <2>3. QED
        BY <1>2, <2>1, <2>2
<1>4. ASSUME NEW x \in Seq(Bytes), Len(x) >= Width,
             \A k \in 1..Width : x[k] = Encode(b)[k]
      PROVE  Needed(x) = Width + Len(b)
    <2>1. \A k \in 1..4 : x[k] = p[k]
        BY <1>3, <1>4 DEF Width
    <2>2. Length(x) = Len(b)
        BY <1>2, <2>1 DEF Length
    <2>3. QED
        BY <1>1, <1>4, <2>2, LengthFacts DEF Needed, Width
<1>5. QED
    BY <1>1, <1>3, <1>4

(* What is read of a frame never exceeds what read_frame asks for next.    *)
LEMMA NeededFacts ==
    ASSUME NEW x \in Seq(Bytes), NEW y \in Seq(Bytes),
           Len(x) <= Len(y), \A k \in 1..Len(x) : y[k] = x[k],
           Len(y) <= Needed(x)
    PROVE  /\ Needed(y) \in Nat /\ Needed(x) \in Nat
           /\ Len(y) <= Needed(y)
<1>1. ASSUME NEW z \in Seq(Bytes)
      PROVE  Needed(z) \in Nat /\ Needed(z) >= Width
    BY <1>1, LengthFacts DEF Needed, Width
<1>2. CASE Len(x) < Width
    BY <1>1, <1>2 DEF Needed, Width
<1>3. CASE Len(x) >= Width
    <2>1. Length(y) = Length(x)
        BY <1>3 DEF Length, Width
    <2>2. QED
        BY <1>1, <1>3, <2>1, LengthFacts DEF Needed, Width
<1>4. QED
    BY <1>2, <1>3 DEF Width
(* A number has one quotient and one remainder.                            *)
LEMMA OneDivision ==
    ASSUME NEW b \in Nat \ {0}, NEW q \in Nat, NEW d \in 0..(b - 1)
    PROVE  (q * b + d) \div b = q /\ (q * b + d) % b = d
<1> DEFINE n == q * b + d
<1>0. n \in Nat
    <2>1. q * b \in Nat
        OBVIOUS
    <2>2. QED
        BY <2>1
<1>1. PICK p : p = n \div b
    OBVIOUS
<1>2. PICK e : e = n % b
    OBVIOUS
<1>3. p \in Nat /\ e \in 0..(b - 1) /\ n = p * b + e
    BY <1>0, <1>1, <1>2, DivisionFacts
<1>4. p * b + e = q * b + d
    BY <1>3
<1>5. ASSUME NEW x \in Nat, NEW y \in Nat, NEW u \in 0..(b - 1),
             NEW v \in 0..(b - 1), x < y
      PROVE  x * b + u < y * b + v
    <2>1. PICK z \in Nat : y = x + 1 + z
        <3>1. y - x - 1 \in Nat /\ y = x + 1 + (y - x - 1)
            BY <1>5
        <3>2. QED
            BY <3>1
    <2>2. y * b = x * b + b + z * b /\ z * b >= 0 /\ x * b \in Nat
        BY <2>1
    <2>3. QED
        BY <2>2
<1>6. p = q
    <2>1. ~(p < q) /\ ~(q < p)
        <3>1. p * b + e \in Nat /\ q * b + d \in Nat
            BY <1>0, <1>3
        <3>2. ASSUME p < q PROVE FALSE
            BY <1>3, <1>4, <1>5, <3>1, <3>2
        <3>3. ASSUME q < p PROVE FALSE
            BY <1>3, <1>4, <1>5, <3>1, <3>3
        <3>4. QED
            BY <3>2, <3>3
    <2>2. QED
        BY <1>3, <2>1
<1>7. e = d
    <2>1. q * b \in Nat /\ q * b + e = q * b + d
        BY <1>4, <1>6
    <2>2. QED
        BY <1>3, <2>1
<1>8. QED
    BY <1>1, <1>2, <1>6, <1>7

(* And to_be_bytes undoes from_be_bytes: the length that is read is        *)
(* written with the bytes it was read from.                                *)
LEMMA LengthIsWritten ==
    ASSUME NEW x \in Seq(Bytes), Len(x) >= Width
    PROVE  Prefix(Length(x)) = SubSeq(x, 1, Width)
<1>0. /\ x[1] \in 0..(Base - 1) /\ x[2] \in 0..(Base - 1)
      /\ x[3] \in 0..(Base - 1) /\ x[4] \in 0..(Base - 1)
      /\ Base \in Nat \ {0}
    BY FramingAssumption DEF Bytes, Width
<1>1. PICK a : a = x[1] * Base + x[2]
    OBVIOUS
<1>2. PICK b : b = a * Base + x[3]
    OBVIOUS
<1>3. PICK n : n = b * Base + x[4]
    OBVIOUS
<1>4. a \in Nat /\ a \div Base = x[1] /\ a % Base = x[2]
    <2>1. x[1] \in Nat
        BY <1>0
    <2>2. a \div Base = x[1] /\ a % Base = x[2]
        BY ONLY <1>0, <1>1, <2>1, OneDivision
    <2>3. PICK m \in Nat : m = x[1] * Base
        BY <1>0
    <2>4. a = m + x[2] /\ x[2] \in Nat
        BY <1>0, <1>1, <2>3
    <2>5. a \in Nat
        BY ONLY <2>4, m \in Nat
    <2>6. QED
        BY <2>2, <2>5
<1>5. b \in Nat /\ b \div Base = a /\ b % Base = x[3]
    <2>1. b \div Base = a /\ b % Base = x[3]
        BY ONLY <1>0, <1>2, <1>4, OneDivision
    <2>2. PICK m \in Nat : m = a * Base
        BY <1>0, <1>4
    <2>3. b = m + x[3] /\ x[3] \in Nat
        BY <1>0, <1>2, <2>2
    <2>4. b \in Nat
        BY ONLY <2>3, m \in Nat
    <2>5. QED
        BY <2>1, <2>4
<1>6. n \div Base = b /\ n % Base = x[4]
    BY ONLY <1>0, <1>3, <1>5, OneDivision
<1>7. x[1] % Base = x[1]
    <2>1. x[1] = 0 * Base + x[1]
        BY <1>0
    <2>2. (0 * Base + x[1]) % Base = x[1]
        BY ONLY <1>0, OneDivision
    <2>3. QED
        BY <2>1, <2>2
<1>8. Length(x) = n
    BY <1>1, <1>2, <1>3 DEF Length
<1>9. Prefix(n) = <<x[1], x[2], x[3], x[4]>>
    BY <1>4, <1>5, <1>6, <1>7 DEF Prefix
<1>10. SubSeq(x, 1, Width) = <<x[1], x[2], x[3], x[4]>>
    <2>1. \A k \in 1..4 : SubSeq(x, 1, Width)[k] = x[k]
        BY PrefixFacts DEF Width
    <2>2. SubSeq(x, 1, Width) \in Seq(Bytes) /\ Len(SubSeq(x, 1, Width)) = 4
        BY PrefixFacts DEF Width
    <2>3. <<x[1], x[2], x[3], x[4]>> \in Seq(Bytes)
        BY <1>0 DEF Bytes
    <2> DEFINE y == SubSeq(x, 1, Width)
               z == <<x[1], x[2], x[3], x[4]>>
    <2>4. Len(z) = 4 /\ z[1] = x[1] /\ z[2] = x[2] /\ z[3] = x[3] /\ z[4] = x[4]
        OBVIOUS
    <2> HIDE DEF y, z
    <2>5. \A k \in 1..4 : y[k] = z[k]
        <3>1. \A k \in 1..4 : k = 1 \/ k = 2 \/ k = 3 \/ k = 4
            OBVIOUS
        <3>2. \A k \in 1..4 : y[k] = x[k]
            BY <2>1 DEF y
        <3>3. QED
            BY <2>4, <3>1, <3>2
    <2>6. QED
        BY <2>2, <2>3, <2>4, <2>5, SameSequence DEF y, z
<1>11. QED
    BY <1>8, <1>9, <1>10

(* A frame is its length and its body.                                     *)
LEMMA FrameParts ==
    ASSUME NEW x \in Seq(Bytes), Len(x) >= Width, Len(x) = Needed(x)
    PROVE  LET y == SubSeq(x, Width + 1, Len(x))
           IN  /\ y \in Seq(Bytes) /\ Len(y) \in Nat
               /\ Len(x) = Width + Len(y)
               /\ Length(SubSeq(x, 1, Width)) = Len(y)
               /\ Encode(y) = x
<1>a. PICK p : p = SubSeq(x, 1, Width)
    OBVIOUS
<1>b. PICK y : y = SubSeq(x, Width + 1, Len(x))
    OBVIOUS
<1>1. Len(x) \in Nat /\ Width \in 0..Len(x) /\ Width \in Nat
    BY DEF Width
<1>2. /\ p \in Seq(Bytes) /\ Len(p) = Width
      /\ \A k \in 1..Width : p[k] = x[k]
    BY ONLY <1>a, <1>1, x \in Seq(Bytes), PrefixFacts
<1>3. /\ y \in Seq(Bytes) /\ Len(y) = Len(x) - Width
      /\ \A k \in 1..(Len(x) - Width) : y[k] = x[Width + k]
    <2>1. Len(x) \in 0..Len(x) /\ Width <= Len(x)
        BY <1>1
    <2>2. QED
        BY ONLY <1>b, <1>1, <2>1, x \in Seq(Bytes), PartFacts
<1>4. Length(p) = Len(y) /\ Length(x) = Len(y)
    BY <1>a, <1>1, <1>3, LengthFacts DEF Needed
<1>5. Prefix(Len(y)) = p
    BY <1>a, <1>4, LengthIsWritten
<1>6. /\ p \o y \in Seq(Bytes) /\ Len(p \o y) = Len(p) + Len(y)
      /\ \A k \in 1..Len(p) : (p \o y)[k] = p[k]
      /\ \A k \in 1..Len(y) : (p \o y)[Len(p) + k] = y[k]
    <2>1. p \in Seq(Bytes) /\ y \in Seq(Bytes)
        BY <1>2, <1>3
    <2>2. QED
        BY ONLY <2>1
<1>7. p \o y = x
    <2>1. Len(p \o y) = Len(x)
        BY <1>1, <1>2, <1>3, <1>6
    <2>2. ASSUME NEW k \in 1..Len(x) PROVE (p \o y)[k] = x[k]
        <3>1. CASE k <= Width
            BY <1>1, <1>2, <1>6, <3>1
        <3>2. CASE k > Width
            <4>1. PICK m \in 1..(Len(x) - Width) : k = Width + m
                <5>1. k - Width \in 1..(Len(x) - Width) /\ k = Width + (k - Width)
                    BY <1>1, <3>2
                <5>2. QED
                    BY <5>1
            <4>2. m \in 1..Len(y) /\ k = Len(p) + m
                BY <1>2, <1>3, <4>1
            <4>3. (p \o y)[Len(p) + m] = y[m] /\ y[m] = x[Width + m]
                BY <1>3, <1>6, <4>1, <4>2
            <4>4. QED
                BY <4>1, <4>2, <4>3
        <3>3. k <= Width \/ k > Width
            BY ONLY <1>1, k \in 1..Len(x)
        <3>4. QED
            BY ONLY <3>1, <3>2, <3>3
    <2>3. QED
        BY <1>6, <2>1, <2>2, SameSequence
<1>8. /\ Len(y) \in Nat /\ Len(x) = Width + Len(y) /\ Length(p) = Len(y)
    BY <1>1, <1>3, <1>4
<1>9. Encode(y) = x
    BY <1>5, <1>7 DEF Encode
<1>10. QED
    BY <1>a, <1>b, <1>3, <1>8, <1>9
-----------------------------------------------------------------------------
(* The invariant. Laid one behind another, the frames that were accepted   *)
(* are one sequence of bytes, all, in which frame i ends at end[i]: what   *)
(* the receiver has read of its frame, what is on its way and what is left *)
(* of the writer's frame are consecutive parts of it, and the inbox is the *)
(* frames that follow.                                                     *)

Taken == Len(accepted) - Len(inbox)

Laid(frames, all, end) ==
    /\ all \in Seq(Bytes)
    /\ end \in [0..Len(frames) -> Nat]
    /\ end[0] = 0 /\ end[Len(frames)] = Len(all)
    /\ \A i, j \in 0..Len(frames) : i <= j => end[i] <= end[j]
    /\ \A i \in 1..Len(frames) :
          /\ end[i] = end[i - 1] + Width + Len(frames[i])
          /\ \A k \in 1..(Width + Len(frames[i])) :
                all[end[i - 1] + k] = Encode(frames[i])[k]

Carried(all, end) ==
    LET b == end[Len(got)]
        w == b + Len(buf)
        r == end[Taken] - Len(rest)
    IN  /\ w + Len(wire) <= r /\ (stream # "cut" => w + Len(wire) = r)
        /\ \A k \in 1..Len(buf) : buf[k] = all[b + k]
        /\ \A k \in 1..Len(wire) : wire[k] = all[w + k]
        /\ \A k \in 1..Len(rest) : rest[k] = all[r + k]

Queues ==
    /\ Len(inbox) <= Len(accepted) /\ Len(got) <= Taken
    /\ \A i \in 1..Len(inbox) : inbox[i] = Encode(accepted[Taken + i])
    /\ \A i \in 1..Len(accepted) : Len(accepted[i]) <= MaxBody
    /\ \A i \in 1..Len(got) : got[i] = accepted[i]

Ends ==
    /\ role \in {"client", "server"}
    /\ stream \in {"open", "fin", "cut"} /\ receiver \in {"run", "ended"}
    /\ stream = "fin" => sender = "ended"
    /\ receiver = "ended" => stream # "open"
    /\ receiver = "ended" /\ Up => got = accepted

State(all, end) ==
    TypeOK /\ Queues /\ Ends /\ Laid(accepted, all, end) /\ Carried(all, end)

Inv == \E all, end : State(all, end)

(* Lengths are numbers, and so are the places that Carried speaks of.      *)
LEMMA Places ==
    ASSUME TypeOK, Queues, NEW all, NEW end, Laid(accepted, all, end)
    PROVE  /\ Len(accepted) \in Nat /\ Len(inbox) \in Nat /\ Len(got) \in Nat
           /\ Len(buf) \in Nat /\ Len(wire) \in Nat /\ Len(rest) \in Nat
           /\ Len(all) \in Nat
           /\ Taken \in 0..Len(accepted) /\ Len(got) \in 0..Taken
           /\ end[Len(got)] \in Nat /\ end[Taken] \in Nat
           /\ end[Len(got)] <= end[Taken] /\ end[Taken] <= Len(all)
<1>1. /\ Len(accepted) \in Nat /\ Len(inbox) \in Nat /\ Len(got) \in Nat
      /\ Len(buf) \in Nat /\ Len(wire) \in Nat /\ Len(rest) \in Nat
      /\ Len(all) \in Nat
    BY DEF TypeOK, Laid
<1>2. Taken \in 0..Len(accepted) /\ Len(got) \in 0..Taken
    BY <1>1 DEF Queues, Taken
<1>3. Len(got) \in 0..Len(accepted) /\ Len(accepted) \in 0..Len(accepted)
    BY <1>1, <1>2
<1>4. /\ end \in [0..Len(accepted) -> Nat] /\ end[Len(accepted)] = Len(all)
      /\ \A i, j \in 0..Len(accepted) : i <= j => end[i] <= end[j]
    BY DEF Laid
<1>5. end[Len(got)] <= end[Taken] /\ end[Taken] <= end[Len(accepted)]
    BY <1>1, <1>2, <1>3, <1>4
<1>6. QED
    BY <1>1, <1>2, <1>3, <1>4, <1>5

(* One more frame at the end.                                              *)
LEMMA LaidGrows ==
    ASSUME TypeOK, NEW all, NEW end, Laid(accepted, all, end),
           NEW b \in Bodies, Len(b) <= MaxBody, accepted' = Append(accepted, b)
    PROVE  LET f == [i \in 0..Len(accepted') |->
                        IF i <= Len(accepted) THEN end[i]
                        ELSE Len(all) + Width + Len(b)]
           IN  /\ Laid(accepted', all \o Encode(b), f)
               /\ \A i \in 0..Len(accepted) : f[i] = end[i]
               /\ \A k \in 1..Len(all) : (all \o Encode(b))[k] = all[k]
<1> DEFINE n == Len(accepted)
           e == Encode(b)
           s == all \o e
           f == [i \in 0..Len(accepted') |->
                    IF i <= n THEN end[i] ELSE Len(all) + Width + Len(b)]
<1>1. /\ e \in Seq(Bytes) /\ Len(b) \in Nat /\ Len(e) = Width + Len(b)
    BY FrameFacts
<1>2. n \in Nat /\ Len(accepted') = n + 1 /\ accepted'[n + 1] = b
      /\ \A i \in 1..n : accepted'[i] = accepted[i]
    BY AppendFacts DEF TypeOK
<1>3. /\ all \in Seq(Bytes) /\ end \in [0..n -> Nat] /\ end[n] = Len(all)
      /\ \A i \in 0..n : end[i] <= Len(all)
    BY <1>2 DEF Laid
<1> HIDE DEF e
<1>4. /\ s \in Seq(Bytes) /\ Len(s) = Len(all) + Len(e) /\ Len(all) \in Nat
      /\ \A k \in 1..Len(all) : s[k] = all[k]
      /\ \A k \in 1..Len(e) : s[Len(all) + k] = e[k]
    <2>1. e \in Seq(Bytes) /\ all \in Seq(Bytes)
        BY <1>1, <1>3
    <2>2. QED
        BY ONLY <2>1
<1> HIDE DEF s
<1>5. /\ f \in [0..(n + 1) -> Nat] /\ f[n + 1] = Len(all) + Width + Len(b)
      /\ \A i \in 0..n : f[i] = end[i]
    BY <1>1, <1>2, <1>3, <1>4 DEF Width
<1> HIDE DEF f
<1>6. \A i, j \in 0..(n + 1) : i <= j => f[i] <= f[j]
    <2> SUFFICES ASSUME NEW i \in 0..(n + 1), NEW j \in 0..(n + 1), i <= j
                 PROVE  f[i] <= f[j]
        OBVIOUS
    <2>1. CASE j <= n
        BY <1>2, <1>5, <2>1 DEF Laid
    <2>2. CASE j = n + 1 /\ i <= n
        <3>1. i \in 0..n
            BY <1>2, <2>2
        <3>2. f[i] = end[i] /\ end[i] <= Len(all) /\ end[i] \in Nat
            BY <1>3, <1>5, <3>1
        <3>3. f[j] = Len(all) + Width + Len(b) /\ Len(all) \in Nat
            BY <1>4, <1>5, <2>2
        <3>4. QED
            BY <1>1, <3>2, <3>3 DEF Width
    <2>3. CASE j = n + 1 /\ i = n + 1
        BY <1>1, <1>4, <1>5, <2>3 DEF Width
    <2>4. QED
        BY <1>2, <2>1, <2>2, <2>3
<1>7. ASSUME NEW i \in 1..(n + 1)
      PROVE  /\ f[i] = f[i - 1] + Width + Len(accepted'[i])
             /\ \A k \in 1..(Width + Len(accepted'[i])) :
                   s[f[i - 1] + k] = Encode(accepted'[i])[k]
    <2>1. CASE i <= n
        <3>1. /\ i \in 1..n /\ i - 1 \in 0..n /\ i \in 0..n
            BY <1>2, <2>1
        <3>2. /\ accepted'[i] = accepted[i] /\ f[i - 1] = end[i - 1]
              /\ f[i] = end[i] /\ end[i] <= Len(all)
              /\ end[i - 1] \in Nat /\ end[i] \in Nat
            BY <1>2, <1>3, <1>5, <3>1
        <3>3. /\ end[i] = end[i - 1] + Width + Len(accepted[i])
              /\ \A k \in 1..(Width + Len(accepted[i])) :
                    all[end[i - 1] + k] = Encode(accepted[i])[k]
            BY <3>1 DEF Laid
        <3>4. Len(accepted[i]) \in Nat
            BY <3>1, FramingAssumption DEF TypeOK
        <3>5. ASSUME NEW k \in 1..(Width + Len(accepted[i]))
              PROVE  end[i - 1] + k \in 1..Len(all)
            <4> DEFINE p == end[i - 1]
                       l == Len(accepted[i])
            <4>1. /\ p \in Nat /\ l \in Nat /\ p + Width + l <= Len(all)
                  /\ Len(all) \in Nat /\ k \in 1..(Width + l)
                BY <1>4, <3>2, <3>3, <3>4
            <4> HIDE DEF p, l
            <4>2. p + k \in 1..Len(all)
                BY <4>1 DEF Width
            <4>3. QED
                BY <4>2 DEF p
        <3>6. QED
            BY <1>4, <3>2, <3>3, <3>5
    <2>2. CASE i = n + 1
        <3>1. f[i - 1] = Len(all) /\ accepted'[i] = b
            BY <1>2, <1>3, <1>5, <2>2
        <3>2. QED
            BY <1>1, <1>4, <1>5, <2>2, <3>1 DEF e
    <2>3. QED
        BY <1>2, <2>1, <2>2
<1>8. f[0] = 0
    BY <1>2, <1>5 DEF Laid
<1>9. Laid(accepted', s, f)
    <2>1. f[Len(accepted')] = Len(s) /\ f \in [0..Len(accepted') -> Nat]
        BY <1>1, <1>2, <1>4, <1>5 DEF Width
    <2>2. QED
        BY <1>2, <1>4, <1>6, <1>7, <1>8, <2>1 DEF Laid
<1>10. QED
    BY <1>2, <1>4, <1>5, <1>9 DEF f, s, e

(* The first bytes of one part of all move to the end of the part before.  *)
LEMMA BytesMove ==
    ASSUME NEW x \in Seq(Bytes), NEW y \in Seq(Bytes), NEW n \in 1..Len(y),
           NEW all, NEW p \in Nat,
           \A k \in 1..Len(x) : x[k] = all[p + k],
           \A k \in 1..Len(y) : y[k] = all[p + Len(x) + k]
    PROVE  /\ x \o SubSeq(y, 1, n) \in Seq(Bytes)
           /\ Len(x \o SubSeq(y, 1, n)) = Len(x) + n
           /\ SubSeq(y, n + 1, Len(y)) \in Seq(Bytes)
           /\ Len(SubSeq(y, n + 1, Len(y))) = Len(y) - n
           /\ \A k \in 1..Len(x) : (x \o SubSeq(y, 1, n))[k] = x[k]
           /\ \A k \in 1..(Len(x) + n) : (x \o SubSeq(y, 1, n))[k] = all[p + k]
           /\ \A k \in 1..(Len(y) - n) :
                 SubSeq(y, n + 1, Len(y))[k] = all[p + (Len(x) + n) + k]
<1> DEFINE h == SubSeq(y, 1, n)
           u == x \o h
           v == SubSeq(y, n + 1, Len(y))
<1>0. n \in Nat /\ n >= 1 /\ n <= Len(y) /\ Len(x) \in Nat /\ Len(y) \in Nat
    OBVIOUS
<1>1. /\ h \in Seq(Bytes) /\ Len(h) = n
      /\ \A k \in 1..n : h[k] = y[k]
    BY <1>0, PrefixFacts
<1>2. /\ v \in Seq(Bytes) /\ Len(v) = Len(y) - n
      /\ \A k \in 1..(Len(y) - n) : v[k] = y[n + k]
    BY <1>0, PartFacts
<1> HIDE DEF h, v
<1>3. /\ u \in Seq(Bytes) /\ Len(u) = Len(x) + n
      /\ \A k \in 1..Len(x) : u[k] = x[k]
      /\ \A k \in 1..n : u[Len(x) + k] = h[k]
    <2>2. x \in Seq(Bytes) /\ h \in Seq(Bytes)
        BY <1>1
    <2>3. /\ x \o h \in Seq(Bytes) /\ Len(x \o h) = Len(x) + Len(h)
          /\ \A k \in 1..Len(x) : (x \o h)[k] = x[k]
          /\ \A k \in 1..Len(h) : (x \o h)[Len(x) + k] = h[k]
        BY ONLY <2>2
    <2>4. Len(h) = n
        BY <1>1
    <2>5. QED
        BY ONLY <2>3, <2>4 DEF u
<1> HIDE DEF u
<1>4. ASSUME NEW k \in 1..Len(u) PROVE u[k] = all[p + k]
    <2>1. CASE k <= Len(x)
        BY <1>0, <1>3, <2>1
    <2>2. CASE k > Len(x)
        <3>1. PICK m \in 1..n : k = Len(x) + m
            <4>1. k - Len(x) \in 1..n /\ k = Len(x) + (k - Len(x))
                BY <1>0, <1>3, <2>2
            <4>2. QED
                BY <4>1
        <3>2. u[k] = y[m] /\ m \in 1..Len(y)
            BY <1>0, <1>1, <1>3, <3>1
        <3>3. y[m] = all[p + Len(x) + m]
            BY <3>2
        <3>4. p + Len(x) + m = p + k
            BY <1>0, <3>1
        <3>5. QED
            BY <3>2, <3>3, <3>4
    <2>3. QED
        BY <1>0, <1>3, <2>1, <2>2
<1>5. ASSUME NEW k \in 1..Len(v) PROVE v[k] = all[p + Len(u) + k]
    <2>1. n + k \in 1..Len(y) /\ v[k] = y[n + k]
        BY <1>0, <1>2
    <2>2. y[n + k] = all[p + Len(x) + (n + k)]
        BY <2>1
    <2>3. p + Len(x) + (n + k) = p + Len(u) + k
        BY <1>0, <1>2, <1>3
    <2>4. QED
        BY <2>1, <2>2, <2>3
<1>6. QED
    BY <1>2, <1>3, <1>4, <1>5 DEF u, v, h

(* Bytes move from the writer's frame to the stream.                       *)
LEMMA StepWritePart ==
    ASSUME NEW all, NEW end, State(all, end), WritePart, TypeOK'
    PROVE  State(all, end)'
<1>0. /\ TypeOK /\ Queues /\ Ends /\ Laid(accepted, all, end)
      /\ Carried(all, end)
    BY DEF State
<1> DEFINE b == end[Len(got)]
           w == b + Len(buf)
           r == end[Taken] - Len(rest)
<1>1. /\ Len(accepted) \in Nat /\ Len(buf) \in Nat /\ Len(wire) \in Nat
      /\ Len(rest) \in Nat /\ b \in Nat /\ end[Taken] \in Nat
      /\ rest \in Seq(Bytes) /\ wire \in Seq(Bytes)
    BY <1>0, Places DEF TypeOK
<1>2. PICK n \in 1..Len(rest) :
          /\ Len(wire) + n <= Window
          /\ wire' = wire \o SubSeq(rest, 1, n)
          /\ rest' = SubSeq(rest, n + 1, Len(rest))
    BY DEF WritePart
<1>n. n \in Nat
    BY <1>1
<1>3. /\ stream = "open" /\ UNCHANGED <<role, inbox, sender, stream, buf,
                                         receiver, offered, accepted, got>>
    BY DEF WritePart
<1>4. /\ w + Len(wire) = r
      /\ \A k \in 1..Len(buf) : buf[k] = all[b + k]
      /\ \A k \in 1..Len(wire) : wire[k] = all[w + k]
      /\ \A k \in 1..Len(rest) : rest[k] = all[w + Len(wire) + k]
    BY <1>0, <1>3 DEF Carried
<1>5. w \in Nat
    BY <1>1
<1>6. /\ wire' \in Seq(Bytes) /\ Len(wire') = Len(wire) + n
      /\ rest' \in Seq(Bytes) /\ Len(rest') = Len(rest) - n
      /\ \A k \in 1..(Len(wire) + n) : wire'[k] = all[w + k]
      /\ \A k \in 1..(Len(rest) - n) : rest'[k] = all[w + (Len(wire) + n) + k]
    <2> HIDE DEF w
    <2>1. /\ \A k \in 1..Len(wire) : wire[k] = all[w + k]
          /\ \A k \in 1..Len(rest) : rest[k] = all[w + Len(wire) + k]
        BY <1>4
    <2>2. wire \in Seq(Bytes) /\ rest \in Seq(Bytes) /\ w \in Nat
        BY <1>1, <1>5
    <2>3. QED
        BY ONLY <1>2, <2>1, <2>2, BytesMove
<1>7. w + Len(wire') = end[Taken] - Len(rest')
    <2> DEFINE e == end[Taken]
    <2>1. /\ w + Len(wire) = e - Len(rest) /\ e \in Nat /\ w \in Nat
          /\ Len(wire) \in Nat /\ Len(rest) \in Nat
        BY <1>1, <1>4, <1>5
    <2>2. Len(wire') = Len(wire) + n /\ Len(rest') = Len(rest) - n
        BY <1>6
    <2> HIDE DEF w, e
    <2>3. w + (Len(wire) + n) = e - (Len(rest) - n)
        BY <1>n, <2>1
    <2>4. QED
        BY <2>2, <2>3 DEF e
<1>8. Taken' = Taken
    BY <1>3 DEF Taken
<1>9. TypeOK'
    OBVIOUS
<1>10. Queues' /\ Laid(accepted, all, end)'
    BY <1>0, <1>3, <1>8 DEF Queues, Laid
<1>11. Ends'
    BY <1>0, <1>3 DEF Ends, Up
<1>12. Carried(all, end)'
    <2>1. /\ end[Len(got)]' + Len(buf)' = w /\ end[Len(got)]' = b
          /\ (end[Taken] - Len(rest))' = w + Len(wire')
        BY <1>3, <1>7, <1>8
    <2>2. /\ \A k \in 1..Len(buf)' : buf'[k] = all[b + k]
          /\ \A k \in 1..Len(wire') : wire'[k] = all[w + k]
          /\ \A k \in 1..Len(rest') : rest'[k] = all[w + Len(wire') + k]
        BY <1>3, <1>4, <1>6
    <2>3. w + Len(wire') \in Nat
        BY ONLY <1>5, <1>6
    <2> HIDE DEF w, b
    <2>4. QED
        BY <2>1, <2>2, <2>3 DEF Carried
<1>13. QED
    BY <1>9, <1>10, <1>11, <1>12 DEF State

(* Bytes move from the stream to the receiver's frame, no more than needed.*)
LEMMA StepFill ==
    ASSUME NEW all, NEW end, State(all, end), Fill, TypeOK'
    PROVE  State(all, end)'
<1>0. /\ TypeOK /\ Queues /\ Ends /\ Laid(accepted, all, end)
      /\ Carried(all, end)
    BY DEF State
<1> DEFINE b == end[Len(got)]
           w == b + Len(buf)
           r == end[Taken] - Len(rest)
<1>1. /\ Len(buf) \in Nat /\ Len(wire) \in Nat
      /\ Len(rest) \in Nat /\ b \in Nat /\ end[Taken] \in Nat
      /\ buf \in Seq(Bytes) /\ wire \in Seq(Bytes)
    BY <1>0, Places DEF TypeOK
<1>2. PICK n \in 1..Len(wire) :
          /\ Len(buf) + n <= Needed(buf)
          /\ buf' = buf \o SubSeq(wire, 1, n)
          /\ wire' = SubSeq(wire, n + 1, Len(wire))
    BY DEF Fill
<1>n. n \in Nat /\ n <= Len(wire)
    BY <1>1
<1>3. UNCHANGED <<role, inbox, rest, sender, stream, receiver, offered,
                  accepted, got>>
    BY DEF Fill
<1>4. /\ w + Len(wire) <= r /\ (stream # "cut" => w + Len(wire) = r)
      /\ \A k \in 1..Len(buf) : buf[k] = all[b + k]
      /\ \A k \in 1..Len(wire) : wire[k] = all[b + Len(buf) + k]
      /\ \A k \in 1..Len(rest) : rest[k] = all[r + k]
    BY <1>0 DEF Carried
<1>5. /\ buf' \in Seq(Bytes) /\ Len(buf') = Len(buf) + n
      /\ wire' \in Seq(Bytes) /\ Len(wire') = Len(wire) - n
      /\ \A k \in 1..Len(buf) : buf'[k] = buf[k]
      /\ \A k \in 1..(Len(buf) + n) : buf'[k] = all[b + k]
      /\ \A k \in 1..(Len(wire) - n) : wire'[k] = all[b + (Len(buf) + n) + k]
    <2> HIDE DEF b
    <2>1. /\ \A k \in 1..Len(buf) : buf[k] = all[b + k]
          /\ \A k \in 1..Len(wire) : wire[k] = all[b + Len(buf) + k]
        BY <1>4
    <2>2. buf \in Seq(Bytes) /\ wire \in Seq(Bytes) /\ b \in Nat
        BY <1>1
    <2> DEFINE x == buf \o SubSeq(wire, 1, n)
               y == SubSeq(wire, n + 1, Len(wire))
    <2>3. /\ x \in Seq(Bytes) /\ Len(x) = Len(buf) + n
          /\ y \in Seq(Bytes) /\ Len(y) = Len(wire) - n
          /\ \A k \in 1..Len(buf) : x[k] = buf[k]
          /\ \A k \in 1..(Len(buf) + n) : x[k] = all[b + k]
          /\ \A k \in 1..(Len(wire) - n) : y[k] = all[b + (Len(buf) + n) + k]
        BY ONLY <2>1, <2>2, n \in 1..Len(wire), BytesMove
    <2> HIDE DEF x, y
    <2>4. buf' = x /\ wire' = y
        BY <1>2 DEF x, y
    <2>5. QED
        BY ONLY <2>3, <2>4
<1>6. TypeOK'
    OBVIOUS
<1>7. Taken' = Taken
    BY <1>3 DEF Taken
<1>8. Queues' /\ Laid(accepted, all, end)' /\ Ends'
    BY <1>0, <1>3, <1>7 DEF Queues, Laid, Ends, Up
<1>9. Carried(all, end)'
    <2> DEFINE x == b + Len(buf')
    <2>1. /\ end[Len(got)]' = b /\ end[Len(got)]' + Len(buf)' = x
          /\ (end[Taken] - Len(rest))' = r /\ stream' = stream
        BY <1>3, <1>7
    <2>2. x + Len(wire') = w + Len(wire)
        <3>1. Len(buf') = Len(buf) + n /\ Len(wire') = Len(wire) - n
            BY <1>5
        <3> HIDE DEF b
        <3>2. b + (Len(buf) + n) + (Len(wire) - n) = b + Len(buf) + Len(wire)
            BY <1>1, <1>n
        <3>3. QED
            BY <3>1, <3>2
    <2>3. /\ \A k \in 1..Len(buf') : buf'[k] = all[b + k]
          /\ \A k \in 1..Len(wire') : wire'[k] = all[x + k]
          /\ \A k \in 1..Len(rest') : rest'[k] = all[r + k]
        BY <1>3, <1>4, <1>5
    <2>4. x + Len(wire') <= r /\ (stream # "cut" => x + Len(wire') = r)
        BY <1>4, <2>2
    <2> HIDE DEF x, w, r, b
    <2>5. QED
        BY <2>1, <2>3, <2>4 DEF Carried
<1>10. QED
    BY <1>6, <1>8, <1>9 DEF State

(* The writer takes up the next frame.                                     *)
LEMMA StepTakeJob ==
    ASSUME NEW all, NEW end, State(all, end), TakeJob, TypeOK'
    PROVE  State(all, end)'
<1>0. /\ TypeOK /\ Queues /\ Ends /\ Laid(accepted, all, end)
      /\ Carried(all, end)
    BY DEF State
<1> DEFINE b == end[Len(got)]
           w == b + Len(buf)
<1>1. /\ Len(accepted) \in Nat /\ Len(inbox) \in Nat /\ Taken \in Nat
      /\ Len(buf) \in Nat /\ Len(wire) \in Nat /\ b \in Nat
      /\ Len(got) \in 0..Taken
    BY <1>0, Places
<1>2. /\ rest = <<>> /\ inbox # <<>> /\ sender = "run"
      /\ rest' = Head(inbox) /\ inbox' = Tail(inbox)
      /\ UNCHANGED <<role, sender, wire, stream, buf, receiver, offered,
                     accepted, got>>
    BY DEF TakeJob
<1>3. /\ Head(inbox) = inbox[1] /\ 1 \in 1..Len(inbox)
      /\ inbox' \in Seq(Seq(Bytes)) /\ Len(inbox') = Len(inbox) - 1
      /\ \A k \in 1..Len(inbox') : inbox'[k] = inbox[k + 1]
    BY <1>0, <1>2, TailFacts DEF TypeOK
<1>4. Taken' = Taken + 1 /\ Taken + 1 \in 1..Len(accepted)
    BY <1>1, <1>2, <1>3 DEF Taken, Queues
<1> DEFINE f == accepted[Taken + 1]
<1>5. f \in Bodies /\ Len(f) <= MaxBody /\ rest' = Encode(f)
    BY <1>0, <1>2, <1>3, <1>4 DEF Queues, TypeOK
<1>6. /\ rest' \in Seq(Bytes) /\ Len(rest') = Width + Len(f)
      /\ Len(f) \in Nat
    BY <1>5, FrameFacts
<1>7. /\ end[Taken + 1] = end[Taken] + Width + Len(f)
      /\ \A k \in 1..(Width + Len(f)) : all[end[Taken] + k] = Encode(f)[k]
      /\ end[Taken] \in Nat
    <2>1. Taken + 1 - 1 = Taken /\ Taken \in 0..Len(accepted)
        BY <1>1, <1>4
    <2>2. PICK i \in 1..Len(accepted) : i = Taken + 1
        BY <1>4
    <2>3. i - 1 = Taken /\ f = accepted[i]
        BY <2>1, <2>2
    <2>4. /\ end[i] = end[i - 1] + Width + Len(accepted[i])
          /\ \A k \in 1..(Width + Len(accepted[i])) :
                all[end[i - 1] + k] = Encode(accepted[i])[k]
        BY ONLY <1>0 DEF Laid
    <2>5. end[Taken] \in Nat
        BY ONLY <1>0, <2>1 DEF Laid
    <2>6. QED
        BY ONLY <2>2, <2>3, <2>4, <2>5
<1>8. TypeOK'
    OBVIOUS
<1>9. Queues'
    <2>1. /\ Len(inbox') <= Len(accepted') /\ Len(got') <= Taken'
        <3>1. accepted' = accepted /\ got' = got
            BY <1>2
        <3>2. Len(inbox) <= Len(accepted) /\ Len(inbox') <= Len(inbox)
            BY <1>0, <1>1, <1>3 DEF Queues
        <3>3. Len(got) <= Taken + 1
            BY <1>1
        <3>4. Len(inbox') <= Len(accepted)
            BY <1>1, <1>3, <3>2
        <3>5. QED
            BY <1>4, <3>1, <3>3, <3>4
    <2>2. ASSUME NEW i \in 1..Len(inbox')
          PROVE  inbox'[i] = Encode(accepted[Taken' + i])
        <3>1. i + 1 \in 1..Len(inbox) /\ Taken' + i = Taken + (i + 1)
            BY <1>1, <1>3, <1>4
        <3>2. QED
            BY <1>0, <1>3, <3>1 DEF Queues
    <2>3. QED
        BY <1>0, <1>2, <2>1, <2>2 DEF Queues
<1>10. Ends'
    BY <1>0, <1>2 DEF Ends, Up
<1>11. Carried(all, end)'
    <2> DEFINE e == end[Taken]
               l == Len(f)
    <2>1. /\ end[Len(got)]' = b /\ end[Len(got)]' + Len(buf)' = w
          /\ (end[Taken] - Len(rest))' = end[Taken + 1] - Len(rest')
        BY <1>2, <1>4
    <2>2. end[Taken + 1] - Len(rest') = e
        <3>1. end[Taken + 1] = e + Width + l /\ Len(rest') = Width + l
              /\ e \in Nat /\ l \in Nat /\ Width \in Nat
            BY <1>6, <1>7 DEF Width
        <3> HIDE DEF e, l
        <3>2. e + Width + l - (Width + l) = e
            BY <3>1
        <3>3. QED
            BY <3>1, <3>2
    <2>3. Len(rest) = 0 /\ e - Len(rest) = e
        BY <1>2, <1>7
    <2>4. /\ w + Len(wire) <= e /\ (stream # "cut" => w + Len(wire) = e)
          /\ \A k \in 1..Len(buf) : buf[k] = all[b + k]
          /\ \A k \in 1..Len(wire) : wire[k] = all[w + k]
        BY <1>0, <2>3 DEF Carried
    <2>5. \A k \in 1..Len(rest') : rest'[k] = all[e + k]
        BY <1>5, <1>6, <1>7
    <2> HIDE DEF e, b, w
    <2>6. QED
        BY <1>2, <2>1, <2>2, <2>4, <2>5 DEF Carried
<1>12. QED
    BY <1>0, <1>2, <1>8, <1>9, <1>10, <1>11 DEF State, Laid

(* The receiver's frame is frame Len(got) + 1 of those that were accepted, *)
(* and so is the length that is read from it.                              *)
LEMMA Reading ==
    ASSUME NEW all, NEW end, State(all, end), Len(buf) >= Width
    PROVE  LET g == Len(got)
               f == accepted[g + 1]
           IN  /\ g + 1 \in 1..Taken /\ g + 1 \in 1..Len(accepted)
               /\ f \in Bodies /\ Len(f) \in Nat /\ Len(f) <= MaxBody
               /\ end[g + 1] = end[g] + Width + Len(f)
               /\ \A k \in 1..(Width + Len(f)) : all[end[g] + k] = Encode(f)[k]
               /\ Needed(buf) = Width + Len(f)
<1>0. /\ TypeOK /\ Queues /\ Laid(accepted, all, end) /\ Carried(all, end)
    BY DEF State
<1> DEFINE g == Len(got)
           f == accepted[g + 1]
           b == end[g]
           e == end[Taken]
<1>1. /\ Len(accepted) \in Nat /\ Taken \in 0..Len(accepted) /\ g \in 0..Taken
      /\ Len(buf) \in Nat /\ Len(wire) \in Nat /\ Len(rest) \in Nat
      /\ b \in Nat /\ e \in Nat
    BY <1>0, Places
<1>2. g # Taken
    <2>1. b + Len(buf) + Len(wire) <= e - Len(rest)
        BY <1>0 DEF Carried
    <2>2. Len(buf) >= 4
        BY DEF Width
    <2>3. b # e
        <3> HIDE DEF b, e
        <3>1. QED
            BY <1>1, <2>1, <2>2
    <2>4. QED
        BY <2>3
<1>3. g + 1 \in 1..Taken /\ g + 1 \in 1..Len(accepted)
    BY <1>1, <1>2
<1>4. f \in Bodies /\ Len(f) <= MaxBody
    BY <1>0, <1>3 DEF TypeOK, Queues
<1>5. /\ end[g + 1] = b + Width + Len(f)
      /\ \A k \in 1..(Width + Len(f)) : all[b + k] = Encode(f)[k]
    <2>1. g + 1 - 1 = g
        BY <1>1
    <2>2. QED
        BY <1>0, <1>3, <2>1 DEF Laid
<1>6. /\ Len(f) \in Nat
      /\ \A x \in Seq(Bytes) :
            Len(x) >= Width /\ (\A k \in 1..Width : x[k] = Encode(f)[k])
            => Needed(x) = Width + Len(f)
    <2> HIDE DEF f
    <2>1. QED
        BY <1>4, FrameFacts
<1>7. \A k \in 1..Width : buf[k] = Encode(f)[k]
    <2>1. \A k \in 1..Len(buf) : buf[k] = all[b + k]
        BY <1>0 DEF Carried
    <2> HIDE DEF f, b
    <2>2. ASSUME NEW k \in 1..Width PROVE buf[k] = Encode(f)[k]
        <3>1. k \in 1..Len(buf) /\ k \in 1..(Width + Len(f))
            BY <1>1, <1>6 DEF Width
        <3>2. QED
            BY <1>5, <2>1, <3>1
    <2>3. QED
        BY <2>2
<1>8. Needed(buf) = Width + Len(f)
    BY <1>0, <1>6, <1>7 DEF TypeOK
<1>9. QED
    BY <1>3, <1>4, <1>5, <1>6, <1>8

(* A frame was read: it is the one that was accepted.                      *)
LEMMA ReceiveFacts ==
    ASSUME NEW all, NEW end, State(all, end), Receive
    PROVE  /\ Len(got) + 1 \in 1..Taken
           /\ accepted[Len(got) + 1] \in Bodies
           /\ Len(buf) = Width + Len(accepted[Len(got) + 1])
           /\ got' = Append(got, accepted[Len(got) + 1])
           /\ UNCHANGED receiver
<1> DEFINE g == Len(got)
           f == accepted[g + 1]
           b == end[g]
           part == Body
<1>1. /\ g + 1 \in 1..Taken /\ f \in Bodies /\ Len(f) \in Nat
      /\ Len(f) <= MaxBody /\ Len(buf) = Width + Len(f)
      /\ \A k \in 1..(Width + Len(f)) : all[b + k] = Encode(f)[k]
    BY Reading DEF Receive, Whole
<1>2. buf \in Seq(Bytes) /\ \A k \in 1..Len(buf) : buf[k] = all[b + k]
    BY DEF State, TypeOK, Carried
<1>3. /\ f \in Seq(Bytes)
      /\ \A k \in 1..Len(f) : Encode(f)[Width + k] = f[k]
    <2>1. f \in Seq(Bytes)
        BY <1>1, FramingAssumption
    <2> HIDE DEF f
    <2>2. QED
        BY <1>1, <2>1, FrameFacts
<1> HIDE DEF f, b
<1>4. /\ part \in Seq(Bytes) /\ Len(part) = Len(f)
      /\ \A k \in 1..Len(f) : part[k] = buf[Width + k]
    <2> DEFINE n == Len(buf)
    <2>1. n \in 0..Len(buf) /\ Width \in Nat /\ Width <= n /\ n - Width = Len(f)
        BY <1>1 DEF Width
    <2>2. QED
        BY <1>2, <2>1, PartFacts DEF Body
<1>5. ASSUME NEW k \in 1..Len(f) PROVE part[k] = f[k]
    <2>1. Width + k \in 1..(Width + Len(f)) /\ Width + k \in 1..Len(buf)
        BY <1>1 DEF Width
    <2>2. part[k] = Encode(f)[Width + k]
        BY <1>1, <1>2, <1>4, <2>1
    <2>3. QED
        BY <1>3, <2>2
<1> HIDE DEF part
<1>6. part = f
    BY <1>3, <1>4, <1>5, SameSequence
<1>7. ~TooLarge(Len(Body)) /\ Body \notin Junk
    BY <1>1, <1>6, FramingAssumption DEF TooLarge, part
<1>8. QED
    BY <1>1, <1>6, <1>7 DEF Receive, Deliver, part, f

LEMMA StepReceive ==
    ASSUME NEW all, NEW end, State(all, end), Receive, TypeOK'
    PROVE  State(all, end)'
<1>0. /\ TypeOK /\ Queues /\ Ends /\ Laid(accepted, all, end)
      /\ Carried(all, end)
    BY DEF State
<1> DEFINE g == Len(got)
           f == accepted[g + 1]
           r == end[Taken] - Len(rest)
           w == end[g] + Len(buf)
<1>1. /\ g + 1 \in 1..Taken /\ f \in Bodies
      /\ Len(buf) = Width + Len(f) /\ got' = Append(got, f)
    BY ReceiveFacts
<1>2. /\ buf' = <<>>
      /\ UNCHANGED <<role, inbox, rest, sender, wire, stream, offered,
                     accepted, receiver>>
    BY ReceiveFacts DEF Receive
<1>3. end[g + 1] = w /\ w \in Nat
    <2>1. end[g + 1] = end[g] + Width + Len(f) /\ Len(f) \in Nat
        BY Reading DEF Receive, Whole
    <2>2. end[g] \in Nat
        BY <1>0, Places
    <2> DEFINE x == end[g]
               l == Len(f)
    <2>3. x + Width + l = x + (Width + l) /\ x + (Width + l) \in Nat
        <3> HIDE DEF x, l
        <3>1. QED
            BY <2>1, <2>2 DEF Width, x, l
    <2>4. QED
        BY <1>1, <2>1, <2>3
<1>4. /\ Len(got') = g + 1
      /\ g \in Nat
      /\ \A k \in 1..g : got'[k] = got[k]
      /\ got'[g + 1] = f
    <2>1. got \in Seq(Seq(Bytes)) /\ f \in Seq(Bytes)
        BY <1>0, <1>1, FramingAssumption DEF TypeOK
    <2> HIDE DEF f
    <2>2. QED
        BY <1>1, <2>1, AppendFacts
<1>5. Taken' = Taken
    BY <1>2 DEF Taken
<1>6. TypeOK'
    OBVIOUS
<1>7. Queues'
    <2>1. Len(got') <= Taken'
        BY <1>1, <1>4, <1>5
    <2>2. ASSUME NEW i \in 1..(g + 1) PROVE got'[i] = accepted[i]
        <3>1. CASE i = g + 1
            BY <1>4, <3>1
        <3>2. CASE i # g + 1
            <4>1. i \in 1..g
                BY <1>4, <3>2
            <4>2. QED
                BY <1>0, <1>4, <4>1 DEF Queues
        <3>3. QED
            BY <3>1, <3>2
    <2>3. QED
        BY <1>0, <1>2, <1>4, <1>5, <2>1, <2>2 DEF Queues
<1>8. Ends' /\ Laid(accepted, all, end)'
    BY <1>0, <1>2 DEF Receive, Ends, Laid
<1>9. Carried(all, end)'
    <2>1. /\ end[Len(got)]' = w /\ Len(buf)' = 0
          /\ (end[Taken] - Len(rest))' = r /\ w + Len(buf)' = w
        BY <1>2, <1>3, <1>4, <1>5
    <2>2. /\ w + Len(wire) <= r /\ (stream # "cut" => w + Len(wire) = r)
          /\ \A k \in 1..Len(wire) : wire[k] = all[w + k]
          /\ \A k \in 1..Len(rest) : rest[k] = all[r + k]
        BY <1>0 DEF Carried
    <2> HIDE DEF w, r
    <2>3. QED
        BY <1>2, <2>1, <2>2 DEF Carried
<1>10. QED
    BY <1>6, <1>7, <1>8, <1>9 DEF State

(* The receiver meets the end of the stream: if the sender finished it     *)
(* with nothing left to write, then between frames and after the last one. *)
LEMMA StepEof ==
    ASSUME NEW all, NEW end, State(all, end), Eof, TypeOK'
    PROVE  State(all, end)'
<1>0. /\ TypeOK /\ Queues /\ Ends /\ Laid(accepted, all, end)
      /\ Carried(all, end)
    BY DEF State
<1>1. /\ ~Whole /\ wire = <<>> /\ stream # "open" /\ receiver' = "ended"
      /\ UNCHANGED <<role, inbox, rest, sender, wire, stream, buf, offered,
                     accepted, got>>
    BY DEF Eof
<1> DEFINE g == Len(got)
           n == Len(accepted)
           f == accepted[g + 1]
           b == end[g]
<1>2. /\ n \in Nat /\ Len(buf) \in Nat /\ b \in Nat
      /\ Taken \in 0..n /\ g \in 0..Taken
    BY <1>0, Places
<1>3. ASSUME Up PROVE got = accepted
    <2>1. stream = "fin" /\ Len(inbox) = 0 /\ Len(rest) = 0 /\ Len(wire) = 0
        BY <1>1, <1>3 DEF Up
    <2>2. Taken = n
        BY <1>2, <2>1 DEF Taken
    <2>3. b + Len(buf) = end[n] /\ end[n] \in Nat
        <3>1. b + Len(buf) + Len(wire) = end[Taken] - Len(rest)
            BY <1>0, <2>1 DEF Carried
        <3>2. end[n] \in Nat
            BY <1>0, <2>2, Places
        <3> HIDE DEF b, n
        <3>3. QED
            BY <1>2, <2>1, <2>2, <3>1, <3>2
    <2>4. ASSUME g # n PROVE FALSE
        <3>1. /\ g + 1 \in 1..n /\ g + 1 \in 0..n /\ n \in 0..n
              /\ g + 1 <= n /\ g + 1 - 1 = g
            BY <1>2, <2>4
        <3>2. /\ end[g + 1] <= end[n]
              /\ end[g + 1] = b + Width + Len(f)
            BY <1>0, <3>1 DEF Laid
        <3>3. Len(f) \in Nat
            <4>1. accepted \in Seq(Bodies) /\ Bodies \subseteq Seq(Bytes)
                BY <1>0, FramingAssumption DEF TypeOK
            <4>2. QED
                BY ONLY <3>1, <4>1
        <3>4. Len(buf) >= Width + Len(f)
            <4> HIDE DEF b, f, n
            <4>1. QED
                BY <1>2, <2>3, <3>2, <3>3 DEF Width
        <3>5. Len(buf) >= Width
            BY <1>2, <3>3, <3>4 DEF Width
        <3>6. Needed(buf) = Width + Len(f)
            BY <3>5, Reading
        <3>7. Len(buf) = Needed(buf)
            <4>1. Len(buf) <= Needed(buf)
                BY <1>0 DEF TypeOK
            <4>2. QED
                BY ONLY <1>2, <3>3, <3>4, <3>6, <4>1 DEF Width
        <3>8. QED
            BY <1>1, <3>5, <3>7 DEF Whole
    <2>5. Len(got) = Len(accepted) /\ \A i \in 1..Len(got) : got[i] = accepted[i]
        BY <1>0, <2>4 DEF Queues
    <2>6. got \in Seq(Seq(Bytes)) /\ accepted \in Seq(Seq(Bytes))
        BY <1>0, FramingAssumption DEF TypeOK
    <2>7. QED
        BY ONLY <2>5, <2>6, SameSequence
<1>4. Taken' = Taken
    BY <1>1 DEF Taken
<1>5. Ends'
    BY <1>0, <1>1, <1>3 DEF Ends, Up
<1>6. TypeOK' /\ Queues' /\ Laid(accepted, all, end)' /\ Carried(all, end)'
    BY <1>0, <1>1, <1>4 DEF Queues, Laid, Carried
<1>7. QED
    BY <1>5, <1>6 DEF State

(* What was on its way when the connection was lost is a prefix of it.     *)
LEMMA StepCut ==
    ASSUME NEW all, NEW end, State(all, end), Cut, TypeOK'
    PROVE  State(all, end)'
<1>0. /\ TypeOK /\ Queues /\ Ends /\ Laid(accepted, all, end)
      /\ Carried(all, end)
    BY DEF State
<1>1. PICK n \in 0..Len(wire) : wire' = SubSeq(wire, 1, n)
    BY DEF Cut
<1>2. /\ stream # "cut" /\ stream' = "cut"
      /\ UNCHANGED <<role, inbox, rest, sender, buf, receiver, offered,
                     accepted, got>>
    BY DEF Cut
<1>3. /\ wire' \in Seq(Bytes) /\ Len(wire') = n /\ n <= Len(wire)
      /\ n \in Nat /\ Len(wire) \in Nat
      /\ \A k \in 1..n : wire'[k] = wire[k] /\ k \in 1..Len(wire)
    BY <1>0, <1>1, PrefixFacts DEF TypeOK
<1>4. Taken' = Taken
    BY <1>2 DEF Taken
<1>5. TypeOK'
    OBVIOUS
<1>6. Queues' /\ Laid(accepted, all, end)' /\ Ends'
    BY <1>0, <1>2, <1>4 DEF Queues, Laid, Ends, Up
<1>7. Carried(all, end)'
    <2> DEFINE b == end[Len(got)]
               w == b + Len(buf)
               e == end[Taken]
    <2>1. /\ end[Len(got)]' = b /\ end[Len(got)]' + Len(buf)' = w
          /\ (end[Taken] - Len(rest))' = e - Len(rest)
        BY <1>2, <1>4
    <2>2. w \in Nat /\ e \in Nat /\ Len(rest) \in Nat
        BY <1>0, Places
    <2>3. /\ w + Len(wire) <= e - Len(rest)
          /\ \A k \in 1..Len(buf) : buf[k] = all[b + k]
          /\ \A k \in 1..Len(wire) : wire[k] = all[w + k]
          /\ \A k \in 1..Len(rest) : rest[k] = all[e - Len(rest) + k]
        BY <1>0 DEF Carried
    <2> HIDE DEF b, w, e
    <2>4. w + Len(wire') <= e - Len(rest)
        BY <1>3, <2>2, <2>3
    <2>5. QED
        BY <1>2, <1>3, <2>1, <2>3, <2>4 DEF Carried
<1>8. QED
    BY <1>5, <1>6, <1>7 DEF State

(* The sender ends, its stream lost or finished.                           *)
LEMMA StepEnd ==
    ASSUME NEW all, NEW end, State(all, end), WriteFails \/ DropStream, TypeOK'
    PROVE  State(all, end)'
<1>0. /\ TypeOK /\ Queues /\ Ends /\ Laid(accepted, all, end)
      /\ Carried(all, end)
    BY DEF State
<1>1. /\ sender = "run" /\ sender' = "ended"
      /\ stream' = IF stream = "open" THEN "fin" ELSE stream
      /\ UNCHANGED <<role, inbox, rest, wire, buf, receiver, offered, accepted,
                     got>>
    BY DEF WriteFails, DropStream
<1>2. Taken' = Taken
    BY <1>1 DEF Taken
<1>3. Ends'
    BY <1>0, <1>1 DEF Ends, Up
<1>4. TypeOK' /\ Queues' /\ Laid(accepted, all, end)' /\ Carried(all, end)'
    BY <1>0, <1>1, <1>2 DEF Queues, Laid, Carried
<1>5. QED
    BY <1>3, <1>4 DEF State

(* A value is offered: its frame goes behind the others, or nowhere.       *)
LEMMA StepOffer ==
    ASSUME NEW all, NEW end, State(all, end), NEW v \in Bodies, Offer(v), TypeOK'
    PROVE  Inv'
<1>0. /\ TypeOK /\ Queues /\ Ends /\ Laid(accepted, all, end)
      /\ Carried(all, end)
    BY DEF State
<1>1. /\ sender = "run"
      /\ role = "server" => inbox = <<>> /\ rest = <<>>
      /\ UNCHANGED <<role, rest, wire, buf, receiver, got>>
    BY DEF Offer
<1>2. CASE ~(Len(v) <= MaxBody)
    <2>1. /\ UNCHANGED <<inbox, accepted>>
          /\ \/ UNCHANGED <<sender, stream>>
             \/ /\ sender' = "ended"
                /\ stream' = IF stream = "open" THEN "fin" ELSE stream
        BY <1>2 DEF Offer
    <2>2. Taken' = Taken
        BY <2>1 DEF Taken
    <2>3. Ends'
        BY <1>0, <1>1, <2>1 DEF Ends, Up
    <2>4. TypeOK' /\ Queues' /\ Laid(accepted, all, end)' /\ Carried(all, end)'
        BY <1>0, <1>1, <2>1, <2>2 DEF Queues, Laid, Carried
    <2>5. QED
        BY <2>3, <2>4 DEF State, Inv
<1>3. CASE Len(v) <= MaxBody
    <2>1. /\ inbox' = Append(inbox, Encode(v))
          /\ accepted' = Append(accepted, v)
          /\ UNCHANGED <<sender, stream>>
        BY <1>3 DEF Offer
    <2>2. PICK s, f :
              /\ Laid(accepted', s, f)
              /\ \A i \in 0..Len(accepted) : f[i] = end[i]
              /\ \A k \in 1..Len(all) : s[k] = all[k]
        <3> DEFINE t == all \o Encode(v)
                   g == [i \in 0..Len(accepted') |->
                            IF i <= Len(accepted) THEN end[i]
                            ELSE Len(all) + Width + Len(v)]
        <3>1. /\ Laid(accepted', t, g)
              /\ \A i \in 0..Len(accepted) : g[i] = end[i]
              /\ \A k \in 1..Len(all) : t[k] = all[k]
            BY <1>0, <1>3, <2>1, LaidGrows
        <3> HIDE DEF t, g
        <3>2. QED
            BY <3>1
    <2>3. /\ Len(accepted) \in Nat /\ Len(inbox) \in Nat /\ Len(got) \in Nat
          /\ Taken \in 0..Len(accepted) /\ Len(got) \in 0..Taken
          /\ Len(got) \in 0..Len(accepted)
        BY <1>0, Places
    <2>4. /\ inbox' \in Seq(Seq(Bytes)) /\ Len(inbox') = Len(inbox) + 1
          /\ \A k \in 1..Len(inbox) : inbox'[k] = inbox[k]
          /\ inbox'[Len(inbox) + 1] = Encode(v)
        BY <1>0, <1>3, <2>1, FrameFacts, AppendFacts DEF TypeOK
    <2>5. /\ accepted' \in Seq(Bodies) /\ Len(accepted') = Len(accepted) + 1
          /\ \A k \in 1..Len(accepted) : accepted'[k] = accepted[k]
          /\ accepted'[Len(accepted) + 1] = v
        BY <1>0, <2>1, AppendFacts DEF TypeOK
    <2>6. Taken' = Taken
        BY <2>3, <2>4, <2>5 DEF Taken
    <2>7. TypeOK'
        OBVIOUS
    <2>8. Queues'
        <3>1. Len(inbox') <= Len(accepted') /\ Len(got') <= Taken'
            BY <1>0, <1>1, <2>3, <2>4, <2>5, <2>6 DEF Queues
        <3>2. ASSUME NEW i \in 1..Len(inbox')
              PROVE  inbox'[i] = Encode(accepted'[Taken + i])
            <4>1. CASE i = Len(inbox) + 1
                <5>1. Taken + i = Len(accepted) + 1
                    BY <2>3, <4>1 DEF Taken
                <5>2. QED
                    BY <2>4, <2>5, <4>1, <5>1
            <4>2. CASE i # Len(inbox) + 1
                <5>1. i \in 1..Len(inbox) /\ Taken + i \in 1..Len(accepted)
                    BY <2>3, <2>4, <4>2 DEF Taken
                <5>2. QED
                    BY <1>0, <2>4, <2>5, <5>1 DEF Queues
            <4>3. QED
                BY <4>1, <4>2
        <3>3. ASSUME NEW i \in 1..Len(accepted')
              PROVE  Len(accepted'[i]) <= MaxBody
            <4>1. \A k \in 1..Len(accepted) : Len(accepted[k]) <= MaxBody
                BY <1>0 DEF Queues
            <4>2. i = Len(accepted) + 1 \/ i \in 1..Len(accepted)
                BY ONLY <2>3, <2>5, i \in 1..Len(accepted')
            <4>3. QED
                BY ONLY <1>3, <2>5, <4>1, <4>2
        <3>4. ASSUME NEW i \in 1..Len(got) PROVE got[i] = accepted'[i]
            <4>1. i \in 1..Len(accepted)
                BY <2>3
            <4>2. QED
                BY <1>0, <2>5, <4>1 DEF Queues
        <3>5. QED
            BY <1>1, <2>6, <3>1, <3>2, <3>3, <3>4 DEF Queues
    <2>9. Ends'
        BY <1>0, <1>1, <2>1 DEF Ends, Up
    <2>10. Carried(s, f)'
        <3> DEFINE b == end[Len(got)]
                   w == b + Len(buf)
                   e == end[Taken]
                   r == e - Len(rest)
        <3>1. /\ f[Len(got)]' = b /\ f[Len(got)]' + Len(buf)' = w
              /\ (f[Taken] - Len(rest))' = r
            BY <1>1, <2>2, <2>3, <2>6
        <3>2. /\ b \in Nat /\ Len(buf) \in Nat /\ Len(wire) \in Nat
              /\ e \in Nat /\ Len(rest) \in Nat /\ Len(all) \in Nat
              /\ e <= Len(all)
            BY <1>0, Places
        <3>3. /\ w + Len(wire) <= r /\ (stream # "cut" => w + Len(wire) = r)
              /\ \A k \in 1..Len(buf) : buf[k] = all[b + k]
              /\ \A k \in 1..Len(wire) : wire[k] = all[w + k]
              /\ \A k \in 1..Len(rest) : rest[k] = all[r + k]
            BY <1>0 DEF Carried
        <3>4. /\ \A k \in 1..Len(buf) : b + k \in 1..Len(all)
              /\ \A k \in 1..Len(wire) : w + k \in 1..Len(all)
              /\ \A k \in 1..Len(rest) : r + k \in 1..Len(all)
            <4>1. b + Len(buf) + Len(wire) <= e - Len(rest)
                BY <3>3
            <4> HIDE DEF b, e
            <4>2. QED
                BY <3>2, <4>1
        <3> HIDE DEF b, w, r
        <3>5. /\ \A k \in 1..Len(buf) : buf[k] = s[b + k]
              /\ \A k \in 1..Len(wire) : wire[k] = s[w + k]
              /\ \A k \in 1..Len(rest) : rest[k] = s[r + k]
            BY <2>2, <3>3, <3>4
        <3>6. QED
            BY <1>1, <2>1, <3>1, <3>3, <3>5 DEF Carried
    <2>11. QED
        BY <2>2, <2>7, <2>8, <2>9, <2>10 DEF State, Inv
<1>4. QED
    BY <1>2, <1>3
-----------------------------------------------------------------------------
(* What is read, whoever writes it: what the receiver has of its frame and *)
(* what is on its way stand in the stream behind the frames received.      *)

Roles ==
    /\ role \in {"client", "server", "foreign"}
    /\ stream \in {"open", "fin", "cut"} /\ receiver \in {"run", "ended"}

OnItsWay ==
    LET w == LastEnd + Len(buf)
    IN  /\ w + Len(wire) <= Len(written)
        /\ stream # "cut" => w + Len(wire) = Len(written)
        /\ wire = SubSeq(written, w + 1, w + Len(wire))

Standing ==
    /\ \A i \in 1..Len(ends) : ends[i] <= Len(written)
    /\ LastEnd + Len(buf) <= Len(written)
    /\ receiver = "run" => OnItsWay

ReadInv == TypeOK /\ Roles /\ ReadsAsWritten /\ Standing

LEMMA Numbers ==
    ASSUME TypeOK
    PROVE  /\ Len(buf) \in Nat /\ Len(wire) \in Nat /\ Len(written) \in Nat
           /\ Len(ends) \in Nat /\ LastEnd \in Nat
           /\ \A i \in 1..Len(ends) : ends[i] \in Nat /\ Start(i) \in Nat
<1>1. /\ ends \in Seq(Nat) /\ buf \in Seq(Bytes) /\ wire \in Seq(Bytes)
      /\ written \in Seq(Bytes)
    BY DEF TypeOK
<1>2. Len(ends) \in Nat /\ \A i \in 1..Len(ends) : ends[i] \in Nat
    BY <1>1
<1>3. LastEnd \in Nat
    <2>1. ends # <<>> => Len(ends) \in 1..Len(ends)
        BY <1>1
    <2>2. QED
        BY <1>2, <2>1 DEF LastEnd
<1>4. ASSUME NEW i \in 1..Len(ends) PROVE Start(i) \in Nat
    <2>1. i # 1 => i - 1 \in 1..Len(ends)
        BY <1>2
    <2>2. QED
        BY <1>2, <2>1 DEF Start
<1>5. QED
    BY <1>1, <1>2, <1>3, <1>4

(* A part of a sequence is a part of every longer one.                     *)
LEMMA PartGrows ==
    ASSUME NEW S, NEW s \in Seq(S), NEW t \in Seq(S),
           NEW a \in Nat, NEW b \in 0..Len(s)
    PROVE  SubSeq(s \o t, a + 1, b) = SubSeq(s, a + 1, b)
<1>1. /\ s \o t \in Seq(S) /\ Len(s) \in Nat /\ Len(s) <= Len(s \o t)
      /\ Len(s \o t) \in Nat
      /\ \A k \in 1..Len(s) : (s \o t)[k] = s[k]
    BY JoinFacts
<1> DEFINE u == s \o t
<1> HIDE DEF u
<1>2. CASE a <= b
    <2>1. /\ SubSeq(s, a + 1, b) \in Seq(S) /\ Len(SubSeq(s, a + 1, b)) = b - a
          /\ \A k \in 1..(b - a) : SubSeq(s, a + 1, b)[k] = s[a + k]
        BY <1>2, PartFacts
    <2>2. /\ SubSeq(u, a + 1, b) \in Seq(S) /\ Len(SubSeq(u, a + 1, b)) = b - a
          /\ \A k \in 1..(b - a) : SubSeq(u, a + 1, b)[k] = u[a + k]
        <3>1. u \in Seq(S) /\ b \in 0..Len(u)
            BY <1>1 DEF u
        <3>2. QED
            BY <1>2, <3>1, PartFacts
    <2>3. \A k \in 1..(b - a) : u[a + k] = s[a + k]
        BY <1>1, <1>2 DEF u
    <2>4. SubSeq(u, a + 1, b) = SubSeq(s, a + 1, b)
        <3> DEFINE x == SubSeq(u, a + 1, b)
                   y == SubSeq(s, a + 1, b)
        <3>1. /\ x \in Seq(S) /\ y \in Seq(S) /\ Len(x) = b - a /\ Len(y) = b - a
              /\ \A k \in 1..(b - a) : x[k] = y[k]
            BY <2>1, <2>2, <2>3
        <3> HIDE DEF x, y
        <3>2. x = y
            BY <3>1, SameSequence
        <3>3. QED
            BY <3>2 DEF x, y
    <2>5. QED
        BY <2>4 DEF u
<1>3. CASE b < a
    BY <1>3
<1>4. QED
    BY <1>2, <1>3

(* Sequences are parts element by element.                                 *)
LEMMA PartOf ==
    ASSUME NEW S, NEW s \in Seq(S), NEW x \in Seq(S), NEW p \in Nat,
           p + Len(x) <= Len(s)
    PROVE  x = SubSeq(s, p + 1, p + Len(x))
           <=> \A k \in 1..Len(x) : x[k] = s[p + k]
<1> DEFINE y == SubSeq(s, p + 1, p + Len(x))
<1>1. /\ y \in Seq(S) /\ Len(y) = Len(x)
      /\ \A k \in 1..Len(x) : y[k] = s[p + k]
    <2>1. PICK h \in 0..Len(s) : h = p + Len(x) /\ p <= h /\ h - p = Len(x)
        OBVIOUS
    <2>2. /\ SubSeq(s, p + 1, h) \in Seq(S) /\ Len(SubSeq(s, p + 1, h)) = h - p
          /\ \A k \in 1..(h - p) : SubSeq(s, p + 1, h)[k] = s[p + k]
        BY <2>1, PartFacts
    <2>3. QED
        BY ONLY <2>1, <2>2 DEF y
<1> HIDE DEF y
<1>2. ASSUME \A k \in 1..Len(x) : x[k] = s[p + k] PROVE x = y
    BY <1>1, <1>2, SameSequence
<1>3. ASSUME x = y PROVE \A k \in 1..Len(x) : x[k] = s[p + k]
    BY <1>1, <1>3
<1>4. QED
    BY <1>2, <1>3 DEF y

(* A part of a part.                                                       *)
LEMMA PartOfPart ==
    ASSUME NEW S, NEW s \in Seq(S), NEW x \in Seq(S), NEW p \in Nat,
           p + Len(x) <= Len(s), x = SubSeq(s, p + 1, p + Len(x)),
           NEW a \in Nat, NEW b \in 0..Len(x), a <= b
    PROVE  SubSeq(x, a + 1, b) = SubSeq(s, (p + a) + 1, p + b)
<1>1. \A k \in 1..Len(x) : x[k] = s[p + k]
    BY PartOf
<1>2. PICK y : y = SubSeq(x, a + 1, b)
    OBVIOUS
<1>3. /\ y \in Seq(S) /\ Len(y) = b - a
      /\ \A k \in 1..(b - a) : y[k] = x[a + k]
    BY ONLY <1>2, x \in Seq(S), a \in Nat, b \in 0..Len(x), a <= b, PartFacts
<1>4. ASSUME NEW k \in 1..Len(y) PROVE y[k] = s[(p + a) + k]
    <2>1. a + k \in 1..Len(x) /\ p + (a + k) = (p + a) + k
        BY <1>3
    <2>2. QED
        BY <1>1, <1>3, <2>1
<1>5. p + a \in Nat /\ (p + a) + Len(y) <= Len(s) /\ (p + a) + Len(y) = p + b
    BY <1>3
<1>6. y = SubSeq(s, (p + a) + 1, (p + a) + Len(y))
    BY ONLY <1>3, <1>4, <1>5, s \in Seq(S), PartOf
<1>7. QED
    BY <1>2, <1>5, <1>6

(* What decode_frame refuses it refuses, whatever follows.                 *)
LEMMA RefusedStays ==
    ASSUME NEW t \in Seq(Bytes), written \in Seq(Bytes),
           written' = written \o t, NEW p \in Nat, Refused(p)
    PROVE  Refused(p)'
<1> DEFINE n == Length(SubSeq(written, p + 1, p + Width))
<1>1. p + Width <= Len(written) /\ p + Width + n <= Len(written)
    BY DEF Refused
<1>2. n \in Nat
    <2>1. PICK h \in 0..Len(written) : h = p + Width /\ p <= h /\ h - p = Width
        BY <1>1 DEF Width
    <2>2. PICK x : x = SubSeq(written, p + 1, h)
        OBVIOUS
    <2>3. x \in Seq(Bytes) /\ Len(x) = Width
        BY <2>1, <2>2, PartFacts
    <2>4. Length(SubSeq(x, 1, Width)) \in Nat
          /\ Length(SubSeq(x, 1, Width)) = Length(x)
        <3>1. Len(x) >= Width
            BY <2>3 DEF Width
        <3>2. QED
            BY ONLY <2>3, <3>1, LengthFacts
    <2>5. Length(x) \in Nat
        BY ONLY <2>4
    <2>6. QED
        BY <2>1, <2>2, <2>5
<1> HIDE DEF n
<1>3. Len(written) \in Nat /\ Len(written') \in Nat
      /\ Len(written) <= Len(written')
    BY JoinFacts
<1>4. SubSeq(written', p + 1, p + Width) = SubSeq(written, p + 1, p + Width)
    <2>1. p + Width \in 0..Len(written)
        BY <1>1, <1>3 DEF Width
    <2>2. QED
        BY <2>1, PartGrows
<1>5. SubSeq(written', p + Width + 1, p + Width + n)
        = SubSeq(written, p + Width + 1, p + Width + n)
    <2>1. p + Width \in Nat /\ p + Width + n \in 0..Len(written)
        BY <1>1, <1>2, <1>3 DEF Width
    <2>2. QED
        BY <2>1, PartGrows
<1>6. n > MaxBody \/ SubSeq(written, p + Width + 1, p + Width + n) \in Junk
    BY DEF Refused, n
<1>7. n = Length(SubSeq(written', p + 1, p + Width))
    BY <1>4 DEF n
<1>8. p + Width <= Len(written') /\ p + Width + n <= Len(written')
    BY <1>1, <1>2, <1>3 DEF Width
<1>9. QED
    BY <1>5, <1>6, <1>7, <1>8 DEF Refused

LEMMA ReadInit == Init => ReadInv
<1> SUFFICES ASSUME Init PROVE ReadInv
    OBVIOUS
<1>1. TypeOK /\ Roles /\ Standing
    BY FramingAssumption
    DEF Init, TypeOK, Needed, Width, Roles, Standing, OnItsWay, LastEnd
<1>2. ReadsAsWritten
    BY DEF Init, ReadsAsWritten, LastEnd
<1>3. QED
    BY <1>1, <1>2 DEF ReadInv

(* Steps that neither write nor read.                                      *)
LEMMA ReadAside ==
    ASSUME ReadInv, TypeOK',
           UNCHANGED <<role, wire, buf, got, written, ends>>,
           stream' = stream \/ (stream = "open" /\ stream' = "fin"),
           \/ UNCHANGED receiver
           \/ receiver' = "ended" /\ stream' # "open"
    PROVE  ReadInv'
<1>0. TypeOK /\ Roles /\ ReadsAsWritten /\ Standing
    BY DEF ReadInv
<1>1. Roles'
    BY <1>0 DEF Roles
<1>2. LastEnd' = LastEnd
    BY DEF LastEnd
<1>3. ReadsAsWritten'
    BY <1>0, <1>2 DEF ReadsAsWritten, Start, Refused
<1>4. Standing'
    BY <1>0, <1>2 DEF Standing, OnItsWay, Roles
<1>5. QED
    BY <1>1, <1>3, <1>4 DEF ReadInv

(* The stream takes more bytes.                                            *)
LEMMA ReadGrows ==
    ASSUME ReadInv, TypeOK', NEW t \in Seq(Bytes), stream = "open",
           wire' = wire \o t, written' = written \o t,
           UNCHANGED <<role, stream, buf, receiver, got, ends>>
    PROVE  ReadInv'
<1>0. TypeOK /\ Roles /\ ReadsAsWritten /\ Standing
    BY DEF ReadInv
<1>1. /\ Len(buf) \in Nat /\ Len(wire) \in Nat /\ Len(written) \in Nat
      /\ LastEnd \in Nat /\ Len(t) \in Nat
      /\ \A i \in 1..Len(ends) : ends[i] \in Nat /\ Start(i) \in Nat
    BY <1>0, Numbers
<1>2. wire \in Seq(Bytes) /\ written \in Seq(Bytes)
    BY <1>0 DEF TypeOK
<1>3. /\ Len(written') = Len(written) + Len(t)
      /\ Len(wire') = Len(wire) + Len(t)
    BY <1>2, JoinFacts
<1>4. LastEnd' = LastEnd /\ \A i : Start(i)' = Start(i)
    BY DEF LastEnd, Start
<1>5. Roles'
    BY <1>0 DEF Roles
<1>6. ReadsAsWritten'
    <2>1. ASSUME NEW i \in 1..Len(got)
          PROVE  Encode(got[i]) = SubSeq(written', Start(i) + 1, ends[i])
        <3>1. i \in 1..Len(ends)
            BY <1>0 DEF ReadsAsWritten
        <3>2. Start(i) \in Nat /\ ends[i] \in 0..Len(written)
            BY <1>0, <1>1, <3>1 DEF Standing
        <3>3. SubSeq(written', Start(i) + 1, ends[i])
                = SubSeq(written, Start(i) + 1, ends[i])
            BY <1>2, <3>2, PartGrows
        <3>4. QED
            BY <1>0, <3>3 DEF ReadsAsWritten
    <2>2. buf = SubSeq(written', LastEnd + 1, LastEnd + Len(buf))
        <3>1. LastEnd + Len(buf) \in 0..Len(written)
            BY <1>0, <1>1 DEF Standing
        <3>2. SubSeq(written', LastEnd + 1, LastEnd + Len(buf))
                = SubSeq(written, LastEnd + 1, LastEnd + Len(buf))
            BY <1>1, <1>2, <3>1, PartGrows
        <3>3. QED
            BY <1>0, <3>2 DEF ReadsAsWritten
    <2>3. receiver = "ended" => Refused(LastEnd)'
        <3> SUFFICES ASSUME receiver = "ended" PROVE Refused(LastEnd)'
            OBVIOUS
        <3>1. PICK p \in Nat : p = LastEnd
            BY <1>1
        <3>2. Refused(p)
            BY <1>0, <3>1 DEF ReadsAsWritten
        <3>3. Refused(p)'
            BY <1>2, <3>2, RefusedStays
        <3>4. QED
            BY <1>4, <3>1, <3>3 DEF Refused
    <2>4. QED
        BY <1>0, <1>4, <2>1, <2>2, <2>3 DEF ReadsAsWritten
<1>7. Standing'
    <2>1. \A i \in 1..Len(ends) : ends[i] <= Len(written')
        BY <1>0, <1>1, <1>3 DEF Standing
    <2>2. LastEnd + Len(buf) <= Len(written')
        BY <1>0, <1>1, <1>3 DEF Standing
    <2>3. ASSUME receiver = "run" PROVE OnItsWay'
        <3> DEFINE w == LastEnd + Len(buf)
        <3>1. /\ w + Len(wire) = Len(written)
              /\ wire = SubSeq(written, w + 1, w + Len(wire))
            BY <1>0, <2>3 DEF Standing, OnItsWay
        <3>2. w \in Nat
            BY <1>1
        <3> HIDE DEF w
        <3>n. w + Len(wire) = Len(written)
            BY ONLY <3>1
        <3>3. w + Len(wire') = Len(written')
            BY ONLY <1>1, <1>3, <3>n, <3>2
        <3>4. \A k \in 1..Len(wire) : wire[k] = written[w + k]
            <4>1. w + Len(wire) <= Len(written)
                BY <1>1, <3>1
            <4>2. QED
                BY ONLY <1>2, <3>1, <3>2, <4>1, PartOf
        <3>5. ASSUME NEW k \in 1..Len(wire') PROVE wire'[k] = written'[w + k]
            <4>1. CASE k <= Len(wire)
                <5>1. k \in 1..Len(wire) /\ w + k \in 1..Len(written)
                    BY <1>1, <3>1, <3>2, <4>1
                <5>2. wire'[k] = wire[k] /\ written'[w + k] = written[w + k]
                    BY <1>2, <5>1, JoinFacts
                <5>3. QED
                    BY <3>4, <5>1, <5>2
            <4>2. CASE k > Len(wire)
                <5>1. PICK m \in 1..Len(t) : k = Len(wire) + m
                    <6>1. k - Len(wire) \in 1..Len(t)
                          /\ k = Len(wire) + (k - Len(wire))
                        BY <1>1, <1>3, <4>2
                    <6>2. QED
                        BY <6>1
                <5>2. w + k = Len(written) + m
                    BY ONLY <1>1, <3>n, <3>2, <5>1, m \in 1..Len(t)
                <5>3. /\ wire'[Len(wire) + m] = t[m]
                      /\ written'[Len(written) + m] = t[m]
                    BY <1>2, <5>1, JoinFacts
                <5>4. wire'[k] = t[m]
                    BY ONLY <5>1, <5>3
                <5>5. written'[w + k] = t[m]
                    BY ONLY <5>2, <5>3
                <5>6. QED
                    BY ONLY <5>4, <5>5
            <4>3. k <= Len(wire) \/ k > Len(wire)
                BY ONLY <1>1, <1>3, k \in 1..Len(wire')
            <4>4. QED
                BY ONLY <4>1, <4>2, <4>3
        <3>6. wire' = SubSeq(written', w + 1, w + Len(wire'))
            <4>1. wire' \in Seq(Bytes) /\ written' \in Seq(Bytes)
                BY DEF TypeOK
            <4>2. w + Len(wire') <= Len(written')
                BY <1>1, <1>3, <3>1, <3>2
            <4>3. QED
                BY ONLY <3>2, <3>5, <4>1, <4>2, PartOf
        <3>7. (LastEnd + Len(buf))' = w
            BY <1>4 DEF w
        <3>8. w + Len(wire') <= Len(written')
            BY <1>1, <1>3, <3>1, <3>2
        <3>9. QED
            BY ONLY <3>3, <3>6, <3>7, <3>8 DEF OnItsWay
    <2>4. QED
        BY <1>4, <2>1, <2>2, <2>3 DEF Standing
<1>8. QED
    BY <1>5, <1>6, <1>7 DEF ReadInv

(* Some of what is on its way is lost.                                     *)
LEMMA ReadCut ==
    ASSUME ReadInv, TypeOK', Cut
    PROVE  ReadInv'
<1>0. TypeOK /\ Roles /\ ReadsAsWritten /\ Standing
    BY DEF ReadInv
<1>1. PICK n \in 0..Len(wire) : wire' = SubSeq(wire, 1, n)
    BY DEF Cut
<1>2. stream' = "cut" /\ UNCHANGED <<role, buf, receiver, got, written, ends>>
    BY DEF Cut
<1>3. /\ Len(wire) \in Nat /\ n \in Nat /\ n <= Len(wire) /\ LastEnd \in Nat
      /\ Len(buf) \in Nat /\ Len(written) \in Nat
      /\ wire \in Seq(Bytes) /\ written \in Seq(Bytes)
    BY <1>0, Numbers DEF TypeOK
<1>4. wire' \in Seq(Bytes) /\ Len(wire') = n
    BY <1>1, <1>3, PrefixFacts
<1>5. LastEnd' = LastEnd
    BY <1>2 DEF LastEnd
<1>6. Roles'
    BY <1>0, <1>2 DEF Roles
<1>7. ReadsAsWritten'
    BY <1>0, <1>2, <1>5 DEF ReadsAsWritten, Start
<1>8. ASSUME receiver = "run" PROVE OnItsWay'
    <2> DEFINE w == LastEnd + Len(buf)
    <2>1. /\ w + Len(wire) <= Len(written)
          /\ wire = SubSeq(written, w + 1, w + Len(wire))
        BY <1>0, <1>8 DEF Standing, OnItsWay
    <2>2. w \in Nat
        BY <1>3
    <2> HIDE DEF w
    <2>3. SubSeq(wire, 0 + 1, n) = SubSeq(written, (w + 0) + 1, w + n)
        BY ONLY <1>3, <2>1, <2>2, n \in 0..Len(wire), 0 \in Nat, 0 <= n, PartOfPart
    <2>4. wire' = SubSeq(written', w + 1, w + Len(wire'))
        BY <1>1, <1>2, <1>4, <2>2, <2>3
    <2>5. w + Len(wire') <= Len(written')
        BY <1>2, <1>3, <1>4, <2>1, <2>2
    <2>6. (LastEnd + Len(buf))' = w
        BY <1>2, <1>5 DEF w
    <2>7. QED
        BY ONLY <1>2, <2>4, <2>5, <2>6 DEF OnItsWay
<1>9. Standing'
    BY <1>0, <1>2, <1>5, <1>8 DEF Standing
<1>10. QED
    BY <1>6, <1>7, <1>9 DEF ReadInv

(* Bytes of the stream are read.                                           *)
LEMMA ReadFill ==
    ASSUME ReadInv, TypeOK', Fill
    PROVE  ReadInv'
<1>0. TypeOK /\ Roles /\ ReadsAsWritten /\ Standing
    BY DEF ReadInv
<1>1. PICK n \in 1..Len(wire) :
          /\ buf' = buf \o SubSeq(wire, 1, n)
          /\ wire' = SubSeq(wire, n + 1, Len(wire))
    BY DEF Fill
<1>2. /\ receiver = "run"
      /\ UNCHANGED <<role, stream, receiver, got, written, ends>>
    BY DEF Fill
<1>3. /\ Len(wire) \in Nat /\ n \in Nat /\ n <= Len(wire) /\ LastEnd \in Nat
      /\ Len(buf) \in Nat /\ Len(written) \in Nat
      /\ wire \in Seq(Bytes) /\ written \in Seq(Bytes) /\ buf \in Seq(Bytes)
    BY <1>0, Numbers DEF TypeOK
<1> DEFINE w == LastEnd + Len(buf)
<1>4. /\ w + Len(wire) <= Len(written)
      /\ stream # "cut" => w + Len(wire) = Len(written)
      /\ wire = SubSeq(written, w + 1, w + Len(wire))
    BY <1>0, <1>2 DEF Standing, OnItsWay
<1>5. w \in Nat /\ LastEnd + Len(buf) <= Len(written)
    BY <1>0, <1>3 DEF Standing
<1>6. /\ \A k \in 1..Len(buf) : buf[k] = written[LastEnd + k]
      /\ \A k \in 1..Len(wire) : wire[k] = written[LastEnd + Len(buf) + k]
    <2>1. buf = SubSeq(written, LastEnd + 1, LastEnd + Len(buf))
        BY <1>0 DEF ReadsAsWritten
    <2>2. \A k \in 1..Len(buf) : buf[k] = written[LastEnd + k]
        BY ONLY <1>3, <1>5, <2>1, PartOf
    <2> HIDE DEF w
    <2>3. \A k \in 1..Len(wire) : wire[k] = written[w + k]
        BY ONLY <1>3, <1>4, <1>5, PartOf
    <2>4. QED
        BY <2>2, <2>3 DEF w
<1>7. /\ buf' \in Seq(Bytes) /\ Len(buf') = Len(buf) + n
      /\ wire' \in Seq(Bytes) /\ Len(wire') = Len(wire) - n
      /\ \A k \in 1..(Len(buf) + n) : buf'[k] = written[LastEnd + k]
      /\ \A k \in 1..(Len(wire) - n) :
            wire'[k] = written[LastEnd + (Len(buf) + n) + k]
    <2> DEFINE x == buf \o SubSeq(wire, 1, n)
               y == SubSeq(wire, n + 1, Len(wire))
    <2>1. /\ x \in Seq(Bytes) /\ Len(x) = Len(buf) + n
          /\ y \in Seq(Bytes) /\ Len(y) = Len(wire) - n
          /\ \A k \in 1..(Len(buf) + n) : x[k] = written[LastEnd + k]
          /\ \A k \in 1..(Len(wire) - n) :
                y[k] = written[LastEnd + (Len(buf) + n) + k]
        BY ONLY <1>3, <1>6, n \in 1..Len(wire), BytesMove
    <2> HIDE DEF x, y
    <2>2. buf' = x /\ wire' = y
        BY <1>1 DEF x, y
    <2>3. QED
        BY ONLY <2>1, <2>2
<1>8. LastEnd' = LastEnd
    BY <1>2 DEF LastEnd
<1>9. PICK l \in Nat : l = LastEnd
    BY <1>3
<1>10. PICK m \in Nat : m = Len(buf) + n
    BY <1>3
<1>11. /\ l + m <= Len(written) /\ l + m \in Nat
       /\ (l + m) + Len(wire') = w + Len(wire)
       /\ (l + m) + Len(wire') <= Len(written)
    <2>1. w = l + Len(buf)
        BY <1>9
    <2> HIDE DEF w
    <2>2. l + (Len(buf) + n) + (Len(wire) - n) = w + Len(wire)
        BY <1>3, <2>1
    <2>3. QED
        BY <1>3, <1>4, <1>7, <1>10, <2>1, <2>2
<1>12. buf' = SubSeq(written, l + 1, l + Len(buf'))
    <2>1. /\ l + Len(buf') <= Len(written)
          /\ \A k \in 1..Len(buf') : buf'[k] = written[l + k]
        BY <1>7, <1>9, <1>10, <1>11
    <2>2. QED
        BY ONLY <1>3, <1>7, <1>9, <2>1, PartOf
<1>13. wire' = SubSeq(written, (l + m) + 1, (l + m) + Len(wire'))
    <2>1. \A k \in 1..Len(wire') : wire'[k] = written[(l + m) + k]
        BY <1>7, <1>9, <1>10
    <2>2. QED
        BY ONLY <1>3, <1>7, <1>11, <2>1, PartOf
<1>14. Roles'
    BY <1>0, <1>2 DEF Roles
<1>15. ReadsAsWritten'
    BY <1>0, <1>2, <1>8, <1>9, <1>12 DEF ReadsAsWritten, Start
<1>16. Standing'
    <2>1. (LastEnd + Len(buf))' = l + m
        BY <1>7, <1>8, <1>9, <1>10
    <2>2. OnItsWay'
        <3>1. (l + m) + Len(wire') <= Len(written')
            BY <1>2, <1>11
        <3>2. stream' # "cut" => (l + m) + Len(wire') = Len(written')
            BY <1>2, <1>4, <1>11
        <3>3. wire' = SubSeq(written', (l + m) + 1, (l + m) + Len(wire'))
            BY <1>2, <1>13
        <3>4. QED
            BY ONLY <2>1, <3>1, <3>2, <3>3 DEF OnItsWay
    <2>3. QED
        BY <1>0, <1>2, <1>11, <2>1, <2>2 DEF Standing
<1>17. QED
    BY <1>14, <1>15, <1>16 DEF ReadInv

(* A frame is returned, or refused.                                        *)
LEMMA ReadReceive ==
    ASSUME ReadInv, TypeOK', Receive
    PROVE  ReadInv'
<1>0. TypeOK /\ Roles /\ ReadsAsWritten /\ Standing
    BY DEF ReadInv
<1>1. /\ receiver = "run" /\ Whole /\ buf' = <<>>
      /\ UNCHANGED <<role, wire, stream, written>>
    BY DEF Receive
<1>2. /\ Len(wire) \in Nat /\ LastEnd \in Nat /\ Len(buf) \in Nat
      /\ Len(written) \in Nat /\ Len(ends) \in Nat
      /\ written \in Seq(Bytes) /\ buf \in Seq(Bytes)
      /\ ends \in Seq(Nat) /\ got \in Seq(Seq(Bytes))
    BY <1>0, Numbers DEF TypeOK
<1>3. /\ LastEnd + Len(buf) <= Len(written) /\ OnItsWay
      /\ buf = SubSeq(written, LastEnd + 1, LastEnd + Len(buf))
    BY <1>0, <1>1 DEF Standing, ReadsAsWritten
<1>4. /\ Body \in Seq(Bytes) /\ Len(Body) \in Nat
      /\ Len(buf) = Width + Len(Body)
      /\ Length(SubSeq(buf, 1, Width)) = Len(Body) /\ Encode(Body) = buf
    BY <1>1, <1>2, FrameParts DEF Whole, Body
<1>5. Roles'
    BY <1>0, <1>1 DEF Roles, Receive, Deliver
<1>6. CASE TooLarge(Len(Body)) \/ Body \in Junk
    <2>1. receiver' = "ended" /\ UNCHANGED <<got, ends>>
        BY <1>6 DEF Receive
    <2>2. LastEnd' = LastEnd
        BY <2>1 DEF LastEnd
    <2>3. Refused(LastEnd)
        <3>1. PICK n \in Nat : n = Len(Body)
            BY <1>4
        <3>2. PICK p \in Nat : p = LastEnd
            BY <1>2
        <3>3. /\ Width \in Nat /\ 0 \in Nat /\ Width \in 0..Len(buf)
              /\ 0 <= Width /\ Len(buf) \in 0..Len(buf) /\ Width <= Len(buf)
              /\ p + Len(buf) = p + Width + n
            BY <1>2, <1>4, <3>1 DEF Width
        <3>4. p + Len(buf) <= Len(written)
              /\ buf = SubSeq(written, p + 1, p + Len(buf))
            BY <1>3, <3>2
        <3>5. SubSeq(buf, 0 + 1, Width) = SubSeq(written, (p + 0) + 1, p + Width)
            BY ONLY <1>2, <3>2, <3>3, <3>4, PartOfPart
        <3>6. SubSeq(buf, Width + 1, Len(buf))
                = SubSeq(written, (p + Width) + 1, p + Len(buf))
            BY ONLY <1>2, <3>2, <3>3, <3>4, PartOfPart
        <3>7. n = Length(SubSeq(written, p + 1, p + Width))
            <4>1. p + 0 = p /\ 0 + 1 = 1
                OBVIOUS
            <4>2. SubSeq(buf, 1, Width) = SubSeq(written, p + 1, p + Width)
                BY <3>5, <4>1
            <4>3. QED
                BY <1>4, <3>1, <4>2
        <3>8. Body = SubSeq(written, p + Width + 1, p + Width + n)
            BY <3>3, <3>6 DEF Body
        <3>9. n > MaxBody \/ Body \in Junk
            BY <1>6, <3>1 DEF TooLarge
        <3>10. p + Width <= Len(written) /\ p + Width + n <= Len(written)
            BY <1>2, <3>3, <3>4
        <3>11. Refused(p)
            BY ONLY <3>7, <3>8, <3>9, <3>10 DEF Refused
        <3>12. QED
            BY <3>2, <3>11
    <2>4. buf' = SubSeq(written', LastEnd + 1, LastEnd + Len(buf'))
        BY <1>1, <1>2
    <2>5. ReadsAsWritten'
        BY <1>0, <1>1, <2>1, <2>2, <2>3, <2>4
        DEF ReadsAsWritten, Start, Refused
    <2>6. Standing'
        <3>1. LastEnd + Len(buf') <= Len(written')
            BY <1>1, <1>2, <1>3
        <3>2. QED
            BY <1>0, <1>1, <2>1, <2>2, <3>1 DEF Standing
    <2>7. QED
        BY <1>5, <2>5, <2>6 DEF ReadInv
<1>7. CASE ~(TooLarge(Len(Body)) \/ Body \in Junk)
    <2>1. /\ got' = Append(got, Body)
          /\ ends' = Append(ends, LastEnd + Len(buf))
          /\ UNCHANGED receiver
        BY <1>7 DEF Receive, Deliver
    <2>2. PICK e \in Nat : e = LastEnd + Len(buf)
        BY <1>2
    <2>3. PICK g \in Nat : g = Len(ends)
        BY <1>2
    <2>4. /\ Len(got) = g /\ Len(ends') = g + 1 /\ Len(got') = g + 1
          /\ \A i \in 1..g : ends'[i] = ends[i] /\ got'[i] = got[i]
          /\ ends'[g + 1] = e /\ got'[g + 1] = Body
        <3>1. Len(got) = Len(ends)
            BY <1>0 DEF ReadsAsWritten
        <3>2. ends' = Append(ends, e)
            BY <2>1, <2>2
        <3>3. /\ Len(ends') = Len(ends) + 1
              /\ \A i \in 1..Len(ends) : ends'[i] = ends[i]
              /\ ends'[Len(ends) + 1] = e
            BY ONLY <1>2, <2>2, <3>2, AppendFacts
        <3>4. /\ Len(got') = Len(got) + 1
              /\ \A i \in 1..Len(got) : got'[i] = got[i]
              /\ got'[Len(got) + 1] = Body
            BY ONLY <1>2, <1>4, <2>1, AppendFacts
        <3>5. QED
            BY <2>3, <3>1, <3>3, <3>4
    <2>5. LastEnd' = e
        <3>1. ends' # <<>>
            BY <2>3, <2>4
        <3>2. QED
            BY <2>4, <3>1 DEF LastEnd
    <2>6. /\ \A i \in 1..g : Start(i)' = Start(i)
          /\ Start(g + 1)' = LastEnd
        <3>1. ASSUME NEW i \in 1..g PROVE Start(i)' = Start(i)
            <4>1. i # 1 => i - 1 \in 1..g
                BY <2>3
            <4>2. QED
                BY <2>4, <4>1 DEF Start
        <3>2. Start(g + 1)' = LastEnd
            <4>1. CASE g = 0
                <5>1. ends = <<>>
                    <6>1. ends \in Seq(Nat) /\ Len(ends) = 0
                        BY <1>2, <2>3, <4>1
                    <6>2. QED
                        BY ONLY <6>1
                <5>2. QED
                    BY <4>1, <5>1 DEF Start, LastEnd
            <4>2. CASE g # 0
                <5>1. g \in 1..g /\ g + 1 # 1 /\ g + 1 - 1 = g /\ ends # <<>>
                    BY <2>3, <4>2
                <5>2. QED
                    BY <2>3, <2>4, <5>1 DEF Start, LastEnd
            <4>3. QED
                BY <4>1, <4>2
        <3>3. QED
            BY <3>1, <3>2
    <2>7. Len(Body) <= MaxBody
        BY <1>4, <1>7, FramingAssumption DEF TooLarge
    <2>8. ASSUME NEW i \in 1..(g + 1)
          PROVE  /\ Encode(got'[i]) = SubSeq(written, Start(i)' + 1, ends'[i])
                 /\ Len(got'[i]) <= MaxBody
        <3>1. CASE i = g + 1
            BY <1>3, <1>4, <2>2, <2>4, <2>6, <2>7, <3>1
        <3>2. CASE i # g + 1
            <4>1. i \in 1..g /\ i \in 1..Len(got)
                BY <2>4, <3>2
            <4>2. /\ Encode(got[i]) = SubSeq(written, Start(i) + 1, ends[i])
                  /\ Len(got[i]) <= MaxBody
                BY <1>0, <4>1 DEF ReadsAsWritten
            <4>3. QED
                BY <2>4, <2>6, <4>1, <4>2
        <3>3. QED
            BY <3>1, <3>2
    <2>9. buf' = SubSeq(written, e + 1, e + Len(buf'))
        BY <1>1, <2>2
    <2>10. ReadsAsWritten'
        BY <1>1, <2>1, <2>4, <2>5, <2>8, <2>9 DEF ReadsAsWritten
    <2>11. Standing'
        <3>1. \A i \in 1..(g + 1) : ends'[i] <= Len(written)
            <4>1. \A i \in 1..g : ends[i] <= Len(written)
                BY <1>0, <2>3 DEF Standing
            <4>2. e <= Len(written)
                BY <1>3, <2>2
            <4>3. QED
                BY <2>4, <4>1, <4>2
        <3>2. (LastEnd + Len(buf))' = e
            BY <1>1, <2>2, <2>5
        <3>3. OnItsWay'
            <4>1. /\ e + Len(wire) <= Len(written)
                  /\ stream # "cut" => e + Len(wire) = Len(written)
                  /\ wire = SubSeq(written, e + 1, e + Len(wire))
                BY <1>3, <2>2 DEF OnItsWay
            <4>2. QED
                BY ONLY <1>1, <3>2, <4>1 DEF OnItsWay
        <3>4. e <= Len(written)
            BY <1>3, <2>2
        <3>5. QED
            BY <1>1, <2>4, <3>1, <3>2, <3>3, <3>4 DEF Standing
    <2>12. QED
        BY <1>5, <2>10, <2>11 DEF ReadInv
<1>8. QED
    BY <1>6, <1>7
-----------------------------------------------------------------------------
(* Types, one action at a time.                                            *)
LEMMA StepType ==
    ASSUME ReadInv, [Next]_vars
    PROVE  TypeOK'
<1>0. TypeOK /\ Len(buf) \in Nat /\ Len(wire) \in Nat /\ LastEnd \in Nat
    BY Numbers DEF ReadInv
<1>1. ASSUME NEW b \in Bodies, Offer(b) PROVE TypeOK'
    <2>1. UNCHANGED <<rest, wire, buf, got, written, ends>>
        BY <1>1 DEF Offer
    <2>2. CASE Len(b) <= MaxBody
        <3>1. /\ inbox' = Append(inbox, Encode(b))
              /\ accepted' = Append(accepted, b)
            BY <1>1, <2>2 DEF Offer
        <3>2. Encode(b) \in Seq(Bytes)
            BY <2>2, FrameFacts
        <3>3. inbox' \in Seq(Seq(Bytes)) /\ accepted' \in Seq(Bodies)
            BY <1>0, <3>1, <3>2, AppendFacts DEF TypeOK
        <3>4. QED
            BY <1>0, <2>1, <3>3 DEF TypeOK, Needed
    <2>3. CASE ~(Len(b) <= MaxBody)
        <3>1. UNCHANGED <<inbox, accepted>>
            BY <1>1, <2>3 DEF Offer
        <3>2. QED
            BY <1>0, <2>1, <3>1 DEF TypeOK, Needed
    <2>4. QED
        BY <2>2, <2>3
<1>2. ASSUME NEW b \in Bytes, ForeignWrite(b) PROVE TypeOK'
    <2>1. /\ wire' = Append(wire, b) /\ written' = Append(written, b)
          /\ Len(wire) < Window
          /\ UNCHANGED <<inbox, rest, buf, accepted, got, ends>>
        BY <1>2 DEF ForeignWrite
    <2>2. /\ wire' \in Seq(Bytes) /\ written' \in Seq(Bytes)
          /\ Len(wire') = Len(wire) + 1
        BY <1>0, <2>1, AppendFacts DEF TypeOK
    <2>3. Len(wire') <= Window
        BY <1>0, <2>1, <2>2, FramingAssumption
    <2>4. QED
        BY <1>0, <2>1, <2>2, <2>3 DEF TypeOK, Needed
<1>3. CASE TakeJob
    <2>1. /\ inbox # <<>> /\ rest' = Head(inbox) /\ inbox' = Tail(inbox)
          /\ UNCHANGED <<wire, buf, accepted, got, written, ends>>
        BY <1>3 DEF TakeJob
    <2>2. rest' \in Seq(Bytes) /\ inbox' \in Seq(Seq(Bytes))
        BY <1>0, <2>1, TailFacts DEF TypeOK
    <2>3. QED
        BY <1>0, <2>1, <2>2 DEF TypeOK, Needed
<1>4. CASE WritePart
    <2>1. PICK n \in 1..Len(rest) :
              /\ Len(wire) + n <= Window
              /\ wire' = wire \o SubSeq(rest, 1, n)
              /\ written' = written \o SubSeq(rest, 1, n)
              /\ rest' = SubSeq(rest, n + 1, Len(rest))
        BY <1>4 DEF WritePart
    <2>2. UNCHANGED <<inbox, buf, accepted, got, ends>>
        BY <1>4 DEF WritePart
    <2>3. /\ rest \in Seq(Bytes) /\ n \in 0..Len(rest) /\ n \in Nat
          /\ Len(rest) \in 0..Len(rest) /\ n <= Len(rest)
        BY <1>0 DEF TypeOK
    <2>4. SubSeq(rest, 1, n) \in Seq(Bytes) /\ Len(SubSeq(rest, 1, n)) = n
        BY ONLY <2>3, PrefixFacts
    <2>5. rest' \in Seq(Bytes)
        BY <2>1, <2>3, PartFacts
    <2>6. /\ wire' \in Seq(Bytes) /\ Len(wire') = Len(wire) + n
          /\ written' \in Seq(Bytes)
        BY <1>0, <2>1, <2>4, JoinFacts DEF TypeOK
    <2>7. QED
        BY <1>0, <2>1, <2>2, <2>5, <2>6 DEF TypeOK, Needed
<1>5. CASE WriteFails \/ DropStream \/ Eof \/ UNCHANGED vars
    <2>1. UNCHANGED <<inbox, rest, wire, buf, accepted, got, written, ends>>
        BY <1>5 DEF WriteFails, DropStream, Eof, vars
    <2>2. QED
        BY <1>0, <2>1 DEF TypeOK, Needed
<1>6. CASE Cut
    <2>1. PICK n \in 0..Len(wire) : wire' = SubSeq(wire, 1, n)
        BY <1>6 DEF Cut
    <2>2. UNCHANGED <<inbox, rest, buf, accepted, got, written, ends>>
        BY <1>6 DEF Cut
    <2>3. wire' \in Seq(Bytes) /\ Len(wire') = n
        BY <1>0, <2>1, PrefixFacts DEF TypeOK
    <2>4. Len(wire') <= Window
        BY <1>0, <2>1, <2>3, FramingAssumption DEF TypeOK
    <2>5. QED
        BY <1>0, <2>2, <2>3, <2>4 DEF TypeOK, Needed
<1>7. CASE Fill
    <2>1. PICK n \in 1..Len(wire) :
              /\ Len(buf) + n <= Needed(buf)
              /\ buf' = buf \o SubSeq(wire, 1, n)
              /\ wire' = SubSeq(wire, n + 1, Len(wire))
        BY <1>7 DEF Fill
    <2>2. UNCHANGED <<inbox, rest, accepted, got, written, ends>>
        BY <1>7 DEF Fill
    <2>3. /\ wire \in Seq(Bytes) /\ n \in 0..Len(wire) /\ n \in Nat
          /\ Len(wire) \in 0..Len(wire) /\ n <= Len(wire) /\ buf \in Seq(Bytes)
        BY <1>0 DEF TypeOK
    <2>4. SubSeq(wire, 1, n) \in Seq(Bytes) /\ Len(SubSeq(wire, 1, n)) = n
        BY ONLY <2>3, PrefixFacts
    <2>5. wire' \in Seq(Bytes) /\ Len(wire') = Len(wire) - n
        BY <2>1, <2>3, PartFacts
    <2>6. /\ buf' \in Seq(Bytes) /\ Len(buf') = Len(buf) + n
          /\ \A k \in 1..Len(buf) : buf'[k] = buf[k]
        BY <2>1, <2>3, <2>4, JoinFacts
    <2>7. Len(buf') <= Needed(buf')
        <3>1. Len(buf) <= Len(buf') /\ Len(buf') <= Needed(buf)
            BY <1>0, <2>1, <2>3, <2>6
        <3>2. QED
            BY ONLY <2>3, <2>6, <3>1, NeededFacts
    <2>8. Len(wire') <= Window
        BY <1>0, <2>3, <2>5, FramingAssumption DEF TypeOK
    <2>9. QED
        BY <1>0, <2>2, <2>5, <2>6, <2>7, <2>8 DEF TypeOK
<1>8. CASE Receive
    <2>1. /\ buf' = <<>> /\ Whole
          /\ UNCHANGED <<inbox, rest, wire, accepted, written>>
        BY <1>8 DEF Receive
    <2>2. Body \in Seq(Bytes)
        BY <1>0, <2>1, FrameParts DEF TypeOK, Whole, Body
    <2>3. \/ UNCHANGED <<got, ends>>
          \/ /\ got' = Append(got, Body)
             /\ ends' = Append(ends, LastEnd + Len(buf))
        BY <1>8 DEF Receive, Deliver
    <2>4. got' \in Seq(Seq(Bytes)) /\ ends' \in Seq(Nat)
        <3>1. PICK e \in Nat : e = LastEnd + Len(buf)
            BY <1>0
        <3>2. PICK b \in Seq(Bytes) : b = Body
            BY <2>2
        <3>3. \/ UNCHANGED <<got, ends>>
              \/ got' = Append(got, b) /\ ends' = Append(ends, e)
            BY ONLY <2>3, <3>1, <3>2
        <3>4. got \in Seq(Seq(Bytes)) /\ ends \in Seq(Nat)
            BY <1>0 DEF TypeOK
        <3>5. Append(got, b) \in Seq(Seq(Bytes)) /\ Append(ends, e) \in Seq(Nat)
            BY ONLY <3>4, b \in Seq(Bytes), e \in Nat, AppendFacts
        <3>6. CASE UNCHANGED <<got, ends>>
            BY ONLY <3>4, <3>6
        <3>7. CASE got' = Append(got, b) /\ ends' = Append(ends, e)
            BY ONLY <3>5, <3>7
        <3>8. QED
            BY ONLY <3>3, <3>6, <3>7
    <2>5. buf' \in Seq(Bytes) /\ Len(buf') <= Needed(buf')
        BY <2>1 DEF Needed, Width
    <2>6. QED
        BY <1>0, <2>1, <2>4, <2>5 DEF TypeOK
<1>9. QED
    BY <1>1, <1>2, <1>3, <1>4, <1>5, <1>6, <1>7, <1>8 DEF Next, Writer, Reader

LEMMA ReadStep ==
    ASSUME ReadInv, [Next]_vars
    PROVE  ReadInv'
<1>0. TypeOK'
    BY StepType
<1>1. ASSUME NEW b \in Bodies, Offer(b) PROVE ReadInv'
    <2>1. /\ UNCHANGED <<role, wire, buf, receiver, got, written, ends>>
          /\ stream' = stream \/ (stream = "open" /\ stream' = "fin")
        BY <1>1 DEF Offer
    <2>2. QED
        BY <1>0, <2>1, ReadAside
<1>2. ASSUME NEW b \in Bytes, ForeignWrite(b) PROVE ReadInv'
    <2>1. /\ stream = "open"
          /\ wire' = Append(wire, b) /\ written' = Append(written, b)
          /\ UNCHANGED <<role, stream, buf, receiver, got, ends>>
        BY <1>2 DEF ForeignWrite
    <2>2. wire \in Seq(Bytes) /\ written \in Seq(Bytes)
        BY DEF ReadInv, TypeOK
    <2>3. b \in Bytes
        BY <1>2
    <2>4. /\ <<b>> \in Seq(Bytes)
          /\ wire \o <<b>> = Append(wire, b)
          /\ written \o <<b>> = Append(written, b)
        BY ONLY <2>2, <2>3
    <2>5. PICK t \in Seq(Bytes) : t = <<b>>
        BY <2>4
    <2>6. wire' = wire \o t /\ written' = written \o t
        BY <2>1, <2>4, <2>5
    <2>7. QED
        BY <1>0, <2>1, <2>6, ReadGrows
<1>3. CASE WritePart
    <2>1. PICK n \in 1..Len(rest) :
              /\ wire' = wire \o SubSeq(rest, 1, n)
              /\ written' = written \o SubSeq(rest, 1, n)
        BY <1>3 DEF WritePart
    <2>2. /\ stream = "open"
          /\ UNCHANGED <<role, stream, buf, receiver, got, ends>>
        BY <1>3 DEF WritePart
    <2>3. rest \in Seq(Bytes) /\ n \in 0..Len(rest)
        BY DEF ReadInv, TypeOK
    <2>4. PICK t \in Seq(Bytes) : t = SubSeq(rest, 1, n)
        BY <2>3, PrefixFacts
    <2>5. QED
        BY <1>0, <2>1, <2>2, <2>4, ReadGrows
<1>4. CASE TakeJob \/ WriteFails \/ DropStream \/ Eof \/ UNCHANGED vars
    <2>1. /\ UNCHANGED <<role, wire, buf, got, written, ends>>
          /\ stream' = stream \/ (stream = "open" /\ stream' = "fin")
          /\ \/ UNCHANGED receiver
             \/ receiver' = "ended" /\ stream' # "open"
        BY <1>4 DEF TakeJob, WriteFails, DropStream, Eof, vars
    <2>2. QED
        BY <1>0, <2>1, ReadAside
<1>5. CASE Cut
    BY <1>0, <1>5, ReadCut
<1>6. CASE Fill
    BY <1>0, <1>6, ReadFill
<1>7. CASE Receive
    BY <1>0, <1>7, ReadReceive
<1>8. QED
    BY <1>1, <1>2, <1>3, <1>4, <1>5, <1>6, <1>7 DEF Next, Writer, Reader
-----------------------------------------------------------------------------
LEMMA InitInv == Init /\ Ours => Inv
<1> SUFFICES ASSUME Init, Ours PROVE Inv
    OBVIOUS
<1> DEFINE end == [i \in 0..0 |-> 0]
<1>0. TypeOK
    BY ReadInit DEF ReadInv
<1>1. Queues /\ Ends /\ Taken = 0
    BY DEF Init, Ours, Queues, Ends, Taken, Up
<1>2. Laid(accepted, <<>>, end)
    BY DEF Init, Laid
<1>3. Carried(<<>>, end)
    <2>1. end[Len(got)] = 0 /\ end[Taken] = 0
        BY <1>1 DEF Init
    <2>2. Len(buf) = 0 /\ Len(wire) = 0 /\ Len(rest) = 0
        BY DEF Init
    <2> HIDE DEF end
    <2>3. QED
        BY <2>1, <2>2 DEF Carried
<1>4. State(<<>>, end)
    BY <1>0, <1>1, <1>2, <1>3 DEF State
<1>5. QED
    BY <1>4 DEF Inv

LEMMA StepInv ==
    ASSUME Inv, TypeOK', [Next]_vars
    PROVE  Inv'
<1>1. PICK all, end : State(all, end)
    BY DEF Inv
<1>2. ASSUME NEW v \in Bodies, Offer(v) PROVE Inv'
    BY <1>1, <1>2, StepOffer
<1>3. CASE TakeJob
    BY <1>1, <1>3, StepTakeJob DEF Inv
<1>4. CASE WritePart
    BY <1>1, <1>4, StepWritePart DEF Inv
<1>5. CASE WriteFails \/ DropStream
    BY <1>1, <1>5, StepEnd DEF Inv
<1>6. CASE Cut
    BY <1>1, <1>6, StepCut DEF Inv
<1>7. CASE Fill
    BY <1>1, <1>7, StepFill DEF Inv
<1>8. CASE Receive
    BY <1>1, <1>8, StepReceive DEF Inv
<1>9. CASE Eof
    BY <1>1, <1>9, StepEof DEF Inv
<1>10. CASE UNCHANGED vars
    <2>1. State(all, end)'
        BY <1>1, <1>10
        DEF vars, State, Queues, Ends, Up, Taken, Laid, Carried
    <2>2. QED
        BY <2>1 DEF Inv
<1>11. ASSUME NEW b \in Bytes, ForeignWrite(b) PROVE FALSE
    BY <1>1, <1>11 DEF ForeignWrite, Ours, State, Ends
<1>12. QED
    BY <1>2, <1>3, <1>4, <1>5, <1>6, <1>7, <1>8, <1>9, <1>10, <1>11
    DEF Next, Writer, Reader

(* Both invariants: what this code sends, and what comes from anyone.      *)
FullInv == ReadInv /\ (Ours => Inv)

LEMMA Invariant == Spec => []FullInv
<1>1. Init => FullInv
    BY ReadInit, InitInv DEF FullInv
<1>2. FullInv /\ [Next]_vars => FullInv'
    <2> SUFFICES ASSUME FullInv, [Next]_vars PROVE FullInv'
        OBVIOUS
    <2>1. ReadInv' /\ TypeOK'
        BY ReadStep, StepType DEF FullInv
    <2>2. role' = role
        BY DEF Next, Offer, ForeignWrite, Writer, TakeJob, WritePart,
               WriteFails, DropStream, Cut, Reader, Fill, Receive, Eof, vars
    <2>3. Ours' = Ours
        BY <2>2 DEF Ours
    <2>4. Ours => Inv'
        BY <2>1, StepInv DEF FullInv
    <2>5. QED
        BY <2>1, <2>3, <2>4 DEF FullInv
<1>3. QED
    BY <1>1, <1>2, PTL DEF Spec

(* Bytes stay bytes, the stream holds no more than its window, and what    *)
(* read_frame has read of a frame is never more than that frame.           *)
THEOREM TypeCorrect == Spec => []TypeOK
<1>1. FullInv => TypeOK
    BY DEF FullInv, ReadInv
<1>2. QED
    BY <1>1, Invariant, PTL

(* What a reader returns are the frames that stand in the stream from its  *)
(* first byte on, none left out and none larger than MAX_FRAME_BYTES, and  *)
(* it stops on an open stream only at a frame that decode_frame refuses:   *)
(* for any bytes from any sender, cut up in any way.                       *)
THEOREM ReadsAsWrittenCorrect == Spec => []ReadsAsWritten
<1>1. FullInv => ReadsAsWritten
    BY DEF FullInv, ReadInv
<1>2. QED
    BY <1>1, Invariant, PTL

(* The receiver's loop does not end while the stream is open, and when the *)
(* sender finished it with nothing left to write, only after every frame   *)
(* that was accepted.                                                      *)
THEOREM ReadsToTheEndCorrect == Spec => []ReadsToTheEnd
<1>1. ASSUME FullInv PROVE ReadsToTheEnd
    <2>1. Ours => Ends
        BY <1>1 DEF FullInv, Inv, State
    <2>2. QED
        BY <2>1 DEF Ends, Up, ReadsToTheEnd
<1>2. QED
    BY <1>1, Invariant, PTL

(* The refinement: every step of the codec and the stream is a frame sent, *)
(* a frame read, the loss of the rest, or nothing that the link shows.     *)
LEMMA LinkStep ==
    ASSUME Inv, [Next]_vars
    PROVE  \/ \E v \in Bodies : /\ accepted' = Append(accepted, v)
                                 /\ UNCHANGED <<got, Up>>
           \/ /\ Len(got) < Len(accepted)
              /\ got' = Append(got, accepted[Len(got) + 1])
              /\ UNCHANGED <<accepted, Up>>
           \/ Up /\ Up' = FALSE /\ UNCHANGED <<accepted, got>>
           \/ UNCHANGED <<accepted, got, Up>>
<1>1. PICK all, end : State(all, end)
    BY DEF Inv
<1>2. stream = "fin" => sender = "ended"
    BY <1>1 DEF State, Ends
<1>3. Up \in BOOLEAN /\ Up' \in BOOLEAN
    BY DEF Up
<1>4. ASSUME NEW v \in Bodies, Offer(v)
      PROVE  \/ accepted' = Append(accepted, v) /\ UNCHANGED <<got, Up>>
             \/ UNCHANGED <<accepted, got, Up>>
    <2>1. CASE Len(v) <= MaxBody
        <3>1. accepted' = Append(accepted, v) /\ UNCHANGED <<got, stream>>
            BY <1>4, <2>1 DEF Offer
        <3>2. stream # "fin"
            BY <1>2, <1>4 DEF Offer
        <3>3. Up' = Up
            BY <3>1, <3>2 DEF Up
        <3>4. QED
            BY <3>1, <3>3
    <2>2. CASE ~(Len(v) <= MaxBody)
        <3>1. /\ stream # "fin"
              /\ UNCHANGED <<accepted, got, inbox, rest>>
              /\ \/ UNCHANGED stream
                 \/ /\ inbox = <<>> /\ rest = <<>>
                    /\ stream' = IF stream = "open" THEN "fin" ELSE stream
            <4>1. /\ sender = "run" /\ UNCHANGED <<accepted, got, inbox, rest>>
                  /\ role = "server" => inbox = <<>> /\ rest = <<>>
                  /\ role \in {"client", "server"}
                BY <1>1, <1>4, <2>2 DEF Offer, State, Ends
            <4>2. \/ UNCHANGED stream
                  \/ /\ role # "client"
                     /\ stream' = IF stream = "open" THEN "fin" ELSE stream
                BY <1>4, <2>2 DEF Offer
            <4>3. QED
                BY <1>2, <4>1, <4>2
        <3>2. Up' = Up
            BY <3>1 DEF Up
        <3>3. QED
            BY <3>1, <3>2
    <2>3. QED
        BY <2>1, <2>2
<1>5. CASE TakeJob \/ WritePart
    <2>1. stream # "fin" /\ UNCHANGED <<accepted, got, stream>>
        BY <1>2, <1>5 DEF TakeJob, WritePart
    <2>2. QED
        BY <2>1 DEF Up
<1>6. CASE WriteFails \/ DropStream \/ Cut
    <2>1. /\ UNCHANGED <<accepted, got, inbox, rest>>
          /\ stream' # "open" /\ (stream' # "fin" => stream' \notin {"open"})
          /\ (stream' = "fin" => stream \in {"open", "fin"})
        BY <1>1, <1>6 DEF WriteFails, DropStream, Cut, State, Ends
    <2>2. Up' => Up
        BY <2>1 DEF Up
    <2>3. Up' = Up \/ (Up /\ Up' = FALSE)
        BY <1>3, <2>2
    <2>4. QED
        BY <2>1, <2>3
<1>7. CASE Receive
    <2>1. /\ Len(got) + 1 \in 1..Taken
          /\ got' = Append(got, accepted[Len(got) + 1])
        BY <1>1, <1>7, ReceiveFacts
    <2>2. Len(got) < Len(accepted)
        BY <1>1, <2>1, Places DEF State
    <2>3. UNCHANGED <<accepted, Up>>
        BY <1>7 DEF Receive, Up
    <2>4. QED
        BY <2>1, <2>2, <2>3
<1>8. CASE Fill \/ Eof \/ UNCHANGED vars
    BY <1>8 DEF Fill, Eof, vars, Up
<1> DEFINE Shown == \/ \E v \in Bodies : /\ accepted' = Append(accepted, v)
                                          /\ UNCHANGED <<got, Up>>
                    \/ /\ Len(got) < Len(accepted)
                       /\ got' = Append(got, accepted[Len(got) + 1])
                       /\ UNCHANGED <<accepted, Up>>
                    \/ Up /\ Up' = FALSE /\ UNCHANGED <<accepted, got>>
                    \/ UNCHANGED <<accepted, got, Up>>
<1>9. ASSUME NEW v \in Bodies, Offer(v) PROVE Shown
    BY <1>4, <1>9
<1>10. ASSUME NEW b \in Bytes, ForeignWrite(b) PROVE FALSE
    BY <1>1, <1>10 DEF ForeignWrite, Ours, State, Ends
<1>11. ASSUME TakeJob \/ WritePart PROVE Shown
    BY <1>5, <1>11
<1>12. ASSUME WriteFails \/ DropStream \/ Cut PROVE Shown
    BY <1>6, <1>12
<1>13. ASSUME Receive PROVE Shown
    BY <1>7, <1>13
<1>14. ASSUME Fill \/ Eof \/ UNCHANGED vars PROVE Shown
    BY <1>8, <1>14
<1> HIDE DEF Shown
<1>15. Shown
    <2>1. Next \/ UNCHANGED vars
        OBVIOUS
    <2>2. \/ \E v \in Bodies : Offer(v)
          \/ \E b \in Bytes : ForeignWrite(b)
          \/ TakeJob \/ WritePart
          \/ WriteFails \/ DropStream \/ Cut
          \/ Receive \/ Fill \/ Eof \/ UNCHANGED vars
        BY ONLY <2>1 DEF Next, Writer, Reader
    <2>3. QED
        BY ONLY <1>9, <1>10, <1>11, <1>12, <1>13, <1>14, <2>2
<1>16. QED
    BY <1>15 DEF Shown

(* What the link shows of a sender that is not this code: nothing.         *)
LEMMA LinkShows ==
    FullInv /\ [Next]_vars
    => [TheLink!LNext]_<<accepted, IF Ours THEN got ELSE <<>>, Ours => Up>>
<1> SUFFICES ASSUME FullInv, [Next]_vars
             PROVE  \/ TheLink!LNext
                    \/ UNCHANGED <<accepted, IF Ours THEN got ELSE <<>>,
                                   Ours => Up>>
    BY DEF TheLink!LNext
<1>1. UNCHANGED role
    BY DEF Next, Offer, ForeignWrite, Writer, TakeJob, WritePart,
           WriteFails, DropStream, Cut, Reader, Fill, Receive, Eof, vars
<1>2. Ours' = Ours
    BY <1>1 DEF Ours
<1>3. CASE Ours
    <2>1. Inv
        BY <1>3 DEF FullInv
    <2>2. (IF Ours THEN got ELSE <<>>) = got /\ (Ours => Up) = Up
        BY <1>3 DEF Up
    <2>3. /\ (IF Ours THEN got ELSE <<>>)' = got' /\ (Ours => Up)' = Up'
        BY <1>2, <1>3 DEF Up
    <2>4. ASSUME NEW v \in Bodies, accepted' = Append(accepted, v),
                 UNCHANGED <<got, Up>>
          PROVE  TheLink!LNext
        BY <2>2, <2>3, <2>4 DEF TheLink!LNext, TheLink!Send
    <2>5. CASE /\ Len(got) < Len(accepted)
               /\ got' = Append(got, accepted[Len(got) + 1])
               /\ UNCHANGED <<accepted, Up>>
        BY <2>2, <2>3, <2>5 DEF TheLink!LNext, TheLink!Deliver
    <2>6. CASE Up /\ Up' = FALSE /\ UNCHANGED <<accepted, got>>
        BY <2>2, <2>3, <2>6 DEF TheLink!LNext, TheLink!Break
    <2>7. CASE UNCHANGED <<accepted, got, Up>>
        BY <2>2, <2>3, <2>7
    <2>8. QED
        BY <2>1, <2>4, <2>5, <2>6, <2>7, LinkStep
<1>4. CASE ~Ours
    <2>1. accepted' = accepted
        BY <1>4 DEF Next, Offer, ForeignWrite, Writer, TakeJob, WritePart,
           WriteFails, DropStream, Cut, Reader, Fill, Receive, Eof, vars
    <2>2. QED
        BY <1>2, <1>4, <2>1
<1>5. QED
    BY <1>3, <1>4

(* The stream implements the link: what is read is what was accepted, in   *)
(* that order, each frame once and as it was sent, for any cutting up of   *)
(* the bytes and any loss of the connection.                               *)
THEOREM LinkCorrect == Spec => ImplementsLink
<1>1. Init => TheLink!LInit
    BY DEF Init, TheLink!LInit, Up
<1>2. FullInv /\ [Next]_vars
      => [TheLink!LNext]_<<accepted, IF Ours THEN got ELSE <<>>, Ours => Up>>
    BY LinkShows
<1>3. QED
    BY <1>1, <1>2, Invariant, PTL
    DEF Spec, ImplementsLink, TheLink!LSpec, TheLink!linkVars
=============================================================================
