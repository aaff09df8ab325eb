----------------------------- MODULE QueueFacts -----------------------------
(***************************************************************************)
(* Facts about the sequences that model queues and buffers, stated by      *)
(* index, for the proof modules, and the induction that what is computed   *)
(* along a sequence needs.                                                 *)
(***************************************************************************)
EXTENDS Naturals, Sequences, WellFoundedInduction, TLAPS

(* Taking the head off a sequence, putting an element at its end and       *)
(* keeping a prefix, by index: what the queue invariants need.             *)
LEMMA TailFacts ==
    ASSUME NEW S, NEW s \in Seq(S), s # <<>>
    PROVE  /\ Head(s) \in S /\ Tail(s) \in Seq(S) /\ Head(s) = s[1]
           /\ Len(s) \in Nat \ {0} /\ Len(Tail(s)) = Len(s) - 1
           /\ \A k \in 1..Len(Tail(s)) : Tail(s)[k] = s[k + 1]
OBVIOUS

LEMMA AppendFacts ==
    ASSUME NEW S, NEW s \in Seq(S), NEW e \in S
    PROVE  /\ Append(s, e) \in Seq(S) /\ Len(Append(s, e)) = Len(s) + 1
           /\ \A k \in 1..Len(s) : Append(s, e)[k] = s[k]
           /\ Append(s, e)[Len(s) + 1] = e
OBVIOUS

LEMMA PrefixFacts ==
    ASSUME NEW S, NEW s \in Seq(S), NEW n \in 0..Len(s)
    PROVE  /\ SubSeq(s, 1, n) \in Seq(S) /\ Len(SubSeq(s, 1, n)) = n
           /\ \A k \in 1..n : SubSeq(s, 1, n)[k] = s[k]
OBVIOUS

(* A part of a sequence.                                                   *)
LEMMA PartFacts ==
    ASSUME NEW S, NEW s \in Seq(S), NEW lo \in Nat, NEW hi \in 0..Len(s),
           lo <= hi
    PROVE  /\ SubSeq(s, lo + 1, hi) \in Seq(S)
           /\ Len(SubSeq(s, lo + 1, hi)) = hi - lo
           /\ \A k \in 1..(hi - lo) : SubSeq(s, lo + 1, hi)[k] = s[lo + k]
OBVIOUS

(* One sequence behind another.                                            *)
LEMMA JoinFacts ==
    ASSUME NEW S, NEW s \in Seq(S), NEW t \in Seq(S)
    PROVE  /\ s \o t \in Seq(S) /\ Len(s \o t) = Len(s) + Len(t)
           /\ Len(s) \in Nat /\ Len(t) \in Nat
           /\ \A k \in 1..Len(s) : (s \o t)[k] = s[k]
           /\ \A k \in 1..Len(t) : (s \o t)[Len(s) + k] = t[k]
OBVIOUS

LEMMA JoinGrows ==
    ASSUME NEW S, NEW s \in Seq(S), NEW t \in Seq(S), NEW x \in S
    PROVE  s \o Append(t, x) = Append(s \o t, x)
OBVIOUS

(* Sequences of the same elements are the same.                            *)
LEMMA SameSequence ==
    ASSUME NEW S, NEW s \in Seq(S), NEW t \in Seq(S), Len(s) = Len(t),
           \A k \in 1..Len(s) : s[k] = t[k]
    PROVE  s = t
OBVIOUS

(* A function on an initial segment of the naturals is a sequence.         *)
LEMMA BuiltFacts ==
    ASSUME NEW S, NEW n \in Nat, NEW f \in [1..n -> S]
    PROVE  f \in Seq(S) /\ Len(f) = n
OBVIOUS

(* The order of the numbers is well-founded, so a set of them has a least. *)
LEMMA LessThan ==
    LET R == OpToRel(<, Nat) IN
    \A x, y \in Nat : <<y, x>> \in R <=> y < x
BY DEF OpToRel

LEMMA NatMin ==
    ASSUME NEW T \in SUBSET Nat, T # {}
    PROVE  \E x \in T : \A y \in T : x <= y
<1> DEFINE R == OpToRel(<, Nat)
<1>1. IsWellFoundedOn(R, Nat)
    BY NatLessThanWellFounded
<1>2. \A x, y \in Nat : <<y, x>> \in R <=> y < x
    BY LessThan
<1> HIDE DEF R
<1>3. PICK x \in T : \A y \in T : ~(<<y, x>> \in R)
    BY <1>1, WFMin
<1>4. \A y \in T : x <= y
    <2> TAKE y \in T
    <2>1. x \in Nat /\ y \in Nat
        OBVIOUS
    <2>2. ~(y < x)
        BY <1>2, <1>3, <2>1
    <2>3. QED
        BY <2>1, <2>2
<1>5. QED
    BY <1>4

(* Induction, whose property of the numbers is the set that has it.        *)
LEMMA NatInd ==
    ASSUME NEW P \in SUBSET Nat, 0 \in P, \A n \in P : n + 1 \in P
    PROVE  P = Nat
<1> SUFFICES ASSUME P # Nat PROVE FALSE
    OBVIOUS
<1> DEFINE T == Nat \ P
<1>1. T # {} /\ T \in SUBSET Nat
    OBVIOUS
<1>2. PICK x \in T : \A y \in T : x <= y
    BY <1>1, NatMin
<1>3. x # 0 /\ x \in Nat
    BY <1>2
<1>4. x - 1 \in Nat /\ ~(x <= x - 1)
    BY <1>3
<1>5. x - 1 \notin T
    BY <1>2, <1>4
<1>6. x - 1 \in P /\ (x - 1) + 1 = x
    BY <1>3, <1>4, <1>5
<1>7. QED
    BY <1>2, <1>6

(* step[n] takes S into S; g starts at c and goes on by these steps.       *)
Steps(step, N, S) == \A n \in 1..N, x \in S : step[n][x] \in S
Iterates(g, N, S, c, step) ==
   /\ g \in [0..N -> S] /\ g[0] = c /\ \A n \in 1..N : g[n] = step[n][g[n - 1]]
(* What is computed step by step along 1..N exists.                        *)
LEMMA Recursion ==
    ASSUME NEW N \in Nat, NEW S, NEW c \in S, NEW step,
           Steps(step, N, S)
    PROVE  \E g : Iterates(g, N, S, c, step)
<1> DEFINE Good(m, g) == /\ g[0] = c
                         /\ \A n \in 1..m : g[n] = step[n][g[n - 1]]
           P == {m \in Nat : m <= N => \E g \in [0..m -> S] : Good(m, g)}
<1>1. 0 \in P
    <2> DEFINE g == [i \in 0..0 |-> c]
    <2>1. g \in [0..0 -> S] /\ Good(0, g)
        OBVIOUS
    <2>2. QED
        BY <2>1
<1>2. ASSUME NEW m \in Nat, m \in P PROVE m + 1 \in P
    <2> SUFFICES ASSUME m + 1 <= N
                 PROVE  \E g \in [0..(m + 1) -> S] : Good(m + 1, g)
        OBVIOUS
    <2>1. m <= N /\ m + 1 \in 1..N
        OBVIOUS
    <2>2. PICK g \in [0..m -> S] : Good(m, g)
        BY <1>2, <2>1
    <2> DEFINE x == step[m + 1][g[m]]
               h == [i \in 0..(m + 1) |-> IF i = m + 1 THEN x ELSE g[i]]
    <2>3. x \in S
        <3>1. g[m] \in S
            BY <2>2
        <3>2. QED
            BY <2>1, <3>1 DEF Steps
    <2> HIDE DEF x
    <2>4. h \in [0..(m + 1) -> S] /\ h[m + 1] = x /\ \A i \in 0..m : h[i] = g[i]
        <3>1. \A i \in 0..(m + 1) : i # m + 1 => i \in 0..m
            OBVIOUS
        <3>2. \A i \in 0..(m + 1) : h[i] \in S
            BY <2>2, <2>3, <3>1
        <3>3. m + 1 \in 0..(m + 1) /\ \A i \in 0..m : i \in 0..(m + 1) /\ i # m + 1
            OBVIOUS
        <3>4. QED
            BY <3>2, <3>3
    <2> HIDE DEF h
    <2>5. h[0] = c
        BY <2>2, <2>4
    <2>6. ASSUME NEW n \in 1..(m + 1) PROVE h[n] = step[n][h[n - 1]]
        <3>1. CASE n = m + 1
            <4>1. n - 1 = m /\ m \in 0..m
                BY <3>1
            <4>2. QED
                BY <2>4, <3>1, <4>1 DEF x
        <3>2. CASE n # m + 1
            <4>1. n \in 1..m /\ n \in 0..m /\ n - 1 \in 0..m
                BY <3>2
            <4>2. g[n] = step[n][g[n - 1]]
                BY <2>2, <4>1
            <4>3. QED
                BY <2>4, <4>1, <4>2
        <3>3. QED
            BY <3>1, <3>2
    <2>7. QED
        BY <2>4, <2>5, <2>6
<1>3. P = Nat
    <2> HIDE DEF P
    <2>1. P \in SUBSET Nat
        BY DEF P
    <2>2. QED
        BY <1>1, <1>2, <2>1, NatInd
<1>4. N \in P
    BY <1>3
<1>5. QED
    BY <1>4 DEF Iterates

(* It is unique, and stays in S: a function that goes on by these steps    *)
(* for as long as it is in S is one of them.                               *)
Follows(run, N, S, c, step) ==
    /\ run = [n \in 0..N |-> run[n]] /\ run[0] = c
    /\ \A n \in 1..N : run[n - 1] \in S => run[n] = step[n][run[n - 1]]

LEMMA Following ==
    ASSUME NEW N \in Nat, NEW S, NEW c \in S, NEW step, NEW run,
           Steps(step, N, S), Follows(run, N, S, c, step)
    PROVE  Iterates(run, N, S, c, step)
<1> DEFINE P == {m \in Nat : m <= N => run[m] \in S}
<1>1. 0 \in P
    BY DEF Follows
<1>2. ASSUME NEW m \in Nat, m \in P PROVE m + 1 \in P
    <2> SUFFICES ASSUME m + 1 <= N PROVE run[m + 1] \in S
        OBVIOUS
    <2>1. m + 1 \in 1..N /\ (m + 1) - 1 = m /\ run[m] \in S
        BY <1>2
    <2>2. run[m + 1] = step[m + 1][run[m]]
        BY <2>1 DEF Follows
    <2>3. QED
        BY <2>1, <2>2 DEF Steps
<1>3. P \in SUBSET Nat
    OBVIOUS
<1> HIDE DEF P
<1>4. P = Nat
    BY <1>1, <1>2, <1>3, NatInd
<1>5. \A n \in 0..N : run[n] \in S
    BY <1>4 DEF P
<1>6. \A n \in 1..N : n - 1 \in 0..N
    OBVIOUS
<1>7. \A n \in 1..N : run[n] = step[n][run[n - 1]]
    BY <1>5, <1>6 DEF Follows
<1>8. QED
    BY <1>5, <1>7 DEF Follows, Iterates
=============================================================================
