---------------------------- MODULE CodecProofs ----------------------------
(***************************************************************************)
(* What is written is read back: the properties of Codec for every message *)
(* of any number of questions, records and fragments with names and data   *)
(* of any length.                                                          *)
(*                                                                         *)
(* The argument is one about places.  Bytes are laid one part after        *)
(* another (FlattenParts); a reader that stands where a part begins finds  *)
(* its fields where they were written, and finds the end of its name       *)
(* because the places it looks at are the beginnings of its labels; so it  *)
(* goes on where the next part begins (Inv).                               *)
(***************************************************************************)
EXTENDS Codec, Lemmas, SequenceTheorems

\* Induction up to a bound, on a set.
LEMMA UpTo ==
  ASSUME NEW n \in Nat, NEW S, 0 \in S,
         \A k \in 0 .. n - 1 : k \in S => k + 1 \in S
  PROVE  \A k \in 0 .. n : k \in S
<1> DEFINE Bad == {k \in 0 .. n : k \notin S}
<1>1. SUFFICES ASSUME Bad # {} PROVE FALSE
  OBVIOUS
<1>2. PICK k \in Bad : \A j \in Bad : k <= j
  <2>1. Bad \in SUBSET Nat
    OBVIOUS
  <2> HIDE DEF Bad
  <2> QED
    BY <1>1, <2>1, LeastElement
<1>3. k \in 1 .. n /\ k \notin S
  BY <1>2
<1>4. k - 1 \notin Bad
  <2> HIDE DEF Bad
  <2> QED
    BY <1>2, <1>3
<1>5. k - 1 \in 0 .. n - 1 /\ k - 1 \in S /\ (k - 1) + 1 = k
  BY <1>3, <1>4
<1> QED
  BY <1>3, <1>5

\* A step taken again and again from a.
Repeats(f, a, step, n) ==
  f = [k \in 0 .. n |-> IF k = 0 THEN a ELSE step[f[k - 1]]]

\* The recursion has a solution.
LEMMA StepsExist ==
  ASSUME NEW T, NEW a \in T, NEW step \in [T -> T], NEW n \in Nat
  PROVE  \E f \in [0 .. n -> T] : Repeats(f, a, step, n)
<1> DEFINE Solves(f, m) == f = [k \in 0 .. m |-> IF k = 0 THEN a ELSE step[f[k - 1]]]
           S == {m \in Nat : \E f \in [0 .. m -> T] : Solves(f, m)}
<1>1. 0 \in S
  <2>1. [k \in 0 .. 0 |-> a] \in [0 .. 0 -> T] /\ Solves([k \in 0 .. 0 |-> a], 0)
    OBVIOUS
  <2> QED
    BY <2>1
<1>2. ASSUME NEW m \in 0 .. n - 1, m \in S
      PROVE  m + 1 \in S
  <2>1. PICK f \in [0 .. m -> T] : Solves(f, m)
    BY <1>2
  <2> DEFINE g == [k \in 0 .. m + 1 |-> IF k = m + 1 THEN step[f[m]] ELSE f[k]]
  <2>2. m \in Nat /\ m + 1 \in Nat
    OBVIOUS
  <2>3. g \in [0 .. m + 1 -> T]
    BY <2>2
  <2>4. ASSUME NEW k \in 0 .. m + 1
        PROVE  g[k] = IF k = 0 THEN a ELSE step[g[k - 1]]
    <3>1. CASE k = m + 1
      BY <2>2, <3>1
    <3>2. CASE k # m + 1
      <4>1. k \in 0 .. m /\ (k # 0 => k - 1 \in 0 .. m /\ k - 1 # m + 1)
        BY <2>2, <3>2
      <4>2. f[k] = IF k = 0 THEN a ELSE step[f[k - 1]]
        BY <2>1, <4>1
      <4> QED
        BY <3>2, <4>1, <4>2
    <3> QED
      BY <3>1, <3>2
  <2>5. Solves(g, m + 1)
    BY <2>4
  <2> HIDE DEF g, Solves
  <2> QED
    BY <2>2, <2>3, <2>5
<1>3. n \in S
  <2> HIDE DEF S
  <2>1. \A k \in 0 .. n : k \in S
    BY <1>1, <1>2, UpTo
  <2> QED
    BY <2>1
<1> QED
  BY <1>3 DEF Repeats

-----------------------------------------------------------------------------
(***************************************************************************)
(* One part after another.                                                 *)
(***************************************************************************)
PartLengths(seqs) == [i \in 1 .. Len(seqs) |-> Len(seqs[i])]

\* The recursion of FlattenSeq has a solution.
LEMMA FlattenExists ==
  ASSUME NEW T, NEW seqs \in Seq(Seq(T)), Len(seqs) > 0
  PROVE  \E f \in [1 .. Len(seqs) -> Seq(T)] :
           f = [i \in 1 .. Len(seqs) |-> IF i = 1 THEN seqs[i] ELSE f[i - 1] \o seqs[i]]
<1> DEFINE Solves(f, m) ==
             f = [i \in 1 .. m |-> IF i = 1 THEN seqs[i] ELSE f[i - 1] \o seqs[i]]
           S == {m \in Nat : \E f \in [1 .. m -> Seq(T)] : Solves(f, m)}
           n == Len(seqs)
<1>1. n \in Nat /\ \A i \in 1 .. n : seqs[i] \in Seq(T)
  OBVIOUS
<1>2. 0 \in S
  <2> DEFINE f == [i \in 1 .. 0 |-> IF i = 1 THEN seqs[i] ELSE <<>>]
  <2>1. f \in [1 .. 0 -> Seq(T)] /\ Solves(f, 0)
    OBVIOUS
  <2> HIDE DEF f, Solves
  <2> QED
    BY <2>1
<1>3. ASSUME NEW m \in 0 .. n - 1, m \in S
      PROVE  m + 1 \in S
  <2>1. PICK f \in [1 .. m -> Seq(T)] : Solves(f, m)
    BY <1>3
  <2> DEFINE last == IF m = 0 THEN seqs[1] ELSE f[m] \o seqs[m + 1]
             g == [i \in 1 .. m + 1 |-> IF i = m + 1 THEN last ELSE f[i]]
  <2>2. m \in Nat /\ m + 1 \in Nat /\ m + 1 \in 1 .. n /\ 1 \in 1 .. n
        /\ (m # 0 => m \in 1 .. m)
    BY <1>1
  <2>3. last \in Seq(T)
    <3>1. CASE m = 0
      BY <1>1, <2>2, <3>1
    <3>2. CASE m # 0
      <4>1. f[m] \in Seq(T) /\ seqs[m + 1] \in Seq(T)
        BY <1>1, <2>2, <3>2
      <4> QED
        BY <4>1, <3>2
    <3> QED
      BY <3>1, <3>2
  <2> HIDE DEF last
  <2>4. g \in [1 .. m + 1 -> Seq(T)]
    BY <2>2, <2>3
  <2>5. ASSUME NEW i \in 1 .. m + 1
        PROVE  g[i] = IF i = 1 THEN seqs[i] ELSE g[i - 1] \o seqs[i]
    <3>1. CASE i = m + 1
      <4>1. g[i] = last /\ (i # 1 => g[i - 1] = f[m])
        BY <2>2, <3>1
      <4>2. i = 1 <=> m = 0
        BY <2>2, <3>1
      <4> QED
        BY <3>1, <4>1, <4>2 DEF last
    <3>2. CASE i # m + 1
      <4>1. i \in 1 .. m /\ (i # 1 => i - 1 \in 1 .. m /\ i - 1 # m + 1)
        BY <2>2, <3>2
      <4>2. f[i] = IF i = 1 THEN seqs[i] ELSE f[i - 1] \o seqs[i]
        BY <2>1, <4>1
      <4>3. g[i] = f[i] /\ (i # 1 => g[i - 1] = f[i - 1])
        BY <2>2, <3>2, <4>1
      <4> QED
        BY <4>2, <4>3
    <3> QED
      BY <3>1, <3>2
  <2>6. Solves(g, m + 1)
    BY <2>5
  <2> HIDE DEF g, Solves
  <2> QED
    BY <2>2, <2>4, <2>6
<1>4. n \in S
  <2> HIDE DEF S, n
  <2>1. \A k \in 0 .. n : k \in S
    BY <1>1, <1>2, <1>3, UpTo
  <2> QED
    BY <1>1, <2>1
<1> QED
  BY <1>4

LEMMA FlattenSteps ==
  ASSUME NEW T, NEW seqs \in Seq(Seq(T)), Len(seqs) > 0
  PROVE  \E f \in [1 .. Len(seqs) -> Seq(T)] :
           /\ FlattenSeq(seqs) = f[Len(seqs)] /\ f[1] = seqs[1]
           /\ \A i \in 2 .. Len(seqs) : f[i] = f[i - 1] \o seqs[i]
<1> DEFINE Solves(f) ==
             f = [i \in 1 .. Len(seqs) |-> IF i = 1 THEN seqs[i] ELSE f[i - 1] \o seqs[i]]
           f == CHOOSE g : Solves(g)
<1>1. Len(seqs) \in Nat /\ \A i \in 1 .. Len(seqs) : seqs[i] \in Seq(T)
  OBVIOUS
<1>2. \E g : Solves(g)
  <2>1. \E g \in [1 .. Len(seqs) -> Seq(T)] : Solves(g)
    BY FlattenExists, Zenon
  <2> HIDE DEF Solves
  <2> QED
    BY <2>1
<1>3. Solves(f)
  BY <1>2, Zenon
<1>4. FlattenSeq(seqs) = f[Len(seqs)]
  <2>1. Len(seqs) # 0
    OBVIOUS
  <2> QED
    BY <2>1, Zenon DEF FlattenSeq
<1> HIDE DEF f
<1>5. /\ DOMAIN f = 1 .. Len(seqs)
      /\ \A i \in 1 .. Len(seqs) : f[i] = IF i = 1 THEN seqs[i] ELSE f[i - 1] \o seqs[i]
  BY <1>3, Zenon
<1>6. f[1] = seqs[1] /\ \A i \in 2 .. Len(seqs) : f[i] = f[i - 1] \o seqs[i]
  <2>1. 1 \in 1 .. Len(seqs) /\ \A i \in 2 .. Len(seqs) : i \in 1 .. Len(seqs) /\ i # 1
    BY <1>1
  <2> QED
    BY <1>5, <2>1
<1>7. \A k \in 1 .. Len(seqs) : f[k] \in Seq(T)
  <2> DEFINE S == {k \in Nat : k > 0 => f[k] \in Seq(T)}
  <2>1. 0 \in S
    OBVIOUS
  <2>2. ASSUME NEW k \in 0 .. Len(seqs) - 1, k \in S
        PROVE  k + 1 \in S
    <3>1. CASE k = 0
      BY <1>1, <1>6, <3>1
    <3>2. CASE k # 0
      <4>1. f[k] \in Seq(T) /\ k + 1 \in 2 .. Len(seqs) /\ (k + 1) - 1 = k /\ k + 1 \in Nat
        BY <1>1, <2>2, <3>2
      <4>2. seqs[k + 1] \in Seq(T)
        BY <1>1, <4>1
      <4>3. f[k + 1] = f[(k + 1) - 1] \o seqs[k + 1]
        BY <1>6, <4>1, Zenon
      <4>4. f[k] \o seqs[k + 1] \in Seq(T)
        BY <4>1, <4>2, ConcatProperties
      <4> QED
        BY <4>1, <4>3, <4>4
    <3> QED
      BY <3>1, <3>2
  <2> DEFINE n == Len(seqs)
  <2>3. n \in Nat
    BY <1>1
  <2> HIDE DEF S, n
  <2>4. \A k \in 0 .. n : k \in S
    BY <2>1, <2>2, <2>3, UpTo DEF n
  <2>5. \A k \in 1 .. n : k \in 0 .. n /\ k > 0
    BY <2>3
  <2> QED
    BY <2>4, <2>5 DEF S, n
<1>8. f \in [1 .. Len(seqs) -> Seq(T)]
  <2>1. f = [k \in 1 .. Len(seqs) |-> f[k]]
    BY <1>3, <1>5
  <2> QED
    BY <1>7, <2>1
<1> QED
  BY <1>4, <1>6, <1>8

\* The parts of a whole stand where their lengths say, one behind another.
LEMMA FlattenParts ==
  ASSUME NEW T, NEW seqs \in Seq(Seq(T))
  PROVE  /\ FlattenSeq(seqs) \in Seq(T)
         /\ PartLengths(seqs) \in Seq(Int)
         /\ Len(FlattenSeq(seqs)) = Total(PartLengths(seqs))
         /\ \A i \in 1 .. Len(seqs) : \A x \in 1 .. Len(seqs[i]) :
              FlattenSeq(seqs)[Offsets(PartLengths(seqs))[i - 1] + x] = seqs[i][x]
<1> DEFINE n == Len(seqs)
           sizes == PartLengths(seqs)
           off == Offsets(sizes)
<1>1. n \in Nat /\ \A i \in 1 .. n : seqs[i] \in Seq(T) /\ Len(seqs[i]) \in Nat
  OBVIOUS
<1>2. /\ sizes \in Seq(Int) /\ Len(sizes) = n /\ \A i \in 1 .. n : sizes[i] = Len(seqs[i])
  BY <1>1 DEF PartLengths
<1>3. /\ off \in [0 .. n -> Int] /\ off[0] = 0
      /\ \A i \in 1 .. n : off[i] = off[i - 1] + Len(seqs[i])
  <2> HIDE DEF sizes
  <2> QED
    BY <1>2, OffsetsStep
<1>4. Total(sizes) = off[n]
  BY <1>2 DEF Total
<1>5. CASE n = 0
  <2>1. FlattenSeq(seqs) = seqs /\ seqs = <<>>
    BY <1>5 DEF FlattenSeq
  <2> QED
    BY <1>2, <1>3, <1>4, <1>5, <2>1
<1>6. CASE n # 0
  <2>1. PICK f \in [1 .. n -> Seq(T)] :
          /\ FlattenSeq(seqs) = f[n] /\ f[1] = seqs[1]
          /\ \A i \in 2 .. n : f[i] = f[i - 1] \o seqs[i]
    <3>1. Len(seqs) > 0
      BY <1>1, <1>6
    <3> QED
      BY <3>1, FlattenSteps, Zenon
  <2> DEFINE Laid(k) ==
               /\ Len(f[k]) = off[k]
               /\ \A i \in 1 .. k : \A x \in 1 .. Len(seqs[i]) :
                    /\ off[i - 1] + x \in 1 .. off[k]
                    /\ f[k][off[i - 1] + x] = seqs[i][x]
             S == {k \in Nat : k > 0 => Laid(k)}
  <2>2. 0 \in S
    OBVIOUS
  <2> HIDE DEF n, sizes, off
  <2>3. ASSUME NEW k \in 0 .. n - 1, k \in S
        PROVE  Laid(k + 1)
    <3>1. k + 1 \in 1 .. n /\ (k + 1) - 1 = k /\ k \in 0 .. n /\ off[k] \in Int
      BY <1>1, <1>3
    <3>2. seqs[k + 1] \in Seq(T) /\ Len(seqs[k + 1]) \in Nat
          /\ off[k + 1] = off[k] + Len(seqs[k + 1])
      BY <1>1, <1>3, <3>1
    <3>3. CASE k = 0
      <4>1. f[k + 1] = seqs[1] /\ k + 1 = 1 /\ off[k] = 0
        BY <1>3, <2>1, <3>3
      <4>2. Len(f[k + 1]) = off[k + 1]
        BY <3>2, <4>1
      <4>3. ASSUME NEW i \in 1 .. k + 1, NEW x \in 1 .. Len(seqs[i])
            PROVE  /\ off[i - 1] + x \in 1 .. off[k + 1]
                   /\ f[k + 1][off[i - 1] + x] = seqs[i][x]
        <5>1. i = 1 /\ i - 1 = 0
          BY <3>3
        <5>2. x \in 1 .. off[k + 1] /\ x \in Int
          BY <3>2, <4>1, <5>1
        <5> QED
          BY <4>1, <5>1, <5>2, <1>3
      <4> QED
        BY <4>2, <4>3
    <3>4. CASE k # 0
      <4>1. Laid(k) /\ k \in 1 .. n /\ k + 1 \in 2 .. n
        BY <2>3, <3>1, <3>4
      <4>2. f[k + 1] = f[k] \o seqs[k + 1] /\ f[k] \in Seq(T)
        BY <2>1, <3>1, <4>1
      <4>3. /\ Len(f[k]) = off[k] /\ off[k] \in Nat
            /\ Len(f[k + 1]) = off[k + 1]
            /\ \A y \in 1 .. off[k] : f[k + 1][y] = f[k][y]
            /\ \A y \in 1 .. Len(seqs[k + 1]) : f[k + 1][off[k] + y] = seqs[k + 1][y]
        <5>1. Len(f[k]) = off[k] /\ off[k] \in Nat
          BY <4>1, <4>2
        <5>2. /\ Len(f[k] \o seqs[k + 1]) = Len(f[k]) + Len(seqs[k + 1])
              /\ \A y \in 1 .. Len(f[k]) + Len(seqs[k + 1]) :
                   (f[k] \o seqs[k + 1])[y] =
                     IF y <= Len(f[k]) THEN f[k][y] ELSE seqs[k + 1][y - Len(f[k])]
          BY <3>2, <4>2, ConcatProperties
        <5>3. /\ Len(f[k + 1]) = off[k] + Len(seqs[k + 1])
              /\ \A y \in 1 .. off[k] + Len(seqs[k + 1]) :
                   f[k + 1][y] =
                     IF y <= off[k] THEN f[k][y] ELSE seqs[k + 1][y - off[k]]
          BY <4>2, <5>1, <5>2
        <5> HIDE DEF Laid
        <5>4. \A y \in 1 .. off[k] :
                y \in 1 .. off[k] + Len(seqs[k + 1]) /\ y <= off[k]
          BY <3>2, <5>1
        <5>5. \A y \in 1 .. Len(seqs[k + 1]) :
                /\ off[k] + y \in 1 .. off[k] + Len(seqs[k + 1])
                /\ ~ (off[k] + y <= off[k]) /\ (off[k] + y) - off[k] = y
          BY <3>2, <5>1, SMTT(30)
        <5>6. \A y \in 1 .. off[k] : f[k + 1][y] = f[k][y]
          BY ONLY <5>3, <5>4
        <5>7. \A y \in 1 .. Len(seqs[k + 1]) : f[k + 1][off[k] + y] = seqs[k + 1][y]
          BY ONLY <5>3, <5>5
        <5> QED
          BY <3>2, <5>1, <5>3, <5>6, <5>7
      <4>4. ASSUME NEW i \in 1 .. k + 1, NEW x \in 1 .. Len(seqs[i])
            PROVE  /\ off[i - 1] + x \in 1 .. off[k + 1]
                   /\ f[k + 1][off[i - 1] + x] = seqs[i][x]
        <5>1. CASE i = k + 1
          <6>1. i - 1 = k /\ x \in 1 .. Len(seqs[k + 1]) /\ off[i - 1] = off[k]
            BY <5>1, <3>1
          <6>2. off[k] + x \in 1 .. off[k + 1]
            <7>1. off[k] \in Nat /\ Len(seqs[k + 1]) \in Nat /\ x \in 1 .. Len(seqs[k + 1])
              BY ONLY <3>2, <4>3, <6>1
            <7>2. off[k] + x \in 1 .. off[k] + Len(seqs[k + 1])
              BY ONLY <7>1
            <7> QED
              BY ONLY <3>2, <7>2
          <6> QED
            BY <5>1, <6>1, <6>2, <4>3
        <5>2. CASE i # k + 1
          <6>1. i \in 1 .. k
            BY <5>2, <3>1
          <6>2. off[i - 1] + x \in 1 .. off[k] /\ f[k][off[i - 1] + x] = seqs[i][x]
            BY <4>1, <6>1
          <6>3. off[i - 1] + x \in 1 .. off[k + 1]
            <7> DEFINE y == off[i - 1] + x
            <7>1. off[k] \in Nat /\ y \in 1 .. off[k]
              BY ONLY <4>3, <6>2
            <7> HIDE DEF y
            <7>2. y \in 1 .. off[k] + Len(seqs[k + 1])
              BY ONLY <3>2, <7>1
            <7> QED
              BY ONLY <3>2, <7>2 DEF y
          <6> QED
            BY <6>2, <6>3, <4>3
        <5> QED
          BY <5>1, <5>2
      <4> QED
        BY <4>3, <4>4
    <3> QED
      BY <3>3, <3>4
  <2>4. \A k \in 0 .. n - 1 : k \in S => k + 1 \in S
    <3>1. \A k \in 0 .. n - 1 : k \in S => Laid(k + 1)
      BY <2>3
    <3>2. \A k \in 0 .. n - 1 : k + 1 \in Nat
      OBVIOUS
    <3> HIDE DEF Laid
    <3> QED
      BY <3>1, <3>2
  <2> HIDE DEF S
  <2>5. \A k \in 0 .. n : k \in S
    BY <1>1, <2>2, <2>4, UpTo
  <2>6. n \in 0 .. n /\ n > 0
    BY <1>1, <1>6
  <2>7. Laid(n)
    <3> HIDE DEF Laid
    <3> QED
      BY <2>5, <2>6 DEF S
  <2>8. f[n] \in Seq(T)
    BY <2>1, <2>6
  <2> QED
    BY <1>2, <1>4, <2>1, <2>7, <2>8 DEF n, sizes, off
<1> QED
  BY <1>5, <1>6
-----------------------------------------------------------------------------
(***************************************************************************)
(* What stands at a place, and what the reader makes of it.                *)
(***************************************************************************)
\* The bytes behind the first p are those of s.
Holds(p, s) ==
  /\ p + Len(s) <= Len(bytes)
  /\ \A i \in 1 .. Len(s) : bytes[p + i] = s[i]

LEMMA HoldsConcat ==
  ASSUME NEW p \in Nat, NEW s \in Seq(Byte), NEW t \in Seq(Byte), bytes \in Seq(Byte),
         Holds(p, s \o t)
  PROVE  Holds(p, s) /\ Holds(p + Len(s), t) /\ p + Len(s) \in Nat
<1>1. Len(s) \in Nat /\ Len(t) \in Nat /\ Len(bytes) \in Nat
  OBVIOUS
<1>2. /\ Len(s \o t) = Len(s) + Len(t)
      /\ \A i \in 1 .. Len(s) + Len(t) :
           (s \o t)[i] = IF i <= Len(s) THEN s[i] ELSE t[i - Len(s)]
  BY ConcatProperties
<1> DEFINE u == s \o t
<1>3. /\ p + (Len(s) + Len(t)) <= Len(bytes)
      /\ \A i \in 1 .. Len(s) + Len(t) : bytes[p + i] = u[i]
  BY <1>2 DEF Holds
<1> HIDE DEF u
<1>4. ASSUME NEW i \in 1 .. Len(s)
      PROVE  bytes[p + i] = s[i]
  <2>1. i \in 1 .. Len(s) + Len(t) /\ i <= Len(s)
    BY <1>1
  <2> QED
    BY <2>1, <1>2, <1>3 DEF u
<1>5. ASSUME NEW i \in 1 .. Len(t)
      PROVE  bytes[(p + Len(s)) + i] = t[i]
  <2>1. /\ Len(s) + i \in 1 .. Len(s) + Len(t) /\ ~ (Len(s) + i <= Len(s))
        /\ (Len(s) + i) - Len(s) = i /\ (p + Len(s)) + i = p + (Len(s) + i)
    BY <1>1
  <2>2. bytes[p + (Len(s) + i)] = u[Len(s) + i] /\ u[Len(s) + i] = t[(Len(s) + i) - Len(s)]
    BY <2>1, <1>2, <1>3 DEF u
  <2> QED
    BY <2>1, <2>2
<1> QED
  BY <1>1, <1>3, <1>4, <1>5 DEF Holds

LEMMA HoldsAt ==
  ASSUME NEW p \in Nat, NEW s \in Seq(Byte), Holds(p, s), NEW i \in 0 .. Len(s) - 1
  PROVE  At(p + i) = s[i + 1]
<1>1. i + 1 \in 1 .. Len(s) /\ p + (i + 1) = (p + i) + 1
  OBVIOUS
<1>2. bytes[p + (i + 1)] = s[i + 1]
  BY <1>1 DEF Holds
<1> QED
  BY <1>1, <1>2 DEF At

LEMMA HoldsBytes ==
  ASSUME NEW p \in Nat, NEW s \in Seq(Byte), Holds(p, s)
  PROVE  Bytes(p, Len(s)) = s
<1> DEFINE n == Len(s)
           b == SubSeq(bytes, p + 1, p + n)
<1>1. n \in Nat /\ \A i \in 1 .. n : s[i] \in Byte
  OBVIOUS
<1>2. \A i \in 1 .. n : bytes[p + i] = s[i]
  BY DEF Holds
<1>3. ASSUME NEW i \in p + 1 .. p + n
      PROVE  bytes[i] \in Byte
  <2>1. i - p \in 1 .. n /\ p + (i - p) = i
    BY <1>1
  <2> QED
    BY <2>1, <1>1, <1>2
<1> HIDE DEF n
<1>4. /\ p + 1 \in Int /\ p + n \in Int /\ (p + n) - (p + 1) + 1 = n
      /\ (p + 1 <= p + n <=> n > 0)
  BY <1>1
<1>5. /\ b \in Seq(Byte)
      /\ Len(b) = IF p + 1 <= p + n THEN (p + n) - (p + 1) + 1 ELSE 0
      /\ \A i \in 1 .. (p + n) - (p + 1) + 1 : b[i] = bytes[(p + 1) + i - 1]
  BY <1>3, <1>4, SubSeqProperties
<1> HIDE DEF b
<1>6. Len(b) = n
  BY <1>1, <1>4, <1>5
<1>7. ASSUME NEW i \in 1 .. n
      PROVE  b[i] = s[i]
  <2>1. (p + 1) + i - 1 = p + i
    BY <1>1
  <2> QED
    BY <2>1, <1>2, <1>4, <1>5
<1>8. b = s
  BY <1>5, <1>6, <1>7, SeqEqual DEF n
<1> QED
  BY <1>8 DEF b, n, Bytes

\* What fits a byte or two is a natural number.
LEMMA WordIs ==
  /\ WORD \in Nat
  /\ \A n \in Word : n \in Nat /\ n < WORD
  /\ \A n \in Int : 0 <= n /\ n < WORD => n \in Word
<1>1. WORD \in Nat
  BY SMT DEF WORD
<1> QED
  BY <1>1 DEF Word

LEMMA AllNatural == Word \subseteq Nat /\ Byte \subseteq Nat
<1>1. Word \subseteq Nat
  BY WordIs
<1>2. Byte \subseteq Nat
  BY DEF Byte
<1> QED
  BY <1>1, <1>2

\* htons and ntohs, htonl and ntohl.
LEMMA Bytes2 ==
  ASSUME NEW n \in Nat
  PROVE  BE2(n) \in Seq(Byte) /\ Len(BE2(n)) = 2
<1>1. (n \div 256) % 256 \in Byte /\ n % 256 \in Byte
  BY Z3 DEF Byte
<1> QED
  BY <1>1 DEF BE2

LEMMA Bytes4 ==
  ASSUME NEW n \in Nat
  PROVE  /\ BE4(n) \in Seq(Byte) /\ Len(BE4(n)) = 4
         /\ n \div WORD \in Nat /\ n % WORD \in Word /\ BE2(n % WORD) = BE2(n)
         /\ n = WORD * (n \div WORD) + (n % WORD)
<1> DEFINE high == n \div WORD
           low == n % WORD
<1>1. high \in Nat
  BY SMT DEF WORD
<1>2. low \in Int /\ 0 <= low /\ low < WORD
  BY SMT DEF WORD
<1>3. (low \div 256) % 256 = (n \div 256) % 256 /\ low % 256 = n % 256
  BY SMT DEF WORD
<1>4. n = WORD * high + low
  BY SMT DEF WORD
<1>5. BE4(n) = BE2(high) \o BE2(n)
  BY Zenon DEF BE4
<1> HIDE DEF high, low
<1>6. low \in Word
  BY ONLY <1>2, WordIs
<1>7. BE2(low) = BE2(n)
  BY ONLY <1>3, Zenon DEF BE2
<1>8. BE4(n) \in Seq(Byte) /\ Len(BE4(n)) = 4
  <2> DEFINE s == BE2(high)
             t == BE2(n)
  <2>1. s \in Seq(Byte) /\ t \in Seq(Byte) /\ Len(s) = 2 /\ Len(t) = 2
    BY <1>1, Bytes2
  <2>2. BE4(n) = s \o t
    BY <1>5
  <2> HIDE DEF s, t
  <2>3. s \o t \in Seq(Byte) /\ Len(s \o t) = Len(s) + Len(t)
    BY <2>1, ConcatProperties
  <2> QED
    BY <2>1, <2>2, <2>3
<1> QED
  BY ONLY <1>1, <1>4, <1>6, <1>7, <1>8 DEF high, low

LEMMA HoldsNumber2 ==
  ASSUME NEW p \in Nat, NEW n \in Word, Holds(p, BE2(n))
  PROVE  Number2(p) = n
<1> DEFINE high == n \div 256
           low == n % 256
<1>1. n \in Nat /\ high \in 0 .. 255 /\ low \in 0 .. 255 /\ n = 256 * high + low
  <2>1. n \in Nat /\ n < WORD
    BY WordIs
  <2> QED
    BY <2>1, Z3 DEF WORD
<1> HIDE DEF high, low
<1>a. high % 256 = high
  BY <1>1
<1>2. bytes[p + 1] = high % 256 /\ bytes[p + 2] = low
  <2>1. 1 \in 1 .. Len(BE2(n)) /\ 2 \in 1 .. Len(BE2(n))
    BY DEF BE2
  <2>2. bytes[p + 1] = BE2(n)[1] /\ bytes[p + 2] = BE2(n)[2]
    BY <2>1 DEF Holds
  <2>3. BE2(n)[1] = high % 256 /\ BE2(n)[2] = low
    BY DEF BE2, high, low
  <2> QED
    BY <2>2, <2>3
<1>3. (p + 1) + 1 = p + 2
  OBVIOUS
<1> QED
  BY <1>1, <1>a, <1>2, <1>3 DEF Number2, At

LEMMA HoldsNumber4 ==
  ASSUME NEW p \in Nat, NEW n, IsDWord(n), bytes \in Seq(Byte), Holds(p, BE4(n))
  PROVE  Number4(p) = n
<1>1. n \in Nat /\ n \div WORD \in Word
  BY DEF IsDWord
<1>2. n \div WORD \in Nat /\ n % WORD \in Word /\ BE2(n % WORD) = BE2(n)
      /\ n = WORD * (n \div WORD) + (n % WORD)
  BY <1>1, Bytes4
<1>3. BE2(n \div WORD) \in Seq(Byte) /\ Len(BE2(n \div WORD)) = 2 /\ BE2(n) \in Seq(Byte)
  BY <1>1, <1>2, Bytes2
<1>4. Holds(p, BE2(n \div WORD)) /\ Holds(p + 2, BE2(n)) /\ p + 2 \in Nat
  <2> DEFINE s == BE2(n \div WORD)
             t == BE2(n)
  <2>1. s \in Seq(Byte) /\ t \in Seq(Byte) /\ Len(s) = 2 /\ Holds(p, s \o t)
    BY <1>3 DEF BE4
  <2> HIDE DEF s, t
  <2>2. Holds(p, s) /\ Holds(p + Len(s), t) /\ p + Len(s) \in Nat
    BY <2>1, HoldsConcat
  <2>3. Holds(p, s) /\ Holds(p + 2, t) /\ p + 2 \in Nat
    BY <2>1, <2>2
  <2> QED
    BY <2>3 DEF s, t
<1>5. Number2(p) = n \div WORD
  BY <1>1, <1>4, HoldsNumber2
<1>6. Number2(p + 2) = n % WORD
  BY <1>2, <1>4, HoldsNumber2
<1> QED
  BY <1>2, <1>5, <1>6 DEF Number4
-----------------------------------------------------------------------------
(***************************************************************************)
(* Names.                                                                  *)
(***************************************************************************)
\* The places of dns_name_from_bytes are reached one from another.
LEMMA PlacesHold ==
  ASSUME NEW from \in Nat, NEW n \in Nat, bytes \in Seq(Byte), from + n <= Len(bytes)
  PROVE  /\ Places(from, n)[0] = 0
         /\ \A k \in 0 .. n - 1 :
              Places(from, n)[k + 1] = NextLabel(from, n, Places(from, n)[k])
<1> DEFINE T == 0 .. n + 1
           step == [i \in T |-> NextLabel(from, n, i)]
           Solves(g) ==
             g = [k \in 0 .. n |-> IF k = 0 THEN 0 ELSE NextLabel(from, n, g[k - 1])]
           at == CHOOSE g : Solves(g)
<1>1. ASSUME NEW i \in T
      PROVE  NextLabel(from, n, i) \in T
  <2>1. CASE i >= n
    BY <2>1 DEF NextLabel
  <2>2. CASE i < n
    <3>1. from + i + 1 \in 1 .. Len(bytes)
      BY <2>2
    <3>2. At(from + i) \in Nat
      <4>1. \A x \in 1 .. Len(bytes) : bytes[x] \in Byte
        OBVIOUS
      <4>2. bytes[from + i + 1] \in Byte
        BY <3>1, <4>1
      <4>3. \A b \in Byte : b \in Nat
        BY DEF Byte
      <4> QED
        BY <4>2, <4>3 DEF At
    <3> QED
      BY <2>2, <3>2 DEF NextLabel
  <2> QED
    BY <2>1, <2>2
<1>2. step \in [T -> T] /\ 0 \in T
  BY <1>1
<1>3. PICK f \in [0 .. n -> T] : Repeats(f, 0, step, n)
  <2> HIDE DEF T, step
  <2> QED
    BY <1>2, StepsExist
<1>4. Solves(f)
  <2>1. \A k \in 1 .. n : f[k - 1] \in T
    BY <1>3
  <2>2. \A k \in 1 .. n : step[f[k - 1]] = NextLabel(from, n, f[k - 1])
    BY <2>1
  <2>3. /\ f = [k \in 0 .. n |-> f[k]]
        /\ \A k \in 0 .. n : f[k] = IF k = 0 THEN 0 ELSE step[f[k - 1]]
    <3> HIDE DEF step, T
    <3> QED
      BY <1>3, Zenon DEF Repeats
  <2> HIDE DEF step
  <2>4. \A k \in 0 .. n : f[k] = IF k = 0 THEN 0 ELSE NextLabel(from, n, f[k - 1])
    <3>1. \A k \in 0 .. n : k # 0 => k \in 1 .. n
      OBVIOUS
    <3> QED
      BY ONLY <2>2, <2>3, <3>1
  <2> QED
    BY <2>3, <2>4, Zenon
<1>5. Solves(at)
  <2> HIDE DEF Solves
  <2> QED
    BY <1>4
<1>6. Places(from, n) = at
  BY DEF Places
<1> HIDE DEF at
<1>7. \A k \in 0 .. n : at[k] = IF k = 0 THEN 0 ELSE NextLabel(from, n, at[k - 1])
  BY <1>5, Zenon
<1>8. 0 \in 0 .. n /\ \A k \in 0 .. n - 1 : k + 1 \in 0 .. n /\ k + 1 # 0 /\ (k + 1) - 1 = k
  OBVIOUS
<1> QED
  BY <1>6, <1>7, <1>8

\* In a name that begins with labels, one from each place in starts to the
\* next, those are the places looked at, and the reader stops at the last.
LEMMA PlacesAre ==
  ASSUME NEW from \in Nat, NEW n \in Nat, bytes \in Seq(Byte), from + n <= Len(bytes),
         NEW last \in 0 .. n - 1, NEW starts \in SUBSET (0 .. last),
         0 \in starts, last \in starts,
         \A i \in starts \ {last} :
           At(from + i) \in 1 .. 63 /\ i + At(from + i) + 1 \in starts,
         At(from + last) = 0 \/ At(from + last) + last > n
  PROVE  /\ Stop(from, n) = last
         /\ Labels(from, n) \subseteq starts
         /\ (\A i \in starts \ {last}, j \in starts : j > i => j >= i + At(from + i) + 1)
              => Labels(from, n) = starts
<1> DEFINE at == Places(from, n)
           Dense == \A i \in starts \ {last}, j \in starts : j > i => j >= i + At(from + i) + 1
           Visited(k) ==
             /\ at[k] \in starts /\ (at[k] >= k \/ at[k] = last)
             /\ Dense => \A s \in starts : s <= at[k] => \E j \in 0 .. k : at[j] = s
           S == {k \in Nat : Visited(k)}
<1>1. at[0] = 0 /\ \A k \in 0 .. n - 1 : at[k + 1] = NextLabel(from, n, at[k])
  BY PlacesHold
<1> HIDE DEF at
<1>2. last \in Nat /\ \A i \in starts : i \in 0 .. last /\ i < n /\ i \in Nat
  OBVIOUS
<1>3. Visited(0)
  <2>1. \A s \in starts : s <= 0 => s = 0
    BY <1>2
  <2>2. 0 \in 0 .. 0
    OBVIOUS
  <2> QED
    BY <1>1, <2>1, <2>2
<1>4. ASSUME NEW k \in 0 .. n - 1, Visited(k)
      PROVE  Visited(k + 1)
  <2>1. at[k + 1] = NextLabel(from, n, at[k]) /\ at[k] \in starts
        /\ at[k] \in 0 .. last /\ at[k] < n /\ at[k] \in Nat /\ k + 1 \in 0 .. k + 1
    <3>1. at[k] \in starts /\ k + 1 \in 0 .. k + 1
      BY <1>4
    <3> HIDE DEF Visited
    <3> QED
      BY <1>1, <1>2, <3>1
  <2>2. ASSUME Dense, NEW s \in starts, s <= at[k]
        PROVE  \E j \in 0 .. k + 1 : at[j] = s
    <3>1. PICK j \in 0 .. k : at[j] = s
      BY <1>4, <2>2
    <3> QED
      BY <3>1
  <2>3. CASE at[k] = last
    <3>1. at[k + 1] = last
      BY <2>1, <2>3 DEF NextLabel
    <3>2. Dense => \A s \in starts : s <= at[k + 1] => \E j \in 0 .. k + 1 : at[j] = s
      BY <2>2, <2>3, <3>1
    <3> QED
      BY <3>1, <3>2
  <2>4. CASE at[k] # last
    <3> DEFINE i == at[k]
               len == At(from + i)
    <3>1. len \in 1 .. 63 /\ i + len + 1 \in starts
      BY <2>1, <2>4
    <3>2. i + len + 1 \in 0 .. last
      BY <1>2, <3>1
    <3> HIDE DEF i, len
    <3>3. i \in Nat /\ len # 0 /\ ~ (i >= n) /\ ~ (len + i > n)
      <4>1. i \in Nat /\ i < n /\ last < n /\ last \in Nat /\ n \in Nat
        BY <2>1 DEF i
      <4> QED
        BY ONLY <3>1, <3>2, <4>1
    <3>4. at[k + 1] = i + len + 1
      BY <2>1, <3>3 DEF NextLabel, i, len
    <3>5. at[k + 1] >= k + 1
      <4>1. i >= k
        BY <1>4, <2>4 DEF i
      <4> QED
        BY <4>1, <3>1, <3>3, <3>4
    <3>6. ASSUME Dense, NEW s \in starts, s <= at[k + 1]
          PROVE  \E j \in 0 .. k + 1 : at[j] = s
      <4>1. CASE s <= i
        BY <2>2, <3>6, <4>1 DEF i
      <4>2. CASE s > i
        <5>1. s >= i + len + 1
          BY <2>1, <2>4, <3>6, <4>2 DEF i, len
        <5>2. s = at[k + 1]
          BY <5>1, <3>6, <3>4, <1>2, <3>1, <3>3
        <5> QED
          BY <5>2, <2>1
      <4>3. s \in Nat
        BY <1>2
      <4> QED
        BY <4>1, <4>2, <4>3, <3>3
    <3> QED
      BY <3>1, <3>4, <3>5, <3>6
  <2> QED
    BY <2>3, <2>4
<1>5. \A k \in 0 .. n : Visited(k)
  <2>1. 0 \in S /\ \A k \in 0 .. n - 1 : k \in S => k + 1 \in S
    <3> HIDE DEF Visited
    <3>1. \A k \in 0 .. n - 1 : k + 1 \in Nat
      OBVIOUS
    <3> QED
      BY <1>3, <1>4, <3>1
  <2> HIDE DEF S
  <2>2. \A k \in 0 .. n : k \in S
    BY <2>1, UpTo
  <2> HIDE DEF Visited
  <2> QED
    BY <2>2 DEF S
<1>6. n \in 0 .. n
  OBVIOUS
<1>7. at[n] = last
  <2>1. at[n] \in starts /\ (at[n] >= n \/ at[n] = last)
    BY <1>5, <1>6
  <2> HIDE DEF Visited
  <2>2. at[n] < n /\ at[n] \in Nat
    BY <1>2, <2>1
  <2> QED
    BY ONLY <2>1, <2>2, n \in Nat
<1>8. \A k \in 0 .. n : at[k] \in starts
  BY <1>5
<1>9. Dense => \A s \in starts : \E j \in 0 .. n : at[j] = s
  <2>1. Dense => \A s \in starts : s <= at[n] => \E j \in 0 .. n : at[j] = s
    BY <1>5, <1>6
  <2>2. \A s \in starts : s <= at[n]
    BY <1>2, <1>7
  <2> QED
    BY <2>1, <2>2
<1>10. Labels(from, n) = {at[k] : k \in 0 .. n} /\ Stop(from, n) = at[n]
  BY DEF Labels, Stop, at
<1>11. Dense => Labels(from, n) = starts
  BY <1>8, <1>9, <1>10
<1> QED
  BY <1>7, <1>8, <1>10, <1>11

\* The scan for the end of a name finds the first zero.
LEMMA ScannedIs ==
  ASSUME NEW from \in Nat, NEW n \in Nat \ {0}, bytes \in Seq(Byte),
         from + n <= Len(bytes), At(from + (n - 1)) = 0,
         \A i \in 0 .. n - 2 : At(from + i) # 0
  PROVE  Zeros(from) # {} /\ Scanned(from) = n
<1> DEFINE z == from + (n - 1)
<1>1. z \in Nat /\ z \in from .. Len(bytes) - 1 /\ z - from + 1 = n
  OBVIOUS
<1>2. z \in Zeros(from)
  BY <1>1 DEF Zeros
<1>3. ASSUME NEW y \in Zeros(from)
      PROVE  z <= y
  <2>1. y \in from .. Len(bytes) - 1 /\ At(y) = 0
    BY DEF Zeros
  <2>2. SUFFICES ASSUME y < z PROVE FALSE
    BY <2>1, <1>1
  <2>3. y - from \in 0 .. n - 2 /\ from + (y - from) = y
    BY <2>1, <2>2
  <2> QED
    BY <2>1, <2>3
<1>4. \A x \in Zeros(from) : (\A y \in Zeros(from) : x <= y) => x = z
  <2>1. \A x \in Zeros(from) : x \in Int
    BY DEF Zeros
  <2> HIDE DEF z
  <2> QED
    BY <1>1, <1>2, <1>3, <2>1
<1>5. Min(Zeros(from)) = z
  <2> DEFINE x == CHOOSE x \in Zeros(from) : \A y \in Zeros(from) : x <= y
  <2>1. x \in Zeros(from) /\ \A y \in Zeros(from) : x <= y
    <3> HIDE DEF z
    <3> QED
      BY <1>2, <1>3
  <2>2. Min(Zeros(from)) = x
    BY DEF Min
  <2> HIDE DEF x
  <2> QED
    BY <1>4, <2>1, <2>2
<1> QED
  BY <1>1, <1>2, <1>5 DEF Scanned

\* A name that ends in its only zero is read to that zero.
LEMMA RootName ==
  ASSUME NEW from \in Nat, NEW name \in Seq(Byte), bytes \in Seq(Byte),
         Holds(from, name), EndsInRoot(name), OnlyLastZero(name)
  PROVE  /\ Zeros(from) # {} /\ Scanned(from) = Len(name)
         /\ Stop(from, Len(name)) = Len(name) - 1
         /\ ~ IsPointerName(from, Len(name))
         /\ NameBytes(from, Len(name)) = Len(name)
<1> DEFINE n == Len(name)
           last == n - 1
<1>1. n \in Nat \ {0} /\ name[n] = 0 /\ LabelsFill(name, last)
  BY DEF EndsInRoot
<1>2. from + n <= Len(bytes)
  BY DEF Holds
<1>3. \A i \in 0 .. n - 1 : At(from + i) = name[i + 1]
  BY HoldsAt
<1>4. \A i \in DOMAIN name : name[i] = 0 => i = n
  BY DEF OnlyLastZero
<1>5. DOMAIN name = 1 .. n
  OBVIOUS
<1>6. PICK starts \in SUBSET (0 .. last) :
        /\ {0, last} \subseteq starts
        /\ \A i \in starts \ {last} :
             name[i + 1] \in 1 .. 63 /\ i + name[i + 1] + 1 \in starts
  BY <1>1 DEF LabelsFill
<1> HIDE DEF n
<1>7. last \in 0 .. n - 1 /\ last \in 0 .. n - 1 /\ last + 1 = n /\ n \in Nat
  BY <1>1
<1>8. \A i \in 0 .. n - 2 : At(from + i) # 0
  <2>1. \A i \in 0 .. n - 2 : i \in 0 .. n - 1 /\ i + 1 \in 1 .. n /\ i + 1 # n
    BY <1>1
  <2> QED
    BY <1>3, <1>4, <1>5, <2>1
<1>9. At(from + last) = 0
  BY <1>1, <1>3, <1>7
<1> HIDE DEF last
<1>10. Zeros(from) # {} /\ Scanned(from) = n
  BY <1>1, <1>2, <1>8, <1>9, ScannedIs DEF last
<1>11. \A i \in starts \ {last} :
         At(from + i) \in 1 .. 63 /\ i + At(from + i) + 1 \in starts
  <2>1. \A i \in starts \ {last} : i \in 0 .. n - 1
    BY <1>7
  <2> QED
    BY <1>3, <1>6, <2>1
<1>12. Stop(from, n) = last
  BY <1>2, <1>6, <1>7, <1>9, <1>11, PlacesAre
<1>13. ~ IsPointerName(from, n)
  BY <1>9, <1>12 DEF IsPointerName
<1> QED
  BY <1>7, <1>10, <1>12, <1>13 DEF NameBytes, n, last

\* One that ends in a pointer, and has a zero behind it, is read to its end.
LEMMA PointerName ==
  ASSUME NEW from \in Nat, NEW name \in Seq(Byte), bytes \in Seq(Byte),
         Holds(from, name), EndsInPointer(name), Zeroless(name),
         from + Len(name) < Len(bytes), At(from + Len(name)) = 0
  PROVE  /\ Zeros(from) # {} /\ Scanned(from) = Len(name) + 1
         /\ Stop(from, Len(name) + 1) = Len(name) - 2
         /\ NameBytes(from, Len(name) + 1) = Len(name)
<1> DEFINE n == Len(name) + 1
           last == Len(name) - 2
<1>1. /\ Len(name) \in Nat /\ Len(name) >= 2 /\ name[Len(name) - 1] >= 192
      /\ LabelsFill(name, last)
  BY DEF EndsInPointer
<1>2. Len(bytes) \in Nat /\ from + n <= Len(bytes)
  BY <1>1
<1>3. \A i \in 0 .. Len(name) - 1 : At(from + i) = name[i + 1]
  BY HoldsAt
<1>4. \A i \in 1 .. Len(name) : name[i] # 0 /\ name[i] \in Nat
  <2>1. DOMAIN name = 1 .. Len(name) /\ \A i \in 1 .. Len(name) : name[i] \in Byte
    OBVIOUS
  <2>2. \A b \in Byte : b \in Nat
    BY DEF Byte
  <2> QED
    BY <2>1, <2>2 DEF Zeroless
<1>5. PICK starts \in SUBSET (0 .. last) :
        /\ {0, last} \subseteq starts
        /\ \A i \in starts \ {last} :
             name[i + 1] \in 1 .. 63 /\ i + name[i + 1] + 1 \in starts
  BY <1>1 DEF LabelsFill
<1>6. /\ last \in 0 .. n - 1 /\ last \in 0 .. Len(name) - 1 /\ last + 1 = Len(name) - 1
      /\ n \in Nat \ {0} /\ n - 1 = Len(name) /\ last < n
  BY <1>1
<1>7. \A i \in 0 .. n - 2 : At(from + i) # 0
  <2>1. \A i \in 0 .. n - 2 : i \in 0 .. Len(name) - 1 /\ i + 1 \in 1 .. Len(name)
    BY <1>1
  <2> QED
    BY <1>3, <1>4, <2>1
<1>8. /\ At(from + last) # 0 /\ At(from + last) \in Nat /\ At(from + last) >= 192
      /\ At(from + last) + last > n
  <2>1. At(from + last) = name[Len(name) - 1] /\ Len(name) - 1 \in 1 .. Len(name)
    <3>1. Len(name) - 1 \in 1 .. Len(name)
      BY <1>1
    <3> HIDE DEF last
    <3>2. At(from + last) = name[last + 1]
      BY <1>3, <1>6
    <3> QED
      BY <1>6, <3>1, <3>2
  <2>2. name[Len(name) - 1] # 0 /\ name[Len(name) - 1] \in Nat
    BY <1>4, <2>1
  <2> QED
    BY <1>1, <2>1, <2>2
<1> HIDE DEF n, last
<1>9. Zeros(from) # {} /\ Scanned(from) = n
  BY <1>2, <1>6, <1>7, ScannedIs
<1>10. \A i \in starts \ {last} :
         At(from + i) \in 1 .. 63 /\ i + At(from + i) + 1 \in starts
  <2>1. \A i \in starts \ {last} : i \in 0 .. Len(name) - 1
    BY <1>1, <1>6
  <2> QED
    BY <1>3, <1>5, <2>1
<1>11. Stop(from, n) = last
  <2>1. At(from + last) = 0 \/ At(from + last) + last > n
    BY <1>8
  <2>2. starts \in SUBSET (0 .. last) /\ 0 \in starts /\ last \in starts
    BY <1>5
  <2>3. n \in Nat /\ last \in 0 .. n - 1 /\ from + n <= Len(bytes)
    BY <1>2, <1>6
  <2> QED
    BY ONLY from \in Nat, bytes \in Seq(Byte), <1>10, <2>1, <2>2, <2>3, PlacesAre
<1>12. IsPointerName(from, n) /\ Stop(from, n) < n
  BY <1>6, <1>8, <1>11 DEF IsPointerName
<1> QED
  BY <1>6, <1>9, <1>11, <1>12 DEF NameBytes, n, last

\* The text of a name, as bytes: each label behind its length.
LEMMA TextBytes ==
  ASSUME NEW text, IsText(text), text \notin {<<>>, <<DOT>>}
  PROVE  LET name == dns_name_to_bytes(text)
             dots == {0} \cup {i \in 1 .. Len(text) : text[i] = DOT}
         IN  /\ Len(text) \in Nat \ {0}
             /\ name \in Seq(Byte) /\ Len(name) = Len(text) + 1 /\ name[Len(text) + 1] = 0
             /\ text \in Seq(Byte) /\ Len(text) \in dots /\ dots \subseteq 0 .. Len(text)
             /\ \A i \in 2 .. Len(text) : text[i - 1] # DOT => name[i] = text[i - 1]
             /\ \A i \in 1 .. Len(text) : name[i] # 0
             /\ \A i \in dots \ {Len(text)} :
                  /\ name[i + 1] \in 1 .. 63 /\ i + name[i + 1] + 1 \in dots
                  /\ \A j \in dots : j > i => j >= i + name[i + 1] + 1
<1> DEFINE name == dns_name_to_bytes(text)
           n == Len(text)
           dots == {0} \cup {i \in 1 .. n : text[i] = DOT}
           after(i) == {j \in i .. n : text[j] = DOT}
           length(i) == (IF after(i) = {} THEN n + 1 ELSE Min(after(i))) - i
           first == [i \in 1 .. n |-> IF i = 1 \/ text[i - 1] = DOT THEN length(i) ELSE text[i - 1]]
<1>1. /\ text \in Seq(Byte \ {0}) /\ n \in Nat \ {0}
      /\ text[1] # DOT /\ text[n] = DOT
      /\ \A i \in 2 .. n : ~ (text[i - 1] = DOT /\ text[i] = DOT)
      /\ \A i \in 1 .. n : \E j \in i .. i + 63 : j <= n /\ text[j] = DOT
  <2>1. /\ text # <<>> /\ text \in Seq(Byte \ {0})
        /\ text[1] # DOT /\ text[n] = DOT
        /\ \A i \in 2 .. n : ~ (text[i - 1] = DOT /\ text[i] = DOT)
        /\ \A i \in 1 .. n : \E j \in i .. i + 63 : j <= n /\ text[j] = DOT
    BY DEF IsText
  <2>2. n \in Nat \ {0}
    BY <2>1
  <2> QED
    BY <2>1, <2>2
<1>2. \A i \in 1 .. n : text[i] \in Byte /\ text[i] # 0
  BY <1>1
<1>3. name = first \o <<0>>
  BY Zenon DEF dns_name_to_bytes
<1>4. ASSUME NEW i \in 1 .. n, i = 1 \/ text[i - 1] = DOT
      PROVE  /\ length(i) \in 1 .. 63 /\ i + length(i) \in 1 .. n /\ text[i + length(i)] = DOT
             /\ \A j \in i .. n : text[j] = DOT => j >= i + length(i)
  <2>1. PICK j \in i .. i + 63 : j <= n /\ text[j] = DOT
    BY <1>1
  <2>2. j \in after(i)
    BY <1>1, <2>1
  <2>3. after(i) \in SUBSET Nat
    BY <1>1
  <2>4. PICK m \in after(i) : \A k \in after(i) : m <= k
    <3> HIDE DEF after
    <3> QED
      BY <2>2, <2>3, LeastElement
  <2>5. Min(after(i)) \in after(i) /\ \A k \in after(i) : Min(after(i)) <= k
    <3> HIDE DEF after
    <3> QED
      BY <2>4 DEF Min
  <2> DEFINE x == Min(after(i))
  <2>6. length(i) = x - i
    BY <2>2
  <2> HIDE DEF x, length
  <2>7. x \in i .. n /\ text[x] = DOT /\ x <= j /\ \A k \in i .. n : text[k] = DOT => x <= k
    BY <2>2, <2>5 DEF x
  <2>8. text[i] # DOT
    <3>1. i # 1 => i \in 2 .. n
      BY <1>1
    <3> QED
      BY <1>1, <1>4, <3>1
  <2>9. x # i
    BY <2>7, <2>8
  <2>10. i \in Nat /\ x \in Nat /\ j \in Nat /\ j <= i + 63 /\ x > i /\ n \in Nat
    BY <1>1, <2>1, <2>7, <2>9
  <2>11. i + (x - i) = x /\ x - i \in 1 .. 63 /\ x \in 1 .. n
    BY <2>7, <2>10
  <2> QED
    BY <2>6, <2>7, <2>11
<1> HIDE DEF length
<1>5. \A i \in 1 .. n : first[i] = IF i = 1 \/ text[i - 1] = DOT THEN length(i) ELSE text[i - 1]
  OBVIOUS
<1>6. ASSUME NEW i \in 1 .. n
      PROVE  first[i] \in Byte /\ first[i] # 0
  <2>1. CASE i = 1 \/ text[i - 1] = DOT
    <3>1. length(i) \in 1 .. 63 /\ first[i] = length(i)
      BY <1>4, <1>5, <2>1
    <3>2. \A l \in 1 .. 63 : l \in Byte /\ l # 0
      BY DEF Byte
    <3> HIDE DEF first
    <3> QED
      BY <3>1, <3>2
  <2>2. CASE ~ (i = 1 \/ text[i - 1] = DOT)
    <3>1. i - 1 \in 1 .. n /\ first[i] = text[i - 1]
      BY <1>1, <1>5, <2>2
    <3> QED
      BY <1>2, <3>1
  <2> QED
    BY <2>1, <2>2
<1>7. first \in Seq(Byte) /\ Len(first) = n
  <2>1. first = [i \in 1 .. n |-> first[i]] /\ n \in Nat
    BY <1>1
  <2> HIDE DEF first, n
  <2> QED
    BY <1>6, <2>1
<1> HIDE DEF first
<1>8. /\ name \in Seq(Byte) /\ Len(name) = n + 1 /\ name[n + 1] = 0
      /\ \A i \in 1 .. n : name[i] = first[i]
  <2> DEFINE z == <<0>>
  <2>1. z \in Seq(Byte) /\ Len(z) = 1 /\ z[1] = 0
    BY DEF Byte
  <2> HIDE DEF z
  <2>2. /\ first \o z \in Seq(Byte) /\ Len(first \o z) = Len(first) + Len(z)
        /\ \A i \in 1 .. Len(first) + Len(z) :
             (first \o z)[i] = IF i <= Len(first) THEN first[i] ELSE z[i - Len(first)]
    BY <1>7, <2>1, ConcatProperties
  <2>3. name = first \o z
    BY <1>3 DEF z
  <2> HIDE DEF name, n
  <2>4. n \in Nat /\ n + 1 \in 1 .. n + 1 /\ ~ (n + 1 <= n) /\ (n + 1) - n = 1
        /\ \A i \in 1 .. n : i \in 1 .. n + 1 /\ i <= n
    BY <1>1 DEF n
  <2>5. /\ name \in Seq(Byte) /\ Len(name) = n + 1
        /\ \A i \in 1 .. n + 1 : name[i] = IF i <= n THEN first[i] ELSE z[i - n]
    BY <1>7, <2>1, <2>2, <2>3
  <2> QED
    BY <2>1, <2>4, <2>5
<1> HIDE DEF name
<1>9. ASSUME NEW i \in dots \ {n}
      PROVE  /\ name[i + 1] \in 1 .. 63 /\ i + name[i + 1] + 1 \in dots
             /\ \A j \in dots : j > i => j >= i + name[i + 1] + 1
  <2> DEFINE k == i + 1
  <2>1. i \in Nat /\ k \in 1 .. n /\ k - 1 = i /\ (k = 1 \/ text[k - 1] = DOT) /\ i + 1 = k
    BY <1>1
  <2> HIDE DEF k
  <2>2. name[i + 1] = length(k)
    BY <1>5, <1>8, <2>1
  <2>3. /\ length(k) \in 1 .. 63 /\ k + length(k) \in 1 .. n /\ text[k + length(k)] = DOT
        /\ \A j \in k .. n : text[j] = DOT => j >= k + length(k)
    BY <1>4, <2>1
  <2>4. i + length(k) + 1 = k + length(k)
    <3> DEFINE l == length(k)
    <3>1. l \in 1 .. 63
      BY <2>3
    <3> HIDE DEF l
    <3>2. i + l + 1 = k + l
      BY ONLY <2>1, <3>1
    <3> QED
      BY <3>2 DEF l
  <2>5. \A j \in dots : j > i => j \in k .. n /\ text[j] = DOT
    BY <1>1, <2>1
  <2>6. k + length(k) \in dots
    BY <2>3
  <2> HIDE DEF dots
  <2> QED
    BY <2>2, <2>3, <2>4, <2>5, <2>6
<1>10. \A i \in 2 .. n : text[i - 1] # DOT => name[i] = text[i - 1]
  <2>1. \A i \in 2 .. n : i \in 1 .. n /\ i # 1
    BY <1>1
  <2> QED
    BY <1>5, <1>8, <2>1
<1>11. \A i \in 1 .. n : name[i] # 0
  BY <1>6, <1>8
<1>12. n \in dots /\ dots \subseteq 0 .. n
  BY <1>1
<1>13. text \in Seq(Byte)
  BY <1>1
<1> QED
  BY <1>1, <1>8, <1>9, <1>10, <1>11, <1>12, <1>13 DEF name

\* The bytes of any text make a name that ends in its only zero.
LEMMA NameWritten ==
  ASSUME NEW text, IsText(text)
  PROVE  /\ dns_name_to_bytes(text) \in Seq(Byte)
         /\ EndsInRoot(dns_name_to_bytes(text)) /\ OnlyLastZero(dns_name_to_bytes(text))
<1> DEFINE name == dns_name_to_bytes(text)
<1>1. CASE text \in {<<>>, <<DOT>>}
  <2>1. name = <<0>>
    BY <1>1, Zenon DEF dns_name_to_bytes
  <2> DEFINE z == <<0>>
  <2>2. z \in Seq(Byte) /\ Len(z) = 1 /\ z[1] = 0 /\ z # <<>> /\ DOMAIN z = {1}
    BY DEF Byte
  <2> HIDE DEF z
  <2>3. {0} \in SUBSET (0 .. 0) /\ {0, 0} \subseteq {0} /\ {0} \ {0} = {} /\ 1 - 1 = 0
    OBVIOUS
  <2>4. LabelsFill(z, 0)
    BY <2>3 DEF LabelsFill
  <2>5. EndsInRoot(z) /\ OnlyLastZero(z)
    BY <2>2, <2>3, <2>4 DEF EndsInRoot, OnlyLastZero
  <2> QED
    BY <2>1, <2>2, <2>5 DEF z
<1>2. CASE text \notin {<<>>, <<DOT>>}
  <2> DEFINE n == Len(text)
             dots == {0} \cup {i \in 1 .. n : text[i] = DOT}
  <2>1. /\ n \in Nat \ {0}
        /\ name \in Seq(Byte) /\ Len(name) = n + 1 /\ name[n + 1] = 0
        /\ n \in dots /\ dots \subseteq 0 .. n
        /\ \A i \in 1 .. n : name[i] # 0
        /\ \A i \in dots \ {n} : name[i + 1] \in 1 .. 63 /\ i + name[i + 1] + 1 \in dots
    BY <1>2, TextBytes
  <2>2. 0 \in dots
    OBVIOUS
  <2> HIDE DEF n, dots, name
  <2>3. LabelsFill(name, n)
    BY <2>1, <2>2 DEF LabelsFill
  <2>4. /\ (n + 1) - 1 = n /\ name # <<>> /\ DOMAIN name = 1 .. n + 1
        /\ \A i \in 1 .. n + 1 : i # n + 1 => i \in 1 .. n
    BY <2>1
  <2>5. EndsInRoot(name) /\ OnlyLastZero(name)
    BY <2>1, <2>3, <2>4 DEF EndsInRoot, OnlyLastZero
  <2> QED
    BY <2>1, <2>5 DEF name
<1> QED
  BY <1>1, <1>2

\* And they are read as that text.
LEMMA NameRead ==
  ASSUME NEW from \in Nat, NEW text, IsText(text), bytes \in Seq(Byte),
         Holds(from, dns_name_to_bytes(text))
  PROVE  NameText(from, Len(dns_name_to_bytes(text))) = IF text = <<>> THEN <<DOT>> ELSE text
<1> DEFINE name == dns_name_to_bytes(text)
           m == Len(name)
<1>1. name \in Seq(Byte) /\ EndsInRoot(name) /\ OnlyLastZero(name)
  BY NameWritten
<1>2. Stop(from, m) = m - 1 /\ ~ IsPointerName(from, m)
  BY <1>1, RootName
<1>3. CASE text \in {<<>>, <<DOT>>}
  <2>1. name = <<0>>
    BY <1>3, Zenon DEF dns_name_to_bytes
  <2>2. m = 1
    BY <2>1
  <2> HIDE DEF m
  <2>3. NameText(from, m) = <<DOT>>
    BY <1>2, <2>2 DEF NameText
  <2> QED
    BY <1>3, <2>3 DEF m
<1>4. CASE text \notin {<<>>, <<DOT>>}
  <2> DEFINE n == Len(text)
             dots == {0} \cup {i \in 1 .. n : text[i] = DOT}
  <2>1. /\ n \in Nat \ {0} /\ text \in Seq(Byte)
        /\ m = n + 1 /\ name[n + 1] = 0
        /\ n \in dots /\ dots \subseteq 0 .. n
        /\ \A i \in 2 .. n : text[i - 1] # DOT => name[i] = text[i - 1]
        /\ \A i \in dots \ {n} :
             /\ name[i + 1] \in 1 .. 63 /\ i + name[i + 1] + 1 \in dots
             /\ \A j \in dots : j > i => j >= i + name[i + 1] + 1
    BY <1>4, TextBytes
  <2>2. from + m <= Len(bytes)
    BY DEF Holds
  <2>3. \A i \in 0 .. m - 1 : At(from + i) = name[i + 1]
    BY <1>1, HoldsAt
  <2>4. 0 \in dots /\ \A i \in 1 .. n : i \in dots <=> text[i] = DOT
    <3>1. \A i \in 1 .. n : i # 0
      OBVIOUS
    <3> QED
      BY <3>1
  <2> HIDE DEF n, m, dots, name
  <2>5. n \in 0 .. m - 1 /\ m \in Nat /\ m - 1 = n /\ dots \in SUBSET (0 .. n) /\ n # 0
    BY <2>1
  <2>6. At(from + n) = 0
    BY <2>1, <2>3, <2>5
  <2>7. \A i \in dots : At(from + i) = name[i + 1]
    BY <2>1, <2>3, <2>5
  <2>8. /\ \A i \in dots \ {n} : At(from + i) \in 1 .. 63 /\ i + At(from + i) + 1 \in dots
        /\ \A i \in dots \ {n}, j \in dots : j > i => j >= i + At(from + i) + 1
    BY <2>1, <2>7
  <2>9. Labels(from, m) = dots
    <3>1. n \in dots /\ 0 \in dots
      BY <2>1, <2>4
    <3> QED
      BY ONLY from \in Nat, bytes \in Seq(Byte), <2>2, <2>5, <2>6, <2>8, <3>1, PlacesAre,
            SMTT(30)
  <2>10. NameText(from, m) = [i \in 1 .. n |-> IF i \in dots THEN DOT ELSE At(from + i)]
    BY <1>2, <2>5, <2>9 DEF NameText
  <2>11. ASSUME NEW i \in 1 .. n
         PROVE  text[i] = IF i \in dots THEN DOT ELSE At(from + i)
    <3>1. CASE i \in dots
      BY <2>4, <3>1
    <3>2. CASE i \notin dots
      <4>1. i # n /\ i \in Nat
        BY <2>1, <3>2
      <4>2. i \in 0 .. m - 1 /\ i + 1 \in 2 .. n /\ (i + 1) - 1 = i
        BY <2>5, <4>1
      <4>3. text[i] # DOT
        BY <2>4, <3>2
      <4>4. name[i + 1] = text[i]
        BY <2>1, <4>2, <4>3
      <4> QED
        BY <2>3, <3>2, <4>2, <4>4
    <3> QED
      BY <3>1, <3>2
  <2>12. text = [i \in 1 .. n |-> text[i]]
    BY <2>1 DEF n
  <2>13. NameText(from, m) = text
    BY <2>10, <2>11, <2>12
  <2> QED
    BY <1>4, <2>13 DEF m, name
<1> QED
  BY <1>3, <1>4
-----------------------------------------------------------------------------
(***************************************************************************)
(* Questions, records and fragments.                                       *)
(***************************************************************************)
\* The next part can be scanned for its type.
InReach(p) == ~ (Zeros(p) = {} \/ p + Scanned(p) + 2 > Len(bytes))

LEMMA QuestionBytes ==
  ASSUME NEW q, IsQuestion(q)
  PROVE  /\ question_to_bytes(q) \in Seq(Byte)
         /\ Len(question_to_bytes(q)) = PartSize(QUESTIONS, q)
         /\ PartSize(QUESTIONS, q) = Len(dns_name_to_bytes(q.qname)) + 4
         /\ dns_name_to_bytes(q.qname) \in Seq(Byte)
         /\ BE2(q.qtype) \in Seq(Byte) /\ BE2(q.qclass) \in Seq(Byte)
         /\ Len(BE2(q.qtype)) = 2 /\ Len(BE2(q.qclass)) = 2
<1> DEFINE name == dns_name_to_bytes(q.qname)
           t == BE2(q.qtype)
           c == BE2(q.qclass)
<1>1. IsText(q.qname) /\ q.qtype \in Word /\ q.qclass \in Word
  BY DEF IsQuestion
<1>2. name \in Seq(Byte)
  BY <1>1, NameWritten
<1>3. t \in Seq(Byte) /\ Len(t) = 2 /\ c \in Seq(Byte) /\ Len(c) = 2
  <2>1. q.qtype \in Nat /\ q.qclass \in Nat
    BY <1>1, AllNatural
  <2> QED
    BY <2>1, Bytes2
<1>4. question_to_bytes(q) = (name \o t) \o c
  BY DEF question_to_bytes
<1>5. PartSize(QUESTIONS, q) = Len(name) + 4
  BY DEF PartSize
<1> HIDE DEF name, t, c
<1>6. name \o t \in Seq(Byte) /\ Len(name \o t) = Len(name) + 2
  <2>1. name \o t \in Seq(Byte) /\ Len(name \o t) = Len(name) + Len(t)
    BY <1>2, <1>3, ConcatProperties
  <2> QED
    BY <1>3, <2>1
<1>7. (name \o t) \o c \in Seq(Byte) /\ Len((name \o t) \o c) = (Len(name) + 2) + 2
  BY <1>3, <1>6, ConcatProperties
<1>8. (Len(name) + 2) + 2 = Len(name) + 4
  BY <1>2
<1> QED
  BY <1>2, <1>3, <1>4, <1>5, <1>7, <1>8 DEF name, t, c

\* question_from_bytes reads what question_to_bytes has written.
LEMMA QuestionRead ==
  ASSUME NEW p \in Nat, NEW q, IsQuestion(q), bytes \in Seq(Byte),
         Holds(p, question_to_bytes(q))
  PROVE  /\ InReach(p)
         /\ question_from_bytes(p) = Read(PartSize(QUESTIONS, q), RootAsDot(QUESTIONS, q))
<1> DEFINE name == dns_name_to_bytes(q.qname)
           t == BE2(q.qtype)
           c == BE2(q.qclass)
           n == Len(name)
<1>1. /\ q = [qname |-> q.qname, qtype |-> q.qtype, qclass |-> q.qclass]
      /\ IsText(q.qname) /\ q.qtype \in Word /\ q.qclass \in Word
  BY DEF IsQuestion
<1>2. name \in Seq(Byte) /\ EndsInRoot(name) /\ OnlyLastZero(name)
  BY <1>1, NameWritten
<1>3. /\ question_to_bytes(q) = (name \o t) \o c
      /\ t \in Seq(Byte) /\ Len(t) = 2 /\ c \in Seq(Byte) /\ Len(c) = 2
      /\ PartSize(QUESTIONS, q) = n + 4 /\ Len(question_to_bytes(q)) = n + 4
  BY QuestionBytes DEF question_to_bytes
<1> HIDE DEF name, t, c
<1>4. n \in Nat /\ name \o t \in Seq(Byte) /\ Len(name \o t) = n + 2
  BY <1>2, <1>3, ConcatProperties
<1>5. Holds(p, name \o t) /\ Holds(p + (n + 2), c) /\ p + (n + 2) \in Nat
  BY <1>3, <1>4, HoldsConcat
<1>6. Holds(p, name) /\ Holds(p + n, t) /\ p + n \in Nat
  BY <1>2, <1>3, <1>5, HoldsConcat
<1>7. p + (n + 4) <= Len(bytes) /\ Len(bytes) \in Nat
  BY <1>3 DEF Holds
<1>8. /\ Zeros(p) # {} /\ Scanned(p) = n /\ Stop(p, n) = n - 1 /\ NameBytes(p, n) = n
  BY <1>2, <1>6, RootName
<1>9. NameText(p, n) = IF q.qname = <<>> THEN <<DOT>> ELSE q.qname
  BY <1>1, <1>6, NameRead DEF name
<1> HIDE DEF n
<1>10. Number2(p + n) = q.qtype
  BY <1>1, <1>6, HoldsNumber2 DEF t
<1>11. Number2((p + n) + 2) = q.qclass
  <2>1. (p + n) + 2 = p + (n + 2)
    BY <1>4
  <2> QED
    BY <1>1, <1>5, <2>1, HoldsNumber2 DEF c
<1>12. InReach(p)
  BY <1>4, <1>7, <1>8 DEF InReach
<1> DEFINE item == [qname |-> NameText(p, n), qtype |-> q.qtype, qclass |-> q.qclass]
<1>13. question_from_bytes(p) = Read(n + 4, item)
  <2>1. ~ (Stop(p, n) > n) /\ ~ (p + n + 4 > Len(bytes))
    BY <1>4, <1>7, <1>8
  <2> HIDE DEF item
  <2>2. question_from_bytes(p) =
          Read(n + 4, [qname |-> NameText(p, n), qtype |-> Number2(p + n),
                       qclass |-> Number2((p + n) + 2)])
    BY <1>8, <2>1 DEF question_from_bytes
  <2> QED
    BY <1>10, <1>11, <2>2 DEF item
<1>14. item = RootAsDot(QUESTIONS, q)
  <2>1. CASE q.qname = <<>>
    <3>1. RootAsDot(QUESTIONS, q) = [q EXCEPT !.qname = <<DOT>>]
      BY <2>1 DEF RootAsDot
    <3>2. [q EXCEPT !.qname = <<DOT>>] = [qname |-> <<DOT>>, qtype |-> q.qtype, qclass |-> q.qclass]
      BY <1>1
    <3> QED
      BY <2>1, <3>1, <3>2, <1>9
  <2>2. CASE q.qname # <<>>
    BY <2>2, <1>1, <1>9 DEF RootAsDot
  <2> QED
    BY <2>1, <2>2
<1> QED
  BY <1>3, <1>12, <1>13, <1>14

\* Six parts, one behind another.
Six(a, b, c, d, e, f) == a \o b \o c \o d \o e \o f

LEMMA SixLaid ==
  ASSUME NEW a \in Seq(Byte), NEW b \in Seq(Byte), NEW c \in Seq(Byte),
         NEW d \in Seq(Byte), NEW e \in Seq(Byte), NEW f \in Seq(Byte)
  PROVE  /\ Six(a, b, c, d, e, f) \in Seq(Byte)
         /\ Len(Six(a, b, c, d, e, f)) =
              Len(a) + Len(b) + Len(c) + Len(d) + Len(e) + Len(f)
<1>1. a \o b \in Seq(Byte) /\ Len(a \o b) = Len(a) + Len(b)
  BY ConcatProperties
<1> DEFINE s == a \o b
<1> HIDE DEF s
<1>2. s \o c \in Seq(Byte) /\ Len(s \o c) = Len(s) + Len(c)
  BY <1>1, ConcatProperties DEF s
<1> DEFINE t == s \o c
<1> HIDE DEF t
<1>3. t \o d \in Seq(Byte) /\ Len(t \o d) = Len(t) + Len(d)
  BY <1>2, ConcatProperties DEF t
<1> DEFINE u == t \o d
<1> HIDE DEF u
<1>4. u \o e \in Seq(Byte) /\ Len(u \o e) = Len(u) + Len(e)
  BY <1>3, ConcatProperties DEF u
<1> DEFINE v == u \o e
<1> HIDE DEF v
<1>5. v \o f \in Seq(Byte) /\ Len(v \o f) = Len(v) + Len(f)
  BY <1>4, ConcatProperties DEF v
<1>6. /\ Len(s) = Len(a) + Len(b) /\ Len(t) = Len(s) + Len(c)
      /\ Len(u) = Len(t) + Len(d) /\ Len(v) = Len(u) + Len(e)
  BY <1>1, <1>2, <1>3, <1>4 DEF s, t, u, v
<1>7. v \o f = a \o b \o c \o d \o e \o f
  BY DEF s, t, u, v
<1>8. Len(v \o f) = Len(a) + Len(b) + Len(c) + Len(d) + Len(e) + Len(f)
  BY <1>5, <1>6
<1> QED
  BY <1>5, <1>7, <1>8 DEF Six

\* Where they are held.
HoldsSix(p, a, b, c, d, e, f) ==
  /\ Holds(p, a) /\ Holds(p + Len(a), b)
  /\ Holds(p + (Len(a) + Len(b)), c)
  /\ Holds(p + (Len(a) + Len(b) + Len(c)), d)
  /\ Holds(p + (Len(a) + Len(b) + Len(c) + Len(d)), e)
  /\ Holds(p + (Len(a) + Len(b) + Len(c) + Len(d) + Len(e)), f)

LEMMA SixHeld ==
  ASSUME NEW a \in Seq(Byte), NEW b \in Seq(Byte), NEW c \in Seq(Byte),
         NEW d \in Seq(Byte), NEW e \in Seq(Byte), NEW f \in Seq(Byte),
         NEW p \in Nat, bytes \in Seq(Byte),
         Holds(p, Six(a, b, c, d, e, f))
  PROVE  HoldsSix(p, a, b, c, d, e, f)
<1> DEFINE s == a \o b
           t == s \o c
           u == t \o d
           v == u \o e
<1>1. s \in Seq(Byte) /\ Len(s) = Len(a) + Len(b)
  BY ConcatProperties
<1> HIDE DEF s
<1>2. t \in Seq(Byte) /\ Len(t) = Len(s) + Len(c)
  BY <1>1, ConcatProperties
<1> HIDE DEF t
<1>3. u \in Seq(Byte) /\ Len(u) = Len(t) + Len(d)
  BY <1>2, ConcatProperties
<1> HIDE DEF u
<1>4. v \in Seq(Byte) /\ Len(v) = Len(u) + Len(e)
  BY <1>3, ConcatProperties
<1> HIDE DEF v
<1>5. Holds(p, v \o f)
  BY DEF s, t, u, v, Six
<1>6. Holds(p, v) /\ Holds(p + Len(v), f)
  BY <1>4, <1>5, HoldsConcat
<1>7. Holds(p, u) /\ Holds(p + Len(u), e)
  <2>1. Holds(p, u \o e)
    BY <1>6 DEF v
  <2> QED
    BY <1>3, <2>1, HoldsConcat
<1>8. Holds(p, t) /\ Holds(p + Len(t), d)
  <2>1. Holds(p, t \o d)
    BY <1>7 DEF u
  <2> QED
    BY <1>2, <2>1, HoldsConcat
<1>9. Holds(p, s) /\ Holds(p + Len(s), c)
  <2>1. Holds(p, s \o c)
    BY <1>8 DEF t
  <2> QED
    BY <1>1, <2>1, HoldsConcat
<1>10. Holds(p, a) /\ Holds(p + Len(a), b)
  <2>1. Holds(p, a \o b)
    BY <1>9 DEF s
  <2> QED
    BY <2>1, HoldsConcat
<1>11. /\ Len(t) = Len(a) + Len(b) + Len(c)
       /\ Len(u) = Len(a) + Len(b) + Len(c) + Len(d)
       /\ Len(v) = Len(a) + Len(b) + Len(c) + Len(d) + Len(e)
  BY <1>1, <1>2, <1>3, <1>4
<1> QED
  BY <1>1, <1>6, <1>7, <1>8, <1>9, <1>10, <1>11 DEF HoldsSix

\* What follows the header of a fragment: its data, or nothing.
DataOf(f) == IF f.fragdata = NULL THEN <<>> ELSE f.fragdata

LEMMA FragmentBytes ==
  ASSUME NEW f, IsFragment(f)
  PROVE  LET a == <<0>>
             head == Six(a, BE2(f.type), BE2(f.fragsize), BE4(f.curidx), BE4(f.rrsize),
                         BE2(f.rrid))
         IN  /\ rrfrag_to_bytes(f) = head \o DataOf(f)
             /\ a \in Seq(Byte) /\ Len(a) = 1 /\ a[1] = 0
             /\ BE2(f.type) \in Seq(Byte) /\ Len(BE2(f.type)) = 2
             /\ BE2(f.fragsize) \in Seq(Byte) /\ Len(BE2(f.fragsize)) = 2
             /\ BE4(f.curidx) \in Seq(Byte) /\ Len(BE4(f.curidx)) = 4
             /\ BE4(f.rrsize) \in Seq(Byte) /\ Len(BE4(f.rrsize)) = 4
             /\ BE2(f.rrid) \in Seq(Byte) /\ Len(BE2(f.rrid)) = 2
             /\ head \in Seq(Byte) /\ Len(head) = RRFRAGHEADER
             /\ DataOf(f) \in Seq(Byte)
             /\ Len(DataOf(f)) = IF f.fragdata = NULL THEN 0 ELSE f.fragsize
             /\ rrfrag_to_bytes(f) \in Seq(Byte)
             /\ Len(rrfrag_to_bytes(f)) = RRFRAGHEADER + Len(DataOf(f))
<1> DEFINE a == <<0>>
           b == BE2(f.type)
           c == BE2(f.fragsize)
           d == BE4(f.curidx)
           e == BE4(f.rrsize)
           g == BE2(f.rrid)
           data == DataOf(f)
           head == Six(a, b, c, d, e, g)
<1>1. /\ f.type \in Nat /\ f.fragsize \in Nat /\ f.curidx \in Nat /\ f.rrsize \in Nat
      /\ f.rrid \in Nat /\ f.fragdata \in {NULL} \cup Seq(Byte)
      /\ f.fragdata = NULL \/ Len(f.fragdata) = f.fragsize
  <2>1. /\ f.type = RRFRAG /\ f.fragsize \in Word /\ f.curidx \in Nat /\ f.rrsize \in Nat
        /\ f.rrid \in Word /\ f.fragdata \in {NULL} \cup Seq(Byte)
        /\ f.fragdata = NULL \/ Len(f.fragdata) = f.fragsize
    BY DEF IsFragment
  <2>2. RRFRAG \in Nat
    BY CodecAssumption
  <2> QED
    BY <2>1, <2>2, AllNatural
<1>2. a \in Seq(Byte) /\ Len(a) = 1 /\ a[1] = 0
  BY DEF Byte
<1>3. /\ b \in Seq(Byte) /\ Len(b) = 2 /\ c \in Seq(Byte) /\ Len(c) = 2
      /\ d \in Seq(Byte) /\ Len(d) = 4 /\ e \in Seq(Byte) /\ Len(e) = 4
      /\ g \in Seq(Byte) /\ Len(g) = 2
  <2>1. /\ \A n \in Nat : BE2(n) \in Seq(Byte) /\ Len(BE2(n)) = 2
        /\ \A n \in Nat : BE4(n) \in Seq(Byte) /\ Len(BE4(n)) = 4
    BY Bytes2, Bytes4
  <2> QED
    BY ONLY <1>1, <2>1
<1>4. /\ data \in Seq(Byte)
      /\ Len(data) = IF f.fragdata = NULL THEN 0 ELSE f.fragsize
  BY <1>1 DEF DataOf
<1>5. rrfrag_to_bytes(f) = head \o data
  BY Zenon DEF rrfrag_to_bytes, DataOf, Six
<1> HIDE DEF a, b, c, d, e, g, data
<1>6. head \in Seq(Byte) /\ Len(head) = 15
  <2>1. head \in Seq(Byte) /\ Len(head) = Len(a) + Len(b) + Len(c) + Len(d) + Len(e) + Len(g)
    <3>1. /\ a \in Seq(Byte) /\ b \in Seq(Byte) /\ c \in Seq(Byte)
          /\ d \in Seq(Byte) /\ e \in Seq(Byte) /\ g \in Seq(Byte)
      BY <1>2, <1>3
    <3> QED
      BY ONLY <3>1, SixLaid
  <2> QED
    BY <1>2, <1>3, <2>1
<1> HIDE DEF head
<1>7. head \o data \in Seq(Byte) /\ Len(head \o data) = Len(head) + Len(data)
  BY <1>4, <1>6, ConcatProperties
<1> QED
  BY <1>2, <1>3, <1>4, <1>5, <1>6, <1>7 DEF a, b, c, d, e, g, data, head, RRFRAGHEADER

\* rrfrag_from_bytes reads what rrfrag_to_bytes has written, if it is told
\* whether there are data.
LEMMA FragmentRead ==
  ASSUME NEW p \in Nat, NEW f, IsFragment(f), bytes \in Seq(Byte),
         Holds(p, rrfrag_to_bytes(f)),
         NEW query \in BOOLEAN, f.fragdata = NULL <=> query
  PROVE  /\ InReach(p) /\ is_rrfrag(p)
         /\ rrfrag_from_bytes(p, query) = Read(RRFRAGHEADER + Len(DataOf(f)), f)
<1> DEFINE a == <<0>>
           b == BE2(f.type)
           c == BE2(f.fragsize)
           d == BE4(f.curidx)
           e == BE4(f.rrsize)
           g == BE2(f.rrid)
           data == DataOf(f)
           head == Six(a, b, c, d, e, g)
<1>1. /\ rrfrag_to_bytes(f) = head \o data
      /\ a \in Seq(Byte) /\ Len(a) = 1 /\ a[1] = 0
      /\ b \in Seq(Byte) /\ Len(b) = 2 /\ c \in Seq(Byte) /\ Len(c) = 2
      /\ d \in Seq(Byte) /\ Len(d) = 4 /\ e \in Seq(Byte) /\ Len(e) = 4
      /\ g \in Seq(Byte) /\ Len(g) = 2
      /\ head \in Seq(Byte) /\ Len(head) = 15 /\ data \in Seq(Byte)
      /\ Len(data) = IF f.fragdata = NULL THEN 0 ELSE f.fragsize
      /\ Len(rrfrag_to_bytes(f)) = 15 + Len(data)
  BY FragmentBytes, SMTT(30) DEF RRFRAGHEADER
<1>2. /\ f = [type |-> RRFRAG, fragsize |-> f.fragsize, curidx |-> f.curidx,
              rrsize |-> f.rrsize, rrid |-> f.rrid, fragdata |-> f.fragdata]
      /\ f.type = RRFRAG /\ f.fragsize \in Word /\ f.rrid \in Word
      /\ IsDWord(f.curidx) /\ IsDWord(f.rrsize)
  BY DEF IsFragment
<1>3. RRFRAG \in Word
  <2>1. RRFRAG \in Int /\ 0 <= RRFRAG /\ RRFRAG < WORD
    BY CodecAssumption, SMT DEF WORD
  <2> QED
    BY <2>1, WordIs
<1> HIDE DEF a, b, c, d, e, g, data, head
<1>4. Holds(p, head) /\ Holds(p + 15, data) /\ p + 15 \in Nat
  <2>1. Holds(p, head \o data) /\ head \in Seq(Byte) /\ data \in Seq(Byte)
    BY <1>1
  <2>2. Holds(p, head) /\ Holds(p + Len(head), data) /\ p + Len(head) \in Nat
    BY ONLY p \in Nat, bytes \in Seq(Byte), <2>1, HoldsConcat
  <2> QED
    BY <1>1, <2>2
<1>5. /\ Holds(p, a) /\ Holds(p + Len(a), b)
      /\ Holds(p + (Len(a) + Len(b)), c)
      /\ Holds(p + (Len(a) + Len(b) + Len(c)), d)
      /\ Holds(p + (Len(a) + Len(b) + Len(c) + Len(d)), e)
      /\ Holds(p + (Len(a) + Len(b) + Len(c) + Len(d) + Len(e)), g)
  <2>1. /\ a \in Seq(Byte) /\ b \in Seq(Byte) /\ c \in Seq(Byte)
        /\ d \in Seq(Byte) /\ e \in Seq(Byte) /\ g \in Seq(Byte)
        /\ Holds(p, Six(a, b, c, d, e, g))
    BY <1>1, <1>4 DEF head
  <2>2. HoldsSix(p, a, b, c, d, e, g)
    BY ONLY <2>1, p \in Nat, bytes \in Seq(Byte), SixHeld
  <2> QED
    BY <2>2 DEF HoldsSix
<1>6. /\ Holds(p + 1, b) /\ Holds(p + 3, c) /\ Holds(p + 5, d)
      /\ Holds(p + 9, e) /\ Holds(p + 13, g)
  BY <1>1, <1>5
<1>7. p + 1 \in Nat /\ p + 3 \in Nat /\ p + 5 \in Nat /\ p + 9 \in Nat /\ p + 13 \in Nat
  OBVIOUS
<1>8. /\ Number2(p + 1) = RRFRAG /\ Number2(p + 3) = f.fragsize
      /\ Number2(p + 13) = f.rrid
  BY <1>2, <1>3, <1>6, <1>7, HoldsNumber2 DEF b, c, g
<1>9. Number4(p + 5) = f.curidx /\ Number4(p + 9) = f.rrsize
  BY <1>2, <1>6, <1>7, HoldsNumber4 DEF d, e
<1>10. p + (15 + Len(data)) <= Len(bytes) /\ Len(bytes) \in Nat /\ Len(data) \in Nat
  BY <1>1 DEF Holds
<1>11. At(p) = 0
  <2>1. 0 \in 0 .. Len(a) - 1 /\ p + 0 = p /\ 0 + 1 = 1
    BY <1>1
  <2>2. At(p + 0) = a[0 + 1]
    BY <1>1, <1>5, <2>1, HoldsAt
  <2> QED
    BY <1>1, <2>1, <2>2
<1>12. Zeros(p) # {} /\ Scanned(p) = 1
  <2>1. /\ 1 \in Nat \ {0} /\ p + 1 <= Len(bytes) /\ At(p + (1 - 1)) = 0
        /\ \A i \in 0 .. 1 - 2 : At(p + i) # 0
    BY <1>10, <1>11
  <2> QED
    BY <2>1, ScannedIs
<1>13. InReach(p) /\ is_rrfrag(p)
  BY <1>8, <1>10, <1>12 DEF InReach, is_rrfrag
<1>14. CASE query
  <2>1. data = <<>> /\ Len(data) = 0 /\ f.fragdata = NULL
    BY <1>1, <1>14 DEF data, DataOf
  <2>2. ~ (At(p) # 0) /\ ~ (p + 15 > Len(bytes) \/ p + 15 + 0 > Len(bytes)) /\ 15 + 0 = 15
    BY <1>10, <1>11, <2>1
  <2>3. FragmentAt(p, FALSE) =
          Read(15 + 0, [type |-> RRFRAG, fragsize |-> f.fragsize, curidx |-> f.curidx,
                        rrsize |-> f.rrsize, rrid |-> f.rrid, fragdata |-> NULL])
    BY <2>2, <1>8, <1>9 DEF FragmentAt, RRFRAGHEADER
  <2>4. rrfrag_from_bytes(p, query) = FragmentAt(p, FALSE)
    BY <1>14 DEF rrfrag_from_bytes
  <2>5. [type |-> RRFRAG, fragsize |-> f.fragsize, curidx |-> f.curidx,
         rrsize |-> f.rrsize, rrid |-> f.rrid, fragdata |-> NULL] = f
    BY <1>2, <2>1
  <2> QED
    BY <1>13, <2>1, <2>3, <2>4, <2>5 DEF RRFRAGHEADER, data
<1>15. CASE ~ query
  <2>1. data = f.fragdata /\ Len(data) = f.fragsize
    BY <1>1, <1>15 DEF data, DataOf
  <2>2. Bytes(p + 15, f.fragsize) = f.fragdata
    <3>1. Bytes(p + 15, Len(data)) = data
      BY <1>1, <1>4, HoldsBytes
    <3> QED
      BY <2>1, <3>1
  <2>3. /\ ~ (At(p) # 0)
        /\ ~ (p + 15 > Len(bytes) \/ p + 15 + f.fragsize > Len(bytes))
    BY <1>10, <1>11, <2>1
  <2>4. FragmentAt(p, TRUE) =
          Read(15 + f.fragsize,
               [type |-> RRFRAG, fragsize |-> f.fragsize, curidx |-> f.curidx,
                rrsize |-> f.rrsize, rrid |-> f.rrid, fragdata |-> f.fragdata])
    BY <2>2, <2>3, <1>8, <1>9 DEF FragmentAt, RRFRAGHEADER
  <2>5. rrfrag_from_bytes(p, query) = FragmentAt(p, TRUE)
    BY <1>15 DEF rrfrag_from_bytes
  <2> QED
    BY <1>2, <1>13, <2>1, <2>4, <2>5 DEF RRFRAGHEADER, data
<1> QED
  BY <1>14, <1>15

LEMMA RecordBytes ==
  ASSUME NEW rr, IsRecord(rr)
  PROVE  /\ resource_record_to_bytes(rr) =
              Six(rr.name_bytes, BE2(rr.type), BE2(rr.clas), BE4(rr.ttl),
                  BE2(Len(rr.rdata)), rr.rdata)
         /\ rr.name_bytes \in Seq(Byte) /\ rr.rdata \in Seq(Byte)
         /\ BE2(rr.type) \in Seq(Byte) /\ Len(BE2(rr.type)) = 2
         /\ BE2(rr.clas) \in Seq(Byte) /\ Len(BE2(rr.clas)) = 2
         /\ BE4(rr.ttl) \in Seq(Byte) /\ Len(BE4(rr.ttl)) = 4
         /\ BE2(Len(rr.rdata)) \in Seq(Byte) /\ Len(BE2(Len(rr.rdata))) = 2
         /\ resource_record_to_bytes(rr) \in Seq(Byte)
         /\ Len(resource_record_to_bytes(rr)) =
              Len(rr.name_bytes) + RRHEADER + Len(rr.rdata)
<1> DEFINE a == rr.name_bytes
           b == BE2(rr.type)
           c == BE2(rr.clas)
           d == BE4(rr.ttl)
           e == BE2(Len(rr.rdata))
           g == rr.rdata
<1>1. /\ rr.type \in Nat /\ rr.clas \in Nat /\ rr.ttl \in Nat /\ Len(rr.rdata) \in Nat
      /\ a \in Seq(Byte) /\ g \in Seq(Byte)
  <2>1. /\ rr.type \in Word /\ rr.clas \in Word /\ rr.ttl \in Nat /\ Len(rr.rdata) \in Word
        /\ a \in Seq(Byte) /\ g \in Seq(Byte)
    BY DEF IsRecord
  <2> QED
    BY <2>1, AllNatural
<1>2. /\ b \in Seq(Byte) /\ Len(b) = 2 /\ c \in Seq(Byte) /\ Len(c) = 2
      /\ d \in Seq(Byte) /\ Len(d) = 4 /\ e \in Seq(Byte) /\ Len(e) = 2
  <2>1. /\ \A n \in Nat : BE2(n) \in Seq(Byte) /\ Len(BE2(n)) = 2
        /\ \A n \in Nat : BE4(n) \in Seq(Byte) /\ Len(BE4(n)) = 4
    BY Bytes2, Bytes4
  <2> QED
    BY ONLY <1>1, <2>1
<1>3. resource_record_to_bytes(rr) = Six(a, b, c, d, e, g)
  BY Zenon DEF resource_record_to_bytes, Six
<1> HIDE DEF a, b, c, d, e, g
<1>4. /\ Six(a, b, c, d, e, g) \in Seq(Byte)
      /\ Len(Six(a, b, c, d, e, g)) = Len(a) + Len(b) + Len(c) + Len(d) + Len(e) + Len(g)
  <2>1. /\ a \in Seq(Byte) /\ b \in Seq(Byte) /\ c \in Seq(Byte)
        /\ d \in Seq(Byte) /\ e \in Seq(Byte) /\ g \in Seq(Byte)
    BY <1>1, <1>2
  <2> QED
    BY ONLY <2>1, SixLaid
<1>5. Len(Six(a, b, c, d, e, g)) = Len(a) + 10 + Len(g)
  <2>1. Len(a) \in Nat /\ Len(g) \in Nat
    BY <1>1
  <2>2. Len(a) + 2 + 2 + 4 + 2 + Len(g) = Len(a) + 10 + Len(g)
    BY <2>1
  <2> QED
    BY <1>2, <1>4, <2>2
<1> QED
  BY <1>1, <1>2, <1>3, <1>4, <1>5 DEF a, b, c, d, e, g, RRHEADER

\* resource_record_from_bytes reads what resource_record_to_bytes has written,
\* and is_rrfrag does not take it for a fragment, if its name can be scanned.
LEMMA RecordRead ==
  ASSUME NEW p \in Nat, NEW rr, IsRecord(rr), Scannable(rr), bytes \in Seq(Byte),
         Holds(p, resource_record_to_bytes(rr))
  PROVE  /\ InReach(p) /\ ~ is_rrfrag(p)
         /\ resource_record_from_bytes(p) =
              Read(Len(rr.name_bytes) + RRHEADER + Len(rr.rdata), rr)
<1> DEFINE a == rr.name_bytes
           b == BE2(rr.type)
           c == BE2(rr.clas)
           d == BE4(rr.ttl)
           e == BE2(Len(rr.rdata))
           g == rr.rdata
           l == Len(a)
           r == Len(g)
           f == p + l
<1>1. /\ resource_record_to_bytes(rr) = Six(a, b, c, d, e, g)
      /\ a \in Seq(Byte) /\ g \in Seq(Byte)
      /\ b \in Seq(Byte) /\ Len(b) = 2 /\ c \in Seq(Byte) /\ Len(c) = 2
      /\ d \in Seq(Byte) /\ Len(d) = 4 /\ e \in Seq(Byte) /\ Len(e) = 2
      /\ Len(resource_record_to_bytes(rr)) = l + 10 + r
  BY RecordBytes DEF RRHEADER
<1>2. /\ rr = [type |-> rr.type, name_bytes |-> a, clas |-> rr.clas, ttl |-> rr.ttl,
               rdata |-> g]
      /\ rr.type \in Word /\ rr.type # RRFRAG /\ rr.clas \in Word /\ IsDWord(rr.ttl)
      /\ r \in Word
  BY DEF IsRecord
<1>3. RRFRAG \in 1 .. 255
  BY CodecAssumption
<1> HIDE DEF a, b, c, d, e, g
<1>4. l \in Nat /\ r \in Nat /\ f \in Nat
  BY <1>1
<1>5. HoldsSix(p, a, b, c, d, e, g)
  <2>1. /\ a \in Seq(Byte) /\ b \in Seq(Byte) /\ c \in Seq(Byte)
        /\ d \in Seq(Byte) /\ e \in Seq(Byte) /\ g \in Seq(Byte)
        /\ Holds(p, Six(a, b, c, d, e, g))
    BY <1>1
  <2> QED
    BY ONLY <2>1, p \in Nat, bytes \in Seq(Byte), SixHeld
<1>6. /\ Holds(p, a) /\ Holds(f, b) /\ Holds(f + 2, c) /\ Holds(f + 4, d)
      /\ Holds(f + 8, e) /\ Holds(f + 10, g)
  <2>1. /\ p + (l + 2) = f + 2 /\ p + (l + 2 + 2) = f + 4
        /\ p + (l + 2 + 2 + 4) = f + 8 /\ p + (l + 2 + 2 + 4 + 2) = f + 10
    BY <1>4
  <2>2. /\ Holds(p, a) /\ Holds(p + l, b) /\ Holds(p + (l + 2), c)
        /\ Holds(p + (l + 2 + 2), d) /\ Holds(p + (l + 2 + 2 + 4), e)
        /\ Holds(p + (l + 2 + 2 + 4 + 2), g)
    BY <1>1, <1>5 DEF HoldsSix
  <2> QED
    BY <2>1, <2>2
<1>7. p + (l + 10 + r) <= Len(bytes) /\ Len(bytes) \in Nat
  BY <1>1 DEF Holds
<1> HIDE DEF l, r, f
<1>8. f + 2 \in Nat /\ f + 4 \in Nat /\ f + 8 \in Nat /\ f + 10 \in Nat
      /\ f = p + l /\ f + 10 + r <= Len(bytes)
  BY <1>4, <1>7 DEF f
<1>9. /\ Number2(f) = rr.type /\ Number2(f + 2) = rr.clas /\ Number2(f + 8) = r
      /\ Number4(f + 4) = rr.ttl
  <2>1. Number2(f) = rr.type
    BY <1>2, <1>4, <1>6, HoldsNumber2 DEF b
  <2>2. Number2(f + 2) = rr.clas
    BY <1>2, <1>6, <1>8, HoldsNumber2 DEF c
  <2>3. Number2(f + 8) = r
    BY <1>2, <1>6, <1>8, HoldsNumber2 DEF e, r, g
  <2>4. Number4(f + 4) = rr.ttl
    BY <1>2, <1>6, <1>8, HoldsNumber4 DEF d
  <2> QED
    BY <2>1, <2>2, <2>3, <2>4
<1>10. Bytes(f + 10, r) = g /\ Bytes(p, l) = a
  <2>1. Bytes(f + 10, r) = g
    BY <1>1, <1>6, <1>8, HoldsBytes DEF r
  <2>2. Bytes(p, l) = a
    BY <1>1, <1>6, HoldsBytes DEF l
  <2> QED
    BY <2>1, <2>2
\* Whatever n the scan found, if the name is known to have l bytes.
<1>11. ASSUME NEW n \in Nat, Zeros(p) # {}, Scanned(p) = n, n = l \/ n = l + 1,
              ~ (Stop(p, n) > n), NameBytes(p, n) = l
       PROVE  /\ InReach(p)
              /\ resource_record_from_bytes(p) = Read(l + RRHEADER + r, rr)
  <2>1. p + n + 2 <= Len(bytes)
    BY <1>4, <1>8, <1>11
  <2>2. /\ ~ (f + 10 > Len(bytes)) /\ ~ (rr.type = RRFRAG \/ r > Len(bytes) - (f + 10))
        /\ (f + 10) + r - p = l + 10 + r /\ f - p = l
    <3>1. Len(bytes) \in Nat /\ p \in Nat
      BY <1>7
    <3>2. ~ (f + 10 > Len(bytes)) /\ ~ (r > Len(bytes) - (f + 10))
      BY ONLY <1>4, <1>8, <3>1
    <3>3. (f + 10) + r - p = l + 10 + r /\ f - p = l
      BY ONLY <1>4, <1>8, <3>1
    <3> QED
      BY <1>2, <3>2, <3>3
  <2>3. resource_record_from_bytes(p) =
          Read((f + 10) + r - p,
               [type |-> rr.type, name_bytes |-> Bytes(p, f - p), clas |-> rr.clas,
                ttl |-> rr.ttl, rdata |-> Bytes(f + 10, r)])
    <3>1. /\ Scanned(p) = n /\ p + NameBytes(p, n) = f /\ ~ (Stop(p, n) > n)
      BY <1>8, <1>11
    <3> QED
      BY <2>2, <3>1, <1>9 DEF resource_record_from_bytes, RRHEADER
  <2>4. resource_record_from_bytes(p) = Read(l + 10 + r, rr)
    BY <1>2, <1>10, <2>2, <2>3
  <2> QED
    BY <1>11, <2>1, <2>4 DEF InReach, RRHEADER
<1>12. CASE EndsInRoot(rr.name_bytes) /\ OnlyLastZero(rr.name_bytes)
  <2>1. EndsInRoot(a) /\ OnlyLastZero(a)
    BY <1>12 DEF a
  <2>2. Zeros(p) # {} /\ Scanned(p) = l /\ Stop(p, l) = l - 1 /\ NameBytes(p, l) = l
    BY <1>1, <1>6, <2>1, RootName DEF l
  <2>3. ~ (Stop(p, l) > l)
    BY <1>4, <2>2
  <2>4. InReach(p) /\ resource_record_from_bytes(p) = Read(l + RRHEADER + r, rr)
    BY <1>4, <1>11, <2>2, <2>3
  <2>5. ~ is_rrfrag(p)
    BY <1>2, <1>8, <1>9, <2>2 DEF is_rrfrag
  <2> QED
    BY <2>4, <2>5 DEF a, g, l, r
<1>13. CASE /\ EndsInPointer(rr.name_bytes) /\ Zeroless(rr.name_bytes)
            /\ rr.type \in 1 .. 255
  <2>1. EndsInPointer(a) /\ Zeroless(a)
    BY <1>13 DEF a
  <2>2. b = <<0, rr.type>>
    <3> DEFINE t == rr.type
    <3>1. t \in Nat /\ t < 256
      <4>1. \A x \in 1 .. 255 : x \in Nat /\ x < 256
        OBVIOUS
      <4>2. t \in 1 .. 255
        BY <1>13
      <4> QED
        BY ONLY <4>1, <4>2
    <3> HIDE DEF t
    <3>2. t \div 256 = 0 /\ t % 256 = t /\ 0 % 256 = 0
      BY <3>1, Z3
    <3>3. BE2(t) = <<0, t>>
      BY <3>2 DEF BE2
    <3> QED
      BY <3>3 DEF b, t
  <2>3. At(f) = 0 /\ At(f + 1) = rr.type
    <3>1. 0 \in 0 .. Len(b) - 1 /\ 1 \in 0 .. Len(b) - 1
      BY <1>1
    <3>2. At(f + 0) = b[0 + 1] /\ At(f + 1) = b[1 + 1]
      BY <1>1, <1>4, <1>6, <3>1, HoldsAt
    <3>3. b[0 + 1] = 0 /\ b[1 + 1] = rr.type /\ f + 0 = f
      BY <1>4, <2>2
    <3> QED
      BY <3>2, <3>3
  <2>4. p + l < Len(bytes) /\ At(p + l) = 0
    BY <1>4, <1>8, <2>3
  <2>5. /\ Zeros(p) # {} /\ Scanned(p) = l + 1
        /\ Stop(p, l + 1) = l - 2 /\ NameBytes(p, l + 1) = l
    BY <1>1, <1>6, <2>1, <2>4, PointerName DEF l
  <2>6. l + 1 \in Nat /\ ~ (Stop(p, l + 1) > l + 1)
    <3>1. l + 1 \in Nat /\ ~ (l - 2 > l + 1)
      BY <1>4
    <3> QED
      BY <2>5, <3>1
  <2>7. InReach(p) /\ resource_record_from_bytes(p) = Read(l + RRHEADER + r, rr)
    BY <1>11, <2>5, <2>6
  <2>8. ~ is_rrfrag(p)
    <3>1. p + (l + 1) = f + 1 /\ (f + 1) + 1 = f + 2 /\ f + 3 <= Len(bytes)
      BY <1>4, <1>8
    <3>2. At(f + 2) \in Nat
      <4>1. f + 3 \in 1 .. Len(bytes) /\ (f + 2) + 1 = f + 3
        BY <1>4, <3>1
      <4>2. bytes[f + 3] \in Byte
        BY <4>1
      <4> QED
        BY <4>1, <4>2, AllNatural DEF At
    <3>3. Number2(p + Scanned(p)) = 256 * rr.type + At(f + 2)
      BY <2>3, <2>5, <3>1 DEF Number2
    <3>4. 256 * rr.type + At(f + 2) >= 256
      <4>1. \A x \in 1 .. 255, y \in Nat : 256 * x + y >= 256
        OBVIOUS
      <4>2. rr.type \in 1 .. 255
        BY <1>13
      <4> QED
        BY ONLY <3>2, <4>1, <4>2
    <3>5. RRFRAG < 256 /\ RRFRAG \in Nat
      BY <1>3
    <3>6. 256 * rr.type + At(f + 2) # RRFRAG
      <4> DEFINE x == 256 * rr.type + At(f + 2)
      <4>1. x >= 256
        BY <3>4
      <4> HIDE DEF x
      <4>2. x # RRFRAG
        BY ONLY <3>5, <4>1
      <4> QED
        BY <4>2 DEF x
    <3> QED
      BY <3>3, <3>6 DEF is_rrfrag
  <2> QED
    BY <2>7, <2>8 DEF a, g, l, r
<1> QED
  BY <1>12, <1>13 DEF Scannable
-----------------------------------------------------------------------------
(***************************************************************************)
(* Messages.                                                               *)
(***************************************************************************)
\* A question, record or fragment is as long as it is taken to be.
LEMMA PartBytes ==
  ASSUME NEW k \in Sections, NEW item, IsItem(k, item)
  PROVE  /\ Part(k, item) \in Seq(Byte)
         /\ PartSize(k, item) \in Nat /\ Len(Part(k, item)) = PartSize(k, item)
<1>1. CASE k = QUESTIONS
  <2>1. IsQuestion(item)
    BY <1>1 DEF IsItem
  <2>2. Part(k, item) = question_to_bytes(item)
    BY <1>1 DEF Part
  <2>3. question_to_bytes(item) \in Seq(Byte)
        /\ Len(question_to_bytes(item)) = PartSize(k, item)
    BY <1>1, <2>1, QuestionBytes
  <2>4. Len(question_to_bytes(item)) \in Nat
    BY <2>3
  <2> QED
    BY <2>2, <2>3, <2>4
<1>2. CASE k # QUESTIONS /\ item.isRRFrag
  <2>1. IsFragment(item.data)
    BY <1>2 DEF IsItem
  <2>2. Part(k, item) = rrfrag_to_bytes(item.data)
    BY <1>2 DEF Part, packedrr_to_bytes
  <2> DEFINE f == item.data
  <2>3. /\ rrfrag_to_bytes(f) \in Seq(Byte)
        /\ Len(rrfrag_to_bytes(f)) = RRFRAGHEADER + Len(DataOf(f))
        /\ Len(DataOf(f)) = IF f.fragdata = NULL THEN 0 ELSE f.fragsize
    BY <2>1, FragmentBytes
  <2>4. PartSize(k, item) =
          RRFRAGHEADER + (IF f.fragdata = NULL THEN 0 ELSE f.fragsize)
    BY <1>2 DEF PartSize
  <2>5. Len(rrfrag_to_bytes(f)) \in Nat
    BY <2>3
  <2> HIDE DEF f
  <2> QED
    BY <2>2, <2>3, <2>4, <2>5 DEF f
<1>3. CASE k # QUESTIONS /\ ~ item.isRRFrag
  <2>1. IsRecord(item.data)
    BY <1>3 DEF IsItem
  <2>2. Part(k, item) = resource_record_to_bytes(item.data)
    BY <1>3 DEF Part, packedrr_to_bytes
  <2>3. /\ resource_record_to_bytes(item.data) \in Seq(Byte)
        /\ Len(resource_record_to_bytes(item.data)) =
             Len(item.data.name_bytes) + RRHEADER + Len(item.data.rdata)
    BY <2>1, RecordBytes
  <2>4. PartSize(k, item) = Len(item.data.name_bytes) + RRHEADER + Len(item.data.rdata)
    BY <1>3 DEF PartSize
  <2>5. Len(resource_record_to_bytes(item.data)) \in Nat
    BY <2>3
  <2> QED
    BY <2>2, <2>3, <2>4, <2>5
<1> QED
  BY <1>1, <1>2, <1>3

\* packedrr_from_bytes reads what packedrr_to_bytes has written.
LEMMA ItemRead ==
  ASSUME NEW p \in Nat, bytes \in Seq(Byte), NEW m,
         NEW k \in Sections \ {QUESTIONS}, NEW item, IsItem(k, item),
         ReadableItem(m, item), Holds(p, Part(k, item))
  PROVE  /\ InReach(p)
         /\ packedrr_from_bytes(p, IsQuery(m.flags)) = Read(PartSize(k, item), item.data)
         /\ packedrr_create(item.data) = RootAsDot(k, item)
<1>1. packedrr_create(item.data) = item /\ RootAsDot(k, item) = item
  BY DEF IsItem, RootAsDot
<1> DEFINE query == IsQuery(m.flags)
<1>2. query \in BOOLEAN
  BY DEF IsQuery
<1>3. CASE item.isRRFrag
  <2> DEFINE f == item.data
  <2>1. IsFragment(f) /\ (f.fragdata = NULL <=> query)
    BY <1>3 DEF IsItem, ReadableItem
  <2>2. Holds(p, rrfrag_to_bytes(f))
    BY <1>3 DEF Part, packedrr_to_bytes
  <2>3. PartSize(k, item) = RRFRAGHEADER + Len(DataOf(f))
    <3>1. PartSize(k, item) =
            RRFRAGHEADER + (IF f.fragdata = NULL THEN 0 ELSE f.fragsize)
      BY <1>3 DEF PartSize
    <3>2. Len(DataOf(f)) = IF f.fragdata = NULL THEN 0 ELSE f.fragsize
      BY <2>1, FragmentBytes
    <3> QED
      BY <3>1, <3>2
  <2> HIDE DEF f, query
  <2>4. InReach(p) /\ is_rrfrag(p) /\ rrfrag_from_bytes(p, query) = Read(PartSize(k, item), f)
    BY <1>2, <2>1, <2>2, <2>3, FragmentRead
  <2>5. packedrr_from_bytes(p, query) = Read(PartSize(k, item), f)
    BY <2>4 DEF packedrr_from_bytes
  <2> QED
    BY <1>1, <2>4, <2>5 DEF f, query
<1>4. CASE ~ item.isRRFrag
  <2> DEFINE rr == item.data
  <2>1. IsRecord(rr) /\ Scannable(rr)
    BY <1>4 DEF IsItem, ReadableItem
  <2>2. Holds(p, resource_record_to_bytes(rr))
    BY <1>4 DEF Part, packedrr_to_bytes
  <2>3. PartSize(k, item) = Len(rr.name_bytes) + RRHEADER + Len(rr.rdata)
    BY <1>4 DEF PartSize
  <2> HIDE DEF rr, query
  <2>4. /\ InReach(p) /\ ~ is_rrfrag(p)
        /\ resource_record_from_bytes(p) = Read(PartSize(k, item), rr)
    BY <2>1, <2>2, <2>3, RecordRead
  <2>5. packedrr_from_bytes(p, query) = Read(PartSize(k, item), rr)
    BY <2>4 DEF packedrr_from_bytes
  <2> QED
    BY <1>1, <2>4, <2>5 DEF rr, query
<1> QED
  BY <1>3, <1>4

\* Four lists, one behind another.
Four(a, b, c, d) == a \o b \o c \o d

LiesInFour(u, T, a, b, c, d) ==
  /\ u \in Seq(T) /\ Len(u) = Len(a) + Len(b) + Len(c) + Len(d)
  /\ \A i \in 1 .. Len(a) : u[i] = a[i]
  /\ \A i \in 1 .. Len(b) : u[Len(a) + i] = b[i]
  /\ \A i \in 1 .. Len(c) : u[Len(a) + Len(b) + i] = c[i]
  /\ \A i \in 1 .. Len(d) : u[Len(a) + Len(b) + Len(c) + i] = d[i]

LEMMA FourLaid ==
  ASSUME NEW T, NEW a \in Seq(T), NEW b \in Seq(T), NEW c \in Seq(T), NEW d \in Seq(T)
  PROVE  LiesInFour(Four(a, b, c, d), T, a, b, c, d)
<1> DEFINE s == a \o b
           t == s \o c
           u == t \o d
<1>0. Len(a) \in Nat /\ Len(b) \in Nat /\ Len(c) \in Nat /\ Len(d) \in Nat
  OBVIOUS
<1>1. /\ s \in Seq(T) /\ Len(s) = Len(a) + Len(b)
      /\ \A i \in 1 .. Len(a) + Len(b) : s[i] = IF i <= Len(a) THEN a[i] ELSE b[i - Len(a)]
  BY ConcatProperties
<1> HIDE DEF s
<1>2. /\ t \in Seq(T) /\ Len(t) = Len(s) + Len(c)
      /\ \A i \in 1 .. Len(s) + Len(c) : t[i] = IF i <= Len(s) THEN s[i] ELSE c[i - Len(s)]
  <2>1. s \in Seq(T)
    BY <1>1
  <2> QED
    BY ONLY <2>1, c \in Seq(T), ConcatProperties
<1> HIDE DEF t
<1>3. /\ u \in Seq(T) /\ Len(u) = Len(t) + Len(d)
      /\ \A i \in 1 .. Len(t) + Len(d) : u[i] = IF i <= Len(t) THEN t[i] ELSE d[i - Len(t)]
  <2>1. t \in Seq(T)
    BY <1>2
  <2> QED
    BY ONLY <2>1, d \in Seq(T), ConcatProperties
<1> HIDE DEF u
<1>4. Four(a, b, c, d) = u
  BY DEF Four, s, t, u
<1> DEFINE la == Len(a)
           lb == Len(b)
           lc == Len(c)
           ld == Len(d)
<1>5. /\ la \in Nat /\ lb \in Nat /\ lc \in Nat /\ ld \in Nat
      /\ \A i \in 1 .. la + lb : s[i] = IF i <= la THEN a[i] ELSE b[i - la]
      /\ \A i \in 1 .. (la + lb) + lc : t[i] = IF i <= la + lb THEN s[i] ELSE c[i - (la + lb)]
      /\ \A i \in 1 .. ((la + lb) + lc) + ld :
           u[i] = IF i <= (la + lb) + lc THEN t[i] ELSE d[i - ((la + lb) + lc)]
  BY <1>0, <1>1, <1>2, <1>3
<1>6. Len(u) = la + lb + lc + ld
  BY <1>1, <1>2, <1>3
<1> HIDE DEF la, lb, lc, ld
<1>7. ASSUME NEW i \in 1 .. la
      PROVE  u[i] = a[i]
  <2>1. /\ i \in 1 .. la + lb /\ i <= la
        /\ i \in 1 .. (la + lb) + lc /\ i <= la + lb
        /\ i \in 1 .. ((la + lb) + lc) + ld /\ i <= (la + lb) + lc
    BY <1>5
  <2> QED
    BY <1>5, <2>1
<1>8. ASSUME NEW i \in 1 .. lb
      PROVE  u[la + i] = b[i]
  <2>1. /\ la + i \in 1 .. la + lb /\ ~ (la + i <= la) /\ (la + i) - la = i
        /\ la + i \in 1 .. (la + lb) + lc /\ la + i <= la + lb
        /\ la + i \in 1 .. ((la + lb) + lc) + ld /\ la + i <= (la + lb) + lc
    BY <1>5
  <2>2. u[la + i] = t[la + i] /\ t[la + i] = s[la + i] /\ s[la + i] = b[(la + i) - la]
    BY <1>5, <2>1
  <2> QED
    BY <2>1, <2>2
<1>9. ASSUME NEW i \in 1 .. lc
      PROVE  u[la + lb + i] = c[i]
  <2> DEFINE j == la + lb + i
  <2>1. /\ ~ (j <= la + lb) /\ j - (la + lb) = i
        /\ j \in 1 .. (la + lb) + lc
        /\ j \in 1 .. ((la + lb) + lc) + ld /\ j <= (la + lb) + lc
    BY <1>5
  <2> HIDE DEF j
  <2>2. u[j] = t[j] /\ t[j] = c[j - (la + lb)]
    BY <1>5, <2>1
  <2> QED
    BY <2>1, <2>2 DEF j
<1>10. ASSUME NEW i \in 1 .. ld
       PROVE  u[la + lb + lc + i] = d[i]
  <2> DEFINE j == la + lb + lc + i
  <2>1. /\ ~ (j <= (la + lb) + lc) /\ j - ((la + lb) + lc) = i
        /\ j \in 1 .. ((la + lb) + lc) + ld
    BY <1>5
  <2> HIDE DEF j
  <2>2. u[j] = d[j - ((la + lb) + lc)]
    BY <1>5, <2>1
  <2> QED
    BY <2>1, <2>2 DEF j
<1> QED
  BY <1>3, <1>4, <1>6, <1>7, <1>8, <1>9, <1>10 DEF LiesInFour, la, lb, lc, ld

\* How many parts come before section k.
Base(m, k) ==
  IF k = 1 THEN 0
  ELSE IF k = 2 THEN Len(m.sections[1])
  ELSE IF k = 3 THEN Len(m.sections[1]) + Len(m.sections[2])
  ELSE Len(m.sections[1]) + Len(m.sections[2]) + Len(m.sections[3])

LEMMA SectionsOf ==
  ASSUME NEW m, IsMessage(m)
  PROVE  \A k \in Sections :
           /\ Len(m.sections[k]) \in Nat /\ DOMAIN m.sections[k] = 1 .. Len(m.sections[k])
           /\ Len(m.sections[k]) \in Word
           /\ \A i \in 1 .. Len(m.sections[k]) : IsItem(k, m.sections[k][i])
           /\ SectionParts(m, k) \in Seq(Seq(Byte)) /\ SectionSizes(m, k) \in Seq(Int)
           /\ Len(SectionParts(m, k)) = Len(m.sections[k])
           /\ Len(SectionSizes(m, k)) = Len(m.sections[k])
           /\ \A i \in 1 .. Len(m.sections[k]) :
                /\ SectionParts(m, k)[i] = Part(k, m.sections[k][i])
                /\ SectionSizes(m, k)[i] = PartSize(k, m.sections[k][i])
<1> SUFFICES ASSUME NEW k \in Sections
             PROVE  /\ Len(m.sections[k]) \in Nat
                    /\ DOMAIN m.sections[k] = 1 .. Len(m.sections[k])
                    /\ Len(m.sections[k]) \in Word
                    /\ \A i \in 1 .. Len(m.sections[k]) : IsItem(k, m.sections[k][i])
                    /\ SectionParts(m, k) \in Seq(Seq(Byte)) /\ SectionSizes(m, k) \in Seq(Int)
                    /\ Len(SectionParts(m, k)) = Len(m.sections[k])
                    /\ Len(SectionSizes(m, k)) = Len(m.sections[k])
                    /\ \A i \in 1 .. Len(m.sections[k]) :
                         /\ SectionParts(m, k)[i] = Part(k, m.sections[k][i])
                         /\ SectionSizes(m, k)[i] = PartSize(k, m.sections[k][i])
  OBVIOUS
<1> DEFINE s == m.sections[k]
           n == Len(s)
           parts == [i \in 1 .. n |-> Part(k, s[i])]
           sizes == [i \in 1 .. n |-> PartSize(k, s[i])]
<1>1. /\ s \in Seq(ToSet(s)) /\ n \in Word /\ \A i \in DOMAIN s : IsItem(k, s[i])
  BY DEF IsMessage
<1>2. n \in Nat /\ DOMAIN s = 1 .. n
  BY <1>1
<1>3. SectionParts(m, k) = parts /\ SectionSizes(m, k) = sizes
  BY <1>2 DEF SectionParts, SectionSizes
<1>4. \A i \in 1 .. n : IsItem(k, s[i])
  BY <1>1, <1>2
<1> HIDE DEF s, n
<1>5. \A i \in 1 .. n : Part(k, s[i]) \in Seq(Byte) /\ PartSize(k, s[i]) \in Nat
  BY <1>4, PartBytes
<1>6. /\ parts \in Seq(Seq(Byte)) /\ sizes \in Seq(Int) /\ Len(parts) = n /\ Len(sizes) = n
      /\ \A i \in 1 .. n : parts[i] = Part(k, s[i]) /\ sizes[i] = PartSize(k, s[i])
  BY <1>2, <1>5
<1> QED
  BY <1>1, <1>2, <1>3, <1>4, <1>6 DEF s, n

\* The parts of a message and their sizes, by section and place in it.
LEMMA MessageLaid ==
  ASSUME NEW m, IsMessage(m)
  PROVE  /\ Parts(m) \in Seq(Seq(Byte)) /\ PartSizes(m) \in Seq(Int)
         /\ Len(Parts(m)) = Len(PartSizes(m))
         /\ PartLengths(Parts(m)) = PartSizes(m)
         /\ Len(PartSizes(m)) = Base(m, 4) + Len(m.sections[4])
         /\ \A k \in Sections : \A i \in 1 .. Len(m.sections[k]) :
              /\ Base(m, k) + i \in 1 .. Len(Parts(m))
              /\ Parts(m)[Base(m, k) + i] = Part(k, m.sections[k][i])
              /\ PartSizes(m)[Base(m, k) + i] = PartSize(k, m.sections[k][i])
<1> DEFINE P == SectionParts(m, 1)
           Q == SectionParts(m, 2)
           R == SectionParts(m, 3)
           S == SectionParts(m, 4)
           PS == SectionSizes(m, 1)
           QS == SectionSizes(m, 2)
           RS == SectionSizes(m, 3)
           SS == SectionSizes(m, 4)
           L(k) == Len(m.sections[k])
<1>1. Sections = {1, 2, 3, 4}
  BY DEF Sections
<1>2. /\ P \in Seq(Seq(Byte)) /\ Q \in Seq(Seq(Byte))
      /\ R \in Seq(Seq(Byte)) /\ S \in Seq(Seq(Byte))
      /\ PS \in Seq(Int) /\ QS \in Seq(Int) /\ RS \in Seq(Int) /\ SS \in Seq(Int)
      /\ Len(P) = L(1) /\ Len(Q) = L(2) /\ Len(R) = L(3) /\ Len(S) = L(4)
      /\ Len(PS) = L(1) /\ Len(QS) = L(2) /\ Len(RS) = L(3) /\ Len(SS) = L(4)
      /\ L(1) \in Nat /\ L(2) \in Nat /\ L(3) \in Nat /\ L(4) \in Nat
  BY <1>1, SectionsOf
<1>3. /\ Parts(m) = Four(P, Q, R, S) /\ PartSizes(m) = Four(PS, QS, RS, SS)
  BY Zenon DEF Parts, PartSizes, Four
<1>4. /\ Parts(m) \in Seq(Seq(Byte)) /\ Len(Parts(m)) = L(1) + L(2) + L(3) + L(4)
      /\ \A i \in 1 .. L(1) : Parts(m)[i] = P[i]
      /\ \A i \in 1 .. L(2) : Parts(m)[L(1) + i] = Q[i]
      /\ \A i \in 1 .. L(3) : Parts(m)[L(1) + L(2) + i] = R[i]
      /\ \A i \in 1 .. L(4) : Parts(m)[L(1) + L(2) + L(3) + i] = S[i]
  <2> HIDE DEF P, Q, R, S, L
  <2>1. P \in Seq(Seq(Byte)) /\ Q \in Seq(Seq(Byte)) /\ R \in Seq(Seq(Byte)) /\ S \in Seq(Seq(Byte))
    BY <1>2
  <2>2. LiesInFour(Four(P, Q, R, S), Seq(Byte), P, Q, R, S)
    BY ONLY <2>1, FourLaid
  <2>3. LiesInFour(Parts(m), Seq(Byte), P, Q, R, S)
    BY ONLY <2>2, <1>3
  <2> QED
    BY ONLY <1>2, <2>3 DEF LiesInFour
<1>5. /\ PartSizes(m) \in Seq(Int) /\ Len(PartSizes(m)) = L(1) + L(2) + L(3) + L(4)
      /\ \A i \in 1 .. L(1) : PartSizes(m)[i] = PS[i]
      /\ \A i \in 1 .. L(2) : PartSizes(m)[L(1) + i] = QS[i]
      /\ \A i \in 1 .. L(3) : PartSizes(m)[L(1) + L(2) + i] = RS[i]
      /\ \A i \in 1 .. L(4) : PartSizes(m)[L(1) + L(2) + L(3) + i] = SS[i]
  <2> HIDE DEF PS, QS, RS, SS, L
  <2>1. PS \in Seq(Int) /\ QS \in Seq(Int) /\ RS \in Seq(Int) /\ SS \in Seq(Int)
    BY <1>2
  <2>2. LiesInFour(Four(PS, QS, RS, SS), Int, PS, QS, RS, SS)
    BY ONLY <2>1, FourLaid
  <2>3. LiesInFour(PartSizes(m), Int, PS, QS, RS, SS)
    BY ONLY <2>2, <1>3
  <2> QED
    BY ONLY <1>2, <2>3 DEF LiesInFour
<1> DEFINE N == L(1) + L(2) + L(3) + L(4)
<1>6. /\ Base(m, 1) = 0 /\ Base(m, 2) = L(1) /\ Base(m, 3) = L(1) + L(2)
      /\ Base(m, 4) = L(1) + L(2) + L(3)
  BY DEF Base
<1>7. ASSUME NEW k \in Sections, NEW i \in 1 .. L(k)
      PROVE  /\ Base(m, k) + i \in 1 .. N
             /\ Parts(m)[Base(m, k) + i] = Part(k, m.sections[k][i])
             /\ PartSizes(m)[Base(m, k) + i] = PartSize(k, m.sections[k][i])
  <2>1. /\ SectionParts(m, k)[i] = Part(k, m.sections[k][i])
        /\ SectionSizes(m, k)[i] = PartSize(k, m.sections[k][i])
    BY SectionsOf
  <2>2. SUFFICES /\ Base(m, k) + i \in 1 .. N
                 /\ Parts(m)[Base(m, k) + i] = SectionParts(m, k)[i]
                 /\ PartSizes(m)[Base(m, k) + i] = SectionSizes(m, k)[i]
    BY <2>1
  <2> DEFINE l1 == L(1)
             l2 == L(2)
             l3 == L(3)
             l4 == L(4)
  <2>3. l1 \in Nat /\ l2 \in Nat /\ l3 \in Nat /\ l4 \in Nat
    BY <1>2
  <2>4. CASE k = 1
    <3>1. i \in 1 .. l1
      BY <2>4
    <3> HIDE DEF l1, l2, l3, l4
    <3>2. 0 + i = i /\ i \in 1 .. (l1 + l2 + l3 + l4)
      BY <2>3, <3>1
    <3> QED
      BY <1>4, <1>5, <1>6, <2>4, <3>1, <3>2, ZenonT(30) DEF l1, l2, l3, l4
  <2>5. CASE k = 2
    <3>1. i \in 1 .. l2
      BY <2>5
    <3> HIDE DEF l1, l2, l3, l4
    <3>2. l1 + i \in 1 .. (l1 + l2 + l3 + l4)
      BY <2>3, <3>1
    <3> QED
      BY <1>4, <1>5, <1>6, <2>5, <3>1, <3>2 DEF l1, l2, l3, l4
  <2>6. CASE k = 3
    <3>1. i \in 1 .. l3
      BY <2>6
    <3> HIDE DEF l1, l2, l3, l4
    <3>2. l1 + l2 + i \in 1 .. (l1 + l2 + l3 + l4)
      BY <2>3, <3>1
    <3> QED
      BY <1>4, <1>5, <1>6, <2>6, <3>1, <3>2 DEF l1, l2, l3, l4
  <2>7. CASE k = 4
    <3>1. i \in 1 .. l4
      BY <2>7
    <3> HIDE DEF l1, l2, l3, l4
    <3>2. l1 + l2 + l3 + i \in 1 .. (l1 + l2 + l3 + l4)
      BY <2>3, <3>1
    <3> QED
      BY <1>4, <1>5, <1>6, <2>7, <3>1, <3>2 DEF l1, l2, l3, l4
  <2> QED
    BY <1>1, <2>4, <2>5, <2>6, <2>7
\* Every part is one of a section.
<1>8. ASSUME NEW g \in 1 .. N
      PROVE  \E k \in Sections : \E i \in 1 .. L(k) : g = Base(m, k) + i
  <2> DEFINE l1 == L(1)
             l2 == L(2)
             l3 == L(3)
             l4 == L(4)
  <2>1. /\ l1 \in Nat /\ l2 \in Nat /\ l3 \in Nat /\ l4 \in Nat
        /\ g \in 1 .. (l1 + l2 + l3 + l4)
    BY <1>2
  <2>2. Base(m, 1) = 0 /\ Base(m, 2) = l1 /\ Base(m, 3) = l1 + l2 /\ Base(m, 4) = l1 + l2 + l3
    BY <1>6
  <2>3. ASSUME NEW k \in 1 .. 4, NEW i \in 1 .. L(k), g = Base(m, k) + i
        PROVE  \E h \in Sections : \E j \in 1 .. L(h) : g = Base(m, h) + j
    BY <2>3 DEF Sections
  <2> HIDE DEF l1, l2, l3, l4
  <2>4. CASE g <= l1
    <3>1. g \in 1 .. l1 /\ g = 0 + g
      BY ONLY <2>1, <2>4
    <3> QED
      BY <2>2, <2>3, <3>1 DEF l1
  <2>5. CASE g > l1 /\ g <= l1 + l2
    <3>1. g - l1 \in 1 .. l2 /\ g = l1 + (g - l1)
      BY ONLY <2>1, <2>5
    <3> QED
      BY <2>2, <2>3, <3>1 DEF l2
  <2>6. CASE g > l1 + l2 /\ g <= l1 + l2 + l3
    <3>1. g - (l1 + l2) \in 1 .. l3 /\ g = (l1 + l2) + (g - (l1 + l2))
      BY ONLY <2>1, <2>6
    <3> QED
      BY <2>2, <2>3, <3>1 DEF l3
  <2>7. CASE g > l1 + l2 + l3
    <3>1. g - (l1 + l2 + l3) \in 1 .. l4 /\ g = (l1 + l2 + l3) + (g - (l1 + l2 + l3))
      BY ONLY <2>1, <2>7
    <3> QED
      BY <2>2, <2>3, <3>1 DEF l4
  <2> QED
    BY ONLY <2>1, <2>4, <2>5, <2>6, <2>7
<1>9. PartLengths(Parts(m)) = PartSizes(m)
  <2>1. ASSUME NEW g \in 1 .. N
        PROVE  Parts(m)[g] \in Seq(Byte) /\ Len(Parts(m)[g]) = PartSizes(m)[g]
    <3>1. PICK k \in Sections : \E i \in 1 .. L(k) : g = Base(m, k) + i
      BY <1>8
    <3>2. PICK i \in 1 .. L(k) : g = Base(m, k) + i
      BY <3>1
    <3>3. /\ Parts(m)[g] = Part(k, m.sections[k][i])
          /\ PartSizes(m)[g] = PartSize(k, m.sections[k][i])
      BY <1>7, <3>2
    <3>4. IsItem(k, m.sections[k][i])
      BY SectionsOf
    <3> QED
      BY <3>3, <3>4, PartBytes
  <2> HIDE DEF N
  <2>2. Len(Parts(m)) = N /\ Len(PartSizes(m)) = N
    BY <1>4, <1>5 DEF N
  <2>3. PartLengths(Parts(m)) = [i \in 1 .. N |-> PartSizes(m)[i]]
    BY <2>1, <2>2 DEF PartLengths
  <2>4. PartSizes(m) = [i \in 1 .. N |-> PartSizes(m)[i]]
    BY <1>5, <2>2
  <2> QED
    BY <2>3, <2>4
<1> QED
  BY <1>4, <1>5, <1>6, <1>7, <1>9

\* Offsets never go back.
LEMMA OffsetsRise ==
  ASSUME NEW sizes \in Seq(Int), \A i \in 1 .. Len(sizes) : sizes[i] \in Nat
  PROVE  \A i \in 0 .. Len(sizes) :
           Offsets(sizes)[i] \in Nat /\ Offsets(sizes)[i] <= Total(sizes)
<1> DEFINE n == Len(sizes)
           off == Offsets(sizes)
<1>1. /\ n \in Nat /\ off \in [0 .. n -> Int] /\ off[0] = 0
      /\ \A i \in 1 .. n : off[i] = off[i - 1] + sizes[i] /\ sizes[i] \in Nat
  BY OffsetsStep
<1>2. Total(sizes) = off[n]
  BY DEF Total
<1> HIDE DEF n, off
<1> DEFINE S == {k \in 0 .. n : \A i \in 0 .. k : off[i] \in Nat /\ off[i] <= off[k]}
<1>3. 0 \in S
  BY <1>1
<1>4. ASSUME NEW k \in 0 .. n - 1, k \in S
      PROVE  k + 1 \in S
  <2>1. /\ k \in 0 .. n /\ k + 1 \in 1 .. n /\ (k + 1) - 1 = k /\ k + 1 \in 0 .. n
        /\ \A i \in 0 .. k : off[i] \in Nat /\ off[i] <= off[k]
    BY <1>1, <1>4
  <2>2. off[k + 1] = off[k] + sizes[k + 1] /\ sizes[k + 1] \in Nat /\ off[k] \in Nat
    BY <1>1, <2>1
  <2>3. ASSUME NEW i \in 0 .. k + 1
        PROVE  off[i] \in Nat /\ off[i] <= off[k + 1]
    <3>1. CASE i = k + 1
      BY <2>2, <3>1
    <3>2. CASE i # k + 1
      <4>1. i \in 0 .. k
        BY <2>1, <3>2
      <4>2. off[i] \in Nat /\ off[i] <= off[k]
        BY ONLY <2>1, <4>1
      <4> DEFINE x == off[i]
                 y == off[k]
                 z == off[k + 1]
                 w == sizes[k + 1]
      <4>3. x \in Nat /\ x <= y /\ z = y + w /\ w \in Nat /\ y \in Nat
        BY <2>2, <4>2
      <4> HIDE DEF x, y, z, w
      <4>4. x \in Nat /\ x <= z
        BY ONLY <4>3
      <4> QED
        BY <4>4 DEF x, z
    <3> QED
      BY <3>1, <3>2
  <2> QED
    BY <2>1, <2>3
<1> HIDE DEF S
<1>5. \A k \in 0 .. n : k \in S
  BY <1>1, <1>3, <1>4, UpTo
<1>6. n \in S
  BY <1>1, <1>5
<1>7. \A i \in 0 .. n : off[i] \in Nat /\ off[i] <= off[n]
  BY <1>6 DEF S
<1> QED
  BY <1>2, <1>7 DEF n, off

\* Where the parts of a message begin.
Begin(m, g) == DNSHEADERSIZE + Offsets(PartSizes(m))[g]

LEMMA BeginsAre ==
  ASSUME NEW m, IsMessage(m)
  PROVE  /\ Begin(m, 0) = DNSHEADERSIZE
         /\ Begin(m, Base(m, 4) + Len(m.sections[4])) = DNSHEADERSIZE + Total(PartSizes(m))
         /\ \A k \in Sections : \A i \in 1 .. Len(m.sections[k]) :
              /\ Begin(m, (Base(m, k) + i) - 1) \in Nat
              /\ DNSHEADERSIZE <= Begin(m, (Base(m, k) + i) - 1)
              /\ Begin(m, Base(m, k) + i) =
                   Begin(m, (Base(m, k) + i) - 1) + PartSize(k, m.sections[k][i])
              /\ Begin(m, Base(m, k) + i) <= DNSHEADERSIZE + Total(PartSizes(m))
<1> DEFINE sizes == PartSizes(m)
           n == Len(sizes)
           off == Offsets(sizes)
<1>1. sizes \in Seq(Int) /\ n = Base(m, 4) + Len(m.sections[4]) /\ Len(Parts(m)) = n
  BY MessageLaid
<1>2. Total(sizes) = off[n] /\ \A g : Begin(m, g) = DNSHEADERSIZE + off[g]
  BY DEF Begin, Total
<1>3. /\ n \in Nat /\ off \in [0 .. n -> Int] /\ off[0] = 0
      /\ \A i \in 1 .. n : off[i] = off[i - 1] + sizes[i]
  <2> HIDE DEF sizes
  <2> QED
    BY <1>1, OffsetsStep
<1>4. ASSUME NEW k \in Sections, NEW i \in 1 .. Len(m.sections[k])
      PROVE  /\ Base(m, k) + i \in 1 .. n
             /\ sizes[Base(m, k) + i] = PartSize(k, m.sections[k][i])
             /\ PartSize(k, m.sections[k][i]) \in Nat
  <2>1. IsItem(k, m.sections[k][i])
    BY SectionsOf
  <2>2. PartSize(k, m.sections[k][i]) \in Nat
    BY <2>1, PartBytes
  <2> QED
    BY <1>1, <2>2, MessageLaid
<1>5. \A g \in 1 .. n : sizes[g] \in Nat
  <2>1. PartLengths(Parts(m)) = sizes /\ Parts(m) \in Seq(Seq(Byte))
    BY MessageLaid
  <2>2. \A g \in 1 .. n : Parts(m)[g] \in Seq(Byte) /\ Len(Parts(m)[g]) \in Nat
    <3> DEFINE P == Parts(m)
    <3>1. P \in Seq(Seq(Byte)) /\ Len(P) = n
      BY <1>1, <2>1
    <3> HIDE DEF n, P
    <3> SUFFICES ASSUME NEW g \in 1 .. n PROVE P[g] \in Seq(Byte) /\ Len(P[g]) \in Nat
      BY DEF P
    <3>2. P[g] \in Seq(Byte)
      BY <3>1
    <3> QED
      BY <3>2
  <2>3. PartLengths(Parts(m)) = [g \in 1 .. n |-> Len(Parts(m)[g])]
    BY <1>1 DEF PartLengths
  <2> HIDE DEF sizes, n
  <2>4. \A g \in 1 .. n : sizes[g] = Len(Parts(m)[g])
    BY <2>1, <2>3
  <2> QED
    BY <2>2, <2>4
<1> HIDE DEF sizes
<1>6. \A g \in 0 .. n : off[g] \in Nat /\ off[g] <= Total(sizes)
  BY <1>1, <1>5, OffsetsRise
<1> HIDE DEF n, off
<1>7. ASSUME NEW k \in Sections, NEW i \in 1 .. Len(m.sections[k])
      PROVE  /\ Begin(m, (Base(m, k) + i) - 1) \in Nat
             /\ DNSHEADERSIZE <= Begin(m, (Base(m, k) + i) - 1)
             /\ Begin(m, Base(m, k) + i) =
                  Begin(m, (Base(m, k) + i) - 1) + PartSize(k, m.sections[k][i])
             /\ Begin(m, Base(m, k) + i) <= DNSHEADERSIZE + Total(sizes)
  <2> DEFINE g == Base(m, k) + i
  <2>1. g \in 1 .. n /\ sizes[g] = PartSize(k, m.sections[k][i])
        /\ PartSize(k, m.sections[k][i]) \in Nat
    BY <1>4
  <2> HIDE DEF g
  <2>2. off[g] = off[g - 1] + sizes[g] /\ g - 1 \in 0 .. n
    BY <1>3, <2>1
  <2>3. off[g - 1] \in Nat /\ off[g] <= off[n] /\ off[n] \in Nat
    BY <1>2, <1>3, <1>6, <2>1, <2>2
  <2>4. Begin(m, g - 1) = DNSHEADERSIZE + off[g - 1] /\ Begin(m, g) = DNSHEADERSIZE + off[g]
    BY <1>2
  <2> DEFINE x == off[g - 1]
             z == off[g]
             w == sizes[g]
             y == off[n]
  <2>5. x \in Nat /\ w \in Nat /\ z = x + w /\ z <= y /\ y \in Nat
    BY <2>1, <2>2, <2>3
  <2> HIDE DEF x, z, w, y
  <2>6. /\ DNSHEADERSIZE + x \in Nat /\ DNSHEADERSIZE <= DNSHEADERSIZE + x
        /\ DNSHEADERSIZE + z = (DNSHEADERSIZE + x) + w
        /\ DNSHEADERSIZE + z <= DNSHEADERSIZE + y
    BY ONLY <2>5 DEF DNSHEADERSIZE
  <2>7. /\ Begin(m, g - 1) \in Nat /\ Begin(m, g) = Begin(m, g - 1) + PartSize(k, m.sections[k][i])
        /\ Begin(m, g) <= DNSHEADERSIZE + Total(sizes) /\ DNSHEADERSIZE <= Begin(m, g - 1)
    BY ONLY <1>2, <2>1, <2>4, <2>6 DEF x, z, w, y
  <2> QED
    BY ONLY <2>7 DEF g
<1>8. Begin(m, 0) = DNSHEADERSIZE
  BY <1>2, <1>3 DEF DNSHEADERSIZE
<1> QED
  BY <1>1, <1>2, <1>7, <1>8 DEF sizes, n

\* The header in its six numbers.
LEMMA HeaderLaid ==
  ASSUME NEW m, IsMessage(m)
  PROVE  /\ Header(m) = Six(BE2(m.identification), BE2(m.flags), Count(m, 1),
                            Count(m, 2), Count(m, 3), Count(m, 4))
         /\ Header(m) \in Seq(Byte) /\ Len(Header(m)) = DNSHEADERSIZE
         /\ m.identification \in Word /\ m.flags \in Word
         /\ BE2(m.identification) \in Seq(Byte) /\ Len(BE2(m.identification)) = 2
         /\ BE2(m.flags) \in Seq(Byte) /\ Len(BE2(m.flags)) = 2
         /\ \A k \in Sections : Count(m, k) \in Seq(Byte) /\ Len(Count(m, k)) = 2
<1> DEFINE a == BE2(m.identification)
           b == BE2(m.flags)
           c == Count(m, 1)
           d == Count(m, 2)
           e == Count(m, 3)
           f == Count(m, 4)
<1>1. m.identification \in Word /\ m.flags \in Word
  BY DEF IsMessage
<1>2. a \in Seq(Byte) /\ Len(a) = 2 /\ b \in Seq(Byte) /\ Len(b) = 2
  <2>1. m.identification \in Nat /\ m.flags \in Nat
    BY <1>1, AllNatural
  <2> QED
    BY <2>1, Bytes2
<1>3. \A k \in Sections : Count(m, k) \in Seq(Byte) /\ Len(Count(m, k)) = 2
  BY SectionsOf, Bytes2 DEF Count
<1>4. /\ c \in Seq(Byte) /\ Len(c) = 2 /\ d \in Seq(Byte) /\ Len(d) = 2
      /\ e \in Seq(Byte) /\ Len(e) = 2 /\ f \in Seq(Byte) /\ Len(f) = 2
  <2> HIDE DEF c, d, e, f
  <2> QED
    BY <1>3 DEF Sections, c, d, e, f
<1>5. Header(m) = Six(a, b, c, d, e, f)
  BY Zenon DEF Header, Six
<1> HIDE DEF a, b, c, d, e, f
<1>6. Six(a, b, c, d, e, f) \in Seq(Byte)
      /\ Len(Six(a, b, c, d, e, f)) = Len(a) + Len(b) + Len(c) + Len(d) + Len(e) + Len(f)
  <2>1. /\ a \in Seq(Byte) /\ b \in Seq(Byte) /\ c \in Seq(Byte)
        /\ d \in Seq(Byte) /\ e \in Seq(Byte) /\ f \in Seq(Byte)
    BY <1>2, <1>4
  <2> QED
    BY ONLY <2>1, SixLaid
<1>7. Len(Six(a, b, c, d, e, f)) = 12
  BY <1>2, <1>4, <1>6
<1> QED
  BY <1>1, <1>2, <1>3, <1>5, <1>6, <1>7 DEF a, b, c, d, e, f, DNSHEADERSIZE

LEMMA HeaderRead ==
  ASSUME NEW m, IsMessage(m), bytes \in Seq(Byte), Holds(0, Header(m))
  PROVE  /\ Number2(0) = m.identification /\ Number2(2) = m.flags
         /\ \A k \in Sections : Number2(2 + 2 * k) = Len(m.sections[k])
<1> DEFINE a == BE2(m.identification)
           b == BE2(m.flags)
           c == Count(m, 1)
           d == Count(m, 2)
           e == Count(m, 3)
           f == Count(m, 4)
<1>1. /\ Header(m) = Six(a, b, c, d, e, f)
      /\ m.identification \in Word /\ m.flags \in Word
      /\ a \in Seq(Byte) /\ Len(a) = 2 /\ b \in Seq(Byte) /\ Len(b) = 2
      /\ \A k \in Sections : Count(m, k) \in Seq(Byte) /\ Len(Count(m, k)) = 2
  BY HeaderLaid
<1>2. /\ c \in Seq(Byte) /\ Len(c) = 2 /\ d \in Seq(Byte) /\ Len(d) = 2
      /\ e \in Seq(Byte) /\ Len(e) = 2 /\ f \in Seq(Byte) /\ Len(f) = 2
  <2> HIDE DEF c, d, e, f
  <2> QED
    BY <1>1 DEF Sections, c, d, e, f
<1> HIDE DEF a, b, c, d, e, f
<1>3. Holds(0, Six(a, b, c, d, e, f)) /\ 0 \in Nat
  BY <1>1
<1>4. HoldsSix(0, a, b, c, d, e, f)
  BY <1>1, <1>2, <1>3, SixHeld
<1>5. /\ Holds(0, a) /\ Holds(2, b) /\ Holds(4, c) /\ Holds(6, d) /\ Holds(8, e)
      /\ Holds(10, f)
  BY <1>1, <1>2, <1>4 DEF HoldsSix
<1>6. Number2(0) = m.identification /\ Number2(2) = m.flags
  BY <1>1, <1>5, HoldsNumber2 DEF a, b
<1>7. \A k \in Sections : Holds(2 + 2 * k, Count(m, k))
  BY <1>5 DEF Sections, c, d, e, f
<1>8. ASSUME NEW k \in Sections
      PROVE  Number2(2 + 2 * k) = Len(m.sections[k])
  <2>1. Len(m.sections[k]) \in Word
    BY SectionsOf
  <2>2. Holds(2 + 2 * k, BE2(Len(m.sections[k])))
    BY <1>7 DEF Count
  <2>3. 2 + 2 * k \in Nat
    BY DEF Sections
  <2> QED
    BY <2>1, <2>2, <2>3, HoldsNumber2
<1> QED
  BY <1>6, <1>8

\* A message written holds its header and every part where it begins.
LEMMA WholeHeld ==
  ASSUME NEW m, IsMessage(m), bytes = dns_message_to_bytes(m)
  PROVE  /\ bytes \in Seq(Byte) /\ Len(bytes) = DNSHEADERSIZE + Total(PartSizes(m))
         /\ Holds(0, Header(m))
         /\ \A k \in Sections : \A i \in 1 .. Len(m.sections[k]) :
              Holds(Begin(m, (Base(m, k) + i) - 1), Part(k, m.sections[k][i]))
<1> DEFINE h == Header(m)
           f == FlattenSeq(Parts(m))
           off == Offsets(PartSizes(m))
           total == Total(PartSizes(m))
<1>1. bytes = h \o f
  BY DEF dns_message_to_bytes
<1>2. h \in Seq(Byte) /\ Len(h) = DNSHEADERSIZE
  BY HeaderLaid
<1>3. Parts(m) \in Seq(Seq(Byte)) /\ PartLengths(Parts(m)) = PartSizes(m)
  BY MessageLaid
<1>4. /\ f \in Seq(Byte) /\ Len(f) = total
      /\ \A g \in 1 .. Len(Parts(m)) : \A x \in 1 .. Len(Parts(m)[g]) :
           f[off[g - 1] + x] = Parts(m)[g][x]
  <2> DEFINE P == Parts(m)
  <2>1. P \in Seq(Seq(Byte))
    BY <1>3
  <2> HIDE DEF P, f, off, total
  <2>2. /\ FlattenSeq(P) \in Seq(Byte) /\ Len(FlattenSeq(P)) = Total(PartLengths(P))
        /\ \A g \in 1 .. Len(P) : \A x \in 1 .. Len(P[g]) :
             FlattenSeq(P)[Offsets(PartLengths(P))[g - 1] + x] = P[g][x]
    BY ONLY <2>1, FlattenParts
  <2> QED
    BY <1>3, <2>2 DEF P, f, off, total
<1> HIDE DEF h, f, off, total
<1>5. /\ bytes \in Seq(Byte) /\ Len(bytes) = DNSHEADERSIZE + total /\ total \in Nat
      /\ \A i \in 1 .. DNSHEADERSIZE : bytes[i] = h[i]
      /\ \A x \in 1 .. total : bytes[DNSHEADERSIZE + x] = f[x]
  <2>1. /\ h \o f \in Seq(Byte) /\ Len(h \o f) = Len(h) + Len(f)
        /\ \A i \in 1 .. Len(h) + Len(f) :
             (h \o f)[i] = IF i <= Len(h) THEN h[i] ELSE f[i - Len(h)]
    BY <1>2, <1>4, ConcatProperties
  <2>2. total \in Nat
    BY <1>4
  <2>3. /\ bytes \in Seq(Byte) /\ Len(bytes) = 12 + total
        /\ \A i \in 1 .. 12 + total : bytes[i] = IF i <= 12 THEN h[i] ELSE f[i - 12]
    BY <1>1, <1>2, <1>4, <2>1 DEF DNSHEADERSIZE
  <2>4. \A i \in 1 .. 12 : bytes[i] = h[i]
    <3> SUFFICES ASSUME NEW i \in 1 .. 12 PROVE bytes[i] = h[i]
      OBVIOUS
    <3>1. i \in 1 .. 12 + total /\ i <= 12
      BY ONLY <2>2, i \in 1 .. 12
    <3> QED
      BY ONLY <2>3, <3>1
  <2>5. \A x \in 1 .. total : bytes[12 + x] = f[x]
    <3> SUFFICES ASSUME NEW x \in 1 .. total PROVE bytes[12 + x] = f[x]
      OBVIOUS
    <3>1. 12 + x \in 1 .. 12 + total /\ ~ (12 + x <= 12) /\ (12 + x) - 12 = x
      BY ONLY <2>2, x \in 1 .. total
    <3> QED
      BY ONLY <2>3, <3>1
  <2> QED
    BY <2>2, <2>3, <2>4, <2>5 DEF DNSHEADERSIZE
<1>6. Holds(0, h)
  <2>1. \A i \in 1 .. Len(h) : bytes[0 + i] = h[i]
    BY <1>2, <1>5 DEF DNSHEADERSIZE
  <2>2. 0 + Len(h) <= Len(bytes)
    BY <1>2, <1>5 DEF DNSHEADERSIZE
  <2> QED
    BY <2>1, <2>2 DEF Holds
<1>7. ASSUME NEW k \in Sections, NEW i \in 1 .. Len(m.sections[k])
      PROVE  Holds(Begin(m, (Base(m, k) + i) - 1), Part(k, m.sections[k][i]))
  <2> DEFINE g == Base(m, k) + i
             s == Part(k, m.sections[k][i])
             o == off[g - 1]
             p == Begin(m, g - 1)
             n == Len(s)
  <2>1. IsItem(k, m.sections[k][i])
    BY SectionsOf
  <2>2. s \in Seq(Byte) /\ n = PartSize(k, m.sections[k][i])
    BY <2>1, PartBytes
  <2>3. g \in 1 .. Len(Parts(m)) /\ Parts(m)[g] = s
    BY MessageLaid
  <2>4. p \in Nat /\ DNSHEADERSIZE <= p /\ Begin(m, g) = p + n /\ Begin(m, g) <= DNSHEADERSIZE + total
    BY <2>2, BeginsAre DEF total
  <2>5. p = DNSHEADERSIZE + o
    BY DEF Begin, off
  <2>6. \A x \in 1 .. n : f[o + x] = s[x]
    BY <1>4, <2>3
  <2>7. o \in Int
    <3>1. Offsets(PartSizes(m)) \in [0 .. Len(PartSizes(m)) -> Int]
      BY MessageLaid, OffsetsStep
    <3>2. g - 1 \in 0 .. Len(PartSizes(m))
      <4>1. Len(Parts(m)) = Len(PartSizes(m)) /\ Len(PartSizes(m)) \in Nat
        BY MessageLaid, OffsetsStep
      <4> HIDE DEF g
      <4> QED
        BY <2>3, <4>1
    <3> HIDE DEF g
    <3> QED
      BY <3>1, <3>2 DEF off
  <2> HIDE DEF g, s, o
  <2>8. n \in Nat
    BY <2>2
  <2> HIDE DEF p, n
  <2>9. (\A x \in 1 .. n : o + x \in Int) /\ p + n <= Len(bytes)
    BY <1>5, <2>4, <2>7
  <2>10. ASSUME NEW x \in 1 .. n
         PROVE  bytes[p + x] = s[x]
    <3>1. /\ DNSHEADERSIZE + (o + x) = p + x
          /\ p + x <= Len(bytes)
      BY <1>5, <2>4, <2>5, <2>7, <2>8 DEF DNSHEADERSIZE
    <3>2. o >= 0
      BY <2>4, <2>5, <2>7 DEF DNSHEADERSIZE
    <3>3. o + x \in 1 .. total
      BY <1>5, <2>4, <2>5, <2>7, <2>8, <3>2 DEF DNSHEADERSIZE
    <3>4. bytes[DNSHEADERSIZE + (o + x)] = f[o + x]
      BY <1>5, <3>3
    <3> QED
      BY <2>6, <3>1, <3>4
  <2>11. Holds(p, s)
    BY <2>9, <2>10 DEF Holds, n
  <2> QED
    BY <2>11 DEF p, s, g
<1> QED
  BY <1>5, <1>6, <1>7 DEF h, total
-----------------------------------------------------------------------------
(***************************************************************************)
(* The reader keeps in step: what it has read is the first n of every      *)
(* section, and it stands where the next part begins.                      *)
(***************************************************************************)
PartsRead(n) == n[1] + n[2] + n[3] + n[4]

ReadSoFar(m, n, left, got, pos) ==
  /\ \A k \in Sections : n[k] <= Len(m.sections[k])
  /\ \A j, k \in Sections : j < k /\ n[k] > 0 => n[j] = Len(m.sections[j])
  /\ left = [k \in Sections |-> Len(m.sections[k]) - n[k]]
  /\ got = [m EXCEPT !.sections = Expected(m, n)]
  /\ pos = Begin(m, PartsRead(n))

\* The first n of a section and one more.
LEMMA OneMoreOf ==
  ASSUME NEW k, NEW s, NEW n \in Nat
  PROVE  Append([i \in 1 .. n |-> RootAsDot(k, s[i])], RootAsDot(k, s[n + 1])) =
           [i \in 1 .. n + 1 |-> RootAsDot(k, s[i])]
<1> DEFINE e(i) == RootAsDot(k, s[i])
           T == {e(i) : i \in 1 .. n + 1}
           a == [i \in 1 .. n |-> e(i)]
           b == [i \in 1 .. n + 1 |-> e(i)]
           x == e(n + 1)
<1>1. x \in T /\ \A i \in 1 .. n : e(i) \in T
  <2>1. \A i \in 1 .. n + 1 : e(i) \in T
    OBVIOUS
  <2>2. n + 1 \in 1 .. n + 1 /\ \A i \in 1 .. n : i \in 1 .. n + 1
    OBVIOUS
  <2> HIDE DEF e, T
  <2> QED
    BY <2>1, <2>2 DEF x
<1> HIDE DEF e, T, x
<1>2. a \in Seq(T) /\ Len(a) = n
  BY <1>1
<1>3. \A i \in 1 .. n : a[i] = e(i)
  OBVIOUS
<1> HIDE DEF a
<1>4. /\ Append(a, x) \in Seq(T) /\ Len(Append(a, x)) = n + 1
      /\ \A i \in 1 .. n : Append(a, x)[i] = a[i]
      /\ Append(a, x)[n + 1] = x
  BY <1>1, <1>2, AppendProperties
<1> DEFINE u == Append(a, x)
<1> HIDE DEF u
<1>5. u \in Seq(T) /\ Len(u) = n + 1
  BY <1>4 DEF u
<1>6. \A i \in 1 .. n + 1 : u[i] = e(i)
  <2> SUFFICES ASSUME NEW i \in 1 .. n + 1 PROVE u[i] = e(i)
    OBVIOUS
  <2>1. CASE i = n + 1
    BY <1>4, <2>1 DEF u, x
  <2>2. CASE i # n + 1
    <3>1. i \in 1 .. n
      BY <2>2
    <3> QED
      BY <1>3, <1>4, <3>1 DEF u
  <2> QED
    BY <2>1, <2>2
<1>7. u = [i \in 1 .. n + 1 |-> u[i]]
  BY <1>5
<1>8. u = b
  BY <1>6, <1>7
<1> QED
  BY <1>8 DEF u, a, x, e

\* Section k is the one to read from.
Due(m, n, k) ==
  /\ n[k] < Len(m.sections[k])
  /\ \A j \in Sections : j < k => n[j] = Len(m.sections[j])
  /\ \A j \in Sections : j > k => n[j] = 0

After(n, k) == [n EXCEPT ![k] = @ + 1]

\* Where the next part of section k is, and the one after it.
LEMMA NextPart ==
  ASSUME NEW m, IsMessage(m), NEW n \in [Sections -> Nat],
         NEW left, NEW got, NEW pos, ReadSoFar(m, n, left, got, pos),
         NEW k \in Sections, Due(m, n, k)
  PROVE  /\ n[k] + 1 \in 1 .. Len(m.sections[k])
         /\ pos = Begin(m, (Base(m, k) + (n[k] + 1)) - 1)
         /\ pos + PartSize(k, m.sections[k][n[k] + 1]) =
              Begin(m, PartsRead(After(n, k)))
<1> DEFINE len(j) == Len(m.sections[j])
           item == m.sections[k][n[k] + 1]
           n1 == After(n, k)
           base == Base(m, k)
<1>0. /\ n[k] < Len(m.sections[k])
      /\ \A j \in Sections : j < k => n[j] = Len(m.sections[j])
      /\ \A j \in Sections : j > k => n[j] = 0
  BY DEF Due
<1>1. /\ \A j \in Sections : len(j) \in Nat /\ n[j] \in Nat
      /\ n1 \in [Sections -> Nat] /\ n1[k] = n[k] + 1
      /\ \A j \in Sections \ {k} : n1[j] = n[j]
  <2>1. \A j \in Sections : len(j) \in Nat
    BY SectionsOf
  <2>2. n1 \in [Sections -> Nat] /\ n1[k] = n[k] + 1 /\ \A j \in Sections \ {k} : n1[j] = n[j]
    BY DEF After
  <2> QED
    BY <2>1, <2>2
<1>2. n[k] + 1 \in 1 .. len(k)
  BY <1>0, <1>1
<1>3. /\ \A j \in Sections : n[j] <= len(j)
      /\ left = [j \in Sections |-> len(j) - n[j]]
      /\ got = [m EXCEPT !.sections = Expected(m, n)]
      /\ pos = Begin(m, PartsRead(n))
  BY DEF ReadSoFar
<1>4. PartsRead(n) = base + n[k] /\ PartsRead(n1) = base + (n[k] + 1) /\ base \in Nat
  <2> HIDE DEF n1, len, base
  <2>1. /\ n[1] \in Nat /\ n[2] \in Nat /\ n[3] \in Nat /\ n[4] \in Nat
        /\ len(1) \in Nat /\ len(2) \in Nat /\ len(3) \in Nat /\ len(4) \in Nat
    BY <1>1 DEF Sections
  <2>2. CASE k = 1
    <3>1. n[2] = 0 /\ n[3] = 0 /\ n[4] = 0 /\ base = 0
      BY <1>0, <2>2 DEF Sections, Base, base
    <3>2. n1[1] = n[1] + 1 /\ n1[2] = n[2] /\ n1[3] = n[3] /\ n1[4] = n[4]
      BY <1>1, <2>2 DEF Sections
    <3> QED
      BY <2>1, <2>2, <3>1, <3>2 DEF PartsRead
  <2>3. CASE k = 2
    <3>1. n[1] = len(1) /\ n[3] = 0 /\ n[4] = 0 /\ base = len(1)
      BY <1>0, <2>3 DEF Sections, Base, base, len
    <3>2. n1[1] = n[1] /\ n1[2] = n[2] + 1 /\ n1[3] = n[3] /\ n1[4] = n[4]
      BY <1>1, <2>3 DEF Sections
    <3> QED
      BY <2>1, <2>3, <3>1, <3>2 DEF PartsRead
  <2>4. CASE k = 3
    <3>1. n[1] = len(1) /\ n[2] = len(2) /\ n[4] = 0 /\ base = len(1) + len(2)
      BY <1>0, <2>4 DEF Sections, Base, base, len
    <3>2. n1[1] = n[1] /\ n1[2] = n[2] /\ n1[3] = n[3] + 1 /\ n1[4] = n[4]
      BY <1>1, <2>4 DEF Sections
    <3> QED
      BY <2>1, <2>4, <3>1, <3>2 DEF PartsRead
  <2>5. CASE k = 4
    <3>1. n[1] = len(1) /\ n[2] = len(2) /\ n[3] = len(3) /\ base = len(1) + len(2) + len(3)
      BY <1>0, <2>5 DEF Sections, Base, base, len
    <3>2. n1[1] = n[1] /\ n1[2] = n[2] /\ n1[3] = n[3] /\ n1[4] = n[4] + 1
      BY <1>1, <2>5 DEF Sections
    <3> QED
      BY <2>1, <2>5, <3>1, <3>2 DEF PartsRead
  <2> QED
    BY <2>2, <2>3, <2>4, <2>5 DEF Sections
<1>5. /\ pos = Begin(m, (base + (n[k] + 1)) - 1)
      /\ pos + PartSize(k, item) = Begin(m, PartsRead(n1))
  <2>1. Begin(m, base + (n[k] + 1)) =
          Begin(m, (base + (n[k] + 1)) - 1) + PartSize(k, item)
    BY <1>2, BeginsAre
  <2>2. base + n[k] = (base + (n[k] + 1)) - 1
    BY <1>1, <1>4
  <2> QED
    BY <1>3, <1>4, <2>1, <2>2
<1> QED
  BY <1>2, <1>5

LEMMA OneMore ==
  ASSUME NEW m, IsMessage(m), NEW n \in [Sections -> Nat],
         NEW left, NEW got, NEW pos, ReadSoFar(m, n, left, got, pos),
         NEW k \in Sections, Due(m, n, k)
  PROVE  ReadSoFar(m, After(n, k), [left EXCEPT ![k] = @ - 1],
                   [got EXCEPT !.sections[k] =
                      Append(@, RootAsDot(k, m.sections[k][n[k] + 1]))],
                   pos + PartSize(k, m.sections[k][n[k] + 1]))
<1> DEFINE len(j) == Len(m.sections[j])
           item == m.sections[k][n[k] + 1]
           n1 == After(n, k)
<1>0. /\ n[k] < Len(m.sections[k])
      /\ \A j \in Sections : j < k => n[j] = Len(m.sections[j])
      /\ \A j \in Sections : j > k => n[j] = 0
  BY DEF Due
<1>1. /\ \A j \in Sections : len(j) \in Nat /\ n[j] \in Nat
      /\ n1 \in [Sections -> Nat] /\ n1[k] = n[k] + 1
      /\ \A j \in Sections \ {k} : n1[j] = n[j]
  <2>1. \A j \in Sections : len(j) \in Nat
    BY SectionsOf
  <2>2. n1 \in [Sections -> Nat] /\ n1[k] = n[k] + 1 /\ \A j \in Sections \ {k} : n1[j] = n[j]
    BY DEF After
  <2> QED
    BY <2>1, <2>2
<1>2. n[k] + 1 \in 1 .. len(k)
  BY <1>0, <1>1
<1>3. /\ \A j \in Sections : n[j] <= len(j)
      /\ left = [j \in Sections |-> len(j) - n[j]]
      /\ got = [m EXCEPT !.sections = Expected(m, n)]
      /\ pos = Begin(m, PartsRead(n))
  BY DEF ReadSoFar
<1>5. pos + PartSize(k, item) = Begin(m, PartsRead(n1))
  BY NextPart
<1>6. \A j \in Sections : n1[j] <= len(j)
  <2> HIDE DEF n1, len
  <2> SUFFICES ASSUME NEW j \in Sections PROVE n1[j] <= len(j)
    OBVIOUS
  <2>1. CASE j = k
    BY <1>1, <1>2, <2>1
  <2>2. CASE j # k
    BY <1>1, <1>3, <2>2
  <2> QED
    BY <2>1, <2>2
<1>7. \A i, j \in Sections : i < j /\ n1[j] > 0 => n1[i] = len(i)
  <2> HIDE DEF n1
  <2> SUFFICES ASSUME NEW i \in Sections, NEW j \in Sections, i < j, n1[j] > 0
               PROVE  n1[i] = len(i)
    OBVIOUS
  <2>1. j <= k
    <3> SUFFICES ASSUME j > k PROVE FALSE
      BY DEF Sections
    <3>1. n[j] = 0 /\ j # k
      BY <1>0 DEF Sections
    <3> QED
      BY <1>1, <3>1
  <2>2. i < k /\ i # k
    BY <2>1 DEF Sections
  <2> QED
    BY <1>0, <1>1, <2>2
<1>8. [left EXCEPT ![k] = @ - 1] = [j \in Sections |-> len(j) - n1[j]]
  <2> HIDE DEF n1, len
  <2>1. \A j \in Sections : [left EXCEPT ![k] = @ - 1][j] = len(j) - n1[j]
    BY <1>1, <1>3
  <2> QED
    BY <1>3, <2>1
<1>9. [got EXCEPT !.sections[k] = Append(@, RootAsDot(k, item))] =
        [m EXCEPT !.sections = Expected(m, n1)]
  <2> DEFINE E == Expected(m, n)
             G == Expected(m, n1)
             X == Append(E[k], RootAsDot(k, item))
  <2>1. E[k] = [i \in 1 .. n[k] |-> RootAsDot(k, m.sections[k][i])]
    BY DEF Expected
  <2>2. X = [i \in 1 .. n[k] + 1 |-> RootAsDot(k, m.sections[k][i])]
    <3> HIDE DEF E
    <3> DEFINE s == m.sections[k]
    <3>1. Append([i \in 1 .. n[k] |-> RootAsDot(k, s[i])], RootAsDot(k, s[n[k] + 1])) =
            [i \in 1 .. n[k] + 1 |-> RootAsDot(k, s[i])]
      <4> HIDE DEF s
      <4>1. n[k] \in Nat
        BY <1>1
      <4> QED
        BY ONLY <4>1, OneMoreOf
    <3> QED
      BY <2>1, <3>1
  <2>3. G = [E EXCEPT ![k] = X]
    <3>1. \A j \in Sections :
            G[j] = [i \in 1 .. n1[j] |-> RootAsDot(j, m.sections[j][i])]
      BY DEF Expected
    <3>2. \A j \in Sections :
            E[j] = [i \in 1 .. n[j] |-> RootAsDot(j, m.sections[j][i])]
      BY DEF Expected
    <3>3. G[k] = X
      BY <1>1, <2>2, <3>1
    <3>4. ASSUME NEW j \in Sections \ {k} PROVE G[j] = E[j]
      BY <1>1, <3>1, <3>2
    <3>5. DOMAIN G = Sections /\ DOMAIN E = Sections
          /\ G = [j \in Sections |-> G[j]]
      BY DEF Expected
    <3> HIDE DEF G, E, X
    <3> QED
      BY <3>3, <3>4, <3>5
  <2>4. m = [identification |-> m.identification, flags |-> m.flags, sections |-> m.sections]
    BY DEF IsMessage
  <2> HIDE DEF E, G, X
  <2>5. /\ got = [identification |-> m.identification, flags |-> m.flags, sections |-> E]
        /\ [m EXCEPT !.sections = G] =
             [identification |-> m.identification, flags |-> m.flags, sections |-> G]
    BY <1>3, <2>4 DEF E
  <2>6. [got EXCEPT !.sections[k] = Append(@, RootAsDot(k, item))] =
          [identification |-> m.identification, flags |-> m.flags,
           sections |-> [E EXCEPT ![k] = X]]
    <3> DEFINE y == RootAsDot(k, item)
    <3> HIDE DEF item, y
    <3>1. got.sections = E
      BY <2>5
    <3>2. X = Append(got.sections[k], y)
      BY <3>1 DEF X, y
    <3>3. [got EXCEPT !.sections[k] = Append(@, y)] = [got EXCEPT !.sections[k] = X]
      BY <3>2, Zenon
    <3>4. [[identification |-> m.identification, flags |-> m.flags, sections |-> E]
             EXCEPT !.sections[k] = X] =
            [identification |-> m.identification, flags |-> m.flags,
             sections |-> [E EXCEPT ![k] = X]]
      OBVIOUS
    <3>5. got = [identification |-> m.identification, flags |-> m.flags, sections |-> E]
      BY <2>5
    <3> QED
      BY ONLY <3>2, <3>3, <3>4, <3>5 DEF y
  <2> QED
    BY <2>3, <2>5, <2>6 DEF G
<1> QED
  BY <1>5, <1>6, <1>7, <1>8, <1>9 DEF ReadSoFar

\* How far the reader has come with the sections.
Phase(n) ==
  /\ pc = "questions" => \A k \in Sections \ {QUESTIONS} : n[k] = 0
  /\ pc \in {"records", "done"} => n[QUESTIONS] = Len(message.sections[QUESTIONS])
  /\ pc = "done" => n = Lengths(message)

InStep ==
  \E n \in [Sections -> Nat] :
    ReadSoFar(message, n, counts, parsed, cur_pos) /\ Phase(n)

Inv ==
  /\ message \in Messages /\ pc \in {"write", "header", "questions", "records", "done"}
  /\ pc # "write" => bytes = dns_message_to_bytes(message)
  /\ pc \in {"write", "header"} => Running /\ parsed = Blank
  /\ Readable(message) => Running
  /\ Readable(message) /\ pc \in {"questions", "records", "done"} => InStep

\* A message whose header has been read.
None == [k \in Sections |-> 0]

LEMMA Begun ==
  ASSUME NEW m, IsMessage(m), NEW left, NEW got,
         left = [k \in Sections |-> Len(m.sections[k])],
         got = [identification |-> m.identification, flags |-> m.flags,
                sections |-> Blank.sections]
  PROVE  ReadSoFar(m, None, left, got, DNSHEADERSIZE)
<1> DEFINE n == [k \in Sections |-> 0]
<1>1. \A k \in Sections : n[k] = 0 /\ Len(m.sections[k]) \in Nat
  BY SectionsOf
<1>2. n[1] = 0 /\ n[2] = 0 /\ n[3] = 0 /\ n[4] = 0
  BY DEF Sections
<1>3. DNSHEADERSIZE = Begin(m, PartsRead(n))
  <2> HIDE DEF n
  <2>1. PartsRead(n) = 0
    BY <1>2 DEF PartsRead
  <2> QED
    BY <2>1, BeginsAre
<1>4. Expected(m, n) = [k \in Sections |-> <<>>]
  <2>1. \A k \in Sections : Expected(m, n)[k] = <<>>
    <3> SUFFICES ASSUME NEW k \in Sections PROVE Expected(m, n)[k] = <<>>
      OBVIOUS
    <3>1. Expected(m, n)[k] = [i \in 1 .. 0 |-> RootAsDot(k, m.sections[k][i])]
      BY DEF Expected
    <3> QED
      BY <3>1
  <2>2. Expected(m, n) = [k \in Sections |-> Expected(m, n)[k]]
    BY DEF Expected
  <2> HIDE DEF n
  <2> QED
    BY <2>1, <2>2
<1>5. got = [m EXCEPT !.sections = Expected(m, n)]
  <2>1. m = [identification |-> m.identification, flags |-> m.flags, sections |-> m.sections]
    BY DEF IsMessage
  <2> DEFINE E == Expected(m, n)
             Z == [k \in Sections |-> <<>>]
  <2>2. E = Z /\ Blank.sections = Z
    BY <1>4 DEF Blank
  <2> HIDE DEF E, Z
  <2>3. [m EXCEPT !.sections = E] =
          [identification |-> m.identification, flags |-> m.flags, sections |-> E]
    BY <2>1
  <2> QED
    BY <2>2, <2>3 DEF E
<1>6. left = [k \in Sections |-> Len(m.sections[k]) - n[k]]
  <2> HIDE DEF n
  <2>1. \A k \in Sections : Len(m.sections[k]) - n[k] = Len(m.sections[k])
    BY <1>1
  <2> QED
    BY <2>1
<1> HIDE DEF n
<1>7. ReadSoFar(m, n, left, got, DNSHEADERSIZE)
  BY <1>1, <1>3, <1>5, <1>6 DEF ReadSoFar
<1> QED
  BY <1>7 DEF n, None

\* A step that reads an item as it was written leaves the reader in step.
LEMMA TakeInStep ==
  ASSUME message \in Messages, NEW n \in [Sections -> Nat],
         ReadSoFar(message, n, counts, parsed, cur_pos), Phase(n),
         NEW k \in Sections, Due(message, n, k),
         pc = "questions" => k = QUESTIONS, pc # "done",
         NEW item, item = message.sections[k][n[k] + 1],
         NEW result, result = Read(PartSize(k, item), result.item),
         Take(result, k, RootAsDot(k, item))
  PROVE  status' = "running" /\ InStep'
<1>1. IsMessage(message)
  BY CodecAssumption
<1>2. result.outcome = "running" /\ result.processed = PartSize(k, item)
  <2> DEFINE x == PartSize(k, item)
             y == result.item
  <2>1. result = [outcome |-> "running", processed |-> x, item |-> y]
    BY Zenon DEF Read
  <2> HIDE DEF x, y
  <2> QED
    BY <2>1 DEF x
<1>3. /\ status' = "running" /\ cur_pos' = cur_pos + PartSize(k, item)
      /\ counts' = [counts EXCEPT ![k] = @ - 1]
      /\ parsed' = [parsed EXCEPT !.sections[k] = Append(@, RootAsDot(k, item))]
      /\ message' = message /\ pc' = pc
  BY <1>2, Zenon DEF Take
<1> DEFINE n1 == After(n, k)
<1>4. ReadSoFar(message, n1, counts', parsed', cur_pos')
  BY <1>1, <1>3, OneMore
<1>5. n1 \in [Sections -> Nat] /\ \A j \in Sections \ {k} : n1[j] = n[j]
  BY DEF After
<1>6. Phase(n1)'
  <2>1. /\ pc = "questions" => \A j \in Sections \ {QUESTIONS} : n1[j] = n[j]
        /\ pc = "records" => k # QUESTIONS
    <3>1. Len(message.sections[k]) \in Nat /\ n[k] < Len(message.sections[k])
      BY <1>1, SectionsOf DEF Due
    <3>2. k = QUESTIONS => n[QUESTIONS] # Len(message.sections[QUESTIONS])
      BY <3>1
    <3> QED
      BY <1>5, <3>2 DEF Phase
  <2>2. pc = "records" => n1[QUESTIONS] = n[QUESTIONS]
    BY <1>5, <2>1 DEF Sections, QUESTIONS
  <2> HIDE DEF n1
  <2> QED
    BY <1>3, <2>1, <2>2 DEF Phase
<1> HIDE DEF n1
<1> QED
  BY <1>3, <1>4, <1>5, <1>6 DEF InStep

LEMMA InvInit == Init => Inv
  BY DEF Init, Inv, Running

LEMMA WriteStep == ASSUME Inv, Write PROVE Inv'
  BY Zenon DEF Inv, Write, Running, Readable

LEMMA HeaderStep == ASSUME Inv, ReadHeader PROVE Inv'
<1>1. /\ message \in Messages /\ bytes = dns_message_to_bytes(message)
      /\ Running /\ parsed = Blank
  BY DEF Inv, ReadHeader
<1>2. /\ parsed' = [identification |-> Number2(0), flags |-> Number2(2),
                     sections |-> parsed.sections]
      /\ counts' = [k \in Sections |-> Number2(2 + 2 * k)]
      /\ cur_pos' = DNSHEADERSIZE /\ pc' = "questions"
      /\ message' = message /\ bytes' = bytes /\ status' = status
  BY DEF ReadHeader
<1>3. IsMessage(message)
  BY <1>1, CodecAssumption
<1>4. bytes \in Seq(Byte) /\ Holds(0, Header(message))
  BY <1>1, <1>3, WholeHeld
<1>5. /\ Number2(0) = message.identification /\ Number2(2) = message.flags
      /\ \A k \in Sections : Number2(2 + 2 * k) = Len(message.sections[k])
  BY <1>3, <1>4, HeaderRead
<1>6. ReadSoFar(message, None, counts', parsed', cur_pos')
  <2>1. counts' = [k \in Sections |-> Len(message.sections[k])]
    BY <1>2, <1>5
  <2>2. parsed' = [identification |-> message.identification, flags |-> message.flags,
                   sections |-> Blank.sections]
    BY <1>1, <1>2, <1>5
  <2> QED
    BY <1>2, <1>3, <2>1, <2>2, Begun
<1>7. None \in [Sections -> Nat] /\ \A k \in Sections : None[k] = 0
  BY DEF None
<1>8. Phase(None)'
  BY <1>2, <1>7 DEF Phase
<1>9. InStep'
  BY <1>2, <1>6, <1>7, <1>8 DEF InStep
<1> QED
  BY <1>1, <1>2, <1>9 DEF Inv, Running, Readable

\* What a step that reads leaves alone.
LEMMA TakeLeaves ==
  ASSUME Inv, NEW result, NEW k, NEW item, Take(result, k, item),
         pc \in {"questions", "records"},
         Readable(message) => status' = "running" /\ InStep'
  PROVE  Inv'
<1>1. message' = message /\ bytes' = bytes /\ pc' = pc
  BY Zenon DEF Take
<1> QED
  BY <1>1 DEF Inv, Running, Readable

LEMMA QuestionStep == ASSUME Inv, ReadQuestion PROVE Inv'
<1> DEFINE k == QUESTIONS
           result == IF OffTheEnd THEN Failed("overrun") ELSE question_from_bytes(cur_pos)
<1>1. /\ message \in Messages /\ pc = "questions" /\ counts[k] > 0
      /\ bytes = dns_message_to_bytes(message) /\ Take(result, k, result.item)
  BY DEF Inv, ReadQuestion
<1> HIDE DEF result
<1>2. ASSUME Readable(message)
      PROVE  status' = "running" /\ InStep'
  <2>1. PICK n \in [Sections -> Nat] :
          ReadSoFar(message, n, counts, parsed, cur_pos) /\ Phase(n)
    BY <1>1, <1>2 DEF Inv, InStep
  <2> DEFINE item == message.sections[k][n[k] + 1]
  <2>2. IsMessage(message)
    BY <1>1, CodecAssumption
  <2>3. k \in Sections
    BY DEF Sections, QUESTIONS
  <2>4. n[k] < Len(message.sections[k])
    <3>1. counts[k] = Len(message.sections[k]) - n[k]
      BY <2>1, <2>3 DEF ReadSoFar
    <3>2. Len(message.sections[k]) \in Nat /\ n[k] \in Nat
      BY <2>1, <2>2, <2>3, SectionsOf
    <3> QED
      BY <1>1, <3>1, <3>2
  <2>5. /\ \A j \in Sections : j < k => n[j] = Len(message.sections[j])
        /\ \A j \in Sections : j > k => n[j] = 0
    BY <1>1, <2>1 DEF Phase, Sections, QUESTIONS
  <2> HIDE DEF k
  <2>a. Due(message, n, k)
    BY <2>4, <2>5 DEF Due
  <2>6. /\ n[k] + 1 \in 1 .. Len(message.sections[k])
        /\ cur_pos = Begin(message, (Base(message, k) + (n[k] + 1)) - 1)
    <3>1. ReadSoFar(message, n, counts, parsed, cur_pos)
      BY <2>1
    <3> HIDE DEF item
    <3> QED
      BY <2>2, <2>3, <2>a, <3>1, NextPart
  <2>7. bytes \in Seq(Byte) /\ Holds(cur_pos, Part(k, item)) /\ cur_pos \in Nat
    BY <1>1, <2>2, <2>3, <2>6, WholeHeld, BeginsAre
  <2>8. IsItem(k, item)
    BY <2>2, <2>3, <2>6, SectionsOf
  <2> HIDE DEF item
  <2>9. IsQuestion(item) /\ Part(k, item) = question_to_bytes(item)
    BY <2>8 DEF IsItem, Part, k
  <2>10. /\ InReach(cur_pos)
         /\ question_from_bytes(cur_pos) = Read(PartSize(k, item), RootAsDot(k, item))
    BY <2>7, <2>9, QuestionRead DEF k
  <2>11. result = Read(PartSize(k, item), RootAsDot(k, item))
    BY <2>10, Zenon DEF result, OffTheEnd, InReach
  <2>12. result.item = RootAsDot(k, item)
    BY <2>11 DEF Read
  <2> QED
    BY <1>1, <2>1, <2>3, <2>a, <2>11, <2>12, TakeInStep DEF k, item
<1> QED
  BY <1>1, <1>2, TakeLeaves

LEMMA RecordStep == ASSUME Inv, ReadRecord PROVE Inv'
<1> DEFINE k == Min(Left)
           result == IF OffTheEnd THEN Failed("overrun")
                     ELSE packedrr_from_bytes(cur_pos, IsQuery(parsed.flags))
<1>1. /\ message \in Messages /\ pc = "records" /\ Left # {}
      /\ bytes = dns_message_to_bytes(message)
      /\ Take(result, k, packedrr_create(result.item))
  BY DEF Inv, ReadRecord
<1>2. k \in Left /\ \A j \in Left : k <= j
  <2>1. Left \in SUBSET Nat
    BY DEF Left, Sections
  <2>2. PICK l \in Left : \A j \in Left : l <= j
    BY <1>1, <2>1, LeastElement
  <2> QED
    BY <2>2 DEF Min
<1>3. k \in Sections \ {QUESTIONS} /\ counts[k] > 0
  BY <1>2 DEF Left
<1> HIDE DEF result, k
<1>4. ASSUME Readable(message)
      PROVE  status' = "running" /\ InStep'
  <2>1. PICK n \in [Sections -> Nat] :
          ReadSoFar(message, n, counts, parsed, cur_pos) /\ Phase(n)
    BY <1>1, <1>4 DEF Inv, InStep
  <2> DEFINE item == message.sections[k][n[k] + 1]
             len(j) == Len(message.sections[j])
  <2>2. IsMessage(message)
    BY <1>1, CodecAssumption
  <2>3. /\ \A j \in Sections : counts[j] = len(j) - n[j] /\ len(j) \in Nat /\ n[j] \in Nat
        /\ \A j \in Sections : n[j] <= len(j)
        /\ \A i, j \in Sections : i < j /\ n[j] > 0 => n[i] = len(i)
        /\ n[QUESTIONS] = len(QUESTIONS)
    <3>1. \A j \in Sections : len(j) \in Nat
      BY <2>2, SectionsOf
    <3> QED
      BY <1>1, <2>1, <3>1 DEF ReadSoFar, Phase
  <2>4. Due(message, n, k)
    <3> HIDE DEF len
    <3>1. n[k] < len(k)
      BY <1>3, <2>3
    <3>2. ASSUME NEW j \in Sections, j < k
          PROVE  n[j] = len(j)
      <4>1. CASE j = QUESTIONS
        BY <2>3, <4>1
      <4>2. CASE j # QUESTIONS
        <5>1. j \notin Left
          BY <1>2, <1>3, <3>2 DEF Sections
        <5>2. ~ (counts[j] > 0)
          BY <4>2, <5>1 DEF Left
        <5> QED
          BY <2>3, <5>2
      <4> QED
        BY <4>1, <4>2
    <3>3. ASSUME NEW j \in Sections, j > k
          PROVE  n[j] = 0
      <4>1. k < j
        BY <1>3, <3>3 DEF Sections
      <4>2. n[j] > 0 => n[k] = len(k)
        BY <1>3, <2>3, <4>1
      <4>3. n[k] # len(k)
        BY <1>3, <2>3, <3>1
      <4> QED
        BY <2>3, <4>2, <4>3
    <3> QED
      BY <3>1, <3>2, <3>3 DEF Due, len
  <2>5. /\ n[k] + 1 \in 1 .. Len(message.sections[k])
        /\ cur_pos = Begin(message, (Base(message, k) + (n[k] + 1)) - 1)
    <3>1. ReadSoFar(message, n, counts, parsed, cur_pos) /\ k \in Sections
      BY <1>3, <2>1
    <3> HIDE DEF item
    <3> QED
      BY <2>2, <2>4, <3>1, NextPart
  <2>6. bytes \in Seq(Byte) /\ Holds(cur_pos, Part(k, item)) /\ cur_pos \in Nat
    BY <1>1, <1>3, <2>2, <2>5, WholeHeld, BeginsAre
  <2>7. IsItem(k, item)
    BY <1>3, <2>2, <2>5, SectionsOf
  <2>8. ReadableItem(message, item)
    <3>1. n[k] + 1 \in DOMAIN message.sections[k]
      BY <1>3, <2>2, <2>5, SectionsOf
    <3> QED
      BY <1>3, <1>4, <3>1 DEF Readable
  <2>9. parsed.flags = message.flags
    <3>1. message = [identification |-> message.identification, flags |-> message.flags,
                     sections |-> message.sections]
      BY <2>2 DEF IsMessage
    <3>2. parsed = [message EXCEPT !.sections = Expected(message, n)]
      BY <2>1 DEF ReadSoFar
    <3> QED
      BY <3>1, <3>2
  <2> HIDE DEF item
  <2>10. /\ InReach(cur_pos)
         /\ packedrr_from_bytes(cur_pos, IsQuery(message.flags)) =
              Read(PartSize(k, item), item.data)
         /\ packedrr_create(item.data) = RootAsDot(k, item)
    BY <1>3, <2>6, <2>7, <2>8, ItemRead
  <2>11. result = Read(PartSize(k, item), item.data)
    <3>1. ~ OffTheEnd
      BY <2>10 DEF OffTheEnd, InReach
    <3> QED
      BY <2>9, <2>10, <3>1 DEF result
  <2>12. result.item = item.data
    BY <2>11 DEF Read
  <2>13. Take(result, k, RootAsDot(k, item))
    BY <1>1, <2>10, <2>12
  <2>14. k \in Sections /\ item = message.sections[k][n[k] + 1]
         /\ result = Read(PartSize(k, item), result.item)
    BY <1>3, <2>11, <2>12 DEF item
  <2> QED
    BY <1>1, <2>1, <2>4, <2>13, <2>14, TakeInStep
<1> QED
  BY <1>1, <1>4, TakeLeaves

LEMMA EndQuestionsStep == ASSUME Inv, EndQuestions PROVE Inv'
<1>1. /\ message \in Messages /\ pc = "questions" /\ counts[QUESTIONS] = 0 /\ pc' = "records"
      /\ message' = message /\ bytes' = bytes /\ cur_pos' = cur_pos /\ counts' = counts
      /\ parsed' = parsed /\ status' = status
  BY DEF Inv, EndQuestions
<1>2. ASSUME Readable(message) PROVE InStep'
  <2>1. PICK n \in [Sections -> Nat] :
          ReadSoFar(message, n, counts, parsed, cur_pos) /\ Phase(n)
    BY <1>1, <1>2 DEF Inv, InStep
  <2>2. n[QUESTIONS] = Len(message.sections[QUESTIONS])
    <3>1. QUESTIONS \in Sections
      BY DEF QUESTIONS, Sections
    <3>2. counts[QUESTIONS] = Len(message.sections[QUESTIONS]) - n[QUESTIONS]
      BY <2>1, <3>1 DEF ReadSoFar
    <3>3. Len(message.sections[QUESTIONS]) \in Nat /\ n[QUESTIONS] \in Nat
      BY <1>1, <3>1, SectionsOf, CodecAssumption
    <3> QED
      BY <1>1, <3>2, <3>3
  <2>3. Phase(n)'
    BY <1>1, <2>2 DEF Phase
  <2>4. ReadSoFar(message', n, counts', parsed', cur_pos')
    BY <1>1, <2>1
  <2> QED
    BY <2>3, <2>4 DEF InStep
<1> QED
  BY <1>1, <1>2 DEF Inv, Running, Readable

LEMMA CreateStep == ASSUME Inv, Create PROVE Inv'
<1>1. /\ message \in Messages /\ pc = "records" /\ Left = {} /\ pc' = "done"
      /\ message' = message /\ bytes' = bytes /\ cur_pos' = cur_pos /\ counts' = counts
      /\ parsed' = parsed /\ status' = status
  BY DEF Inv, Create
<1>2. ASSUME Readable(message) PROVE InStep'
  <2>1. PICK n \in [Sections -> Nat] :
          ReadSoFar(message, n, counts, parsed, cur_pos) /\ Phase(n)
    BY <1>1, <1>2 DEF Inv, InStep
  <2>2. ASSUME NEW k \in Sections PROVE n[k] = Len(message.sections[k])
    <3>1. CASE k = QUESTIONS
      BY <1>1, <2>1, <3>1 DEF Phase
    <3>2. CASE k # QUESTIONS
      <4>1. ~ (counts[k] > 0)
        BY <1>1, <3>2 DEF Left
      <4>2. counts[k] = Len(message.sections[k]) - n[k] /\ n[k] <= Len(message.sections[k])
        BY <2>1 DEF ReadSoFar
      <4>3. Len(message.sections[k]) \in Nat /\ n[k] \in Nat
        BY <1>1, SectionsOf, CodecAssumption
      <4> QED
        BY <4>1, <4>2, <4>3
    <3> QED
      BY <3>1, <3>2
  <2>3. n = Lengths(message)
    <3>1. n = [k \in Sections |-> n[k]]
      OBVIOUS
    <3> QED
      BY <2>2, <3>1 DEF Lengths
  <2>4. Phase(n)'
    BY <1>1, <2>1, <2>3 DEF Phase
  <2>5. ReadSoFar(message', n, counts', parsed', cur_pos')
    BY <1>1, <2>1
  <2> QED
    BY <2>4, <2>5 DEF InStep
<1> QED
  BY <1>1, <1>2 DEF Inv, Running, Readable

\* What every reader's position and reading are, for every message.
THEOREM Invariance == Spec => []Inv
<1>1. Init => Inv
  BY InvInit
<1>2. Inv /\ [Next]_vars => Inv'
  <2> SUFFICES ASSUME Inv, [Next]_vars PROVE Inv'
    OBVIOUS
  <2>1. CASE UNCHANGED vars
    BY <2>1 DEF vars, Inv, Running, Readable, InStep, Phase
  <2> QED
    BY <2>1, WriteStep, HeaderStep, QuestionStep, EndQuestionsStep, RecordStep, CreateStep
       DEF Next
<1> QED
  BY <1>1, <1>2, PTL DEF Spec

\* Reading a message in which every name can be scanned never fails: neither an
\* assertion of question_from_bytes, packedrr_from_bytes or is_rrfrag trips nor
\* does one of them read beyond the message.
THEOREM NeverFailsHolds == Spec => []NeverFails
<1>1. Inv => NeverFails
  BY DEF Inv, NeverFails
<1> QED
  BY <1>1, Invariance, PTL

\* Such a message is read back by dns_message_from_bytes as
\* dns_message_to_bytes has written it, to its last byte.
THEOREM RoundTripsHolds == Spec => []RoundTrips
<1>1. Inv => RoundTrips
  <2> SUFFICES ASSUME Inv, pc = "done", Readable(message)
               PROVE  /\ parsed = [message EXCEPT
                                     !.sections = Expected(message, Lengths(message))]
                      /\ cur_pos = Len(bytes)
    BY DEF RoundTrips
  <2>1. IsMessage(message) /\ bytes = dns_message_to_bytes(message)
    BY CodecAssumption DEF Inv
  <2>2. PICK n \in [Sections -> Nat] :
          ReadSoFar(message, n, counts, parsed, cur_pos) /\ Phase(n)
    BY DEF Inv, InStep
  <2>3. n = Lengths(message)
    BY <2>2 DEF Phase
  <2>4. parsed = [message EXCEPT !.sections = Expected(message, Lengths(message))]
    BY <2>2, <2>3 DEF ReadSoFar
  <2>5. cur_pos = Begin(message, Base(message, 4) + Len(message.sections[4]))
    <3>1. PartsRead(n) = Base(message, 4) + Len(message.sections[4])
      BY <2>3 DEF PartsRead, Lengths, Base, Sections
    <3> QED
      BY <2>2, <3>1 DEF ReadSoFar
  <2>6. Len(bytes) = DNSHEADERSIZE + Total(PartSizes(message))
    BY <2>1, WholeHeld
  <2>7. Begin(message, Base(message, 4) + Len(message.sections[4])) =
          DNSHEADERSIZE + Total(PartSizes(message))
    BY <2>1, BeginsAre
  <2> QED
    BY <2>4, <2>5, <2>6, <2>7
<1> QED
  BY <1>1, Invariance, PTL

\* What dns_message_to_bytes writes is as long as the sizes that pack_section
\* and the responder add up, for every message.
THEOREM LengthAccountedHolds == Spec => []LengthAccounted
<1>1. Inv => LengthAccounted
  <2> SUFFICES ASSUME Inv, pc # "write"
               PROVE  Len(bytes) = DNSHEADERSIZE + Total(PartSizes(message))
    BY DEF LengthAccounted
  <2>1. IsMessage(message) /\ bytes = dns_message_to_bytes(message)
    BY CodecAssumption DEF Inv
  <2> QED
    BY <2>1, WholeHeld
<1> QED
  BY <1>1, Invariance, PTL
=============================================================================
