--------------------------- MODULE PacketRx_proof ---------------------------
(***************************************************************************)
(* Proofs about PacketRx: that a frame comes out of any bits and levels it *)
(* lies in, that copies of a frame are merged, and, on a channel without   *)
(* noise, that a lane that hears every burst right is enough for every     *)
(* frame that was sent to be delivered, and that no other frame is.        *)
(***************************************************************************)
EXTENDS PacketRx, SequenceTheorems, FiniteSetTheorems, WellFoundedInduction, TLAPS
-----------------------------------------------------------------------------
(* Sequences of whatever. *)

IsSeq(s) == Len(s) \in Nat /\ s = [i \in 1..Len(s) |-> s[i]]

\* A sequence is one over its own elements.
LEMMA SeqOfItems ==
  ASSUME NEW s, IsSeq(s)
  PROVE  s \in Seq({s[i] : i \in 1..Len(s)})
<1> DEFINE S == {s[i] : i \in 1..Len(s)}
           n == Len(s)
<1>1. s = [i \in 1..n |-> s[i]] /\ n \in Nat
  BY DEF IsSeq
<1> HIDE DEF n
<1>2. \A i \in 1..n : s[i] \in S
  BY DEF n
<1> HIDE DEF S
<1>3. s \in [1..n -> S]
  BY ONLY <1>1, <1>2
<1> QED BY <1>1, <1>3, SeqDef DEF S

\* What is in Seq is a sequence of whatever.
LEMMA SeqItems ==
  ASSUME NEW S, NEW s \in Seq(S)
  PROVE  IsSeq(s)
BY LenProperties DEF IsSeq

LEMMA Appended ==
  ASSUME NEW s, IsSeq(s), NEW e
  PROVE  /\ IsSeq(Append(s, e)) /\ Len(Append(s, e)) = Len(s) + 1
         /\ \A i \in 1..Len(s) : Append(s, e)[i] = s[i]
         /\ Append(s, e)[Len(s) + 1] = e
<1> DEFINE S == {s[i] : i \in 1..Len(s)} \cup {e}
<1>1. s \in Seq({s[i] : i \in 1..Len(s)})
  BY SeqOfItems
<1>2. s \in Seq(S) /\ e \in S
  BY <1>1, SeqDef
<1> HIDE DEF S
<1>3. Append(s, e) \in Seq(S)
  BY <1>2, AppendProperties
<1>4. IsSeq(Append(s, e))
  BY <1>3, SeqItems
<1> QED BY <1>2, <1>4, AppendProperties

LEMMA SubSeqed ==
  ASSUME NEW s, IsSeq(s), NEW m \in 1..Len(s) + 1
  PROVE  LET t == SubSeq(s, m, Len(s))
         IN  /\ IsSeq(t) /\ Len(t) = Len(s) - m + 1
             /\ \A i \in 1..Len(s) - m + 1 : t[i] = s[m + i - 1]
<1> DEFINE S == {s[i] : i \in 1..Len(s)}
           t == SubSeq(s, m, Len(s))
<1>1. s \in Seq(S) /\ Len(s) \in Nat
  BY SeqOfItems DEF IsSeq
<1> HIDE DEF S
<1>2. t \in Seq(S) /\ Len(t) = Len(s) - m + 1
      /\ \A i \in 1..Len(s) - m + 1 : t[i] = s[m + i - 1]
  BY <1>1, SubSeqProperties
<1> QED BY <1>2, SeqItems

\* What is a function of 1..n is a sequence.
LEMMA Listed ==
  ASSUME NEW n \in Nat, NEW s, s = [i \in 1..n |-> s[i]]
  PROVE  IsSeq(s) /\ Len(s) = n
<1> DEFINE S == {s[i] : i \in 1..n}
<1>1. \A i \in 1..n : s[i] \in S
  OBVIOUS
<1> HIDE DEF S
<1>2. s \in [1..n -> S]
  BY ONLY <1>1, s = [i \in 1..n |-> s[i]]
<1>3. s \in Seq(S)
  BY <1>2, SeqDef
<1>4. Len(s) \in Nat /\ 1..Len(s) = 1..n
  BY <1>2, <1>3, LenProperties
<1>5. Len(s) = n
  <2>1. \A i \in Nat : i \in 1..Len(s) <=> i \in 1..n
    BY <1>4
  <2> QED BY <1>4, <2>1
<1> QED BY <1>3, <1>5, SeqItems

-----------------------------------------------------------------------------
(* Induction over numbers. *)

\* A set of numbers that is not empty has a least one.
LEMMA Least ==
  ASSUME NEW T \in SUBSET Nat, T # {}
  PROVE  \E n \in T : \A m \in T : n <= m
<1>1. PICK top \in T : TRUE
  OBVIOUS
<1> DEFINE S == 0..top
           C == {D \in SUBSET S : \E m \in T : m <= top /\ D = 0..m}
<1>2. IsWellFoundedOn(StrictSubsetOrdering(S), FiniteSubsetsOf(S))
  BY FS_StrictSubsetOrderingWellFounded
<1>3. IsFiniteSet(S)
  BY FS_Interval
<1>4. FiniteSubsetsOf(S) = SUBSET S
  <2> HIDE DEF S
  <2> QED BY <1>3, FS_FiniteSubsetsOfFinite
<1>5. S \in C
  BY <1>1
<1>6. PICK D \in C : \A E \in C : ~(<<E, D>> \in StrictSubsetOrdering(S))
  <2> HIDE DEF C, S
  <2>1. C \subseteq FiniteSubsetsOf(S) /\ C # {}
    BY <1>4, <1>5 DEF C
  <2> QED BY <1>2, <2>1, WFMin
<1>7. PICK n \in T : n <= top /\ D = 0..n
  BY <1>6
<1>8. \A m \in T : n <= m
  <2> SUFFICES ASSUME NEW m \in T, m < n PROVE FALSE
    BY <1>7
  <2>1. 0..m \in C
    BY <1>7
  <2>2. 0..m \subseteq 0..n /\ 0..m # 0..n
    BY <1>7
  <2>3. <<0..m, D>> \in StrictSubsetOrdering(S)
    BY <1>6, <1>7, <2>1, <2>2 DEF StrictSubsetOrdering
  <2> QED BY <1>6, <2>1, <2>3
<1> QED BY <1>8

\* Induction, of sets of numbers instead of predicates.
LEMMA Induct ==
  ASSUME NEW T \in SUBSET Nat, 0 \in T, \A n \in T : n + 1 \in T
  PROVE  T = Nat
<1> SUFFICES ASSUME Nat \ T # {} PROVE FALSE
  OBVIOUS
<1>1. PICK n \in Nat \ T : \A m \in Nat \ T : n <= m
  BY Least
<1>2. n # 0 /\ n - 1 \in Nat /\ n - 1 \in T
  BY <1>1
<1>3. n - 1 + 1 \in T
  BY <1>2
<1> QED BY <1>1, <1>3

\* What holds of the first and is handed on holds up to the last.
LEMMA HandedOn ==
  ASSUME NEW n \in Nat, NEW G, G \subseteq 0..n, 0 \in G, \A i \in 0..n - 1 : i \in G => i + 1 \in G
  PROVE  G = 0..n
<1> DEFINE T == {i \in Nat : i <= n => i \in G}
<1>1. 0 \in T
  OBVIOUS
<1>2. ASSUME NEW i \in T PROVE i + 1 \in T
  <2> SUFFICES ASSUME i + 1 <= n PROVE i + 1 \in G
    OBVIOUS
  <2> QED OBVIOUS
<1> HIDE DEF T
<1>3. T = Nat
  <2>1. T \subseteq Nat
    BY DEF T
  <2> QED BY <1>1, <1>2, <2>1, Induct
<1>4. \A i \in 0..n : i \in G
  BY <1>3 DEF T
<1> QED BY <1>4

\* A recursion over 0..n that stays in a set has a solution.
Unrolls(f, n, S, first, step) ==
    /\ f \in [0..n -> S] /\ f[0] = first
    /\ \A i \in 1..n : f[i] = step[i][f[i - 1]]

LEMMA Recursion ==
  ASSUME NEW n \in Nat, NEW S, NEW first \in S, NEW step \in [1..n -> [S -> S]]
  PROVE  \E f : Unrolls(f, n, S, first, step)
<1> DEFINE Solves(f, m) == /\ f \in [0..n -> S] /\ f[0] = first
                           /\ \A i \in 1..m : f[i] = step[i][f[i - 1]]
           G == {m \in 0..n : \E f : Solves(f, m)}
<1>1. 0 \in G
  <2> DEFINE g == [i \in 0..n |-> first]
  <2>1. Solves(g, 0)
    OBVIOUS
  <2>2. \E f : Solves(f, 0)
    <3> HIDE DEF Solves, g
    <3> QED BY <2>1
  <2> QED BY <2>2
<1>2. ASSUME NEW m \in 0..n - 1, m \in G PROVE m + 1 \in G
  <2>1. PICK f : Solves(f, m)
    BY <1>2
  <2> DEFINE e == step[m + 1][f[m]]
             g == [f EXCEPT ![m + 1] = e]
  <2>2. m + 1 \in 1..n /\ m \in 0..n /\ e \in S
    BY <2>1
  <2> HIDE DEF e
  <2>3. g \in [0..n -> S] /\ g[m + 1] = e /\ \A i \in 0..m : g[i] = f[i]
    BY <2>1, <2>2
  <2> HIDE DEF g
  <2>4. ASSUME NEW i \in 1..m + 1 PROVE g[i] = step[i][g[i - 1]]
    <3>1. CASE i \in 1..m
      <4>1. i \in 0..m /\ i - 1 \in 0..m
        BY <3>1, <2>2
      <4> QED BY <2>1, <2>3, <3>1, <4>1
    <3>2. CASE i = m + 1
      <4>1. i - 1 = m /\ m \in 0..m
        BY <3>2, <2>2
      <4> QED BY <2>3, <3>2, <4>1 DEF e
    <3> QED BY <2>2, <3>1, <3>2
  <2>5. g[0] = first
    BY <2>1, <2>2, <2>3
  <2>6. Solves(g, m + 1)
    BY <2>3, <2>4, <2>5
  <2> HIDE DEF Solves
  <2> QED BY <2>2, <2>6
<1>3. G = 0..n
  <2>1. G \subseteq 0..n
    OBVIOUS
  <2> HIDE DEF G
  <2> QED BY <1>1, <1>2, <2>1, HandedOn
<1>4. n \in G
  <2> HIDE DEF G
  <2> QED BY <1>3
<1>5. PICK f : Solves(f, n)
  <2> HIDE DEF Solves
  <2> QED BY <1>4
<1>6. Unrolls(f, n, S, first, step)
  BY <1>5 DEF Unrolls
<1> QED BY <1>6

-----------------------------------------------------------------------------
(* The scan of a buffer. *)

Scan == [collecting : BOOLEAN, ones : Nat, payload : Seq(Bit), frames : Seq(Seq(Bit))]

\* One payload at most.
LEMMA Finished ==
  ASSUME NEW c \in Seq(Bit)
  PROVE  FinishFrame(c) = <<>> \/ \E p \in Seq(Bit) : FinishFrame(c) = <<p>>
<1> DEFINE n == (Len(c) \div 8) * 8
           payload == SubSeq(c, 1, n - 16)
<1>1. Len(c) \in Nat /\ n \in Nat /\ n <= Len(c)
  OBVIOUS
<1> HIDE DEF n
<1>2. n >= 24 => payload \in Seq(Bit)
  BY <1>1
<1>3. FinishFrame(c) = IF n >= 24 /\ Fcs(payload) = SubSeq(c, n - 15, n) THEN <<payload>> ELSE <<>>
  BY DEF FinishFrame, n
<1> HIDE DEF payload
<1> QED BY <1>2, <1>3

\* What a flag and what another bit make of a scan.
FlagStep(s, t) ==
    /\ t.collecting = TRUE /\ t.ones = 0 /\ t.payload = <<>>
    /\ t.frames = s.frames \o Closing(s)
BitStep(s, t, b) ==
    /\ t.collecting = s.collecting /\ t.frames = s.frames
    /\ t.payload = IF s.collecting /\ ~(s.ones = 5 /\ b = 0) THEN Append(s.payload, b) ELSE s.payload
    /\ t.ones = IF s.collecting /\ b = 1 THEN (s.ones + 1) % 256 ELSE 0

\* Any bit takes a scan to a scan.
LEMMA BitScanned ==
  ASSUME NEW bits \in Seq(Bit), NEW i \in 1..Len(bits), NEW s \in Scan
  PROVE  /\ DeframeBit(s, bits, i) \in Scan
         /\ IsFlagEnd(bits, i) => FlagStep(s, DeframeBit(s, bits, i))
         /\ ~IsFlagEnd(bits, i) => BitStep(s, DeframeBit(s, bits, i), bits[i])
<1> DEFINE t == DeframeBit(s, bits, i)
           taken == s.collecting /\ ~(s.ones = 5 /\ bits[i] = 0)
           more == IF taken THEN Append(s.payload, bits[i]) ELSE s.payload
           ones == IF s.collecting /\ bits[i] = 1 THEN (s.ones + 1) % 256 ELSE 0
<1>1. bits[i] \in Bit /\ s.payload \in Seq(Bit) /\ s.frames \in Seq(Seq(Bit)) /\ s.ones \in Nat
      /\ s.collecting \in BOOLEAN
  BY DEF Scan
<1>2. CASE IsFlagEnd(bits, i)
  <2>1. Closing(s) \in Seq(Seq(Bit))
    <3> DEFINE n == Len(s.payload)
               c == SubSeq(s.payload, 1, n - 7)
    <3>1. n >= 7 => c \in Seq(Bit)
      BY <1>1
    <3>2. Closing(s) = IF s.collecting /\ n >= 7 THEN FinishFrame(c) ELSE <<>>
      BY DEF Closing
    <3>3. ASSUME n >= 7 PROVE FinishFrame(c) \in Seq(Seq(Bit))
      <4> HIDE DEF c, n
      <4>1. FinishFrame(c) = <<>> \/ \E p \in Seq(Bit) : FinishFrame(c) = <<p>>
        BY <3>1, <3>3, Finished
      <4>2. \A p \in Seq(Bit) : <<p>> \in Seq(Seq(Bit))
        OBVIOUS
      <4>3. <<>> \in Seq(Seq(Bit))
        OBVIOUS
      <4> SUFFICES ASSUME NEW p \in Seq(Bit), FinishFrame(c) = <<p>> PROVE FinishFrame(c) \in Seq(Seq(Bit))
        BY <4>1, <4>3
      <4> QED BY <4>2
    <3> HIDE DEF c, n
    <3> QED BY <3>2, <3>3
  <2>2. t = [collecting |-> TRUE, ones |-> 0, payload |-> <<>>, frames |-> s.frames \o Closing(s)]
    BY <1>2 DEF DeframeBit
  <2>3. s.frames \o Closing(s) \in Seq(Seq(Bit))
    BY <1>1, <2>1
  <2>4. t \in Scan
    BY <2>2, <2>3 DEF Scan
  <2>5. FlagStep(s, t)
    BY <2>2 DEF FlagStep
  <2> HIDE DEF t
  <2>6. IsFlagEnd(bits, i) => FlagStep(s, t)
    BY <2>5
  <2> QED BY <1>2, <2>4, <2>6 DEF t
<1>3. CASE ~IsFlagEnd(bits, i)
  <2>1. t = [s EXCEPT !.payload = more, !.ones = ones]
    BY <1>3 DEF DeframeBit, Stuffed
  <2>2. more \in Seq(Bit) /\ ones \in Nat
    BY <1>1
  <2> HIDE DEF more, ones, t
  <2>3. t \in Scan /\ t.payload = more /\ t.ones = ones /\ t.collecting = s.collecting
        /\ t.frames = s.frames
    BY <2>1, <2>2 DEF Scan
  <2>4. BitStep(s, t, bits[i])
    BY <2>3, Zenon DEF BitStep, more, ones
  <2>5. t \in Scan
    BY <2>3
  <2> QED BY <1>3, <2>4, <2>5 DEF t
<1> QED BY <1>2, <1>3

\* The scan that HdlcDeframe makes.
Scanned(bits) ==
    CHOOSE f : f = [i \in 0..Len(bits) |->
                      IF i = 0 THEN Idling ELSE DeframeBit(f[i - 1], bits, i)]

LEMMA ScanSolved ==
  ASSUME NEW bits \in Seq(Bit)
  PROVE  /\ Scanned(bits)[0] = Idling
         /\ \A i \in 1..Len(bits) : Scanned(bits)[i] = DeframeBit(Scanned(bits)[i - 1], bits, i)
         /\ \A i \in 0..Len(bits) : Scanned(bits)[i] \in Scan
         /\ HdlcDeframe(bits) = Scanned(bits)[Len(bits)].frames
<1> DEFINE n == Len(bits)
           Equation(f) == f = [i \in 0..n |-> IF i = 0 THEN Idling ELSE DeframeBit(f[i - 1], bits, i)]
           step == [i \in 1..n |-> [s \in Scan |-> DeframeBit(s, bits, i)]]
           F == Scanned(bits)
<1>1. n \in Nat /\ Idling \in Scan
  BY DEF Idling, Scan
<1>2. step \in [1..n -> [Scan -> Scan]]
  <2>1. ASSUME NEW i \in 1..n, NEW s \in Scan PROVE DeframeBit(s, bits, i) \in Scan
    BY BitScanned
  <2> QED BY <2>1
<1>3. PICK f \in [0..n -> Scan] : f[0] = Idling /\ \A i \in 1..n : f[i] = step[i][f[i - 1]]
  <2>1. n \in Nat /\ Idling \in Scan /\ step \in [1..n -> [Scan -> Scan]]
    BY <1>1, <1>2
  <2> HIDE DEF step, n
  <2>2. \E f : Unrolls(f, n, Scan, Idling, step)
    BY <2>1, Recursion
  <2> QED BY <2>2 DEF Unrolls
<1>4. \A i \in 1..n : f[i] = DeframeBit(f[i - 1], bits, i)
  <2> TAKE i \in 1..n
  <2>1. i - 1 \in 0..n
    BY <1>1
  <2> QED BY <1>3, <2>1
<1>5. Equation(f)
  <2>1. ASSUME NEW i \in 0..n
        PROVE  f[i] = IF i = 0 THEN Idling ELSE DeframeBit(f[i - 1], bits, i)
    BY <1>1, <1>3, <1>4
  <2>2. f = [i \in 0..n |-> f[i]]
    BY <1>3
  <2> HIDE DEF n
  <2> QED BY <2>1, <2>2, Zenon
<1>6. F = CHOOSE g : Equation(g)
  BY DEF Scanned
<1>7. Equation(F)
  <2> HIDE DEF Equation, F
  <2> QED BY <1>5, <1>6
<1> HIDE DEF F
<1>8. F[0] = Idling /\ \A i \in 1..n : F[i] = DeframeBit(F[i - 1], bits, i)
  BY <1>1, <1>7
<1> DEFINE G == {i \in 0..n : F[i] \in Scan}
<1>9. G = 0..n
  <2>1. 0 \in G
    BY <1>1, <1>8
  <2>2. ASSUME NEW i \in 0..n - 1, i \in G PROVE i + 1 \in G
    <3>1. i + 1 \in 1..n /\ (i + 1) - 1 = i /\ F[i] \in Scan
      BY <1>1, <2>2
    <3>2. F[i + 1] = DeframeBit(F[i], bits, i + 1)
      BY <1>8, <3>1
    <3> QED BY <3>1, <3>2, BitScanned
  <2> HIDE DEF n
  <2> QED BY <1>1, <2>1, <2>2, HandedOn
<1>10. HdlcDeframe(bits) = F[n].frames
  BY <1>6 DEF HdlcDeframe
<1> QED BY <1>8, <1>9, <1>10 DEF F

\* One step of the scan.
LEMMA NextScan ==
  ASSUME NEW bits \in Seq(Bit), NEW i \in 0..Len(bits) - 1,
         NEW s, s = Scanned(bits)[i], NEW t, t = Scanned(bits)[i + 1]
  PROVE  /\ s \in Scan /\ t \in Scan /\ bits[i + 1] \in {0, 1}
         /\ IsFlagEnd(bits, i + 1) => FlagStep(s, t)
         /\ ~IsFlagEnd(bits, i + 1) => BitStep(s, t, bits[i + 1])
<1>1. i + 1 \in 1..Len(bits) /\ (i + 1) - 1 = i /\ i \in 0..Len(bits)
  OBVIOUS
<1>2. t = DeframeBit(s, bits, i + 1) /\ s \in Scan
  BY <1>1, ScanSolved
<1>3. bits[i + 1] \in {0, 1}
  BY <1>1 DEF Bit
<1> QED BY <1>1, <1>2, <1>3, BitScanned
\* A flag is a zero, six ones and a zero.
LEMMA FlagShape ==
  ASSUME NEW bits \in Seq(Bit), NEW i \in 1..Len(bits)
  PROVE  IsFlagEnd(bits, i) <=>
           /\ i >= 8 /\ bits[i - 7] = 0 /\ bits[i] = 0
           /\ \A k \in 1..6 : bits[i - k] = 1
<1>1. CASE i < 8
  BY <1>1 DEF IsFlagEnd
<1>2. CASE i >= 8
  <2> DEFINE w == SubSeq(bits, i - 7, i)
  <2>1. w \in Seq(Bit) /\ Len(w) = 8 /\ \A k \in 1..8 : w[k] = bits[i - 8 + k]
    BY <1>2
  <2> HIDE DEF w
  <2>2. w = Flag <=> \A k \in 1..8 : w[k] = Flag[k]
    BY <2>1 DEF Flag
  <2>3. (\A k \in 1..8 : w[k] = Flag[k]) <=>
          /\ w[1] = 0 /\ w[2] = 1 /\ w[3] = 1 /\ w[4] = 1 /\ w[5] = 1 /\ w[6] = 1 /\ w[7] = 1
          /\ w[8] = 0
    BY DEF Flag
  <2>4. /\ w[1] = bits[i - 7] /\ w[2] = bits[i - 6] /\ w[3] = bits[i - 5] /\ w[4] = bits[i - 4]
        /\ w[5] = bits[i - 3] /\ w[6] = bits[i - 2] /\ w[7] = bits[i - 1] /\ w[8] = bits[i]
    BY <2>1
  <2>5. (\A k \in 1..6 : bits[i - k] = 1) <=>
          /\ bits[i - 1] = 1 /\ bits[i - 2] = 1 /\ bits[i - 3] = 1
          /\ bits[i - 4] = 1 /\ bits[i - 5] = 1 /\ bits[i - 6] = 1
    OBVIOUS
  <2>6. IsFlagEnd(bits, i) <=> w = Flag
    BY <1>2 DEF IsFlagEnd, w
  <2> QED BY <1>2, <2>2, <2>3, <2>4, <2>5, <2>6
<1> QED BY <1>1, <1>2

\* The scan up to a place depends on the bits up to there.
LEMMA ScanOfPrefix ==
  ASSUME NEW a \in Seq(Bit), NEW b \in Seq(Bit), Len(a) <= Len(b),
         \A k \in 1..Len(a) : b[k] = a[k], NEW i \in 0..Len(a)
  PROVE  Scanned(b)[i] = Scanned(a)[i]
<1> DEFINE n == Len(a)
           G == {j \in 0..n : Scanned(b)[j] = Scanned(a)[j]}
<1>1. n \in Nat /\ Len(b) \in Nat /\ n <= Len(b)
  OBVIOUS
<1>2. 0 \in G
  BY <1>1, ScanSolved
<1>3. ASSUME NEW j \in 0..n - 1, j \in G PROVE j + 1 \in G
  <2>1. j + 1 \in 1..Len(a) /\ j + 1 \in 1..Len(b) /\ (j + 1) - 1 = j
    BY <1>1, <1>3
  <2>2. /\ Scanned(a)[j + 1] = DeframeBit(Scanned(a)[j], a, j + 1)
        /\ Scanned(b)[j + 1] = DeframeBit(Scanned(b)[j], b, j + 1)
    BY <2>1, ScanSolved
  <2>3. IsFlagEnd(a, j + 1) <=> IsFlagEnd(b, j + 1)
    <3>1. a[j + 1] = b[j + 1]
      BY <2>1
    <3>2. j + 1 >= 8 => a[j + 1 - 7] = b[j + 1 - 7] /\ \A k \in 1..6 : a[j + 1 - k] = b[j + 1 - k]
      BY <2>1
    <3> QED BY SMTT(20), <2>1, <3>1, <3>2, FlagShape
  <2>4. a[j + 1] = b[j + 1]
    BY <2>1
  <2>5. DeframeBit(Scanned(a)[j], a, j + 1) = DeframeBit(Scanned(a)[j], b, j + 1)
    BY <2>3, <2>4 DEF DeframeBit
  <2> QED BY <1>3, <2>2, <2>5, <2>1
<1>4. G = 0..n
  <2> HIDE DEF n
  <2> QED BY <1>1, <1>2, <1>3, HandedOn
<1> QED BY <1>4

\* A scan never loses a frame.
LEMMA FramesKept ==
  ASSUME NEW bits \in Seq(Bit), NEW i \in 0..Len(bits), NEW p,
         \E k \in DOMAIN Scanned(bits)[i].frames : Scanned(bits)[i].frames[k] = p
  PROVE  \E k \in DOMAIN HdlcDeframe(bits) : HdlcDeframe(bits)[k] = p
<1> DEFINE n == Len(bits)
           S == Scanned(bits)
           G == {j \in 0..n : j >= i => \E k \in DOMAIN S[j].frames : S[j].frames[k] = p}
<1>1. n \in Nat /\ i \in 0..n
  OBVIOUS
<1>2. ASSUME NEW j \in 0..n - 1, j \in G PROVE j + 1 \in G
  <2>1. CASE j + 1 = i
    BY <1>1, <2>1
  <2>2. CASE j + 1 < i
    BY <1>1, <2>2
  <2>3. CASE j >= i
    <3>1. PICK k \in DOMAIN S[j].frames : S[j].frames[k] = p
      BY <1>2, <2>3
    <3>2. j + 1 \in 1..n /\ (j + 1) - 1 = j
      BY <1>1
    <3>3. S[j + 1] = DeframeBit(S[j], bits, j + 1) /\ S[j] \in Scan /\ S[j + 1] \in Scan
      BY <3>2, ScanSolved
    <3>4. S[j].frames \in Seq(Seq(Bit)) /\ S[j + 1].frames \in Seq(Seq(Bit))
      BY <3>3 DEF Scan
    <3>5. CASE IsFlagEnd(bits, j + 1)
      <4> DEFINE c == Closing(S[j])
      <4>1. S[j + 1].frames = S[j].frames \o c
        <5> DEFINE u == S[j]
                   v == S[j + 1]
        <5>1. u = Scanned(bits)[j] /\ v = Scanned(bits)[j + 1] /\ j \in 0..Len(bits) - 1
          OBVIOUS
        <5> HIDE DEF u, v, S
        <5>2. FlagStep(u, v)
          BY <3>5, <5>1, NextScan
        <5>3. v.frames = u.frames \o Closing(u)
          BY <5>2, Zenon DEF FlagStep
        <5> QED BY <5>3 DEF u, v
      <4>2. c = <<>> \/ \E q \in Seq(Bit) : c = <<q>>
        <5>1. S[j].payload \in Seq(Bit)
          BY <3>3 DEF Scan
        <5>2. ASSUME Len(S[j].payload) >= 7
              PROVE  SubSeq(S[j].payload, 1, Len(S[j].payload) - 7) \in Seq(Bit)
          BY <5>1, <5>2
        <5> QED BY <5>2, Finished DEF Closing
      <4>3. c \in Seq(Seq(Bit))
        <5>1. <<>> \in Seq(Seq(Bit)) /\ \A q \in Seq(Bit) : <<q>> \in Seq(Seq(Bit))
          OBVIOUS
        <5> HIDE DEF c
        <5>2. CASE c = <<>>
          BY <5>1, <5>2
        <5>3. ASSUME NEW q \in Seq(Bit), c = <<q>> PROVE c \in Seq(Seq(Bit))
          BY <5>1, <5>3
        <5> QED BY <4>2, <5>2, <5>3
      <4> HIDE DEF c
      <4>4. k \in DOMAIN S[j + 1].frames /\ S[j + 1].frames[k] = S[j].frames[k]
        BY SMTT(20), <3>1, <3>4, <4>1, <4>3
      <4> QED BY <3>1, <3>2, <4>4
    <3>6. CASE ~IsFlagEnd(bits, j + 1)
      <4>1. S[j + 1].frames = S[j].frames
        BY <3>6, NextScan DEF BitStep
      <4> QED BY <3>1, <3>2, <4>1
    <3> QED BY <3>5, <3>6
  <2> QED BY <1>1, <2>1, <2>2, <2>3
<1>3. 0 \in G
  BY <1>1
<1>4. G = 0..n
  <2> HIDE DEF n, S
  <2> QED BY <1>1, <1>2, <1>3, HandedOn
<1>5. n \in G
  BY <1>1, <1>4
<1> QED BY <1>1, <1>5, ScanSolved

-----------------------------------------------------------------------------
(* Stuffing. *)

StuffState == [bits : Seq(Bit), ones : 0..4]

\* The bits that HdlcFrame has put out, after each bit of the data.
StuffRun(data) ==
    CHOOSE f : f = [i \in 0..Len(data) |->
                      IF i = 0 THEN [bits |-> Flag, ones |-> 0] ELSE Stuff(f[i - 1], data[i])]

\* One bit more.
LEMMA BitStuffed ==
  ASSUME NEW s \in StuffState, NEW b \in Bit
  PROVE  /\ Stuff(s, b) \in StuffState
         /\ b = 0 => Stuff(s, b).bits = Append(s.bits, 0) /\ Stuff(s, b).ones = 0
         /\ b = 1 /\ s.ones < 4 =>
              Stuff(s, b).bits = Append(s.bits, 1) /\ Stuff(s, b).ones = s.ones + 1
         /\ b = 1 /\ s.ones = 4 =>
              Stuff(s, b).bits = Append(Append(s.bits, 1), 0) /\ Stuff(s, b).ones = 0
<1>1. s.bits \in Seq(Bit) /\ s.ones \in 0..4 /\ b \in {0, 1} /\ Bit = {0, 1}
  BY DEF StuffState, Bit
<1>2. CASE b = 1 /\ s.ones = 4
  <2>1. s.bits \o <<1, 0>> = Append(Append(s.bits, 1), 0)
    BY <1>1
  <2>2. Stuff(s, b) = [bits |-> Append(Append(s.bits, 1), 0), ones |-> 0]
    BY <1>2, <2>1 DEF Stuff
  <2>3. Append(Append(s.bits, 1), 0) \in Seq(Bit)
    BY <1>1
  <2>4. Stuff(s, b) \in StuffState
    BY <2>2, <2>3 DEF StuffState
  <2>5. b = 1 /\ s.ones = 4 /\ ~(s.ones < 4)
    BY <1>2
  <2>6. Stuff(s, b).bits = Append(Append(s.bits, 1), 0) /\ Stuff(s, b).ones = 0
    BY <2>2
  <2> QED BY <2>4, <2>5, <2>6
<1>3. CASE ~(b = 1 /\ s.ones = 4)
  <2> DEFINE o == IF b = 1 THEN s.ones + 1 ELSE 0
  <2>1. Stuff(s, b) = [bits |-> Append(s.bits, b), ones |-> o]
    BY <1>3 DEF Stuff
  <2>2. o \in 0..4 /\ Append(s.bits, b) \in Seq(Bit)
    BY <1>1, <1>3
  <2>3. Stuff(s, b) \in StuffState
    BY <2>1, <2>2 DEF StuffState
  <2> QED BY <1>1, <1>3, <2>1, <2>3
<1> QED BY <1>2, <1>3

\* The data of a frame: the payload and its check sequence.
FrameData(p) == p \o Fcs(p)

LEMMA StuffSolved ==
  ASSUME NEW data \in Seq(Bit)
  PROVE  /\ StuffRun(data)[0] = [bits |-> Flag, ones |-> 0]
         /\ \A i \in 1..Len(data) : StuffRun(data)[i] = Stuff(StuffRun(data)[i - 1], data[i])
         /\ \A i \in 0..Len(data) : StuffRun(data)[i] \in StuffState
<1> DEFINE n == Len(data)
           first == [bits |-> Flag, ones |-> 0]
           Equation(f) == f = [i \in 0..n |-> IF i = 0 THEN first ELSE Stuff(f[i - 1], data[i])]
           step == [i \in 1..n |-> [s \in StuffState |-> Stuff(s, data[i])]]
           F == StuffRun(data)
<1>1. n \in Nat /\ first \in StuffState
  BY DEF StuffState, Flag, Bit
<1>2. step \in [1..n -> [StuffState -> StuffState]]
  <2>1. ASSUME NEW i \in 1..n, NEW s \in StuffState PROVE Stuff(s, data[i]) \in StuffState
    <3>1. data[i] \in Bit
      OBVIOUS
    <3> QED BY <3>1, BitStuffed
  <2> QED BY <2>1
<1>3. PICK f \in [0..n -> StuffState] : f[0] = first /\ \A i \in 1..n : f[i] = step[i][f[i - 1]]
  <2>1. n \in Nat /\ first \in StuffState /\ step \in [1..n -> [StuffState -> StuffState]]
    BY <1>1, <1>2
  <2> HIDE DEF step, n, first
  <2>2. \E f : Unrolls(f, n, StuffState, first, step)
    BY <2>1, Recursion
  <2> QED BY <2>2 DEF Unrolls
<1>4. \A i \in 1..n : f[i] = Stuff(f[i - 1], data[i])
  <2> TAKE i \in 1..n
  <2>1. i - 1 \in 0..n
    BY <1>1
  <2> QED BY <1>3, <2>1
<1>5. Equation(f)
  <2>1. ASSUME NEW i \in 0..n
        PROVE  f[i] = IF i = 0 THEN first ELSE Stuff(f[i - 1], data[i])
    BY <1>1, <1>3, <1>4
  <2>2. f = [i \in 0..n |-> f[i]]
    BY <1>3
  <2> HIDE DEF n, first
  <2> QED BY <2>1, <2>2, Zenon
<1>6. F = CHOOSE g : Equation(g)
  BY DEF StuffRun
<1>7. Equation(F)
  <2> HIDE DEF Equation, F
  <2> QED BY <1>5, <1>6
<1> HIDE DEF F
<1>8. F[0] = first /\ \A i \in 1..n : F[i] = Stuff(F[i - 1], data[i])
  BY <1>1, <1>7
<1> DEFINE G == {i \in 0..n : F[i] \in StuffState}
<1>9. G = 0..n
  <2>1. 0 \in G
    BY <1>1, <1>8
  <2>2. ASSUME NEW i \in 0..n - 1, i \in G PROVE i + 1 \in G
    <3>1. i + 1 \in 1..n /\ (i + 1) - 1 = i /\ F[i] \in StuffState /\ data[i + 1] \in Bit
      BY <1>1, <2>2
    <3>2. F[i + 1] = Stuff(F[i], data[i + 1])
      BY <1>8, <3>1
    <3> QED BY <3>1, <3>2, BitStuffed
  <2> HIDE DEF n
  <2> QED BY <1>1, <2>1, <2>2, HandedOn
<1> QED BY <1>8, <1>9 DEF F

\* What is put out stays.
LEMMA StuffedKept ==
  ASSUME NEW data \in Seq(Bit), NEW i \in 0..Len(data), NEW j \in i..Len(data)
  PROVE  LET a == StuffRun(data)[i].bits
             b == StuffRun(data)[j].bits
         IN  a \in Seq(Bit) /\ b \in Seq(Bit) /\ Len(a) <= Len(b) /\ \A k \in 1..Len(a) : b[k] = a[k]
<1> DEFINE n == Len(data)
           F == StuffRun(data)
           a == F[i].bits
           G == {m \in 0..n : m >= i => Len(a) <= Len(F[m].bits) /\ \A k \in 1..Len(a) : F[m].bits[k] = a[k]}
<1>1. n \in Nat /\ \A m \in 0..n : F[m].bits \in Seq(Bit)
  BY StuffSolved DEF StuffState
<1>2. ASSUME NEW m \in 0..n - 1, m \in G PROVE m + 1 \in G
  <2>1. m + 1 \in 1..n /\ (m + 1) - 1 = m /\ m \in 0..n /\ data[m + 1] \in Bit
    BY <1>1
  <2>2. F[m + 1] = Stuff(F[m], data[m + 1]) /\ F[m] \in StuffState
    BY <2>1, StuffSolved
  <2>3. CASE m + 1 <= i
    BY <1>1, <2>1, <2>3
  <2>4. CASE m >= i
    <3>1. Len(a) <= Len(F[m].bits) /\ \A k \in 1..Len(a) : F[m].bits[k] = a[k]
      BY <1>2, <2>4
    <3>2. \/ F[m + 1].bits = Append(F[m].bits, 0)
          \/ F[m + 1].bits = Append(F[m].bits, 1)
          \/ F[m + 1].bits = Append(Append(F[m].bits, 1), 0)
      <4>1. data[m + 1] \in {0, 1} /\ F[m].ones \in 0..4
        BY <2>1, <2>2 DEF Bit, StuffState
      <4>2. F[m].ones < 4 \/ F[m].ones = 4
        BY <4>1
      <4> QED BY <2>1, <2>2, <4>1, <4>2, BitStuffed
    <3>3. F[m].bits \in Seq(Bit) /\ a \in Seq(Bit)
      BY <1>1, <2>1
    <3>4. /\ Len(F[m].bits) <= Len(F[m + 1].bits)
          /\ \A k \in 1..Len(F[m].bits) : F[m + 1].bits[k] = F[m].bits[k]
      <4> DEFINE u == F[m].bits
                 v == F[m + 1].bits
      <4>1. u \in Seq(Bit) /\ 0 \in Bit /\ 1 \in Bit
            /\ (v = Append(u, 0) \/ v = Append(u, 1) \/ v = Append(Append(u, 1), 0))
        BY <3>2, <3>3 DEF Bit
      <4> HIDE DEF u, v
      <4>2. Len(u) <= Len(v) /\ \A k \in 1..Len(u) : v[k] = u[k]
        <5>1. u \in Seq(Bit) /\ 0 \in Bit /\ 1 \in Bit /\ Len(u) \in Nat
          BY <4>1
        <5>2. ASSUME NEW e \in Bit, NEW w \in Seq(Bit)
              PROVE  /\ Append(w, e) \in Seq(Bit) /\ Len(Append(w, e)) = Len(w) + 1 /\ Len(w) \in Nat
                     /\ \A k \in 1..Len(w) : Append(w, e)[k] = w[k]
          OBVIOUS
        <5>3. ASSUME NEW e \in Bit, v = Append(u, e)
              PROVE  Len(u) <= Len(v) /\ \A k \in 1..Len(u) : v[k] = u[k]
          BY <5>1, <5>3
        <5>4. CASE v = Append(Append(u, 1), 0)
          <6> DEFINE w == Append(u, 1)
          <6>1. w \in Seq(Bit) /\ Len(w) = Len(u) + 1 /\ \A k \in 1..Len(u) : w[k] = u[k]
            BY <5>1, <5>2
          <6> HIDE DEF w
          <6>2. Len(Append(w, 0)) = Len(w) + 1 /\ \A k \in 1..Len(w) : Append(w, 0)[k] = w[k]
            BY <5>1, <5>2, <6>1
          <6>3. v = Append(w, 0)
            BY <5>4 DEF w
          <6> QED BY <5>1, <6>1, <6>2, <6>3
        <5> QED BY <4>1, <5>1, <5>3, <5>4
      <4> QED BY <4>2 DEF u, v
    <3>5. Len(a) <= Len(F[m + 1].bits) /\ \A k \in 1..Len(a) : F[m + 1].bits[k] = a[k]
      <4>1. Len(a) \in Nat /\ Len(F[m].bits) \in Nat /\ F[m + 1].bits \in Seq(Bit)
        BY <1>1, <2>1, <3>3
      <4> HIDE DEF F, a
      <4> QED BY <3>1, <3>4, <4>1
    <3> HIDE DEF F, a
    <3> QED BY <1>1, <2>1, <3>5
  <2> QED BY <1>1, <2>1, <2>3, <2>4
<1>3. 0 \in G
  BY <1>1
<1>4. G = 0..n
  <2> HIDE DEF n, F
  <2> QED BY <1>1, <1>2, <1>3, HandedOn
<1>5. j \in G /\ j >= i
  BY <1>1, <1>4
<1> QED BY <1>1, <1>5

-----------------------------------------------------------------------------
(* A frame in a buffer. *)

\* A zero among the six bits before it, or a one, ends no flag.
LEMMA NoFlag ==
  ASSUME NEW bits \in Seq(Bit), NEW i \in 1..Len(bits),
         \/ bits[i] = 1
         \/ \E k \in 1..6 : k < i /\ bits[i - k] = 0
  PROVE  ~IsFlagEnd(bits, i)
BY FlagShape

\* The scan up to a place collects, and is not within a run of more than four
\* ones.
Ready(bits, i) ==
    LET s == Scanned(bits)[i]
    IN  s.collecting = TRUE /\ s.ones \in 0..4 /\ s.ones < i /\ bits[i - s.ones] = 0

FlagAfter(bits, i) == i + 8 <= Len(bits) /\ \A k \in 1..8 : bits[i + k] = Flag[k]

\* From a scan to a later one nothing was lost of what was collected, nor was
\* a frame found.
Extends(s, t, k) ==
    /\ t.collecting = TRUE /\ t.frames = s.frames
    /\ s.payload \in Seq(Bit) /\ t.payload \in Seq(Bit) /\ Len(t.payload) = Len(s.payload) + k
    /\ \A j \in 1..Len(s.payload) : t.payload[j] = s.payload[j]

LEMMA OneMore ==
  ASSUME NEW s, NEW u, NEW v, NEW k \in Nat, Extends(s, u, k), NEW b \in Bit,
         u.ones # 5 \/ b # 0, BitStep(u, v, b)
  PROVE  Extends(s, v, k + 1) /\ v.ones = IF b = 1 THEN (u.ones + 1) % 256 ELSE 0
<1>1. v.collecting = TRUE /\ v.frames = s.frames /\ v.payload = Append(u.payload, b)
      /\ v.ones = IF b = 1 THEN (u.ones + 1) % 256 ELSE 0
  <2>1. u.collecting /\ u.frames = s.frames
    BY DEF Extends
  <2>2. v.collecting = u.collecting /\ v.frames = u.frames /\ v.payload = Append(u.payload, b)
        /\ v.ones = IF b = 1 THEN (u.ones + 1) % 256 ELSE 0
    BY <2>1, Zenon DEF BitStep
  <2> QED BY <2>1, <2>2 DEF Extends
<1> DEFINE x == s.payload
           y == u.payload
           z == v.payload
<1>2. /\ x \in Seq(Bit) /\ y \in Seq(Bit) /\ Len(y) = Len(x) + k /\ z = Append(y, b)
      /\ \A j \in 1..Len(x) : y[j] = x[j]
  BY <1>1 DEF Extends
<1> HIDE DEF x, y, z
<1>3. z \in Seq(Bit) /\ Len(z) = Len(x) + (k + 1)
  BY SMTT(20), <1>2
<1>4. ASSUME NEW j \in 1..Len(x) PROVE z[j] = x[j]
  <2>1. j \in 1..Len(y)
    BY <1>2
  <2>2. z[j] = y[j]
    BY <1>2, <2>1
  <2> QED BY <1>2, <2>2
<1> QED BY <1>1, <1>2, <1>3, <1>4 DEF Extends, x, y, z

\* A flag closes what was collected before it; its first seven bits are not
\* part of that.
LEMMA FlagScanned ==
  ASSUME NEW bits \in Seq(Bit), NEW i \in Nat, Ready(bits, i), FlagAfter(bits, i)
  PROVE  LET s == Scanned(bits)[i]
             t == Scanned(bits)[i + 8]
         IN  /\ \A k \in 0..7 : Scanned(bits)[i + k].frames = s.frames
             /\ t.payload = <<>> /\ t.frames = s.frames \o FinishFrame(s.payload)
             /\ Ready(bits, i + 8) /\ t.ones = 0
<1> DEFINE S == Scanned(bits)
           s == S[i]
           n == Len(bits)
           Good(k) == Extends(s, S[i + k], k) /\ (k > 0 => S[i + k].ones = k - 1)
           G == {k \in 0..7 : Good(k)}
<1>1. n \in Nat /\ i + 8 <= n
  BY DEF FlagAfter
<1>2. /\ bits[i + 1] = 0 /\ bits[i + 2] = 1 /\ bits[i + 3] = 1 /\ bits[i + 4] = 1
      /\ bits[i + 5] = 1 /\ bits[i + 6] = 1 /\ bits[i + 7] = 1 /\ bits[i + 8] = 0
  BY DEF FlagAfter, Flag
<1>3. s.collecting = TRUE /\ s.ones \in 0..4 /\ s.ones < i /\ bits[i - s.ones] = 0
  BY DEF Ready
<1>4. s \in Scan
  BY <1>1, ScanSolved
<1> HIDE DEF S
<1>5. 0 \in G
  <2>1. i + 0 = i /\ s.payload \in Seq(Bit)
    BY <1>4 DEF Scan
  <2>2. Extends(s, S[i + 0], 0)
    BY <1>3, <2>1 DEF Extends
  <2> QED BY <2>2
<1>6. ASSUME NEW k \in 0..7 - 1, k \in G PROVE k + 1 \in G
  <2> DEFINE m == i + k
             b == bits[m + 1]
             u == S[m]
             v == S[m + 1]
  <2>1. Extends(s, u, k) /\ (k > 0 => u.ones = k - 1)
    BY <1>6
  <2>2. m \in 0..n - 1 /\ m + 1 \in 1..n /\ i + (k + 1) = m + 1 /\ k \in Nat
    BY <1>1
  <2>3. (k = 0 => b = 0) /\ (k > 0 => b = 1) /\ b \in Bit
    <3>1. k = 0 \/ k = 1 \/ k = 2 \/ k = 3 \/ k = 4 \/ k = 5 \/ k = 6
      OBVIOUS
    <3> QED BY <1>2, <3>1 DEF Bit
  <2>4. ~IsFlagEnd(bits, m + 1)
    <3>1. CASE k > 0
      BY <2>2, <2>3, <3>1, NoFlag
    <3>2. CASE k = 0
      <4>1. s.ones + 1 \in 1..6 /\ s.ones + 1 < m + 1 /\ m + 1 - (s.ones + 1) = i - s.ones
        BY <1>3, <3>2
      <4>2. \E d \in 1..6 : d < m + 1 /\ bits[m + 1 - d] = 0
        BY <1>3, <4>1
      <4> QED BY <2>2, <4>2, NoFlag
    <3> QED BY <3>1, <3>2
  <2>5. BitStep(u, v, b)
    BY <2>2, <2>4, NextScan DEF S
  <2>6. u.ones # 5 \/ b # 0
    <3>1. CASE k = 0
      BY <1>3, <3>1
    <3>2. CASE k > 0
      BY <2>3, <3>2
    <3> QED BY <3>1, <3>2
  <2> HIDE DEF u, v, b, s, m
  <2>7. Extends(s, v, k + 1) /\ v.ones = IF b = 1 THEN (u.ones + 1) % 256 ELSE 0
    <3>1. k \in Nat /\ b \in Bit /\ Extends(s, u, k)
      BY <2>1, <2>2, <2>3
    <3> HIDE DEF Good, G
    <3> QED BY ONLY <3>1, <2>5, <2>6, OneMore
  <2>8. v.ones = (k + 1) - 1
    <3>1. CASE k = 0
      BY <2>3, <2>7, <3>1
    <3>2. CASE k > 0
      BY <2>1, <2>3, <2>7, <3>2
    <3> QED BY <3>1, <3>2
  <2>9. Good(k + 1)
    BY <2>2, <2>7, <2>8 DEF v
  <2> HIDE DEF Good
  <2> QED BY <2>9
<1>7. G = 0..7
  <2>1. G \subseteq 0..7
    OBVIOUS
  <2> HIDE DEF G
  <2> QED BY <1>5, <1>6, <2>1, HandedOn
<1> DEFINE u == S[i + 7]
           t == S[i + 8]
<1>8. (\A k \in 0..7 : S[i + k].frames = s.frames) /\ Extends(s, u, 7)
  <2>1. \A k \in 0..7 : Good(k)
    <3> HIDE DEF Good
    <3> QED BY <1>7
  <2>2. Good(7)
    <3> HIDE DEF Good
    <3> QED BY <2>1
  <2> QED BY <2>1, <2>2 DEF Extends
<1>9. FlagStep(u, t)
  <2>1. i + 7 \in 0..n - 1 /\ i + 8 \in 1..n /\ i + 7 + 1 = i + 8
    BY <1>1
  <2>2. IsFlagEnd(bits, i + 8)
    <3>1. i + 8 >= 8 /\ bits[i + 8 - 7] = 0 /\ bits[i + 8] = 0
      BY <1>2
    <3>2. /\ bits[i + 8 - 1] = 1 /\ bits[i + 8 - 2] = 1 /\ bits[i + 8 - 3] = 1
          /\ bits[i + 8 - 4] = 1 /\ bits[i + 8 - 5] = 1 /\ bits[i + 8 - 6] = 1
      BY <1>2
    <3>3. ASSUME NEW k \in 1..6 PROVE bits[i + 8 - k] = 1
      <4>1. k = 1 \/ k = 2 \/ k = 3 \/ k = 4 \/ k = 5 \/ k = 6
        OBVIOUS
      <4> QED BY <3>2, <4>1
    <3> QED BY <2>1, <3>1, <3>3, FlagShape
  <2> QED BY <2>1, <2>2, NextScan DEF S
<1>10. Closing(u) = FinishFrame(s.payload) /\ u.frames = s.frames
  <2> DEFINE x == s.payload
             y == u.payload
             c == SubSeq(y, 1, Len(y) - 7)
  <2>1. /\ u.collecting = TRUE /\ u.frames = s.frames /\ x \in Seq(Bit) /\ y \in Seq(Bit)
        /\ Len(y) = Len(x) + 7 /\ \A j \in 1..Len(x) : y[j] = x[j]
    BY <1>8 DEF Extends
  <2>2. Closing(u) = FinishFrame(c)
    <3>1. Len(y) >= 7
      <4> HIDE DEF x, y
      <4> QED BY <2>1
    <3> QED BY <2>1, <3>1 DEF Closing
  <2>3. c = x
    <3> HIDE DEF x, y
    <3>1. c \in Seq(Bit) /\ Len(c) = Len(x) /\ \A j \in 1..Len(x) : c[j] = y[j]
      BY <2>1
    <3> HIDE DEF c
    <3> QED BY <2>1, <3>1
  <2> QED BY <2>1, <2>2, <2>3
<1> HIDE DEF u, t, s
<1>11. t.collecting = TRUE /\ t.ones = 0 /\ t.payload = <<>> /\ t.frames = u.frames \o Closing(u)
  BY <1>9, Zenon DEF FlagStep
<1>12. Ready(bits, i + 8)
  <2>1. i + 8 - 0 = i + 8 /\ 0 < i + 8
    OBVIOUS
  <2> QED BY <1>2, <1>11, <2>1 DEF Ready, S, t
<1>13. t.frames = s.frames \o FinishFrame(s.payload)
  BY <1>10, <1>11
<1> QED BY <1>8, <1>11, <1>12, <1>13 DEF S, s, t

\* What a bit of the data makes of a scan.
DataStep(s, u, d) ==
    /\ u.collecting = TRUE /\ u.frames = s.frames /\ u.payload = Append(s.payload, d)
    /\ u.ones = (IF d = 1 THEN s.ones + 1 ELSE 0)

\* A bit of the data: it ends no flag, and it is collected.
LEMMA DataBit ==
  ASSUME NEW bits \in Seq(Bit), NEW e \in Nat, e + 1 <= Len(bits), Ready(bits, e),
         NEW s, s = Scanned(bits)[e], NEW u, u = Scanned(bits)[e + 1],
         NEW d \in Bit, bits[e + 1] = d
  PROVE  DataStep(s, u, d) /\ (u.ones # 5 => Ready(bits, e + 1))
<1>1. d \in {0, 1} /\ e \in 0..Len(bits) - 1 /\ e + 1 \in 1..Len(bits)
  BY DEF Bit
<1>2. s.collecting = TRUE /\ s.ones \in 0..4 /\ s.ones < e /\ bits[e - s.ones] = 0
  BY DEF Ready
<1> DEFINE o == s.ones
<1>3. ~IsFlagEnd(bits, e + 1)
  <2>1. CASE d = 1
    BY <1>1, <2>1, NoFlag
  <2>2. CASE d = 0
    <3>1. o + 1 \in 1..6 /\ o + 1 < e + 1 /\ e + 1 - (o + 1) = e - o
      BY <1>2
    <3> HIDE DEF o
    <3>2. \E k \in 1..6 : k < e + 1 /\ bits[e + 1 - k] = 0
      BY <1>2, <3>1 DEF o
    <3> QED BY <1>1, <3>2, NoFlag
  <2> QED BY <1>1, <2>1, <2>2
<1>4. BitStep(s, u, d)
  BY <1>1, <1>3, NextScan
<1>5. s.ones # 5 /\ (s.ones + 1) % 256 = s.ones + 1
  BY <1>2
<1>6. u.collecting = TRUE /\ u.frames = s.frames /\ u.payload = Append(s.payload, d)
      /\ u.ones = (IF d = 1 THEN (s.ones + 1) % 256 ELSE 0)
  BY <1>2, <1>4, <1>5, Zenon DEF BitStep
<1>7. u.ones = (IF d = 1 THEN s.ones + 1 ELSE 0)
  BY <1>5, <1>6
<1>8. ASSUME u.ones # 5 PROVE Ready(bits, e + 1)
  <2>1. u.ones \in 0..4 /\ u.ones < e + 1 /\ bits[e + 1 - u.ones] = 0
    <3>1. CASE d = 0
      <4>1. u.ones = 0 /\ e + 1 - 0 = e + 1
        BY <1>7, <3>1
      <4> QED BY <3>1, <4>1
    <3>2. CASE d = 1
      <4>1. u.ones = o + 1 /\ e + 1 - (o + 1) = e - o /\ o + 1 < e + 1 /\ o + 1 \in 0..5
        BY <1>2, <1>7, <3>2
      <4> QED BY <1>2, <1>8, <4>1
    <3> QED BY <1>1, <3>1, <3>2
  <2> QED BY SMTT(20), <1>6, <2>1 DEF Ready
<1>9. DataStep(s, u, d)
  BY <1>6, <1>7 DEF DataStep
<1> QED BY <1>8, <1>9

StuffedStep(s, u, v) ==
    /\ u.frames = s.frames /\ v.frames = s.frames
    /\ v.payload = Append(s.payload, 1) /\ v.ones = 0

\* The fifth one in a row, and the zero that was stuffed after it.
LEMMA StuffedBits ==
  ASSUME NEW bits \in Seq(Bit), NEW e \in Nat, e + 2 <= Len(bits), Ready(bits, e),
         NEW s, s = Scanned(bits)[e], NEW u, u = Scanned(bits)[e + 1], NEW v, v = Scanned(bits)[e + 2],
         s.ones = 4, bits[e + 1] = 1, bits[e + 2] = 0
  PROVE  StuffedStep(s, u, v) /\ Ready(bits, e + 2)
<1>1. u.collecting = TRUE /\ u.frames = s.frames /\ u.payload = Append(s.payload, 1) /\ u.ones = 5
  <2>1. e + 1 <= Len(bits) /\ 1 \in Bit
    BY DEF Bit
  <2>2. DataStep(s, u, 1)
    BY <2>1, DataBit
  <2> QED BY <2>2 DEF DataStep
<1>2. s.ones < e /\ bits[e - s.ones] = 0
  BY DEF Ready
<1>3. ~IsFlagEnd(bits, e + 2)
  <2>1. 6 < e + 2 /\ e + 2 - 6 = e - s.ones /\ e + 2 \in 1..Len(bits)
    BY <1>2
  <2>2. \E k \in 1..6 : k < e + 2 /\ bits[e + 2 - k] = 0
    BY <1>2, <2>1
  <2> QED BY SMTT(20), <2>1, <2>2, NoFlag
<1>4. BitStep(u, v, 0)
  <2>1. e + 1 \in 0..Len(bits) - 1 /\ e + 1 + 1 = e + 2
    OBVIOUS
  <2> QED BY <1>3, <2>1, NextScan
<1>5. v.collecting = u.collecting /\ v.frames = u.frames
      /\ v.payload = (IF u.collecting /\ ~(u.ones = 5 /\ 0 = 0) THEN Append(u.payload, 0) ELSE u.payload)
      /\ v.ones = (IF u.collecting /\ 0 = 1 THEN (u.ones + 1) % 256 ELSE 0)
  BY <1>4, Zenon DEF BitStep
<1>6. v.payload = u.payload /\ v.ones = 0
  BY <1>1, <1>5
<1>7. Ready(bits, e + 2)
  <2>1. e + 2 - 0 = e + 2 /\ 0 < e + 2
    OBVIOUS
  <2>2. v.collecting = TRUE
    BY <1>1, <1>5
  <2> QED BY <1>6, <2>1, <2>2 DEF Ready
<1>8. StuffedStep(s, u, v)
  BY <1>1, <1>5, <1>6 DEF StuffedStep
<1> QED BY <1>7, <1>8

\* The bits of s are in bits, from place o + 1.
LiesAt(s, bits, o) ==
    /\ s \in Seq(Bit) /\ bits \in Seq(Bit) /\ o \in Nat /\ o + Len(s) <= Len(bits)
    /\ \A k \in 1..Len(s) : bits[o + k] = s[k]

\* Within the stuffed data no bit ends a flag, the zeros put in are left out
\* again, and the scan has collected what was stuffed.
Follows(data, bits, o, i) ==
    LET f == StuffRun(data)[i]
        end == o + Len(f.bits)
        s == Scanned(bits)[end]
    IN  /\ Len(f.bits) >= 8 /\ Ready(bits, end)
        /\ s.ones = f.ones /\ s.payload = SubSeq(data, 1, i)
        /\ \A j \in o + 8..end : Scanned(bits)[j].frames = Scanned(bits)[o + 8].frames

\* One bit more of the data.
LEMMA OneBitMore ==
  ASSUME NEW data \in Seq(Bit), NEW i \in 0..Len(data) - 1
  PROVE  Append(SubSeq(data, 1, i), data[i + 1]) = SubSeq(data, 1, i + 1)
<1> DEFINE c == SubSeq(data, 1, i)
           d == data[i + 1]
           x == Append(c, d)
           y == SubSeq(data, 1, i + 1)
<1>1. c \in Seq(Bit) /\ Len(c) = i /\ d \in Bit /\ \A k \in 1..i : c[k] = data[k]
  OBVIOUS
<1>2. y \in Seq(Bit) /\ Len(y) = i + 1 /\ \A k \in 1..i + 1 : y[k] = data[k]
  OBVIOUS
<1>3. d = data[i + 1] /\ i \in Nat
  OBVIOUS
<1> HIDE DEF c, y, d
<1>4. x \in Seq(Bit) /\ Len(x) = i + 1 /\ (\A k \in 1..i : x[k] = c[k]) /\ x[i + 1] = d
  BY <1>1, <1>3
<1> HIDE DEF x
<1>5. \A k \in 1..i + 1 : x[k] = y[k]
  BY <1>1, <1>2, <1>3, <1>4
<1>6. x = y
  BY <1>2, <1>4, <1>5
<1> QED BY <1>6 DEF x, y, c, d

\* Nothing is found on the way.
LEMMA NothingFound ==
  ASSUME NEW S, NEW a \in Nat, NEW e \in Nat, a <= e, NEW first,
         \A j \in a..e : S[j].frames = first, S[e + 1].frames = first
  PROVE  \A j \in a..e + 1 : S[j].frames = first
<1> TAKE j \in a..e + 1
<1>1. j = e + 1 \/ j \in a..e
  OBVIOUS
<1> QED BY <1>1

LEMMA OneFollows ==
  ASSUME NEW data \in Seq(Bit), NEW bits, NEW o, LiesAt(StuffRun(data)[Len(data)].bits, bits, o),
         NEW i \in 0..Len(data) - 1, Follows(data, bits, o, i)
  PROVE  Follows(data, bits, o, i + 1)
<1> DEFINE n == Len(data)
           f == StuffRun(data)[i]
           g == StuffRun(data)[i + 1]
           d == data[i + 1]
           lf == Len(f.bits)
           lg == Len(g.bits)
           e == o + lf
           S == Scanned(bits)
           first == S[o + 8].frames
           c == SubSeq(data, 1, i)
<1>1. n \in Nat /\ i + 1 \in 1..n /\ i \in 0..n /\ i + 1 \in 0..n /\ (i + 1) - 1 = i /\ d \in {0, 1}
      /\ d \in Bit
  BY DEF Bit
<1>2. g = Stuff(f, d) /\ f \in StuffState /\ g \in StuffState
  BY <1>1, StuffSolved
<1>3. /\ f.bits \in Seq(Bit) /\ f.ones \in 0..4 /\ g.bits \in Seq(Bit) /\ g.ones \in 0..4
      /\ lf \in Nat /\ lg \in Nat
  BY <1>2 DEF StuffState
<1>4. /\ bits \in Seq(Bit) /\ o \in Nat /\ Len(bits) \in Nat /\ o + lg <= Len(bits)
      /\ \A k \in 1..lg : bits[o + k] = g.bits[k]
  <2> DEFINE w == StuffRun(data)[n].bits
  <2>1. /\ w \in Seq(Bit) /\ bits \in Seq(Bit) /\ o \in Nat /\ o + Len(w) <= Len(bits)
        /\ \A k \in 1..Len(w) : bits[o + k] = w[k]
    BY DEF LiesAt
  <2>2. i + 1 \in 0..n /\ n \in (i + 1)..n
    BY <1>1
  <2>3. Len(g.bits) <= Len(w) /\ \A k \in 1..Len(g.bits) : w[k] = g.bits[k]
    BY <2>2, StuffedKept
  <2>4. Len(w) \in Nat /\ Len(bits) \in Nat
    BY <2>1
  <2> HIDE DEF w, g
  <2> QED BY <1>3, <2>1, <2>3, <2>4
<1>5. /\ lf >= 8 /\ Ready(bits, e) /\ S[e].ones = f.ones /\ S[e].payload = c
      /\ \A j \in o + 8..e : S[j].frames = first
  BY DEF Follows
<1>6. Append(c, d) = SubSeq(data, 1, i + 1)
  BY OneBitMore
<1>7. \/ d # 1 \/ f.ones < 4
      \/ d = 1 /\ f.ones = 4
  BY <1>1, <1>3
<1>71. ASSUME d # 1 \/ f.ones < 4
       PROVE  g.bits = Append(f.bits, d) /\ g.ones = (IF d = 1 THEN f.ones + 1 ELSE 0)
  <2> HIDE DEF f, g, d
  <2>1. CASE d = 0
    BY <1>1, <1>2, <1>3, <2>1, BitStuffed
  <2>2. CASE d = 1
    BY <1>1, <1>2, <1>3, <1>71, <2>2, BitStuffed
  <2> QED BY <1>1, <2>1, <2>2
<1>72. d = 1 /\ f.ones = 4 => g.bits = Append(Append(f.bits, 1), 0) /\ g.ones = 0
  BY ZenonT(30), <1>1, <1>2, <1>3, BitStuffed
<1>8. Follows(data, bits, o, i + 1) <=>
        /\ lg >= 8 /\ Ready(bits, o + lg) /\ S[o + lg].ones = g.ones
        /\ S[o + lg].payload = SubSeq(data, 1, i + 1)
        /\ \A j \in o + 8..o + lg : S[j].frames = first
  BY DEF Follows
<1> HIDE DEF S, f, g, c, d, n
<1>9. ASSUME NEW w \in Seq(Bit), NEW b \in Bit
      PROVE  /\ Append(w, b) \in Seq(Bit) /\ Len(Append(w, b)) = Len(w) + 1 /\ Len(w) \in Nat
             /\ Append(w, b)[Len(w) + 1] = b /\ \A k \in 1..Len(w) : Append(w, b)[k] = w[k]
  OBVIOUS
<1>10. e \in Nat /\ o + 8 <= e /\ e \in o + 8..e /\ o + 8 \in Nat /\ e = o + lf
  BY <1>3, <1>4, <1>5
<1>11. S[e].frames = first
  BY <1>5, <1>10
<1> HIDE DEF first
<1>12. CASE d # 1 \/ f.ones < 4
  <2>1. lg = lf + 1 /\ g.bits[lf + 1] = d
    BY <1>1, <1>3, <1>9, <1>12, <1>71
  <2> HIDE DEF lf, lg
  <2>2. bits[e + 1] = d /\ e + 1 <= Len(bits) /\ o + lg = e + 1
    <3>1. lf + 1 \in 1..lg /\ o + (lf + 1) = e + 1
      BY <1>3, <1>4, <1>10, <2>1
    <3> QED BY <1>3, <1>4, <1>10, <2>1, <3>1
  <2> HIDE DEF e
  <2>31. DataStep(S[e], S[e + 1], d) /\ (S[e + 1].ones # 5 => Ready(bits, e + 1))
    BY <1>1, <1>4, <1>5, <1>10, <2>2, DataBit DEF S
  <2>3. S[e + 1].frames = first /\ S[e + 1].payload = Append(c, d) /\ S[e + 1].ones = g.ones
    BY <1>5, <1>11, <1>12, <1>71, <2>31 DEF DataStep
  <2>4. Ready(bits, e + 1)
    <3>1. g.ones # 5
      BY <1>3
    <3> QED BY <2>3, <2>31, <3>1
  <2>5. \A j \in o + 8..e + 1 : S[j].frames = first
    BY <1>5, <1>10, <2>3, NothingFound
  <2>6. lg >= 8
    BY <1>3, <1>5, <2>1
  <2> QED BY <1>6, <1>8, <2>2, <2>3, <2>4, <2>5, <2>6
<1>13. CASE d = 1 /\ f.ones = 4
  <2> DEFINE w == Append(f.bits, 1)
  <2>1. w \in Seq(Bit) /\ Len(w) = lf + 1 /\ w[lf + 1] = 1
    BY <1>3, <1>9 DEF Bit
  <2>2. g.bits = Append(w, 0) /\ 0 \in Bit
    BY <1>13, <1>72 DEF Bit
  <2> HIDE DEF w
  <2>3. lg = Len(w) + 1 /\ g.bits[Len(w) + 1] = 0 /\ \A k \in 1..Len(w) : g.bits[k] = w[k]
    BY <1>9, <2>1, <2>2
  <2> HIDE DEF lf, lg
  <2>4. lg = lf + 2 /\ g.bits[lf + 2] = 0 /\ g.bits[lf + 1] = 1
    BY <1>3, <2>1, <2>3
  <2>5. bits[e + 1] = 1 /\ bits[e + 2] = 0 /\ e + 2 <= Len(bits) /\ o + lg = e + 2
    <3>1. lf + 1 \in 1..lg /\ o + (lf + 1) = e + 1 /\ lf + 2 \in 1..lg /\ o + (lf + 2) = e + 2
      BY <1>3, <1>4, <1>10, <2>4
    <3> QED BY <1>3, <1>4, <1>10, <2>4, <3>1
  <2> HIDE DEF e
  <2>61. StuffedStep(S[e], S[e + 1], S[e + 2]) /\ Ready(bits, e + 2)
    BY <1>4, <1>5, <1>10, <1>13, <2>5, StuffedBits DEF S
  <2>6. /\ S[e + 1].frames = first /\ S[e + 2].frames = first
        /\ S[e + 2].payload = Append(c, d) /\ S[e + 2].ones = g.ones /\ Ready(bits, e + 2)
    BY <1>5, <1>11, <1>13, <1>72, <2>61 DEF StuffedStep
  <2>7. \A j \in o + 8..e + 1 : S[j].frames = first
    BY <1>5, <1>10, <2>6, NothingFound
  <2>8. \A j \in o + 8..e + 2 : S[j].frames = first
    <3>1. e + 1 \in Nat /\ o + 8 <= e + 1 /\ e + 1 + 1 = e + 2
      BY <1>10
    <3>2. \A j \in o + 8..(e + 1) + 1 : S[j].frames = first
      BY <1>10, <2>6, <2>7, <3>1, NothingFound
    <3> QED BY <3>1, <3>2
  <2>9. lg >= 8
    BY <1>3, <1>5, <2>4
  <2> QED BY <1>6, <1>8, <2>5, <2>6, <2>8, <2>9
<1> QED BY <1>7, <1>12, <1>13

-----------------------------------------------------------------------------
(* A whole frame in a buffer. *)

\* Octets enough for a check sequence to be looked at.
Octets == {p \in Seq(Bit) : Len(p) >= 8 /\ Len(p) % 8 = 0}

Joins(x, s, t) ==
    /\ x \in Seq(Bit) /\ Len(x) = Len(s) + Len(t) /\ Len(s) \in Nat /\ Len(t) \in Nat
    /\ \A k \in 1..Len(s) : x[k] = s[k]
    /\ \A k \in 1..Len(t) : x[Len(s) + k] = t[k]

LEMMA Joined ==
  ASSUME NEW s \in Seq(Bit), NEW t \in Seq(Bit)
  PROVE  Joins(s \o t, s, t)
BY DEF Joins

\* A part of a sequence that has the length and the items of another is that.
LEMMA SamePart ==
  ASSUME NEW x, NEW y, NEW o, LiesAt(y, x, o)
  PROVE  SubSeq(x, o + 1, o + Len(y)) = y
<1> DEFINE z == SubSeq(x, o + 1, o + Len(y))
<1>1. /\ x \in Seq(Bit) /\ y \in Seq(Bit) /\ o \in Nat /\ o + Len(y) <= Len(x)
      /\ \A k \in 1..Len(y) : x[o + k] = y[k]
  BY DEF LiesAt
<1>2. z \in Seq(Bit) /\ Len(z) = Len(y) /\ \A k \in 1..Len(y) : z[k] = x[o + k]
  BY <1>1
<1> HIDE DEF z
<1>3. z = y
  BY <1>1, <1>2
<1> QED BY <1>3 DEF z

LEMMA FcsBits ==
  ASSUME NEW p
  PROVE  Fcs(p) \in Seq(Bit) /\ Len(Fcs(p)) = 16
<1> DEFINE f == Fcs(p)
<1>1. f \in [1..16 -> {0, 1}]
  BY DEF Fcs
<1> HIDE DEF f
<1>2. f \in Seq({0, 1})
  BY <1>1, SeqDef
<1>3. Len(f) = 16
  BY <1>1
<1> QED BY <1>2, <1>3 DEF f, Bit

\* The data of a frame closes to its payload.
LEMMA DataFinished ==
  ASSUME NEW p \in Octets
  PROVE  /\ FrameData(p) \in Seq(Bit) /\ FinishFrame(FrameData(p)) = <<p>>
         /\ Len(FrameData(p)) = Len(p) + 16
<1> DEFINE c == Fcs(p)
           x == FrameData(p)
           m == Len(p)
           n == (Len(x) \div 8) * 8
<1>1. p \in Seq(Bit) /\ m \in Nat /\ m >= 8 /\ m % 8 = 0
  BY DEF Octets
<1>2. c \in Seq(Bit) /\ Len(c) = 16
  BY FcsBits
<1> HIDE DEF c
<1>3. /\ x \in Seq(Bit) /\ Len(x) = m + 16
      /\ \A k \in 1..m : x[k] = p[k]
      /\ \A k \in 1..16 : x[m + k] = c[k]
  <2>1. x = p \o c /\ m = Len(p)
    BY DEF FrameData, c
  <2> HIDE DEF x, m, n
  <2>2. Joins(p \o c, p, c)
    BY <1>1, <1>2, Joined
  <2> QED BY <1>2, <2>1, <2>2 DEF Joins
<1> HIDE DEF x, m
<1>4. n = m + 16
  BY <1>1, <1>3
<1> HIDE DEF n
<1>5. n >= 24 /\ n - 16 = m /\ n - 15 = m + 1
  BY <1>1, <1>4
<1>6. SubSeq(x, 1, m) = p
  <2>0. m = Len(p) /\ \A k \in 1..m : 0 + k = k
    BY DEF m
  <2>1. 0 + m <= Len(x)
    BY SMTT(20), <1>1, <1>3
  <2>5. ASSUME NEW k \in 1..Len(p) PROVE x[0 + k] = p[k]
    <3>1. k \in 1..m /\ 0 + k = k
      BY <2>0
    <3> QED BY <1>3, <3>1
  <2>2. LiesAt(p, x, 0)
    BY <1>1, <1>3, <2>0, <2>1, <2>5 DEF LiesAt
  <2>3. SubSeq(x, 0 + 1, 0 + Len(p)) = p
    BY <2>2, SamePart
  <2>4. 0 + 1 = 1 /\ 0 + Len(p) = m
    BY <1>1, <2>0
  <2> QED BY <2>3, <2>4
<1>7. SubSeq(x, m + 1, n) = c
  <2>1. m + 16 <= Len(x)
    BY <1>1, <1>3
  <2>2. LiesAt(c, x, m)
    BY <1>1, <1>2, <1>3, <2>1 DEF LiesAt
  <2>3. SubSeq(x, m + 1, m + Len(c)) = c
    BY <2>2, SamePart
  <2> QED BY <1>2, <1>4, <2>3
<1>8. FinishFrame(x) = IF n >= 24 /\ Fcs(SubSeq(x, 1, n - 16)) = SubSeq(x, n - 15, n)
                       THEN <<SubSeq(x, 1, n - 16)>> ELSE <<>>
  BY DEF FinishFrame, n
<1>9. FinishFrame(x) = <<p>>
  BY <1>5, <1>6, <1>7, <1>8 DEF c
<1> QED BY <1>3, <1>9 DEF x, m

\* The opening flag, the stuffed data, the closing flag.
LEMMA FrameShape ==
  ASSUME NEW p \in Octets
  PROVE  LET e == StuffRun(FrameData(p))[Len(FrameData(p))].bits
         IN  /\ HdlcFrame(p) = e \o Flag /\ e \in Seq(Bit) /\ Flag \in Seq(Bit) /\ Len(Flag) = 8
             /\ Len(e) >= 8 /\ \A k \in 1..8 : e[k] = Flag[k]
<1> DEFINE d == FrameData(p)
           n == Len(d)
           e == StuffRun(d)[n].bits
<1>1. d \in Seq(Bit) /\ n \in Nat
  BY DataFinished
<1>2. HdlcFrame(p) = e \o Flag
  BY DEF HdlcFrame, StuffRun, FrameData
<1>3. Flag \in Seq(Bit) /\ Len(Flag) = 8
  BY DEF Flag, Bit
<1> HIDE DEF d
<1>4. StuffRun(d)[0].bits = Flag
  BY <1>1, StuffSolved
<1>5. e \in Seq(Bit) /\ Len(Flag) <= Len(e) /\ \A k \in 1..Len(Flag) : e[k] = Flag[k]
  <2>1. 0 \in 0..n /\ n \in 0..n
    BY <1>1
  <2> QED BY <1>1, <1>4, <2>1, StuffedKept
<1> QED BY <1>2, <1>3, <1>5 DEF d

\* A flag opens a frame, whatever was before it.
LEMMA FlagOpens ==
  ASSUME NEW bits \in Seq(Bit), NEW o \in Nat, FlagAfter(bits, o)
  PROVE  LET s == Scanned(bits)[o + 8]
         IN  IsFlagEnd(bits, o + 8) /\ Ready(bits, o + 8) /\ s.ones = 0 /\ s.payload = <<>>
<1> DEFINE s == Scanned(bits)[o + 8]
<1>1. /\ o + 8 \in 1..Len(bits) /\ o + 8 >= 8 /\ o + 7 \in 0..Len(bits) - 1
      /\ o + 7 + 1 = o + 8
  <2>1. o + 8 <= Len(bits) /\ Len(bits) \in Nat
    BY DEF FlagAfter
  <2> HIDE DEF s
  <2> QED BY <2>1
<1>2. /\ bits[o + 1] = 0 /\ bits[o + 2] = 1 /\ bits[o + 3] = 1 /\ bits[o + 4] = 1
      /\ bits[o + 5] = 1 /\ bits[o + 6] = 1 /\ bits[o + 7] = 1 /\ bits[o + 8] = 0
  BY DEF FlagAfter, Flag
<1>3. o + 8 - 7 = o + 1 /\ bits[o + 8 - 7] = 0
  BY <1>2
<1>4. ASSUME NEW k \in 1..6 PROVE bits[o + 8 - k] = 1
  <2>1. /\ o + 8 - 1 = o + 7 /\ o + 8 - 2 = o + 6 /\ o + 8 - 3 = o + 5 /\ o + 8 - 4 = o + 4
        /\ o + 8 - 5 = o + 3 /\ o + 8 - 6 = o + 2
    OBVIOUS
  <2>2. k = 1 \/ k = 2 \/ k = 3 \/ k = 4 \/ k = 5 \/ k = 6
    OBVIOUS
  <2> QED BY <1>2, <2>1, <2>2
<1>5. IsFlagEnd(bits, o + 8)
  BY <1>1, <1>2, <1>3, <1>4, FlagShape
<1>6. s.collecting = TRUE /\ s.ones = 0 /\ s.payload = <<>>
  <2>1. FlagStep(Scanned(bits)[o + 7], s)
    BY <1>1, <1>5, NextScan
  <2> HIDE DEF s
  <2> QED BY <2>1, Zenon DEF FlagStep
<1>7. Ready(bits, o + 8)
  <2> DEFINE e == o + 8
  <2>1. bits[e] = 0 /\ e - 0 = e /\ 0 < e
    BY <1>1, <1>2
  <2>2. bits[e - s.ones] = 0 /\ s.ones \in 0..4 /\ s.ones < e
    BY <1>6, <2>1
  <2> QED BY <1>6, <2>2 DEF Ready
<1> QED BY <1>5, <1>6, <1>7

\* Where the flag ends that ends a frame.
FrameEnd(p, o) == o + Len(StuffRun(FrameData(p))[Len(FrameData(p))].bits)

\* A frame is found at the end of its closing flag, and nothing before that.
FoundIn(bits, p, o) ==
    LET S == Scanned(bits)
        e == FrameEnd(p, o)
    IN  /\ e \in Nat /\ o + 8 <= e /\ e + 8 = o + Len(HdlcFrame(p)) /\ e + 8 <= Len(bits)
        /\ \A j \in o + 8..e + 7 : S[j].frames = S[o + 8].frames
        /\ S[e + 8].frames = S[o + 8].frames \o <<p>>
        /\ Ready(bits, e + 8)

LEMMA FrameScanned ==
  ASSUME NEW p \in Octets, NEW bits, NEW o, LiesAt(HdlcFrame(p), bits, o)
  PROVE  FoundIn(bits, p, o)
<1> DEFINE d == FrameData(p)
           n == Len(d)
           w == StuffRun(d)[n].bits
           e == o + Len(w)
           S == Scanned(bits)
<1>1. d \in Seq(Bit) /\ n \in Nat /\ FinishFrame(d) = <<p>>
  BY DataFinished
<1>2. HdlcFrame(p) = w \o Flag /\ w \in Seq(Bit) /\ Flag \in Seq(Bit) /\ Len(Flag) = 8
      /\ Len(w) >= 8 /\ (\A k \in 1..8 : w[k] = Flag[k]) /\ Len(w) \in Nat
  BY FrameShape
<1>3. e = FrameEnd(p, o)
  BY DEF FrameEnd
<1> DEFINE lw == Len(w)
<1> HIDE DEF w, d, n, S
<1>4. /\ bits \in Seq(Bit) /\ o \in Nat /\ Len(bits) \in Nat /\ o + lw + 8 <= Len(bits)
      /\ \A k \in 1..lw : bits[o + k] = w[k]
      /\ \A k \in 1..8 : bits[o + (lw + k)] = Flag[k]
      /\ Len(HdlcFrame(p)) = lw + 8 /\ lw \in Nat /\ lw >= 8
  <2> DEFINE x == HdlcFrame(p)
  <2>1. /\ x \in Seq(Bit) /\ bits \in Seq(Bit) /\ o \in Nat /\ o + Len(x) <= Len(bits)
        /\ \A k \in 1..Len(x) : bits[o + k] = x[k]
    BY DEF LiesAt
  <2> HIDE DEF x
  <2>2. x = w \o Flag /\ w \in Seq(Bit) /\ Flag \in Seq(Bit) /\ lw = Len(w) /\ 8 = Len(Flag)
    BY <1>2 DEF x, lw
  <2>3. /\ Len(x) = lw + 8 /\ \A k \in 1..lw : x[k] = w[k]
        /\ \A k \in 1..8 : x[lw + k] = Flag[k]
    <3> HIDE DEF lw
    <3>1. Joins(w \o Flag, w, Flag)
      BY <2>2, Joined
    <3> QED BY <2>2, <3>1 DEF Joins
  <2>4. lw \in Nat /\ lw >= 8 /\ Len(bits) \in Nat
    BY <1>2, <2>1
  <2> HIDE DEF lw
  <2>5. \A k \in 1..lw : k \in 1..Len(x)
    BY <2>3, <2>4
  <2>6. \A k \in 1..8 : lw + k \in 1..Len(x)
    BY <2>3, <2>4
  <2>7. o + lw + 8 <= Len(bits)
    BY <2>1, <2>3, <2>4
  <2> QED BY <2>1, <2>3, <2>4, <2>5, <2>6, <2>7 DEF x
<1>41. lw \in Nat /\ lw >= 8 /\ o \in Nat /\ o + lw + 8 <= Len(bits) /\ Len(bits) \in Nat
  BY <1>4
<1> HIDE DEF lw
<1>5. e \in Nat /\ o + 8 <= e /\ e + 8 = o + Len(HdlcFrame(p)) /\ e + 8 <= Len(bits) /\ e = o + lw
  BY <1>4 DEF lw
<1>6. FlagAfter(bits, e)
  <2>1. \A k \in 1..8 : e + k = o + (lw + k)
    <3> HIDE DEF e
    <3> QED BY <1>41, <1>5
  <2> QED BY <1>4, <1>5, <2>1 DEF FlagAfter
<1>7. LiesAt(w, bits, o)
  BY <1>2, <1>4 DEF LiesAt, lw
<1>8. FlagAfter(bits, o)
  <2>1. \A k \in 1..8 : k \in 1..lw
    BY <1>41
  <2>2. o + 8 <= Len(bits)
    BY <1>4
  <2> QED BY <1>2, <1>4, <2>1, <2>2 DEF FlagAfter
<1> HIDE DEF e
<1> DEFINE f == S[o + 8]
<1> HIDE DEF f
<1>10. Ready(bits, o + 8) /\ f.ones = 0 /\ f.payload = <<>>
  BY <1>4, <1>8, FlagOpens DEF S, f
<1>12. Follows(d, bits, o, 0)
  <2>1. StuffRun(d)[0] = [bits |-> Flag, ones |-> 0]
    BY <1>1, StuffSolved
  <2>2. SubSeq(d, 1, 0) = <<>>
    BY <1>1
  <2>3. \A j \in o + 8..o + 8 : S[j].frames = f.frames
    BY <1>4 DEF f
  <2>4. Len(StuffRun(d)[0].bits) = 8 /\ StuffRun(d)[0].ones = 0
    BY <1>2, <2>1
  <2>5. o + Len(StuffRun(d)[0].bits) = o + 8 /\ Len(StuffRun(d)[0].bits) >= 8
    BY <2>4
  <2>6. Follows(d, bits, o, 0) <=>
          /\ Len(StuffRun(d)[0].bits) >= 8 /\ Ready(bits, o + 8)
          /\ f.ones = StuffRun(d)[0].ones /\ f.payload = SubSeq(d, 1, 0)
          /\ \A j \in o + 8..o + 8 : S[j].frames = f.frames
    BY <2>5 DEF Follows, S, f
  <2> QED BY <1>10, <2>2, <2>3, <2>4, <2>5, <2>6
<1>13. Follows(d, bits, o, n)
  <2> DEFINE G == {i \in 0..n : Follows(d, bits, o, i)}
  <2>1. 0 \in G
    BY <1>1, <1>12
  <2>2. ASSUME NEW i \in 0..n - 1, i \in G PROVE i + 1 \in G
    BY <1>1, <1>7, <2>2, OneFollows DEF w, n
  <2>3. G = 0..n
    <3>1. G \subseteq 0..n
      OBVIOUS
    <3> HIDE DEF G
    <3> QED BY <1>1, <2>1, <2>2, <3>1, HandedOn
  <2> QED BY <1>1, <2>3
<1>14. /\ Ready(bits, e) /\ S[e].payload = d
       /\ \A j \in o + 8..e : S[j].frames = f.frames
  <2>1. SubSeq(d, 1, n) = d
    BY <1>1 DEF n
  <2> QED BY <1>13, <2>1 DEF Follows, w, e, S, f, lw
<1>15. /\ \A k \in 0..7 : S[e + k].frames = S[e].frames
       /\ S[e + 8].payload = <<>> /\ S[e + 8].frames = S[e].frames \o FinishFrame(d)
       /\ Ready(bits, e + 8) /\ S[e + 8].ones = 0
  BY <1>4, <1>5, <1>6, <1>14, FlagScanned DEF S
<1>16. S[e].frames = f.frames
  <2>1. e \in o + 8..e
    BY <1>4, <1>5
  <2> QED BY <1>14, <2>1
<1>17. \A j \in o + 8..e + 7 : S[j].frames = f.frames
  <2> TAKE j \in o + 8..e + 7
  <2>1. CASE j <= e
    <3>1. j \in o + 8..e
      BY <1>4, <1>5, <2>1
    <3> QED BY <1>14, <3>1
  <2>2. CASE j > e
    <3>1. j - e \in 0..7 /\ e + (j - e) = j
      BY <1>4, <1>5, <2>2
    <3> QED BY <1>15, <1>16, <3>1
  <2> QED BY <1>4, <1>5, <2>1, <2>2
<1> QED BY <1>1, <1>3, <1>5, <1>15, <1>16, <1>17 DEF S, f, FoundIn

\* The payload of a frame comes out of any bits that the frame lies in: what
\* comes before and after, the ones of its own data, and a check sequence that
\* looks like a flag notwithstanding (hdlc_frame, hdlc_deframe and finish_frame
\* in dsp/src/framing/hdlc.rs).
THEOREM FrameFound ==
  ASSUME NEW p \in Octets, NEW bits, NEW o, LiesAt(HdlcFrame(p), bits, o)
  PROVE  \E k \in DOMAIN HdlcDeframe(bits) : HdlcDeframe(bits)[k] = p
<1> DEFINE S == Scanned(bits)
           e == FrameEnd(p, o)
           x == S[o + 8].frames
           y == S[e + 8].frames
<1>1. e \in Nat /\ o + 8 <= e /\ e + 8 <= Len(bits) /\ y = x \o <<p>>
  BY SMTT(20), FrameScanned DEF FoundIn
<1>2. bits \in Seq(Bit) /\ o \in Nat /\ p \in Seq(Bit)
  BY DEF LiesAt, Octets
<1>3. o + 8 \in 0..Len(bits) /\ e + 8 \in 0..Len(bits)
  BY <1>1, <1>2
<1>4. x \in Seq(Seq(Bit))
  BY <1>2, <1>3, ScanSolved DEF Scan
<1> HIDE DEF x, y, e
<1>5. Len(x) + 1 \in DOMAIN y /\ y[Len(x) + 1] = p
  BY <1>1, <1>2, <1>4
<1>6. \E k \in DOMAIN S[e + 8].frames : S[e + 8].frames[k] = p
  BY <1>5 DEF y
<1> QED BY <1>2, <1>3, <1>6, FramesKept

-----------------------------------------------------------------------------
(* Line levels. *)

\* How many zeros there are up to a place.
Zeros(bits, i) == {k \in 1..i : bits[k] = 0}

LEMMA OneMoreZero ==
  ASSUME NEW bits, NEW i \in Nat
  PROVE  /\ IsFiniteSet(Zeros(bits, i)) /\ Cardinality(Zeros(bits, i)) \in Nat
         /\ Cardinality(Zeros(bits, i + 1)) =
              Cardinality(Zeros(bits, i)) + (IF bits[i + 1] = 0 THEN 1 ELSE 0)
<1>1. IsFiniteSet(1..i) /\ Zeros(bits, i) \subseteq 1..i
  BY FS_Interval DEF Zeros
<1>2. IsFiniteSet(Zeros(bits, i)) /\ Cardinality(Zeros(bits, i)) \in Nat
  BY <1>1, FS_Subset, FS_CardinalityType
<1>3. i + 1 \notin Zeros(bits, i)
  BY DEF Zeros
<1>4. Zeros(bits, i + 1) = IF bits[i + 1] = 0 THEN Zeros(bits, i) \cup {i + 1} ELSE Zeros(bits, i)
  BY DEF Zeros
<1>5. Cardinality(Zeros(bits, i) \cup {i + 1}) = Cardinality(Zeros(bits, i)) + 1
  BY <1>2, <1>3, FS_AddElement
<1> QED BY <1>2, <1>4, <1>5

\* Levels of zeros and ones; a zero changes the level, a one does not.
LEMMA Encoded ==
  ASSUME NEW bits \in Seq(Bit)
  PROVE  LET x == NrziEncode(bits)
         IN  /\ x \in Seq(Bit) /\ Len(x) = Len(bits)
             /\ \A i \in 1..Len(bits) - 1 : (x[i + 1] = x[i]) <=> (bits[i + 1] = 1)
<1> DEFINE n == Len(bits)
           x == NrziEncode(bits)
<1>1. n \in Nat /\ x = [i \in 1..n |-> Cardinality(Zeros(bits, i)) % 2]
  BY DEF NrziEncode, Zeros
<1>2. ASSUME NEW i \in 1..n PROVE x[i] \in Bit
  <2>1. Cardinality(Zeros(bits, i)) \in Nat
    BY OneMoreZero
  <2> QED BY <1>1, <2>1 DEF Bit
<1>3. x \in [1..n -> Bit]
  <2> HIDE DEF n
  <2> QED BY <1>1, <1>2
<1>4. x \in Seq(Bit) /\ Len(x) = n
  <2> HIDE DEF x, n
  <2> QED BY <1>1, <1>3, SeqDef, LenProperties
<1>5. ASSUME NEW i \in 1..n - 1 PROVE (x[i + 1] = x[i]) <=> (bits[i + 1] = 1)
  <2> DEFINE a == Cardinality(Zeros(bits, i))
             b == Cardinality(Zeros(bits, i + 1))
  <2>1. x[i] = a % 2 /\ x[i + 1] = b % 2 /\ bits[i + 1] \in {0, 1}
    BY <1>1 DEF Bit
  <2>2. a \in Nat /\ b = a + (IF bits[i + 1] = 0 THEN 1 ELSE 0)
    BY SMTT(20), <1>1, OneMoreZero
  <2> HIDE DEF a, b, x
  <2> QED BY <2>1, <2>2
<1> QED BY <1>4, <1>5

LEMMA Decoded ==
  ASSUME NEW line \in Seq(Bit)
  PROVE  LET y == NrziDecode(line)
         IN  /\ y \in Seq(Bit) /\ Len(y) = Len(line)
             /\ \A i \in 2..Len(line) : y[i] = IF line[i] = line[i - 1] THEN 1 ELSE 0
<1> DEFINE n == Len(line)
           y == NrziDecode(line)
<1>1. n \in Nat /\ y = [i \in 1..n |-> IF line[i] = (IF i = 1 THEN 0 ELSE line[i - 1]) THEN 1 ELSE 0]
  BY DEF NrziDecode
<1>2. y \in [1..n -> Bit]
  BY <1>1 DEF Bit
<1>3. y \in Seq(Bit) /\ Len(y) = n
  <2> HIDE DEF y, n
  <2> QED BY <1>1, <1>2, SeqDef, LenProperties
<1>4. \A i \in 2..n : y[i] = IF line[i] = line[i - 1] THEN 1 ELSE 0
  BY <1>1
<1> QED BY <1>3, <1>4

\* Of levels that lie in others all bits but the first come out.
LEMMA Bursted ==
  ASSUME NEW bits \in Seq(Bit), NEW line, NEW o, LiesAt(NrziEncode(bits), line, o)
  PROVE  LET y == NrziDecode(line)
         IN  /\ y \in Seq(Bit) /\ Len(y) = Len(line) /\ o \in Nat /\ o + Len(bits) <= Len(y)
             /\ \A i \in 2..Len(bits) : y[o + i] = bits[i]
<1> DEFINE n == Len(bits)
           x == NrziEncode(bits)
           y == NrziDecode(line)
<1>1. x \in Seq(Bit) /\ Len(x) = n /\ n \in Nat
  BY Encoded
<1>2. line \in Seq(Bit) /\ o \in Nat /\ o + n <= Len(line) /\ \A k \in 1..n : line[o + k] = x[k]
  BY <1>1 DEF LiesAt
<1>3. y \in Seq(Bit) /\ Len(y) = Len(line)
  BY <1>2, Decoded
<1>4. ASSUME NEW i \in 2..n PROVE y[o + i] = bits[i]
  <2>1. i - 1 \in 1..n - 1 /\ (i - 1) + 1 = i /\ i \in 1..n /\ i - 1 \in 1..n /\ bits[i] \in {0, 1}
    BY <1>1 DEF Bit
  <2>2. (x[i] = x[i - 1]) <=> (bits[i] = 1)
    BY <2>1, Encoded
  <2>3. o + i \in 2..Len(line) /\ o + i - 1 = o + (i - 1)
    BY <1>2, <1>3
  <2>4. y[o + i] = IF line[o + i] = line[o + (i - 1)] THEN 1 ELSE 0
    BY <1>2, <2>3, Decoded
  <2> QED BY <1>2, <2>1, <2>2, <2>4
<1> QED BY <1>2, <1>3, <1>4

-----------------------------------------------------------------------------
(* A burst. *)

BurstBits(p) == PreambleBits(PreambleFlags) \o HdlcFrame(p) \o PreambleBits(PostambleFlags)

\* Where the frame of a burst begins, and where its closing flag ends.
Before == 8 * PreambleFlags
Closed(p) == Before + Len(HdlcFrame(p))

LEMMA FlagsShape ==
  ASSUME NEW n \in Nat
  PROVE  LET f == PreambleBits(n)
         IN  /\ f \in Seq(Bit) /\ Len(f) = 8 * n
             /\ \A j \in 0..n - 1, k \in 1..8 : f[8 * j + k] = Flag[k]
<1> DEFINE f == PreambleBits(n)
           m == 8 * n
<1>1. m \in Nat /\ f = [i \in 1..m |-> Flag[((i - 1) % 8) + 1]]
  BY DEF PreambleBits
<1>2. \A k \in 1..8 : Flag[k] \in Bit
  BY DEF Flag, Bit
<1>3. f \in [1..m -> Bit]
  <2>1. ASSUME NEW i \in 1..m PROVE ((i - 1) % 8) + 1 \in 1..8
    BY <1>1
  <2> HIDE DEF f, m
  <2> QED BY <1>1, <1>2, <2>1
<1>4. f \in Seq(Bit) /\ Len(f) = m
  <2> HIDE DEF f, m
  <2> QED BY <1>1, <1>3, SeqDef, LenProperties
<1>5. ASSUME NEW j \in 0..n - 1, NEW k \in 1..8 PROVE f[8 * j + k] = Flag[k]
  <2>1. 8 * j + k \in 1..m /\ ((8 * j + k - 1) % 8) + 1 = k
    <3> HIDE DEF f
    <3> QED OBVIOUS
  <2> HIDE DEF m
  <2> QED BY <1>1, <2>1
<1> QED BY <1>4, <1>5

LEMMA FrameBits ==
  ASSUME NEW p \in Octets
  PROVE  HdlcFrame(p) \in Seq(Bit) /\ Len(HdlcFrame(p)) \in Nat /\ Len(HdlcFrame(p)) >= 16
<1> DEFINE e == StuffRun(FrameData(p))[Len(FrameData(p))].bits
<1>1. HdlcFrame(p) = e \o Flag /\ e \in Seq(Bit) /\ Flag \in Seq(Bit) /\ Len(Flag) = 8 /\ Len(e) >= 8
  BY FrameShape
<1> HIDE DEF e
<1>2. Joins(e \o Flag, e, Flag)
  BY <1>1, Joined
<1> QED BY <1>1, <1>2 DEF Joins

LEMMA BurstShape ==
  ASSUME NEW p \in Octets
  PROVE  LET b == BurstBits(p)
         IN  /\ b \in Seq(Bit) /\ Before \in Nat /\ Before >= 8 /\ Closed(p) \in Nat
             /\ Closed(p) >= Before + 16
             /\ Len(b) = Closed(p) + 8 * PostambleFlags
             /\ LiesAt(HdlcFrame(p), b, Before)
             /\ \A j \in 0..PreambleFlags - 1 : FlagAfter(b, 8 * j)
             /\ \A j \in 0..PostambleFlags - 1 : FlagAfter(b, Closed(p) + 8 * j)
<1> DEFINE b == BurstBits(p)
           x == PreambleBits(PreambleFlags)
           h == HdlcFrame(p)
           z == PreambleBits(PostambleFlags)
           y == x \o h
           m == PreambleFlags
           n == PostambleFlags
           c == Closed(p)
<1>1. m \in Nat /\ m >= 1 /\ n \in Nat /\ n >= 1
  BY PacketRxAssumption
<1>2. /\ x \in Seq(Bit) /\ Len(x) = 8 * m
      /\ \A j \in 0..m - 1, k \in 1..8 : x[8 * j + k] = Flag[k]
  BY <1>1, FlagsShape
<1>3. /\ z \in Seq(Bit) /\ Len(z) = 8 * n
      /\ \A j \in 0..n - 1, k \in 1..8 : z[8 * j + k] = Flag[k]
  BY <1>1, FlagsShape
<1>4. h \in Seq(Bit) /\ Len(h) \in Nat /\ Len(h) >= 16
  BY FrameBits
<1>5. b = y \o z
  BY DEF BurstBits
<1>6. Before = 8 * m /\ c = Before + Len(h)
  BY DEF Before, Closed
<1> HIDE DEF b, x, h, z, m, n, c
<1>7. Joins(y, x, h)
  BY <1>2, <1>4, Joined
<1> HIDE DEF y
<1>8. Joins(b, y, z)
  BY <1>3, <1>5, <1>7, Joined DEF Joins
<1>9. /\ Before \in Nat /\ Before >= 8 /\ c \in Nat /\ c >= Before + 16 /\ Len(y) = c
      /\ Len(b) = c + 8 * n /\ Len(x) = Before /\ b \in Seq(Bit)
  BY <1>1, <1>2, <1>3, <1>4, <1>6, <1>7, <1>8 DEF Joins
<1>10. LiesAt(h, b, Before)
  <2>1. ASSUME NEW k \in 1..Len(h) PROVE b[Before + k] = h[k]
    <3>1. Before + k \in 1..Len(y)
      BY <1>4, <1>6, <1>9
    <3>2. y[Before + k] = h[k] /\ b[Before + k] = y[Before + k]
      BY <1>7, <1>8, <1>9, <3>1 DEF Joins
    <3> QED BY <3>2
  <2>2. Before + Len(h) <= Len(b)
    BY <1>1, <1>6, <1>9
  <2> QED BY <1>4, <1>9, <2>1, <2>2 DEF LiesAt
<1>11. ASSUME NEW j \in 0..m - 1 PROVE FlagAfter(b, 8 * j)
  <2>1. 8 * j + 8 <= Before /\ Before <= c /\ c <= Len(b)
    BY <1>1, <1>4, <1>6, <1>9
  <2>2. ASSUME NEW k \in 1..8 PROVE b[8 * j + k] = Flag[k]
    <3>1. 8 * j + k \in 1..Before /\ 8 * j + k \in 1..c
      BY <1>9, <2>1
    <3>2. y[8 * j + k] = x[8 * j + k] /\ b[8 * j + k] = y[8 * j + k]
      BY <1>7, <1>8, <1>9, <3>1 DEF Joins
    <3> QED BY <1>2, <3>2
  <2>3. 8 * j + 8 <= Len(b)
    BY <1>9, <2>1
  <2> QED BY <2>2, <2>3 DEF FlagAfter
<1>12. ASSUME NEW j \in 0..n - 1 PROVE FlagAfter(b, c + 8 * j)
  <2>1. 8 * j + 8 <= Len(z) /\ c + 8 * j + 8 <= Len(b)
    BY <1>1, <1>3, <1>9
  <2>2. ASSUME NEW k \in 1..8 PROVE b[c + 8 * j + k] = Flag[k]
    <3>1. 8 * j + k \in 1..Len(z) /\ c + 8 * j + k = c + (8 * j + k)
      <4>1. 8 * j + 8 <= Len(z) /\ Len(z) \in Nat /\ c \in Nat /\ j \in Nat
        BY <1>1, <1>3, <1>9, <2>1
      <4> QED BY ONLY <4>1, k \in 1..8
    <3>2. b[c + (8 * j + k)] = z[8 * j + k]
      BY <1>8, <1>9, <3>1 DEF Joins
    <3> QED BY <1>3, <3>1, <3>2
  <2> QED BY <2>1, <2>2 DEF FlagAfter
<1> QED BY <1>9, <1>10, <1>11, <1>12 DEF b, h, m, n, c

\* The payload of a burst comes out of any levels that the burst lies in,
\* whatever level the line had before it: the first bit may be read wrong, but
\* it is one of the preamble's (nrzi_encode, nrzi_decode in
\* dsp/src/fec/nrzi.rs; modulate in dsp/src/modes/afsk1200.rs).
THEOREM BurstFound ==
  ASSUME NEW p \in Octets, NEW line, NEW o, LiesAt(Modulate(p), line, o)
  PROVE  LET found == HdlcDeframe(NrziDecode(line))
         IN  \E k \in DOMAIN found : found[k] = p
<1> DEFINE b == BurstBits(p)
           h == HdlcFrame(p)
           y == NrziDecode(line)
<1>1. Modulate(p) = NrziEncode(b)
  BY DEF Modulate, BurstBits
<1>2. b \in Seq(Bit) /\ Before \in Nat /\ Before >= 8 /\ LiesAt(h, b, Before)
  BY BurstShape
<1> HIDE DEF b, h, y
<1>3. /\ y \in Seq(Bit) /\ o \in Nat /\ o + Len(b) <= Len(y)
      /\ \A i \in 2..Len(b) : y[o + i] = b[i]
  BY <1>1, <1>2, Bursted DEF y
<1>4. LiesAt(h, y, o + Before)
  <2>1. h \in Seq(Bit) /\ Before + Len(h) <= Len(b) /\ \A k \in 1..Len(h) : b[Before + k] = h[k]
    BY <1>2 DEF LiesAt
  <2>2. Len(h) \in Nat /\ Len(b) \in Nat /\ Len(y) \in Nat
    BY <1>2, <1>3, <2>1
  <2>3. ASSUME NEW k \in 1..Len(h) PROVE y[o + Before + k] = h[k]
    <3>1. Before + k \in 2..Len(b) /\ o + Before + k = o + (Before + k)
      BY <1>2, <1>3, <2>1, <2>2
    <3> QED BY <1>3, <2>1, <3>1
  <2>4. o + Before \in Nat /\ o + Before + Len(h) <= Len(y)
    BY <1>2, <1>3, <2>1, <2>2
  <2> QED BY <1>3, <2>1, <2>3, <2>4 DEF LiesAt
<1> QED BY <1>4, FrameFound DEF h, y

-----------------------------------------------------------------------------
(* A quiet channel: what is in a buffer beside the burst. *)

\* No frame was found up to a place, and little was collected.
Calm(bits, i, r) == Scanned(bits)[i].frames = <<>> /\ Len(Scanned(bits)[i].payload) <= r

\* Less than a check sequence is no frame.
LEMMA ShortClosed ==
  ASSUME NEW s \in Scan, Len(s.payload) <= 30
  PROVE  Closing(s) = <<>>
<1> DEFINE n == Len(s.payload)
           c == SubSeq(s.payload, 1, n - 7)
<1>1. s.payload \in Seq(Bit) /\ n \in Nat /\ n <= 30
  BY DEF Scan
<1>2. CASE n < 7
  BY <1>1, <1>2 DEF Closing
<1>3. CASE n >= 7
  <2>1. Len(c) = n - 7
    BY <1>1, <1>3
  <2> DEFINE k == (Len(c) \div 8) * 8
  <2>2. ~(k >= 24)
    <3>1. Len(c) \in Nat /\ Len(c) <= 23
      BY <1>1, <1>3, <2>1
    <3> HIDE DEF c
    <3> QED BY <3>1
  <2>3. FinishFrame(c) = IF k >= 24 /\ Fcs(SubSeq(c, 1, k - 16)) = SubSeq(c, k - 15, k)
                         THEN <<SubSeq(c, 1, k - 16)>> ELSE <<>>
    BY DEF FinishFrame
  <2> HIDE DEF k, c
  <2>4. FinishFrame(c) = <<>>
    BY <2>2, <2>3
  <2> QED BY <2>4 DEF Closing, c
<1> QED BY <1>1, <1>2, <1>3

LEMMA CalmBit ==
  ASSUME NEW bits \in Seq(Bit), NEW i \in 0..Len(bits) - 1, NEW r \in 0..30, Calm(bits, i, r)
  PROVE  Calm(bits, i + 1, r + 1) /\ (IsFlagEnd(bits, i + 1) => Calm(bits, i + 1, 0))
<1> DEFINE s == Scanned(bits)[i]
           t == Scanned(bits)[i + 1]
           b == bits[i + 1]
<1>1. s \in Scan /\ t \in Scan /\ b \in Bit
  BY NextScan DEF Bit
<1>2. s.frames = <<>> /\ Len(s.payload) <= r /\ s.payload \in Seq(Bit) /\ Len(s.payload) \in Nat
  BY <1>1 DEF Calm, Scan
<1>3. CASE IsFlagEnd(bits, i + 1)
  <2>1. FlagStep(s, t)
    BY <1>3, NextScan
  <2>2. Closing(s) = <<>>
    BY <1>1, <1>2, ShortClosed
  <2> HIDE DEF s, t
  <2>3. t.payload = <<>> /\ t.frames = s.frames \o Closing(s)
    BY <2>1, Zenon DEF FlagStep
  <2>4. t.frames = <<>> /\ Len(t.payload) = 0
    BY <1>2, <2>2, <2>3
  <2> QED BY <2>4 DEF Calm, t
<1>4. CASE ~IsFlagEnd(bits, i + 1)
  <2>1. BitStep(s, t, b)
    BY <1>4, NextScan
  <2> HIDE DEF s, t, b
  <2>2. t.frames = s.frames /\ (t.payload = Append(s.payload, b) \/ t.payload = s.payload)
    BY <2>1, Zenon DEF BitStep
  <2>3. Len(t.payload) <= r + 1
    BY <1>1, <1>2, <2>2
  <2> QED BY <1>2, <1>4, <2>2, <2>3 DEF Calm, t
<1> QED BY <1>3, <1>4

LEMMA CalmBits ==
  ASSUME NEW bits \in Seq(Bit), NEW i \in Nat, NEW n \in Nat, i + n <= Len(bits),
         NEW r \in Nat, r + n <= 31, Calm(bits, i, r)
  PROVE  \A k \in 0..n : Calm(bits, i + k, r + k)
<1> DEFINE G == {k \in 0..n : Calm(bits, i + k, r + k)}
<1>1. 0 \in G
  <2>1. i + 0 = i /\ r + 0 = r
    OBVIOUS
  <2> QED BY <2>1
<1>2. ASSUME NEW k \in 0..n - 1, k \in G PROVE k + 1 \in G
  <2>1. /\ i + k \in 0..Len(bits) - 1 /\ r + k \in 0..30 /\ i + k + 1 = i + (k + 1)
        /\ r + k + 1 = r + (k + 1) /\ k + 1 \in 0..n
    <3>1. Len(bits) \in Nat
      OBVIOUS
    <3> HIDE DEF G
    <3> QED BY <3>1
  <2>2. Calm(bits, i + k, r + k)
    BY <1>2
  <2>3. Calm(bits, i + k + 1, r + k + 1)
    BY <2>1, <2>2, CalmBit
  <2> QED BY <2>1, <2>3
<1>3. G = 0..n
  <2>1. G \subseteq 0..n
    OBVIOUS
  <2> HIDE DEF G
  <2> QED BY <1>1, <1>2, <2>1, HandedOn
<1> QED BY <1>3

LEMMA Calmer ==
  ASSUME NEW bits \in Seq(Bit), NEW i \in 0..Len(bits), NEW r \in Nat, NEW q \in Nat, r <= q,
         Calm(bits, i, r)
  PROVE  Calm(bits, i, q)
<1>1. Len(Scanned(bits)[i].payload) \in Nat
  <2>1. Scanned(bits)[i].payload \in Seq(Bit)
    BY ScanSolved DEF Scan
  <2> QED BY <2>1
<1> QED BY <1>1 DEF Calm

LEMMA CalmFlag ==
  ASSUME NEW bits \in Seq(Bit), NEW i \in Nat, FlagAfter(bits, i),
         NEW r \in 0..23, Calm(bits, i, r)
  PROVE  Calm(bits, i + 8, 0) /\ \A k \in 0..8 : Calm(bits, i + k, 31)
<1>1. i + 8 <= Len(bits) /\ Len(bits) \in Nat
  BY DEF FlagAfter
<1>2. \A k \in 0..8 : Calm(bits, i + k, r + k)
  BY <1>1, CalmBits
<1>3. Calm(bits, i + 8, 0)
  <2>1. IsFlagEnd(bits, i + 8)
    BY FlagOpens
  <2>2. i + 7 \in 0..Len(bits) - 1 /\ r + 7 \in 0..30 /\ i + 7 + 1 = i + 8
    BY <1>1
  <2>3. Calm(bits, i + 7, r + 7)
    BY <1>2
  <2> QED BY <2>1, <2>2, <2>3, CalmBit
<1>4. ASSUME NEW k \in 0..8 PROVE Calm(bits, i + k, 31)
  <2>1. i + k \in 0..Len(bits) /\ r + k \in Nat /\ r + k <= 31
    BY <1>1
  <2> QED BY <1>2, <2>1, Calmer
<1> QED BY <1>3, <1>4

\* Octet after octet, all but the first of them a flag.
LEMMA CalmOctets ==
  ASSUME NEW bits \in Seq(Bit), NEW o \in Nat, NEW n \in Nat, n >= 1, o + 8 * n <= Len(bits),
         \A j \in 1..n - 1 : FlagAfter(bits, o + 8 * j),
         NEW r \in 0..15, Calm(bits, o, r)
  PROVE  /\ Calm(bits, o + 8 * n, r + 8)
         /\ \A i \in o..o + 8 * n : Calm(bits, i, 31)
<1> DEFINE G == {j \in 0..n - 1 : /\ Calm(bits, o + 8 * (j + 1), r + 8)
                                  /\ \A i \in o..o + 8 * (j + 1) : Calm(bits, i, 31)}
<1>1. Len(bits) \in Nat /\ o + 8 <= Len(bits) /\ 0 \in 0..n - 1 /\ n - 1 \in Nat
  OBVIOUS
<1>2. 0 \in G
  <2>1. \A k \in 0..8 : Calm(bits, o + k, r + k)
    BY <1>1, CalmBits
  <2>2. Calm(bits, o + 8, r + 8)
    BY <2>1
  <2>3. ASSUME NEW i \in o..o + 8 PROVE Calm(bits, i, 31)
    <3>1. i - o \in 0..8 /\ o + (i - o) = i
      OBVIOUS
    <3>2. Calm(bits, i, r + (i - o))
      BY <2>1, <3>1
    <3>3. i \in 0..Len(bits) /\ r + (i - o) \in Nat /\ r + (i - o) <= 31
      BY <1>1, <3>1
    <3> QED BY <3>2, <3>3, Calmer
  <2>4. 8 * (0 + 1) = 8
    OBVIOUS
  <2> HIDE DEF Calm
  <2> QED BY <1>1, <2>2, <2>3, <2>4
<1>3. ASSUME NEW j \in 0..(n - 1) - 1, j \in G PROVE j + 1 \in G
  <2> DEFINE e == o + 8 * (j + 1)
  <2>1. Calm(bits, e, r + 8) /\ \A i \in o..e : Calm(bits, i, 31)
    BY <1>3
  <2>2. /\ j + 1 \in 1..n - 1 /\ j + 1 \in 0..n - 1 /\ e \in Nat /\ e + 8 <= Len(bits)
        /\ e + 8 = o + 8 * ((j + 1) + 1)
    <3> HIDE DEF G
    <3> QED BY <1>1
  <2>3. FlagAfter(bits, e)
    BY <2>2
  <2> HIDE DEF e, G
  <2>4. Calm(bits, e + 8, 0) /\ \A k \in 0..8 : Calm(bits, e + k, 31)
    <3>1. r + 8 \in 0..23
      OBVIOUS
    <3> QED BY <2>1, <2>2, <2>3, <3>1, CalmFlag
  <2>5. Calm(bits, e + 8, r + 8)
    <3>1. e + 8 \in 0..Len(bits) /\ r + 8 \in Nat /\ 0 <= r + 8 /\ 0 \in Nat
      BY <1>1, <2>2
    <3> QED BY <2>4, <3>1, Calmer
  <2>6. ASSUME NEW i \in o..e + 8 PROVE Calm(bits, i, 31)
    <3>1. CASE i <= e
      BY <2>1, <2>2, <3>1
    <3>2. CASE i > e
      <4>1. i - e \in 0..8 /\ e + (i - e) = i
        BY <2>2, <3>2
      <4> QED BY <2>4, <4>1
    <3> QED BY <2>2, <3>1, <3>2
  <2>7. Calm(bits, o + 8 * ((j + 1) + 1), r + 8) /\ \A i \in o..o + 8 * ((j + 1) + 1) : Calm(bits, i, 31)
    BY <2>2, <2>5, <2>6
  <2> QED BY <2>2, <2>7 DEF G
<1>4. G = 0..n - 1
  <2>1. G \subseteq 0..n - 1
    OBVIOUS
  <2> HIDE DEF G
  <2> QED BY <1>1, <1>2, <1>3, <2>1, HandedOn
<1>5. n - 1 \in G /\ (n - 1) + 1 = n
  <2> HIDE DEF G
  <2> QED BY <1>1, <1>4
<1>6. Calm(bits, o + 8 * ((n - 1) + 1), r + 8) /\ \A i \in o..o + 8 * ((n - 1) + 1) : Calm(bits, i, 31)
  BY <1>5
<1> QED BY <1>5, <1>6

\* As long as no flag ended nothing is collected.
LEMMA CalmStart ==
  ASSUME NEW bits \in Seq(Bit), NEW n \in 0..Len(bits), \A i \in 1..n : ~IsFlagEnd(bits, i)
  PROVE  \A i \in 0..n : Calm(bits, i, 0)
<1> DEFINE S == Scanned(bits)
           Still(s) == s.collecting = FALSE /\ s.payload = <<>> /\ s.frames = <<>>
           G == {i \in 0..n : Still(S[i])}
<1>1. 0 \in G
  BY ScanSolved DEF Idling
<1>2. ASSUME NEW i \in 0..n - 1, i \in G PROVE i + 1 \in G
  <2> DEFINE s == S[i]
             t == S[i + 1]
             b == bits[i + 1]
  <2>1. i + 1 \in 1..n /\ i + 1 \in 0..n /\ i \in 0..Len(bits) - 1
    OBVIOUS
  <2>2. BitStep(s, t, b)
    BY <2>1, NextScan
  <2>3. s.collecting = FALSE /\ s.payload = <<>> /\ s.frames = <<>>
    BY <1>2
  <2> HIDE DEF s, t, b
  <2>4. t.collecting = FALSE /\ t.frames = <<>> /\ t.payload = s.payload
    BY <2>2, <2>3, Zenon DEF BitStep
  <2>5. Still(t)
    BY <2>3, <2>4
  <2> QED BY <2>1, <2>5 DEF t
<1>3. G = 0..n
  <2>1. G \subseteq 0..n /\ n \in Nat
    OBVIOUS
  <2> HIDE DEF G, S
  <2> QED BY <1>1, <1>2, <2>1, HandedOn
<1>4. ASSUME NEW i \in 0..n PROVE Calm(bits, i, 0)
  <2>1. S[i].payload = <<>> /\ S[i].frames = <<>>
    BY <1>3
  <2> QED BY <2>1 DEF Calm
<1> QED BY <1>4

-----------------------------------------------------------------------------
(* Parts of buffers. *)

\* The levels of a part of a burst, the first apart.
LEMMA PartDecoded ==
  ASSUME NEW bits \in Seq(Bit), NEW w, NEW o, LiesAt(w, NrziEncode(bits), o)
  PROVE  LET y == NrziDecode(w)
         IN  /\ y \in Seq(Bit) /\ Len(y) = Len(w) /\ o \in Nat /\ o + Len(w) <= Len(bits)
             /\ \A i \in 2..Len(w) : y[i] = bits[o + i]
<1> DEFINE x == NrziEncode(bits)
           y == NrziDecode(w)
           n == Len(w)
<1>1. x \in Seq(Bit) /\ Len(x) = Len(bits)
  BY Encoded
<1>2. w \in Seq(Bit) /\ o \in Nat /\ n \in Nat /\ o + n <= Len(bits) /\ \A k \in 1..n : x[o + k] = w[k]
  BY <1>1 DEF LiesAt
<1>3. y \in Seq(Bit) /\ Len(y) = n
  BY <1>2, Decoded
<1>4. ASSUME NEW i \in 2..n PROVE y[i] = bits[o + i]
  <2>1. y[i] = IF w[i] = w[i - 1] THEN 1 ELSE 0
    BY <1>2, Decoded
  <2>2. i \in 1..n /\ i - 1 \in 1..n /\ o + (i - 1) \in 1..Len(bits) - 1 /\ o + (i - 1) + 1 = o + i
        /\ o + i \in 1..Len(bits)
    <3>1. Len(bits) \in Nat
      OBVIOUS
    <3> HIDE DEF n
    <3> QED BY <1>2, <3>1
  <2>3. (x[o + i] = x[o + (i - 1)]) <=> (bits[o + i] = 1)
    BY <2>2, Encoded
  <2>4. bits[o + i] \in {0, 1}
    BY <2>2 DEF Bit
  <2> QED BY <1>2, <2>1, <2>2, <2>3, <2>4
<1> QED BY <1>2, <1>3, <1>4

\* The first levels decode to the first bits.
LEMMA PrefixDecoded ==
  ASSUME NEW v, NEW w, LiesAt(w, v, 0)
  PROVE  LiesAt(NrziDecode(w), NrziDecode(v), 0)
<1> DEFINE a == NrziDecode(w)
           b == NrziDecode(v)
           n == Len(w)
<1>1. w \in Seq(Bit) /\ v \in Seq(Bit) /\ n \in Nat /\ n <= Len(v) /\ \A k \in 1..n : v[k] = w[k]
  <2>1. w \in Seq(Bit) /\ v \in Seq(Bit) /\ n \in Nat /\ 0 + n <= Len(v) /\ \A k \in 1..n : v[0 + k] = w[k]
    BY DEF LiesAt
  <2>2. 0 + n = n /\ \A k \in 1..n : 0 + k = k
    BY <2>1
  <2> QED BY <2>1, <2>2
<1>2. a \in Seq(Bit) /\ Len(a) = n /\ b \in Seq(Bit) /\ Len(b) = Len(v) /\ Len(v) \in Nat
  BY <1>1, Decoded
<1>3. ASSUME NEW k \in 1..n PROVE b[0 + k] = a[k]
  <2>1. k \in 1..Len(v) /\ 0 + k = k /\ (k # 1 => k - 1 \in 1..n)
    BY <1>1, <1>2
  <2>2. /\ a[k] = IF w[k] = (IF k = 1 THEN 0 ELSE w[k - 1]) THEN 1 ELSE 0
        /\ b[k] = IF v[k] = (IF k = 1 THEN 0 ELSE v[k - 1]) THEN 1 ELSE 0
    BY <1>1, <2>1 DEF NrziDecode
  <2> HIDE DEF a, b
  <2> QED BY <1>1, <2>1, <2>2
<1>4. 0 + n <= Len(b)
  BY <1>1, <1>2
<1> HIDE DEF a, b, n
<1> QED BY <1>2, <1>3, <1>4 DEF LiesAt, a, b

\* What the scan of the first bits finds is what the scan of all finds there.
LEMMA PrefixScanned ==
  ASSUME NEW a, NEW b, LiesAt(a, b, 0)
  PROVE  /\ \A i \in 0..Len(a) : Scanned(b)[i] = Scanned(a)[i]
         /\ HdlcDeframe(a) = Scanned(b)[Len(a)].frames
<1> DEFINE n == Len(a)
<1>1. a \in Seq(Bit) /\ b \in Seq(Bit) /\ n \in Nat /\ n <= Len(b) /\ \A k \in 1..n : b[k] = a[k]
  <2>1. a \in Seq(Bit) /\ b \in Seq(Bit) /\ n \in Nat /\ 0 + n <= Len(b) /\ \A k \in 1..n : b[0 + k] = a[k]
    BY DEF LiesAt
  <2>2. 0 + n = n /\ \A k \in 1..n : 0 + k = k
    BY <2>1
  <2> QED BY <2>1, <2>2
<1>2. \A i \in 0..n : Scanned(b)[i] = Scanned(a)[i]
  BY <1>1, ScanOfPrefix
<1>3. HdlcDeframe(a) = Scanned(a)[n].frames /\ n \in 0..n
  BY <1>1, ScanSolved
<1> QED BY <1>2, <1>3

-----------------------------------------------------------------------------
(* Harmless buffers. *)

Fine(w) ==
    LET y == NrziDecode(w)
    IN  (\A i \in 0..Len(w) : Calm(y, i, 31)) /\ Calm(y, Len(w), 8)

\* What is left of a buffer without its first n levels.
Rest(w, n) == SubSeq(w, n + 1, Len(w))

Harmless(w) == w \in Seq(Bit) /\ \A n \in 0..Len(w) : Fine(Rest(w, n))

LEMMA RestShape ==
  ASSUME NEW w \in Seq(Bit), NEW n \in 0..Len(w)
  PROVE  /\ Rest(w, n) \in Seq(Bit) /\ Len(Rest(w, n)) = Len(w) - n
         /\ \A i \in 1..Len(w) - n : Rest(w, n)[i] = w[n + i]
BY DEF Rest

LEMMA RestHarmless ==
  ASSUME NEW w, Harmless(w), NEW n \in 0..Len(w)
  PROVE  Harmless(Rest(w, n))
<1> DEFINE v == Rest(w, n)
<1>1. w \in Seq(Bit) /\ Len(w) \in Nat /\ \A m \in 0..Len(w) : Fine(Rest(w, m))
  BY DEF Harmless
<1>2. v \in Seq(Bit) /\ Len(v) = Len(w) - n /\ \A i \in 1..Len(w) - n : v[i] = w[n + i]
  BY <1>1, RestShape
<1>3. ASSUME NEW m \in 0..Len(v) PROVE Fine(Rest(v, m))
  <2> DEFINE a == Rest(v, m)
             b == Rest(w, n + m)
  <2>1. n + m \in 0..Len(w) /\ Len(w) - (n + m) = Len(v) - m
    <3> HIDE DEF v
    <3> QED BY <1>1, <1>2
  <2>2. b \in Seq(Bit) /\ Len(b) = Len(w) - (n + m) /\ \A i \in 1..Len(w) - (n + m) : b[i] = w[n + m + i]
    BY <1>1, <2>1, RestShape
  <2>3. a \in Seq(Bit) /\ Len(a) = Len(v) - m /\ \A i \in 1..Len(v) - m : a[i] = v[m + i]
    BY <1>2, RestShape
  <2> HIDE DEF a, b, v
  <2>4. ASSUME NEW i \in 1..Len(v) - m PROVE a[i] = b[i]
    <3>1. m + i \in 1..Len(w) - n /\ n + (m + i) = n + m + i
      BY <1>1, <1>2
    <3> QED BY <1>2, <2>1, <2>2, <2>3, <3>1
  <2>5. Len(a) = Len(b) /\ \A i \in 1..Len(a) : a[i] = b[i]
    BY <2>1, <2>2, <2>3, <2>4
  <2>6. a = b
    BY ONLY <2>2, <2>3, <2>5
  <2> QED BY <1>1, <2>1, <2>6 DEF a, b
<1> QED BY <1>2, <1>3 DEF Harmless

\* Silence.
LEMMA IdleHarmless ==
  ASSUME NEW w \in Seq(Bit), \A i \in 1..Len(w) : w[i] = 1
  PROVE  Harmless(w)
<1> SUFFICES ASSUME NEW n \in 0..Len(w) PROVE Fine(Rest(w, n))
  BY DEF Harmless
<1> DEFINE v == Rest(w, n)
           y == NrziDecode(v)
           m == Len(v)
<1>1. v \in Seq(Bit) /\ m \in Nat /\ \A i \in 1..m : v[i] = 1
  <2>1. /\ v \in Seq(Bit) /\ m = Len(w) - n
        /\ \A i \in 1..Len(w) - n : v[i] = w[n + i]
    BY RestShape
  <2>2. \A i \in 1..Len(w) - n : n + i \in 1..Len(w)
    OBVIOUS
  <2> HIDE DEF v
  <2>3. m \in Nat
    BY <2>1
  <2> HIDE DEF m
  <2>4. \A i \in 1..m : v[i] = 1
    BY <2>1, <2>2
  <2> QED BY <2>1, <2>3, <2>4
<1> HIDE DEF v
<1>2. y \in Seq(Bit) /\ Len(y) = m /\ \A i \in 2..m : y[i] = 1
  <2>1. y \in Seq(Bit) /\ Len(y) = m /\ \A i \in 2..m : y[i] = IF v[i] = v[i - 1] THEN 1 ELSE 0
    BY <1>1, Decoded
  <2>2. \A i \in 2..m : i \in 1..m /\ i - 1 \in 1..m
    BY <1>1
  <2> HIDE DEF y, m
  <2> QED BY <1>1, <2>1, <2>2
<1> HIDE DEF y, m
<1>3. ASSUME NEW i \in 1..m PROVE ~IsFlagEnd(y, i)
  <2>1. CASE i = 1
    BY <2>1 DEF IsFlagEnd
  <2>2. CASE i # 1
    <3>1. i \in 2..m /\ i \in 1..Len(y)
      BY <1>1, <1>2, <2>2
    <3> QED BY <1>2, <3>1, NoFlag
  <2> QED BY <2>1, <2>2
<1>4. \A i \in 0..m : Calm(y, i, 0)
  BY <1>1, <1>2, <1>3, CalmStart
<1>5. ASSUME NEW i \in 0..m PROVE Calm(y, i, 31) /\ Calm(y, i, 8)
  BY <1>2, <1>4, Calmer
<1>6. m \in 0..m
  BY <1>1
<1>7. (\A i \in 0..m : Calm(y, i, 31)) /\ Calm(y, m, 8)
  BY <1>5, <1>6
<1>8. Fine(v)
  BY <1>7 DEF Fine, y, m
<1> QED BY <1>8 DEF v

\* The end of a burst.
LEMMA ModulateShape ==
  ASSUME NEW p \in Octets
  PROVE  /\ Modulate(p) = NrziEncode(BurstBits(p)) /\ Modulate(p) \in Seq(Bit)
         /\ Len(Modulate(p)) = Len(BurstBits(p))
         /\ Len(Modulate(p)) = Closed(p) + 8 * PostambleFlags
BY BurstShape, Encoded DEF Modulate, BurstBits

LEMMA TailFine ==
  ASSUME NEW p \in Octets, NEW w, NEW o, LiesAt(w, Modulate(p), o), o >= Closed(p),
         o + Len(w) = Len(Modulate(p))
  PROVE  Fine(w)
<1> DEFINE b == BurstBits(p)
           y == NrziDecode(w)
           m == Len(w)
           c == Closed(p)
           q == PostambleFlags
           n == m \div 8
           r == m % 8
<1>1. /\ b \in Seq(Bit) /\ c \in Nat /\ Len(b) = c + 8 * q /\ q \in Nat
      /\ \A j \in 0..q - 1 : FlagAfter(b, c + 8 * j)
  BY BurstShape, PacketRxAssumption
<1>2. LiesAt(w, NrziEncode(b), o) /\ o + m = c + 8 * q /\ o >= c /\ m \in Nat
  <2>1. m \in Nat
    BY DEF LiesAt
  <2> QED BY <2>1, ModulateShape
<1> HIDE DEF b, y, m, c, q
<1>3. /\ y \in Seq(Bit) /\ Len(y) = m /\ o \in Nat
      /\ \A i \in 2..m : y[i] = b[o + i]
  BY SMTT(20), <1>1, <1>2, PartDecoded DEF y, m
<1>4. n \in Nat /\ r \in 0..7 /\ m = r + 8 * n
  BY <1>2
<1> HIDE DEF n, r
<1>5. n <= q
  BY SMTT(20), <1>1, <1>2, <1>3, <1>4
<1>6. ASSUME NEW j \in 1..n - 1 PROVE FlagAfter(y, r + 8 * j)
  <2> DEFINE e == r + 8 * j
             f == c + 8 * (q - n + j)
  <2>1. e \in Nat /\ e >= 8 /\ e + 8 <= m /\ q - n + j \in 0..q - 1 /\ o + e = f /\ j \in Nat
    BY <1>1, <1>2, <1>3, <1>4, <1>5
  <2>2. FlagAfter(b, f)
    BY <1>1, <2>1
  <2> HIDE DEF e, f
  <2>3. ASSUME NEW k \in 1..8 PROVE y[e + k] = Flag[k]
    <3>1. e + k \in 2..m /\ o + (e + k) = f + k
      BY <1>3, <1>4, <2>1
    <3> QED BY <1>3, <2>2, <3>1 DEF FlagAfter
  <2>4. FlagAfter(y, e)
    BY <1>3, <2>1, <2>3 DEF FlagAfter
  <2> QED BY <2>4 DEF e
<1>7. \A i \in 0..r : Calm(y, i, 0)
  <2>1. \A i \in 1..r : ~IsFlagEnd(y, i)
    BY <1>4 DEF IsFlagEnd
  <2>2. r \in 0..Len(y)
    BY <1>3, <1>4
  <2> QED BY <1>3, <2>1, <2>2, CalmStart
<1>8. ASSUME NEW i \in 0..r PROVE Calm(y, i, 31) /\ Calm(y, i, 8)
  <2>1. i \in 0..Len(y)
    BY <1>3, <1>4
  <2> QED BY <1>3, <1>7, <2>1, Calmer
<1>9. (\A i \in 0..m : Calm(y, i, 31)) /\ Calm(y, m, 8)
  <2>1. CASE n = 0
    <3>1. m = r /\ r \in 0..r
      BY <1>4, <2>1
    <3> QED BY <1>8, <3>1
  <2>2. CASE n # 0
    <3>1. n >= 1 /\ r + 8 * n <= Len(y) /\ r \in Nat /\ 0 \in 0..15 /\ r \in 0..r
      BY <1>3, <1>4, <2>2
    <3>2. Calm(y, r + 8 * n, 0 + 8) /\ \A i \in r..r + 8 * n : Calm(y, i, 31)
      BY <1>3, <1>4, <1>6, <1>7, <3>1, CalmOctets
    <3>3. \A i \in 0..m : i \in 0..r \/ i \in r..r + 8 * n
      BY <1>4
    <3> QED BY <1>4, <1>8, <3>2, <3>3
  <2> QED BY <2>1, <2>2
<1> QED BY <1>9 DEF Fine, y, m

LEMMA TailHarmless ==
  ASSUME NEW p \in Octets, NEW w, NEW o, LiesAt(w, Modulate(p), o), o >= Closed(p),
         o + Len(w) = Len(Modulate(p))
  PROVE  Harmless(w)
<1> DEFINE x == Modulate(p)
<1>1. /\ w \in Seq(Bit) /\ x \in Seq(Bit) /\ o \in Nat /\ Len(w) \in Nat
      /\ \A k \in 1..Len(w) : x[o + k] = w[k]
  BY DEF LiesAt
<1>2. Closed(p) \in Nat
  BY BurstShape
<1> SUFFICES ASSUME NEW n \in 0..Len(w) PROVE Fine(Rest(w, n))
  BY <1>1 DEF Harmless
<1> DEFINE v == Rest(w, n)
<1>3. v \in Seq(Bit) /\ Len(v) = Len(w) - n /\ \A i \in 1..Len(w) - n : v[i] = w[n + i]
  BY <1>1, RestShape
<1> HIDE DEF v, x
<1>4. o + n \in Nat /\ o + n >= Closed(p) /\ o + n + Len(v) = Len(x) /\ Len(x) \in Nat
  <2>1. o + Len(w) = Len(x) /\ Len(x) \in Nat /\ o \in Nat /\ Len(w) \in Nat /\ Len(v) = Len(w) - n
    BY <1>1, <1>3 DEF x
  <2> QED BY ONLY <2>1, <1>2, o >= Closed(p), n \in 0..Len(w)
<1>5. ASSUME NEW k \in 1..Len(v) PROVE x[o + n + k] = v[k]
  <2>1. n + k \in 1..Len(w) /\ o + n + k = o + (n + k)
    BY <1>1, <1>3
  <2> QED BY <1>1, <1>3, <2>1
<1>6. LiesAt(v, x, o + n)
  BY <1>1, <1>3, <1>4, <1>5 DEF LiesAt
<1> QED BY <1>4, <1>6, TailFine DEF v, x

\* A burst after a harmless buffer: there is no frame before the one in it ends,
\* and no other in the octet after that.
LEMMA BurstScanned ==
  ASSUME NEW p \in Octets, NEW x, x \in Seq(Bit), Fine(x), NEW line, LiesAt(x, line, 0),
         LiesAt(Modulate(p), line, Len(x))
  PROVE  LET S == Scanned(NrziDecode(line))
             e == Len(x) + Closed(p)
         IN  /\ \A i \in 0..e - 1 : S[i].frames = <<>>
             /\ \A k \in 0..7 : S[e + k].frames = <<p>>
<1> DEFINE b == BurstBits(p)
           h == HdlcFrame(p)
           y == NrziDecode(x)
           z == NrziDecode(line)
           S == Scanned(z)
           j == Len(x)
           n == PreambleFlags
           o == j + Before
           e == j + Closed(p)
<1>1. /\ b \in Seq(Bit) /\ Before \in Nat /\ Before >= 8 /\ Before = 8 * n /\ n \in Nat /\ n >= 1
      /\ LiesAt(h, b, Before) /\ Closed(p) = Before + Len(h) /\ Closed(p) \in Nat
      /\ Closed(p) + 8 <= Len(b)
      /\ \A i \in 0..n - 1 : FlagAfter(b, 8 * i)
      /\ FlagAfter(b, Closed(p))
  <2>1. n \in Nat /\ n >= 1 /\ PostambleFlags \in Nat /\ PostambleFlags >= 1
    BY PacketRxAssumption
  <2>2. /\ b \in Seq(Bit) /\ Before \in Nat /\ Before >= 8 /\ Closed(p) \in Nat
        /\ Len(b) = Closed(p) + 8 * PostambleFlags /\ LiesAt(h, b, Before)
        /\ \A i \in 0..n - 1 : FlagAfter(b, 8 * i)
        /\ \A i \in 0..PostambleFlags - 1 : FlagAfter(b, Closed(p) + 8 * i)
    BY BurstShape
  <2>3. 0 \in 0..PostambleFlags - 1 /\ Closed(p) + 8 * 0 = Closed(p) /\ Closed(p) + 8 <= Len(b)
    BY <2>1, <2>2
  <2> QED BY <2>1, <2>2, <2>3 DEF Before, Closed
<1>2. LiesAt(NrziEncode(b), line, j)
  BY ModulateShape
<1>3. z \in Seq(Bit) /\ j \in Nat /\ j + Len(b) <= Len(z) /\ \A i \in 2..Len(b) : z[j + i] = b[i]
  BY <1>1, <1>2, Bursted
<1>4. LiesAt(y, z, 0) /\ Len(y) = j
  BY PrefixDecoded, Decoded
<1>5. \A i \in 0..j : Calm(z, i, 31) /\ Calm(z, j, 8)
  <2>1. (\A i \in 0..j : Calm(y, i, 31)) /\ Calm(y, j, 8) /\ j \in 0..j
    BY <1>3 DEF Fine
  <2>2. \A i \in 0..j : Scanned(z)[i] = Scanned(y)[i]
    BY <1>4, PrefixScanned
  <2> HIDE DEF y, z, j
  <2> QED BY <2>1, <2>2 DEF Calm
<1> HIDE DEF b, h, y, z, j, n
<1>6. Len(b) \in Nat /\ Len(z) \in Nat
  BY <1>1, <1>3
<1>7. ASSUME NEW a \in Nat, a >= 8, FlagAfter(b, a) PROVE FlagAfter(z, j + a)
  <2>1. a + 8 <= Len(b) /\ \A k \in 1..8 : b[a + k] = Flag[k]
    BY <1>7 DEF FlagAfter
  <2>2. ASSUME NEW k \in 1..8 PROVE z[j + a + k] = Flag[k]
    <3>1. a + k \in 2..Len(b) /\ j + a + k = j + (a + k)
      <4>1. a + 8 <= Len(b) /\ j \in Nat
        BY <1>3, <2>1
      <4> QED BY ONLY <1>6, <1>7, <4>1, k \in 1..8, a \in Nat
    <3> QED BY <1>3, <2>1, <3>1
  <2>3. j + a + 8 <= Len(z)
    <3>1. j \in Nat /\ j + Len(b) <= Len(z) /\ a + 8 <= Len(b)
      BY <1>3, <2>1
    <3> QED BY ONLY <1>6, <3>1, a \in Nat
  <2> QED BY <2>2, <2>3 DEF FlagAfter
<1>8. Calm(z, o, 16) /\ \A i \in j..o : Calm(z, i, 31)
  <2>1. ASSUME NEW i \in 1..n - 1 PROVE FlagAfter(z, j + 8 * i)
    <3>1. 8 * i \in Nat /\ 8 * i >= 8 /\ i \in 0..n - 1
      BY <1>1
    <3> QED BY <1>1, <1>7, <3>1
  <2>2. j + 8 * n <= Len(z) /\ 8 \in 0..15 /\ j \in 0..j /\ Len(h) \in Nat
    <3>1. Len(h) \in Nat
      BY <1>1 DEF LiesAt
    <3> QED BY <1>1, <1>3, <1>6, <3>1
  <2>3. Calm(z, j + 8 * n, 8 + 8) /\ \A i \in j..j + 8 * n : Calm(z, i, 31)
    BY <1>1, <1>3, <1>5, <2>1, <2>2, CalmOctets
  <2> QED BY <1>1, <2>3
<1>9. LiesAt(h, z, o)
  <2>1. h \in Seq(Bit) /\ Before + Len(h) <= Len(b) /\ Len(h) \in Nat /\ \A k \in 1..Len(h) : b[Before + k] = h[k]
    BY <1>1 DEF LiesAt
  <2>2. ASSUME NEW k \in 1..Len(h) PROVE z[o + k] = h[k]
    <3>1. Before + k \in 2..Len(b) /\ o + k = j + (Before + k)
      BY <1>1, <1>3, <1>6, <2>1
    <3> QED BY <1>3, <2>1, <3>1
  <2>3. o \in Nat /\ o + Len(h) <= Len(z)
    BY <1>1, <1>3, <1>6, <2>1
  <2> QED BY <1>3, <2>1, <2>2, <2>3 DEF LiesAt
<1> DEFINE d == FrameEnd(p, o)
<1> HIDE DEF d, S, o
<1>10. /\ d \in Nat /\ o + 8 <= d /\ d + 8 = o + Len(h) /\ d + 8 <= Len(z)
       /\ \A i \in o + 8..d + 7 : S[i].frames = S[o + 8].frames
       /\ S[d + 8].frames = S[o + 8].frames \o <<p>>
       /\ Ready(z, d + 8)
  <2>1. LiesAt(HdlcFrame(p), z, o)
    BY <1>9 DEF h
  <2>2. FoundIn(z, p, o)
    BY <2>1, FrameScanned
  <2> QED BY <2>2 DEF FoundIn, h, S, d
<1>11. o \in Nat /\ e \in Nat /\ e = d + 8 /\ o = j + Before
  <2>1. Len(h) \in Nat /\ Before \in Nat /\ j \in Nat /\ Closed(p) = Before + Len(h) /\ d + 8 = o + Len(h)
        /\ d \in Nat
    BY <1>1, <1>3, <1>9, <1>10 DEF LiesAt
  <2> QED BY ONLY <2>1 DEF o
<1>12. FlagAfter(z, o)
  <2> DEFINE f == StuffRun(FrameData(p))[Len(FrameData(p))].bits
  <2>1. h = f \o Flag /\ f \in Seq(Bit) /\ Flag \in Seq(Bit) /\ Len(f) >= 8 /\ \A k \in 1..8 : f[k] = Flag[k]
    BY FrameShape DEF h
  <2> HIDE DEF f
  <2>2. Joins(h, f, Flag)
    BY <2>1, Joined
  <2>3. ASSUME NEW k \in 1..8 PROVE h[k] = Flag[k] /\ k \in 1..Len(h)
    <3>1. k \in 1..Len(f) /\ k \in 1..Len(h)
      BY <2>1, <2>2 DEF Joins
    <3> QED BY <2>1, <2>2, <3>1 DEF Joins
  <2>4. o + 8 <= Len(z)
    BY <1>10, <1>11
  <2>5. \A k \in 1..Len(h) : z[o + k] = h[k]
    BY <1>9 DEF LiesAt
  <2> QED BY <2>3, <2>4, <2>5 DEF FlagAfter
<1>13. Calm(z, o + 8, 0) /\ \A k \in 0..8 : Calm(z, o + k, 31)
  <2>1. 16 \in 0..23 /\ Calm(z, o, 16) /\ z \in Seq(Bit) /\ o \in Nat
    BY <1>3, <1>8, <1>11
  <2> QED BY ONLY <2>1, <1>12, CalmFlag
<1>14. ASSUME NEW i \in 0..e - 1 PROVE S[i].frames = <<>>
  <2>1. CASE i <= j
    BY <1>3, <1>5, <2>1 DEF Calm, S
  <2>2. CASE i >= j /\ i <= o
    BY <1>3, <1>8, <1>11, <2>2 DEF Calm, S
  <2>3. CASE i >= o /\ i <= o + 8
    <3>1. i - o \in 0..8 /\ o + (i - o) = i
      BY SMTT(20), <1>11, <2>3
    <3> QED BY <1>13, <3>1 DEF Calm, S
  <2>4. CASE i >= o + 8
    <3>1. i \in o + 8..d + 7
      BY <1>10, <1>11, <2>4
    <3> QED BY <1>10, <1>13, <3>1 DEF Calm, S
  <2>5. i <= j \/ (i >= j /\ i <= o) \/ (i >= o /\ i <= o + 8) \/ i >= o + 8
    BY <1>3, <1>11
  <2> QED BY <2>1, <2>2, <2>3, <2>4, <2>5
<1>15. S[e].frames = <<p>>
  <2>1. S[o + 8].frames = <<>>
    BY <1>13 DEF Calm, S
  <2> QED BY <1>10, <1>11, <2>1
<1>16. \A k \in 0..7 : S[e + k].frames = <<p>>
  <2>1. FlagAfter(z, e)
    <3>1. Closed(p) \in Nat /\ Closed(p) >= 8
      <4>1. Len(h) \in Nat
        BY <1>9 DEF LiesAt
      <4> QED BY <1>1, <4>1
    <3> QED BY <1>1, <1>7, <3>1
  <2>2. \A k \in 0..7 : S[e + k].frames = S[e].frames
    BY <1>3, <1>10, <1>11, <2>1, FlagScanned DEF S
  <2> QED BY <1>15, <2>2
<1> QED BY <1>14, <1>16 DEF S, z, j

-----------------------------------------------------------------------------
(* A lane. *)

\* After m levels of the burst of p the buffer of a lane holds them after
\* something harmless ...
Filling(w, p, m) ==
    /\ w \in Seq(Bit) /\ m <= Len(w) /\ Harmless(SubSeq(w, 1, Len(w) - m))
    /\ \A i \in 1..m : w[Len(w) - m + i] = Modulate(p)[i]

\* ... and if they have the whole frame, then no octet was complete since ...
Pending(w, p, m) == m >= Closed(p) => Len(w) % 8 > m - Closed(p)

\* ... or the frame was found, and the buffer has levels from behind it.
Drained(w, p, m) == m >= Len(w) + Closed(p) /\ LiesAt(w, Modulate(p), m - Len(w))

LEMMA FirstShape ==
  ASSUME NEW w \in Seq(Bit), NEW n \in 0..Len(w)
  PROVE  /\ SubSeq(w, 1, n) \in Seq(Bit) /\ Len(SubSeq(w, 1, n)) = n
         /\ \A i \in 1..n : SubSeq(w, 1, n)[i] = w[i]
OBVIOUS

LEMMA SameItems ==
  ASSUME NEW a \in Seq(Bit), NEW b \in Seq(Bit), Len(a) = Len(b), \A i \in 1..Len(a) : a[i] = b[i]
  PROVE  a = b
OBVIOUS

LEMMA HarmlessFine ==
  ASSUME NEW w, Harmless(w)
  PROVE  Fine(w)
<1>1. w \in Seq(Bit) /\ Len(w) \in Nat /\ 0 \in 0..Len(w) /\ Fine(Rest(w, 0))
  BY DEF Harmless
<1>2. Rest(w, 0) = w
  BY <1>1 DEF Rest
<1> QED BY <1>1, <1>2

\* Of the levels so far the whole frame is found as soon as they have it.
LEMMA FillingFound ==
  ASSUME NEW p \in Octets, NEW w, NEW m \in 0..Len(Modulate(p)), m <= Closed(p) + 7, Filling(w, p, m)
  PROVE  HdlcDeframe(NrziDecode(w)) = IF m < Closed(p) THEN <<>> ELSE <<p>>
<1> DEFINE M == Modulate(p)
           L == Len(M)
           n == Len(w)
           j == n - m
           x == SubSeq(w, 1, j)
           t == Rest(M, m)
           line == w \o t
           e == j + Closed(p)
           S == Scanned(NrziDecode(line))
<1>1. M \in Seq(Bit) /\ L \in Nat /\ Closed(p) \in Nat
  BY ModulateShape, BurstShape
<1>2. w \in Seq(Bit) /\ n \in Nat /\ m <= n /\ Harmless(x) /\ \A i \in 1..m : w[j + i] = M[i]
  BY DEF Filling
<1> HIDE DEF M
<1>3. m \in Nat /\ m <= L
  BY <1>1 DEF M
<1>4. t \in Seq(Bit) /\ Len(t) = L - m /\ \A i \in 1..L - m : t[i] = M[m + i]
  <2>1. m \in 0..Len(M)
    BY DEF M
  <2> QED BY <1>1, <2>1, RestShape
<1> HIDE DEF L, n, t
<1>5. j \in 0..n /\ j \in Nat /\ n = j + m
  BY <1>2, <1>3
<1>6. x \in Seq(Bit) /\ Len(x) = j /\ \A i \in 1..j : x[i] = w[i]
  BY <1>2, <1>5, FirstShape DEF n
<1> HIDE DEF j, x
<1>7. Joins(line, w, t)
  BY <1>2, <1>4, Joined
<1> HIDE DEF line
<1>8. /\ line \in Seq(Bit) /\ Len(line) = j + L /\ \A k \in 1..n : line[k] = w[k]
      /\ \A k \in 1..L - m : line[n + k] = t[k]
  <2>1. Len(line) = n + (L - m) /\ line \in Seq(Bit) /\ (\A k \in 1..n : line[k] = w[k])
        /\ \A k \in 1..L - m : line[n + k] = t[k]
    BY <1>4, <1>7 DEF Joins, n
  <2>2. n + (L - m) = j + L
    BY <1>1, <1>3, <1>5
  <2> QED BY <2>1, <2>2
<1>9. LiesAt(w, line, 0)
  <2>1. ASSUME NEW k \in 1..Len(w) PROVE line[0 + k] = w[k]
    <3>1. k \in 1..n /\ 0 + k = k
      BY DEF n
    <3> QED BY <1>8, <3>1
  <2>2. 0 + Len(w) <= Len(line)
    <3>1. 0 + n <= Len(line)
      BY <1>1, <1>3, <1>5, <1>8
    <3> QED BY <3>1 DEF n
  <2> QED BY <1>2, <1>8, <2>1, <2>2 DEF LiesAt
<1>10. LiesAt(x, line, 0)
  <2>1. ASSUME NEW k \in 1..Len(x) PROVE line[0 + k] = x[k]
    <3>1. k \in 1..j /\ k \in 1..n /\ 0 + k = k
      BY <1>3, <1>5, <1>6
    <3> QED BY <1>6, <1>8, <3>1
  <2>2. 0 + Len(x) <= Len(line)
    BY <1>1, <1>5, <1>6, <1>8
  <2> QED BY <1>6, <1>8, <2>1, <2>2 DEF LiesAt
<1>11. LiesAt(M, line, Len(x))
  <2>1. ASSUME NEW k \in 1..L PROVE line[j + k] = M[k]
    <3>1. CASE k <= m
      <4>1. k \in 1..m /\ j + k \in 1..n
        BY <1>3, <1>5, <3>1
      <4> QED BY <1>2, <1>8, <4>1 DEF j
    <3>2. CASE k > m
      <4>1. k - m \in 1..L - m /\ n + (k - m) = j + k /\ m + (k - m) = k
        BY <1>1, <1>3, <1>5, <3>2
      <4> QED BY <1>4, <1>8, <4>1
    <3> QED BY <1>3, <3>1, <3>2
  <2> QED BY <1>1, <1>5, <1>6, <1>8, <2>1 DEF LiesAt, L
<1>12. Fine(x)
  BY <1>2, HarmlessFine DEF x, j
<1>13. /\ \A i \in 0..e - 1 : S[i].frames = <<>>
       /\ \A k \in 0..7 : S[e + k].frames = <<p>>
  BY <1>6, <1>10, <1>11, <1>12, BurstScanned DEF M
<1>14. HdlcDeframe(NrziDecode(w)) = S[n].frames
  <2>1. LiesAt(NrziDecode(w), NrziDecode(line), 0)
    BY <1>9, PrefixDecoded
  <2>2. Len(NrziDecode(w)) = n
    BY <1>2, Decoded DEF n
  <2> QED BY <2>1, <2>2, PrefixScanned
<1> HIDE DEF S
<1>15. CASE m < Closed(p)
  <2>1. n \in 0..e - 1
    BY <1>1, <1>3, <1>5, <1>15
  <2> QED BY <1>13, <1>14, <1>15, <2>1
<1>16. CASE ~(m < Closed(p))
  <2>1. m - Closed(p) \in 0..7 /\ e + (m - Closed(p)) = n
    <3>1. Closed(p) \in Nat /\ m \in Nat /\ j \in Nat /\ n = j + m
      BY <1>1, <1>3, <1>5
    <3> QED BY ONLY SMTT(20), <1>16, <3>1, m <= Closed(p) + 7
  <2> QED BY <1>13, <1>14, <1>16, <2>1
<1> QED BY <1>15, <1>16

\* Behind the frame there is nothing.
LEMMA DrainedFound ==
  ASSUME NEW p \in Octets, NEW w, NEW m \in 0..Len(Modulate(p)), Drained(w, p, m)
  PROVE  HdlcDeframe(NrziDecode(w)) = <<>>
<1> DEFINE M == Modulate(p)
           L == Len(M)
           n == Len(w)
           k == m - n
           t == Rest(M, k)
           y == NrziDecode(w)
           z == NrziDecode(t)
<1>1. M \in Seq(Bit) /\ L \in Nat /\ Closed(p) \in Nat /\ m \in Nat /\ m <= L
  <2>1. M \in Seq(Bit) /\ L \in Nat /\ Closed(p) \in Nat
    BY ModulateShape, BurstShape
  <2> QED BY <2>1
<1>2. /\ m >= n + Closed(p) /\ w \in Seq(Bit) /\ k \in Nat /\ n \in Nat
      /\ \A i \in 1..n : M[k + i] = w[i]
  BY DEF Drained, LiesAt
<1> HIDE DEF M, n
<1>3. k \in 0..L /\ k >= Closed(p) /\ n <= L - k
  BY <1>1, <1>2
<1> HIDE DEF L, k
<1>4. t \in Seq(Bit) /\ Len(t) = L - k /\ \A i \in 1..L - k : t[i] = M[k + i]
  BY <1>1, <1>3, RestShape DEF L
<1> HIDE DEF t
<1>5. Fine(t)
  <2>1. ASSUME NEW i \in 1..Len(t) PROVE M[k + i] = t[i]
    BY <1>4
  <2>2. k + Len(t) = L
    BY <1>1, <1>2, <1>4
  <2>3. LiesAt(t, M, k)
    BY <1>1, <1>2, <1>4, <2>1, <2>2 DEF LiesAt, L
  <2> QED BY <1>3, <2>2, <2>3, TailFine DEF M, L
<1>6. LiesAt(w, t, 0)
  <2>1. ASSUME NEW i \in 1..Len(w) PROVE t[0 + i] = w[i]
    <3>1. i \in 1..n
      BY DEF n
    <3>2. i \in 1..L - k /\ 0 + i = i
      BY <1>1, <1>2, <1>3, <3>1
    <3> QED BY <1>2, <1>4, <3>1, <3>2
  <2>2. 0 + n <= Len(t)
    BY <1>2, <1>3, <1>4
  <2> QED BY <1>2, <1>4, <2>1, <2>2 DEF LiesAt, n
<1>7. LiesAt(y, z, 0) /\ Len(y) = n
  BY <1>2, <1>6, PrefixDecoded, Decoded DEF n
<1>8. HdlcDeframe(y) = Scanned(z)[n].frames
  BY <1>7, PrefixScanned
<1>9. n \in 0..Len(t)
  BY <1>2, <1>3, <1>4
<1> HIDE DEF y
<1>10. Calm(z, n, 31)
  BY <1>5, <1>9 DEF Fine
<1> QED BY <1>8, <1>10 DEF Calm, y

\* One level more.
LEMMA Filled ==
  ASSUME NEW p \in Octets, NEW w, NEW m \in 0..Len(Modulate(p)) - 1, Filling(w, p, m)
  PROVE  Filling(Append(w, Modulate(p)[m + 1]), p, m + 1)
<1> DEFINE M == Modulate(p)
           b == M[m + 1]
           n == Len(w)
           j == n - m
           v == Append(w, b)
<1>1. M \in Seq(Bit) /\ b \in Bit /\ m \in Nat
  <2>1. M \in Seq(Bit)
    BY ModulateShape
  <2> QED BY <2>1
<1>2. w \in Seq(Bit) /\ n \in Nat /\ m <= n /\ Harmless(SubSeq(w, 1, j)) /\ \A i \in 1..m : w[j + i] = M[i]
  BY DEF Filling
<1> HIDE DEF M, b
<1>3. v \in Seq(Bit) /\ Len(v) = n + 1 /\ (\A i \in 1..n : v[i] = w[i]) /\ v[n + 1] = b
  BY <1>1, <1>2
<1> HIDE DEF v, n
<1>4. j \in 0..n /\ Len(v) - (m + 1) = j /\ j \in 0..Len(v) /\ n = j + m
  BY <1>1, <1>2, <1>3
<1> HIDE DEF j
<1>5. SubSeq(v, 1, j) = SubSeq(w, 1, j)
  <2> DEFINE x == SubSeq(v, 1, j)
             y == SubSeq(w, 1, j)
  <2>1. /\ x \in Seq(Bit) /\ y \in Seq(Bit) /\ Len(x) = j /\ Len(y) = j
        /\ \A i \in 1..j : x[i] = v[i]
        /\ \A i \in 1..j : y[i] = w[i]
    BY <1>2, <1>3, <1>4, FirstShape DEF n
  <2> HIDE DEF x, y
  <2>2. \A i \in 1..j : i \in 1..n
    BY <1>2, <1>4
  <2>3. \A i \in 1..j : x[i] = y[i]
    BY <1>3, <2>1, <2>2
  <2>4. x = y
    BY <2>1, <2>3, SameItems
  <2> QED BY <2>4 DEF x, y
<1>6. ASSUME NEW i \in 1..m + 1 PROVE v[j + i] = M[i]
  <2>1. CASE i = m + 1
    <3>1. j + i = n + 1
      BY <1>1, <1>2, <1>4, <2>1
    <3> QED BY <1>3, <2>1, <3>1 DEF b
  <2>2. CASE i # m + 1
    <3>1. i \in 1..m /\ j + i \in 1..n
      BY <1>1, <1>2, <1>4, <2>2
    <3> QED BY <1>2, <1>3, <3>1 DEF j
  <2> QED BY <2>1, <2>2
<1>7. m + 1 <= Len(v)
  BY <1>1, <1>2, <1>3
<1>8. Harmless(SubSeq(v, 1, Len(v) - (m + 1)))
  BY <1>2, <1>4, <1>5
<1>9. Filling(v, p, m + 1)
  <2>1. \A i \in 1..m + 1 : v[Len(v) - (m + 1) + i] = M[i]
    BY <1>4, <1>6
  <2> QED BY <1>3, <1>7, <1>8, <2>1 DEF Filling, M
<1> QED BY <1>9 DEF v, b, M

\* What is cut off is harmless, and of the harmless.
LEMMA FillingBounded ==
  ASSUME NEW p \in Octets, NEW w, NEW m \in Nat, m <= MaxLevels \div 2, Filling(w, p, m)
  PROVE  Filling(Bounded(w), p, m)
<1> DEFINE M == Modulate(p)
           n == Len(w)
           j == n - m
           half == MaxLevels \div 2
           cut == n - half
           v == Rest(w, cut)
           x == SubSeq(w, 1, j)
<1>1. MaxLevels \in Nat /\ half \in Nat /\ half <= MaxLevels
  BY PacketRxAssumption
<1>2. w \in Seq(Bit) /\ n \in Nat /\ m <= n /\ Harmless(x) /\ \A i \in 1..m : w[j + i] = M[i]
  BY DEF Filling
<1>3. CASE ~(n > MaxLevels)
  BY <1>3 DEF Bounded
<1>4. CASE n > MaxLevels
  <2>1. Bounded(w) = v
    BY <1>4 DEF Bounded, Rest
  <2> HIDE DEF half, M, n
  <2>2. cut \in 0..n /\ cut \in 0..j /\ j \in 0..n /\ n - cut = half /\ half - m \in 0..half /\ half - m = j - cut
    BY <1>1, <1>2, <1>4 DEF half
  <2>3. v \in Seq(Bit) /\ Len(v) = half /\ \A i \in 1..half : v[i] = w[cut + i]
    BY <1>2, <2>2, RestShape DEF n
  <2>4. x \in Seq(Bit) /\ Len(x) = j /\ \A i \in 1..j : x[i] = w[i]
    BY <1>2, <2>2, FirstShape DEF n
  <2> HIDE DEF v, x
  <2> DEFINE y == SubSeq(v, 1, half - m)
             z == Rest(x, cut)
  <2>5. y \in Seq(Bit) /\ Len(y) = half - m /\ \A i \in 1..half - m : y[i] = v[i]
    BY <2>2, <2>3, FirstShape
  <2>6. z \in Seq(Bit) /\ Len(z) = half - m /\ \A i \in 1..half - m : z[i] = x[cut + i]
    <3>1. cut \in 0..Len(x) /\ Len(x) - cut = half - m
      BY <1>1, <2>2, <2>4
    <3> QED BY <2>4, <3>1, RestShape
  <2>7. Harmless(z)
    BY <1>2, <2>2, <2>4, RestHarmless
  <2> HIDE DEF y, z, cut, j
  <2>8. ASSUME NEW i \in 1..half - m PROVE y[i] = z[i]
    <3>1. i \in 1..half /\ cut + i \in 1..j
      BY <1>1, <2>2
    <3> QED BY <2>3, <2>4, <2>5, <2>6, <3>1
  <2>9. y = z
    BY <2>5, <2>6, <2>8, SameItems
  <2>10. ASSUME NEW i \in 1..m PROVE v[half - m + i] = M[i]
    <3>1. half - m + i \in 1..half /\ cut + (half - m + i) = j + i
      BY <1>1, <2>2
    <3> QED BY <1>2, <2>3, <3>1 DEF j
  <2>11. m <= half
    BY DEF half
  <2>12. Filling(v, p, m)
    BY <2>3, <2>7, <2>9, <2>10, <2>11 DEF Filling, y, M
  <2> QED BY <2>1, <2>12
<1> QED BY <1>3, <1>4

\* The burst of a payload fits into what is left after a cut.
Fits(p) == Len(Modulate(p)) <= MaxLevels \div 2

\* A level more in a lane that is still filling: nothing is found, or all of
\* the frame.
StillFilling(a, p, m) == a.found = <<>> /\ Filling(a.buf, p, m) /\ Pending(a.buf, p, m)
JustFound(a, p, m) == a.found = <<p>> /\ Drained(a.buf, p, m) /\ m >= Closed(p)

LEMMA FillingPushed ==
  ASSUME NEW p \in Octets, Fits(p), NEW w, NEW m \in 0..Len(Modulate(p)) - 1,
         Filling(w, p, m), Pending(w, p, m)
  PROVE  \/ StillFilling(Assemble(Append(w, Modulate(p)[m + 1])), p, m + 1)
         \/ JustFound(Assemble(Append(w, Modulate(p)[m + 1])), p, m + 1)
<1> DEFINE L == Len(Modulate(p))
           c == Closed(p)
           v == Append(w, Modulate(p)[m + 1])
           n == Len(w)
           f == HdlcDeframe(NrziDecode(v))
           a == Assemble(v)
           full == Len(v) % 8 = 0
<1>1. L \in Nat /\ c \in Nat /\ Modulate(p) \in Seq(Bit) /\ L <= MaxLevels \div 2
  BY ModulateShape, BurstShape DEF Fits
<1>2. Filling(v, p, m + 1)
  BY Filled
<1>3. v \in Seq(Bit) /\ Len(v) = n + 1 /\ n \in Nat
  <2>1. w \in Seq(Bit)
    BY DEF Filling
  <2> HIDE DEF v
  <2>2. v = Append(w, Modulate(p)[m + 1]) /\ Modulate(p)[m + 1] \in Bit
    BY <1>1 DEF v
  <2> QED BY <2>1, <2>2
<1> HIDE DEF v, n, c, L
<1>4. m \in Nat /\ m + 1 \in 0..L /\ m + 1 <= MaxLevels \div 2
  <2>1. m \in 0..L - 1 /\ L \in Nat /\ L <= MaxLevels \div 2 /\ MaxLevels \div 2 \in Nat
    BY <1>1, PacketRxAssumption DEF L
  <2> QED BY ONLY <2>1
<1>5. m >= c => n % 8 > m - c
  BY DEF Pending, n, c
<1>6. m + 1 <= c + 7
  BY <1>1, <1>3, <1>4, <1>5
<1>7. f = IF m + 1 < c THEN <<>> ELSE <<p>>
  BY <1>2, <1>4, <1>6, FillingFound DEF c, L
<1>8. a = [buf |-> IF (IF full THEN f ELSE <<>>) # <<>> THEN <<>>
                   ELSE IF full THEN Bounded(v) ELSE v,
           found |-> IF full THEN f ELSE <<>>]
  BY DEF Assemble
<1> HIDE DEF f, a
<1>9. CASE ~full
  <2>1. a.buf = v /\ a.found = <<>>
    BY <1>8, <1>9
  <2>2. Pending(v, p, m + 1)
    <3>1. (n + 1) % 8 # 0
      BY <1>3, <1>9
    <3>2. m + 1 >= c => (n + 1) % 8 > (m + 1) - c
      BY ONLY <1>1, <1>3, <1>4, <1>5, <3>1
    <3>3. m + 1 >= Closed(p) => Len(v) % 8 > (m + 1) - Closed(p)
      BY <1>3, <3>2 DEF c
    <3> QED BY <3>3 DEF Pending
  <2>3. StillFilling(a, p, m + 1)
    BY <1>2, <2>1, <2>2 DEF StillFilling
  <2> QED BY <2>3 DEF a, v
<1>10. CASE full /\ m + 1 < c
  <2>1. a.buf = Bounded(v) /\ a.found = <<>>
    BY <1>7, <1>8, <1>10
  <2>2. Filling(Bounded(v), p, m + 1)
    BY <1>2, <1>4, FillingBounded
  <2>3. Pending(Bounded(v), p, m + 1)
    BY <1>1, <1>4, <1>10 DEF Pending, c
  <2>4. StillFilling(a, p, m + 1)
    BY <2>1, <2>2, <2>3 DEF StillFilling
  <2> QED BY <2>4 DEF a, v
<1>11. CASE full /\ ~(m + 1 < c)
  <2>1. a.buf = <<>> /\ a.found = <<p>>
    BY <1>7, <1>8, <1>11
  <2>2. Drained(<<>>, p, m + 1)
    <3>1. <<>> \in Seq(Bit) /\ Len(<<>>) = 0 /\ m + 1 - 0 = m + 1 /\ m + 1 \in Nat /\ m + 1 + 0 <= Len(Modulate(p))
          /\ m + 1 >= 0 + c
      BY <1>1, <1>4, <1>11 DEF L
    <3>2. LiesAt(<<>>, Modulate(p), m + 1)
      BY <1>1, <3>1 DEF LiesAt
    <3> QED BY <3>1, <3>2 DEF Drained, c
  <2>3. m + 1 >= c
    BY <1>1, <1>4, <1>11
  <2>4. JustFound(a, p, m + 1)
    BY <2>1, <2>2, <2>3 DEF JustFound, c
  <2> QED BY <2>4 DEF a, v
<1> QED BY <1>9, <1>10, <1>11

LEMMA DrainedPushed ==
  ASSUME NEW p \in Octets, Fits(p), NEW w, NEW m \in 0..Len(Modulate(p)) - 1, Drained(w, p, m)
  PROVE  LET a == Assemble(Append(w, Modulate(p)[m + 1]))
         IN  a.found = <<>> /\ Drained(a.buf, p, m + 1)
<1> DEFINE M == Modulate(p)
           L == Len(M)
           b == M[m + 1]
           n == Len(w)
           k == m - n
           v == Append(w, b)
           f == HdlcDeframe(NrziDecode(v))
           full == Len(v) % 8 = 0
<1>1. L \in Nat /\ Closed(p) \in Nat /\ M \in Seq(Bit) /\ L <= MaxLevels \div 2 /\ MaxLevels \in Nat
  BY ModulateShape, BurstShape, PacketRxAssumption DEF Fits
<1>2. m \in Nat /\ m + 1 \in 1..L /\ b \in Bit
  BY <1>1
<1>3. /\ m >= n + Closed(p) /\ w \in Seq(Bit) /\ k \in Nat /\ n \in Nat
      /\ \A i \in 1..n : M[k + i] = w[i]
  BY DEF Drained, LiesAt
<1> HIDE DEF M, b
<1>4. v \in Seq(Bit) /\ Len(v) = n + 1 /\ (\A i \in 1..n : v[i] = w[i]) /\ v[n + 1] = b
  BY <1>2, <1>3
<1> HIDE DEF v, n, L
<1>5. m + 1 - Len(v) = k /\ m + 1 >= Len(v) + Closed(p) /\ k + Len(v) <= L
  BY <1>1, <1>2, <1>3, <1>4
<1>6. Drained(v, p, m + 1)
  <2>1. ASSUME NEW i \in 1..Len(v) PROVE M[k + i] = v[i]
    <3>1. CASE i = n + 1
      <4>1. k + i = m + 1
        BY <1>2, <1>3, <3>1
      <4> QED BY <1>4, <3>1, <4>1 DEF b
    <3>2. CASE i # n + 1
      <4>1. i \in 1..n
        BY <1>3, <1>4, <3>2
      <4> QED BY <1>3, <1>4, <4>1
    <3> QED BY <3>1, <3>2
  <2>2. LiesAt(v, M, k)
    BY <1>1, <1>3, <1>4, <1>5, <2>1 DEF LiesAt, L
  <2> QED BY <1>5, <2>2 DEF Drained, M
<1>7. f = <<>>
  <2>1. m + 1 \in 0..Len(Modulate(p))
    BY <1>2 DEF L, M
  <2> QED BY <1>6, <2>1, DrainedFound
<1>8. Bounded(v) = v
  <2>1. ~(Len(v) > MaxLevels)
    BY <1>1, <1>3, <1>5, <1>4
  <2> QED BY <2>1 DEF Bounded
<1>9. Assemble(v) = [buf |-> IF (IF full THEN f ELSE <<>>) # <<>> THEN <<>>
                             ELSE IF full THEN Bounded(v) ELSE v,
                     found |-> IF full THEN f ELSE <<>>]
  BY DEF Assemble
<1> HIDE DEF f, full
<1>10. Assemble(v).found = <<>> /\ Assemble(v).buf = v
  BY <1>7, <1>8, <1>9
<1> QED BY <1>6, <1>10 DEF v, b, M

\* When all of a burst was heard, its frame was found, and what is left is
\* harmless.
LEMMA AllHeard ==
  ASSUME NEW p \in Octets, NEW w
  PROVE  /\ ~(Filling(w, p, Len(Modulate(p))) /\ Pending(w, p, Len(Modulate(p))))
         /\ Drained(w, p, Len(Modulate(p))) => Harmless(w)
<1> DEFINE L == Len(Modulate(p))
           c == Closed(p)
<1>1. L = c + 8 * PostambleFlags /\ c \in Nat /\ L \in Nat /\ L - c >= 8
  <2>1. L = c + 8 * PostambleFlags /\ c \in Nat /\ PostambleFlags \in Nat /\ PostambleFlags >= 1
    BY ModulateShape, BurstShape, PacketRxAssumption
  <2> HIDE DEF L, c
  <2> QED BY <2>1
<1>2. ASSUME Filling(w, p, L), Pending(w, p, L) PROVE FALSE
  <2>1. w \in Seq(Bit) /\ Len(w) \in Nat
    BY <1>2 DEF Filling
  <2>2. Len(w) % 8 > L - c
    BY <1>1, <1>2 DEF Pending
  <2> HIDE DEF L, c
  <2> QED BY <1>1, <2>1, <2>2
<1>3. ASSUME Drained(w, p, L) PROVE Harmless(w)
  <2>1. L >= Len(w) + c /\ LiesAt(w, Modulate(p), L - Len(w)) /\ Len(w) \in Nat
    BY <1>3 DEF Drained, LiesAt
  <2>2. L - Len(w) >= c /\ L - Len(w) + Len(w) = L
    <3> HIDE DEF L, c
    <3> QED BY <1>1, <2>1
  <2> QED BY <2>1, <2>2, TailHarmless
<1> QED BY <1>2, <1>3

\* A harmless buffer is ready for any burst.
LEMMA Fresh ==
  ASSUME NEW p \in Octets, NEW w, Harmless(w)
  PROVE  Filling(w, p, 0) /\ Pending(w, p, 0)
<1>1. w \in Seq(Bit) /\ Len(w) \in Nat /\ Len(w) - 0 = Len(w)
  BY DEF Harmless
<1>2. SubSeq(w, 1, Len(w)) = w
  BY <1>1
<1>3. Closed(p) \in Nat /\ ~(0 >= Closed(p))
  <2>1. Closed(p) \in Nat /\ Before \in Nat /\ Closed(p) >= Before + 16
    BY BurstShape
  <2> QED BY <2>1
<1>4. Filling(w, p, 0)
  <2>1. 0 <= Len(w)
    BY <1>1
  <2>3. SubSeq(w, 1, Len(w) - 0) = w
    BY <1>1, <1>2
  <2>4. Harmless(SubSeq(w, 1, Len(w) - 0))
    BY <2>3
  <2>2. \A i \in 1..0 : w[Len(w) - 0 + i] = Modulate(p)[i]
    OBVIOUS
  <2> QED BY <1>1, <2>1, <2>2, <2>4 DEF Filling
<1>5. Pending(w, p, 0)
  BY <1>3 DEF Pending
<1> QED BY <1>4, <1>5
-----------------------------------------------------------------------------
(* The deduplication. *)

\* Deliveries of one content are apart, and of each there is a record, unless
\* it is too old to be near anything that is still to come.
Apart(out) ==
    \A i, j \in 1..Len(out) :
        i < j /\ out[i].payload = out[j].payload => ~Near(out[i].at, out[j].at)
Recorded(records, out, newest) ==
    \A i \in 1..Len(out) :
        out[i].at \in Nat /\ (out[i] \in records \/ out[i].at + Window < newest)
Buffers(r) ==
    /\ r.levels = [l \in Lane |-> r.levels[l]]
    /\ \A l \in Lane : IsSeq(r.levels[l])
Merged(r, at) ==
    /\ r = [levels |-> r.levels, seen |-> r.seen, latest |-> r.latest, out |-> r.out]
    /\ r.latest \in Nat /\ r.latest <= at
    /\ IsSeq(r.out) /\ Apart(r.out) /\ Recorded(r.seen, r.out, r.latest)

\* A frame that is admitted is near no delivery of its content.
LEMMA OneAdmitted ==
  ASSUME NEW at \in Nat, NEW r, Merged(r, at), NEW payload
  PROVE  LET q == Admit(r, payload, at)
         IN  Merged(q, at) /\ q.levels = r.levels
<1> DEFINE entry == [payload |-> payload, at |-> at]
           known == \E s \in r.seen : s.payload = payload /\ Near(s.at, at)
           newest == IF at > r.latest THEN at ELSE r.latest
           q == Admit(r, payload, at)
<1> SUFFICES Merged(q, at) /\ q.levels = r.levels
  OBVIOUS
<1>6. Window \in Nat
  BY PacketRxAssumption
<1>1. /\ r = [levels |-> r.levels, seen |-> r.seen, latest |-> r.latest, out |-> r.out]
      /\ r.latest \in Nat /\ r.latest <= at
      /\ IsSeq(r.out) /\ Apart(r.out) /\ Recorded(r.seen, r.out, r.latest)
  BY DEF Merged
<1>2. newest \in Nat /\ newest = at
  BY <1>1
<1>5. q = [levels |-> r.levels,
           seen |-> IF known THEN r.seen ELSE r.seen \cup {entry},
           latest |-> newest,
           out |-> IF known THEN r.out ELSE Append(r.out, entry)]
  <2>1. q = [r EXCEPT !.latest = newest,
                      !.seen = IF known THEN @ ELSE @ \cup {entry},
                      !.out = IF known THEN @ ELSE Append(@, entry)]
    BY DEF Admit
  <2>2. r = [levels |-> r.levels, seen |-> r.seen, latest |-> r.latest, out |-> r.out]
    BY <1>1
  <2> HIDE DEF known, newest, entry, q
  <2> QED BY <2>1, <2>2
<1> HIDE DEF q
<1>3. CASE known
  <2>1. q = [levels |-> r.levels, seen |-> r.seen, latest |-> at, out |-> r.out]
    BY <1>2, <1>3, <1>5
  <2>2. Recorded(r.seen, r.out, at)
    BY <1>1, <1>6 DEF Recorded
  <2> QED BY <1>1, <2>1, <2>2 DEF Merged
<1>4. CASE ~known
  <2> DEFINE seen2 == r.seen \cup {entry}
             out2 == Append(r.out, entry)
             n == Len(r.out)
  <2>1. q = [levels |-> r.levels, seen |-> seen2, latest |-> at, out |-> out2]
    BY <1>2, <1>4, <1>5
  <2>2. /\ IsSeq(out2) /\ Len(out2) = n + 1 /\ n \in Nat
        /\ \A i \in 1..n : out2[i] = r.out[i]
        /\ out2[n + 1] = entry
    BY <1>1, Appended DEF IsSeq
  <2>3. ASSUME NEW i \in 1..n
        PROVE  r.out[i].at \in Nat /\ (r.out[i] \in r.seen \/ r.out[i].at + Window < r.latest)
    BY <1>1 DEF Recorded
  <2>4. ASSUME NEW i \in 1..n, r.out[i].payload = payload PROVE ~Near(r.out[i].at, at)
    <3>1. CASE r.out[i] \in r.seen
      BY <1>4, <2>4, <3>1
    <3>2. CASE r.out[i].at + Window < r.latest
      BY <1>1, <1>6, <2>3, <3>2 DEF Near
    <3> QED BY <2>3, <3>1, <3>2
  <2> HIDE DEF out2, n
  <2>5. Recorded(seen2, out2, at)
    <3> SUFFICES ASSUME NEW i \in 1..Len(out2)
                 PROVE  out2[i].at \in Nat /\ (out2[i] \in seen2 \/ out2[i].at + Window < at)
      BY DEF Recorded
    <3>1. CASE i \in 1..n
      BY <1>1, <1>6, <2>2, <2>3, <3>1
    <3>2. CASE i = n + 1
      BY <2>2, <3>2
    <3> QED BY <2>2, <3>1, <3>2
  <2>6. Apart(out2)
    <3> SUFFICES ASSUME NEW i \in 1..Len(out2), NEW j \in 1..Len(out2), i < j,
                        out2[i].payload = out2[j].payload
                 PROVE  ~Near(out2[i].at, out2[j].at)
      BY DEF Apart
    <3>1. i \in 1..n /\ out2[i] = r.out[i]
      BY <2>2
    <3>2. CASE j \in 1..n
      <4>1. out2[j] = r.out[j]
        BY <2>2, <3>2
      <4> QED BY <1>1, <3>1, <3>2, <4>1 DEF Apart, n
    <3>3. CASE j = n + 1
      <4>1. out2[j].payload = payload /\ out2[j].at = at
        BY <2>2, <3>3
      <4> QED BY <2>4, <3>1, <4>1
    <3> QED BY <2>2, <3>2, <3>3
  <2> HIDE DEF seen2
  <2> QED BY <2>1, <2>2, <2>5, <2>6 DEF Merged
<1> QED BY <1>3, <1>4

\* The frames that a lane found, one after the other.
AdmittedInTurn(F, r, found, at) ==
    /\ F[0] = r /\ \A i \in 1..Len(found) : F[i] = Admit(F[i - 1], found[i], at)
    /\ AdmitAll(r, found, at) = F[Len(found)]

LEMMA InTurn ==
  ASSUME NEW at, NEW r, NEW found, Len(found) \in Nat
  PROVE  \E F : AdmittedInTurn(F, r, found, at)
<1> DEFINE n == Len(found)
           Step(f, i) == IF i = 0 THEN r ELSE Admit(f[i - 1], found[i], at)
           Solves(f, m) == f = [i \in 0..m |-> Step(f, i)]
           T == {m \in Nat : \E f : Solves(f, m)}
           F == CHOOSE f : Solves(f, n)
<1>0. n \in Nat
  OBVIOUS
<1>1. AdmitAll(r, found, at) = F[n]
  BY DEF AdmitAll
<1>2. 0 \in T
  <2> DEFINE g == [i \in 0..0 |-> r]
  <2>1. Solves(g, 0)
    OBVIOUS
  <2> QED BY <2>1
<1>3. ASSUME NEW m \in T PROVE m + 1 \in T
  <2>1. PICK f : Solves(f, m)
    OBVIOUS
  <2> DEFINE g == [i \in 0..m + 1 |->
                     IF i = m + 1 THEN Admit(f[m], found[m + 1], at) ELSE f[i]]
  <2>2. ASSUME NEW i \in 0..m + 1 PROVE g[i] = Step(g, i)
    <3>1. CASE i = 0
      BY <2>1, <3>1
    <3>2. CASE i \in 1..m
      <4>1. g[i] = f[i] /\ g[i - 1] = f[i - 1] /\ i - 1 \in 0..m
        BY <3>2
      <4>2. f[i] = Admit(f[i - 1], found[i], at)
        BY <2>1, <3>2
      <4> QED BY <3>2, <4>1, <4>2
    <3>3. CASE i = m + 1
      <4>1. g[i] = Admit(f[m], found[m + 1], at) /\ g[i - 1] = f[m] /\ i # 0
        BY <3>3
      <4> QED BY <3>3, <4>1
    <3> QED BY <3>1, <3>2, <3>3
  <2>3. g = [i \in 0..m + 1 |-> g[i]]
    OBVIOUS
  <2> HIDE DEF g
  <2>4. Solves(g, m + 1)
    BY <2>2, <2>3, Zenon
  <2>5. m + 1 \in Nat /\ \E h : Solves(h, m + 1)
    <3>1. m + 1 \in Nat
      OBVIOUS
    <3> HIDE DEF Solves
    <3> QED BY <2>4, <3>1
  <2> QED BY <2>5
<1>4. T = Nat
  BY <1>2, <1>3, Induct
<1>5. Solves(F, n)
  <2>1. \E f : Solves(f, n)
    BY <1>0, <1>4
  <2> HIDE DEF Solves, n
  <2> QED BY <2>1
<1> HIDE DEF F
<1>6. F[0] = r /\ \A i \in 1..n : F[i] = Admit(F[i - 1], found[i], at)
  BY <1>0, <1>5
<1>7. AdmittedInTurn(F, r, found, at)
  BY <1>1, <1>6 DEF AdmittedInTurn
<1> HIDE DEF n, T, Solves
<1> QED BY <1>7

LEMMA AllAdmitted ==
  ASSUME NEW at \in Nat, NEW r, Merged(r, at), NEW found, IsSeq(found)
  PROVE  LET q == AdmitAll(r, found, at)
         IN  Merged(q, at) /\ q.levels = r.levels
<1> DEFINE n == Len(found)
<1>0. n \in Nat
  BY DEF IsSeq
<1>1. PICK F : AdmittedInTurn(F, r, found, at)
  BY <1>0, InTurn
<1>6. F[0] = r /\ (\A i \in 1..n : F[i] = Admit(F[i - 1], found[i], at)) /\ AdmitAll(r, found, at) = F[n]
  BY <1>1 DEF AdmittedInTurn
<1> HIDE DEF n
<1> DEFINE G == {i \in Nat : i <= n => Merged(F[i], at) /\ F[i].levels = r.levels}
<1>7. 0 \in G
  BY <1>6
<1>8. ASSUME NEW i \in G PROVE i + 1 \in G
  <2> SUFFICES ASSUME i + 1 <= n PROVE Merged(F[i + 1], at) /\ F[i + 1].levels = r.levels
    OBVIOUS
  <2>1. i \in Nat /\ Merged(F[i], at) /\ F[i].levels = r.levels
    BY <1>0
  <2>2. i + 1 \in 1..n /\ (i + 1) - 1 = i
    BY <1>0, <2>1
  <2>3. F[i + 1] = Admit(F[i], found[i + 1], at)
    BY <1>6, <2>2
  <2> HIDE DEF G
  <2> QED BY <2>1, <2>3, OneAdmitted
<1>9. G = Nat
  BY <1>7, <1>8, Induct
<1>10. n \in G
  BY <1>0, <1>9
<1> QED BY <1>0, <1>6, <1>10

\* A lane's buffer stays a sequence, and what it finds is one.
LEMMA Assembled ==
  ASSUME NEW buf, IsSeq(buf)
  PROVE  IsSeq(Assemble(buf).buf) /\ IsSeq(Assemble(buf).found)
<1>1. IsSeq(<<>>)
  BY Listed DEF IsSeq
<1>2. Len(buf) \in Nat /\ MaxLevels \in Nat
  BY PacketRxAssumption DEF IsSeq
<1> DEFINE y == NrziDecode(buf)
<1>3. y \in Seq(Bit)
  <2>1. y = [i \in 1..Len(buf) |-> y[i]]
    BY DEF NrziDecode
  <2>2. \A i \in 1..Len(buf) : y[i] \in Bit
    BY DEF NrziDecode, Bit
  <2> HIDE DEF y
  <2>3. y \in [1..Len(buf) -> Bit]
    BY ONLY <2>1, <2>2
  <2> QED BY <1>2, <2>3, SeqDef
<1> HIDE DEF y
<1>4. IsSeq(HdlcDeframe(y))
  <2> DEFINE n == Len(y)
             f == Scanned(y)[n].frames
  <2>1. n \in 0..n
    BY <1>3
  <2>2. Scanned(y)[n] \in Scan /\ HdlcDeframe(y) = f
    BY <1>3, <2>1, ScanSolved
  <2>3. f \in Seq(Seq(Bit))
    BY <2>2 DEF Scan
  <2> QED BY <2>2, <2>3, SeqItems
<1>5. IsSeq(Bounded(buf))
  <2>1. CASE Len(buf) > MaxLevels
    <3> DEFINE m == Len(buf) - MaxLevels \div 2 + 1
    <3>1. m \in 1..Len(buf) + 1
      BY <1>2, <2>1
    <3>2. Bounded(buf) = SubSeq(buf, m, Len(buf))
      BY <2>1 DEF Bounded
    <3> HIDE DEF m
    <3> QED BY <3>1, <3>2, SubSeqed
  <2>2. CASE ~(Len(buf) > MaxLevels)
    BY <2>2 DEF Bounded
  <2> QED BY <2>1, <2>2
<1> DEFINE found == IF Len(buf) % 8 = 0 THEN HdlcDeframe(y) ELSE <<>>
<1>6. /\ Assemble(buf).found = found
      /\ Assemble(buf).buf \in {<<>>, Bounded(buf), buf}
  BY DEF Assemble, y
<1>7. IsSeq(found)
  BY <1>1, <1>4
<1> QED BY <1>1, <1>5, <1>6, <1>7

\* One level in one lane.
LEMMA LevelPushed ==
  ASSUME NEW at \in Nat, NEW r, Merged(r, at), Buffers(r),
         NEW l \in Lane, NEW level
  PROVE  LET q == PushLevel(r, l, level, at) IN Merged(q, at) /\ Buffers(q)
<1> DEFINE a == Assemble(Append(r.levels[l], level))
           q == [r EXCEPT !.levels[l] = a.buf]
           p == PushLevel(r, l, level, at)
<1>1. IsSeq(a.buf) /\ IsSeq(a.found)
  <2>1. IsSeq(Append(r.levels[l], level))
    BY Appended DEF Buffers
  <2> QED BY <2>1, Assembled
<1>2. p = AdmitAll(q, a.found, at)
  BY DEF PushLevel
<1> HIDE DEF a
<1>3. Merged(q, at) /\ Buffers(q)
  <2> DEFINE bufs == [r.levels EXCEPT ![l] = a.buf]
  <2>1. r = [levels |-> r.levels, seen |-> r.seen, latest |-> r.latest, out |-> r.out]
    BY DEF Merged
  <2>2. q = [levels |-> bufs, seen |-> r.seen, latest |-> r.latest, out |-> r.out]
    BY <2>1
  <2>3. /\ bufs = [k \in Lane |-> bufs[k]]
        /\ \A k \in Lane : bufs[k] = IF k = l THEN a.buf ELSE r.levels[k]
    BY DEF Buffers
  <2> HIDE DEF bufs, q
  <2>4. Merged(q, at)
    BY <2>2 DEF Merged
  <2>5. Buffers(q)
    BY <1>1, <2>2, <2>3 DEF Buffers
  <2> QED BY <2>4, <2>5
<1> HIDE DEF q
<1>4. Merged(p, at) /\ p.levels = q.levels
  BY <1>1, <1>2, <1>3, AllAdmitted
<1> HIDE DEF p
<1>5. Buffers(p)
  BY <1>3, <1>4 DEF Buffers
<1> QED BY <1>4, <1>5 DEF p

Receiver == [levels |-> levels, seen |-> seen, latest |-> latest, out |-> frames]
PacketRxInv ==
    /\ heard \in Nat
    /\ Merged(Receiver, heard) /\ Buffers(Receiver)

\* The lanes one after the other.
FedInTurn(F, heardBy) ==
    /\ F[0] = Receiver
    /\ \A l \in Lane : F[l] = PushLevel(F[l - 1], l, heardBy[l], heard + 1)
    /\ \A l \in 0..Lanes : Merged(F[l], heard + 1) /\ Buffers(F[l])

LEMMA Fed ==
  ASSUME PacketRxInv, NEW heardBy, Feed(heardBy)
  PROVE  heard' = heard + 1 /\ air' = Tail(air)
         /\ \E F : FedInTurn(F, heardBy) /\ Receiver' = F[Lanes]
<1> DEFINE at == heard + 1
           n == Lanes
           r == Receiver
           Step(f, i) == IF i = 0 THEN r ELSE PushLevel(f[i - 1], i, heardBy[i], at)
           Solves(f, m) == f = [i \in 0..m |-> Step(f, i)]
           T == {m \in Nat : \E f : Solves(f, m)}
           F == CHOOSE f : Solves(f, n)
<1>0. n \in Nat /\ Lane = 1..n /\ Window \in Nat /\ MaxLevels \in Nat /\ heard \in Nat
  BY PacketRxAssumption DEF PacketRxInv, Lane
<1>1. /\ levels' = F[n].levels /\ latest' = F[n].latest /\ seen' = F[n].seen
      /\ frames' = F[n].out /\ heard' = at /\ air' = Tail(air)
  BY DEF Feed, Receiver
<1>11. at \in Nat /\ Merged(r, at) /\ Buffers(r)
  BY <1>0 DEF PacketRxInv, Merged
<1> HIDE DEF r, at
<1>2. 0 \in T
  <2> DEFINE g == [i \in 0..0 |-> r]
  <2>1. Solves(g, 0)
    OBVIOUS
  <2> QED BY <2>1
<1>3. ASSUME NEW m \in T PROVE m + 1 \in T
  <2>1. PICK f : Solves(f, m)
    OBVIOUS
  <2> DEFINE g == [i \in 0..m + 1 |->
                     IF i = m + 1 THEN PushLevel(f[m], m + 1, heardBy[m + 1], at)
                                  ELSE f[i]]
  <2>2. ASSUME NEW i \in 0..m + 1 PROVE g[i] = Step(g, i)
    <3>1. CASE i = 0
      BY <2>1, <3>1
    <3>2. CASE i \in 1..m
      <4>1. g[i] = f[i] /\ g[i - 1] = f[i - 1] /\ i - 1 \in 0..m
        BY <3>2
      <4>2. f[i] = PushLevel(f[i - 1], i, heardBy[i], at)
        BY <2>1, <3>2
      <4> QED BY <3>2, <4>1, <4>2
    <3>3. CASE i = m + 1
      <4>1. /\ g[i] = PushLevel(f[m], m + 1, heardBy[m + 1], at)
            /\ g[i - 1] = f[m] /\ i # 0
        BY <3>3
      <4> QED BY <3>3, <4>1
    <3> QED BY <3>1, <3>2, <3>3
  <2>3. g = [i \in 0..m + 1 |-> g[i]]
    OBVIOUS
  <2> HIDE DEF g
  <2>4. Solves(g, m + 1)
    BY <2>2, <2>3, Zenon
  <2>5. m + 1 \in Nat /\ \E h : Solves(h, m + 1)
    <3>1. m + 1 \in Nat
      OBVIOUS
    <3> HIDE DEF Solves
    <3> QED BY <2>4, <3>1
  <2> QED BY <2>5
<1>4. T = Nat
  BY <1>2, <1>3, Induct
<1>5. Solves(F, n)
  <2>1. \E f : Solves(f, n)
    BY <1>0, <1>4
  <2> HIDE DEF Solves, n
  <2> QED BY <2>1
<1> HIDE DEF F
<1>6. F[0] = r /\ \A i \in 1..n : F[i] = PushLevel(F[i - 1], i, heardBy[i], at)
  BY <1>0, <1>5
<1> HIDE DEF n, T, Solves
<1> DEFINE G == {i \in Nat : i <= n => Merged(F[i], at) /\ Buffers(F[i])}
<1>7. 0 \in G
  BY <1>6, <1>11
<1>8. ASSUME NEW i \in G PROVE i + 1 \in G
  <2> SUFFICES ASSUME i + 1 <= n PROVE Merged(F[i + 1], at) /\ Buffers(F[i + 1])
    OBVIOUS
  <2>1. i \in Nat /\ Merged(F[i], at) /\ Buffers(F[i])
    BY <1>0
  <2>2. i + 1 \in 1..n /\ (i + 1) - 1 = i
    BY <1>0, <2>1
  <2>3. F[i + 1] = PushLevel(F[i], i + 1, heardBy[i + 1], at)
    BY <1>6, <2>2
  <2> HIDE DEF G
  <2> QED BY <1>0, <1>11, <2>1, <2>2, <2>3, LevelPushed
<1>9. G = Nat
  BY <1>7, <1>8, Induct
<1>10. \A i \in 0..n : Merged(F[i], at) /\ Buffers(F[i])
  BY <1>0, <1>9
<1> HIDE DEF G
<1>12. Receiver' = F[n]
  <2>1. n \in 0..n
    BY <1>0
  <2> QED BY <1>1, <1>10, <2>1 DEF Receiver, Merged
<1>13. FedInTurn(F, heardBy)
  BY <1>0, <1>6, <1>10 DEF FedInTurn, r, at, n
<1> QED BY <1>1, <1>12, <1>13 DEF at, n

LEMMA OneFeed ==
  ASSUME PacketRxInv, NEW heardBy, Feed(heardBy)
  PROVE  PacketRxInv'
<1>1. heard' = heard + 1 /\ heard \in Nat /\ Lanes \in 0..Lanes
  BY Fed, PacketRxAssumption DEF PacketRxInv
<1>2. PICK F : FedInTurn(F, heardBy) /\ Receiver' = F[Lanes]
  BY Fed
<1>3. Merged(F[Lanes], heard + 1) /\ Buffers(F[Lanes])
  BY <1>1, <1>2 DEF FedInTurn
<1>4. Merged(Receiver, heard)'
  BY <1>1, <1>2, <1>3 DEF Merged
<1>5. Buffers(Receiver)'
  BY <1>2, <1>3 DEF Buffers, Lane
<1> QED BY <1>1, <1>4, <1>5 DEF PacketRxInv

LEMMA PacketStart == Init => PacketRxInv
<1> SUFFICES ASSUME Init PROVE PacketRxInv
  OBVIOUS
<1>1. IsSeq(frames) /\ Len(frames) = 0 /\ latest = 0 /\ heard = 0
  BY Listed DEF Init, IsSeq
<1>2. Merged(Receiver, heard)
  BY <1>1 DEF Merged, Receiver, Apart, Recorded
<1>3. /\ levels = [l \in Lane |-> levels[l]]
      /\ \A l \in Lane : \E n \in Idle : levels[l] = [i \in 1..n |-> 1]
  BY DEF Init
<1>4. ASSUME NEW l \in Lane PROVE IsSeq(levels[l])
  <2>1. PICK n \in Idle : levels[l] = [i \in 1..n |-> 1]
    BY <1>3
  <2> DEFINE s == levels[l]
  <2>2. n \in Nat
    <3>1. MaxLevels \in Nat /\ n \in 0..MaxLevels
      BY PacketRxAssumption
    <3> QED BY <3>1
  <2>3. s = [i \in 1..n |-> s[i]]
    BY <2>1
  <2> HIDE DEF s
  <2>4. IsSeq(s)
    BY <2>2, <2>3, Listed
  <2> QED BY <2>4 DEF s
<1> QED BY <1>1, <1>2, <1>3, <1>4 DEF PacketRxInv, Buffers, Receiver

\* Only what is out of the window is forgotten.
LEMMA PacketStep == PacketRxInv /\ [Next]_vars => PacketRxInv'
<1> SUFFICES ASSUME PacketRxInv, [Next]_vars
             PROVE  PacketRxInv'
  OBVIOUS
<1>1. ASSUME UNCHANGED <<levels, heard, seen, latest, frames>> PROVE PacketRxInv'
  <2>1. Receiver' = Receiver /\ heard' = heard
    BY <1>1 DEF Receiver
  <2> QED BY <2>1 DEF PacketRxInv, Merged, Buffers, Lane
<1>2. ASSUME NEW p \in Payload, Transmit(p) PROVE PacketRxInv'
  BY <1>1, <1>2 DEF Transmit
<1>3. ASSUME NEW noise \in Noise, Disturb(noise) PROVE PacketRxInv'
  BY <1>1, <1>3 DEF Disturb
<1>4. CASE Hear
  BY <1>4, OneFeed DEF Hear
<1>5. ASSUME NEW hit, HearFlipped(hit) PROVE PacketRxInv'
  BY <1>5, OneFeed DEF HearFlipped
<1>6. CASE EndChunk
  <2>1. /\ seen' = {s \in seen : s.at + Window >= latest}
        /\ levels' = levels /\ heard' = heard /\ latest' = latest /\ frames' = frames
    BY <1>6 DEF EndChunk, Prune
  <2>2. /\ latest \in Nat /\ latest <= heard /\ IsSeq(frames) /\ Apart(frames)
        /\ Recorded(seen, frames, latest)
    BY DEF PacketRxInv, Merged, Receiver
  <2>3. Recorded(seen', frames, latest)
    <3> SUFFICES ASSUME NEW i \in 1..Len(frames)
                 PROVE  /\ frames[i].at \in Nat
                        /\ frames[i] \in seen' \/ frames[i].at + Window < latest
      BY DEF Recorded
    <3>1. Window \in Nat
      BY PacketRxAssumption
    <3>2. /\ frames[i].at \in Nat
          /\ frames[i] \in seen \/ frames[i].at + Window < latest
      BY <2>2 DEF Recorded
    <3> QED BY <2>1, <2>2, <3>1, <3>2
  <2>4. Receiver' = [levels |-> levels, seen |-> seen', latest |-> latest, out |-> frames]
    BY <2>1 DEF Receiver
  <2>5. Merged(Receiver, heard)'
    BY <2>1, <2>2, <2>3, <2>4 DEF Merged
  <2>6. Buffers(Receiver)'
    BY <2>4 DEF PacketRxInv, Buffers, Receiver, Lane
  <2> QED BY <2>1, <2>5, <2>6 DEF PacketRxInv
<1>7. CASE UNCHANGED vars
  BY <1>1, <1>7 DEF vars
<1> QED BY <1>2, <1>3, <1>4, <1>5, <1>6, <1>7 DEF Next

\* Two deliveries of one content are further apart than the window, over any
\* number of lanes, whatever they find, and wherever a chunk ends
\* (DedupWindow::admit, prune_to_latest in dsp/src/ensemble.rs).
THEOREM CopiesMerged == Spec => []CloseCopiesMerged
<1>1. PacketRxInv => CloseCopiesMerged
  <2>1. PacketRxInv => DOMAIN frames = 1..Len(frames)
    BY DEF PacketRxInv, Merged, Receiver, IsSeq
  <2> QED BY <2>1 DEF PacketRxInv, Merged, Receiver, Apart, CloseCopiesMerged
<1>2. Init => PacketRxInv
  BY PacketStart
<1>3. PacketRxInv /\ [Next]_vars => PacketRxInv'
  BY PacketStep
<1> QED BY <1>1, <1>2, <1>3, PTL DEF Spec

-----------------------------------------------------------------------------
(* Bursts without noise, and lanes that hear them right.                   *)

\* A payload was delivered after t.
Since(out, p, t) == \E i \in 1..Len(out) : out[i].payload = p /\ out[i].at > t

\* What is in the window was delivered.
Kept(r) == \A s \in r.seen : \E i \in 1..Len(r.out) : r.out[i] = s

\* Deliveries at one instant, or none, were added; and all are of p.
Grown(out, more, at) ==
    /\ Len(out) \in Nat /\ Len(more) \in Nat /\ Len(out) <= Len(more)
    /\ \A i \in 1..Len(out) : more[i] = out[i]
    /\ \A i \in Len(out) + 1..Len(more) : more[i].at = at
OnlyOf(out, more, p) == \A i \in Len(out) + 1..Len(more) : more[i].payload = p

\* A lane has m levels of the burst of p that began at t, or its frame is out.
Hears(w, p, m) == Filling(w, p, m) /\ Pending(w, p, m)
HasHeard(w, p, m, out, t) == Drained(w, p, m) /\ Since(out, p, t)
Listens(w, p, m, out, t) == Hears(w, p, m) \/ HasHeard(w, p, m, out, t)

LEMMA NoneAdmitted ==
  ASSUME NEW r, NEW at
  PROVE  AdmitAll(r, <<>>, at) = r
<1>1. Len(<<>>) = 0 /\ Len(<<>>) \in Nat
  OBVIOUS
<1>2. PICK F : AdmittedInTurn(F, r, <<>>, at)
  BY <1>1, InTurn
<1> QED BY <1>1, <1>2 DEF AdmittedInTurn

LEMMA OnlyAdmitted ==
  ASSUME NEW r, NEW p, NEW at
  PROVE  AdmitAll(r, <<p>>, at) = Admit(r, p, at)
<1> DEFINE found == <<p>>
<1>1. Len(found) = 1 /\ Len(found) \in Nat /\ found[1] = p /\ 1 - 1 = 0 /\ 1 \in 1..1
  OBVIOUS
<1> HIDE DEF found
<1>2. PICK F : AdmittedInTurn(F, r, found, at)
  BY <1>1, InTurn
<1>3. F[1] = Admit(F[1 - 1], found[1], at) /\ F[0] = r /\ AdmitAll(r, found, at) = F[1]
  BY <1>1, <1>2 DEF AdmittedInTurn
<1>4. F[1] = Admit(r, p, at)
  BY <1>1, <1>3
<1> QED BY <1>3, <1>4 DEF found

\* Of a record p is delivered, or was within the window.
Taken(r, q, p, at) ==
    \/ q.seen = r.seen /\ q.out = r.out /\ \E s \in r.seen : s.payload = p /\ Near(s.at, at)
    \/ LET entry == [payload |-> p, at |-> at]
       IN  q.seen = r.seen \cup {entry} /\ q.out = Append(r.out, entry)

LEMMA AdmitTakes ==
  ASSUME NEW at \in Nat, NEW r, Merged(r, at), NEW p
  PROVE  Taken(r, Admit(r, p, at), p, at)
<1> DEFINE entry == [payload |-> p, at |-> at]
           known == \E s \in r.seen : s.payload = p /\ Near(s.at, at)
           newest == IF at > r.latest THEN at ELSE r.latest
           q == Admit(r, p, at)
<1>1. r = [levels |-> r.levels, seen |-> r.seen, latest |-> r.latest, out |-> r.out]
  BY DEF Merged
<1>2. q = [r EXCEPT !.latest = newest,
                    !.seen = IF known THEN @ ELSE @ \cup {entry},
                    !.out = IF known THEN @ ELSE Append(@, entry)]
  BY DEF Admit
<1>3. /\ q.seen = (IF known THEN r.seen ELSE r.seen \cup {entry})
      /\ q.out = (IF known THEN r.out ELSE Append(r.out, entry))
  <2> HIDE DEF known, newest, entry, q
  <2> QED BY <1>1, <1>2
<1> HIDE DEF q, entry
<1>4. CASE known
  <2>1. q.seen = r.seen /\ q.out = r.out
    BY <1>3, <1>4
  <2> QED BY <1>4, <2>1 DEF Taken, q
<1>5. CASE ~known
  <2>1. q.seen = r.seen \cup {entry} /\ q.out = Append(r.out, entry)
    BY <1>3, <1>5
  <2> QED BY <2>1 DEF Taken, q, entry
<1> QED BY <1>4, <1>5

\* A frame that is admitted is kept in the window.
LEMMA AdmittedIsKept ==
  ASSUME NEW at \in Nat, NEW r, Merged(r, at), Kept(r), NEW p
  PROVE  LET q == Admit(r, p, at)
         IN  Kept(q) /\ Grown(r.out, q.out, at) /\ OnlyOf(r.out, q.out, p)
<1> DEFINE q == Admit(r, p, at)
           entry == [payload |-> p, at |-> at]
           n == Len(r.out)
<1>1. IsSeq(r.out) /\ n \in Nat
  BY DEF Merged, IsSeq
<1>2. Taken(r, q, p, at)
  BY AdmitTakes
<1> HIDE DEF q
<1>3. CASE q.seen = r.seen /\ q.out = r.out
  <2>1. Kept(q)
    BY <1>3 DEF Kept
  <2>2. Grown(r.out, q.out, at)
    BY <1>1, <1>3 DEF Grown
  <2>3. OnlyOf(r.out, q.out, p)
    BY <1>1, <1>3 DEF OnlyOf
  <2> QED BY <2>1, <2>2, <2>3 DEF q
<1>4. CASE q.seen = r.seen \cup {entry} /\ q.out = Append(r.out, entry)
  <2> DEFINE more == Append(r.out, entry)
  <2>1. /\ Len(more) = n + 1 /\ more[n + 1] = entry
        /\ \A i \in 1..n : more[i] = r.out[i]
    BY <1>1, Appended
  <2>2. entry.payload = p /\ entry.at = at
    OBVIOUS
  <2>3. q.out = more
    BY <1>4
  <2> HIDE DEF more, entry, n
  <2>4. n + 1 \in 1..Len(more)
    BY <1>1, <2>1
  <2>5. ASSUME NEW s \in q.seen PROVE \E i \in 1..Len(more) : more[i] = s
    <3>1. CASE s = entry
      BY <2>1, <2>4, <3>1
    <3>2. CASE s \in r.seen
      <4>1. PICK i \in 1..n : r.out[i] = s
        BY <3>2 DEF Kept, n
      <4>2. i \in 1..Len(more)
        BY <1>1, <2>1
      <4> QED BY <2>1, <4>1, <4>2
    <3> QED BY <1>4, <3>1, <3>2
  <2>6. Kept(q)
    BY <2>3, <2>5 DEF Kept
  <2>7. ASSUME NEW i \in n + 1..Len(more) PROVE more[i].payload = p /\ more[i].at = at
    <3>1. i = n + 1
      BY <1>1, <2>1
    <3> QED BY <2>1, <2>2, <3>1
  <2>8. Grown(r.out, more, at)
    <3>1. Len(more) \in Nat /\ n <= Len(more)
      BY <1>1, <2>1
    <3> QED BY <1>1, <2>1, <2>7, <3>1 DEF Grown, n
  <2>9. OnlyOf(r.out, more, p)
    BY <2>7 DEF OnlyOf, n
  <2> QED BY <2>3, <2>6, <2>8, <2>9 DEF q
<1> QED BY <1>2, <1>3, <1>4 DEF Taken

\* A frame that was found late enough in a burst is out: a copy of it that is
\* still in the window was delivered in the burst, too.
LEMMA AdmittedIsOut ==
  ASSUME NEW p, NEW t \in Nat, NEW at \in Nat, t + Window < at,
         NEW r, Merged(r, at), Kept(r)
  PROVE  Since(Admit(r, p, at).out, p, t)
<1> DEFINE q == Admit(r, p, at)
           entry == [payload |-> p, at |-> at]
           n == Len(r.out)
<1>1. /\ IsSeq(r.out) /\ n \in Nat /\ Window \in Nat
      /\ \A i \in 1..n : r.out[i].at \in Nat
  BY PacketRxAssumption DEF Merged, Recorded, IsSeq
<1>2. Taken(r, q, p, at)
  BY AdmitTakes
<1>3. at > t
  BY <1>1
<1> HIDE DEF q
<1>4. CASE q.seen = r.seen /\ q.out = r.out /\ \E s \in r.seen : s.payload = p /\ Near(s.at, at)
  <2>1. PICK s \in r.seen : s.payload = p /\ Near(s.at, at)
    BY <1>4
  <2>2. PICK i \in 1..n : r.out[i] = s
    BY DEF Kept
  <2>3. s.at \in Nat /\ at <= s.at + Window
    BY <1>1, <2>1, <2>2 DEF Near
  <2>4. s.at > t
    BY <1>1, <2>3
  <2>5. Since(q.out, p, t)
    BY <1>4, <2>1, <2>2, <2>4 DEF Since
  <2> QED BY <2>5 DEF q
<1>5. CASE q.seen = r.seen \cup {entry} /\ q.out = Append(r.out, entry)
  <2>1. Len(q.out) = n + 1 /\ q.out[n + 1] = entry
    BY <1>1, <1>5, Appended
  <2>2. n + 1 \in 1..Len(q.out)
    BY <1>1, <2>1
  <2>3. Since(q.out, p, t)
    BY <1>3, <2>1, <2>2 DEF Since
  <2> QED BY <2>3 DEF q
<1> QED BY <1>2, <1>4, <1>5 DEF Taken

\* More deliveries, and what was delivered is still delivered.
LEMMA GrownFurther ==
  ASSUME NEW at, NEW s1, NEW s2, NEW s3, Grown(s1, s2, at), Grown(s2, s3, at)
  PROVE  /\ Grown(s1, s3, at)
         /\ \A p : OnlyOf(s1, s2, p) /\ OnlyOf(s2, s3, p) => OnlyOf(s1, s3, p)
<1>1. /\ Len(s1) \in Nat /\ Len(s2) \in Nat /\ Len(s3) \in Nat /\ Len(s1) <= Len(s2) /\ Len(s2) <= Len(s3)
      /\ (\A i \in 1..Len(s1) : s2[i] = s1[i])
      /\ (\A i \in 1..Len(s2) : s3[i] = s2[i])
      /\ (\A i \in Len(s1) + 1..Len(s2) : s2[i].at = at)
      /\ (\A i \in Len(s2) + 1..Len(s3) : s3[i].at = at)
  BY DEF Grown
<1>2. ASSUME NEW i \in 1..Len(s1) PROVE s3[i] = s1[i]
  <2>1. i \in 1..Len(s2)
    BY <1>1
  <2> QED BY <1>1, <2>1
<1>3. ASSUME NEW i \in Len(s1) + 1..Len(s3)
      PROVE  \/ i \in Len(s1) + 1..Len(s2) /\ s3[i] = s2[i]
             \/ i \in Len(s2) + 1..Len(s3)
  <2>1. CASE i \in 1..Len(s2)
    <3>1. i \in Len(s1) + 1..Len(s2)
      BY <1>1, <2>1
    <3> QED BY <1>1, <2>1, <3>1
  <2>2. CASE ~(i \in 1..Len(s2))
    BY <1>1, <2>2
  <2> QED BY <2>1, <2>2
<1>4. Len(s1) <= Len(s3)
  BY <1>1
<1>5. \A i \in Len(s1) + 1..Len(s3) : s3[i].at = at
  BY <1>1, <1>3
<1>6. Grown(s1, s3, at)
  BY <1>1, <1>2, <1>4, <1>5 DEF Grown
<1>7. ASSUME NEW p, OnlyOf(s1, s2, p), OnlyOf(s2, s3, p) PROVE OnlyOf(s1, s3, p)
  BY <1>3, <1>7 DEF OnlyOf
<1> QED BY <1>6, <1>7

\* Whatever a lane finds is kept in the window.
LEMMA AllAreKept ==
  ASSUME NEW at \in Nat, NEW r, Merged(r, at), Kept(r), NEW found, IsSeq(found)
  PROVE  LET q == AdmitAll(r, found, at) IN Kept(q) /\ Grown(r.out, q.out, at)
<1> DEFINE n == Len(found)
<1>1. n \in Nat /\ Len(r.out) \in Nat
  BY DEF IsSeq, Merged
<1>2. PICK F : AdmittedInTurn(F, r, found, at)
  BY <1>1, InTurn
<1>3. /\ F[0] = r /\ \A i \in 1..n : F[i] = Admit(F[i - 1], found[i], at)
      /\ AdmitAll(r, found, at) = F[n]
  BY <1>2 DEF AdmittedInTurn
<1> HIDE DEF n
<1> DEFINE Good(q) == Merged(q, at) /\ Kept(q) /\ Grown(r.out, q.out, at)
           G == {i \in 0..n : Good(F[i])}
<1>4. 0 \in G
  <2>1. Grown(r.out, r.out, at)
    BY <1>1 DEF Grown
  <2> QED BY <1>1, <1>3, <2>1
<1>5. ASSUME NEW i \in 0..n - 1, i \in G PROVE i + 1 \in G
  <2> DEFINE x == F[i]
             y == F[i + 1]
  <2>1. i + 1 \in 1..n /\ (i + 1) - 1 = i /\ i + 1 \in 0..n
    BY <1>1
  <2>2. y = Admit(x, found[i + 1], at)
    BY <1>3, <2>1
  <2>3. Merged(x, at) /\ Kept(x) /\ Grown(r.out, x.out, at)
    BY <1>5
  <2> HIDE DEF x, y
  <2>4. Merged(y, at)
    BY <2>2, <2>3, OneAdmitted
  <2>5. Kept(y) /\ Grown(x.out, y.out, at)
    BY <2>2, <2>3, AdmittedIsKept
  <2>6. Grown(r.out, y.out, at)
    BY <2>3, <2>5, GrownFurther
  <2> QED BY <2>1, <2>4, <2>5, <2>6 DEF y
<1>6. G = 0..n
  <2>1. G \subseteq 0..n
    OBVIOUS
  <2> HIDE DEF G
  <2> QED BY <1>1, <1>4, <1>5, <2>1, HandedOn
<1>7. n \in G
  <2> HIDE DEF G
  <2> QED BY <1>1, <1>6
<1> QED BY <1>3, <1>7

\* A level more in a lane, whatever it is, and one of a burst in a lane that
\* listens.
AnyStep(r, q, l, at) ==
    /\ Kept(q) /\ Grown(r.out, q.out, at)
    /\ \A k \in Lane \ {l} : q.levels[k] = r.levels[k]
LaneStep(r, q, l, p, m, t) ==
    OnlyOf(r.out, q.out, p) /\ Listens(q.levels[l], p, m, q.out, t)

LEMMA AnyStepped ==
  ASSUME NEW at \in Nat, NEW r, Merged(r, at), Buffers(r), Kept(r), NEW l \in Lane, NEW level
  PROVE  AnyStep(r, PushLevel(r, l, level, at), l, at)
<1> DEFINE a == Assemble(Append(r.levels[l], level))
           u == [r EXCEPT !.levels[l] = a.buf]
           q == PushLevel(r, l, level, at)
<1>1. q = AdmitAll(u, a.found, at)
  BY DEF PushLevel
<1>2. IsSeq(a.found)
  <2>1. IsSeq(Append(r.levels[l], level))
    BY Appended DEF Buffers
  <2> QED BY <2>1, Assembled
<1>3. r = [levels |-> r.levels, seen |-> r.seen, latest |-> r.latest, out |-> r.out]
  BY DEF Merged
<1>4. r.levels = [k \in Lane |-> r.levels[k]]
  BY DEF Buffers
<1> HIDE DEF a, q
<1>5. /\ u = [levels |-> u.levels, seen |-> r.seen, latest |-> r.latest, out |-> r.out]
      /\ \A k \in Lane \ {l} : u.levels[k] = r.levels[k]
  <2> DEFINE bufs == [r.levels EXCEPT ![l] = a.buf]
  <2>1. \A k \in Lane \ {l} : bufs[k] = r.levels[k]
    BY <1>4
  <2>2. u = [levels |-> bufs, seen |-> r.seen, latest |-> r.latest, out |-> r.out]
    BY <1>3
  <2> HIDE DEF bufs, u
  <2> QED BY <2>1, <2>2
<1> HIDE DEF u
<1>6. u.seen = r.seen /\ u.out = r.out /\ Merged(u, at) /\ Kept(u)
  BY <1>5 DEF Merged, Kept
<1>7. Kept(q) /\ Grown(r.out, q.out, at)
  BY <1>1, <1>2, <1>6, AllAreKept
<1>8. q.levels = u.levels
  BY <1>1, <1>2, <1>6, AllAdmitted
<1>9. AnyStep(r, q, l, at)
  BY <1>5, <1>7, <1>8 DEF AnyStep
<1> QED BY <1>9 DEF q

LEMMA LaneStepped ==
  ASSUME NEW p \in Octets, Fits(p), Window <= 8 * PreambleFlags, NEW m \in 0..Len(Modulate(p)) - 1,
         NEW t \in Nat, NEW r, Merged(r, t + (m + 1)), Buffers(r), Kept(r), NEW l \in Lane,
         Listens(r.levels[l], p, m, r.out, t)
  PROVE  LaneStep(r, PushLevel(r, l, Modulate(p)[m + 1], t + (m + 1)), l, p, m + 1, t)
<1> DEFINE at == t + (m + 1)
           w == r.levels[l]
           a == Assemble(Append(w, Modulate(p)[m + 1]))
           u == [r EXCEPT !.levels[l] = a.buf]
           q == PushLevel(r, l, Modulate(p)[m + 1], at)
<1>1. q = AdmitAll(u, a.found, at)
  BY DEF PushLevel
<1>2. m \in Nat /\ at \in Nat
  <2>1. Len(Modulate(p)) \in Nat
    BY ModulateShape
  <2> QED BY <2>1
<1>3. /\ r = [levels |-> r.levels, seen |-> r.seen, latest |-> r.latest, out |-> r.out]
      /\ IsSeq(r.out) /\ Len(r.out) \in Nat
  BY DEF Merged, IsSeq
<1>4. r.levels = [k \in Lane |-> r.levels[k]]
  BY DEF Buffers
<1>5. \/ StillFilling(a, p, m + 1) \/ JustFound(a, p, m + 1)
      \/ a.found = <<>> /\ Drained(a.buf, p, m + 1) /\ Since(r.out, p, t)
  <2>1. CASE Hears(w, p, m)
    <3>1. Filling(w, p, m) /\ Pending(w, p, m)
      BY <2>1 DEF Hears
    <3>2. StillFilling(a, p, m + 1) \/ JustFound(a, p, m + 1)
      BY <3>1, FillingPushed
    <3> QED BY <3>2
  <2>2. CASE HasHeard(w, p, m, r.out, t)
    <3>1. Drained(w, p, m) /\ Since(r.out, p, t)
      BY <2>2 DEF HasHeard
    <3>2. a.found = <<>> /\ Drained(a.buf, p, m + 1)
      BY <3>1, DrainedPushed
    <3> QED BY <3>1, <3>2
  <2> QED BY <2>1, <2>2 DEF Listens
<1> HIDE DEF a, q
<1>6. /\ u = [levels |-> u.levels, seen |-> r.seen, latest |-> r.latest, out |-> r.out]
      /\ u.levels[l] = a.buf
  <2> DEFINE bufs == [r.levels EXCEPT ![l] = a.buf]
  <2>1. bufs[l] = a.buf
    BY <1>4
  <2>2. u = [levels |-> bufs, seen |-> r.seen, latest |-> r.latest, out |-> r.out]
    BY <1>3
  <2> HIDE DEF bufs, u
  <2> QED BY <2>1, <2>2
<1> HIDE DEF u, w
<1>7. u.seen = r.seen /\ u.out = r.out /\ u.latest = r.latest
  BY <1>6
<1>8. Merged(u, at) /\ Kept(u)
  BY <1>6, <1>7 DEF Merged, Kept
<1>9. ASSUME q.levels = u.levels, OnlyOf(r.out, q.out, p), Listens(a.buf, p, m + 1, q.out, t)
      PROVE  LaneStep(r, q, l, p, m + 1, t)
  BY <1>6, <1>9 DEF LaneStep
<1>10. ASSUME a.found = <<>> PROVE q.levels = u.levels /\ q.out = r.out /\ OnlyOf(r.out, q.out, p)
  <2>1. q = u
    BY <1>1, <1>10, NoneAdmitted
  <2>2. OnlyOf(r.out, r.out, p)
    BY <1>3 DEF OnlyOf
  <2> QED BY <1>7, <2>1, <2>2
<1>11. CASE StillFilling(a, p, m + 1)
  <2>1. a.found = <<>> /\ Filling(a.buf, p, m + 1) /\ Pending(a.buf, p, m + 1)
    BY <1>11 DEF StillFilling
  <2>2. Listens(a.buf, p, m + 1, q.out, t)
    BY <2>1 DEF Listens, Hears
  <2>3. LaneStep(r, q, l, p, m + 1, t)
    BY <1>9, <1>10, <2>1, <2>2
  <2> QED BY <2>3 DEF q, at
<1>12. CASE a.found = <<>> /\ Drained(a.buf, p, m + 1) /\ Since(r.out, p, t)
  <2>1. q.out = r.out
    BY <1>10, <1>12
  <2>2. Listens(a.buf, p, m + 1, q.out, t)
    BY <1>12, <2>1 DEF Listens, HasHeard
  <2>3. LaneStep(r, q, l, p, m + 1, t)
    BY <1>9, <1>10, <1>12, <2>2
  <2> QED BY <2>3 DEF q, at
<1>13. CASE JustFound(a, p, m + 1)
  <2>1. a.found = <<p>> /\ Drained(a.buf, p, m + 1) /\ m + 1 >= Closed(p)
    BY <1>13 DEF JustFound
  <2>2. q = Admit(u, p, at)
    BY <1>1, <2>1, OnlyAdmitted
  <2>3. t + Window < at
    <3>1. Closed(p) \in Nat /\ Before \in Nat /\ Closed(p) >= Before + 16 /\ Before = 8 * PreambleFlags
          /\ Window \in Nat
      BY BurstShape, PacketRxAssumption DEF Before
    <3> QED BY <1>2, <2>1, <3>1
  <2>4. Since(q.out, p, t)
    BY <1>2, <1>8, <2>2, <2>3, AdmittedIsOut
  <2>5. OnlyOf(r.out, q.out, p)
    BY <1>2, <1>7, <1>8, <2>2, AdmittedIsKept
  <2>6. q.levels = u.levels
    <3>1. q = [u EXCEPT !.latest = q.latest, !.seen = q.seen, !.out = q.out]
      BY <1>6, <2>2 DEF Admit
    <3> QED BY <1>6, <3>1
  <2>7. Listens(a.buf, p, m + 1, q.out, t)
    BY <2>1, <2>4 DEF Listens, HasHeard
  <2>8. LaneStep(r, q, l, p, m + 1, t)
    BY <1>9, <2>5, <2>6, <2>7
  <2> QED BY <2>8 DEF q, at
<1> QED BY <1>5, <1>11, <1>12, <1>13

LEMMA StillListens ==
  ASSUME NEW at, NEW out, NEW more, Grown(out, more, at), NEW p, NEW w, NEW m, NEW t,
         Listens(w, p, m, out, t)
  PROVE  Listens(w, p, m, more, t)
<1>1. ASSUME Since(out, p, t) PROVE Since(more, p, t)
  <2>1. PICK i \in 1..Len(out) : out[i].payload = p /\ out[i].at > t
    BY <1>1 DEF Since
  <2>2. i \in 1..Len(more) /\ more[i] = out[i]
    BY DEF Grown
  <2> QED BY <2>1, <2>2 DEF Since
<1> QED BY <1>1 DEF Listens, HasHeard

\* The first n frames that were sent have each a delivery of their own, by u.
Answers(g, s, n, out, u) ==
    /\ g \in [1..n -> 1..Len(out)]
    /\ \A k \in 1..n : out[g[k]].payload = s[k].payload /\ out[g[k]].at <= u
    /\ \A j, k \in 1..n : g[j] = g[k] => j = k
Answered(s, n, out, u) == \E g : Answers(g, s, n, out, u)

LEMMA StillAnswered ==
  ASSUME NEW s, NEW n \in Nat, NEW out, NEW more, NEW at, Grown(out, more, at),
         NEW u \in Nat, NEW v \in Nat, u <= v, \A i \in 1..Len(more) : more[i].at \in Nat,
         Answered(s, n, out, u)
  PROVE  Answered(s, n, more, v)
<1>1. PICK g : Answers(g, s, n, out, u)
  BY DEF Answered
<1>2. /\ g \in [1..n -> 1..Len(out)]
      /\ \A k \in 1..n : out[g[k]].payload = s[k].payload /\ out[g[k]].at <= u
      /\ \A j, k \in 1..n : g[j] = g[k] => j = k
  BY <1>1 DEF Answers
<1>3. /\ Len(out) \in Nat /\ Len(more) \in Nat /\ Len(out) <= Len(more)
      /\ \A i \in 1..Len(out) : more[i] = out[i]
  BY DEF Grown
<1>4. g \in [1..n -> 1..Len(more)]
  BY <1>2, <1>3
<1>5. ASSUME NEW k \in 1..n
      PROVE  more[g[k]].payload = s[k].payload /\ more[g[k]].at <= v
  <2>1. g[k] \in 1..Len(out) /\ g[k] \in 1..Len(more)
    BY <1>2, <1>4
  <2>2. more[g[k]] = out[g[k]] /\ more[g[k]].at \in Nat
    BY <1>3, <2>1
  <2>3. more[g[k]].at <= u /\ more[g[k]].payload = s[k].payload
    BY <1>2, <2>2
  <2> QED BY <2>2, <2>3
<1>6. Answers(g, s, n, more, v)
  BY <1>2, <1>4, <1>5 DEF Answers
<1> QED BY <1>6 DEF Answered

LEMMA OneAnswered ==
  ASSUME NEW s, NEW n \in Nat, NEW out, NEW t \in Nat, NEW v \in Nat, t <= v,
         Len(out) \in Nat, \A i \in 1..Len(out) : out[i].at \in Nat /\ out[i].at <= v,
         Answered(s, n, out, t), Since(out, s[n + 1].payload, t)
  PROVE  Answered(s, n + 1, out, v)
<1>1. PICK g : Answers(g, s, n, out, t)
  BY DEF Answered
<1>2. /\ g \in [1..n -> 1..Len(out)]
      /\ \A k \in 1..n : out[g[k]].payload = s[k].payload /\ out[g[k]].at <= t
      /\ \A j, k \in 1..n : g[j] = g[k] => j = k
  BY <1>1 DEF Answers
<1>3. PICK e \in 1..Len(out) : out[e].payload = s[n + 1].payload /\ out[e].at > t
  BY DEF Since
<1> DEFINE h == [k \in 1..n + 1 |-> IF k = n + 1 THEN e ELSE g[k]]
<1>4. h \in [1..n + 1 -> 1..Len(out)] /\ h[n + 1] = e /\ \A k \in 1..n : h[k] = g[k]
  BY <1>2
<1> HIDE DEF h
<1>5. \A k \in 1..n + 1 : k = n + 1 \/ k \in 1..n
  OBVIOUS
<1>6. ASSUME NEW k \in 1..n PROVE g[k] \in 1..Len(out) /\ g[k] # e
  <2>1. g[k] \in 1..Len(out) /\ out[g[k]].at <= t
    BY <1>2
  <2> QED BY <1>3, <2>1
<1>7. ASSUME NEW k \in 1..n + 1
      PROVE  out[h[k]].payload = s[k].payload /\ out[h[k]].at <= v
  BY <1>2, <1>3, <1>4, <1>5, <1>6
<1>8. ASSUME NEW j \in 1..n + 1, NEW k \in 1..n + 1, h[j] = h[k] PROVE j = k
  BY <1>2, <1>4, <1>5, <1>6, <1>8
<1>9. Answers(h, s, n + 1, out, v)
  BY <1>4, <1>7, <1>8 DEF Answers
<1> QED BY <1>9 DEF Answered

LEMMA SameAnswered ==
  ASSUME NEW s, NEW r, NEW n, NEW out, NEW u, \A k \in 1..n : r[k].payload = s[k].payload,
         Answered(s, n, out, u)
  PROVE  Answered(r, n, out, u)
<1>1. PICK g : Answers(g, s, n, out, u)
  BY DEF Answered
<1>2. Answers(g, r, n, out, u)
  BY <1>1 DEF Answers
<1> QED BY <1>2 DEF Answered

\* What is left of a burst.
LEMMA RestStepped ==
  ASSUME NEW w \in Seq(Bit), NEW n \in 0..Len(w) - 1
  PROVE  /\ Rest(w, n) # <<>> /\ Rest(w, n)[1] = w[n + 1] /\ Tail(Rest(w, n)) = Rest(w, n + 1)
<1> DEFINE x == Rest(w, n)
           y == Rest(w, n + 1)
           z == Tail(x)
<1>1. Len(w) \in Nat /\ n \in Nat /\ n \in 0..Len(w) /\ n + 1 \in 0..Len(w) /\ Len(w) - n >= 1
  OBVIOUS
<1>2. x \in Seq(Bit) /\ Len(x) = Len(w) - n /\ \A i \in 1..Len(w) - n : x[i] = w[n + i]
  BY <1>1, RestShape
<1>3. y \in Seq(Bit) /\ Len(y) = Len(w) - (n + 1) /\ \A i \in 1..Len(w) - (n + 1) : y[i] = w[n + 1 + i]
  BY <1>1, RestShape
<1> HIDE DEF x, y
<1>4. x # <<>>
  BY <1>1, <1>2
<1>5. z \in Seq(Bit) /\ Len(z) = Len(x) - 1 /\ \A i \in 1..Len(x) - 1 : z[i] = x[i + 1]
  BY <1>2, <1>4, HeadTailProperties
<1> HIDE DEF z
<1>6. Len(z) = Len(y)
  BY <1>1, <1>2, <1>3, <1>5
<1>7. ASSUME NEW i \in 1..Len(z) PROVE z[i] = y[i]
  <2>1. i \in 1..Len(x) - 1 /\ i + 1 \in 1..Len(w) - n /\ n + (i + 1) = n + 1 + i
        /\ i \in 1..Len(w) - (n + 1)
    BY <1>1, <1>2, <1>5
  <2> QED BY <1>2, <1>3, <1>5, <2>1
<1>8. z = y
  BY <1>3, <1>5, <1>6, <1>7, SameItems
<1>9. x[1] = w[n + 1]
  BY <1>1, <1>2
<1> QED BY <1>4, <1>8, <1>9 DEF x, y, z

LEMMA RestOfAll ==
  ASSUME NEW w \in Seq(Bit)
  PROVE  Rest(w, 0) = w /\ Rest(w, Len(w)) = <<>>
<1>1. Len(w) \in Nat
  OBVIOUS
<1>2. Rest(w, 0) = w
  BY <1>1 DEF Rest
<1>3. Rest(w, Len(w)) \in Seq(Bit) /\ Len(Rest(w, Len(w))) = 0
  <2>1. Len(w) \in 0..Len(w) /\ Len(w) - Len(w) = 0
    BY <1>1
  <2> QED BY <2>1, RestShape
<1> QED BY <1>2, <1>3

\* No noise, frames that fit into half a buffer, and a deduplication window no
\* longer than the preamble.
Quiet ==
    /\ Noise = {} /\ Window <= 8 * PreambleFlags
    /\ \A p \in Payload : p \in Octets /\ Fits(p)

\* A lane that heard every level of every burst right.
Unharmed(l) == \A k \in 1..Len(sent) : l \in sent[k].intact

\* Between bursts such a lane holds nothing harmful, and if there is one, every
\* frame that was sent is out; within a burst it listens.
Silent ==
    /\ air = <<>> /\ \A l \in Lane : Unharmed(l) => Harmless(levels[l])
    /\ (\E l \in Lane : Unharmed(l)) => Answered(sent, Len(sent), frames, heard)
Within(p, m, t) ==
    /\ Len(sent) > 0 /\ sent[Len(sent)].payload = p /\ p \in Payload
    /\ m \in 0..Len(Modulate(p)) - 1 /\ t \in Nat /\ heard = t + m
    /\ air = Rest(Modulate(p), m)
    /\ \A l \in Lane : Unharmed(l) => Listens(levels[l], p, m, frames, t)
    /\ (\E l \in Lane : Unharmed(l)) => Answered(sent, Len(sent) - 1, frames, t)

\* Without a wrong level there are no lanes but such, and no deliveries of what
\* was not sent.
AllRight ==
    /\ flips = 0 /\ \A l \in Lane : Unharmed(l)
    /\ \A i \in 1..Len(frames) : \E k \in 1..Len(sent) : sent[k].payload = frames[i].payload

QuietInv ==
    /\ IsSeq(sent) /\ Kept(Receiver)
    /\ \A k \in 1..Len(sent) : sent[k] = [payload |-> sent[k].payload, intact |-> sent[k].intact]
    /\ \A i \in 1..Len(frames) : frames[i].at \in Nat /\ frames[i].at <= heard
    /\ MaxFlips = 0 => AllRight
    /\ Silent \/ \E p, m, t : Within(p, m, t)

\* Lanes 1 to l have heard a level more of the burst, those of U all of it right.
UpTo(l, r, U, p, m, t) ==
    /\ Kept(r) /\ Grown(frames, r.out, t + (m + 1))
    /\ U = Lane => OnlyOf(frames, r.out, p)
    /\ \A k \in U : k <= l => Listens(r.levels[k], p, m + 1, r.out, t)
    /\ \A k \in U : k > l => Listens(r.levels[k], p, m, r.out, t)

LEMMA LanesStepped ==
  ASSUME PacketRxInv, Quiet, QuietInv, NEW p, NEW m, NEW t, Within(p, m, t),
         NEW U \in SUBSET Lane, \A l \in U : Unharmed(l),
         NEW heardBy, \A l \in U : heardBy[l] = air[1], NEW F, FedInTurn(F, heardBy)
  PROVE  UpTo(Lanes, F[Lanes], U, p, m, t)
<1> DEFINE n == Lanes
           at == t + (m + 1)
           b == Modulate(p)[m + 1]
           G == {l \in 0..n : UpTo(l, F[l], U, p, m, t)}
<1>1. n \in Nat /\ Lane = 1..n
  BY PacketRxAssumption DEF Lane
<1>2. /\ p \in Octets /\ Fits(p) /\ Window <= 8 * PreambleFlags
      /\ m \in 0..Len(Modulate(p)) - 1 /\ t \in Nat /\ m \in Nat /\ heard = t + m
      /\ air = Rest(Modulate(p), m) /\ Modulate(p) \in Seq(Bit)
      /\ \A l \in U : Listens(levels[l], p, m, frames, t)
  <2>1. p \in Payload /\ p \in Octets /\ Fits(p)
    BY DEF Quiet, Within
  <2>2. Modulate(p) \in Seq(Bit) /\ Len(Modulate(p)) \in Nat
    BY <2>1, ModulateShape
  <2> QED BY <2>1, <2>2 DEF Quiet, Within
<1>3. air[1] = b
  BY <1>2, RestStepped
<1>4. heard + 1 = at /\ at \in Nat
  BY <1>2
<1>5. /\ F[0] = Receiver
      /\ \A l \in 1..n : F[l] = PushLevel(F[l - 1], l, heardBy[l], at)
      /\ \A l \in 0..n : Merged(F[l], at) /\ Buffers(F[l])
  BY <1>1, <1>4 DEF FedInTurn
<1>6. Receiver.levels = levels /\ Receiver.out = frames
  BY DEF Receiver
<1>7. \A l \in U : heardBy[l] = b
  BY <1>3
<1> HIDE DEF b, n
<1>8. 0 \in G
  <2>1. Len(frames) \in Nat
    BY DEF PacketRxInv, Merged, Receiver, IsSeq
  <2>2. Grown(frames, frames, at) /\ OnlyOf(frames, frames, p)
    BY <2>1 DEF Grown, OnlyOf
  <2>3. Kept(Receiver)
    BY DEF QuietInv
  <2> HIDE DEF at
  <2>4. \A k \in U : k > 0 /\ ~(k <= 0)
    BY <1>1
  <2>5. UpTo(0, Receiver, U, p, m, t)
    BY <1>2, <1>6, <2>2, <2>3, <2>4 DEF UpTo, at
  <2> QED BY <1>1, <1>5, <2>5
<1>9. ASSUME NEW l \in 0..n - 1, l \in G PROVE l + 1 \in G
  <2> DEFINE r == F[l]
             q == F[l + 1]
             i == l + 1
  <2>1. l \in Nat /\ i \in 1..n /\ i - 1 = l /\ i \in Lane /\ l \in 0..n /\ i \in Nat
    BY <1>1
  <2>2. UpTo(l, r, U, p, m, t)
    BY <1>9
  <2>3. q = PushLevel(r, i, heardBy[i], at) /\ Merged(r, at) /\ Buffers(r)
    BY <1>5, <2>1
  <2>4. /\ Kept(r) /\ Grown(frames, r.out, at)
        /\ U = Lane => OnlyOf(frames, r.out, p)
        /\ \A k \in U : k <= l => Listens(r.levels[k], p, m + 1, r.out, t)
        /\ \A k \in U : k > l => Listens(r.levels[k], p, m, r.out, t)
    BY <2>2 DEF UpTo
  <2>5. i > l /\ ~(i <= l) /\ \A k \in U : k # i => (k <= i <=> k <= l) /\ (k > i <=> k > l)
    BY <1>1, <2>1
  <2> HIDE DEF r, q, i
  <2>6. AnyStep(r, q, i, at)
    BY <1>4, <2>1, <2>3, <2>4, AnyStepped
  <2>7. ASSUME i \in U PROVE LaneStep(r, q, i, p, m + 1, t)
    <3>1. Listens(r.levels[i], p, m, r.out, t)
      BY <2>4, <2>5, <2>7
    <3>2. q = PushLevel(r, i, b, at)
      BY <1>7, <2>3, <2>7
    <3> QED BY <1>2, <2>1, <2>3, <2>4, <3>1, <3>2, LaneStepped DEF b
  <2>8. /\ Kept(q) /\ Grown(r.out, q.out, at)
        /\ \A k \in Lane \ {i} : q.levels[k] = r.levels[k]
    BY <2>6 DEF AnyStep
  <2> HIDE DEF at
  <2>9. Grown(frames, q.out, at)
    BY <2>4, <2>8, GrownFurther
  <2>10. ASSUME U = Lane PROVE OnlyOf(frames, q.out, p)
    <3>1. OnlyOf(r.out, q.out, p)
      BY <2>1, <2>7, <2>10 DEF LaneStep
    <3> QED BY <2>4, <2>8, <2>10, <3>1, GrownFurther
  <2>11. ASSUME NEW k \in U, k <= i PROVE Listens(q.levels[k], p, m + 1, q.out, t)
    <3>1. CASE k = i
      BY <2>7, <3>1 DEF LaneStep
    <3>2. CASE k # i
      <4>1. k <= l /\ k \in Lane \ {i}
        BY <2>5, <2>11, <3>2
      <4>2. Listens(r.levels[k], p, m + 1, r.out, t) /\ q.levels[k] = r.levels[k]
        BY <2>4, <2>8, <4>1
      <4> QED BY <2>8, <4>2, StillListens
    <3> QED BY <3>1, <3>2
  <2>12. ASSUME NEW k \in U, k > i PROVE Listens(q.levels[k], p, m, q.out, t)
    <3>1. k # i
      BY <2>1, <2>12
    <3>2. k > l /\ k \in Lane \ {i}
      BY <2>5, <2>12, <3>1
    <3>3. Listens(r.levels[k], p, m, r.out, t) /\ q.levels[k] = r.levels[k]
      BY <2>4, <2>8, <3>2
    <3> QED BY <2>8, <3>3, StillListens
  <2>13. UpTo(i, q, U, p, m, t)
    BY <2>8, <2>9, <2>10, <2>11, <2>12 DEF UpTo, at
  <2> QED BY <1>1, <2>13 DEF i, q
<1>10. G = 0..n
  <2>1. G \subseteq 0..n
    OBVIOUS
  <2> HIDE DEF G
  <2> QED BY <1>1, <1>8, <1>9, <2>1, HandedOn
<1> HIDE DEF G
<1>11. n \in G
  BY <1>1, <1>10
<1> QED BY <1>11 DEF G, n

\* What a level more makes of the receiver.
LEMMA LevelHeard ==
  ASSUME PacketRxInv, Quiet, QuietInv, NEW p, NEW m, NEW t, Within(p, m, t),
         NEW U \in SUBSET Lane, \A l \in U : Unharmed(l),
         NEW heardBy, \A l \in U : heardBy[l] = air[1], Feed(heardBy)
  PROVE  /\ heard' = heard + 1 /\ heard' = t + (m + 1) /\ air' = Rest(Modulate(p), m + 1)
         /\ Kept(Receiver') /\ Grown(frames, frames', heard')
         /\ U = Lane => OnlyOf(frames, frames', p)
         /\ \A l \in U : Listens(levels'[l], p, m + 1, frames', t)
<1>1. heard' = heard + 1 /\ air' = Tail(air)
  BY Fed
<1>2. PICK F : FedInTurn(F, heardBy) /\ Receiver' = F[Lanes]
  BY Fed
<1>3. UpTo(Lanes, Receiver', U, p, m, t)
  BY <1>2, LanesStepped
<1>4. Receiver'.levels = levels' /\ Receiver'.out = frames'
  BY DEF Receiver
<1>5. \A l \in U : l <= Lanes
  BY PacketRxAssumption DEF Lane
<1>6. /\ Kept(Receiver') /\ Grown(frames, frames', t + (m + 1))
      /\ U = Lane => OnlyOf(frames, frames', p)
      /\ \A l \in U : Listens(levels'[l], p, m + 1, frames', t)
  BY <1>3, <1>4, <1>5 DEF UpTo
<1>7. /\ m \in 0..Len(Modulate(p)) - 1 /\ t \in Nat /\ heard = t + m
      /\ air = Rest(Modulate(p), m) /\ p \in Octets
  BY DEF Within, Quiet
<1>8. Modulate(p) \in Seq(Bit) /\ Len(Modulate(p)) \in Nat
  BY <1>7, ModulateShape
<1>9. m \in Nat /\ heard' = t + (m + 1)
  BY <1>1, <1>7, <1>8
<1>10. air' = Rest(Modulate(p), m + 1)
  BY <1>1, <1>7, <1>8, RestStepped
<1> QED BY <1>1, <1>6, <1>9, <1>10

LEMMA QuietStart == Quiet /\ Init => QuietInv
<1> SUFFICES ASSUME Quiet, Init PROVE QuietInv
  OBVIOUS
<1>1. /\ air = <<>> /\ sent = <<>> /\ frames = <<>> /\ heard = 0 /\ seen = {} /\ flips = 0
      /\ levels \in [Lane -> {[i \in 1..n |-> 1] : n \in Idle}]
  BY DEF Init
<1>2. IsSeq(<<>>) /\ Len(<<>>) = 0
  BY Listed DEF IsSeq
<1>3. ASSUME NEW l \in Lane PROVE Harmless(levels[l])
  <2>1. PICK n \in Idle : levels[l] = [i \in 1..n |-> 1]
    BY <1>1
  <2>2. n \in Nat
    <3>1. MaxLevels \in Nat /\ n \in 0..MaxLevels
      BY PacketRxAssumption
    <3> QED BY <3>1
  <2> DEFINE w == [i \in 1..n |-> 1]
  <2>3. w \in Seq(Bit) /\ Len(w) = n /\ \A i \in 1..n : w[i] = 1
    <3>1. w \in [1..n -> Bit] /\ \A i \in 1..n : w[i] = 1
      BY DEF Bit
    <3> HIDE DEF w
    <3> QED BY <2>2, <3>1, SeqDef, LenProperties
  <2> HIDE DEF w
  <2>4. Harmless(w)
    BY <2>3, IdleHarmless
  <2> QED BY <2>1, <2>4 DEF w
<1>4. Answered(sent, 0, frames, 0)
  <2> DEFINE g == [k \in 1..0 |-> 1]
  <2>1. \A k \in 1..0 : FALSE
    OBVIOUS
  <2>2. g \in [1..0 -> 1..Len(frames)]
    BY <2>1
  <2> HIDE DEF g
  <2>3. Answers(g, sent, 0, frames, 0)
    BY <2>1, <2>2 DEF Answers
  <2> QED BY <2>3 DEF Answered
<1>5. Silent
  BY <1>1, <1>2, <1>3, <1>4 DEF Silent
<1>8. AllRight
  BY <1>1, <1>2 DEF AllRight, Unharmed
<1>6. Kept(Receiver)
  BY <1>1 DEF Kept, Receiver
<1>7. (\A i \in 1..Len(frames) : FALSE) /\ \A k \in 1..Len(sent) : FALSE
  BY <1>1, <1>2
<1> QED BY <1>1, <1>2, <1>5, <1>6, <1>7, <1>8 DEF QuietInv

\* Within a burst there is something on the air.
LEMMA WithinOnAir ==
  ASSUME Quiet, NEW p, NEW m, NEW t, Within(p, m, t)
  PROVE  air # <<>>
<1>1. p \in Octets /\ m \in 0..Len(Modulate(p)) - 1 /\ air = Rest(Modulate(p), m)
  BY DEF Within, Quiet
<1>2. Modulate(p) \in Seq(Bit)
  BY <1>1, ModulateShape
<1> QED BY <1>1, <1>2, RestStepped

\* A burst begins when the lanes hold nothing harmful.
LEMMA QuietlySent ==
  ASSUME PacketRxInv, Quiet, QuietInv, NEW p \in Payload, Transmit(p)
  PROVE  QuietInv'
<1> DEFINE n == Len(sent)
           entry == [payload |-> p, intact |-> Lane]
<1>1. /\ air = <<>> /\ air' = Modulate(p) /\ sent' = Append(sent, entry)
      /\ levels' = levels /\ heard' = heard /\ seen' = seen /\ latest' = latest
      /\ frames' = frames /\ flips' = flips
  BY DEF Transmit
<1>2. IsSeq(sent) /\ n \in Nat /\ heard \in Nat /\ Kept(Receiver)
  BY DEF QuietInv, PacketRxInv, IsSeq
<1>3. /\ IsSeq(sent') /\ Len(sent') = n + 1 /\ sent'[n + 1] = entry
      /\ \A k \in 1..n : sent'[k] = sent[k]
  BY <1>1, <1>2, Appended
<1>4. p \in Octets /\ entry.payload = p /\ entry.intact = Lane
      /\ entry = [payload |-> entry.payload, intact |-> entry.intact]
  BY DEF Quiet
<1>5. /\ Modulate(p) \in Seq(Bit) /\ Len(Modulate(p)) \in Nat /\ Len(Modulate(p)) >= 16
  <2>1. /\ Modulate(p) \in Seq(Bit) /\ Len(Modulate(p)) = Closed(p) + 8 * PostambleFlags
        /\ Closed(p) \in Nat /\ Before \in Nat /\ Closed(p) >= Before + 16 /\ PostambleFlags \in Nat
    BY <1>4, ModulateShape, BurstShape, PacketRxAssumption
  <2> QED BY <2>1
<1> HIDE DEF entry, n
<1>6. Silent
  BY <1>1, WithinOnAir DEF QuietInv
<1>7. ASSUME NEW k \in 1..Len(sent') PROVE k = n + 1 \/ (k \in 1..n /\ sent'[k] = sent[k])
  BY <1>2, <1>3
<1>8. 1..n \subseteq 1..Len(sent') /\ 1..n = 1..Len(sent)
  BY <1>2, <1>3 DEF n
<1>9. ASSUME NEW l \in Lane PROVE Unharmed(l)' <=> Unharmed(l)
  <2>1. Unharmed(l)' = \A k \in 1..Len(sent') : l \in sent'[k].intact
    BY DEF Unharmed
  <2>2. Unharmed(l) = \A k \in 1..n : l \in sent[k].intact
    BY DEF Unharmed, n
  <2>3. (\A k \in 1..Len(sent') : l \in sent'[k].intact) <=> \A k \in 1..n : l \in sent[k].intact
    BY <1>3, <1>4, <1>7, <1>8
  <2> QED BY <2>1, <2>2, <2>3
<1>10. ASSUME NEW l \in Lane, Unharmed(l) PROVE Listens(levels[l], p, 0, frames, heard)
  <2>1. Harmless(levels[l])
    BY <1>6, <1>10 DEF Silent
  <2> QED BY <1>4, <2>1, Fresh DEF Listens, Hears
<1>11. ASSUME NEW l \in Lane, Unharmed(l) PROVE Answered(sent', n, frames, heard)
  <2>1. Answered(sent, n, frames, heard)
    BY <1>6, <1>11 DEF Silent, n
  <2>2. \A k \in 1..n : sent'[k].payload = sent[k].payload
    BY <1>3
  <2> QED BY <2>1, <2>2, SameAnswered
<1>12. Within(p, 0, heard)'
  <2>1. /\ Len(sent') > 0 /\ sent'[Len(sent')].payload = p /\ p \in Payload
        /\ Len(sent') - 1 = n
    BY <1>2, <1>3, <1>4
  <2>2. 0 \in 0..Len(Modulate(p)) - 1 /\ heard' \in Nat /\ heard' = heard' + 0
    BY <1>1, <1>2, <1>5
  <2>3. air' = Rest(Modulate(p), 0)
    BY <1>1, <1>5, RestOfAll
  <2>4. \A l \in Lane : Unharmed(l)' => Listens(levels'[l], p, 0, frames', heard')
    BY <1>1, <1>9, <1>10
  <2>5. (\E l \in Lane : Unharmed(l)') => Answered(sent', Len(sent') - 1, frames', heard')
    BY <1>1, <1>9, <1>11, <2>1
  <2> QED BY <2>1, <2>2, <2>3, <2>4, <2>5 DEF Within, Lane
<1>13. AllRight => AllRight'
  <2> SUFFICES ASSUME AllRight PROVE AllRight'
    OBVIOUS
  <2>1. ASSUME NEW i \in 1..Len(frames')
        PROVE  \E k \in 1..Len(sent') : sent'[k].payload = frames'[i].payload
    <3>1. PICK k \in 1..n : sent[k].payload = frames[i].payload
      BY <1>1 DEF AllRight, n
    <3> QED BY <1>1, <1>3, <1>8, <3>1
  <2>2. flips' = 0 /\ \A l \in Lane : Unharmed(l)'
    BY <1>1, <1>9 DEF AllRight
  <2> QED BY <2>1, <2>2 DEF AllRight, Lane
<1>14. Kept(Receiver)'
  BY <1>1, <1>2 DEF Kept, Receiver
<1>15. (\E q, m, t : Within(q, m, t))'
  BY <1>12
<1>16. ASSUME NEW k \in 1..Len(sent')
       PROVE  sent'[k] = [payload |-> sent'[k].payload, intact |-> sent'[k].intact]
  <2>1. CASE k = n + 1
    BY <1>3, <1>4, <2>1
  <2>2. CASE k # n + 1
    <3>1. k \in 1..n /\ sent'[k] = sent[k]
      BY <1>7, <2>2
    <3>2. sent[k] = [payload |-> sent[k].payload, intact |-> sent[k].intact]
      BY <1>8, <3>1 DEF QuietInv
    <3> QED BY <3>1, <3>2
  <2> QED BY <2>1, <2>2
<1>17. \A i \in 1..Len(frames') : frames'[i].at \in Nat /\ frames'[i].at <= heard'
  BY <1>1 DEF QuietInv
<1>18. MaxFlips = 0 => AllRight'
  BY <1>13 DEF QuietInv
<1> QED BY <1>3, <1>14, <1>15, <1>16, <1>17, <1>18 DEF QuietInv

\* A burst that a lane hears right to its end has its frame delivered.
LEMMA QuietlyFed ==
  ASSUME PacketRxInv, Quiet, QuietInv, air # <<>>, NEW heardBy, Feed(heardBy),
         IsSeq(sent'), Len(sent') = Len(sent),
         \A k \in 1..Len(sent) :
             /\ sent'[k].payload = sent[k].payload
             /\ sent'[k] = [payload |-> sent'[k].payload, intact |-> sent'[k].intact],
         \A l \in Lane : Unharmed(l)' => Unharmed(l) /\ heardBy[l] = air[1],
         MaxFlips = 0 => flips' = flips /\ sent' = sent
  PROVE  QuietInv'
<1> DEFINE n == Len(sent) - 1
           U == {l \in Lane : Unharmed(l)'}
<1>1. PICK p, m, t : Within(p, m, t)
  BY DEF QuietInv, Silent
<1>2. /\ heard' = heard + 1 /\ heard' = t + (m + 1) /\ air' = Rest(Modulate(p), m + 1)
      /\ Kept(Receiver') /\ Grown(frames, frames', heard')
      /\ U = Lane => OnlyOf(frames, frames', p)
      /\ \A l \in U : Listens(levels'[l], p, m + 1, frames', t)
  <2>1. U \in SUBSET Lane /\ \A l \in U : Unharmed(l) /\ heardBy[l] = air[1]
    OBVIOUS
  <2> HIDE DEF U
  <2> QED BY <1>1, <2>1, LevelHeard
<1>3. /\ Len(sent) > 0 /\ sent[Len(sent)].payload = p /\ p \in Payload /\ p \in Octets
      /\ m \in 0..Len(Modulate(p)) - 1 /\ t \in Nat /\ IsSeq(sent)
      /\ (\E l \in Lane : Unharmed(l)) => Answered(sent, n, frames, t)
  BY <1>1 DEF Within, QuietInv, Quiet
<1>4. Modulate(p) \in Seq(Bit) /\ Len(Modulate(p)) \in Nat /\ m \in Nat
  <2>1. Modulate(p) \in Seq(Bit) /\ Len(Modulate(p)) \in Nat
    BY <1>3, ModulateShape
  <2> QED BY <1>3, <2>1
<1>5. n \in Nat /\ n + 1 = Len(sent) /\ Len(sent) \in 1..Len(sent) /\ 1..n \subseteq 1..Len(sent)
  <2>1. Len(sent) \in Nat
    BY <1>3 DEF IsSeq
  <2> QED BY <1>3, <2>1
<1>6. heard \in Nat /\ heard' \in Nat /\ t <= heard'
  BY <1>2, <1>3, <1>4 DEF PacketRxInv
<1> HIDE DEF n
<1>7. /\ Len(frames) \in Nat /\ Len(frames') \in Nat
      /\ \A j \in 1..Len(frames) : frames'[j] = frames[j]
      /\ \A j \in Len(frames) + 1..Len(frames') : frames'[j].at = heard'
      /\ \A j \in 1..Len(frames') : j \in 1..Len(frames) \/ j \in Len(frames) + 1..Len(frames')
  <2>1. /\ Len(frames) \in Nat /\ Len(frames') \in Nat
        /\ \A j \in 1..Len(frames) : frames'[j] = frames[j]
        /\ \A j \in Len(frames) + 1..Len(frames') : frames'[j].at = heard'
    BY <1>2 DEF Grown
  <2> QED BY <2>1
<1>8. ASSUME NEW i \in 1..Len(frames') PROVE frames'[i].at \in Nat /\ frames'[i].at <= heard'
  <2>1. CASE i \in 1..Len(frames)
    <3>1. frames[i].at \in Nat /\ frames[i].at <= heard /\ frames'[i] = frames[i]
      BY <1>7, <2>1 DEF QuietInv
    <3>2. frames[i].at <= heard'
      BY <1>2, <1>6, <3>1
    <3> QED BY <3>1, <3>2
  <2>2. CASE i \in Len(frames) + 1..Len(frames')
    BY <1>6, <1>7, <2>2
  <2> QED BY <1>7, <2>1, <2>2
<1>9. ASSUME NEW l \in Lane, Unharmed(l)' PROVE Answered(sent', n, frames', t)
  <2>1. Answered(sent, n, frames, t)
    BY <1>3, <1>9
  <2>2. Answered(sent, n, frames', t)
    BY <1>2, <1>3, <1>5, <1>8, <2>1, StillAnswered
  <2>3. \A k \in 1..n : sent'[k].payload = sent[k].payload
    BY <1>5
  <2> QED BY <2>2, <2>3, SameAnswered
<1>10. MaxFlips = 0 => AllRight'
  <2> SUFFICES ASSUME MaxFlips = 0 PROVE AllRight'
    OBVIOUS
  <2>1. flips' = 0 /\ sent' = sent /\ AllRight
    BY DEF QuietInv, AllRight
  <2>2. \A l \in Lane : Unharmed(l)'
    BY <2>1 DEF AllRight, Unharmed
  <2>3. OnlyOf(frames, frames', p)
    BY <1>2, <2>2
  <2>4. ASSUME NEW i \in 1..Len(frames')
        PROVE  \E k \in 1..Len(sent') : sent'[k].payload = frames'[i].payload
    <3>1. CASE i \in 1..Len(frames)
      <4>1. frames'[i] = frames[i]
        BY <1>7, <3>1
      <4> QED BY <2>1, <3>1, <4>1 DEF AllRight
    <3>2. CASE i \in Len(frames) + 1..Len(frames')
      <4>1. frames'[i].payload = p
        BY <2>3, <3>2 DEF OnlyOf
      <4> QED BY <1>3, <1>5, <2>1, <4>1
    <3> QED BY <1>7, <3>1, <3>2
  <2> QED BY <2>1, <2>2, <2>4 DEF AllRight, Lane
<1>11. \A k \in 1..Len(sent') : sent'[k] = [payload |-> sent'[k].payload, intact |-> sent'[k].intact]
  OBVIOUS
<1>12. CASE m + 1 < Len(Modulate(p))
  <2>1. m + 1 \in 0..Len(Modulate(p)) - 1
    BY <1>3, <1>4, <1>12
  <2>2. \A l \in Lane : Unharmed(l)' => Listens(levels'[l], p, m + 1, frames', t)
    BY <1>2
  <2>3. (\E l \in Lane : Unharmed(l)') => Answered(sent', Len(sent') - 1, frames', t)
    BY <1>9 DEF n
  <2>4. Len(sent') > 0 /\ sent'[Len(sent')].payload = p
    BY <1>3, <1>5
  <2>5. Within(p, m + 1, t)'
    BY <1>2, <1>3, <2>1, <2>2, <2>3, <2>4 DEF Within, Lane
  <2>6. (\E q, k, u : Within(q, k, u))'
    BY <2>5
  <2> QED BY <1>2, <1>8, <1>10, <1>11, <2>6 DEF QuietInv
<1>13. CASE ~(m + 1 < Len(Modulate(p)))
  <2>1. m + 1 = Len(Modulate(p))
    BY <1>3, <1>4, <1>13
  <2>2. ASSUME NEW l \in Lane, Unharmed(l)' PROVE Harmless(levels'[l]) /\ Since(frames', p, t)
    <3>1. Listens(levels'[l], p, Len(Modulate(p)), frames', t)
      BY <1>2, <2>1, <2>2
    <3>2. ~Hears(levels'[l], p, Len(Modulate(p)))
      BY <1>3, AllHeard DEF Hears
    <3>3. Drained(levels'[l], p, Len(Modulate(p))) /\ Since(frames', p, t)
      BY <3>1, <3>2 DEF Listens, HasHeard
    <3> QED BY <1>3, <3>3, AllHeard
  <2>3. ASSUME NEW l \in Lane, Unharmed(l)' PROVE Answered(sent', Len(sent'), frames', heard')
    <3>1. Answered(sent', n, frames', t) /\ Since(frames', p, t)
      BY <1>9, <2>2, <2>3
    <3>2. sent'[n + 1].payload = p /\ n + 1 = Len(sent')
      BY <1>3, <1>5
    <3>3. Since(frames', sent'[n + 1].payload, t)
      BY <3>1, <3>2
    <3>4. n \in Nat /\ t \in Nat /\ heard' \in Nat /\ t <= heard' /\ Len(frames') \in Nat
      BY <1>3, <1>5, <1>6, <1>7
    <3>5. Answered(sent', n + 1, frames', heard')
      BY ONLY <1>8, <3>1, <3>3, <3>4, OneAnswered
    <3> QED BY <3>2, <3>5
  <2>4. air' = <<>>
    BY <1>2, <1>4, <2>1, RestOfAll
  <2>5. Silent'
    BY <2>2, <2>3, <2>4 DEF Silent, Lane
  <2> QED BY <1>2, <1>8, <1>10, <1>11, <2>5 DEF QuietInv
<1> QED BY <1>12, <1>13

LEMMA EntryHit ==
  ASSUME NEW a, NEW b, NEW h, NEW x, x = [payload |-> a, intact |-> b]
  PROVE  [x EXCEPT !.intact = @ \ h] = [payload |-> a, intact |-> b \ h]
  OBVIOUS

LEMMA QuietStep == PacketRxInv /\ Quiet /\ QuietInv /\ [Next]_vars => QuietInv'
<1> SUFFICES ASSUME PacketRxInv, Quiet, QuietInv, [Next]_vars PROVE QuietInv'
  OBVIOUS
<1>0. /\ IsSeq(sent) /\ Len(sent) \in Nat
      /\ \A k \in 1..Len(sent) : sent[k] = [payload |-> sent[k].payload, intact |-> sent[k].intact]
  BY DEF QuietInv, IsSeq
<1>1. ASSUME NEW p \in Payload, Transmit(p) PROVE QuietInv'
  BY <1>1, QuietlySent
<1>2. ASSUME NEW noise \in Noise, Disturb(noise) PROVE QuietInv'
  BY <1>2 DEF Quiet
<1>3. CASE Hear
  <2> DEFINE heardBy == [l \in Lane |-> air[1]]
  <2>1. air # <<>> /\ Feed(heardBy) /\ sent' = sent /\ flips' = flips
    BY <1>3 DEF Hear
  <2>2. \A l \in Lane : heardBy[l] = air[1] /\ (Unharmed(l)' => Unharmed(l))
    BY <2>1 DEF Unharmed
  <2> HIDE DEF heardBy
  <2> QED BY <1>0, <2>1, <2>2, QuietlyFed
<1>4. ASSUME NEW hit, HearFlipped(hit) PROVE QuietInv'
  <2> DEFINE heardBy == [l \in Lane |-> IF l \in hit THEN 1 - air[1] ELSE air[1]]
             n == Len(sent)
             last == [sent[n] EXCEPT !.intact = @ \ hit]
             a == sent[n].payload
             b == sent[n].intact
  <2>1. /\ Feed(heardBy) /\ flips < MaxFlips /\ flips' = flips + 1 /\ Len(air) \in FlipAt
        /\ sent' = [sent EXCEPT ![n] = last]
    BY <1>4 DEF HearFlipped
  <2>2. air # <<>>
    BY <2>1, PacketRxAssumption
  <2>3. n > 0 /\ n \in 1..n /\ n \in Nat
    <3>1. PICK p, m, t : Within(p, m, t)
      BY <2>2 DEF QuietInv, Silent
    <3> QED BY <1>0, <3>1 DEF Within
  <2>4. last = [payload |-> sent[n].payload, intact |-> sent[n].intact \ hit]
    <3>1. sent[n] = [payload |-> a, intact |-> b]
      BY <1>0, <2>3
    <3> HIDE DEF a, b
    <3>2. last = [payload |-> a, intact |-> b \ hit]
      BY ONLY <3>1, EntryHit DEF last
    <3> QED BY <3>2 DEF a, b
  <2>5. last.payload = sent[n].payload /\ last.intact = sent[n].intact \ hit
        /\ last = [payload |-> last.payload, intact |-> last.intact]
    BY <2>4
  <2> HIDE DEF last
  <2>6. sent = [k \in 1..n |-> sent[k]]
    BY <1>0 DEF IsSeq
  <2> HIDE DEF n
  <2>7. sent' = [k \in 1..n |-> sent'[k]] /\ sent'[n] = last /\ \A k \in 1..n : k # n => sent'[k] = sent[k]
    BY <2>1, <2>3, <2>6
  <2>8. IsSeq(sent') /\ Len(sent') = n
    BY <2>3, <2>7, Listed
  <2>9. ASSUME NEW k \in 1..n
        PROVE  /\ sent'[k].payload = sent[k].payload
               /\ sent'[k] = [payload |-> sent'[k].payload, intact |-> sent'[k].intact]
    <3>1. CASE k = n
      BY <2>5, <2>7, <3>1
    <3>2. CASE k # n
      <4>1. sent[k] = [payload |-> sent[k].payload, intact |-> sent[k].intact]
        BY <1>0 DEF n
      <4>2. sent'[k] = sent[k]
        BY <2>7, <3>2
      <4> QED BY <4>1, <4>2
    <3> QED BY <3>1, <3>2
  <2>10. ASSUME NEW l \in Lane, Unharmed(l)' PROVE Unharmed(l) /\ heardBy[l] = air[1]
    <3>1. \A k \in 1..n : l \in sent'[k].intact
      BY <2>8, <2>10 DEF Unharmed
    <3>2. l \in sent[n].intact /\ ~(l \in hit)
      BY <2>3, <2>5, <2>7, <3>1
    <3>3. \A k \in 1..n : l \in sent[k].intact
      BY <2>7, <3>1, <3>2
    <3>4. Unharmed(l)
      BY <3>3 DEF Unharmed, n
    <3> QED BY <3>2, <3>4
  <2>11. MaxFlips # 0
    BY <2>1 DEF QuietInv, AllRight
  <2> HIDE DEF heardBy
  <2> QED BY <2>1, <2>2, <2>8, <2>9, <2>10, <2>11, QuietlyFed DEF n
<1>5. ASSUME UNCHANGED <<air, sent, levels, heard, frames, flips>>, seen' \subseteq seen
      PROVE  QuietInv'
  <2>1. Kept(Receiver)'
    <3>1. Kept(Receiver)
      BY DEF QuietInv
    <3> QED BY <1>5, <3>1 DEF Kept, Receiver
  <2>2. Silent => Silent'
    BY <1>5 DEF Silent, Lane, Unharmed
  <2>3. ASSUME NEW p, NEW m, NEW t, Within(p, m, t) PROVE Within(p, m, t)'
    BY <1>5, <2>3 DEF Within, Lane, Unharmed
  <2>4. (\E p, m, t : Within(p, m, t)) => (\E p, m, t : Within(p, m, t))'
    BY <2>3
  <2>5. AllRight => AllRight'
    BY <1>5 DEF AllRight, Lane, Unharmed
  <2> QED BY <1>5, <2>1, <2>2, <2>4, <2>5 DEF QuietInv
<1>6. CASE EndChunk
  BY <1>5, <1>6 DEF EndChunk, Prune
<1>7. CASE UNCHANGED vars
  BY <1>5, <1>7 DEF vars
<1> QED BY <1>1, <1>2, <1>3, <1>4, <1>6, <1>7 DEF Next

LEMMA QuietHolds == Quiet => (Spec => [](PacketRxInv /\ QuietInv))
<1> SUFFICES ASSUME Quiet PROVE Spec => [](PacketRxInv /\ QuietInv)
  OBVIOUS
<1>1. Init => PacketRxInv /\ QuietInv
  BY PacketStart, QuietStart
<1>2. PacketRxInv /\ QuietInv /\ [Next]_vars => PacketRxInv' /\ QuietInv'
  BY PacketStep, QuietStep
<1> QED BY <1>1, <1>2, PTL DEF Spec

\* At the end of a burst there is a delivery of its own for every frame.
LEMMA AllAnswered ==
  ASSUME PacketRxInv, Quiet, QuietInv, air = <<>>, NEW l \in Lane, Unharmed(l), NEW q
  PROVE  /\ IsFiniteSet({k \in DOMAIN sent : sent[k].payload = q})
         /\ SentCopies(q) \in Nat /\ Received(q) \in Nat /\ Received(q) >= SentCopies(q)
<1> DEFINE A == {k \in DOMAIN sent : sent[k].payload = q}
           B == {i \in DOMAIN frames : frames[i].payload = q}
<1>1. IsSeq(sent) /\ IsSeq(frames)
  BY DEF QuietInv, PacketRxInv, Merged, Receiver
<1>2. DOMAIN sent = 1..Len(sent) /\ DOMAIN frames = 1..Len(frames) /\ Len(frames) \in Nat
  BY <1>1 DEF IsSeq
<1>3. Answered(sent, Len(sent), frames, heard)
  BY WithinOnAir DEF QuietInv, Silent
<1>4. PICK g : Answers(g, sent, Len(sent), frames, heard)
  BY <1>3 DEF Answered
<1>5. /\ g \in [1..Len(sent) -> 1..Len(frames)]
      /\ \A k \in 1..Len(sent) : frames[g[k]].payload = sent[k].payload
      /\ \A j, k \in 1..Len(sent) : g[j] = g[k] => j = k
  BY <1>4 DEF Answers
<1> DEFINE f == [k \in A |-> g[k]]
<1>6. f \in [A -> B] /\ \A j, k \in A : f[j] = f[k] => j = k
  <2>1. ASSUME NEW k \in A PROVE k \in 1..Len(sent) /\ g[k] \in B
    BY <1>2, <1>5
  <2> HIDE DEF A, B
  <2> QED BY <1>5, <2>1
<1>7. IsFiniteSet(B)
  <2>1. IsFiniteSet(1..Len(frames)) /\ B \in SUBSET (1..Len(frames))
    BY <1>2, FS_Interval
  <2> HIDE DEF B
  <2> QED BY <2>1, FS_Subset
<1> HIDE DEF A, B, f
<1>8. f \in Injection(A, B)
  BY <1>6 DEF Injection, IsInjective
<1>9. IsFiniteSet(A) /\ Cardinality(A) <= Cardinality(B) /\ Cardinality(A) \in Nat /\ Cardinality(B) \in Nat
  <2>1. IsFiniteSet(A) /\ Cardinality(A) <= Cardinality(B)
    BY <1>7, <1>8, FS_Injection
  <2> QED BY <1>7, <2>1, FS_CardinalityType
<1>10. Cardinality(B) >= Cardinality(A)
  BY <1>9
<1> QED BY <1>9, <1>10 DEF Received, SentCopies, A, B

\* One lane is enough that hears every burst right, whatever the others hear and
\* make of it: at the end of each burst every frame is out as often as it was
\* sent. It makes no difference how much silence the lane's buffer held at
\* first, where in the burst its octets ended, when the buffer was cut, and
\* that a frame is the same as one before (BitAssembler::push,
\* Afsk1200Ensemble::feed, DedupWindow::admit).
THEOREM OneLaneIsEnough ==
    Quiet =>
        (Spec => [](air = <<>> =>
            \A l \in Lane : Unharmed(l) => \A p \in Payload : Received(p) >= SentCopies(p)))
<1> SUFFICES ASSUME Quiet
             PROVE  Spec => [](air = <<>> =>
                        \A l \in Lane : Unharmed(l) => \A p \in Payload : Received(p) >= SentCopies(p))
  OBVIOUS
<1>1. PacketRxInv /\ QuietInv =>
        (air = <<>> => \A l \in Lane : Unharmed(l) => \A p \in Payload : Received(p) >= SentCopies(p))
  BY AllAnswered
<1> QED BY <1>1, QuietHolds, PTL

\* Where no level is wrong, a frame is out at the end of its burst.
THEOREM QuietIntact == Quiet /\ MaxFlips = 0 => (Spec => []IntactReceived)
<1>1. ASSUME PacketRxInv, Quiet, QuietInv, MaxFlips = 0 PROVE IntactReceived
  <2> SUFFICES ASSUME air = <<>>, NEW q \in Payload PROVE Received(q) >= IntactCopies(q)
    BY DEF IntactReceived
  <2> DEFINE A == {k \in DOMAIN sent : sent[k].payload = q /\ sent[k].intact # {}}
             B == {k \in DOMAIN sent : sent[k].payload = q}
  <2>1. 1 \in Lane /\ Unharmed(1)
    <3>1. 1 \in Lane
      BY PacketRxAssumption DEF Lane
    <3> QED BY <1>1, <3>1 DEF QuietInv, AllRight
  <2>2. IsFiniteSet(B) /\ SentCopies(q) \in Nat /\ Received(q) \in Nat /\ Received(q) >= SentCopies(q)
    BY <1>1, <2>1, AllAnswered
  <2>3. A \in SUBSET B
    OBVIOUS
  <2>4. IntactCopies(q) = Cardinality(A) /\ SentCopies(q) = Cardinality(B)
    BY DEF IntactCopies, SentCopies
  <2> HIDE DEF A, B
  <2>5. Cardinality(A) <= Cardinality(B) /\ Cardinality(A) \in Nat
    BY <2>2, <2>3, FS_Subset, FS_CardinalityType
  <2> QED BY <2>2, <2>4, <2>5
<1> SUFFICES ASSUME Quiet, MaxFlips = 0 PROVE Spec => []IntactReceived
  OBVIOUS
<1>2. PacketRxInv /\ QuietInv => IntactReceived
  <2> SUFFICES ASSUME PacketRxInv, QuietInv PROVE IntactReceived
    OBVIOUS
  <2> QED BY ONLY <1>1, Quiet, MaxFlips = 0, PacketRxInv, QuietInv
<1> QED BY <1>2, QuietHolds, PTL

\* And then nothing is made up: neither of flags, nor of what is left of a burst
\* in a buffer, nor of the end of one and the start of the next (hdlc_deframe).
THEOREM QuietSent == Quiet /\ MaxFlips = 0 => (Spec => []ReceivedWasSent)
<1>1. ASSUME PacketRxInv, QuietInv, MaxFlips = 0 PROVE ReceivedWasSent
  <2> SUFFICES ASSUME NEW i \in DOMAIN frames PROVE SentCopies(frames[i].payload) > 0
    BY DEF ReceivedWasSent
  <2> DEFINE S == {k \in DOMAIN sent : sent[k].payload = frames[i].payload}
  <2>1. IsSeq(sent) /\ IsSeq(frames)
    BY <1>1 DEF QuietInv, PacketRxInv, Merged, Receiver
  <2>2. DOMAIN sent = 1..Len(sent) /\ DOMAIN frames = 1..Len(frames) /\ Len(sent) \in Nat
    BY <2>1 DEF IsSeq
  <2>3. S # {}
    BY <1>1, <2>2 DEF QuietInv, AllRight
  <2>4. IsFiniteSet(S)
    <3>1. IsFiniteSet(1..Len(sent)) /\ S \in SUBSET (1..Len(sent))
      BY <2>2, FS_Interval
    <3> HIDE DEF S
    <3> QED BY <3>1, FS_Subset
  <2> HIDE DEF S
  <2>5. Cardinality(S) \in Nat /\ Cardinality(S) # 0
    BY <2>3, <2>4, FS_CardinalityType, FS_EmptySet
  <2>6. Cardinality(S) > 0
    BY <2>5
  <2> QED BY <2>6 DEF SentCopies, S
<1> SUFFICES ASSUME Quiet, MaxFlips = 0 PROVE Spec => []ReceivedWasSent
  OBVIOUS
<1>2. PacketRxInv /\ QuietInv => ReceivedWasSent
  <2> SUFFICES ASSUME PacketRxInv, QuietInv PROVE ReceivedWasSent
    OBVIOUS
  <2> QED BY ONLY <1>1, MaxFlips = 0, PacketRxInv, QuietInv
<1> QED BY <1>2, QuietHolds, PTL
====
