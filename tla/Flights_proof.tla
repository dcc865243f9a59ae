---------------------------- MODULE Flights_proof ----------------------------
(***************************************************************************)
(* Proofs about Flights and the demodulator below it, for every signal,    *)
(* every way to cut it into chunks and every capacity.                     *)
(***************************************************************************)
EXTENDS Flights, SequenceTheorems, FiniteSetTheorems, WellFoundedInduction, TLAPS

-----------------------------------------------------------------------------
(* Sequences of whatever. *)

IsSeq(s) == Len(s) \in Nat /\ s = [i \in 1..Len(s) |-> s[i]]

\* A sequence is one over its own elements.
LEMMA SeqOfItems ==
  ASSUME NEW s, IsSeq(s)
  PROVE  s \in Seq({s[i] : i \in 1..Len(s)})
<1> DEFINE S == {s[i] : i \in 1..Len(s)}
           n == Len(s)
<1>1. s = [i \in 1..n |-> s[i]] /\ n \in Nat
  BY DEF IsSeq
<1> HIDE DEF n
<1>2. \A i \in 1..n : s[i] \in S
  BY DEF n
<1> HIDE DEF S
<1>3. s \in [1..n -> S]
  BY ONLY <1>1, <1>2
<1> QED BY <1>1, <1>3, SeqDef DEF S

\* What is in Seq is a sequence of whatever.
LEMMA SeqItems ==
  ASSUME NEW S, NEW s \in Seq(S)
  PROVE  IsSeq(s)
BY LenProperties DEF IsSeq

\* A function over the first numbers is a sequence of that length.
LEMMA FunctionSeq ==
  ASSUME NEW m \in Nat, NEW f, f = [i \in 1..m |-> f[i]]
  PROVE  IsSeq(f) /\ Len(f) = m
<1> DEFINE S == {f[i] : i \in 1..m}
<1>1. f \in [1..m -> S]
  OBVIOUS
<1> HIDE DEF S
<1>2. f \in Seq(S)
  BY <1>1, SeqDef
<1>3. Len(f) \in Nat /\ DOMAIN f = 1..Len(f)
  BY <1>2, LenProperties
<1>4. 1..Len(f) = 1..m
  BY <1>1, <1>3
<1>5. Len(f) = m
  BY <1>3, <1>4
<1> QED BY <1>2, <1>5, SeqItems

LEMMA Appended ==
  ASSUME NEW s, IsSeq(s), NEW e
  PROVE  /\ IsSeq(Append(s, e)) /\ Len(Append(s, e)) = Len(s) + 1
         /\ \A i \in 1..Len(s) : Append(s, e)[i] = s[i]
         /\ Append(s, e)[Len(s) + 1] = e
<1> DEFINE S == {s[i] : i \in 1..Len(s)} \cup {e}
<1>1. s \in Seq({s[i] : i \in 1..Len(s)})
  BY SeqOfItems
<1>2. s \in Seq(S) /\ e \in S
  BY <1>1, SeqDef
<1> HIDE DEF S
<1>3. Append(s, e) \in Seq(S)
  BY <1>2, AppendProperties
<1>4. IsSeq(Append(s, e))
  BY <1>3, SeqItems
<1> QED BY <1>2, <1>4, AppendProperties

LEMMA Tailed ==
  ASSUME NEW s, IsSeq(s), Len(s) > 0
  PROVE  /\ IsSeq(Tail(s)) /\ Len(Tail(s)) = Len(s) - 1
         /\ \A i \in 1..Len(s) - 1 : Tail(s)[i] = s[i + 1]
<1> DEFINE S == {s[i] : i \in 1..Len(s)}
<1>1. s \in Seq(S) /\ s # <<>>
  BY SeqOfItems
<1> HIDE DEF S
<1>2. Tail(s) \in Seq(S) /\ Len(Tail(s)) = Len(s) - 1
      /\ \A i \in 1..Len(s) - 1 : Tail(s)[i] = s[i + 1]
  BY <1>1, HeadTailProperties
<1> QED BY <1>2, SeqItems

LEMMA SubSeqed ==
  ASSUME NEW s, IsSeq(s), NEW m \in 1..Len(s) + 1
  PROVE  LET t == SubSeq(s, m, Len(s))
         IN  /\ IsSeq(t) /\ Len(t) = Len(s) - m + 1
             /\ \A i \in 1..Len(s) - m + 1 : t[i] = s[m + i - 1]
<1> DEFINE S == {s[i] : i \in 1..Len(s)}
           t == SubSeq(s, m, Len(s))
<1>1. s \in Seq(S) /\ Len(s) \in Nat
  BY SeqOfItems DEF IsSeq
<1> HIDE DEF S
<1>2. t \in Seq(S) /\ Len(t) = Len(s) - m + 1
      /\ \A i \in 1..Len(s) - m + 1 : t[i] = s[m + i - 1]
  BY <1>1, SubSeqProperties
<1> QED BY <1>2, SeqItems

\* Taking one element out.
LEMMA Removed ==
  ASSUME NEW s, IsSeq(s), NEW p \in 1..Len(s)
  PROVE  LET t == RemoveAt(s, p)
         IN  /\ IsSeq(t) /\ Len(t) = Len(s) - 1
             /\ \A i \in 1..Len(s) - 1 : t[i] = IF i < p THEN s[i] ELSE s[i + 1]
<1> DEFINE S == {s[i] : i \in 1..Len(s)}
           a == SubSeq(s, 1, p - 1)
           b == SubSeq(s, p + 1, Len(s))
<1>1. s \in Seq(S) /\ Len(s) \in Nat
  BY SeqOfItems DEF IsSeq
<1> HIDE DEF S
<1>2. a \in Seq(S) /\ Len(a) = p - 1 /\ \A i \in 1..p - 1 : a[i] = s[i]
  BY <1>1, SubSeqProperties
<1>3. b \in Seq(S) /\ Len(b) = Len(s) - p /\ \A i \in 1..Len(s) - p : b[i] = s[p + i]
  BY <1>1, SubSeqProperties
<1>4. RemoveAt(s, p) = a \o b
  BY DEF RemoveAt
<1> HIDE DEF a, b
<1>5. a \o b \in Seq(S) /\ Len(a \o b) = Len(s) - 1
      /\ \A i \in 1..Len(s) - 1 : (a \o b)[i] = IF i <= p - 1 THEN a[i] ELSE b[i - (p - 1)]
  <2>1. a \o b \in Seq(S) /\ Len(a \o b) = Len(a) + Len(b)
        /\ \A i \in 1..Len(a) + Len(b) : (a \o b)[i] = IF i <= Len(a) THEN a[i] ELSE b[i - Len(a)]
    BY <1>2, <1>3, ConcatProperties
  <2>2. Len(a) + Len(b) = Len(s) - 1
    BY <1>1, <1>2, <1>3
  <2> QED BY <1>2, <2>1, <2>2
<1>6. ASSUME NEW i \in 1..Len(s) - 1
      PROVE  (a \o b)[i] = IF i < p THEN s[i] ELSE s[i + 1]
  <2>1. CASE i < p
    BY <1>1, <1>2, <1>5, <2>1
  <2>2. CASE ~(i < p)
    <3>1. i - (p - 1) \in 1..Len(s) - p /\ p + (i - (p - 1)) = i + 1 /\ ~(i <= p - 1)
      BY <1>1, <2>2
    <3>2. (a \o b)[i] = b[i - (p - 1)] /\ b[i - (p - 1)] = s[p + (i - (p - 1))]
      BY <1>3, <1>5, <3>1
    <3> QED BY <2>2, <3>1, <3>2
  <2> QED BY <2>1, <2>2
<1> QED BY <1>4, <1>5, <1>6, SeqItems

-----------------------------------------------------------------------------
(* Induction over the positions of a scan. *)

\* A set of numbers that is not empty has a least one.
LEMMA Least ==
  ASSUME NEW T \in SUBSET Nat, T # {}
  PROVE  \E n \in T : \A m \in T : n <= m
<1>1. PICK top \in T : TRUE
  OBVIOUS
<1> DEFINE S == 0..top
           C == {D \in SUBSET S : \E m \in T : m <= top /\ D = 0..m}
<1>2. IsWellFoundedOn(StrictSubsetOrdering(S), FiniteSubsetsOf(S))
  BY FS_StrictSubsetOrderingWellFounded
<1>3. IsFiniteSet(S)
  BY FS_Interval
<1>4. FiniteSubsetsOf(S) = SUBSET S
  <2> HIDE DEF S
  <2> QED BY <1>3, FS_FiniteSubsetsOfFinite
<1>5. S \in C
  BY <1>1
<1>6. PICK D \in C : \A E \in C : ~(<<E, D>> \in StrictSubsetOrdering(S))
  <2> HIDE DEF C, S
  <2>1. C \subseteq FiniteSubsetsOf(S) /\ C # {}
    BY <1>4, <1>5 DEF C
  <2> QED BY <1>2, <2>1, WFMin
<1>7. PICK n \in T : n <= top /\ D = 0..n
  BY <1>6
<1>8. \A m \in T : n <= m
  <2> SUFFICES ASSUME NEW m \in T, m < n PROVE FALSE
    BY <1>7
  <2>1. 0..m \in C
    BY <1>7
  <2>2. 0..m \subseteq 0..n /\ 0..m # 0..n
    BY <1>7
  <2>3. <<0..m, D>> \in StrictSubsetOrdering(S)
    BY <1>6, <1>7, <2>1, <2>2 DEF StrictSubsetOrdering
  <2> QED BY <1>6, <2>1, <2>3
<1> QED BY <1>8

\* Induction, of sets of numbers instead of predicates.
LEMMA Induct ==
  ASSUME NEW T \in SUBSET Nat, 0 \in T, \A n \in T : n + 1 \in T
  PROVE  T = Nat
<1> SUFFICES ASSUME Nat \ T # {} PROVE FALSE
  OBVIOUS
<1>1. PICK n \in Nat \ T : \A m \in Nat \ T : n <= m
  BY Least
<1>2. n # 0 /\ n - 1 \in Nat /\ n - 1 \in T
  BY <1>1
<1>3. n - 1 + 1 \in T
  BY <1>2
<1> QED BY <1>1, <1>3

\* upTo[k] is what the scan of k positions makes of the demodulator.
Runs(upTo, stop, end, damage) ==
    /\ upTo[0] = [next |-> base + 1, order |-> order, frames |-> frames]
    /\ \A k \in 1..stop : upTo[k] = At(upTo[k - 1], base + k, end, damage)
    /\ Scan(stop, end, damage) = upTo[stop]

\* A scan goes position by position: the recursion it is defined by has a
\* solution.
LEMMA Positions ==
  ASSUME NEW stop \in Nat, NEW end, NEW damage
  PROVE  \E upTo : Runs(upTo, stop, end, damage)
<1> DEFINE first == [next |-> base + 1, order |-> order, frames |-> frames]
           Step(f, k) == IF k = 0 THEN first ELSE At(f[k - 1], base + k, end, damage)
           Solves(f, n) == f = [k \in 0..n |-> Step(f, k)]
           T == {n \in Nat : \E f : Solves(f, n)}
           F == CHOOSE f : Solves(f, stop)
<1>1. Scan(stop, end, damage) = F[stop]
  BY DEF Scan
<1> HIDE DEF first
<1>2. 0 \in T
  <2> DEFINE g == [k \in 0..0 |-> first]
  <2>1. Solves(g, 0)
    OBVIOUS
  <2> QED BY <2>1
<1>3. ASSUME NEW n \in T PROVE n + 1 \in T
  <2>1. PICK f : Solves(f, n)
    OBVIOUS
  <2> DEFINE g == [k \in 0..n + 1 |-> IF k = n + 1 THEN At(f[n], base + (n + 1), end, damage) ELSE f[k]]
  <2>2. ASSUME NEW k \in 0..n + 1 PROVE g[k] = Step(g, k)
    <3>1. CASE k = 0
      BY <2>1, <3>1
    <3>2. CASE k \in 1..n
      <4>1. g[k] = f[k] /\ g[k - 1] = f[k - 1] /\ k - 1 \in 0..n
        BY <3>2
      <4>2. f[k] = At(f[k - 1], base + k, end, damage)
        BY <2>1, <3>2
      <4> QED BY <3>2, <4>1, <4>2
    <3>3. CASE k = n + 1
      <4>1. g[k] = At(f[n], base + (n + 1), end, damage) /\ g[k - 1] = f[n] /\ k # 0
        BY <3>3
      <4> QED BY <3>3, <4>1
    <3> QED BY <3>1, <3>2, <3>3
  <2>3. g = [k \in 0..n + 1 |-> g[k]]
    OBVIOUS
  <2> HIDE DEF g
  <2>4. Solves(g, n + 1)
    BY <2>2, <2>3, Zenon
  <2> QED BY <2>4
<1>4. T = Nat
  BY <1>2, <1>3, Induct
<1>5. Solves(F, stop)
  <2>1. \E f : Solves(f, stop)
    BY <1>4
  <2> HIDE DEF Solves
  <2> QED BY <2>1
<1> HIDE DEF F
<1>6. F[0] = first
  BY <1>5
<1>7. ASSUME NEW k \in 1..stop PROVE F[k] = At(F[k - 1], base + k, end, damage)
  BY <1>5
<1>8. Runs(F, stop, end, damage)
  BY <1>1, <1>6, <1>7 DEF first, Runs
<1> QED BY <1>8

-----------------------------------------------------------------------------
(* One position of a scan. *)

LEMMA Members ==
  ASSUME NEW s, IsSeq(s)
  PROVE  ToSet(s) = {s[i] : i \in 1..Len(s)} /\ DOMAIN s = 1..Len(s)
<1>1. DOMAIN s = 1..Len(s)
  BY DEF IsSeq
<1> QED BY <1>1 DEF ToSet

\* An address that is known moves to the end; a new one may oust the oldest.
LEMMA NoteCases ==
  ASSUME NEW r, IsSeq(r), NEW x
  PROVE  LET t == Note(r, x)
         IN  /\ IsSeq(t) /\ Len(t) >= 1 /\ t[Len(t)] = x
             /\ \/ \E p \in 1..Len(r) :
                     /\ r[p] = x /\ Len(t) = Len(r)
                     /\ \A i \in 1..Len(r) - 1 : t[i] = IF i < p THEN r[i] ELSE r[i + 1]
                \/ /\ \A i \in 1..Len(r) : r[i] # x
                   /\ Len(r) # RosterCap /\ Len(t) = Len(r) + 1
                   /\ \A i \in 1..Len(r) : t[i] = r[i]
                \/ /\ \A i \in 1..Len(r) : r[i] # x
                   /\ Len(r) = RosterCap /\ Len(t) = Len(r)
                   /\ \A i \in 1..Len(r) - 1 : t[i] = r[i + 1]
<1>0. ToSet(r) = {r[i] : i \in 1..Len(r)} /\ DOMAIN r = 1..Len(r) /\ Len(r) \in Nat
  BY Members DEF IsSeq
<1>1. CASE x \in ToSet(r)
  <2> DEFINE p == CHOOSE i \in DOMAIN r : r[i] = x
  <2>1. p \in 1..Len(r) /\ r[p] = x
    BY <1>0, <1>1
  <2>2. Note(r, x) = Append(RemoveAt(r, p), x)
    BY <1>1 DEF Note
  <2> HIDE DEF p
  <2> DEFINE q == RemoveAt(r, p)
  <2>3. IsSeq(q) /\ Len(q) = Len(r) - 1
        /\ \A i \in 1..Len(r) - 1 : q[i] = IF i < p THEN r[i] ELSE r[i + 1]
    BY <2>1, Removed
  <2> HIDE DEF q
  <2>4. IsSeq(Append(q, x)) /\ Len(Append(q, x)) = Len(r)
        /\ Append(q, x)[Len(r)] = x /\ \A i \in 1..Len(r) - 1 : Append(q, x)[i] = q[i]
    <3>1. Len(q) + 1 = Len(r) /\ IsSeq(q) /\ 1..Len(q) = 1..Len(r) - 1
      BY <1>0, <2>3
    <3>2. /\ IsSeq(Append(q, x)) /\ Len(Append(q, x)) = Len(q) + 1
          /\ \A i \in 1..Len(q) : Append(q, x)[i] = q[i]
          /\ Append(q, x)[Len(q) + 1] = x
      BY <3>1, Appended
    <3> QED BY <3>1, <3>2
  <2>5. \A i \in 1..Len(r) - 1 : Append(q, x)[i] = IF i < p THEN r[i] ELSE r[i + 1]
    BY <2>3, <2>4
  <2>6. Note(r, x) = Append(q, x)
    BY <2>2 DEF q
  <2>7. Len(r) >= 1
    BY <1>0, <2>1
  <2> QED BY <2>1, <2>4, <2>5, <2>6, <2>7
<1>2. CASE x \notin ToSet(r) /\ Len(r) # RosterCap
  <2>1. Note(r, x) = Append(r, x)
    BY <1>2 DEF Note
  <2>2. \A i \in 1..Len(r) : r[i] # x
    BY <1>0, <1>2
  <2>3. /\ IsSeq(Append(r, x)) /\ Len(Append(r, x)) = Len(r) + 1
        /\ \A i \in 1..Len(r) : Append(r, x)[i] = r[i]
        /\ Append(r, x)[Len(r) + 1] = x
    BY Appended
  <2>4. Len(r) + 1 >= 1
    BY <1>0
  <2> QED BY <1>2, <2>1, <2>2, <2>3, <2>4
<1>3. CASE x \notin ToSet(r) /\ Len(r) = RosterCap
  <2> DEFINE q == Tail(r)
  <2>1. Note(r, x) = Append(q, x)
    BY <1>3 DEF Note
  <2>2. \A i \in 1..Len(r) : r[i] # x
    BY <1>0, <1>3
  <2>3. Len(r) >= 1
    BY <1>3, CapHoldsOne
  <2>4. IsSeq(q) /\ Len(q) = Len(r) - 1 /\ \A i \in 1..Len(r) - 1 : q[i] = r[i + 1]
    BY <2>3, Tailed
  <2> HIDE DEF q
  <2>5. IsSeq(Append(q, x)) /\ Len(Append(q, x)) = Len(r)
        /\ Append(q, x)[Len(r)] = x /\ \A i \in 1..Len(r) - 1 : Append(q, x)[i] = q[i]
    <3>1. Len(q) + 1 = Len(r) /\ IsSeq(q) /\ 1..Len(q) = 1..Len(r) - 1
      BY <1>0, <2>4
    <3>2. /\ IsSeq(Append(q, x)) /\ Len(Append(q, x)) = Len(q) + 1
          /\ \A i \in 1..Len(q) : Append(q, x)[i] = q[i]
          /\ Append(q, x)[Len(q) + 1] = x
      BY <3>1, Appended
    <3> QED BY <3>1, <3>2
  <2>6. \A i \in 1..Len(r) - 1 : Append(q, x)[i] = r[i + 1]
    BY <2>4, <2>5
  <2> QED BY <1>3, <2>1, <2>2, <2>3, <2>5, <2>6
<1> QED BY <1>1, <1>2, <1>3

\* Noting an address adds no other.
LEMMA NoteMembers ==
  ASSUME NEW r, IsSeq(r), NEW x
  PROVE  LET t == Note(r, x)
         IN  /\ IsSeq(t)
             /\ \A k \in 1..Len(t) : t[k] = x \/ \E m \in 1..Len(r) : t[k] = r[m]
<1> DEFINE t == Note(r, x)
<1>1. Len(r) \in Nat
  BY DEF IsSeq
<1>2. IsSeq(t) /\ Len(t) \in Nat /\ t[Len(t)] = x
  BY NoteCases DEF IsSeq
<1>3. \/ Len(t) = Len(r) /\ \E p \in 1..Len(r) :
           \A j \in 1..Len(r) - 1 : t[j] = IF j < p THEN r[j] ELSE r[j + 1]
      \/ Len(t) = Len(r) + 1 /\ \A j \in 1..Len(r) : t[j] = r[j]
      \/ Len(t) = Len(r) /\ \A j \in 1..Len(r) - 1 : t[j] = r[j + 1]
  BY NoteCases
<1> HIDE DEF t
<1>4. ASSUME NEW k \in 1..Len(t), k # Len(t)
      PROVE  \E m \in 1..Len(r) : t[k] = r[m]
  <2>1. CASE Len(t) = Len(r)
    <3>1. k \in 1..Len(r) - 1 /\ k \in 1..Len(r) /\ k + 1 \in 1..Len(r) /\ Len(t) # Len(r) + 1
      BY <1>1, <1>4, <2>1
    <3> QED BY <1>3, <3>1
  <2>2. CASE Len(t) = Len(r) + 1
    <3>1. k \in 1..Len(r) /\ Len(t) # Len(r)
      BY <1>1, <1>4, <2>2
    <3> QED BY <1>3, <3>1
  <2> QED BY <1>3, <2>1, <2>2
<1> QED BY <1>2, <1>4 DEF t

\* What is accepted scores.
LEMMA Accepted ==
  ASSUME NEW slices, NEW heard, Best(slices, heard) # 0
  PROVE  /\ Best(slices, heard) \in DOMAIN slices
         /\ LET s == slices[Best(slices, heard)]
            IN  Score(s, s.icao \in heard) > 0
<1> DEFINE score(k) == Score(slices[k], slices[k].icao \in heard)
           best == {k \in DOMAIN slices :
                      /\ score(k) > 0
                      /\ \A j \in DOMAIN slices :
                            score(j) <= score(k) /\ (j < k => score(j) < score(k))}
<1>1. Best(slices, heard) = IF best = {} THEN 0 ELSE CHOOSE k \in best : TRUE
  BY DEF Best
<1>2. best # {}
  BY <1>1
<1>3. Best(slices, heard) \in best
  <2> HIDE DEF best
  <2> QED BY <1>1, <1>2
<1> QED BY <1>3

\* What scores is in the clear, undamaged, or known.
LEMMA Vouched ==
  ASSUME NEW s, NEW heard, Score(s, s.icao \in heard) > 0
  PROVE  \/ s.df \in InTheClear
         \/ s.df = "allcall" /\ s.damage = "none"
         \/ s.icao \in heard
BY DEF Score, InTheClear, Overlaid

\* The frame that position i gives, after a scan.
FrameAt(scan, i, end, damage) ==
    LET slices == Slices(i, end, damage)
    IN  [slice |-> slices[Best(slices, ToSet(scan.order))], at |-> i]

\* A position is skipped or without a frame, or gives one.
LEMMA AtCases ==
  ASSUME NEW scan, NEW i, NEW end, NEW damage
  PROVE  LET slices == Slices(i, end, damage)
             best == Best(slices, ToSet(scan.order))
             next == At(scan, i, end, damage)
         IN  \/ (i < scan.next \/ best = 0) /\ next = scan
             \/ /\ ~(i < scan.next) /\ best # 0
                /\ next.next = i + Span(slices[best])
                /\ next.order = IF Seeds(slices[best]) THEN Note(scan.order, slices[best].icao)
                                ELSE scan.order
                /\ next.frames = Append(scan.frames, [slice |-> slices[best], at |-> i])
BY DEF At

\* What a scan adds to the frames lies in the positions it has passed.
Grown(scan, p, end, damage) ==
    /\ IsSeq(scan.frames) /\ Len(frames) <= Len(scan.frames)
    /\ \A k \in 1..Len(frames) : scan.frames[k] = frames[k]
    /\ \A k \in Len(frames) + 1..Len(scan.frames) :
          LET at == scan.frames[k].at
          IN  /\ at \in base + 1..p
              /\ \E j \in DOMAIN Slices(at, end, damage) :
                    scan.frames[k].slice = Slices(at, end, damage)[j]
    /\ scan.next \in Int
    /\ scan.next = base + 1 \/ \E q \in base + 1..p : scan.next <= q + Long

\* No frame reaches further than the guard.
LEMMA SpanBounds ==
  ASSUME NEW s
  PROVE  Span(s) \in Nat /\ 0 < Span(s) /\ Span(s) <= Long /\ Span(s) <= Guard
BY GuardCoversFrame, SampleCounts DEF Span

\* A position adds frames of that position, at the end.
LEMMA GrownStep ==
  ASSUME base \in Nat, NEW p \in Nat, base <= p, NEW end, NEW damage, NEW scan,
         Grown(scan, p, end, damage), IsSeq(frames)
  PROVE  Grown(At(scan, p + 1, end, damage), p + 1, end, damage)
<1> DEFINE i == p + 1
           slices == Slices(i, end, damage)
           best == Best(slices, ToSet(scan.order))
           next == At(scan, i, end, damage)
<1>0. /\ i \in base + 1..i /\ \A q \in base + 1..p : q \in base + 1..i
      /\ Len(frames) \in Nat /\ Len(scan.frames) \in Nat
  BY DEF Grown, IsSeq
<1>1. CASE next = scan
  BY <1>0, <1>1 DEF Grown
<1>2. CASE /\ best # 0
           /\ next.next = i + Span(slices[best])
           /\ next.frames = Append(scan.frames, [slice |-> slices[best], at |-> i])
  <2> DEFINE e == [slice |-> slices[best], at |-> i]
  <2>1. best \in DOMAIN slices
    BY <1>2, Accepted
  <2>2. e.at = i /\ e.slice = slices[best]
    OBVIOUS
  <2>3. Span(slices[best]) \in Nat /\ Span(slices[best]) <= Long /\ Long \in Nat
    BY SpanBounds, SampleCounts
  <2>4. next.frames = Append(scan.frames, e)
    BY <1>2
  <2>5. next.next \in Int /\ next.next <= i + Long /\ i \in Nat
    BY <1>2, <2>3
  <2> HIDE DEF e, next, slices, best
  <2>6. /\ IsSeq(next.frames) /\ Len(next.frames) = Len(scan.frames) + 1
        /\ \A k \in 1..Len(scan.frames) : next.frames[k] = scan.frames[k]
        /\ next.frames[Len(scan.frames) + 1] = e
    BY <2>4, Appended DEF Grown
  <2>7. \A k \in 1..Len(frames) : next.frames[k] = frames[k]
    BY <1>0, <2>6 DEF Grown
  <2>8. ASSUME NEW k \in Len(frames) + 1..Len(next.frames)
        PROVE  LET at == next.frames[k].at
               IN  /\ at \in base + 1..i
                   /\ \E j \in DOMAIN Slices(at, end, damage) :
                         next.frames[k].slice = Slices(at, end, damage)[j]
    <3>1. CASE k \in Len(frames) + 1..Len(scan.frames)
      <4>1. next.frames[k] = scan.frames[k]
        BY <1>0, <2>6, <3>1
      <4> QED BY <1>0, <3>1, <4>1 DEF Grown
    <3>2. CASE k = Len(scan.frames) + 1
      BY <1>0, <2>1, <2>2, <2>6, <3>2 DEF slices
    <3> QED BY <1>0, <2>6, <3>1, <3>2
  <2> QED BY <1>0, <2>5, <2>6, <2>7, <2>8 DEF Grown, next
<1> QED BY <1>1, <1>2, AtCases

Lists(fs, r) == IsSeq(fs) /\ IsSeq(r)

\* A position keeps frames and roster sequences.
LEMMA ListsStep ==
  ASSUME NEW scan, NEW i, NEW end, NEW damage, Lists(scan.frames, scan.order)
  PROVE  LET next == At(scan, i, end, damage)
         IN  Lists(next.frames, next.order)
<1> DEFINE slices == Slices(i, end, damage)
           best == Best(slices, ToSet(scan.order))
           next == At(scan, i, end, damage)
           s == slices[best]
           e == [slice |-> s, at |-> i]
<1>1. CASE next = scan
  BY <1>1
<1>2. CASE /\ next.order = IF Seeds(s) THEN Note(scan.order, s.icao) ELSE scan.order
           /\ next.frames = Append(scan.frames, e)
  <2> HIDE DEF e, s, next
  <2>1. IsSeq(next.frames)
    BY <1>2, Appended DEF Lists
  <2>2. IsSeq(next.order)
    BY <1>2, NoteMembers DEF Lists
  <2> QED BY <2>1, <2>2 DEF Lists, next
<1> QED BY <1>1, <1>2, AtCases

-----------------------------------------------------------------------------
(* The roster holds the addresses proved most recently. *)

\* So many places hold at most so many things.
LEMMA ItemsBound ==
  ASSUME NEW s, NEW a \in Nat, NEW b \in Nat, a <= b + 1, NEW S,
         \A x \in S : \E i \in a..b : x = s[i]
  PROVE  IsFiniteSet(S) /\ Cardinality(S) <= b - a + 1
<1> DEFINE T == {s[i] : i \in a..b}
           f == [i \in a..b |-> s[i]]
<1>1. IsFiniteSet(a..b) /\ Cardinality(a..b) = b - a + 1
  BY FS_Interval
<1>2. f \in Surjection(a..b, T)
  BY DEF Surjection
<1> HIDE DEF f
<1>3. IsFiniteSet(T) /\ Cardinality(T) <= b - a + 1 /\ Cardinality(T) \in Nat
  BY <1>1, <1>2, FS_Surjection, FS_CardinalityType
<1> HIDE DEF T
<1>4. S \in SUBSET T
  BY DEF T
<1>5. IsFiniteSet(S) /\ Cardinality(S) <= Cardinality(T)
  BY <1>3, <1>4, FS_Subset
<1>6. Cardinality(S) \in Nat
  BY <1>5, FS_CardinalityType
<1> QED BY <1>3, <1>5, <1>6

\* Distinct elements are as many as their places.
LEMMA ItemsCount ==
  ASSUME NEW s, NEW n \in Nat, \A i, j \in 1..n : i # j => s[i] # s[j]
  PROVE  LET S == {s[i] : i \in 1..n}
         IN  IsFiniteSet(S) /\ Cardinality(S) = n
<1> DEFINE S == {s[i] : i \in 1..n}
           f == [i \in 1..n |-> s[i]]
<1>1. IsFiniteSet(1..n) /\ Cardinality(1..n) = n
  BY FS_Interval
<1>2. f \in Surjection(1..n, S) /\ f \in Injection(1..n, S)
  BY DEF Surjection, Injection, IsInjective
<1> HIDE DEF f, S
<1>3. IsFiniteSet(S) /\ Cardinality(S) = n
  BY <1>1, <1>2, FS_Surjection
<1> QED BY <1>3 DEF S

NotedIn(fs, n) == {k \in 1..n : Seeds(fs[k].slice)}
Since(fs, n, k) == {fs[j].slice.icao : j \in {j \in NotedIn(fs, n) : j > k}} \ {fs[k].slice.icao}
KnownIn(fs, n) ==
    {fs[k].slice.icao : k \in {k \in NotedIn(fs, n) : Cardinality(Since(fs, n, k)) < RosterCap}}

\* Entry i was proved last by frame f[i], later than the entry before it; an
\* address that is no entry was proved before the first of a full roster.
Proves(fs, r, f) ==
    /\ f \in [1..Len(r) -> 1..Len(fs)]
    /\ \A i, j \in 1..Len(r) : i < j => f[i] < f[j]
    /\ \A i \in 1..Len(r) : fs[f[i]].slice.icao = r[i] /\ Seeds(fs[f[i]].slice)
    /\ \A k \in NotedIn(fs, Len(fs)) :
          \/ \E i \in 1..Len(r) : fs[k].slice.icao = r[i] /\ k <= f[i]
          \/ /\ Len(r) = RosterCap
             /\ \A i \in 1..Len(r) : k < f[i] /\ fs[k].slice.icao # r[i]
Roster(fs, r) ==
    /\ Len(r) <= RosterCap
    /\ \A i, j \in 1..Len(r) : i # j => r[i] # r[j]
    /\ \E f : Proves(fs, r, f)

\* The roster is the addresses proved most recently.
LEMMA RosterIsKnown ==
  ASSUME NEW fs, IsSeq(fs), NEW r, IsSeq(r), Roster(fs, r)
  PROVE  KnownIn(fs, Len(fs)) = ToSet(r)
<1> DEFINE n == Len(fs)
           m == Len(r)
<1>0. n \in Nat /\ m \in Nat /\ m <= RosterCap /\ RosterCap \in Nat
  BY CapHoldsOne DEF IsSeq, Roster
<1>1. ToSet(r) = {r[i] : i \in 1..m}
  BY Members
<1>2. PICK f : Proves(fs, r, f)
  BY DEF Roster
<1>3. /\ f \in [1..m -> 1..n]
      /\ \A i, j \in 1..m : i < j => f[i] < f[j]
      /\ \A i \in 1..m : fs[f[i]].slice.icao = r[i] /\ f[i] \in NotedIn(fs, n)
  BY <1>2 DEF Proves, NotedIn
<1>4. ASSUME NEW k \in NotedIn(fs, n)
      PROVE  \/ \E i \in 1..m : fs[k].slice.icao = r[i] /\ k <= f[i]
             \/ m = RosterCap /\ \A i \in 1..m : k < f[i] /\ fs[k].slice.icao # r[i]
  BY <1>2 DEF Proves
<1>5. NotedIn(fs, n) \subseteq 1..n
  BY DEF NotedIn
<1> HIDE DEF n, m
<1>6. ASSUME NEW i \in 1..m
      PROVE  Cardinality(Since(fs, n, f[i])) < RosterCap
  <2>1. \A x \in Since(fs, n, f[i]) : \E j \in i + 1..m : x = r[j]
    <3> SUFFICES ASSUME NEW k \in NotedIn(fs, n), k > f[i], fs[k].slice.icao # r[i]
                 PROVE  \E j \in i + 1..m : fs[k].slice.icao = r[j]
      BY <1>3 DEF Since
    <3>1. k \in 1..n /\ f[i] \in 1..n /\ ~(k < f[i])
      BY <1>0, <1>3, <1>5
    <3>2. PICK j \in 1..m : fs[k].slice.icao = r[j] /\ k <= f[j]
      BY <1>4, <3>1
    <3>3. f[j] \in 1..n /\ f[j] > f[i]
      BY <1>0, <1>3, <3>1, <3>2
    <3>4. ~(j < i) /\ j # i
      BY <1>3, <3>1, <3>3
    <3> QED BY <3>2, <3>4
  <2>2. Cardinality(Since(fs, n, f[i])) <= m - (i + 1) + 1 /\ IsFiniteSet(Since(fs, n, f[i]))
    <3>1. i + 1 \in Nat /\ i + 1 <= m + 1
      BY <1>0
    <3> QED BY <1>0, <2>1, <3>1, ItemsBound
  <2>3. Cardinality(Since(fs, n, f[i])) \in Nat
    BY <2>2, FS_CardinalityType
  <2> QED BY <1>0, <2>2, <2>3
<1>7. ASSUME NEW k \in NotedIn(fs, n), Cardinality(Since(fs, n, k)) < RosterCap
      PROVE  \E i \in 1..m : fs[k].slice.icao = r[i]
  <2> SUFFICES ASSUME m = RosterCap, \A i \in 1..m : k < f[i] /\ fs[k].slice.icao # r[i]
               PROVE  FALSE
    BY <1>4
  <2> DEFINE S == {r[i] : i \in 1..m}
  <2>1. \A i, j \in 1..m : i # j => r[i] # r[j]
    BY DEF Roster, m
  <2>2. IsFiniteSet(S) /\ Cardinality(S) = m
    BY ZenonT(30), <1>0, <2>1, ItemsCount
  <2>3. S \subseteq Since(fs, n, k)
    <3> SUFFICES ASSUME NEW i \in 1..m PROVE r[i] \in Since(fs, n, k)
      OBVIOUS
    <3>1. f[i] \in NotedIn(fs, n) /\ f[i] > k /\ fs[f[i]].slice.icao = r[i]
          /\ r[i] # fs[k].slice.icao
      BY <1>3
    <3> QED BY <3>1 DEF Since
  <2>4. IsFiniteSet(Since(fs, n, k))
    <3> DEFINE names == [j \in 1..n |-> fs[j].slice.icao]
    <3>1. \A x \in Since(fs, n, k) : \E j \in 1..n : x = names[j]
      BY <1>5 DEF Since
    <3>2. 1 <= n + 1
      BY <1>0
    <3> HIDE DEF names
    <3> DEFINE T == Since(fs, n, k)
    <3>3. \A x \in T : \E j \in 1..n : x = names[j]
      BY <3>1
    <3> HIDE DEF T
    <3>4. IsFiniteSet(T) /\ Cardinality(T) <= n - 1 + 1
      BY ONLY <1>0, <3>2, <3>3, ItemsBound
    <3> QED BY <3>4 DEF T
  <2> HIDE DEF S
  <2>5. Cardinality(S) <= Cardinality(Since(fs, n, k)) /\ Cardinality(Since(fs, n, k)) \in Nat
    BY <2>3, <2>4, FS_Subset, FS_CardinalityType
  <2> QED BY <1>0, <1>7, <2>2, <2>5
<1>8. KnownIn(fs, n) \subseteq ToSet(r)
  BY <1>1, <1>7 DEF KnownIn
<1>9. ToSet(r) \subseteq KnownIn(fs, n)
  <2> SUFFICES ASSUME NEW i \in 1..m PROVE r[i] \in KnownIn(fs, n)
    BY <1>1
  <2> QED BY <1>3, <1>6 DEF KnownIn
<1> QED BY <1>8, <1>9 DEF n

\* What Note does, as a map from the new entries but the last to the old ones.
Shifts(t, r, x, h) ==
    /\ h \in [1..Len(t) - 1 -> 1..Len(r)]
    /\ \A i, j \in 1..Len(t) - 1 : i < j => h[i] < h[j]
    /\ \A i \in 1..Len(t) - 1 : t[i] = r[h[i]] /\ r[h[i]] # x
    /\ \A m \in 1..Len(r) :
          \/ \E i \in 1..Len(t) - 1 : h[i] = m
          \/ r[m] = x
          \/ m = 1 /\ Len(t) = RosterCap

\* Noting an address keeps the order of the others and forgets at most the oldest.
LEMMA NoteShift ==
  ASSUME NEW r, IsSeq(r), NEW x, Len(r) <= RosterCap,
         \A i, j \in 1..Len(r) : i # j => r[i] # r[j]
  PROVE  LET t == Note(r, x)
         IN  /\ IsSeq(t) /\ Len(t) >= 1 /\ Len(t) <= RosterCap /\ t[Len(t)] = x
             /\ Len(r) = RosterCap => Len(t) = RosterCap
             /\ \E h : Shifts(t, r, x, h)
<1> DEFINE t == Note(r, x)
<1>0. Len(r) \in Nat /\ RosterCap \in Nat /\ RosterCap >= 1
  BY CapHoldsOne DEF IsSeq
<1>1. IsSeq(t) /\ Len(t) \in Nat /\ Len(t) >= 1 /\ t[Len(t)] = x
  BY NoteCases DEF IsSeq
<1>2. CASE \E p \in 1..Len(r) :
             /\ r[p] = x /\ Len(t) = Len(r)
             /\ \A i \in 1..Len(r) - 1 : t[i] = IF i < p THEN r[i] ELSE r[i + 1]
  <2> HIDE DEF t
  <2> PICK p \in 1..Len(r) :
             /\ r[p] = x /\ Len(t) = Len(r)
             /\ \A i \in 1..Len(r) - 1 : t[i] = IF i < p THEN r[i] ELSE r[i + 1]
    BY <1>2
  <2> DEFINE h == [i \in 1..Len(t) - 1 |-> IF i < p THEN i ELSE i + 1]
  <2>1. h \in [1..Len(t) - 1 -> 1..Len(r)]
    BY <1>0
  <2>2. \A i, j \in 1..Len(t) - 1 : i < j => h[i] < h[j]
    BY <1>0
  <2>3. ASSUME NEW i \in 1..Len(t) - 1 PROVE t[i] = r[h[i]] /\ r[h[i]] # x
    <3>1. t[i] = r[h[i]] /\ h[i] # p /\ h[i] \in 1..Len(r)
      BY <1>0, <2>1
    <3> QED BY <3>1
  <2>4. ASSUME NEW m \in 1..Len(r), m # p
        PROVE  \E i \in 1..Len(t) - 1 : h[i] = m
    <3>1. CASE m < p
      BY <1>0, <3>1
    <3>2. CASE m > p
      <4>1. m - 1 \in 1..Len(t) - 1 /\ ~(m - 1 < p) /\ m - 1 + 1 = m
        BY <1>0, <3>2
      <4> QED BY <4>1
    <3> QED BY <1>0, <2>4, <3>1, <3>2
  <2> HIDE DEF h
  <2>5. Shifts(t, r, x, h)
    BY <2>1, <2>2, <2>3, <2>4 DEF Shifts
  <2> QED BY <1>0, <1>1, <2>5 DEF t
<1>3. CASE /\ \A i \in 1..Len(r) : r[i] # x
           /\ Len(r) # RosterCap /\ Len(t) = Len(r) + 1
           /\ \A i \in 1..Len(r) : t[i] = r[i]
  <2> HIDE DEF t
  <2> DEFINE h == [i \in 1..Len(t) - 1 |-> i]
  <2>0. Len(t) - 1 = Len(r) /\ Len(t) <= RosterCap
    BY <1>0, <1>3
  <2>1. h \in [1..Len(t) - 1 -> 1..Len(r)] /\ \A i \in 1..Len(r) : h[i] = i
    BY <2>0
  <2>2. \A i, j \in 1..Len(t) - 1 : i < j => h[i] < h[j]
    BY <1>0
  <2>3. \A i \in 1..Len(t) - 1 : t[i] = r[h[i]] /\ r[h[i]] # x
    BY <1>3, <2>0
  <2>4. \A m \in 1..Len(r) : \E i \in 1..Len(t) - 1 : h[i] = m
    BY <2>0, <2>1
  <2> HIDE DEF h
  <2>5. Shifts(t, r, x, h)
    BY <2>1, <2>2, <2>3, <2>4 DEF Shifts
  <2> QED BY <1>0, <1>1, <1>3, <2>0, <2>5 DEF t
<1>4. CASE /\ \A i \in 1..Len(r) : r[i] # x
           /\ Len(r) = RosterCap /\ Len(t) = Len(r)
           /\ \A i \in 1..Len(r) - 1 : t[i] = r[i + 1]
  <2> HIDE DEF t
  <2> DEFINE h == [i \in 1..Len(t) - 1 |-> i + 1]
  <2>1. h \in [1..Len(t) - 1 -> 1..Len(r)]
    BY <1>0, <1>4
  <2>2. \A i, j \in 1..Len(t) - 1 : i < j => h[i] < h[j]
    BY <1>0
  <2>3. \A i \in 1..Len(t) - 1 : t[i] = r[h[i]] /\ r[h[i]] # x
    <3>1. \A i \in 1..Len(t) - 1 : t[i] = r[h[i]] /\ h[i] \in 1..Len(r)
      BY <1>0, <1>4
    <3> QED BY <1>4, <3>1
  <2>4. ASSUME NEW m \in 1..Len(r), m # 1 PROVE \E i \in 1..Len(t) - 1 : h[i] = m
    <3>1. m - 1 \in 1..Len(t) - 1 /\ m - 1 + 1 = m
      BY <1>0, <1>4, <2>4
    <3> QED BY <3>1
  <2> HIDE DEF h
  <2>5. Shifts(t, r, x, h)
    BY <1>4, <2>1, <2>2, <2>3, <2>4 DEF Shifts
  <2> QED BY <1>0, <1>1, <1>4, <2>5 DEF t
<1> QED BY <1>2, <1>3, <1>4, NoteCases

\* A frame that proves no address leaves the roster right ...
LEMMA RosterSkip ==
  ASSUME NEW fs, IsSeq(fs), NEW r, IsSeq(r), Roster(fs, r), NEW gs,
         Len(gs) = Len(fs) + 1, \A k \in 1..Len(fs) : gs[k] = fs[k],
         ~Seeds(gs[Len(gs)].slice)
  PROVE  Roster(gs, r)
<1>0. Len(fs) \in Nat /\ Len(r) \in Nat
  BY DEF IsSeq
<1>1. PICK f : Proves(fs, r, f)
  BY DEF Roster
<1>2. /\ f \in [1..Len(r) -> 1..Len(fs)]
      /\ \A i, j \in 1..Len(r) : i < j => f[i] < f[j]
      /\ \A i \in 1..Len(r) : fs[f[i]].slice.icao = r[i] /\ Seeds(fs[f[i]].slice)
  BY <1>1 DEF Proves
<1>3. f \in [1..Len(r) -> 1..Len(gs)]
  BY <1>0, <1>2
<1>4. \A i \in 1..Len(r) : gs[f[i]].slice.icao = r[i] /\ Seeds(gs[f[i]].slice)
  BY <1>2
<1>5. ASSUME NEW k \in NotedIn(gs, Len(gs))
      PROVE  \/ \E i \in 1..Len(r) : gs[k].slice.icao = r[i] /\ k <= f[i]
             \/ /\ Len(r) = RosterCap
                /\ \A i \in 1..Len(r) : k < f[i] /\ gs[k].slice.icao # r[i]
  <2>1. k \in 1..Len(gs) /\ Seeds(gs[k].slice) /\ k # Len(gs)
    BY DEF NotedIn
  <2>2. k \in 1..Len(fs) /\ gs[k] = fs[k]
    BY <1>0, <2>1
  <2>3. k \in NotedIn(fs, Len(fs))
    BY <2>1, <2>2 DEF NotedIn
  <2> QED BY <1>1, <2>2, <2>3 DEF Proves
<1>6. Proves(gs, r, f)
  BY <1>2, <1>3, <1>4, <1>5 DEF Proves
<1> QED BY <1>6 DEF Roster

\* ... and after one that does, noting it makes it right.
LEMMA RosterNote ==
  ASSUME NEW fs, IsSeq(fs), NEW r, IsSeq(r), Roster(fs, r), NEW gs,
         Len(gs) = Len(fs) + 1, \A k \in 1..Len(fs) : gs[k] = fs[k],
         Seeds(gs[Len(gs)].slice)
  PROVE  Roster(gs, Note(r, gs[Len(gs)].slice.icao))
<1> DEFINE n == Len(fs)
           x == gs[n + 1].slice.icao
           t == Note(r, x)
           l == Len(t)
<1>0. n \in Nat /\ Len(r) \in Nat /\ Len(gs) = n + 1 /\ RosterCap \in Nat
  BY CapHoldsOne DEF IsSeq
<1>1. PICK f : Proves(fs, r, f)
  BY DEF Roster
<1>2. /\ f \in [1..Len(r) -> 1..n]
      /\ \A i, j \in 1..Len(r) : i < j => f[i] < f[j]
      /\ \A i \in 1..Len(r) : fs[f[i]].slice.icao = r[i] /\ Seeds(fs[f[i]].slice)
  BY <1>1 DEF Proves
<1>5. Len(r) <= RosterCap /\ \A i, j \in 1..Len(r) : i # j => r[i] # r[j]
  BY DEF Roster
<1>3. /\ IsSeq(t) /\ l \in Nat /\ l >= 1 /\ l <= RosterCap /\ t[l] = x
      /\ Len(r) = RosterCap => l = RosterCap
  BY SMTT(20), <1>5, NoteShift DEF IsSeq
<1>4. PICK h : Shifts(t, r, x, h)
  BY <1>5, NoteShift
<1>6. Seeds(gs[n + 1].slice) /\ \A k \in 1..n : gs[k] = fs[k]
  BY <1>0
<1>7. Note(r, gs[Len(gs)].slice.icao) = t
  BY <1>0
<1> HIDE DEF t, x, n
<1>8. /\ h \in [1..l - 1 -> 1..Len(r)]
      /\ \A i, j \in 1..l - 1 : i < j => h[i] < h[j]
      /\ \A i \in 1..l - 1 : t[i] = r[h[i]] /\ r[h[i]] # x
      /\ \A m \in 1..Len(r) : (\E i \in 1..l - 1 : h[i] = m) \/ r[m] = x \/ (m = 1 /\ l = RosterCap)
  BY <1>4 DEF Shifts
<1> DEFINE g == [i \in 1..l |-> IF i = l THEN n + 1 ELSE f[h[i]]]
<1> HIDE DEF l
<1>9. ASSUME NEW i \in 1..l, i # l
      PROVE  /\ i \in 1..l - 1 /\ h[i] \in 1..Len(r) /\ f[h[i]] \in 1..n
             /\ g[i] = f[h[i]] /\ t[i] = r[h[i]]
  <2>1. i \in 1..l - 1
    BY <1>3, <1>9
  <2> QED BY <1>2, <1>8, <1>9, <2>1
<1>10. g[l] = n + 1
  BY <1>3
<1>11. g \in [1..l -> 1..Len(gs)]
  BY <1>0, <1>9, <1>10
<1> HIDE DEF g
<1>12. ASSUME NEW i \in 1..l, NEW j \in 1..l, i < j
       PROVE  g[i] < g[j]
  <2>1. i # l /\ i \in 1..l - 1
    BY <1>3, <1>12
  <2>2. CASE j = l
    BY <1>0, <1>9, <1>10, <2>1, <2>2
  <2>3. CASE j # l
    <3>1. j \in 1..l - 1 /\ h[i] < h[j] /\ h[i] \in 1..Len(r) /\ h[j] \in 1..Len(r)
      BY <1>8, <1>9, <1>12, <2>1, <2>3
    <3>2. f[h[i]] < f[h[j]]
      BY <1>2, <3>1
    <3> QED BY <1>9, <2>1, <2>3, <3>2
  <2> QED BY <2>2, <2>3
<1>13. ASSUME NEW i \in 1..l
       PROVE  gs[g[i]].slice.icao = t[i] /\ Seeds(gs[g[i]].slice)
  <2>1. CASE i = l
    BY <1>3, <1>6, <1>10, <2>1 DEF x
  <2>2. CASE i # l
    BY <1>2, <1>6, <1>9, <2>2
  <2> QED BY <2>1, <2>2
<1>14. ASSUME NEW k \in NotedIn(gs, n + 1)
       PROVE  \/ \E i \in 1..l : gs[k].slice.icao = t[i] /\ k <= g[i]
              \/ /\ l = RosterCap
                 /\ \A i \in 1..l : k < g[i] /\ gs[k].slice.icao # t[i]
  <2>0. k \in 1..n + 1 /\ Seeds(gs[k].slice) /\ l \in 1..l
    BY <1>3 DEF NotedIn
  <2>1. CASE gs[k].slice.icao = x
    <3>1. k <= g[l] /\ gs[k].slice.icao = t[l]
      BY <1>0, <1>3, <1>10, <2>0, <2>1
    <3> QED BY <2>0, <3>1
  <2>2. CASE gs[k].slice.icao # x
    <3>1. k \in 1..n /\ gs[k] = fs[k]
      BY <1>0, <1>6, <2>0, <2>2 DEF x
    <3>2. k \in NotedIn(fs, n)
      BY <2>0, <3>1 DEF NotedIn
    <3>3. CASE \E m \in 1..Len(r) : fs[k].slice.icao = r[m] /\ k <= f[m]
      <4> PICK m \in 1..Len(r) : fs[k].slice.icao = r[m] /\ k <= f[m]
        BY <3>3
      <4>1. CASE \E i \in 1..l - 1 : h[i] = m
        <5> PICK i \in 1..l - 1 : h[i] = m
          BY <4>1
        <5>1. i \in 1..l /\ i # l
          BY <1>3
        <5>2. t[i] = r[m] /\ g[i] = f[m]
          BY <1>9, <5>1
        <5> QED BY <3>1, <5>1, <5>2
      <4>2. CASE (~\E i \in 1..l - 1 : h[i] = m) /\ m = 1 /\ l = RosterCap
        <5>1. ASSUME NEW i \in 1..l
              PROVE  k < g[i] /\ gs[k].slice.icao # t[i]
          <6>1. CASE i = l
            BY <1>0, <1>3, <1>10, <2>2, <3>1, <6>1
          <6>2. CASE i # l
            <7>1. h[i] \in 1..Len(r) /\ h[i] # m /\ i \in 1..l - 1
              BY <1>9, <4>2, <6>2
            <7>2. m < h[i]
              BY <4>2, <7>1
            <7>3. f[m] < f[h[i]] /\ f[m] \in 1..n /\ f[h[i]] \in 1..n
              BY <1>2, <7>1, <7>2
            <7>4. r[m] # r[h[i]]
              BY <1>5, <7>1
            <7>5. k < f[h[i]]
              BY <3>1, <7>3
            <7> QED BY <1>9, <3>1, <6>2, <7>4, <7>5
          <6> QED BY <6>1, <6>2
        <5> QED BY <4>2, <5>1
      <4>3. r[m] # x
        BY <2>2, <3>1
      <4> QED BY <1>8, <4>1, <4>2, <4>3
    <3>4. CASE /\ Len(r) = RosterCap
               /\ \A i \in 1..Len(r) : k < f[i] /\ fs[k].slice.icao # r[i]
      <4>1. ASSUME NEW i \in 1..l
            PROVE  k < g[i] /\ gs[k].slice.icao # t[i]
        <5>1. CASE i = l
          BY <1>0, <1>3, <1>10, <2>2, <3>1, <5>1
        <5>2. CASE i # l
          BY <1>9, <3>1, <3>4, <5>2
        <5> QED BY <5>1, <5>2
      <4> QED BY <1>3, <3>4, <4>1
    <3> QED BY <1>1, <3>2, <3>3, <3>4 DEF Proves, n
  <2> QED BY <2>1, <2>2
<1>15. Proves(gs, t, g)
  BY <1>0, <1>11, <1>12, <1>13, <1>14 DEF Proves, l
<1>16. ASSUME NEW i \in 1..l, NEW j \in 1..l, i # j PROVE t[i] # t[j]
  <2>1. CASE i # l /\ j # l
    <3>1. i \in 1..l - 1 /\ j \in 1..l - 1 /\ h[i] \in 1..Len(r) /\ h[j] \in 1..Len(r)
      BY <1>9, <2>1
    <3>2. i < j \/ j < i
      BY <1>3, <1>16
    <3>3. h[i] # h[j]
      BY <1>8, <3>1, <3>2
    <3> QED BY <1>5, <1>9, <2>1, <3>1, <3>3
  <2>2. gs[g[i]].slice.icao = t[i] /\ gs[g[j]].slice.icao = t[j]
    BY <1>13
  <2>3. \A m \in 1..l - 1 : t[m] # x
    <3> SUFFICES ASSUME NEW m \in 1..l - 1, r[h[m]] = x PROVE FALSE
      BY <1>8
    <3> QED BY <1>8
  <2> QED BY <1>3, <1>9, <1>16, <2>1, <2>3
<1>17. Roster(gs, t)
  BY <1>3, <1>15, <1>16 DEF Roster, l
<1> QED BY <1>7, <1>17

-----------------------------------------------------------------------------
(* What is heard in turn, of any run of frames. *)

SlicesOf(sig, i, end, damage) ==
    [k \in DOMAIN sig[i] |->
        LET slice == sig[i][k]
        IN  IF i + Span(slice) - 1 <= end \/ slice.damage = "more"
            THEN slice
            ELSE [slice EXCEPT !.damage = damage]]
HeardIn(sig, c, fs, i, n) ==
    LET slices == SlicesOf(sig, i, Len(sig), c)
        best == Best(slices, KnownIn(fs, n))
    IN  IF best = 0 THEN {} ELSE {slices[best]}
BehindIn(fs, n) == IF n = 0 THEN 1 ELSE fs[n].at + Span(fs[n].slice)

\* Frame k is the first that is acceptable behind the one before it ...
InTurn(sig, c, fs, k) ==
    /\ fs[k].at \in Nat /\ fs[k].at >= BehindIn(fs, k - 1)
    /\ HeardIn(sig, c, fs, fs[k].at, k - 1) = {fs[k].slice}
    /\ \A i \in BehindIn(fs, k - 1)..(fs[k].at - 1) : HeardIn(sig, c, fs, i, k - 1) = {}
\* ... and none has been passed over up to p.
Turn(sig, c, fs, p) ==
    /\ \A k \in 1..Len(fs) : InTurn(sig, c, fs, k)
    /\ \A i \in BehindIn(fs, Len(fs))..p : HeardIn(sig, c, fs, i, Len(fs)) = {}

LEMMA BehindIsNat ==
  ASSUME NEW sig, NEW c, NEW fs, IsSeq(fs), NEW p, Turn(sig, c, fs, p), NEW n \in 0..Len(fs)
  PROVE  BehindIn(fs, n) \in Nat /\ BehindIn(fs, n) >= 1
<1>1. CASE n = 0
  BY <1>1 DEF BehindIn
<1>2. CASE n # 0
  <2>1. Len(fs) \in Nat
    BY DEF IsSeq
  <2>2. fs[n].at \in Nat
    BY <1>2, <2>1 DEF Turn, InTurn
  <2> QED BY <1>2, <2>2, SpanBounds DEF BehindIn
<1> QED BY <1>1, <1>2

\* The past does not depend on what comes later.
LEMMA Past ==
  ASSUME NEW fs, NEW gs, NEW m \in Nat, \A k \in 1..m : gs[k] = fs[k], NEW n \in 0..m
  PROVE  /\ KnownIn(gs, n) = KnownIn(fs, n)
         /\ BehindIn(gs, n) = BehindIn(fs, n)
         /\ \A sig, c, i : HeardIn(sig, c, gs, i, n) = HeardIn(sig, c, fs, i, n)
<1>1. \A k \in 1..n : gs[k] = fs[k]
  OBVIOUS
<1>2. NotedIn(gs, n) = NotedIn(fs, n) /\ NotedIn(fs, n) \subseteq 1..n
  BY <1>1 DEF NotedIn
<1>3. ASSUME NEW k \in NotedIn(fs, n) PROVE Since(gs, n, k) = Since(fs, n, k)
  BY <1>1, <1>2 DEF Since
<1>4. KnownIn(gs, n) = KnownIn(fs, n)
  <2>1. {k \in NotedIn(gs, n) : Cardinality(Since(gs, n, k)) < RosterCap} =
        {k \in NotedIn(fs, n) : Cardinality(Since(fs, n, k)) < RosterCap}
    BY <1>2, <1>3
  <2> DEFINE K == {k \in NotedIn(fs, n) : Cardinality(Since(fs, n, k)) < RosterCap}
  <2>2. KnownIn(gs, n) = {gs[k].slice.icao : k \in K} /\ KnownIn(fs, n) = {fs[k].slice.icao : k \in K}
    BY <2>1 DEF KnownIn
  <2>3. K \subseteq 1..n
    BY <1>2
  <2> HIDE DEF K
  <2> QED BY <1>1, <2>2, <2>3
<1>5. BehindIn(gs, n) = BehindIn(fs, n)
  <2>1. n # 0 => gs[n] = fs[n]
    BY <1>1
  <2> QED BY <2>1 DEF BehindIn
<1> QED BY <1>4, <1>5 DEF HeardIn

\* The position behind the last frame, and where a scan goes on.
GoesOn(fs, next, p) ==
    /\ next \in Int /\ BehindIn(fs, Len(fs)) <= next
    /\ next <= p + 1 \/ next = BehindIn(fs, Len(fs))

\* A position takes the next frame in turn, or there is none.
LEMMA TurnStep ==
  ASSUME NEW p \in Nat, NEW end, NEW damage, NEW sig, NEW c, NEW scan,
         Slices(p + 1, end, damage) = SlicesOf(sig, p + 1, Len(sig), c),
         IsSeq(scan.frames), IsSeq(scan.order),
         Roster(scan.frames, scan.order), Turn(sig, c, scan.frames, p),
         GoesOn(scan.frames, scan.next, p)
  PROVE  LET next == At(scan, p + 1, end, damage)
         IN  /\ Roster(next.frames, next.order) /\ Turn(sig, c, next.frames, p + 1)
             /\ GoesOn(next.frames, next.next, p + 1)
<1> DEFINE i == p + 1
           slices == Slices(i, end, damage)
           best == Best(slices, ToSet(scan.order))
           next == At(scan, i, end, damage)
           fs == scan.frames
           gs == next.frames
           n == Len(fs)
           behind == BehindIn(fs, n)
<1>0. n \in Nat /\ behind \in Nat /\ i \in Nat
  <2>1. n \in Nat
    BY DEF IsSeq
  <2> QED BY <2>1, BehindIsNat
<1>1. KnownIn(fs, n) = ToSet(scan.order)
  BY RosterIsKnown
<1>2. HeardIn(sig, c, fs, i, n) = IF best = 0 THEN {} ELSE {slices[best]}
  BY <1>1 DEF HeardIn
<1>3. CASE (i < scan.next \/ best = 0) /\ next = scan
  <2>1. ASSUME NEW j \in behind..i PROVE HeardIn(sig, c, fs, j, n) = {}
    <3>1. CASE j \in behind..p
      BY <3>1 DEF Turn
    <3>2. CASE j = i
      <4>1. ~(i < scan.next)
        BY <1>0, <2>1, <3>2 DEF GoesOn
      <4> QED BY <1>2, <1>3, <3>2, <4>1
    <3> QED BY <1>0, <2>1, <3>1, <3>2
  <2>2. Turn(sig, c, fs, i)
    BY <2>1 DEF Turn
  <2>3. GoesOn(fs, scan.next, i)
    BY <1>0 DEF GoesOn
  <2> QED BY <1>3, <2>2, <2>3
<1>4. CASE /\ ~(i < scan.next) /\ best # 0
           /\ next.next = i + Span(slices[best])
           /\ next.order = IF Seeds(slices[best]) THEN Note(scan.order, slices[best].icao)
                           ELSE scan.order
           /\ gs = Append(fs, [slice |-> slices[best], at |-> i])
  <2> DEFINE s == slices[best]
             e == [slice |-> s, at |-> i]
  <2>1. HeardIn(sig, c, fs, i, n) = {s} /\ e.slice = s /\ e.at = i /\ gs = Append(fs, e)
    BY <1>2, <1>4
  <2>2. next.next = i + Span(s) /\ next.order = IF Seeds(s) THEN Note(scan.order, s.icao) ELSE scan.order
    BY <1>4
  <2> HIDE DEF e, s, next, gs
  <2>3. /\ IsSeq(gs) /\ Len(gs) = n + 1
        /\ \A k \in 1..n : gs[k] = fs[k]
        /\ gs[n + 1].slice = s /\ gs[n + 1].at = i
    BY <2>1, Appended
  <2>4. Roster(gs, next.order)
    <3>1. CASE Seeds(s)
      <4>1. Seeds(gs[Len(gs)].slice) /\ gs[Len(gs)].slice.icao = s.icao
        BY <2>3, <3>1
      <4>2. Roster(gs, Note(scan.order, gs[Len(gs)].slice.icao))
        BY <2>3, <4>1, RosterNote
      <4> QED BY <2>2, <3>1, <4>1, <4>2
    <3>2. CASE ~Seeds(s)
      <4>1. ~Seeds(gs[Len(gs)].slice)
        BY <2>3, <3>2
      <4>2. Roster(gs, scan.order)
        BY <2>3, <4>1, RosterSkip
      <4> QED BY <2>2, <3>2, <4>2
    <3> QED BY <3>1, <3>2
  <2>5. ASSUME NEW m \in 0..n
        PROVE  /\ BehindIn(gs, m) = BehindIn(fs, m)
               /\ \A j : HeardIn(sig, c, gs, j, m) = HeardIn(sig, c, fs, j, m)
    <3> HIDE DEF n, fs
    <3>1. \A k \in 1..n : gs[k] = fs[k]
      BY <2>3
    <3> QED BY ONLY <1>0, <3>1, Past
  <2>6. ASSUME NEW k \in 1..n + 1 PROVE InTurn(sig, c, gs, k)
    <3>1. CASE k \in 1..n
      <4>1. gs[k] = fs[k] /\ k - 1 \in 0..n /\ InTurn(sig, c, fs, k)
        BY <2>3, <3>1 DEF Turn
      <4> QED BY <2>5, <4>1 DEF InTurn
    <3>2. CASE k = n + 1
      <4>1. k - 1 = n /\ n \in 0..n /\ gs[k].at = i /\ gs[k].slice = s /\ i - 1 = p
        BY <1>0, <2>3, <3>2
      <4>2. BehindIn(gs, k - 1) = behind /\ \A j : HeardIn(sig, c, gs, j, k - 1) = HeardIn(sig, c, fs, j, n)
        BY <2>5, <4>1
      <4>3. i >= behind
        BY <1>0, <1>4 DEF GoesOn
      <4>4. \A j \in behind..p : HeardIn(sig, c, fs, j, n) = {}
        BY DEF Turn
      <4> HIDE DEF behind, i
      <4> QED BY <1>0, <2>1, <4>1, <4>2, <4>3, <4>4 DEF InTurn
    <3> QED BY <1>0, <3>1, <3>2
  <2>7. BehindIn(gs, Len(gs)) = i + Span(s) /\ Span(s) \in Nat /\ Span(s) > 0
    BY <1>0, <2>3, SpanBounds DEF BehindIn
  <2>8. \A j \in BehindIn(gs, Len(gs))..i : FALSE
    BY <1>0, <2>7
  <2>9. Turn(sig, c, gs, i)
    BY <2>3, <2>6, <2>8 DEF Turn
  <2>10. GoesOn(gs, next.next, i)
    BY <1>0, <2>2, <2>7 DEF GoesOn
  <2> QED BY <2>4, <2>9, <2>10 DEF gs, next
<1> QED BY <1>3, <1>4, AtCases

-----------------------------------------------------------------------------
(* The demodulator. *)

\* Until the flush, what has been passed lies Guard samples back, so nothing
\* of it depended on samples that were still to come.
Demod ==
    /\ IsSeq(signal)
    /\ fed \in Nat /\ fed <= Len(signal)
    /\ base \in Nat /\ base <= fed
    /\ Lists(frames, order) /\ Roster(frames, order)
    /\ Turn(signal, cut, frames, base)
    /\ ~flushed =>
          /\ fed <= base + Guard
          /\ BehindIn(frames, Len(frames)) <= base + 1
          /\ \A k \in 1..Len(frames) : frames[k].at + Guard <= fed
          /\ \A i \in BehindIn(frames, Len(frames))..base : i + Guard <= fed

\* The slices a scan sees are those of the signal fed.
LEMMA SlicesAreOf ==
  \A i, end, damage : Slices(i, end, damage) = SlicesOf(signal, i, end, damage)
BY DEF Slices, SlicesOf

SlicesAt(sig, i) == [k \in DOMAIN sig[i] |-> sig[i][k]]

\* A slice from Guard samples back or more is whole.
LEMMA Whole ==
  ASSUME NEW sig, NEW i \in Int, NEW end \in Int, i + Guard <= end, NEW damage
  PROVE  SlicesOf(sig, i, end, damage) = SlicesAt(sig, i)
<1>1. ASSUME NEW k \in DOMAIN sig[i] PROVE i + Span(sig[i][k]) - 1 <= end
  <2>1. Span(sig[i][k]) \in Nat /\ Span(sig[i][k]) <= Guard /\ Guard \in Nat
    BY SpanBounds, SampleCounts
  <2> QED BY <2>1
<1> QED BY <1>1 DEF SlicesOf, SlicesAt

\* A scan of any length keeps all of that.
LEMMA ScanRuns ==
  ASSUME base \in Nat, Lists(frames, order), Roster(frames, order),
         NEW sig, NEW c, Turn(sig, c, frames, base),
         BehindIn(frames, Len(frames)) <= base + 1,
         NEW stop \in Nat, NEW end, NEW damage,
         \A i \in base + 1..base + stop :
            Slices(i, end, damage) = SlicesOf(sig, i, Len(sig), c)
  PROVE  LET scan == Scan(stop, end, damage)
         IN  /\ Grown(scan, base + stop, end, damage)
             /\ Lists(scan.frames, scan.order) /\ Roster(scan.frames, scan.order)
             /\ Turn(sig, c, scan.frames, base + stop)
             /\ GoesOn(scan.frames, scan.next, base + stop)
<1>0. PICK upTo : Runs(upTo, stop, end, damage)
  BY Positions
<1>1. /\ upTo[0] = [next |-> base + 1, order |-> order, frames |-> frames]
      /\ \A k \in 1..stop : upTo[k] = At(upTo[k - 1], base + k, end, damage)
      /\ Scan(stop, end, damage) = upTo[stop]
  BY <1>0 DEF Runs
<1> DEFINE Inv(scan, p) ==
             /\ Grown(scan, p, end, damage)
             /\ Lists(scan.frames, scan.order) /\ Roster(scan.frames, scan.order)
             /\ Turn(sig, c, scan.frames, p)
             /\ GoesOn(scan.frames, scan.next, p)
           T == {k \in Nat : k <= stop => Inv(upTo[k], base + k)}
<1>2. 0 \in T
  <2> DEFINE scan == upTo[0]
  <2>1. scan.frames = frames /\ scan.order = order /\ scan.next = base + 1
    BY <1>1
  <2>2. IsSeq(frames) /\ Len(frames) \in Nat
    BY DEF Lists, IsSeq
  <2> HIDE DEF scan
  <2>3. Grown(scan, base, end, damage)
    BY <2>1, <2>2 DEF Grown
  <2>4. GoesOn(scan.frames, scan.next, base)
    BY <2>1 DEF GoesOn
  <2>5. Inv(scan, base)
    BY <2>1, <2>3, <2>4
  <2> HIDE DEF Inv
  <2> QED BY <2>5 DEF scan
<1>3. ASSUME NEW k \in T PROVE k + 1 \in T
  <2> SUFFICES ASSUME k + 1 <= stop PROVE Inv(upTo[k + 1], base + (k + 1))
    OBVIOUS
  <2> DEFINE scan == upTo[k]
             p == base + k
             next == At(scan, p + 1, end, damage)
  <2>1. k \in Nat /\ k + 1 \in 1..stop /\ k + 1 - 1 = k /\ p \in Nat /\ base <= p
        /\ base + (k + 1) = p + 1 /\ p + 1 \in base + 1..base + stop
    OBVIOUS
  <2>2. upTo[k + 1] = next
    <3>1. upTo[k + 1] = At(upTo[k + 1 - 1], base + (k + 1), end, damage)
      BY <1>1, <2>1
    <3> QED BY <2>1, <3>1
  <2>3. Inv(scan, p)
    BY <2>1
  <2>4. IsSeq(frames) /\ IsSeq(scan.frames) /\ IsSeq(scan.order)
    BY <2>3 DEF Lists
  <2>5. Slices(p + 1, end, damage) = SlicesOf(sig, p + 1, Len(sig), c)
    BY <2>1
  <2> HIDE DEF scan, p, next
  <2>6. Grown(next, p + 1, end, damage)
    BY <2>1, <2>3, <2>4, GrownStep DEF next
  <2>7. Lists(next.frames, next.order)
    BY <2>3, ListsStep DEF next
  <2>8. /\ Roster(next.frames, next.order) /\ Turn(sig, c, next.frames, p + 1)
        /\ GoesOn(next.frames, next.next, p + 1)
    BY <2>1, <2>3, <2>4, <2>5, TurnStep DEF next
  <2>9. Inv(next, p + 1)
    BY <2>6, <2>7, <2>8
  <2> HIDE DEF Inv
  <2> QED BY <2>1, <2>2, <2>9
<1> HIDE DEF Inv
<1>4. T = Nat
  BY <1>2, <1>3, Induct
<1>5. Inv(upTo[stop], base + stop)
  BY <1>4
<1> QED BY <1>1, <1>5 DEF Inv

LEMMA Empty ==
  ASSUME NEW sig, NEW c
  PROVE  /\ Lists(<<>>, <<>>) /\ Roster(<<>>, <<>>) /\ Turn(sig, c, <<>>, 0)
         /\ BehindIn(<<>>, Len(<<>>)) = 1 /\ Len(<<>>) = 0
<1>1. Len(<<>>) = 0 /\ <<>> = [i \in 1..0 |-> <<>>[i]]
  OBVIOUS
<1>2. IsSeq(<<>>)
  BY <1>1 DEF IsSeq
<1>3. Proves(<<>>, <<>>, [i \in 1..0 |-> 1])
  BY <1>1 DEF Proves, NotedIn
<1>4. Roster(<<>>, <<>>)
  BY <1>1, <1>3, CapHoldsOne DEF Roster
<1> QED BY <1>1, <1>2, <1>4 DEF Lists, Turn, BehindIn

\* A chunk: the frames it brings start behind what was done with.
LEMMA FeedStep ==
  ASSUME Demod, NEW n \in ChunkSizes, Feed(n)
  PROVE  /\ Demod'
         /\ Len(frames) <= Len(frames')
         /\ \A k \in Len(frames) + 1..Len(frames') : frames'[k].at >= base + 1
<1> DEFINE stop == Larger(0, fed' - base - Guard)
           scan == Scan(stop, fed', "more")
           p == base + stop
           fs == scan.frames
           behind == BehindIn(fs, Len(fs))
<1>0. /\ n \in Nat /\ Guard \in Nat /\ Long \in Nat /\ Long <= Guard /\ 0 < Long
      /\ fed \in Nat /\ fed <= Len(signal) /\ base \in Nat /\ base <= fed /\ Len(signal) \in Nat
  <2>1. n \in Nat /\ Guard \in Nat /\ Long \in Nat /\ Long <= Guard /\ 0 < Long
    <3>1. Guard \in Nat /\ Long \in Nat /\ Short \in Nat /\ n \in Nat
      BY ONLY SampleCounts, n \in ChunkSizes
    <3> QED BY ONLY <3>1, GuardCoversFrame
  <2>2. /\ fed \in Nat /\ fed <= Len(signal) /\ base \in Nat /\ base <= fed
        /\ Len(signal) \in Nat
    BY DEF Demod, IsSeq
  <2> QED BY <2>1, <2>2
<1>1. /\ ~flushed /\ fed' = fed + n /\ fed' <= Len(signal)
      /\ base' = Larger(p, scan.next - 1) /\ order' = scan.order /\ frames' = scan.frames
      /\ signal' = signal /\ flushed' = flushed /\ cut' = cut
  BY DEF Feed
<1>2. /\ Lists(frames, order) /\ Roster(frames, order) /\ Turn(signal, cut, frames, base)
      /\ fed <= base + Guard /\ BehindIn(frames, Len(frames)) <= base + 1
      /\ \A k \in 1..Len(frames) : frames[k].at + Guard <= fed
      /\ \A i \in BehindIn(frames, Len(frames))..base : i + Guard <= fed
  BY <1>1 DEF Demod
<1>3. /\ stop \in Nat /\ fed' \in Nat
      /\ \/ stop = 0 /\ fed' <= base + Guard
         \/ stop > 0 /\ p + Guard = fed'
  BY <1>0, <1>1 DEF Larger
<1> HIDE DEF stop
<1>4. p \in Nat /\ base <= p /\ p <= fed' /\ fed' <= p + Guard
  BY <1>0, <1>1, <1>3
<1>5. ASSUME NEW i \in base + 1..base + stop
      PROVE  Slices(i, fed', "more") = SlicesOf(signal, i, Len(signal), cut)
  <2>1. i \in Int /\ i + Guard <= fed' /\ i + Guard <= Len(signal) /\ fed' \in Int /\ Len(signal) \in Int
    BY <1>0, <1>1, <1>3
  <2>2. Slices(i, fed', "more") = SlicesOf(signal, i, fed', "more")
    BY SlicesAreOf
  <2>3. SlicesOf(signal, i, fed', "more") = SlicesAt(signal, i)
    BY <2>1, Whole
  <2>4. SlicesOf(signal, i, Len(signal), cut) = SlicesAt(signal, i)
    BY <2>1, Whole
  <2> QED BY <2>2, <2>3, <2>4
<1>6. /\ Grown(scan, p, fed', "more")
      /\ Lists(fs, scan.order) /\ Roster(fs, scan.order)
      /\ Turn(signal, cut, fs, p)
      /\ GoesOn(fs, scan.next, p)
  BY <1>0, <1>2, <1>3, <1>5, ScanRuns
<1> HIDE DEF scan
<1>7. IsSeq(fs) /\ Len(fs) \in Nat /\ IsSeq(frames) /\ Len(frames) \in Nat
  BY <1>2, <1>6 DEF Lists, IsSeq
<1>8. behind \in Nat
  BY <1>6, <1>7, BehindIsNat
<1>9. scan.next \in Int /\ scan.next - 1 <= fed' /\ behind <= scan.next
      /\ (scan.next <= p + 1 \/ scan.next = behind)
  <2>1. /\ scan.next \in Int
        /\ scan.next = base + 1 \/ (\E q \in base + 1..p : scan.next <= q + Long)
    BY <1>6 DEF Grown
  <2>2. behind <= scan.next /\ (scan.next <= p + 1 \/ scan.next = behind)
    BY <1>6 DEF GoesOn
  <2>3. ASSUME scan.next = base + 1 PROVE scan.next - 1 <= fed'
    BY ONLY <1>0, <1>3, <1>4, <2>3
  <2>4. ASSUME NEW q \in base + 1..p, scan.next <= q + Long PROVE scan.next - 1 <= fed'
    <3>1. stop > 0 /\ p + Guard = fed'
      BY ONLY <1>0, <1>3, q \in base + 1..base + stop
    <3>2. q \in Int /\ q <= p /\ p \in Nat /\ fed' \in Nat
      BY <1>0, <1>3, <1>4
    <3> QED BY ONLY SMTT(20), <1>0, <2>1, <2>4, <3>1, <3>2
  <2> QED BY <2>1, <2>2, <2>3, <2>4
<1>10. ASSUME NEW k \in 1..Len(fs) PROVE fs[k].at + Guard <= fed'
  <2>1. CASE k \in 1..Len(frames)
    <3>1. fs[k] = frames[k] /\ frames[k].at + Guard <= fed /\ fs[k].at \in Nat
      BY <1>2, <1>6, <2>1 DEF Grown, Turn, InTurn
    <3> QED BY <1>0, <1>1, <3>1
  <2>2. CASE k \in Len(frames) + 1..Len(fs)
    <3>1. fs[k].at \in base + 1..p
      BY <1>6, <2>2 DEF Grown
    <3> QED BY SMTT(20), <1>0, <1>3, <3>1
  <2> QED BY <1>7, <2>1, <2>2
<1>11. stop = 0 => behind = BehindIn(frames, Len(frames))
  <2> SUFFICES ASSUME stop = 0 PROVE behind = BehindIn(frames, Len(frames))
    OBVIOUS
  <2>1. \A k \in Len(frames) + 1..Len(fs) : FALSE
    BY <1>0, <1>6 DEF Grown
  <2>2. Len(fs) = Len(frames)
    BY <1>6, <1>7, <2>1 DEF Grown
  <2>3. \A k \in 1..Len(frames) : fs[k] = frames[k]
    BY <1>6 DEF Grown
  <2> HIDE DEF fs
  <2> QED BY <1>7, <2>2, <2>3 DEF BehindIn
<1> HIDE DEF behind, fs
<1>12. base' \in Nat /\ base' <= fed' /\ fed' <= base' + Guard /\ behind <= base' + 1
       /\ (base' = p \/ base' = behind - 1)
  <2>1. base' = p \/ base' = scan.next - 1
    BY <1>1 DEF Larger
  <2>2. base' >= p /\ base' >= scan.next - 1
    BY <1>1, <1>4, <1>9 DEF Larger
  <2> HIDE DEF p
  <2> QED BY SMTT(20), <1>0, <1>1, <1>3, <1>4, <1>8, <1>9, <2>1, <2>2
<1>13. Turn(signal, cut, fs, base')
  <2>1. CASE base' = p
    BY <1>6, <2>1
  <2>2. CASE base' = behind - 1
    <3>1. \A i \in behind..base' : FALSE
      BY <1>8, <2>2
    <3> QED BY <1>6, <3>1 DEF Turn, behind
  <2> QED BY <1>12, <2>1, <2>2
<1>14. ASSUME NEW i \in behind..base' PROVE i + Guard <= fed'
  <2>1. CASE base' = behind - 1
    BY <1>8, <2>1
  <2>2. CASE base' = p /\ stop > 0
    BY <1>0, <1>3, <2>2
  <2>3. CASE base' = p /\ stop = 0
    <3>1. i \in BehindIn(frames, Len(frames))..base
      BY <1>0, <1>11, <2>3
    <3>2. i + Guard <= fed
      BY <1>2, <3>1
    <3> QED BY <1>0, <1>1, <3>1, <3>2
  <2> QED BY <1>3, <1>12, <2>1, <2>2, <2>3
<1>15. frames' = fs
  BY <1>1 DEF fs
<1>16. /\ Len(frames) <= Len(fs)
       /\ \A k \in Len(frames) + 1..Len(fs) : fs[k].at >= base + 1
  <2>1. \A k \in Len(frames) + 1..Len(fs) : fs[k].at \in base + 1..p
    BY <1>6 DEF Grown, fs
  <2> QED BY <1>0, <1>4, <1>6, <2>1 DEF Grown, fs
<1> HIDE DEF p
<1>17. Demod'
  BY <1>1, <1>3, <1>6, <1>10, <1>12, <1>13, <1>14, <1>15 DEF Demod, behind
<1> QED BY <1>15, <1>16, <1>17

\* What is heard in turn does not depend on more of a signal than was fed.
LEMMA TurnKept ==
  ASSUME NEW sig, NEW c, NEW sig2, NEW c2, NEW fs, IsSeq(fs), NEW p,
         Turn(sig, c, fs, p), NEW end \in Nat, Guard \in Nat,
         \A k \in 1..Len(fs) : fs[k].at + Guard <= end,
         \A i \in BehindIn(fs, Len(fs))..p : i + Guard <= end,
         \A i \in Nat \ {0} : \A n :
            i + Guard <= end => HeardIn(sig2, c2, fs, i, n) = HeardIn(sig, c, fs, i, n)
  PROVE  Turn(sig2, c2, fs, p)
<1>0. Len(fs) \in Nat
  BY DEF IsSeq
<1>1. ASSUME NEW k \in 1..Len(fs) PROVE InTurn(sig2, c2, fs, k)
  <2>1. InTurn(sig, c, fs, k) /\ fs[k].at \in Nat /\ fs[k].at + Guard <= end
    BY DEF Turn, InTurn
  <2>2. k - 1 \in 0..Len(fs)
    BY <1>0
  <2>3. BehindIn(fs, k - 1) \in Nat /\ BehindIn(fs, k - 1) >= 1
    BY <2>2, BehindIsNat
  <2>4. fs[k].at >= BehindIn(fs, k - 1)
    BY <2>1 DEF InTurn
  <2>5. fs[k].at \in Nat \ {0}
    BY <2>1, <2>3, <2>4
  <2>6. HeardIn(sig2, c2, fs, fs[k].at, k - 1) = {fs[k].slice}
    BY <2>1, <2>5 DEF InTurn
  <2>7. ASSUME NEW i \in BehindIn(fs, k - 1)..(fs[k].at - 1)
        PROVE  HeardIn(sig2, c2, fs, i, k - 1) = {}
    <3>1. i \in Nat \ {0} /\ i + Guard <= end
      BY <2>1, <2>3
    <3> QED BY <2>1, <3>1 DEF InTurn
  <2> QED BY <2>1, <2>4, <2>6, <2>7 DEF InTurn
<1>2. ASSUME NEW i \in BehindIn(fs, Len(fs))..p
      PROVE  HeardIn(sig2, c2, fs, i, Len(fs)) = {}
  <2>1. BehindIn(fs, Len(fs)) \in Nat /\ BehindIn(fs, Len(fs)) >= 1
    BY <1>0, BehindIsNat
  <2>2. i \in Nat \ {0}
    BY <2>1
  <2> QED BY <2>2 DEF Turn
<1> QED BY <1>1, <1>2 DEF Turn

LEMMA FlushStep ==
  ASSUME Demod, Flush
  PROVE  Demod' /\ Len(frames) <= Len(frames')
<1> DEFINE stop == fed - base
           scan == Scan(stop, fed, cut')
<1>0. /\ Guard \in Nat /\ fed \in Nat /\ base \in Nat /\ base <= fed /\ fed = Len(signal)
      /\ stop \in Nat /\ base + stop = fed
  BY SampleCounts DEF Demod, Flush
<1>1. /\ ~flushed /\ fed = Len(signal) /\ flushed' /\ base' = fed
      /\ order' = scan.order /\ frames' = scan.frames /\ signal' = signal /\ fed' = fed
  BY DEF Flush
<1>2. /\ Lists(frames, order) /\ Roster(frames, order) /\ Turn(signal, cut, frames, base)
      /\ BehindIn(frames, Len(frames)) <= base + 1
      /\ \A k \in 1..Len(frames) : frames[k].at + Guard <= fed
      /\ \A i \in BehindIn(frames, Len(frames))..base : i + Guard <= fed
  BY <1>1 DEF Demod
<1>3. IsSeq(frames) /\ Len(frames) \in Nat
  BY <1>2 DEF Lists, IsSeq
<1>4. ASSUME NEW i \in Int, i + Guard <= fed, NEW n
      PROVE  HeardIn(signal, cut', frames, i, n) = HeardIn(signal, cut, frames, i, n)
  <2>1. /\ SlicesOf(signal, i, Len(signal), cut') = SlicesAt(signal, i)
        /\ SlicesOf(signal, i, Len(signal), cut) = SlicesAt(signal, i)
    BY <1>0, <1>4, Whole
  <2> QED BY <2>1 DEF HeardIn
<1>7. Turn(signal, cut', frames, base)
  <2> HIDE DEF stop
  <2>1. \A i \in Nat \ {0} : \A n : i + Guard <= fed =>
           HeardIn(signal, cut', frames, i, n) = HeardIn(signal, cut, frames, i, n)
    BY <1>4
  <2> QED BY <1>0, <1>2, <1>3, <2>1, TurnKept
<1>8. ASSUME NEW i \in base + 1..base + stop
      PROVE  Slices(i, fed, cut') = SlicesOf(signal, i, Len(signal), cut')
  BY <1>0, SlicesAreOf
<1> HIDE DEF stop
<1>9. /\ Lists(scan.frames, scan.order) /\ Roster(scan.frames, scan.order)
      /\ Turn(signal, cut', scan.frames, base + stop)
      /\ Grown(scan, base + stop, fed, cut')
  BY <1>0, <1>2, <1>7, <1>8, ScanRuns
<1> HIDE DEF scan
<1>10. IsSeq(signal)
  BY DEF Demod
<1>11. Len(frames) <= Len(frames')
  BY <1>1, <1>9 DEF Grown
<1> QED BY <1>0, <1>1, <1>9, <1>10, <1>11 DEF Demod

\* A gap: what has been passed lies before it, and what reached into it has
\* not been passed.
LEMMA LoseStep ==
  ASSUME Demod, NEW n \in Gaps, Lose(n)
  PROVE  Demod'
<1> DEFINE m == Len(signal) - n
<1>1. PICK damage \in {"none", "single", "more"} :
         signal' = [i \in 1..m |-> IF i <= fed THEN Slices(i, fed, damage) ELSE signal[i + n]]
  BY DEF Lose
<1>2. /\ ~flushed /\ fed + n <= Len(signal) /\ fed' = fed /\ base' = base
      /\ order' = order /\ frames' = frames /\ flushed' = flushed /\ cut' = cut
  BY DEF Lose
<1>3. /\ n \in Nat /\ Guard \in Nat /\ fed \in Nat /\ Len(signal) \in Nat
      /\ m \in Nat /\ fed <= m
  BY <1>2, Faults, SampleCounts DEF Demod, IsSeq
<1> HIDE DEF m
<1>4. IsSeq(signal') /\ Len(signal') = m
  BY <1>1, <1>3, FunctionSeq
<1>5. ASSUME NEW i \in Nat \ {0}, NEW k, i + Guard <= fed
      PROVE  HeardIn(signal', cut, frames, i, k) = HeardIn(signal, cut, frames, i, k)
  <2>1. i \in 1..m /\ i <= fed /\ i + Guard <= m /\ i + Guard <= Len(signal) /\ i \in Int /\ m \in Int
        /\ fed \in Int /\ Len(signal) \in Int
    BY <1>2, <1>3, <1>5
  <2>2. Slices(i, fed, damage) = SlicesAt(signal, i)
    BY <1>5, <2>1, Whole, SlicesAreOf
  <2>3. signal'[i] = SlicesAt(signal, i)
    BY <1>1, <2>1, <2>2
  <2>4. SlicesAt(signal', i) = SlicesAt(signal, i)
    BY <2>3 DEF SlicesAt
  <2>5. SlicesOf(signal, i, Len(signal), cut) = SlicesAt(signal, i)
    BY <2>1, Whole
  <2>6. SlicesOf(signal', i, m, cut) = SlicesAt(signal', i)
    BY <2>1, Whole
  <2> QED BY <1>4, <2>4, <2>5, <2>6 DEF HeardIn
<1>6. /\ Turn(signal, cut, frames, base) /\ IsSeq(frames)
      /\ \A k \in 1..Len(frames) : frames[k].at + Guard <= fed
      /\ \A i \in BehindIn(frames, Len(frames))..base : i + Guard <= fed
  BY <1>2 DEF Demod, Lists
<1>7. Turn(signal', cut, frames, base)
  BY <1>3, <1>5, <1>6, TurnKept
<1> QED BY <1>2, <1>3, <1>4, <1>7 DEF Demod

LEMMA DemodStart == Init => Demod
<1> SUFFICES ASSUME Init PROVE Demod
  OBVIOUS
<1>1. /\ signal \in Signals /\ fed = 0 /\ base = 0 /\ order = <<>> /\ frames = <<>>
  BY DEF Init, DemodInit
<1>2. IsSeq(signal)
  BY <1>1, SignalsAreSequences DEF IsSeq
<1>3. Guard \in Nat /\ Len(signal) \in Nat
  BY <1>2, SampleCounts DEF IsSeq
<1> QED BY <1>1, <1>2, <1>3, Empty DEF Demod

\* The rest of the signal, with a new demodulator.
LEMMA RebindStep ==
  ASSUME Demod, Rebind
  PROVE  Demod'
<1>1. /\ signal' = SubSeq(signal, fed + 1, Len(signal)) /\ fed' = 0 /\ base' = 0
      /\ order' = <<>> /\ frames' = <<>>
  BY DEF Rebind
<1>2. IsSeq(signal) /\ fed + 1 \in 1..Len(signal) + 1
  BY DEF Demod, IsSeq
<1>3. IsSeq(signal')
  BY <1>1, <1>2, SubSeqed
<1>4. Guard \in Nat /\ Len(signal') \in Nat
  BY <1>3, SampleCounts DEF IsSeq
<1> QED BY <1>1, <1>3, <1>4, Empty DEF Demod

LEMMA DemodStep == Demod /\ [Next]_vars => Demod'
<1> SUFFICES ASSUME Demod, [Next]_vars PROVE Demod'
  OBVIOUS
<1>1. ASSUME NEW n \in ChunkSizes, WorkerFeeds(n) PROVE Demod'
  BY <1>1, FeedStep DEF WorkerFeeds
<1>2. CASE WorkerEnds
  BY <1>2, FlushStep DEF WorkerEnds
<1>3. CASE Rebind
  BY <1>3, RebindStep
<1>4. CASE UNCHANGED demodVars
  BY <1>4 DEF demodVars, Demod
<1>5. ASSUME NEW n \in Gaps, WorkerMisses(n) PROVE Demod'
  BY <1>5, LoseStep DEF WorkerMisses
<1>6. ASSUME NEW n \in Delays, WorkerLags(n) PROVE Demod'
  BY <1>4, <1>6 DEF WorkerLags
<1>7. ASSUME NEW i \in DOMAIN detached, DetachedFolds(i) PROVE Demod'
  BY <1>4, <1>7 DEF DetachedFolds
<1>8. WorkerFolds \/ WorkerPrunes \/ Receive \/ Tick \/ TimePasses => UNCHANGED demodVars
  BY DEF WorkerFolds, WorkerPrunes, Receive, Tick, TimePasses
<1>9. UNCHANGED vars => UNCHANGED demodVars
  BY DEF vars
<1> QED BY <1>1, <1>2, <1>3, <1>4, <1>5, <1>6, <1>7, <1>8, <1>9 DEF Next

LEMMA Demodulates == Spec => []Demod
<1> QED BY DemodStart, DemodStep, PTL DEF Spec

\* What is known and heard of the frames, with the frames left out.
LEMMA KnownIsIn ==
  /\ \A n : KnownAfter(n) = KnownIn(frames, n)
  /\ \A i, n : Heard(i, n) = HeardIn(signal, cut, frames, i, n)
<1>1. \A n : Noted(n) = NotedIn(frames, n)
  BY DEF Noted, NotedIn, Proof, Seeds
<1>2. \A n : KnownAfter(n) = KnownIn(frames, n)
  BY <1>1 DEF KnownAfter, KnownIn, Since
<1> QED BY <1>2, SlicesAreOf DEF Heard, HeardIn

\* However the samples are cut into chunks and wherever there are gaps between
\* them, behind each frame the next is the first acceptable one, and none has
\* been passed over.
THEOREM FramesInTurn == Spec => []HeardInTurn
<1>1. Demod => HeardInTurn
  <2> SUFFICES ASSUME Demod PROVE HeardInTurn
    OBVIOUS
  <2>1. Turn(signal, cut, frames, base) /\ DOMAIN frames = 1..Len(frames)
    BY DEF Demod, Lists, IsSeq
  <2>2. \A n : Behind(n) = BehindIn(frames, n)
    BY DEF Behind, BehindIn
  <2> QED BY <2>1, <2>2, KnownIsIn DEF HeardInTurn, Turn, InTurn
<1> QED BY <1>1, Demodulates, PTL

\* No frame is emitted whose address neither its own parity nor an earlier
\* frame vouches for, one that the roster has not lost since.
THEOREM AddressesProved == Spec => []NothingInvented
<1>1. Demod => NothingInvented
  <2> SUFFICES ASSUME Demod, NEW k \in DOMAIN frames
               PROVE  \/ frames[k].slice.df \in InTheClear
                      \/ frames[k].slice.df = "allcall" /\ frames[k].slice.damage = "none"
                      \/ frames[k].slice.icao \in KnownAfter(k - 1)
    BY DEF NothingInvented
  <2> DEFINE slices == SlicesOf(signal, frames[k].at, Len(signal), cut)
             known == KnownIn(frames, k - 1)
             best == Best(slices, known)
             s == slices[best]
  <2>1. InTurn(signal, cut, frames, k)
    BY DEF Demod, Lists, IsSeq, Turn
  <2>2. (IF best = 0 THEN {} ELSE {s}) = {frames[k].slice}
    BY <2>1 DEF InTurn, HeardIn
  <2>3. best # 0 /\ s = frames[k].slice
    BY <2>2
  <2> HIDE DEF slices, known
  <2>4. Score(s, s.icao \in known) > 0
    BY <2>3, Accepted
  <2> HIDE DEF s
  <2>5. \/ s.df \in InTheClear
        \/ s.df = "allcall" /\ s.damage = "none"
        \/ s.icao \in known
    BY <2>4, Vouched
  <2> QED BY <2>3, <2>5, KnownIsIn DEF known
<1> QED BY <1>1, Demodulates, PTL

-----------------------------------------------------------------------------
(* Where an aircraft was when it sent what its track holds. *)

IsSlice(x) ==
    /\ x = [df |-> x.df, icao |-> x.icao, damage |-> x.damage, squitter |-> x.squitter]
    /\ x.icao \in Icao
    /\ x.squitter.kind \in {"ident", "velocity", "position"}
    /\ x.squitter.place \in Int

\* A slice of an aircraft, sent by then.
SentBy(x, now) == IsSlice(x) /\ x.squitter.place <= now

\* A half that was decoded within the margin.
InTime(h) ==
    /\ h.place \in Int /\ h.time \in Int
    /\ h.place <= h.time /\ h.time <= h.place + Margin

IsTrack(t) ==
    t = [ident |-> t.ident, place |-> t.place, alt |-> t.alt, vel |-> t.vel,
         seen |-> t.seen, messages |-> t.messages, even |-> t.even, odd |-> t.odd]
IsContact(c) ==
    c = [ident |-> c.ident, place |-> c.place, alt |-> c.alt, vel |-> c.vel,
         messages |-> c.messages, age |-> c.age]

Placed(t) ==
    /\ t.place # Elsewhere
    /\ t.even # NoHalf => InTime(t.even)
    /\ t.odd # NoHalf => InTime(t.odd)

\* The tracks of a worker, but for the aircraft of which a half came late.
TracksSound(known, gone) ==
    /\ known = [a \in Icao |-> known[a]]
    /\ \A a \in Icao : known[a] # NoTrack => IsTrack(known[a])
    /\ \A a \in Icao \ gone : known[a] # NoTrack => Placed(known[a])

\* A detached worker's frames and tracks.
OldSound(old, now, gone) ==
    /\ old = [left |-> old.left, tracks |-> old.tracks]
    /\ IsSeq(old.left)
    /\ \A k \in 1..Len(old.left) : SentBy(old.left[k].slice, now)
    /\ TracksSound(old.tracks, gone)

\* When sample i of the rest of the signal was sent, seen from what has come.
By(i) == IF i <= fed THEN air ELSE air + (i - fed)

SignalOK ==
    \A i \in 1..Len(signal) : \A k \in DOMAIN signal[i] : SentBy(signal[i][k], By(i))
ClockOK == clock \in Nat /\ air \in Nat /\ air <= clock
FoldsOK == folded \in Nat /\ folded <= Len(frames)
TracksOK == TracksSound(tracks, late)
DetachedOK ==
    /\ IsSeq(detached)
    /\ \A i \in 1..Len(detached) : OldSound(detached[i], clock, late)
RingOK ==
    /\ IsSeq(telemetry)
    /\ \A i \in 1..Len(telemetry) : telemetry[i].icao \in Icao
    /\ \A i \in 1..Len(telemetry) :
          telemetry[i].icao \notin late => telemetry[i].place # Elsewhere
ContactsOK ==
    /\ contacts = [a \in Icao |-> contacts[a]]
    /\ \A a \in Icao : contacts[a] # NoContact => IsContact(contacts[a])
    /\ \A a \in Icao \ late : contacts[a] # NoContact => contacts[a].place # Elsewhere

Ghostless ==
    SignalOK /\ ClockOK /\ FoldsOK /\ TracksOK /\ DetachedOK /\ RingOK /\ ContactsOK

\* What is emitted before the flush was received, and sent by now.
LEMMA FrameIsReceived ==
  ASSUME Demod, SignalOK, ClockOK, ~flushed, NEW n \in 1..Len(frames)
  PROVE  SentBy(frames[n].slice, clock)
<1> DEFINE i == frames[n].at
           slices == SlicesOf(signal, i, Len(signal), cut)
           best == Best(slices, KnownIn(frames, n - 1))
<1>1. /\ i + Guard <= fed /\ fed <= Len(signal) /\ Len(signal) \in Nat /\ fed \in Nat
      /\ DOMAIN signal = 1..Len(signal)
  BY DEF Demod, IsSeq
<1>2. /\ i \in Nat /\ i >= BehindIn(frames, n - 1)
      /\ HeardIn(signal, cut, frames, i, n - 1) = {frames[n].slice}
  BY DEF Demod, Turn, InTurn
<1>3. IsSeq(frames) /\ n - 1 \in 0..Len(frames)
  BY DEF Demod, Lists, IsSeq
<1>4. BehindIn(frames, n - 1) \in Nat /\ BehindIn(frames, n - 1) >= 1
  BY <1>3, BehindIsNat DEF Demod
<1>5. HeardIn(signal, cut, frames, i, n - 1) = IF best = 0 THEN {} ELSE {slices[best]}
  BY DEF HeardIn
<1> HIDE DEF i, best, slices
<1>6. best # 0 /\ frames[n].slice = slices[best]
  BY <1>2, <1>5
<1>7. best \in DOMAIN slices
  BY <1>6, Accepted DEF best
<1>8. i + Guard <= Len(signal) /\ i \in Int /\ Len(signal) \in Int /\ Guard \in Nat
  <2>1. Guard \in Nat
    BY SampleCounts
  <2> QED BY ONLY <1>1, <1>2, <2>1
<1>9. slices = SlicesAt(signal, i)
  BY <1>8, Whole DEF slices
<1>10. best \in DOMAIN signal[i] /\ frames[n].slice = signal[i][best]
  BY <1>6, <1>7, <1>9 DEF SlicesAt
<1>11. i \in 1..Len(signal) /\ i <= fed
  BY <1>1, <1>2, <1>4, <1>8
<1>12. SentBy(signal[i][best], air)
  BY <1>10, <1>11 DEF SignalOK, By
<1> QED BY <1>10, <1>12 DEF SentBy, IsSlice, ClockOK

\* What a squitter makes of a track.
LEMMA IngestedCases ==
  ASSUME NEW before, IsTrack(before), NEW squitter, NEW now,
         squitter.kind \in {"ident", "velocity", "position"},
         NEW after \in Ingested(before, squitter, now)
  PROVE  LET half == [place |-> squitter.place, time |-> now]
         IN  /\ IsTrack(after)
             /\ after.even \in {before.even, half} /\ after.odd \in {before.odd, half}
             /\ squitter.kind = "position"
                \/ (after.even = before.even /\ after.odd = before.odd)
             /\ \/ after.place = before.place
                \/ /\ after.even # NoHalf /\ after.odd # NoHalf
                   /\ Pairs(after.even, after.odd)
                   /\ after.place =
                         IF Within(after.odd.place, after.even.place, Reach)
                         THEN IF after.odd.time >= after.even.time THEN after.odd.place
                              ELSE after.even.place
                         ELSE Elsewhere
<1> DEFINE track == [before EXCEPT !.seen = now, !.messages = @ + 1]
           half == [place |-> squitter.place, time |-> now]
           valued == [track EXCEPT !.alt = Known(@, squitter.value)]
           halved == IF squitter.odd THEN [valued EXCEPT !.odd = half]
                     ELSE [valued EXCEPT !.even = half]
<1>1. /\ IsTrack(track) /\ track.place = before.place
      /\ track.even = before.even /\ track.odd = before.odd
  <2> DEFINE count == before.messages + 1
             first == [before EXCEPT !.seen = now]
  <2>1. track = [first EXCEPT !.messages = count]
    BY DEF IsTrack
  <2> HIDE DEF count
  <2>2. /\ IsTrack(first) /\ first.place = before.place
        /\ first.even = before.even /\ first.odd = before.odd
    BY DEF IsTrack
  <2> HIDE DEF first, track
  <2> QED BY <2>1, <2>2 DEF IsTrack
<1>2. CASE squitter.kind = "ident"
  <2>1. after = [track EXCEPT !.ident = squitter.value]
    BY <1>2 DEF Ingested
  <2> HIDE DEF track
  <2> QED BY <1>1, <2>1 DEF IsTrack
<1>3. CASE squitter.kind = "velocity"
  <2>1. after = [track EXCEPT !.vel = Known(@, squitter.value)]
    BY <1>3 DEF Ingested
  <2> HIDE DEF track
  <2> QED BY <1>1, <2>1 DEF IsTrack
<1>4. CASE squitter.kind = "position"
  <2>1. after \in IF NoHalf \in {halved.even, halved.odd} \/ ~Pairs(halved.even, halved.odd)
                  THEN {halved}
                  ELSE {[halved EXCEPT !.place = p] : p \in Solutions(halved)}
    BY <1>4 DEF Ingested
  <2> HIDE DEF track
  <2>2. /\ IsTrack(valued) /\ valued.place = before.place
        /\ valued.even = before.even /\ valued.odd = before.odd
    BY <1>1 DEF IsTrack
  <2> HIDE DEF valued, half
  <2>3. /\ IsTrack(halved) /\ halved.place = before.place
        /\ halved.even \in {before.even, half} /\ halved.odd \in {before.odd, half}
    BY <2>2 DEF IsTrack
  <2> HIDE DEF halved
  <2>4. CASE after = halved
    BY <1>4, <2>3, <2>4 DEF half
  <2>5. CASE /\ NoHalf \notin {halved.even, halved.odd} /\ Pairs(halved.even, halved.odd)
             /\ \E p \in Solutions(halved) : after = [halved EXCEPT !.place = p]
    <3>1. PICK p \in Solutions(halved) : after = [halved EXCEPT !.place = p]
      BY <2>5
    <3>2. /\ IsTrack(after) /\ after.place = p
          /\ after.even = halved.even /\ after.odd = halved.odd
      BY <2>3, <3>1 DEF IsTrack
    <3>3. \/ p = halved.place
          \/ p = IF Within(halved.odd.place, halved.even.place, Reach)
                 THEN IF halved.odd.time >= halved.even.time THEN halved.odd.place
                      ELSE halved.even.place
                 ELSE Elsewhere
      BY DEF Solutions
    <3> QED BY <1>4, <2>3, <2>5, <3>2, <3>3 DEF half
  <2> QED BY <2>1, <2>4, <2>5
<1> QED BY <1>2, <1>3, <1>4

\* Halves decoded in time and within the window were sent within reach.
LEMMA PairedNear ==
  ASSUME NEW even, NEW odd, InTime(even), InTime(odd), Pairs(even, odd)
  PROVE  Within(odd.place, even.place, Reach) /\ odd.place \in Int /\ even.place \in Int
<1>1. /\ even.place \in Int /\ even.time \in Int /\ odd.place \in Int /\ odd.time \in Int
      /\ even.place <= even.time /\ even.time <= even.place + (Reach - PairWindow)
      /\ odd.place <= odd.time /\ odd.time <= odd.place + (Reach - PairWindow)
  BY DEF InTime, Margin
<1>2. PairWindow \in Nat /\ Reach \in Nat
  BY Windows
<1>3. even.time - odd.time \in -PairWindow..PairWindow
  BY DEF Pairs, Within
<1>4. odd.place - even.place \in -Reach..Reach
  BY ONLY <1>1, <1>2, <1>3
<1> QED BY <1>1, <1>4 DEF Within

\* Folding a squitter that came in time keeps the place right.
LEMMA FoldPlaces ==
  ASSUME NEW before, IsTrack(before), Placed(before), NEW squitter, NEW now \in Int,
         squitter.kind \in {"ident", "velocity", "position"},
         squitter.place \in Int, squitter.place <= now,
         squitter.kind = "position" => now - squitter.place <= Margin,
         NEW after \in Ingested(before, squitter, now)
  PROVE  Placed(after)
<1> DEFINE half == [place |-> squitter.place, time |-> now]
<1>1. /\ after.even \in {before.even, half} /\ after.odd \in {before.odd, half}
      /\ squitter.kind = "position"
         \/ (after.even = before.even /\ after.odd = before.odd)
      /\ \/ after.place = before.place
         \/ /\ after.even # NoHalf /\ after.odd # NoHalf
            /\ Pairs(after.even, after.odd)
            /\ after.place =
                  IF Within(after.odd.place, after.even.place, Reach)
                  THEN IF after.odd.time >= after.even.time THEN after.odd.place
                       ELSE after.even.place
                  ELSE Elsewhere
  BY IngestedCases
<1>2. squitter.kind = "position" => InTime(half)
  <2>1. half.place = squitter.place /\ half.time = now
    OBVIOUS
  <2>2. Margin \in Int
    BY Windows DEF Margin
  <2> HIDE DEF half
  <2> QED BY <2>1, <2>2 DEF InTime
<1> HIDE DEF half
<1>3. /\ after.even # NoHalf => InTime(after.even)
      /\ after.odd # NoHalf => InTime(after.odd)
  BY <1>1, <1>2 DEF Placed
<1>4. CASE after.place = before.place
  BY <1>3, <1>4 DEF Placed
<1>5. CASE /\ after.even # NoHalf /\ after.odd # NoHalf
           /\ Pairs(after.even, after.odd)
           /\ after.place =
                 IF Within(after.odd.place, after.even.place, Reach)
                 THEN IF after.odd.time >= after.even.time THEN after.odd.place
                      ELSE after.even.place
                 ELSE Elsewhere
  <2>1. /\ Within(after.odd.place, after.even.place, Reach)
        /\ after.odd.place \in Int /\ after.even.place \in Int
    BY <1>3, <1>5, PairedNear
  <2>2. after.place \in Int
    BY <1>5, <2>1
  <2> QED BY <1>3, <2>2, PlacesAreNumbers DEF Placed
<1> QED BY <1>1, <1>4, <1>5

LEMMA NewTrackSound == IsTrack(NewTrack) /\ Placed(NewTrack)
<1>1. IsTrack(NewTrack)
  BY DEF IsTrack, NewTrack
<1>2. NewTrack.place = NoData /\ NewTrack.even = NoHalf /\ NewTrack.odd = NoHalf
  BY DEF NewTrack
<1> QED BY <1>1, <1>2, PlacesAreNumbers DEF Placed

\* Folding a frame into the tracks of a worker, the current or a detached one.
LEMMA FoldSound ==
  ASSUME ClockOK, NEW known, NEW gone, TracksSound(known, gone),
         NEW slice, SentBy(slice, clock),
         NEW after \in Ingested(Track(known, slice.icao), slice.squitter, clock)
  PROVE  /\ TracksSound([known EXCEPT ![slice.icao] = after], gone \union Late(slice))
         /\ slice.icao \notin gone \union Late(slice) => after.place # Elsewhere
<1> DEFINE a == slice.icao
           before == Track(known, a)
           now == gone \union Late(slice)
           next == [known EXCEPT ![a] = after]
<1>1. /\ a \in Icao /\ clock \in Int
      /\ slice.squitter.kind \in {"ident", "velocity", "position"}
      /\ slice.squitter.place \in Int /\ slice.squitter.place <= clock
  BY DEF SentBy, IsSlice, ClockOK
<1>2. IsTrack(before) /\ (a \notin gone => Placed(before))
  BY <1>1, NewTrackSound DEF TracksSound, Track
<1>3. IsTrack(after)
  BY <1>1, <1>2, IngestedCases
<1>4. ASSUME a \notin now PROVE Placed(after)
  <2>1. a \notin gone /\ a \notin Late(slice)
    BY <1>4
  <2>2. slice.squitter.kind = "position" => ~(clock - slice.squitter.place > Margin)
    BY <2>1 DEF Late
  <2>3. Margin \in Int
    BY Windows DEF Margin
  <2>4. slice.squitter.kind = "position" => clock - slice.squitter.place <= Margin
    BY <1>1, <2>2, <2>3
  <2>5. Placed(before)
    BY <1>2, <2>1
  <2> HIDE DEF before
  <2> QED BY <1>1, <1>2, <2>4, <2>5, FoldPlaces DEF before
<1>5. \A b \in Icao : next[b] = IF b = a THEN after ELSE known[b]
  BY <1>1 DEF TracksSound
<1>6. next = [b \in Icao |-> next[b]]
  BY DEF TracksSound
<1> HIDE DEF next, before, now, a
<1>7. \A b \in Icao \ now : b \in Icao \ gone
  BY DEF now
<1>8. TracksSound(next, now)
  BY <1>3, <1>4, <1>5, <1>6, <1>7 DEF TracksSound
<1>9. a \notin now => after.place # Elsewhere
  BY <1>4 DEF Placed
<1> QED BY <1>8, <1>9 DEF next, now, a

\* What a contact shows after a report.
LEMMA ShownCases ==
  ASSUME NEW contact, NEW report
  PROVE  LET c == Shown(contact, report)
         IN  /\ IsContact(c) /\ c.place \in {contact.place, report.place}
             /\ \A f \in Reportable :
                   \/ report[f] \in {NoData, c[f]}
                   \/ f = "ident" /\ report[f] = ""
<1> DEFINE c == Shown(contact, report)
           messages == IF report.messages > contact.messages THEN report.messages
                       ELSE contact.messages
<1>1. c = [ident |-> IF report.ident \in {NoData, ""} THEN contact.ident ELSE report.ident,
           place |-> Known(contact.place, report.place),
           alt |-> Known(contact.alt, report.alt),
           vel |-> Known(contact.vel, report.vel),
           messages |-> messages, age |-> 0]
  BY DEF Shown
<1> HIDE DEF messages, c
<1>2. /\ c.ident = IF report.ident \in {NoData, ""} THEN contact.ident ELSE report.ident
      /\ c.place = Known(contact.place, report.place)
      /\ c.alt = Known(contact.alt, report.alt)
      /\ c.vel = Known(contact.vel, report.vel)
  BY <1>1
<1>3. IsContact(c)
  BY <1>1 DEF IsContact
<1>4. c.place \in {contact.place, report.place}
  BY <1>2 DEF Known
<1>5. ASSUME NEW f \in Reportable
      PROVE  report[f] \in {NoData, c[f]} \/ (f = "ident" /\ report[f] = "")
  BY <1>2 DEF Known, Reportable
<1> QED BY <1>3, <1>4, <1>5 DEF c

\* Ageing drops a contact or leaves what it shows.
LEMMA OlderCases ==
  ASSUME NEW contact, contact # NoContact => IsContact(contact), NEW n
  PROVE  LET c == Older(contact, n)
         IN  \/ contact = NoContact /\ c = NoContact
             \/ /\ contact # NoContact /\ IsContact(c)
                /\ \A f \in Reportable : c[f] = contact[f]
<1>1. CASE contact = NoContact
  BY <1>1 DEF Older
<1>2. CASE contact # NoContact
  <2> DEFINE age == IF contact.age > ClientTtl THEN contact.age ELSE contact.age + n
  <2>1. Older(contact, n) = [contact EXCEPT !.age = age]
    BY <1>2 DEF Older
  <2> HIDE DEF age
  <2> QED BY <1>2, <2>1 DEF IsContact, Reportable
<1> QED BY <1>1, <1>2

\* The ring: the new report is the last, and one may have been overwritten.
LEMMA Pushed ==
  ASSUME IsSeq(telemetry), NEW report, Push(report)
  PROVE  /\ IsSeq(telemetry') /\ Len(telemetry') >= 1 /\ Len(telemetry') \in Nat
         /\ telemetry'[Len(telemetry')] = report
         /\ \/ /\ Len(telemetry') = Len(telemetry) + 1
               /\ \A i \in 1..Len(telemetry) : telemetry'[i] = telemetry[i]
            \/ /\ Len(telemetry') = Len(telemetry)
               /\ \A i \in 1..Len(telemetry) - 1 : telemetry'[i] = telemetry[i + 1]
               /\ Overwritten(report) = {telemetry[1].icao}
<1> DEFINE all == Append(telemetry, report)
<1>1. /\ telemetry' = IF Len(telemetry) < Ring THEN all ELSE Tail(all)
      /\ Overwritten(report) = IF Len(telemetry) < Ring THEN {} ELSE {Head(all).icao}
  BY DEF Push, Overwritten
<1>2. /\ IsSeq(all) /\ Len(all) = Len(telemetry) + 1 /\ Len(telemetry) \in Nat
      /\ \A i \in 1..Len(telemetry) : all[i] = telemetry[i]
      /\ all[Len(telemetry) + 1] = report
  BY Appended DEF IsSeq
<1> HIDE DEF all
<1>3. CASE ~(Len(telemetry) < Ring)
  <2>1. Len(telemetry) >= 1 /\ Len(all) > 0
    BY <1>2, <1>3, Periods
  <2>2. /\ IsSeq(Tail(all)) /\ Len(Tail(all)) = Len(all) - 1
        /\ \A i \in 1..Len(all) - 1 : Tail(all)[i] = all[i + 1]
    BY <1>2, <2>1, Tailed
  <2>3. Head(all) = all[1]
    <3> DEFINE S == {all[i] : i \in 1..Len(all)}
    <3>1. all \in Seq(S) /\ all # <<>>
      BY <1>2, <2>1, SeqOfItems
    <3> HIDE DEF S
    <3> QED BY <3>1, HeadTailProperties
  <2>4. telemetry' = Tail(all) /\ Overwritten(report) = {telemetry[1].icao}
    BY <1>1, <1>2, <1>3, <2>1, <2>3
  <2>5. Len(telemetry') = Len(telemetry) /\ \A i \in 1..Len(telemetry) : telemetry'[i] = all[i + 1]
    BY <1>2, <2>2, <2>4
  <2>6. \A i \in 1..Len(telemetry) - 1 : telemetry'[i] = telemetry[i + 1]
    BY <1>2, <2>5
  <2>7. telemetry'[Len(telemetry')] = report
    BY <1>2, <2>1, <2>5
  <2>8. IsSeq(telemetry') /\ Len(telemetry') >= 1 /\ Len(telemetry') \in Nat
    BY <1>2, <2>1, <2>2, <2>4, <2>5
  <2> QED BY <2>4, <2>5, <2>6, <2>7, <2>8
<1>4. CASE Len(telemetry) < Ring
  BY <1>1, <1>2, <1>4
<1> QED BY <1>3, <1>4

LEMMA PushKeeps ==
  ASSUME RingOK, NEW report, Push(report), late \subseteq late',
         report.icao \in Icao, report.icao \notin late' => report.place # Elsewhere
  PROVE  RingOK'
<1>1. /\ IsSeq(telemetry') /\ Len(telemetry') \in Nat
      /\ telemetry'[Len(telemetry')] = report
      /\ \/ /\ Len(telemetry') = Len(telemetry) + 1
            /\ \A i \in 1..Len(telemetry) : telemetry'[i] = telemetry[i]
         \/ /\ Len(telemetry') = Len(telemetry)
            /\ \A i \in 1..Len(telemetry) - 1 : telemetry'[i] = telemetry[i + 1]
  BY Pushed DEF RingOK
<1>2. Len(telemetry) \in Nat
  BY DEF RingOK, IsSeq
<1>3. ASSUME NEW i \in 1..Len(telemetry')
      PROVE  telemetry'[i] = report \/ \E j \in 1..Len(telemetry) : telemetry'[i] = telemetry[j]
  <2>1. CASE i = Len(telemetry')
    BY <1>1, <2>1
  <2>2. CASE i # Len(telemetry') /\ Len(telemetry') = Len(telemetry) + 1
    <3>1. i \in 1..Len(telemetry)
      BY <1>2, <2>2
    <3> QED BY <1>1, <1>2, <2>2, <3>1
  <2>3. CASE i # Len(telemetry') /\ Len(telemetry') = Len(telemetry)
    <3>1. i \in 1..Len(telemetry) - 1 /\ i + 1 \in 1..Len(telemetry)
      BY <1>2, <2>3
    <3>2. telemetry'[i] = telemetry[i + 1]
      BY <1>1, <1>2, <2>3, <3>1
    <3> QED BY <3>1, <3>2
  <2> QED BY <1>1, <2>1, <2>2, <2>3
<1>4. ASSUME NEW i \in 1..Len(telemetry')
      PROVE  /\ telemetry'[i].icao \in Icao
             /\ telemetry'[i].icao \notin late' => telemetry'[i].place # Elsewhere
  <2>1. CASE telemetry'[i] = report
    BY <2>1
  <2>2. ASSUME NEW j \in 1..Len(telemetry), telemetry'[i] = telemetry[j]
        PROVE  /\ telemetry'[i].icao \in Icao
               /\ telemetry'[i].icao \notin late' => telemetry'[i].place # Elsewhere
    BY <2>2 DEF RingOK
  <2> QED BY <1>3, <2>1, <2>2
<1> QED BY <1>1, <1>4 DEF RingOK

\* Time passes, and what came late stays late.
LEMMA LaterKeeps ==
  ASSUME ClockOK, clock' \in Nat, clock <= clock', late \subseteq late'
  PROVE  /\ TracksOK /\ UNCHANGED tracks => TracksOK'
         /\ DetachedOK /\ UNCHANGED detached => DetachedOK'
         /\ RingOK /\ UNCHANGED telemetry => RingOK'
         /\ ContactsOK /\ UNCHANGED contacts => ContactsOK'
<1>1. \A known : TracksSound(known, late) => TracksSound(known, late')
  BY DEF TracksSound
<1>2. \A x : SentBy(x, clock) => SentBy(x, clock')
  BY DEF ClockOK, SentBy, IsSlice
<1>3. \A old : OldSound(old, clock, late) => OldSound(old, clock', late')
  BY <1>1, <1>2 DEF OldSound
<1>4. DetachedOK /\ UNCHANGED detached => DetachedOK'
  BY <1>3 DEF DetachedOK
<1>5. RingOK /\ UNCHANGED telemetry => RingOK'
  BY DEF RingOK
<1>6. ContactsOK /\ UNCHANGED contacts => ContactsOK'
  BY DEF ContactsOK
<1> QED BY <1>1, <1>4, <1>5, <1>6 DEF TracksOK

LEMMA AgeingKeeps ==
  ASSUME ContactsOK, NEW n, Ageing(n), late' = late
  PROVE  ContactsOK'
<1>1. contacts' = [a \in Icao |-> Older(contacts[a], n)]
  BY DEF Ageing
<1>2. ASSUME NEW a \in Icao, contacts'[a] # NoContact
      PROVE  /\ IsContact(contacts'[a])
             /\ a \notin late' => contacts'[a].place # Elsewhere
  <2>1. contacts'[a] = Older(contacts[a], n)
    BY <1>1
  <2>2. /\ contacts[a] # NoContact => IsContact(contacts[a])
        /\ (a \notin late /\ contacts[a] # NoContact) => contacts[a].place # Elsewhere
    BY DEF ContactsOK
  <2>3. "place" \in Reportable
    BY DEF Reportable
  <2> HIDE DEF ContactsOK
  <2> QED BY <1>2, <2>1, <2>2, <2>3, OlderCases
<1> QED BY <1>1, <1>2 DEF ContactsOK

\* A chunk or a gap: the samples that count as sent are those that have come.
LEMMA SentKeeps ==
  ASSUME ClockOK, NEW n \in Nat, Sent(n)
  PROVE  /\ ClockOK' /\ clock <= clock' /\ air' = air + n /\ air' \in Nat
         /\ \E m : Ageing(m)
<1>1. air' = air + n /\ clock' = clock + (Larger(clock, air') - clock)
  BY DEF Sent, Passes
<1>2. clock \in Nat /\ air \in Nat /\ air <= clock /\ air' \in Nat
  BY <1>1 DEF ClockOK
<1>3. Larger(clock, air') \in Nat /\ clock <= Larger(clock, air') /\ air' <= Larger(clock, air')
  BY <1>2 DEF Larger
<1>4. clock' = Larger(clock, air')
  BY <1>1, <1>2, <1>3
<1>5. \E m : Ageing(m)
  BY DEF Sent, Passes
<1> QED BY <1>1, <1>2, <1>3, <1>4, <1>5 DEF ClockOK

LEMMA FeedKeepsSignal ==
  ASSUME Demod, SignalOK, ClockOK, NEW n \in Nat, Feed(n), air' = air + n
  PROVE  SignalOK'
<1>1. signal' = signal /\ fed' = fed + n /\ fed \in Nat /\ Len(signal) \in Nat
  BY DEF Feed, Demod, IsSeq
<1>2. air \in Nat
  BY DEF ClockOK
<1>3. ASSUME NEW i \in 1..Len(signal) PROVE By(i) \in Int /\ By(i)' \in Int /\ By(i) <= By(i)'
  <2>1. i \in Int
    BY <1>1
  <2>2. By(i) = IF i <= fed THEN air ELSE air + (i - fed)
    BY DEF By
  <2>3. By(i)' = IF i <= fed + n THEN air + n ELSE (air + n) + (i - (fed + n))
    BY <1>1 DEF By
  <2> QED BY <1>1, <1>2, <2>1, <2>2, <2>3
<1>4. ASSUME NEW i \in 1..Len(signal), NEW k \in DOMAIN signal[i]
      PROVE  SentBy(signal[i][k], By(i)')
  <2>1. SentBy(signal[i][k], By(i))
    BY DEF SignalOK
  <2>2. By(i) \in Int /\ By(i)' \in Int /\ By(i) <= By(i)'
    BY <1>3
  <2> QED BY <2>1, <2>2 DEF SentBy, IsSlice
<1> QED BY <1>1, <1>4 DEF SignalOK

LEMMA LoseKeepsSignal ==
  ASSUME Demod, SignalOK, ClockOK, NEW n \in Nat, Lose(n), air' = air + n
  PROVE  SignalOK'
<1> DEFINE m == Len(signal) - n
<1>1. PICK damage \in {"none", "single", "more"} :
         signal' = [i \in 1..m |-> IF i <= fed THEN Slices(i, fed, damage) ELSE signal[i + n]]
  BY DEF Lose
<1>2. fed + n <= Len(signal) /\ fed' = fed /\ fed \in Nat /\ Len(signal) \in Nat /\ air \in Nat
  BY DEF Lose, Demod, IsSeq, ClockOK
<1>3. m \in Nat /\ m + n = Len(signal)
  BY <1>2
<1> HIDE DEF m
<1>4. Len(signal') = m
  BY <1>1, <1>3, FunctionSeq
<1>5. ASSUME NEW i \in 1..m, NEW k \in DOMAIN signal'[i]
      PROVE  SentBy(signal'[i][k], By(i)')
  <2>1. i \in Int /\ i \in 1..Len(signal) /\ i + n \in 1..Len(signal)
    BY <1>2, <1>3
  <2>2. CASE i <= fed
    <3>1. By(i) = air /\ By(i)' = air + n
      BY <1>2, <2>2 DEF By
    <3>2. signal'[i] = Slices(i, fed, damage)
      BY <1>1, <2>2
    <3> DEFINE x == signal[i][k]
               y == signal'[i][k]
    <3>3. k \in DOMAIN signal[i] /\ y \in {x, [x EXCEPT !.damage = damage]}
      BY <3>2 DEF Slices
    <3>4. IsSlice(x) /\ x.squitter.place <= air
      BY <2>1, <3>1, <3>3 DEF SignalOK, SentBy
    <3> HIDE DEF x, y
    <3>5. IsSlice(y) /\ y.squitter = x.squitter
      <4>1. CASE y = x
        BY <3>4, <4>1
      <4>2. CASE y = [x EXCEPT !.damage = damage]
        <5>1. x = [df |-> x.df, icao |-> x.icao, damage |-> x.damage, squitter |-> x.squitter]
          BY <3>4 DEF IsSlice
        <5>2. y = [df |-> x.df, icao |-> x.icao, damage |-> damage, squitter |-> x.squitter]
          BY <4>2, <5>1
        <5> QED BY <3>4, <5>2 DEF IsSlice
      <4> QED BY <3>3, <4>1, <4>2
    <3>6. x.squitter.place \in Int
      BY <3>4 DEF IsSlice
    <3>7. y.squitter.place <= air + n
      BY <1>2, <3>4, <3>5, <3>6
    <3> QED BY <3>1, <3>5, <3>7 DEF SentBy, y
  <2>3. CASE ~(i <= fed)
    <3>1. ~(i + n <= fed) /\ air + ((i + n) - fed) = (air + n) + (i - fed)
      BY <1>2, <2>1, <2>3
    <3>2. By(i + n) = By(i)'
      BY <1>2, <2>3, <3>1 DEF By
    <3>3. signal'[i] = signal[i + n]
      BY <1>1, <2>3
    <3> QED BY <2>1, <3>2, <3>3 DEF SignalOK
  <2> QED BY <2>2, <2>3
<1> QED BY <1>4, <1>5 DEF SignalOK

LEMMA GhostlessStart == Init => Ghostless
<1> SUFFICES ASSUME Init PROVE Ghostless
  OBVIOUS
<1>1. /\ signal \in Signals /\ fed = 0 /\ frames = <<>> /\ folded = 0 /\ telemetry = <<>>
      /\ clock = 0 /\ air = 0 /\ detached = <<>>
      /\ tracks = [a \in Icao |-> NoTrack] /\ contacts = [a \in Icao |-> NoContact]
  BY DEF Init, DemodInit
<1>2. SignalOK
  <2>1. Len(signal) \in Nat /\ DOMAIN signal = 1..Len(signal)
    BY <1>1, SignalsAreSequences
  <2>2. ASSUME NEW i \in 1..Len(signal), NEW k \in DOMAIN signal[i]
        PROVE  SentBy(signal[i][k], By(i))
    <3> DEFINE x == signal[i][k]
    <3>1. /\ x = [df |-> x.df, icao |-> x.icao, damage |-> x.damage, squitter |-> x.squitter]
          /\ x.icao \in Icao
          /\ x.squitter.kind \in {"ident", "velocity", "position"}
          /\ x.squitter.place = i
      BY <1>1, <2>1, SignalsOfAircraft
    <3>2. By(i) = i /\ i \in Int
      BY <1>1 DEF By
    <3> HIDE DEF x
    <3> QED BY <3>1, <3>2 DEF SentBy, IsSlice, x
  <2> QED BY <2>2 DEF SignalOK
<1>3. IsSeq(<<>>) /\ Len(<<>>) = 0
  BY Empty DEF Lists
<1>4. ClockOK /\ FoldsOK /\ RingOK /\ DetachedOK
  BY <1>1, <1>3 DEF ClockOK, FoldsOK, RingOK, DetachedOK
<1>5. TracksOK /\ ContactsOK
  BY <1>1 DEF TracksOK, TracksSound, ContactsOK
<1> QED BY <1>2, <1>4, <1>5 DEF Ghostless

LEMMA FoldKeeps ==
  ASSUME Demod, Ghostless, WorkerFolds
  PROVE  FoldsOK' /\ TracksOK' /\ RingOK' /\ late \subseteq late'
<1> DEFINE slice == frames[folded + 1].slice
           a == slice.icao
           before == Track(tracks, a)
<1>0. SignalOK /\ ClockOK /\ FoldsOK /\ TracksOK /\ RingOK
  BY DEF Ghostless
<1>1. Folding /\ ~flushed /\ folded' = folded + 1 /\ UNCHANGED demodVars
  BY DEF WorkerFolds
<1>2. Len(frames) \in Nat /\ folded + 1 \in 1..Len(frames)
  <2>1. Len(frames) \in Nat
    BY DEF Demod, Lists, IsSeq
  <2> QED BY <1>0, <1>1, <2>1 DEF FoldsOK, Folding
<1>3. FoldsOK'
  BY <1>0, <1>1, <1>2 DEF FoldsOK, demodVars
<1>4. CASE slice.df \notin Squitters
  <2>1. UNCHANGED <<tracks, telemetry, late>>
    BY <1>1, <1>4 DEF WorkerFolds, ringVars
  <2> QED BY <1>0, <1>3, <2>1 DEF TracksOK, RingOK
<1>5. CASE slice.df \in Squitters
  <2>1. late' = late \union Late(slice)
    BY <1>5 DEF WorkerFolds
  <2>2. PICK after \in Ingested(before, slice.squitter, clock) :
           /\ tracks' = [tracks EXCEPT ![a] = after]
           /\ IF ReportableChange(before, after)
              THEN Publish(Report(a, after))
              ELSE UNCHANGED ringVars
    BY <1>5 DEF WorkerFolds
  <2>3. SentBy(slice, clock)
    BY <1>0, <1>1, <1>2, FrameIsReceived
  <2> HIDE DEF slice
  <2>4. /\ TracksSound(tracks', late')
        /\ a \notin late' => after.place # Elsewhere
    BY <1>0, <2>1, <2>2, <2>3, FoldSound DEF TracksOK
  <2>5. TracksOK'
    BY <2>4 DEF TracksOK
  <2>6. RingOK'
    <3>1. CASE UNCHANGED ringVars
      BY <1>0, <2>1, <3>1 DEF RingOK, ringVars
    <3>2. CASE Publish(Report(a, after))
      <4> DEFINE report == Report(a, after)
      <4>1. report.icao = a /\ report.place = after.place /\ Push(report)
        BY <3>2 DEF Report, Publish
      <4>2. a \in Icao
        BY <2>3 DEF SentBy, IsSlice
      <4> HIDE DEF report, a
      <4> QED BY <1>0, <2>1, <2>4, <4>1, <4>2, PushKeeps
    <3> QED BY <2>2, <3>1, <3>2
  <2> QED BY <1>3, <2>1, <2>5, <2>6
<1> QED BY <1>4, <1>5

LEMMA DetachedKeeps ==
  ASSUME Ghostless, NEW i \in DOMAIN detached, DetachedFolds(i)
  PROVE  DetachedOK' /\ RingOK' /\ late \subseteq late'
<1> DEFINE old == detached[i]
           slice == Head(old.left).slice
           a == slice.icao
           before == Track(old.tracks, a)
<1>0. ClockOK /\ DetachedOK /\ RingOK /\ clock' = clock
  BY DEF Ghostless, DetachedFolds
<1>1. i \in 1..Len(detached) /\ Len(detached) \in Nat
      /\ detached = [j \in 1..Len(detached) |-> detached[j]] /\ OldSound(old, clock, late)
  BY <1>0 DEF DetachedOK, IsSeq
<1>2. old.left # <<>>
  BY DEF DetachedFolds
<1>3. /\ IsSeq(old.left) /\ TracksSound(old.tracks, late)
      /\ \A k \in 1..Len(old.left) : SentBy(old.left[k].slice, clock)
      /\ old = [left |-> old.left, tracks |-> old.tracks]
  BY <1>1 DEF OldSound
<1> HIDE DEF old
<1>4. Len(old.left) > 0 /\ Head(old.left) = old.left[1] /\ Len(old.left) \in Nat
  <2> DEFINE S == {old.left[k] : k \in 1..Len(old.left)}
  <2>1. old.left \in Seq(S)
    BY <1>3, SeqOfItems
  <2> HIDE DEF S
  <2> QED BY <1>2, <2>1, HeadTailProperties, EmptySeq
<1>5. /\ IsSeq(Tail(old.left)) /\ Len(Tail(old.left)) = Len(old.left) - 1
      /\ \A k \in 1..Len(old.left) - 1 : Tail(old.left)[k] = old.left[k + 1]
  BY <1>3, <1>4, Tailed
<1>6. \A k \in 1..Len(Tail(old.left)) : SentBy(Tail(old.left)[k].slice, clock)
  BY <1>3, <1>4, <1>5
<1>7. SentBy(slice, clock)
  BY <1>3, <1>4
<1>8. ASSUME NEW new, OldSound(new, clock, late'), late \subseteq late',
             detached' = [detached EXCEPT ![i] = new]
      PROVE  DetachedOK'
  <2>1. \A j \in 1..Len(detached) : OldSound(detached[j], clock, late')
    BY <1>0, <1>8 DEF DetachedOK, OldSound, TracksSound
  <2>2. /\ detached' = [j \in 1..Len(detached) |-> detached'[j]]
        /\ \A j \in 1..Len(detached) : detached'[j] \in {new, detached[j]}
    BY <1>1, <1>8
  <2>3. IsSeq(detached') /\ Len(detached') = Len(detached)
    BY <1>1, <2>2, FunctionSeq
  <2>4. \A j \in 1..Len(detached') : OldSound(detached'[j], clock, late')
    BY <1>8, <2>1, <2>2, <2>3
  <2> QED BY <1>0, <2>3, <2>4 DEF DetachedOK
<1>9. CASE slice.df \notin Squitters
  <2>1. /\ detached' = [detached EXCEPT ![i].left = Tail(old.left)]
        /\ UNCHANGED <<telemetry, late>>
    BY <1>9 DEF DetachedFolds, ringVars, old
  <2> DEFINE new == [left |-> Tail(old.left), tracks |-> old.tracks]
  <2>2. detached' = [detached EXCEPT ![i] = new]
    <3>1. [old EXCEPT !.left = Tail(old.left)] = new
      <4>1. PICK l, t : old = [left |-> l, tracks |-> t]
        BY <1>3
      <4>2. old.left = l /\ old.tracks = t
        BY <4>1
      <4> DEFINE rest == Tail(old.left)
      <4>3. new = [left |-> rest, tracks |-> t]
        BY <4>2
      <4> HIDE DEF rest, new
      <4>4. [old EXCEPT !.left = rest] = new
        BY ONLY <4>1, <4>3
      <4> QED BY <4>4 DEF rest
    <3>2. detached' = [detached EXCEPT ![i] = [old EXCEPT !.left = Tail(old.left)]]
      BY <2>1 DEF old
    <3> QED BY <3>1, <3>2
  <2>3. new.left = Tail(old.left) /\ new.tracks = old.tracks
        /\ new = [left |-> new.left, tracks |-> new.tracks]
    OBVIOUS
  <2> HIDE DEF new, slice
  <2>4. OldSound(new, clock, late')
    BY <1>3, <1>5, <1>6, <2>1, <2>3 DEF OldSound
  <2>5. DetachedOK'
    BY <1>8, <2>1, <2>2, <2>4
  <2> QED BY <1>0, <2>1, <2>5 DEF RingOK
<1>10. CASE slice.df \in Squitters
  <2>1. late' = late \union Late(slice)
    BY <1>10 DEF DetachedFolds, old
  <2>2. PICK after \in Ingested(before, slice.squitter, clock) :
           /\ detached' = [detached EXCEPT ![i] =
                             [left |-> Tail(old.left),
                              tracks |-> [old.tracks EXCEPT ![a] = after]]]
           /\ IF ReportableChange(before, after)
              THEN PublishDetached(Report(a, after))
              ELSE UNCHANGED ringVars
    BY <1>10 DEF DetachedFolds, old
  <2> HIDE DEF slice
  <2> DEFINE known == [old.tracks EXCEPT ![a] = after]
             new == [left |-> Tail(old.left), tracks |-> known]
  <2>3. TracksSound(known, late') /\ (a \notin late' => after.place # Elsewhere)
    BY <1>0, <1>3, <1>7, <2>1, <2>2, FoldSound
  <2> HIDE DEF known
  <2>4. new.left = Tail(old.left) /\ new.tracks = known
        /\ new = [left |-> new.left, tracks |-> new.tracks]
    OBVIOUS
  <2>5. detached' = [detached EXCEPT ![i] = new]
    BY <2>2 DEF known
  <2> HIDE DEF new
  <2>6. OldSound(new, clock, late')
    BY <1>5, <1>6, <2>3, <2>4 DEF OldSound
  <2>7. DetachedOK'
    BY <1>8, <2>1, <2>5, <2>6
  <2>8. RingOK'
    <3>1. CASE UNCHANGED ringVars
      BY <1>0, <2>1, <3>1 DEF RingOK, ringVars
    <3>2. CASE PublishDetached(Report(a, after))
      <4> DEFINE report == Report(a, after)
      <4>1. report.icao = a /\ report.place = after.place /\ Push(report)
        BY <3>2 DEF Report, PublishDetached
      <4>2. a \in Icao
        BY <1>7 DEF SentBy, IsSlice
      <4> HIDE DEF report, a
      <4> QED BY <1>0, <2>1, <2>3, <4>1, <4>2, PushKeeps
    <3> QED BY <2>2, <3>1, <3>2
  <2> QED BY <2>1, <2>7, <2>8
<1> QED BY <1>9, <1>10

\* Another worker: what the old one has not folded yet was received.
LEMMA RebindKeeps ==
  ASSUME Demod, Ghostless, Rebind
  PROVE  SignalOK' /\ FoldsOK' /\ TracksOK' /\ DetachedOK'
<1> DEFINE old == [left |-> SubSeq(frames, folded + 1, Len(frames)), tracks |-> tracks]
<1>0. SignalOK /\ ClockOK /\ FoldsOK /\ TracksOK /\ DetachedOK
  BY DEF Ghostless
<1>1. /\ signal' = SubSeq(signal, fed + 1, Len(signal)) /\ fed' = 0 /\ frames' = <<>>
      /\ folded' = 0 /\ tracks' = [a \in Icao |-> NoTrack]
      /\ detached' = Append(detached, old) /\ ~flushed
      /\ clock' = clock /\ air' = air /\ late' = late
  BY DEF Rebind
<1>2. /\ IsSeq(signal) /\ fed \in Nat /\ fed <= Len(signal) /\ Len(signal) \in Nat
      /\ fed + 1 \in 1..Len(signal) + 1
  BY DEF Demod, IsSeq
<1>3. SignalOK'
  <2>1. /\ Len(signal') = Len(signal) - (fed + 1) + 1
        /\ \A i \in 1..Len(signal) - (fed + 1) + 1 : signal'[i] = signal[(fed + 1) + i - 1]
    BY <1>1, <1>2, SubSeqed
  <2>2. ASSUME NEW i \in 1..Len(signal'), NEW k \in DOMAIN signal'[i]
        PROVE  SentBy(signal'[i][k], By(i)')
    <3>1. /\ i \in 1..Len(signal) - (fed + 1) + 1 /\ (fed + 1) + i - 1 = fed + i
          /\ fed + i \in 1..Len(signal) /\ ~(fed + i <= fed) /\ ~(i <= 0) /\ i \in Nat
          /\ (fed + i) - fed = i /\ i - 0 = i
      BY <1>2, <2>1
    <3>2. signal'[i] = signal[fed + i]
      BY <2>1, <3>1
    <3>3. By(fed + i) = By(i)'
      BY <1>1, <3>1 DEF By
    <3> QED BY <1>0, <3>1, <3>2, <3>3 DEF SignalOK
  <2> QED BY <2>2 DEF SignalOK
<1>4. FoldsOK' /\ TracksOK'
  BY <1>1, Empty DEF FoldsOK, TracksOK, TracksSound
<1>5. IsSeq(frames) /\ Len(frames) \in Nat /\ folded \in Nat /\ folded + 1 \in 1..Len(frames) + 1
  BY <1>0 DEF Demod, Lists, IsSeq, FoldsOK
<1>6. /\ IsSeq(old.left) /\ Len(old.left) = Len(frames) - (folded + 1) + 1
      /\ \A k \in 1..Len(frames) - (folded + 1) + 1 :
            old.left[k] = frames[(folded + 1) + k - 1]
  BY <1>5, SubSeqed
<1>7. old = [left |-> old.left, tracks |-> old.tracks] /\ old.tracks = tracks
  OBVIOUS
<1> HIDE DEF old
<1>8. ASSUME NEW k \in 1..Len(old.left) PROVE SentBy(old.left[k].slice, clock)
  <2>1. (folded + 1) + k - 1 \in 1..Len(frames) /\ old.left[k] = frames[(folded + 1) + k - 1]
    BY <1>5, <1>6
  <2> QED BY <1>0, <1>1, <2>1, FrameIsReceived
<1>9. OldSound(old, clock, late)
  BY <1>0, <1>6, <1>7, <1>8 DEF OldSound, TracksOK
<1>10. DetachedOK'
  <2>1. /\ IsSeq(detached') /\ Len(detached') = Len(detached) + 1 /\ Len(detached) \in Nat
        /\ \A j \in 1..Len(detached) : detached'[j] = detached[j]
        /\ detached'[Len(detached) + 1] = old
    BY <1>0, <1>1, Appended DEF DetachedOK, IsSeq
  <2>2. ASSUME NEW j \in 1..Len(detached') PROVE OldSound(detached'[j], clock, late)
    <3>1. CASE j \in 1..Len(detached)
      BY <1>0, <2>1, <3>1 DEF DetachedOK
    <3>2. CASE j = Len(detached) + 1
      BY <1>9, <2>1, <3>2
    <3> QED BY <2>1, <3>1, <3>2
  <2> QED BY <1>1, <2>1, <2>2 DEF DetachedOK
<1> QED BY <1>3, <1>4, <1>10

LEMMA ReceiveKeeps ==
  ASSUME Ghostless, Receive
  PROVE  RingOK' /\ ContactsOK'
<1> DEFINE report == Head(telemetry)
           a == report.icao
           old == IF contacts[a] = NoContact THEN Unheard ELSE contacts[a]
<1>1. /\ telemetry # <<>> /\ telemetry' = Tail(telemetry)
      /\ contacts' = [contacts EXCEPT ![a] = Shown(old, report)] /\ late' = late
  BY DEF Receive
<1>2. RingOK /\ ContactsOK
  BY DEF Ghostless
<1>3. Len(telemetry) > 0 /\ report = telemetry[1] /\ Len(telemetry) \in Nat
  <2> DEFINE S == {telemetry[i] : i \in 1..Len(telemetry)}
  <2>1. telemetry \in Seq(S)
    BY <1>2, SeqOfItems DEF RingOK
  <2> HIDE DEF S
  <2> QED BY <1>1, <2>1, HeadTailProperties, EmptySeq
<1>4. /\ IsSeq(telemetry') /\ Len(telemetry') = Len(telemetry) - 1
      /\ \A i \in 1..Len(telemetry) - 1 : telemetry'[i] = telemetry[i + 1]
  BY <1>1, <1>2, <1>3, Tailed DEF RingOK
<1> HIDE DEF report
<1>5. RingOK'
  BY <1>1, <1>2, <1>3, <1>4 DEF RingOK
<1>6. a \in Icao /\ (a \notin late => report.place # Elsewhere)
  BY <1>2, <1>3 DEF RingOK
<1>7. a \notin late => old.place # Elsewhere
  <2>1. Unheard.place = NoData
    BY DEF Unheard
  <2> QED BY <1>2, <1>6, <2>1, PlacesAreNumbers DEF ContactsOK
<1> HIDE DEF old, a
<1>8. /\ IsContact(Shown(old, report))
      /\ a \notin late => Shown(old, report).place # Elsewhere
  <2>1. /\ IsContact(Shown(old, report))
        /\ Shown(old, report).place \in {old.place, report.place}
    BY ShownCases
  <2> QED BY <1>6, <1>7, <2>1
<1>9. ContactsOK'
  BY <1>1, <1>2, <1>6, <1>8 DEF ContactsOK
<1> QED BY <1>5, <1>9

LEMMA GhostlessStep == Demod /\ Ghostless /\ [Next]_vars => Ghostless'
<1> SUFFICES ASSUME Demod, Ghostless, [Next]_vars PROVE Ghostless'
  OBVIOUS
<1>0. SignalOK /\ ClockOK /\ FoldsOK /\ TracksOK /\ DetachedOK /\ RingOK /\ ContactsOK
  BY DEF Ghostless
<1>1. (SignalOK /\ ClockOK /\ FoldsOK /\ TracksOK /\ DetachedOK /\ RingOK /\ ContactsOK)'
         => Ghostless'
  BY DEF Ghostless
<1> DEFINE Still == UNCHANGED <<tracks, detached, telemetry, late>>
<1>2. ASSUME NEW n \in ChunkSizes, WorkerFeeds(n) PROVE Ghostless'
  <2>1. n \in Nat /\ Feed(n) /\ Sent(n) /\ Still /\ folded' = folded
    BY <1>2, SampleCounts DEF WorkerFeeds, reporterVars, ringVars
  <2>2. ClockOK' /\ clock <= clock' /\ clock' \in Nat /\ air' = air + n /\ \E m : Ageing(m)
    BY <1>0, <2>1, SentKeeps DEF ClockOK
  <2>3. SignalOK'
    BY <1>0, <2>1, <2>2, FeedKeepsSignal
  <2>4. Demod' /\ Len(frames) <= Len(frames')
    BY <2>1, FeedStep
  <2>5. Len(frames) \in Nat /\ Len(frames') \in Nat
    BY <2>4 DEF Demod, Lists, IsSeq
  <2>6. FoldsOK'
    BY <1>0, <2>1, <2>4, <2>5 DEF FoldsOK
  <2>7. TracksOK' /\ DetachedOK' /\ RingOK'
    BY <1>0, <2>1, <2>2, LaterKeeps
  <2>8. ContactsOK'
    BY <1>0, <2>1, <2>2, AgeingKeeps
  <2> QED BY <1>1, <2>2, <2>3, <2>6, <2>7, <2>8
<1>3. ASSUME NEW n \in Gaps, WorkerMisses(n) PROVE Ghostless'
  <2>1. n \in Nat /\ Lose(n) /\ Sent(n) /\ Still /\ folded' = folded /\ frames' = frames
    BY <1>3, Faults DEF WorkerMisses, Lose, reporterVars, ringVars
  <2>2. ClockOK' /\ clock <= clock' /\ clock' \in Nat /\ air' = air + n /\ \E m : Ageing(m)
    BY <1>0, <2>1, SentKeeps DEF ClockOK
  <2>3. SignalOK'
    BY <1>0, <2>1, <2>2, LoseKeepsSignal
  <2>4. FoldsOK'
    BY <1>0, <2>1 DEF FoldsOK
  <2>5. TracksOK' /\ DetachedOK' /\ RingOK'
    BY <1>0, <2>1, <2>2, LaterKeeps
  <2>6. ContactsOK'
    BY <1>0, <2>1, <2>2, AgeingKeeps
  <2> QED BY <1>1, <2>2, <2>3, <2>4, <2>5, <2>6
<1>4. ASSUME NEW n \in Delays, Passes(n), Still, UNCHANGED <<demodVars, air, folded>>
      PROVE  Ghostless'
  <2>1. n \in Nat /\ clock' = clock + n /\ Ageing(n)
    BY <1>4, Faults DEF Passes
  <2>2. clock' \in Nat /\ clock <= clock' /\ ClockOK'
    BY <1>0, <1>4, <2>1 DEF ClockOK
  <2>3. SignalOK' /\ FoldsOK'
    BY <1>0, <1>4 DEF SignalOK, By, FoldsOK, demodVars
  <2>4. TracksOK' /\ DetachedOK' /\ RingOK'
    BY <1>0, <1>4, <2>2, LaterKeeps
  <2>5. ContactsOK'
    BY <1>0, <1>4, <2>1, AgeingKeeps
  <2> QED BY <1>1, <2>2, <2>3, <2>4, <2>5
<1>5. ASSUME NEW n \in Delays, WorkerLags(n) PROVE Ghostless'
  BY <1>4, <1>5 DEF WorkerLags, reporterVars, ringVars
<1>6. CASE TimePasses
  BY <1>4, <1>6 DEF TimePasses, reporterVars, ringVars
<1>7. CASE WorkerFolds
  <2>1. UNCHANGED <<signal, fed, air, clock, detached, contacts>>
    BY <1>7 DEF WorkerFolds, demodVars
  <2>2. FoldsOK' /\ TracksOK' /\ RingOK' /\ late \subseteq late'
    BY <1>7, FoldKeeps
  <2>3. SignalOK' /\ ClockOK'
    BY <1>0, <2>1 DEF SignalOK, By, ClockOK
  <2>4. clock' \in Nat /\ clock <= clock'
    BY <1>0, <2>1 DEF ClockOK
  <2>5. DetachedOK' /\ ContactsOK'
    BY <1>0, <2>1, <2>2, <2>4, LaterKeeps
  <2> QED BY <1>1, <2>2, <2>3, <2>5
<1>8. ASSUME NEW i \in DOMAIN detached, DetachedFolds(i) PROVE Ghostless'
  <2>1. UNCHANGED <<signal, fed, air, clock, frames, folded, tracks, contacts>>
    BY <1>8 DEF DetachedFolds, demodVars, reporterVars
  <2>2. DetachedOK' /\ RingOK' /\ late \subseteq late'
    BY <1>8, DetachedKeeps
  <2>3. SignalOK' /\ ClockOK' /\ FoldsOK'
    BY <1>0, <2>1 DEF SignalOK, By, ClockOK, FoldsOK
  <2>4. clock' \in Nat /\ clock <= clock'
    BY <1>0, <2>1 DEF ClockOK
  <2>5. TracksOK' /\ ContactsOK'
    BY <1>0, <2>1, <2>2, <2>4, LaterKeeps
  <2> QED BY <1>1, <2>2, <2>3, <2>5
<1>9. ASSUME UNCHANGED <<signal, fed, frames, folded, air, clock, detached, telemetry, late>>
      PROVE  /\ TracksOK' /\ ContactsOK' => Ghostless'
             /\ UNCHANGED tracks => TracksOK'
             /\ UNCHANGED contacts => ContactsOK'
  <2>1. SignalOK' /\ ClockOK' /\ FoldsOK' /\ RingOK'
    BY <1>0, <1>9 DEF SignalOK, By, ClockOK, FoldsOK, RingOK
  <2>2. DetachedOK'
    BY <1>0, <1>9 DEF DetachedOK
  <2>3. (UNCHANGED tracks => TracksOK') /\ (UNCHANGED contacts => ContactsOK')
    BY <1>0, <1>9 DEF TracksOK, ContactsOK
  <2> QED BY <1>1, <2>1, <2>2, <2>3
<1>10. CASE WorkerPrunes
  <2>1. /\ UNCHANGED <<signal, fed, frames, folded, air, clock, detached, telemetry, late>>
        /\ UNCHANGED contacts
        /\ \A a \in Icao : tracks'[a] \in {NoTrack, tracks[a]}
        /\ tracks' = [a \in Icao |-> tracks'[a]]
    BY <1>10 DEF WorkerPrunes, demodVars, ringVars
  <2>2. TracksOK'
    BY <1>0, <2>1 DEF TracksOK, TracksSound
  <2> QED BY <1>9, <2>1, <2>2
<1>11. CASE Tick
  <2>1. /\ UNCHANGED <<signal, fed, frames, folded, air, clock, detached, telemetry, late>>
        /\ UNCHANGED tracks
        /\ \A a \in Icao : contacts'[a] \in {NoContact, contacts[a]}
        /\ contacts' = [a \in Icao |-> contacts'[a]]
    BY <1>11 DEF Tick, demodVars, ringVars, reporterVars
  <2>2. ContactsOK'
    BY <1>0, <2>1 DEF ContactsOK
  <2> QED BY <1>9, <2>1, <2>2
<1>12. CASE UNCHANGED vars
  BY <1>9, <1>12 DEF vars, demodVars, ringVars, reporterVars
<1>13. CASE WorkerEnds
  <2>1. /\ UNCHANGED <<signal, fed, folded, tracks, air, clock, detached, telemetry, late>>
        /\ UNCHANGED contacts
    BY <1>13 DEF WorkerEnds, Flush, reporterVars, ringVars
  <2>2. Demod' /\ Len(frames) <= Len(frames')
    BY <1>13, FlushStep DEF WorkerEnds
  <2>3. Len(frames) \in Nat /\ Len(frames') \in Nat
    BY <2>2 DEF Demod, Lists, IsSeq
  <2>4. FoldsOK'
    BY <1>0, <2>1, <2>2, <2>3 DEF FoldsOK
  <2>5. SignalOK' /\ ClockOK' /\ RingOK'
    BY <1>0, <2>1 DEF SignalOK, By, ClockOK, RingOK
  <2>6. DetachedOK' /\ TracksOK' /\ ContactsOK'
    BY <1>0, <2>1 DEF DetachedOK, TracksOK, ContactsOK
  <2> QED BY <1>1, <2>4, <2>5, <2>6
<1>14. CASE Rebind
  <2>1. UNCHANGED <<telemetry, late, contacts, air, clock>>
    BY <1>14 DEF Rebind, ringVars
  <2>2. RingOK' /\ ContactsOK' /\ ClockOK'
    BY <1>0, <2>1 DEF RingOK, ContactsOK, ClockOK
  <2> QED BY <1>1, <1>14, <2>2, RebindKeeps
<1>15. CASE Receive
  <2>1. UNCHANGED <<signal, fed, frames, folded, air, clock, detached, tracks, late>>
    BY <1>15 DEF Receive, demodVars, reporterVars
  <2>2. SignalOK' /\ ClockOK' /\ FoldsOK' /\ TracksOK'
    BY <1>0, <2>1 DEF SignalOK, By, ClockOK, FoldsOK, TracksOK
  <2>3. DetachedOK'
    BY <1>0, <2>1 DEF DetachedOK
  <2> QED BY <1>1, <1>15, <2>2, <2>3, ReceiveKeeps
<1> QED BY <1>2, <1>3, <1>5, <1>6, <1>7, <1>8, <1>10, <1>11, <1>12, <1>13, <1>14, <1>15 DEF Next

\* No aircraft is placed where it was at neither of the times its position was
\* sent, in the daemon or on the screen, unless a half of it was decoded later
\* than the margin.
THEOREM NoGhosts == Spec => []NoGhostPosition
<1>1. Demod /\ Ghostless /\ [Next]_vars => (Demod /\ Ghostless)'
  BY DemodStep, GhostlessStep
<1>2. Init => Demod /\ Ghostless
  BY DemodStart, GhostlessStart
<1>3. Ghostless => NoGhostPosition
  BY DEF Ghostless, TracksOK, TracksSound, ContactsOK, NoGhostPosition, Placed
<1> QED BY <1>1, <1>2, <1>3, PTL DEF Spec

-----------------------------------------------------------------------------
(* What the client shows. *)

\* The report at i is the newest of aircraft a.
Newest(ring, a, i) ==
    ring[i].icao = a /\ \A j \in i + 1..Len(ring) : ring[j].icao # a

Follows(track, report) ==
    \A f \in Reportable : track[f] \in {NoData, report[f]}
Shows(track, contact) ==
    \A f \in Reportable :
        \/ track[f] \in {NoData, contact[f]}
        \/ f = "ident" /\ track[f] = ""
Told(track, ring, contact, a) ==
    /\ \A i \in 1..Len(ring) : Newest(ring, a, i) => Follows(track, ring[i])
    /\ (a \notin Reported(ring) /\ contact # NoContact) => Shows(track, contact)

\* What has been reported of an aircraft is on its way or shown.
Agrees ==
    \A a \in Icao \ missed :
        tracks[a] # NoTrack => Told(tracks[a], telemetry, contacts[a], a)

LEMMA SameToldOf ==
  ASSUME NEW t, NEW u, \A f \in Reportable : t[f] = u[f], NEW ring, NEW c, NEW a,
         Told(u, ring, c, a)
  PROVE  Told(t, ring, c, a)
<1>1. \A r : Follows(u, r) => Follows(t, r)
  BY Zenon DEF Follows
<1>2. Shows(u, c) => Shows(t, c)
  BY Zenon DEF Shows
<1> QED BY <1>1, <1>2 DEF Told

\* A track without data is told.
LEMMA NothingTold ==
  ASSUME NEW t, \A f \in Reportable : t[f] = NoData, NEW ring, NEW c, NEW a
  PROVE  Told(t, ring, c, a)
<1>1. \A r : Follows(t, r)
  BY Zenon DEF Follows
<1>2. Shows(t, c)
  BY Zenon DEF Shows
<1> QED BY <1>1, <1>2 DEF Told

LEMMA SameShown ==
  ASSUME NEW t, NEW c, NEW d, \A f \in Reportable : d[f] = c[f], Shows(t, c)
  PROVE  Shows(t, d)
BY Zenon DEF Shows

\* A contact shows what it was last told.
LEMMA ShowsReport ==
  ASSUME NEW t, NEW old, NEW report, Follows(t, report)
  PROVE  Shows(t, Shown(old, report))
<1> DEFINE c == Shown(old, report)
<1>1. \A f \in Reportable : report[f] \in {NoData, c[f]} \/ (f = "ident" /\ report[f] = "")
  BY ShownCases
<1> HIDE DEF c
<1>2. \A f \in Reportable : t[f] \in {NoData, report[f]}
  BY DEF Follows
<1>3. ASSUME NEW f \in Reportable
      PROVE  t[f] \in {NoData, c[f]} \/ (f = "ident" /\ t[f] = "")
  BY <1>1, <1>2, Zenon
<1> QED BY <1>3, Zenon DEF Shows, c

\* A report just sent is the newest of its aircraft.
LEMMA NewestOnly ==
  ASSUME NEW ring, NEW a, Len(ring) \in Nat, Len(ring) >= 1, ring[Len(ring)].icao = a,
         NEW i \in 1..Len(ring), Newest(ring, a, i)
  PROVE  i = Len(ring)
<1> SUFFICES ASSUME i # Len(ring) PROVE FALSE
  OBVIOUS
<1>1. Len(ring) \in i + 1..Len(ring)
  OBVIOUS
<1> QED BY <1>1 DEF Newest

\* A new report changes nothing of what has been reported of the others, and if
\* it is of the current worker, it is what there is to report.
LEMMA PushAgrees ==
  ASSUME Agrees, RingOK, contacts' = contacts,
         NEW b, NEW after, Push(Report(b, after)),
         \A a \in Icao : a # b => tracks'[a] = tracks[a],
         b \notin missed' => tracks'[b] = after,
         \A a \in Icao \ missed' : a # b =>
            a \notin missed /\ a \notin Overwritten(Report(b, after)) \ Reported(telemetry')
  PROVE  Agrees'
<1> DEFINE report == Report(b, after)
<1>1. /\ IsSeq(telemetry') /\ Len(telemetry') >= 1 /\ Len(telemetry') \in Nat
      /\ telemetry'[Len(telemetry')] = report
      /\ \/ /\ Len(telemetry') = Len(telemetry) + 1
            /\ \A i \in 1..Len(telemetry) : telemetry'[i] = telemetry[i]
         \/ /\ Len(telemetry') = Len(telemetry)
            /\ \A i \in 1..Len(telemetry) - 1 : telemetry'[i] = telemetry[i + 1]
            /\ Overwritten(report) = {telemetry[1].icao}
  BY Pushed DEF RingOK
<1>2. report.icao = b /\ \A f \in Reportable : report[f] = after[f]
  BY DEF Report, Reportable
<1>3. Len(telemetry) \in Nat
  BY DEF RingOK, IsSeq
<1>6. \A a \in Icao \ missed' : a # b =>
         a \notin missed /\ a \notin Overwritten(report) \ Reported(telemetry')
  OBVIOUS
<1> HIDE DEF report
<1>4. ASSUME NEW a \in Icao \ missed', tracks'[a] # NoTrack, a = b
      PROVE  Told(tracks'[a], telemetry', contacts'[a], a)
  <2>1. tracks'[a] = after
    BY <1>4
  <2>2. a \in Reported(telemetry')
    BY <1>1, <1>2, <1>4 DEF Reported
  <2>3. ASSUME NEW i \in 1..Len(telemetry'), Newest(telemetry', a, i)
        PROVE  telemetry'[i] = report
    BY <1>1, <1>2, <1>4, <2>3, NewestOnly
  <2>4. Follows(after, report)
    BY <1>2 DEF Follows
  <2> QED BY <2>1, <2>2, <2>3, <2>4 DEF Told
<1>5. ASSUME NEW a \in Icao \ missed', tracks'[a] # NoTrack, a # b
      PROVE  Told(tracks'[a], telemetry', contacts'[a], a)
  <2>1. tracks'[a] = tracks[a] /\ a \in Icao \ missed
    BY <1>5, <1>6
  <2>2. Told(tracks[a], telemetry, contacts[a], a)
    BY <1>5, <2>1 DEF Agrees
  <2>3. ASSUME NEW i \in 1..Len(telemetry'), Newest(telemetry', a, i)
        PROVE  \E j \in 1..Len(telemetry) : Newest(telemetry, a, j) /\ telemetry'[i] = telemetry[j]
    <3>1. i # Len(telemetry')
      BY <1>1, <1>2, <1>5, <2>3 DEF Newest
    <3>2. telemetry'[i].icao = a /\ \A j \in i + 1..Len(telemetry') : telemetry'[j].icao # a
      BY <2>3 DEF Newest
    <3>3. CASE /\ Len(telemetry') = Len(telemetry) + 1
               /\ \A j \in 1..Len(telemetry) : telemetry'[j] = telemetry[j]
      <4>1. i \in 1..Len(telemetry) /\ telemetry'[i] = telemetry[i]
        BY <1>3, <3>1, <3>3
      <4>2. ASSUME NEW j \in i + 1..Len(telemetry) PROVE telemetry[j].icao # a
        <5>1. j \in i + 1..Len(telemetry') /\ j \in 1..Len(telemetry)
          BY <1>3, <3>3
        <5> QED BY <3>2, <3>3, <5>1
      <4> QED BY <3>2, <4>1, <4>2 DEF Newest
    <3>4. CASE /\ Len(telemetry') = Len(telemetry)
               /\ \A j \in 1..Len(telemetry) - 1 : telemetry'[j] = telemetry[j + 1]
      <4>1. i \in 1..Len(telemetry) - 1 /\ i + 1 \in 1..Len(telemetry)
        BY <1>3, <3>1, <3>4
      <4>2. telemetry'[i] = telemetry[i + 1]
        BY <3>4, <4>1
      <4>3. ASSUME NEW j \in i + 1 + 1..Len(telemetry) PROVE telemetry[j].icao # a
        <5>1. /\ j - 1 \in i + 1..Len(telemetry') /\ j - 1 \in 1..Len(telemetry) - 1
              /\ j - 1 + 1 = j
          BY <1>3, <3>4
        <5>2. telemetry'[j - 1] = telemetry[j - 1 + 1]
          BY <3>4, <5>1
        <5> QED BY <3>2, <5>1, <5>2
      <4> QED BY <3>2, <4>1, <4>2, <4>3 DEF Newest
    <3> QED BY <1>1, <3>3, <3>4
  <2>4. ASSUME a \notin Reported(telemetry') PROVE a \notin Reported(telemetry)
    <3> SUFFICES ASSUME NEW m \in 1..Len(telemetry), telemetry[m].icao = a PROVE FALSE
      BY DEF Reported
    <3>1. \A i \in 1..Len(telemetry') : telemetry'[i].icao # a
      BY <2>4 DEF Reported
    <3>2. CASE /\ Len(telemetry') = Len(telemetry) + 1
               /\ \A j \in 1..Len(telemetry) : telemetry'[j] = telemetry[j]
      <4>1. m \in 1..Len(telemetry') /\ telemetry'[m] = telemetry[m]
        BY <1>3, <3>2
      <4> QED BY <3>1, <4>1
    <3>3. CASE /\ Len(telemetry') = Len(telemetry)
               /\ \A j \in 1..Len(telemetry) - 1 : telemetry'[j] = telemetry[j + 1]
               /\ Overwritten(report) = {telemetry[1].icao}
      <4>1. m # 1
        BY <1>5, <1>6, <2>4, <3>3
      <4>2. m - 1 \in 1..Len(telemetry) - 1 /\ m - 1 \in 1..Len(telemetry') /\ m - 1 + 1 = m
        BY <1>3, <3>3, <4>1
      <4>3. telemetry'[m - 1] = telemetry[m - 1 + 1]
        BY <3>3, <4>2
      <4> QED BY <3>1, <4>2, <4>3
    <3> QED BY <1>1, <3>2, <3>3
  <2> QED BY <2>1, <2>2, <2>3, <2>4 DEF Told
<1> QED BY <1>4, <1>5 DEF Agrees

LEMMA FoldAgrees ==
  ASSUME Demod, Ghostless, Agrees, WorkerFolds
  PROVE  Agrees'
<1> DEFINE slice == frames[folded + 1].slice
           b == slice.icao
           before == Track(tracks, b)
<1>0. before = IF tracks[b] = NoTrack THEN NewTrack ELSE tracks[b]
  BY DEF Track
<1>1. RingOK /\ tracks = [a \in Icao |-> tracks[a]] /\ contacts' = contacts
  BY DEF Ghostless, TracksOK, TracksSound, WorkerFolds
<1>2. CASE slice.df \notin Squitters
  <2>1. UNCHANGED <<tracks, telemetry, missed, contacts>>
    BY <1>2 DEF WorkerFolds, ringVars
  <2> QED BY <2>1 DEF Agrees
<1>3. CASE slice.df \in Squitters
  <2>1. PICK after \in Ingested(before, slice.squitter, clock) :
           /\ tracks' = [tracks EXCEPT ![b] = after]
           /\ IF ReportableChange(before, after)
              THEN Publish(Report(b, after))
              ELSE UNCHANGED ringVars
    BY <1>3 DEF WorkerFolds
  <2>2. CASE Publish(Report(b, after))
    <3> DEFINE report == Report(b, after)
    <3>1. /\ Push(report) /\ report.icao = b
          /\ missed' = (missed \ {report.icao}) \union
                          (Overwritten(report) \ Reported(telemetry'))
      BY <2>2 DEF Publish, Report
    <3>2. b \in Icao
      <4>1. SentBy(slice, clock)
        <5>1. folded + 1 \in 1..Len(frames) /\ ~flushed
          BY DEF WorkerFolds, Folding, Ghostless, FoldsOK, Demod, Lists, IsSeq
        <5> QED BY <5>1, FrameIsReceived DEF Ghostless
      <4> QED BY <4>1 DEF SentBy, IsSlice
    <3>3. tracks'[b] = after /\ \A a \in Icao : a # b => tracks'[a] = tracks[a]
      BY <1>1, <2>1, <3>2
    <3> HIDE DEF b, before, report
    <3>4. \A a \in Icao \ missed' : a # b =>
             a \notin missed /\ a \notin Overwritten(report) \ Reported(telemetry')
      BY <3>1
    <3> QED BY <1>1, <3>1, <3>3, <3>4, PushAgrees DEF report
  <2>3. CASE ~ReportableChange(before, after) /\ UNCHANGED ringVars
    <3>1. \A f \in Reportable : before[f] = after[f]
      BY <2>3 DEF ReportableChange
    <3>2. \A f \in Reportable : NewTrack[f] = NoData
      BY DEF NewTrack, Reportable
    <3>3. UNCHANGED <<telemetry, missed, contacts>>
      BY <1>1, <2>3 DEF ringVars
    <3>4. ASSUME NEW a \in Icao, tracks'[a] # NoTrack
          PROVE  \/ tracks[a] # NoTrack /\ \A f \in Reportable : tracks'[a][f] = tracks[a][f]
                 \/ \A f \in Reportable : tracks'[a][f] = NoData
      <4>1. CASE a # b
        BY <1>1, <2>1, <3>4, <4>1
      <4>2. CASE a = b
        <5>1. tracks'[a] = after
          BY <1>1, <2>1, <4>2
        <5> QED BY <1>0, <3>1, <3>2, <4>2, <5>1
      <4> QED BY <4>1, <4>2
    <3> HIDE DEF b, before, slice
    <3>5. ASSUME NEW a \in Icao \ missed, tracks'[a] # NoTrack
          PROVE  Told(tracks'[a], telemetry, contacts[a], a)
      <4>1. CASE tracks[a] # NoTrack /\ \A f \in Reportable : tracks'[a][f] = tracks[a][f]
        <5>1. Told(tracks[a], telemetry, contacts[a], a)
          BY <4>1 DEF Agrees
        <5> QED BY <4>1, <5>1, SameToldOf
      <4>2. CASE \A f \in Reportable : tracks'[a][f] = NoData
        BY <4>2, NothingTold
      <4> QED BY <3>4, <3>5, <4>1, <4>2
    <3> QED BY <3>3, <3>5 DEF Agrees
  <2> QED BY <2>1, <2>2, <2>3
<1> QED BY <1>2, <1>3

\* A detached worker's report counts its aircraft as missed.
LEMMA DetachedAgrees ==
  ASSUME Ghostless, Agrees, NEW i \in DOMAIN detached, DetachedFolds(i)
  PROVE  Agrees'
<1> DEFINE old == detached[i]
           slice == Head(old.left).slice
           b == slice.icao
           before == Track(old.tracks, b)
<1>1. RingOK /\ contacts' = contacts /\ tracks' = tracks
  BY DEF Ghostless, DetachedFolds, reporterVars
<1>2. CASE UNCHANGED ringVars
  BY <1>1, <1>2 DEF Agrees, ringVars
<1>3. ASSUME NEW after, PublishDetached(Report(b, after))
      PROVE  Agrees'
  <2> DEFINE report == Report(b, after)
  <2>1. /\ Push(report) /\ report.icao = b
        /\ missed' = (missed \union {report.icao}) \union
                        (Overwritten(report) \ Reported(telemetry'))
    BY <1>3 DEF PublishDetached, Report
  <2> HIDE DEF b, report
  <2>2. b \in missed'
    BY <2>1
  <2>3. \A a \in Icao \ missed' : a # b =>
           a \notin missed /\ a \notin Overwritten(report) \ Reported(telemetry')
    BY <2>1
  <2> QED BY <1>1, <2>1, <2>2, <2>3, PushAgrees DEF report
<1>4. \/ UNCHANGED ringVars
      \/ \E after : PublishDetached(Report(b, after))
  BY DEF DetachedFolds
<1> QED BY <1>2, <1>3, <1>4

LEMMA ReceiveAgrees ==
  ASSUME Ghostless, Agrees, Receive
  PROVE  Agrees'
<1> DEFINE report == Head(telemetry)
           b == report.icao
           old == IF contacts[b] = NoContact THEN Unheard ELSE contacts[b]
<1>1. /\ telemetry # <<>> /\ telemetry' = Tail(telemetry)
      /\ contacts' = [contacts EXCEPT ![b] = Shown(old, report)]
      /\ tracks' = tracks /\ missed' = missed
  BY DEF Receive, reporterVars
<1>2. RingOK /\ contacts = [a \in Icao |-> contacts[a]]
  BY DEF Ghostless, ContactsOK
<1>3. Len(telemetry) > 0 /\ report = telemetry[1] /\ Len(telemetry) \in Nat
  <2> DEFINE S == {telemetry[i] : i \in 1..Len(telemetry)}
  <2>1. telemetry \in Seq(S)
    BY <1>2, SeqOfItems DEF RingOK
  <2> HIDE DEF S
  <2> QED BY <1>1, <2>1, HeadTailProperties, EmptySeq
<1>4. /\ Len(telemetry') = Len(telemetry) - 1
      /\ \A i \in 1..Len(telemetry) - 1 : telemetry'[i] = telemetry[i + 1]
  BY <1>1, <1>2, <1>3, Tailed DEF RingOK
<1> HIDE DEF report, old
<1>5. ASSUME NEW a \in Icao \ missed, tracks[a] # NoTrack
      PROVE  Told(tracks[a], telemetry', contacts'[a], a)
  <2>1. Told(tracks[a], telemetry, contacts[a], a)
    BY <1>5 DEF Agrees
  <2>2. ASSUME NEW j \in 2..Len(telemetry) PROVE j - 1 \in 1..Len(telemetry') /\ telemetry'[j - 1] = telemetry[j]
    <3>1. j - 1 \in 1..Len(telemetry) - 1 /\ j - 1 + 1 = j
      BY <1>3
    <3> QED BY <1>4, <3>1
  <2>3. ASSUME NEW i \in 1..Len(telemetry'), Newest(telemetry', a, i)
        PROVE  Newest(telemetry, a, i + 1) /\ i + 1 \in 1..Len(telemetry)
               /\ telemetry'[i] = telemetry[i + 1]
    <3>1. i + 1 \in 1..Len(telemetry) /\ telemetry'[i] = telemetry[i + 1]
      BY <1>3, <1>4
    <3>2. ASSUME NEW j \in i + 1 + 1..Len(telemetry) PROVE telemetry[j].icao # a
      <4>1. j \in 2..Len(telemetry) /\ j - 1 \in i + 1..Len(telemetry')
        BY <1>3, <1>4
      <4> QED BY <2>2, <2>3, <4>1 DEF Newest
    <3> QED BY <2>3, <3>1, <3>2 DEF Newest
  <2>4. \A i \in 1..Len(telemetry') :
           Newest(telemetry', a, i) => Follows(tracks[a], telemetry'[i])
    BY <2>1, <2>3 DEF Told
  <2>5. ASSUME a \notin Reported(telemetry'), contacts'[a] # NoContact
        PROVE  Shows(tracks[a], contacts'[a])
    <3>1. \A j \in 2..Len(telemetry) : telemetry[j].icao # a
      BY <2>2, <2>5 DEF Reported
    <3>2. CASE a = b
      <4>1. Newest(telemetry, a, 1) /\ 1 \in 1..Len(telemetry)
        BY <1>3, <3>1, <3>2 DEF Newest
      <4>2. Follows(tracks[a], report)
        BY <1>3, <2>1, <4>1 DEF Told
      <4>3. contacts'[a] = Shown(old, report)
        BY <1>1, <1>2, <3>2
      <4> QED BY <4>2, <4>3, ShowsReport
    <3>3. CASE a # b
      <4>1. \A j \in 1..Len(telemetry) : telemetry[j].icao # a
        <5> SUFFICES ASSUME NEW j \in 1..Len(telemetry) PROVE telemetry[j].icao # a
          OBVIOUS
        <5>1. CASE j = 1
          BY <1>3, <3>3, <5>1
        <5>2. CASE j # 1
          BY <1>3, <3>1, <5>2
        <5> QED BY <5>1, <5>2
      <4>2. a \notin Reported(telemetry)
        BY <4>1 DEF Reported
      <4>3. contacts'[a] = contacts[a]
        BY <1>1, <1>2, <3>3
      <4> QED BY <2>1, <2>5, <4>2, <4>3 DEF Told
    <3> QED BY <3>2, <3>3
  <2> QED BY <2>4, <2>5 DEF Told
<1> QED BY <1>1, <1>5 DEF Agrees

LEMMA AgeingAgrees ==
  ASSUME Agrees, ContactsOK, NEW n, Ageing(n), UNCHANGED <<tracks, telemetry, missed>>
  PROVE  Agrees'
<1>1. contacts' = [a \in Icao |-> Older(contacts[a], n)]
  BY DEF Ageing
<1>2. ASSUME NEW a \in Icao, contacts'[a] # NoContact
      PROVE  contacts[a] # NoContact /\ \A f \in Reportable : contacts'[a][f] = contacts[a][f]
  <2>1. contacts'[a] = Older(contacts[a], n)
    BY <1>1
  <2>2. contacts[a] # NoContact => IsContact(contacts[a])
    BY DEF ContactsOK
  <2> QED BY <1>2, <2>1, <2>2, OlderCases
<1>3. ASSUME NEW a \in Icao \ missed, tracks[a] # NoTrack
      PROVE  Told(tracks[a], telemetry, contacts'[a], a)
  <2>1. Told(tracks[a], telemetry, contacts[a], a)
    BY <1>3 DEF Agrees
  <2> QED BY <1>2, <2>1, SameShown DEF Told
<1> QED BY <1>3 DEF Agrees

LEMMA AgreesStep == Demod /\ Ghostless /\ Agrees /\ [Next]_vars => Agrees'
<1> SUFFICES ASSUME Demod, Ghostless, Agrees, [Next]_vars PROVE Agrees'
  OBVIOUS
<1>0. ASSUME NEW n, Ageing(n), UNCHANGED <<tracks, telemetry, missed>> PROVE Agrees'
  BY <1>0, AgeingAgrees DEF Ghostless
<1>1. ASSUME NEW n, Passes(n) \/ Sent(n), UNCHANGED <<tracks, telemetry, missed>> PROVE Agrees'
  BY <1>0, <1>1 DEF Sent, Passes
<1>2. CASE WorkerPrunes
  <2>1. UNCHANGED <<telemetry, missed, contacts>>
    BY <1>2 DEF WorkerPrunes, ringVars
  <2>2. \A a \in Icao : tracks'[a] \in {NoTrack, tracks[a]}
    BY <1>2 DEF WorkerPrunes
  <2> QED BY <2>1, <2>2 DEF Agrees
<1>3. CASE WorkerEnds
  BY <1>3 DEF Agrees, WorkerEnds, reporterVars, ringVars
<1>4. CASE Rebind
  BY <1>4 DEF Agrees, Rebind
<1>5. CASE Tick
  <2>1. UNCHANGED <<tracks, telemetry, missed>>
    BY <1>5 DEF Tick, reporterVars, ringVars
  <2>2. \A a \in Icao : contacts'[a] \in {NoContact, contacts[a]}
    BY <1>5 DEF Tick
  <2> QED BY <2>1, <2>2 DEF Agrees, Told
<1>6. CASE TimePasses
  BY <1>1, <1>6 DEF TimePasses, reporterVars, ringVars
<1>7. CASE UNCHANGED vars
  BY <1>7 DEF Agrees, vars, reporterVars, ringVars
<1>8. ASSUME NEW n \in ChunkSizes, WorkerFeeds(n) PROVE Agrees'
  BY <1>1, <1>8 DEF WorkerFeeds, reporterVars, ringVars
<1>9. ASSUME NEW n \in Gaps, WorkerMisses(n) PROVE Agrees'
  BY <1>1, <1>9 DEF WorkerMisses, reporterVars, ringVars
<1>10. ASSUME NEW n \in Delays, WorkerLags(n) PROVE Agrees'
  BY <1>1, <1>10 DEF WorkerLags, reporterVars, ringVars
<1> QED BY <1>2, <1>3, <1>4, <1>5, <1>6, <1>7, <1>8, <1>9, <1>10, FoldAgrees,
           DetachedAgrees, ReceiveAgrees DEF Next

\* What the client shows of an aircraft is what the daemon knows of it, once
\* the reports have arrived and unless the newest was overwritten or followed by
\* one of a detached worker.
THEOREM ScreenAgrees == Spec => []ViewAgrees
<1>1. Demod /\ Ghostless /\ Agrees /\ [Next]_vars => (Demod /\ Ghostless /\ Agrees)'
  BY DemodStep, GhostlessStep, AgreesStep
<1>2. Init => Demod /\ Ghostless /\ Agrees
  <2>1. Init => Agrees
    BY DEF Init, Agrees
  <2> QED BY <2>1, DemodStart, GhostlessStart
<1>3. Agrees => ViewAgrees
  <2> SUFFICES ASSUME Agrees, NEW a \in Icao, tracks[a] # NoTrack, contacts[a] # NoContact,
                      a \notin missed \union Reported(telemetry)
               PROVE  Shows(tracks[a], contacts[a])
    BY Zenon DEF ViewAgrees, Shows
  <2> QED BY DEF Agrees, Told
<1> QED BY <1>1, <1>2, <1>3, PTL DEF Spec
=============================================================================
