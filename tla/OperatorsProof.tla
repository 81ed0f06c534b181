--------------------------- MODULE OperatorsProof ---------------------------
(***************************************************************************)
(* Proofs about the algorithms of Estimation, TcpPacket and Sentence, for  *)
(* signals, packets and sentences of any length and content, and from them *)
(* the properties of Operators.                                            *)
(***************************************************************************)
EXTENDS Operators, DataLemmas, TLAPS

\* Truncated division.
LEMMA Quotient ==
  ASSUME NEW a \in Nat, NEW b \in Nat \ {0}
  PROVE  /\ a \div b \in Nat /\ a % b \in 0 .. b - 1
         /\ a = b * (a \div b) + (a % b)
<1>1. a \div b \in Int /\ a % b \in 0 .. b - 1
  OBVIOUS
<1>2. a = b * (a \div b) + (a % b)
  OBVIOUS
<1>3. CASE a \div b < 0
  <2>1. PICK d \in Nat : a \div b = -1 - d
    BY <1>1, <1>3
  <2>2. b * (a \div b) = -b - b * d /\ b * d >= 0
    BY <2>1
  <2>3. QED
    BY <1>1, <1>2, <2>2
<1>4. QED
  BY <1>1, <1>2, <1>3

LEMMA QuotientIs ==
  ASSUME NEW b \in Nat \ {0}, NEW q \in Nat, NEW r \in 0 .. b - 1
  PROVE  (b * q + r) \div b = q
<1> DEFINE p == (b * q + r) \div b
<1>1. b * q \in Nat /\ b * q + r \in Nat
  OBVIOUS
<1>2. p \in Nat /\ (b * q + r) % b \in 0 .. b - 1 /\ b * q + r = b * p + ((b * q + r) % b)
  BY <1>1, Quotient
<1>3. PICK s \in 0 .. b - 1 : b * q + r = b * p + s
  BY <1>2
<1> HIDE DEF p
<1>4. CASE p < q
  <2>1. PICK d \in Nat : q = p + 1 + d
    BY <1>2, <1>4
  <2>2. b * q = b * p + b + b * d /\ b * d >= 0
    BY <1>2, <2>1
  <2>3. QED
    BY <1>2, <1>3, <2>2
<1>5. CASE p > q
  <2>1. PICK d \in Nat : p = q + 1 + d
    BY <1>2, <1>5
  <2>2. b * p = b * q + b + b * d /\ b * d >= 0
    BY <1>2, <2>1
  <2>3. QED
    BY <1>2, <1>3, <2>2
<1>6. CASE p = q
  BY <1>6 DEF p
<1>7. QED
  BY <1>2, <1>4, <1>5, <1>6

LEMMA QuotientBound ==
  ASSUME NEW a \in Nat, NEW b \in Nat \ {0}, NEW m \in Nat, a <= m * b
  PROVE  a \div b <= m
<1> DEFINE q == a \div b
<1>1. q \in Nat /\ a % b \in 0 .. b - 1 /\ a = b * q + (a % b)
  BY Quotient
<1>2. b * q <= a
  <2>1. b * q \in Nat
    BY <1>1
  <2>2. QED
    BY <1>1, <2>1
<1> HIDE DEF q
<1>3. CASE q > m
  <2>1. PICK d \in Nat : q = m + 1 + d
    BY <1>1, <1>3
  <2>2. b * q = m * b + b + b * d /\ b * d >= 0
    BY <2>1
  <2>3. QED
    BY <1>2, <2>2
<1>4. QED
  BY <1>1, <1>3 DEF q

LEMMA QuotientMonotone ==
  ASSUME NEW a \in Nat, NEW c \in Nat, a <= c
  PROVE  a \div Unit <= c \div Unit
<1> DEFINE q == c \div Unit  p == a \div Unit
<1>1. p \in Nat /\ a % Unit \in 0 .. Unit - 1 /\ a = Unit * p + (a % Unit)
  BY UnitAssumption, Quotient
<1>2. q \in Nat /\ c % Unit \in 0 .. Unit - 1 /\ c = Unit * q + (c % Unit)
  BY UnitAssumption, Quotient
<1>3. Unit * p \in Nat /\ Unit * q \in Nat
  BY UnitAssumption, <1>1, <1>2
<1>4. Unit * p <= c /\ c < Unit * q + Unit
  BY UnitAssumption, <1>1, <1>2, <1>3
<1> HIDE DEF p, q
<1>5. CASE p > q
  <2>1. PICK d \in Nat : p = q + 1 + d
    BY <1>1, <1>2, <1>5
  <2>2. Unit * p = Unit * q + Unit + Unit * d /\ Unit * d >= 0
    BY UnitAssumption, <1>2, <2>1
  <2>3. QED
    BY UnitAssumption, <1>3, <1>4, <2>2
<1>6. QED
  BY <1>1, <1>2, <1>5 DEF p, q

----------------------------------------------------------------------------
\* The window of the direction estimate lies inside the frame, so that dataTrim
\* does not throw (SignalProcess::calculateDOA, DOA and dataTrim), for any frame,
\* any delay at which the whole reference fits, any kind of reference and however
\* the delay was rounded: as long as the window is no longer than the reference
\* and sampled no faster.
THEOREM WindowFits ==
  ASSUME NEW type, NEW product \in Nat, NEW process \in Unit .. product,
         NEW frameLength \in Nat, NEW referenceSignalFrequency \in Nat \ {0},
         NEW sampleRate \in 1 .. referenceSignalFrequency,
         NEW maxIndex \in Nat, maxIndex + SampleNum(type, product) <= frameLength,
         NEW start \in StartIndices(maxIndex, referenceSignalFrequency, sampleRate)
  PROVE  ~TrimThrows(frameLength, start, DoaEnd(start, DoaSignalLength(process)))
<1> DEFINE exact == maxIndex * sampleRate
           n == exact \div referenceSignalFrequency
           length == process \div Unit
<1>1. Unit \in Nat \ {0} /\ process \in Nat /\ process >= Unit
  BY UnitAssumption
<1>2. exact \in Nat /\ exact <= maxIndex * referenceSignalFrequency
  <2>1. PICK d \in Nat : referenceSignalFrequency = sampleRate + d
    OBVIOUS
  <2>2. maxIndex * referenceSignalFrequency = exact + maxIndex * d /\ maxIndex * d >= 0
    BY <2>1
  <2>3. QED
    BY <2>2
<1>3. n \in Nat /\ n <= maxIndex
  BY <1>2, Quotient, QuotientBound
<1>4. start \in Nat /\ start <= n
  BY <1>3 DEF StartIndices
<1>5. length \in Nat /\ length >= 1
  <2>1. length \in Nat /\ process % Unit \in 0 .. Unit - 1 /\ process = Unit * length + (process % Unit)
    BY <1>1, Quotient
  <2>2. CASE length = 0
    BY <1>1, <2>1, <2>2
  <2>3. QED
    BY <2>1, <2>2
<1>6. length <= SampleNum(type, product) /\ SampleNum(type, product) \in Nat
  <2>1. product + Unit - 1 \in Nat /\ product <= product + Unit - 1 /\ process <= product
    BY <1>1
  <2>2. process \div Unit <= product \div Unit /\ process \div Unit <= (product + Unit - 1) \div Unit
    BY <1>1, <2>1, QuotientMonotone
  <2>3. product \div Unit \in Nat /\ (product + Unit - 1) \div Unit \in Nat
    BY <1>1, <2>1, Quotient
  <2>4. QED
    BY <2>2, <2>3 DEF SampleNum
<1>7. DoaSignalLength(process) = length
  BY DEF DoaSignalLength
<1> HIDE DEF exact, n, length
<1>8. QED
  BY <1>3, <1>4, <1>5, <1>6, <1>7 DEF TrimThrows, DoaEnd

\* Each direction of the scan has a column of its own in the beam pattern, and the
\* direction reported for a column is the one it was computed for (DOA::doa), for
\* any step, the extra round of a rounded sum included.
THEOREM BeamColumns ==
  ASSUME NEW step \in Nat \ {0}, NEW k \in Directions(step)
  PROVE  /\ N2(Direction(k, step), step) = k - 1
         /\ k - 1 \in 0 .. Columns(step) - 1
         /\ Doa(k - 1, step) = Direction(k, step)
<1>1. HalfTurn \in Nat \ {0}
  BY UnitAssumption
<1>2. Columns(step) \in Nat /\ k \in 1 .. Columns(step)
  <2>1. (2 * HalfTurn) \div step \in Nat
    <3>1. 2 * HalfTurn \in Nat
      BY <1>1
    <3>2. QED
      BY <3>1, Quotient
  <2>2. QED
    BY <2>1 DEF Directions, Columns
<1>3. k * step \in Nat
  BY <1>2
<1>4. 2 * (Direction(k, step) + HalfTurn) + step = (2 * step) * k + step
  BY <1>1, <1>2, <1>3 DEF Direction
<1>5. ((2 * step) * k + step) \div (2 * step) = k
  <2>1. 2 * step \in Nat \ {0} /\ step \in 0 .. 2 * step - 1 /\ k \in Nat
    BY <1>2
  <2>2. QED
    BY <2>1, QuotientIs
<1>6. N2(Direction(k, step), step) = k - 1
  BY <1>4, <1>5 DEF N2
<1>7. (k - 1) + 1 = k
  BY <1>2
<1>8. QED
  BY <1>2, <1>6, <1>7 DEF Doa, Direction

----------------------------------------------------------------------------
(* The matched filter.                                                       *)

LEMMA Remainder ==
  ASSUME NEW N \in Nat \ {0}, NEW a \in Int
  PROVE  /\ a \in 0 .. N - 1 => a % N = a
         /\ a \in -N .. -1 => a % N = a + N
<1>1. a % N \in 0 .. N - 1 /\ a \div N \in Int /\ a = N * (a \div N) + (a % N)
  OBVIOUS
<1> DEFINE q == a \div N  r == a % N
<1>2. q \in Int /\ r \in 0 .. N - 1 /\ a = N * q + r
  BY <1>1
<1> HIDE DEF q, r
<1>3. ASSUME q > 0 PROVE N * q >= N
  <2>1. PICK d \in Nat : q = 1 + d
    BY <1>2, <1>3
  <2>2. N * q = N + N * d /\ N * d >= 0
    BY <2>1
  <2>3. QED
    BY <2>2
<1>4. ASSUME q < -1 PROVE N * q <= -N - N
  <2>1. PICK d \in Nat : q = -2 - d
    BY <1>2, <1>4
  <2>2. N * q = -N - N - N * d /\ N * d >= 0
    BY <2>1
  <2>3. QED
    BY <2>2
<1>5. CASE q = 0
  <2>1. N * q = 0
    BY <1>5
  <2>2. a = r
    BY <1>2, <2>1
  <2>3. QED
    BY <1>2, <2>2 DEF r
<1>6. CASE q = -1
  <2>1. N * q = -N
    BY <1>6
  <2>2. a = r - N
    BY <1>2, <2>1
  <2>3. QED
    BY <1>2, <2>2 DEF r
<1>7. CASE q > 0
  BY <1>2, <1>3, <1>7
<1>8. CASE q < -1
  BY <1>2, <1>4, <1>8
<1>9. QED
  BY <1>2, <1>5, <1>6, <1>7, <1>8

\* The reversed reference, padded: the zeros in front of the samples end up behind.
LEMMA FlippedReference ==
  ASSUME NEW n \in Nat \ {0}, NEW ref \in [1 .. n -> Int], NEW N \in Nat
  PROVE  /\ Flipped(RefSignal(ref)).signalLength = n
         /\ Padded(Flipped(RefSignal(ref)), N) =
              [t \in 1 .. N |-> IF t <= n THEN ref[n + 1 - t] ELSE 0]
<1> DEFINE z == Zeros(n)  s == z \o ref  f == Flipped(RefSignal(ref))
<1>1. z \in Seq(Int) /\ Len(z) = n /\ ref \in Seq(Int) /\ Len(ref) = n
  BY DEF Zeros
<1> HIDE DEF z
<1>2. Len(s) = n + n /\ \A i \in 1 .. n : s[n + i] = ref[i]
  <2>1. /\ Len(s) = Len(z) + Len(ref)
        /\ \A i \in 1 .. Len(ref) : s[Len(z) + i] = ref[i]
    <3>1. \A u, v \in Seq(Int) : /\ Len(u \o v) = Len(u) + Len(v)
                                 /\ \A i \in 1 .. Len(v) : (u \o v)[Len(u) + i] = v[i]
      BY Concatenation
    <3>2. QED
      BY <1>1, <3>1, Zenon
  <2> HIDE DEF s
  <2>2. QED
    BY <1>1, <2>1
<1> HIDE DEF s
<1>3. f = [signalLength |-> n, channel |-> Reverse(s)]
  BY <1>1 DEF Flipped, RefSignal, s, z
<1>4. ASSUME NEW t \in 1 .. n
      PROVE  Reverse(s)[t] = ref[n + 1 - t]
  <2>1. n + 1 - t \in 1 .. n /\ t \in 1 .. n + n /\ n + (n + 1 - t) = (n + n - t) + 1
    OBVIOUS
  <2>2. Reverse(s)[t] = s[(n + n - t) + 1]
    BY <1>2, <2>1 DEF Reverse
  <2>3. QED
    BY <1>2, <2>1, <2>2
<1>5. f.signalLength = n /\ f.channel = Reverse(s)
  BY <1>3
<1> HIDE DEF f
<1>6. Padded(f, N) = [t \in 1 .. N |-> IF t <= n THEN ref[n + 1 - t] ELSE 0]
  BY <1>4, <1>5 DEF Padded
<1>7. QED
  BY <1>5, <1>6 DEF f

\* One value of the circular convolution is a sum over the samples the ref
\* lies on: the wrapped terms are zero.
LEMMA ConvolutionTerms ==
  ASSUME NEW n \in Nat \ {0}, NEW m \in Nat, n <= m,
         NEW ref \in [1 .. n -> Int], NEW samples \in [1 .. m -> Int],
         NEW i \in 1 .. m - n + 1
  PROVE  FFTProduct(Padded(Signal(samples), m + n - 1),
                    Padded(Flipped(RefSignal(ref)), m + n - 1), m + n - 1)[n - 1 + i]
           = SumFunction([j \in 1 .. n |-> samples[i + j - 1] * ref[j]])
<1> DEFINE N == m + n - 1
           k == n - 1 + i
           X == Padded(Signal(samples), N)
           H == Padded(Flipped(RefSignal(ref)), N)
           g == [j \in 1 .. N |-> X[j] * H[1 + ((k - j) % N)]]
           f == [j \in 1 .. n |-> samples[i + j - 1] * ref[j]]
           b == [j \in 1 .. n |-> i + j - 1]
<1>1. N \in Nat \ {0} /\ k \in 1 .. N /\ k <= m /\ i \in 1 .. k /\ k = n - 1 + i
  OBVIOUS
<1>2. X = [j \in 1 .. N |-> IF j <= m THEN samples[j] ELSE 0]
  <2>1. Len(samples) = m
    OBVIOUS
  <2>2. QED
    BY <2>1 DEF Padded, Signal
<1>3. H = [t \in 1 .. N |-> IF t <= n THEN ref[n + 1 - t] ELSE 0]
  <2> HIDE DEF N
  <2>1. N \in Nat
    BY <1>1
  <2>2. QED
    <3>1. \A M \in Nat : Padded(Flipped(RefSignal(ref)), M) =
            [t \in 1 .. M |-> IF t <= n THEN ref[n + 1 - t] ELSE 0]
      BY FlippedReference, Zenon
    <3>2. QED
      BY <2>1, <3>1, Zenon
<1>4. FFTProduct(X, H, N)[k] = SumFunction(g)
  <2> HIDE DEF N, k, X, H
  <2>1. QED
    BY <1>1 DEF FFTProduct
<1> HIDE DEF X, H
<1>5. ASSUME NEW j \in 1 .. N
      PROVE  g[j] = IF j \in i .. k THEN samples[j] * ref[j - i + 1] ELSE 0
  <2> DEFINE t == 1 + ((k - j) % N)
  <2>1. X[j] = IF j <= m THEN samples[j] ELSE 0
    BY <1>2
  <2>2. CASE j <= k
    <3>1. k - j \in 0 .. N - 1
      BY <1>1, <2>2
    <3>2. t = 1 + k - j /\ t \in 1 .. N
      <4>1. k - j \in Int
        OBVIOUS
      <4>2. (k - j) % N = k - j
        <5> HIDE DEF N, k
        <5>1. QED
          BY <1>1, <3>1, <4>1, Remainder, Zenon
      <4>3. QED
        BY <1>1, <2>2, <4>2
    <3> HIDE DEF t
    <3>3. H[t] = IF t <= n THEN ref[n + 1 - t] ELSE 0
      BY <1>3, <3>2
    <3>4. j \in i .. k <=> t <= n
      BY <1>1, <2>2, <3>2
    <3>5. n + 1 - t = j - i + 1
      BY <3>2
    <3>6. X[j] = samples[j] /\ samples[j] \in Int
      BY <1>1, <2>1, <2>2
    <3>7. g[j] = X[j] * H[t]
      BY DEF t
    <3> HIDE DEF g
    <3>8. QED
      BY <3>3, <3>4, <3>5, <3>6, <3>7
  <2>3. CASE j > k
    <3>1. k - j \in -N .. -1
      BY <1>1, <2>3
    <3>2. t = 1 + k - j + N /\ t \in 1 .. N
      <4>1. k - j \in Int
        OBVIOUS
      <4>2. (k - j) % N = (k - j) + N
        <5> HIDE DEF N, k
        <5>1. QED
          BY <1>1, <3>1, <4>1, Remainder, Zenon
      <4>3. QED
        BY <1>1, <2>3, <4>2
    <3> HIDE DEF t
    <3>3. H[t] = IF t <= n THEN ref[n + 1 - t] ELSE 0
      BY <1>3, <3>2
    <3>4. g[j] = X[j] * H[t] /\ j \notin i .. k
      BY <1>1, <2>3 DEF t
    <3>5. CASE j <= m
      <4>1. ~(t <= n)
        BY <3>2, <3>5
      <4>2. X[j] \in Int /\ H[t] = 0
        BY <2>1, <3>3, <3>5, <4>1
      <4> HIDE DEF g
      <4>3. QED
        BY <3>4, <4>2
    <3>6. CASE j > m
      <4>1. X[j] = 0 /\ H[t] \in Int
        <5>1. t <= n => n + 1 - t \in 1 .. n
          BY <3>2
        <5>2. QED
          BY <2>1, <3>3, <3>6, <5>1
      <4> HIDE DEF g
      <4>2. QED
        BY <3>4, <4>1
    <3>7. QED
      BY <1>1, <3>5, <3>6
  <2>4. QED
    BY <1>1, <2>2, <2>3
<1> HIDE DEF g
<1>6. \A j \in 1 .. N : g[j] \in Int
  <2>1. SUFFICES ASSUME NEW j \in 1 .. N PROVE g[j] \in Int
    OBVIOUS
  <2>2. CASE j \in i .. k
    <3>1. j \in 1 .. m /\ j - i + 1 \in 1 .. n
      BY <1>1, <2>2
    <3>2. samples[j] \in Int /\ ref[j - i + 1] \in Int
      BY <3>1
    <3> HIDE DEF N, k
    <3>3. QED
      BY <1>5, <2>2, <3>2
  <2>3. CASE j \notin i .. k
    BY <1>5, <2>3
  <2>4. QED
    BY <2>2, <2>3
<1>7. IsFiniteSet(1 .. N) /\ IsFiniteSet(1 .. n)
  BY <1>1, FS_Interval
<1>8. SumFunction(g) = SumFunctionOnSet(g, 1 .. N)
  BY DEF SumFunction, g
<1>9. SumFunctionOnSet(g, 1 .. N) = SumFunctionOnSet(g, i .. k)
  <2>1. i .. k \in SUBSET (1 .. N) /\ \A j \in (1 .. N) \ (i .. k) : g[j] = 0
    BY <1>1, <1>5
  <2> HIDE DEF N, k
  <2>2. QED
    BY <1>6, <1>7, <2>1, SumNonzero
<1>10. SumFunctionOnSet(g, i .. k) = SumFunctionOnSet(f, 1 .. n)
  <2>1. (\A j \in 1 .. n : b[j] \in i .. k) /\ \A x \in i .. k : \E j \in 1 .. n : b[j] = x
    <3>1. ASSUME NEW x \in i .. k PROVE \E j \in 1 .. n : b[j] = x
      <4>1. x - i + 1 \in 1 .. n /\ b[x - i + 1] = x
        BY <1>1
      <4>2. QED
        BY <4>1
    <3>2. ASSUME NEW j \in 1 .. n PROVE b[j] \in i .. k
      BY <1>1
    <3>3. QED
      BY <3>1, <3>2
  <2>2. ASSUME NEW j \in 1 .. n PROVE f[j] \in Int /\ g[b[j]] = f[j]
    <3>1. b[j] \in 1 .. N /\ b[j] \in i .. k /\ b[j] = i + j - 1 /\ b[j] - i + 1 = j
      BY <1>1
    <3>2. g[b[j]] = samples[b[j]] * ref[b[j] - i + 1]
      BY <1>5, <3>1
    <3>3. samples[i + j - 1] \in Int /\ ref[j] \in Int
      BY <1>1, <3>1
    <3>4. QED
      BY <3>1, <3>2, <3>3
  <2>3. \A x, y \in 1 .. n : b[x] = b[y] => x = y
    BY <1>1
  <2> HIDE DEF b, f
  <2>4. QED
    <3>1. (\A x \in 1 .. n : f[x] \in Int) /\ (\A x \in 1 .. n : g[b[x]] = f[x])
      BY <2>2
    <3>2. QED
      <4>1. b \in Bijection(1 .. n, i .. k)
        <5>1. b \in [1 .. n -> i .. k]
          BY <2>1 DEF b
        <5>2. QED
          BY <2>1, <2>3, <5>1 DEF Bijection, Injection, Surjection, IsInjective
      <4> HIDE DEF k
      <4>2. QED
        BY <1>7, <3>1, <4>1, SumImage
<1>11. SumFunction(f) = SumFunctionOnSet(f, 1 .. n)
  BY DEF SumFunction
<1>12. FFTProduct(X, H, N)[k] = SumFunction(f)
  <2> HIDE DEF N, k, f
  <2>1. QED
    BY <1>4, <1>8, <1>9, <1>10, <1>11
<1>13. QED
  BY <1>12 DEF X, H

\* The correlation is the sliding inner product.
LEMMA CorrelationIs ==
  ASSUME NEW n \in Nat \ {0}, NEW m \in Nat, n <= m,
         NEW ref \in [1 .. n -> Int], NEW samples \in [1 .. m -> Int]
  PROVE  /\ ~ConvThrows(Signal(samples), Flipped(RefSignal(ref)))
         /\ Correlation(Signal(samples), RefSignal(ref)).channel = Sliding(samples, ref)
<1> DEFINE s == Signal(samples)
           f == Flipped(RefSignal(ref))
           N == m + n - 1
           full == FFTProduct(Padded(s, N), Padded(f, N), N)
           out == [i \in 1 .. m - n + 1 |-> full[n - 1 + i]]
           slide == [i \in 1 .. m - n + 1 |->
                       SumFunction([j \in 1 .. n |-> samples[i + j - 1] * ref[j]])]
<1>1. s.signalLength = m /\ Len(samples) = m /\ Len(ref) = n /\ DOMAIN ref = 1 .. n
  BY DEF Signal
<1>2. f.signalLength = n
  BY FlippedReference
<1>3. csvconv(s, f) = Signal(full)
  <2> HIDE DEF s, f
  <2>1. QED
    BY <1>1, <1>2 DEF csvconv
<1>4. csvconv(s, f).channel = full
  BY <1>3 DEF Signal
<1>5. csvconv_valid(s, f) = Signal(out)
  <2> HIDE DEF s, f, full
  <2>1. QED
    BY <1>1, <1>2, <1>4 DEF csvconv_valid
<1>6. Correlation(s, RefSignal(ref)).channel = out
  <2>1. Correlation(s, RefSignal(ref)) = csvconv_valid(s, f)
    BY DEF Correlation
  <2> HIDE DEF s, f, out
  <2>2. QED
    BY <1>5, <2>1 DEF Signal
<1>7. \A i \in 1 .. m - n + 1 :
         full[n - 1 + i] = SumFunction([j \in 1 .. n |-> samples[i + j - 1] * ref[j]])
  BY ConvolutionTerms
<1>8. out = slide
  <2> HIDE DEF full
  <2>1. QED
    BY <1>7
<1>9. Sliding(samples, ref) = slide
  BY <1>1 DEF Sliding
<1>10. ~ConvThrows(s, f)
  <2> HIDE DEF s, f
  <2>1. QED
    BY <1>1, <1>2 DEF ConvThrows
<1>11. QED
  BY <1>6, <1>8, <1>9, <1>10

LEMMA SlidingType ==
  ASSUME NEW n \in Nat \ {0}, NEW m \in Nat, n <= m,
         NEW ref \in [1 .. n -> Int], NEW samples \in [1 .. m -> Int]
  PROVE  Sliding(samples, ref) \in [1 .. m - n + 1 -> Int]
<1>1. Len(samples) = m /\ Len(ref) = n /\ DOMAIN ref = 1 .. n
  OBVIOUS
<1>2. ASSUME NEW i \in 1 .. m - n + 1
      PROVE  SumFunction([j \in 1 .. n |-> samples[i + j - 1] * ref[j]]) \in Int
  <2> DEFINE f == [j \in 1 .. n |-> samples[i + j - 1] * ref[j]]
  <2>1. \A j \in 1 .. n : f[j] \in Int
    <3>1. TAKE j \in 1 .. n
    <3>2. i + j - 1 \in 1 .. m
      OBVIOUS
    <3>3. samples[i + j - 1] \in Int /\ ref[j] \in Int
      BY <3>2
    <3>4. QED
      BY <3>3
  <2>2. IsFiniteSet(1 .. n) /\ DOMAIN f = 1 .. n
    BY FS_Interval
  <2> HIDE DEF f
  <2>3. SumFunctionOnSet(f, 1 .. n) \in Int
    BY <2>1, <2>2, SumType
  <2>4. QED
    BY <2>2, <2>3 DEF SumFunction, f
<1>3. Sliding(samples, ref) =
        [i \in 1 .. m - n + 1 |-> SumFunction([j \in 1 .. n |-> samples[i + j - 1] * ref[j]])]
  BY <1>1 DEF Sliding
<1>4. QED
  BY <1>2, <1>3

\* The element std::max_element points to is the only first largest one.
LEMMA MaxElementIs ==
  ASSUME NEW n \in Nat \ {0}, NEW c \in [1 .. n -> Int]
  PROVE  /\ MaxElement(c) \in 0 .. n - 1
         /\ \A i \in 1 .. n : (/\ \A j \in 1 .. n : c[j] <= c[i]
                               /\ \A j \in 1 .. i - 1 : c[j] < c[i]) => MaxElement(c) = i - 1
<1> DEFINE P(i) == /\ \A j \in DOMAIN c : c[j] <= c[i]
                   /\ \A j \in 1 .. i - 1 : c[j] < c[i]
           x == CHOOSE i \in DOMAIN c : P(i)
<1>1. DOMAIN c = 1 .. n
  OBVIOUS
<1>2. \E i \in DOMAIN c : P(i)
  BY <1>1, FirstLargest
<1>3. x \in DOMAIN c /\ P(x)
  <2> HIDE DEF P
  <2>1. QED
    BY <1>2
<1>4. MaxElement(c) = x - 1
  BY DEF MaxElement
<1> HIDE DEF x
<1>5. ASSUME NEW i \in 1 .. n, P(i)
      PROVE  i = x
  <2>1. CASE i < x
    <3>1. i \in 1 .. x - 1
      BY <1>1, <1>3, <2>1
    <3>2. c[i] < c[x] /\ c[x] <= c[i] /\ c[i] \in Int /\ c[x] \in Int
      BY <1>1, <1>3, <1>5, <3>1
    <3>3. QED
      BY <3>2
  <2>2. CASE x < i
    <3>1. x \in 1 .. i - 1
      BY <1>1, <1>3, <2>2
    <3>2. c[x] < c[i] /\ c[i] <= c[x] /\ c[i] \in Int /\ c[x] \in Int
      BY <1>1, <1>3, <1>5, <3>1
    <3>3. QED
      BY <3>2
  <2>3. QED
    BY <1>1, <1>3, <2>1, <2>2
<1>6. QED
  BY <1>1, <1>3, <1>4, <1>5

\* Every delay found leaves room for the whole reference.
LEMMA MaxIndexFits ==
  ASSUME NEW n \in Nat \ {0}, NEW m \in Nat, n <= m,
         NEW ref \in [1 .. n -> Int], NEW samples \in [1 .. m -> Int]
  PROVE  MaxIndex(Signal(samples), RefSignal(ref)) \in 0 .. m - n
<1>1. Sliding(samples, ref) \in [1 .. m - n + 1 -> Int] /\ m - n + 1 \in Nat \ {0}
  BY SlidingType
<1>2. MaxElement(Sliding(samples, ref)) \in 0 .. (m - n + 1) - 1
  BY <1>1, MaxElementIs
<1>3. MaxIndex(Signal(samples), RefSignal(ref)) = MaxElement(Sliding(samples, ref))
  BY CorrelationIs DEF MaxIndex
<1>4. QED
  BY <1>2, <1>3

----------------------------------------------------------------------------
(* A ping in a silent frame.                                                 *)

LEMMA Square ==
  ASSUME NEW a \in Int
  PROVE  a * a \in Nat /\ (a # 0 => a * a > 0)
<1>1. CASE a >= 0
  BY <1>1
<1>2. CASE a < 0
  <2>1. PICK d \in Nat : a = -1 - d
    BY <1>2
  <2>2. a * a = 1 + d + d + d * d /\ d * d >= 0
    BY <2>1
  <2>3. QED
    BY <2>2
<1>3. QED
  BY <1>1, <1>2

LEMMA SquareOfDifference ==
  ASSUME NEW a \in Int, NEW b \in Int
  PROVE  a * a + b * b = (a - b) * (a - b) + (b * a + b * a)
OBVIOUS

Shifted(ref, t, n) == [j \in 1 .. n |-> IF j + t \in 1 .. n THEN ref[j + t] ELSE 0]
Products(f, g, n)  == [j \in 1 .. n |-> f[j] * g[j]]
InnerProduct(f, g, n) == SumFunctionOnSet(Products(f, g, n), 1 .. n)

\* The inner product of the reference with itself, shifted by t, is no larger
\* than without the shift, and smaller when it is shifted to the left.
LEMMA Overlap ==
  ASSUME NEW n \in Nat \ {0}, NEW ref \in [1 .. n -> Int], NEW t \in Int
  PROVE  /\ InnerProduct(Shifted(ref, t, n), ref, n) \in Int /\ InnerProduct(ref, ref, n) \in Int
         /\ InnerProduct(Shifted(ref, t, n), ref, n) <= InnerProduct(ref, ref, n)
         /\ t = 0 => InnerProduct(Shifted(ref, t, n), ref, n) = InnerProduct(ref, ref, n)
         /\ t < 0 /\ (\E j \in 1 .. n : ref[j] # 0) =>
               InnerProduct(Shifted(ref, t, n), ref, n) < InnerProduct(ref, ref, n)
<1> DEFINE p == Shifted(ref, t, n)
           F == Products(p, ref, n)
           R == Products(ref, ref, n)
<1>a. /\ p \in [1 .. n -> Int]
      /\ \A j \in 1 .. n : p[j] = IF j + t \in 1 .. n THEN ref[j + t] ELSE 0
  BY DEF Shifted
<1>b. /\ \A j \in 1 .. n : F[j] = p[j] * ref[j]
      /\ \A j \in 1 .. n : R[j] = ref[j] * ref[j]
  BY DEF Products
<1>c. /\ InnerProduct(Shifted(ref, t, n), ref, n) = SumFunctionOnSet(F, 1 .. n)
      /\ InnerProduct(ref, ref, n) = SumFunctionOnSet(R, 1 .. n)
  BY DEF InnerProduct
<1> HIDE DEF p, F, R
<1> DEFINE S == 1 .. n
           Q == [j \in S |-> p[j] * p[j]]
           G == [j \in S |-> R[j] + Q[j]]
           D == [j \in S |-> (ref[j] - p[j]) * (ref[j] - p[j])]
           FF == [j \in S |-> F[j] + F[j]]
           T == {j \in S : j + t \in S}
           J == {j \in S : j - t \in S}
           b == [j \in T |-> j + t]
<1>1. IsFiniteSet(S) /\ T \in SUBSET S /\ J \in SUBSET S /\ IsFiniteSet(T)
  <2>1. IsFiniteSet(S)
    BY FS_Interval
  <2>2. T \in SUBSET S /\ J \in SUBSET S
    OBVIOUS
  <2> HIDE DEF S, T, J
  <2>3. QED
    BY <2>1, <2>2, FS_Subset
<1>2. \A j \in S : ref[j] \in Int /\ p[j] \in Int
  BY <1>a
<1>3. \A j \in S : /\ F[j] \in Int /\ FF[j] \in Int
                   /\ R[j] \in Nat /\ Q[j] \in Nat /\ D[j] \in Nat
                   /\ R[j] \in Int /\ Q[j] \in Int /\ D[j] \in Int
  <2>1. SUFFICES ASSUME NEW j \in S
                 PROVE  /\ F[j] \in Int /\ FF[j] \in Int
                        /\ R[j] \in Nat /\ Q[j] \in Nat /\ D[j] \in Nat
                        /\ R[j] \in Int /\ Q[j] \in Int /\ D[j] \in Int
    BY Zenon
  <2>2. ref[j] \in Int /\ p[j] \in Int /\ ref[j] - p[j] \in Int
    BY <1>2
  <2>3. p[j] * ref[j] \in Int
    BY <2>2
  <2>4. /\ ref[j] * ref[j] \in Nat /\ p[j] * p[j] \in Nat
        /\ (ref[j] - p[j]) * (ref[j] - p[j]) \in Nat
    BY <2>2, Square
  <2>5. /\ F[j] = p[j] * ref[j] /\ R[j] = ref[j] * ref[j] /\ Q[j] = p[j] * p[j]
        /\ D[j] = (ref[j] - p[j]) * (ref[j] - p[j]) /\ FF[j] = F[j] + F[j]
    BY <1>b
  <2> HIDE DEF Q, D, FF
  <2>6. F[j] \in Int /\ R[j] \in Nat /\ Q[j] \in Nat /\ D[j] \in Nat
    BY <2>3, <2>4, <2>5, Zenon
  <2>7. QED
    BY <2>5, <2>6
<1>4. \A j \in S : G[j] = D[j] + FF[j]
  <2>1. SUFFICES ASSUME NEW j \in S PROVE G[j] = D[j] + FF[j]
    OBVIOUS
  <2>2. /\ D[j] = (ref[j] - p[j]) * (ref[j] - p[j]) /\ F[j] = p[j] * ref[j]
        /\ G[j] = R[j] + Q[j] /\ R[j] = ref[j] * ref[j] /\ Q[j] = p[j] * p[j]
        /\ FF[j] = F[j] + F[j]
    BY <1>b
  <2>3. ref[j] * ref[j] + p[j] * p[j] =
          (ref[j] - p[j]) * (ref[j] - p[j]) + (p[j] * ref[j] + p[j] * ref[j])
    BY <1>2, SquareOfDifference
  <2> HIDE DEF D, G, Q, FF
  <2>4. QED
    BY <2>2, <2>3, Zenon
<1>5. /\ SumFunctionOnSet(G, S) = SumFunctionOnSet(D, S) + SumFunctionOnSet(FF, S)
      /\ SumFunctionOnSet(FF, S) = SumFunctionOnSet(F, S) + SumFunctionOnSet(F, S)
  <2>1. \A x \in S : FF[x] = F[x] + F[x]
    OBVIOUS
  <2> HIDE DEF S, D, G, Q, FF, T, J, b
  <2>2. \A x \in S : F[x] \in Int /\ F[x] \in Int /\ FF[x] = F[x] + F[x]
    BY <1>3, <2>1, Zenon
  <2>3. \A x \in S : D[x] \in Int /\ FF[x] \in Int /\ G[x] = D[x] + FF[x]
    BY <1>3, <1>4, Zenon
  <2>4. QED
    BY <1>1, <2>2, <2>3, SumPlus
<1>6. SumFunctionOnSet(G, S) = SumFunctionOnSet(R, S) + SumFunctionOnSet(Q, S)
  <2>1. \A x \in S : G[x] = R[x] + Q[x]
    OBVIOUS
  <2> HIDE DEF S, D, G, Q, FF, T, J, b
  <2>2. \A x \in S : R[x] \in Int /\ Q[x] \in Int
    BY <1>3
  <2>3. QED
    BY <1>1, <2>1, <2>2, SumPlus
<1>7. /\ SumFunctionOnSet(F, S) \in Int /\ SumFunctionOnSet(R, S) \in Nat
      /\ SumFunctionOnSet(Q, S) \in Nat /\ SumFunctionOnSet(D, S) \in Nat
  <2> HIDE DEF S, D, Q
  <2>1. QED
    BY <1>1, <1>3, SumType, SumNatural
<1>8. SumFunctionOnSet(Q, S) <= SumFunctionOnSet(R, S)
  <2>1. SumFunctionOnSet(Q, S) = SumFunctionOnSet(Q, T)
    <3>1. \A j \in S \ T : Q[j] = 0
      BY <1>a
    <3>2. \A j \in S : Q[j] \in Int
      BY <1>3
    <3> HIDE DEF S, Q, T
    <3>3. QED
      BY <1>1, <3>1, <3>2, SumNonzero
  <2>2. SumFunctionOnSet(R, J) = SumFunctionOnSet(Q, T)
    <3>1. b \in Bijection(T, J)
      <4>1. b \in [T -> J]
        <5>1. \A x \in T : x + t \in J
          OBVIOUS
        <5>2. QED
          BY <5>1
      <4>2. \A x, y \in T : b[x] = b[y] => x = y
        OBVIOUS
      <4>3. \A y \in J : \E x \in T : b[x] = y
        <5>1. TAKE y \in J
        <5>2. y - t \in T /\ b[y - t] = y
          OBVIOUS
        <5>3. QED
          BY <5>2
      <4> HIDE DEF b, T, J
      <4>4. QED
        BY <4>1, <4>2, <4>3 DEF Bijection, Injection, Surjection, IsInjective
    <3>2. \A x \in T : R[b[x]] = Q[x] /\ Q[x] \in Int
      <4> HIDE DEF D, FF, G, J
      <4>0. \A x \in T : Q[x] \in Int
        <5> HIDE DEF S, T, Q, b
        <5>1. QED
          BY <1>1, <1>3
      <4>1. SUFFICES ASSUME NEW x \in T PROVE R[b[x]] = Q[x]
        BY <4>0
      <4>2. b[x] = x + t /\ x + t \in S /\ x \in S
        OBVIOUS
      <4>3. p[x] = ref[x + t]
        BY <1>a, <4>2
      <4> HIDE DEF b, T
      <4>4. QED
        BY <1>b, <4>2, <4>3
    <3> HIDE DEF b, T, J, Q, S, D, FF, G
    <3>3. (\A x \in T : Q[x] \in Int) /\ \A x \in T : R[b[x]] = Q[x]
      BY <3>2
    <3>4. QED
      BY <1>1, <3>1, <3>3, SumImage
  <2>3. SumFunctionOnSet(R, J) <= SumFunctionOnSet(R, S)
    <3> HIDE DEF S, J, Q, D
    <3>1. QED
      BY <1>1, <1>3, SumSmaller
  <2>4. QED
    BY <2>1, <2>2, <2>3
<1>9. ASSUME t = 0
      PROVE  SumFunctionOnSet(F, S) = SumFunctionOnSet(R, S)
  <2>1. \A j \in S : F[j] = R[j] /\ R[j] \in Int
    <3>1. \A j \in S : p[j] = ref[j]
      BY <1>a, <1>9
    <3>2. QED
      BY <1>b, <1>3, <3>1
  <2> HIDE DEF S
  <2>2. QED
    BY <1>1, <2>1, SumEqual
<1>10. ASSUME t < 0, NEW z \in S, ref[z] # 0
       PROVE  SumFunctionOnSet(D, S) > 0
  <2> DEFINE Z == {j \in S : ref[j] # 0}
  <2>1. Z \in SUBSET Nat /\ z \in Z
    <3> HIDE DEF D, FF, G, Q
    <3>1. QED
      BY <1>10
  <2>2. PICK l \in Z : \A j \in Z : l <= j
    <3> HIDE DEF Z
    <3>1. QED
      BY <2>1, Least
  <2>3. p[l] = 0
    <3>1. CASE l + t \in 1 .. n
      <4>1. l + t \notin Z
        BY <1>10, <2>2
      <4>2. ref[l + t] = 0
        BY <3>1, <4>1
      <4>3. QED
        BY <1>a, <2>2, <3>1, <4>2
    <3>2. CASE l + t \notin 1 .. n
      BY <1>a, <2>2, <3>2
    <3>3. QED
      BY <3>1, <3>2
  <2>4. D[l] = (ref[l] - 0) * (ref[l] - 0) /\ ref[l] - 0 \in Int /\ ref[l] - 0 # 0 /\ l \in S
    BY <2>2, <2>3
  <2>5. D[l] > 0
    <3> HIDE DEF D
    <3>1. QED
      BY <2>4, Square
  <2>6. \A j \in S : D[j] \in Nat
    BY <1>3
  <2> HIDE DEF S, D
  <2>7. QED
    BY <1>1, <2>4, <2>5, <2>6, SumPositive
<1> DEFINE sF == SumFunctionOnSet(F, S)  sR == SumFunctionOnSet(R, S)
           sQ == SumFunctionOnSet(Q, S)  sD == SumFunctionOnSet(D, S)
<1>11. /\ sR + sQ = sD + (sF + sF) /\ sQ <= sR /\ (t = 0 => sF = sR)
       /\ sF \in Int /\ sR \in Nat /\ sQ \in Nat /\ sD \in Nat
       /\ t < 0 /\ (\E j \in 1 .. n : ref[j] # 0) => sD > 0
  <2> HIDE DEF D, Q, G, FF
  <2>1. QED
    BY <1>5, <1>6, <1>7, <1>8, <1>9, <1>10
<1>12. /\ sF \in Int /\ sR \in Int /\ sF <= sR /\ (t = 0 => sF = sR)
       /\ t < 0 /\ (\E j \in 1 .. n : ref[j] # 0) => sF < sR
  <2> HIDE DEF sF, sR, sQ, sD
  <2>1. QED
    BY <1>11
<1>13. QED
  BY <1>c, <1>12

\* A ping in a silent frame is found where it is.
LEMMA PingIs ==
  ASSUME NEW n \in Nat \ {0}, NEW m \in Nat, n <= m,
         NEW ref \in [1 .. n -> Int], \E j \in 1 .. n : ref[j] # 0,
         NEW delay \in 0 .. m - n,
         NEW samples \in [1 .. m -> Int], samples = Ping(ref, delay, m)
  PROVE  MaxIndex(Signal(samples), RefSignal(ref)) = delay
<1> DEFINE c == Sliding(samples, ref)
           M == m - n + 1
           E == InnerProduct(ref, ref, n)
<1>1. Len(samples) = m /\ Len(ref) = n /\ DOMAIN ref = 1 .. n
  OBVIOUS
<1>2. c \in [1 .. M -> Int] /\ M \in Nat \ {0} /\ delay + 1 \in 1 .. M
  BY SlidingType
<1>3. ASSUME NEW i \in 1 .. M
      PROVE  /\ c[i] \in Int /\ E \in Int /\ c[i] <= E
             /\ i = delay + 1 => c[i] = E
             /\ i < delay + 1 => c[i] < E
  <2> DEFINE t == i - 1 - delay
             p == Shifted(ref, t, n)
             F == [j \in 1 .. n |-> samples[i + j - 1] * ref[j]]
  <2> HIDE DEF c, E, p, F
  <2>1. t \in Int /\ (i = delay + 1 => t = 0) /\ (i < delay + 1 => t < 0)
    OBVIOUS
  <2>2. \A j \in 1 .. n : i + j - 1 \in 1 .. m /\ (i + j - 1) - delay = j + t
    <3>1. i \in Int /\ i >= 1 /\ i <= m - n + 1 /\ delay \in Int
      OBVIOUS
    <3>2. TAKE j \in 1 .. n
    <3>3. i + j - 1 \in 1 .. m
      BY <3>1
    <3>4. (i + j - 1) - delay = j + t
      BY <3>1
    <3>5. QED
      BY <3>3, <3>4
  <2>3. \A k \in 1 .. m : samples[k] = IF k - delay \in 1 .. n THEN ref[k - delay] ELSE 0
    BY <1>1 DEF Ping
  <2> HIDE DEF t
  <2>4. \A j \in 1 .. n : p[j] = samples[i + j - 1]
    <3>1. TAKE j \in 1 .. n
    <3>2. p[j] = IF j + t \in 1 .. n THEN ref[j + t] ELSE 0
      BY DEF p, Shifted
    <3>3. QED
      BY <2>2, <2>3, <3>2
  <2>5. F = Products(p, ref, n)
    BY <2>4 DEF Products, F
  <2>6. c[i] = InnerProduct(p, ref, n)
    <3>1. c[i] = SumFunction(F)
      BY <1>1 DEF Sliding, c, F
    <3>2. DOMAIN F = 1 .. n
      BY DEF F
    <3>3. QED
      BY <2>5, <3>1, <3>2 DEF SumFunction, InnerProduct
  <2>7. /\ InnerProduct(p, ref, n) \in Int /\ E \in Int
        /\ InnerProduct(p, ref, n) <= E
        /\ t = 0 => InnerProduct(p, ref, n) = E
        /\ t < 0 => InnerProduct(p, ref, n) < E
    BY <2>1, Overlap DEF p, E
  <2>8. QED
    BY <2>1, <2>6, <2>7
<1> HIDE DEF c, M, E
<1>4. /\ \A j \in 1 .. M : c[j] <= c[delay + 1]
      /\ \A j \in 1 .. (delay + 1) - 1 : c[j] < c[delay + 1]
  <2>1. c[delay + 1] = E
    BY <1>2, <1>3
  <2>2. \A j \in 1 .. (delay + 1) - 1 : j \in 1 .. M /\ j < delay + 1
    BY <1>2
  <2>3. QED
    BY <1>3, <2>1, <2>2
<1>5. MaxElement(c) = (delay + 1) - 1
  BY <1>2, <1>4, MaxElementIs
<1>6. MaxIndex(Signal(samples), RefSignal(ref)) = MaxElement(c)
  BY CorrelationIs DEF MaxIndex, c
<1>7. QED
  BY <1>5, <1>6

----------------------------------------------------------------------------
(* Every behaviour of Operators builds inputs the lemmas are about.          *)

LEMMA Appending ==
  ASSUME NEW S, NEW s \in Seq(S), NEW x \in S
  PROVE  /\ Append(s, x) \in Seq(S) /\ Len(Append(s, x)) = Len(s) + 1
         /\ \A i \in 1 .. Len(s) : Append(s, x)[i] = s[i]
         /\ Append(s, x)[Len(s) + 1] = x /\ Append(s, x) # << >>
OBVIOUS

THEOREM InputsInvariant == Spec => []Inputs
<1>1. Init => Inputs
  <2> SUFFICES ASSUME Init PROVE Inputs
    OBVIOUS
  <2>1. /\ << >> \in Seq(Samples) /\ << >> \in Seq(0 .. FrameLength - Len(reference))
        /\ <<Dollar>> \in Seq(0 .. 127) /\ Len(<<Dollar>>) = 1 /\ <<Dollar>>[1] = Dollar
    BY DEF Dollar
  <2>2. QED
    BY <2>1 DEF Init, Inputs
<1>2. Inputs /\ [Next]_vars => Inputs'
  <2> SUFFICES ASSUME Inputs, [Next]_vars PROVE Inputs'
    OBVIOUS
  <2> USE DEF Inputs
  <2>1. CASE AddReferenceSample
    <3>1. PICK x \in Samples : reference' = Append(reference, x)
      BY <2>1 DEF AddReferenceSample
    <3>2. reference' \in Seq(Samples) /\ reference' # << >>
      BY <3>1, Appending
    <3>3. delays' = << >> /\ << >> \in Seq(0 .. FrameLength - Len(reference'))
      BY <2>1 DEF AddReferenceSample
    <3>4. QED
      BY <2>1, <3>2, <3>3 DEF AddReferenceSample
  <2>2. CASE AddChannel
    <3>1. PICK d \in 0 .. FrameLength - Len(reference) : delays' = Append(delays, d)
      BY <2>2 DEF AddChannel
    <3>2. delays' \in Seq(0 .. FrameLength - Len(reference)) /\ reference' = reference
      BY <2>2, <3>1, Appending DEF AddChannel
    <3>3. QED
      BY <2>2, <3>2 DEF AddChannel
  <2>3. CASE AddNoise
    <3>1. PICK x \in Samples : noise' = Append(noise, x)
      BY <2>3 DEF AddNoise
    <3>2. noise' \in Seq(Samples)
      BY <3>1, Appending
    <3>3. QED
      BY <2>3, <3>2 DEF AddNoise
  <2>4. CASE ChooseStep
    BY <2>4 DEF ChooseStep
  <2>5. CASE ChooseData
    BY <2>5 DEF ChooseData
  <2>6. CASE AddCharacter
    <3>1. PICK c \in Alphabet : body' = Append(body, c)
      BY <2>6 DEF AddCharacter
    <3>2. c \in 0 .. 127
      BY OperatorsAssumption
    <3>3. /\ body' \in Seq(0 .. 127) /\ Len(body') = Len(body) + 1 /\ body' # << >>
          /\ \A i \in 1 .. Len(body) : body'[i] = body[i]
          /\ body'[Len(body) + 1] = c
      BY <3>1, <3>2, Appending
    <3>4. body'[1] = Dollar
      <4>1. 1 \in 1 .. Len(body)
        OBVIOUS
      <4>2. QED
        BY <3>3, <4>1
    <3>5. ASSUME NEW i \in 2 .. Len(body') PROVE body'[i] \in Alphabet
      <4>1. CASE i = Len(body) + 1
        BY <3>3, <4>1
      <4>2. CASE i # Len(body) + 1
        <5>1. i \in 2 .. Len(body) /\ i \in 1 .. Len(body)
          BY <3>3, <4>2
        <5>2. QED
          BY <3>3, <5>1
      <4>3. QED
        BY <4>1, <4>2
    <3>6. QED
      BY <2>6, <3>3, <3>4, <3>5 DEF AddCharacter
  <2>7. CASE UNCHANGED vars
    BY <2>7 DEF vars
  <2>8. QED
    BY <2>1, <2>2, <2>3, <2>4, <2>5, <2>6, <2>7 DEF Next
<1>3. QED
  BY <1>1, <1>2, PTL DEF Spec

\* What Inputs says of the signals.
LEMMA FrameIs ==
  ASSUME Inputs, NEW c \in DOMAIN delays
  PROVE  LET n == Len(reference)
         IN  /\ n \in Nat \ {0} /\ FrameLength \in Nat /\ n <= FrameLength
             /\ reference \in [1 .. n -> Int]
             /\ delays[c] \in 0 .. FrameLength - n
             /\ \E samples \in [1 .. FrameLength -> Int] :
                   /\ Frame(c) = Signal(samples)
                   /\ ToSet(noise) \subseteq {0} => samples = Ping(reference, delays[c], FrameLength)
<1> DEFINE n == Len(reference)
           m == FrameLength
           ping == Ping(reference, delays[c], m)
           samples == [i \in 1 .. m |-> ping[i] + IF i \in DOMAIN noise THEN noise[i] ELSE 0]
<1>1. n \in Nat \ {0} /\ m \in Nat /\ delays[c] \in 0 .. m - n /\ n <= m
  <2>1. delays # << >> /\ delays[c] \in 0 .. m - n
    <3>1. delays \in Seq(0 .. m - n)
      BY DEF Inputs
    <3>2. delays # << >>
      OBVIOUS
    <3>3. \A D : delays \in Seq(D) => delays[c] \in D
      OBVIOUS
    <3>4. QED
      BY <3>1, <3>2, <3>3
  <2>2. reference # << >> /\ reference \in Seq(Samples)
    BY <2>1 DEF Inputs
  <2>3. n \in Nat \ {0}
    BY <2>2
  <2>4. QED
    BY <2>1, <2>3, OperatorsAssumption
<1>2. \A i \in DOMAIN reference : reference[i] \in Int
  BY OperatorsAssumption DEF Inputs, Samples
<1>3. \A i \in DOMAIN noise : noise[i] \in Int
  BY OperatorsAssumption DEF Inputs, Samples
<1>4. reference \in [1 .. n -> Int]
  BY <1>2 DEF Inputs
<1>5. \A i \in 1 .. m : ping[i] \in Int
  BY <1>2 DEF Ping
<1>6. samples \in [1 .. m -> Int]
  <2> HIDE DEF ping
  <2>1. QED
    BY <1>3, <1>5
<1>7. Frame(c) = Signal(samples)
  BY DEF Frame
<1>8. ASSUME ToSet(noise) \subseteq {0} PROVE samples = ping
  <2>1. \A i \in DOMAIN noise : noise[i] = 0
    BY <1>8 DEF ToSet
  <2>2. ping = [i \in 1 .. m |-> ping[i]]
    BY DEF Ping
  <2> HIDE DEF ping
  <2>3. \A i \in 1 .. m : samples[i] = ping[i]
    BY <1>5, <2>1
  <2>4. QED
    BY <2>2, <2>3
<1> HIDE DEF samples
<1>9. QED
  BY <1>1, <1>4, <1>6, <1>7, <1>8

\* The matched filter of TOF::calculateTOF (csvconv_valid of the frame and the
\* reversed reference) computes the sliding inner product and does not throw, for
\* every reference and every frame it fits into.
THEOREM FilterSlides == Spec => []CorrelationSlides
<1>1. ASSUME Inputs PROVE CorrelationSlides
  <2> SUFFICES ASSUME NEW c \in DOMAIN delays
               PROVE  /\ ~ConvThrows(Frame(c), Flipped(RefSignal(reference)))
                      /\ Correlation(Frame(c), RefSignal(reference)).channel
                           = Sliding(Frame(c).channel, reference)
    BY DEF CorrelationSlides
  <2> DEFINE n == Len(reference)
  <2>1. /\ n \in Nat \ {0} /\ FrameLength \in Nat /\ n <= FrameLength
        /\ reference \in [1 .. n -> Int]
    BY <1>1, FrameIs
  <2>2. PICK samples \in [1 .. FrameLength -> Int] : Frame(c) = Signal(samples)
    BY <1>1, FrameIs
  <2>3. Frame(c).channel = samples
    BY <2>2 DEF Signal
  <2>4. /\ ~ConvThrows(Signal(samples), Flipped(RefSignal(reference)))
        /\ Correlation(Signal(samples), RefSignal(reference)).channel = Sliding(samples, reference)
    <3> HIDE DEF n
    <3>1. QED
      BY <2>1, CorrelationIs
  <2>5. QED
    BY <2>2, <2>3, <2>4
<1>2. QED
  BY <1>1, InputsInvariant, PTL

\* TOF::calculateTOF finds a ping in a silent frame at the sample where it starts,
\* for every reference that is not silent, every frame and every delay.
THEOREM PingIsFound == Spec => []PingFound
<1>1. ASSUME Inputs PROVE PingFound
  <2> SUFFICES ASSUME ToSet(noise) \subseteq {0}, ~ToSet(reference) \subseteq {0},
                      NEW c \in DOMAIN delays
               PROVE  MaxIndex(Frame(c), RefSignal(reference)) = delays[c]
    BY DEF PingFound
  <2> DEFINE n == Len(reference)
  <2>1. /\ n \in Nat \ {0} /\ FrameLength \in Nat /\ n <= FrameLength
        /\ reference \in [1 .. n -> Int] /\ delays[c] \in 0 .. FrameLength - n
    BY <1>1, FrameIs
  <2>2. PICK samples \in [1 .. FrameLength -> Int] :
           Frame(c) = Signal(samples) /\ samples = Ping(reference, delays[c], FrameLength)
    BY <1>1, FrameIs
  <2>3. \E j \in 1 .. n : reference[j] # 0
    BY <2>1 DEF ToSet
  <2>4. MaxIndex(Signal(samples), RefSignal(reference)) = delays[c]
    <3> HIDE DEF n
    <3>1. QED
      BY <2>1, <2>2, <2>3, PingIs
  <2>5. QED
    BY <2>2, <2>4
<1>2. QED
  BY <1>1, InputsInvariant, PTL

\* The window of SignalProcess::calculateDOA around the least delay found lies
\* inside the frame, in every frame, with noise or without.
THEOREM WindowIsInside == Spec => []WindowInside
<1>1. ASSUME Inputs PROVE WindowInside
  <2> DEFINE n == Len(reference)
             maxIndices == {MaxIndex(Frame(c), RefSignal(reference)) : c \in DOMAIN delays}
  <2> SUFFICES ASSUME delays # << >>,
                      NEW type \in {"SIG_CHRIP", "SIG_RISING"},
                      NEW product \in 1 .. Unit * MaxReference,
                      NEW process \in Unit .. product,
                      NEW frequency \in 1 .. MaxRate, NEW rate \in 1 .. frequency,
                      SampleNum(type, product) = Len(reference),
                      NEW start \in StartIndices(MinTOF(maxIndices), frequency, rate)
               PROVE  ~TrimThrows(FrameLength, start, DoaEnd(start, DoaSignalLength(process)))
    BY DEF WindowInside
  <2>1. \A c \in DOMAIN delays : MaxIndex(Frame(c), RefSignal(reference)) \in 0 .. FrameLength - n
    <3>1. TAKE c \in DOMAIN delays
    <3>2. /\ n \in Nat \ {0} /\ FrameLength \in Nat /\ n <= FrameLength
          /\ reference \in [1 .. n -> Int]
      BY <1>1, FrameIs
    <3>3. PICK samples \in [1 .. FrameLength -> Int] : Frame(c) = Signal(samples)
      BY <1>1, FrameIs
    <3>4. MaxIndex(Signal(samples), RefSignal(reference)) \in 0 .. FrameLength - n
      <4> HIDE DEF n
      <4>1. QED
        BY <3>2, MaxIndexFits
    <3>5. QED
      BY <3>3, <3>4
  <2>2. maxIndices \in SUBSET Nat /\ maxIndices # {}
    <3>1. 1 \in DOMAIN delays
      BY <1>1 DEF Inputs
    <3>2. QED
      BY <2>1, <3>1
  <2>3. MinTOF(maxIndices) \in maxIndices
    <3> HIDE DEF maxIndices
    <3>1. \E m \in maxIndices : \A k \in maxIndices : m <= k
      BY <2>2, Least
    <3>2. QED
      BY <3>1 DEF MinTOF
  <2>4. MinTOF(maxIndices) \in 0 .. FrameLength - n
    BY <2>1, <2>3
  <2>5. n \in Nat /\ FrameLength \in Nat /\ product \in Nat /\ frequency \in Nat \ {0}
    BY <1>1, OperatorsAssumption DEF Inputs
  <2>6. MinTOF(maxIndices) \in Nat /\ MinTOF(maxIndices) + SampleNum(type, product) <= FrameLength
    <3> HIDE DEF maxIndices
    <3>1. QED
      BY <2>4, <2>5
  <2> HIDE DEF maxIndices
  <2>7. QED
    BY <2>5, <2>6, WindowFits
<1>2. QED
  BY <1>1, InputsInvariant, PTL

\* Each direction DOA::doa scans has a column of its own in the beam pattern, and
\* is the one reported for it, for every step.
THEOREM BeamsAreDistinct == Spec => []BeamsDistinct
<1>1. ASSUME Inputs PROVE BeamsDistinct
  <2> SUFFICES ASSUME doaStep # 0, NEW k \in Directions(doaStep)
               PROVE  /\ N2(Direction(k, doaStep), doaStep) \in 0 .. Columns(doaStep) - 1
                      /\ Doa(N2(Direction(k, doaStep), doaStep), doaStep) = Direction(k, doaStep)
    BY DEF BeamsDistinct
  <2>1. doaStep \in Nat \ {0}
    BY <1>1, OperatorsAssumption DEF Inputs
  <2>2. /\ N2(Direction(k, doaStep), doaStep) = k - 1
        /\ k - 1 \in 0 .. Columns(doaStep) - 1
        /\ Doa(k - 1, doaStep) = Direction(k, doaStep)
    BY <2>1, BeamColumns
  <2>3. QED
    BY <2>2
<1>2. QED
  BY <1>1, InputsInvariant, PTL

----------------------------------------------------------------------------
(* Packets: what lies where in a buffer.                                     *)

Carries(buffer, offset, value, size) ==
    /\ offset + size <= Len(buffer)
    /\ \A k \in 1 .. size : buffer[offset + k] = <<value, k>>

LEMMA ReadAt ==
  ASSUME NEW buffer, NEW offset \in Nat, NEW size \in Nat \ {0}, NEW v, Carries(buffer, offset, v, size)
  PROVE  Read(buffer, offset, size) = v
<1>1. 1 \in 1 .. size
  OBVIOUS
<1>2. buffer[offset + 1] = <<v, 1>>
  BY <1>1 DEF Carries
<1>3. buffer[offset + 1][1] = v
  BY <1>2
<1>4. QED
  BY <1>3 DEF Read, Carries

LEMMA BytesCarry ==
  ASSUME NEW W, NEW v \in W, NEW size \in Nat
  PROVE  /\ Bytes(v, size) \in Seq(W \X Nat) /\ Len(Bytes(v, size)) = size
         /\ Carries(Bytes(v, size), 0, v, size)
<1>1. Bytes(v, size) \in [1 .. size -> W \X Nat]
  BY DEF Bytes
<1>2. Bytes(v, size) \in Seq(W \X Nat) /\ Len(Bytes(v, size)) = size
  BY <1>1
<1>3. \A k \in 1 .. size : Bytes(v, size)[0 + k] = <<v, k>>
  BY DEF Bytes
<1>4. QED
  BY <1>2, <1>3 DEF Carries

\* A value stays where it is when more is appended, and is moved by what comes
\* before it.
LEMMA CarriesOn ==
  ASSUME NEW V, NEW s \in Seq(V), NEW t \in Seq(V), NEW offset \in Nat, NEW size \in Nat, NEW v
  PROVE  /\ Carries(s, offset, v, size) => Carries(s \o t, offset, v, size)
         /\ Carries(t, offset, v, size) => Carries(s \o t, Len(s) + offset, v, size)
<1> DEFINE u == s \o t
<1>1. /\ Len(u) = Len(s) + Len(t) /\ Len(s) \in Nat /\ Len(t) \in Nat
      /\ \A i \in 1 .. Len(s) : u[i] = s[i]
      /\ \A i \in 1 .. Len(t) : u[Len(s) + i] = t[i]
  BY Concatenation
<1> HIDE DEF u
<1>2. ASSUME Carries(s, offset, v, size) PROVE Carries(u, offset, v, size)
  <2>1. offset + size <= Len(s) /\ \A k \in 1 .. size : s[offset + k] = <<v, k>>
    BY <1>2 DEF Carries
  <2>2. \A k \in 1 .. size : offset + k \in 1 .. Len(s)
    BY <1>1, <2>1
  <2>3. \A k \in 1 .. size : u[offset + k] = s[offset + k]
    BY <1>1, <2>2
  <2>4. offset + size <= Len(u)
    BY <1>1, <2>1
  <2>5. \A k \in 1 .. size : u[offset + k] = <<v, k>>
    BY <2>1, <2>3
  <2>6. QED
    BY <2>4, <2>5 DEF Carries
<1>3. ASSUME Carries(t, offset, v, size) PROVE Carries(u, Len(s) + offset, v, size)
  <2>0. offset + size <= Len(t) /\ \A k \in 1 .. size : t[offset + k] = <<v, k>>
    BY <1>3 DEF Carries
  <2>1. \A k \in 1 .. size : offset + k \in 1 .. Len(t)
    BY <1>1, <2>0
  <2>2. \A k \in 1 .. size : (Len(s) + offset) + k = Len(s) + (offset + k)
    BY <1>1
  <2>3. \A k \in 1 .. size : u[(Len(s) + offset) + k] = <<v, k>>
    BY <1>1, <2>0, <2>1, <2>2
  <2>4. (Len(s) + offset) + size <= Len(u)
    BY <1>1, <1>3 DEF Carries
  <2>5. QED
    BY <2>3, <2>4 DEF Carries
<1>4. QED
  BY <1>2, <1>3 DEF u

\* Appending the bytes of a value: they are behind what was there.
Kept(s, u) ==
    \A offset \in Nat, length \in Nat : \A x :
        Carries(s, offset, x, length) => Carries(u, offset, x, length)

Appended(s, u, v, size, V) ==
    u \in Seq(V) /\ Len(u) = Len(s) + size /\ Carries(u, Len(s), v, size) /\ Kept(s, u)

LEMMA AppendBytes ==
  ASSUME NEW W, NEW s \in Seq(W \X Nat), NEW v \in W, NEW size \in Nat
  PROVE  Appended(s, s \o Bytes(v, size), v, size, W \X Nat)
<1> DEFINE t == Bytes(v, size)
<1>1. t \in Seq(W \X Nat) /\ Len(t) = size /\ Carries(t, 0, v, size)
  BY BytesCarry
<1> HIDE DEF t
<1>2. s \o t \in Seq(W \X Nat) /\ Len(s \o t) = Len(s) + size
  BY <1>1, Concatenation
<1>3. Carries(s \o t, Len(s), v, size)
  <2>1. Len(s) + 0 = Len(s)
    OBVIOUS
  <2>2. Carries(s \o t, Len(s) + 0, v, size)
    BY <1>1, CarriesOn
  <2>3. QED
    BY <2>1, <2>2
<1>4. Kept(s, s \o t)
  BY <1>1, CarriesOn DEF Kept
<1>5. QED
  BY <1>2, <1>3, <1>4 DEF t, Appended

\* The data of a packet: one value of 8 bytes behind the other.
LEMMA FlattenedBytes ==
  ASSUME NEW W, NEW m \in Nat, NEW samples \in [1 .. m -> W]
  PROVE  LET t == FlattenSeq([i \in DOMAIN samples |-> Bytes(samples[i], Double)])
         IN  /\ t \in Seq(W \X Nat) /\ Len(t) = m * 8
             /\ \A i \in 1 .. m : Carries(t, (i - 1) * 8, samples[i], 8)
<1> DEFINE q == [i \in DOMAIN samples |-> Bytes(samples[i], Double)]
           t == FlattenSeq(q)
<1>1. q \in [1 .. m -> [1 .. 8 -> W \X Nat]]
  BY DEF Bytes, Double
<1>2. \A i \in 1 .. m, k \in 1 .. 8 : q[i][k] = <<samples[i], k>>
  BY DEF Bytes, Double
<1> HIDE DEF q
<1> DEFINE D == W \X Nat
<1> HIDE DEF D
<1>a. q \in [1 .. m -> [1 .. Double -> D]] /\ Double \in Nat
  BY <1>1 DEF D, Double
<1>b. FlattenSeq(q) \in Seq(D) /\ InRow(FlattenSeq(q), q, m, Double)
  BY <1>a, FlattenUniform
<1>3. /\ t \in Seq(W \X Nat) /\ Len(t) = m * 8
      /\ \A i \in 1 .. m : \A k \in 1 .. 8 :
            /\ (i - 1) * 8 + k \in 1 .. m * 8
            /\ t[(i - 1) * 8 + k] = q[i][k]
  BY <1>b DEF D, Double, InRow
<1> HIDE DEF t
<1>4. ASSUME NEW i \in 1 .. m PROVE Carries(t, (i - 1) * 8, samples[i], 8)
  <2>1. 8 \in 1 .. 8
    OBVIOUS
  <2>2. (i - 1) * 8 + 8 <= Len(t)
    BY <1>3, <2>1
  <2>3. \A k \in 1 .. 8 : t[(i - 1) * 8 + k] = <<samples[i], k>>
    BY <1>2, <1>3
  <2>4. QED
    BY <2>2, <2>3 DEF Carries
<1>5. QED
  BY <1>3, <1>4 DEF t, q

\* What serialize writes, and where deserialize looks for it.
LEMMA Serialized ==
  ASSUME NEW W, NEW p, NEW m \in Nat, p.channelData \in [1 .. m -> W],
         p.packetLength \in W, p.signalType \in W, p.isInit \in W, p.channelNum \in W,
         p.signalLength \in W, p.checksum \in W
  PROVE  LET buffer == serialize(p)
         IN  /\ Len(buffer) = 21 + m * 8
             /\ Carries(buffer, 4, p.signalType, 4) /\ Carries(buffer, 8, p.isInit, 1)
             /\ Carries(buffer, 9, p.channelNum, 4) /\ Carries(buffer, 13, p.signalLength, 4)
             /\ \A i \in 1 .. m : Carries(buffer, 17 + (i - 1) * 8, p.channelData[i], 8)
<1> DEFINE V  == W \X Nat
           s1 == Bytes(p.packetLength, Int32)
           s2 == s1 \o Bytes(p.signalType, Int32)
           s3 == s2 \o Bytes(p.isInit, Bool)
           s4 == s3 \o Bytes(p.channelNum, Int32)
           s5 == s4 \o Bytes(p.signalLength, Int32)
           t  == FlattenSeq([i \in DOMAIN p.channelData |-> Bytes(p.channelData[i], Double)])
           s6 == s5 \o t
           s7 == s6 \o Bytes(p.checksum, Int32)
<1>1. Int32 = 4 /\ Bool = 1 /\ Int32 \in Nat /\ Bool \in Nat
  BY DEF Int32, Bool
<1>2. serialize(p) = s7
  BY DEF serialize
<1>3. s1 \in Seq(V) /\ Len(s1) = 4
  BY <1>1, BytesCarry
<1> HIDE DEF s1
<1>4. s2 \in Seq(V) /\ Len(s2) = 4 + 4 /\ Carries(s2, 4, p.signalType, 4)
  <2>1. Appended(s1, s2, p.signalType, Int32, V)
    BY <1>1, <1>3, AppendBytes
  <2> HIDE DEF s2, V
  <2>2. QED
    BY <1>1, <1>3, <2>1 DEF Appended
<1> HIDE DEF s2
<1>5. s3 \in Seq(V) /\ Len(s3) = 8 + 1 /\ Carries(s3, 8, p.isInit, 1) /\ Kept(s2, s3)
  <2>1. Appended(s2, s3, p.isInit, Bool, V)
    BY <1>1, <1>4, AppendBytes
  <2> HIDE DEF s3, V
  <2>2. QED
    BY <1>1, <1>4, <2>1 DEF Appended
<1> HIDE DEF s3
<1>6. s4 \in Seq(V) /\ Len(s4) = 9 + 4 /\ Carries(s4, 9, p.channelNum, 4) /\ Kept(s3, s4)
  <2>1. Appended(s3, s4, p.channelNum, Int32, V)
    BY <1>1, <1>5, AppendBytes
  <2> HIDE DEF s4, V
  <2>2. QED
    BY <1>1, <1>5, <2>1 DEF Appended
<1> HIDE DEF s4
<1>7. s5 \in Seq(V) /\ Len(s5) = 13 + 4 /\ Carries(s5, 13, p.signalLength, 4) /\ Kept(s4, s5)
  <2>1. Appended(s4, s5, p.signalLength, Int32, V)
    BY <1>1, <1>6, AppendBytes
  <2> HIDE DEF s5, V
  <2>2. QED
    BY <1>1, <1>6, <2>1 DEF Appended
<1> HIDE DEF s5
<1>8. /\ t \in Seq(V) /\ Len(t) = m * 8
      /\ \A i \in 1 .. m : Carries(t, (i - 1) * 8, p.channelData[i], 8)
  BY FlattenedBytes
<1> HIDE DEF t
<1>9. s6 \in Seq(V) /\ Len(s6) = 17 + m * 8 /\ Kept(s5, s6)
  <2>1. s6 \in Seq(V) /\ Len(s6) = 17 + m * 8
    <3>1. s6 \in Seq(V) /\ Len(s6) = Len(s5) + Len(t)
      <4> HIDE DEF V
      <4>1. QED
        BY <1>7, <1>8, Concatenation
    <3>2. QED
      BY <1>7, <1>8, <3>1
  <2>2. Kept(s5, s6)
    BY <1>7, <1>8, CarriesOn DEF Kept
  <2>3. QED
    BY <2>1, <2>2
<1>10. ASSUME NEW i \in 1 .. m PROVE Carries(s6, 17 + (i - 1) * 8, p.channelData[i], 8)
  <2>1. (i - 1) * 8 \in Nat /\ 8 \in Nat
    OBVIOUS
  <2>2. Carries(s6, Len(s5) + (i - 1) * 8, p.channelData[i], 8)
    BY <1>7, <1>8, <2>1, CarriesOn
  <2>3. QED
    BY <1>7, <2>2
<1> HIDE DEF s6
<1>11. s7 \in Seq(V) /\ Len(s7) = (17 + m * 8) + 4 /\ Kept(s6, s7)
  <2>1. Appended(s6, s7, p.checksum, Int32, V)
    BY <1>1, <1>9, AppendBytes
  <2> HIDE DEF s7, V
  <2>2. QED
    BY <1>1, <1>9, <2>1 DEF Appended
<1> HIDE DEF s7
<1>12. Carries(s7, 4, p.signalType, 4)
  BY <1>4, <1>5, <1>6, <1>7, <1>9, <1>11 DEF Kept
<1>13. Carries(s7, 8, p.isInit, 1)
  BY <1>5, <1>6, <1>7, <1>9, <1>11 DEF Kept
<1>14. Carries(s7, 9, p.channelNum, 4)
  BY <1>6, <1>7, <1>9, <1>11 DEF Kept
<1>15. Carries(s7, 13, p.signalLength, 4)
  BY <1>7, <1>9, <1>11 DEF Kept
<1>16. \A i \in 1 .. m : Carries(s7, 17 + (i - 1) * 8, p.channelData[i], 8)
  <2> TAKE i \in 1 .. m
  <2>1. 17 + (i - 1) * 8 \in Nat /\ 8 \in Nat
    OBVIOUS
  <2>2. QED
    BY <1>10, <1>11, <2>1 DEF Kept
<1>17. Len(s7) = 21 + m * 8
  BY <1>11
<1>18. QED
  BY <1>2, <1>12, <1>13, <1>14, <1>15, <1>16, <1>17

\* What deserialize reads in a buffer serialize has filled.
LEMMA Deserialized ==
  ASSUME NEW W, NEW p, NEW m \in Nat, p.channelData \in [1 .. m -> W],
         p.packetLength \in W, p.signalType \in W, p.isInit \in W, p.channelNum \in W,
         p.signalLength \in W, p.checksum \in W
  PROVE  /\ Len(serialize(p)) = 21 + m * 8
         /\ deserialize(serialize(p)) =
               Packet(p.isInit, p.channelNum, p.signalLength,
                      ReadChannels(serialize(p), 17, p.channelNum, p.signalLength), p.signalType)
         /\ \A i \in 1 .. m : Read(serialize(p), 17 + (i - 1) * 8, 8) = p.channelData[i]
<1> DEFINE buffer == serialize(p)
<1>1. /\ Len(buffer) = 21 + m * 8
      /\ Carries(buffer, 4, p.signalType, 4) /\ Carries(buffer, 8, p.isInit, 1)
      /\ Carries(buffer, 9, p.channelNum, 4) /\ Carries(buffer, 13, p.signalLength, 4)
      /\ \A i \in 1 .. m : Carries(buffer, 17 + (i - 1) * 8, p.channelData[i], 8)
  BY Serialized
<1> HIDE DEF buffer
<1>2. /\ Read(buffer, 4, 4) = p.signalType /\ Read(buffer, 8, 1) = p.isInit
      /\ Read(buffer, 9, 4) = p.channelNum /\ Read(buffer, 13, 4) = p.signalLength
  BY <1>1, ReadAt
<1>3. ASSUME NEW i \in 1 .. m PROVE Read(buffer, 17 + (i - 1) * 8, 8) = p.channelData[i]
  <2>1. 17 + (i - 1) * 8 \in Nat /\ 8 \in Nat \ {0}
    OBVIOUS
  <2>2. QED
    BY <1>1, <2>1, ReadAt
<1>4. /\ Int32 = 4 /\ 2 * Int32 = 8 /\ 2 * Int32 + Bool = 9 /\ 3 * Int32 + Bool = 13
      /\ 4 * Int32 + Bool = 17
  BY DEF Int32, Bool
<1>5. deserialize(buffer) =
         Packet(Read(buffer, 8, 1), Read(buffer, 9, 4), Read(buffer, 13, 4),
                ReadChannels(buffer, 17, Read(buffer, 9, 4), Read(buffer, 13, 4)), Read(buffer, 4, 4))
  <2>1. Bool = 1
    BY DEF Bool
  <2>2. QED
    BY <1>4, <2>1, Zenon DEF deserialize
<1>6. QED
  BY <1>1, <1>2, <1>3, <1>5 DEF buffer

\* A heartbeat and its answer have no channels, whatever is read for them.
LEMMA HeaderRoundTrip ==
  ASSUME NEW type \in HeaderOnly
  PROVE  LET p == Packet(0, 0, 0, << >>, type)
         IN  Len(serialize(p)) = p.packetLength /\ deserialize(serialize(p)) = p
<1> DEFINE p == Packet(0, 0, 0, << >>, type)
           W == {0, type, p.packetLength, p.checksum}
<1>1. /\ p.signalType = type /\ p.isInit = 0 /\ p.channelNum = 0 /\ p.signalLength = 0
      /\ p.channelData = << >>
  BY DEF Packet
<1>2. p.packetLength = 21
  BY <1>1 DEF Packet, PacketLength, Int32, Bool
<1>3. \A channels : Packet(0, 0, 0, channels, type) = p
  BY DEF Packet
<1> HIDE DEF p
<1>4. p.channelData \in [1 .. 0 -> W]
  BY <1>1
<1>5. /\ p.packetLength \in W /\ p.signalType \in W /\ p.isInit \in W /\ p.channelNum \in W
      /\ p.signalLength \in W /\ p.checksum \in W
  BY <1>1
<1> HIDE DEF W
<1>6. /\ Len(serialize(p)) = 21 + 0 * 8
      /\ deserialize(serialize(p)) =
            Packet(p.isInit, p.channelNum, p.signalLength,
                   ReadChannels(serialize(p), 17, p.channelNum, p.signalLength), p.signalType)
  BY <1>4, <1>5, Deserialized
<1>7. deserialize(serialize(p)) = p
  BY <1>1, <1>3, <1>6
<1>8. QED
  <2>1. Len(serialize(p)) = p.packetLength
    BY <1>2, <1>6
  <2>2. QED
    BY <1>7, <2>1 DEF p

LEMMA DataRoundTrip ==
  ASSUME NEW D, NEW m \in Nat \ {0}, NEW L \in Nat, NEW samples \in [1 .. m -> [1 .. L -> D]]
  PROVE  LET p == DataPacket(samples)
         IN  Len(serialize(p)) = p.packetLength /\ deserialize(serialize(p)) = p
<1> DEFINE p == DataPacket(samples)
           f == FlattenSeq(samples)
           W == D \cup {0, 1, m, L, p.packetLength, p.checksum}
           b == serialize(p)
<1>1. f \in Seq(D) /\ InRow(f, samples, m, L)
  BY FlattenUniform
<1>2. m * L \in Nat /\ Len(f) = m * L
  BY <1>1 DEF InRow
<1>3. Len(samples) = m /\ Len(samples[1]) = L
  <2>1. 1 \in 1 .. m
    OBVIOUS
  <2>2. QED
    BY <2>1
<1> HIDE DEF f
<1>4. /\ p.signalType = 1 /\ p.isInit = 1 /\ p.channelNum = m /\ p.signalLength = L
      /\ p.channelData = f /\ p.packetLength = PacketLength(1, f)
      /\ p = Packet(1, m, L, samples, 1)
  BY <1>3 DEF DataPacket, Packet, HeaderOnly, f
<1>5. p.packetLength = 21 + (m * L) * 8
  BY <1>2, <1>4 DEF PacketLength, HeaderOnly, Int32, Bool, Double
<1> HIDE DEF p
<1>6. p.channelData \in [1 .. m * L -> W]
  BY <1>1, <1>2, <1>4
<1>7. /\ p.packetLength \in W /\ p.signalType \in W /\ p.isInit \in W /\ p.channelNum \in W
      /\ p.signalLength \in W /\ p.checksum \in W
  BY <1>4
<1> HIDE DEF W
<1>8. /\ Len(b) = 21 + (m * L) * 8
      /\ deserialize(b) = Packet(p.isInit, p.channelNum, p.signalLength,
                                 ReadChannels(b, 17, p.channelNum, p.signalLength), p.signalType)
      /\ \A i \in 1 .. m * L : Read(b, 17 + (i - 1) * 8, 8) = p.channelData[i]
  BY <1>2, <1>6, <1>7, Deserialized
<1> HIDE DEF b
<1>9. \A i \in 1 .. m, j \in 1 .. L : Read(b, 17 + ((i - 1) * L + (j - 1)) * 8, 8) = samples[i][j]
  <2> TAKE i \in 1 .. m, j \in 1 .. L
  <2> DEFINE k == (i - 1) * L + j
  <2>1. k \in 1 .. m * L /\ f[k] = samples[i][j]
    BY <1>1 DEF InRow
  <2>2. (i - 1) * L + (j - 1) = k - 1
    OBVIOUS
  <2> HIDE DEF k
  <2>3. Read(b, 17 + (k - 1) * 8, 8) = samples[i][j]
    BY <1>4, <1>8, <2>1
  <2>4. QED
    BY <2>2, <2>3
<1>10. ReadChannels(b, 17, m, L) = samples
  <2>1. ReadChannels(b, 17, m, L) = [i \in 1 .. m |-> [j \in 1 .. L |-> samples[i][j]]]
    BY <1>9 DEF ReadChannels, Double
  <2>2. \A i \in 1 .. m : [j \in 1 .. L |-> samples[i][j]] = samples[i]
    OBVIOUS
  <2>3. QED
    BY <2>1, <2>2
<1>11. QED
  BY <1>4, <1>5, <1>8, <1>10 DEF b, p

\* The bytes TcpSignalType::serialize writes are as many as sendData makes room for,
\* and deserialize makes the same packet of them, for heartbeats, their answers and
\* data of any number of channels and samples.
THEOREM PacketsRoundTrip == Spec => []PacketRoundTrip
<1>1. ASSUME Inputs PROVE PacketRoundTrip
  <2>1. 0 \in HeaderOnly /\ 9 \in HeaderOnly
    BY DEF HeaderOnly
  <2>2. /\ Len(serialize(Heartbeat)) = Heartbeat.packetLength
        /\ deserialize(serialize(Heartbeat)) = Heartbeat
    BY <2>1, HeaderRoundTrip DEF Heartbeat
  <2>3. /\ Len(serialize(Answer)) = Answer.packetLength
        /\ deserialize(serialize(Answer)) = Answer
    BY <2>1, HeaderRoundTrip DEF Answer
  <2>4. ASSUME data # << >>
        PROVE  /\ Len(serialize(DataPacket(data))) = DataPacket(data).packetLength
               /\ deserialize(serialize(DataPacket(data))) = DataPacket(data)
    <3>1. PICK channelNum \in 1 .. MaxChannels, signalLength \in 0 .. MaxSamples :
             data \in [1 .. channelNum -> [1 .. signalLength -> Values]]
      BY <1>1, <2>4 DEF Inputs
    <3>2. channelNum \in Nat \ {0} /\ signalLength \in Nat
      BY OperatorsAssumption
    <3>3. QED
      BY <3>1, <3>2, DataRoundTrip
  <2>5. QED
    BY <2>2, <2>3, <2>4 DEF PacketRoundTrip
<1>2. QED
  BY <1>1, InputsInvariant, PTL

----------------------------------------------------------------------------
(* Checksums: exclusive or on bytes.                                         *)

Byte == 0 .. 255

\* A number made of eight bits has these bits, and a byte is made of its bits.
LEMMA MadeOfBits ==
  ASSUME NEW b0 \in 0 .. 1, NEW b1 \in 0 .. 1, NEW b2 \in 0 .. 1, NEW b3 \in 0 .. 1,
         NEW b4 \in 0 .. 1, NEW b5 \in 0 .. 1, NEW b6 \in 0 .. 1, NEW b7 \in 0 .. 1,
         NEW a, a = b0 + 2 * b1 + 4 * b2 + 8 * b3 + 16 * b4 + 32 * b5 + 64 * b6 + 128 * b7
  PROVE  /\ a \in Byte
         /\ Bit(a, 1) = b0 /\ Bit(a, 2) = b1 /\ Bit(a, 4) = b2 /\ Bit(a, 8) = b3
         /\ Bit(a, 16) = b4 /\ Bit(a, 32) = b5 /\ Bit(a, 64) = b6 /\ Bit(a, 128) = b7
<1>0. a \in Byte
  BY DEF Byte
<1>1. Bit(a, 1) = b0
  BY DEF Bit
<1>2. Bit(a, 2) = b1
  BY DEF Bit
<1>3. Bit(a, 4) = b2
  BY DEF Bit
<1>4. Bit(a, 8) = b3
  BY DEF Bit
<1>5. Bit(a, 16) = b4
  BY DEF Bit
<1>6. Bit(a, 32) = b5
  BY DEF Bit
<1>7. Bit(a, 64) = b6
  BY DEF Bit
<1>8. Bit(a, 128) = b7
  BY DEF Bit
<1>9. QED
  BY <1>0, <1>1, <1>2, <1>3, <1>4, <1>5, <1>6, <1>7, <1>8

LEMMA ByteIsBits ==
  ASSUME NEW a \in Byte
  PROVE  /\ \A w \in {1, 2, 4, 8, 16, 32, 64, 128} : Bit(a, w) \in 0 .. 1
         /\ a = Bit(a, 1) + 2 * Bit(a, 2) + 4 * Bit(a, 4) + 8 * Bit(a, 8) + 16 * Bit(a, 16)
                 + 32 * Bit(a, 32) + 64 * Bit(a, 64) + 128 * Bit(a, 128)
<1>1. \A w \in {1, 2, 4, 8, 16, 32, 64, 128} : Bit(a, w) \in 0 .. 1
  BY DEF Bit, Byte
<1>2. a = Bit(a, 1) + 2 * Bit(a, 2) + 4 * Bit(a, 4) + 8 * Bit(a, 8) + 16 * Bit(a, 16)
                 + 32 * Bit(a, 32) + 64 * Bit(a, 64) + 128 * Bit(a, 128)
  BY DEF Bit, Byte
<1>3. QED
  BY <1>1, <1>2

LEMMA SameBits ==
  ASSUME NEW a \in Byte, NEW b \in Byte,
         \A w \in {1, 2, 4, 8, 16, 32, 64, 128} : Bit(a, w) = Bit(b, w)
  PROVE  a = b
<1>1. /\ Bit(a, 1) = Bit(b, 1) /\ Bit(a, 2) = Bit(b, 2) /\ Bit(a, 4) = Bit(b, 4)
      /\ Bit(a, 8) = Bit(b, 8) /\ Bit(a, 16) = Bit(b, 16) /\ Bit(a, 32) = Bit(b, 32)
      /\ Bit(a, 64) = Bit(b, 64) /\ Bit(a, 128) = Bit(b, 128)
  OBVIOUS
<1>2. QED
  BY <1>1, ByteIsBits

LEMMA XorBits ==
  ASSUME NEW a \in Byte, NEW b \in Byte
  PROVE  /\ Xor(a, b) \in Byte
         /\ \A w \in {1, 2, 4, 8, 16, 32, 64, 128} :
               Bit(Xor(a, b), w) = IF Bit(a, w) = Bit(b, w) THEN 0 ELSE 1
<1> DEFINE d(w) == IF Bit(a, w) = Bit(b, w) THEN 0 ELSE 1
           x == Xor(a, b)
<1>1. x = d(1) + 2 * d(2) + 4 * d(4) + 8 * d(8) + 16 * d(16) + 32 * d(32) + 64 * d(64) + 128 * d(128)
  BY DEF Xor
<1>2. /\ d(1) \in 0 .. 1 /\ d(2) \in 0 .. 1 /\ d(4) \in 0 .. 1 /\ d(8) \in 0 .. 1
      /\ d(16) \in 0 .. 1 /\ d(32) \in 0 .. 1 /\ d(64) \in 0 .. 1 /\ d(128) \in 0 .. 1
  OBVIOUS
<1> HIDE DEF d, x
<1>3. /\ x \in Byte
      /\ Bit(x, 1) = d(1) /\ Bit(x, 2) = d(2) /\ Bit(x, 4) = d(4) /\ Bit(x, 8) = d(8)
      /\ Bit(x, 16) = d(16) /\ Bit(x, 32) = d(32) /\ Bit(x, 64) = d(64) /\ Bit(x, 128) = d(128)
  BY <1>1, <1>2, MadeOfBits
<1>4. \A w \in {1, 2, 4, 8, 16, 32, 64, 128} : Bit(x, w) = d(w)
  BY <1>3
<1>5. QED
  BY <1>3, <1>4 DEF d, x

\* Either operand can be told from the other one and the result.
LEMMA XorCancels ==
  ASSUME NEW a \in Byte, NEW b \in Byte, NEW c \in Byte
  PROVE  /\ Xor(a, b) = Xor(a, c) => b = c
         /\ Xor(b, a) = Xor(c, a) => b = c
<1>1. /\ \A w \in {1, 2, 4, 8, 16, 32, 64, 128} :
            Bit(a, w) \in 0 .. 1 /\ Bit(b, w) \in 0 .. 1 /\ Bit(c, w) \in 0 .. 1
  BY ByteIsBits
<1>2. ASSUME Xor(a, b) = Xor(a, c) PROVE b = c
  <2>1. \A w \in {1, 2, 4, 8, 16, 32, 64, 128} :
           (IF Bit(a, w) = Bit(b, w) THEN 0 ELSE 1) = (IF Bit(a, w) = Bit(c, w) THEN 0 ELSE 1)
    BY <1>2, XorBits
  <2>2. \A w \in {1, 2, 4, 8, 16, 32, 64, 128} : Bit(b, w) = Bit(c, w)
    BY <1>1, <2>1
  <2>3. QED
    BY <2>2, SameBits
<1>3. ASSUME Xor(b, a) = Xor(c, a) PROVE b = c
  <2>1. \A w \in {1, 2, 4, 8, 16, 32, 64, 128} :
           (IF Bit(b, w) = Bit(a, w) THEN 0 ELSE 1) = (IF Bit(c, w) = Bit(a, w) THEN 0 ELSE 1)
    BY <1>3, XorBits
  <2>2. \A w \in {1, 2, 4, 8, 16, 32, 64, 128} : Bit(b, w) = Bit(c, w)
    BY <1>1, <2>1
  <2>3. QED
    BY <2>2, SameBits
<1>4. QED
  BY <1>2, <1>3

\* The loop of calCheckSum: run[k] is the sum after k characters.
IsRun(run, chars) ==
    /\ run \in [0 .. Len(chars) -> Byte]
    /\ run[0] = 0
    /\ \A k \in 1 .. Len(chars) : run[k] = Xor(run[k - 1], chars[k])
    /\ calCheckSum(chars) = run[Len(chars)]

LEMMA CheckSumRuns ==
  ASSUME NEW chars \in Seq(Byte)
  PROVE  \E run : IsRun(run, chars)
<1> DEFINE S == SUBSET (DOMAIN chars)
           op == [p \in Byte \X Byte |-> Xor(p[1], p[2])]
           Iterates(h) == h = [s \in S |-> IF s = {} THEN 0 ELSE Xor(h[s \ {Max(s)}], chars[Max(s)])]
           iter == CHOOSE h : Iterates(h)
           n == Len(chars)
<1>1. calCheckSum(chars) = iter[DOMAIN chars]
  BY DEF calCheckSum, FoldLeft, MapThenFoldSet
<1>2. Iterates(iter)
  <2>1. op \in [Byte \X Byte -> Byte] /\ 0 \in Byte
    <3>1. 0 \in Byte
      BY DEF Byte
    <3>2. QED
      BY <3>1, XorBits
  <2>2. PICK h \in [S -> Byte] : IsFold(h, op, 0, chars)
    <3> HIDE DEF op
    <3>1. QED
      BY <2>1, FoldExists
  <2>3. \A s \in S : s # {} => Max(s) \in DOMAIN chars
    <3> TAKE s \in S
    <3> HAVE s # {}
    <3>1. IsFiniteSet(DOMAIN chars)
      BY FS_Interval
    <3>2. IsFiniteSet(s) /\ s \in SUBSET Int
      BY <3>1, FS_Subset
    <3>3. QED
      BY <3>2, MaxIn
  <2>4. \A s \in S : s # {} =>
           op[h[s \ {Max(s)}], chars[Max(s)]] = Xor(h[s \ {Max(s)}], chars[Max(s)])
    <3> TAKE s \in S
    <3> HAVE s # {}
    <3>1. s \ {Max(s)} \in S
      OBVIOUS
    <3>2. h[s \ {Max(s)}] \in Byte /\ chars[Max(s)] \in Byte
      BY <2>2, <2>3, <3>1
    <3>3. \A a \in Byte, b \in Byte : op[a, b] = Xor(a, b)
      OBVIOUS
    <3> HIDE DEF op
    <3>4. QED
      BY <3>2, <3>3
  <2>5. \A s \in S : h[s] = IF s = {} THEN 0 ELSE Xor(h[s \ {Max(s)}], chars[Max(s)])
    <3> HIDE DEF op
    <3>1. QED
      BY <2>2, <2>4 DEF IsFold
  <2>6. Iterates(h)
    <3>1. h = [s \in S |-> h[s]]
      BY <2>2
    <3>2. QED
      BY <2>5, <3>1
  <2> HIDE DEF Iterates
  <2>7. QED
    BY <2>6
<1> HIDE DEF iter
<1>3. iter[{}] = 0
  BY <1>2
<1>4. ASSUME NEW k \in 1 .. n
      PROVE  iter[1 .. k] = Xor(iter[1 .. (k - 1)], chars[k])
  <2>1. (1 .. k) # {} /\ Max(1 .. k) = k /\ (1 .. k) \ {k} = 1 .. (k - 1)
    BY PrefixIndices
  <2>2. 1 .. k \in S
    OBVIOUS
  <2>3. iter[1 .. k] = Xor(iter[(1 .. k) \ {Max(1 .. k)}], chars[Max(1 .. k)])
    BY <1>2, <2>1, <2>2
  <2>4. QED
    BY <2>1, <2>3
<1> DEFINE run == [k \in 0 .. n |-> iter[1 .. k]]
<1>5. run[0] = 0
  <2>1. 1 .. 0 = {}
    OBVIOUS
  <2>2. QED
    BY <1>3, <2>1
<1>6. \A k \in 1 .. n : run[k] = Xor(run[k - 1], chars[k])
  BY <1>4
<1>7. DOMAIN chars = 1 .. n /\ n \in Nat
  OBVIOUS
<1>8. calCheckSum(chars) = run[n]
  BY <1>1, <1>7
<1>9. run \in [0 .. n -> Byte]
  <2> DEFINE N == {k \in Nat : k \in 0 .. n => run[k] \in Byte}
  <2>1. DOMAIN run = 0 .. n /\ run = [k \in 0 .. n |-> run[k]]
    OBVIOUS
  <2> HIDE DEF run
  <2>2. 0 \in N
    BY <1>5 DEF Byte
  <2>3. ASSUME NEW k \in Nat, k \in N PROVE k + 1 \in N
    <3> SUFFICES ASSUME k + 1 \in 0 .. n PROVE run[k + 1] \in Byte
      OBVIOUS
    <3>1. k \in 0 .. n /\ k + 1 \in 1 .. n /\ (k + 1) - 1 = k
      BY <1>7
    <3>2. run[k] \in Byte /\ chars[k + 1] \in Byte
      BY <2>3, <3>1
    <3>3. run[k + 1] = Xor(run[k], chars[k + 1])
      BY <1>6, <3>1
    <3>4. QED
      BY <3>2, <3>3, XorBits
  <2>4. Nat \subseteq N
    <3> HIDE DEF N
    <3>1. QED
      BY <2>2, <2>3, Induction
  <2>5. \A k \in 0 .. n : run[k] \in Byte
    BY <2>4
  <2>6. QED
    BY <2>1, <2>5
<1> HIDE DEF run
<1>10. QED
  BY <1>5, <1>6, <1>8, <1>9 DEF IsRun

\* One character more or less changes the checksum: of two texts that differ in one
\* place only, the sums are equal before it and different from there on.
LEMMA CheckSumDiffers ==
  ASSUME NEW n \in Nat, NEW s \in Seq(Byte), NEW t \in Seq(Byte), Len(s) = n, Len(t) = n,
         NEW i \in 1 .. n, s[i] # t[i], \A j \in 1 .. n : j # i => s[j] = t[j]
  PROVE  calCheckSum(s) # calCheckSum(t)
<1>1. PICK r : IsRun(r, s)
  BY CheckSumRuns
<1>2. PICK q : IsRun(q, t)
  BY CheckSumRuns
<1>3. /\ \A k \in 0 .. n : r[k] \in Byte /\ q[k] \in Byte
      /\ r[0] = 0 /\ q[0] = 0
      /\ \A k \in 1 .. n : r[k] = Xor(r[k - 1], s[k]) /\ q[k] = Xor(q[k - 1], t[k])
      /\ calCheckSum(s) = r[n] /\ calCheckSum(t) = q[n]
  BY <1>1, <1>2 DEF IsRun
<1>4. \A k \in 1 .. n : s[k] \in Byte /\ t[k] \in Byte
  OBVIOUS
<1> DEFINE N == {k \in Nat : k \in 0 .. n => (r[k] = q[k] <=> k < i)}
<1>5. 0 \in N
  BY <1>3
<1>6. ASSUME NEW k \in Nat, k \in N PROVE k + 1 \in N
  <2> SUFFICES ASSUME k + 1 \in 0 .. n PROVE r[k + 1] = q[k + 1] <=> k + 1 < i
    OBVIOUS
  <2>1. k \in 0 .. n /\ k + 1 \in 1 .. n /\ (k + 1) - 1 = k
    OBVIOUS
  <2>2. r[k] = q[k] <=> k < i
    BY <1>6, <2>1
  <2>3. r[k + 1] = Xor(r[k], s[k + 1]) /\ q[k + 1] = Xor(q[k], t[k + 1])
    BY <1>3, <2>1
  <2>4. r[k] \in Byte /\ q[k] \in Byte /\ s[k + 1] \in Byte /\ t[k + 1] \in Byte
    BY <1>3, <1>4, <2>1
  <2>5. CASE k + 1 < i
    <3>1. r[k] = q[k] /\ s[k + 1] = t[k + 1]
      BY <2>1, <2>2, <2>5
    <3>2. QED
      BY <2>3, <2>5, <3>1
  <2>6. CASE k + 1 = i
    <3>1. r[k] = q[k] /\ s[k + 1] # t[k + 1]
      BY <2>2, <2>6
    <3>2. Xor(r[k], s[k + 1]) # Xor(r[k], t[k + 1])
      BY <2>4, <3>1, XorCancels
    <3>3. QED
      BY <2>3, <2>6, <3>1, <3>2
  <2>7. CASE k + 1 > i
    <3>1. r[k] # q[k] /\ s[k + 1] = t[k + 1]
      BY <2>1, <2>2, <2>7
    <3>2. Xor(r[k], s[k + 1]) # Xor(q[k], s[k + 1])
      BY <2>4, <3>1, XorCancels
    <3>3. QED
      BY <2>3, <2>7, <3>1, <3>2
  <2>8. QED
    BY <2>5, <2>6, <2>7
<1>7. Nat \subseteq N
  <2> HIDE DEF N
  <2>1. QED
    BY <1>5, <1>6, Induction
<1>8. r[n] # q[n]
  BY <1>7
<1>9. QED
  BY <1>3, <1>8

\* The digits of a byte and the number read from them.
LEMMA HexDigitValue ==
  ASSUME NEW n \in 0 .. 15
  PROVE  /\ HexDigit(n) \in HexDigits /\ HexDigit(n) \in 48 .. 70
         /\ HexValue(HexDigit(n)) = n
<1>1. HexDigit(n) \in HexDigits /\ HexDigit(n) \in 48 .. 70
  BY DEF HexDigit, HexDigits
<1>2. \A k \in 0 .. 15 : HexDigit(k) = HexDigit(n) => k = n
  BY DEF HexDigit
<1>3. QED
  BY <1>1, <1>2 DEF HexValue

LEMMA NoDigits == CR \notin HexDigits /\ LF \notin HexDigits
  BY DEF CR, LF, HexDigits, HexDigit

LEMMA TwoDigits ==
  ASSUME NEW a \in 0 .. 15, NEW b \in 0 .. 15
  PROVE  FoldLeft(LAMBDA v, c : 16 * v + HexValue(c), 0, <<HexDigit(a), HexDigit(b)>>) = 16 * a + b
<1> DEFINE chars == <<HexDigit(a), HexDigit(b)>>
           S == SUBSET (DOMAIN chars)
           op == [p \in Int \X HexDigits |-> 16 * p[1] + HexValue(p[2])]
           Iterates(h) == h = [s \in S |-> IF s = {} THEN 0
                                           ELSE 16 * h[s \ {Max(s)}] + HexValue(chars[Max(s)])]
           iter == CHOOSE h : Iterates(h)
<1>1. FoldLeft(LAMBDA v, c : 16 * v + HexValue(c), 0, chars) = iter[DOMAIN chars]
  BY DEF FoldLeft, MapThenFoldSet
<1>2. \A c \in HexDigits : HexValue(c) \in 0 .. 15
  <2>1. \A n \in 0 .. 15 : HexValue(HexDigit(n)) = n
    BY HexDigitValue
  <2>2. QED
    BY <2>1 DEF HexDigits
<1>3. chars \in Seq(HexDigits) /\ DOMAIN chars = 1 .. 2 /\ chars[1] = HexDigit(a) /\ chars[2] = HexDigit(b)
  BY HexDigitValue
<1>4. Iterates(iter)
  <2>1. op \in [Int \X HexDigits -> Int] /\ 0 \in Int
    BY <1>2
  <2>2. PICK h \in [S -> Int] : IsFold(h, op, 0, chars)
    <3> HIDE DEF op, chars
    <3>1. QED
      BY <1>3, <2>1, FoldExists
  <2> HIDE DEF chars
  <2>3. \A s \in S : s # {} => Max(s) \in DOMAIN chars
    <3> TAKE s \in S
    <3> HAVE s # {}
    <3>1. IsFiniteSet(DOMAIN chars)
      BY <1>3, FS_Interval
    <3>2. IsFiniteSet(s) /\ s \in SUBSET Int
      BY <1>3, <3>1, FS_Subset
    <3>3. QED
      BY <3>2, MaxIn
  <2>4. \A s \in S : s # {} =>
           op[h[s \ {Max(s)}], chars[Max(s)]] = 16 * h[s \ {Max(s)}] + HexValue(chars[Max(s)])
    <3> TAKE s \in S
    <3> HAVE s # {}
    <3>1. s \ {Max(s)} \in S
      OBVIOUS
    <3>2. h[s \ {Max(s)}] \in Int /\ chars[Max(s)] \in HexDigits
      BY <1>3, <2>2, <2>3, <3>1
    <3>3. \A v \in Int, c \in HexDigits : op[v, c] = 16 * v + HexValue(c)
      OBVIOUS
    <3> HIDE DEF op
    <3>4. QED
      BY <3>2, <3>3
  <2>5. \A s \in S : h[s] = IF s = {} THEN 0 ELSE 16 * h[s \ {Max(s)}] + HexValue(chars[Max(s)])
    <3> HIDE DEF op
    <3>1. QED
      BY <2>2, <2>4 DEF IsFold
  <2>6. Iterates(h)
    <3>1. h = [s \in S |-> h[s]]
      BY <2>2
    <3>2. QED
      BY <2>5, <3>1
  <2> HIDE DEF Iterates
  <2>7. QED
    BY <2>6
<1> HIDE DEF iter, chars
<1>5. iter[{}] = 0
  BY <1>4
<1>6. \A k \in 1 .. 2 : iter[1 .. k] = 16 * iter[1 .. (k - 1)] + HexValue(chars[k])
  <2> TAKE k \in 1 .. 2
  <2>1. (1 .. k) # {} /\ Max(1 .. k) = k /\ (1 .. k) \ {k} = 1 .. (k - 1)
    BY PrefixIndices
  <2>2. 1 .. k \in S
    BY <1>3
  <2>3. iter[1 .. k] = 16 * iter[(1 .. k) \ {Max(1 .. k)}] + HexValue(chars[Max(1 .. k)])
    BY <1>4, <2>1, <2>2
  <2>4. QED
    BY <2>1, <2>3
<1>7. iter[1 .. 1] = a
  <2>1. 1 .. (1 - 1) = {} /\ 1 \in 1 .. 2
    OBVIOUS
  <2>2. iter[1 .. 1] = 16 * 0 + HexValue(chars[1])
    BY <1>5, <1>6, <2>1
  <2>3. HexValue(chars[1]) = a
    BY <1>3, HexDigitValue
  <2>4. QED
    BY <2>2, <2>3
<1>8. iter[1 .. 2] = 16 * a + b
  <2>1. 1 .. (2 - 1) = 1 .. 1 /\ 2 \in 1 .. 2
    OBVIOUS
  <2>2. iter[1 .. 2] = 16 * a + HexValue(chars[2])
    BY <1>6, <1>7, <2>1
  <2>3. HexValue(chars[2]) = b
    BY <1>3, HexDigitValue
  <2>4. QED
    BY <2>2, <2>3
<1>9. QED
  BY <1>1, <1>3, <1>8 DEF chars

\* strtoul reads the two digits and stops at the carriage return behind them.
LEMMA NumberRead ==
  ASSUME NEW a \in 0 .. 15, NEW b \in 0 .. 15
  PROVE  strtoul(<<HexDigit(a), HexDigit(b), CR, LF>>) = 16 * a + b
<1> DEFINE chars == <<HexDigit(a), HexDigit(b), CR, LF>>
           Stops(k) == /\ \A i \in 1 .. k : chars[i] \in HexDigits
                       /\ k < Len(chars) => chars[k + 1] \notin HexDigits
           digits == CHOOSE k \in 0 .. Len(chars) : Stops(k)
<1>1. /\ Len(chars) = 4 /\ chars[1] \in HexDigits /\ chars[2] \in HexDigits
      /\ chars[3] \notin HexDigits /\ chars[1] = HexDigit(a) /\ chars[2] = HexDigit(b)
  BY HexDigitValue, NoDigits
<1>2. chars \in Seq(Int)
  <2>1. HexDigit(a) \in Int /\ HexDigit(b) \in Int /\ CR \in Int /\ LF \in Int
    BY HexDigitValue DEF CR, LF
  <2>2. QED
    BY <2>1
<1> HIDE DEF chars
<1>3. Stops(2)
  BY <1>1
<1>4. \A k \in 0 .. Len(chars) : Stops(k) => k = 2
  <2> TAKE k \in 0 .. Len(chars)
  <2> HAVE Stops(k)
  <2>1. k # 0 /\ k # 1
    BY <1>1
  <2>2. ~(k >= 3)
    BY <1>1
  <2>3. QED
    BY <1>1, <2>1, <2>2
<1> HIDE DEF Stops
<1>5. digits = 2
  BY <1>1, <1>3, <1>4
<1> HIDE DEF digits
<1>6. SubSeq(chars, 1, 2) = <<HexDigit(a), HexDigit(b)>>
  <2> DEFINE u == <<HexDigit(a), HexDigit(b)>>
  <2>1. u \in Seq(Int) /\ Len(u) = 2 /\ u[1] = HexDigit(a) /\ u[2] = HexDigit(b)
    BY HexDigitValue
  <2> HIDE DEF u
  <2>2. \A i \in 1 .. 2 : u[i] = chars[1 + i - 1]
    BY <1>1, <2>1
  <2>3. QED
    <3>1. /\ 1 \in 1 .. Len(chars) + 1 /\ 2 \in 0 .. Len(chars) /\ 1 <= 2 + 1 /\ Len(u) = 2 - 1 + 1
          /\ \A i \in 1 .. Len(u) : u[i] = chars[1 + i - 1]
      BY <1>1, <2>1, <2>2
    <3>2. SubSeq(chars, 1, 2) = u
      BY <1>2, <2>1, <3>1, Part
    <3>3. QED
      BY <3>2 DEF u
<1>7. strtoul(chars) = FoldLeft(LAMBDA v, c : 16 * v + HexValue(c), 0, SubSeq(chars, 1, digits))
  BY DEF strtoul, digits, Stops
<1>8. strtoul(chars) = FoldLeft(LAMBDA v, c : 16 * v + HexValue(c), 0, <<HexDigit(a), HexDigit(b)>>)
  BY <1>5, <1>6, <1>7
<1>9. QED
  BY <1>8, TwoDigits DEF chars

\* The checksum appended to a sentence.
Trailer(sum) == <<Asterisk, HexDigit(sum \div 16), HexDigit(sum % 16), CR, LF>>

\* In a sentence of characters other than "*", to which a checksum was appended,
\* verifyCheckSum finds its "*", unless a NUL comes first, and compares the sum behind
\* it with that of the characters in front of it but the first.
LEMMA Verified ==
  ASSUME NEW n \in Nat \ {0}, NEW s \in Seq(Byte), Len(s) = n, \A i \in 1 .. n : s[i] # Asterisk,
         NEW sum \in Byte
  PROVE  verifyCheckSum(s \o Trailer(sum)) <=>
            calCheckSum(Tail(s)) = sum /\ \A i \in 1 .. n : s[i] # NUL
<1> DEFINE hi == sum \div 16
           lo == sum % 16
           t == Trailer(sum)
           d == s \o t
<1>1. hi \in 0 .. 15 /\ lo \in 0 .. 15 /\ 16 * hi + lo = sum
  <2>1. sum \in 0 .. 255
    BY DEF Byte
  <2>2. hi \in 0 .. 15
    BY <2>1
  <2>3. lo \in 0 .. 15
    BY <2>1
  <2>4. 16 * hi + lo = sum
    BY <2>1
  <2>5. QED
    BY <2>2, <2>3, <2>4
<1>a. Trailer(sum) = <<Asterisk, HexDigit(hi), HexDigit(lo), CR, LF>>
  BY DEF Trailer
<1> HIDE DEF hi, lo
<1>2. /\ t \in Seq(Byte) /\ Len(t) = 5 /\ t[1] = Asterisk
      /\ t[2] = HexDigit(hi) /\ t[3] = HexDigit(lo) /\ t[4] = CR /\ t[5] = LF
  <2>1. /\ HexDigit(hi) \in Byte /\ HexDigit(lo) \in Byte
        /\ Asterisk \in Byte /\ CR \in Byte /\ LF \in Byte
    <3>1. HexDigit(hi) \in 48 .. 70 /\ HexDigit(lo) \in 48 .. 70
      BY <1>1, HexDigitValue
    <3>2. QED
      BY <3>1 DEF Byte, Asterisk, CR, LF
  <2>2. QED
    BY <1>a, <2>1
<1> HIDE DEF t
<1>3. /\ d \in Seq(Byte) /\ Len(d) = n + 5
      /\ \A i \in 1 .. n : d[i] = s[i]
      /\ \A i \in 1 .. 5 : d[n + i] = t[i]
  <2>1. /\ d \in Seq(Byte) /\ Len(d) = Len(s) + Len(t)
        /\ \A i \in 1 .. Len(s) : d[i] = s[i]
        /\ \A i \in 1 .. Len(t) : d[Len(s) + i] = t[i]
    <3>0. t \in Seq(Byte)
      BY <1>2
    <3>1. d \in Seq(Byte) /\ Len(d) = Len(s) + Len(t)
      BY <3>0, Concatenation
    <3>2. \A i \in 1 .. Len(s) : d[i] = s[i]
      BY <3>0, Concatenation
    <3>3. \A i \in 1 .. Len(t) : d[Len(s) + i] = t[i]
      BY <3>0, Concatenation
    <3>4. QED
      BY <3>1, <3>2, <3>3
  <2> HIDE DEF d
  <2>2. QED
    BY <1>2, <2>1
<1> HIDE DEF d
<1>4. d[n + 1] = Asterisk /\ \A j \in 1 .. n : d[j] # Asterisk
  BY <1>2, <1>3
<1>5. DOMAIN d = 1 .. n + 5
  BY <1>3
<1>6. SubSeq(d, 2, n) = Tail(s)
  BY <1>3
<1>7. SubSeq(d, n + 2, n + 5) = <<HexDigit(hi), HexDigit(lo), CR, LF>>
  <2> DEFINE u == <<HexDigit(hi), HexDigit(lo), CR, LF>>
  <2>1. /\ d[n + 2] = t[2] /\ d[n + 3] = t[3] /\ d[n + 4] = t[4] /\ d[n + 5] = t[5]
    BY <1>3
  <2>2. \A i \in 1 .. Len(t) : t[i] \in Byte
    <3>1. t \in Seq(Byte)
      BY <1>2
    <3>2. QED
      BY <3>1
  <2>3. u \in Seq(Byte) /\ Len(u) = 4 /\ u[1] = t[2] /\ u[2] = t[3] /\ u[3] = t[4] /\ u[4] = t[5]
    BY <1>2, <2>2
  <2> HIDE DEF u
  <2>4. \A i \in 1 .. 4 : u[i] = d[n + 2 + i - 1]
    <3> TAKE i \in 1 .. 4
    <3>1. i = 1 \/ i = 2 \/ i = 3 \/ i = 4
      OBVIOUS
    <3>2. QED
      BY <2>1, <2>3, <3>1
  <2>5. n + 2 \in 1 .. Len(d) + 1 /\ n + 5 \in 0 .. Len(d) /\ Len(u) = (n + 5) - (n + 2) + 1
    BY <1>3, <2>3
  <2>6. SubSeq(d, n + 2, n + 5) = u
    BY <1>3, <2>3, <2>4, <2>5, Part
  <2>7. QED
    BY <2>6 DEF u
<1>8. strtoul(SubSeq(d, n + 2, n + 5)) = sum
  <2>1. strtoul(<<HexDigit(hi), HexDigit(lo), CR, LF>>)
           = 16 * hi + lo
    BY <1>1, NumberRead
  <2>2. QED
    BY <1>1, <1>7, <2>1
<1> DEFINE Ends(i) == /\ d[i] = Asterisk
                      /\ \A j \in 1 .. i - 1 : d[j] \notin {Asterisk, NUL}
                      /\ i - 1 < Len(d) - 2
                      /\ calCheckSum(SubSeq(d, 2, i - 1)) = strtoul(SubSeq(d, i + 1, Len(d)))
<1>9. verifyCheckSum(d) <=> \E i \in DOMAIN d : Ends(i)
  BY DEF verifyCheckSum
<1>10. \A i \in DOMAIN d : Ends(i) => i = n + 1
  BY <1>4, <1>5
<1>11. Ends(n + 1) <=> calCheckSum(Tail(s)) = sum /\ \A i \in 1 .. n : s[i] # NUL
  <2>1. (n + 1) - 1 = n /\ (n + 1) + 1 = n + 2 /\ n < (n + 5) - 2
    OBVIOUS
  <2>2. (\A j \in 1 .. n : d[j] \notin {Asterisk, NUL}) <=> (\A i \in 1 .. n : s[i] # NUL)
    BY <1>3, <1>4
  <2>3. QED
    BY <1>3, <1>4, <1>6, <1>8, <2>1, <2>2
<1>12. n + 1 \in DOMAIN d
  BY <1>5
<1> HIDE DEF Ends
<1>13. QED
  BY <1>9, <1>10, <1>11, <1>12 DEF d, t

\* The characters of the sentences.
LEMMA BodyIs ==
  ASSUME Inputs
  PROVE  /\ Len(body) \in Nat \ {0} /\ body \in Seq(Byte) /\ body # << >>
         /\ \A i \in 1 .. Len(body) : body[i] \in 0 .. 127 /\ body[i] \notin {Asterisk, NUL}
<1>1. /\ body \in Seq(0 .. 127) /\ body # << >> /\ body[1] = Dollar
      /\ \A i \in 2 .. Len(body) : body[i] \in Alphabet
  BY DEF Inputs
<1>2. \A i \in 1 .. Len(body) : body[i] \in 0 .. 127
  <2>1. \A V : body \in Seq(V) => \A i \in 1 .. Len(body) : body[i] \in V
    OBVIOUS
  <2>2. body \in Seq(0 .. 127)
    BY <1>1
  <2>3. QED
    BY <2>1, <2>2
<1>3. Len(body) \in Nat \ {0}
  BY <1>1
<1>4. body \in Seq(Byte)
  <2>1. \A i \in 1 .. Len(body) : body[i] \in Byte
    BY <1>2 DEF Byte
  <2>2. body \in [1 .. Len(body) -> Byte]
    BY <1>1, <2>1
  <2>3. QED
    BY <1>3, <2>2
<1>5. Dollar \notin {Asterisk, NUL} /\ \A c \in Alphabet : c \notin {Asterisk, NUL}
  BY OperatorsAssumption DEF Dollar, Asterisk, NUL
<1>6. \A i \in 1 .. Len(body) : body[i] \notin {Asterisk, NUL}
  <2> TAKE i \in 1 .. Len(body)
  <2>1. CASE i = 1
    BY <1>1, <1>5, <2>1
  <2>2. CASE i # 1
    <3>1. i \in 2 .. Len(body)
      BY <1>3, <2>2
    <3>2. QED
      BY <1>1, <1>5, <3>1
  <2>3. QED
    BY <2>1, <2>2
<1>7. QED
  BY <1>1, <1>2, <1>3, <1>4, <1>6

LEMMA TailIs ==
  ASSUME NEW V, NEW s \in Seq(V), s # << >>
  PROVE  /\ Tail(s) \in Seq(V) /\ Len(Tail(s)) = Len(s) - 1 /\ Len(s) - 1 \in Nat
         /\ \A j \in 1 .. Len(s) - 1 : Tail(s)[j] = s[j + 1]
  OBVIOUS

LEMMA SumOfBody ==
  ASSUME Inputs
  PROVE  /\ calCheckSum(Tail(body)) \in Byte
         /\ addCheckSum(body) = body \o Trailer(calCheckSum(Tail(body)))
<1>1. body \in Seq(Byte) /\ body # << >>
  BY BodyIs
<1>2. Tail(body) \in Seq(Byte) /\ Len(Tail(body)) \in Nat
  BY <1>1, TailIs
<1>3. PICK run : IsRun(run, Tail(body))
  BY <1>2, CheckSumRuns
<1>4. calCheckSum(Tail(body)) \in Byte
  BY <1>2, <1>3 DEF IsRun
<1>5. QED
  BY <1>1, <1>4 DEF addCheckSum, Trailer

\* DATAVERIFY::verifyCheckSum accepts what addCheckSum made of a sentence, whatever
\* its length and characters.
THEOREM SentencesAreVerified == Spec => []SentenceVerified
<1>1. ASSUME Inputs PROVE SentenceVerified
  <2> DEFINE sum == calCheckSum(Tail(body))
  <2>1. /\ Len(body) \in Nat \ {0} /\ body \in Seq(Byte)
        /\ \A i \in 1 .. Len(body) : body[i] # Asterisk
        /\ \A i \in 1 .. Len(body) : body[i] # NUL
    BY <1>1, BodyIs
  <2>2. sum \in Byte /\ addCheckSum(body) = body \o Trailer(sum)
    BY <1>1, SumOfBody
  <2>3. verifyCheckSum(body \o Trailer(sum)) <=>
           calCheckSum(Tail(body)) = sum /\ \A i \in 1 .. Len(body) : body[i] # NUL
    <3> HIDE DEF sum
    <3>1. QED
      BY <2>1, <2>2, Verified
  <2>4. QED
    BY <2>1, <2>2, <2>3 DEF SentenceVerified
<1>2. QED
  BY <1>1, InputsInvariant, PTL

\* DATAVERIFY::verifyCheckSum refuses the sentence when one character between "$"
\* and "*" has become another byte than "*", at any place of a sentence of any length.
THEOREM CorruptionIsDetected == Spec => []CorruptionDetected
<1>1. ASSUME Inputs PROVE CorruptionDetected
  <2> SUFFICES ASSUME NEW i \in 2 .. Len(body), NEW c \in (0 .. 255) \ {Asterisk},
                      c # body[i]
               PROVE  ~verifyCheckSum([addCheckSum(body) EXCEPT ![i] = c])
    BY DEF CorruptionDetected
  <2> DEFINE n == Len(body)
             sum == calCheckSum(Tail(body))
             t == Trailer(sum)
             s == [body EXCEPT ![i] = c]
             d == [addCheckSum(body) EXCEPT ![i] = c]
  <2>1. /\ n \in Nat \ {0} /\ body \in Seq(Byte) /\ body # << >>
        /\ \A j \in 1 .. n : body[j] # Asterisk
    BY <1>1, BodyIs
  <2>2. sum \in Byte /\ addCheckSum(body) = body \o t
    BY <1>1, SumOfBody
  <2>3. c \in Byte /\ c # Asterisk
    BY DEF Byte
  <2>4. /\ s \in Seq(Byte) /\ Len(s) = n /\ s[i] = c
        /\ \A j \in 1 .. n : j # i => s[j] = body[j]
    BY <2>1, <2>3
  <2>5. t \in Seq(Int)
    <3>1. sum \div 16 \in 0 .. 15 /\ sum % 16 \in 0 .. 15
      <4> HIDE DEF sum
      <4>1. sum \in 0 .. 255
        BY <2>2 DEF Byte
      <4>2. QED
        BY <4>1
    <3>2. HexDigit(sum \div 16) \in Int /\ HexDigit(sum % 16) \in Int
      <4>1. \A k \in 48 .. 70 : k \in Int
        OBVIOUS
      <4>2. HexDigit(sum \div 16) \in 48 .. 70 /\ HexDigit(sum % 16) \in 48 .. 70
        BY <3>1, HexDigitValue
      <4>3. QED
        BY <4>1, <4>2
    <3>3. QED
      BY <3>2 DEF Trailer, Asterisk, CR, LF
  <2> HIDE DEF sum, t, s
  <2>6. body \in Seq(Int) /\ s \in Seq(Int)
    <3>1. Byte \subseteq Int
      BY DEF Byte
    <3>2. ASSUME NEW w \in Seq(Byte) PROVE w \in Seq(Int)
      <4>1. Len(w) \in Nat /\ \A j \in 1 .. Len(w) : w[j] \in Byte
        OBVIOUS
      <4>2. w \in [1 .. Len(w) -> Int]
        <5>1. w = [j \in 1 .. Len(w) |-> w[j]]
          OBVIOUS
        <5>2. \A j \in 1 .. Len(w) : w[j] \in Int
          BY <3>1, <4>1
        <5>3. QED
          BY <5>1, <5>2
      <4>3. QED
        BY <4>1, <4>2
    <3>3. QED
      BY <2>1, <2>4, <3>2
  <2>7. d = s \o t
    <3> DEFINE u == body \o t
               v == s \o t
    <3>1. /\ u \in Seq(Int) /\ Len(u) = n + Len(t)
          /\ \A j \in 1 .. n : u[j] = body[j]
          /\ \A j \in 1 .. Len(t) : u[n + j] = t[j]
      BY <2>5, <2>6, Concatenation
    <3>2. /\ v \in Seq(Int) /\ Len(v) = n + Len(t)
          /\ \A j \in 1 .. n : v[j] = s[j]
          /\ \A j \in 1 .. Len(t) : v[n + j] = t[j]
      <4>1. /\ v \in Seq(Int) /\ Len(v) = Len(s) + Len(t)
            /\ \A j \in 1 .. Len(s) : v[j] = s[j]
            /\ \A j \in 1 .. Len(t) : v[Len(s) + j] = t[j]
        BY <2>5, <2>6, Concatenation
      <4>2. QED
        BY <2>4, <4>1
    <3> HIDE DEF u, v
    <3>3. \A j \in 1 .. n + Len(t) : v[j] = IF j = i THEN c ELSE u[j]
      <4> TAKE j \in 1 .. n + Len(t)
      <4>1. CASE j \in 1 .. n
        BY <2>4, <3>1, <3>2, <4>1
      <4>2. CASE j \notin 1 .. n
        <5>1. j - n \in 1 .. Len(t) /\ n + (j - n) = j /\ j # i
          BY <2>1, <2>5, <4>2
        <5>2. u[n + (j - n)] = t[j - n]
          BY <3>1, <5>1
        <5>3. v[n + (j - n)] = t[j - n]
          BY <3>2, <5>1
        <5>4. u[j] = v[j]
          BY <5>1, <5>2, <5>3
        <5>5. QED
          BY <5>1, <5>4
      <4>3. QED
        BY <4>1, <4>2
    <3>4. DOMAIN u = 1 .. n + Len(t) /\ v = [j \in 1 .. n + Len(t) |-> v[j]]
      BY <3>1, <3>2
    <3>5. [u EXCEPT ![i] = c] = [j \in DOMAIN u |-> IF j = i THEN c ELSE u[j]]
      OBVIOUS
    <3>6. [u EXCEPT ![i] = c] = v
      BY <3>3, <3>4, <3>5
    <3>7. QED
      BY <2>2, <3>6 DEF u, v
  <2>8. \A j \in 1 .. n : s[j] # Asterisk
    BY <2>1, <2>3, <2>4
  <2>9. verifyCheckSum(s \o Trailer(sum)) => calCheckSum(Tail(s)) = sum
    BY <2>1, <2>2, <2>4, <2>8, Verified
  <2>10. calCheckSum(Tail(s)) # calCheckSum(Tail(body))
    <3> DEFINE p == Tail(body)
               q == Tail(s)
    <3>1. s # << >>
      BY <2>1, <2>4
    <3>2. /\ p \in Seq(Byte) /\ Len(p) = n - 1 /\ n - 1 \in Nat
          /\ \A j \in 1 .. n - 1 : p[j] = body[j + 1]
      BY <2>1, TailIs
    <3>3. /\ q \in Seq(Byte) /\ Len(q) = n - 1
          /\ \A j \in 1 .. n - 1 : q[j] = s[j + 1]
      BY <2>4, <3>1, TailIs
    <3> HIDE DEF p, q
    <3>4. i - 1 \in 1 .. n - 1 /\ (i - 1) + 1 = i
      BY <2>1
    <3>5. q[i - 1] # p[i - 1]
      BY <2>4, <3>2, <3>3, <3>4
    <3>6. \A j \in 1 .. n - 1 : j # i - 1 => q[j] = p[j]
      <4> TAKE j \in 1 .. n - 1
      <4> HAVE j # i - 1
      <4>1. j + 1 \in 1 .. n /\ j + 1 # i
        BY <2>1
      <4>2. QED
        BY <2>4, <3>2, <3>3, <4>1
    <3>7. calCheckSum(q) # calCheckSum(p)
      BY <3>2, <3>3, <3>4, <3>5, <3>6, CheckSumDiffers
    <3>8. QED
      BY <3>7 DEF p, q
  <2>11. ~verifyCheckSum(d)
    BY <2>7, <2>9, <2>10 DEF sum, t
  <2>12. QED
    BY <2>11
<1>2. QED
  BY <1>1, InputsInvariant, PTL
=============================================================================
