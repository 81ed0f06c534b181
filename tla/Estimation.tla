----------------------------- MODULE Estimation -----------------------------
(***************************************************************************)
(* The index arithmetic of the estimation: how long the reference signal   *)
(* is, at which lag of the correlation a ping is found, which samples the  *)
(* direction is estimated from, which column of the beam pattern belongs   *)
(* to which direction.  Samples are integers, and the Fourier transforms   *)
(* of csvconv stand for what their product computes, a circular            *)
(* convolution.  Signals are those of one channel; calculateTOF treats the *)
(* channels one by one.  Times are counted in samples.                     *)
(***************************************************************************)
EXTENDS Integers, Sequences, SequencesExt, FiniteSetsExt

CONSTANTS
    Unit,       \* sampleRate * duration is a multiple of 1/Unit samples
    HalfTurn    \* 180 degrees, in the unit of doaStep

ASSUME UnitAssumption == Unit \in Nat \ {0} /\ HalfTurn \in Nat \ {0}

----------------------------------------------------------------------------
(* A signal: signalLength is what it says it has, channel what is in it.   *)

Signal(samples) == [signalLength |-> Len(samples), channel |-> samples]

Zeros(n) == [i \in 1 .. n |-> 0]

\* The samples of a part of product = sampleRate * duration * Unit.  The waves
\* are filled in a loop while i < sampleNum, the others resized to sampleNum.
SampleNum(type, product) ==
    IF type \in {"SIG_SIN", "SIG_COS", "SIG_CHRIP"}
    THEN (product + Unit - 1) \div Unit
    ELSE product \div Unit

\* main resizes the reference to n zeros and then pushes the n samples back:
\* the vector is twice as long as signalLength says.
RefSignal(samples) ==
    [signalLength |-> Len(samples), channel |-> Zeros(Len(samples)) \o samples]

\* Mutant: only the signalLength samples that count are reversed.
Flipped_Declared(ref) ==
    [ref EXCEPT !.channel = Reverse(SubSeq(@, 1, ref.signalLength))]

\* std::reverse of the whole vector.
Flipped(ref) == [ref EXCEPT !.channel = Reverse(@)]

\* The buffer of N samples csvconv fills with a signal and zeros.
Padded(s, N) == [i \in 1 .. N |-> IF i <= s.signalLength THEN s.channel[i] ELSE 0]

\* Forward transforms, product and inverse transform of two buffers of N samples.
FFTProduct(X, H, N) ==
    [k \in 1 .. N |-> SumFunction([j \in 1 .. N |-> X[j] * H[1 + ((k - j) % N)]])]

csvconv(s1, s2) ==
    LET N == s1.signalLength + s2.signalLength - 1
    IN  Signal(FFTProduct(Padded(s1, N), Padded(s2, N), N))

\* csvconv_valid throws when the signal is shorter than the reference, or that empty.
ConvThrows(s1, s2) == s1.signalLength < s2.signalLength \/ s2.signalLength = 0

\* Mutant: the valid part is taken one sample late.
csvconv_valid_Late(s1, s2) ==
    LET outputLength == s1.signalLength - s2.signalLength + 1
    IN  Signal([i \in 1 .. outputLength |->
                  (csvconv(s1, s2).channel \o <<0>>)[s2.signalLength + i]])

\* The part of the convolution where the reference lies inside the signal.
csvconv_valid(s1, s2) ==
    LET outputLength == s1.signalLength - s2.signalLength + 1
        full         == csvconv(s1, s2).channel
    IN  Signal([i \in 1 .. outputLength |-> full[s2.signalLength - 1 + i]])

Correlation(signal, ref) == csvconv_valid(signal, Flipped(ref))

\* The first index, from 0, of a largest element.
MaxElement(c) ==
    (CHOOSE i \in DOMAIN c : /\ \A j \in DOMAIN c : c[j] <= c[i]
                             /\ \A j \in 1 .. i - 1 : c[j] < c[i]) - 1

MaxIndex(signal, ref) == MaxElement(Correlation(signal, ref).channel)

----------------------------------------------------------------------------
(* The window of the direction estimate.                                   *)

\* The least of the channels' delays, in samples of the reference.
MinTOF(maxIndices) == CHOOSE m \in maxIndices : \A n \in maxIndices : m <= n

\* (int) (tof * sampleRate), where tof = maxIndex / referenceSignalFrequency was
\* rounded: an exact product may come out one too small.
StartIndices(maxIndex, referenceSignalFrequency, sampleRate) ==
    LET exact == maxIndex * sampleRate
        n     == exact \div referenceSignalFrequency
    IN  IF exact % referenceSignalFrequency = 0 /\ n > 0 THEN {n - 1, n} ELSE {n}

\* Mutant: the duration is rounded up.
DoaSignalLength_Up(product) == (product + Unit - 1) \div Unit

\* selectSigDuration * sampleRate, truncated.
DoaSignalLength(product) == product \div Unit

\* The last sample of the window.
DoaEnd(startDir, doaSignalLength) == startDir + doaSignalLength - 1

\* dataTrim(signal, start, end) throws.
TrimThrows(signalLength, start, end) == start < 0 \/ end >= signalLength \/ start > end

----------------------------------------------------------------------------
(* The beam pattern.                                                       *)

\* The directions of the loop, by their number k: -180 + k doaStep, while it is
\* below 180.  theta is summed up in floating point: when doaStep divides 360 the
\* sum may stay below 180 for one more round.
Direction(k, doaStep) == k * doaStep - HalfTurn

Directions(doaStep) == {k \in 1 .. (2 * HalfTurn) \div doaStep : Direction(k, doaStep) <= HalfTurn}

\* The columns of the matrix.
Columns(doaStep) == (2 * HalfTurn) \div doaStep

\* Mutant: the column is counted from 1.
N2_FromOne(theta, doaStep) == (2 * (theta + HalfTurn) + doaStep) \div (2 * doaStep)

\* round((theta + 180) / doaStep) - 1
N2(theta, doaStep) == (2 * (theta + HalfTurn) + doaStep) \div (2 * doaStep) - 1

\* The direction reported for a column.
Doa(doaIndex, doaStep) == (doaIndex + 1) * doaStep - HalfTurn

----------------------------------------------------------------------------
(* What the arithmetic has to get right.                                   *)

\* The correlation at lag k is the inner product of the reference with the
\* samples k, k+1, ... of the signal: no circular term, no offset.
Sliding(samples, reference) ==
    [k \in 1 .. Len(samples) - Len(reference) + 1 |->
        SumFunction([j \in DOMAIN reference |-> samples[k + j - 1] * reference[j]])]

\* Samples with the reference from index delay (from 0) on, and zeros elsewhere.
Ping(reference, delay, signalLength) ==
    [i \in 1 .. signalLength |->
        IF i - delay \in DOMAIN reference THEN reference[i - delay] ELSE 0]
=============================================================================
