----------------------------- MODULE Operators -----------------------------
(***************************************************************************)
(* The pure algorithms of Estimation, TcpPacket and Sentence, and what     *)
(* they promise of every input.  A behaviour builds the input of one of    *)
(* them step by step: a reference, the delays of the channels it arrives   *)
(* in and noise; a step of the direction scan; the samples of a packet; a  *)
(* sentence.                                                               *)
(***************************************************************************)
EXTENDS Estimation, TcpPacket, Sentence

CONSTANTS
    Amplitude,      \* bound on the samples of a signal
    MaxReference,   \* bound on the length of the reference
    FrameLength,    \* length of the frames the reference is sought in
    MaxNoise,       \* bound on the samples of noise at the start of a frame
    MaxChannels,    \* bound on the channels of a frame or packet
    MaxRate,        \* bound on the sample rates
    Steps,          \* the values of doaStep
    MaxSamples,     \* bound on the samples of a channel of a packet
    Values,         \* the values of these samples
    Alphabet,       \* the characters of a sentence
    MaxBody         \* bound on the length of a sentence

\* The sentences are formatted from digits, letters, signs, points and commas.
ASSUME OperatorsAssumption ==
    /\ Amplitude \in Nat /\ FrameLength \in Nat
    /\ MaxReference \in Nat /\ MaxRate \in Nat /\ MaxChannels \in Nat /\ MaxSamples \in Nat
    /\ Steps \subseteq Nat \ {0}
    /\ Alphabet \subseteq (1 .. 127) \ {Asterisk}

Samples == -Amplitude .. Amplitude
Dollar  == 36
Parts   == {"estimation", "beam", "packet", "sentence"}

VARIABLES part, reference, delays, noise, doaStep, data, body
vars == <<part, reference, delays, noise, doaStep, data, body>>

Init ==
    /\ part \in Parts
    /\ reference = << >> /\ delays = << >> /\ noise = << >>
    /\ doaStep = 0 /\ data = << >> /\ body = <<Dollar>>

AddReferenceSample ==
    /\ part = "estimation"
    /\ delays = << >> /\ Len(reference) < MaxReference
    /\ \E x \in Samples : reference' = Append(reference, x)
    /\ UNCHANGED <<part, delays, noise, doaStep, data, body>>

\* One more channel, where the ping arrives with some delay.
AddChannel ==
    /\ part = "estimation"
    /\ reference # << >> /\ noise = << >> /\ Len(delays) < MaxChannels
    /\ \E d \in 0 .. FrameLength - Len(reference) : delays' = Append(delays, d)
    /\ UNCHANGED <<part, reference, noise, doaStep, data, body>>

AddNoise ==
    /\ part = "estimation"
    /\ delays # << >> /\ Len(noise) < MaxNoise
    /\ \E x \in Samples : noise' = Append(noise, x)
    /\ UNCHANGED <<part, reference, delays, doaStep, data, body>>

ChooseStep ==
    /\ part = "beam" /\ doaStep = 0
    /\ doaStep' \in Steps
    /\ UNCHANGED <<part, reference, delays, noise, data, body>>

ChooseData ==
    /\ part = "packet" /\ data = << >>
    /\ \E channelNum \in 1 .. MaxChannels, signalLength \in 0 .. MaxSamples :
          data' \in [1 .. channelNum -> [1 .. signalLength -> Values]]
    /\ UNCHANGED <<part, reference, delays, noise, doaStep, body>>

AddCharacter ==
    /\ part = "sentence" /\ Len(body) < MaxBody
    /\ \E c \in Alphabet : body' = Append(body, c)
    /\ UNCHANGED <<part, reference, delays, noise, doaStep, data>>

Next ==
    \/ AddReferenceSample \/ AddChannel \/ AddNoise
    \/ ChooseStep \/ ChooseData \/ AddCharacter

Spec == Init /\ [][Next]_vars

----------------------------------------------------------------------------
\* The inputs a behaviour builds.
Inputs ==
    /\ part \in Parts
    /\ reference \in Seq(Samples) /\ noise \in Seq(Samples)
    /\ delays \in Seq(0 .. FrameLength - Len(reference))
    /\ delays # << >> => reference # << >>
    /\ doaStep \in Steps \cup {0}
    /\ data # << >> => \E channelNum \in 1 .. MaxChannels, signalLength \in 0 .. MaxSamples :
                          data \in [1 .. channelNum -> [1 .. signalLength -> Values]]
    /\ body \in Seq(0 .. 127) /\ body # << >> /\ body[1] = Dollar
    /\ \A i \in 2 .. Len(body) : body[i] \in Alphabet

Frame(c) ==
    LET ping == Ping(reference, delays[c], FrameLength)
    IN  Signal([i \in 1 .. FrameLength |-> ping[i] + IF i \in DOMAIN noise THEN noise[i] ELSE 0])

\* The matched filter of calculateTOF (buffers padded to L1 + L2 - 1, the reversed
\* reference although its vector starts with zeros, the valid part cut out) is the
\* sliding inner product, for every signal.
CorrelationSlides ==
    \A c \in DOMAIN delays :
        /\ ~ConvThrows(Frame(c), Flipped(RefSignal(reference)))
        /\ Correlation(Frame(c), RefSignal(reference)).channel = Sliding(Frame(c).channel, reference)

\* A ping in a silent frame is found where it is, in every channel.
PingFound ==
    (ToSet(noise) \subseteq {0} /\ ~ToSet(reference) \subseteq {0}) =>
        \A c \in DOMAIN delays : MaxIndex(Frame(c), RefSignal(reference)) = delays[c]

\* The window of the direction estimate never leaves the frame, so that dataTrim
\* does not throw, when processDuration is no longer than the reference and
\* [Signal] sampleRate no more than referenceFrequency (the configuration asks for
\* equality), at any rounding of the delay and for any kind of reference.
WindowInside ==
    delays # << >> =>
        LET maxIndices == {MaxIndex(Frame(c), RefSignal(reference)) : c \in DOMAIN delays}
        IN  \A type \in {"SIG_CHRIP", "SIG_RISING"}, product \in 1 .. Unit * MaxReference :
            \A process \in Unit .. product, frequency \in 1 .. MaxRate : \A rate \in 1 .. frequency :
                SampleNum(type, product) = Len(reference) =>
                    \A start \in StartIndices(MinTOF(maxIndices), frequency, rate) :
                        ~TrimThrows(FrameLength, start, DoaEnd(start, DoaSignalLength(process)))

\* Each direction scanned, the extra one of a rounded sum included, has a column
\* of its own in the matrix, and the direction reported for the column is it.
BeamsDistinct ==
    doaStep # 0 =>
        \A k \in Directions(doaStep) :
            LET theta == Direction(k, doaStep)
            IN  /\ N2(theta, doaStep) \in 0 .. Columns(doaStep) - 1
                /\ Doa(N2(theta, doaStep), doaStep) = theta

\* serialize fills exactly the packetLength bytes sendData makes room for, and
\* deserialize gets back the packet; heartbeats and their answers are told apart
\* from data.
PacketRoundTrip ==
    \A p \in {Heartbeat, Answer} \cup IF data = << >> THEN {} ELSE {DataPacket(data)} :
        /\ Len(serialize(p)) = p.packetLength
        /\ deserialize(serialize(p)) = p

\* A sentence with its checksum added is accepted.
SentenceVerified == verifyCheckSum(addCheckSum(body))

\* A sentence with one wrong character between "$" and "*" is refused, whatever byte
\* the character has become, with one exception: a "*".  verifyCheckSum then takes it
\* for the end and the characters behind it for the checksum, and may accept it: of
\* "$12.3*1E" it refuses "$12,3*1E", but not "$12*3*1E".
CorruptionDetected ==
    \A i \in 2 .. Len(body), c \in (0 .. 255) \ {Asterisk} :
        c # body[i] => ~verifyCheckSum([addCheckSum(body) EXCEPT ![i] = c])
=============================================================================
