----------------------------- MODULE TcpPacket -----------------------------
(***************************************************************************)
(* The packets of the TCP sender (TcpSignalType in thread_tcpComm.cpp):    *)
(* the constructor, serialize and deserialize.  A byte in a buffer is      *)
(* <<value, n>>, the n-th byte of a value; numbers and samples are         *)
(* integers, isInit is 0 or 1.                                             *)
(***************************************************************************)
EXTENDS Integers, Sequences, SequencesExt

Int32 == 4      \* sizeof(int), and of the checksum
Bool  == 1      \* sizeof(bool)
Double == 8     \* sizeof(double)

\* crc32 of zlib: some function of the samples.
Crc(channelData) == FoldLeft(LAMBDA c, d : (31 * c + d + 7) % 65521, 0, channelData)

HeaderOnly == {0, 9}    \* signalType of a heartbeat and of its answer

\* packetLength, signalType, isInit, channelNum, signalLength, data, checksum.
PacketLength(signalType, channelData) ==
    5 * Int32 + Bool + (IF signalType \in HeaderOnly THEN 0 ELSE Len(channelData) * Double)

\* The constructor.
Packet(isInit, channelNum, signalLength, channels, signalType) ==
    LET channelData == IF signalType \in HeaderOnly THEN << >> ELSE FlattenSeq(channels)
    IN  [isInit |-> isInit, channelNum |-> channelNum, signalLength |-> signalLength,
         signalType |-> signalType, channelData |-> channelData,
         packetLength |-> PacketLength(signalType, channelData), checksum |-> Crc(channelData)]

\* The packets sendData makes, and the answer of the client.
Heartbeat       == Packet(0, 0, 0, << >>, 0)
Answer          == Packet(0, 0, 0, << >>, 9)
DataPacket(data) == Packet(1, Len(data), Len(data[1]), data, 1)

----------------------------------------------------------------------------
Bytes(value, size) == [n \in 1 .. size |-> <<value, n>>]

\* What serialize writes, from the first byte of the buffer on.
serialize(p) ==
    Bytes(p.packetLength, Int32) \o Bytes(p.signalType, Int32) \o Bytes(p.isInit, Bool)
    \o Bytes(p.channelNum, Int32) \o Bytes(p.signalLength, Int32)
    \o FlattenSeq([i \in DOMAIN p.channelData |-> Bytes(p.channelData[i], Double)])
    \o Bytes(p.checksum, Int32)

\* memcpy of size bytes at an offset: a value, if they are the bytes of one.
Garbage == -1
Read(buffer, offset, size) ==
    IF /\ offset + size <= Len(buffer)
       /\ \A n \in 1 .. size : buffer[offset + n] = <<buffer[offset + 1][1], n>>
    THEN buffer[offset + 1][1] ELSE Garbage

\* Mutant: the offset is moved on by the whole data for each channel.
ReadChannels_Skip(buffer, offset, channelNum, signalLength) ==
    [i \in 1 .. channelNum |-> [j \in 1 .. signalLength |->
        Read(buffer, offset + (2 * (i - 1) * signalLength + (j - 1)) * Double, Double)]]

ReadChannels(buffer, offset, channelNum, signalLength) ==
    [i \in 1 .. channelNum |-> [j \in 1 .. signalLength |->
        Read(buffer, offset + ((i - 1) * signalLength + (j - 1)) * Double, Double)]]

\* packetLength and the checksum of the buffer are read and not used: the
\* constructor computes them anew.
deserialize(buffer) ==
    LET signalType   == Read(buffer, Int32, Int32)
        isInit       == Read(buffer, 2 * Int32, Bool)
        channelNum   == Read(buffer, 2 * Int32 + Bool, Int32)
        signalLength == Read(buffer, 3 * Int32 + Bool, Int32)
        data         == 4 * Int32 + Bool
    IN  Packet(isInit, channelNum, signalLength,
               ReadChannels(buffer, data, channelNum, signalLength), signalType)
=============================================================================
