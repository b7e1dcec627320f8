----------------------------- MODULE DataPacket -----------------------------
(***************************************************************************)
(* The wire format of packets (network-data.hpp, frame-data.hpp):          *)
(*                                                                         *)
(*   <number of blobs> [<blob size> <blob>]* <payload>                     *)
(*                                                                         *)
(* with blob sizes of two bytes, the low one first; packets with a header  *)
(* as their last blob, the packet of a video frame, its segments and its   *)
(* parity, and the storage that a frame is put together in again.  Bytes   *)
(* are numbers below ByteRange.                                            *)
(***************************************************************************)
EXTENDS Integers, SequencesExt, FiniteSetsExt

CONSTANTS
  ByteRange,       \* 256
  SegmentPayload   \* DataSegment::payloadLength of the wire length of segments

ASSUME PacketAssumption == ByteRange \in Nat \ {0, 1} /\ SegmentPayload \in Nat \ {0}

Zeros(n) == [i \in 1..n |-> 0]

-----------------------------------------------------------------------------
(* DataPacketT *)

(* reinit: the blobs, and where the payload begins *)
reinit(data) ==
  LET parsed[i \in Nat] ==
        IF i = 0 THEN [at |-> 2, blobs |-> <<>>, valid |-> TRUE]
        ELSE LET before == parsed[i - 1]
                 size == data[before.at] + ByteRange * data[before.at + 1]
             IN IF ~before.valid \/ before.at + size > Len(data) THEN [before EXCEPT !.valid = FALSE]
                ELSE [before EXCEPT !.at = @ + 2 + size,
                                    !.blobs = Append(@, SubSeq(data, before.at + 2, before.at + 1 + size))]
  IN parsed[data[1]]

payloadOf(data) == SubSeq(data, reinit(data).at, Len(data))
blobsOf(data) == reinit(data).blobs

newPacket(payload) == <<0>> \o payload

(* Fault: the size of a blob is stored in one byte. *)
addBlobShort(data, blob) ==
  LET at == reinit(data).at
  IN <<(data[1] + 1) % ByteRange>> \o SubSeq(data, 2, at - 1)
       \o <<Len(blob) % ByteRange, 0>> \o blob \o SubSeq(data, at, Len(data))

(* addBlob: the number of blobs is a byte; an empty blob is not added. *)
addBlob(data, blob) ==
  LET at == reinit(data).at
  IN IF blob = <<>> THEN data
     ELSE <<(data[1] + 1) % ByteRange>> \o SubSeq(data, 2, at - 1)
            \o <<Len(blob) % ByteRange, Len(blob) \div ByteRange>> \o blob \o SubSeq(data, at, Len(data))

(* Manifest: the digests of data objects; hasData looks one of them up. *)
manifestOf(digests) == FoldLeft(addBlob, newPacket(<<>>), digests)
hasData(data, digest) == \E b \in Range(blobsOf(data)) : b = digest

(* MediaStreamMeta: the timestamp of the stream, its threads and the        *)
(* streams it is in sync with; a blob with SYNC_MARKER, one byte here, in   *)
(* it names such a stream.                                                  *)
SYNC_MARKER == ByteRange - 1
mediaStreamMeta(timestamp, threads, syncStreams) ==
  LET withThreads == FoldLeft(addBlob, addBlob(newPacket(<<>>), <<timestamp>>), threads)
  IN FoldLeft(LAMBDA data, stream : addBlob(data, <<SYNC_MARKER>> \o stream), withThreads, syncStreams)

getThreads(data) == SelectSeq(Tail(blobsOf(data)), LAMBDA b : SYNC_MARKER \notin Range(b))

getSyncStreams(data) ==
  LET marked == SelectSeq(blobsOf(data), LAMBDA b : SYNC_MARKER \in Range(b))
  IN [i \in DOMAIN marked |-> Tail(marked[i])]

-----------------------------------------------------------------------------
(* VideoFramePacketT *)

(* The constructor, setSyncList and setHeader: what describes the frame,    *)
(* the pairs of thread and number, and the packet header last               *)
framePacket(frame) ==
  LET encoded == addBlob(newPacket(frame.bytes), <<frame.no, Len(frame.bytes)>>)
      pair(data, thread) == addBlob(addBlob(data, <<thread>>), <<frame.sync[thread]>>)
      synced == FoldLeft(pair, encoded, SetToSortSeq(DOMAIN frame.sync, LAMBDA a, b : a < b))
  IN addBlob(synced, frame.header)

getFrame(data) == SubSeq(payloadOf(data), 1, blobsOf(data)[1][2])
getHeader(data) == Last(blobsOf(data))

(* getSyncList *)
getSyncList(data) ==
  LET blobs == blobsOf(data)
  IN [thread \in {blobs[i][1] : i \in {j \in 2..Len(blobs) - 1 : j % 2 = 0}} |->
        blobs[(CHOOSE j \in 2..Len(blobs) - 1 : j % 2 = 0 /\ blobs[j][1] = thread) + 1][1]]

(* numSlices and slice *)
numSlices(data) == (Len(data) + SegmentPayload - 1) \div SegmentPayload
slice(data, k) ==
  SubSeq(data, k * SegmentPayload + 1, Min({(k + 1) * SegmentPayload, Len(data)}))

(* getNetworkData of a segment: its header is the last blob of a packet. *)
segmentPacket(header, payload) == addBlob(newPacket(payload), header)

-----------------------------------------------------------------------------
(* Reed-Solomon coding is external.  As long as no more than one source     *)
(* symbol is missing, which is what fec::parityWeight() asks for with two   *)
(* parity segments, it is a sum over the columns of the symbols; the second *)
(* parity symbol is a copy of the first.                                    *)
Symbol(data, k, size) == SubSeq(data, k * size + 1, (k + 1) * size)
sumOf(data, ks, size, c) == FoldSet(LAMBDA k, acc : (acc + Symbol(data, k, size)[c]) % ByteRange, 0, ks)

numParity(n) == Max({1, (n + 4) \div 5})

(* getParityData: the packet is padded with zeros to whole segments. *)
getParityData(data) ==
  LET n == numSlices(data)
      padded == data \o Zeros(n * SegmentPayload - Len(data))
      symbol == [c \in 1..SegmentPayload |-> sumOf(padded, 0..n - 1, SegmentPayload, c)]
  IN FlattenSeq([j \in 1..numParity(n) |-> symbol])

(* Rs28Decoder::decode: storage with the missing source symbol k restored *)
decode(storage, n, k, size) ==
  LET parity == Symbol(storage, n, size)
      restored == [c \in 1..size |-> (parity[c] + ByteRange - sumOf(storage, (0..n - 1) \ {k}, size, c)) % ByteRange]
  IN SubSeq(storage, 1, k * size) \o restored \o SubSeq(storage, (k + 1) * size + 1, Len(storage))

-----------------------------------------------------------------------------
(* VideoFrameSlot::readPacket *)

Resize(s, n) == IF Len(s) >= n THEN SubSeq(s, 1, n) ELSE s \o Zeros(n - Len(s))
InsertBytes(s, at, bytes) == SubSeq(s, 1, at) \o bytes \o SubSeq(s, at + 1, Len(s))

(* The segments segs (number to payload) are inserted from offset on, with  *)
(* zeros for the ones that are missing before the last of them.             *)
insertSegments(storage, segs, offset, step, size) ==
  LET add(s, k) == InsertBytes(s, offset + step * k, IF k \in DOMAIN segs THEN segs[k] ELSE Zeros(size))
  IN FoldLeft(add, storage, [i \in 1..Max(DOMAIN segs) + 1 |-> i - 1])

(* The storage after reading a frame of n data segments, of which data are  *)
(* there, with the parity segments parity.  What the storage held before is *)
(* pushed back by the insertions, not overwritten.                          *)
readPacket(old, n, data, parity) ==
  LET size == Len(data[Min(DOMAIN data)])
      paritySize == IF parity = <<>> THEN 0 ELSE Len(parity[Min(DOMAIN parity)])
      nParity == IF parity = <<>> THEN 0 ELSE numParity(n)
      filled == insertSegments(Resize(old, size * (n + nParity)), data, 0, size, size)
      missing == (0..n - 1) \ DOMAIN data
      whole == IF missing = {} THEN filled
               ELSE decode(insertSegments(filled, parity, n * size, paritySize, size),
                           n, CHOOSE k \in missing : TRUE, size)
  IN Resize(whole, n * size)
=============================================================================
