-------------------------- MODULE FramePublishing --------------------------
(***************************************************************************)
(* A frame on its way from VideoStreamImpl::publish through the packet     *)
(* publisher (packet-publisher.hpp), the memory cache and its pending      *)
(* Interests to VideoFrameSlot::readPacket, and into persistent storage    *)
(* (storage-engine.cpp).                                                   *)
(*                                                                         *)
(* Publishing a frame is one task on the face thread; Interests come       *)
(* before or after it.  The consumer makes names from a NamespaceInfo, the *)
(* producer puts them together from components.                            *)
(***************************************************************************)
EXTENDS Names, DataPacket

CONSTANTS
  Frames,       \* the frames published, in order: no, class, bytes, sync, header
  Stream,       \* NamespaceInfo of the thread
  Threads, SyncStreams, \* names of the stream's threads and of streams in sync with it
  Recorded,     \* names of the threads whose frames are in the storage
  Asked,        \* numbers of data segments that Interests ask for
  MaxEvents     \* bound on Interests, reads, metadata and stored batches together

VARIABLES
  pit,       \* pending Interests in the order of arrival, as [name, nonce]
  cache,     \* published segments: name to content
  metaVersion_, \* versions of stream metadata published
  manifests, \* published manifests: frame to packet
  next,      \* the frame to be published next
  nonces,    \* Interests expressed so far; each has its own nonce
  answers,   \* Data for Interests, as [name, nonce, content, waited]
  storage,   \* storage_ of VideoFrameSlot
  taken,     \* frames read so far
  result,    \* what was read last
  stored     \* batches of segments in persistent storage, as <<frame, parity, thread>>

vars == <<pit, cache, metaVersion_, manifests, next, nonces, answers, storage, taken, result, stored>>

(* What the bound counts *)
EventsLeft == nonces + metaVersion_ + Cardinality(taken) + Cardinality(stored) < MaxEvents

Nothing == [frame |-> 0, missing |-> {}, fresh |-> FALSE, data |-> <<>>]

-----------------------------------------------------------------------------
(* Names *)

SampleInfo(f, parity, k) ==
  [Stream EXCEPT !.no = Frames[f].no, !.class = Frames[f].class, !.isParity = parity,
                 !.segClass = IF parity THEN "Parity" ELSE "Data", !.seg = k]

(* Interest names, as the consumer makes them *)
interestName(f, parity, k) == getPrefix(SampleInfo(f, parity, k), PrefixFilter.Segment)

(* dataName of VideoStreamImpl::publish *)
streamPrefix == Stream.base \o <<App, Version(Stream.api), Str(Stream.type), Str(Stream.stream), Timestamp(Stream.ts)>>
dataName(f) == streamPrefix \o <<Str(Stream.thread), FrameType(Frames[f].class), SequenceNumber(Frames[f].no)>>
packetName(f, parity) == dataName(f) \o When(parity, <<Parity>>)
segmentName(f, parity, k) == Append(packetName(f, parity), Segment(k))

(* metaName of MediaStreamBase::publishMeta: without the timestamp *)
metaName(version) == Front(streamPrefix) \o <<Meta, Version(version)>>

-----------------------------------------------------------------------------
(* What VideoStreamImpl::publish hands to the publisher, by frame: the      *)
(* packet and its parity                                                    *)
Packets == [f \in DOMAIN Frames |-> framePacket(Frames[f])]
ParityData == [f \in DOMAIN Frames |-> getParityData(Packets[f])]

numSegments(f, parity) == numSlices(IF parity THEN ParityData[f] ELSE Packets[f])
Segments(f, parity) == {segmentName(f, parity, k) : k \in 0..numSegments(f, parity) - 1}

-----------------------------------------------------------------------------
(* PacketPublisher *)

Pending(name) == {i \in DOMAIN pit : pit[i].name = name}

(* Fault: the header is set before the pending Interests are looked up. *)
headerNonceBefore(name) ==
  LET pending(k) == Pending(Append(name, Segment(k)))
      nonce[k \in Nat] ==
        IF k = 0 THEN 0 ELSE IF pending(k - 1) # {} THEN pit[Max(pending(k - 1))].nonce ELSE nonce[k - 1]
  IN nonce

(* checkForPendingInterests: the nonce in the header of segment k is that   *)
(* of the last Interest pending for it; otherwise what segment k - 1 has.   *)
headerNonce(name) ==
  LET pending(k) == Pending(Append(name, Segment(k)))
      nonce[k \in Nat] ==
        IF pending(k) # {} THEN pit[Max(pending(k))].nonce ELSE IF k = 0 THEN 0 ELSE nonce[k - 1]
  IN nonce

(* publish: the segments of data, by name *)
publishSegments(name, data, nData) ==
  [n \in {Append(name, Segment(k)) : k \in 0..numSlices(data) - 1} |->
     LET k == Last(n)[2]
     IN segmentPacket(<<headerNonce(name)[k], nData, numSlices(data)>>, slice(data, k))]

(* The digest in a full name; a digest is as good as what it is made of. *)
digestOf(f, parity, k) == <<f, IF parity THEN 1 ELSE 0, k>>

(* publishManifest: data segments, then parity segments *)
publishManifest(f, nData, nParity) ==
  manifestOf([i \in 1..nData + nParity |->
                IF i <= nData THEN digestOf(f, FALSE, i - 1) ELSE digestOf(f, TRUE, i - nData - 1)])

(* isOriginal of WireSegment *)
isOriginal(a) == Last(blobsOf(a.content))[1] = a.nonce

-----------------------------------------------------------------------------
Init ==
  /\ pit = <<>> /\ cache = [x \in {} |-> <<>>] /\ metaVersion_ = 0 /\ manifests = <<>> /\ next = 1
  /\ nonces = 0 /\ answers = {}
  /\ storage = <<>> /\ taken = {} /\ result = Nothing /\ stored = {}

(* An Interest arrives; the cache answers it if it can. *)
OnInterest(f, parity, k) ==
  /\ EventsLeft /\ nonces' = nonces + 1
  /\ LET name == interestName(f, parity, k)
     IN IF name \in DOMAIN cache
        THEN answers' = answers \cup {[name |-> name, nonce |-> nonces', content |-> cache[name], waited |-> FALSE]}
             /\ UNCHANGED pit
        ELSE pit' = Append(pit, [name |-> name, nonce |-> nonces']) /\ UNCHANGED answers
  /\ UNCHANGED <<cache, metaVersion_, manifests, next, storage, taken, result, stored>>

(* publish of a frame, its parity and its manifest.  The cache answers the  *)
(* Interests that are pending.  cleanPit and deepCleanPit make NACKs for    *)
(* other ones and send none: publishNack does not add them to the cache.    *)
PublishFrame ==
  /\ next <= Len(Frames) /\ next' = next + 1
  /\ LET data == Packets[next]
         parity == ParityData[next]
         published == publishSegments(packetName(next, FALSE), data, numSlices(data))
                        @@ publishSegments(packetName(next, TRUE), parity, numSlices(data))
         met == {i \in DOMAIN pit : pit[i].name \in DOMAIN published}
     IN /\ cache' = cache @@ published
        /\ manifests' = Append(manifests, publishManifest(next, numSlices(data), numSlices(parity)))
        /\ answers' = answers \cup {[name |-> pit[i].name, nonce |-> pit[i].nonce,
                                     content |-> published[pit[i].name], waited |-> TRUE] : i \in met}
        /\ pit' = SelectSeq(pit, LAMBDA p : p.name \notin DOMAIN published)
  /\ UNCHANGED <<metaVersion_, nonces, storage, taken, result, stored>>

(* publishMeta of MediaStreamBase, by addThread, removeThread and the       *)
(* periodic invocation                                                      *)
PublishMeta ==
  /\ EventsLeft /\ metaVersion_' = metaVersion_ + 1
  /\ cache' = cache @@ publishSegments(metaName(metaVersion_), mediaStreamMeta(Stream.ts, Threads, SyncStreams), 0)
  /\ UNCHANGED <<pit, manifests, next, nonces, answers, storage, taken, result, stored>>

payloads(names) == [k \in {Last(name)[2] : name \in names} |->
                      payloadOf(cache[CHOOSE name \in names : Last(name)[2] = k])]

(* A slot with the data segments ds and parity segments ps is ready, and    *)
(* the playout reads the frame.                                             *)
ReadFrame(f, ds, ps) ==
  /\ EventsLeft /\ f \notin taken /\ taken' = taken \cup {f}
  /\ LET n == numSegments(f, FALSE)
     IN /\ 2 * Cardinality(ds) + Cardinality(ps) >= 2 * n
        /\ storage' = readPacket(storage, n, payloads(ds), payloads(ps))
        /\ result' = [frame |-> f, missing |-> (0..n - 1) \ {Last(name)[2] : name \in ds},
                      fresh |-> storage = <<>>, data |-> storage']
  /\ UNCHANGED <<pit, cache, metaVersion_, manifests, next, nonces, answers, stored>>

-----------------------------------------------------------------------------
(* StorageEngineImpl *)

(* onSegmentsCached puts the segments of one publish call, data or parity;  *)
(* a recorder puts the frames of the threads that it fetches as it gets     *)
(* them.                                                                    *)
Put(f, parity, thread) ==
  /\ EventsLeft /\ <<f, parity, thread>> \notin stored
  /\ stored' = stored \cup {<<f, parity, thread>>}
  /\ UNCHANGED <<pit, cache, metaVersion_, manifests, next, nonces, answers, storage, taken, result>>

ofThread(name, thread) == [name EXCEPT ![Len(streamPrefix) + 1] = Str(thread)]
db == UNION {{ofThread(name, b[3]) : name \in Segments(b[1], b[2])} : b \in stored}

(* buildKeyTrie: nodes are the prefixes of keys. *)
Nodes == UNION {{SubSeq(key, 1, i) : i \in 1..Len(key)} : key \in db}
Children(nodes, node) == {n \in nodes : Len(n) = Len(node) + 1 /\ IsPrefix(node, n)}

(* getLongestPrefixes of NameTrie: from each first component down as long   *)
(* as there is one way to go                                                *)
getLongestPrefixes ==
  LET nodes == Nodes
      goOn == {node \in nodes : Cardinality(Children(nodes, node)) = 1}
  IN {node \in nodes \ goOn : \A i \in 1..Len(node) - 1 : SubSeq(node, 1, i) \in goOn}

Next ==
  \/ \E f \in DOMAIN Frames, parity \in BOOLEAN, k \in Asked : OnInterest(f, parity, k)
  \/ PublishFrame
  \/ PublishMeta
  \/ \E f \in 1..next - 1, ps \in {{}, {0}, {1}, {0, 1}} :
       LET n == numSegments(f, FALSE)
       IN \E lost \in {{}} \cup {{k} : k \in 0..n - 1} :
            ReadFrame(f, {segmentName(f, FALSE, k) : k \in (0..n - 1) \ lost}, {segmentName(f, TRUE, k) : k \in ps})
  \/ \E f \in 1..next - 1, parity \in BOOLEAN, thread \in Recorded : Put(f, parity, thread)

Spec == Init /\ [][Next]_vars

-----------------------------------------------------------------------------
(* Properties *)

(* Type correctness of cache, pending Interests and storage. *)
PublishingTypeOK ==
  /\ next \in 1..Len(Frames) + 1 /\ Len(manifests) = next - 1
  /\ \A name \in DOMAIN cache : Range(cache[name]) \subseteq 0..ByteRange - 1
  /\ Range(storage) \subseteq 0..ByteRange - 1
  /\ taken \subseteq 1..next - 1 /\ {b[1] : b \in stored} \subseteq 1..next - 1 /\ result.frame \in taken \cup {0}

(* What was read is what was published. *)
Intact(r) ==
  LET f == Frames[r.frame]
  IN /\ reinit(r.data).valid
     /\ getFrame(r.data) = f.bytes /\ getSyncList(r.data) = f.sync /\ getHeader(r.data) = f.header

(* A frame of which all data segments were fetched is read as it was        *)
(* published, whatever the storage still holds of the frames before it; so  *)
(* is a frame restored by parity, if no frame was read before it, if the    *)
(* packet fills its last segment or if that is the one restored.            *)
FrameIntact ==
  result.frame # 0 =>
    LET length == Len(Packets[result.frame])
        last == numSlices(Packets[result.frame]) - 1
    IN (result.missing = {} \/ result.fresh \/ length % SegmentPayload = 0 \/ last \in result.missing)
         => Intact(result)

(* "Indicates, whether current packet was retrieved with the interest       *)
(* passed at the construction" (network-data.hpp): a segment says so to the *)
(* last Interest that was waiting for it, although the header is handed on  *)
(* from segment to segment, and to no Interest that the cache answered.     *)
OriginalForWaiting ==
  \A a \in answers :
    isOriginal(a) <=> a.waited /\ \A b \in answers : b.name = a.name /\ b.waited => b.nonce <= a.nonce

(* The manifest of the last frame describes its segments, data and parity,  *)
(* and no segment of a frame before it.                                     *)
ManifestDescribes ==
  manifests # <<>> =>
    \A f \in 1..next - 1, parity \in BOOLEAN : \A k \in 0..numSegments(f, parity) - 1 :
      hasData(Last(manifests), digestOf(f, parity, k)) <=> f = next - 1

(* Producer and consumer, who make names in different ways, mean the same:  *)
(* the name of each segment is the name that an Interest for it has and is  *)
(* parsed into what it was made from, whatever the prefix contains.         *)
NamesAgree ==
  \A name \in IF next = 1 THEN {} ELSE Segments(next - 1, FALSE) \cup Segments(next - 1, TRUE) :
    LET k == Last(name)[2]
        info == extractInfo(name)
    IN /\ name = interestName(next - 1, info.isParity, k)
       /\ info = SampleInfo(next - 1, info.isParity, k)
       /\ name = Stream.base \o getSuffix(info, SuffixFilter.Library)

(* Stream metadata, put together from its segments, tells the timestamp,    *)
(* the threads and the streams in sync, and its names are parsed into those *)
(* that a consumer makes, who does not know the timestamp yet.              *)
MetaIntact ==
  metaVersion_ # 0 =>
    LET packet == mediaStreamMeta(Stream.ts, Threads, SyncStreams)
        name(k) == Append(metaName(metaVersion_ - 1), Segment(k))
        data == FlattenSeq([k \in 1..numSlices(packet) |-> payloadOf(cache[name(k - 1)])])
        info == [Stream EXCEPT !.ts = 0, !.thread = "", !.isMeta = TRUE, !.segClass = "Meta",
                               !.version = metaVersion_ - 1]
    IN /\ blobsOf(data)[1] = <<Stream.ts>> /\ getThreads(data) = Threads /\ getSyncStreams(data) = SyncStreams
       /\ extractInfo(name(0)) = info /\ getPrefix(info, PrefixFilter.Segment) = name(0)

(* The scan of the storage, over the frames of one thread or of several,    *)
(* finds the one longest common prefix of the keys.                         *)
ScanFinds ==
  LET prefixes == getLongestPrefixes
      keys == db
      common == {n \in Nodes : \A key \in keys : IsPrefix(n, key)}
  IN /\ Cardinality(prefixes) = (IF keys = {} THEN 0 ELSE 1)
     /\ \A p \in prefixes : p \in common /\ \A n \in common : Len(n) <= Len(p)

(* Frames, stream metadata and manifests are read as they were published,   *)
(* over slicing, parity and a storage that is used again.                   *)
ReadAsPublished ==
  /\ PublishingTypeOK
  /\ FrameIntact
  /\ MetaIntact
  /\ ManifestDescribes

(* Names mean the same to producer, consumer and storage: they are made and *)
(* parsed alike, and the storage tells the prefixes to be registered.       *)
NamesResolve ==
  /\ NamesAgree
  /\ ScanFinds
=============================================================================
