------------------------------- MODULE Names -------------------------------
(***************************************************************************)
(* The naming scheme (name-components.cpp): NamespaceInfo and the names    *)
(* that are made of it and parsed into it.  A name is a sequence of        *)
(* components <<kind, value>>: a string, a version, a timestamp, a         *)
(* sequence number or a segment number.                                    *)
(***************************************************************************)
EXTENDS Integers, Sequences

Str(s) == <<"string", s>>
Version(n) == <<"version", n>>
Timestamp(n) == <<"timestamp", n>>
SequenceNumber(n) == <<"sequence", n>>
Segment(n) == <<"segment", n>>

App == Str("ndnrtc")
Meta == Str("_meta")
Parity == Str("_parity")
Manifest == Str("_manifest")
FrameType(class) == Str(IF class = "Delta" THEN "d" ELSE "k")

(* NamespaceInfo, with the defaults of its constructor *)
NoInfo ==
  [base |-> <<>>, api |-> 0, type |-> "video", stream |-> "", ts |-> 0, thread |-> "", isMeta |-> FALSE,
   isParity |-> FALSE, class |-> "Unknown", segClass |-> "Unknown", no |-> 0, seg |-> 0, version |-> 0]

When(c, components) == IF c THEN components ELSE <<>>

(* The filters are bit masks, each with the bits of the smaller ones. *)
PrefixFilter == [Base |-> 0, Library |-> 1, Stream |-> 2, StreamTS |-> 3, ThreadNT |-> 4, Thread |-> 5,
                 Sample |-> 6, Segment |-> 7]
SuffixFilter == [Segment |-> 0, Sample |-> 1, Thread |-> 2, Stream |-> 3, Library |-> 4]

(* getPrefix *)
getPrefix(i, filter) ==
  LET has(level) == filter >= PrefixFilter[level]
      inThread == i.thread # ""
  IN i.base
       \o When(has("Library"), <<App, Version(i.api)>>)
       \o When(has("Stream"), <<Str(i.type), Str(i.stream)>>)
       \o When(has("StreamTS") /\ inThread, <<Timestamp(i.ts)>>)
       \o When(has("ThreadNT") /\ inThread, <<Str(i.thread)>>)
       \o IF i.isMeta
          THEN When(has("Sample"), <<Meta>>) \o When(has("Segment"), <<Version(i.version), Segment(i.seg)>>)
          ELSE When(has("Thread") /\ inThread /\ i.type = "video", <<FrameType(i.class)>>)
                 \o When(has("Sample"), <<SequenceNumber(i.no)>>)
                 \o When(has("Segment"), When(i.isParity, <<Parity>>) \o <<Segment(i.seg)>>)

(* getSuffix, of a name with a segment number *)
getSuffix(i, filter) ==
  LET has(level) == filter >= SuffixFilter[level]
      inThread == i.thread # ""
  IN When(has("Library"), <<App, Version(i.api)>>)
       \o When(has("Stream"), <<Str(i.type), Str(i.stream)>> \o When(inThread, <<Timestamp(i.ts)>>))
       \o When(has("Thread") /\ inThread, <<Str(i.thread)>>)
       \o When(i.isMeta /\ (has("Stream") \/ (has("Thread") /\ inThread)), <<Meta>>)
       \o When(has("Thread") /\ inThread /\ i.type = "video" /\ ~i.isMeta, <<FrameType(i.class)>>)
       \o When(has("Sample"), <<IF i.isMeta THEN Version(i.version) ELSE SequenceNumber(i.no)>>)
       \o When(i.isParity, <<Parity>>) \o <<Segment(i.seg)>>

-----------------------------------------------------------------------------
(* extractInfo, of names that are good; Bad stands for FALSE. *)
Bad == [NoInfo EXCEPT !.type = "bad"]

From(name, i) == SubSeq(name, i, Len(name))
Is(name, i, kind) == i <= Len(name) /\ name[i][1] = kind
ValueOr(name, i, kind, default) == IF Is(name, i, kind) THEN name[i][2] ELSE default

(* extractMeta *)
extractMeta(name, info) ==
  [info EXCEPT !.version = ValueOr(name, 1, "version", @), !.seg = ValueOr(name, 2, "segment", @)]

(* The end of extractVideoStreamInfo and of extractAudioStreamInfo: the     *)
(* sample and its segment                                                   *)
extractSample(name, info) ==
  LET i == [info EXCEPT !.no = ValueOr(name, 1, "sequence", @)]
  IN IF Len(name) > 0 /\ ~Is(name, 1, "sequence") THEN Bad
     ELSE IF Len(name) < 2 THEN i
     ELSE IF name[2] = Parity /\ info.type = "video"
     THEN IF Len(name) = 2 THEN Bad
          ELSE [i EXCEPT !.isParity = TRUE, !.segClass = "Parity", !.seg = ValueOr(name, 3, "segment", @)]
     ELSE IF name[2] = Manifest THEN [i EXCEPT !.segClass = "Manifest"]
     ELSE IF Is(name, 2, "segment") THEN [i EXCEPT !.segClass = "Data", !.seg = name[2][2]]
     ELSE Bad

(* extractVideoStreamInfo and extractAudioStreamInfo *)
extractStreamInfo(name, info) ==
  LET stream == [info EXCEPT !.stream = name[1][2]]
      thread == [stream EXCEPT !.ts = name[2][2], !.thread = name[3][2]]
      meta(i) == [i EXCEPT !.isMeta = TRUE, !.segClass = "Meta"]
      class == IF info.type = "audio" \/ name[4] = FrameType("Delta") THEN "Delta" ELSE "Key"
  IN IF Len(name) = 0 THEN Bad
     ELSE IF Len(name) = 1 THEN stream
     ELSE IF Len(name) = 2 /\ Is(name, 2, "timestamp") THEN [stream EXCEPT !.ts = name[2][2]]
     ELSE IF name[2] = Meta
     THEN IF Is(name, 3, "version") THEN extractMeta(From(name, 3), meta(stream)) ELSE Bad
     ELSE IF Len(name) < 3 \/ ~Is(name, 2, "timestamp") THEN Bad
     ELSE IF Len(name) = 3 THEN thread
     ELSE IF name[4] = Meta THEN extractMeta(From(name, 5), meta(thread))
     ELSE IF info.type = "audio" THEN extractSample(From(name, 4), [thread EXCEPT !.class = class])
     ELSE IF name[4] \in {FrameType("Delta"), FrameType("Key")}
     THEN extractSample(From(name, 5), [thread EXCEPT !.class = class])
     ELSE Bad

(* Fault: the library component is looked for from the start. *)
AppAtFirst(name, i) ==
  /\ i \in 2..Len(name) - 1 /\ name[i] = App
  /\ \A j \in 2..i - 1 : name[j] # App

(* The library component is looked for from the end of the name. *)
AppAt(name, i) ==
  /\ i \in 2..Len(name) - 1 /\ name[i] = App
  /\ \A j \in i + 1..Len(name) - 1 : name[j] # App

extractInfo(name) ==
  IF \E i \in 2..Len(name) : AppAt(name, i)
  THEN LET i == CHOOSE j \in 2..Len(name) : AppAt(name, j)
       IN IF Is(name, i + 1, "version") /\ Len(name) >= i + 2
             /\ name[i + 2] \in {Str("audio"), Str("video")}
          THEN extractStreamInfo(From(name, i + 3),
                 [NoInfo EXCEPT !.base = SubSeq(name, 1, i - 1), !.api = name[i + 1][2], !.type = name[i + 2][2]])
          ELSE Bad
  ELSE Bad
=============================================================================
