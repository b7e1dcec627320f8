-------------------------- MODULE SampleValidation --------------------------
(***************************************************************************)
(* The frame buffer with ManifestValidator attached (sample-validator.cpp):*)
(* for every sample requested a MetaFetcher from a pool fetches the signed *)
(* manifest; when the manifest and all the data are there, in either       *)
(* order, the sample is checked against it.  The callbacks keep the slot,  *)
(* not the sample: a manifest may arrive when its slot is back in the pool *)
(* or serves another sample.                                               *)
(***************************************************************************)
EXTENDS FrameBuffer

CONSTANTS
  PoolSize,    \* META_FETCHER_POOL_SIZE
  MaxFetches   \* bound on manifests being fetched

ASSUME PoolAssumption == PoolSize \in Nat \ {0} /\ MaxFetches \in Nat

VARIABLES
  manifest,  \* manifest_ of each slot: the sample it lists the segments of
  verified,  \* verified_ of each slot
  fetching,  \* fetchers at work: for which slot and sample
  pool       \* size and capacity of metaFetcherPool_

vvars == <<buf, manifest, verified, fetching, pool>>

(* Fault: only the segments of a recycled slot are forgotten. *)
clearedSegments(f, none, b) == f

(* BufferSlot::clear, called by SlotPool::push: what is left of f when the  *)
(* buffer becomes b                                                         *)
cleared(f, none, b) == [x \in Slots |-> IF x \in b.pool \ buf.pool THEN none ELSE f[x]]

(* verifySlot: every fetched segment has to be listed. *)
verifySlot(s, m) == IF s.name = m THEN "Verified" ELSE "Failed"

ValidationInit ==
  /\ BufferInit
  /\ manifest = [x \in Slots |-> NoSample]
  /\ verified = [x \in Slots |-> "Unknown"]
  /\ fetching = {}
  /\ pool = [size |-> PoolSize, capacity |-> PoolSize]

(* Pool::pop, after Pool::enlarge when it is empty *)
poolTake(p) ==
  IF p.size = 0 THEN [size |-> PoolSize - 1, capacity |-> p.capacity + PoolSize]
  ELSE [p EXCEPT !.size = @ - 1]

(* Pool::push *)
poolReturn(p) == IF p.size < p.capacity THEN [p EXCEPT !.size = @ + 1] ELSE p

(* A fetcher that is not at work is set to work for slot x and sample n. *)
Fetchers == 1 .. MaxFetches
idleFetchers == {f \in Fetchers : \A g \in fetching : g.fetcher # f}
fetch(x, n) ==
  /\ fetching' = fetching \cup {[fetcher |-> CHOOSE f \in idleFetchers : TRUE, slot |-> x, sample |-> n]}
  /\ pool' = poolTake(pool)

(* Buffer::requested; of a new sample the validator asks for the manifest. *)
RequestedSample(n, segs) ==
  /\ idleFetchers # {}
  /\ Requested(n, segs)
  /\ IF ~isRequested(buf, n) /\ isRequested(buf', n)
     THEN fetch(buf'.active[n], n)
     ELSE UNCHANGED <<fetching, pool>>
  /\ UNCHANGED <<manifest, verified>>

(* Buffer::received; the validator comes after the playback queue. *)
ReceivedSegment(n, seg) ==
  /\ Received(n, seg)
  /\ LET x == buf.active[n]
     IN verified' = IF /\ verified[x] = "Unknown" /\ manifest[x] # NoSample
                       /\ buf'.slot[x].state \in {"Ready", "Locked"}
                    THEN [verified EXCEPT ![x] = verifySlot(buf'.slot[x], manifest[x])]
                    ELSE verified
  /\ UNCHANGED <<manifest, fetching, pool>>

Recycle ==
  /\ Pop \/ Reset
  /\ manifest' = cleared(manifest, NoSample, buf')
  /\ verified' = cleared(verified, "Unknown", buf')
  /\ UNCHANGED <<fetching, pool>>

(* However fetching ends, the fetcher is given back. *)
ends(g) == fetching' = fetching \ {g} /\ pool' = poolReturn(pool)

(* A manifest arrives, and its signature is good. *)
OnManifest(g) ==
  /\ ends(g)
  /\ LET x == g.slot
     IN /\ manifest' = IF buf.slot[x].state = "Free" THEN manifest ELSE [manifest EXCEPT ![x] = g.sample]
        /\ verified' = IF buf.slot[x].state \in {"Ready", "Locked"}
                       THEN [verified EXCEPT ![x] = verifySlot(buf.slot[x], g.sample)] ELSE verified
  /\ UNCHANGED buf

(* Its signature cannot be verified: whatever the slot is now is marked. *)
OnUnverifiedManifest(g) ==
  /\ ends(g)
  /\ verified' = [verified EXCEPT ![g.slot] = "Failed"]
  /\ UNCHANGED <<buf, manifest>>

(* The manifest cannot be fetched. *)
OnManifestError(g) ==
  /\ ends(g)
  /\ UNCHANGED <<buf, manifest, verified>>

ValidationNext ==
  \/ \E n \in Samples : \E segs \in SUBSET SegmentsOf(n) \ {{}} : RequestedSample(n, segs)
  \/ \E n \in Samples : \E seg \in SegmentsOf(n) : ReceivedSegment(n, seg)
  \/ Recycle
  \/ \E g \in fetching : OnManifest(g) \/ OnUnverifiedManifest(g) \/ OnManifestError(g)

ValidationSpec == ValidationInit /\ [][ValidationNext]_vvars

-----------------------------------------------------------------------------
(* Properties *)

(* A sample counts as verified only by its own manifest, although manifests *)
(* come late, when their slot was recycled and serves another sample, and   *)
(* replace each other.                                                      *)
VerifiedByOwnManifest ==
  \A x \in Slots : verified[x] = "Verified" =>
    buf.slot[x].state \in {"Ready", "Locked"} /\ manifest[x] = buf.slot[x].name

(* Every fetcher is given back to the pool exactly once, on each of the     *)
(* ways in which fetching may end, so that the pool is never refused one.   *)
FetchersReturn == pool.size + Cardinality(fetching) = pool.capacity

(* Validation on slots that are recycled meanwhile: no verdict comes from   *)
(* the manifest of another sample, and every fetcher finds its way back.    *)
ManifestsKeptApart ==
  /\ VerifiedByOwnManifest
  /\ FetchersReturn
=============================================================================
