--------------------------- MODULE ImageStoreProofs ---------------------------
(***************************************************************************)
(* Proofs about ImageStore, for any references, manifests, pullers, number *)
(* of chunks and of faults: type correctness, that a stored manifest has   *)
(* all its blobs, and that pulls without faults leave a sound store.       *)
(***************************************************************************)
EXTENDS ImageStore, SequenceTheorems, TLAPS

(* A pull that knows its manifest, and one that is not past its last blob. *)
Working == {"check", "request", "write", "rename", "verify", "save", "saving"}
AtBlob == Working \ {"save", "saving"}

(***************************************************************************)
(* What the step of a pull says about its variables and about the store:   *)
(* every blob before the one it is at has a file, and so have the one it   *)
(* is about to verify and the file it writes to.                           *)
(***************************************************************************)
PullInv(w) ==
  /\ pc[w] # "idle" => ref[w] \in Refs
  /\ pc[w] \notin Working => pos[w] = 1
  /\ pc[w] \in Working =>
       /\ man[w] \in Manifests
       /\ \A i \in 1..Len(Blobs(man[w])) : i < pos[w] => layer_exists(Blobs(man[w])[i])
  /\ pc[w] \in AtBlob => pos[w] \in 1..Len(Blobs(man[w]))
  /\ pc[w] \in {"save", "saving"} => pos[w] = Len(Blobs(man[w])) + 1
  /\ pc[w] = "verify" => layer_exists(Current(w))
  /\ pc[w] = "write" /\ handle[w] = "part" => part[Current(w)] # None
  /\ pc[w] = "write" /\ handle[w] = "blob" => blob[Current(w)] # None

(* A manifest that is stored and can be parsed has a file for every blob.  *)
ManifestInv ==
  \A p \in Paths : manifest[p] \in Manifests =>
    \A i \in 1..Len(Blobs(manifest[p])) : layer_exists(Blobs(manifest[p])[i])

StoreInv == TypeOK /\ (\A w \in Pullers : PullInv(w)) /\ ManifestInv

-----------------------------------------------------------------------------
(* The configuration comes first, then the layers.                         *)
LEMMA BlobsOfManifest ==
  ASSUME NEW m \in Manifests
  PROVE  /\ Blobs(m) \in Seq(Digests)
         /\ Len(Blobs(m)) = Len(m.layers) + 1
         /\ Len(m.layers) \in Nat
         /\ Blobs(m)[1] = m.config
         /\ \A i \in 1..Len(m.layers) : Blobs(m)[i + 1] = m.layers[i]
<1>1. /\ <<m.config>> \in Seq(Digests) /\ m.layers \in Seq(Digests)
      /\ Len(<<m.config>>) = 1
  BY StoreAssumption
<1>2. /\ Blobs(m) \in Seq(Digests)
      /\ Len(Blobs(m)) = Len(<<m.config>>) + Len(m.layers)
      /\ \A i \in 1..Len(<<m.config>>) + Len(m.layers) :
           Blobs(m)[i] = IF i <= Len(<<m.config>>) THEN <<m.config>>[i]
                                                   ELSE m.layers[i - Len(<<m.config>>)]
  BY <1>1, ConcatProperties DEF Blobs
<1>3. Len(m.layers) \in Nat
  BY <1>1
<1>4. QED BY <1>1, <1>2, <1>3

(* A pull is at a digest.                                                  *)
LEMMA CurrentDigest ==
  ASSUME StoreInv, NEW w \in Pullers, pc[w] \in AtBlob
  PROVE  Current(w) \in Digests
BY BlobsOfManifest DEF StoreInv, PullInv, Current, AtBlob, Working

(* Files are not the absence of a file.                                    *)
LEMMA ContentIsAFile ==
  /\ None \notin Content
  /\ EmptyFile \in Content
  /\ \A f \in Content, k \in 1..Chunks, bytes \in {"good", "bad"} :
       [f EXCEPT ![k] = bytes] \in Content
BY StoreAssumption DEF Content, EmptyFile

(* A chunk is written into a file that is there.                           *)
LEMMA ChunkTarget ==
  ASSUME StoreInv, NEW w \in Pullers, pc[w] = "write", off[w] <= Chunks
  PROVE  /\ off[w] \in 1..Chunks
         /\ Current(w) \in Digests
         /\ handle[w] = "part" => part[Current(w)] \in Content
         /\ handle[w] = "blob" => blob[Current(w)] \in Content
<1>1. Current(w) \in Digests
  BY CurrentDigest DEF AtBlob, Working
<1>2. off[w] \in 1..Chunks
  BY StoreAssumption DEF StoreInv, TypeOK
<1>3. QED BY <1>1, <1>2 DEF StoreInv, TypeOK, PullInv

-----------------------------------------------------------------------------
(***************************************************************************)
(* Every step keeps the variables well typed.                              *)
(***************************************************************************)
LEMMA LeaveType ==
  ASSUME TypeOK, NEW w \in Pullers, Leave(w)
  PROVE  /\ pc' \in [Pullers -> Steps]
         /\ ref' \in [Pullers -> Refs \cup {None}]
         /\ man' \in [Pullers -> Manifests \cup {None}]
         /\ pos' \in [Pullers -> Nat]
         /\ off' \in [Pullers -> 1..Chunks + 1]
         /\ handle' \in [Pullers -> {"closed", "part", "blob", "gone"}]
BY StoreAssumption DEF TypeOK, Leave, Steps

LEMMA NextBlobType ==
  ASSUME TypeOK, NEW w \in Pullers, NextBlob(w)
  PROVE  /\ pc' \in [Pullers -> Steps]
         /\ ref' \in [Pullers -> Refs \cup {None}]
         /\ man' \in [Pullers -> Manifests \cup {None}]
         /\ pos' \in [Pullers -> Nat]
<1>1. \A v \in Pullers : pos[v] + 1 \in Nat
  BY DEF TypeOK
<1>2. QED BY <1>1 DEF TypeOK, NextBlob, Steps

LEMMA TypeStep == StoreInv /\ [Next]_vars => TypeOK'
<1> SUFFICES ASSUME StoreInv, [Next]_vars PROVE TypeOK'
  OBVIOUS
<1> USE DEF GoTo
<1>t. TypeOK
  BY DEF StoreInv
<1>1. ASSUME NEW w \in Pullers, NEW r \in Refs, pull_image(w, r), UNCHANGED faults
      PROVE  TypeOK'
  BY <1>t, <1>1 DEF pull_image, TypeOK, Steps
<1>2. ASSUME NEW w \in Pullers, authenticate(w), UNCHANGED faults PROVE TypeOK'
  BY <1>t, <1>2 DEF authenticate, TypeOK, Steps
<1>3. ASSUME NEW w \in Pullers, fetch_manifest(w), UNCHANGED faults PROVE TypeOK'
  <2>1. Offered(ref[w]) \subseteq Manifests
    BY <1>3, StoreAssumption DEF fetch_manifest, StoreInv, PullInv
  <2>2. QED BY <1>t, <1>3, <2>1 DEF fetch_manifest, TypeOK, Steps
<1>4. ASSUME NEW w \in Pullers, CheckBlob(w), UNCHANGED faults PROVE TypeOK'
  BY <1>t, <1>4, NextBlobType DEF CheckBlob, TypeOK, Steps
<1>5. ASSUME NEW w \in Pullers, CreatePart(w), UNCHANGED faults PROVE TypeOK'
  <2>1. 1 \in 1..Chunks + 1
    BY StoreAssumption
  <2>2. part' \in [Digests -> Content \cup {None}]
    BY <1>t, <1>5, ContentIsAFile DEF CreatePart, TypeOK
  <2>3. QED BY <1>t, <1>5, <2>1, <2>2 DEF CreatePart, TypeOK, Steps
<1>6. ASSUME NEW w \in Pullers, WriteChunk(w) PROVE TypeOK'
  <2>1. PICK bytes \in {"good", "bad"} :
          /\ CountFault(bytes = "bad")
          /\ part' = IF handle[w] = "part" THEN [part EXCEPT ![Current(w)][off[w]] = bytes]
                                           ELSE part
          /\ blob' = IF handle[w] = "blob" THEN [blob EXCEPT ![Current(w)][off[w]] = bytes]
                                           ELSE blob
    BY <1>6 DEF WriteChunk
  <2>2. /\ off[w] \in 1..Chunks
        /\ Current(w) \in Digests
        /\ handle[w] = "part" => part[Current(w)] \in Content
        /\ handle[w] = "blob" => blob[Current(w)] \in Content
    BY <1>6, ChunkTarget DEF WriteChunk
  <2>3. part' \in [Digests -> Content \cup {None}]
    <3>1. CASE handle[w] = "part"
      <4>1. part[Current(w)] \in Content
        BY <2>2, <3>1
      <4>2. [part[Current(w)] EXCEPT ![off[w]] = bytes] \in Content
        BY <4>1, <2>2, ContentIsAFile
      <4>3. QED BY <1>t, <2>1, <3>1, <4>2 DEF TypeOK
    <3>2. CASE handle[w] # "part"
      BY <1>t, <2>1, <3>2 DEF TypeOK
    <3>3. QED BY <3>1, <3>2
  <2>4. blob' \in [Digests -> Content \cup {None}]
    <3>1. CASE handle[w] = "blob"
      <4>1. blob[Current(w)] \in Content
        BY <2>2, <3>1
      <4>2. [blob[Current(w)] EXCEPT ![off[w]] = bytes] \in Content
        BY <4>1, <2>2, ContentIsAFile
      <4>3. QED BY <1>t, <2>1, <3>1, <4>2 DEF TypeOK
    <3>2. CASE handle[w] # "blob"
      BY <1>t, <2>1, <3>2 DEF TypeOK
    <3>3. QED BY <3>1, <3>2
  <2>5. faults' \in 0..MaxFaults
    BY <1>t, <2>1, StoreAssumption DEF CountFault, TypeOK
  <2>6. off' \in [Pullers -> 1..Chunks + 1]
    BY <1>t, <1>6, <2>2, StoreAssumption DEF WriteChunk, TypeOK
  <2>7. QED BY <1>t, <1>6, <2>3, <2>4, <2>5, <2>6 DEF WriteChunk, TypeOK, Steps
<1>7. ASSUME NEW w \in Pullers, Rename(w), UNCHANGED faults PROVE TypeOK'
  <2>1. Current(w) \in Digests
    BY <1>7, CurrentDigest DEF Rename, AtBlob, Working
  <2>2. CASE part[Current(w)] = None
    BY <1>t, <1>7, <2>2, LeaveType DEF Rename, TypeOK
  <2>3. CASE part[Current(w)] # None
    <3>1. handle' \in [Pullers -> {"closed", "part", "blob", "gone"}]
      BY <1>t, <1>7, <2>3 DEF Rename, HandlesAfterRename, TypeOK
    <3>2. QED BY <1>t, <1>7, <2>1, <2>3, <3>1 DEF Rename, TypeOK, Steps
  <2>4. QED BY <2>2, <2>3
<1>8. ASSUME NEW w \in Pullers, verify_digest(w), UNCHANGED faults PROVE TypeOK'
  BY <1>t, <1>8, LeaveType, NextBlobType DEF verify_digest, TypeOK
<1>9. ASSUME NEW w \in Pullers, TruncateManifest(w), UNCHANGED faults PROVE TypeOK'
  BY <1>t, <1>9 DEF TruncateManifest, TypeOK, Steps, Unparsable
<1>10. ASSUME NEW w \in Pullers, save_manifest(w), UNCHANGED faults PROVE TypeOK'
  <2>1. man[w] \in Manifests
    BY <1>10 DEF save_manifest, StoreInv, PullInv, Working
  <2>2. manifest' \in [Paths -> Manifests \cup Unparsable \cup {None}]
    BY <1>t, <1>10, <2>1 DEF save_manifest, TypeOK, Unparsable
  <2>3. QED BY <1>t, <1>10, <2>2, LeaveType DEF save_manifest, TypeOK
<1>11. ASSUME NEW w \in Pullers, Abort(w) PROVE TypeOK'
  <2>1. faults' \in 0..MaxFaults
    BY <1>t, <1>11, StoreAssumption DEF Abort, CountFault, TypeOK
  <2>2. QED BY <1>t, <1>11, <2>1, LeaveType DEF Abort, TypeOK
<1>12. CASE UNCHANGED vars
  BY <1>t, <1>12 DEF TypeOK, vars
<1>13. QED
  BY <1>1, <1>2, <1>3, <1>4, <1>5, <1>6, <1>7, <1>8, <1>9, <1>10, <1>11, <1>12
     DEF Next, Step


-----------------------------------------------------------------------------
(***************************************************************************)
(* What a step of w leaves alone: the store only gains files, and another  *)
(* pull sees at most that a file it writes to gets another name.           *)
(***************************************************************************)
LEMMA FilesStay ==
  ASSUME StoreInv, NEW w \in Pullers, Step(w) \/ Abort(w)
  PROVE  \A d \in Digests : layer_exists(d) => layer_exists(d)'
<1>1. \A d \in Digests : blob[d] # None => blob[d] \in Content
  BY DEF StoreInv, TypeOK
<1>2. CASE WriteChunk(w)
  <2>1. PICK bytes \in {"good", "bad"} :
          blob' = IF handle[w] = "blob" THEN [blob EXCEPT ![Current(w)][off[w]] = bytes]
                                        ELSE blob
    BY <1>2 DEF WriteChunk
  <2>2. /\ off[w] \in 1..Chunks
        /\ handle[w] = "blob" => blob[Current(w)] \in Content
    BY <1>2, ChunkTarget DEF WriteChunk
  <2>3. CASE handle[w] = "blob"
    <3>1. [blob[Current(w)] EXCEPT ![off[w]] = bytes] \in Content
      BY <2>2, <2>3, ContentIsAFile
    <3>2. [blob[Current(w)] EXCEPT ![off[w]] = bytes] # None
      BY <3>1, ContentIsAFile
    <3>3. QED BY <2>1, <2>3, <3>2 DEF layer_exists, StoreInv, TypeOK
  <2>4. CASE handle[w] # "blob"
    BY <2>1, <2>4 DEF layer_exists
  <2>5. QED BY <2>3, <2>4
<1>3. CASE Rename(w)
  BY <1>3 DEF Rename, layer_exists, StoreInv, TypeOK
<1>4. QED
  BY <1>2, <1>3 DEF Step, Abort, pull_image, authenticate, fetch_manifest, CheckBlob,
     CreatePart, verify_digest, TruncateManifest, save_manifest, layer_exists


LEMMA OthersUntouched ==
  ASSUME NEW w \in Pullers, Step(w) \/ Abort(w), NEW v \in Pullers, v # w, TypeOK
  PROVE  /\ pc'[v] = pc[v] /\ ref'[v] = ref[v] /\ man'[v] = man[v]
         /\ pos'[v] = pos[v] /\ off'[v] = off[v]
         /\ Current(v)' = Current(v)
         /\ \/ handle'[v] = handle[v]
            \/ /\ Rename(w) /\ part[Current(w)] # None
               /\ pc[v] = "write" /\ Current(v) = Current(w)
               /\ \/ handle[v] = "part" /\ handle'[v] = "blob"
                  \/ handle[v] = "blob" /\ handle'[v] = "gone"
<1>1. /\ pc'[v] = pc[v] /\ ref'[v] = ref[v] /\ man'[v] = man[v]
      /\ pos'[v] = pos[v] /\ off'[v] = off[v]
  BY DEF TypeOK, Step, Abort, pull_image, authenticate, fetch_manifest, CheckBlob, CreatePart,
     WriteChunk, Rename, verify_digest, TruncateManifest, save_manifest, NextBlob, GoTo, Leave
<1>2. Current(v)' = Current(v)
  BY <1>1 DEF Current
<1>3. CASE Rename(w) /\ part[Current(w)] # None
  <2>1. handle' = HandlesAfterRename(w, Current(w))
    BY <1>3 DEF Rename
  <2>2. CASE pc[v] = "write" /\ Current(v) = Current(w) /\ handle[v] = "part"
    BY <1>1, <1>2, <1>3, <2>1, <2>2 DEF HandlesAfterRename
  <2>3. CASE pc[v] = "write" /\ Current(v) = Current(w) /\ handle[v] = "blob"
    BY <1>1, <1>2, <1>3, <2>1, <2>3 DEF HandlesAfterRename
  <2>4. CASE ~(pc[v] = "write" /\ Current(v) = Current(w) /\ handle[v] \in {"part", "blob"})
    <3>1. handle'[v] = handle[v]
      BY <2>1, <2>4 DEF HandlesAfterRename
    <3>2. QED BY <1>1, <1>2, <3>1
  <2>5. QED BY <1>1, <1>2, <2>2, <2>3, <2>4
<1>4. CASE ~(Rename(w) /\ part[Current(w)] # None)
  <2>1. handle'[v] = handle[v]
    BY <1>4 DEF TypeOK, Step, Abort, pull_image, authenticate, fetch_manifest, CheckBlob,
       CreatePart, WriteChunk, Rename, verify_digest, TruncateManifest, save_manifest,
       NextBlob, GoTo, Leave
  <2>2. QED BY <1>1, <1>2, <2>1
<1>5. QED BY <1>3, <1>4


(* Only a rename takes a ".part" file away.                                *)
LEMMA PartsStay ==
  ASSUME StoreInv, NEW w \in Pullers, Step(w) \/ Abort(w), NEW d \in Digests,
         part[d] # None
  PROVE  part'[d] # None \/ (Rename(w) /\ part[Current(w)] # None /\ d = Current(w))
<1>1. CASE WriteChunk(w)
  <2>1. PICK bytes \in {"good", "bad"} :
          part' = IF handle[w] = "part" THEN [part EXCEPT ![Current(w)][off[w]] = bytes]
                                        ELSE part
    BY <1>1 DEF WriteChunk
  <2>2. /\ off[w] \in 1..Chunks
        /\ handle[w] = "part" => part[Current(w)] \in Content
    BY <1>1, ChunkTarget DEF WriteChunk
  <2>3. CASE handle[w] = "part"
    <3>1. [part[Current(w)] EXCEPT ![off[w]] = bytes] \in Content
      BY <2>2, <2>3, ContentIsAFile
    <3>2. [part[Current(w)] EXCEPT ![off[w]] = bytes] # None
      BY <3>1, ContentIsAFile
    <3>3. QED BY <2>1, <2>3, <3>2 DEF StoreInv, TypeOK
  <2>4. CASE handle[w] # "part"
    BY <2>1, <2>4
  <2>5. QED BY <2>3, <2>4
<1>2. CASE CreatePart(w)
  <2>1. EmptyFile # None
    BY ContentIsAFile
  <2>2. QED BY <1>2, <2>1 DEF CreatePart, StoreInv, TypeOK
<1>3. CASE Rename(w)
  BY <1>3 DEF Rename, StoreInv, TypeOK
<1>4. QED
  BY <1>1, <1>2, <1>3 DEF Step, Abort, pull_image, authenticate, fetch_manifest, CheckBlob,
     verify_digest, TruncateManifest, save_manifest

(* The digests of the blobs of a working pull.                             *)
LEMMA BlobDigests ==
  ASSUME StoreInv, NEW w \in Pullers, pc[w] \in Working
  PROVE  \A i \in 1..Len(Blobs(man[w])) : Blobs(man[w])[i] \in Digests
BY BlobsOfManifest DEF StoreInv, PullInv

(* The blobs that a working pull has passed keep their files.              *)
LEMMA EarlierStay ==
  ASSUME StoreInv, NEW w \in Pullers, Step(w) \/ Abort(w),
         NEW v \in Pullers, pc[v] \in Working
  PROVE  \A i \in 1..Len(Blobs(man[v])) : i < pos[v] => blob'[Blobs(man[v])[i]] # None
<1> SUFFICES ASSUME NEW i \in 1..Len(Blobs(man[v])), i < pos[v]
             PROVE  blob'[Blobs(man[v])[i]] # None
  OBVIOUS
<1>1. Blobs(man[v])[i] \in Digests
  BY BlobDigests
<1>2. blob[Blobs(man[v])[i]] # None
  BY DEF StoreInv, PullInv, layer_exists
<1>3. QED BY <1>1, <1>2, FilesStay DEF layer_exists

LEMMA OtherPullStep ==
  ASSUME StoreInv, NEW w \in Pullers, Step(w) \/ Abort(w), NEW v \in Pullers, v # w
  PROVE  PullInv(v)'
<1>1. PullInv(v) /\ TypeOK
  BY DEF StoreInv
<1>2. /\ pc'[v] = pc[v] /\ ref'[v] = ref[v] /\ man'[v] = man[v]
      /\ pos'[v] = pos[v] /\ off'[v] = off[v]
      /\ Current(v)' = Current(v)
  BY <1>1, OthersUntouched
<1>3. pc[v] \in Working =>
        \A i \in 1..Len(Blobs(man[v])) : i < pos[v] => blob'[Blobs(man[v])[i]] # None
  BY EarlierStay
<1>4. pc[v] = "verify" => layer_exists(Current(v))'
  <2>1. pc[v] = "verify" => Current(v) \in Digests
    BY CurrentDigest DEF AtBlob, Working
  <2>2. pc[v] = "verify" => layer_exists(Current(v))
    BY <1>1 DEF PullInv
  <2>3. QED BY <1>2, <2>1, <2>2, FilesStay DEF layer_exists
<1>5. ASSUME pc[v] = "write", handle'[v] = "part" PROVE part'[Current(v)] # None
  <2>1. Current(v) \in Digests
    BY <1>5, CurrentDigest DEF AtBlob, Working
  <2>2. /\ handle[v] = "part"
        /\ ~(Rename(w) /\ part[Current(w)] # None /\ Current(v) = Current(w))
    <3>1. CASE Rename(w) /\ part[Current(w)] # None /\ Current(v) = Current(w)
      <4>1. handle' = HandlesAfterRename(w, Current(w))
        BY <3>1 DEF Rename
      <4>2. CASE handle[v] = "part"
        BY <1>5, <3>1, <4>1, <4>2 DEF HandlesAfterRename
      <4>3. CASE handle[v] # "part"
        BY <1>1, <1>5, <4>3, OthersUntouched
      <4>4. QED BY <4>2, <4>3
    <3>2. CASE ~(Rename(w) /\ part[Current(w)] # None /\ Current(v) = Current(w))
      BY <1>1, <1>5, <3>2, OthersUntouched
    <3>3. QED BY <3>1, <3>2
  <2>3. part[Current(v)] # None
    BY <1>1, <1>5, <2>2 DEF PullInv
  <2>4. QED BY <2>1, <2>2, <2>3, PartsStay
<1>6. ASSUME pc[v] = "write", handle'[v] = "blob" PROVE blob'[Current(v)] # None
  <2>1. Current(v) \in Digests
    BY <1>6, CurrentDigest DEF AtBlob, Working
  <2>2. CASE handle[v] = "blob"
    BY <1>1, <1>6, <2>1, <2>2, FilesStay DEF PullInv, layer_exists
  <2>3. CASE handle[v] # "blob"
    <3>1. Rename(w) /\ part[Current(w)] # None /\ Current(v) = Current(w)
      BY <1>1, <1>6, <2>3, OthersUntouched
    <3>2. QED BY <2>1, <3>1 DEF Rename, StoreInv, TypeOK
  <2>4. QED BY <2>2, <2>3
<1>7. QED
  BY <1>1, <1>2, <1>3, <1>4, <1>5, <1>6 DEF PullInv, layer_exists, AtBlob, Working

-----------------------------------------------------------------------------
(* Past a blob that has a file, a pull is at the next one or past them all.*)
LEMMA NextBlobStep ==
  ASSUME StoreInv, NEW w \in Pullers, pc[w] \in AtBlob, layer_exists(Current(w)),
         NextBlob(w), blob' = blob
  PROVE  PullInv(w)'
<1>1. /\ pc'[w] = IF pos[w] = Len(Blobs(man[w])) THEN "save" ELSE "check"
      /\ pos'[w] = pos[w] + 1
      /\ ref'[w] = ref[w] /\ man'[w] = man[w]
  BY DEF NextBlob, StoreInv, TypeOK
<1>2. /\ ref[w] \in Refs /\ man[w] \in Manifests
      /\ pos[w] \in 1..Len(Blobs(man[w]))
      /\ \A i \in 1..Len(Blobs(man[w])) : i < pos[w] => layer_exists(Blobs(man[w])[i])
  BY DEF StoreInv, PullInv, AtBlob, Working
<1>3. Len(Blobs(man[w])) \in Nat
  BY <1>2, BlobsOfManifest
<1>4. \A i \in 1..Len(Blobs(man[w])) : i < pos[w] + 1 => layer_exists(Blobs(man[w])[i])
  BY <1>2, <1>3 DEF Current
<1>5. QED BY <1>1, <1>2, <1>3, <1>4 DEF PullInv, AtBlob, Working, layer_exists

LEMMA LeaveStep ==
  ASSUME TypeOK, NEW w \in Pullers, Leave(w)
  PROVE  PullInv(w)'
BY DEF Leave, TypeOK, PullInv, Working, AtBlob

(* A pull goes from one step at a blob to the next, its blob unchanged.    *)
LEMMA GoToStep ==
  ASSUME StoreInv, NEW w \in Pullers, NEW step \in AtBlob, pc[w] \in AtBlob,
         GoTo(w, step), Step(w) \/ Abort(w),
         step = "verify" => blob'[Current(w)] # None,
         step = "write" /\ handle'[w] = "part" => part'[Current(w)] # None,
         step = "write" /\ handle'[w] = "blob" => blob'[Current(w)] # None
  PROVE  PullInv(w)'
<1>1. /\ pc'[w] = step /\ ref' = ref /\ man' = man /\ pos' = pos
      /\ Current(w)' = Current(w)
  BY DEF GoTo, StoreInv, TypeOK, Current
<1>2. \A i \in 1..Len(Blobs(man[w])) : i < pos[w] => blob'[Blobs(man[w])[i]] # None
  BY EarlierStay DEF AtBlob
<1>3. PullInv(w)
  BY DEF StoreInv
<1>4. QED BY <1>1, <1>2, <1>3 DEF PullInv, AtBlob, Working, layer_exists

LEMMA OwnPullStep ==
  ASSUME StoreInv, NEW w \in Pullers, Step(w) \/ Abort(w)
  PROVE  PullInv(w)'
<1> USE DEF AtBlob, Working
<1>t. TypeOK /\ PullInv(w)
  BY DEF StoreInv
<1>1. ASSUME NEW r \in Refs, pull_image(w, r) PROVE PullInv(w)'
  BY <1>t, <1>1 DEF pull_image, TypeOK, PullInv
<1>2. CASE authenticate(w)
  BY <1>t, <1>2 DEF authenticate, GoTo, TypeOK, PullInv
<1>3. CASE fetch_manifest(w)
  <2>1. PICK m \in Offered(ref[w]) : man' = [man EXCEPT ![w] = m]
    BY <1>3 DEF fetch_manifest
  <2>2. m \in Manifests
    BY <1>t, <1>3, <2>1, StoreAssumption DEF fetch_manifest, PullInv
  <2>3. Len(Blobs(m)) \in Nat /\ Len(Blobs(m)) >= 1
    BY <2>2, BlobsOfManifest
  <2>4. QED BY <1>t, <1>3, <2>1, <2>2, <2>3 DEF fetch_manifest, TypeOK, PullInv
<1>4. CASE CheckBlob(w)
  <2>1. CASE layer_exists(Current(w))
    BY <1>4, <2>1, NextBlobStep DEF CheckBlob
  <2>2. CASE ~layer_exists(Current(w))
    <3>1. GoTo(w, "request") /\ pc[w] = "check"
      BY <1>4, <2>2 DEF CheckBlob
    <3>2. QED BY <3>1, GoToStep
  <2>3. QED BY <2>1, <2>2
<1>5. CASE CreatePart(w)
  <2>1. part'[Current(w)] # None
    BY <1>t, <1>5, CurrentDigest, ContentIsAFile DEF CreatePart, TypeOK
  <2>2. handle'[w] = "part"
    BY <1>t, <1>5 DEF CreatePart, TypeOK
  <2>3. GoTo(w, "write") /\ pc[w] = "request"
    BY <1>5 DEF CreatePart
  <2>4. QED BY <2>1, <2>2, <2>3, GoToStep
<1>6. CASE WriteChunk(w)
  <2>1. Current(w) \in Digests /\ handle' = handle /\ pc[w] = "write"
    BY <1>6, CurrentDigest DEF WriteChunk
  <2>2. handle[w] = "part" => part'[Current(w)] # None
    BY <1>t, <1>6, <2>1, PartsStay DEF PullInv, WriteChunk, Rename
  <2>3. handle[w] = "blob" => blob'[Current(w)] # None
    BY <1>t, <1>6, <2>1, FilesStay DEF PullInv, Step, layer_exists
  <2>4. GoTo(w, IF off[w] = Chunks THEN "rename" ELSE "write")
    BY <1>6 DEF WriteChunk
  <2>5. CASE off[w] = Chunks
    <3>1. GoTo(w, "rename")
      BY <2>4, <2>5
    <3>2. QED BY <2>1, <3>1, GoToStep
  <2>6. CASE off[w] # Chunks
    <3>1. GoTo(w, "write")
      BY <2>4, <2>6
    <3>2. QED BY <2>1, <2>2, <2>3, <3>1, GoToStep
  <2>7. QED BY <2>5, <2>6
<1>7. CASE Rename(w)
  <2>1. CASE part[Current(w)] = None
    BY <1>t, <1>7, <2>1, LeaveStep DEF Rename
  <2>2. CASE part[Current(w)] # None
    <3>1. blob'[Current(w)] # None
      BY <1>t, <1>7, <2>2, CurrentDigest DEF Rename, TypeOK
    <3>2. GoTo(w, "verify") /\ pc[w] = "rename"
      BY <1>7, <2>2 DEF Rename
    <3>3. QED BY <3>1, <3>2, GoToStep
  <2>3. QED BY <2>1, <2>2
<1>8. CASE verify_digest(w)
  <2>1. CASE Verifies(blob[Current(w)])
    BY <1>t, <1>8, <2>1, NextBlobStep DEF verify_digest, PullInv
  <2>2. CASE ~Verifies(blob[Current(w)])
    BY <1>t, <1>8, <2>2, LeaveStep DEF verify_digest
  <2>3. QED BY <2>1, <2>2
<1>9. CASE TruncateManifest(w)
  BY <1>t, <1>9 DEF TruncateManifest, GoTo, TypeOK, PullInv, layer_exists
<1>10. CASE save_manifest(w)
  BY <1>t, <1>10, LeaveStep DEF save_manifest
<1>11. CASE Abort(w)
  BY <1>t, <1>11, LeaveStep DEF Abort
<1>12. QED
  BY <1>1, <1>2, <1>3, <1>4, <1>5, <1>6, <1>7, <1>8, <1>9, <1>10, <1>11 DEF Step

-----------------------------------------------------------------------------
(* What is stored stays usable: only a pull that has passed all blobs of   *)
(* its manifest stores it, and no file goes away.                          *)
LEMMA ManifestStep ==
  ASSUME StoreInv, NEW w \in Pullers, Step(w) \/ Abort(w)
  PROVE  ManifestInv'
<1> SUFFICES ASSUME NEW p \in Paths, manifest'[p] \in Manifests,
                    NEW i \in 1..Len(Blobs(manifest'[p]))
             PROVE  blob'[Blobs(manifest'[p])[i]] # None
  BY DEF ManifestInv, layer_exists
<1>1. CASE manifest'[p] = manifest[p]
  <2>1. Blobs(manifest[p])[i] \in Digests
    BY <1>1, BlobsOfManifest
  <2>2. blob[Blobs(manifest[p])[i]] # None
    BY <1>1 DEF StoreInv, ManifestInv, layer_exists
  <2>3. QED BY <1>1, <2>1, <2>2, FilesStay DEF layer_exists
<1>2. CASE manifest'[p] # manifest[p] /\ save_manifest(w)
  <2>1. manifest'[p] = man[w]
    BY <1>2, StoreAssumption DEF save_manifest, StoreInv, TypeOK
  <2>2. /\ pc[w] \in Working /\ pos[w] = Len(Blobs(man[w])) + 1
        /\ Len(Blobs(man[w])) \in Nat
    BY <1>2, BlobsOfManifest DEF save_manifest, StoreInv, PullInv, Working
  <2>3. i < pos[w]
    BY <2>1, <2>2
  <2>4. QED BY <2>1, <2>2, <2>3, EarlierStay
<1>3. CASE manifest'[p] # manifest[p] /\ TruncateManifest(w)
  BY <1>3, StoreAssumption DEF TruncateManifest, StoreInv, TypeOK
<1>4. QED
  BY <1>1, <1>2, <1>3 DEF Step, Abort, pull_image, authenticate, fetch_manifest, CheckBlob,
     CreatePart, WriteChunk, Rename, verify_digest

LEMMA StoreStep == StoreInv /\ [Next]_vars => StoreInv'
<1> SUFFICES ASSUME StoreInv, [Next]_vars PROVE StoreInv'
  OBVIOUS
<1>1. ASSUME NEW w \in Pullers, Step(w) \/ Abort(w) PROVE StoreInv'
  <2>1. TypeOK'
    BY <1>1, TypeStep DEF Next
  <2>2. \A v \in Pullers : PullInv(v)'
    BY <1>1, OwnPullStep, OtherPullStep
  <2>3. QED BY <1>1, <2>1, <2>2, ManifestStep DEF StoreInv
<1>2. CASE UNCHANGED vars
  BY <1>2 DEF vars, StoreInv, TypeOK, PullInv, ManifestInv, layer_exists, Current
<1>3. QED BY <1>1, <1>2 DEF Next

LEMMA StoreStart == Init => StoreInv
<1> SUFFICES ASSUME Init PROVE StoreInv
  OBVIOUS
<1>1. TypeOK
  BY StoreAssumption DEF Init, TypeOK, Steps
<1>2. \A w \in Pullers : PullInv(w)
  BY DEF Init, PullInv, Working, AtBlob
<1>3. ManifestInv
  BY StoreAssumption DEF Init, ManifestInv
<1>4. QED BY <1>1, <1>2, <1>3 DEF StoreInv

LEMMA StoreInvariant == Spec => []StoreInv
BY StoreStart, StoreStep, PTL DEF Spec

(***************************************************************************)
(* The variables of the store and of its pulls keep their types: a pull    *)
(* writes no chunk outside the blob, to no file that is not there.         *)
(***************************************************************************)
THEOREM TypeCorrect == Spec => []TypeOK
<1>1. StoreInv => TypeOK
  BY DEF StoreInv
<1>2. QED BY <1>1, StoreInvariant, PTL

(***************************************************************************)
(* get_image_layers answers "missing layer blob" of no image that was      *)
(* pulled: a manifest that can be read back has all its blobs on disk,     *)
(* whatever the manifests share and however pulls overlap or end.          *)
(***************************************************************************)
THEOREM ImagesUsable == Spec => []PulledImageUsable
<1>1. ASSUME StoreInv PROVE PulledImageUsable
  <2> SUFFICES ASSUME NEW r \in Refs, Stored(r) \in Manifests
               PROVE  layer_exists(Stored(r).config) /\ MissingLayers(Stored(r)) = {}
    BY DEF PulledImageUsable
  <2>1. \A i \in 1..Len(Blobs(Stored(r))) : layer_exists(Blobs(Stored(r))[i])
    BY <1>1 DEF StoreInv, ManifestInv, Stored, Paths
  <2>2. /\ Len(Blobs(Stored(r))) = Len(Stored(r).layers) + 1
        /\ Len(Stored(r).layers) \in Nat
        /\ Blobs(Stored(r))[1] = Stored(r).config
        /\ \A i \in 1..Len(Stored(r).layers) : Blobs(Stored(r))[i + 1] = Stored(r).layers[i]
    BY BlobsOfManifest
  <2>3. layer_exists(Stored(r).config)
    BY <2>1, <2>2
  <2>4. ASSUME NEW i \in 1..Len(Stored(r).layers) PROVE layer_exists(Stored(r).layers[i])
    <3>1. i + 1 \in 1..Len(Blobs(Stored(r)))
      BY <2>2
    <3>2. QED BY <2>1, <2>2, <3>1
  <2>5. QED BY <2>3, <2>4 DEF MissingLayers
<1>2. QED BY <1>1, StoreInvariant, PTL
-----------------------------------------------------------------------------
(***************************************************************************)
(* Why overlapping pulls end in a sound store when nothing fails: a chunk  *)
(* of a file that is not right yet is still to be written by a pull that   *)
(* has this very file open, by whichever name it goes.                     *)
(***************************************************************************)
Writes(w, d, name, k) ==
  pc[w] = "write" /\ handle[w] = name /\ Current(w) = d /\ off[w] <= k

Covered(file, d, name) ==
  file # None =>
    \A k \in 1..Chunks : file[k] = "good" \/ \E w \in Pullers : Writes(w, d, name, k)

SoundInv ==
  faults = 0 => \A d \in Digests : Covered(part[d], d, "part") /\ Covered(blob[d], d, "blob")

(* What another pull was to write it is to write after a step of w, but    *)
(* for a rename of the file it has open.                                   *)
LEMMA WritesStay ==
  ASSUME StoreInv, NEW w \in Pullers, Step(w) \/ Abort(w), NEW v \in Pullers, v # w,
         NEW d, NEW name, NEW k, Writes(v, d, name, k),
         ~(Rename(w) /\ part[Current(w)] # None /\ d = Current(w))
  PROVE  Writes(v, d, name, k)'
<1>1. TypeOK
  BY DEF StoreInv
<1>2. /\ pc'[v] = pc[v] /\ off'[v] = off[v] /\ Current(v)' = Current(v)
  BY <1>1, OthersUntouched
<1>3. handle'[v] = handle[v]
  BY <1>1, OthersUntouched DEF Writes
<1>4. QED BY <1>2, <1>3 DEF Writes

(* A file that nobody changes stays covered when a pull that does not      *)
(* write makes a step.                                                     *)
LEMMA CoveredStays ==
  ASSUME StoreInv, NEW w \in Pullers, Step(w) \/ Abort(w), pc[w] # "write",
         NEW d, NEW name, NEW file, Covered(file, d, name),
         ~(Rename(w) /\ part[Current(w)] # None /\ d = Current(w))
  PROVE  file # None =>
           \A k \in 1..Chunks : file[k] = "good" \/ \E v \in Pullers : Writes(v, d, name, k)'
<1> SUFFICES ASSUME file # None, NEW k \in 1..Chunks, file[k] # "good"
             PROVE  \E v \in Pullers : Writes(v, d, name, k)'
  OBVIOUS
<1>1. PICK v \in Pullers : Writes(v, d, name, k)
  BY DEF Covered
<1>2. v # w
  BY <1>1 DEF Writes
<1>3. QED BY <1>1, <1>2, WritesStay

(* A chunk that w writes is right, and what it had still to write it has   *)
(* still to write, but for this chunk.                                     *)
LEMMA CoveredByChunk ==
  ASSUME StoreInv, NEW w \in Pullers, WriteChunk(w), NEW d \in Digests,
         NEW name \in {"part", "blob"}, NEW file \in Content, NEW after \in Content,
         Covered(file, d, name),
         after = IF handle[w] = name /\ Current(w) = d
                 THEN [file EXCEPT ![off[w]] = "good"] ELSE file
  PROVE  \A k \in 1..Chunks : after[k] = "good" \/ \E v \in Pullers : Writes(v, d, name, k)'
<1> SUFFICES ASSUME NEW k \in 1..Chunks, after[k] # "good"
             PROVE  \E v \in Pullers : Writes(v, d, name, k)'
  OBVIOUS
<1>1. off[w] \in 1..Chunks
  BY ChunkTarget DEF WriteChunk
<1>2. file[k] # "good"
  BY <1>1 DEF Content
<1>3. PICK v \in Pullers : Writes(v, d, name, k)
  BY <1>2, ContentIsAFile DEF Covered
<1>4. CASE v = w
  <2>1. handle[w] = name /\ Current(w) = d /\ off[w] <= k
    BY <1>3, <1>4 DEF Writes
  <2>2. off[w] # k
    BY <1>1, <2>1 DEF Content
  <2>3. off[w] + 1 <= k /\ off[w] # Chunks
    BY <1>1, <2>1, <2>2
  <2>4. /\ off'[w] = off[w] + 1 /\ pc'[w] = "write" /\ handle' = handle
        /\ Current(w)' = Current(w)
    BY <2>3 DEF WriteChunk, GoTo, StoreInv, TypeOK, Current
  <2>5. QED BY <2>1, <2>3, <2>4 DEF Writes
<1>5. CASE v # w
  BY <1>3, <1>5, WritesStay DEF Step, WriteChunk, Rename
<1>6. QED BY <1>4, <1>5

LEMMA SoundChunkStep ==
  ASSUME StoreInv, SoundInv, NEW w \in Pullers, WriteChunk(w)
  PROVE  SoundInv'
<1> SUFFICES ASSUME faults' = 0, NEW d \in Digests
             PROVE  Covered(part[d], d, "part")' /\ Covered(blob[d], d, "blob")'
  BY DEF SoundInv
<1>t. TypeOK
  BY DEF StoreInv
<1>1. /\ faults = 0
      /\ part' = IF handle[w] = "part" THEN [part EXCEPT ![Current(w)][off[w]] = "good"]
                                       ELSE part
      /\ blob' = IF handle[w] = "blob" THEN [blob EXCEPT ![Current(w)][off[w]] = "good"]
                                       ELSE blob
  <2>1. PICK bytes \in {"good", "bad"} :
          /\ CountFault(bytes = "bad")
          /\ part' = IF handle[w] = "part" THEN [part EXCEPT ![Current(w)][off[w]] = bytes]
                                           ELSE part
          /\ blob' = IF handle[w] = "blob" THEN [blob EXCEPT ![Current(w)][off[w]] = bytes]
                                           ELSE blob
    BY DEF WriteChunk
  <2>2. faults \in Nat /\ faults' = faults + (IF bytes = "bad" THEN 1 ELSE 0)
    BY <1>t, <2>1, StoreAssumption DEF CountFault, TypeOK
  <2>3. faults = 0 /\ bytes = "good"
    BY <2>2
  <2>4. QED BY <2>1, <2>3
<1>2. /\ off[w] \in 1..Chunks
      /\ Current(w) \in Digests
      /\ handle[w] = "part" => part[Current(w)] \in Content
      /\ handle[w] = "blob" => blob[Current(w)] \in Content
  BY ChunkTarget DEF WriteChunk
<1>3. Covered(part[d], d, "part")'
  <2>1. CASE part[d] = None
    BY <1>t, <1>1, <1>2, <2>1, ContentIsAFile DEF Covered, TypeOK
  <2>2. CASE part[d] # None
    <3>1. part[d] \in Content
      BY <1>t, <2>2 DEF TypeOK
    <3>2. part'[d] = IF handle[w] = "part" /\ Current(w) = d
                     THEN [part[d] EXCEPT ![off[w]] = "good"] ELSE part[d]
      BY <1>t, <1>1, <1>2 DEF TypeOK
    <3>3. part'[d] \in Content
      BY <1>2, <3>1, <3>2, ContentIsAFile
    <3>4. Covered(part[d], d, "part")
      BY <1>1 DEF SoundInv
    <3>5. QED BY <3>1, <3>2, <3>3, <3>4, CoveredByChunk DEF Covered
  <2>3. QED BY <2>1, <2>2
<1>4. Covered(blob[d], d, "blob")'
  <2>1. CASE blob[d] = None
    BY <1>t, <1>1, <1>2, <2>1, ContentIsAFile DEF Covered, TypeOK
  <2>2. CASE blob[d] # None
    <3>1. blob[d] \in Content
      BY <1>t, <2>2 DEF TypeOK
    <3>2. blob'[d] = IF handle[w] = "blob" /\ Current(w) = d
                     THEN [blob[d] EXCEPT ![off[w]] = "good"] ELSE blob[d]
      BY <1>t, <1>1, <1>2 DEF TypeOK
    <3>3. blob'[d] \in Content
      BY <1>2, <3>1, <3>2, ContentIsAFile
    <3>4. Covered(blob[d], d, "blob")
      BY <1>1 DEF SoundInv
    <3>5. QED BY <3>1, <3>2, <3>3, <3>4, CoveredByChunk DEF Covered
  <2>3. QED BY <2>1, <2>2
<1>5. QED BY <1>3, <1>4
(* CreatePart covers its new file itself; a rename takes the pulls that    *)
(* write to the file along; no other step touches a file.                  *)
LEMMA SoundOtherStep ==
  ASSUME StoreInv, SoundInv, NEW w \in Pullers, Step(w) \/ Abort(w), ~WriteChunk(w)
  PROVE  SoundInv'
<1> SUFFICES ASSUME faults' = 0, NEW d \in Digests
             PROVE  Covered(part[d], d, "part")' /\ Covered(blob[d], d, "blob")'
  BY DEF SoundInv
<1>t. TypeOK
  BY DEF StoreInv
<1>1. faults = 0 /\ ~Abort(w)
  BY <1>t, StoreAssumption DEF TypeOK, Step, Abort, CountFault
<1>2. Covered(part[d], d, "part") /\ Covered(blob[d], d, "blob")
  BY <1>1 DEF SoundInv
<1>3. CASE pc[w] # "write" /\ part'[d] = part[d] /\ blob'[d] = blob[d]
           /\ ~(Rename(w) /\ part[Current(w)] # None /\ d = Current(w))
  BY <1>2, <1>3, CoveredStays DEF Covered
<1>4. CASE CreatePart(w)
  <2>1. Current(w) \in Digests /\ pc[w] = "request"
    BY <1>4, CurrentDigest DEF CreatePart, AtBlob, Working
  <2>2. CASE d = Current(w)
    <3>1. /\ pc'[w] = "write" /\ handle'[w] = "part" /\ off'[w] = 1 /\ Current(w)' = d
          /\ blob' = blob
      BY <1>t, <1>4, <2>2 DEF CreatePart, GoTo, TypeOK, Current
    <3>2. Covered(part[d], d, "part")'
      BY <3>1 DEF Covered, Writes
    <3>3. Covered(blob[d], d, "blob")'
      BY <1>2, <1>4, <2>1, <3>1, CoveredStays DEF Covered, Rename
    <3>4. QED BY <3>2, <3>3
  <2>3. CASE d # Current(w)
    BY <1>t, <1>3, <1>4, <2>1, <2>3 DEF CreatePart, TypeOK, Rename
  <2>4. QED BY <2>2, <2>3
<1>5. CASE Rename(w) /\ part[Current(w)] # None
  <2>1. /\ Current(w) \in Digests /\ pc[w] = "rename"
        /\ blob' = [blob EXCEPT ![Current(w)] = part[Current(w)]]
        /\ part' = [part EXCEPT ![Current(w)] = None]
        /\ handle' = HandlesAfterRename(w, Current(w))
    BY <1>5, CurrentDigest DEF Rename, AtBlob, Working
  <2>2. CASE d = Current(w)
    <3>1. part'[d] = None /\ blob'[d] = part[d]
      BY <1>t, <2>1, <2>2 DEF TypeOK
    <3>2. ASSUME NEW k \in 1..Chunks, part[d][k] # "good"
          PROVE  \E v \in Pullers : Writes(v, d, "blob", k)'
      <4>1. PICK v \in Pullers : Writes(v, d, "part", k)
        BY <1>2, <1>5, <2>2, <3>2 DEF Covered
      <4>2. v # w
        BY <2>1, <4>1 DEF Writes
      <4>3. handle'[v] = "blob"
        BY <2>1, <2>2, <4>1, <4>2 DEF HandlesAfterRename, Writes
      <4>4. pc'[v] = pc[v] /\ off'[v] = off[v] /\ Current(v)' = Current(v)
        BY <1>t, <4>2, OthersUntouched
      <4>5. Writes(v, d, "blob", k)'
        BY <4>1, <4>3, <4>4 DEF Writes
      <4>6. QED BY <4>5
    <3>3. QED BY <3>1, <3>2 DEF Covered
  <2>3. CASE d # Current(w)
    BY <1>t, <1>3, <2>1, <2>3 DEF TypeOK
  <2>4. QED BY <2>2, <2>3
<1>6. QED
  BY <1>1, <1>3, <1>4, <1>5 DEF Step, Rename, pull_image, authenticate, fetch_manifest,
     CheckBlob, verify_digest, TruncateManifest, save_manifest

LEMMA SoundInvariant == Spec => []SoundInv
<1>1. Init => SoundInv
  BY DEF Init, SoundInv, Covered
<1>2. StoreInv /\ SoundInv /\ [Next]_vars => SoundInv'
  <2> SUFFICES ASSUME StoreInv, SoundInv, [Next]_vars PROVE SoundInv'
    OBVIOUS
  <2>1. ASSUME NEW w \in Pullers, Step(w) \/ Abort(w) PROVE SoundInv'
    BY <2>1, SoundChunkStep, SoundOtherStep
  <2>2. CASE UNCHANGED vars
    BY <2>2 DEF vars, SoundInv, Covered, Writes, Current
  <2>3. QED BY <2>1, <2>2 DEF Next
<1>3. QED BY <1>1, <1>2, StoreInvariant, PTL DEF Spec

(***************************************************************************)
(* Pulls that meet no fault leave only blobs that verify once all of them  *)
(* have returned, for any number of pulls that share ".part" files: the    *)
(* renames under each other's feet do no lasting harm.                     *)
(***************************************************************************)
THEOREM SoundStore == Spec => []SoundAtRest
<1>1. StoreInv /\ SoundInv => SoundAtRest
  <2> SUFFICES ASSUME StoreInv, SoundInv, faults = 0, \A w \in Pullers : pc[w] = "idle",
                      NEW d \in Digests, layer_exists(d)
               PROVE  Verifies(blob[d])
    BY DEF SoundAtRest
  <2>1. blob[d] \in Content
    BY DEF StoreInv, TypeOK, layer_exists
  <2>2. \A k \in 1..Chunks : blob[d][k] = "good"
    BY DEF SoundInv, Covered, Writes, layer_exists
  <2>3. QED BY <2>1, <2>2 DEF Content, Verifies
<1>2. QED BY <1>1, StoreInvariant, SoundInvariant, PTL
=============================================================================
