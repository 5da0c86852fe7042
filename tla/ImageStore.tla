----------------------------- MODULE ImageStore -----------------------------
(***************************************************************************)
(* The content-addressable store of src/image/mod.rs and the pulls that    *)
(* fill it: ImageStore::pull_image with download_layer, verify_digest and  *)
(* save_manifest.  Pulls run in different processes or tasks, without a    *)
(* lock, over one directory: the blobs, the ".part" file that every        *)
(* download of a digest uses, and the manifests.  Every await of a pull    *)
(* separates two steps.                                                    *)
(***************************************************************************)
EXTENDS Integers, Sequences

CONSTANTS
  Refs,       \* image references: [registry, repository, reference]
  Manifests,  \* image manifests: [config : Digests, layers : Seq(Digests)]
  Digests,    \* sha256 digests
  Pullers,    \* who may have a pull under way
  None,       \* no file, no manifest, no reference
  Empty,      \* a manifest file that was truncated and not yet written
  Garbled,    \* a manifest file that two pulls wrote at once
  Offered(_), \* the manifests the registry may answer with for a reference
  Chunks,     \* the number of chunks in which a blob is streamed
  MaxFaults   \* how many aborts and wrong chunks a behaviour may have

(* All blobs of a manifest in the order in which they are pulled.          *)
Blobs(m) == <<m.config>> \o m.layers

ASSUME StoreAssumption ==
  /\ \A m \in Manifests : m.config \in Digests /\ m.layers \in Seq(Digests)
  /\ \A r \in Refs : Offered(r) \subseteq Manifests
  /\ Chunks \in Nat \ {0}
  /\ None \notin Refs \cup Manifests \cup [1..Chunks -> {"none", "good", "bad"}]
  /\ {Empty, Garbled} \cap (Manifests \cup {None}) = {}
  /\ MaxFaults \in Nat

VARIABLES
  part,      \* part[d]: the file at {blob path of d}.part
  blob,      \* blob[d]: the file at blobs/sha256/{d}
  manifest,  \* manifest[path]: the file at manifests/{repository}/{reference}
  pc, ref, man, pos, off,  \* per puller: step, reference, manifest, the blob
                           \* it is at and the chunk it writes next
  handle,    \* handle[w]: which file w's download has open
  faults     \* how many faults there have been

vars == <<part, blob, manifest, pc, ref, man, pos, off, handle, faults>>

-----------------------------------------------------------------------------
(* A blob file: for each chunk whether the right bytes, wrong bytes or no  *)
(* bytes (a hole, or beyond the end) are there.                            *)
Content == [1..Chunks -> {"none", "good", "bad"}]
EmptyFile == [k \in 1..Chunks |-> "none"]

layer_exists(d) == blob[d] # None

(* What verify_digest accepts: exactly the bytes that the digest is of.    *)
Verifies(f) == f = [k \in 1..Chunks |-> "good"]

(* manifest_path leaves out the registry.                                  *)
manifest_path(r) == <<r.repository, r.reference>>
Paths == {manifest_path(r) : r \in Refs}

Unparsable == {Empty, Garbled}

Steps == {"idle", "token", "fetch", "check", "request", "write", "rename",
          "verify", "save", "saving"}

TypeOK ==
  /\ part \in [Digests -> Content \cup {None}]
  /\ blob \in [Digests -> Content \cup {None}]
  /\ manifest \in [Paths -> Manifests \cup Unparsable \cup {None}]
  /\ pc \in [Pullers -> Steps]
  /\ ref \in [Pullers -> Refs \cup {None}]
  /\ man \in [Pullers -> Manifests \cup {None}]
  /\ pos \in [Pullers -> Nat]
  /\ off \in [Pullers -> 1..Chunks + 1]
  /\ handle \in [Pullers -> {"closed", "part", "blob", "gone"}]
  /\ faults \in 0..MaxFaults

Init ==
  /\ part = [d \in Digests |-> None]
  /\ blob = [d \in Digests |-> None]
  /\ manifest = [p \in Paths |-> None]
  /\ pc = [w \in Pullers |-> "idle"]
  /\ ref = [w \in Pullers |-> None]
  /\ man = [w \in Pullers |-> None]
  /\ pos = [w \in Pullers |-> 1]
  /\ off = [w \in Pullers |-> 1]
  /\ handle = [w \in Pullers |-> "closed"]
  /\ faults = 0

(* The digest that w is at.                                                *)
Current(w) == Blobs(man[w])[pos[w]]

GoTo(w, step) ==
  /\ pc' = [pc EXCEPT ![w] = step]
  /\ UNCHANGED <<ref, man, pos>>

(* Mutant: the next download starts before the first chunk.                *)
LeaveAtZero(w) ==
  /\ pc' = [pc EXCEPT ![w] = "idle"]
  /\ ref' = [ref EXCEPT ![w] = None]
  /\ man' = [man EXCEPT ![w] = None]
  /\ pos' = [pos EXCEPT ![w] = 1]
  /\ off' = [off EXCEPT ![w] = 0]
  /\ handle' = [handle EXCEPT ![w] = "closed"]

(* The pull is over, by its end or by an error; what is on disk stays.     *)
Leave(w) ==
  /\ pc' = [pc EXCEPT ![w] = "idle"]
  /\ ref' = [ref EXCEPT ![w] = None]
  /\ man' = [man EXCEPT ![w] = None]
  /\ pos' = [pos EXCEPT ![w] = 1]
  /\ off' = [off EXCEPT ![w] = 1]
  /\ handle' = [handle EXCEPT ![w] = "closed"]

(* After blob number pos: the next one, or the manifest.                   *)
NextBlob(w) ==
  /\ pos' = [pos EXCEPT ![w] = @ + 1]
  /\ pc' = [pc EXCEPT ![w] = IF pos[w] = Len(Blobs(man[w])) THEN "save" ELSE "check"]
  /\ UNCHANGED <<ref, man>>

-----------------------------------------------------------------------------
(* pull_image                                                              *)

pull_image(w, r) ==
  /\ pc[w] = "idle"
  /\ pc' = [pc EXCEPT ![w] = "token"]
  /\ ref' = [ref EXCEPT ![w] = r]
  /\ UNCHANGED <<part, blob, manifest, man, pos, off, handle>>

(* The token request (none is made to a registry other than Docker Hub).   *)
authenticate(w) ==
  /\ pc[w] = "token"
  /\ GoTo(w, "fetch")
  /\ UNCHANGED <<part, blob, manifest, off, handle>>

fetch_manifest(w) ==
  /\ pc[w] = "fetch"
  /\ \E m \in Offered(ref[w]) : man' = [man EXCEPT ![w] = m]
  /\ pc' = [pc EXCEPT ![w] = "check"]
  /\ UNCHANGED <<part, blob, manifest, ref, pos, off, handle>>

(* Mutant: the manifest is written before the blobs are there.             *)
CheckSavesFirst(w) ==
  /\ pc[w] = "check"
  /\ IF layer_exists(Current(w)) THEN NextBlob(w) ELSE GoTo(w, "request")
  /\ manifest' = [manifest EXCEPT ![manifest_path(ref[w])] = man[w]]
  /\ UNCHANGED <<part, blob, off, handle>>

(* A blob whose file exists is taken to be there: it is not verified.      *)
CheckBlob(w) ==
  /\ pc[w] = "check"
  /\ IF layer_exists(Current(w)) THEN NextBlob(w) ELSE GoTo(w, "request")
  /\ UNCHANGED <<part, blob, manifest, off, handle>>

-----------------------------------------------------------------------------
(* download_layer                                                          *)

(* The registry has answered: File::create makes the ".part" file, or      *)
(* truncates the one that another download is writing.                     *)
CreatePart(w) ==
  /\ pc[w] = "request"
  /\ part' = [part EXCEPT ![Current(w)] = EmptyFile]
  /\ handle' = [handle EXCEPT ![w] = "part"]
  /\ off' = [off EXCEPT ![w] = 1]
  /\ GoTo(w, "write")
  /\ UNCHANGED <<blob, manifest>>

CountFault(happened) ==
  /\ faults' = faults + (IF happened THEN 1 ELSE 0)
  /\ faults' <= MaxFaults

(* Mutant: the last chunk is not written.                                  *)
WriteChunkShort(w) ==
  /\ pc[w] = "write"
  /\ off[w] <= Chunks
  /\ UNCHANGED faults
  /\ LET Put(f) == [f EXCEPT ![off[w]] = IF off[w] = Chunks THEN @ ELSE "good"] IN
     /\ part' = IF handle[w] = "part" THEN [part EXCEPT ![Current(w)] = Put(@)] ELSE part
     /\ blob' = IF handle[w] = "blob" THEN [blob EXCEPT ![Current(w)] = Put(@)] ELSE blob
  /\ off' = [off EXCEPT ![w] = @ + 1]
  /\ GoTo(w, IF off[w] = Chunks THEN "rename" ELSE "write")
  /\ UNCHANGED <<manifest, handle>>

(* One chunk of the stream arrives and is written, at w's own offset, to   *)
(* the file that w opened: under the name it has by now, if it has one.    *)
WriteChunk(w) ==
  /\ pc[w] = "write"
  /\ off[w] <= Chunks
  /\ \E bytes \in {"good", "bad"} :
       /\ CountFault(bytes = "bad")
       /\ part' = IF handle[w] = "part" THEN [part EXCEPT ![Current(w)][off[w]] = bytes]
                                        ELSE part
       /\ blob' = IF handle[w] = "blob" THEN [blob EXCEPT ![Current(w)][off[w]] = bytes]
                                        ELSE blob
  /\ off' = [off EXCEPT ![w] = @ + 1]
  /\ GoTo(w, IF off[w] = Chunks THEN "rename" ELSE "write")
  /\ UNCHANGED <<manifest, handle>>

(* The files that others have open when one is renamed over the blob of d. *)
HandlesAfterRename(w, d) ==
  [v \in Pullers |->
     CASE v = w -> "closed"
       [] v # w /\ pc[v] = "write" /\ Current(v) = d /\ handle[v] = "part" -> "blob"
       [] v # w /\ pc[v] = "write" /\ Current(v) = d /\ handle[v] = "blob" -> "gone"
       [] OTHER -> handle[v]]

(* rename(2) moves whatever file has the ".part" name; there may be none.  *)
Rename(w) ==
  LET d == Current(w) IN
  /\ pc[w] = "rename"
  /\ \/ /\ part[d] # None
        /\ blob' = [blob EXCEPT ![d] = part[d]]
        /\ part' = [part EXCEPT ![d] = None]
        /\ handle' = HandlesAfterRename(w, d)
        /\ GoTo(w, "verify")
        /\ UNCHANGED off
     \/ part[d] = None /\ Leave(w) /\ UNCHANGED <<part, blob>>
  /\ UNCHANGED manifest

-----------------------------------------------------------------------------
(* A mismatch ends the pull; the file stays at the blob's path.            *)
verify_digest(w) ==
  /\ pc[w] = "verify"
  /\ IF Verifies(blob[Current(w)]) THEN NextBlob(w) /\ UNCHANGED <<off, handle>>
                                   ELSE Leave(w)
  /\ UNCHANGED <<part, blob, manifest>>

(* save_manifest: std::fs::write truncates the file, then writes it.       *)
TruncateManifest(w) ==
  /\ pc[w] = "save"
  /\ manifest' = [manifest EXCEPT ![manifest_path(ref[w])] = Empty]
  /\ GoTo(w, "saving")
  /\ UNCHANGED <<part, blob, off, handle>>

save_manifest(w) ==
  LET path == manifest_path(ref[w]) IN
  /\ pc[w] = "saving"
  /\ \E m \in {man[w]} \cup (IF manifest[path] \in {Empty, man[w]} THEN {}
                                                              ELSE {Garbled}) :
       manifest' = [manifest EXCEPT ![path] = m]
  /\ Leave(w)
  /\ UNCHANGED <<part, blob>>

(* A request, a stream or a file operation fails, or the process dies: the *)
(* pull ends where it is.                                                  *)
Abort(w) ==
  /\ pc[w] # "idle"
  /\ CountFault(TRUE)
  /\ Leave(w)
  /\ UNCHANGED <<part, blob, manifest>>

Step(w) ==
  \/ WriteChunk(w)
  \/ /\ \/ authenticate(w) \/ fetch_manifest(w) \/ CheckBlob(w)
        \/ CreatePart(w) \/ Rename(w) \/ verify_digest(w)
        \/ TruncateManifest(w) \/ save_manifest(w)
        \/ \E r \in Refs : pull_image(w, r)
     /\ UNCHANGED faults

Next == \E w \in Pullers : Step(w) \/ Abort(w)

Spec == Init /\ [][Next]_vars

-----------------------------------------------------------------------------
(* get_image_layers: the layers of the stored manifest, or an error when   *)
(* one has no file.                                                        *)
Stored(r) == manifest[manifest_path(r)]
MissingLayers(m) == {i \in 1..Len(m.layers) : ~layer_exists(m.layers[i])}

(***************************************************************************)
(* An image whose manifest can be read has every blob in place, so         *)
(* get_image_layers never answers "missing layer blob" of a pulled image,  *)
(* whatever pulls overlap, abort or get wrong bytes.                       *)
(***************************************************************************)
PulledImageUsable ==
  \A r \in Refs :
    Stored(r) \in Manifests =>
      /\ layer_exists(Stored(r).config)
      /\ MissingLayers(Stored(r)) = {}

(***************************************************************************)
(* download_layer renames "so that partial downloads are never visible to  *)
(* readers": a file at a blob's path has all its chunks.                   *)
(***************************************************************************)
NeverPartial ==
  \A d \in Digests : layer_exists(d) => \A k \in 1..Chunks : blob[d][k] # "none"

(***************************************************************************)
(* Overlapping pulls that nothing goes wrong with leave the store sound:   *)
(* when all of them have returned, what is at a blob's path verifies,      *)
(* although they shared ".part" files and some of them ended in errors.    *)
(***************************************************************************)
SoundAtRest ==
  faults = 0 /\ (\A w \in Pullers : pc[w] = "idle") =>
    \A d \in Digests : layer_exists(d) => Verifies(blob[d])
=============================================================================
