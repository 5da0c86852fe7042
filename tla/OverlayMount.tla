---------------------------- MODULE OverlayMount ----------------------------
(***************************************************************************)
(* An image's root file system as an overlay (src/filesystem/mod.rs): the  *)
(* layers that get_image_layers lists from the bottom to the top, what     *)
(* extract_layer makes of each, OverlayMountBuilder with build and         *)
(* mount_options, and the view that the kernel gives of a mount with these *)
(* options.                                                                *)
(***************************************************************************)
EXTENDS Integers, Sequences, SequencesExt

CONSTANTS
  Names,    \* file names
  Absent,   \* the layer has nothing of that name
  Whiteout  \* a layer of an image deletes what the layers below have

(* A layer of an image: for each name a content, Absent or Whiteout; a     *)
(* directory or a view of one: a content or Absent.                        *)

(* extract_layer: the tar archive's whiteout is a regular file of another  *)
(* name (".wh." and the name), so it deletes nothing in an overlay.        *)
extract_layer(layer) == [n \in Names |-> IF layer[n] = Whiteout THEN Absent ELSE layer[n]]

(* A builder: the lower directories in the order in which they were added, *)
(* and which of the other settings were given.                             *)
Builder(dirs, given, readOnly) ==
  [lower_dirs |-> dirs, given |-> given, read_only |-> readOnly]
Settable == {"mountpoint", "upper_dir", "work_dir"}

(* build accepts it.                                                       *)
builds(b) ==
  /\ "mountpoint" \in b.given
  /\ b.lower_dirs # <<>>
  /\ ~b.read_only => {"upper_dir", "work_dir"} \subseteq b.given

(* mount_options joins the directories as they were added: their order     *)
(* between the option's colons.                                            *)
lowerdir(b) == b.lower_dirs

(* The kernel's overlay: the leftmost directory of the option is on top.   *)
View(dirs) ==
  [n \in Names |->
     LET I == {i \in DOMAIN dirs : dirs[i][n] # Absent}
     IN IF I = {} THEN Absent ELSE dirs[Min(I)][n]]

(* The image: what the topmost layer that has a name says of it.           *)
Image(layers) ==
  [n \in Names |->
     LET I == {i \in DOMAIN layers : layers[i][n] # Absent}
     IN IF I = {} \/ layers[Max(I)][n] = Whiteout THEN Absent ELSE layers[Max(I)][n]]

Extracted(layers) == [i \in DOMAIN layers |-> extract_layer(layers[i])]
=============================================================================
