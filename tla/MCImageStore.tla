---------------------------- MODULE MCImageStore ----------------------------
(* Small instances of ImageStore for TLC: two images that share a layer,   *)
(* under the same name in two registries.                                  *)
EXTENDS ImageStore, TLC

CONSTANTS d1, d2, d3

m1 == [config |-> d1, layers |-> <<d2>>]
m2 == [config |-> d3, layers |-> <<d2>>]
MCManifests == {m1, m2}
MCDigests == {d1, d2, d3}

AppOnHub == [registry |-> "hub", repository |-> "app", reference |-> "latest"]
AppElsewhere == [AppOnHub EXCEPT !.registry = "ghcr"]

OneRef == {AppOnHub}
TwoRefs == {AppOnHub, AppElsewhere}

(* Two registries that hold different images under one name: as the path   *)
(* of a manifest leaves out the registry, also a tag that moves.           *)
PerRegistry(r) == IF r = AppOnHub THEN {m1} ELSE {m2}

(* One image only.                                                         *)
Fixed(r) == {m1}

Symmetry == Permutations(Pullers)
=============================================================================
