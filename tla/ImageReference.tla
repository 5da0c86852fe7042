--------------------------- MODULE ImageReference ---------------------------
(***************************************************************************)
(* ImageReference::parse and its Display (src/image/mod.rs).  A string is  *)
(* a sequence of tokens: the separators, and words that stand for the      *)
(* longest pieces between them, of which the parser only asks whether they *)
(* contain a dot, are "localhost" or the name of the digest algorithm.     *)
(***************************************************************************)
EXTENDS Integers, Sequences, SequencesExt

Separators == {"/", ":", "@"}

(* "registry-1.docker.io" is DEFAULT_REGISTRY.                             *)
Dotted == {"registry-1.docker.io", "ghcr.io"}
Words == Dotted \cup {"localhost", "library", "sha256", "repo"}

DEFAULT_REGISTRY == <<"registry-1.docker.io">>
DEFAULT_TAG == <<"latest">>
Invalid == [registry |-> <<>>, repository |-> <<>>, reference |-> <<>>]

Occurs(token, s) == \E i \in DOMAIN s : s[i] = token
Places(token, s) == {i \in DOMAIN s : s[i] = token}
Find(token, s) == IF Occurs(token, s) THEN Min(Places(token, s)) ELSE 0
RFind(token, s) == IF Occurs(token, s) THEN Max(Places(token, s)) ELSE 0
Before(s, i) == SubSeq(s, 1, i - 1)
After(s, i) == SubSeq(s, i + 1, Len(s))

IsSha256(s) == Len(s) >= 2 /\ s[1] = "sha256" /\ s[2] = ":"

(* Mutant: the port of a registry is taken for a tag.                      *)
SplitAtLastColon(s) ==
  LET at == Find("@", s)  colon == RFind(":", s) IN
  CASE at # 0 -> [name |-> Before(s, at), reference |-> After(s, at)]
    [] at = 0 /\ colon # 0 -> [name |-> Before(s, colon), reference |-> After(s, colon)]
    [] OTHER -> [name |-> s, reference |-> DEFAULT_TAG]

(* The digest after the first `@', or the tag after the last colon unless  *)
(* that is the colon of a port.                                            *)
Split(s) ==
  LET at == Find("@", s)
      colon == RFind(":", s)
      tagged == colon # 0 /\ ~Occurs("/", After(s, colon))
  IN CASE at # 0 -> [name |-> Before(s, at), reference |-> After(s, at)]
       [] at = 0 /\ tagged -> [name |-> Before(s, colon), reference |-> After(s, colon)]
       [] OTHER -> [name |-> s, reference |-> DEFAULT_TAG]

IsRegistry(first) ==
  \/ \E w \in Dotted \cup {":"} : Occurs(w, first)
  \/ first = <<"localhost">>

(* Where a name without its reference is: at the registry that it starts   *)
(* with, or at Docker Hub.                                                 *)
Locate(name) ==
  LET slash == Find("/", name) IN
  CASE slash = 0 -> [registry |-> DEFAULT_REGISTRY, repository |-> <<"library", "/">> \o name]
    [] slash # 0 /\ IsRegistry(Before(name, slash)) ->
         [registry |-> Before(name, slash), repository |-> After(name, slash)]
    [] OTHER -> [registry |-> DEFAULT_REGISTRY, repository |-> name]

is_digest(r) == IsSha256(r.reference)

parse(s) ==
  LET parts == Split(s)
      place == Locate(parts.name)
  IN IF \/ s = <<>>
        \/ Occurs("@", s) /\ ~IsSha256(parts.reference)
        \/ place.repository = <<>>
     THEN Invalid
     ELSE [registry |-> place.registry, repository |-> place.repository,
           reference |-> parts.reference]

(* Mutant: the registry is never written.                                  *)
Display_repository(r) == r.repository \o <<":">> \o r.reference

(* What `{}' writes: always a colon before the reference, and no registry  *)
(* when it is the default one.                                             *)
Display(r) ==
  (IF r.registry = DEFAULT_REGISTRY THEN r.repository
   ELSE r.registry \o <<"/">> \o r.repository) \o <<":">> \o r.reference
-----------------------------------------------------------------------------
(* A reference as it is written: a registry, the words of a path and a tag *)
(* or a digest, of which the first and the last may be missing.            *)
Slashed(path) ==
  [i \in 1..(2 * Len(path) - 1) |-> IF i % 2 = 1 THEN path[(i + 1) \div 2] ELSE "/"]

Written(w) ==
  (IF w.registry = <<>> THEN <<>> ELSE w.registry \o <<"/">>)
    \o Slashed(w.path)
    \o (CASE w.reference = <<>> -> <<>>
          [] IsSha256(w.reference) -> <<"@">> \o w.reference
          [] OTHER -> <<":">> \o w.reference)

(* What it means to Docker: a name without a registry is Docker Hub's, one *)
(* without a namespace an official image of it, no reference the latest.   *)
Meant(w) ==
  [registry |-> IF w.registry = <<>> THEN DEFAULT_REGISTRY ELSE w.registry,
   repository |-> IF w.registry = <<>> /\ Len(w.path) = 1
                  THEN <<"library", "/">> \o w.path ELSE Slashed(w.path),
   reference |-> IF w.reference = <<>> THEN DEFAULT_TAG ELSE w.reference]
=============================================================================
