--------------------------- MODULE PureFunctions ----------------------------
(***************************************************************************)
(* The functions of the runtime that keep no state, on every input up to a *)
(* bound: a day, the layers of an image with a builder of its overlay, or  *)
(* a reference that is typed token by token.                               *)
(***************************************************************************)
EXTENDS Calendar, ImageReference, OverlayMount

CONSTANTS
  Days,       \* bound: the days since the epoch
  Contents,   \* what a file of a layer may hold
  MaxLayers,  \* bound: the layers of an image
  MaxTokens   \* bound: the tokens of a reference

ASSUME FunctionsAssumption ==
  /\ Days \subseteq Nat
  /\ MaxLayers \in Nat /\ MaxTokens \in Nat
  /\ Absent # Whiteout /\ {Absent, Whiteout} \cap Contents = {}

VARIABLE input

Layers == [Names -> Contents \cup {Absent, Whiteout}]

(* Registries with and without a port, or none.                            *)
Registries == {<<>>, <<"ghcr.io">>, <<"localhost">>, <<"localhost", ":", "5000">>,
               <<"repo", ":", "5000">>, DEFAULT_REGISTRY}
PathWords == {"repo", "library"}

(* No reference, a tag, or a digest.                                       *)
References == {<<>>, <<"v1">>, <<"sha256", ":", "abcd">>}

Init ==
  \/ \E day \in Days : input = [of |-> "days_to_ymd", day |-> day]
  \/ \E layers \in BoundedSeq(Layers, MaxLayers), given \in SUBSET Settable, ro \in BOOLEAN :
       input = [of |-> "overlay", layers |-> layers, given |-> given, read_only |-> ro]
  \/ \E registry \in Registries, path \in BoundedSeq(PathWords, 3) \ {<<>>},
        reference \in References :
       input = [of |-> "written", registry |-> registry, path |-> path, reference |-> reference]
  \/ input = [of |-> "parse", text |-> <<>>]

(* A word ends where the next separator begins.                            *)
Type(token) ==
  /\ input.of = "parse"
  /\ Len(input.text) < MaxTokens
  /\ token \in Words /\ input.text # <<>> => Last(input.text) \in Separators
  /\ input' = [input EXCEPT !.text = Append(@, token)]

Next == \E token \in Words \cup Separators : Type(token)

Spec == Init /\ [][Next]_input

-----------------------------------------------------------------------------
(***************************************************************************)
(* days_to_ymd counts the days as the Gregorian calendar does, from        *)
(* 1970-01-01 on: over every end of a month, leap day and century.         *)
(***************************************************************************)
CalendarExact ==
  input.of = "days_to_ymd" =>
    /\ input.day = 0 => days_to_ymd(input.day) = Epoch
    /\ days_to_ymd(input.day + 1) = NextDate(days_to_ymd(input.day))

(***************************************************************************)
(* A reference in any of the forms that parse documents, with a tag, with  *)
(* a digest or with neither, is found where Docker finds it: the colon of  *)
(* a port or of a digest is no tag, and a namespace is no registry.        *)
(***************************************************************************)
ParsedAsMeant ==
  input.of = "written" => parse(Written(input)) = Meant(input)

(***************************************************************************)
(* What Display writes of a tagged reference is parsed as the same one     *)
(* (ports, registries and namespaces included), unless Docker Hub's        *)
(* registry was written out, which Display leaves away.                    *)
(***************************************************************************)
DisplayParses ==
  input.of = "parse" =>
    LET r == parse(input.text) IN
    r # Invalid /\ ~is_digest(r) /\ input.text[1] # DEFAULT_REGISTRY[1] =>
      parse(Display(r)) = r

(***************************************************************************)
(* "Layers are stacked in the order they are added (first = bottom)": a    *)
(* mount that is given the layers as get_image_layers lists them, from the *)
(* bottom to the top, shows the image, if no layer deletes a file.         *)
(***************************************************************************)
BottomFirstShowsImage ==
  input.of = "overlay" /\ (\A i \in DOMAIN input.layers : \A n \in Names :
                             input.layers[i][n] # Whiteout) =>
    LET b == Builder(Extracted(input.layers), input.given, input.read_only) IN
    builds(b) => View(lowerdir(b)) = Image(input.layers)
=============================================================================
