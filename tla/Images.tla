-------------------------------- MODULE Images --------------------------------
(***************************************************************************)
(* Image references (cmd/pk-deploy-worker/kubernetes.go).  The inventory   *)
(* parses the image of a container into registry, repository, tag and      *)
(* digest, asks that registry about that repository, and offers the image  *)
(* of another tag; the update writes this image to the deployment, and the *)
(* next inventory parses what the last one composed.                       *)
(*                                                                         *)
(* A text is the sequence of its tokens: words, and the characters the     *)
(* code looks for: "/", ":", "." and "@".                                  *)
(***************************************************************************)
EXTENDS Naturals, SequencesExt

CONSTANTS
  Hosts,    \* registry names with a dot or a port in them
  Paths,    \* repository paths, tokens of words and "/"
  TagTexts, \* tags
  Digest    \* a digest

Punctuation == {"/", ":", ".", "@"}

\* The grammar of images: a path that could be taken for a host has one in
\* front of it.  Inside a path there is neither dot, colon nor at-sign here.
ASSUME ImagesAssumption ==
  /\ \A text \in Hosts \cup Paths \cup TagTexts \cup {Digest} : text \in Seq(ToSet(text))
  /\ \A host \in Hosts :
       {".", ":"} \cap ToSet(host) # {} /\ {"/", "@"} \cap ToSet(host) = {}
  /\ \A path \in Paths :
       /\ path # << >> /\ {".", ":", "@"} \cap ToSet(path) = {}
       /\ path[1] \notin Punctuation \cup {"localhost"}
  /\ \A tag \in TagTexts : tag # << >> /\ {"/", ":", "@"} \cap ToSet(tag) = {}
  /\ Digest # << >> /\ "@" \notin ToSet(Digest)

VARIABLES
  image,    \* the image text of the container
  written   \* history: what its author, or the update, meant by it

vars == <<image, written>>

DockerHub == <<"registry-1", ".", "docker", ".", "io">>

\* strings.Cut and strings.LastIndex: places in a text, 0 for none.
FirstAt(text, char) == SelectInSeq(text, LAMBDA t : t = char)
LastAt(text, char)  == SelectLastInSeq(text, LAMBDA t : t = char)

Before(text, place) == IF place = 0 THEN text ELSE SubSeq(text, 1, place - 1)
After(text, place)  == IF place = 0 THEN << >> ELSE SubSeq(text, place + 1, Len(text))

\* Mutant of TagPlace: the last colon anywhere, which may be a port's.
TagPlaceAnywhere(text) == LastAt(text, ":")

\* The colon before the tag: the last one, if it is in the last path part.
TagPlace(text) ==
  LET colon == LastAt(text, ":") IN IF colon > LastAt(text, "/") THEN colon ELSE 0

IsRegistry(first) == {".", ":"} \cap ToSet(first) # {} \/ first = <<"localhost">>

\* parseImageReference; an absent digest is the empty text.
ParseImage(raw) ==
  LET at    == FirstAt(raw, "@")
      named == Before(raw, at)
      tag   == TagPlace(named)
      path  == Before(named, tag)
      slash == FirstAt(path, "/")
      hosted == slash # 0 /\ IsRegistry(Before(path, slash))
  IN [registry   |-> IF hosted THEN Before(path, slash) ELSE DockerHub,
      repository |-> IF hosted THEN After(path, slash) ELSE path,
      tag        |-> After(named, tag),
      digest     |-> After(raw, at)]

\* imageReference.version: the tag, else the digest.
Version(ref) ==
  IF ref.tag # << >> THEN ref.tag ELSE IF ref.digest # << >> THEN ref.digest ELSE <<"unknown">>

\* Mutant of WithTag: the registry is taken to be the default.
WithTagAnywhere(ref, tag) == ref.repository \o <<":">> \o tag

\* imageReference.withTag; parsed references always have a registry.
WithTag(ref, tag) == ref.registry \o <<"/">> \o ref.repository \o <<":">> \o tag

-----------------------------------------------------------------------------
\* How an author writes a reference: no registry means the default one.
Rendered(ref) ==
     (IF ref.registry = << >> THEN << >> ELSE ref.registry \o <<"/">>)
  \o ref.repository
  \o (IF ref.tag = << >> THEN << >> ELSE <<":">> \o ref.tag)
  \o (IF ref.digest = << >> THEN << >> ELSE <<"@">> \o ref.digest)

References ==
  [registry : Hosts \cup {<< >>, <<"localhost">>}, repository : Paths,
   tag : TagTexts \cup {<< >>}, digest : {<< >>, Digest}]

Init == written \in References /\ image = Rendered(written)

\* Somebody deploys another image by hand.
DeployAnother == written' \in References /\ image' = Rendered(written')

\* deploymentItem.components composes latestImage for the tag it found, offers
\* it when there is a current tag and another one, and the update made of it
\* goes to the cluster.
Update ==
  \E tag \in TagTexts :
    LET ref == ParseImage(image) IN
    /\ ref.tag \notin {<< >>, tag}
    /\ image' = WithTag(ref, tag)
    /\ written' = [written EXCEPT !.tag = tag, !.digest = << >>]

Next == DeployAnother \/ Update

Spec == Init /\ [][Next]_vars

-----------------------------------------------------------------------------
(***************************************************************************)
(* What parseImageReference makes of an image is what was meant by it,     *)
(* whether a person or an earlier update composed it: ports are no tags,   *)
(* the colon of a digest is no tag's, the first part of a path is not a    *)
(* host, and an image without a registry belongs to the default one.       *)
(***************************************************************************)
ParsedAsWritten ==
  ParseImage(image) =
    [written EXCEPT !.registry = IF @ = << >> THEN DockerHub ELSE @]

(***************************************************************************)
(* The image an inventory offers (withTag of what it parsed) is one of the *)
(* same repository of the same registry, and the inventory that follows    *)
(* the update shows exactly the tag that was offered as current: nothing   *)
(* of the old tag or digest is left, and no update offers itself again.    *)
(***************************************************************************)
UpdatesStayInRepository ==
  [][Update =>
       LET old == ParseImage(image)
           new == ParseImage(image') IN
       /\ new.registry = old.registry /\ new.repository = old.repository
       /\ new.digest = << >>
       /\ image' = WithTag(old, Version(new))]_vars
=============================================================================
