--------------------------------- MODULE Tags ---------------------------------
(***************************************************************************)
(* How cmd/pk-deploy-worker/kubernetes.go ranks the tags of an image       *)
(* repository and chooses the one to offer.  A tag is what                 *)
(* parseTagCandidate makes of it: [raw, semver, version, sequence], with   *)
(* `raw` the place of the string in Go's string order (one per string),    *)
(* `version` the three numbers of a semver prefix (zeros without one) and  *)
(* `sequence` the 14-digit release sequence, 0 for none.                   *)
(***************************************************************************)
EXTENDS Naturals, FiniteSets

CONSTANT NoTag   \* the empty tag of an image reference without one

TagCandidates(raws, numbers, sequences) ==
  LET zeros == [i \in 1 .. 3 |-> 0] IN
  [raw : raws, semver : {TRUE}, version : [1 .. 3 -> numbers], sequence : sequences]
    \cup [raw : raws, semver : {FALSE}, version : {zeros}, sequence : {0}]

\* The first of the three numbers that differ decides.
OlderVersion(v, w) ==
  \E i \in 1 .. 3 : v[i] < w[i] /\ \A k \in 1 .. i - 1 : v[k] = w[k]

\* sameTagRank: equal but for the raw string.
SameTagRank(a, b) ==
  a.semver = b.semver /\ a.version = b.version /\ a.sequence = b.sequence

\* compareTagCandidate(a, b) < 0: a tag without a semver prefix is below every
\* one with; then the version, the release sequence and the string decide.
Older(a, b) ==
  \/ ~ a.semver /\ b.semver
  \/ a.semver = b.semver /\ OlderVersion(a.version, b.version)
  \/ a.semver = b.semver /\ a.version = b.version /\ a.sequence < b.sequence
  \/ SameTagRank(a, b) /\ a.raw < b.raw

HasReleaseSequence(tag) == tag.semver /\ tag.sequence # 0

\* The last candidate after sorting.
Best(tags) == CHOOSE t \in tags : \A o \in tags : ~ Older(t, o)

\* Mutant of LatestTag: the tags are sorted as strings.
LatestTagAsStrings(tags, current) ==
  CHOOSE t \in tags : \A o \in tags : o.raw <= t.raw

\* Mutant of LatestTag: the current build of a release is not preferred.
LatestTagAnyBuild(tags, current) == Best(tags)

\* latestTag, of the tags the registry lists: the best one, but a current
\* release is not replaced by another build of the same release.
LatestTag(tags, current) ==
  LET best == Best(tags) IN
  IF /\ current # NoTag /\ HasReleaseSequence(current)
     /\ SameTagRank(current, best)
    THEN current ELSE best
=============================================================================
