-------------------------- MODULE ControlPlane_proofs --------------------------
(***************************************************************************)
(* Proofs about inventories and updates, for every set of deployments,     *)
(* tags and workers, and any number of changes, failures and restarts.     *)
(* First the ranking of tags, then the component table that a report       *)
(* makes, then the invariants: what is on offer is in the registry and     *)
(* newer, and an inventory that nothing overtook has seen the cluster.     *)
(* Last, what evidence points to while tags keep their content.            *)
(***************************************************************************)
EXTENDS ControlPlane, FiniteSetTheorems, TLAPS

ObserveIn(context, known, component) == S!Observe(known, component)

Upserts == INSTANCE SequenceLemmas WITH op <- ObserveIn
Ingests == INSTANCE SequenceLemmas WITH op <- S!Ingest

-----------------------------------------------------------------------------
(* The ranking of tags. *)

AnyTag == TagCandidates(Nat, Nat, Nat)

LEMMA TagFields ==
  ASSUME NEW a \in AnyTag
  PROVE  /\ a.raw \in Nat /\ a.semver \in BOOLEAN /\ a.sequence \in Nat
         /\ a.version \in [1 .. 3 -> Nat]
<1> DEFINE zeros == [i \in 1 .. 3 |-> 0]
<1>1. zeros \in [1 .. 3 -> Nat]
  OBVIOUS
<1> HIDE DEF zeros
<1>2. \/ a \in [raw : Nat, semver : {TRUE}, version : [1 .. 3 -> Nat], sequence : Nat]
      \/ a \in [raw : Nat, semver : {FALSE}, version : {zeros}, sequence : {0}]
  BY DEF AnyTag, TagCandidates, zeros
<1>3. CASE a \in [raw : Nat, semver : {TRUE}, version : [1 .. 3 -> Nat], sequence : Nat]
  BY <1>3
<1>4. CASE a \in [raw : Nat, semver : {FALSE}, version : {zeros}, sequence : {0}]
  <2>1. a.version = zeros /\ a.raw \in Nat /\ a.semver = FALSE /\ a.sequence = 0
    BY <1>4
  <2>2. a.version \in [1 .. 3 -> Nat]
    BY <1>1, <2>1
  <2>3. a.semver \in BOOLEAN
    BY <2>1
  <2>4. a.sequence \in Nat
    BY <2>1
  <2> QED
    BY <2>1, <2>2, <2>3, <2>4
<1> QED
  BY <1>2, <1>3, <1>4

\* The first of three numbers that differ decides.
LEMMA OlderVersionIs ==
  ASSUME NEW v \in [1 .. 3 -> Nat], NEW w \in [1 .. 3 -> Nat]
  PROVE  /\ OlderVersion(v, w) <=>
              \/ v[1] < w[1]
              \/ v[1] = w[1] /\ v[2] < w[2]
              \/ v[1] = w[1] /\ v[2] = w[2] /\ v[3] < w[3]
         /\ v = w <=> v[1] = w[1] /\ v[2] = w[2] /\ v[3] = w[3]
<1>1. \A i \in 1 .. 3 : i = 1 \/ i = 2 \/ i = 3
  OBVIOUS
<1>2. /\ \A k \in 1 .. 1 - 1 : FALSE
      /\ \A k \in 1 .. 2 - 1 : k = 1
      /\ \A k \in 1 .. 3 - 1 : k = 1 \/ k = 2
      /\ 1 \in 1 .. 2 - 1 /\ 1 \in 1 .. 3 - 1 /\ 2 \in 1 .. 3 - 1
      /\ 1 \in 1 .. 3 /\ 2 \in 1 .. 3 /\ 3 \in 1 .. 3
  OBVIOUS
<1>3. OlderVersion(v, w) <=>
        \/ v[1] < w[1] /\ \A k \in 1 .. 1 - 1 : v[k] = w[k]
        \/ v[2] < w[2] /\ \A k \in 1 .. 2 - 1 : v[k] = w[k]
        \/ v[3] < w[3] /\ \A k \in 1 .. 3 - 1 : v[k] = w[k]
  BY <1>1, <1>2 DEF OlderVersion
<1>4. v = w <=> \A i \in 1 .. 3 : v[i] = w[i]
  OBVIOUS
<1> QED
  BY <1>1, <1>2, <1>3, <1>4

\* Older is a strict order, and total on tags with different strings.
THEOREM OlderIsStrict ==
  ASSUME NEW a \in AnyTag, NEW b \in AnyTag, NEW c \in AnyTag
  PROVE  /\ ~ Older(a, a)
         /\ Older(a, b) /\ Older(b, c) => Older(a, c)
         /\ a.raw # b.raw => Older(a, b) \/ Older(b, a)
<1> DEFINE v == a.version
           w == b.version
           x == c.version
<1>1. /\ a.raw \in Nat /\ a.sequence \in Nat /\ v \in [1 .. 3 -> Nat]
      /\ b.raw \in Nat /\ b.sequence \in Nat /\ w \in [1 .. 3 -> Nat]
      /\ c.raw \in Nat /\ c.sequence \in Nat /\ x \in [1 .. 3 -> Nat]
  BY TagFields
<1>2. /\ v[1] \in Nat /\ v[2] \in Nat /\ v[3] \in Nat
      /\ w[1] \in Nat /\ w[2] \in Nat /\ w[3] \in Nat
      /\ x[1] \in Nat /\ x[2] \in Nat /\ x[3] \in Nat
  BY <1>1
<1>3. ~ OlderVersion(v, v)
  BY <1>1, <1>2, OlderVersionIs
<1>4. OlderVersion(v, w) /\ OlderVersion(w, x) => OlderVersion(v, x)
  BY <1>1, <1>2, OlderVersionIs
<1>5. OlderVersion(v, w) \/ OlderVersion(w, v) \/ v = w
  BY <1>1, <1>2, OlderVersionIs
<1>6. a.semver \in BOOLEAN /\ b.semver \in BOOLEAN /\ c.semver \in BOOLEAN
  BY TagFields
<1> HIDE DEF v, w, x
<1> QED
  BY <1>1, <1>3, <1>4, <1>5, <1>6 DEF Older, SameTagRank, v, w, x

\* There is a best tag.
LEMMA BestIs ==
  ASSUME NEW tags, IsFiniteSet(tags), tags # {}, tags \subseteq AnyTag
  PROVE  Best(tags) \in tags /\ \A o \in tags : ~ Older(Best(tags), o)
<1> DEFINE R == {p \in tags \X tags : Older(p[1], p[2])}
<1>1. \A t, o \in tags : <<t, o>> \in R <=> Older(t, o)
  OBVIOUS
<1>2. /\ \A t \in tags : <<t, t>> \notin R
      /\ \A t, o, u \in tags : <<t, o>> \in R /\ <<o, u>> \in R => <<t, u>> \in R
  BY <1>1, OlderIsStrict
<1> HIDE DEF R
<1>3. Upserts!IsFiniteSet(tags)
  BY DEF IsFiniteSet, Upserts!IsFiniteSet
<1>4. \E t \in tags : \A o \in tags : <<t, o>> \notin R
  BY <1>2, <1>3, Upserts!MaximalExists
<1>5. \E t \in tags : \A o \in tags : ~ Older(t, o)
  BY <1>1, <1>4
<1> QED
  BY <1>5 DEF Best

\* From one tag to another is forward if the other is newer, and no other build of
\* the same release.
Forward(from, to) ==
  /\ Older(from, to)
  /\ HasReleaseSequence(from) => ~ SameTagRank(from, to)

\* When the current tag is listed, latestTag returns it or goes forward.
THEOREM LatestIsForward ==
  ASSUME NEW tags, IsFiniteSet(tags), tags \subseteq AnyTag \ {NoTag}, NEW current \in tags,
         \A t, o \in tags : t.raw = o.raw => t = o
  PROVE  /\ LatestTag(tags, current) \in tags
         /\ LatestTag(tags, current) = current \/ Forward(current, LatestTag(tags, current))
<1>1. Best(tags) \in tags /\ ~ Older(Best(tags), current)
  BY BestIs
<1>2. PICK best \in tags : best = Best(tags)
  BY <1>1
<1>3. best = current \/ Older(current, best)
  <2>1. best.raw # current.raw => Older(current, best)
    BY <1>1, <1>2, OlderIsStrict
  <2> QED
    BY <2>1
<1>4. LatestTag(tags, current) = IF HasReleaseSequence(current) /\ SameTagRank(current, best)
                                   THEN current ELSE best
  BY <1>2 DEF LatestTag
<1> QED
  BY <1>2, <1>3, <1>4 DEF Forward

\* In any case it returns one of the tags or the current one.
LEMMA LatestIsListed ==
  ASSUME NEW tags, IsFiniteSet(tags), tags # {}, tags \subseteq AnyTag, NEW current
  PROVE  LatestTag(tags, current) \in tags \cup {current}
BY BestIs DEF LatestTag
-----------------------------------------------------------------------------
(* The table that a report makes. *)

\* Every entry is a reported component or one that was known and not reported.
TableOf(table, known, reported) ==
  /\ DOMAIN table = DOMAIN known \cup {reported[i].id : i \in DOMAIN reported}
  /\ \A id \in DOMAIN table :
       \/ \E i \in DOMAIN reported : reported[i].id = id /\ table[id] = reported[i]
       \/ id \in DOMAIN known /\ table[id] = known[id]

AllNamed(reported) == \A i \in DOMAIN reported : reported[i].id # ""

LEMMA UpsertIs ==
  ASSUME NEW T, NEW reported \in Seq(T), AllNamed(reported), NEW known
  PROVE  TableOf(S!Upsert(known, reported), known, reported)
<1>1. S!Upsert(known, reported) = Upserts!Fold(0, known, reported)
  BY SMTT(30) DEF S!Upsert, Upserts!Fold, S!FoldLeft, Upserts!FoldLeft, S!MapThenFoldSet,
         Upserts!MapThenFoldSet, S!Max, Upserts!Max, ObserveIn
<1>2. PICK u :
        /\ u[0] = known
        /\ \A i \in 1 .. Len(reported) : u[i] = ObserveIn(0, u[i - 1], reported[i])
        /\ Upserts!Fold(0, known, reported) = u[Len(reported)]
  BY Upserts!FoldLeftIs, SMTT(30)
<1>3. PICK n \in Nat : n = Len(reported) /\ DOMAIN reported = 1 .. n
  OBVIOUS
<1> DEFINE Upto(k) ==
             /\ DOMAIN u[k] = DOMAIN known \cup {reported[i].id : i \in 1 .. k}
             /\ \A id \in DOMAIN u[k] :
                  \/ \E i \in 1 .. k : reported[i].id = id /\ u[k][id] = reported[i]
                  \/ id \in DOMAIN known /\ u[k][id] = known[id]
           A == {k \in Nat : k <= n => Upto(k)}
<1>4. 0 \in A
  BY <1>2
<1>5. ASSUME NEW k \in Nat, k \in A PROVE k + 1 \in A
  <2> SUFFICES ASSUME k + 1 <= n PROVE Upto(k + 1)
    OBVIOUS
  <2>1. Upto(k)
    BY <1>5
  <2>2. k + 1 \in 1 .. Len(reported) /\ (k + 1) - 1 = k
    BY <1>3
  <2>3. PICK c : c = reported[k + 1]
    OBVIOUS
  <2>4. u[k + 1] = S!With(u[k], c)
    <3>1. u[k + 1] = S!Observe(u[k], c)
      BY <1>2, <2>2, <2>3 DEF ObserveIn
    <3> QED
      BY <1>3, <2>2, <2>3, <3>1 DEF S!Observe, AllNamed
  <2>5. /\ DOMAIN u[k + 1] = DOMAIN u[k] \cup {c.id}
        /\ \A id \in DOMAIN u[k + 1] : u[k + 1][id] = IF id = c.id THEN c ELSE u[k][id]
    BY <2>4 DEF S!With
  <2>6. /\ \A i \in 1 .. k + 1 : i \in 1 .. k \/ i = k + 1
        /\ k + 1 \in 1 .. k + 1 /\ 1 .. k \subseteq 1 .. k + 1
    OBVIOUS
  <2>7. DOMAIN u[k + 1] = DOMAIN known \cup {reported[i].id : i \in 1 .. k + 1}
    BY <2>1, <2>3, <2>5, <2>6
  <2>8. ASSUME NEW id \in DOMAIN u[k + 1]
        PROVE  \/ \E i \in 1 .. k + 1 : reported[i].id = id /\ u[k + 1][id] = reported[i]
               \/ id \in DOMAIN known /\ u[k + 1][id] = known[id]
    <3>1. CASE id = c.id
      BY <2>3, <2>5, <2>6, <3>1
    <3>2. CASE id # c.id
      BY <2>1, <2>5, <2>6, <3>2
    <3> QED
      BY <3>1, <3>2
  <2> QED
    BY <2>7, <2>8
<1> HIDE DEF A
<1>6. \A k \in Nat : k \in A
  BY <1>4, <1>5, Upserts!InductionInSet
<1>7. Upto(n)
  BY <1>6 DEF A
<1>8. S!Upsert(known, reported) = u[n]
  BY <1>1, <1>2, <1>3
<1> QED
  BY <1>3, <1>7, <1>8, SMTT(30) DEF TableOf

\* ingestComponentState goes through the steps one by one.
LEMMA IngestRounds ==
  ASSUME NEW T, NEW steps \in Seq(T), NEW known, NEW job
  PROVE  \E u : /\ u[0] = known
                /\ \A i \in 1 .. Len(steps) : u[i] = S!Ingest(job, u[i - 1], steps[i])
                /\ S!Ingested(known, job, steps) = u[Len(steps)]
<1>1. S!Ingested(known, job, steps) = Ingests!Fold(job, known, steps)
  BY SMTT(30) DEF S!Ingested, Ingests!Fold, S!FoldLeft, Ingests!FoldLeft, S!MapThenFoldSet,
         Ingests!MapThenFoldSet, S!Max, Ingests!Max
<1>2. \E u : /\ u[0] = known
             /\ \A i \in 1 .. Len(steps) : u[i] = S!Ingest(job, u[i - 1], steps[i])
             /\ Ingests!Fold(job, known, steps) = u[Len(steps)]
  BY Ingests!FoldLeftIs, SMTT(30)
<1> QED
  BY <1>1, <1>2

\* A result without steps changes nothing, and one of one step is one round.
LEMMA IngestedOne ==
  ASSUME NEW known, NEW job, NEW step
  PROVE  /\ S!Ingested(known, job, << >>) = known
         /\ S!Ingested(known, job, <<step>>) = S!Ingest(job, known, step)
<1>1. S!Ingested(known, job, << >>) = known
  <2>1. PICK none : none = << >>
    OBVIOUS
  <2>2. none \in Seq({step})
    BY <2>1
  <2>3. PICK u : /\ u[0] = known
                 /\ \A i \in 1 .. Len(none) : u[i] = S!Ingest(job, u[i - 1], none[i])
                 /\ S!Ingested(known, job, none) = u[Len(none)]
    BY <2>2, IngestRounds
  <2>4. Len(none) = 0
    BY <2>1
  <2> QED
    BY <2>1, <2>3, <2>4
<1>2. S!Ingested(known, job, <<step>>) = S!Ingest(job, known, step)
  <2>1. PICK steps : steps = <<step>>
    OBVIOUS
  <2>2. steps \in Seq({step}) /\ Len(steps) = 1 /\ steps[1] = step
    BY <2>1
  <2>3. PICK u :
          /\ u[0] = known
          /\ \A i \in 1 .. Len(steps) : u[i] = S!Ingest(job, u[i - 1], steps[i])
          /\ S!Ingested(known, job, steps) = u[Len(steps)]
    BY <2>2, IngestRounds
  <2>4. 1 \in 1 .. Len(steps) /\ 1 - 1 = 0
    BY <2>2
  <2> QED
    BY <2>1, <2>2, <2>3, <2>4
<1> QED
  BY <1>1, <1>2

-----------------------------------------------------------------------------
(* The invariants. *)

\* The registry lists all tags that a repository ever has.
AllListed == \A c \in Components : Cardinality(Known(c)) <= PageSize

Tags == UNION {Known(c) : c \in Components}

Jobs == {InventoryJob(at) : at \in 0 .. MaxTime}
          \cup {UpdateJob(o, at) : o \in Observations, at \in 0 .. MaxTime}

Envelope == [job : Jobs, key : {Key}, enq : Nat]

Tasks == [signed : Envelope, namespaces : Seq(Range(Namespaces)),
          listed : Seq([id : Components, tag : Tags]), latest : Tags \cup {NoTag},
          seen : Seq(Observations), status : {Running, Succeeded, Failed, Denied}]

Has(c, tag) == tag \in DOMAIN registry[c]

TypesOK ==
  /\ pending \in Seq(Envelope) /\ submitted \in Seq(Envelope)
  /\ Len(submitted) <= MaxSubmitted
  /\ claimed = [id \in S!JobIDs |-> claimed[id]]
  /\ updating \subseteq Observations
  /\ \A id \in DOMAIN components : components[id] \in Observations /\ components[id].id = id
  /\ work \in [Workers -> Tasks \cup {None}]
  /\ image \in [Components -> [tag : Tags, content : Contents] \cup {None}]
  /\ registry = [c \in Components |-> registry[c]]
  /\ \A c \in Components :
       /\ DOMAIN registry[c] \subseteq Known(c) /\ Has(c, Start[c].image)
       /\ \A tag \in DOMAIN registry[c] : registry[c][tag] \in Contents
  /\ now \in 0 .. MaxTime

\* An update on offer is one the registry has, with its content, and forward.
Offered(o) ==
  o.update => /\ Has(o.id, o.latest) /\ o.digest \in Contents
              /\ AllListed => Forward(o.current, o.latest)

JobOK(job) ==
  IsInventoryJob(job) \/ /\ job.plan.app \in Components /\ Has(job.plan.app, job.image)
                         /\ AllListed => Forward(job.from, job.image)

TaskOK(task) ==
  /\ \A i \in DOMAIN task.listed : Has(task.listed[i].id, task.listed[i].tag)
  /\ \A i \in DOMAIN task.seen : Offered(task.seen[i])
  /\ task.latest # NoTag =>
       /\ task.listed # << >>
       /\ Has(task.listed[1].id, task.latest)
       /\ AllListed => \/ task.latest = task.listed[1].tag
                       \/ Forward(task.listed[1].tag, task.latest)

OffersOK ==
  /\ \A o \in updating : o.update /\ Offered(o)
  /\ \A id \in DOMAIN components : Offered(components[id])
  /\ \A e \in DOMAIN submitted : JobOK(submitted[e].job)
  /\ \A w \in Workers : work[w] # None => TaskOK(work[w])
  /\ \A c \in Components : image[c] # None => Has(c, image[c].tag)

\* A job is submitted once and is in the queue or with one worker.
CustodyOK ==
  /\ \A e \in DOMAIN submitted : submitted[e].enq = e
  /\ \A i \in DOMAIN pending :
       /\ pending[i].enq \in DOMAIN submitted
       /\ submitted[pending[i].enq] = pending[i]
  /\ \A i, j \in DOMAIN pending : pending[i].enq = pending[j].enq => i = j
  /\ \A w \in Workers : work[w] # None =>
       /\ work[w].signed.enq \in DOMAIN submitted
       /\ submitted[work[w].signed.enq] = work[w].signed
       /\ \A i \in DOMAIN pending : pending[i].enq # work[w].signed.enq
  /\ \A v, w \in Workers : work[v] # None /\ work[w] # None =>
       (work[v].signed.enq = work[w].signed.enq => v = w)

\* An inventory shows that component c runs a tag.
Shows(task, c, tag) ==
  \/ \E i \in DOMAIN task.seen : task.seen[i].id = c /\ task.seen[i].current = tag
  \/ \E i \in DOMAIN task.listed : task.listed[i].id = c /\ task.listed[i].tag = tag

\* What it shows is so, and of the namespaces listed it shows everything.
ShowsCluster(task) ==
  /\ \A c \in Components, tag \in Tags :
       Shows(task, c, tag) => image[c] # None /\ image[c].tag = tag
  /\ \A c \in Components :
       image[c] # None /\ NamespaceOf[c] \notin Range(task.namespaces) =>
         Shows(task, c, image[c].tag)

InventoriesOK ==
  \A w \in Workers :
    work[w] # None /\ w \notin overtaken /\ IsInventoryJob(work[w].signed.job) =>
      /\ ShowsCluster(work[w])
      /\ work[w].status = Succeeded =>
           work[w].listed = << >> /\ work[w].namespaces = << >>
      /\ OneInventoryASecond =>
           claimed[work[w].signed.job.id] = work[w].signed.job

LoopInv == TypesOK /\ OffersOK /\ CustodyOK /\ InventoriesOK /\ FreshTableIsTrue

-----------------------------------------------------------------------------
(* Tags and components. *)

LEMMA KnownTags ==
  ASSUME NEW c \in Components
  PROVE  /\ IsFiniteSet(Known(c)) /\ Known(c) \subseteq AnyTag /\ Known(c) \subseteq Tags
         /\ NoTag \notin Known(c)
         /\ \A t, o \in Known(c) : t.raw = o.raw => t = o
BY RegistryAssumption DEF AnyTag, Tags

\* The registry always answers with a tag, and with all of them when it can.
LEMMA ListedTagsAre ==
  ASSUME TypesOK, NEW c \in Components
  PROVE  /\ IsFiniteSet(ListedTags(c)) /\ ListedTags(c) # {}
         /\ ListedTags(c) \subseteq DOMAIN registry[c]
         /\ AllListed => ListedTags(c) = DOMAIN registry[c]
<1> DEFINE tags == DOMAIN registry[c]
           below(t) == {o \in tags : o.raw < t.raw}
<1>1. /\ tags \subseteq Known(c) /\ Start[c].image \in tags
      /\ \A t \in tags : t \in AnyTag /\ t.raw \in Nat
  <2>1. tags \subseteq Known(c) /\ Start[c].image \in tags
    BY DEF TypesOK, Has
  <2>2. \A t \in tags : t \in AnyTag
    BY <2>1, KnownTags
  <2> QED
    BY <2>1, <2>2, TagFields
<1>2. IsFiniteSet(Known(c)) /\ IsFiniteSet(tags)
  BY <1>1, KnownTags, FS_Subset
<1>3. ListedTags(c) = {t \in tags : Cardinality(below(t)) < PageSize}
  BY DEF ListedTags
<1> HIDE DEF tags
<1>4. PICK m \in tags : below(m) = {}
  <2> DEFINE R == {p \in tags \X tags : p[2].raw < p[1].raw}
  <2>1. \A t, o \in tags : <<t, o>> \in R <=> o.raw < t.raw
    OBVIOUS
  <2>2. /\ \A t \in tags : <<t, t>> \notin R
        /\ \A t, o, u \in tags : <<t, o>> \in R /\ <<o, u>> \in R => <<t, u>> \in R
    BY <1>1, <2>1
  <2>3. tags # {}
    BY <1>1
  <2> HIDE DEF R
  <2>4. Upserts!IsFiniteSet(tags)
    BY <1>2 DEF IsFiniteSet, Upserts!IsFiniteSet
  <2>5. \E t \in tags : \A o \in tags : <<t, o>> \notin R
    BY <2>2, <2>3, <2>4, Upserts!MaximalExists
  <2> QED
    BY <2>1, <2>5
<1>5. m \in ListedTags(c)
  <2>1. Cardinality(below(m)) = 0
    BY <1>4, FS_EmptySet
  <2> QED
    BY <1>3, <2>1, RegistryAssumption
<1>6. ASSUME AllListed, NEW t \in tags PROVE t \in ListedTags(c)
  <2>1. IsFiniteSet(Known(c) \ {t}) /\ Cardinality(Known(c) \ {t}) = Cardinality(Known(c)) - 1
    BY <1>1, <1>2, FS_RemoveElement
  <2>2. below(t) \subseteq Known(c) \ {t}
    BY <1>1
  <2>3. /\ Cardinality(below(t)) <= Cardinality(Known(c) \ {t})
        /\ IsFiniteSet(below(t))
    BY <2>1, <2>2, FS_Subset
  <2>4. Cardinality(below(t)) \in Nat
    BY <2>3, FS_CardinalityType
  <2>5. Cardinality(Known(c)) \in Nat
    BY <1>2, FS_CardinalityType
  <2>6. Cardinality(Known(c)) <= PageSize
    BY <1>6 DEF AllListed
  <2>7. Cardinality(below(t)) < PageSize
    BY <2>1, <2>3, <2>4, <2>5, <2>6, RegistryAssumption
  <2> QED
    BY <1>3, <2>7
<1>7. ListedTags(c) \subseteq tags
  BY <1>3
<1>8. IsFiniteSet(ListedTags(c))
  BY <1>2, <1>7, FS_Subset
<1> QED
  BY <1>5, <1>6, <1>7, <1>8 DEF tags

\* What an executor makes of a container is an observation; if the tag found is as
\* TaskOK says, and the digest what the registry has, it is rightly on offer.
LEMMA ObservedIs ==
  ASSUME NEW item \in [id : Components, tag : Tags], NEW latest \in Tags \cup {NoTag},
         NEW digest \in Contents \cup {None}
  PROVE  Observed(item, latest, digest) \in Observations
<1> DEFINE o == Observed(item, latest, digest)
<1>1. /\ o.id \in Components /\ o.current \in Tags /\ o.latest \in Tags \cup {NoTag}
      /\ o.env = Environment /\ o.runtime = S!Kubernetes
  BY DEF Observed
<1>2. o.digest \in Contents \cup {None}
  BY DEF Observed
<1>3. o.update \in BOOLEAN
  BY DEF Observed
<1>4. o = [id |-> o.id, env |-> o.env, runtime |-> o.runtime, current |-> o.current,
           latest |-> o.latest, digest |-> o.digest, update |-> o.update]
  BY DEF Observed
<1> HIDE DEF o
<1> QED
  BY <1>1, <1>2, <1>3, <1>4 DEF Observations, Tags, o

LEMMA ObservedIsOffered ==
  ASSUME TypesOK, NEW item \in [id : Components, tag : Tags], NEW latest, NEW digest,
         latest # NoTag => /\ Has(item.id, latest)
                           /\ AllListed => latest = item.tag \/ Forward(item.tag, latest),
         digest # None => latest # NoTag /\ digest = registry[item.id][latest]
  PROVE  Offered(Observed(item, latest, digest))
<1> DEFINE o == Observed(item, latest, digest)
<1> SUFFICES ASSUME o.update
             PROVE  /\ Has(o.id, o.latest) /\ o.digest \in Contents
                    /\ AllListed => Forward(o.current, o.latest)
  BY DEF Offered
<1>1. latest # NoTag /\ digest # None /\ item.tag # latest
  BY DEF Observed
<1>2. o.id = item.id /\ o.latest = latest /\ o.current = item.tag /\ o.digest = digest
  BY <1>1 DEF Observed
<1>3. item.id \in Components
  OBVIOUS
<1>4. digest \in Contents
  BY <1>1, <1>3 DEF TypesOK, Has
<1> HIDE DEF o
<1> QED
  BY <1>1, <1>2, <1>4

-----------------------------------------------------------------------------
(* Jobs. *)

LEMMA JobIs ==
  ASSUME NEW job \in Jobs
  PROVE  \/ /\ IsInventoryJob(job)
            /\ \E at \in 0 .. MaxTime : job = InventoryJob(at)
         \/ /\ ~ IsInventoryJob(job)
            /\ \E o \in Observations, at \in 0 .. MaxTime : job = UpdateJob(o, at)
<1>1. ASSUME NEW at \in 0 .. MaxTime, job = InventoryJob(at) PROVE IsInventoryJob(job)
  BY <1>1 DEF InventoryJob, IsInventoryJob
<1>2. ASSUME NEW o \in Observations, NEW at \in 0 .. MaxTime, job = UpdateJob(o, at)
      PROVE  ~ IsInventoryJob(job)
  <2>1. job.plan.app = o.id
    BY <1>2 DEF UpdateJob
  <2>2. o.id \in Components
    BY DEF Observations
  <2> QED
    BY <2>1, <2>2, NamesAssumption DEF IsInventoryJob
<1> QED
  BY <1>1, <1>2 DEF Jobs

\* An inventory is of the environment, has the one step that reports, and an ID
\* that no update has.
LEMMA InventoryIs ==
  ASSUME NEW job \in Jobs, IsInventoryJob(job)
  PROVE  /\ job # None /\ job.id \in S!JobIDs
         /\ job.plan.env = Environment
         /\ job.plan.steps[1].id = "kubernetes-inventory"
         /\ S!IsInventory(job, "kubernetes-inventory")
         /\ \A other \in Jobs : other.id = job.id => IsInventoryJob(other)
<1>1. PICK at \in 0 .. MaxTime : job = InventoryJob(at)
  BY JobIs
<1>2. /\ job.id = <<"inventory", "", at>> /\ job.plan.env = Environment
      /\ job.plan.app = InventoryApp
      /\ job.plan.steps = <<[id |-> "kubernetes-inventory",
                             executor |-> "kubernetes.inventory"]>>
  BY <1>1 DEF InventoryJob
<1>3. /\ 1 \in DOMAIN job.plan.steps
      /\ job.plan.steps[1].id = "kubernetes-inventory"
      /\ job.plan.steps[1].executor = "kubernetes.inventory"
  <2>1. PICK step : step = [id |-> "kubernetes-inventory", executor |-> "kubernetes.inventory"]
    OBVIOUS
  <2>2. job.plan.steps = <<step>>
    BY <1>2, <2>1
  <2>3. DOMAIN job.plan.steps = 1 .. 1 /\ job.plan.steps[1] = step
    BY <2>2
  <2> QED
    BY <2>1, <2>3
<1>4. job # None
  BY <1>1, NothingAssumption
<1>5. S!IsInventory(job, "kubernetes-inventory")
  BY <1>2, <1>3, <1>4 DEF S!IsInventory, S!KubernetesInventory
<1>6. job.id \in S!JobIDs
  <2> DEFINE made == [id |-> <<"inventory", "", at>>]
  <2>1. made \in Made
    <3> DEFINE none == ""
               ids == {"inventory", "update"}
                        \X ({Slug[c] : c \in Components} \cup {none}) \X (0 .. MaxTime)
    <3>1. Made = {[id |-> id] : id \in ids}
      BY Zenon DEF Made
    <3> HIDE DEF none
    <3>2. <<"inventory", none, at>> \in ids
      OBVIOUS
    <3>3. made = [id |-> <<"inventory", none, at>>]
      BY DEF none
    <3> HIDE DEF made, ids
    <3> QED
      BY <3>1, <3>2, <3>3
  <2>2. job.id = made.id
    BY <1>2
  <2> HIDE DEF made
  <2> QED
    BY <2>1, <2>2 DEF S!JobIDs
<1>7. ASSUME NEW other \in Jobs, other.id = job.id PROVE IsInventoryJob(other)
  <2>1. ASSUME NEW o \in Observations, NEW to \in 0 .. MaxTime, other = UpdateJob(o, to)
        PROVE  FALSE
    <3>1. other.id[1] = "update"
      BY <2>1 DEF UpdateJob
    <3>2. job.id[1] = "inventory"
      <4>1. \E none : job.id = <<"inventory", none, at>>
        BY <1>2
      <4> QED
        BY <4>1
    <3> QED
      BY <1>7, <3>1, <3>2
  <2> QED
    BY <2>1, JobIs
<1> QED
  BY <1>2, <1>3, <1>4, <1>5, <1>6, <1>7

-----------------------------------------------------------------------------
LEMMA InitLoopInv == Init => LoopInv
<1> SUFFICES ASSUME Init PROVE LoopInv
  OBVIOUS
<1> USE DEF Init, S!StoreInit
<1>1. ASSUME NEW c \in Components
      PROVE  /\ DOMAIN registry[c] \subseteq Known(c) /\ Has(c, Start[c].image)
             /\ \A tag \in DOMAIN registry[c] : registry[c][tag] \in Contents
             /\ Start[c].image \in Tags
             /\ image[c] = [tag |-> Start[c].image, content |-> Start[c].tags[Start[c].image]]
             /\ image[c] \in [tag : Tags, content : Contents]
  <2>1. /\ Start[c].tags \in [DOMAIN Start[c].tags -> Contents]
        /\ Start[c].image \in DOMAIN Start[c].tags /\ registry[c] = Start[c].tags
    BY RegistryAssumption
  <2>2. DOMAIN registry[c] \subseteq Known(c)
    BY <2>1 DEF Known
  <2>3. Start[c].image \in Tags
    BY <2>1, <2>2, KnownTags
  <2>4. Start[c].tags[Start[c].image] \in Contents
    BY <2>1
  <2>5. image[c] = [tag |-> Start[c].image, content |-> Start[c].tags[Start[c].image]]
    OBVIOUS
  <2> QED
    BY <2>1, <2>2, <2>3, <2>4, <2>5 DEF Has
<1>2. TypesOK
  <2>1. image \in [Components -> [tag : Tags, content : Contents] \cup {None}]
    <3>1. image = [c \in Components |-> image[c]]
      OBVIOUS
    <3> QED
      BY <1>1, <3>1
  <2>2. /\ pending \in Seq(Envelope) /\ submitted \in Seq(Envelope)
        /\ Len(submitted) <= MaxSubmitted /\ now \in 0 .. MaxTime
    BY ControlPlaneBounds
  <2>3. \A id \in DOMAIN components : components[id] \in Observations /\ components[id].id = id
    OBVIOUS
  <2>4. work \in [Workers -> Tasks \cup {None}]
    OBVIOUS
  <2>5. /\ claimed = [id \in S!JobIDs |-> claimed[id]]
        /\ updating \subseteq Observations
        /\ registry = [c \in Components |-> registry[c]]
    OBVIOUS
  <2> QED
    BY <1>1, <2>1, <2>2, <2>3, <2>4, <2>5 DEF TypesOK
<1>3. OffersOK
  BY <1>1 DEF OffersOK
<1>4. CustodyOK
  BY DEF CustodyOK
<1>5. InventoriesOK
  BY DEF InventoriesOK
<1>6. FreshTableIsTrue
  BY DEF FreshTableIsTrue
<1> QED
  BY <1>2, <1>3, <1>4, <1>5, <1>6 DEF LoopInv

-----------------------------------------------------------------------------
(* What a step keeps. *)

\* Tags are pushed and never withdrawn.
Grows == \A c \in Components : DOMAIN registry[c] \subseteq DOMAIN registry'[c]

LEMMA TaskFields ==
  ASSUME NEW task \in Tasks
  PROVE  /\ task.signed \in Envelope /\ task.signed.job \in Jobs
         /\ task.namespaces \in Seq(Range(Namespaces))
         /\ task.listed \in Seq([id : Components, tag : Tags])
         /\ \A i \in DOMAIN task.listed :
              task.listed[i].id \in Components /\ task.listed[i].tag \in Tags
         /\ task.listed # << >> => 1 \in DOMAIN task.listed
         /\ task.latest \in Tags \cup {NoTag}
         /\ task.seen \in Seq(Observations)
         /\ \A i \in DOMAIN task.seen : task.seen[i] \in Observations
<1> DEFINE item == [id : Components, tag : Tags]
<1>1. /\ task.signed \in Envelope /\ task.namespaces \in Seq(Range(Namespaces))
      /\ task.listed \in Seq(item) /\ task.latest \in Tags \cup {NoTag}
      /\ task.seen \in Seq(Observations)
  BY DEF Tasks
<1>2. task.signed.job \in Jobs
  BY <1>1 DEF Envelope
<1> HIDE DEF item
<1>3. \A i \in DOMAIN task.listed : task.listed[i] \in item
  BY <1>1
<1>4. task.listed # << >> => 1 \in DOMAIN task.listed
  BY <1>1
<1>5. \A i \in DOMAIN task.seen : task.seen[i] \in Observations
  BY <1>1
<1> QED
  BY <1>1, <1>2, <1>3, <1>4, <1>5 DEF item

LEMMA GrowingKeeps ==
  ASSUME Grows
  PROVE  /\ \A o \in Observations : Offered(o) => Offered(o)'
         /\ \A job : JobOK(job) => JobOK(job)'
         /\ \A task \in Tasks : TaskOK(task) => TaskOK(task)'
<1>1. \A o \in Observations : Offered(o) => Offered(o)'
  BY DEF Grows, Offered, Observations, Has
<1>2. \A job : JobOK(job) => JobOK(job)'
  BY DEF Grows, JobOK, Has
<1>3. ASSUME NEW task \in Tasks, TaskOK(task) PROVE TaskOK(task)'
  <2>1. /\ \A i \in DOMAIN task.listed :
             task.listed[i].id \in Components /\ task.listed[i].tag \in Tags
        /\ task.listed # << >> => 1 \in DOMAIN task.listed
        /\ \A i \in DOMAIN task.seen : task.seen[i] \in Observations
    BY TaskFields
  <2>2. \A i \in DOMAIN task.listed : Has(task.listed[i].id, task.listed[i].tag)'
    BY <1>3, <2>1 DEF Grows, TaskOK, Has
  <2>3. \A i \in DOMAIN task.seen : Offered(task.seen[i])'
    BY <1>1, <1>3, <2>1 DEF TaskOK
  <2>4. task.latest # NoTag /\ task.listed # << >> => Has(task.listed[1].id, task.latest)'
    BY <1>3, <2>1 DEF Grows, TaskOK, Has
  <2> QED
    BY <1>3, <2>2, <2>3, <2>4 DEF TaskOK
<1> QED
  BY <1>1, <1>2, <1>3

\* A task is continued rightly: what it has seen is on offer and so.
GoesOn(w, task) ==
  /\ work[w] # None /\ task.signed = work[w].signed /\ TaskOK(task)
  /\ w \notin overtaken /\ IsInventoryJob(task.signed.job) =>
       /\ ShowsCluster(task)
       /\ task.status = Succeeded => task.listed = << >> /\ task.namespaces = << >>

\* Nothing but tasks goes on, while others push tags.
LEMMA WorkStep ==
  ASSUME LoopInv, TypesOK', Grows, UNCHANGED <<storeVars, image, overtaken, fresh>>,
         \A o \in updating' : o \in Observations /\ o.update /\ Offered(o),
         \A w \in Workers :
           \/ work'[w] = None \/ work'[w] = work[w]
           \/ \E task \in Tasks : GoesOn(w, task) /\ work'[w] = task
  PROVE  LoopInv'
<1> USE DEF storeVars
<1>1. TypesOK /\ OffersOK /\ CustodyOK /\ InventoriesOK /\ FreshTableIsTrue
  BY DEF LoopInv
<1>2. ASSUME NEW w \in Workers, work'[w] # None
      PROVE  /\ work[w] # None /\ work'[w].signed = work[w].signed
             /\ \E task \in Tasks : GoesOn(w, task) /\ work'[w] = task
  <2>1. ASSUME work'[w] = work[w] PROVE work[w] \in Tasks /\ GoesOn(w, work[w])
    <3>1. work[w] \in Tasks
      BY <1>1, <1>2, <2>1 DEF TypesOK
    <3>2. TaskOK(work[w])
      BY <1>1, <1>2, <2>1 DEF OffersOK
    <3> QED
      BY <1>1, <1>2, <2>1, <3>1, <3>2 DEF InventoriesOK, GoesOn
  <2> QED
    BY <1>2, <2>1 DEF GoesOn
<1>3. OffersOK'
  <2>1. \A o \in updating' : o.update /\ Offered(o)'
    BY GrowingKeeps DEF Offered, Has
  <2>2. \A id \in DOMAIN components : Offered(components[id])'
    BY <1>1, GrowingKeeps DEF OffersOK, TypesOK
  <2>3. \A e \in DOMAIN submitted : JobOK(submitted[e].job)'
    BY <1>1, GrowingKeeps DEF OffersOK
  <2>4. ASSUME NEW w \in Workers, work'[w] # None PROVE TaskOK(work[w])'
    <3>1. PICK task \in Tasks : TaskOK(task) /\ work'[w] = task
      BY <1>2, <2>4 DEF GoesOn
    <3>2. TaskOK(task)'
      BY <3>1, GrowingKeeps
    <3> QED
      BY <3>1, <3>2 DEF TaskOK
  <2>5. \A c \in Components : image[c] # None => Has(c, image[c].tag)'
    BY <1>1 DEF OffersOK, Has, Grows
  <2> QED
    BY <2>1, <2>2, <2>3, <2>4, <2>5 DEF OffersOK
<1>4. CustodyOK'
  BY <1>1, <1>2 DEF CustodyOK
<1>5. InventoriesOK'
  <2> SUFFICES ASSUME NEW w \in Workers, work'[w] # None, w \notin overtaken,
                      IsInventoryJob(work'[w].signed.job)
               PROVE  /\ ShowsCluster(work[w])'
                      /\ work'[w].status = Succeeded =>
                           work'[w].listed = << >> /\ work'[w].namespaces = << >>
                      /\ OneInventoryASecond' =>
                           claimed[work'[w].signed.job.id] = work'[w].signed.job
    BY DEF InventoriesOK
  <2>1. PICK task \in Tasks : GoesOn(w, task) /\ work'[w] = task
    BY <1>2
  <2>2. /\ ShowsCluster(task)
        /\ task.status = Succeeded => task.listed = << >> /\ task.namespaces = << >>
    BY <2>1 DEF GoesOn
  <2>3. ShowsCluster(work[w])'
    BY <2>1, <2>2 DEF ShowsCluster, Shows
  <2>4. OneInventoryASecond' => OneInventoryASecond
    BY DEF OneInventoryASecond, Inventories
  <2>5. OneInventoryASecond => claimed[work[w].signed.job.id] = work[w].signed.job
    BY <1>1, <1>2 DEF InventoriesOK
  <2> QED
    BY <1>2, <2>1, <2>2, <2>3, <2>4, <2>5
<1>6. FreshTableIsTrue'
  BY <1>1 DEF FreshTableIsTrue, OneInventoryASecond, Inventories, TableIsTrue
<1> QED
  BY <1>3, <1>4, <1>5, <1>6 DEF LoopInv

LEMMA WorkStepTypes ==
  ASSUME TypesOK, UNCHANGED <<storeVars, image>>, now' \in 0 .. MaxTime,
         updating' \subseteq Observations,
         work' \in [Workers -> Tasks \cup {None}],
         registry' = [c \in Components |-> registry'[c]],
         \A c \in Components :
           /\ DOMAIN registry'[c] \subseteq Known(c) /\ Start[c].image \in DOMAIN registry'[c]
           /\ \A tag \in DOMAIN registry'[c] : registry'[c][tag] \in Contents
  PROVE  TypesOK'
<1> USE DEF storeVars
<1>1. /\ claimed = [id \in S!JobIDs |-> claimed[id]]
      /\ claimed' = claimed
  BY DEF TypesOK
<1>2. claimed' = [id \in S!JobIDs |-> claimed'[id]]
  BY <1>1
<1> QED
  BY <1>2 DEF TypesOK, Has

\* One task goes on, or is lost.
LEMMA TaskStep ==
  ASSUME LoopInv, NEW w \in Workers, NEW task \in Tasks \cup {None},
         task # None => GoesOn(w, task),
         work' = [work EXCEPT ![w] = task],
         UNCHANGED <<storeVars, updating, worldVars, historyVars>>
  PROVE  LoopInv'
<1> USE DEF worldVars, historyVars
<1>1. TypesOK /\ OffersOK
  BY DEF LoopInv
<1>2. work \in [Workers -> Tasks \cup {None}]
  BY <1>1 DEF TypesOK
<1>3. /\ work' \in [Workers -> Tasks \cup {None}]
      /\ \A v \in Workers : work'[v] = IF v = w THEN task ELSE work[v]
  BY <1>2
<1>4. TypesOK'
  BY <1>1, <1>3, WorkStepTypes DEF TypesOK, Has
<1>5. Grows
  BY DEF Grows
<1>6. \A o \in updating' : o \in Observations /\ o.update /\ Offered(o)
  BY <1>1 DEF TypesOK, OffersOK
<1>7. ASSUME NEW v \in Workers
      PROVE  \/ work'[v] = None \/ work'[v] = work[v]
             \/ \E t \in Tasks : GoesOn(v, t) /\ work'[v] = t
  BY <1>3
<1> QED
  BY <1>4, <1>5, <1>6, <1>7, WorkStep

-----------------------------------------------------------------------------
(* The steps of the handler, the clock and the builds that leave jobs alone. *)

LEMMA QuietStepsKeepLoopInv ==
  ASSUME LoopInv, Tick \/ \E c \in Components : ReadComponent(c)
  PROVE  LoopInv'
<1> USE DEF storeVars, worldVars, historyVars
<1>1. TypesOK /\ OffersOK
  BY DEF LoopInv
<1>2. /\ UNCHANGED <<storeVars, work, image, registry, overtaken, fresh>>
      /\ now' \in 0 .. MaxTime
      /\ \A o \in updating' : o \in Observations /\ o.update /\ Offered(o)
  <2>1. ASSUME Tick
        PROVE  /\ UNCHANGED <<storeVars, updating, work, image, registry, overtaken, fresh>>
               /\ now' \in 0 .. MaxTime
    BY <1>1, <2>1, ControlPlaneBounds DEF Tick, TypesOK
  <2>2. ASSUME NEW c \in Components, ReadComponent(c)
        PROVE  /\ UNCHANGED <<storeVars, work, image, registry, now, overtaken, fresh>>
               /\ updating' = updating \cup {components[c]} /\ c \in DOMAIN components
               /\ components[c].update
    BY <2>2 DEF ReadComponent
  <2>3. now \in 0 .. MaxTime
    BY <1>1 DEF TypesOK
  <2>4. \A o \in updating : o \in Observations /\ o.update /\ Offered(o)
    BY <1>1 DEF TypesOK, OffersOK
  <2>5. \A c \in DOMAIN components : components[c] \in Observations /\ Offered(components[c])
    BY <1>1 DEF TypesOK, OffersOK
  <2>6. CASE Tick
    BY <2>1, <2>4, <2>6
  <2>7. CASE \E c \in Components : ReadComponent(c)
    <3>1. PICK c \in Components : ReadComponent(c)
      BY <2>7
    <3>2. \A o \in updating' : o \in updating \/ o = components[c]
      BY <2>2, <3>1
    <3>3. components[c] \in Observations /\ components[c].update /\ Offered(components[c])
      BY <2>2, <2>5, <3>1
    <3>4. \A o \in updating' : o \in Observations /\ o.update /\ Offered(o)
      BY <2>4, <3>2, <3>3
    <3> QED
      BY <2>2, <2>3, <3>1, <3>4
  <2> QED
    BY <2>6, <2>7
<1>3. TypesOK'
  BY <1>1, <1>2, WorkStepTypes DEF TypesOK, Has
<1>4. Grows
  BY <1>2 DEF Grows
<1> QED
  BY <1>2, <1>3, <1>4, WorkStep

LEMMA PushKeepsLoopInv ==
  ASSUME LoopInv, NEW c \in Components, NEW tag \in Published, NEW x \in Contents,
         Push(c, tag, x)
  PROVE  LoopInv'
<1> USE DEF storeVars, worldVars, historyVars
<1>1. TypesOK /\ OffersOK
  BY DEF LoopInv
<1> DEFINE pushed == [t \in DOMAIN registry[c] \cup {tag} |-> IF t = tag THEN x ELSE registry[c][t]]
<1>2. /\ UNCHANGED <<storeVars, updating, work, image, now, overtaken, fresh>>
      /\ registry' = [registry EXCEPT ![c] = pushed]
  BY DEF Push
<1>3. /\ registry = [d \in Components |-> registry[d]]
      /\ \A d \in Components :
           /\ DOMAIN registry[d] \subseteq Known(d) /\ Start[d].image \in DOMAIN registry[d]
           /\ \A t \in DOMAIN registry[d] : registry[d][t] \in Contents
  BY <1>1 DEF TypesOK, Has
<1>4. DOMAIN pushed = DOMAIN registry[c] \cup {tag} /\ \A t \in DOMAIN pushed : pushed[t] \in Contents
  BY <1>3
<1> HIDE DEF pushed
<1>5. /\ registry' = [d \in Components |-> registry'[d]]
      /\ \A d \in Components : registry'[d] = IF d = c THEN pushed ELSE registry[d]
  BY <1>2, <1>3
<1>6. tag \in Known(c)
  BY DEF Known
<1>7. \A d \in Components :
        /\ DOMAIN registry'[d] \subseteq Known(d) /\ Start[d].image \in DOMAIN registry'[d]
        /\ \A t \in DOMAIN registry'[d] : registry'[d][t] \in Contents
        /\ DOMAIN registry[d] \subseteq DOMAIN registry'[d]
  BY <1>3, <1>4, <1>5, <1>6
<1>8. TypesOK'
  BY <1>1, <1>2, <1>5, <1>7, WorkStepTypes DEF TypesOK
<1>9. Grows
  BY <1>7 DEF Grows
<1>10. \A o \in updating' : o \in Observations /\ o.update /\ Offered(o)
  BY <1>1, <1>2 DEF TypesOK, OffersOK
<1> QED
  BY <1>2, <1>8, <1>9, <1>10, WorkStep

-----------------------------------------------------------------------------
(* An inventory at work. *)

\* What an executing worker has.
LEMMA AtWork ==
  ASSUME LoopInv, NEW w \in Workers, Executes(w)
  PROVE  /\ work[w] \in Tasks /\ work[w] # None /\ TaskOK(work[w])
         /\ work[w].status = Running
         /\ w \notin overtaken /\ IsInventoryJob(work[w].signed.job) => ShowsCluster(work[w])
BY DEF LoopInv, TypesOK, OffersOK, InventoriesOK, Executes

LEMMA ListNamespaceKeepsLoopInv ==
  ASSUME LoopInv, NEW w \in Workers, ListNamespace(w)
  PROVE  LoopInv'
<1> DEFINE running == {c \in Components :
                         NamespaceOf[c] = Head(work[w].namespaces) /\ image[c] # None}
           items == {[id |-> c, tag |-> image[c].tag] : c \in running}
           pair == [id : Components, tag : Tags]
<1>1. PICK before : before = work[w]
  OBVIOUS
<1>2. /\ before \in Tasks /\ before # None /\ TaskOK(before) /\ before.status = Running
      /\ w \notin overtaken /\ IsInventoryJob(before.signed.job) => ShowsCluster(before)
  BY <1>1, AtWork DEF ListNamespace
<1>3. /\ before.listed = << >> /\ before.namespaces # << >>
      /\ UNCHANGED <<storeVars, updating, worldVars, historyVars>>
  BY <1>1 DEF ListNamespace
<1>4. image \in [Components -> [tag : Tags, content : Contents] \cup {None}]
  BY DEF LoopInv, TypesOK
<1>5. IsFiniteSet(items)
  <2>1. IsFiniteSet(running)
    BY NamesAssumption, FS_Subset
  <2>2. [c \in running |-> [id |-> c, tag |-> image[c].tag]] \in Surjection(running, items)
    BY DEF Surjection
  <2> QED
    BY <2>1, <2>2, FS_Surjection
<1>6. \A item \in items :
        /\ item \in pair /\ Has(item.id, item.tag)
        /\ image[item.id] # None /\ image[item.id].tag = item.tag
  <2>1. \A c \in running : image[c] \in [tag : Tags, content : Contents]
    BY <1>4
  <2>2. \A c \in running : Has(c, image[c].tag)
    BY DEF LoopInv, OffersOK
  <2> QED
    BY <2>1, <2>2
<1>7. PICK listed : listed = SetToSeq(items)
  OBVIOUS
<1>8. listed \in Seq(items) /\ \A item \in items : \E i \in DOMAIN listed : listed[i] = item
  <2>1. Upserts!IsFiniteSet(items)
    BY <1>5 DEF IsFiniteSet, Upserts!IsFiniteSet
  <2>2. listed = Upserts!SetToSeq(items)
    BY <1>7 DEF SetToSeq, Upserts!SetToSeq, IsInjective, Upserts!IsInjective,
                Cardinality, Upserts!Cardinality
  <2> HIDE DEF items
  <2> QED
    BY <2>1, <2>2, Upserts!SetToSeqIs
<1> DEFINE task == [before EXCEPT !.namespaces = Tail(@), !.listed = listed]
<1>9. /\ task.signed = before.signed /\ task.namespaces = Tail(before.namespaces)
      /\ task.listed = listed /\ task.latest = before.latest
      /\ task.seen = before.seen /\ task.status = before.status
      /\ work' = [work EXCEPT ![w] = task]
      /\ task \in Tasks
  <2>1. listed \in Seq(pair)
    <3> HIDE DEF items, pair
    <3> QED
      BY <1>6, <1>8
  <2>2. Tail(before.namespaces) \in Seq(Range(Namespaces))
    BY <1>2, <1>3, TaskFields
  <2>3. before \in Tasks
    BY <1>2
  <2>4. work' = [work EXCEPT ![w] = task]
    BY <1>1, <1>7 DEF ListNamespace
  <2> HIDE DEF items
  <2> QED
    BY <2>1, <2>2, <2>3, <2>4 DEF Tasks
<1> HIDE DEF task
<1>10. \A i \in DOMAIN listed : listed[i] \in items
  <2> HIDE DEF items
  <2> QED
    BY <1>8
<1>11. TaskOK(task)
  <2>1. task.latest = NoTag
    BY <1>2, <1>3, <1>9 DEF TaskOK
  <2> HIDE DEF items
  <2> QED
    BY <1>2, <1>6, <1>9, <1>10, <2>1 DEF TaskOK
<1>12. ASSUME w \notin overtaken, IsInventoryJob(before.signed.job)
       PROVE  ShowsCluster(task)
  <2>1. ShowsCluster(before)
    BY <1>2, <1>12
  <2>2. ASSUME NEW c \in Components, NEW tag \in Tags, Shows(task, c, tag)
        PROVE  image[c] # None /\ image[c].tag = tag
    <3>1. ASSUME NEW i \in DOMAIN listed, listed[i].id = c, listed[i].tag = tag
          PROVE  image[c] # None /\ image[c].tag = tag
      <4> HIDE DEF items
      <4> QED
        BY <1>6, <1>10, <3>1
    <3>2. ASSUME NEW i \in DOMAIN before.seen, before.seen[i].id = c,
                 before.seen[i].current = tag
          PROVE  image[c] # None /\ image[c].tag = tag
      BY <2>1, <3>2 DEF ShowsCluster, Shows
    <3> QED
      BY <1>9, <2>2, <3>1, <3>2 DEF Shows
  <2>3. ASSUME NEW c \in Components, image[c] # None,
               NamespaceOf[c] \notin Range(task.namespaces)
        PROVE  Shows(task, c, image[c].tag)
    <3>1. CASE NamespaceOf[c] \notin Range(before.namespaces)
      <4>1. Shows(before, c, image[c].tag)
        BY <2>1, <2>3, <3>1 DEF ShowsCluster
      <4> QED
        BY <1>3, <1>9, <4>1 DEF Shows
    <3>2. CASE NamespaceOf[c] \in Range(before.namespaces)
      <4>1. NamespaceOf[c] = Head(before.namespaces)
        <5>1. PICK n, names :
                /\ names = before.namespaces /\ names \in Seq(Range(Namespaces))
                /\ n \in DOMAIN names /\ names[n] = NamespaceOf[c]
          BY <1>2, <3>2, TaskFields DEF Range
        <5>2. NamespaceOf[c] \notin {Tail(names)[k] : k \in DOMAIN Tail(names)}
          BY <1>9, <2>3, <5>1 DEF Range
        <5>3. n # 1 => n - 1 \in DOMAIN Tail(names) /\ Tail(names)[n - 1] = names[n]
          BY <5>1
        <5> QED
          BY <5>1, <5>2, <5>3
      <4>2. [id |-> c, tag |-> image[c].tag] \in items
        BY <1>1, <2>3, <4>1
      <4> HIDE DEF items
      <4>3. PICK i \in DOMAIN listed : listed[i] = [id |-> c, tag |-> image[c].tag]
        BY <1>8, <4>2
      <4> QED
        BY <1>9, <4>3 DEF Shows
    <3> QED
      BY <3>1, <3>2
  <2> QED
    BY <2>2, <2>3 DEF ShowsCluster
<1>13. GoesOn(w, task)
  BY <1>1, <1>2, <1>9, <1>11, <1>12 DEF GoesOn, Running, Succeeded
<1> QED
  BY <1>3, <1>9, <1>13, TaskStep

\* The first container listed, of which a component is made.
LEMMA NextItem ==
  ASSUME LoopInv, NEW w \in Workers, Executes(w), work[w].listed # << >>
  PROVE  /\ Head(work[w].listed) \in [id : Components, tag : Tags]
         /\ Head(work[w].listed) = work[w].listed[1]
         /\ Has(work[w].listed[1].id, work[w].listed[1].tag)
<1>1. work[w] \in Tasks /\ TaskOK(work[w])
  BY AtWork
<1> DEFINE pair == [id : Components, tag : Tags]
<1>2. PICK listed : listed = work[w].listed
  OBVIOUS
<1>3. listed \in Seq(pair) /\ listed # << >>
  BY <1>1, <1>2, TaskFields
<1> HIDE DEF pair
<1>4. Head(listed) = listed[1] /\ listed[1] \in pair /\ 1 \in DOMAIN listed
  BY <1>3
<1>5. Has(listed[1].id, listed[1].tag)
  BY <1>1, <1>2, <1>4 DEF TaskOK
<1> QED
  BY <1>2, <1>4, <1>5 DEF pair

LEMMA SeenKeepsLoopInv ==
  ASSUME LoopInv, NEW w \in Workers, Executes(w), work[w].listed # << >>,
         NEW item, item = Head(work[w].listed),
         NEW latest \in {NoTag, work[w].latest}, NEW digest \in Contents \cup {None},
         digest # None => latest # NoTag /\ digest = registry[item.id][latest],
         Seen(w, Observed(item, latest, digest)),
         UNCHANGED <<storeVars, updating, worldVars, historyVars>>
  PROVE  LoopInv'
<1>1. PICK before, component :
        before = work[w] /\ component = Observed(item, latest, digest)
  OBVIOUS
<1>2. /\ before \in Tasks /\ before # None /\ TaskOK(before) /\ before.status = Running
      /\ w \notin overtaken /\ IsInventoryJob(before.signed.job) => ShowsCluster(before)
  BY <1>1, AtWork
<1>3. /\ item \in [id : Components, tag : Tags] /\ item = before.listed[1]
      /\ Has(item.id, item.tag)
  BY <1>1, NextItem
<1>4. latest \in Tags \cup {NoTag} /\ before.latest \in Tags \cup {NoTag}
  BY <1>1, <1>2, TaskFields
<1>5. component \in Observations
  BY <1>1, <1>3, <1>4, ObservedIs
<1>6. Offered(component)
  <2>1. latest # NoTag => /\ Has(item.id, latest)
                          /\ AllListed => latest = item.tag \/ Forward(item.tag, latest)
    BY <1>1, <1>2, <1>3 DEF TaskOK
  <2>2. TypesOK
    BY DEF LoopInv
  <2> QED
    BY <1>1, <1>3, <2>1, <2>2, ObservedIsOffered
<1>7. component.id = item.id /\ component.current = item.tag
  BY <1>1 DEF Observed
<1> DEFINE task == [before EXCEPT !.listed = Tail(@), !.latest = NoTag,
                                  !.seen = Append(@, component)]
           pair == [id : Components, tag : Tags]
<1>8. /\ task.signed = before.signed /\ task.namespaces = before.namespaces
      /\ task.listed = Tail(before.listed) /\ task.latest = NoTag
      /\ task.seen = Append(before.seen, component) /\ task.status = before.status
      /\ work' = [work EXCEPT ![w] = task]
  BY <1>1, <1>2 DEF Seen, Tasks
<1>9. /\ before.listed \in Seq(pair) /\ before.listed # << >>
      /\ before.seen \in Seq(Observations)
  BY <1>1, <1>2, TaskFields
<1> HIDE DEF pair
<1>10. /\ Tail(before.listed) \in Seq(pair)
       /\ DOMAIN before.listed = 1 .. Len(before.listed) /\ Len(before.listed) \in Nat
       /\ \A i \in DOMAIN Tail(before.listed) :
            i + 1 \in DOMAIN before.listed /\ Tail(before.listed)[i] = before.listed[i + 1]
       /\ \A i \in DOMAIN before.listed :
            i = 1 \/ /\ i - 1 \in DOMAIN Tail(before.listed)
                     /\ Tail(before.listed)[i - 1] = before.listed[i]
  BY <1>9
<1>11. /\ Append(before.seen, component) \in Seq(Observations)
       /\ \A i \in DOMAIN before.seen :
            /\ i \in DOMAIN Append(before.seen, component)
            /\ Append(before.seen, component)[i] = before.seen[i]
       /\ \A i \in DOMAIN Append(before.seen, component) :
            \/ i \in DOMAIN before.seen /\ Append(before.seen, component)[i] = before.seen[i]
            \/ Append(before.seen, component)[i] = component
       /\ \E i \in DOMAIN Append(before.seen, component) :
            Append(before.seen, component)[i] = component
  <2>1. PICK n \in Nat : n = Len(before.seen) /\ DOMAIN before.seen = 1 .. n
    BY <1>9
  <2>2. /\ Append(before.seen, component) \in Seq(Observations)
        /\ DOMAIN Append(before.seen, component) = 1 .. n + 1
        /\ \A i \in 1 .. n : Append(before.seen, component)[i] = before.seen[i]
        /\ Append(before.seen, component)[n + 1] = component
    BY <1>5, <1>9, <2>1
  <2>3. \A i \in 1 .. n + 1 : i \in 1 .. n \/ i = n + 1
    OBVIOUS
  <2> QED
    BY <2>1, <2>2, <2>3
<1>12. task \in Tasks
  BY <1>2, <1>10, <1>11 DEF Tasks, pair
<1> HIDE DEF task
<1>13. TaskOK(task)
  BY <1>2, <1>6, <1>8, <1>10, <1>11, SMTT(30) DEF TaskOK
<1>14. \A c, tag : Shows(task, c, tag) <=> Shows(before, c, tag)
  <2> SUFFICES ASSUME NEW c, NEW tag PROVE Shows(task, c, tag) <=> Shows(before, c, tag)
    OBVIOUS
  <2>1. Shows(task, c, tag) => Shows(before, c, tag)
    BY <1>3, <1>7, <1>8, <1>9, <1>10, <1>11, SMTT(30) DEF Shows
  <2>2. ASSUME NEW i \in DOMAIN before.seen, before.seen[i].id = c,
               before.seen[i].current = tag
        PROVE  Shows(task, c, tag)
    BY <1>8, <1>11, <2>2 DEF Shows
  <2>3. ASSUME NEW i \in DOMAIN before.listed, before.listed[i].id = c,
               before.listed[i].tag = tag
        PROVE  Shows(task, c, tag)
    <3>1. CASE i = 1
      BY <1>3, <1>7, <1>8, <1>11, <2>3, <3>1 DEF Shows
    <3>2. CASE i # 1
      <4>1. PICK k \in DOMAIN Tail(before.listed) : Tail(before.listed)[k] = before.listed[i]
        BY <1>10, <3>2
      <4> QED
        BY <1>8, <2>3, <4>1 DEF Shows
    <3> QED
      BY <3>1, <3>2
  <2> QED
    BY <2>1, <2>2, <2>3 DEF Shows
<1>15. ShowsCluster(before) => ShowsCluster(task)
  BY <1>8, <1>14 DEF ShowsCluster
<1>16. GoesOn(w, task)
  BY <1>1, <1>2, <1>8, <1>13, <1>15 DEF GoesOn, Running, Succeeded
<1> QED
  BY <1>8, <1>12, <1>16, TaskStep

LEMMA AskTagsKeepsLoopInv ==
  ASSUME LoopInv, NEW w \in Workers, AskTags(w)
  PROVE  LoopInv'
<1>1. PICK before, item : before = work[w] /\ item = Head(before.listed)
  OBVIOUS
<1>2. PICK latest : latest = LatestTag(ListedTags(item.id), item.tag)
  OBVIOUS
<1>3. /\ Executes(w) /\ before.listed # << >>
      /\ UNCHANGED <<storeVars, updating, worldVars, historyVars>>
      /\ \/ work' = [work EXCEPT ![w].latest = latest]
         \/ Seen(w, Observed(item, NoTag, None))
  BY <1>1, <1>2 DEF AskTags
<1>4. /\ before \in Tasks /\ before # None /\ TaskOK(before) /\ before.status = Running
      /\ w \notin overtaken /\ IsInventoryJob(before.signed.job) => ShowsCluster(before)
  BY <1>1, <1>3, AtWork
<1>5. /\ item \in [id : Components, tag : Tags] /\ item = before.listed[1]
      /\ Has(item.id, item.tag)
  BY <1>1, <1>3, NextItem
<1>6. ASSUME work' = [work EXCEPT ![w].latest = latest] PROVE LoopInv'
  <2>1. PICK c, tags : c \in Components /\ c = item.id /\ tags = ListedTags(c)
    BY <1>5
  <2>2. /\ IsFiniteSet(tags) /\ tags # {} /\ tags \subseteq DOMAIN registry[c]
        /\ AllListed => tags = DOMAIN registry[c]
    <3>1. TypesOK
      BY DEF LoopInv
    <3> QED
      BY <2>1, <3>1, ListedTagsAre
  <2>3. DOMAIN registry[c] \subseteq Known(c)
    BY <2>1 DEF LoopInv, TypesOK
  <2>4. /\ tags \subseteq AnyTag \ {NoTag}
        /\ \A t, o \in tags : t.raw = o.raw => t = o
    BY <2>1, <2>2, <2>3, KnownTags
  <2>5. latest \in tags \cup {item.tag}
    BY <1>2, <2>1, <2>2, <2>4, LatestIsListed
  <2>6. Has(item.id, latest) /\ latest \in Tags
    <3>1. item.tag \in DOMAIN registry[c]
      BY <1>5, <2>1 DEF Has
    <3> QED
      BY <2>1, <2>2, <2>3, <2>5, <3>1, KnownTags DEF Has
  <2>7. AllListed => latest = item.tag \/ Forward(item.tag, latest)
    <3> SUFFICES ASSUME AllListed PROVE latest = item.tag \/ Forward(item.tag, latest)
      OBVIOUS
    <3>1. item.tag \in tags
      BY <1>5, <2>1, <2>2 DEF Has
    <3> QED
      BY <1>2, <2>1, <2>2, <2>4, <3>1, LatestIsForward
  <2> DEFINE task == [before EXCEPT !.latest = latest]
  <2>8. /\ task.signed = before.signed /\ task.namespaces = before.namespaces
        /\ task.listed = before.listed /\ task.latest = latest
        /\ task.seen = before.seen /\ task.status = before.status
        /\ work' = [work EXCEPT ![w] = task]
        /\ task \in Tasks
    BY <1>1, <1>4, <1>6, <2>6 DEF Tasks
  <2> HIDE DEF task
  <2>9. TaskOK(task)
    BY <1>3, <1>4, <1>5, <2>6, <2>7, <2>8 DEF TaskOK
  <2>10. ShowsCluster(before) => ShowsCluster(task)
    BY <2>8 DEF ShowsCluster, Shows
  <2>11. GoesOn(w, task)
    BY <1>1, <1>4, <2>8, <2>9, <2>10 DEF GoesOn, Running, Succeeded
  <2> QED
    BY <1>3, <2>8, <2>11, TaskStep
<1>7. ASSUME Seen(w, Observed(item, NoTag, None)) PROVE LoopInv'
  <2>1. NoTag \in {NoTag, work[w].latest} /\ None \in Contents \cup {None}
    OBVIOUS
  <2> QED
    BY <1>1, <1>3, <1>7, <2>1, SeenKeepsLoopInv
<1> QED
  BY <1>3, <1>6, <1>7

LEMMA AskDigestKeepsLoopInv ==
  ASSUME LoopInv, NEW w \in Workers, AskDigest(w)
  PROVE  LoopInv'
<1>1. PICK item, latest : item = Head(work[w].listed) /\ latest = work[w].latest
  OBVIOUS
<1>2. /\ Executes(w) /\ work[w].listed # << >> /\ latest # NoTag
      /\ UNCHANGED <<storeVars, updating, worldVars, historyVars>>
      /\ \/ Seen(w, Observed(item, latest, registry[item.id][latest]))
         \/ Seen(w, Observed(item, latest, None))
  BY <1>1 DEF AskDigest
<1>3. Has(item.id, latest) /\ item.id \in Components
  BY <1>1, <1>2, AtWork, NextItem DEF TaskOK
<1>4. registry[item.id][latest] \in Contents
  BY <1>3 DEF LoopInv, TypesOK, Has
<1>5. latest \in {NoTag, work[w].latest}
  BY <1>1
<1>6. ASSUME NEW digest \in Contents \cup {None}, Seen(w, Observed(item, latest, digest)),
             digest # None => digest = registry[item.id][latest]
      PROVE  LoopInv'
  BY <1>1, <1>2, <1>5, <1>6, SeenKeepsLoopInv
<1>7. None \in Contents \cup {None}
  OBVIOUS
<1>8. registry[item.id][latest] \in Contents \cup {None}
  BY <1>4
<1> QED
  BY <1>2, <1>6, <1>7, <1>8

LEMMA EndsKeepLoopInv ==
  ASSUME LoopInv, NEW w \in Workers, EndInventory(w) \/ ExecutorFails(w) \/ Lose(w)
  PROVE  LoopInv'
<1>1. ASSUME NEW status \in {Succeeded, Failed}, Executes(w), Ends(w, status),
             UNCHANGED <<storeVars, updating, worldVars, historyVars>>,
             status = Succeeded => work[w].listed = << >> /\ work[w].namespaces = << >>
      PROVE  LoopInv'
  <2>1. PICK before : before = work[w]
    OBVIOUS
  <2>2. /\ before \in Tasks /\ before # None /\ TaskOK(before)
        /\ w \notin overtaken /\ IsInventoryJob(before.signed.job) => ShowsCluster(before)
    BY <1>1, <2>1, AtWork
  <2> DEFINE task == [before EXCEPT !.status = status]
  <2>3. /\ task.signed = before.signed /\ task.namespaces = before.namespaces
        /\ task.listed = before.listed /\ task.latest = before.latest
        /\ task.seen = before.seen /\ task.status = status
        /\ work' = [work EXCEPT ![w] = task]
        /\ task \in Tasks
    BY <1>1, <2>1, <2>2 DEF Ends, Tasks
  <2> HIDE DEF task
  <2>4. TaskOK(task)
    BY <2>2, <2>3 DEF TaskOK
  <2>5. ShowsCluster(before) => ShowsCluster(task)
    BY <2>3 DEF ShowsCluster, Shows
  <2>6. GoesOn(w, task)
    BY <1>1, <2>1, <2>2, <2>3, <2>4, <2>5 DEF GoesOn
  <2> QED
    BY <1>1, <2>3, <2>6, TaskStep
<1>2. CASE EndInventory(w)
  BY <1>1, <1>2 DEF EndInventory
<1>3. CASE ExecutorFails(w)
  BY <1>1, <1>3 DEF ExecutorFails, Failed, Succeeded
<1>4. CASE Lose(w)
  <2>1. None \in Tasks \cup {None} /\ work' = [work EXCEPT ![w] = None]
    BY <1>4 DEF Lose
  <2>2. UNCHANGED <<storeVars, updating, worldVars, historyVars>>
    BY <1>4 DEF Lose
  <2> QED
    BY <2>1, <2>2, TaskStep
<1> QED
  BY <1>2, <1>3, <1>4

-----------------------------------------------------------------------------
(* The cluster changes, or the control plane forgets: no inventory that has begun *)
(* shows the cluster as it is.                                                    *)

LEMMA ChangeStep ==
  ASSUME TypesOK', OffersOK', CustodyOK', fresh' = FALSE,
         \A w \in Workers : work'[w] # None => w \in overtaken'
  PROVE  LoopInv'
BY DEF LoopInv, InventoriesOK, FreshTableIsTrue

LEMMA DeleteKeepsLoopInv ==
  ASSUME LoopInv, NEW c \in Components, Delete(c)
  PROVE  LoopInv'
<1> USE DEF storeVars
<1>1. /\ UNCHANGED <<storeVars, updating, work, registry, now>>
      /\ image' = [image EXCEPT ![c] = None] /\ ClusterChanges
  BY DEF Delete
<1>2. /\ TypesOK /\ OffersOK /\ CustodyOK
      /\ image \in [Components -> [tag : Tags, content : Contents] \cup {None}]
  BY DEF LoopInv, TypesOK
<1>3. /\ image' \in [Components -> [tag : Tags, content : Contents] \cup {None}]
      /\ \A d \in Components : image'[d] # None => image'[d] = image[d] /\ image[d] # None
  BY <1>1, <1>2
<1>4. TypesOK'
  <2>1. claimed' = [id \in S!JobIDs |-> claimed'[id]]
    BY <1>1, <1>2 DEF TypesOK
  <2> QED
    BY <1>1, <1>2, <1>3, <2>1 DEF TypesOK, Has
<1>5. OffersOK'
  BY <1>1, <1>2, <1>3 DEF OffersOK, Offered, JobOK, TaskOK, Has
<1>6. CustodyOK'
  BY <1>1, <1>2 DEF CustodyOK
<1> QED
  BY <1>1, <1>4, <1>5, <1>6, ChangeStep DEF ClusterChanges

LEMMA SetImageKeepsLoopInv ==
  ASSUME LoopInv, NEW w \in Workers, SetImage(w)
  PROVE  LoopInv'
<1> USE DEF storeVars
<1>1. PICK before, job : before = work[w] /\ job = before.signed.job
  OBVIOUS
<1>2. PICK set : set = [tag |-> job.image, content |-> registry[job.plan.app][job.image]]
  OBVIOUS
<1>3. /\ UNCHANGED <<storeVars, updating, registry, now>>
      /\ Executes(w) /\ ~ IsInventoryJob(job)
      /\ image' = [image EXCEPT ![job.plan.app] = set]
      /\ ClusterChanges
  BY <1>1, <1>2 DEF SetImage
<1>20. PICK status \in {Succeeded, Failed} : work' = [work EXCEPT ![w].status = status]
  BY DEF SetImage, Ends
<1>4. /\ TypesOK /\ OffersOK /\ CustodyOK
      /\ before \in Tasks /\ before # None /\ TaskOK(before)
  BY <1>1, <1>3, AtWork DEF LoopInv
<1>5. job.plan.app \in Components /\ Has(job.plan.app, job.image)
  <2>1. before.signed.enq \in DOMAIN submitted /\ submitted[before.signed.enq] = before.signed
    BY <1>1, <1>4 DEF CustodyOK
  <2>2. JobOK(job)
    BY <1>1, <1>4, <2>1 DEF OffersOK
  <2> QED
    BY <1>3, <2>2 DEF JobOK
<1>6. /\ set \in [tag : Tags, content : Contents] /\ set.tag = job.image
  <2>1. PICK c \in Components : c = job.plan.app
    BY <1>5
  <2>2. /\ DOMAIN registry[c] \subseteq Known(c)
        /\ registry[c][job.image] \in Contents /\ job.image \in DOMAIN registry[c]
    BY <1>4, <1>5, <2>1 DEF TypesOK, Has
  <2> QED
    BY <1>2, <2>1, <2>2, KnownTags
<1>7. /\ image' \in [Components -> [tag : Tags, content : Contents] \cup {None}]
      /\ \A c \in Components : image'[c] # None => Has(c, image'[c].tag)
  <2>1. image \in [Components -> [tag : Tags, content : Contents] \cup {None}]
    BY <1>4 DEF TypesOK
  <2>2. /\ image' \in [Components -> [tag : Tags, content : Contents] \cup {None}]
        /\ \A c \in Components : image'[c] = IF c = job.plan.app THEN set ELSE image[c]
    BY <1>3, <1>6, <2>1
  <2>3. \A c \in Components : image[c] # None => Has(c, image[c].tag)
    BY <1>4 DEF OffersOK
  <2> QED
    BY <1>5, <1>6, <2>2, <2>3
<1> DEFINE task == [before EXCEPT !.status = status]
<1>8. /\ task.signed = before.signed /\ task.listed = before.listed
      /\ task.latest = before.latest /\ task.seen = before.seen
      /\ work' = [work EXCEPT ![w] = task]
      /\ task \in Tasks
  BY <1>1, <1>20, <1>4 DEF Tasks
<1> HIDE DEF task
<1>9. /\ work' \in [Workers -> Tasks \cup {None}]
      /\ \A v \in Workers : work'[v] = IF v = w THEN task ELSE work[v]
  BY <1>4, <1>8 DEF TypesOK
<1>10. TypesOK'
  <2>1. claimed' = [id \in S!JobIDs |-> claimed'[id]]
    BY <1>3, <1>4 DEF TypesOK
  <2> QED
    BY <1>3, <1>4, <1>7, <1>9, <2>1 DEF TypesOK, Has
<1>11. OffersOK'
  <2>1. TaskOK(task)
    BY <1>4, <1>8 DEF TaskOK
  <2>2. \A v \in Workers : work'[v] # None => \E t : t = work'[v] /\ TaskOK(t)
    BY <1>4, <1>9, <2>1 DEF OffersOK
  <2>3. \A v \in Workers : work'[v] # None => TaskOK(work[v])'
    BY <1>3, <2>2 DEF TaskOK, Offered, Has
  <2>4. /\ \A o \in updating' : o.update /\ Offered(o)'
        /\ \A id \in DOMAIN components : Offered(components[id])'
        /\ \A e \in DOMAIN submitted : JobOK(submitted[e].job)'
    BY <1>3, <1>4 DEF OffersOK, Offered, JobOK, Has
  <2>5. (\A c \in Components : image[c] # None => Has(c, image[c].tag))'
    BY <1>3, <1>7 DEF Has
  <2> QED
    BY <1>3, <2>3, <2>4, <2>5 DEF OffersOK
<1>12. CustodyOK'
  <2>1. \A v \in Workers : work'[v] # None =>
          work[v] # None /\ work'[v].signed = work[v].signed
    BY <1>1, <1>4, <1>8, <1>9
  <2> QED
    BY <1>3, <1>4, <2>1 DEF CustodyOK
<1>13. \A v \in Workers : work'[v] # None => v \in overtaken'
  BY <1>1, <1>3, <1>4, <1>9 DEF ClusterChanges
<1> QED
  BY <1>3, <1>10, <1>11, <1>12, <1>13, ChangeStep DEF ClusterChanges

LEMMA RestartKeepsLoopInv ==
  ASSUME LoopInv, Restart
  PROVE  LoopInv'
<1> USE DEF worldVars
<1>1. /\ pending' = << >> /\ claimed' = [id \in S!JobIDs |-> None]
      /\ components' = << >> /\ updating' = {}
      /\ overtaken' = {w \in Workers : work[w] # None} /\ fresh' = FALSE
      /\ UNCHANGED <<submitted, work, image, registry, now>>
  BY DEF Restart
<1>2. TypesOK /\ OffersOK /\ CustodyOK
  BY DEF LoopInv
<1>3. TypesOK'
  <2>1. claimed' = [id \in S!JobIDs |-> claimed'[id]]
    BY <1>1
  <2>2. DOMAIN components' = {}
    BY <1>1
  <2> QED
    BY <1>1, <1>2, <2>1, <2>2 DEF TypesOK, Has
<1>4. OffersOK'
  <2>1. DOMAIN components' = {}
    BY <1>1
  <2> QED
    BY <1>1, <1>2, <2>1 DEF OffersOK, Offered, JobOK, TaskOK, Has
<1>5. CustodyOK'
  <2>1. DOMAIN pending' = {}
    BY <1>1
  <2> QED
    BY <1>1, <1>2, <2>1 DEF CustodyOK
<1> QED
  BY <1>1, <1>3, <1>4, <1>5, ChangeStep

-----------------------------------------------------------------------------
(* A job is submitted. *)

\* What a submission that is kept tells of OneInventoryASecond.
LEMMA InventoriesKept ==
  ASSUME DOMAIN submitted \subseteq DOMAIN submitted',
         \A e \in DOMAIN submitted : submitted'[e] = submitted[e],
         OneInventoryASecond'
  PROVE  OneInventoryASecond
BY DEF OneInventoryASecond, Inventories

LEMMA AppendIs ==
  ASSUME NEW T, NEW s \in Seq(T), NEW x \in T
  PROVE  /\ Append(s, x) \in Seq(T) /\ Len(Append(s, x)) = Len(s) + 1
         /\ DOMAIN s = 1 .. Len(s) /\ Len(s) \in Nat
         /\ DOMAIN Append(s, x) = DOMAIN s \cup {Len(s) + 1}
         /\ Len(s) + 1 \notin DOMAIN s
         /\ \A i \in DOMAIN s : Append(s, x)[i] = s[i]
         /\ Append(s, x)[Len(s) + 1] = x
OBVIOUS

LEMMA EnqueueKeepsLoopInv ==
  ASSUME LoopInv, NEW job \in Jobs, JobOK(job), S!Enqueue(job, Key),
         updating' \subseteq updating,
         UNCHANGED <<work, worldVars, historyVars>>
  PROVE  LoopInv'
<1> USE DEF worldVars, historyVars
<1>1. PICK n, signed : n = Len(submitted) + 1 /\ signed = [job |-> job, key |-> Key, enq |-> n]
  OBVIOUS
<1>2. /\ TypesOK /\ OffersOK /\ CustodyOK /\ InventoriesOK /\ FreshTableIsTrue
      /\ pending \in Seq(Envelope) /\ submitted \in Seq(Envelope)
  BY DEF LoopInv, TypesOK
<1>3. /\ Len(submitted) < MaxSubmitted
      /\ pending' = Append(pending, signed) /\ submitted' = Append(submitted, signed)
      /\ UNCHANGED <<claimed, components>>
  BY <1>1 DEF S!Enqueue
<1>4. signed \in Envelope /\ signed.job = job /\ signed.enq = n
  <2>1. n \in Nat
    BY <1>1, <1>2
  <2> QED
    BY <1>1, <2>1 DEF Envelope
<1>5. /\ submitted' \in Seq(Envelope) /\ Len(submitted') = n
      /\ DOMAIN submitted' = DOMAIN submitted \cup {n} /\ n \notin DOMAIN submitted
      /\ \A e \in DOMAIN submitted : submitted'[e] = submitted[e]
      /\ submitted'[n] = signed
      /\ Len(submitted) \in Nat
  BY <1>1, <1>2, <1>3, <1>4, AppendIs
<1>6. PICK last : last = Len(pending) + 1
  OBVIOUS
<1>7. /\ pending' \in Seq(Envelope)
      /\ DOMAIN pending' = DOMAIN pending \cup {last} /\ last \notin DOMAIN pending
      /\ \A i \in DOMAIN pending : pending'[i] = pending[i]
      /\ pending'[last] = signed
  BY <1>2, <1>3, <1>4, <1>6, AppendIs
<1>8. TypesOK'
  <2>1. Len(submitted') <= MaxSubmitted
    BY <1>1, <1>3, <1>5, ControlPlaneBounds
  <2>2. claimed' = [id \in S!JobIDs |-> claimed'[id]]
    BY <1>2, <1>3 DEF TypesOK
  <2> QED
    BY <1>2, <1>3, <1>5, <1>7, <2>1, <2>2 DEF TypesOK, Has
<1>9. OffersOK'
  <2>1. \A e \in DOMAIN submitted' : \E j : j = submitted'[e].job /\ JobOK(j)
    BY <1>2, <1>4, <1>5 DEF OffersOK
  <2>2. (\A e \in DOMAIN submitted : JobOK(submitted[e].job))'
    BY <2>1 DEF JobOK, Has
  <2> QED
    BY <1>2, <1>3, <2>2 DEF OffersOK, Offered, TaskOK, Has
<1>10. CustodyOK'
  <2>1. /\ \A e \in DOMAIN submitted : submitted[e].enq = e
        /\ \A i \in DOMAIN pending :
             pending[i].enq \in DOMAIN submitted /\ submitted[pending[i].enq] = pending[i]
        /\ \A i, j \in DOMAIN pending : pending[i].enq = pending[j].enq => i = j
        /\ \A w \in Workers : work[w] # None =>
             /\ work[w].signed.enq \in DOMAIN submitted
             /\ submitted[work[w].signed.enq] = work[w].signed
             /\ \A i \in DOMAIN pending : pending[i].enq # work[w].signed.enq
        /\ \A v, w \in Workers : work[v] # None /\ work[w] # None =>
             (work[v].signed.enq = work[w].signed.enq => v = w)
    BY <1>2 DEF CustodyOK
  <2>2. \A e \in DOMAIN submitted' : submitted'[e].enq = e
    BY <1>4, <1>5, <2>1
  <2>3. \A i \in DOMAIN pending' :
          pending'[i].enq \in DOMAIN submitted' /\ submitted'[pending'[i].enq] = pending'[i]
    BY <1>4, <1>5, <1>7, <2>1
  <2>4. \A i, j \in DOMAIN pending' : pending'[i].enq = pending'[j].enq => i = j
    BY <1>4, <1>5, <1>7, <2>1
  <2>5. \A w \in Workers : work[w] # None =>
             /\ work[w].signed.enq \in DOMAIN submitted'
             /\ submitted'[work[w].signed.enq] = work[w].signed
             /\ \A i \in DOMAIN pending' : pending'[i].enq # work[w].signed.enq
    BY <1>4, <1>5, <1>7, <2>1
  <2> QED
    BY <2>1, <2>2, <2>3, <2>4, <2>5 DEF CustodyOK
<1>11. OneInventoryASecond' => OneInventoryASecond
  BY <1>5, InventoriesKept
<1>12. InventoriesOK'
  <2>1. \A w \in Workers :
          work[w] # None /\ w \notin overtaken /\ IsInventoryJob(work[w].signed.job) =>
            ShowsCluster(work[w])'
    BY <1>2 DEF InventoriesOK, ShowsCluster, Shows
  <2> QED
    BY <1>2, <1>3, <1>11, <2>1 DEF InventoriesOK
<1>13. FreshTableIsTrue'
  BY <1>2, <1>3, <1>11 DEF FreshTableIsTrue, TableIsTrue
<1> QED
  BY <1>8, <1>9, <1>10, <1>12, <1>13 DEF LoopInv

LEMMA SubmissionsKeepLoopInv ==
  ASSUME LoopInv, RequestInventory \/ EnqueueUpdate
  PROVE  LoopInv'
<1>1. TypesOK /\ OffersOK /\ now \in 0 .. MaxTime
  BY DEF LoopInv, TypesOK
<1>2. CASE RequestInventory
  <2>1. InventoryJob(now) \in Jobs /\ JobOK(InventoryJob(now))
    <3>1. IsInventoryJob(InventoryJob(now))
      BY DEF InventoryJob, IsInventoryJob
    <3> QED
      BY <1>1, <3>1 DEF Jobs, JobOK
  <2> QED
    BY <1>2, <2>1, EnqueueKeepsLoopInv DEF RequestInventory
<1>3. CASE EnqueueUpdate
  <2>1. PICK o \in Observations : /\ o.update /\ Offered(o)
                                 /\ S!Enqueue(UpdateJob(o, now), Key)
                                 /\ updating' \subseteq updating
    BY <1>1, <1>3 DEF TypesOK, OffersOK, EnqueueUpdate
  <2>2. UpdateJob(o, now) \in Jobs
    BY <1>1 DEF Jobs
  <2>3. JobOK(UpdateJob(o, now))
    <3>1. PICK job : job = UpdateJob(o, now)
      OBVIOUS
    <3>2. job.plan.app = o.id /\ job.image = o.latest /\ job.from = o.current
      BY <3>1 DEF UpdateJob
    <3>3. o.id \in Components
      BY DEF Observations
    <3> QED
      BY <2>1, <3>1, <3>2, <3>3 DEF JobOK, Offered
  <2> QED
    BY <1>3, <2>1, <2>2, <2>3, EnqueueKeepsLoopInv DEF EnqueueUpdate
<1> QED
  BY <1>2, <1>3

-----------------------------------------------------------------------------
(* A worker takes a job. *)

\* Two inventories at work with one ID are one.
LEMMA InventoryAlone ==
  ASSUME TypesOK, CustodyOK, OneInventoryASecond,
         NEW v \in Workers, work[v] # None, IsInventoryJob(work[v].signed.job),
         NEW e \in DOMAIN submitted, submitted[e].job.id = work[v].signed.job.id
  PROVE  e = work[v].signed.enq
<1>1. PICK f, signed : f = signed.enq /\ signed = work[v].signed
  OBVIOUS
<1>2. f \in DOMAIN submitted /\ submitted[f] = signed
  BY <1>1 DEF CustodyOK
<1>3. submitted[e] \in Envelope /\ submitted[f] \in Envelope
  BY <1>2 DEF TypesOK
<1>4. submitted[e].job \in Jobs /\ submitted[f].job \in Jobs
  BY <1>3 DEF Envelope
<1>5. IsInventoryJob(submitted[e].job) /\ IsInventoryJob(submitted[f].job)
  BY <1>1, <1>2, <1>4, InventoryIs
<1> QED
  BY <1>1, <1>2, <1>5 DEF OneInventoryASecond, Inventories

LEMMA TakeKeepsLoopInv ==
  ASSUME LoopInv, NEW w \in Workers, Take(w)
  PROVE  LoopInv'
<1> USE DEF worldVars
<1>1. /\ TypesOK /\ OffersOK /\ CustodyOK /\ InventoriesOK /\ FreshTableIsTrue
      /\ pending \in Seq(Envelope) /\ submitted \in Seq(Envelope)
      /\ work \in [Workers -> Tasks \cup {None}]
      /\ claimed = [id \in S!JobIDs |-> claimed[id]]
  BY DEF LoopInv, TypesOK
<1>2. PICK i \in DOMAIN pending :
        /\ S!Claim(Info, i)
        /\ work' = [work EXCEPT ![w] =
             [signed |-> pending[i], namespaces |-> Namespaces,
              listed |-> << >>, latest |-> NoTag, seen |-> << >>,
              status |-> IF Authentic(pending[i], Key, now) THEN Running ELSE Denied]]
  BY DEF Take
<1>3. PICK signed, job : signed = pending[i] /\ job = signed.job
  OBVIOUS
<1>4. /\ UNCHANGED <<submitted, components, updating, image, registry, now, fresh>>
      /\ work[w] = None /\ overtaken' = overtaken \ {w}
      /\ claimed' = [claimed EXCEPT ![job.id] = job]
      /\ pending' = Upserts!RemoveAt(pending, i)
  BY <1>2, <1>3 DEF Take, S!Claim, S!RemoveAt, Upserts!RemoveAt
<1>5. signed \in Envelope /\ job \in Jobs
  <2>1. signed \in Envelope
    BY <1>1, <1>3
  <2> QED
    BY <1>3, <2>1 DEF Envelope
<1> DEFINE from(j) == IF j < i THEN j ELSE j + 1
<1>6. /\ pending' \in Seq(Envelope)
      /\ \A j \in DOMAIN pending' :
           from(j) \in DOMAIN pending /\ from(j) # i /\ pending'[j] = pending[from(j)]
      /\ \A j, k \in DOMAIN pending' : from(j) = from(k) => j = k
  <2>1. i \in 1 .. Len(pending) /\ DOMAIN pending = 1 .. Len(pending) /\ Len(pending) \in Nat
    BY <1>1
  <2>2. /\ pending' \in Seq(Envelope) /\ Len(pending') = Len(pending) - 1
        /\ \A j \in 1 .. Len(pending) - 1 :
             pending'[j] = IF j < i THEN pending[j] ELSE pending[j + 1]
    BY <1>1, <1>4, <2>1, Upserts!RemoveAtIs
  <2>3. DOMAIN pending' = 1 .. Len(pending) - 1
    BY <2>2
  <2> QED
    BY <2>1, <2>2, <2>3, SMTT(30)
<1> HIDE DEF from
<1>7. PICK task : task = [signed |-> signed, namespaces |-> Namespaces,
              listed |-> << >>, latest |-> NoTag, seen |-> << >>,
              status |-> IF Authentic(signed, Key, now) THEN Running ELSE Denied]
  OBVIOUS
<1>8. /\ task.signed = signed /\ task.namespaces = Namespaces /\ task.listed = << >>
      /\ task.latest = NoTag /\ task.seen = << >> /\ task.status \in {Running, Denied}
      /\ task \in Tasks
  <2>1. PICK status \in {Running, Denied} :
          task = [signed |-> signed, namespaces |-> Namespaces, listed |-> << >>,
                  latest |-> NoTag, seen |-> << >>, status |-> status]
    BY <1>7
  <2>2. << >> \in Seq([id : Components, tag : Tags]) /\ << >> \in Seq(Observations)
    OBVIOUS
  <2> QED
    BY <1>5, <2>1, <2>2, NamesAssumption DEF Tasks
<1>9. /\ work' \in [Workers -> Tasks \cup {None}]
      /\ \A v \in Workers : work'[v] = IF v = w THEN task ELSE work[v]
  BY <1>1, <1>2, <1>3, <1>7, <1>8
<1>10. TypesOK'
  <2>1. claimed' = [id \in S!JobIDs |-> claimed'[id]]
    BY <1>1, <1>4
  <2> QED
    BY <1>1, <1>4, <1>6, <1>9, <2>1 DEF TypesOK, Has
<1>11. OffersOK'
  <2>1. TaskOK(task)
    BY <1>8 DEF TaskOK
  <2>2. \A v \in Workers : work'[v] # None => \E t : t = work'[v] /\ TaskOK(t)
    BY <1>1, <1>9, <2>1 DEF OffersOK
  <2>3. \A v \in Workers : work'[v] # None => TaskOK(work[v])'
    BY <1>4, <2>2 DEF TaskOK, Offered, Has
  <2> QED
    BY <1>1, <1>4, <2>3 DEF OffersOK, Offered, JobOK, Has
<1>12. CustodyOK'
  <2>1. /\ \A e \in DOMAIN submitted : submitted[e].enq = e
        /\ \A j \in DOMAIN pending :
             pending[j].enq \in DOMAIN submitted /\ submitted[pending[j].enq] = pending[j]
        /\ \A j, k \in DOMAIN pending : pending[j].enq = pending[k].enq => j = k
        /\ \A v \in Workers : work[v] # None =>
             /\ work[v].signed.enq \in DOMAIN submitted
             /\ submitted[work[v].signed.enq] = work[v].signed
             /\ \A j \in DOMAIN pending : pending[j].enq # work[v].signed.enq
        /\ \A v, u \in Workers : work[v] # None /\ work[u] # None =>
             (work[v].signed.enq = work[u].signed.enq => v = u)
    BY <1>1 DEF CustodyOK
  <2>2. \A j \in DOMAIN pending' :
             /\ pending'[j].enq \in DOMAIN submitted
             /\ submitted[pending'[j].enq] = pending'[j]
             /\ pending'[j].enq # signed.enq
    BY <1>3, <1>6, <2>1
  <2>3. \A j, k \in DOMAIN pending' : pending'[j].enq = pending'[k].enq => j = k
    BY <1>6, <2>1
  <2>4. \A v \in Workers : work'[v] # None =>
             /\ work'[v].signed.enq \in DOMAIN submitted
             /\ submitted[work'[v].signed.enq] = work'[v].signed
             /\ \A j \in DOMAIN pending' : pending'[j].enq # work'[v].signed.enq
    BY <1>3, <1>6, <1>8, <1>9, <2>1, <2>2
  <2>5. \A v, u \in Workers : work'[v] # None /\ work'[u] # None =>
             (work'[v].signed.enq = work'[u].signed.enq => v = u)
    BY <1>3, <1>8, <1>9, <2>1
  <2> QED
    BY <1>4, <2>1, <2>2, <2>3, <2>4, <2>5 DEF CustodyOK
<1>13. OneInventoryASecond' => OneInventoryASecond
  BY <1>4, InventoriesKept
<1>14. InventoriesOK'
  <2> SUFFICES ASSUME NEW v \in Workers, work'[v] # None, v \notin overtaken',
                      IsInventoryJob(work'[v].signed.job)
               PROVE  /\ ShowsCluster(work[v])'
                      /\ work'[v].status = Succeeded =>
                           work'[v].listed = << >> /\ work'[v].namespaces = << >>
                      /\ OneInventoryASecond' =>
                           claimed'[work'[v].signed.job.id] = work'[v].signed.job
    BY DEF InventoriesOK
  <2>1. CASE v = w
    <3>1. work'[v] = task /\ IsInventoryJob(job)
      BY <1>3, <1>8, <1>9, <2>1
    <3>2. ShowsCluster(work[v])'
      <4>1. DOMAIN task.seen = {} /\ DOMAIN task.listed = {}
        BY <1>8
      <4> QED
        BY <1>8, <3>1, <4>1, NamesAssumption DEF ShowsCluster, Shows
    <3>3. task.status # Succeeded
      BY <1>8 DEF Running, Denied, Succeeded
    <3>4. claimed'[job.id] = job
      BY <1>1, <1>4, <1>5, <3>1, InventoryIs
    <3> QED
      BY <1>3, <1>8, <3>1, <3>2, <3>3, <3>4
  <2>2. CASE v # w
    <3>1. /\ work'[v] = work[v] /\ work[v] # None /\ v \notin overtaken
          /\ IsInventoryJob(work[v].signed.job)
      BY <1>4, <1>9, <2>2
    <3>2. ShowsCluster(work[v]) /\ (OneInventoryASecond =>
            claimed[work[v].signed.job.id] = work[v].signed.job)
      BY <1>1, <3>1 DEF InventoriesOK
    <3>3. ShowsCluster(work[v])'
      BY <1>4, <3>1, <3>2 DEF ShowsCluster, Shows
    <3>4. ASSUME OneInventoryASecond PROVE work[v].signed.job.id # job.id
      <4>1. /\ signed.enq \in DOMAIN submitted /\ submitted[signed.enq].job = job
            /\ signed.enq # work[v].signed.enq
        BY <1>1, <1>3, <3>1 DEF CustodyOK
      <4> QED
        BY <1>1, <3>1, <3>4, <4>1, InventoryAlone
    <3>5. OneInventoryASecond => claimed'[work[v].signed.job.id] = work[v].signed.job
      <4>1. work[v].signed.job \in Jobs
        BY <1>1, <3>1, TaskFields
      <4>2. work[v].signed.job.id \in S!JobIDs
        BY <3>1, <4>1, InventoryIs
      <4> QED
        BY <1>1, <1>4, <3>2, <3>4, <4>2
    <3>6. work[v].status = Succeeded => work[v].listed = << >> /\ work[v].namespaces = << >>
      BY <1>1, <3>1 DEF InventoriesOK
    <3> QED
      BY <1>13, <3>1, <3>3, <3>5, <3>6
  <2> QED
    BY <2>1, <2>2
<1>15. FreshTableIsTrue'
  BY <1>1, <1>4, <1>13 DEF FreshTableIsTrue, TableIsTrue
<1> QED
  BY <1>10, <1>11, <1>12, <1>14, <1>15 DEF LoopInv

-----------------------------------------------------------------------------
(* A result is reported. *)

\* A table that holds nothing but entries of another one.
PartOf(base, known) ==
  DOMAIN base \subseteq DOMAIN known /\ \A id \in DOMAIN base : base[id] = known[id]

\* A step with components makes its table of the one known or a part of it; an
\* inventory of the environment the known components are of, of nothing.
LEMMA IngestIs ==
  ASSUME NEW known, NEW job, NEW step, step.outputs # NoOutput,
         step.outputs \in Seq(Observations)
  PROVE  /\ \E base : /\ PartOf(base, known)
                      /\ \/ S!Ingest(job, known, step) = base
                         \/ TableOf(S!Ingest(job, known, step), base, step.outputs)
         /\ /\ S!IsInventory(job, step.id) /\ job.plan.env = Environment
            /\ \A id \in DOMAIN known : known[id] \in Observations
            => \E base : /\ DOMAIN base = {}
                         /\ TableOf(S!Ingest(job, known, step), base, step.outputs)
<1>1. PICK told : told = step.outputs /\ told \in Seq(Observations)
  OBVIOUS
<1>2. AllNamed(told)
  <2>1. \A i \in DOMAIN told : told[i].id \in Components
    <3>1. \A i \in DOMAIN told : told[i] \in Observations
      BY <1>1
    <3> QED
      BY <3>1 DEF Observations
  <2>2. "" \notin Components
    BY NamesAssumption
  <2> QED
    BY <2>1, <2>2, Zenon DEF AllNamed
<1>3. \A base : TableOf(S!Upsert(base, told), base, told)
  BY <1>1, <1>2, UpsertIs
<1> DEFINE remaining(env) == Restrict(known, {id \in DOMAIN known :
             ~ (known[id].env = env /\ known[id].runtime = S!Kubernetes)})
           none == ""
<1>4. \A env : PartOf(remaining(env), known)
  BY DEF PartOf, Restrict
<1>5. \A env : \/ S!Replaced(known, env, told) = known
               \/ \E target : S!Replaced(known, env, told) = S!Upsert(remaining(target), told)
  <2> SUFFICES ASSUME NEW env
               PROVE  \/ S!Replaced(known, env, told) = known
                      \/ \E target : S!Replaced(known, env, told)
                                       = S!Upsert(remaining(target), told)
    OBVIOUS
  <2> DEFINE target == IF env = none /\ told # << >> THEN told[1].env ELSE env
  <2>1. S!Replaced(known, env, told) =
          IF target = none THEN known ELSE S!Upsert(remaining(target), told)
    BY DEF S!Replaced, S!Restrict, Restrict
  <2> HIDE DEF target, none, remaining
  <2> QED
    BY <2>1
<1>6. S!Replaced(known, Environment, told) = S!Upsert(remaining(Environment), told)
  <2> DEFINE target == IF Environment = none /\ told # << >> THEN told[1].env ELSE Environment
  <2>1. S!Replaced(known, Environment, told) =
          IF target = none THEN known ELSE S!Upsert(remaining(target), told)
    BY DEF S!Replaced, S!Restrict, Restrict
  <2>2. Environment # none
    BY NamesAssumption
  <2> HIDE DEF none, remaining
  <2> QED
    BY <2>1, <2>2
<1>7. ASSUME \A id \in DOMAIN known : known[id] \in Observations
      PROVE  DOMAIN remaining(Environment) = {}
  <2>1. \A id \in DOMAIN known : known[id].env = Environment /\ known[id].runtime = S!Kubernetes
    BY <1>7 DEF Observations
  <2> QED
    BY <2>1 DEF Restrict
<1> HIDE DEF remaining, none
<1>8. S!Ingest(job, known, step) =
        IF S!IsInventory(job, step.id) THEN S!Replaced(known, job.plan.env, told)
        ELSE S!Upsert(known, told)
  BY <1>1 DEF S!Ingest
<1>9. PartOf(known, known)
  BY DEF PartOf
<1>10. ASSUME S!IsInventory(job, step.id), job.plan.env = Environment,
              \A id \in DOMAIN known : known[id] \in Observations
       PROVE  \E base : /\ DOMAIN base = {}
                        /\ TableOf(S!Ingest(job, known, step), base, step.outputs)
  BY <1>1, <1>3, <1>6, <1>7, <1>8, <1>10
<1>11. \E base : /\ PartOf(base, known)
                 /\ \/ S!Ingest(job, known, step) = base
                    \/ TableOf(S!Ingest(job, known, step), base, step.outputs)
  <2>1. CASE S!IsInventory(job, step.id)
    BY <1>1, <1>3, <1>4, <1>5, <1>8, <1>9, <2>1
  <2>2. CASE ~ S!IsInventory(job, step.id)
    BY <1>1, <1>3, <1>8, <1>9, <2>2
  <2> QED
    BY <2>1, <2>2
<1> QED
  BY <1>10, <1>11

\* What a report makes of the table: known and reported entries, and for an
\* inventory that is recognised what it saw alone.
LEMMA ReportedTable ==
  ASSUME LoopInv, NEW w \in Workers, Report(w),
         NEW task, task = work[w], NEW job, job = task.signed.job
  PROVE  /\ \A id \in DOMAIN components' :
              /\ components'[id] \in Observations /\ components'[id].id = id
              /\ Offered(components'[id])
              /\ \/ id \in DOMAIN components /\ components'[id] = components[id]
                 \/ \E i \in DOMAIN task.seen : components'[id] = task.seen[i]
         /\ ~ (IsInventoryJob(job) /\ task.status = Succeeded) => components' = components
         /\ IsInventoryJob(job) /\ task.status = Succeeded /\ claimed[job.id] = job =>
              \E base : DOMAIN base = {} /\ TableOf(components', base, task.seen)
<1> DEFINE reported == IsInventoryJob(job) /\ task.status = Succeeded
<1>1. /\ task \in Tasks /\ TaskOK(task) /\ job \in Jobs
  <2>1. task \in Tasks /\ TaskOK(task)
    BY DEF LoopInv, TypesOK, OffersOK, Report
  <2> QED
    BY <2>1, TaskFields
<1>2. \A id \in DOMAIN components :
        /\ components[id] \in Observations /\ components[id].id = id
        /\ Offered(components[id])
  BY DEF LoopInv, TypesOK, OffersOK
<1>3. PICK result, context : result = ResultOf(w) /\ context = S!Context(result)
  OBVIOUS
<1>4. components' = S!Ingested(components, context, result.steps)
  BY <1>3 DEF Report, S!Complete
<1>5. /\ result.job = job.id
      /\ task.status = Denied => result.steps = << >>
      /\ task.status # Denied => \E step :
           /\ result.steps = <<step>> /\ step.id = StepOf(job).id
           /\ step.outputs = IF reported THEN task.seen ELSE NoOutput
  <2> DEFINE step == [id |-> StepOf(job).id, status |-> task.status,
                      outputs |-> IF reported THEN task.seen ELSE NoOutput]
  <2>1. result = [job |-> job.id, enq |-> task.signed.enq, status |-> task.status,
                  steps |-> IF task.status = Denied THEN << >> ELSE <<step>>]
    BY <1>3 DEF ResultOf
  <2>2. step.id = StepOf(job).id /\ step.outputs = IF reported THEN task.seen ELSE NoOutput
    OBVIOUS
  <2> HIDE DEF step, reported
  <2> QED
    BY <2>1, <2>2
<1>6. CASE task.status = Denied
  <2>1. components' = components
    BY <1>4, <1>5, <1>6, IngestedOne
  <2> QED
    BY <1>2, <1>6, <2>1 DEF Denied, Succeeded
<1>7. CASE task.status # Denied
  <2>1. PICK step : /\ result.steps = <<step>> /\ step.id = StepOf(job).id
                    /\ step.outputs = IF reported THEN task.seen ELSE NoOutput
    BY <1>5, <1>7
  <2>2. components' = S!Ingest(context, components, step)
    BY <1>4, <2>1, IngestedOne
  <2>3. CASE ~ reported
    <3>1. components' = components
      BY <2>1, <2>2, <2>3 DEF S!Ingest
    <3> QED
      BY <1>2, <2>3, <3>1
  <2>4. CASE reported
    <3>1. step.outputs = task.seen /\ task.seen \in Seq(Observations)
      BY <1>1, <2>1, <2>4, TaskFields
    <3>2. step.outputs # NoOutput
      BY <3>1, NothingAssumption
    <3>3. \A i \in DOMAIN task.seen : task.seen[i] \in Observations /\ Offered(task.seen[i])
      BY <1>1, TaskFields DEF TaskOK
    <3>4. PICK base : /\ PartOf(base, components)
                      /\ components' = base \/ TableOf(components', base, task.seen)
      BY <2>2, <3>1, <3>2, IngestIs
    <3>5. \A id \in DOMAIN components' :
            \/ \E i \in DOMAIN task.seen : task.seen[i].id = id /\ components'[id] = task.seen[i]
            \/ id \in DOMAIN components /\ components'[id] = components[id]
      BY <3>4 DEF PartOf, TableOf
    <3>6. \A id \in DOMAIN components' :
            /\ components'[id] \in Observations /\ components'[id].id = id
            /\ Offered(components'[id])
      BY <1>2, <3>3, <3>5
    <3>7. ASSUME claimed[job.id] = job
          PROVE  \E b : DOMAIN b = {} /\ TableOf(components', b, task.seen)
      <4>1. /\ job.id \in S!JobIDs /\ job.plan.env = Environment
            /\ S!IsInventory(job, StepOf(job).id)
        BY <1>1, <2>4, InventoryIs DEF StepOf
      <4>2. context = job
        BY <1>3, <1>5, <3>7, <4>1 DEF S!Context
      <4>3. S!IsInventory(context, step.id) /\ context.plan.env = Environment
        BY <2>1, <4>1, <4>2
      <4> QED
        BY <1>2, <2>2, <3>1, <3>2, <4>3, IngestIs
    <3> QED
      BY <2>4, <3>5, <3>6, <3>7
  <2> QED
    BY <2>3, <2>4
<1> QED
  BY <1>6, <1>7

LEMMA ReportKeepsLoopInv ==
  ASSUME LoopInv, NEW w \in Workers, Report(w)
  PROVE  LoopInv'
<1> USE DEF worldVars
<1>1. /\ TypesOK /\ OffersOK /\ CustodyOK /\ InventoriesOK /\ FreshTableIsTrue
      /\ work \in [Workers -> Tasks \cup {None}]
      /\ image \in [Components -> [tag : Tags, content : Contents] \cup {None}]
  BY DEF LoopInv, TypesOK
<1>2. PICK task, job : task = work[w] /\ job = task.signed.job
  OBVIOUS
<1>3. /\ UNCHANGED <<pending, submitted, updating, image, registry, now, overtaken>>
      /\ task # None
      /\ work' = [work EXCEPT ![w] = None]
      /\ fresh' = IF IsInventoryJob(job) /\ task.status = Succeeded
                    THEN w \notin overtaken ELSE fresh
  BY <1>2 DEF Report, S!Complete
<1>4. claimed' = [id \in S!JobIDs |-> IF id = job.id THEN None ELSE claimed[id]]
  <2>1. ResultOf(w).job = job.id
    BY <1>2 DEF ResultOf
  <2> QED
    BY <2>1 DEF Report, S!Complete, S!Settle
<1>5. /\ task \in Tasks /\ job \in Jobs
      /\ \A v \in Workers : work'[v] = IF v = w THEN None ELSE work[v]
      /\ work' \in [Workers -> Tasks \cup {None}]
  <2>1. task \in Tasks
    BY <1>1, <1>2, <1>3
  <2> QED
    BY <1>1, <1>2, <1>3, <2>1, TaskFields
<1>6. \A id \in DOMAIN components' :
        /\ components'[id] \in Observations /\ components'[id].id = id
        /\ Offered(components'[id])
  BY <1>2, ReportedTable
<1>7. TypesOK'
  <2>1. claimed' = [id \in S!JobIDs |-> claimed'[id]]
    BY <1>4
  <2> QED
    BY <1>1, <1>3, <1>5, <1>6, <2>1 DEF TypesOK, Has
<1>8. OffersOK'
  <2>1. (\A id \in DOMAIN components : Offered(components[id]))'
    BY <1>3, <1>6 DEF Offered, Has
  <2>2. (\A v \in Workers : work[v] # None => TaskOK(work[v]))'
    BY <1>1, <1>3, <1>5 DEF OffersOK, TaskOK, Offered, Has
  <2> QED
    BY <1>1, <1>3, <2>1, <2>2 DEF OffersOK, Offered, JobOK, Has
<1>9. CustodyOK'
  BY <1>1, <1>3, <1>5 DEF CustodyOK
<1>10. OneInventoryASecond' => OneInventoryASecond
  BY <1>3, InventoriesKept
<1>11. InventoriesOK'
  <2> SUFFICES ASSUME NEW v \in Workers, work'[v] # None, v \notin overtaken',
                      IsInventoryJob(work'[v].signed.job)
               PROVE  /\ ShowsCluster(work[v])'
                      /\ work'[v].status = Succeeded =>
                           work'[v].listed = << >> /\ work'[v].namespaces = << >>
                      /\ OneInventoryASecond' =>
                           claimed'[work'[v].signed.job.id] = work'[v].signed.job
    BY DEF InventoriesOK
  <2>1. /\ work'[v] = work[v] /\ work[v] # None /\ v \notin overtaken /\ v # w
        /\ IsInventoryJob(work[v].signed.job)
    BY <1>3, <1>5
  <2>2. /\ ShowsCluster(work[v])
        /\ work[v].status = Succeeded => work[v].listed = << >> /\ work[v].namespaces = << >>
        /\ OneInventoryASecond => claimed[work[v].signed.job.id] = work[v].signed.job
    BY <1>1, <2>1 DEF InventoriesOK
  <2>3. ShowsCluster(work[v])'
    BY <1>3, <2>1, <2>2 DEF ShowsCluster, Shows
  <2>4. ASSUME OneInventoryASecond PROVE work[v].signed.job.id # job.id
    <3>1. /\ task.signed.enq \in DOMAIN submitted
          /\ submitted[task.signed.enq].job = job
          /\ task.signed.enq # work[v].signed.enq
      BY <1>1, <1>2, <1>3, <2>1 DEF CustodyOK
    <3> QED
      BY <1>1, <2>1, <2>4, <3>1, InventoryAlone
  <2>5. work[v].signed.job.id \in S!JobIDs
    <3>1. work[v].signed.job \in Jobs
      BY <1>1, <2>1, TaskFields
    <3> QED
      BY <2>1, <3>1, InventoryIs
  <2> QED
    BY <1>4, <1>10, <2>1, <2>2, <2>3, <2>4, <2>5
<1>12. FreshTableIsTrue'
  <2> SUFFICES ASSUME fresh', OneInventoryASecond'
               PROVE  TableIsTrue'
    BY DEF FreshTableIsTrue
  <2>1. CASE ~ (IsInventoryJob(job) /\ task.status = Succeeded)
    <3>1. components' = components
      BY <1>2, <2>1, ReportedTable
    <3> QED
      BY <1>1, <1>3, <1>10, <2>1, <3>1 DEF FreshTableIsTrue, TableIsTrue
  <2>2. CASE IsInventoryJob(job) /\ task.status = Succeeded
    <3>1. /\ w \notin overtaken /\ ShowsCluster(task)
          /\ task.listed = << >> /\ task.namespaces = << >>
          /\ claimed[job.id] = job
      BY <1>1, <1>2, <1>3, <1>10, <2>2 DEF InventoriesOK
    <3>2. PICK base : DOMAIN base = {} /\ TableOf(components', base, task.seen)
      BY <1>2, <2>2, <3>1, ReportedTable
    <3>3. /\ DOMAIN components' = {task.seen[i].id : i \in DOMAIN task.seen}
          /\ \A id \in DOMAIN components' : \E i \in DOMAIN task.seen :
               task.seen[i].id = id /\ components'[id] = task.seen[i]
      BY <3>2 DEF TableOf
    <3>4. \A i \in DOMAIN task.seen :
            task.seen[i].id \in Components /\ task.seen[i].current \in Tags
      <4>1. \A i \in DOMAIN task.seen : task.seen[i] \in Observations
        BY <1>5, TaskFields
      <4> QED
        BY <4>1 DEF Observations, Tags
    <3>5. \A i \in DOMAIN task.seen :
            LET c == task.seen[i].id IN
            image[c] # None /\ image[c].tag = task.seen[i].current
      BY <3>1, <3>4 DEF ShowsCluster, Shows
    <3>6. \A c \in Components : image[c] # None =>
            \E i \in DOMAIN task.seen :
              task.seen[i].id = c /\ task.seen[i].current = image[c].tag
      <4>1. Range(task.namespaces) = {} /\ DOMAIN task.listed = {}
        BY <3>1 DEF Range
      <4> QED
        BY <3>1, <4>1 DEF ShowsCluster, Shows
    <3>7. \A id \in DOMAIN components' :
            /\ id \in Components /\ image[id] # None
            /\ components'[id].current = image[id].tag
      BY <3>3, <3>4, <3>5
    <3>8. \A c \in Components : image[c] # None => c \in DOMAIN components'
      BY <3>3, <3>6
    <3> QED
      BY <1>3, <3>7, <3>8 DEF TableIsTrue
  <2> QED
    BY <2>1, <2>2
<1> QED
  BY <1>7, <1>8, <1>9, <1>11, <1>12 DEF LoopInv

-----------------------------------------------------------------------------
(* The theorems. *)

LEMMA StepKeepsLoopInv ==
  ASSUME LoopInv, [Next]_vars
  PROVE  LoopInv'
<1>1. CASE RequestInventory \/ EnqueueUpdate
  BY <1>1, SubmissionsKeepLoopInv
<1>2. CASE Restart
  BY <1>2, RestartKeepsLoopInv
<1>3. CASE Tick \/ \E c \in Components : ReadComponent(c)
  BY <1>3, QuietStepsKeepLoopInv
<1>4. CASE \E c \in Components : Delete(c)
  BY <1>4, DeleteKeepsLoopInv
<1>5. CASE \E c \in Components, t \in Published, x \in Contents : Push(c, t, x)
  BY <1>5, PushKeepsLoopInv
<1>6. ASSUME NEW w \in Workers,
             \/ Take(w) \/ ListNamespace(w) \/ AskTags(w) \/ AskDigest(w) \/ EndInventory(w)
             \/ SetImage(w) \/ ExecutorFails(w) \/ Report(w) \/ Lose(w)
      PROVE  LoopInv'
  <2>1. CASE Take(w)
    BY <2>1, TakeKeepsLoopInv
  <2>2. CASE ListNamespace(w)
    BY <2>2, ListNamespaceKeepsLoopInv
  <2>3. CASE AskTags(w) \/ AskDigest(w)
    BY <2>3, AskTagsKeepsLoopInv, AskDigestKeepsLoopInv
  <2>4. CASE EndInventory(w) \/ ExecutorFails(w) \/ Lose(w)
    BY <2>4, EndsKeepLoopInv
  <2>5. CASE SetImage(w)
    BY <2>5, SetImageKeepsLoopInv
  <2>6. CASE Report(w)
    BY <2>6, ReportKeepsLoopInv
  <2> QED
    BY <1>6, <2>1, <2>2, <2>3, <2>4, <2>5, <2>6
<1>7. CASE UNCHANGED vars
  <2>1. /\ UNCHANGED <<storeVars, updating, work, registry, image, overtaken, fresh>>
        /\ UNCHANGED now
    BY <1>7 DEF vars, worldVars, historyVars
  <2>2. TypesOK /\ OffersOK
    BY DEF LoopInv
  <2>3. TypesOK'
    BY <2>1, <2>2, WorkStepTypes DEF TypesOK, Has
  <2>4. Grows
    BY <2>1 DEF Grows
  <2>5. \A o \in updating' : o \in Observations /\ o.update /\ Offered(o)
    BY <2>1, <2>2 DEF TypesOK, OffersOK
  <2>6. \A w \in Workers : work'[w] = work[w]
    BY <2>1
  <2> QED
    BY <2>1, <2>3, <2>4, <2>5, <2>6, WorkStep
<1> QED
  BY <1>1, <1>2, <1>3, <1>4, <1>5, <1>6, <1>7, ZenonT(40) DEF Next

LEMMA LoopInvHolds == Spec => []LoopInv
BY InitLoopInv, StepKeepsLoopInv, PTL DEF Spec

\* Tasks and offers are what the type invariant says of them.
THEOREM LoopTypesKept == Spec => []TypeOK
<1>1. ASSUME LoopInv PROVE TypeOK
  <2>1. /\ TypesOK /\ OffersOK /\ CustodyOK
        /\ pending \in Seq(Envelope) /\ submitted \in Seq(Envelope)
    BY <1>1 DEF LoopInv, TypesOK
  <2>2. ASSUME NEW o \in Observations, Offered(o) PROVE ComponentOK(o)
    <3>1. o.id \in Components
      BY DEF Observations
    <3>2. Has(o.id, o.latest) => o.latest # NoTag
      BY <2>1, <3>1, KnownTags DEF TypesOK, Has
    <3> QED
      BY <2>2, <3>1, <3>2 DEF ComponentOK, Offered
  <2>3. pending \in Seq(Range(submitted))
    <3>1. \A i \in DOMAIN pending : pending[i] \in Range(submitted)
      BY <2>1 DEF CustodyOK, Range
    <3> QED
      BY <2>1, <3>1
  <2>4. \A component \in updating : component.update /\ ComponentOK(component)
    BY <2>1, <2>2 DEF TypesOK, OffersOK
  <2>5. \A id \in DOMAIN components : components[id].id = id /\ ComponentOK(components[id])
    BY <2>1, <2>2 DEF TypesOK, OffersOK
  <2>6. ASSUME NEW w \in Workers, work[w] # None
        PROVE  /\ work[w].signed \in Range(submitted)
               /\ work[w].status \in {Running, Succeeded, Failed, Denied}
    <3>1. work[w].signed \in Range(submitted)
      BY <2>1, <2>6 DEF CustodyOK, Range
    <3>2. work[w] \in Tasks
      BY <2>1, <2>6 DEF TypesOK
    <3> QED
      BY <3>1, <3>2 DEF Tasks
  <2>7. Len(submitted) <= MaxSubmitted /\ now \in 0 .. MaxTime
    BY <2>1 DEF TypesOK
  <2> QED
    BY <2>3, <2>4, <2>5, <2>6, <2>7 DEF TypeOK
<1> QED
  BY <1>1, LoopInvHolds, PTL

\* The table is true once an inventory is, for every set of deployments, namespaces
\* and workers, and whatever changes, fails and restarts while inventories run.
THEOREM InventoriesTellTheTruth == Spec => []FreshTableIsTrue
<1>1. LoopInv => FreshTableIsTrue
  BY DEF LoopInv
<1> QED
  BY <1>1, LoopInvHolds, PTL

\* A stale component has a newer tag, for every set of tags, if the registry lists
\* all that a repository ever has in one page.
THEOREM OffersAreNewer ==
  ASSUME AllListed
  PROVE  Spec => []StaleMeansNewer
<1>1. LoopInv => StaleMeansNewer
  BY DEF LoopInv, OffersOK, Offered, StaleMeansNewer, Forward
<1> QED
  BY <1>1, LoopInvHolds, PTL

\* Updates go forward, under the same condition, however many tags are pushed and
\* updates run between the inventory, the request and the update.
THEOREM UpdatesAreForward ==
  ASSUME AllListed
  PROVE  Spec => UpdatesGoForward
<1> DEFINE GoesForward(w) ==
      SetImage(w) =>
        LET job == work[w].signed.job IN
        image[job.plan.app].tag = job.from =>
          /\ Older(job.from, image'[job.plan.app].tag)
          /\ HasReleaseSequence(job.from) =>
               ~ SameTagRank(job.from, image'[job.plan.app].tag)
<1>1. ASSUME LoopInv PROVE \A w \in Workers : GoesForward(w)
  <2> SUFFICES ASSUME NEW w \in Workers, SetImage(w)
               PROVE  LET job == work[w].signed.job IN
                      Forward(job.from, image'[job.plan.app].tag)
    BY DEF Forward
  <2>1. PICK signed, job : signed = work[w].signed /\ job = signed.job
    OBVIOUS
  <2>2. JobOK(job) /\ ~ IsInventoryJob(job)
    <3>1. work[w] # None /\ ~ IsInventoryJob(job)
      BY <2>1 DEF SetImage, Executes
    <3>2. signed.enq \in DOMAIN submitted /\ submitted[signed.enq] = signed
      BY <1>1, <2>1, <3>1 DEF LoopInv, CustodyOK
    <3> QED
      BY <1>1, <2>1, <3>1, <3>2, SMTT(30) DEF LoopInv, OffersOK
  <2>3. job.plan.app \in Components /\ Forward(job.from, job.image)
    BY <2>2 DEF JobOK
  <2>4. image'[job.plan.app].tag = job.image
    <3>1. image = [c \in Components |-> image[c]]
      BY <1>1, SMTT(30) DEF LoopInv, TypesOK
    <3>2. image' = [image EXCEPT ![job.plan.app] =
                      [tag |-> job.image, content |-> registry[job.plan.app][job.image]]]
      BY <2>1 DEF SetImage
    <3> QED
      BY <2>3, <3>1, <3>2
  <2> QED
    BY <2>1, <2>3, <2>4, SMTT(30)
<1>2. LoopInv => [\A w \in Workers : GoesForward(w)]_vars
  BY <1>1
<1> HIDE DEF GoesForward
<1>3. Spec => [][\A w \in Workers : GoesForward(w)]_vars
  BY <1>2, LoopInvHolds, PTL
<1> QED
  BY <1>3 DEF UpdatesGoForward, GoesForward

-----------------------------------------------------------------------------
(***************************************************************************)
(* What evidence points to.  A job carries the digest its inventory got    *)
(* for the tag it offers, and deploys the tag.  While no tag is pushed a   *)
(* second time with other content both name one content: on offer, in the  *)
(* handlers' hands, in the job, and when the cluster pulls it.             *)
(***************************************************************************)

\* A tag keeps the content it was pushed with.
TagsKept ==
  \A c \in Components : \A tag \in DOMAIN registry[c] : registry'[c][tag] = registry[c][tag]

Pinned(o) == o.update => registry[o.id][o.latest] = o.digest

JobPinned(job) == IsInventoryJob(job) \/ registry[job.plan.app][job.image] = job.digest

\* What the update of submission e deployed is what its job says.
WasPulled(e) == IsInventoryJob(submitted[e].job) \/ pulled[e] = submitted[e].job.digest

\* What a task has seen is pinned, and what it has deployed was.
TaskPinned(task) ==
  /\ \A i \in DOMAIN task.seen : Pinned(task.seen[i])
  /\ task.status = Succeeded => WasPulled(task.signed.enq)

PinsOK ==
  /\ \A o \in updating : Pinned(o)
  /\ \A id \in DOMAIN components : Pinned(components[id])
  /\ \A e \in DOMAIN submitted : JobPinned(submitted[e].job)
  /\ \A w \in Workers : work[w] # None => TaskPinned(work[w])
  /\ pulled = [e \in 1 .. MaxSubmitted |-> pulled[e]]
  /\ evidence \in Seq(Range(evidence))
  /\ \A n \in DOMAIN evidence :
       /\ evidence[n].enq \in DOMAIN submitted
       /\ evidence[n].status = Succeeded => WasPulled(evidence[n].enq)

LEMMA InitPinsOK == Init => PinsOK
<1> SUFFICES ASSUME Init PROVE PinsOK
  OBVIOUS
<1>1. /\ updating = {} /\ DOMAIN components = {} /\ DOMAIN submitted = {}
      /\ evidence = << >> /\ \A w \in Workers : work[w] = None
      /\ pulled = [e \in 1 .. MaxSubmitted |-> None]
  BY DEF Init, S!StoreInit
<1> QED
  BY <1>1 DEF PinsOK

\* Tags that are pushed leave alone what the others stand for.
LEMMA PushKeepsPins ==
  ASSUME LoopInv, PinsOK, TagsKept,
         UNCHANGED <<updating, components, submitted, work, pulled, evidence>>
  PROVE  PinsOK'
<1>1. TypesOK /\ OffersOK
  BY DEF LoopInv
<1>2. ASSUME NEW o \in Observations, Offered(o), Pinned(o) PROVE Pinned(o)'
  <2>1. o.id \in Components
    BY DEF Observations
  <2> QED
    BY <1>2, <2>1 DEF Pinned, Offered, Has, TagsKept
<1>3. \A job : JobOK(job) /\ JobPinned(job) => JobPinned(job)'
  BY DEF JobOK, JobPinned, Has, TagsKept
<1>4. \A o \in updating : Pinned(o)'
  BY <1>1, <1>2 DEF TypesOK, OffersOK, PinsOK
<1>5. \A id \in DOMAIN components : Pinned(components[id])'
  BY <1>1, <1>2 DEF TypesOK, OffersOK, PinsOK
<1>6. \A e \in DOMAIN submitted : JobPinned(submitted[e].job)'
  BY <1>1, <1>3 DEF OffersOK, PinsOK
<1>7. ASSUME NEW w \in Workers, work[w] # None PROVE TaskPinned(work[w])'
  <2>1. work[w] \in Tasks /\ TaskOK(work[w]) /\ TaskPinned(work[w])
    BY <1>1, <1>7 DEF TypesOK, OffersOK, PinsOK
  <2>2. \A i \in DOMAIN work[w].seen : Pinned(work[w].seen[i])'
    BY <1>2, <2>1, TaskFields DEF TaskOK, TaskPinned
  <2> QED
    BY <2>1, <2>2 DEF TaskPinned, WasPulled
<1> QED
  BY <1>4, <1>5, <1>6, <1>7 DEF PinsOK, WasPulled

\* One task goes on, and nobody pushes a tag.
LEMMA TaskKeepsPins ==
  ASSUME LoopInv, PinsOK, NEW w \in Workers, NEW task,
         work' = [work EXCEPT ![w] = task], task # None => TaskPinned(task),
         UNCHANGED <<updating, components, submitted, registry, pulled, evidence>>
  PROVE  PinsOK'
<1>1. work = [v \in Workers |-> work[v]]
  BY DEF LoopInv, TypesOK
<1>2. \A v \in Workers : work'[v] = IF v = w THEN task ELSE work[v]
  BY <1>1
<1>3. \A t : TaskPinned(t) => TaskPinned(t)'
  BY DEF TaskPinned, Pinned, WasPulled
<1>4. \A v \in Workers : work'[v] # None => \E t : work'[v] = t /\ TaskPinned(t)
  BY <1>2 DEF PinsOK
<1>5. (\A v \in Workers : work[v] # None => TaskPinned(work[v]))'
  <2> SUFFICES ASSUME NEW v \in Workers, work'[v] # None PROVE TaskPinned(work[v])'
    OBVIOUS
  <2>1. PICK t : work'[v] = t /\ TaskPinned(t)
    BY <1>4
  <2>2. TaskPinned(t)'
    BY <1>3, <2>1
  <2> QED
    BY <2>1, <2>2 DEF TaskPinned
<1> QED
  BY <1>5 DEF PinsOK, Pinned, JobPinned, WasPulled

\* A worker takes a job, lists a namespace, finds a tag, ends or is lost: nothing
\* new is on offer, and nothing was deployed.
LEMMA QuietTasksKeepPins ==
  ASSUME LoopInv, PinsOK, NEW w \in Workers,
         \/ Take(w) \/ ListNamespace(w) \/ EndInventory(w) \/ ExecutorFails(w) \/ Lose(w)
  PROVE  PinsOK'
<1> USE DEF storeVars, worldVars, historyVars
<1>1. CASE Take(w)
  <2>1. PICK i \in DOMAIN pending :
          /\ S!Claim(Info, i)
          /\ work' = [work EXCEPT ![w] =
               [signed |-> pending[i], namespaces |-> Namespaces,
                listed |-> << >>, latest |-> NoTag, seen |-> << >>,
                status |-> IF Authentic(pending[i], Key, now) THEN Running ELSE Denied]]
    BY <1>1 DEF Take
  <2>2. UNCHANGED <<updating, components, submitted, registry, pulled, evidence>>
    BY <1>1, <2>1 DEF Take, S!Claim
  <2> DEFINE task == [signed |-> pending[i], namespaces |-> Namespaces,
                      listed |-> << >>, latest |-> NoTag, seen |-> << >>,
                      status |-> IF Authentic(pending[i], Key, now) THEN Running ELSE Denied]
  <2>3. work' = [work EXCEPT ![w] = task] /\ DOMAIN task.seen = {} /\ task.status # Succeeded
    BY <2>1 DEF Running, Denied, Succeeded
  <2> HIDE DEF task
  <2> QED
    BY <2>2, <2>3, TaskKeepsPins DEF TaskPinned
<1>2. CASE Lose(w)
  <2>1. /\ work' = [work EXCEPT ![w] = None]
        /\ UNCHANGED <<updating, components, submitted, registry, pulled, evidence>>
    BY <1>2 DEF Lose
  <2> QED
    BY <2>1, TaskKeepsPins
<1>3. CASE ListNamespace(w) \/ EndInventory(w) \/ ExecutorFails(w)
  <2>1. PICK before : before = work[w]
    OBVIOUS
  <2>2. before \in Tasks /\ before.status = Running /\ TaskPinned(before)
    <3>1. Executes(w)
      BY <1>3 DEF ListNamespace, EndInventory, ExecutorFails
    <3> QED
      BY <2>1, <3>1, AtWork DEF PinsOK
  <2>3. UNCHANGED <<updating, components, submitted, registry, pulled, evidence>>
    BY <1>3 DEF ListNamespace, EndInventory, ExecutorFails
  <2>4. ASSUME NEW task, work' = [work EXCEPT ![w] = task],
               task.seen = before.seen, task.signed = before.signed,
               task.status = Succeeded => WasPulled(before.signed.enq)
        PROVE  PinsOK'
    BY <2>2, <2>3, <2>4, TaskKeepsPins DEF TaskPinned
  <2>5. CASE ListNamespace(w)
    <3> DEFINE running == {c \in Components :
                 NamespaceOf[c] = Head(before.namespaces) /\ image[c] # None}
               task == [before EXCEPT
                 !.namespaces = Tail(@),
                 !.listed = SetToSeq({[id |-> c, tag |-> image[c].tag] : c \in running})]
    <3>1. /\ work' = [work EXCEPT ![w] = task] /\ task.seen = before.seen
          /\ task.signed = before.signed /\ task.status = Running
      BY <2>1, <2>2, <2>5 DEF ListNamespace, Tasks
    <3> HIDE DEF task
    <3> QED
      BY <2>4, <3>1 DEF Running, Succeeded
  <2>6. CASE EndInventory(w)
    <3> DEFINE task == [before EXCEPT !.status = Succeeded]
    <3>1. /\ work' = [work EXCEPT ![w] = task] /\ task.seen = before.seen
          /\ task.signed = before.signed
      BY <2>1, <2>2, <2>6 DEF EndInventory, Ends, Tasks
    <3>2. WasPulled(before.signed.enq)
      <4>1. IsInventoryJob(before.signed.job) /\ before # None
        BY <2>1, <2>6 DEF EndInventory, Executes
      <4>2. submitted[before.signed.enq] = before.signed
        BY <2>1, <4>1 DEF LoopInv, CustodyOK
      <4> QED
        BY <4>1, <4>2 DEF WasPulled
    <3> HIDE DEF task
    <3> QED
      BY <2>4, <3>1, <3>2
  <2>7. CASE ExecutorFails(w)
    <3> DEFINE task == [before EXCEPT !.status = Failed]
    <3>1. /\ work' = [work EXCEPT ![w] = task] /\ task.seen = before.seen
          /\ task.signed = before.signed /\ task.status = Failed
      BY <2>1, <2>2, <2>7 DEF ExecutorFails, Ends, Tasks
    <3> HIDE DEF task
    <3> QED
      BY <2>4, <3>1 DEF Failed, Succeeded
  <2> QED
    BY <1>3, <2>5, <2>6, <2>7
<1> QED
  BY <1>1, <1>2, <1>3

\* A container is looked up: the digest is what the registry has under the tag.
LEMMA LookupsKeepPins ==
  ASSUME LoopInv, PinsOK, NEW w \in Workers, AskTags(w) \/ AskDigest(w)
  PROVE  PinsOK'
<1> USE DEF storeVars, worldVars, historyVars
<1>1. PICK before, item : before = work[w] /\ item = Head(before.listed)
  OBVIOUS
<1>2. /\ before \in Tasks /\ before.status = Running /\ TaskPinned(before)
      /\ before.seen \in Seq(Observations)
      /\ UNCHANGED <<updating, components, submitted, registry, pulled, evidence>>
  <2>1. Executes(w)
    BY DEF AskTags, AskDigest
  <2>2. UNCHANGED <<updating, components, submitted, registry, pulled, evidence>>
    BY DEF AskTags, AskDigest
  <2>3. before \in Tasks /\ before.status = Running /\ TaskPinned(before)
    BY <1>1, <2>1, AtWork DEF PinsOK
  <2> QED
    BY <2>2, <2>3, TaskFields
<1>3. ASSUME NEW component, Seen(w, component), Pinned(component) PROVE PinsOK'
  <2> DEFINE task == [before EXCEPT !.listed = Tail(@), !.latest = NoTag,
                                    !.seen = Append(@, component)]
  <2>1. /\ work' = [work EXCEPT ![w] = task] /\ task.status = Running
        /\ task.seen = Append(before.seen, component)
    BY <1>1, <1>2, <1>3 DEF Seen, Tasks
  <2> HIDE DEF task
  <2>2. \A i \in DOMAIN task.seen :
          \/ i \in DOMAIN before.seen /\ task.seen[i] = before.seen[i]
          \/ task.seen[i] = component
    <3>1. PICK n \in Nat : n = Len(before.seen) /\ DOMAIN before.seen = 1 .. n
      BY <1>2
    <3>2. /\ DOMAIN task.seen = 1 .. n + 1 /\ task.seen[n + 1] = component
          /\ \A i \in 1 .. n : task.seen[i] = before.seen[i]
      <4>1. before.seen \in Seq(Observations \cup {component})
        BY <1>2
      <4> QED
        BY <2>1, <3>1, <4>1
    <3>3. \A i \in 1 .. n + 1 : i \in 1 .. n \/ i = n + 1
      OBVIOUS
    <3> QED
      BY <3>1, <3>2, <3>3
  <2>3. TaskPinned(task)
    BY <1>2, <1>3, <2>1, <2>2 DEF TaskPinned, Running, Succeeded
  <2> QED
    BY <1>2, <2>1, <2>3, TaskKeepsPins
<1>4. ASSUME NEW latest, NEW digest,
             latest = NoTag \/ digest = None \/ digest = registry[item.id][latest]
      PROVE  Pinned(Observed(item, latest, digest))
  <2>1. PICK o : o = Observed(item, latest, digest)
    OBVIOUS
  <2>2. o.update => /\ latest # NoTag /\ digest # None
                    /\ o.id = item.id /\ o.latest = latest /\ o.digest = digest
    BY <2>1 DEF Observed
  <2> QED
    BY <1>4, <2>1, <2>2 DEF Pinned
<1>5. CASE AskTags(w)
  <2>1. PICK latest : latest = LatestTag(ListedTags(item.id), item.tag)
    OBVIOUS
  <2>2. \/ work' = [work EXCEPT ![w].latest = latest]
        \/ Seen(w, Observed(item, NoTag, None))
    BY <1>1, <1>5, <2>1 DEF AskTags
  <2>3. CASE work' = [work EXCEPT ![w].latest = latest]
    <3> DEFINE task == [before EXCEPT !.latest = latest]
    <3>1. /\ work' = [work EXCEPT ![w] = task] /\ task.seen = before.seen
          /\ task.signed = before.signed /\ task.status = before.status
      BY <1>1, <1>2, <2>3 DEF Tasks
    <3> HIDE DEF task
    <3>2. TaskPinned(task)
      BY <1>2, <3>1 DEF TaskPinned
    <3> QED
      BY <1>2, <3>1, <3>2, TaskKeepsPins
  <2> QED
    BY <1>3, <1>4, <2>2, <2>3
<1>6. CASE AskDigest(w)
  <2>1. PICK latest : latest = before.latest
    OBVIOUS
  <2>2. \/ Seen(w, Observed(item, latest, registry[item.id][latest]))
        \/ Seen(w, Observed(item, latest, None))
    BY <1>1, <1>6, <2>1 DEF AskDigest
  <2> QED
    BY <1>3, <1>4, <2>2
<1> QED
  BY <1>5, <1>6

\* An update deploys what its job says: its tag still has that content.
LEMMA SetImageKeepsPins ==
  ASSUME LoopInv, PinsOK, NEW w \in Workers, SetImage(w)
  PROVE  PinsOK'
<1> USE DEF storeVars
<1>1. PICK before, job, n :
        before = work[w] /\ job = before.signed.job /\ n = before.signed.enq
  OBVIOUS
<1>2. /\ UNCHANGED <<updating, components, submitted, registry, evidence>>
      /\ Executes(w) /\ ~ IsInventoryJob(job)
      /\ pulled' = [pulled EXCEPT ![n] = registry[job.plan.app][job.image]]
  BY <1>1 DEF SetImage
<1>20. PICK status \in {Succeeded, Failed} : work' = [work EXCEPT ![w].status = status]
  BY DEF SetImage, Ends
<1>3. before \in Tasks /\ before # None /\ TaskPinned(before)
  BY <1>1, <1>2, AtWork DEF PinsOK
<1>4. n \in DOMAIN submitted /\ submitted[n].job = job /\ n \in 1 .. MaxSubmitted
  <2>1. /\ n \in DOMAIN submitted /\ submitted[n] = before.signed
        /\ submitted \in Seq(Envelope) /\ Len(submitted) <= MaxSubmitted
    BY <1>1, <1>3 DEF LoopInv, CustodyOK, TypesOK
  <2> QED
    BY <1>1, <2>1, ControlPlaneBounds
<1>5. registry[job.plan.app][job.image] = job.digest
  BY <1>2, <1>4 DEF PinsOK, JobPinned
<1>6. /\ pulled' = [e \in 1 .. MaxSubmitted |-> pulled'[e]]
      /\ pulled'[n] = job.digest
      /\ \A e \in 1 .. MaxSubmitted : pulled'[e] = IF e = n THEN job.digest ELSE pulled[e]
  BY <1>2, <1>4, <1>5 DEF PinsOK
<1>7. DOMAIN submitted \subseteq 1 .. MaxSubmitted
  <2>1. submitted \in Seq(Envelope) /\ Len(submitted) <= MaxSubmitted
    BY DEF LoopInv, TypesOK
  <2> QED
    BY <2>1, ControlPlaneBounds
<1>8. \A e \in DOMAIN submitted : WasPulled(e) => WasPulled(e)'
  BY <1>2, <1>4, <1>6, <1>7 DEF WasPulled
<1> DEFINE task == [before EXCEPT !.status = status]
<1>9. /\ task.signed = before.signed /\ task.seen = before.seen
      /\ work' = [work EXCEPT ![w] = task]
  BY <1>1, <1>20, <1>3 DEF Tasks
<1> HIDE DEF task
<1>10. \A v \in Workers : work'[v] = IF v = w THEN task ELSE work[v]
  <2>1. work = [v \in Workers |-> work[v]]
    BY DEF LoopInv, TypesOK
  <2> QED
    BY <1>9, <2>1
<1>11. ASSUME NEW v \in Workers, work'[v] # None PROVE TaskPinned(work[v])'
  <2>1. CASE v = w
    <3>1. WasPulled(n)'
      BY <1>2, <1>4, <1>6, SMTT(30) DEF WasPulled
    <3> QED
      BY <1>1, <1>2, <1>3, <1>9, <1>10, <2>1, <3>1 DEF TaskPinned, Pinned
  <2>2. CASE v # w
    <3>1. /\ work'[v] = work[v] /\ work[v] # None /\ TaskPinned(work[v])
          /\ work[v].signed.enq \in DOMAIN submitted
      BY <1>10, <1>11, <2>2 DEF PinsOK, LoopInv, CustodyOK
    <3> QED
      BY <1>2, <1>8, <3>1 DEF TaskPinned, Pinned
  <2> QED
    BY <2>1, <2>2, SMTT(30)
<1>12. ASSUME NEW k \in DOMAIN evidence
       PROVE  /\ evidence[k].enq \in DOMAIN submitted
              /\ evidence[k].status = Succeeded => WasPulled(evidence[k].enq)'
  <2>1. PICK e : e = evidence[k].enq
    OBVIOUS
  <2>2. e \in DOMAIN submitted /\ (evidence[k].status = Succeeded => WasPulled(e))
    BY <2>1 DEF PinsOK
  <2>3. evidence[k].status = Succeeded => WasPulled(e)'
    BY <1>8, <2>2
  <2> QED
    BY <1>2, <2>1, <2>2, <2>3 DEF WasPulled
<1> QED
  BY <1>2, <1>6, <1>11, <1>12 DEF PinsOK, Pinned, JobPinned

\* The handlers make jobs of what is pinned.
LEMMA SubmissionsKeepPins ==
  ASSUME LoopInv, PinsOK, RequestInventory \/ EnqueueUpdate
  PROVE  PinsOK'
<1> USE DEF worldVars, historyVars
<1>1. PICK job : /\ S!Enqueue(job, Key) /\ JobPinned(job)
                 /\ updating' \subseteq updating /\ UNCHANGED <<work, registry, pulled>>
  <2>1. CASE RequestInventory
    <3>1. JobPinned(InventoryJob(now))
      BY DEF JobPinned, IsInventoryJob, InventoryJob
    <3> QED
      BY <2>1, <3>1 DEF RequestInventory
  <2>2. CASE EnqueueUpdate
    <3>1. PICK o \in updating : /\ S!Enqueue(UpdateJob(o, now), Key)
                               /\ updating' \subseteq updating
      BY <2>2 DEF EnqueueUpdate
    <3>2. o.update /\ Pinned(o)
      BY <3>1 DEF LoopInv, OffersOK, PinsOK
    <3>3. JobPinned(UpdateJob(o, now))
      <4>1. PICK made : made = UpdateJob(o, now)
        OBVIOUS
      <4>2. made.plan.app = o.id /\ made.image = o.latest /\ made.digest = o.digest
        BY <4>1 DEF UpdateJob
      <4> QED
        BY <3>2, <4>1, <4>2 DEF JobPinned, Pinned
    <3> QED
      BY <2>2, <3>1, <3>3 DEF EnqueueUpdate
  <2> QED
    BY <2>1, <2>2
<1>2. PICK n, signed : n = Len(submitted) + 1 /\ signed = [job |-> job, key |-> Key, enq |-> n]
  OBVIOUS
<1>3. submitted' = Append(submitted, signed) /\ UNCHANGED <<components, evidence>>
  BY <1>1, <1>2 DEF S!Enqueue
<1>4. /\ \A e \in DOMAIN submitted : e \in DOMAIN submitted' /\ submitted'[e] = submitted[e]
      /\ \A e \in DOMAIN submitted' :
           \/ e \in DOMAIN submitted /\ submitted'[e] = submitted[e]
           \/ submitted'[e] = signed
  <2>1. submitted \in Seq(Envelope \cup {signed})
    BY DEF LoopInv, TypesOK
  <2>2. PICK T : T = Envelope \cup {signed}
    OBVIOUS
  <2> QED
    BY <1>3, <2>1, <2>2, AppendIs
<1>5. \A e \in DOMAIN submitted : WasPulled(e) => WasPulled(e)'
  BY <1>1, <1>4 DEF WasPulled
<1>6. (\A e \in DOMAIN submitted : JobPinned(submitted[e].job))'
  <2>1. \A e \in DOMAIN submitted' : \E j : j = submitted'[e].job /\ JobPinned(j)
    BY <1>1, <1>2, <1>4 DEF PinsOK
  <2> QED
    BY <1>1, <2>1 DEF JobPinned
<1>7. ASSUME NEW w \in Workers, work[w] # None PROVE TaskPinned(work[w])'
  <2>1. TaskPinned(work[w]) /\ work[w].signed.enq \in DOMAIN submitted
    BY <1>7, SMTT(30) DEF PinsOK, LoopInv, CustodyOK
  <2> QED
    BY <1>1, <1>5, <2>1 DEF TaskPinned, Pinned
<1> QED
  BY <1>1, <1>3, <1>4, <1>5, <1>6, <1>7 DEF PinsOK, Pinned

\* A report is filed under its own submission, and what it saw gets into the table.
LEMMA ReportKeepsPins ==
  ASSUME LoopInv, PinsOK, NEW w \in Workers, Report(w)
  PROVE  PinsOK'
<1> USE DEF worldVars
<1>1. PICK task, bundle :
        task = work[w] /\ bundle = S!Bundle(S!Context(ResultOf(w)), ResultOf(w))
  OBVIOUS
<1>2. /\ UNCHANGED <<updating, submitted, registry, pulled>> /\ task # None
      /\ work' = [work EXCEPT ![w] = None]
      /\ evidence' = Append(evidence, bundle)
  BY <1>1 DEF Report, S!Complete
<1>3. bundle.enq = task.signed.enq /\ bundle.status = task.status
  BY <1>1 DEF S!Bundle, ResultOf
<1>4. TaskPinned(task) /\ task.signed.enq \in DOMAIN submitted
  BY <1>1, <1>2 DEF PinsOK, LoopInv, CustodyOK
<1>5. \A id \in DOMAIN components' : Pinned(components'[id])
  <2>1. \A id \in DOMAIN components' :
          \/ id \in DOMAIN components /\ components'[id] = components[id]
          \/ \E i \in DOMAIN task.seen : components'[id] = task.seen[i]
    BY <1>1, ReportedTable
  <2> QED
    BY <1>4, <2>1 DEF PinsOK, TaskPinned
<1>6. \A v \in Workers : work'[v] # None => work'[v] = work[v]
  <2>1. work = [v \in Workers |-> work[v]]
    BY DEF LoopInv, TypesOK
  <2> QED
    BY <1>2, <2>1
<1>7. /\ evidence' \in Seq(Range(evidence'))
      /\ \A n \in DOMAIN evidence' :
           \/ n \in DOMAIN evidence /\ evidence'[n] = evidence[n]
           \/ evidence'[n] = bundle
  <2> DEFINE T == Range(evidence) \cup {bundle}
  <2>1. evidence \in Seq(T) /\ bundle \in T
    BY DEF PinsOK
  <2> HIDE DEF T
  <2>2. /\ evidence' \in Seq(T)
        /\ \A n \in DOMAIN evidence' :
             \/ n \in DOMAIN evidence /\ evidence'[n] = evidence[n]
             \/ evidence'[n] = bundle
    BY <1>2, <2>1, AppendIs
  <2>3. \A n \in DOMAIN evidence' : evidence'[n] \in Range(evidence')
    BY DEF Range
  <2> QED
    BY <2>2, <2>3
<1>8. \A n \in DOMAIN evidence' :
        /\ evidence'[n].enq \in DOMAIN submitted
        /\ evidence'[n].status = Succeeded => WasPulled(evidence'[n].enq)
  BY <1>3, <1>4, <1>7 DEF PinsOK, TaskPinned
<1>9. \A v \in Workers : work'[v] # None => TaskPinned(work'[v])
  BY <1>6 DEF PinsOK
<1>10. /\ (\A o \in updating : Pinned(o))'
       /\ (\A id \in DOMAIN components : Pinned(components[id]))'
       /\ (\A e \in DOMAIN submitted : JobPinned(submitted[e].job))'
       /\ (pulled = [e \in 1 .. MaxSubmitted |-> pulled[e]])'
  BY <1>2, <1>5, SMTT(30) DEF PinsOK, Pinned, JobPinned
<1>11. (\A v \in Workers : work[v] # None => TaskPinned(work[v]))'
  BY <1>2, <1>9 DEF TaskPinned, Pinned, WasPulled
<1>12. (\A n \in DOMAIN evidence :
          /\ evidence[n].enq \in DOMAIN submitted
          /\ evidence[n].status = Succeeded => WasPulled(evidence[n].enq))'
  BY <1>2, <1>8 DEF WasPulled
<1> QED
  BY <1>7, <1>10, <1>11, <1>12 DEF PinsOK

LEMMA StepKeepsPins ==
  ASSUME LoopInv, PinsOK, [Next]_vars, [TagsKept]_vars
  PROVE  PinsOK'
<1> USE DEF storeVars, worldVars, historyVars
<1>1. ASSUME /\ UNCHANGED <<submitted, registry, work, pulled>>
             /\ evidence' = evidence \/ evidence' = << >>
             /\ components' = components \/ components' = << >>
             /\ \/ updating' \subseteq updating
                \/ \E id \in DOMAIN components : updating' = updating \cup {components[id]}
      PROVE  PinsOK'
  <2>1. /\ evidence' \in Seq(Range(evidence'))
        /\ \A n \in DOMAIN evidence' : n \in DOMAIN evidence /\ evidence'[n] = evidence[n]
    <3>1. CASE evidence' = evidence
      BY <3>1 DEF PinsOK
    <3>2. CASE evidence' = << >>
      BY <3>2
    <3> QED
      BY <1>1, <3>1, <3>2
  <2> QED
    BY <1>1, <2>1 DEF PinsOK, Pinned, JobPinned, TaskPinned, WasPulled
<1>2. CASE UNCHANGED vars \/ Tick \/ Restart
  BY <1>1, <1>2 DEF vars, Tick, Restart
<1>3. CASE \E c \in Components : ReadComponent(c) \/ Delete(c)
  BY <1>1, <1>3 DEF ReadComponent, Delete
<1>4. CASE \E c \in Components, t \in Published, x \in Contents : Push(c, t, x)
  <2>1. UNCHANGED <<updating, components, submitted, work, pulled, evidence>>
    BY <1>4 DEF Push
  <2>2. TagsKept
    <3>1. CASE UNCHANGED vars
      BY <3>1 DEF vars, TagsKept
    <3> QED
      BY <3>1
  <2> QED
    BY <2>1, <2>2, PushKeepsPins
<1>5. CASE RequestInventory \/ EnqueueUpdate
  BY <1>5, SubmissionsKeepPins
<1>6. ASSUME NEW w \in Workers,
             \/ Take(w) \/ ListNamespace(w) \/ AskTags(w) \/ AskDigest(w) \/ EndInventory(w)
             \/ SetImage(w) \/ ExecutorFails(w) \/ Report(w) \/ Lose(w)
      PROVE  PinsOK'
  BY <1>6, QuietTasksKeepPins, LookupsKeepPins, SetImageKeepsPins, ReportKeepsPins
<1> QED
  BY <1>2, <1>3, <1>4, <1>5, <1>6, ZenonT(40) DEF Next

(***************************************************************************)
(* Evidence points to the content that was deployed, as long as nobody     *)
(* pushes a tag again with other content: for every set of deployments,    *)
(* workers and tags, however long the update waited, and whatever failed   *)
(* or restarted meanwhile.  That tags keep their content is all that the   *)
(* comment of Artifact takes for granted.                                  *)
(***************************************************************************)
THEOREM EvidenceIsContent == Spec /\ [][TagsKept]_vars => []EvidencePointsToContent
<1>1. Init => PinsOK
  BY InitPinsOK
<1>2. LoopInv /\ PinsOK /\ [Next]_vars /\ [TagsKept]_vars => PinsOK'
  BY StepKeepsPins
<1>3. PinsOK => EvidencePointsToContent
  BY DEF PinsOK, WasPulled, EvidencePointsToContent
<1> QED
  BY <1>1, <1>2, <1>3, LoopInvHolds, PTL DEF Spec
=============================================================================
