---------------------------- MODULE Images_proofs ----------------------------
(***************************************************************************)
(* Image references: what parseImageReference makes of any image that the  *)
(* grammar allows, whatever the registries, paths, tags and digests, and   *)
(* that composing and parsing are inverse.  A text is cut three times, at  *)
(* the first "@", at the colon of the tag and at the first "/"; each cut   *)
(* has a lemma of its own.                                                 *)
(***************************************************************************)
EXTENDS Images, SequenceTheorems, TLAPS

\* Texts of the tokens that occur in any part of a reference.
Given == Hosts \cup Paths \cup TagTexts \cup {Digest}
Token ==
  Punctuation \cup {"localhost", "registry-1", "docker", "io"}
    \cup UNION {ToSet(text) : text \in Given}
Texts == Seq(Token)

\* A token occurs in a text.
In(token, text) == \E i \in 1 .. Len(text) : text[i] = token

\* Of SequenceLemmas only what it says of sets of numbers is used.
Unused(c, sofar, token) == sofar
Numbers == INSTANCE SequenceLemmas WITH op <- Unused

-----------------------------------------------------------------------------
(* Places in a text. *)

\* The first place a token is at.
LEMMA FirstAtIs ==
  ASSUME NEW T, NEW text \in Seq(T), NEW token, NEW p, p = FirstAt(text, token)
  PROVE  IF In(token, text)
         THEN /\ p \in 1 .. Len(text) /\ text[p] = token
              /\ \A i \in 1 .. p - 1 : text[i] # token
         ELSE p = 0
<1> DEFINE places == {i \in 1 .. Len(text) : text[i] = token}
<1>1. p = IF places # {} THEN Min(places) ELSE 0
  BY DEF FirstAt, SelectInSeq
<1>2. Len(text) \in Nat
  OBVIOUS
<1>3. CASE places # {}
  <2>1. places \in SUBSET Nat
    BY <1>2
  <2>2. PICK n \in places : \A m \in places : n <= m
    BY <1>3, <2>1, Numbers!LeastNatural
  <2>3. p \in places /\ \A m \in places : p <= m
    BY <1>1, <1>3, <2>2 DEF Min
  <2>4. \A i \in 1 .. p - 1 : text[i] # token
    BY <1>2, <2>3
  <2> QED
    BY <1>2, <1>3, <2>3, <2>4 DEF In
<1> QED
  BY <1>1, <1>3 DEF In

\* The last place a token is at.
LEMMA LastAtIs ==
  ASSUME NEW T, NEW text \in Seq(T), NEW token, NEW p, p = LastAt(text, token)
  PROVE  IF In(token, text)
         THEN /\ p \in 1 .. Len(text) /\ text[p] = token
              /\ \A i \in 1 .. Len(text) : text[i] = token => i <= p
         ELSE p = 0
<1> DEFINE places == {i \in 1 .. Len(text) : text[i] = token}
<1>1. p = IF places # {} THEN Max(places) ELSE 0
  BY DEF LastAt, SelectLastInSeq
<1>2. Len(text) \in Nat
  OBVIOUS
<1>3. CASE places # {}
  <2>1. places \in SUBSET (1 .. Len(text))
    OBVIOUS
  <2>2. p \in places /\ \A m \in places : p >= m
    BY <1>1, <1>2, <1>3, <2>1, Numbers!MaxIs DEF Max, Numbers!Max
  <2> QED
    BY <1>2, <1>3, <2>2 DEF In
<1> QED
  BY <1>1, <1>3 DEF In

\* Two texts with a token between them fall apart at its place.
LEMMA CutAt ==
  ASSUME NEW T, NEW a \in Seq(T), NEW b \in Seq(T), NEW token \in T,
         NEW text, text = a \o <<token>> \o b, NEW p, p = Len(a) + 1
  PROVE  /\ text \in Seq(T) /\ Len(text) = Len(a) + 1 + Len(b)
         /\ text[p] = token
         /\ \A i \in 1 .. Len(a) : text[i] = a[i]
         /\ \A i \in 1 .. Len(b) : text[p + i] = b[i]
         /\ Before(text, p) = a /\ After(text, p) = b
<1>1. <<token>> \in Seq(T) /\ Len(<<token>>) = 1 /\ <<token>>[1] = token
  <2>1. <<token>> \in Seq(T)
    OBVIOUS
  <2>2. Len(<<token>>) = 1
    OBVIOUS
  <2>3. <<token>>[1] = token
    OBVIOUS
  <2> QED
    BY <2>1, <2>2, <2>3
<1> DEFINE front == a \o <<token>>
<1>2. /\ front \in Seq(T) /\ Len(front) = Len(a) + 1
      /\ \A i \in 1 .. Len(a) + 1 : front[i] = IF i <= Len(a) THEN a[i] ELSE token
  BY <1>1, ConcatProperties
<1> HIDE DEF front
<1>3. /\ text \in Seq(T) /\ Len(text) = Len(a) + 1 + Len(b)
      /\ \A i \in 1 .. Len(a) + 1 + Len(b) :
           text[i] = IF i <= Len(a) + 1 THEN front[i] ELSE b[i - (Len(a) + 1)]
  <2>1. text = front \o b
    BY DEF front
  <2> QED
    BY <1>2, <2>1, ConcatProperties
<1>4. Len(a) \in Nat /\ Len(b) \in Nat
  OBVIOUS
<1>5. /\ text[p] = token
      /\ \A i \in 1 .. Len(a) : text[i] = a[i]
      /\ \A i \in 1 .. Len(b) : text[p + i] = b[i]
  BY <1>2, <1>3, <1>4
<1>6. Before(text, p) = a
  <2>1. Before(text, p) = SubSeq(text, 1, Len(a))
    BY <1>4 DEF Before
  <2>2. Len(text) \in Nat /\ Len(a) <= Len(text)
    BY <1>3, <1>4
  <2>3. /\ SubSeq(text, 1, Len(a)) \in Seq(T)
        /\ Len(SubSeq(text, 1, Len(a))) = Len(a)
        /\ \A i \in 1 .. Len(a) : SubSeq(text, 1, Len(a))[i] = text[i]
    BY <1>3, <1>4, <2>2, SubSeqProperties, SMTT(30)
  <2> QED
    BY <1>5, <2>1, <2>3, SeqEqual
<1>7. After(text, p) = b
  <2>1. After(text, p) = SubSeq(text, p + 1, Len(text))
    BY <1>4, SMTT(30) DEF After
  <2>2. /\ SubSeq(text, p + 1, Len(text)) \in Seq(T)
        /\ Len(SubSeq(text, p + 1, Len(text))) = Len(b)
        /\ \A i \in 1 .. Len(b) : SubSeq(text, p + 1, Len(text))[i] = b[i]
    BY <1>3, <1>4, <1>5, SubSeqProperties, SMTT(30)
  <2> QED
    BY <2>1, <2>2, SeqEqual
<1> QED
  BY <1>3, <1>5, <1>6, <1>7

-----------------------------------------------------------------------------
(* The three cuts. *)

\* The first of a token that the front does not have.
LEMMA CutFirst ==
  ASSUME NEW T, NEW a \in Seq(T), NEW b \in Seq(T), NEW token \in T,
         ~ In(token, a), NEW text, text = a \o <<token>> \o b,
         NEW p, p = FirstAt(text, token)
  PROVE  p = Len(a) + 1
<1>1. PICK q : q = Len(a) + 1
  OBVIOUS
<1>2. /\ text \in Seq(T) /\ Len(text) = Len(a) + 1 + Len(b)
      /\ text[q] = token /\ \A i \in 1 .. Len(a) : text[i] = a[i]
  BY <1>1, CutAt
<1>3. Len(a) \in Nat /\ Len(b) \in Nat
  OBVIOUS
<1>4. q \in 1 .. Len(text)
  BY <1>1, <1>2, <1>3
<1>5. /\ p \in 1 .. Len(text) /\ text[p] = token
      /\ \A i \in 1 .. p - 1 : text[i] # token
  <2>1. In(token, text)
    BY <1>2, <1>4 DEF In
  <2> QED
    BY <1>1, <1>2, <2>1, FirstAtIs
<1>6. \A i \in 1 .. Len(a) : text[i] # token
  BY <1>2 DEF In
<1>7. p = q
  <2>1. p \in Nat \ {0} /\ q \in Nat \ {0}
    <3>1. Len(text) \in Nat
      BY <1>2, <1>3
    <3>2. p \in 1 .. Len(text) /\ q \in 1 .. Len(text)
      BY <1>4, <1>5
    <3> QED
      BY <3>1, <3>2
  <2>2. ~ p < q
    <3>1. p < q => p \in 1 .. Len(a)
      BY <1>1, <1>3, <2>1
    <3>2. text[p] = token
      BY <1>5
    <3> QED
      BY <1>6, <3>1, <3>2
  <2>3. ~ q < p
    <3>1. q < p => q \in 1 .. p - 1
      BY <2>1
    <3> QED
      BY <1>2, <1>5, <3>1
  <2> QED
    BY <2>1, <2>2, <2>3
<1> QED
  BY <1>1, <1>7

\* A text without the token is not cut.
LEMMA NotCut ==
  ASSUME NEW T, NEW text \in Seq(T), NEW token, ~ In(token, text)
  PROVE  /\ FirstAt(text, token) = 0 /\ LastAt(text, token) = 0
         /\ Before(text, 0) = text /\ After(text, 0) = << >>
BY FirstAtIs, LastAtIs DEF Before, After

\* What is in a composed text.
LEMMA InComposed ==
  ASSUME NEW T, NEW a \in Seq(T), NEW b \in Seq(T), NEW token \in T, NEW other
  PROVE  /\ In(other, a \o <<token>> \o b) <=> In(other, a) \/ other = token \/ In(other, b)
         /\ In(other, a \o b) <=> In(other, a) \/ In(other, b)
         /\ a \o <<token>> \o b = a \o (<<token>> \o b)
         /\ a \o b \in Seq(T)
<1>1. Len(a) \in Nat /\ Len(b) \in Nat
  OBVIOUS
<1>2. <<token>> \in Seq(T) /\ a \o <<token>> \o b = a \o (<<token>> \o b)
  BY ConcatAssociative
<1>3. In(other, a \o <<token>> \o b) <=> In(other, a) \/ other = token \/ In(other, b)
  <2> DEFINE text == a \o <<token>> \o b
             p == Len(a) + 1
  <2>1. /\ Len(text) = Len(a) + 1 + Len(b) /\ text[p] = token
        /\ \A i \in 1 .. Len(a) : text[i] = a[i]
        /\ \A i \in 1 .. Len(b) : text[p + i] = b[i]
    BY CutAt
  <2> HIDE DEF text
  <2>2. \A i \in 1 .. Len(text) : i \in 1 .. Len(a) \/ i = p \/ i - p \in 1 .. Len(b)
    BY <1>1, <2>1
  <2>3. \A i \in 1 .. Len(text) : i - p \in 1 .. Len(b) => text[i] = b[i - p]
    BY <1>1, <2>1
  <2>4. In(other, text) => In(other, a) \/ other = token \/ In(other, b)
    BY <2>1, <2>2, <2>3 DEF In
  <2>5. In(other, a) \/ other = token \/ In(other, b) => In(other, text)
    <3>1. 1 .. Len(a) \subseteq 1 .. Len(text) /\ p \in 1 .. Len(text)
          /\ \A i \in 1 .. Len(b) : p + i \in 1 .. Len(text)
      BY <1>1, <2>1
    <3> HIDE DEF p
    <3> QED
      BY <2>1, <3>1 DEF In
  <2> QED
    BY <2>4, <2>5 DEF text
<1>4. In(other, a \o b) <=> In(other, a) \/ In(other, b)
  <2> DEFINE text == a \o b
             n == Len(a)
  <2>1. /\ Len(text) = Len(a) + Len(b)
        /\ \A i \in 1 .. Len(text) : text[i] = IF i <= n THEN a[i] ELSE b[i - n]
    BY ConcatProperties
  <2> HIDE DEF text
  <2>2. \A i \in 1 .. Len(b) : n + i \in 1 .. Len(text) /\ text[n + i] = b[i]
    BY <1>1, <2>1
  <2>3. \A i \in 1 .. Len(a) : i \in 1 .. Len(text) /\ text[i] = a[i]
    BY <1>1, <2>1
  <2>4. \A i \in 1 .. Len(text) :
          \/ i \in 1 .. Len(a) /\ text[i] = a[i]
          \/ i - n \in 1 .. Len(b) /\ text[i] = b[i - n]
    BY <1>1, <2>1
  <2> HIDE DEF n
  <2> QED
    BY <2>2, <2>3, <2>4, ZenonT(40) DEF In, text
<1> QED
  BY <1>2, <1>3, <1>4, ConcatProperties
-----------------------------------------------------------------------------
(* The parts of a reference. *)

Registries == Hosts \cup {<<"localhost">>, DockerHub}
Tags == TagTexts \cup {<< >>}
Digests == {<< >>, Digest}

LEMMA Marks == {"/", ":", "@", "."} \subseteq Token
BY DEF Token, Punctuation

\* What is given is made of tokens.
LEMMA GivenAreTexts == Given \subseteq Texts
<1> SUFFICES ASSUME NEW text \in Given PROVE text \in Texts
  OBVIOUS
<1>1. text \in Seq(ToSet(text))
  BY ImagesAssumption DEF Given
<1>2. ToSet(text) \subseteq Token
  BY DEF Token
<1> QED
  BY <1>1, <1>2 DEF Texts

\* What ImagesAssumption says of the parts, by tokens.
LEMMA PartsAre ==
  /\ \A path \in Paths :
       /\ path \in Texts /\ path # << >>
       /\ ~ In(".", path) /\ ~ In(":", path) /\ ~ In("@", path)
       /\ path[1] \notin {"/", "localhost"}
  /\ \A tag \in Tags :
       tag \in Texts /\ ~ In("/", tag) /\ ~ In(":", tag) /\ ~ In("@", tag)
  /\ << >> \notin TagTexts
  /\ \A digest \in Digests : digest \in Texts
  /\ Digest # << >>
<1>1. \A s \in Texts : \A token : token \in ToSet(s) <=> In(token, s)
  BY DEF ToSet, In, Texts
<1>2. Paths \cup TagTexts \cup {Digest} \subseteq Texts /\ << >> \in Texts
  BY GivenAreTexts DEF Texts, Given
<1>3. \A token : ~ In(token, << >>)
  BY DEF In
<1>4. \A path \in Paths :
        /\ path # << >>
        /\ ~ In(".", path) /\ ~ In(":", path) /\ ~ In("@", path)
        /\ path[1] \notin {"/", "localhost"}
  BY <1>1, <1>2, ImagesAssumption DEF Punctuation
<1>5. \A tag \in TagTexts :
        tag # << >> /\ ~ In("/", tag) /\ ~ In(":", tag) /\ ~ In("@", tag)
  BY <1>1, <1>2, ImagesAssumption
<1>6. Digest # << >>
  BY ImagesAssumption
<1> QED
  BY <1>2, <1>3, <1>4, <1>5, <1>6 DEF Tags, Digests

\* A registry is told from a path by a dot, a port, or its name.
LEMMA RegistriesAre ==
  \A registry \in Registries :
    /\ registry \in Texts /\ registry # << >> /\ IsRegistry(registry)
    /\ ~ In("/", registry) /\ ~ In("@", registry)
<1>1. \A s \in Texts : \A token : token \in ToSet(s) <=> In(token, s)
  BY DEF ToSet, In, Texts
<1>2. ASSUME NEW host \in Hosts
      PROVE  /\ host \in Texts /\ host # << >> /\ IsRegistry(host)
             /\ ~ In("/", host) /\ ~ In("@", host)
  <2>1. host \in Texts
    BY GivenAreTexts DEF Given
  <2>2. IsRegistry(host) /\ ~ In("/", host) /\ ~ In("@", host)
    BY <1>1, <2>1, ImagesAssumption DEF IsRegistry
  <2>3. In(".", host) \/ In(":", host)
    BY <1>1, <2>1, ImagesAssumption
  <2> QED
    BY <2>1, <2>2, <2>3 DEF In
<1>3. LET local == <<"localhost">> IN
        /\ local \in Texts /\ local # << >> /\ IsRegistry(local)
        /\ ~ In("/", local) /\ ~ In("@", local)
  <2> DEFINE local == <<"localhost">>
  <2>1. local \in Texts /\ Len(local) = 1 /\ local[1] = "localhost"
    BY DEF Texts, Token
  <2>2. ~ In("/", local) /\ ~ In("@", local)
    BY <2>1 DEF In
  <2> QED
    BY <2>1, <2>2 DEF IsRegistry
<1>4. /\ DockerHub \in Texts /\ DockerHub # << >> /\ IsRegistry(DockerHub)
      /\ ~ In("/", DockerHub) /\ ~ In("@", DockerHub)
  <2>1. DockerHub \in Texts /\ Len(DockerHub) = 5 /\ DockerHub[2] = "."
    BY DEF DockerHub, Texts, Token, Punctuation
  <2>2. \A i \in 1 .. 5 : DockerHub[i] # "/" /\ DockerHub[i] # "@"
    BY DEF DockerHub
  <2>3. In(".", DockerHub) /\ ~ In("/", DockerHub) /\ ~ In("@", DockerHub)
    BY <2>1, <2>2 DEF In
  <2> QED
    BY <1>1, <2>1, <2>3 DEF IsRegistry
<1> QED
  BY <1>2, <1>3, <1>4 DEF Registries

\* The colon of a tag.
LEMMA TagIsLast ==
  ASSUME NEW head \in Texts, NEW tag \in Texts, ~ In("/", tag), ~ In(":", tag),
         NEW text, text = head \o <<":">> \o tag
  PROVE  /\ TagPlace(text) = Len(head) + 1
         /\ Before(text, TagPlace(text)) = head /\ After(text, TagPlace(text)) = tag
<1>1. PICK q, colon, slash :
        q = Len(head) + 1 /\ colon = LastAt(text, ":") /\ slash = LastAt(text, "/")
  OBVIOUS
<1>2. /\ text \in Texts /\ Len(text) = Len(head) + 1 + Len(tag) /\ text[q] = ":"
      /\ \A i \in 1 .. Len(tag) : text[q + i] = tag[i]
  BY <1>1, CutAt, Marks DEF Texts
<1>3. Before(text, q) = head /\ After(text, q) = tag
  BY <1>1, CutAt, Marks DEF Texts, Before, After
<1>4. Len(head) \in Nat /\ Len(tag) \in Nat /\ q \in 1 .. Len(text)
  BY <1>1, <1>2 DEF Texts
<1>5. \A i \in 1 .. Len(text) : i > q => i - q \in 1 .. Len(tag) /\ text[i] = tag[i - q]
  BY <1>1, <1>2, <1>4
<1>6. \A i \in 1 .. Len(text) : i > q => text[i] # ":" /\ text[i] # "/"
  BY <1>5 DEF In
<1>7. /\ colon \in 1 .. Len(text) /\ text[colon] = ":" /\ q <= colon
  <2>1. In(":", text)
    BY <1>2, <1>4 DEF In
  <2> QED
    BY <1>1, <1>2, <1>4, <2>1, LastAtIs DEF Texts
<1>8. slash = 0 \/ (slash \in 1 .. Len(text) /\ text[slash] = "/")
  BY <1>1, <1>2, LastAtIs DEF Texts
<1>9. colon = q /\ ~ slash >= q
  <2>1. ~ colon > q
    BY <1>6, <1>7
  <2>2. ~ slash > q
    BY <1>4, <1>6, <1>8
  <2>3. slash # q
    BY <1>2, <1>4, <1>8
  <2> QED
    BY <1>1, <1>4, <1>7, <1>8, <2>1, <2>2, <2>3
<1>10. TagPlace(text) = q
  BY <1>1, <1>4, <1>8, <1>9 DEF TagPlace
<1> QED
  BY <1>1, <1>3, <1>10

\* A port is no tag: its colon is before the last "/".
LEMMA PortIsNoTag ==
  ASSUME NEW registry \in Texts, NEW path \in Texts, ~ In(":", path),
         NEW text, text = registry \o <<"/">> \o path
  PROVE  TagPlace(text) = 0
<1>1. PICK q, colon, slash :
        q = Len(registry) + 1 /\ colon = LastAt(text, ":") /\ slash = LastAt(text, "/")
  OBVIOUS
<1>2. /\ text \in Texts /\ Len(text) = Len(registry) + 1 + Len(path) /\ text[q] = "/"
      /\ \A i \in 1 .. Len(path) : text[q + i] = path[i]
  BY <1>1, CutAt, Marks DEF Texts
<1>3. Len(registry) \in Nat /\ Len(path) \in Nat /\ q \in 1 .. Len(text)
  BY <1>1, <1>2 DEF Texts
<1>4. \A i \in 1 .. Len(text) : i > q => i - q \in 1 .. Len(path) /\ text[i] = path[i - q]
  BY <1>1, <1>2, <1>3
<1>5. \A i \in 1 .. Len(text) : i > q => text[i] # ":"
  BY <1>4 DEF In
<1>6. slash \in 1 .. Len(text) /\ q <= slash
  <2>1. In("/", text)
    BY <1>2, <1>3 DEF In
  <2> QED
    BY <1>1, <1>2, <1>3, <2>1, LastAtIs DEF Texts
<1>7. colon = 0 \/ (colon \in 1 .. Len(text) /\ text[colon] = ":")
  BY <1>1, <1>2, LastAtIs DEF Texts
<1>8. ~ colon > slash
  <2>1. ~ colon > q
    BY <1>3, <1>5, <1>7
  <2> QED
    BY <1>1, <1>3, <1>6, <1>7, <2>1
<1> QED
  BY <1>1, <1>8 DEF TagPlace
\* A text with its tag, if it has one, behind a colon.
Tagged(head, tag) == head \o (IF tag = << >> THEN << >> ELSE <<":">> \o tag)

\* A repository path with its registry, if it names one, in front.
Located(registry, path) ==
  (IF registry = << >> THEN << >> ELSE registry \o <<"/">>) \o path

\* The first cut: at the digest.
LEMMA DigestCut ==
  ASSUME NEW named \in Texts, ~ In("@", named), NEW digest \in Digests
  PROVE  \E raw :
           /\ raw = named \o (IF digest = << >> THEN << >> ELSE <<"@">> \o digest)
           /\ Before(raw, FirstAt(raw, "@")) = named
           /\ After(raw, FirstAt(raw, "@")) = digest
<1>1. digest \in Texts
  BY PartsAre
<1>2. CASE digest = << >>
  <2>1. named = named \o << >>
    BY ConcatEmptySeq DEF Texts
  <2>2. Before(named, FirstAt(named, "@")) = named /\ After(named, FirstAt(named, "@")) = << >>
    BY NotCut DEF Texts
  <2> QED
    BY <1>2, <2>1, <2>2
<1>3. CASE digest # << >>
  <2>1. PICK raw : raw = named \o <<"@">> \o digest
    OBVIOUS
  <2>2. raw = named \o (<<"@">> \o digest)
    BY <1>1, <2>1, InComposed, Marks DEF Texts
  <2>3. Before(raw, FirstAt(raw, "@")) = named /\ After(raw, FirstAt(raw, "@")) = digest
    <3>1. PICK p : p = FirstAt(raw, "@")
      OBVIOUS
    <3>2. Before(raw, p) = named /\ After(raw, p) = digest
      <4>1. named \in Seq(Token) /\ digest \in Seq(Token) /\ "@" \in Token
        BY <1>1, Marks DEF Texts
      <4>2. p = Len(named) + 1
        BY <2>1, <3>1, <4>1, CutFirst
      <4> QED
        BY <2>1, <4>1, <4>2, CutAt DEF Before, After
    <3> QED
      BY <3>1, <3>2
  <2> QED
    BY <1>3, <2>2, <2>3
<1> QED
  BY <1>2, <1>3

\* The second cut: at the tag.
LEMMA TagCut ==
  ASSUME NEW registry \in Registries \cup {<< >>}, NEW path \in Paths, NEW tag \in Tags,
         NEW head, head = Located(registry, path), NEW named, named = Tagged(head, tag)
  PROVE  /\ head \in Texts /\ named \in Texts /\ ~ In("@", named)
         /\ Before(named, TagPlace(named)) = head
         /\ After(named, TagPlace(named)) = tag
<1>1. /\ path \in Texts /\ ~ In(":", path) /\ ~ In("@", path)
      /\ tag \in Texts /\ ~ In("/", tag) /\ ~ In(":", tag) /\ ~ In("@", tag)
  BY PartsAre
<1>2. head \in Texts /\ ~ In("@", head) /\ TagPlace(head) = 0
  <2>1. CASE registry = << >>
    <3>1. head = path
      BY <1>1, <2>1, ConcatEmptySeq DEF Located, Texts
    <3>2. LastAt(path, ":") = 0
      BY <1>1, NotCut DEF Texts
    <3>3. LastAt(path, "/") \in Nat
      <4>1. PICK p : p = LastAt(path, "/")
        OBVIOUS
      <4>2. p = 0 \/ p \in 1 .. Len(path)
        BY <1>1, <4>1, LastAtIs DEF Texts
      <4> QED
        BY <1>1, <4>1, <4>2 DEF Texts
    <3> QED
      BY <1>1, <3>1, <3>2, <3>3 DEF TagPlace
  <2>2. CASE registry # << >>
    <3>1. registry \in Texts /\ ~ In("@", registry)
      BY <2>2, RegistriesAre
    <3>2. head = registry \o <<"/">> \o path
      BY <2>2 DEF Located
    <3>3. head \in Texts
      BY <1>1, <3>1, <3>2, CutAt, Marks DEF Texts
    <3>4. ~ In("@", head)
      BY <1>1, <3>1, <3>2, InComposed, Marks DEF Texts
    <3> QED
      BY <1>1, <3>1, <3>2, <3>3, <3>4, PortIsNoTag
  <2> QED
    BY <2>1, <2>2
<1>3. CASE tag = << >>
  <2>1. named = head
    BY <1>2, <1>3, ConcatEmptySeq DEF Tagged, Texts
  <2> QED
    BY <1>2, <1>3, <2>1 DEF Before, After
<1>4. CASE tag # << >>
  <2>1. named = head \o <<":">> \o tag
    BY <1>1, <1>2, <1>4, InComposed, Marks, SMTT(30) DEF Tagged, Texts
  <2>2. named \in Texts
    BY <1>1, <1>2, <2>1, CutAt, Marks DEF Texts
  <2>3. ~ In("@", named)
    BY <1>1, <1>2, <2>1, InComposed, Marks DEF Texts
  <2> QED
    BY <1>1, <1>2, <2>1, <2>2, <2>3, TagIsLast
<1> QED
  BY <1>2, <1>3, <1>4

\* The third cut: at the registry, if what is before the first "/" is one.
LEMMA RegistryCut ==
  ASSUME NEW registry \in Registries \cup {<< >>}, NEW path \in Paths
  PROVE  \E head, slash :
           /\ head = Located(registry, path) /\ slash = FirstAt(head, "/")
           /\ IF registry = << >>
              THEN head = path /\ ~ (slash # 0 /\ IsRegistry(Before(head, slash)))
              ELSE /\ slash # 0 /\ IsRegistry(Before(head, slash))
                   /\ Before(head, slash) = registry /\ After(head, slash) = path
<1>1. /\ path \in Texts /\ path # << >> /\ ~ In(".", path) /\ ~ In(":", path)
      /\ path[1] \notin {"/", "localhost"}
  BY PartsAre
<1>2. CASE registry = << >>
  <2>1. PICK slash : slash = FirstAt(path, "/")
    OBVIOUS
  <2>2. SUFFICES ASSUME slash # 0 PROVE ~ IsRegistry(Before(path, slash))
    <3>1. path = Located(registry, path)
      BY <1>1, <1>2, ConcatEmptySeq DEF Located, Texts
    <3> QED
      BY <1>2, <2>1, <3>1
  <2>3. slash \in 1 .. Len(path) /\ path[slash] = "/"
    BY <1>1, <2>1, <2>2, FirstAtIs DEF Texts
  <2>4. slash # 1 /\ Len(path) \in Nat
    BY <1>1, <2>3 DEF Texts
  <2> DEFINE first == Before(path, slash)
  <2>5. first = SubSeq(path, 1, slash - 1)
    BY <2>2 DEF Before
  <2>6. /\ first \in Texts /\ Len(first) = slash - 1
        /\ \A i \in 1 .. slash - 1 : first[i] = path[i]
    <3>1. \A i \in 1 .. slash - 1 : path[i] \in Token
      BY <1>1, <2>3, <2>4 DEF Texts
    <3>2. slash - 1 \in Int /\ 1 <= slash - 1
      BY <2>3, <2>4
    <3> QED
      BY <2>5, <3>1, <3>2, SubSeqProperties DEF Texts
  <2> HIDE DEF first
  <2>7. \A i \in 1 .. slash - 1 : i \in 1 .. Len(path)
    BY <2>3, <2>4
  <2>8. ~ In(".", first) /\ ~ In(":", first)
    BY <1>1, <2>6, <2>7 DEF In
  <2>9. {".", ":"} \cap ToSet(first) = {}
    BY <2>6, <2>8 DEF ToSet, In, Texts
  <2>10. first # <<"localhost">>
    <3>1. first[1] # "localhost"
      BY <1>1, <2>3, <2>4, <2>6
    <3> QED
      BY <3>1
  <2> QED
    BY <2>9, <2>10 DEF IsRegistry, first
<1>3. CASE registry # << >>
  <2>1. registry \in Texts /\ ~ In("/", registry) /\ IsRegistry(registry)
    BY <1>3, RegistriesAre
  <2>2. PICK head, slash : head = registry \o <<"/">> \o path /\ slash = FirstAt(head, "/")
    OBVIOUS
  <2>3. /\ slash = Len(registry) + 1
        /\ Before(head, slash) = registry /\ After(head, slash) = path
    <3>1. registry \in Seq(Token) /\ path \in Seq(Token) /\ "/" \in Token
      BY <1>1, <2>1, Marks DEF Texts
    <3>2. slash = Len(registry) + 1
      BY <2>1, <2>2, <3>1, CutFirst, ZenonT(40)
    <3> QED
      BY <2>2, <3>1, <3>2, CutAt, SMTT(30) DEF Before, After
  <2>4. Len(registry) \in Nat /\ head = Located(registry, path)
    BY <1>3, <2>1, <2>2 DEF Texts, Located
  <2> QED
    <3>1. slash # 0
      BY <2>3, <2>4
    <3> QED
      BY <1>3, <2>1, <2>2, <2>3, <2>4, <3>1
<1> QED
  BY <1>2, <1>3

\* References as the world composes them: those of authors, and those of
\* withTag, which always name a registry.
Composed ==
  [registry : Registries \cup {<< >>}, repository : Paths, tag : Tags, digest : Digests]

\* What a reference means: no registry is the default one.
Meant(ref) == [ref EXCEPT !.registry = IF @ = << >> THEN DockerHub ELSE @]

(***************************************************************************)
(* Parsing inverts composing: parseImageReference gives back the registry, *)
(* the repository, the tag and the digest that any image of the grammar    *)
(* was put together from.                                                  *)
(***************************************************************************)
THEOREM ParsingInvertsComposing ==
  \A ref \in Composed : ParseImage(Rendered(ref)) = Meant(ref)
<1> SUFFICES ASSUME NEW ref \in Composed PROVE ParseImage(Rendered(ref)) = Meant(ref)
  OBVIOUS
<1>1. /\ ref.registry \in Registries \cup {<< >>} /\ ref.repository \in Paths
      /\ ref.tag \in Tags /\ ref.digest \in Digests
      /\ ref = [registry |-> ref.registry, repository |-> ref.repository,
                tag |-> ref.tag, digest |-> ref.digest]
  BY DEF Composed
<1>2. PICK head, named, raw :
        /\ head = Located(ref.registry, ref.repository)
        /\ named = Tagged(head, ref.tag)
        /\ raw = Rendered(ref)
  OBVIOUS
<1>3. raw = named \o (IF ref.digest = << >> THEN << >> ELSE <<"@">> \o ref.digest)
  BY <1>2 DEF Rendered, Located, Tagged
<1>4. /\ head \in Texts /\ named \in Texts /\ ~ In("@", named)
      /\ Before(named, TagPlace(named)) = head
      /\ After(named, TagPlace(named)) = ref.tag
  BY <1>1, <1>2, TagCut
<1>5. /\ Before(raw, FirstAt(raw, "@")) = named
      /\ After(raw, FirstAt(raw, "@")) = ref.digest
  BY <1>1, <1>3, <1>4, DigestCut
<1>6. PICK slash :
      /\ slash = FirstAt(head, "/")
      /\ IF ref.registry = << >>
         THEN head = ref.repository /\ ~ (slash # 0 /\ IsRegistry(Before(head, slash)))
         ELSE /\ slash # 0 /\ IsRegistry(Before(head, slash))
              /\ Before(head, slash) = ref.registry /\ After(head, slash) = ref.repository
  BY <1>1, <1>2, RegistryCut
<1>7. ParseImage(raw) =
        LET hosted == slash # 0 /\ IsRegistry(Before(head, slash)) IN
        [registry   |-> IF hosted THEN Before(head, slash) ELSE DockerHub,
         repository |-> IF hosted THEN After(head, slash) ELSE head,
         tag        |-> ref.tag,
         digest     |-> ref.digest]
  BY <1>4, <1>5, <1>6 DEF ParseImage
<1>8. ParseImage(raw) =
        [registry   |-> IF ref.registry = << >> THEN DockerHub ELSE ref.registry,
         repository |-> ref.repository, tag |-> ref.tag, digest |-> ref.digest]
  BY <1>6, <1>7
<1> QED
  BY <1>1, <1>2, <1>8 DEF Meant
-----------------------------------------------------------------------------
(* Images in the cluster. *)

\* The image is one that was composed, by its author or by an update, and it
\* means what was written; of a default registry only the update says so.
ComposedOK ==
  /\ written \in References
  /\ \E ref \in Composed : image = Rendered(ref) /\ Meant(ref) = Meant(written)

LEMMA ReferencesAreComposed ==
  \A ref \in References : ref \in Composed
<1>1. Hosts \cup {<< >>, <<"localhost">>} \subseteq Registries \cup {<< >>}
  BY DEF Registries
<1> QED
  BY <1>1 DEF References, Composed, Tags, Digests

LEMMA ComposedParses ==
  ASSUME ComposedOK
  PROVE  ParseImage(image) = Meant(written)
BY ParsingInvertsComposing DEF ComposedOK

LEMMA DeployKeepsComposed ==
  ASSUME DeployAnother
  PROVE  ComposedOK'
<1>1. written' \in References /\ image' = Rendered(written')
  BY DEF DeployAnother
<1>2. written' \in Composed
  BY <1>1, ReferencesAreComposed
<1> QED
  BY <1>1, <1>2 DEF ComposedOK, Meant

\* withTag composes a reference like any other.
LEMMA WithTagIsComposed ==
  ASSUME NEW ref \in Composed, ref.registry # << >>, NEW tag \in TagTexts
  PROVE  /\ [ref EXCEPT !.tag = tag, !.digest = << >>] \in Composed
         /\ WithTag(ref, tag) = Rendered([ref EXCEPT !.tag = tag, !.digest = << >>])
<1>1. /\ ref.registry \in Registries /\ ref.repository \in Paths /\ tag \in Tags
      /\ tag # << >>
  BY PartsAre DEF Composed, Tags
<1> DEFINE new == [ref EXCEPT !.tag = tag, !.digest = << >>]
<1>2. /\ new \in Composed
      /\ new.registry = ref.registry /\ new.repository = ref.repository
      /\ new.tag = tag /\ new.digest = << >>
  BY <1>1 DEF Composed, Digests
<1> HIDE DEF new
<1>3. PICK head : head = Located(ref.registry, ref.repository)
  OBVIOUS
<1>4. head = ref.registry \o <<"/">> \o ref.repository
  BY <1>3 DEF Located
<1>5. head \in Seq(Token) /\ tag \in Seq(Token) /\ ":" \in Token
  <2>1. head \in Texts
    BY <1>1, <1>3, TagCut
  <2> QED
    BY <1>1, <2>1, PartsAre, Marks DEF Texts
<1>6. /\ head \o <<":">> \o tag = head \o (<<":">> \o tag)
      /\ head \o <<":">> \o tag \in Seq(Token)
  <2>1. head \o <<":">> \o tag = head \o (<<":">> \o tag)
    BY <1>5, InComposed
  <2>2. head \o <<":">> \o tag \in Seq(Token)
    BY <1>5, CutAt
  <2> QED
    BY <2>1, <2>2
<1>7. Rendered(new) = head \o (<<":">> \o tag) \o << >>
  BY <1>1, <1>2, <1>4 DEF Rendered
<1>8. Rendered(new) = head \o <<":">> \o tag
  BY <1>6, <1>7, ConcatEmptySeq
<1>9. WithTag(ref, tag) = head \o <<":">> \o tag
  BY <1>4 DEF WithTag
<1> QED
  BY <1>2, <1>8, <1>9 DEF new

LEMMA UpdateKeepsComposed ==
  ASSUME ComposedOK, NEW tag \in TagTexts,
         image' = WithTag(ParseImage(image), tag),
         written' = [written EXCEPT !.tag = tag, !.digest = << >>]
  PROVE  ComposedOK'
<1>1. written' \in References
  BY DEF ComposedOK, References
<1>2. PICK ref \in Composed : image = Rendered(ref) /\ Meant(ref) = Meant(written)
  BY DEF ComposedOK
<1>3. Meant(ref) \in Composed /\ Meant(ref).registry # << >>
  <2>1. DockerHub \in Registries /\ DockerHub # << >>
    BY RegistriesAre DEF Registries
  <2> QED
    BY <2>1 DEF Composed, Meant
<1> DEFINE new == [Meant(ref) EXCEPT !.tag = tag, !.digest = << >>]
<1>4. new \in Composed /\ image' = Rendered(new)
  BY <1>2, <1>3, WithTagIsComposed, ParsingInvertsComposing
<1>5. Meant(new) = Meant(written')
  <2>1. written \in References
    BY DEF ComposedOK
  <2>2. new = [Meant(written) EXCEPT !.tag = tag, !.digest = << >>]
    BY <1>2
  <2>3. Meant(new) = new
    BY <1>2, <1>3 DEF Meant, Composed
  <2>4. Meant(written') = [Meant(written) EXCEPT !.tag = tag, !.digest = << >>]
    BY <2>1 DEF Meant, References
  <2> QED
    BY <2>2, <2>3, <2>4
<1> QED
  BY <1>1, <1>4, <1>5 DEF ComposedOK

LEMMA StepKeepsComposed ==
  ASSUME ComposedOK, [Next]_vars
  PROVE  ComposedOK'
<1>1. CASE DeployAnother
  BY <1>1, DeployKeepsComposed
<1>2. CASE Update
  <2>1. PICK tag \in TagTexts :
          /\ image' = WithTag(ParseImage(image), tag)
          /\ written' = [written EXCEPT !.tag = tag, !.digest = << >>]
    BY <1>2 DEF Update
  <2> QED
    BY <2>1, UpdateKeepsComposed
<1>3. CASE UNCHANGED vars
  BY <1>3 DEF vars, ComposedOK
<1> QED
  BY <1>1, <1>2, <1>3 DEF Next

(***************************************************************************)
(* Every image of the cluster is composed: parts of the grammar, put       *)
(* together by an author or by withTag, that mean what was written.        *)
(***************************************************************************)
THEOREM ImagesAreComposed == Spec => []ComposedOK
<1>1. Init => ComposedOK
  BY ReferencesAreComposed DEF Init, ComposedOK, Meant
<1>2. ComposedOK /\ [Next]_vars => ComposedOK'
  BY StepKeepsComposed
<1> QED
  BY <1>1, <1>2, PTL DEF Spec

(***************************************************************************)
(* ParsedAsWritten is an invariant: parseImageReference finds in every     *)
(* image what its author, or the update, meant.                            *)
(***************************************************************************)
THEOREM ImagesParsedAsWritten == Spec => []ParsedAsWritten
<1>1. ComposedOK => ParsedAsWritten
  BY ComposedParses DEF ParsedAsWritten, Meant
<1> QED
  BY <1>1, ImagesAreComposed, PTL

\* What an update does to what is parsed.
LEMMA UpdateStays ==
  ASSUME ComposedOK, ComposedOK', Update
  PROVE  LET old == ParseImage(image)
             new == ParseImage(image') IN
         /\ new.registry = old.registry /\ new.repository = old.repository
         /\ new.digest = << >>
         /\ image' = WithTag(old, Version(new))
<1>1. PICK tag \in TagTexts :
        /\ image' = WithTag(ParseImage(image), tag)
        /\ written' = [written EXCEPT !.tag = tag, !.digest = << >>]
  BY DEF Update
<1>2. ParseImage(image) = Meant(written) /\ ParseImage(image') = Meant(written')
  <2>1. ParseImage(image) = Meant(written)
    BY ComposedParses
  <2>2. PICK ref \in Composed : image' = Rendered(ref) /\ Meant(ref) = Meant(written')
    BY DEF ComposedOK
  <2>3. ParseImage(image') = Meant(written')
    BY <2>2, ParsingInvertsComposing
  <2> QED
    BY <2>1, <2>3
<1>3. Meant(written') = [Meant(written) EXCEPT !.tag = tag, !.digest = << >>]
  BY <1>1 DEF ComposedOK, Meant, References
<1>4. /\ Meant(written').registry = Meant(written).registry
      /\ Meant(written').repository = Meant(written).repository
      /\ Meant(written').tag = tag /\ Meant(written').digest = << >>
  BY <1>3 DEF ComposedOK, Meant, References
<1>5. Version(Meant(written')) = tag
  BY <1>4, PartsAre DEF Version
<1> QED
  BY <1>1, <1>2, <1>4, <1>5

(***************************************************************************)
(* UpdatesStayInRepository holds of every step: an update changes the tag  *)
(* and drops the digest, never the registry or the repository, and what is *)
(* parsed afterwards shows the tag that was offered.                       *)
(***************************************************************************)
THEOREM UpdatesKeepRepository == Spec => UpdatesStayInRepository
<1>1. ComposedOK /\ ComposedOK' /\ [Next]_vars =>
        [Update =>
           LET old == ParseImage(image)
               new == ParseImage(image') IN
           /\ new.registry = old.registry /\ new.repository = old.repository
           /\ new.digest = << >>
           /\ image' = WithTag(old, Version(new))]_vars
  BY UpdateStays
<1> QED
  BY <1>1, ImagesAreComposed, PTL DEF Spec, UpdatesStayInRepository
=============================================================================
