--------------------------- MODULE SourcesProofs ---------------------------
(***************************************************************************)
(* Theorems about what the sources deliver: first Feeds (with Profiles),   *)
(* which turns a provider's body into keys, then SourceSync, which puts    *)
(* the keys of a source into the table.                                    *)
(*                                                                         *)
(* Feeds: for every set of bodies.  What an entry adds to a result keeps   *)
(* one key per identity; that is carried along a body of any length by     *)
(* well-founded induction over its lines.  Two presentations of a profile  *)
(* have one fingerprint since moving and respelling the parameters of a    *)
(* link neither changes the data it stands for nor the extra lines.        *)
(* A canonical link is written in the order of the names: what is read     *)
(* from it is what was written, and writing that again moves nothing.      *)
(*                                                                         *)
(* SourceSync: for every set of sources, jobs and editors.  The inductive  *)
(* invariant adds to the types what the lease table means: numbers in use  *)
(* are distinct and no larger than the sequence, a worker between the two  *)
(* statements of a status write holds App.mu and still owns its source,    *)
(* and a worker that may still speak has not been published.  A second     *)
(* invariant, at the end, says what the records tell.                      *)
(***************************************************************************)
EXTENDS SourceSync, Feeds,
        FiniteSetTheorems, FunctionTheorems, SequenceTheorems, WellFoundedInduction, TLAPS

\* The library's order on the natural numbers, as a set of pairs.
Below == {ss \in Nat \X Nat : ss[1] < ss[2]}

LEMMA BelowIsWellFounded == IsWellFoundedOn(Below, Nat)
  BY ONLY NatLessThanWellFounded, SMT DEF OpToRel, Below

\* A set of numbers has a least one.
LEMMA LeastNumber ==
  ASSUME NEW S, S \subseteq Nat, S # {}
  PROVE  \E n \in S : \A m \in S : n <= m
<1>1. PICK n \in S : \A m \in S : ~ (<<m, n>> \in Below)
  BY WFMin, BelowIsWellFounded
<1>2. ASSUME NEW m \in S PROVE n <= m
  <2>1. m \in Nat /\ n \in Nat /\ <<m, n>> \in Nat \X Nat
    OBVIOUS
  <2>2. ~ (m < n)
    BY <1>1, <2>1 DEF Below
  <2> QED BY <2>1, <2>2
<1> QED BY <1>2

-----------------------------------------------------------------------------
(* Profiles: links, documents and fingerprints.                            *)

\* Two parameters that say the same of a profile.
SameParameter(p, a, b) ==
  /\ Known(p, a.key) <=> Known(p, b.key)
  /\ NameOf(p, a.key) = NameOf(p, b.key)
  /\ a.value = b.value /\ a.has = b.has
  /\ Connects(p, a) <=> Connects(p, b)
  /\ \A field : Reading(p, field, a) = Reading(p, field, b)

\* The parameters of one query are those of another, moved without overtaking one of the
\* same name.
Moved(p, q, r, to) ==
  /\ DOMAIN q \subseteq Nat /\ DOMAIN r \subseteq Nat /\ IsFiniteSet(DOMAIN q)
  /\ to \in [DOMAIN q -> DOMAIN r]
  /\ \A k \in DOMAIN r : \E i \in DOMAIN q : to[i] = k
  /\ \A i, j \in DOMAIN q : to[i] = to[j] => i = j
  /\ \A i, j \in DOMAIN q : NameOf(p, q[i].key) = NameOf(p, q[j].key) => (i <= j <=> to[i] <= to[j])
  /\ \A i \in DOMAIN q : SameParameter(p, q[i], r[to[i]])

\* The occurrences of a name move with their parameters.
LEMMA OccurrencesMove ==
  ASSUME NEW p, NEW q, NEW r, NEW to, Moved(p, q, r, to), NEW name, NEW i \in DOMAIN q
  PROVE  i \in Occurrences(p, q, name) <=> to[i] \in Occurrences(p, r, name)
  BY DEF Moved, SameParameter, Occurrences

\* A parameter is read in both queries or in neither.
LEMMA ReadersMove ==
  ASSUME NEW p, NEW q, NEW r, NEW to, Moved(p, q, r, to), NEW i \in DOMAIN q
  PROVE  Reads(p, q, i) <=> Reads(p, r, to[i])
<1> DEFINE name == NameOf(p, q[i].key)
<1>1. /\ Known(p, q[i].key) <=> Known(p, r[to[i]].key)
      /\ name = NameOf(p, r[to[i]].key) /\ to[i] \in DOMAIN r
  BY DEF Moved, SameParameter
<1>2. ASSUME \A j \in Occurrences(p, q, name) : i <= j, NEW k \in Occurrences(p, r, name)
      PROVE  to[i] <= k
  <2>1. PICK j \in DOMAIN q : to[j] = k
    BY <1>2 DEF Moved, Occurrences
  <2>2. j \in Occurrences(p, q, name)
    BY <1>2, <2>1, OccurrencesMove
  <2>3. i <= j /\ NameOf(p, q[j].key) = name
    BY <1>2, <2>2 DEF Occurrences
  <2> QED BY <2>1, <2>3 DEF Moved
<1>3. ASSUME \A k \in Occurrences(p, r, name) : to[i] <= k, NEW j \in Occurrences(p, q, name)
      PROVE  i <= j
  <2>1. j \in DOMAIN q /\ NameOf(p, q[j].key) = name
    BY DEF Occurrences
  <2>2. to[j] \in Occurrences(p, r, name)
    BY <1>3, <2>1, OccurrencesMove
  <2>3. to[i] <= to[j]
    BY <1>3, <2>2
  <2> QED BY <2>1, <2>3 DEF Moved
<1> HIDE DEF name
<1> QED BY <1>1, <1>2, <1>3 DEF Reads, name

\* One occurrence of a name is read.
LEMMA ReaderIsUnique ==
  ASSUME NEW p, NEW q, DOMAIN q \subseteq Nat, NEW name, NEW i \in Occurrences(p, q, name), Reads(p, q, i)
  PROVE  Reader(p, q, name) = q[i]
<1>1. ASSUME NEW j \in Occurrences(p, q, name), Reads(p, q, j) PROVE j = i
  <2>1. NameOf(p, q[i].key) = name /\ NameOf(p, q[j].key) = name /\ i \in Nat /\ j \in Nat
    BY DEF Occurrences
  <2>2. i <= j /\ j <= i
    BY <1>1, <2>1 DEF Reads
  <2> QED BY <2>1, <2>2
<1>2. (CHOOSE j \in Occurrences(p, q, name) : Reads(p, q, j)) = i
  BY <1>1
<1> QED BY <1>2 DEF Reader

\* So a name has a value in both queries or in neither, and the same.
LEMMA ValuesMove ==
  ASSUME NEW p, NEW q, NEW r, NEW to, Moved(p, q, r, to), NEW name
  PROVE  /\ Has(p, q, name) <=> Has(p, r, name)
         /\ Has(p, q, name) => SameParameter(p, Reader(p, q, name), Reader(p, r, name))
<1>1. ASSUME NEW i \in DOMAIN q, Reads(p, q, i), NameOf(p, q[i].key) = name
      PROVE  Has(p, r, name) /\ SameParameter(p, Reader(p, q, name), Reader(p, r, name))
  <2>1. to[i] \in DOMAIN r /\ Reads(p, r, to[i])
    BY <1>1, ReadersMove DEF Moved
  <2>2. i \in Occurrences(p, q, name) /\ to[i] \in Occurrences(p, r, name)
    BY <1>1, OccurrencesMove DEF Occurrences
  <2>3. NameOf(p, r[to[i]].key) = name
    BY <2>2 DEF Occurrences
  <2>4. DOMAIN q \subseteq Nat /\ DOMAIN r \subseteq Nat
    BY DEF Moved
  <2>5. Reader(p, q, name) = q[i] /\ Reader(p, r, name) = r[to[i]]
    BY <1>1, <2>1, <2>2, <2>4, ReaderIsUnique
  <2>6. SameParameter(p, q[i], r[to[i]])
    BY DEF Moved
  <2> QED BY <2>1, <2>3, <2>5, <2>6 DEF Has
<1>2. ASSUME NEW k \in DOMAIN r, Reads(p, r, k), NameOf(p, r[k].key) = name
      PROVE  Has(p, q, name)
  <2>1. PICK i \in DOMAIN q : to[i] = k
    BY DEF Moved
  <2>2. Reads(p, q, i)
    BY <1>2, <2>1, ReadersMove
  <2>3. NameOf(p, q[i].key) = name
    BY <1>2, <2>1 DEF Moved, SameParameter
  <2> QED BY <2>2, <2>3 DEF Has
<1> QED BY <1>1, <1>2 DEF Has

LEMMA DataMove ==
  ASSUME NEW p, NEW q, NEW r, NEW to, Moved(p, q, r, to)
  PROVE  Data(p, q) = Data(p, r)
<1>1. ASSUME NEW f
      PROVE  (IF Has(p, q, f) THEN Reading(p, f, Reader(p, q, f)) ELSE Default(f))
               = (IF Has(p, r, f) THEN Reading(p, f, Reader(p, r, f)) ELSE Default(f))
  BY ValuesMove DEF SameParameter
<1> QED BY <1>1 DEF Data

\* A credential may be carried by parameters.
LEMMA CredentialsMove ==
  ASSUME NEW q, NEW r, NEW to, Moved("tuic", q, r, to), NEW user
  PROVE  TuicCredential(user, q) = TuicCredential(user, r)
<1>1. \A name : Value("tuic", q, name) = Value("tuic", r, name)
  BY ValuesMove DEF Value, SameParameter
<1>2. ASSUME NEW c,
             NEW i \in Occurrences("tuic", q, c), NEW j \in Occurrences("tuic", q, c), q[i].value # q[j].value
      PROVE  \E k, m \in Occurrences("tuic", r, c) : r[k].value # r[m].value
  <2>1. i \in DOMAIN q /\ j \in DOMAIN q
    BY DEF Occurrences
  <2>2. to[i] \in Occurrences("tuic", r, c) /\ to[j] \in Occurrences("tuic", r, c)
    BY <1>2, <2>1, OccurrencesMove
  <2>3. r[to[i]].value = q[i].value /\ r[to[j]].value = q[j].value
    BY <2>1 DEF Moved, SameParameter
  <2> QED BY <1>2, <2>2, <2>3
<1>3. ASSUME NEW c,
             NEW k \in Occurrences("tuic", r, c), NEW m \in Occurrences("tuic", r, c), r[k].value # r[m].value
      PROVE  \E i, j \in Occurrences("tuic", q, c) : q[i].value # q[j].value
  <2>1. k \in DOMAIN r /\ m \in DOMAIN r
    BY DEF Occurrences
  <2>2. PICK i \in DOMAIN q, j \in DOMAIN q : to[i] = k /\ to[j] = m
    BY <2>1 DEF Moved
  <2>3. i \in Occurrences("tuic", q, c) /\ j \in Occurrences("tuic", q, c)
    BY <1>3, <2>2, OccurrencesMove
  <2>4. q[i].value = r[k].value /\ q[j].value = r[m].value
    BY <2>2 DEF Moved, SameParameter
  <2> QED BY <1>3, <2>3, <2>4
<1>4. (\E c \in Credentials : \E i, j \in Occurrences("tuic", q, c) : q[i].value # q[j].value)
      <=> (\E c \in Credentials : \E i, j \in Occurrences("tuic", r, c) : r[i].value # r[j].value)
  BY <1>2, <1>3
<1> QED BY <1>1, <1>4 DEF TuicCredential

\* What is kept of a query beside its fields, and the earlier values of one name.
KeptOf(p, q) == {i \in DOMAIN q : ~Reads(p, q, i) /\ Connects(p, q[i])}
EarlierOf(p, q, i) == {j \in KeptOf(p, q) : j < i /\ NameOf(p, q[j].key) = NameOf(p, q[i].key)}
LineOf(p, q, i) ==
  <<NameOf(p, q[i].key), q[i].has, Cardinality(EarlierOf(p, q, i)), q[i].value>>

LEMMA ExtrasAreLines ==
  ASSUME NEW p, NEW q
  PROVE  Extras(p, q) = {LineOf(p, q, i) : i \in KeptOf(p, q)}
  BY DEF Extras, LineOf, KeptOf, EarlierOf

LEMMA KeptMove ==
  ASSUME NEW p, NEW q, NEW r, NEW to, Moved(p, q, r, to), NEW i \in DOMAIN q
  PROVE  i \in KeptOf(p, q) <=> to[i] \in KeptOf(p, r)
<1>1. to[i] \in DOMAIN r /\ (Connects(p, q[i]) <=> Connects(p, r[to[i]]))
  BY DEF Moved, SameParameter
<1>2. Reads(p, q, i) <=> Reads(p, r, to[i])
  BY ReadersMove
<1> QED BY <1>1, <1>2 DEF KeptOf

\* What is kept of one query is kept of another, each value with as many of its name before it.
KeptMoved(p, q, r, to) ==
  /\ DOMAIN q \subseteq Nat /\ DOMAIN r \subseteq Nat /\ IsFiniteSet(DOMAIN q)
  /\ to \in [KeptOf(p, q) -> KeptOf(p, r)]
  /\ \A k \in KeptOf(p, r) : \E i \in KeptOf(p, q) : to[i] = k
  /\ \A i, j \in KeptOf(p, q) : to[i] = to[j] => i = j
  /\ \A i, j \in KeptOf(p, q) :
       NameOf(p, q[i].key) = NameOf(p, q[j].key) => (i <= j <=> to[i] <= to[j])
  /\ \A i \in KeptOf(p, q) :
       /\ NameOf(p, q[i].key) = NameOf(p, r[to[i]].key)
       /\ q[i].has = r[to[i]].has /\ q[i].value = r[to[i]].value

\* As many values of a name are before a parameter in both queries.
LEMMA EarlierMove ==
  ASSUME NEW p, NEW q, NEW r, NEW to, KeptMoved(p, q, r, to), NEW i \in KeptOf(p, q)
  PROVE  Cardinality(EarlierOf(p, q, i)) = Cardinality(EarlierOf(p, r, to[i]))
<1> DEFINE S == EarlierOf(p, q, i)
           T == EarlierOf(p, r, to[i])
           move == [j \in S |-> to[j]]
<1>1. i \in DOMAIN q /\ S \subseteq DOMAIN q /\ i \in Nat /\ DOMAIN q \subseteq Nat /\ S \subseteq KeptOf(p, q)
  BY DEF KeptOf, EarlierOf, KeptMoved
<1>2. IsFiniteSet(S)
  <2>1. IsFiniteSet(DOMAIN q)
    BY DEF KeptMoved
  <2> QED BY <1>1, <2>1, FS_Subset
<1>3. ASSUME NEW j \in KeptOf(p, q) PROVE j \in S <=> to[j] \in T
  <2>1. to[j] \in KeptOf(p, r) /\ to[i] \in KeptOf(p, r)
    BY DEF KeptMoved
  <2>2. /\ NameOf(p, q[j].key) = NameOf(p, r[to[j]].key)
        /\ NameOf(p, q[i].key) = NameOf(p, r[to[i]].key)
    BY DEF KeptMoved
  <2>3. j \in Nat /\ to[j] \in Nat /\ to[i] \in Nat
    BY <2>1 DEF KeptMoved, KeptOf
  <2>4. NameOf(p, q[i].key) = NameOf(p, q[j].key) => (i <= j <=> to[i] <= to[j])
    BY DEF KeptMoved
  <2>5. NameOf(p, q[i].key) = NameOf(p, q[j].key) => (j < i <=> to[j] < to[i])
    BY <1>1, <2>3, <2>4
  <2> QED BY <2>1, <2>2, <2>5 DEF EarlierOf
<1>4. move \in [S -> T]
  BY <1>1, <1>3
<1>5. \A j, k \in S : move[j] = move[k] => j = k
  BY <1>1 DEF KeptMoved
<1>6. ASSUME NEW t \in T PROVE \E j \in S : move[j] = t
  <2>1. t \in KeptOf(p, r)
    BY DEF EarlierOf
  <2>2. PICK j \in KeptOf(p, q) : to[j] = t
    BY <2>1 DEF KeptMoved
  <2>3. j \in S
    BY <1>3, <2>2
  <2> QED BY <2>2, <2>3
<1> HIDE DEF S, T, move
<1>7. ExistsBijection(S, T)
  <2>1. move \in Bijection(S, T)
    BY <1>4, <1>5, <1>6, Fun_IsBij
  <2> QED BY <2>1, Fun_ExistsBij
<1>8. Cardinality(T) = Cardinality(S)
  BY <1>2, <1>7, FS_Bijection
<1> QED BY <1>8 DEF S, T

LEMMA LinesMove ==
  ASSUME NEW p, NEW q, NEW r, NEW to, KeptMoved(p, q, r, to), NEW i \in KeptOf(p, q)
  PROVE  LineOf(p, q, i) = LineOf(p, r, to[i])
<1>1. NameOf(p, q[i].key) = NameOf(p, r[to[i]].key) /\ q[i].has = r[to[i]].has /\ q[i].value = r[to[i]].value
  BY DEF KeptMoved
<1> QED BY <1>1, EarlierMove DEF LineOf

LEMMA ExtrasMove ==
  ASSUME NEW p, NEW q, NEW r, NEW to, KeptMoved(p, q, r, to)
  PROVE  Extras(p, q) = Extras(p, r)
<1>1. ASSUME NEW k \in KeptOf(p, r) PROVE \E i \in KeptOf(p, q) : LineOf(p, q, i) = LineOf(p, r, k)
  <2>1. PICK i \in KeptOf(p, q) : to[i] = k
    BY DEF KeptMoved
  <2> QED BY <2>1, LinesMove
<1>2. ASSUME NEW i \in KeptOf(p, q) PROVE \E k \in KeptOf(p, r) : LineOf(p, q, i) = LineOf(p, r, k)
  <2>1. to[i] \in KeptOf(p, r)
    BY DEF KeptMoved
  <2> QED BY <2>1, LinesMove
<1>3. {LineOf(p, q, i) : i \in KeptOf(p, q)} = {LineOf(p, r, k) : k \in KeptOf(p, r)}
  BY <1>1, <1>2
<1> QED BY <1>3, ExtrasAreLines

\* Moving the parameters moves what is kept of them.
LEMMA MovedKeepsExtras ==
  ASSUME NEW p, NEW q, NEW r, NEW to, Moved(p, q, r, to)
  PROVE  Extras(p, q) = Extras(p, r)
<1> DEFINE move == [i \in KeptOf(p, q) |-> to[i]]
<1>1. KeptOf(p, q) \subseteq DOMAIN q /\ KeptOf(p, r) \subseteq DOMAIN r
  BY DEF KeptOf
<1>2. \A i \in KeptOf(p, q) : to[i] \in KeptOf(p, r)
  BY <1>1, KeptMove
<1>3. \A k \in KeptOf(p, r) : \E i \in KeptOf(p, q) : to[i] = k
  <2> TAKE k \in KeptOf(p, r)
  <2>1. PICK i \in DOMAIN q : to[i] = k
    BY <1>1 DEF Moved
  <2>2. i \in KeptOf(p, q)
    BY <2>1, KeptMove
  <2> QED BY <2>1, <2>2
<1>4. move \in [KeptOf(p, q) -> KeptOf(p, r)] /\ \A i \in KeptOf(p, q) : move[i] = to[i]
  BY <1>2
<1> HIDE DEF move
<1>5. \A i \in KeptOf(p, q) :
        /\ NameOf(p, q[i].key) = NameOf(p, r[to[i]].key)
        /\ q[i].has = r[to[i]].has /\ q[i].value = r[to[i]].value
  BY <1>1 DEF Moved, SameParameter
<1>6. KeptMoved(p, q, r, move)
  BY <1>1, <1>3, <1>4, <1>5 DEF KeptMoved, Moved
<1> QED BY <1>6, ExtrasMove

-----------------------------------------------------------------------------
(* Links.                                                                    *)

\* Two links that differ in name, scheme or host spelling only, and in a moved query.
SameProfileLinks(l, m) ==
  /\ ProtocolOf[l.scheme] = ProtocolOf[m.scheme]
  /\ HostOf[l.host] = HostOf[m.host]
  /\ l.form = m.form /\ l.port = m.port /\ l.user = m.user
  /\ \E to : Moved(ProtocolOf[l.scheme], l.query, m.query, to)

LEMMA ReadableLink ==
  ASSUME NEW l, Parse(l) # Refused
  PROVE  LET p == ProtocolOf[l.scheme] IN
         /\ l.scheme \in DOMAIN ProtocolOf /\ l.host \in DOMAIN HostOf
         /\ Fingerprint(Parse(l))
              = <<p, HostOf[l.host], Port(l.port), Credential(p, l), Data(p, l.query), Extras(p, l.query)>>
<1> DEFINE p == ProtocolOf[l.scheme]
           data == Data(p, l.query)
           credential == Credential(p, l)
           readOnly == p = "tuic" /\ credential[1] = "4"
<1>1. /\ l.scheme \in DOMAIN ProtocolOf /\ l.host \in DOMAIN HostOf
      /\ Parse(l) = Validate(l, p, data, credential)
  BY DEF Parse, ParseAs
<1>2. Parse(l) = Profile(l, p, data, credential, readOnly)
  BY <1>1 DEF Validate
<1> HIDE DEF p, data, credential, readOnly
<1>3. /\ Parse(l).protocol = p /\ Parse(l).server = HostOf[l.host] /\ Parse(l).port = Port(l.port)
      /\ Parse(l).credential = credential /\ Parse(l).data = data /\ Parse(l).query = l.query
  BY <1>2 DEF Profile
<1>4. Fingerprint(Parse(l))
        = <<p, HostOf[l.host], Port(l.port), credential, data, Extras(p, l.query)>>
  BY <1>3 DEF Fingerprint
<1> QED BY <1>1, <1>4 DEF p, data, credential

LEMMA SameFingerprint ==
  ASSUME NEW l, NEW m, Parse(l) # Refused, Parse(m) # Refused, SameProfileLinks(l, m)
  PROVE  Fingerprint(Parse(l)) = Fingerprint(Parse(m))
<1> DEFINE p == ProtocolOf[l.scheme]
<1>1. p = ProtocolOf[m.scheme]
  BY DEF SameProfileLinks
<1>2. /\ HostOf[l.host] = HostOf[m.host] /\ l.port = m.port /\ l.user = m.user /\ l.form = m.form
      /\ \E to : Moved(p, l.query, m.query, to)
  BY DEF SameProfileLinks
<1>3. Data(p, l.query) = Data(p, m.query) /\ Extras(p, l.query) = Extras(p, m.query)
  BY <1>2, DataMove, MovedKeepsExtras
<1>4. Credential(p, l) = Credential(p, m)
  <2>1. CASE p = "tuic"
    BY <1>2, <2>1, CredentialsMove DEF Credential
  <2>2. CASE p # "tuic"
    <3>1. ShadowsocksCredential(l) = ShadowsocksCredential(m)
      BY <1>2 DEF ShadowsocksCredential, Key2022
    <3> HIDE DEF p
    <3> QED BY <1>2, <2>2, <3>1 DEF Credential
  <2> QED BY <2>1, <2>2
<1>5. Fingerprint(Parse(l))
        = <<p, HostOf[l.host], Port(l.port), Credential(p, l), Data(p, l.query), Extras(p, l.query)>>
  BY ReadableLink
<1>6. Fingerprint(Parse(m))
        = <<p, HostOf[m.host], Port(m.port), Credential(p, m), Data(p, m.query), Extras(p, m.query)>>
  BY <1>1, ReadableLink
<1> HIDE DEF p
<1> QED BY <1>2, <1>3, <1>4, <1>5, <1>6

LEMMA QueriesAreSequences ==
  ASSUME NEW l, IsLink(l)
  PROVE  /\ Len(l.query) \in Nat /\ DOMAIN l.query = 1..Len(l.query)
         /\ DOMAIN l.query \subseteq Nat /\ IsFiniteSet(DOMAIN l.query)
<1>1. l.query \in Seq(ToSet(l.query))
  BY DEF IsLink
<1>2. Len(l.query) \in Nat /\ DOMAIN l.query = 1..Len(l.query)
  BY <1>1
<1> QED BY <1>2, FS_Interval

\* A query as it is.
LEMMA Unmoved ==
  ASSUME NEW p, NEW l, IsLink(l)
  PROVE  Moved(p, l.query, l.query, [i \in DOMAIN l.query |-> i])
  BY QueriesAreSequences DEF Moved, SameParameter

\* The fields of a link of which one has changed.
LEMMA OtherName ==
  ASSUME NEW l, IsLink(l), NEW name
  PROVE  SameProfileLinks(l, [l EXCEPT !.name = name])
<1> DEFINE m == [l EXCEPT !.name = name]
<1>1. /\ m.scheme = l.scheme /\ m.host = l.host /\ m.form = l.form /\ m.port = l.port
      /\ m.user = l.user /\ m.query = l.query
  BY DEF IsLink
<1> HIDE DEF m
<1> QED BY <1>1, Unmoved DEF SameProfileLinks, m

LEMMA OtherHost ==
  ASSUME NEW l, IsLink(l), NEW host, HostOf[host] = HostOf[l.host]
  PROVE  SameProfileLinks(l, [l EXCEPT !.host = host])
<1> DEFINE m == [l EXCEPT !.host = host]
<1>1. /\ m.scheme = l.scheme /\ m.host = host /\ m.form = l.form /\ m.port = l.port
      /\ m.user = l.user /\ m.query = l.query
  BY DEF IsLink
<1> HIDE DEF m
<1> QED BY <1>1, Unmoved DEF SameProfileLinks, m

LEMMA OtherScheme ==
  ASSUME NEW l, IsLink(l), NEW scheme, ProtocolOf[scheme] = ProtocolOf[l.scheme]
  PROVE  SameProfileLinks(l, [l EXCEPT !.scheme = scheme])
<1> DEFINE m == [l EXCEPT !.scheme = scheme]
<1>1. /\ m.scheme = scheme /\ m.host = l.host /\ m.form = l.form /\ m.port = l.port
      /\ m.user = l.user /\ m.query = l.query
  BY DEF IsLink
<1> HIDE DEF m
<1> QED BY <1>1, Unmoved DEF SameProfileLinks, m

LEMMA OtherQuery ==
  ASSUME NEW l, IsLink(l), NEW query, NEW to, Moved(ProtocolOf[l.scheme], l.query, query, to)
  PROVE  SameProfileLinks(l, [l EXCEPT !.query = query])
<1> DEFINE m == [l EXCEPT !.query = query]
<1>1. /\ m.scheme = l.scheme /\ m.host = l.host /\ m.form = l.form /\ m.port = l.port
      /\ m.user = l.user /\ m.query = query
  BY DEF IsLink
<1> HIDE DEF m
<1> QED BY <1>1 DEF SameProfileLinks, m

\* Two neighbours of different names, exchanged.
LEMMA NeighboursMove ==
  ASSUME NEW p, NEW l, IsLink(l), NEW i \in 1..Len(l.query) - 1,
         NameOf(p, l.query[i].key) # NameOf(p, l.query[i + 1].key)
  PROVE  \E to : Moved(p, l.query, Swapped(l.query, i, i + 1), to)
<1> DEFINE q == l.query
           r == Swapped(q, i, i + 1)
           to == [k \in DOMAIN q |-> IF k = i THEN i + 1 ELSE IF k = i + 1 THEN i ELSE k]
<1>1. /\ Len(q) \in Nat /\ DOMAIN q = 1..Len(q)
      /\ DOMAIN q \subseteq Nat /\ IsFiniteSet(DOMAIN q)
  BY QueriesAreSequences
<1>2. i \in DOMAIN q /\ i + 1 \in DOMAIN q /\ i \in Nat /\ i # i + 1
  BY <1>1
<1> HIDE DEF q
<1>3. /\ DOMAIN r = DOMAIN q
      /\ \A k \in DOMAIN q : r[k] = IF k = i THEN q[i + 1] ELSE IF k = i + 1 THEN q[i] ELSE q[k]
  BY <1>2 DEF Swapped
<1>4. \A k \in DOMAIN q : to[k] = IF k = i THEN i + 1 ELSE IF k = i + 1 THEN i ELSE k
  OBVIOUS
<1>5. to \in [DOMAIN q -> DOMAIN r]
  BY <1>2, <1>3
<1> HIDE DEF r, to
<1>6. \A k \in DOMAIN q : to[k] \in DOMAIN q /\ to[to[k]] = k
  BY <1>2, <1>4
<1>7. \A k \in DOMAIN q : r[to[k]] = q[k]
  BY <1>2, <1>3, <1>4
<1>8. ASSUME NEW j \in DOMAIN q, NEW k \in DOMAIN q, NameOf(p, q[j].key) = NameOf(p, q[k].key)
      PROVE  j <= k <=> to[j] <= to[k]
  <2>1. ~ (j = i /\ k = i + 1) /\ ~ (j = i + 1 /\ k = i)
    BY <1>8 DEF q
  <2>2. j \in Nat /\ k \in Nat
    BY <1>1
  <2> QED BY <1>2, <1>4, <2>1, <2>2
<1>9. \A k \in DOMAIN q : SameParameter(p, q[k], r[to[k]])
  BY <1>7 DEF SameParameter
<1>10. \A k \in DOMAIN r : \E j \in DOMAIN q : to[j] = k
  BY <1>3, <1>6
<1>11. \A j, k \in DOMAIN q : to[j] = to[k] => j = k
  BY <1>6
<1>12. Moved(p, q, r, to)
  BY <1>1, <1>3, <1>5, <1>8, <1>9, <1>10, <1>11 DEF Moved
<1> QED BY <1>12 DEF q, r

\* Another spelling of the same name reads the same value.
LEMMA SpellingsSayTheSame ==
  ASSUME NEW p \in DOMAIN Names, NEW parameter, Known(p, parameter.key),
         parameter = [key |-> parameter.key, value |-> parameter.value, has |-> parameter.has],
         NEW a \in Spellings(p, parameter)
  PROVE  SameParameter(p, parameter, [parameter EXCEPT !.key = a])
<1> DEFINE other == [parameter EXCEPT !.key = a]
<1>1. other.key = a /\ other.value = parameter.value /\ other.has = parameter.has
  OBVIOUS
<1>2. /\ \E row \in Names[p] : a \in ToSet(row)
      /\ NameOf(p, a) = NameOf(p, parameter.key)
      /\ Trim(parameter.value) \in DOMAIN NumberOf =>
           (Lower(a) \in InMilliseconds <=> Lower(parameter.key) \in InMilliseconds)
  BY DEF Spellings
<1> HIDE DEF other
<1>3. Known(p, a)
  BY <1>2 DEF Known, Aliases
<1>4. p # "vmess"
  BY <1>2 DEF Names
<1>5. Time(parameter.key, Trim(parameter.value)) = Time(a, Trim(parameter.value))
  BY <1>2 DEF Time
<1>6. ASSUME NEW field PROVE Reading(p, field, parameter) = Reading(p, field, other)
  BY <1>1, <1>5 DEF Reading
<1> QED BY <1>1, <1>2, <1>3, <1>4, <1>6 DEF SameParameter, Connects, other

LEMMA SpellingsMove ==
  ASSUME NEW p \in DOMAIN Names, NEW l, IsLink(l), NEW i \in DOMAIN l.query, Known(p, l.query[i].key),
         NEW a \in Spellings(p, l.query[i])
  PROVE  \E to : Moved(p, l.query, [l.query EXCEPT ![i] = [l.query[i] EXCEPT !.key = a]], to)
<1> DEFINE q == l.query
           other == [q[i] EXCEPT !.key = a]
           r == [q EXCEPT ![i] = other]
           to == [k \in DOMAIN q |-> k]
<1>1. /\ Len(q) \in Nat /\ DOMAIN q = 1..Len(q)
      /\ DOMAIN q \subseteq Nat /\ IsFiniteSet(DOMAIN q)
  BY QueriesAreSequences
<1>2. q[i] = [key |-> q[i].key, value |-> q[i].value, has |-> q[i].has]
  BY DEF IsLink
<1>3. SameParameter(p, q[i], other)
  BY <1>2, SpellingsSayTheSame
<1> HIDE DEF q, other
<1>4. DOMAIN r = DOMAIN q /\ \A k \in DOMAIN q : r[k] = IF k = i THEN other ELSE q[k]
  BY DEF q
<1>5. to \in [DOMAIN q -> DOMAIN r] /\ \A k \in DOMAIN q : to[k] = k
  BY <1>4
<1> HIDE DEF r, to
<1>6. \A k \in DOMAIN q : SameParameter(p, q[k], r[to[k]])
  BY <1>3, <1>4, <1>5 DEF SameParameter
<1>7. Moved(p, q, r, to)
  BY <1>1, <1>4, <1>5, <1>6 DEF Moved
<1> QED BY <1>7 DEF q, r, other

\* The protocols of the schemes have tables of names.
LEMMA ProtocolsHaveNames ==
  ASSUME NEW scheme \in DOMAIN ProtocolOf
  PROVE  ProtocolOf[scheme] \in DOMAIN Names
  BY DEF ProtocolOf, Names

\* Whatever protocol, and whatever of these ways a link is written in: the fingerprint
\* is the same.
LEMMA PresentationsShareAFingerprint ==
  ASSUME NEW l, IsLink(l), Parse(l) # Refused, NEW m \in Presentations(l), Parse(m) # Refused
  PROVE  Fingerprint(Parse(l)) = Fingerprint(Parse(m))
<1> DEFINE p == ProtocolOf[l.scheme]
           q == l.query
<1>1. l.scheme \in DOMAIN ProtocolOf /\ l.host \in DOMAIN HostOf /\ p \in DOMAIN Names
  BY ReadableLink, ProtocolsHaveNames
<1>2. \/ m = [l EXCEPT !.name = "another"]
      \/ \E h \in DOMAIN HostOf : HostOf[h] = Convert(HostOf, l.host) /\ m = [l EXCEPT !.host = h]
      \/ \E s \in DOMAIN ProtocolOf : ProtocolOf[s] = p /\ m = [l EXCEPT !.scheme = s]
      \/ \E i \in 1..Len(q) - 1 :
           NameOf(p, q[i].key) # NameOf(p, q[i + 1].key) /\ m = [l EXCEPT !.query = Swapped(q, i, i + 1)]
      \/ \E i \in DOMAIN q : Known(p, q[i].key) /\ \E a \in Spellings(p, q[i]) : m = [l EXCEPT !.query[i].key = a]
  BY DEF Presentations
<1>3. CASE m = [l EXCEPT !.name = "another"]
  BY <1>3, OtherName, SameFingerprint
<1>4. ASSUME NEW h \in DOMAIN HostOf, HostOf[h] = Convert(HostOf, l.host), m = [l EXCEPT !.host = h]
      PROVE  Fingerprint(Parse(l)) = Fingerprint(Parse(m))
  <2>1. HostOf[h] = HostOf[l.host]
    BY <1>1, <1>4 DEF Convert
  <2> QED BY <1>4, <2>1, OtherHost, SameFingerprint
<1>5. ASSUME NEW s \in DOMAIN ProtocolOf, ProtocolOf[s] = p, m = [l EXCEPT !.scheme = s]
      PROVE  Fingerprint(Parse(l)) = Fingerprint(Parse(m))
  BY <1>5, OtherScheme, SameFingerprint
<1>6. ASSUME NEW i \in 1..Len(q) - 1, NameOf(p, q[i].key) # NameOf(p, q[i + 1].key),
             m = [l EXCEPT !.query = Swapped(q, i, i + 1)]
      PROVE  Fingerprint(Parse(l)) = Fingerprint(Parse(m))
  <2>1. \E to : Moved(p, q, Swapped(q, i, i + 1), to)
    BY <1>6, NeighboursMove
  <2>2. SameProfileLinks(l, m)
    BY <1>6, <2>1, OtherQuery
  <2> QED BY <2>2, SameFingerprint
<1>7. ASSUME NEW i \in DOMAIN q, Known(p, q[i].key), NEW a \in Spellings(p, q[i]), m = [l EXCEPT !.query[i].key = a]
      PROVE  Fingerprint(Parse(l)) = Fingerprint(Parse(m))
  <2> DEFINE r == [q EXCEPT ![i] = [q[i] EXCEPT !.key = a]]
  <2>1. m = [l EXCEPT !.query = r]
    BY <1>7
  <2>2. \E to : Moved(p, q, r, to)
    BY <1>1, <1>7, SpellingsMove
  <2>3. SameProfileLinks(l, m)
    BY <2>1, <2>2, OtherQuery
  <2> QED BY <2>3, SameFingerprint
<1> QED BY <1>2, <1>3, <1>4, <1>5, <1>6, <1>7

-----------------------------------------------------------------------------
(* What is kept under one name is counted.                                   *)

\* The kept parameters of one name, and their lines.
KeptNamed(p, q, name) == {i \in KeptOf(p, q) : NameOf(p, q[i].key) = name}
LinesNamed(p, q, name) == {line \in Extras(p, q) : line[1] = name}

\* Different parameters of one name have different lines, since they have different ranks.
LEMMA RanksDiffer ==
  ASSUME NEW p, NEW q, DOMAIN q \subseteq Nat, IsFiniteSet(DOMAIN q), NEW name,
         NEW i \in KeptNamed(p, q, name), NEW k \in KeptNamed(p, q, name), i < k
  PROVE  Cardinality(EarlierOf(p, q, i)) < Cardinality(EarlierOf(p, q, k))
<1> DEFINE S == EarlierOf(p, q, i)
           T == EarlierOf(p, q, k)
<1>1. i \in Nat /\ k \in Nat /\ T \subseteq DOMAIN q
  BY DEF KeptNamed, KeptOf, EarlierOf
<1>2. IsFiniteSet(T)
  BY <1>1, FS_Subset
<1>3. S \subseteq T
  <2>1. ASSUME NEW j \in S PROVE j \in T
    <3>1. j \in KeptOf(p, q) /\ j < i /\ NameOf(p, q[j].key) = NameOf(p, q[i].key) /\ j \in Nat
      BY DEF EarlierOf, KeptOf
    <3>2. NameOf(p, q[i].key) = NameOf(p, q[k].key) /\ j < k
      BY <1>1, <3>1 DEF KeptNamed
    <3> QED BY <3>1, <3>2 DEF EarlierOf
  <2> QED BY <2>1
<1>4. i \in T /\ i \notin S
  BY <1>1 DEF KeptNamed, EarlierOf
<1>5. S # T
  BY <1>4
<1> HIDE DEF S, T
<1>6. Cardinality(S) \in Nat /\ Cardinality(T) \in Nat
  BY <1>2, <1>3, FS_Subset, FS_CardinalityType
<1>7. Cardinality(S) <= Cardinality(T) /\ Cardinality(S) # Cardinality(T)
  BY <1>2, <1>3, <1>5, FS_Subset
<1>8. Cardinality(S) < Cardinality(T)
  BY <1>6, <1>7
<1> QED BY <1>8 DEF S, T

LEMMA LinesDiffer ==
  ASSUME NEW p, NEW q, DOMAIN q \subseteq Nat, IsFiniteSet(DOMAIN q), NEW name,
         NEW i \in KeptNamed(p, q, name), NEW k \in KeptNamed(p, q, name),
         Cardinality(EarlierOf(p, q, i)) = Cardinality(EarlierOf(p, q, k))
  PROVE  i = k
<1>1. i \in Nat /\ k \in Nat
  BY DEF KeptNamed, KeptOf
<1>2. Cardinality(EarlierOf(p, q, i)) \in Nat
  <2>1. EarlierOf(p, q, i) \subseteq DOMAIN q
    BY DEF EarlierOf, KeptOf
  <2> QED BY <2>1, FS_Subset, FS_CardinalityType
<1>3. ~(i < k) /\ ~(k < i)
  BY <1>2, RanksDiffer
<1> QED BY <1>1, <1>3

\* There are as many lines of a name as parameters that are kept under it.
LEMMA LinesAreCounted ==
  ASSUME NEW p, NEW q, DOMAIN q \subseteq Nat, IsFiniteSet(DOMAIN q), NEW name
  PROVE  Cardinality(LinesNamed(p, q, name)) = Cardinality(KeptNamed(p, q, name))
<1> DEFINE S == KeptNamed(p, q, name)
           T == LinesNamed(p, q, name)
           line == [i \in S |-> LineOf(p, q, i)]
<1>1. S \subseteq KeptOf(p, q) /\ S \subseteq DOMAIN q
  BY DEF KeptNamed, KeptOf
<1>2. IsFiniteSet(S)
  BY <1>1, FS_Subset
<1>3. \A i : LineOf(p, q, i)[1] = NameOf(p, q[i].key)
             /\ LineOf(p, q, i)[3] = Cardinality(EarlierOf(p, q, i))
  BY DEF LineOf
<1>4. T = {x \in {LineOf(p, q, i) : i \in KeptOf(p, q)} : x[1] = name}
  BY ExtrasAreLines DEF LinesNamed
<1>5. \A i \in S : LineOf(p, q, i) \in T
  BY <1>1, <1>3, <1>4 DEF KeptNamed
<1>6. \A x \in T : \E i \in S : LineOf(p, q, i) = x
  BY <1>3, <1>4 DEF KeptNamed
<1>7. \A i, k \in S : LineOf(p, q, i) = LineOf(p, q, k) => i = k
  BY <1>3, LinesDiffer
<1> HIDE DEF S, T
<1>8. line \in [S -> T]
  BY <1>5
<1>9. \A i \in S : line[i] = LineOf(p, q, i)
  OBVIOUS
<1> HIDE DEF line
<1>10. line \in Bijection(S, T)
  BY <1>6, <1>7, <1>8, <1>9, Fun_IsBij
<1>11. ExistsBijection(S, T)
  BY <1>10, Fun_ExistsBij
<1>12. Cardinality(T) = Cardinality(S)
  BY <1>2, <1>11, FS_Bijection
<1> QED BY <1>12 DEF S, T

\* So one parameter more or less under a name changes the lines.
LEMMA CountsTell ==
  ASSUME NEW p, NEW q, DOMAIN q \subseteq Nat, IsFiniteSet(DOMAIN q),
         NEW r, DOMAIN r \subseteq Nat, IsFiniteSet(DOMAIN r), NEW name,
         Cardinality(KeptNamed(p, q, name)) # Cardinality(KeptNamed(p, r, name))
  PROVE  Extras(p, q) # Extras(p, r)
<1>1. Cardinality(LinesNamed(p, q, name)) # Cardinality(LinesNamed(p, r, name))
  BY LinesAreCounted
<1> QED BY <1>1 DEF LinesNamed

\* The name of a known parameter is known.
LEMMA KnownNames ==
  ASSUME NEW p \in DOMAIN Names, NEW x, Known(p, x)
  PROVE  Known(p, NameOf(p, x))
<1> DEFINE row == CHOOSE row \in Names[p] : Lower(x) \in ToSet(row)
<1>1. \E y \in UNION {ToSet(names) : names \in Names[p]} : Lower(x) = Lower(y)
  BY DEF Known, Aliases
<1>2. PICK names \in Names[p] : \E y \in ToSet(names) : Lower(x) = Lower(y)
  BY <1>1
<1>3. Lower(x) \in ToSet(names)
  BY <1>2, NamesAssumption
<1>4. row \in Names[p] /\ Lower(x) \in ToSet(row)
  BY <1>3
<1>5. NameOf(p, x) = Head(row)
  BY DEF NameOf, Known, Aliases
<1> HIDE DEF row
<1>6. Head(row) \in ToSet(row)
  BY <1>4 DEF Names, HysteriaNames, TuicNames, ToSet
<1> QED BY <1>4, <1>5, <1>6 DEF Known, Aliases

\* Parameters of one name are known or not together.
LEMMA NamesAreKnown ==
  ASSUME NEW p \in DOMAIN Names, NEW a, NEW b, NameOf(p, a) = NameOf(p, b), Known(p, a)
  PROVE  Known(p, b)
<1>1. Known(p, NameOf(p, b))
  BY KnownNames
<1> QED BY <1>1 DEF NameOf

\* The name of a known parameter is known, the name of another is the key itself.
LEMMA UnknownNames ==
  ASSUME NEW p \in DOMAIN Names, NEW a, ~Known(p, NameOf(p, a))
  PROVE  ~Known(p, a) /\ NameOf(p, a) = a
<1>1. ~Known(p, a)
  BY KnownNames
<1> QED BY <1>1 DEF NameOf

\* Of an extension all is kept.
LEMMA ExtensionsAreKept ==
  ASSUME NEW p \in DOMAIN Names, NEW q, NEW name, ~Known(p, name), name \notin DisplayMembers
  PROVE  KeptNamed(p, q, name) = {i \in DOMAIN q : q[i].key = name}
<1>1. ASSUME NEW i \in DOMAIN q, NameOf(p, q[i].key) = name PROVE q[i].key = name
  BY <1>1, UnknownNames
<1>2. ASSUME NEW i \in DOMAIN q, q[i].key = name PROVE i \in KeptNamed(p, q, name)
  BY <1>2 DEF KeptNamed, KeptOf, Reads, Connects, NameOf
<1> QED BY <1>1, <1>2 DEF KeptNamed, KeptOf

\* Of a parameter that is known all but the first value is kept.
LEMMA OccurrencesAreKept ==
  ASSUME NEW p \in DOMAIN Names, p # "vmess", NEW q, DOMAIN q \subseteq Nat, IsFiniteSet(DOMAIN q),
         NEW name, Occurrences(p, q, name) # {}
  PROVE  Cardinality(KeptNamed(p, q, name))
           = IF Known(p, name) THEN Cardinality(Occurrences(p, q, name)) - 1
             ELSE Cardinality(Occurrences(p, q, name))
<1> DEFINE S == Occurrences(p, q, name)
<1>1. S \subseteq DOMAIN q /\ S \subseteq Nat /\ \A i \in S : NameOf(p, q[i].key) = name
  BY DEF Occurrences
<1>2. IsFiniteSet(S)
  BY <1>1, FS_Subset
<1>3. KeptNamed(p, q, name) = {i \in S : ~Reads(p, q, i)}
  BY DEF KeptNamed, KeptOf, Connects, Occurrences
<1>4. CASE Known(p, name)
  <2>1. PICK m \in S : \A i \in S : m <= i
    BY <1>1, LeastNumber
  <2>2. ASSUME NEW i \in S PROVE Reads(p, q, i) <=> i = m
    <3>1. Known(p, q[i].key) /\ NameOf(p, q[i].key) = name
      <4>1. NameOf(p, q[i].key) = name
        BY <1>1
      <4> QED BY <1>4, <4>1, UnknownNames, NamesAreKnown DEF NameOf
    <3>2. Reads(p, q, i) <=> \A j \in S : i <= j
      BY <3>1 DEF Reads
    <3>3. i \in Nat /\ m \in Nat /\ m <= i
      BY <1>1, <2>1
    <3> QED BY <2>1, <3>2, <3>3
  <2>3. KeptNamed(p, q, name) = S \ {m}
    BY <1>3, <2>2
  <2>4. Cardinality(S \ {m}) = Cardinality(S) - 1
    BY <1>2, FS_RemoveElement
  <2> QED BY <1>4, <2>3, <2>4
<1>5. CASE ~Known(p, name)
  <2>1. ASSUME NEW i \in S PROVE ~Reads(p, q, i)
    <3>1. NameOf(p, q[i].key) = name
      BY <1>1
    <3> QED BY <1>5, <3>1, UnknownNames DEF Reads
  <2>2. KeptNamed(p, q, name) = S
    BY <1>3, <2>1
  <2> QED BY <1>5, <2>2
<1> QED BY <1>4, <1>5

-----------------------------------------------------------------------------
(* Queries that say something else.                                          *)

\* A repeated value is left out.
LEMMA RemovalTells ==
  ASSUME NEW p \in DOMAIN Names, p # "vmess", NEW l, IsLink(l),
         NEW i \in DOMAIN l.query, NEW j \in DOMAIN l.query, i < j,
         NameOf(p, l.query[i].key) = NameOf(p, l.query[j].key)
  PROVE  Extras(p, l.query) # Extras(p, RemoveAt(l.query, j))
<1> DEFINE q == l.query
           r == RemoveAt(q, j)
           len == Len(q)
           name == NameOf(p, q[j].key)
           S == Occurrences(p, q, name) \ {j}
           T == Occurrences(p, r, name)
           move == [k \in S |-> IF k < j THEN k ELSE k - 1]
<1>1. /\ len \in Nat /\ DOMAIN q = 1..len /\ DOMAIN q \subseteq Nat /\ IsFiniteSet(DOMAIN q)
  BY QueriesAreSequences
<1>2. q \in Seq(ToSet(q))
  BY DEF IsLink
<1> HIDE DEF q
<1>3. /\ DOMAIN r = 1..(len - 1)
      /\ \A k \in 1..(len - 1) : r[k] = IF k < j THEN q[k] ELSE q[k + 1]
  <2>1. j \in 1..len
    BY <1>1 DEF q
  <2> DEFINE left == SubSeq(q, 1, j - 1)
             right == SubSeq(q, j + 1, len)
  <2>2. left \in Seq(ToSet(q)) /\ right \in Seq(ToSet(q))
    BY <1>1, <1>2, <2>1, SubSeqProperties
  <2>3. /\ Len(left) = j - 1 /\ Len(right) = len - j
        /\ \A k \in 1..(j - 1) : left[k] = q[k]
        /\ \A k \in 1..(len - j) : right[k] = q[j + k]
    <3>1. /\ 1 \in Int /\ j - 1 \in Int /\ j + 1 \in Int /\ len \in Int
          /\ \A k \in 1..(j - 1) : q[k] \in ToSet(q)
          /\ \A k \in (j + 1)..len : q[k] \in ToSet(q)
      BY <1>1, <1>2, <2>1 DEF ToSet
    <3> HIDE DEF len
    <3>2. Len(left) = (IF 1 <= j - 1 THEN j - 1 - 1 + 1 ELSE 0)
          /\ \A k \in 1..(j - 1 - 1 + 1) : left[k] = q[1 + k - 1]
      BY <3>1, SubSeqProperties
    <3>3. Len(right) = (IF j + 1 <= len THEN len - (j + 1) + 1 ELSE 0)
          /\ \A k \in 1..(len - (j + 1) + 1) : right[k] = q[j + 1 + k - 1]
      BY <3>1, SubSeqProperties
    <3> HIDE DEF left, right
    <3>4. Len(left) = j - 1 /\ Len(right) = len - j
      BY <2>1, <3>1, <3>2, <3>3
    <3>5. \A k \in 1..(j - 1) : left[k] = q[k]
      BY <3>1, <3>2
    <3>6. ASSUME NEW k \in 1..(len - j) PROVE right[k] = q[j + k]
      <4>1. k \in 1..(len - (j + 1) + 1) /\ j + 1 + k - 1 = j + k
        BY <2>1, <3>1
      <4> QED BY <3>3, <4>1
    <3> QED BY <3>4, <3>5, <3>6
  <2>4. r = left \o right
    BY DEF RemoveAt
  <2> HIDE DEF left, right, r, len
  <2>5. /\ r \in Seq(ToSet(q)) /\ Len(r) = Len(left) + Len(right)
        /\ \A k \in 1..(Len(left) + Len(right)) :
             r[k] = IF k <= Len(left) THEN left[k] ELSE right[k - Len(left)]
    BY <2>2, <2>4, ConcatProperties
  <2>6. Len(r) = len - 1 /\ DOMAIN r = 1..(len - 1)
    BY <1>1, <2>1, <2>3, <2>5 DEF len
  <2>7. ASSUME NEW k \in 1..(len - 1)
        PROVE  r[k] = IF k < j THEN left[k] ELSE right[k - j + 1]
    <3>1. /\ k \in 1..(Len(left) + Len(right)) /\ k - Len(left) = k - j + 1
          /\ k <= Len(left) <=> k < j
      BY <1>1, <2>1, <2>3 DEF len
    <3>2. r[k] = IF k <= Len(left) THEN left[k] ELSE right[k - Len(left)]
      BY <2>5, <3>1
    <3> QED BY <3>1, <3>2
  <2>8. ASSUME NEW k \in 1..(len - 1) PROVE r[k] = IF k < j THEN q[k] ELSE q[k + 1]
    <3>1. CASE k < j
      <4>1. k \in 1..(j - 1)
        BY <1>1, <2>1, <3>1 DEF len
      <4> QED BY <2>3, <2>7, <3>1, <4>1
    <3>2. CASE ~(k < j)
      <4>1. k - j + 1 \in 1..(len - j) /\ j + (k - j + 1) = k + 1
        BY <1>1, <2>1, <3>2 DEF len
      <4>2. right[k - j + 1] = q[k + 1]
        BY <2>3, <4>1
      <4> QED BY <2>7, <3>2, <4>2
    <3> QED BY <3>1, <3>2
  <2> QED BY <2>6, <2>8
<1>4. DOMAIN r \subseteq Nat /\ IsFiniteSet(DOMAIN r)
  BY <1>1, <1>3, FS_Interval
<1> HIDE DEF r
<1>5. j \in 1..len /\ i \in 1..len /\ i < j /\ i \in S /\ NameOf(p, q[i].key) = name
  BY <1>1 DEF q, Occurrences
<1> HIDE DEF name
<1>6. S \subseteq 1..len /\ j \notin S /\ \A k \in 1..len : k \in S <=> k # j /\ NameOf(p, q[k].key) = name
  BY <1>1 DEF Occurrences
<1>7. T \subseteq 1..(len - 1) /\ \A k \in 1..(len - 1) : k \in T <=> NameOf(p, r[k].key) = name
  BY <1>3 DEF Occurrences
<1>8. Occurrences(p, q, name) = S \cup {j} /\ Occurrences(p, q, name) \subseteq DOMAIN q
  BY <1>5 DEF Occurrences, name
<1> HIDE DEF S, T
<1>9. move \in [S -> T] /\ \A k \in S : move[k] = IF k < j THEN k ELSE k - 1
  BY <1>1, <1>3, <1>5, <1>6, <1>7
<1>10. \A k, m \in S : move[k] = move[m] => k = m
  BY <1>5, <1>6, <1>9
<1>11. \A k \in T : \E m \in S : move[m] = k
  <2>1. ASSUME NEW k \in T, k < j PROVE k \in S /\ move[k] = k
    BY <1>1, <1>3, <1>5, <1>6, <1>7, <1>9, <2>1
  <2>2. ASSUME NEW k \in T, ~(k < j) PROVE k + 1 \in S /\ move[k + 1] = k
    BY <1>1, <1>3, <1>5, <1>6, <1>7, <1>9, <2>2
  <2> QED BY <2>1, <2>2
<1> HIDE DEF move
<1>12. move \in Bijection(S, T)
  BY <1>9, <1>10, <1>11, Fun_IsBij
<1>13. IsFiniteSet(S)
  BY <1>1, <1>6, FS_Subset
<1>14. Cardinality(T) = Cardinality(S) /\ Cardinality(S) \in Nat
  BY <1>12, <1>13, Fun_ExistsBij, FS_Bijection, FS_CardinalityType
<1>15. Cardinality(Occurrences(p, q, name)) = Cardinality(S) + 1
  BY <1>6, <1>8, <1>13, FS_AddElement
<1>16. Occurrences(p, q, name) # {} /\ Occurrences(p, r, name) # {}
  BY <1>5, <1>8, <1>9 DEF T
<1>17. Cardinality(KeptNamed(p, q, name)) # Cardinality(KeptNamed(p, r, name))
  BY <1>1, <1>4, <1>14, <1>15, <1>16, OccurrencesAreKept DEF T
<1> QED BY <1>1, <1>4, <1>17, CountsTell DEF q, r

\* Two values of one name are exchanged.
LEMMA SwapTells ==
  ASSUME NEW p \in DOMAIN Names, p # "vmess", NEW l, IsLink(l),
         NEW i \in DOMAIN l.query, NEW j \in DOMAIN l.query, i < j,
         NameOf(p, l.query[i].key) = NameOf(p, l.query[j].key),
         l.query[i].value # l.query[j].value
  PROVE  Extras(p, l.query) # Extras(p, Swapped(l.query, i, j))
<1> DEFINE q == l.query
           r == Swapped(q, i, j)
           name == NameOf(p, q[j].key)
<1>1. DOMAIN q \subseteq Nat /\ IsFiniteSet(DOMAIN q) /\ i \in Nat /\ j \in Nat
  BY QueriesAreSequences
<1>2. i \in DOMAIN q /\ j \in DOMAIN q /\ NameOf(p, q[i].key) = name /\ q[i].value # q[j].value
  OBVIOUS
<1> HIDE DEF q
<1>3. DOMAIN r = DOMAIN q /\ \A k \in DOMAIN q : r[k] = IF k = i THEN q[j] ELSE IF k = j THEN q[i] ELSE q[k]
  BY <1>2 DEF Swapped
<1> HIDE DEF r
<1>4. \A k \in DOMAIN q : NameOf(p, r[k].key) = NameOf(p, q[k].key)
  BY <1>2, <1>3
<1>5. \A k \in DOMAIN q : Known(p, r[k].key) <=> Known(p, q[k].key)
  BY <1>4, NamesAreKnown
<1>6. \A k \in DOMAIN q : Reads(p, r, k) <=> Reads(p, q, k)
  BY <1>3, <1>4, <1>5 DEF Reads, Occurrences
<1>7. KeptOf(p, r) = KeptOf(p, q)
  BY <1>3, <1>6 DEF KeptOf, Connects
<1>8. \A k \in KeptOf(p, q) : EarlierOf(p, r, k) = EarlierOf(p, q, k)
  BY <1>4, <1>7 DEF EarlierOf, KeptOf
<1>9. j \in KeptOf(p, q)
  <2>1. i \in Occurrences(p, q, name) /\ ~(j <= i)
    BY <1>1, <1>2 DEF Occurrences
  <2> QED BY <1>2, <2>1 DEF KeptOf, Reads, Connects
<1>10. \A k \in KeptOf(p, r) : LineOf(p, r, k) # LineOf(p, q, j)
  <2> SUFFICES ASSUME NEW k \in KeptOf(p, r), LineOf(p, r, k) = LineOf(p, q, j) PROVE FALSE
    OBVIOUS
  <2>1. k \in KeptOf(p, q) /\ k \in DOMAIN q
    BY <1>7 DEF KeptOf
  <2>2. /\ NameOf(p, r[k].key) = name /\ r[k].value = q[j].value
        /\ Cardinality(EarlierOf(p, r, k)) = Cardinality(EarlierOf(p, q, j))
    BY DEF LineOf
  <2>3. k \in KeptNamed(p, q, name) /\ j \in KeptNamed(p, q, name)
    BY <1>4, <1>9, <2>1, <2>2 DEF KeptNamed
  <2>4. k = j
    BY <1>1, <1>8, <2>1, <2>2, <2>3, LinesDiffer
  <2> QED BY <1>2, <1>3, <2>2, <2>4
<1>11. LineOf(p, q, j) \in Extras(p, q) /\ LineOf(p, q, j) \notin Extras(p, r)
  BY <1>9, <1>10, ExtrasAreLines
<1> QED BY <1>11 DEF q, r

\* An extension is added, or written in capitals.
LEMMA ExtensionTells ==
  ASSUME NEW p \in DOMAIN Names, NEW l, IsLink(l)
  PROVE  /\ \A value, has : Extras(p, l.query)
                              # Extras(p, Append(l.query, [key |-> "ext", value |-> value, has |-> has]))
         /\ \A i \in DOMAIN l.query : l.query[i].key = "ext" =>
              Extras(p, l.query) # Extras(p, [l.query EXCEPT ![i] = [l.query[i] EXCEPT !.key = "EXT"]])
<1> DEFINE q == l.query
           len == Len(q)
           Named(r, name) == {k \in DOMAIN r : r[k].key = name}
<1>1. /\ len \in Nat /\ DOMAIN q = 1..len /\ DOMAIN q \subseteq Nat /\ IsFiniteSet(DOMAIN q)
  BY QueriesAreSequences
<1>2. q \in Seq(ToSet(q))
  BY DEF IsLink
<1>3. ASSUME NEW name \in {"ext", "EXT"}, NEW r PROVE KeptNamed(p, r, name) = Named(r, name)
  <2>1. ~Known(p, name) /\ name \notin DisplayMembers
    BY FeedsAssumption DEF DisplayMembers
  <2> QED BY <2>1, ExtensionsAreKept
<1>4. ASSUME NEW r, NEW name \in {"ext", "EXT"}, DOMAIN r \subseteq Nat, IsFiniteSet(DOMAIN r),
             NEW n \in DOMAIN r, n \notin Named(q, name), Named(r, name) = Named(q, name) \cup {n}
      PROVE  Extras(p, q) # Extras(p, r)
  <2>1. IsFiniteSet(Named(q, name))
    <3>1. Named(q, name) \subseteq DOMAIN q
      OBVIOUS
    <3> QED BY <1>1, <3>1, FS_Subset
  <2>2. Cardinality(Named(r, name)) = Cardinality(Named(q, name)) + 1 /\ Cardinality(Named(q, name)) \in Nat
    BY <1>4, <2>1, FS_AddElement, FS_CardinalityType
  <2>3. KeptNamed(p, q, name) = Named(q, name) /\ KeptNamed(p, r, name) = Named(r, name)
    BY <1>3
  <2> HIDE DEF Named
  <2>4. Cardinality(KeptNamed(p, q, name)) # Cardinality(KeptNamed(p, r, name))
    BY <2>2, <2>3
  <2> QED BY <1>1, <1>4, <2>4, CountsTell
<1>5. ASSUME NEW value, NEW has
      PROVE  Extras(p, q) # Extras(p, Append(q, [key |-> "ext", value |-> value, has |-> has]))
  <2> DEFINE own == [key |-> "ext", value |-> value, has |-> has]
             r == Append(q, own)
  <2>1. own.key = "ext"
    OBVIOUS
  <2> HIDE DEF own
  <2>2. DOMAIN r = 1..(len + 1) /\ r[len + 1] = own /\ \A k \in 1..len : r[k] = q[k]
    BY <1>1, <1>2, AppendProperties
  <2> HIDE DEF r, q
  <2>3. Named(r, "ext") = Named(q, "ext") \cup {len + 1} /\ len + 1 \notin Named(q, "ext")
    BY <1>1, <2>1, <2>2
  <2>4. DOMAIN r \subseteq Nat /\ IsFiniteSet(DOMAIN r) /\ len + 1 \in DOMAIN r
    <3>1. len + 1 \in Nat /\ IsFiniteSet(1..(len + 1))
      BY <1>1, FS_Interval
    <3> QED BY <2>2, <3>1
  <2> HIDE DEF len, Named
  <2>5. Extras(p, q) # Extras(p, r)
    BY <1>4, <2>3, <2>4
  <2> QED BY <2>5 DEF r, own
<1>6. ASSUME NEW i \in DOMAIN q, q[i].key = "ext"
      PROVE  Extras(p, q) # Extras(p, [q EXCEPT ![i] = [q[i] EXCEPT !.key = "EXT"]])
  <2> DEFINE own == [q[i] EXCEPT !.key = "EXT"]
             r == [q EXCEPT ![i] = own]
  <2>1. own.key = "EXT"
    BY DEF IsLink
  <2> HIDE DEF own, q
  <2>2. DOMAIN r = DOMAIN q /\ \A k \in DOMAIN q : r[k] = IF k = i THEN own ELSE q[k]
    OBVIOUS
  <2> HIDE DEF r
  <2>3. Named(r, "EXT") = Named(q, "EXT") \cup {i} /\ i \notin Named(q, "EXT")
    BY <1>6, <2>1, <2>2
  <2>4. DOMAIN r \subseteq Nat /\ IsFiniteSet(DOMAIN r) /\ i \in DOMAIN r
    BY <1>1, <2>2
  <2> HIDE DEF Named
  <2>5. Extras(p, q) # Extras(p, r)
    BY <1>4, <2>3, <2>4
  <2> QED BY <2>5 DEF r, own
<1> QED BY <1>5, <1>6

\* Whatever protocol: a link that changes what a client does has another fingerprint.
LEMMA ChangesHaveOtherFingerprints ==
  ASSUME NEW l, IsLink(l), Parse(l) # Refused, NEW m \in Changes(l), Parse(m) # Refused
  PROVE  Fingerprint(Parse(l)) # Fingerprint(Parse(m))
<1> DEFINE p == ProtocolOf[l.scheme]
           q == l.query
<1>1. p \in DOMAIN Names /\ l.scheme \in DOMAIN ProtocolOf
  BY ReadableLink, ProtocolsHaveNames
<1>2. \/ \E i, j \in DOMAIN q : i < j /\ NameOf(p, q[i].key) = NameOf(p, q[j].key)
                                /\ m = [l EXCEPT !.query = RemoveAt(q, j)]
      \/ \E i, j \in DOMAIN q : i < j /\ NameOf(p, q[i].key) = NameOf(p, q[j].key) /\ q[i].value # q[j].value
                                /\ m = [l EXCEPT !.query = Swapped(q, i, j)]
      \/ m = [l EXCEPT !.query = Append(q, [key |-> "ext", value |-> "1", has |-> TRUE])]
      \/ \E i \in DOMAIN q : q[i].key = "ext" /\ m = [l EXCEPT !.query[i].key = "EXT"]
      \/ Port(l.port) # Port(<<<<"8443">>>>) /\ m = [l EXCEPT !.port = <<<<"8443">>>>]
  BY DEF Changes
<1>3. ASSUME NEW i \in DOMAIN q, NEW j \in DOMAIN q, i < j, NameOf(p, q[i].key) = NameOf(p, q[j].key)
      PROVE  p # "vmess"
  <2> SUFFICES ASSUME p = "vmess" PROVE FALSE
    OBVIOUS
  <2>1. l.scheme = "vmess"
    BY <1>1 DEF ProtocolOf
  <2>2. \A a : NameOf(p, a) = a
    BY DEF NameOf, Known, Aliases, Names
  <2>3. q[i].key = q[j].key
    BY <1>3, <2>2
  <2>4. i = j
    BY <2>1, <2>3 DEF IsLink
  <2> QED BY <1>3, <2>4, QueriesAreSequences
<1>4. ASSUME NEW query, Extras(p, q) # Extras(p, query), m = [l EXCEPT !.query = query]
      PROVE  Fingerprint(Parse(l)) # Fingerprint(Parse(m))
  <2>1. m.scheme = l.scheme /\ m.query = query
    BY <1>4 DEF IsLink
  <2>2. Fingerprint(Parse(l))
          = <<p, HostOf[l.host], Port(l.port), Credential(p, l), Data(p, l.query), Extras(p, l.query)>>
    BY ReadableLink
  <2>3. Fingerprint(Parse(m))
          = <<p, HostOf[m.host], Port(m.port), Credential(p, m), Data(p, m.query), Extras(p, m.query)>>
    BY <2>1, ReadableLink
  <2> HIDE DEF p
  <2> QED BY <1>4, <2>1, <2>2, <2>3
<1>5. CASE Port(l.port) # Port(<<<<"8443">>>>) /\ m = [l EXCEPT !.port = <<<<"8443">>>>]
  <2>1. m.scheme = l.scheme /\ m.port = <<<<"8443">>>>
    BY <1>5 DEF IsLink
  <2>2. Fingerprint(Parse(l))
          = <<p, HostOf[l.host], Port(l.port), Credential(p, l), Data(p, l.query), Extras(p, l.query)>>
    BY ReadableLink
  <2>3. Fingerprint(Parse(m))
          = <<p, HostOf[m.host], Port(m.port), Credential(p, m), Data(p, m.query), Extras(p, m.query)>>
    BY <2>1, ReadableLink
  <2> HIDE DEF p
  <2> QED BY <1>5, <2>1, <2>2, <2>3
<1>6. ASSUME NEW i \in DOMAIN q, q[i].key = "ext", m = [l EXCEPT !.query[i].key = "EXT"]
      PROVE  Fingerprint(Parse(l)) # Fingerprint(Parse(m))
  <2> DEFINE r == [q EXCEPT ![i] = [q[i] EXCEPT !.key = "EXT"]]
  <2>1. m = [l EXCEPT !.query = r]
    BY <1>6
  <2>2. Extras(p, q) # Extras(p, r)
    BY <1>1, <1>6, ExtensionTells
  <2> QED BY <1>4, <2>1, <2>2
<1>7. CASE m = [l EXCEPT !.query = Append(q, [key |-> "ext", value |-> "1", has |-> TRUE])]
  BY <1>1, <1>4, <1>7, ExtensionTells
<1>8. ASSUME NEW i \in DOMAIN q, NEW j \in DOMAIN q, i < j, NameOf(p, q[i].key) = NameOf(p, q[j].key),
             \/ m = [l EXCEPT !.query = RemoveAt(q, j)]
             \/ q[i].value # q[j].value /\ m = [l EXCEPT !.query = Swapped(q, i, j)]
      PROVE  Fingerprint(Parse(l)) # Fingerprint(Parse(m))
  <2>1. p # "vmess"
    BY <1>3, <1>8
  <2>2. CASE m = [l EXCEPT !.query = RemoveAt(q, j)]
    <3>1. Extras(p, q) # Extras(p, RemoveAt(q, j))
      BY <1>1, <1>8, <2>1, RemovalTells
    <3> QED BY <1>4, <2>2, <3>1
  <2>3. CASE q[i].value # q[j].value /\ m = [l EXCEPT !.query = Swapped(q, i, j)]
    <3>1. Extras(p, q) # Extras(p, Swapped(q, i, j))
      BY <1>1, <1>8, <2>1, <2>3, SwapTells
    <3> QED BY <1>4, <2>3, <3>1
  <2> QED BY <1>8, <2>2, <2>3
<1> QED BY <1>2, <1>5, <1>6, <1>7, <1>8

-----------------------------------------------------------------------------
(* Stable sorting.                                                           *)

\* Finitely many pairs of numbers.
IsPlaces(S) == S \subseteq Nat \X Nat /\ IsFiniteSet(S)

LEMMA PrecedesIsAnOrder ==
  ASSUME NEW x \in Nat \X Nat, NEW y \in Nat \X Nat, NEW z \in Nat \X Nat
  PROVE  /\ ~Precedes(x, x)
         /\ Precedes(x, y) /\ Precedes(y, z) => Precedes(x, z)
         /\ x # y => Precedes(x, y) \/ Precedes(y, x)
<1>1. /\ x[1] \in Nat /\ x[2] \in Nat /\ y[1] \in Nat /\ y[2] \in Nat /\ z[1] \in Nat /\ z[2] \in Nat
      /\ x = <<x[1], x[2]>> /\ y = <<y[1], y[2]>>
  OBVIOUS
<1> QED BY <1>1 DEF Precedes

\* What precedes a place.
EarlierPlaces(S, x) == {y \in S : Precedes(y, x)}

LEMMA RankIsMonotone ==
  ASSUME NEW S, IsPlaces(S), NEW x \in S, NEW y \in S, Precedes(x, y)
  PROVE  Rank(S, x) < Rank(S, y)
<1> DEFINE X == EarlierPlaces(S, x)
           Y == EarlierPlaces(S, y)
<1>1. Rank(S, x) = Cardinality(X) /\ Rank(S, y) = Cardinality(Y)
  BY DEF Rank, EarlierPlaces
<1>2. IsFiniteSet(X) /\ IsFiniteSet(Y)
  BY FS_Subset DEF EarlierPlaces, IsPlaces
<1>3. X \subseteq Y /\ x \in Y /\ x \notin X
  BY PrecedesIsAnOrder DEF EarlierPlaces, IsPlaces
<1>4. X # Y
  BY <1>3
<1> HIDE DEF X, Y
<1>5. Cardinality(X) <= Cardinality(Y) /\ Cardinality(X) # Cardinality(Y)
  BY <1>2, <1>3, <1>4, FS_Subset
<1>6. Cardinality(X) \in Nat /\ Cardinality(Y) \in Nat
  BY <1>2, FS_CardinalityType
<1> QED BY <1>1, <1>5, <1>6

\* The ranks of places are the numbers below their count, each of one place.
LEMMA RanksAreNumbers ==
  ASSUME NEW S, IsPlaces(S)
  PROVE  /\ Cardinality(S) \in Nat
         /\ \A x \in S : Rank(S, x) \in 0..(Cardinality(S) - 1)
         /\ \A x, y \in S : Rank(S, x) = Rank(S, y) => x = y
         /\ \A n \in 0..(Cardinality(S) - 1) : \E x \in S : Rank(S, x) = n
<1> DEFINE len == Cardinality(S)
           R == 0..(len - 1)
           rank == [x \in S |-> Rank(S, x)]
<1>1. IsFiniteSet(S) /\ len \in Nat
  BY FS_CardinalityType DEF IsPlaces
<1>2. ASSUME NEW x \in S PROVE Rank(S, x) \in R
  <2> DEFINE X == EarlierPlaces(S, x)
  <2>1. Rank(S, x) = Cardinality(X)
    BY DEF Rank, EarlierPlaces
  <2>2. X \subseteq S \ {x}
    BY PrecedesIsAnOrder DEF EarlierPlaces, IsPlaces
  <2>3. IsFiniteSet(S \ {x}) /\ Cardinality(S \ {x}) = len - 1
    BY <1>1, FS_RemoveElement
  <2> HIDE DEF X, len
  <2>4. IsFiniteSet(X) /\ Cardinality(X) <= len - 1
    BY <2>2, <2>3, FS_Subset
  <2>5. Cardinality(X) \in Nat
    BY <2>4, FS_CardinalityType
  <2> QED BY <1>1, <2>1, <2>4, <2>5
<1>3. ASSUME NEW x \in S, NEW y \in S, Rank(S, x) = Rank(S, y) PROVE x = y
  <2>1. ~Precedes(x, y) /\ ~Precedes(y, x)
    BY <1>2, <1>3, RankIsMonotone
  <2> QED BY <2>1, PrecedesIsAnOrder DEF IsPlaces
<1>4. rank \in Injection(S, R)
  <2>1. rank \in [S -> R] /\ \A x \in S : rank[x] = Rank(S, x)
    BY <1>2
  <2> HIDE DEF rank
  <2> QED BY <1>3, <2>1, Fun_IsInj
<1>5. IsFiniteSet(R) /\ Cardinality(R) = len
  <2> HIDE DEF len
  <2>1. 0 \in Int /\ len - 1 \in Int
    BY <1>1
  <2>2. IsFiniteSet(R) /\ Cardinality(R) = IF 0 > len - 1 THEN 0 ELSE (len - 1) - 0 + 1
    BY <2>1, FS_Interval
  <2> QED BY <1>1, <2>2
<1>6. rank \in Surjection(S, R)
  <2> HIDE DEF rank, R
  <2>1. Cardinality(S) = Cardinality(R)
    BY <1>5
  <2> QED BY <1>4, <1>5, <2>1, FS_Injection
<1>7. ASSUME NEW n \in R PROVE \E x \in S : Rank(S, x) = n
  <2>1. \A x \in S : rank[x] = Rank(S, x)
    OBVIOUS
  <2> HIDE DEF rank
  <2>2. \E x \in S : rank[x] = n
    BY <1>6 DEF Surjection
  <2> QED BY <2>1, <2>2
<1> QED BY <1>1, <1>2, <1>3, <1>7

\* So the places in order are all of them, each at its rank.
LEMMA OrderIsByRank ==
  ASSUME NEW S, IsPlaces(S)
  PROVE  /\ DOMAIN InOrder(S) = 1..Cardinality(S)
         /\ \A n \in DOMAIN InOrder(S) : InOrder(S)[n] \in S /\ Rank(S, InOrder(S)[n]) = n - 1
         /\ \A x \in S : Rank(S, x) + 1 \in DOMAIN InOrder(S) /\ InOrder(S)[Rank(S, x) + 1] = x
<1> DEFINE len == Cardinality(S)
           order == InOrder(S)
<1>1. /\ len \in Nat
      /\ \A x \in S : Rank(S, x) \in 0..(len - 1)
      /\ \A x, y \in S : Rank(S, x) = Rank(S, y) => x = y
      /\ \A n \in 0..(len - 1) : \E x \in S : Rank(S, x) = n
  BY RanksAreNumbers
<1>2. DOMAIN order = 1..len /\ \A n \in 1..len : order[n] = CHOOSE x \in S : Rank(S, x) = n - 1
  BY DEF InOrder
<1> HIDE DEF len, order
<1>3. \A n \in 1..len : order[n] \in S /\ Rank(S, order[n]) = n - 1
  <2> TAKE n \in 1..len
  <2>1. n - 1 \in 0..(len - 1)
    BY <1>1
  <2>2. \E x \in S : Rank(S, x) = n - 1
    BY <1>1, <2>1
  <2> QED BY <1>2, <2>2
<1>4. ASSUME NEW x \in S PROVE Rank(S, x) + 1 \in 1..len /\ order[Rank(S, x) + 1] = x
  <2>1. Rank(S, x) \in 0..(len - 1)
    BY <1>1
  <2>2. Rank(S, x) + 1 \in 1..len /\ (Rank(S, x) + 1) - 1 = Rank(S, x)
    BY <1>1, <2>1
  <2>3. order[Rank(S, x) + 1] \in S /\ Rank(S, order[Rank(S, x) + 1]) = Rank(S, x)
    BY <1>3, <2>2
  <2> QED BY <1>1, <2>2, <2>3
<1> QED BY <1>2, <1>3, <1>4 DEF order, len

\* Places that are moved without one overtaking another keep their ranks.
LEMMA MovedInOrder ==
  ASSUME NEW S, IsPlaces(S), NEW T, T \subseteq Nat \X Nat, NEW to \in [S -> T],
         \A z \in T : \E x \in S : to[x] = z,
         \A x, y \in S : Precedes(x, y) => Precedes(to[x], to[y])
  PROVE  /\ IsPlaces(T) /\ DOMAIN InOrder(T) = DOMAIN InOrder(S)
         /\ \A n \in DOMAIN InOrder(S) : InOrder(T)[n] = to[InOrder(S)[n]]
<1>1. \A x \in S, y \in S : to[x] = to[y] => x = y
  <2> SUFFICES ASSUME NEW x \in S, NEW y \in S, to[x] = to[y], x # y PROVE FALSE
    OBVIOUS
  <2>1. Precedes(x, y) \/ Precedes(y, x)
    BY PrecedesIsAnOrder DEF IsPlaces
  <2>2. Precedes(to[x], to[x])
    BY <2>1
  <2> QED BY <2>2, PrecedesIsAnOrder
<1>2. to \in Bijection(S, T)
  BY <1>1, Fun_IsBij
<1>3. IsFiniteSet(T) /\ Cardinality(T) = Cardinality(S)
  BY <1>2, Fun_ExistsBij, FS_Bijection DEF IsPlaces
<1>4. IsPlaces(T)
  BY <1>3 DEF IsPlaces
<1>5. \A x, y \in S : Precedes(to[x], to[y]) => Precedes(x, y)
  <2> SUFFICES ASSUME NEW x \in S, NEW y \in S, Precedes(to[x], to[y]), ~Precedes(x, y) PROVE FALSE
    OBVIOUS
  <2>1. x # y => Precedes(y, x)
    BY PrecedesIsAnOrder DEF IsPlaces
  <2>2. x = y \/ Precedes(to[y], to[x])
    BY <2>1
  <2>3. Precedes(to[x], to[x])
    BY <2>2, PrecedesIsAnOrder
  <2> QED BY <2>3, PrecedesIsAnOrder
<1>6. ASSUME NEW x \in S PROVE Rank(T, to[x]) = Rank(S, x)
  <2> DEFINE X == EarlierPlaces(S, x)
             Y == EarlierPlaces(T, to[x])
             own == [y \in X |-> to[y]]
  <2>1. X \subseteq S
    BY DEF EarlierPlaces
  <2>2. own \in [X -> Y] /\ \A y \in X : own[y] = to[y]
    BY DEF EarlierPlaces
  <2>3. \A z \in Y : \E y \in X : to[y] = z
    BY <1>5 DEF EarlierPlaces
  <2>4. IsFiniteSet(X)
    BY <2>1, FS_Subset DEF IsPlaces
  <2> HIDE DEF X, Y, own
  <2>5. own \in Bijection(X, Y)
    BY <1>1, <2>1, <2>2, <2>3, Fun_IsBij
  <2>6. Cardinality(Y) = Cardinality(X)
    BY <2>4, <2>5, Fun_ExistsBij, FS_Bijection
  <2> QED BY <2>6 DEF X, Y, Rank, EarlierPlaces
<1>7. DOMAIN InOrder(T) = DOMAIN InOrder(S)
  BY <1>3, <1>4, OrderIsByRank
<1>8. ASSUME NEW n \in DOMAIN InOrder(S) PROVE InOrder(T)[n] = to[InOrder(S)[n]]
  <2>1. InOrder(S)[n] \in S /\ Rank(S, InOrder(S)[n]) = n - 1 /\ n \in Nat
    <3>1. DOMAIN InOrder(S) = 1..Cardinality(S) /\ Cardinality(S) \in Nat
      BY OrderIsByRank, RanksAreNumbers
    <3>2. n \in Nat
      BY <3>1
    <3> QED BY <3>2, OrderIsByRank
  <2>2. Rank(T, to[InOrder(S)[n]]) + 1 = n
    BY <1>6, <2>1
  <2> QED BY <1>4, <2>1, <2>2, OrderIsByRank
<1> QED BY <1>4, <1>7, <1>8

-----------------------------------------------------------------------------
(* Canonical links.                                                          *)

\* A digit is a text.
LEMMA FlagsAreTexts == "0" # NoText /\ "1" # NoText
  BY Zenon DEF NoText

\* What a conversion has written it leaves as it is.
LEMMA TextsSettle ==
  ASSUME NEW x
  PROVE  /\ Trim(Trim(x)) = Trim(x) /\ Lower(Lower(x)) = Lower(x)
         /\ Trim(NoText) = NoText /\ Lower(NoText) = NoText
         /\ Plain(x) => Plain(Lower(x))
<1>1. Trim(Trim(x)) = Trim(x)
  BY ProfilesAssumption DEF Converts, Trim, Convert
<1>2. Lower(Lower(x)) = Lower(x)
  BY ProfilesAssumption DEF Converts, Lower, Convert
<1>3. /\ NoText \notin DOMAIN TrimOf /\ NoText \notin DOMAIN LowerOf
      /\ \A y \in DOMAIN LowerOf : Plain(y) => Plain(LowerOf[y])
  BY ConversionsAssumption
<1>4. Trim(NoText) = NoText /\ Lower(NoText) = NoText
  BY <1>3 DEF Trim, Lower, Convert
<1>5. Plain(x) => Plain(Lower(x))
  BY <1>3 DEF Lower, Convert
<1> QED BY <1>1, <1>2, <1>4, <1>5

\* Which kind a field is of.
LEMMA FieldKinds ==
  ASSUME NEW field
  PROVE  /\ field \in Flags => field \notin LowerCase \cup Times \cup DOMAIN MaxCount
         /\ field \in LowerCase => field \notin Times \cup DOMAIN MaxCount
         /\ field \in Times => field \notin DOMAIN MaxCount
         /\ field \in {"pinSHA256", "obfs-password"} =>
              field \notin Flags \cup LowerCase \cup Times \cup DOMAIN MaxCount
<1>1. DOMAIN MaxCount = {"max-open-streams", "max-udp-relay-packet-size"}
  BY DEF MaxCount
<1> QED BY <1>1 DEF Flags, LowerCase, Times

\* So the value of a field is read from itself, under the name of the field.
LEMMA ReadingsSettle ==
  ASSUME NEW p, NEW field, NEW parameter, Reading(p, field, parameter) # Bad,
         NEW again, again.key = field, again.value = Reading(p, field, parameter)
  PROVE  again.value # NoText /\ Reading(p, field, again) = Reading(p, field, parameter)
<1> DEFINE text == IF field = "obfs-password" THEN parameter.value ELSE Trim(parameter.value)
           value == Reading(p, field, parameter)
           words == IF p = "tuic" THEN {"true", "false"} ELSE {}
<1>1. text # NoText /\ (field # "obfs-password" => Plain(text))
  <2>1. text # NoText
    BY DEF Reading
  <2> QED BY <2>1, TextsSettle DEF Plain
<1>2. CASE field \in Flags
  <2>1. value = Flag(Lower(text), words)
    BY <1>1, <1>2, FieldKinds DEF Reading
  <2>2. value \in {"0", "1"}
    BY <2>1 DEF Flag
  <2>3. Trim(value) = value /\ Lower(value) = value
    BY <2>2, ConversionsAssumption DEF Trim, Lower, Convert
  <2>4. Flag(value, words) = value
    BY <2>2 DEF Flag
  <2> HIDE DEF value
  <2>5. Reading(p, field, again) = Flag(Lower(Trim(value)), words) /\ value # NoText
    BY <1>2, <2>2, <2>3, FlagsAreTexts, FieldKinds DEF Reading, value
  <2> QED BY <2>3, <2>4, <2>5 DEF value
<1>3. CASE field \in LowerCase /\ field \notin Flags
  <2>1. value = Lower(text)
    BY <1>1, <1>3, FieldKinds DEF Reading
  <2>2. Plain(value) /\ Lower(value) = value
    <3>1. Plain(text)
      BY <1>1, <1>3, FieldKinds
    <3> QED BY <2>1, <3>1, TextsSettle DEF Plain
  <2> QED BY <1>3, <2>2, FieldKinds DEF Reading, Plain
<1>4. CASE field \in Times /\ field \notin Flags \cup LowerCase
  <2>1. value = Time(parameter.key, text)
    BY <1>1, <1>4, FieldKinds DEF Reading
  <2>2. PICK ms \in {NumberOf[x] : x \in DOMAIN NumberOf} \cup {DurationOf[x] : x \in DOMAIN DurationOf} \cup {0} :
          value = IF ms <= 0 THEN Bad ELSE TimeText(ms)
    BY <2>1 DEF Time
  <2> HIDE DEF value
  <2>3. ms # 0 /\ ~(ms <= 0) /\ value = TimeText(ms)
    BY <2>2 DEF value
  <2>4. ms \in Int /\ (ms > 0 => /\ Plain(TimeText(ms)) /\ TimeText(ms) \notin DOMAIN NumberOf
                                 /\ TimeText(ms) \in DOMAIN DurationOf /\ DurationOf[TimeText(ms)] = ms)
    BY <2>2, <2>3, ConversionsAssumption
  <2>5. /\ Plain(value) /\ value \notin DOMAIN NumberOf
        /\ value \in DOMAIN DurationOf /\ DurationOf[value] = ms
    BY <2>3, <2>4
  <2>6. Time(field, value) = value
    BY <2>3, <2>5 DEF Time
  <2> QED BY <1>4, <2>5, <2>6, FieldKinds DEF Reading, Plain, value
<1>5. CASE field \in DOMAIN MaxCount /\ field \notin Flags \cup LowerCase \cup Times
  <2>1. value = Count(field, text)
    BY <1>1, <1>5, FieldKinds DEF Reading
  <2>2. text \in DOMAIN NumberOf /\ NumberOf[text] \in 1..MaxCount[field] /\ value = ToString(NumberOf[text])
    BY <2>1 DEF Count
  <2>3. Plain(value) /\ value \in DOMAIN NumberOf /\ NumberOf[value] = NumberOf[text]
    BY <2>2, ConversionsAssumption
  <2>4. Count(field, value) = value
    BY <2>2, <2>3 DEF Count
  <2> HIDE DEF value
  <2> QED BY <1>5, <2>3, <2>4, FieldKinds DEF Reading, Plain, value
<1>6. CASE field = "pinSHA256"
  <2>1. text \in DOMAIN PinOf /\ value = PinOf[text]
    BY <1>1, <1>6, FieldKinds DEF Reading
  <2>2. Plain(value) /\ value \in DOMAIN PinOf /\ PinOf[value] = value
    BY <2>1, ConversionsAssumption, ProfilesAssumption DEF Converts
  <2> QED BY <1>6, <2>2, FieldKinds DEF Reading, Plain
<1>7. CASE field = "obfs-password"
  <2>1. value = parameter.value
    BY <1>1, <1>7, FieldKinds DEF Reading
  <2>2. value # NoText
    BY <1>1, <1>7, <2>1
  <2> QED BY <1>1, <1>7, <2>1, <2>2, FieldKinds DEF Reading
<1>8. CASE field \notin Flags \cup LowerCase \cup Times \cup DOMAIN MaxCount \cup {"pinSHA256", "obfs-password"}
  <2>1. value = text
    BY <1>1, <1>8, FieldKinds DEF Reading
  <2> QED BY <1>1, <1>8, <2>1, FieldKinds DEF Reading, Plain
<1> QED BY <1>2, <1>3, <1>4, <1>5, <1>6, <1>7, <1>8

\* The name of a parameter is its own name.
LEMMA NamesSettle ==
  ASSUME NEW p \in DOMAIN Names, NEW x
  PROVE  NameOf(p, NameOf(p, x)) = NameOf(p, x)
<1> DEFINE Row(y) == CHOOSE row \in Names[p] : Lower(y) \in ToSet(row)
<1>1. CASE ~Known(p, x)
  BY <1>1 DEF NameOf
<1>2. CASE Known(p, x)
  <2>1. ASSUME NEW y, Known(p, y)
        PROVE  Row(y) \in Names[p] /\ Lower(y) \in ToSet(Row(y)) /\ NameOf(p, y) = Head(Row(y))
    <3>1. PICK names \in Names[p] : \E z \in ToSet(names) : Lower(y) = Lower(z)
      BY <2>1 DEF Known, Aliases
    <3>2. Lower(y) \in ToSet(names)
      BY <3>1, NamesAssumption
    <3>3. Row(y) \in Names[p] /\ Lower(y) \in ToSet(Row(y))
      BY <3>2
    <3>4. NameOf(p, y) = Head(Row(y))
      BY <2>1 DEF NameOf, Known, Aliases
    <3> QED BY <3>3, <3>4
  <2> HIDE DEF Row
  <2>2. Row(x) \in Names[p] /\ NameOf(p, x) = Head(Row(x))
    BY <1>2, <2>1
  <2>3. Head(Row(x)) \in ToSet(Row(x))
    BY <2>2 DEF Names, HysteriaNames, TuicNames, ToSet
  <2>4. Lower(NameOf(p, x)) \in ToSet(Row(x))
    BY <2>2, <2>3, NamesAssumption
  <2>5. Known(p, NameOf(p, x))
    BY <1>2, KnownNames
  <2>6. /\ Row(NameOf(p, x)) \in Names[p] /\ Lower(NameOf(p, x)) \in ToSet(Row(NameOf(p, x)))
        /\ NameOf(p, NameOf(p, x)) = Head(Row(NameOf(p, x)))
    BY <2>1, <2>5
  <2>7. Row(NameOf(p, x)) = Row(x)
    BY <2>2, <2>4, <2>6, NamesAssumption
  <2> QED BY <2>2, <2>6, <2>7
<1> QED BY <1>1, <1>2

\* A known parameter is a field, or carries a credential.
LEMMA NamesAreFields ==
  ASSUME NEW p \in DOMAIN Names, NEW x, Known(p, x)
  PROVE  NameOf(p, x) \in Fields(p) \cup (IF p = "tuic" THEN Credentials ELSE {})
<1> DEFINE row == CHOOSE row \in Names[p] : Lower(x) \in ToSet(row)
<1>1. PICK names \in Names[p] : \E y \in ToSet(names) : Lower(x) = Lower(y)
  BY DEF Known, Aliases
<1>2. Lower(x) \in ToSet(names)
  BY <1>1, NamesAssumption
<1>3. row \in Names[p]
  BY <1>2
<1>4. NameOf(p, x) = Head(row)
  BY DEF NameOf, Known, Aliases
<1> HIDE DEF row
<1> QED BY <1>3, <1>4 DEF Fields

\* What a link must be to be accepted, and the profile it is accepted as.
Acceptable(l, p, data, credential) ==
  /\ l.scheme \in DOMAIN ProtocolOf /\ p = ProtocolOf[l.scheme] /\ l.host \in DOMAIN HostOf
  /\ data = Data(p, l.query) /\ credential = Credential(p, l)
  /\ GoodPort(p, l.port) /\ GoodQuery(p, l.query)
  /\ credential # Refused /\ GoodData(p, l.query, data)

IsProfileOf(profile, l, p, data, credential) ==
  /\ profile.protocol = p /\ profile.server = HostOf[l.host] /\ profile.port = Port(l.port)
  /\ profile.name = l.name /\ profile.credential = credential /\ profile.data = data
  /\ profile.query = l.query /\ profile.readOnly = (p = "tuic" /\ credential[1] = "4")

LEMMA AcceptedLink ==
  ASSUME NEW l, NEW p, NEW data, NEW credential, Acceptable(l, p, data, credential)
  PROVE  Parse(l) # Refused /\ IsProfileOf(Parse(l), l, p, data, credential)
<1> DEFINE readOnly == p = "tuic" /\ credential[1] = "4"
<1>1. Parse(l) = Validate(l, p, data, credential)
  BY DEF Parse, ParseAs, Acceptable
<1>2. Parse(l) = Profile(l, p, data, credential, readOnly)
  BY <1>1 DEF Validate, Acceptable
<1> HIDE DEF readOnly
<1>3. Profile(l, p, data, credential, readOnly) # Refused
  BY DEF Profile, Refused
<1>4. /\ Parse(l).protocol = p /\ Parse(l).server = HostOf[l.host] /\ Parse(l).port = Port(l.port)
      /\ Parse(l).name = l.name /\ Parse(l).credential = credential /\ Parse(l).data = data
      /\ Parse(l).query = l.query /\ Parse(l).readOnly = readOnly
  BY <1>2 DEF Profile
<1> QED BY <1>2, <1>3, <1>4 DEF IsProfileOf, readOnly

LEMMA ParsedLink ==
  ASSUME NEW l, Parse(l) # Refused
  PROVE  LET p == ProtocolOf[l.scheme] IN Acceptable(l, p, Data(p, l.query), Credential(p, l))
<1> DEFINE p == ProtocolOf[l.scheme]
           data == Data(p, l.query)
           credential == Credential(p, l)
<1>1. /\ l.scheme \in DOMAIN ProtocolOf /\ l.host \in DOMAIN HostOf
      /\ Parse(l) = Validate(l, p, data, credential)
  BY DEF Parse, ParseAs
<1> HIDE DEF p, data, credential
<1>2. /\ GoodPort(p, l.port) /\ GoodQuery(p, l.query)
      /\ credential # Refused /\ GoodData(p, l.query, data)
  BY <1>1 DEF Validate
<1> QED BY <1>1, <1>2 DEF Acceptable, p, data, credential

\* The bounds of a port, and their digits.
IsBounds(own) ==
  /\ own \in Seq(Nat) /\ Len(own) \in 1..2 /\ (Len(own) = 2 => own[1] < own[2])
  /\ \A b \in DOMAIN own : own[b] \in 1..MaxPort /\ Number(ToString(own[b])) = own[b]
Digits(own) == [b \in DOMAIN own |-> ToString(own[b])]
BoundsOf(item) ==
  IF Number(item[1]) = Number(item[Len(item)]) THEN <<Number(item[1])>> ELSE PortBounds(item)

\* The digits of a number are the number.
LEMMA NumbersSettle ==
  ASSUME NEW text, Number(text) # 0
  PROVE  Number(ToString(Number(text))) = Number(text)
<1>1. text \in DOMAIN NumberOf /\ Number(text) = NumberOf[text]
  BY DEF Number
<1> QED BY <1>1, ConversionsAssumption DEF Number

LEMMA ItemsAreBounds ==
  ASSUME NEW item \in Seq(STRING), GoodItem(item)
  PROVE  IsBounds(BoundsOf(item)) /\ (Len(item) = 1 => Len(BoundsOf(item)) = 1)
<1>1. /\ Len(item) \in 1..2 /\ DOMAIN item = 1..Len(item) /\ Number(item[1]) <= Number(item[Len(item)])
      /\ \A b \in DOMAIN item : Number(item[b]) \in 1..MaxPort /\ Number(ToString(Number(item[b]))) = Number(item[b])
  BY NumbersSettle DEF GoodItem
<1>2. CASE Number(item[1]) = Number(item[Len(item)])
  <2> DEFINE n == Number(item[1])
  <2>1. n \in 1..MaxPort /\ Number(ToString(n)) = n /\ BoundsOf(item) = <<n>>
    BY <1>1, <1>2 DEF BoundsOf
  <2> HIDE DEF n
  <2> QED BY <2>1 DEF IsBounds
<1>3. CASE Number(item[1]) # Number(item[Len(item)])
  <2>1. Len(item) = 2 /\ DOMAIN item = 1..2
    BY <1>1, <1>3
  <2>2. BoundsOf(item) = [b \in 1..2 |-> Number(item[b])]
    BY <1>3, <2>1 DEF BoundsOf, PortBounds
  <2>3. BoundsOf(item) = <<Number(item[1]), Number(item[2])>>
    BY <2>2
  <2> QED BY <1>1, <1>3, <2>1, <2>3 DEF IsBounds
<1> QED BY <1>2, <1>3

LEMMA BoundsSettle ==
  ASSUME NEW own, IsBounds(own)
  PROVE  GoodItem(Digits(own)) /\ BoundsOf(Digits(own)) = own /\ Len(Digits(own)) = Len(own)
<1>1. CASE Len(own) = 1
  <2>1. own = <<own[1]>> /\ own[1] \in 1..MaxPort /\ Number(ToString(own[1])) = own[1]
    BY <1>1 DEF IsBounds
  <2>2. Digits(own) = <<ToString(own[1])>>
    BY <2>1 DEF Digits
  <2> QED BY <1>1, <2>1, <2>2 DEF GoodItem, BoundsOf
<1>2. CASE Len(own) = 2
  <2>1. /\ own = <<own[1], own[2]>> /\ own[1] \in 1..MaxPort /\ own[2] \in 1..MaxPort /\ own[1] < own[2]
        /\ Number(ToString(own[1])) = own[1] /\ Number(ToString(own[2])) = own[2]
    BY <1>2 DEF IsBounds
  <2>2. Digits(own) = <<ToString(own[1]), ToString(own[2])>>
    BY <2>1 DEF Digits
  <2>3. PortBounds(Digits(own)) = own
    BY <2>1, <2>2 DEF PortBounds
  <2> QED BY <1>2, <2>1, <2>2, <2>3 DEF GoodItem, BoundsOf
<1> QED BY <1>1, <1>2 DEF IsBounds

\* So the port that is written is accepted, and is the port that was read.
LEMMA PortsSettle ==
  ASSUME NEW p, NEW port \in Seq(Seq(STRING)), GoodPort(p, port)
  PROVE  GoodPort(p, PortText(Port(port))) /\ Port(PortText(Port(port))) = Port(port)
<1> DEFINE own == Port(port)
           text == PortText(own)
<1>1. /\ DOMAIN own = 1..Len(own) /\ Len(own) \in Nat \ {0} /\ \A i \in DOMAIN own : IsBounds(own[i])
      /\ p = "hysteria2" \/ (Len(own) <= 1 /\ \A i \in DOMAIN own : Len(own[i]) = 1)
  <2>1. CASE port = <<>>
    <3>1. Number(ToString(443)) = 443
      BY ConversionsAssumption DEF Number
    <3>2. 443 \in 1..MaxPort
      <4>1. \A n : n = 65535 => 443 \in 1..n
        OBVIOUS
      <4> QED BY <4>1 DEF MaxPort
    <3>3. IsBounds(<<443>>)
      BY <3>1, <3>2 DEF IsBounds
    <3>4. own = <<<<443>>>>
      BY <2>1 DEF Port
    <3> HIDE DEF own
    <3> QED BY <3>3, <3>4
  <2>2. CASE port # <<>>
    <3>1. own = [i \in DOMAIN port |-> BoundsOf(port[i])]
      BY <2>2 DEF Port, BoundsOf
    <3> HIDE DEF own
    <3>2. DOMAIN own = 1..Len(port) /\ Len(own) = Len(port) /\ Len(port) \in Nat \ {0}
      BY <2>2, <3>1
    <3>3. \A i \in DOMAIN port : port[i] \in Seq(STRING) /\ GoodItem(port[i])
      BY DEF GoodPort
    <3>4. \A i \in DOMAIN own : IsBounds(own[i]) /\ (Len(port[i]) = 1 => Len(own[i]) = 1)
      BY <3>1, <3>3, ItemsAreBounds
    <3> QED BY <3>1, <3>2, <3>4 DEF GoodPort
  <2> QED BY <2>1, <2>2
<1>2. own = [i \in DOMAIN own |-> own[i]]
  <2>1. CASE port = <<>>
    <3>1. own = <<<<443>>>>
      BY <2>1 DEF Port
    <3> HIDE DEF own
    <3> QED BY <3>1
  <2>2. CASE port # <<>>
    <3>1. own = [i \in DOMAIN port |-> BoundsOf(port[i])]
      BY <2>2 DEF Port, BoundsOf
    <3> HIDE DEF own
    <3> QED BY <3>1
  <2> QED BY <2>1, <2>2
<1> HIDE DEF own
<1>3. text = [i \in 1..Len(own) |-> Digits(own[i])]
  BY <1>1 DEF PortText, Digits
<1> HIDE DEF text
<1>4. Len(text) = Len(own) /\ DOMAIN text = 1..Len(own) /\ text # <<>>
  BY <1>1, <1>3
<1>5. \A i \in DOMAIN text : GoodItem(text[i]) /\ BoundsOf(text[i]) = own[i] /\ Len(text[i]) = Len(own[i])
  BY <1>1, <1>3, BoundsSettle
<1>6. GoodPort(p, text)
  BY <1>1, <1>4, <1>5 DEF GoodPort
<1>7. Port(text) = [i \in DOMAIN text |-> BoundsOf(text[i])]
  BY <1>4 DEF Port, BoundsOf
<1>8. Port(text) = own
  BY <1>1, <1>2, <1>4, <1>5, <1>7
<1> QED BY <1>6, <1>8 DEF own, text

\* Generation 5 is an identifier and a password, and a pair of these is generation 5.
LEMMA PairsAreChosen ==
  ASSUME NEW user, NEW token, NEW uuid, NEW password,
         TuicChoice(user, token, uuid, password) # Refused,
         TuicChoice(user, token, uuid, password)[1] # "4"
  PROVE  \E id, secret : /\ id \in Uuids /\ secret # NoText
                         /\ TuicChoice(user, token, uuid, password) = <<"5", Lower(id), secret>>
  BY DEF TuicChoice

LEMMA PairsSettle ==
  ASSUME NEW id \in Uuids, NEW secret, secret # NoText
  PROVE  TuicChoice(<<Lower(id), secret>>, NoText, NoText, NoText) = <<"5", Lower(id), secret>>
<1>1. Lower(id) \in Uuids /\ Lower(id) # NoText /\ Lower(Lower(id)) = Lower(id)
  BY ConversionsAssumption, TextsSettle
<1> QED BY <1>1 DEF TuicChoice

\* So the credential that is written is the one that was read.
LEMMA CredentialsSettle ==
  ASSUME NEW p \in DOMAIN Names, NEW l, Credential(p, l) # Refused,
         ~(p = "tuic" /\ Credential(p, l)[1] = "4"),
         NEW profile, profile.protocol = p, profile.credential = Credential(p, l),
         NEW m, m.user = CanonicalUser(profile), m.form = CanonicalForm(profile),
         p = "tuic" => \A c \in Credentials : Occurrences("tuic", m.query, c) = {}
  PROVE  Credential(p, m) = Credential(p, l)
<1>1. CASE p = "tuic"
  <2> DEFINE token == Value("tuic", l.query, "token")
             uuid == Value("tuic", l.query, "uuid")
             password == Value("tuic", l.query, "password")
  <2>1. Credential(p, l) = TuicChoice(l.user, token, uuid, password)
    BY <1>1 DEF Credential, TuicCredential
  <2> HIDE DEF token, uuid, password
  <2>2. PICK id, secret : id \in Uuids /\ secret # NoText /\ Credential(p, l) = <<"5", Lower(id), secret>>
    BY <1>1, <2>1, PairsAreChosen
  <2>3. m.user = <<Lower(id), secret>>
    BY <1>1, <2>2 DEF CanonicalUser
  <2>4. \A c \in Credentials : Value("tuic", m.query, c) = NoText
    BY <1>1 DEF Value, Has, Occurrences
  <2>5. Credential(p, m) = TuicChoice(m.user, NoText, NoText, NoText)
    BY <1>1, <2>4 DEF Credential, TuicCredential, Credentials
  <2> QED BY <2>2, <2>3, <2>5, PairsSettle
<1>2. CASE p = "shadowsocks"
  <2> DEFINE method == Lower(Trim(l.user[1]))
  <2>1. Credential(p, l) = ShadowsocksCredential(l)
    BY <1>2 DEF Credential
  <2>2. /\ MethodAndPassword(l.user) /\ Key2022(method, l)
        /\ Credential(p, l) = <<method, l.user[2]>>
    BY <2>1 DEF ShadowsocksCredential
  <2>3. Lower(Trim(method)) = method
    <3>1. Trim(Trim(l.user[1])) = Trim(l.user[1]) /\ Lower(method) = method
      BY TextsSettle
    <3>2. CASE Trim(l.user[1]) = NoText
      BY <3>2, TextsSettle
    <3>3. CASE Trim(l.user[1]) # NoText
      BY <3>1, <3>3, TextsSettle DEF Plain
    <3> QED BY <3>2, <3>3
  <2> HIDE DEF method
  <2>4. m.user = <<method, l.user[2]>>
    BY <1>2, <2>2 DEF CanonicalUser
  <2>5. MethodAndPassword(m.user) /\ m.user[1] = method /\ m.user[2] = l.user[2]
    <3>1. Trim(l.user[1]) # NoText
      BY <2>2 DEF MethodAndPassword
    <3>2. Plain(method)
      <4>1. Plain(Trim(l.user[1]))
        BY <3>1, TextsSettle DEF Plain
      <4> QED BY <4>1, TextsSettle DEF method
    <3> QED BY <2>2, <2>4, <3>2 DEF MethodAndPassword, Plain
  <2>6. Key2022(method, m)
    BY <1>2, <2>2, <2>5 DEF Key2022, CanonicalForm
  <2>7. ShadowsocksCredential(m) = <<method, l.user[2]>>
    BY <2>3, <2>5, <2>6 DEF ShadowsocksCredential
  <2> QED BY <1>2, <2>2, <2>7 DEF Credential
<1>3. CASE p \notin {"tuic", "shadowsocks"}
  BY <1>3 DEF Credential, CanonicalUser
<1> QED BY <1>1, <1>2, <1>3

\* A query whose names are in the order of the keys.
IsQuery(p, q) ==
  /\ DOMAIN q \subseteq Nat \ {0} /\ IsFiniteSet(DOMAIN q)
  /\ \A i \in DOMAIN q :
       /\ q[i] = [key |-> q[i].key, value |-> q[i].value, has |-> q[i].has]
       /\ \E k \in DOMAIN KeyOrder : KeyOrder[k] = NameOf(p, q[i].key)

\* A profile that has a canonical query.
Writable(profile, p, q) ==
  /\ p \in DOMAIN Names /\ profile.protocol = p /\ profile.query = q /\ IsQuery(p, q)
  /\ profile.data = Data(p, q) /\ \A f \in Fields(p) : profile.data[f] # Bad
  /\ ~RepeatsCredential(profile)

\* A known parameter that is there is read.
LEMMA FirstsAreRead ==
  ASSUME NEW p, NEW q, DOMAIN q \subseteq Nat, NEW i \in DOMAIN q, Known(p, q[i].key), p \in DOMAIN Names
  PROVE  Has(p, q, NameOf(p, q[i].key))
<1> DEFINE name == NameOf(p, q[i].key)
           S == Occurrences(p, q, name)
<1>1. i \in S /\ S \subseteq Nat
  BY DEF Occurrences
<1>2. PICK m \in S : \A j \in S : m <= j
  BY <1>1, LeastNumber
<1>3. m \in DOMAIN q /\ NameOf(p, q[m].key) = name
  BY DEF Occurrences
<1>4. Known(p, q[m].key)
  BY <1>3, NamesAreKnown
<1> QED BY <1>2, <1>3, <1>4 DEF Has, Reads

LEMMA PrimariesAreRead ==
  ASSUME NEW profile, NEW p, NEW q, Writable(profile, p, q), NEW f
  PROVE  Primary(profile, f) <=> f \in Fields(p) /\ Has(p, q, f)
<1>1. profile.data = [g \in Fields(p) |-> IF Has(p, q, g) THEN Reading(p, g, Reader(p, q, g)) ELSE Default(g)]
  BY DEF Writable, Data
<1>2. profile.protocol = p /\ profile.query = q
  BY DEF Writable
<1> QED BY <1>1, <1>2 DEF Primary

LEMMA ReplacedAreRead ==
  ASSUME NEW profile, NEW p, NEW q, Writable(profile, p, q), NEW i \in DOMAIN q
  PROVE  Replaced(profile, i) <=> Reads(p, q, i)
<1> DEFINE name == NameOf(p, q[i].key)
<1>1. profile.protocol = p /\ profile.query = q /\ p \in DOMAIN Names
  BY DEF Writable
<1>2. Reads(p, q, i) => name \in Fields(p) \cup Credentials /\ Has(p, q, name)
  BY <1>1, NamesAreFields DEF Reads, Has
<1>3. Reads(p, q, i) => Primary(profile, name) \/ name \in Credentials
  BY <1>2, PrimariesAreRead
<1> QED BY <1>1, <1>3 DEF Replaced

\* No credential is among what is kept.
LEMMA CredentialsAreRead ==
  ASSUME NEW profile, NEW p, NEW q, Writable(profile, p, q), NEW i \in DOMAIN q,
         p = "tuic", NameOf(p, q[i].key) \in Credentials
  PROVE  Reads(p, q, i)
<1> SUFFICES ASSUME ~Reads(p, q, i) PROVE FALSE
  OBVIOUS
<1>1. profile.protocol = p /\ profile.query = q /\ ~RepeatsCredential(profile)
  BY DEF Writable
<1>2. i \in KeptOf(p, q)
  BY DEF KeptOf, Connects
<1>3. LineOf(p, q, i) \in Extras(p, q) /\ LineOf(p, q, i)[1] = NameOf(p, q[i].key)
  BY <1>2, ExtrasAreLines DEF LineOf
<1> QED BY <1>1, <1>3 DEF RepeatsCredential

\* Where what is written stands: the fields that were read, and all that was not.
IsPlaceOf(p, q, place) ==
  /\ place \in (DOMAIN KeyOrder) \X Nat
  /\ \/ /\ place[2] = 0
        /\ KeyOrder[place[1]] \in Fields(p) /\ Has(p, q, KeyOrder[place[1]])
     \/ /\ place[2] \in DOMAIN q /\ ~Reads(p, q, place[2])
        /\ KeyOrder[place[1]] = NameOf(p, q[place[2]].key)

LEMMA PlacesAreOf ==
  ASSUME NEW profile, NEW p, NEW q, Writable(profile, p, q)
  PROVE  /\ IsPlaces(CanonicalPlaces(profile))
         /\ \A place : place \in CanonicalPlaces(profile) <=> IsPlaceOf(p, q, place)
<1> DEFINE S == CanonicalPlaces(profile)
           written == {i \in DOMAIN q : ~Reads(p, q, i)}
<1>1. /\ profile.protocol = p /\ profile.query = q /\ DOMAIN q \subseteq Nat /\ IsFiniteSet(DOMAIN q)
      /\ 0 \notin DOMAIN q
  BY DEF Writable, IsQuery
<1>2. {i \in DOMAIN profile.query : ~Replaced(profile, i)} = written
  BY <1>1, ReplacedAreRead
<1>3. ParameterPlaces(profile, written)
        = {place \in (DOMAIN KeyOrder) \X written : KeyOrder[place[1]] = NameOf(p, q[place[2]].key)}
  BY <1>1 DEF ParameterPlaces
<1>4. FieldPlaces(profile)
        = {<<k, 0>> : k \in {x \in DOMAIN KeyOrder : KeyOrder[x] \in Fields(p) /\ Has(p, q, KeyOrder[x])}}
  BY PrimariesAreRead DEF FieldPlaces
<1>5. S = FieldPlaces(profile) \cup ParameterPlaces(profile, written)
  BY <1>2 DEF CanonicalPlaces
<1> HIDE DEF S
<1>6. \A place : place \in S <=> IsPlaceOf(p, q, place)
  BY <1>1, <1>3, <1>4, <1>5 DEF IsPlaceOf
<1>7. IsFiniteSet(DOMAIN KeyOrder) /\ DOMAIN KeyOrder \subseteq Nat
  <2>1. KeyOrder \in Seq(STRING)
    BY ProfilesAssumption
  <2>2. DOMAIN KeyOrder = 1..Len(KeyOrder) /\ Len(KeyOrder) \in Nat
    BY <2>1
  <2> QED BY <2>2, FS_Interval
<1>8. S \subseteq (DOMAIN KeyOrder) \X (DOMAIN q \cup {0})
  BY <1>6 DEF IsPlaceOf
<1>9. IsFiniteSet(S)
  <2>1. IsFiniteSet(DOMAIN q \cup {0})
    BY <1>1, FS_AddElement
  <2>2. IsFiniteSet((DOMAIN KeyOrder) \X (DOMAIN q \cup {0}))
    BY <1>7, <2>1, FS_Product
  <2> QED BY <1>8, <2>2, FS_Subset
<1>10. IsPlaces(S)
  BY <1>1, <1>7, <1>8, <1>9 DEF IsPlaces
<1> QED BY <1>6, <1>10 DEF S

\* A query written in the order of its places.
WrittenAt(profile, q, place) ==
  IF place[2] = 0
  THEN [key |-> KeyOrder[place[1]], value |-> profile.data[KeyOrder[place[1]]], has |-> TRUE]
  ELSE [key |-> KeyOrder[place[1]], value |-> q[place[2]].value, has |-> q[place[2]].has]

IsWritten(profile, p, q, order, r) ==
  /\ DOMAIN r = DOMAIN order /\ DOMAIN r \subseteq Nat \ {0} /\ IsFiniteSet(DOMAIN r)
  /\ \A n \in DOMAIN r :
       /\ IsPlaceOf(p, q, order[n]) /\ r[n] = WrittenAt(profile, q, order[n])
       /\ NameOf(p, r[n].key) = KeyOrder[order[n][1]] /\ r[n].key = KeyOrder[order[n][1]]
  /\ \A place : IsPlaceOf(p, q, place) => \E n \in DOMAIN r : order[n] = place
  /\ \A n, m \in DOMAIN r : order[n] = order[m] => n = m
  /\ \A n, m \in DOMAIN r : Precedes(order[n], order[m]) => n < m

\* The name at a place is a name.
LEMMA PlacesAreNamed ==
  ASSUME NEW p \in DOMAIN Names, NEW q, NEW place, IsPlaceOf(p, q, place)
  PROVE  NameOf(p, KeyOrder[place[1]]) = KeyOrder[place[1]]
<1>1. PICK i \in DOMAIN q : KeyOrder[place[1]] = NameOf(p, q[i].key)
  BY DEF IsPlaceOf, Has
<1> QED BY <1>1, NamesSettle

LEMMA QueriesAreWritten ==
  ASSUME NEW profile, NEW p, NEW q, Writable(profile, p, q)
  PROVE  IsWritten(profile, p, q, InOrder(CanonicalPlaces(profile)), CanonicalQuery(profile))
<1> DEFINE S == CanonicalPlaces(profile)
           order == InOrder(S)
           r == CanonicalQuery(profile)
<1>1. IsPlaces(S) /\ \A place : place \in S <=> IsPlaceOf(p, q, place)
  BY PlacesAreOf
<1>2. /\ profile.protocol = p /\ profile.query = q /\ p \in DOMAIN Names
      /\ \A i \in DOMAIN q : i # 0 /\ q[i] = [key |-> q[i].key, value |-> q[i].value, has |-> q[i].has]
  BY DEF Writable, IsQuery
<1>3. r = [n \in DOMAIN order |-> CanonicalEntry(profile, order[n])]
  BY DEF CanonicalQuery
<1> HIDE DEF S, r
<1>4. /\ DOMAIN order = 1..Cardinality(S) /\ Cardinality(S) \in Nat
      /\ \A n \in DOMAIN order : order[n] \in S /\ Rank(S, order[n]) = n - 1
      /\ \A x \in S : Rank(S, x) + 1 \in DOMAIN order /\ order[Rank(S, x) + 1] = x
  BY <1>1, OrderIsByRank, RanksAreNumbers
<1> HIDE DEF order
<1>5. DOMAIN r = DOMAIN order /\ DOMAIN r \subseteq Nat \ {0} /\ IsFiniteSet(DOMAIN r)
  <2>1. DOMAIN r = DOMAIN order
    BY <1>3
  <2>2. 1 \in Int /\ Cardinality(S) \in Int
    BY <1>4
  <2>3. IsFiniteSet(1..Cardinality(S))
    BY <2>2, FS_Interval
  <2> QED BY <1>4, <2>1, <2>3
<1>6. ASSUME NEW n \in DOMAIN r
      PROVE  /\ IsPlaceOf(p, q, order[n]) /\ r[n] = WrittenAt(profile, q, order[n])
             /\ NameOf(p, r[n].key) = KeyOrder[order[n][1]] /\ r[n].key = KeyOrder[order[n][1]]
  <2> DEFINE place == order[n]
  <2>1. IsPlaceOf(p, q, place) /\ r[n] = CanonicalEntry(profile, place)
    BY <1>1, <1>3, <1>4, <1>5
  <2> HIDE DEF place
  <2>2. ASSUME place[2] = 0 PROVE r[n] = WrittenAt(profile, q, place)
    BY <2>1, <2>2 DEF CanonicalEntry, WrittenAt
  <2>3. ASSUME place[2] # 0 PROVE r[n] = WrittenAt(profile, q, place)
    <3>1. place[2] \in DOMAIN q /\ KeyOrder[place[1]] = NameOf(p, q[place[2]].key)
      BY <2>1, <2>3 DEF IsPlaceOf
    <3>2. r[n] = [q[place[2]] EXCEPT !.key = NameOf(p, q[place[2]].key)]
      BY <1>2, <2>1, <2>3 DEF CanonicalEntry, Entry
    <3>3. q[place[2]] = [key |-> q[place[2]].key, value |-> q[place[2]].value, has |-> q[place[2]].has]
      BY <1>2, <3>1
    <3>4. r[n] = [key |-> KeyOrder[place[1]], value |-> q[place[2]].value, has |-> q[place[2]].has]
      BY <3>1, <3>2, <3>3
    <3> QED BY <2>3, <3>4 DEF WrittenAt
  <2>4. r[n] = WrittenAt(profile, q, place)
    BY <2>2, <2>3
  <2>5. r[n].key = KeyOrder[place[1]]
    BY <2>4 DEF WrittenAt
  <2>6. NameOf(p, KeyOrder[place[1]]) = KeyOrder[place[1]]
    BY <1>2, <2>1, PlacesAreNamed
  <2> QED BY <2>1, <2>4, <2>5, <2>6 DEF place
<1>7. \A place : IsPlaceOf(p, q, place) => \E n \in DOMAIN r : order[n] = place
  BY <1>1, <1>4, <1>5
<1>8. \A n, m \in DOMAIN r : order[n] = order[m] => n = m
  BY <1>4, <1>5
<1>9. \A n, m \in DOMAIN r : Precedes(order[n], order[m]) => n < m
  <2> TAKE n \in DOMAIN r, m \in DOMAIN r
  <2> HAVE Precedes(order[n], order[m])
  <2>1. Rank(S, order[n]) < Rank(S, order[m])
    BY <1>1, <1>4, <1>5, RankIsMonotone
  <2> QED BY <1>4, <1>5, <2>1
<1>10. IsWritten(profile, p, q, order, r)
  BY <1>5, <1>6, <1>7, <1>8, <1>9 DEF IsWritten
<1> QED BY <1>10 DEF order, S, r

\* What is read of it are the fields.
LEMMA FieldsAreRead ==
  ASSUME NEW profile, NEW p, NEW q, Writable(profile, p, q), NEW order, NEW r,
         IsWritten(profile, p, q, order, r), NEW n \in DOMAIN r
  PROVE  Reads(p, r, n) <=> order[n][2] = 0
<1> DEFINE place == order[n]
           name == KeyOrder[place[1]]
<1>1. /\ p \in DOMAIN Names /\ DOMAIN q \subseteq Nat \ {0} /\ DOMAIN q \subseteq Nat
      /\ \A k, m \in DOMAIN KeyOrder : KeyOrder[k] = KeyOrder[m] => k = m
  BY ProfilesAssumption DEF Writable, IsQuery
<1>2. IsPlaceOf(p, q, place) /\ NameOf(p, r[n].key) = name /\ r[n].key = name
  BY DEF IsWritten
<1> HIDE DEF place
<1>3. place \in (DOMAIN KeyOrder) \X Nat
  BY <1>2 DEF IsPlaceOf
<1>4. CASE place[2] = 0
  <2>1. Has(p, q, name)
    BY <1>1, <1>2, <1>4 DEF IsPlaceOf
  <2>2. PICK i \in DOMAIN q : Known(p, q[i].key) /\ NameOf(p, q[i].key) = name
    BY <2>1 DEF Has, Reads
  <2>3. Known(p, r[n].key)
    BY <1>1, <1>2, <2>2, KnownNames
  <2>4. ASSUME NEW m \in Occurrences(p, r, name) PROVE n <= m
    <3>1. m \in DOMAIN r /\ NameOf(p, r[m].key) = name
      BY DEF Occurrences
    <3>2. IsPlaceOf(p, q, order[m]) /\ KeyOrder[order[m][1]] = name
      BY <3>1 DEF IsWritten
    <3>3. order[m] \in (DOMAIN KeyOrder) \X Nat
      BY <3>2 DEF IsPlaceOf
    <3>4. order[m][1] = place[1]
      BY <1>1, <1>3, <3>2, <3>3
    <3>5. order[m] = place \/ Precedes(place, order[m])
      BY <1>3, <1>4, <3>3, <3>4 DEF Precedes
    <3>6. n = m \/ n < m
      BY <3>1, <3>5 DEF IsWritten, place
    <3>7. n \in Nat /\ m \in Nat
      BY <3>1 DEF IsWritten
    <3> QED BY <3>6, <3>7
  <2>5. Reads(p, r, n)
    BY <1>2, <2>3, <2>4 DEF Reads
  <2> QED BY <1>4, <2>5 DEF place
<1>5. CASE place[2] # 0
  <2>1. place[2] \in DOMAIN q /\ ~Reads(p, q, place[2]) /\ name = NameOf(p, q[place[2]].key)
    BY <1>2, <1>5 DEF IsPlaceOf
  <2> SUFFICES ASSUME Reads(p, r, n) PROVE FALSE
    BY <1>5 DEF place
  <2>2. Known(p, name)
    BY <1>2 DEF Reads
  <2>3. Known(p, q[place[2]].key)
    BY <2>1, <2>2 DEF NameOf
  <2>4. Has(p, q, name)
    BY <1>1, <2>1, <2>3, FirstsAreRead
  <2>5. name \in Fields(p)
    <3>1. name \in Fields(p) \cup (IF p = "tuic" THEN Credentials ELSE {})
      BY <1>1, <2>1, <2>3, NamesAreFields
    <3> QED BY <2>1, <3>1, CredentialsAreRead
  <2>6. IsPlaceOf(p, q, <<place[1], 0>>)
    BY <1>3, <2>4, <2>5 DEF IsPlaceOf
  <2>7. PICK m \in DOMAIN r : order[m] = <<place[1], 0>>
    BY <2>6 DEF IsWritten
  <2>8. NameOf(p, r[m].key) = name
    BY <2>7 DEF IsWritten
  <2>9. n <= m
    BY <1>2, <2>8 DEF Reads, Occurrences
  <2>10. Precedes(order[m], order[n])
    BY <1>3, <1>5, <2>7 DEF Precedes, place
  <2>11. m < n
    BY <2>10 DEF IsWritten
  <2>12. m \in Nat /\ n \in Nat
    BY DEF IsWritten
  <2> QED BY <2>9, <2>11, <2>12
<1> QED BY <1>4, <1>5

\* Each field that was read is written once, and its value is the one it was read as.
LEMMA FieldsAreWritten ==
  ASSUME NEW profile, NEW p, NEW q, Writable(profile, p, q), NEW order, NEW r,
         IsWritten(profile, p, q, order, r), NEW f \in Fields(p)
  PROVE  /\ Has(p, r, f) <=> Has(p, q, f)
         /\ Has(p, r, f) => Reader(p, r, f).key = f /\ Reader(p, r, f).value = profile.data[f]
<1>1. /\ p \in DOMAIN Names /\ DOMAIN r \subseteq Nat
  BY DEF Writable, IsWritten
<1>2. ASSUME NEW n \in DOMAIN r, Reads(p, r, n), NameOf(p, r[n].key) = f
      PROVE  Has(p, q, f) /\ Reader(p, r, f).key = f /\ Reader(p, r, f).value = profile.data[f]
  <2>1. order[n][2] = 0
    BY <1>2, FieldsAreRead
  <2>2. /\ IsPlaceOf(p, q, order[n]) /\ KeyOrder[order[n][1]] = f
        /\ r[n] = WrittenAt(profile, q, order[n])
    BY <1>2 DEF IsWritten
  <2>3. 0 \notin DOMAIN q
    BY DEF Writable, IsQuery
  <2>4. Has(p, q, f)
    BY <2>1, <2>2, <2>3 DEF IsPlaceOf
  <2>5. r[n].key = f /\ r[n].value = profile.data[f]
    BY <2>1, <2>2 DEF WrittenAt
  <2>6. n \in Occurrences(p, r, f)
    BY <1>2 DEF Occurrences
  <2>7. Reader(p, r, f) = r[n]
    BY <1>1, <1>2, <2>6, ReaderIsUnique
  <2> QED BY <2>4, <2>5, <2>7
<1>3. ASSUME Has(p, q, f) PROVE Has(p, r, f)
  <2>1. PICK i \in DOMAIN q : NameOf(p, q[i].key) = f
    BY <1>3 DEF Has
  <2>2. PICK k \in DOMAIN KeyOrder : KeyOrder[k] = f
    BY <2>1 DEF Writable, IsQuery
  <2>3. IsPlaceOf(p, q, <<k, 0>>)
    BY <1>3, <2>2 DEF IsPlaceOf
  <2>4. PICK n \in DOMAIN r : order[n] = <<k, 0>>
    BY <2>3 DEF IsWritten
  <2>5. NameOf(p, r[n].key) = f
    BY <2>2, <2>4 DEF IsWritten
  <2>6. Reads(p, r, n)
    BY <2>4, FieldsAreRead
  <2> QED BY <2>5, <2>6 DEF Has
<1> QED BY <1>2, <1>3 DEF Has

LEMMA DataAreWritten ==
  ASSUME NEW profile, NEW p, NEW q, Writable(profile, p, q), NEW order, NEW r,
         IsWritten(profile, p, q, order, r)
  PROVE  Data(p, r) = profile.data
<1>1. /\ profile.data = [f \in Fields(p) |-> IF Has(p, q, f) THEN Reading(p, f, Reader(p, q, f)) ELSE Default(f)]
      /\ \A f \in Fields(p) : profile.data[f] # Bad
  BY DEF Writable, Data
<1>2. ASSUME NEW f \in Fields(p)
      PROVE  (IF Has(p, r, f) THEN Reading(p, f, Reader(p, r, f)) ELSE Default(f)) = profile.data[f]
  <2>1. CASE Has(p, q, f)
    <3>1. profile.data[f] = Reading(p, f, Reader(p, q, f)) /\ Reading(p, f, Reader(p, q, f)) # Bad
      BY <1>1, <2>1
    <3>2. Has(p, r, f) /\ Reader(p, r, f).key = f /\ Reader(p, r, f).value = Reading(p, f, Reader(p, q, f))
      BY <2>1, <3>1, FieldsAreWritten
    <3>3. Reading(p, f, Reader(p, r, f)) = Reading(p, f, Reader(p, q, f))
      BY <3>1, <3>2, ReadingsSettle
    <3> QED BY <3>1, <3>2, <3>3
  <2>2. CASE ~Has(p, q, f)
    BY <1>1, <2>2, FieldsAreWritten
  <2> QED BY <2>1, <2>2
<1> QED BY <1>1, <1>2 DEF Data

LEMMA GoodQueriesAreWritten ==
  ASSUME NEW profile, NEW p, NEW q, Writable(profile, p, q), NEW order, NEW r,
         IsWritten(profile, p, q, order, r), GoodQuery(p, q)
  PROVE  GoodQuery(p, r)
<1> SUFFICES ASSUME NEW n \in DOMAIN r, Known(p, r[n].key)
             PROVE  r[n].has /\ r[n].value # NoText
  BY DEF GoodQuery
<1> DEFINE place == order[n]
<1>1. /\ IsPlaceOf(p, q, place) /\ r[n] = WrittenAt(profile, q, place)
      /\ r[n].key = KeyOrder[place[1]] /\ NameOf(p, r[n].key) = KeyOrder[place[1]]
  BY DEF IsWritten
<1>2. /\ p \in DOMAIN Names /\ 0 \notin DOMAIN q
      /\ profile.data = [f \in Fields(p) |-> IF Has(p, q, f) THEN Reading(p, f, Reader(p, q, f)) ELSE Default(f)]
      /\ \A f \in Fields(p) : profile.data[f] # Bad
  BY DEF Writable, IsQuery, Data
<1> HIDE DEF place
<1>3. CASE place[2] = 0
  <2> DEFINE f == KeyOrder[place[1]]
  <2>1. f \in Fields(p) /\ Has(p, q, f)
    BY <1>1, <1>2, <1>3 DEF IsPlaceOf
  <2>2. r[n].has /\ r[n].value = profile.data[f]
    BY <1>1, <1>3 DEF WrittenAt
  <2> HIDE DEF f
  <2>3. profile.data[f] = Reading(p, f, Reader(p, q, f)) /\ Reading(p, f, Reader(p, q, f)) # Bad
    BY <1>2, <2>1
  <2> DEFINE again == [key |-> f, value |-> Reading(p, f, Reader(p, q, f)), has |-> TRUE]
  <2>4. again.key = f /\ again.value = Reading(p, f, Reader(p, q, f))
    OBVIOUS
  <2> HIDE DEF again
  <2>5. again.value # NoText
    BY <2>3, <2>4, ReadingsSettle
  <2> QED BY <2>2, <2>3, <2>4, <2>5
<1>4. CASE place[2] # 0
  <2>1. place[2] \in DOMAIN q /\ KeyOrder[place[1]] = NameOf(p, q[place[2]].key)
    BY <1>1, <1>4 DEF IsPlaceOf
  <2>2. Known(p, q[place[2]].key)
    BY <1>1, <2>1 DEF NameOf
  <2>3. q[place[2]].has /\ q[place[2]].value # NoText
    BY <2>1, <2>2 DEF GoodQuery
  <2> QED BY <1>1, <1>4, <2>3 DEF WrittenAt
<1> QED BY <1>3, <1>4

\* A parameter that carried a credential is not written.
LEMMA CredentialsAreLeftOut ==
  ASSUME NEW profile, NEW p, NEW q, Writable(profile, p, q), NEW order, NEW r,
         IsWritten(profile, p, q, order, r), p = "tuic", NEW c \in Credentials
  PROVE  Occurrences(p, r, c) = {}
<1> SUFFICES ASSUME NEW n \in DOMAIN r, NameOf(p, r[n].key) = c PROVE FALSE
  BY DEF Occurrences
<1>1. IsPlaceOf(p, q, order[n]) /\ KeyOrder[order[n][1]] = c
  BY DEF IsWritten
<1>2. c \notin Fields(p)
  BY DEF Fields
<1>3. order[n][2] \in DOMAIN q /\ ~Reads(p, q, order[n][2]) /\ NameOf(p, q[order[n][2]].key) = c
  BY <1>1, <1>2 DEF IsPlaceOf
<1> QED BY <1>3, CredentialsAreRead

\* All that was kept is written, in its order.
LEMMA ExtrasAreWritten ==
  ASSUME NEW profile, NEW p, NEW q, Writable(profile, p, q), NEW order, NEW r,
         IsWritten(profile, p, q, order, r)
  PROVE  Extras(p, r) = Extras(p, q)
<1> DEFINE to == [n \in KeptOf(p, r) |-> order[n][2]]
<1>1. /\ p \in DOMAIN Names /\ DOMAIN q \subseteq Nat \ {0} /\ DOMAIN q \subseteq Nat
      /\ DOMAIN r \subseteq Nat /\ IsFiniteSet(DOMAIN r)
      /\ \A k, m \in DOMAIN KeyOrder : KeyOrder[k] = KeyOrder[m] => k = m
  BY ProfilesAssumption DEF Writable, IsQuery, IsWritten
<1>2. ASSUME NEW i \in DOMAIN q, NEW n \in DOMAIN r, NameOf(p, q[i].key) = r[n].key
      PROVE  Connects(p, q[i]) <=> Connects(p, r[n])
  BY <1>2 DEF Connects, NameOf, Known, Aliases, Names
<1>3. ASSUME NEW n \in KeptOf(p, r)
      PROVE  /\ order[n][2] \in KeptOf(p, q) /\ n \in DOMAIN r
             /\ order[n] = <<order[n][1], order[n][2]>> /\ order[n][1] \in DOMAIN KeyOrder
             /\ KeyOrder[order[n][1]] = NameOf(p, q[order[n][2]].key)
             /\ NameOf(p, r[n].key) = NameOf(p, q[order[n][2]].key)
             /\ r[n].has = q[order[n][2]].has /\ r[n].value = q[order[n][2]].value
  <2>1. n \in DOMAIN r /\ ~Reads(p, r, n) /\ Connects(p, r[n])
    BY DEF KeptOf
  <2>2. order[n][2] # 0
    BY <2>1, FieldsAreRead
  <2>3. /\ IsPlaceOf(p, q, order[n]) /\ r[n] = WrittenAt(profile, q, order[n])
        /\ r[n].key = KeyOrder[order[n][1]] /\ NameOf(p, r[n].key) = KeyOrder[order[n][1]]
    BY <2>1 DEF IsWritten
  <2>4. /\ order[n][2] \in DOMAIN q /\ ~Reads(p, q, order[n][2])
        /\ KeyOrder[order[n][1]] = NameOf(p, q[order[n][2]].key)
        /\ order[n] = <<order[n][1], order[n][2]>> /\ order[n][1] \in DOMAIN KeyOrder
    BY <2>2, <2>3 DEF IsPlaceOf
  <2>5. Connects(p, q[order[n][2]])
    BY <1>2, <2>1, <2>3, <2>4
  <2>6. r[n].has = q[order[n][2]].has /\ r[n].value = q[order[n][2]].value
    BY <2>2, <2>3 DEF WrittenAt
  <2> QED BY <2>1, <2>3, <2>4, <2>5, <2>6 DEF KeptOf
<1>4. ASSUME NEW i \in KeptOf(p, q) PROVE \E n \in KeptOf(p, r) : order[n][2] = i
  <2>1. i \in DOMAIN q /\ ~Reads(p, q, i) /\ Connects(p, q[i]) /\ i # 0 /\ i \in Nat
    BY <1>1 DEF KeptOf
  <2>2. PICK k \in DOMAIN KeyOrder : KeyOrder[k] = NameOf(p, q[i].key)
    BY <2>1 DEF Writable, IsQuery
  <2>3. IsPlaceOf(p, q, <<k, i>>)
    BY <2>1, <2>2 DEF IsPlaceOf
  <2>4. PICK n \in DOMAIN r : order[n] = <<k, i>>
    BY <2>3 DEF IsWritten
  <2>5. ~Reads(p, r, n)
    BY <2>1, <2>4, FieldsAreRead
  <2>6. r[n].key = NameOf(p, q[i].key)
    BY <2>2, <2>4 DEF IsWritten
  <2>7. n \in KeptOf(p, r)
    BY <1>2, <2>1, <2>5, <2>6 DEF KeptOf
  <2> QED BY <2>4, <2>7
<1>5. to \in [KeptOf(p, r) -> KeptOf(p, q)] /\ \A n \in KeptOf(p, r) : to[n] = order[n][2]
  BY <1>3
<1> HIDE DEF to
<1>6. ASSUME NEW n \in KeptOf(p, r), NEW m \in KeptOf(p, r), NameOf(p, r[n].key) = NameOf(p, r[m].key)
      PROVE  /\ n <= m <=> order[n][2] <= order[m][2]
             /\ order[n][2] = order[m][2] => n = m
  <2>1. order[n][1] = order[m][1] /\ n \in DOMAIN r /\ m \in DOMAIN r
    BY <1>1, <1>3, <1>6
  <2>2. n \in Nat /\ m \in Nat /\ order[n][2] \in Nat /\ order[m][2] \in Nat
    BY <1>1, <1>3 DEF KeptOf
  <2>3. order[n][2] < order[m][2] => n < m
    BY <2>1 DEF Precedes, IsWritten
  <2>4. order[m][2] < order[n][2] => m < n
    BY <2>1 DEF Precedes, IsWritten
  <2>5. order[n][2] = order[m][2] => n = m
    BY <1>3, <2>1 DEF IsWritten
  <2> QED BY <2>2, <2>3, <2>4, <2>5
<1>7. \A n, m \in KeptOf(p, r) : to[n] = to[m] => n = m
  BY <1>3, <1>5, <1>6
<1>8. KeptMoved(p, r, q, to)
  BY <1>1, <1>3, <1>4, <1>5, <1>6, <1>7 DEF KeptMoved
<1> QED BY <1>8, ExtrasMove

\* The query that is written is written as it stands.
LEMMA WrittenAreWritable ==
  ASSUME NEW profile, NEW p, NEW q, Writable(profile, p, q), NEW order, NEW r,
         IsWritten(profile, p, q, order, r),
         NEW again, again.protocol = p, again.query = r, again.data = profile.data
  PROVE  Writable(again, p, r)
<1>1. ASSUME NEW n \in DOMAIN r
      PROVE  /\ r[n] = [key |-> r[n].key, value |-> r[n].value, has |-> r[n].has]
             /\ \E k \in DOMAIN KeyOrder : KeyOrder[k] = NameOf(p, r[n].key)
  <2>1. /\ IsPlaceOf(p, q, order[n]) /\ r[n] = WrittenAt(profile, q, order[n])
        /\ NameOf(p, r[n].key) = KeyOrder[order[n][1]]
    BY DEF IsWritten
  <2>2. order[n][1] \in DOMAIN KeyOrder
    BY <2>1 DEF IsPlaceOf
  <2>3. r[n] = [key |-> r[n].key, value |-> r[n].value, has |-> r[n].has]
    BY <2>1 DEF WrittenAt
  <2> QED BY <2>1, <2>2, <2>3
<1>2. IsQuery(p, r)
  BY <1>1 DEF IsQuery, IsWritten
<1>3. Extras(p, r) = Extras(p, q) /\ Data(p, r) = profile.data
  BY ExtrasAreWritten, DataAreWritten
<1>4. ~RepeatsCredential(again)
  BY <1>3 DEF RepeatsCredential, Writable
<1> QED BY <1>2, <1>3, <1>4 DEF Writable

LEMMA QueriesSettle ==
  ASSUME NEW profile, NEW p, NEW q, Writable(profile, p, q),
         NEW again, again.protocol = p, again.query = CanonicalQuery(profile), again.data = profile.data
  PROVE  CanonicalQuery(again) = CanonicalQuery(profile)
<1> DEFINE S == CanonicalPlaces(profile)
           T == CanonicalPlaces(again)
           order == InOrder(S)
           r == CanonicalQuery(profile)
           to == [x \in S |-> IF x[2] = 0 THEN x ELSE <<x[1], Rank(S, x) + 1>>]
<1>1. IsWritten(profile, p, q, order, r)
  BY QueriesAreWritten
<1>2. Writable(again, p, r)
  BY <1>1, WrittenAreWritable
<1>3. IsWritten(again, p, r, InOrder(T), CanonicalQuery(again))
  BY <1>2, QueriesAreWritten
<1>4. /\ IsPlaces(S) /\ \A place : place \in S <=> IsPlaceOf(p, q, place)
      /\ IsPlaces(T) /\ \A place : place \in T <=> IsPlaceOf(p, r, place)
  BY <1>2, PlacesAreOf
<1>5. /\ CanonicalQuery(again) = [n \in DOMAIN CanonicalQuery(again) |-> CanonicalQuery(again)[n]]
      /\ r = [n \in DOMAIN r |-> r[n]]
  BY DEF CanonicalQuery
<1>6. ASSUME NEW x \in S
      PROVE  (x[2] = 0 => to[x] = x) /\ (x[2] # 0 => to[x] = <<x[1], Rank(S, x) + 1>>)
  OBVIOUS
<1>7. DOMAIN to = S
  OBVIOUS
<1>8. to = [x \in S |-> to[x]]
  OBVIOUS
<1> HIDE DEF S, T, r, to
<1>9. /\ \A n \in DOMAIN order : order[n] \in S /\ Rank(S, order[n]) = n - 1 /\ n \in Nat
      /\ \A x \in S : Rank(S, x) + 1 \in DOMAIN order /\ order[Rank(S, x) + 1] = x /\ Rank(S, x) \in Nat
  <2>1. /\ Cardinality(S) \in Nat /\ DOMAIN order = 1..Cardinality(S)
        /\ \A n \in DOMAIN order : order[n] \in S /\ Rank(S, order[n]) = n - 1
        /\ \A x \in S : Rank(S, x) + 1 \in DOMAIN order /\ order[Rank(S, x) + 1] = x
        /\ \A x \in S : Rank(S, x) \in 0..(Cardinality(S) - 1)
    BY <1>4, OrderIsByRank, RanksAreNumbers
  <2> HIDE DEF order
  <2> QED BY <2>1
<1> HIDE DEF order
<1>10. /\ DOMAIN r = DOMAIN order /\ S \subseteq Nat \X Nat /\ T \subseteq Nat \X Nat
       /\ \A n \in DOMAIN r : NameOf(p, r[n].key) = KeyOrder[order[n][1]] /\ r[n] = WrittenAt(profile, q, order[n])
       /\ \A k, m \in DOMAIN KeyOrder : KeyOrder[k] = KeyOrder[m] => k = m
       /\ 0 \notin DOMAIN q /\ 0 \notin DOMAIN r
  BY <1>1, <1>4, ProfilesAssumption DEF IsWritten, IsPlaces, Writable, IsQuery
<1>11. \A x \in S : x \in (DOMAIN KeyOrder) \X Nat
  BY <1>4 DEF IsPlaceOf
<1>12. ASSUME NEW x \in S PROVE to[x] \in T
  <2>1. IsPlaceOf(p, q, x)
    BY <1>4
  <2>2. CASE x[2] = 0
    <3>1. KeyOrder[x[1]] \in Fields(p) /\ Has(p, q, KeyOrder[x[1]])
      BY <1>10, <2>1, <2>2 DEF IsPlaceOf
    <3>2. Has(p, r, KeyOrder[x[1]])
      BY <1>1, <3>1, FieldsAreWritten
    <3>3. IsPlaceOf(p, r, x)
      BY <1>11, <2>2, <3>1, <3>2 DEF IsPlaceOf
    <3> QED BY <1>4, <1>6, <2>2, <3>3
  <2>3. CASE x[2] # 0
    <3> DEFINE n == Rank(S, x) + 1
    <3>1. n \in DOMAIN r /\ order[n] = x /\ n \in Nat
      BY <1>9, <1>10
    <3> HIDE DEF n
    <3>2. ~Reads(p, r, n)
      BY <1>1, <2>3, <3>1, FieldsAreRead
    <3>3. KeyOrder[x[1]] = NameOf(p, r[n].key)
      BY <1>10, <3>1
    <3>4. IsPlaceOf(p, r, <<x[1], n>>)
      BY <1>11, <3>1, <3>2, <3>3 DEF IsPlaceOf
    <3> QED BY <1>4, <1>6, <2>3, <3>4 DEF n
  <2> QED BY <2>2, <2>3
<1>13. ASSUME NEW z \in T PROVE \E x \in S : to[x] = z
  <2>1. IsPlaceOf(p, r, z) /\ z \in (DOMAIN KeyOrder) \X Nat
    BY <1>4 DEF IsPlaceOf
  <2>2. CASE z[2] = 0
    <3>1. KeyOrder[z[1]] \in Fields(p) /\ Has(p, r, KeyOrder[z[1]])
      BY <1>10, <2>1, <2>2 DEF IsPlaceOf
    <3>2. Has(p, q, KeyOrder[z[1]])
      BY <1>1, <3>1, FieldsAreWritten
    <3>3. IsPlaceOf(p, q, z)
      BY <2>1, <2>2, <3>1, <3>2 DEF IsPlaceOf
    <3> QED BY <1>4, <1>6, <2>2, <3>3
  <2>3. CASE z[2] # 0
    <3> DEFINE n == z[2]
               x == order[n]
    <3>1. n \in DOMAIN r /\ ~Reads(p, r, n) /\ KeyOrder[z[1]] = NameOf(p, r[n].key)
      BY <2>1, <2>3 DEF IsPlaceOf
    <3>2. x \in S /\ Rank(S, x) = n - 1 /\ n \in Nat
      BY <1>9, <1>10, <3>1
    <3>3. x[2] # 0
      BY <1>1, <3>1, FieldsAreRead
    <3>4. x[1] = z[1]
      BY <1>10, <1>11, <2>1, <3>1, <3>2
    <3>5. z = <<z[1], n>>
      BY <2>1
    <3> HIDE DEF n, x
    <3>6. to[x] = <<z[1], n>>
      BY <1>6, <3>2, <3>3, <3>4
    <3> QED BY <3>2, <3>5, <3>6
  <2> QED BY <2>2, <2>3
<1>14. ASSUME NEW x \in S, NEW y \in S, Precedes(x, y) PROVE Precedes(to[x], to[y])
  <2>1. /\ x[1] \in Nat /\ x[2] \in Nat /\ y[1] \in Nat /\ y[2] \in Nat
        /\ Rank(S, x) \in Nat /\ Rank(S, y) \in Nat /\ Rank(S, x) < Rank(S, y)
    BY <1>4, <1>9, <1>10, <1>14, RankIsMonotone
  <2>2. to[x][1] = x[1] /\ to[y][1] = y[1]
    <3>1. \A z \in S : to[z] = z \/ to[z] = <<z[1], Rank(S, z) + 1>>
      BY <1>6
    <3> QED BY <3>1
  <2>3. x[2] < y[2] => to[x][2] < to[y][2]
    <3>1. x[2] < y[2] => y[2] # 0
      BY <2>1
    <3>2. x[2] # 0 => to[x][2] = Rank(S, x) + 1
      BY <1>6
    <3>3. y[2] # 0 => to[y][2] = Rank(S, y) + 1
      BY <1>6
    <3>4. x[2] = 0 => to[x][2] = 0
      BY <1>6
    <3> QED BY <2>1, <3>1, <3>2, <3>3, <3>4
  <2> QED BY <1>14, <2>2, <2>3 DEF Precedes
<1>15. to \in [S -> T]
  BY <1>7, <1>8, <1>12
<1>16. /\ DOMAIN InOrder(T) = DOMAIN order
       /\ \A n \in DOMAIN order : InOrder(T)[n] = to[order[n]]
  BY <1>4, <1>10, <1>13, <1>14, <1>15, MovedInOrder DEF order
<1>17. ASSUME NEW n \in DOMAIN r PROVE CanonicalQuery(again)[n] = r[n]
  <2> DEFINE x == order[n]
  <2>1. /\ n \in DOMAIN order /\ x \in S /\ Rank(S, x) + 1 = n
        /\ r[n] = WrittenAt(profile, q, x)
    BY <1>9, <1>10
  <2>2. CanonicalQuery(again)[n] = WrittenAt(again, r, to[x])
    BY <1>3, <1>16, <2>1 DEF IsWritten
  <2> HIDE DEF x
  <2>3. ASSUME x[2] = 0 PROVE WrittenAt(again, r, to[x]) = r[n]
    BY <1>6, <2>1, <2>3 DEF WrittenAt
  <2>4. ASSUME x[2] # 0 PROVE WrittenAt(again, r, to[x]) = r[n]
    <3>1. to[x] = <<x[1], n>> /\ n # 0
      BY <1>6, <1>10, <2>1, <2>4
    <3>2. WrittenAt(again, r, to[x]) = [key |-> KeyOrder[x[1]], value |-> r[n].value, has |-> r[n].has]
      BY <3>1 DEF WrittenAt
    <3> QED BY <2>1, <2>4, <3>2 DEF WrittenAt
  <2> QED BY <2>2, <2>3, <2>4
<1>18. DOMAIN CanonicalQuery(again) = DOMAIN r
  BY <1>3, <1>10, <1>16 DEF IsWritten
<1> QED BY <1>5, <1>17, <1>18 DEF r

\* What a canonical link is made of.
IsCanonicalOf(m, profile) ==
  /\ m.scheme = SchemeOf[profile.protocol] /\ m.host = profile.server
  /\ m.user = CanonicalUser(profile) /\ m.form = CanonicalForm(profile)
  /\ m.port = PortText(profile.port) /\ m.query = CanonicalQuery(profile) /\ m.name = profile.name

LEMMA CanonicalParts ==
  ASSUME NEW profile, ~profile.readOnly
  PROVE  IsCanonicalOf(Canonical(profile), profile)
<1>1. Canonical(profile)
        = [scheme |-> SchemeOf[profile.protocol], host |-> profile.server,
           user |-> CanonicalUser(profile), form |-> CanonicalForm(profile),
           port |-> PortText(profile.port), query |-> CanonicalQuery(profile), name |-> profile.name]
  BY DEF Canonical
<1> QED BY <1>1 DEF IsCanonicalOf

LEMMA ProfilesAreWritable ==
  ASSUME NEW l, IsLink(l), Parse(l) # Refused, ~RepeatsCredential(Parse(l))
  PROVE  Writable(Parse(l), ProtocolOf[l.scheme], l.query)
<1> DEFINE p == ProtocolOf[l.scheme]
           q == l.query
<1>1. Acceptable(l, p, Data(p, q), Credential(p, l))
  BY ParsedLink
<1>2. IsProfileOf(Parse(l), l, p, Data(p, q), Credential(p, l))
  BY <1>1, AcceptedLink
<1>3. l.scheme \in DOMAIN ProtocolOf /\ GoodData(p, q, Data(p, q))
  BY <1>1 DEF Acceptable
<1>4. p \in DOMAIN Names
  BY <1>3, ProtocolsHaveNames
<1>5. IsQuery(p, q)
  <2>1. Len(q) \in Nat /\ DOMAIN q = 1..Len(q) /\ IsFiniteSet(DOMAIN q)
    BY QueriesAreSequences
  <2>2. ASSUME NEW i \in DOMAIN q
        PROVE  /\ q[i] = [key |-> q[i].key, value |-> q[i].value, has |-> q[i].has]
               /\ NameOf(p, q[i].key) \in ToSet(KeyOrder)
    BY <1>3 DEF IsLink
  <2> HIDE DEF p, q
  <2>3. \A i \in DOMAIN q : \E k \in DOMAIN KeyOrder : KeyOrder[k] = NameOf(p, q[i].key)
    BY <2>2 DEF ToSet
  <2>4. DOMAIN q \subseteq Nat \ {0}
    BY <2>1
  <2> QED BY <2>1, <2>2, <2>3, <2>4 DEF IsQuery
<1>6. \A f \in Fields(p) : Data(p, q)[f] # Bad
  BY <1>3 DEF GoodData, Data
<1> HIDE DEF p, q
<1> QED BY <1>2, <1>4, <1>5, <1>6 DEF IsProfileOf, Writable, p, q

\* The canonical link of a profile is accepted as that profile, and is its own canonical link.
LEMMA CanonicalIsAccepted ==
  ASSUME NEW l, IsLink(l), Parse(l) # Refused, ~Parse(l).readOnly, ~RepeatsCredential(Parse(l)),
         NEW m, IsCanonicalOf(m, Parse(l))
  PROVE  /\ Acceptable(m, Parse(l).protocol, Parse(l).data, Parse(l).credential)
         /\ HostOf[m.host] = Parse(l).server /\ Port(m.port) = Parse(l).port
         /\ Extras(Parse(l).protocol, m.query) = Extras(Parse(l).protocol, Parse(l).query)
<1> DEFINE profile == Parse(l)
           p == ProtocolOf[l.scheme]
           q == l.query
           data == Data(p, q)
           credential == Credential(p, l)
           r == CanonicalQuery(profile)
           order == InOrder(CanonicalPlaces(profile))
<1>1. Acceptable(l, p, data, credential)
  BY ParsedLink
<1>2. IsProfileOf(profile, l, p, data, credential)
  BY <1>1, AcceptedLink
<1>3. Writable(profile, p, q)
  BY ProfilesAreWritable
<1>4. IsWritten(profile, p, q, order, r)
  BY <1>3, QueriesAreWritten
<1>5. IsCanonicalOf(m, profile) /\ ~profile.readOnly /\ l.port \in Seq(Seq(STRING))
  BY DEF IsLink
<1> HIDE DEF profile, q, data, credential, r, order
<1>6. /\ l.scheme \in DOMAIN ProtocolOf /\ l.host \in DOMAIN HostOf
      /\ GoodPort(p, l.port) /\ GoodQuery(p, q) /\ credential # Refused /\ GoodData(p, q, data)
  BY <1>1 DEF Acceptable, q
<1>7. p \in DOMAIN SchemeOf /\ SchemeOf[p] \in DOMAIN ProtocolOf /\ ProtocolOf[SchemeOf[p]] = p
  BY <1>6 DEF ProtocolOf, SchemeOf
<1> HIDE DEF p
<1>8. /\ profile.protocol = p /\ profile.server = HostOf[l.host] /\ profile.port = Port(l.port)
      /\ profile.name = l.name /\ profile.credential = credential /\ profile.data = data
      /\ profile.query = q /\ ~(p = "tuic" /\ credential[1] = "4")
  BY <1>2, <1>5 DEF IsProfileOf, q
<1>9. /\ m.scheme = SchemeOf[p] /\ m.host = HostOf[l.host] /\ m.port = PortText(Port(l.port))
      /\ m.user = CanonicalUser(profile) /\ m.form = CanonicalForm(profile) /\ m.query = r
  BY <1>5, <1>8 DEF IsCanonicalOf, r
<1>10. m.host \in DOMAIN HostOf /\ HostOf[m.host] = HostOf[l.host]
  BY <1>6, <1>9, ProfilesAssumption DEF Converts
<1>11. GoodPort(p, m.port) /\ Port(m.port) = Port(l.port)
  BY <1>5, <1>6, <1>9, PortsSettle
<1>12. Data(p, r) = data /\ Extras(p, r) = Extras(p, q)
  BY <1>3, <1>4, <1>8, DataAreWritten, ExtrasAreWritten
<1>13. GoodQuery(p, r)
  BY <1>3, <1>4, <1>6, GoodQueriesAreWritten
<1>14. Credential(p, m) = credential
  <2>1. p = "tuic" => \A c \in Credentials : Occurrences("tuic", m.query, c) = {}
    BY <1>3, <1>4, <1>9, CredentialsAreLeftOut
  <2>2. p \in DOMAIN Names
    BY <1>3 DEF Writable
  <2> QED BY <1>6, <1>8, <1>9, <2>1, <2>2, CredentialsSettle DEF credential
<1>15. GoodData(p, r, data)
  <2>1. "udp-relay-mode" \in Fields("tuic")
    BY DEF Fields, Names, TuicNames, Credentials
  <2>2. p = "tuic" => (Has("tuic", r, "udp-relay-mode") <=> Has("tuic", q, "udp-relay-mode"))
    BY <1>3, <1>4, <2>1, FieldsAreWritten
  <2> QED BY <1>6, <2>2 DEF GoodData, GoodTuic
<1>16. Acceptable(m, p, data, credential)
  BY <1>6, <1>7, <1>9, <1>10, <1>11, <1>12, <1>13, <1>14, <1>15 DEF Acceptable
<1> QED BY <1>8, <1>9, <1>10, <1>11, <1>12, <1>16 DEF profile

LEMMA CanonicalSettles ==
  ASSUME NEW l, IsLink(l), Parse(l) # Refused, ~Parse(l).readOnly, ~RepeatsCredential(Parse(l)),
         NEW m, m = Canonical(Parse(l))
  PROVE  /\ Parse(m) # Refused /\ Fingerprint(Parse(m)) = Fingerprint(Parse(l))
         /\ ~Parse(m).readOnly /\ Parse(m).protocol = Parse(l).protocol
         /\ Canonical(Parse(m)) = m
<1> DEFINE profile == Parse(l)
           again == Parse(m)
           p == profile.protocol
           data == profile.data
           credential == profile.credential
<1>1. IsCanonicalOf(m, profile)
  BY CanonicalParts
<1>2. /\ Acceptable(m, p, data, credential)
      /\ HostOf[m.host] = profile.server /\ Port(m.port) = profile.port
      /\ Extras(p, m.query) = Extras(p, profile.query)
  BY <1>1, CanonicalIsAccepted
<1>3. again # Refused /\ IsProfileOf(again, m, p, data, credential)
  BY <1>2, AcceptedLink
<1>4. profile.readOnly = (p = "tuic" /\ credential[1] = "4")
  <2>1. Acceptable(l, ProtocolOf[l.scheme], Data(ProtocolOf[l.scheme], l.query), Credential(ProtocolOf[l.scheme], l))
    BY ParsedLink
  <2> QED BY <2>1, AcceptedLink DEF IsProfileOf
<1>5. Writable(profile, p, profile.query)
  <2>1. Writable(profile, ProtocolOf[l.scheme], l.query)
    BY ProfilesAreWritable
  <2> QED BY <2>1 DEF Writable
<1>6. ~profile.readOnly
  OBVIOUS
<1> HIDE DEF profile, again
<1>7. /\ again.protocol = profile.protocol /\ again.server = profile.server /\ again.port = profile.port
      /\ again.name = m.name /\ again.credential = profile.credential /\ again.data = profile.data
      /\ again.query = m.query /\ ~again.readOnly
  BY <1>2, <1>3, <1>4, <1>6 DEF IsProfileOf
<1>8. Fingerprint(again) = Fingerprint(profile)
  BY <1>2, <1>7 DEF Fingerprint
<1>9. /\ m.scheme = SchemeOf[profile.protocol] /\ m.host = profile.server
      /\ m.user = CanonicalUser(profile) /\ m.form = CanonicalForm(profile)
      /\ m.port = PortText(profile.port) /\ m.query = CanonicalQuery(profile) /\ m.name = profile.name
  BY <1>1 DEF IsCanonicalOf
<1>10. CanonicalQuery(again) = CanonicalQuery(profile)
  BY <1>5, <1>7, <1>9, QueriesSettle
<1>11. CanonicalUser(again) = CanonicalUser(profile) /\ CanonicalForm(again) = CanonicalForm(profile)
  BY <1>7 DEF CanonicalUser, CanonicalForm
<1>12. Canonical(again) = Canonical(profile)
  BY <1>6, <1>7, <1>9, <1>10, <1>11 DEF Canonical
<1> QED BY <1>3, <1>7, <1>8, <1>12 DEF profile, again

-----------------------------------------------------------------------------
(* The link of a document.                                                   *)

\* The places of the settings are finitely many.
SettingsAt(doc, k) == {k} \X DOMAIN doc.settings[KeyOrder[k]]

LEMMA SettingsArePlaces ==
  ASSUME NEW doc, IsOutbound(doc)
  PROVE  /\ IsPlaces(HysteriaPlaces(doc))
         /\ \A place \in HysteriaPlaces(doc) :
              KeyOrder[place[1]] \in DOMAIN doc.settings /\ KeyOrder[place[1]] \in ToSet(KeyOrder)
<1> DEFINE D == {k \in DOMAIN KeyOrder : KeyOrder[k] \in DOMAIN doc.settings}
           all == {SettingsAt(doc, k) : k \in D}
           at == [k \in D |-> SettingsAt(doc, k)]
<1>1. HysteriaPlaces(doc) = UNION all
  BY DEF HysteriaPlaces, SettingsAt
<1>2. DOMAIN KeyOrder \subseteq Nat /\ IsFiniteSet(DOMAIN KeyOrder)
  <2>1. KeyOrder \in Seq(STRING)
    BY ProfilesAssumption
  <2>2. DOMAIN KeyOrder = 1..Len(KeyOrder) /\ Len(KeyOrder) \in Nat
    BY <2>1
  <2> QED BY <2>2, FS_Interval
<1>3. IsFiniteSet(D)
  BY <1>2, FS_Subset
<1>4. IsFiniteSet(all)
  <2>1. at \in Surjection(D, all)
    BY DEF Surjection
  <2> HIDE DEF at, D, all
  <2> QED BY <1>3, <2>1, FS_Surjection
<1>5. ASSUME NEW k \in D
      PROVE  IsFiniteSet(SettingsAt(doc, k)) /\ SettingsAt(doc, k) \subseteq Nat \X Nat
  <2>1. doc.settings[KeyOrder[k]] \in Seq(STRING)
    BY DEF IsOutbound
  <2>2. /\ DOMAIN doc.settings[KeyOrder[k]] = 1..Len(doc.settings[KeyOrder[k]])
        /\ Len(doc.settings[KeyOrder[k]]) \in Nat
    BY <2>1
  <2>3. IsFiniteSet(DOMAIN doc.settings[KeyOrder[k]])
    BY <2>2, FS_Interval
  <2>4. IsFiniteSet({k})
    BY FS_Singleton
  <2>5. IsFiniteSet(SettingsAt(doc, k))
    BY <2>3, <2>4, FS_Product DEF SettingsAt
  <2> QED BY <1>2, <2>2, <2>5 DEF SettingsAt
<1>6. ASSUME NEW place \in UNION all PROVE \E k \in D : place \in SettingsAt(doc, k) /\ place[1] = k
  BY DEF SettingsAt
<1>7. \A T \in all : IsFiniteSet(T)
  BY <1>5
<1>8. IsFiniteSet(UNION all)
  <2> HIDE DEF all
  <2> QED BY <1>4, <1>7, FS_UNION
<1>9. UNION all \subseteq Nat \X Nat
  BY <1>5
<1>10. \A place \in UNION all : KeyOrder[place[1]] \in DOMAIN doc.settings /\ KeyOrder[place[1]] \in ToSet(KeyOrder)
  BY <1>6 DEF ToSet
<1> HIDE DEF all
<1> QED BY <1>1, <1>8, <1>9, <1>10 DEF IsPlaces

\* They make a query, whose names are names.
LEMMA SettingsAreAQuery ==
  ASSUME NEW doc, IsOutbound(doc), NEW q, q = HysteriaQuery(doc)
  PROVE  /\ q \in Seq(ToSet(q))
         /\ \A i \in DOMAIN q :
              /\ q[i] = [key |-> q[i].key, value |-> q[i].value, has |-> q[i].has]
              /\ NameOf("hysteria2", q[i].key) \in ToSet(KeyOrder)
<1> DEFINE S == HysteriaPlaces(doc)
           order == InOrder(S)
           len == Cardinality(S)
<1>1. /\ IsPlaces(S)
      /\ \A place \in S : KeyOrder[place[1]] \in DOMAIN doc.settings /\ KeyOrder[place[1]] \in ToSet(KeyOrder)
  BY SettingsArePlaces
<1>2. /\ q = [n \in DOMAIN order |->
                [key |-> KeyOrder[order[n][1]],
                 value |-> doc.settings[KeyOrder[order[n][1]]][order[n][2]], has |-> TRUE]]
  BY DEF HysteriaQuery
<1> HIDE DEF S
<1>3. DOMAIN order = 1..len /\ \A n \in DOMAIN order : order[n] \in S
  BY <1>1, OrderIsByRank
<1>4. len \in Nat
  BY <1>1, FS_CardinalityType DEF IsPlaces
<1> HIDE DEF order, len
<1>5. \A n \in 1..len :
        /\ q[n] = [key |-> q[n].key, value |-> q[n].value, has |-> q[n].has]
        /\ q[n].key = KeyOrder[order[n][1]]
  BY <1>2, <1>3
<1>6. \A name \in DOMAIN doc.settings : name \in ToSet(KeyOrder) => NameOf("hysteria2", name) \in ToSet(KeyOrder)
  BY DEF IsOutbound
<1>7. \A n \in 1..len : NameOf("hysteria2", q[n].key) \in ToSet(KeyOrder)
  BY <1>1, <1>3, <1>5, <1>6
<1>8. DOMAIN q = 1..len /\ q \in [1..len -> ToSet(q)]
  BY <1>2, <1>3 DEF ToSet
<1>9. q \in Seq(ToSet(q))
  BY <1>4, <1>8
<1> QED BY <1>5, <1>7, <1>8, <1>9

\* So the outbound of a document is a link.
LEMMA OutboundsAreLinks ==
  ASSUME NEW doc, IsOutbound(doc), NEW l, l = HysteriaLink(doc)
  PROVE  IsLink(l) /\ ProtocolOf[l.scheme] = "hysteria2"
<1> DEFINE link == doc.link
           q == HysteriaQuery(doc)
           port == IF doc.hop # <<>> THEN doc.hop ELSE link.port
<1>1. /\ link = [scheme |-> link.scheme, form |-> link.form, host |-> link.host, port |-> link.port,
                 name |-> link.name, user |-> link.user, query |-> link.query]
      /\ link.scheme = "hysteria2" /\ link.port \in Seq(Seq(STRING)) /\ doc.hop \in Seq(Seq(STRING))
  BY DEF IsOutbound, IsLink
<1>2. l = [link EXCEPT !.port = port, !.query = q]
  BY DEF HysteriaLink
<1>3. port \in Seq(Seq(STRING))
  BY <1>1
<1>4. /\ q \in Seq(ToSet(q))
      /\ \A i \in DOMAIN q :
           /\ q[i] = [key |-> q[i].key, value |-> q[i].value, has |-> q[i].has]
           /\ NameOf("hysteria2", q[i].key) \in ToSet(KeyOrder)
  BY SettingsAreAQuery
<1> HIDE DEF link, q, port
<1>5. l = [scheme |-> link.scheme, form |-> link.form, host |-> link.host, port |-> port,
           name |-> link.name, user |-> link.user, query |-> q]
  BY <1>1, <1>2
<1>6. /\ l.scheme = link.scheme /\ l.form = link.form /\ l.host = link.host /\ l.port = port
      /\ l.name = link.name /\ l.user = link.user /\ l.query = q
  BY <1>5
<1>7. ProtocolOf[l.scheme] = "hysteria2" /\ l.scheme # "vmess"
  BY <1>1, <1>6 DEF ProtocolOf
<1> QED BY <1>3, <1>4, <1>5, <1>6, <1>7 DEF IsLink

-----------------------------------------------------------------------------
(* What a feed is made into.                                               *)

\* The key a text yields at a line.
LinkKey(link, n) == ProfileKey(Parse(link), link, link, n, InitialStatus(Parse(link)))
HysteriaKey(doc, n) ==
  ProfileKey(HysteriaProfile(doc), Canonical(HysteriaProfile(doc)), doc, n, "accepted")
DocumentKey(doc, n) == IF IsHysteria(doc) THEN HysteriaKey(doc, n) ELSE LegacyKey(doc, n)
KeyAt(raw, n) == IF raw \in FeedLinks THEN LinkKey(raw, n) ELSE DocumentKey(raw, n)
\* A text that is refused yields none.
Legible(raw) ==
  /\ raw \in FeedLinks => Parse(raw) # Refused
  /\ raw \in FeedDocuments /\ IsHysteria(raw) => HysteriaProfile(raw) # Refused
FeedTexts == {raw \in FeedLinks \cup FeedDocuments : Legible(raw)}
FeedKeys == {KeyAt(raw, n) : raw \in FeedTexts, n \in Nat}

\* A result in the making: its keys are keys of the feeds, no two of one identity, and
\* their identities are the ones it has seen.
Sound(parsed) ==
  /\ parsed = [keys |-> parsed.keys, items |-> parsed.items, seen |-> parsed.seen]
  /\ parsed.keys \in Seq(FeedKeys)
  /\ parsed.seen = {Identity(parsed.keys[k]) : k \in DOMAIN parsed.keys}
  /\ \A k, m \in DOMAIN parsed.keys : Identity(parsed.keys[k]) = Identity(parsed.keys[m]) => k = m

-----------------------------------------------------------------------------
(* Keys.                                                                     *)

\* A link is no document.
LEMMA TextsDiffer == FeedLinks \cap FeedDocuments = {}
  BY FeedsAssumption

\* A key carries the reference of its text and its line.
LEMMA KeysCarryTheirText ==
  ASSUME NEW raw, NEW n
  PROVE  KeyAt(raw, n).ref = <<n, raw>>
  BY DEF KeyAt, LinkKey, DocumentKey, HysteriaKey, ProfileKey, LegacyKey, Ref

\* So a reference names one key, in whatever feed.
LEMMA ReferencesNameKeys ==
  ASSUME NEW key \in FeedKeys, NEW other \in FeedKeys, key.ref = other.ref
  PROVE  key = other
<1>1. PICK raw \in FeedTexts, n \in Nat : key = KeyAt(raw, n)
  BY DEF FeedKeys
<1>2. PICK text \in FeedTexts, m \in Nat : other = KeyAt(text, m)
  BY DEF FeedKeys
<1>3. key.ref = <<n, raw>> /\ other.ref = <<m, text>>
  BY <1>1, <1>2, KeysCarryTheirText
<1>4. <<n, raw>> = <<m, text>>
  BY <1>3
<1>5. n = m /\ raw = text
  BY <1>4
<1> QED BY <1>1, <1>2, <1>5

-----------------------------------------------------------------------------
(* One entry.                                                                *)

\* Nothing is in the result before the first entry.
LEMMA EmptyIsSound == Sound(Empty)
  BY DEF Sound, Empty

\* A report adds no key.
LEMMA ReportKeepsKeys ==
  ASSUME NEW parsed, Sound(parsed), NEW item
  PROVE  Sound(Report(parsed, item)) /\ Report(parsed, item).seen = parsed.seen
<1> DEFINE next == Report(parsed, item)
<1>0. parsed = [keys |-> parsed.keys, items |-> parsed.items, seen |-> parsed.seen]
  BY DEF Sound
<1>1. next = [keys |-> parsed.keys, items |-> Append(parsed.items, item), seen |-> parsed.seen]
  BY <1>0 DEF Report
<1>2. next.keys = parsed.keys /\ next.items = Append(parsed.items, item) /\ next.seen = parsed.seen
  BY <1>1
<1> HIDE DEF next
<1>3. next = [keys |-> next.keys, items |-> next.items, seen |-> next.seen]
  BY <1>1, <1>2
<1>4. Sound(next)
  BY <1>2, <1>3 DEF Sound
<1> QED BY <1>2, <1>4 DEF next

\* A key that is accepted is new, and from then on its identity has been seen.
LEMMA AcceptKeepsKeys ==
  ASSUME NEW parsed, Sound(parsed), NEW key \in FeedKeys
  PROVE  /\ Sound(Accept(parsed, key))
         /\ Accept(parsed, key).seen = parsed.seen \cup {Identity(key)}
<1> DEFINE next == Accept(parsed, key)
<1>1. CASE Identity(key) \in parsed.seen
  <2>1. next = Report(parsed, KeyItem(key, "duplicate"))
    BY <1>1 DEF Accept, Report
  <2>2. Sound(next) /\ next.seen = parsed.seen
    BY <2>1, ReportKeepsKeys
  <2> QED BY <1>1, <2>2
<1>2. CASE Identity(key) \notin parsed.seen
  <2>1. next = [keys |-> Append(parsed.keys, key), seen |-> parsed.seen \cup {Identity(key)},
                items |-> Append(parsed.items, KeyItem(key, key.status))]
    BY <1>2 DEF Accept
  <2>2. /\ next.keys = Append(parsed.keys, key) /\ next.seen = parsed.seen \cup {Identity(key)}
        /\ next.items = Append(parsed.items, KeyItem(key, key.status))
    BY <2>1
  <2>3. next = [keys |-> next.keys, items |-> next.items, seen |-> next.seen]
    BY <2>1, <2>2
  <2> HIDE DEF next
  <2> DEFINE len == Len(parsed.keys)
  <2>4. /\ parsed.keys \in Seq(FeedKeys) /\ len \in Nat /\ DOMAIN parsed.keys = 1..len
        /\ parsed.seen = {Identity(parsed.keys[k]) : k \in DOMAIN parsed.keys}
        /\ \A k, m \in 1..len : Identity(parsed.keys[k]) = Identity(parsed.keys[m]) => k = m
    BY DEF Sound
  <2>5. /\ next.keys \in Seq(FeedKeys) /\ DOMAIN next.keys = 1..(len + 1)
        /\ next.keys[len + 1] = key /\ \A k \in 1..len : next.keys[k] = parsed.keys[k]
    BY <2>2, <2>4
  <2> HIDE DEF len
  <2>6. \A k \in 1..len : Identity(next.keys[k]) # Identity(key)
    BY <1>2, <2>4, <2>5
  <2>7. next.seen = {Identity(next.keys[k]) : k \in DOMAIN next.keys}
    <3>1. DOMAIN next.keys = (1..len) \cup {len + 1}
      BY <2>4, <2>5
    <3>2. {Identity(next.keys[k]) : k \in DOMAIN next.keys}
            = {Identity(next.keys[k]) : k \in 1..len} \cup {Identity(key)}
      BY <2>5, <3>1
    <3>3. {Identity(next.keys[k]) : k \in 1..len} = parsed.seen
      BY <2>4, <2>5
    <3> QED BY <2>2, <3>2, <3>3
  <2>8. ASSUME NEW k \in DOMAIN next.keys, NEW m \in DOMAIN next.keys,
               Identity(next.keys[k]) = Identity(next.keys[m])
        PROVE  k = m
    <3>1. k \in 1..len \/ k = len + 1
      BY <2>4, <2>5
    <3>2. m \in 1..len \/ m = len + 1
      BY <2>4, <2>5
    <3>3. CASE k \in 1..len /\ m \in 1..len
      BY <2>4, <2>5, <2>8, <3>3
    <3>4. CASE ~(k \in 1..len /\ m \in 1..len)
      BY <2>5, <2>6, <2>8, <3>1, <3>2, <3>4
    <3> QED BY <3>3, <3>4
  <2>9. Sound(next)
    BY <2>3, <2>5, <2>7, <2>8 DEF Sound
  <2> QED BY <2>2, <2>9 DEF next
<1> QED BY <1>1, <1>2

\* A document yields its own key or a report.
LEMMA DocumentKeepsKeys ==
  ASSUME NEW parsed, Sound(parsed), NEW doc \in FeedDocuments, NEW n \in Nat
  PROVE  Sound(Document(parsed, doc, n)) /\ parsed.seen \subseteq Document(parsed, doc, n).seen
<1>1. Legible(doc) => DocumentKey(doc, n) \in FeedKeys
  <2>1. KeyAt(doc, n) = DocumentKey(doc, n)
    BY TextsDiffer DEF KeyAt
  <2> QED BY <2>1 DEF FeedKeys, FeedTexts
<1>2. \/ \E item : Document(parsed, doc, n) = Report(parsed, item)
      \/ Legible(doc) /\ Document(parsed, doc, n) = Accept(parsed, DocumentKey(doc, n))
  <2>1. CASE doc.sip008
    BY <2>1 DEF Document
  <2>2. CASE ~doc.sip008 /\ IsHysteria(doc)
    <3>1. Document(parsed, doc, n) = HysteriaDocument(parsed, doc, n)
      BY <2>2 DEF Document
    <3>2. DocumentKey(doc, n) = HysteriaKey(doc, n)
      BY <2>2 DEF DocumentKey
    <3>3. \/ \E item : HysteriaDocument(parsed, doc, n) = Report(parsed, item)
          \/ /\ HysteriaProfile(doc) # Refused
             /\ HysteriaDocument(parsed, doc, n) = Accept(parsed, HysteriaKey(doc, n))
      BY DEF HysteriaDocument, Outbound, HysteriaKey
    <3>4. HysteriaProfile(doc) # Refused => Legible(doc)
      BY TextsDiffer DEF Legible
    <3> QED BY <3>1, <3>2, <3>3, <3>4
  <2>3. CASE ~doc.sip008 /\ ~IsHysteria(doc) /\ doc.drafts
    BY <2>3, TextsDiffer DEF Document, DocumentKey, Legible
  <2>4. CASE ~doc.sip008 /\ ~IsHysteria(doc) /\ ~doc.drafts
    BY <2>4 DEF Document
  <2> QED BY <2>1, <2>2, <2>3, <2>4
<1> QED BY <1>1, <1>2, ReportKeepsKeys, AcceptKeepsKeys

\* What stands in a list or in a document.
IsEntry(form, entry) ==
  IF form = "links"
  THEN /\ entry.form = "uri" => entry.link \in FeedLinks
       /\ entry.form = "json" => entry.document \in FeedDocuments
  ELSE entry = Nothing \/ entry \in FeedDocuments

\* A readable link of a list.
Readable(form, entry) == form = "links" /\ entry.form = "uri" /\ Parse(entry.link) # Refused

\* A link yields its own key or a report.
LEMMA LinkKeepsKeys ==
  ASSUME NEW parsed, Sound(parsed), NEW link \in FeedLinks, NEW n \in Nat
  PROVE  LET next == UriLine(parsed, Parse(link), link, n) IN
         /\ Sound(next) /\ parsed.seen \subseteq next.seen
         /\ Parse(link) # Refused => Identity(LinkKey(link, n)) \in next.seen
<1> DEFINE next == UriLine(parsed, Parse(link), link, n)
<1>1. Parse(link) # Refused => LinkKey(link, n) \in FeedKeys
  BY TextsDiffer DEF KeyAt, FeedKeys, FeedTexts, Legible
<1>2. CASE Parse(link) = Refused
  <2>1. next = Report(parsed, Item(link, n, "rejected"))
    BY <1>2 DEF UriLine
  <2> QED BY <1>2, <2>1, ReportKeepsKeys
<1>3. CASE Parse(link) # Refused
  <2>1. next = Accept(parsed, LinkKey(link, n))
    BY <1>3 DEF UriLine, LinkKey
  <2> QED BY <1>1, <1>3, <2>1, AcceptKeepsKeys
<1> QED BY <1>2, <1>3

\* A document in a list yields a key of a document, a report or nothing.
LEMMA JsonLineKeepsKeys ==
  ASSUME NEW parsed, Sound(parsed), NEW doc \in FeedDocuments, NEW n \in Nat
  PROVE  LET next == JsonLine(parsed, Document(Empty, doc, n)) IN
         Sound(next) /\ parsed.seen \subseteq next.seen
<1> DEFINE own == Document(Empty, doc, n)
           next == JsonLine(parsed, own)
<1>1. Sound(own)
  BY EmptyIsSound, DocumentKeepsKeys
<1> HIDE DEF own
<1>2. CASE own.keys # <<>>
  <2>1. own.keys \in Seq(FeedKeys)
    BY <1>1 DEF Sound
  <2>2. own.keys[1] \in FeedKeys
    BY <1>2, <2>1
  <2>3. next = Accept(parsed, own.keys[1])
    BY <1>2 DEF JsonLine
  <2> QED BY <2>2, <2>3, AcceptKeepsKeys DEF own
<1>3. CASE own.keys = <<>>
  <2>1. next = parsed \/ next = Report(parsed, own.items[1])
    BY <1>3 DEF JsonLine
  <2> QED BY <2>1, ReportKeepsKeys DEF own
<1> QED BY <1>2, <1>3

\* Every entry keeps the result sound, and a readable link has been seen after it.
LEMMA EntryKeepsKeys ==
  ASSUME NEW parsed, Sound(parsed), NEW form, NEW entry, IsEntry(form, entry), NEW n \in Nat
  PROVE  /\ Sound(AppendEntry(parsed, form, entry, n))
         /\ parsed.seen \subseteq AppendEntry(parsed, form, entry, n).seen
         /\ Readable(form, entry) =>
              Identity(LinkKey(entry.link, n)) \in AppendEntry(parsed, form, entry, n).seen
<1> DEFINE next == AppendEntry(parsed, form, entry, n)
<1>1. CASE form = "links" /\ entry.form = "comment"
  <2>1. next = parsed /\ ~Readable(form, entry)
    BY <1>1 DEF AppendEntry, ParseLine, Readable
  <2> QED BY <2>1
<1>2. CASE form = "links" /\ entry.form = "uri"
  <2>1. next = UriLine(parsed, Parse(entry.link), entry.link, n)
    BY <1>2 DEF AppendEntry, ParseLine
  <2>2. entry.link \in FeedLinks
    BY <1>2 DEF IsEntry
  <2>3. /\ Sound(next) /\ parsed.seen \subseteq next.seen
        /\ Parse(entry.link) # Refused => Identity(LinkKey(entry.link, n)) \in next.seen
    BY <2>1, <2>2, LinkKeepsKeys
  <2> QED BY <2>3 DEF Readable
<1>3. CASE form = "links" /\ entry.form = "json"
  <2>1. next = JsonLine(parsed, Document(Empty, entry.document, n)) /\ ~Readable(form, entry)
    BY <1>3 DEF AppendEntry, ParseLine, Readable
  <2>2. entry.document \in FeedDocuments
    BY <1>3 DEF IsEntry
  <2>3. Sound(next) /\ parsed.seen \subseteq next.seen
    BY <2>1, <2>2, JsonLineKeepsKeys
  <2> QED BY <2>1, <2>3
<1>4. CASE form = "links" /\ entry.form \notin {"comment", "uri", "json"}
  <2>1. next = Report(parsed, Item(entry, n, "unsupported")) /\ ~Readable(form, entry)
    BY <1>4 DEF AppendEntry, ParseLine, Readable
  <2> QED BY <2>1, ReportKeepsKeys
<1>5. CASE form # "links"
  <2>1. next = Element(parsed, entry, n) /\ ~Readable(form, entry)
    BY <1>5 DEF AppendEntry, Readable
  <2>2. CASE entry = Nothing
    <3>1. next = Report(parsed, Item("invalid-json-item", n, "rejected"))
      BY <2>1, <2>2 DEF Element
    <3> QED BY <2>1, <3>1, ReportKeepsKeys
  <2>3. CASE entry # Nothing
    <3>1. entry \in FeedDocuments /\ next = Document(parsed, entry, n)
      BY <1>5, <2>1, <2>3 DEF Element, IsEntry
    <3> QED BY <2>1, <3>1, DocumentKeepsKeys
  <2> QED BY <2>2, <2>3
<1> QED BY <1>1, <1>2, <1>3, <1>4, <1>5

\* A line that is no document lets one identity be seen at most, that of its link.
LEMMA LinesSee ==
  ASSUME NEW parsed, Sound(parsed), NEW entry, IsEntry("links", entry), entry.form # "json", NEW n \in Nat,
         NEW id \in AppendEntry(parsed, "links", entry, n).seen
  PROVE  id \in parsed.seen \/ (Readable("links", entry) /\ id = Identity(LinkKey(entry.link, n)))
<1> DEFINE next == AppendEntry(parsed, "links", entry, n)
<1>1. next = ParseLine(parsed, entry, n)
  BY DEF AppendEntry
<1>2. CASE Readable("links", entry)
  <2>1. next = UriLine(parsed, Parse(entry.link), entry.link, n) /\ Parse(entry.link) # Refused
    BY <1>1, <1>2 DEF ParseLine, Readable
  <2>2. next = Accept(parsed, LinkKey(entry.link, n))
    BY <2>1 DEF UriLine, LinkKey
  <2>3. LinkKey(entry.link, n) \in FeedKeys
    BY <1>2, TextsDiffer DEF Readable, IsEntry, KeyAt, FeedKeys, FeedTexts, Legible
  <2> QED BY <1>2, <2>2, <2>3, AcceptKeepsKeys
<1>3. CASE ~Readable("links", entry)
  <2>1. next = parsed \/ \E item : next = Report(parsed, item)
    BY <1>1, <1>3 DEF ParseLine, UriLine, Readable
  <2> QED BY <2>1, ReportKeepsKeys
<1> QED BY <1>2, <1>3

\* A line of a list adds one item at most, with its number; a readable link adds one, and
\* it is a duplicate if the identity of its key has been seen, as no other line is, but for
\* a document.
TellsOf(parsed, next, entry, n) ==
  \/ next.items = parsed.items /\ ~Readable("links", entry)
  \/ \E item :
       /\ next.items = Append(parsed.items, item) /\ item.line = n
       /\ Readable("links", entry) /\ Identity(LinkKey(entry.link, n)) \in parsed.seen =>
            item.status = "duplicate"
       /\ entry.form # "json" /\ item.status = "duplicate" =>
            Readable("links", entry) /\ Identity(LinkKey(entry.link, n)) \in parsed.seen

LEMMA ReportTells ==
  ASSUME NEW parsed, Sound(parsed), NEW item
  PROVE  Report(parsed, item).items = Append(parsed.items, item)
<1>1. parsed = [keys |-> parsed.keys, items |-> parsed.items, seen |-> parsed.seen]
  BY DEF Sound
<1> QED BY <1>1 DEF Report

\* The decision about a key is told by one item, with the number of the key's line.
KeyIsTold(parsed, next, key) ==
  \E item : /\ next.items = Append(parsed.items, item) /\ item.line = key.line
            /\ Identity(key) \in parsed.seen => item.status = "duplicate"
            /\ key.status # "duplicate" /\ item.status = "duplicate" => Identity(key) \in parsed.seen

LEMMA AcceptTells ==
  ASSUME NEW parsed, Sound(parsed), NEW key
  PROVE  KeyIsTold(parsed, Accept(parsed, key), key)
<1>1. CASE Identity(key) \in parsed.seen
  <2> DEFINE item == KeyItem(key, "duplicate")
  <2>1. Accept(parsed, key) = Report(parsed, item)
    BY <1>1 DEF Accept, Report
  <2>2. item.line = key.line /\ item.status = "duplicate"
    BY DEF KeyItem
  <2> QED BY <1>1, <2>1, <2>2, ReportTells DEF KeyIsTold
<1>2. CASE Identity(key) \notin parsed.seen
  <2> DEFINE item == KeyItem(key, key.status)
  <2>1. Accept(parsed, key).items = Append(parsed.items, item)
    BY <1>2 DEF Accept
  <2>2. item.line = key.line /\ item.status = key.status
    BY DEF KeyItem
  <2> QED BY <1>2, <2>1, <2>2 DEF KeyIsTold
<1> QED BY <1>1, <1>2

\* A document by itself yields an item or a key, of its line.
LEMMA DocumentTells ==
  ASSUME NEW doc \in FeedDocuments, NEW n \in Nat
  PROVE  LET own == Document(Empty, doc, n) IN
         IF own.keys # <<>> THEN own.keys[1].line = n ELSE own.items[1].line = n
<1> DEFINE own == Document(Empty, doc, n)
<1>1. DocumentKey(doc, n).line = n
  BY DEF DocumentKey, HysteriaKey, ProfileKey, LegacyKey
<1>2. ASSUME NEW state PROVE Item(doc, n, state).line = n
  BY DEF Item
<1>3. ASSUME NEW item, own = Report(Empty, item) PROVE own.keys = <<>> /\ own.items[1] = item
  BY <1>3 DEF Report, Empty
<1>4. ASSUME NEW key, own = Accept(Empty, key) PROVE own.keys # <<>> /\ own.keys[1] = key
  BY <1>4 DEF Accept, Empty
<1>5. \/ \E state : own = Report(Empty, Item(doc, n, state))
      \/ own = Accept(Empty, DocumentKey(doc, n))
  <2>1. CASE doc.sip008
    BY <2>1 DEF Document
  <2>2. CASE ~doc.sip008 /\ IsHysteria(doc)
    BY <2>2 DEF Document, DocumentKey, HysteriaDocument, Outbound, HysteriaKey
  <2>3. CASE ~doc.sip008 /\ ~IsHysteria(doc) /\ doc.drafts
    BY <2>3 DEF Document, DocumentKey
  <2>4. CASE ~doc.sip008 /\ ~IsHysteria(doc) /\ ~doc.drafts
    BY <2>4 DEF Document
  <2> QED BY <2>1, <2>2, <2>3, <2>4
<1> HIDE DEF own
<1>6. IF own.keys # <<>> THEN own.keys[1].line = n ELSE own.items[1].line = n
  <2>1. CASE own = Accept(Empty, DocumentKey(doc, n))
    BY <1>1, <1>4, <2>1
  <2>2. ASSUME NEW state, own = Report(Empty, Item(doc, n, state))
        PROVE  IF own.keys # <<>> THEN own.keys[1].line = n ELSE own.items[1].line = n
    BY <1>2, <1>3, <2>2
  <2> QED BY <1>5, <2>1, <2>2
<1> QED BY <1>6 DEF own

LEMMA EntryTells ==
  ASSUME NEW parsed, Sound(parsed), NEW entry, IsEntry("links", entry), NEW n \in Nat
  PROVE  TellsOf(parsed, AppendEntry(parsed, "links", entry, n), entry, n)
<1> DEFINE next == AppendEntry(parsed, "links", entry, n)
<1>0. next = ParseLine(parsed, entry, n)
  BY DEF AppendEntry
<1> HIDE DEF next
<1>1. CASE entry.form = "comment"
  BY <1>0, <1>1 DEF ParseLine, Readable, TellsOf, next
<1>2. CASE entry.form = "uri"
  <2>1. next = UriLine(parsed, Parse(entry.link), entry.link, n)
    BY <1>0, <1>2 DEF ParseLine
  <2>2. CASE Parse(entry.link) = Refused
    <3> DEFINE item == Item(entry.link, n, "rejected")
    <3>1. /\ next = Report(parsed, item) /\ item.line = n /\ item.status # "duplicate"
          /\ ~Readable("links", entry)
      BY <2>1, <2>2 DEF UriLine, Item, Readable
    <3> QED BY <3>1, ReportTells DEF TellsOf, next
  <2>3. CASE Parse(entry.link) # Refused
    <3> DEFINE key == LinkKey(entry.link, n)
    <3>1. next = Accept(parsed, key)
      BY <2>1, <2>3 DEF UriLine, LinkKey
    <3>2. key.line = n /\ key.status # "duplicate"
      BY DEF LinkKey, ProfileKey, InitialStatus
    <3> HIDE DEF key
    <3>3. KeyIsTold(parsed, next, key)
      BY <3>1, AcceptTells
    <3>4. PICK item : /\ next.items = Append(parsed.items, item) /\ item.line = n
                      /\ Identity(key) \in parsed.seen <=> item.status = "duplicate"
      BY <3>2, <3>3 DEF KeyIsTold
    <3>5. Readable("links", entry)
      BY <1>2, <2>3 DEF Readable
    <3> QED BY <3>4, <3>5 DEF TellsOf, key, next
  <2> QED BY <2>2, <2>3
<1>3. CASE entry.form = "json"
  <2> DEFINE own == Document(Empty, entry.document, n)
  <2>1. entry.document \in FeedDocuments /\ ~Readable("links", entry)
    BY <1>3 DEF IsEntry, Readable
  <2>2. IF own.keys # <<>> THEN own.keys[1].line = n ELSE own.items[1].line = n
    BY <2>1, DocumentTells
  <2>3. next = JsonLine(parsed, own)
    BY <1>0, <1>3 DEF ParseLine
  <2> HIDE DEF own
  <2>4. CASE own.keys # <<>>
    <3>1. next = Accept(parsed, own.keys[1]) /\ own.keys[1].line = n
      BY <2>2, <2>3, <2>4 DEF JsonLine
    <3>2. KeyIsTold(parsed, next, own.keys[1])
      BY <3>1, AcceptTells
    <3>3. \E item : next.items = Append(parsed.items, item) /\ item.line = n
      BY <3>1, <3>2 DEF KeyIsTold
    <3> QED BY <1>3, <2>1, <3>3 DEF TellsOf, next
  <2>5. CASE own.keys = <<>>
    <3>1. own.items[1].line = n /\ (next = parsed \/ next = Report(parsed, own.items[1]))
      BY <2>2, <2>3, <2>5 DEF JsonLine
    <3> QED BY <1>3, <2>1, <3>1, ReportTells DEF TellsOf, next
  <2> QED BY <2>4, <2>5
<1>4. CASE entry.form \notin {"comment", "uri", "json"}
  <2> DEFINE item == Item(entry, n, "unsupported")
  <2>1. /\ next = Report(parsed, item) /\ item.line = n /\ item.status # "duplicate"
        /\ ~Readable("links", entry)
    BY <1>0, <1>4 DEF ParseLine, Item, Readable
  <2> QED BY <2>1, ReportTells DEF TellsOf, next
<1> QED BY <1>1, <1>2, <1>3, <1>4

-----------------------------------------------------------------------------
(* All entries of a body.                                                    *)

\* A function that agrees with the recursion up to a place of the body.
Collects(g, form, entries, n) ==
  g = [m \in 0..n |-> IF m = 0 THEN Empty ELSE AppendEntry(g[m - 1], form, entries[m], m)]

\* The recursion has a solution up to every place.
LEMMA CollectionExists ==
  ASSUME NEW form, NEW entries, NEW n \in Nat
  PROVE  \E g : Collects(g, form, entries, n)
<1> DEFINE Bounds == {m \in Nat : ~ \E g : Collects(g, form, entries, m)}
<1>1. SUFFICES ASSUME Bounds # {} PROVE FALSE
  OBVIOUS
<1>2. PICK b \in Bounds : \A m \in Bounds : b <= m
  BY <1>1, LeastNumber
<1>3. b \in Nat /\ ~ \E g : Collects(g, form, entries, b)
  OBVIOUS
<1>4. CASE b = 0
  <2> DEFINE g == [m \in 0..0 |-> Empty]
  <2>1. Collects(g, form, entries, 0)
    BY DEF Collects
  <2> QED BY <1>3, <1>4, <2>1
<1>5. CASE b # 0
  <2>1. b - 1 \in Nat /\ b - 1 \notin Bounds
    BY <1>2, <1>3, <1>5
  <2>2. PICK f : Collects(f, form, entries, b - 1)
    BY <2>1
  <2> DEFINE g == [m \in 0..b |-> IF m = b THEN AppendEntry(f[b - 1], form, entries[b], b) ELSE f[m]]
  <2>3. \A m \in 0..(b - 1) : g[m] = f[m]
    BY <1>3
  <2>4. \A m \in 0..(b - 1) : f[m] = IF m = 0 THEN Empty ELSE AppendEntry(f[m - 1], form, entries[m], m)
    BY <2>2 DEF Collects
  <2>5. ASSUME NEW m \in 0..b
        PROVE  g[m] = IF m = 0 THEN Empty ELSE AppendEntry(g[m - 1], form, entries[m], m)
    <3>1. CASE m = b
      <4>1. g[m] = AppendEntry(f[b - 1], form, entries[b], b)
        BY <3>1
      <4>2. m - 1 \in 0..(b - 1)
        BY <1>3, <1>5, <3>1
      <4> QED BY <1>5, <2>3, <3>1, <4>1, <4>2
    <3>2. CASE m # b
      <4>1. m \in 0..(b - 1) /\ (m # 0 => m - 1 \in 0..(b - 1))
        BY <1>3, <3>2
      <4>2. g[m] = f[m] /\ (m # 0 => g[m - 1] = f[m - 1])
        BY <2>3, <4>1
      <4> HIDE DEF g
      <4> QED BY <2>4, <4>1, <4>2
    <3> QED BY <3>1, <3>2
  <2>6. g = [m \in 0..b |-> g[m]]
    OBVIOUS
  <2> HIDE DEF g
  <2>7. Collects(g, form, entries, b)
    BY <2>5, <2>6 DEF Collects
  <2> QED BY <1>3, <2>7
<1> QED BY <1>4, <1>5

\* The equations of Collected.
LEMMA CollectedEquations ==
  ASSUME NEW form, NEW entries, Len(entries) \in Nat
  PROVE  /\ Collected(form, entries)[0] = Empty
         /\ \A n \in 1..Len(entries) :
              Collected(form, entries)[n]
                = AppendEntry(Collected(form, entries)[n - 1], form, entries[n], n)
<1> DEFINE after == Collected(form, entries)
<1>1. PICK g : Collects(g, form, entries, Len(entries))
  BY CollectionExists
<1>2. after = CHOOSE h : Collects(h, form, entries, Len(entries))
  BY DEF Collected, Collects
<1>3. Collects(after, form, entries, Len(entries))
  BY <1>1, <1>2
<1> HIDE DEF after
<1>4. after[0] = Empty
  BY <1>3 DEF Collects
<1>5. ASSUME NEW n \in 1..Len(entries)
      PROVE  after[n] = AppendEntry(after[n - 1], form, entries[n], n)
  <2>1. n \in 0..Len(entries) /\ n # 0
    OBVIOUS
  <2> QED BY <1>3, <2>1 DEF Collects
<1> QED BY <1>4, <1>5 DEF after

\* Among the first n entries, a readable link whose key has the identity of an earlier one.
Repeats(form, entries, n) ==
  {m \in 1..n :
     /\ Readable(form, entries[m])
     /\ \E e \in 1..n : /\ e < m /\ Readable(form, entries[e])
                        /\ Identity(LinkKey(entries[e].link, e)) = Identity(LinkKey(entries[m].link, m))}

\* No document is among the first n entries.
NoDocuments(entries, n) == \A m \in 1..n : entries[m].form # "json"

\* What the items tell of the first n lines of a list.
LinesAreTold(entries, parsed, n) ==
  /\ \E S : parsed.items \in Seq(S)
  /\ \A k \in DOMAIN parsed.items : parsed.items[k].line \in 1..n
  /\ \A m \in 1..n : Readable("links", entries[m]) => \E k \in DOMAIN parsed.items : parsed.items[k].line = m
  /\ \A k \in DOMAIN parsed.items :
       parsed.items[k].line \in Repeats("links", entries, n) => parsed.items[k].status = "duplicate"
  /\ NoDocuments(entries, n) =>
       \A k \in DOMAIN parsed.items :
         parsed.items[k].status = "duplicate" => parsed.items[k].line \in Repeats("links", entries, n)

\* How far a body has been read after n entries.
ReadSoFar(form, entries, parsed, n) ==
  /\ Sound(parsed)
  /\ \A m \in 1..n : Readable(form, entries[m]) => Identity(LinkKey(entries[m].link, m)) \in parsed.seen
  /\ form = "links" => LinesAreTold(entries, parsed, n)
  /\ form = "links" /\ NoDocuments(entries, n) =>
       \A id \in parsed.seen : \E m \in 1..n :
         Readable(form, entries[m]) /\ id = Identity(LinkKey(entries[m].link, m))

\* One line more is told of.
LEMMA NextLineIsTold ==
  ASSUME NEW entries, NEW parsed, NEW next, NEW b \in Nat, b # 0,
         ReadSoFar("links", entries, parsed, b - 1), TellsOf(parsed, next, entries[b], b)
  PROVE  LinesAreTold(entries, next, b)
<1>1. /\ \E S : parsed.items \in Seq(S)
      /\ \A k \in DOMAIN parsed.items : parsed.items[k].line \in 1..(b - 1)
      /\ \A m \in 1..(b - 1) :
           Readable("links", entries[m]) => \E k \in DOMAIN parsed.items : parsed.items[k].line = m
      /\ \A k \in DOMAIN parsed.items :
           parsed.items[k].line \in Repeats("links", entries, b - 1) => parsed.items[k].status = "duplicate"
      /\ NoDocuments(entries, b - 1) =>
           \A k \in DOMAIN parsed.items :
             parsed.items[k].status = "duplicate" => parsed.items[k].line \in Repeats("links", entries, b - 1)
  BY DEF ReadSoFar, LinesAreTold
<1>2. \A m \in 1..(b - 1) : m \in Repeats("links", entries, b) <=> m \in Repeats("links", entries, b - 1)
  BY DEF Repeats
<1>3. b \in Repeats("links", entries, b) => Identity(LinkKey(entries[b].link, b)) \in parsed.seen
  <2>1. ASSUME NEW e \in 1..b, e < b, Readable("links", entries[e]),
               Identity(LinkKey(entries[e].link, e)) = Identity(LinkKey(entries[b].link, b))
        PROVE  Identity(LinkKey(entries[b].link, b)) \in parsed.seen
    <3>1. e \in 1..(b - 1)
      BY <2>1
    <3> QED BY <2>1, <3>1 DEF ReadSoFar
  <2> QED BY <2>1 DEF Repeats
<1>4. b \in Repeats("links", entries, b) => Readable("links", entries[b])
  BY DEF Repeats
<1>5. NoDocuments(entries, b) => NoDocuments(entries, b - 1) /\ entries[b].form # "json"
  BY DEF NoDocuments
<1>6. NoDocuments(entries, b) /\ Readable("links", entries[b])
        /\ Identity(LinkKey(entries[b].link, b)) \in parsed.seen
      => b \in Repeats("links", entries, b)
  <2> SUFFICES ASSUME NoDocuments(entries, b), Readable("links", entries[b]),
                      Identity(LinkKey(entries[b].link, b)) \in parsed.seen
               PROVE  b \in Repeats("links", entries, b)
    OBVIOUS
  <2>1. PICK e \in 1..(b - 1) : Readable("links", entries[e])
             /\ Identity(LinkKey(entries[b].link, b)) = Identity(LinkKey(entries[e].link, e))
    BY <1>5 DEF ReadSoFar
  <2>2. e \in 1..b /\ e < b /\ b \in 1..b
    OBVIOUS
  <2> QED BY <2>1, <2>2 DEF Repeats
<1>7. CASE next.items = parsed.items /\ ~Readable("links", entries[b])
  <2>1. \A k \in DOMAIN next.items : next.items[k].line \in 1..b /\ next.items[k].line \in 1..(b - 1)
    BY <1>1, <1>7
  <2>2. \A m \in 1..b : Readable("links", entries[m]) => m \in 1..(b - 1)
    BY <1>7
  <2>3. NoDocuments(entries, b) =>
          \A k \in DOMAIN next.items :
            next.items[k].status = "duplicate" => next.items[k].line \in Repeats("links", entries, b)
    BY <1>1, <1>2, <1>7, <1>5, <2>1
  <2> QED BY <1>1, <1>2, <1>7, <2>1, <2>2, <2>3 DEF LinesAreTold
<1>8. ASSUME NEW item, next.items = Append(parsed.items, item), item.line = b,
             Readable("links", entries[b]) /\ Identity(LinkKey(entries[b].link, b)) \in parsed.seen =>
               item.status = "duplicate",
             entries[b].form # "json" /\ item.status = "duplicate" =>
               Readable("links", entries[b]) /\ Identity(LinkKey(entries[b].link, b)) \in parsed.seen
      PROVE  LinesAreTold(entries, next, b)
  <2>1. PICK S : parsed.items \in Seq(S)
    BY <1>1
  <2> DEFINE len == Len(parsed.items)
  <2>2. parsed.items \in Seq(S \cup {item})
    BY <2>1
  <2>3. /\ next.items \in Seq(S \cup {item}) /\ len \in Nat
        /\ DOMAIN parsed.items = 1..len /\ DOMAIN next.items = 1..(len + 1)
        /\ next.items[len + 1] = item /\ \A k \in 1..len : next.items[k] = parsed.items[k]
    BY <1>8, <2>2
  <2>4. ASSUME NEW k \in DOMAIN next.items
        PROVE  /\ next.items[k].line \in 1..b
               /\ next.items[k].line \in Repeats("links", entries, b) => next.items[k].status = "duplicate"
    <3>1. CASE k = len + 1
      BY <1>3, <1>4, <1>8, <2>3, <3>1
    <3>2. CASE k # len + 1
      <4>1. k \in DOMAIN parsed.items /\ next.items[k] = parsed.items[k]
        BY <2>3, <3>2
      <4>2. parsed.items[k].line \in 1..(b - 1)
        BY <1>1, <4>1
      <4> QED BY <1>1, <1>2, <4>1, <4>2
    <3> QED BY <3>1, <3>2
  <2>5. ASSUME NEW m \in 1..b, Readable("links", entries[m])
        PROVE  \E k \in DOMAIN next.items : next.items[k].line = m
    <3>1. CASE m = b
      BY <1>8, <2>3, <3>1
    <3>2. CASE m # b
      <4>1. m \in 1..(b - 1)
        BY <3>2
      <4>2. PICK k \in DOMAIN parsed.items : parsed.items[k].line = m
        BY <1>1, <2>5, <4>1
      <4> QED BY <2>3, <4>2
    <3> QED BY <3>1, <3>2
  <2>6. ASSUME NoDocuments(entries, b), NEW k \in DOMAIN next.items, next.items[k].status = "duplicate"
        PROVE  next.items[k].line \in Repeats("links", entries, b)
    <3>1. CASE k = len + 1
      BY <1>8, <1>5, <1>6, <2>3, <2>6, <3>1
    <3>2. CASE k # len + 1
      <4>1. k \in DOMAIN parsed.items /\ next.items[k] = parsed.items[k]
        BY <2>3, <3>2
      <4>2. parsed.items[k].line \in 1..(b - 1)
        BY <1>1, <4>1
      <4> QED BY <1>1, <1>2, <1>5, <2>6, <4>1, <4>2
    <3> QED BY <3>1, <3>2
  <2> QED BY <2>3, <2>4, <2>5, <2>6 DEF LinesAreTold
<1> QED BY <1>7, <1>8 DEF TellsOf

\* The whole body, by its least part for which this would not hold.
LEMMA BodyKeepsKeys ==
  ASSUME NEW form, NEW entries, Len(entries) \in Nat,
         \A m \in 1..Len(entries) : IsEntry(form, entries[m]),
         NEW n \in 0..Len(entries)
  PROVE  ReadSoFar(form, entries, Collected(form, entries)[n], n)
<1> DEFINE after == Collected(form, entries)
           Bounds == {m \in 0..Len(entries) : ~ ReadSoFar(form, entries, after[m], m)}
<1>1. after[0] = Empty
      /\ \A m \in 1..Len(entries) : after[m] = AppendEntry(after[m - 1], form, entries[m], m)
  BY CollectedEquations
<1> HIDE DEF after
<1>2. SUFFICES ASSUME Bounds # {} PROVE FALSE
  BY DEF after
<1>3. PICK b \in Bounds : \A m \in Bounds : b <= m
  <2>1. Bounds \subseteq Nat
    OBVIOUS
  <2> QED BY <1>2, <2>1, LeastNumber
<1>4. b \in 0..Len(entries) /\ ~ ReadSoFar(form, entries, after[b], b)
  OBVIOUS
<1>5. CASE b = 0
  <2>1. Sound(after[0]) /\ 1..0 = {}
    BY <1>1, EmptyIsSound
  <2>2. LinesAreTold(entries, after[0], 0)
    <3>1. after[0].items = <<>>
      BY <1>1 DEF Empty
    <3>2. after[0].items \in Seq({}) /\ DOMAIN after[0].items = {}
      BY <3>1
    <3> QED BY <2>1, <3>2 DEF LinesAreTold
  <2>3. after[0].seen = {}
    BY <1>1 DEF Empty
  <2>4. ReadSoFar(form, entries, after[0], 0)
    BY <2>1, <2>2, <2>3 DEF ReadSoFar
  <2> QED BY <1>4, <1>5, <2>4
<1>6. CASE b # 0
  <2>1. b \in 1..Len(entries) /\ b \in Nat /\ b - 1 \in 0..Len(entries) /\ b - 1 \notin Bounds
    BY <1>3, <1>4, <1>6
  <2>2. ReadSoFar(form, entries, after[b - 1], b - 1)
    BY <2>1
  <2>3. Sound(after[b - 1])
    BY <2>2 DEF ReadSoFar
  <2>4. after[b] = AppendEntry(after[b - 1], form, entries[b], b)
    BY <1>1, <2>1
  <2>5. /\ Sound(after[b]) /\ after[b - 1].seen \subseteq after[b].seen
        /\ Readable(form, entries[b]) => Identity(LinkKey(entries[b].link, b)) \in after[b].seen
    BY <2>1, <2>3, <2>4, EntryKeepsKeys
  <2>6. ASSUME NEW m \in 1..b, Readable(form, entries[m])
        PROVE  Identity(LinkKey(entries[m].link, m)) \in after[b].seen
    <3>1. CASE m = b
      BY <2>5, <2>6, <3>1
    <3>2. CASE m # b
      <4>1. m \in 1..(b - 1)
        BY <2>1, <3>2
      <4> QED BY <2>2, <2>5, <2>6, <4>1 DEF ReadSoFar
    <3> QED BY <3>1, <3>2
  <2>7. ASSUME form = "links" PROVE LinesAreTold(entries, after[b], b)
    <3>1. TellsOf(after[b - 1], after[b], entries[b], b)
      BY <2>1, <2>3, <2>4, <2>7, EntryTells
    <3> QED BY <1>6, <2>1, <2>2, <2>7, <3>1, NextLineIsTold
  <2>8. ASSUME form = "links", NoDocuments(entries, b), NEW id \in after[b].seen
        PROVE  \E m \in 1..b : Readable(form, entries[m]) /\ id = Identity(LinkKey(entries[m].link, m))
    <3>1. NoDocuments(entries, b - 1) /\ entries[b].form # "json" /\ b \in 1..b
      BY <2>1, <2>8 DEF NoDocuments
    <3>2. \/ id \in after[b - 1].seen
          \/ Readable(form, entries[b]) /\ id = Identity(LinkKey(entries[b].link, b))
      BY <2>1, <2>3, <2>4, <2>8, <3>1, LinesSee
    <3>3. CASE id \in after[b - 1].seen
      <4>1. \E m \in 1..(b - 1) : Readable(form, entries[m]) /\ id = Identity(LinkKey(entries[m].link, m))
        BY <2>2, <2>8, <3>1, <3>3 DEF ReadSoFar
      <4>2. 1..(b - 1) \subseteq 1..b
        BY <2>1
      <4> QED BY <4>1, <4>2
    <3> QED BY <3>1, <3>2, <3>3
  <2>9. ReadSoFar(form, entries, after[b], b)
    BY <2>5, <2>6, <2>7, <2>8 DEF ReadSoFar
  <2> QED BY <1>4, <2>9
<1> QED BY <1>5, <1>6

-----------------------------------------------------------------------------
(* Results.                                                                  *)

\* A body that is a list or a document is a sequence of entries.
LEMMA ListsHaveEntries ==
  ASSUME NEW b \in Bodies, b.content.form = "links"
  PROVE  /\ Len(b.content.lines) \in Nat /\ DOMAIN b.content.lines = 1..Len(b.content.lines)
         /\ \A n \in 1..Len(b.content.lines) : IsEntry("links", b.content.lines[n])
<1> DEFINE lines == b.content.lines
<1>1. lines \in Seq(ToSet(lines))
  BY FeedsAssumption
<1>2. Len(lines) \in Nat /\ DOMAIN lines = 1..Len(lines)
  BY <1>1
<1>3. ASSUME NEW n \in 1..Len(lines) PROVE IsEntry("links", lines[n])
  <2>1. lines[n] \in ToSet(lines)
    BY <1>2 DEF ToSet
  <2>2. lines[n].form = "uri" => lines[n].link \in LinksIn(b)
    BY <2>1 DEF LinksIn
  <2>3. lines[n].form = "json" => lines[n].document \in DocumentsIn(b)
    BY <2>1 DEF DocumentsIn
  <2> QED BY <2>2, <2>3 DEF IsEntry, FeedLinks, FeedDocuments
<1> QED BY <1>2, <1>3

LEMMA DocumentsHaveEntries ==
  ASSUME NEW b \in Bodies, b.content.form = "document"
  PROVE  /\ Len(b.content.values) \in Nat
         /\ \A n \in 1..Len(b.content.values) : IsEntry("document", b.content.values[n])
<1> DEFINE values == b.content.values
<1>1. values \in Seq(ToSet(values))
  BY FeedsAssumption
<1>2. Len(values) \in Nat /\ DOMAIN values = 1..Len(values)
  BY <1>1
<1>3. ASSUME NEW n \in 1..Len(values) PROVE IsEntry("document", values[n])
  <2>1. values[n] \in ToSet(values)
    BY <1>2 DEF ToSet
  <2>2. values[n] = Nothing \/ values[n] \in DocumentsIn(b)
    BY <2>1 DEF DocumentsIn
  <2> QED BY <2>2 DEF IsEntry, FeedDocuments
<1> QED BY <1>2, <1>3

\* What a fetch of a body answers, if it is no error.
IsResult(b, result) ==
  \E parsed :
    /\ Sound(parsed)
    /\ result = [keys |-> parsed.keys, items |-> parsed.items]
    /\ b.content.form = "links" =>
         /\ \A n \in DOMAIN b.content.lines :
              Readable("links", b.content.lines[n]) =>
                Identity(LinkKey(b.content.lines[n].link, n)) \in parsed.seen
         /\ LinesAreTold(b.content.lines, parsed, Len(b.content.lines))

LEMMA FetchedIsResult ==
  ASSUME NEW b \in Bodies, Fetched(b) # Failed
  PROVE  IsResult(b, Fetched(b))
<1> DEFINE parsed == ParseBody(b)
<1>1. parsed # Failed /\ Fetched(b) = [keys |-> parsed.keys, items |-> parsed.items]
  BY DEF Fetched, Kept
<1>2. Decoded(b) # Failed /\ Decoded(b).form # "empty"
  BY <1>1 DEF ParseBody
<1>3. Decoded(b) = b.content
  BY <1>2 DEF Decoded
<1>4. CASE b.content.form = "links"
  <2> DEFINE lines == b.content.lines
  <2>1. parsed = ParseLinks(lines)
    BY <1>2, <1>3, <1>4 DEF ParseBody
  <2>2. parsed = Collected("links", lines)[Len(lines)]
    BY <1>1, <2>1 DEF ParseLinks
  <2>3. /\ Len(lines) \in Nat /\ DOMAIN lines = 1..Len(lines)
        /\ \A n \in 1..Len(lines) : IsEntry("links", lines[n])
    BY <1>4, ListsHaveEntries
  <2>4. Len(lines) \in 0..Len(lines)
    BY <2>3
  <2> HIDE DEF parsed, lines
  <2>5. ReadSoFar("links", lines, parsed, Len(lines))
    BY <2>2, <2>3, <2>4, BodyKeepsKeys
  <2> QED BY <1>1, <2>3, <2>5 DEF ReadSoFar, IsResult, lines
<1>5. CASE b.content.form = "document"
  <2> DEFINE values == b.content.values
  <2>1. parsed = ParseJson(b.content)
    BY <1>2, <1>3, <1>5 DEF ParseBody
  <2>2. parsed = Collected("document", values)[Len(values)]
    BY <1>1, <1>5, <2>1 DEF ParseJson
  <2>3. Len(values) \in Nat /\ \A n \in 1..Len(values) : IsEntry("document", values[n])
    BY <1>5, DocumentsHaveEntries
  <2>4. Len(values) \in 0..Len(values)
    BY <2>3
  <2> HIDE DEF parsed, values
  <2>5. ReadSoFar("document", values, parsed, Len(values))
    BY <2>2, <2>3, <2>4, BodyKeepsKeys
  <2> QED BY <1>1, <1>5, <2>5 DEF ReadSoFar, IsResult
<1>6. CASE b.content.form = "scalar"
  <2>1. parsed = Failed
    BY <1>2, <1>3, <1>6 DEF ParseBody, ParseJson
  <2> QED BY <1>1, <2>1
<1>7. b.content.form \in {"links", "document", "scalar"}
  <2>1. b.content.form \in {"empty", "links", "document", "scalar"}
    BY FeedsAssumption
  <2> QED BY <1>2, <1>3, <2>1
<1> QED BY <1>4, <1>5, <1>6, <1>7

\* The keys of a result differ in their identities and so in their references.
LEMMA ResultsHaveKeys ==
  ASSUME NEW b, NEW result, IsResult(b, result)
  PROVE  /\ result.keys \in Seq(FeedKeys)
         /\ \A k, m \in DOMAIN result.keys : Identity(result.keys[k]) = Identity(result.keys[m]) => k = m
  BY DEF IsResult, Sound

\* A readable line of a body has a key with its fingerprint among the keys.
LEMMA ResultsHaveLinks ==
  ASSUME NEW b, NEW result, IsResult(b, result), b.content.form = "links",
         NEW n \in DOMAIN b.content.lines, Readable("links", b.content.lines[n])
  PROVE  \E key \in ToSet(result.keys) : key.print = Fingerprint(Parse(b.content.lines[n].link))
<1> DEFINE own == LinkKey(b.content.lines[n].link, n)
           print == Fingerprint(Parse(b.content.lines[n].link))
<1>1. PICK parsed : /\ Sound(parsed) /\ result = [keys |-> parsed.keys, items |-> parsed.items]
                    /\ Identity(own) \in parsed.seen
  BY DEF IsResult
<1>2. own.print = print
  BY DEF LinkKey, ProfileKey
<1> HIDE DEF own, print
<1>3. PICK k \in DOMAIN parsed.keys : Identity(parsed.keys[k]) = Identity(own)
  BY <1>1 DEF Sound
<1>4. parsed.keys[k].print = print
  BY <1>2, <1>3 DEF Identity
<1>5. result.keys = parsed.keys
  BY <1>1
<1> QED BY <1>3, <1>4, <1>5 DEF ToSet, print

-----------------------------------------------------------------------------
(* The requests.                                                             *)

\* What an import hands over, of the body it fetches.
Imported(b, chosen) ==
  IF Fetched(b) = Failed THEN Failed ELSE FilterSelection(Fetched(b), chosen)

PreviewIsOfABody ==
  preview # Nothing =>
    /\ preview.of \in Bodies /\ preview.parsed = Fetched(preview.of)
    /\ updates = 0 => preview.of = body

\* Chosen from the preview, and taken from the same or from another body.
ImportIsOfABody ==
  import # Nothing =>
    /\ preview # Nothing /\ preview.parsed # Failed
    /\ \E pick \in Seq(1..MaxItems) :
         /\ \A n \in DOMAIN pick : pick[n] \in DOMAIN preview.parsed.items
         /\ import.chosen = [n \in DOMAIN pick |-> preview.parsed.items[pick[n]].ref]
    /\ \E b \in Bodies :
         /\ updates = 0 => b = preview.of
         /\ import.parsed = Imported(b, import.chosen)

FeedsInv == body \in Bodies /\ updates \in Nat /\ PreviewIsOfABody /\ ImportIsOfABody

LEMMA FeedsInitially == FeedsInit => FeedsInv
  BY DEF FeedsInit, FeedsInv, PreviewIsOfABody, ImportIsOfABody

LEMMA FeedsFollow == FeedsInv /\ [FeedsNext]_feedVars => FeedsInv'
<1> SUFFICES ASSUME FeedsInv, [FeedsNext]_feedVars PROVE FeedsInv'
  OBVIOUS
<1> USE DEF FeedsInv, PreviewIsOfABody, ImportIsOfABody
<1>1. CASE Update
  <2>1. Updated(body) \subseteq Bodies
    BY FeedsAssumption
  <2>2. body' \in Bodies /\ updates' \in Nat /\ updates' # 0
    BY <1>1, <2>1 DEF Update
  <2>3. preview' = preview /\ import' = import
    BY <1>1 DEF Update
  <2> QED BY <2>2, <2>3
<1>2. CASE Preview
  <2>1. body' = body /\ updates' = updates /\ import' = import /\ preview = Nothing
    BY <1>2 DEF Preview
  <2>2. preview'.of = body /\ preview'.parsed = Fetched(body)
    BY <1>2 DEF Preview
  <2>3. import = Nothing
    BY <2>1
  <2> QED BY <2>1, <2>2, <2>3
<1>3. CASE Import
  <2>1. body' = body /\ updates' = updates /\ preview' = preview
    BY <1>3 DEF Import
  <2>2. preview # Nothing /\ preview.parsed # Failed
    BY <1>3 DEF Import
  <2> DEFINE listed == preview.parsed.items
             ChosenBy(pick) == [n \in DOMAIN pick |-> listed[pick[n]].ref]
  <2>3. PICK pick \in Picks(preview.of) :
          /\ ToSet(pick) \subseteq DOMAIN listed
          /\ import' = [chosen |-> ChosenBy(pick), parsed |-> Imported(body, ChosenBy(pick))]
    BY <1>3 DEF Import, Imported
  <2>4. pick \in Seq(1..MaxItems)
    BY <2>2, FeedsAssumption
  <2>5. \A n \in DOMAIN pick : pick[n] \in DOMAIN listed
    BY <2>3 DEF ToSet
  <2>6. import'.chosen = ChosenBy(pick) /\ import'.parsed = Imported(body, import'.chosen)
    BY <2>3
  <2>7. ImportIsOfABody'
    BY <2>1, <2>2, <2>4, <2>5, <2>6
  <2> QED BY <2>1, <2>7
<1>4. CASE Again
  BY <1>4 DEF Again
<1>5. CASE UNCHANGED feedVars
  BY <1>5 DEF feedVars
<1> QED BY <1>1, <1>2, <1>3, <1>4, <1>5 DEF FeedsNext

\* The preview is the result of one published body, and an import takes references of that
\* preview from a body published now or then (FilterSelection).
THEOREM FeedsInvariant == FeedsSpec => []FeedsInv
  BY FeedsInitially, FeedsFollow, PTL DEF FeedsSpec

\* What is shown is the result of a body.
LEMMA ShownIsAResult ==
  ASSUME FeedsInv, Shown # Failed
  PROVE  preview # Nothing /\ preview.of \in Bodies /\ IsResult(preview.of, Shown)
<1>1. preview # Nothing /\ Shown = preview.parsed
  BY DEF Shown
<1>2. preview.of \in Bodies /\ preview.parsed = Fetched(preview.of)
  BY <1>1 DEF FeedsInv, PreviewIsOfABody
<1> QED BY <1>1, <1>2, FetchedIsResult

\* One key for each identity, and a key for every readable link.
LEMMA KeysAreFound == FeedsInv => (Shown # Failed => KeysDiffer /\ ReadableLinksAreKeys)
<1>1. ASSUME FeedsInv, Shown # Failed PROVE KeysDiffer
  BY <1>1, ShownIsAResult, ResultsHaveKeys DEF KeysDiffer
<1>2. ASSUME FeedsInv, Shown # Failed, NEW n \in Links, Parse(LinkAt(n)) # Refused
      PROVE  \E key \in ToSet(Shown.keys) : key.print = Fingerprint(Parse(LinkAt(n)))
  <2> DEFINE b == preview.of
  <2>1. b \in Bodies /\ IsResult(b, Shown)
    BY <1>2, ShownIsAResult
  <2>2. b.content.form = "links" /\ n \in DOMAIN b.content.lines /\ b.content.lines[n].form = "uri"
    BY <1>2 DEF Links
  <2>3. LinkAt(n) = b.content.lines[n].link
    BY DEF LinkAt
  <2>4. Readable("links", b.content.lines[n])
    BY <1>2, <2>2, <2>3 DEF Readable
  <2> HIDE DEF b
  <2> QED BY <2>1, <2>2, <2>3, <2>4, ResultsHaveLinks
<1> QED BY <1>1, <1>2 DEF ReadableLinksAreKeys

\* What references select from a result: nothing for a reason, or a key for each of them.
IsSelection(result, chosen, len, filtered) ==
  IF filtered = Failed
  THEN ~ IsInjective(chosen) \/ \E n \in DOMAIN chosen : \A key \in ToSet(result.keys) : key.ref # chosen[n]
  ELSE /\ IsInjective(chosen)
       /\ Len(filtered.keys) = len /\ DOMAIN filtered.keys = 1..len
       /\ \A n \in 1..len : filtered.keys[n] \in ToSet(result.keys) /\ filtered.keys[n].ref = chosen[n]

LEMMA SelectionHasKeys ==
  ASSUME NEW result, NEW chosen, NEW len \in Nat, DOMAIN chosen = 1..len, len # 0
  PROVE  IsSelection(result, chosen, len, FilterSelection(result, chosen))
<1> USE DEF IsSelection
<1> DEFINE filtered == FilterSelection(result, chosen)
           keys == ToSet(result.keys)
           refs == {result.keys[k].ref : k \in DOMAIN result.keys}
           Choice(ref) == CHOOSE key \in keys : key.ref = ref
           named == [n \in DOMAIN chosen |-> Choice(chosen[n])]
<1>1. chosen # <<>>
  OBVIOUS
<1>2. CASE ~ (ToSet(chosen) \subseteq refs)
  <2>1. PICK n \in DOMAIN chosen : chosen[n] \notin refs
    BY <1>2 DEF ToSet
  <2>2. \A key \in keys : key.ref # chosen[n]
    BY <2>1 DEF ToSet
  <2>3. filtered = Failed
    BY <1>1, <1>2 DEF FilterSelection
  <2> QED BY <2>2, <2>3
<1>3. CASE ~ IsInjective(chosen)
  <2>1. filtered = Failed
    BY <1>1, <1>3 DEF FilterSelection
  <2> QED BY <1>3, <2>1
<1>4. CASE ToSet(chosen) \subseteq refs /\ IsInjective(chosen)
  <2>1. filtered.keys = named
    <3>1. filtered = [keys |-> named,
                      items |-> SelectSeq(result.items, LAMBDA item : item.ref \in ToSet(chosen))]
      BY <1>1, <1>4 DEF FilterSelection
    <3> QED BY <3>1
  <2>2. ASSUME NEW n \in 1..len PROVE Choice(chosen[n]) \in keys /\ Choice(chosen[n]).ref = chosen[n]
    <3>1. chosen[n] \in refs
      BY <1>4 DEF ToSet
    <3>2. \E key \in keys : key.ref = chosen[n]
      BY <3>1 DEF ToSet
    <3> QED BY <3>2
  <2>3. DOMAIN named = 1..len /\ \A n \in 1..len : named[n] = Choice(chosen[n])
    OBVIOUS
  <2> HIDE DEF Choice
  <2>4. named \in [1..len -> keys]
    BY <2>2
  <2> HIDE DEF named, keys
  <2>5. Len(named) = len
    <3>1. named \in Seq(keys)
      BY <2>4, IsASeq
    <3> QED BY <2>3, <3>1, LenProperties
  <2>6. filtered # Failed
    <3>1. 1 \in DOMAIN named
      BY <2>3
    <3>2. named # <<>>
      BY <3>1
    <3> QED BY <2>1, <3>2 DEF Failed
  <2> QED BY <1>4, <2>1, <2>2, <2>3, <2>5, <2>6 DEF keys
<1> QED BY <1>2, <1>3, <1>4

\* The keys of two readable links have one identity if the links have one fingerprint.
LEMMA IdentitiesArePrints ==
  ASSUME NEW l, NEW n, NEW other, NEW m
  PROVE  Identity(LinkKey(l, n)) = Identity(LinkKey(other, m))
           <=> Fingerprint(Parse(l)) = Fingerprint(Parse(other))
<1>1. /\ LinkKey(l, n).print = Fingerprint(Parse(l))
      /\ LinkKey(other, m).print = Fingerprint(Parse(other))
  BY DEF LinkKey, ProfileKey
<1>2. Fingerprint(Parse(l)) # Unprinted /\ Fingerprint(Parse(other)) # Unprinted
  BY DEF Fingerprint, Unprinted
<1> QED BY <1>1, <1>2 DEF Identity

\* The lines of the list that is shown.
ShownLines == preview.of.content.lines

\* Two readable links of it.
LEMMA ShownLinks ==
  ASSUME FeedsInv, Shown # Failed, NEW n \in Links, Parse(LinkAt(n)) # Refused
  PROVE  /\ Len(ShownLines) \in Nat /\ DOMAIN ShownLines = 1..Len(ShownLines)
         /\ n \in 1..Len(ShownLines) /\ LinkAt(n) = ShownLines[n].link
         /\ IsLink(LinkAt(n)) /\ Readable("links", ShownLines[n])
<1> DEFINE b == preview.of
<1>1. b \in Bodies
  BY ShownIsAResult
<1>2. b.content.form = "links" /\ n \in DOMAIN ShownLines /\ ShownLines[n].form = "uri"
  BY DEF Links, ShownLines
<1>3. LinkAt(n) = ShownLines[n].link
  BY DEF LinkAt, ShownLines
<1>4. Len(ShownLines) \in Nat /\ DOMAIN ShownLines = 1..Len(ShownLines) /\ IsEntry("links", ShownLines[n])
  BY <1>1, <1>2, ListsHaveEntries DEF ShownLines
<1>5. Readable("links", ShownLines[n])
  BY <1>2, <1>3 DEF Readable
<1>6. IsLink(LinkAt(n))
  <2>1. LinkAt(n) \in FeedLinks
    BY <1>2, <1>3, <1>4 DEF IsEntry
  <2> QED BY <2>1, FeedsAssumption
<1> QED BY <1>2, <1>3, <1>4, <1>5, <1>6

\* The item of a readable link: a duplicate if it repeats an earlier one, and in a list of
\* links only then.
LEMMA ItemsTell ==
  ASSUME FeedsInv, Shown # Failed, NEW m \in Links, Parse(LinkAt(m)) # Refused
  PROVE  /\ m \in Repeats("links", ShownLines, Len(ShownLines)) => ItemOf(m).status = "duplicate"
         /\ NoDocuments(ShownLines, Len(ShownLines)) /\ ItemOf(m).status = "duplicate"
              => m \in Repeats("links", ShownLines, Len(ShownLines))
<1> DEFINE len == Len(ShownLines)
<1>1. IsResult(preview.of, Shown) /\ preview.of.content.form = "links"
  BY ShownIsAResult DEF Links
<1>2. PICK parsed : /\ Shown = [keys |-> parsed.keys, items |-> parsed.items]
                    /\ LinesAreTold(ShownLines, parsed, len)
  BY <1>1 DEF IsResult, ShownLines
<1>3. Shown.items = parsed.items
  BY <1>2
<1>4. m \in 1..len /\ Readable("links", ShownLines[m])
  BY ShownLinks
<1> HIDE DEF len
<1>5. PICK k \in DOMAIN parsed.items : parsed.items[k].line = m
  BY <1>2, <1>4 DEF LinesAreTold
<1>6. \E item \in ToSet(Shown.items) : item.line = m
  BY <1>3, <1>5 DEF ToSet
<1>7. ItemOf(m) \in ToSet(Shown.items) /\ ItemOf(m).line = m
  BY <1>6 DEF ItemOf
<1>8. PICK i \in DOMAIN parsed.items : ItemOf(m) = parsed.items[i]
  BY <1>3, <1>7 DEF ToSet
<1>9. /\ m \in Repeats("links", ShownLines, len) => ItemOf(m).status = "duplicate"
      /\ NoDocuments(ShownLines, len) /\ ItemOf(m).status = "duplicate"
           => m \in Repeats("links", ShownLines, len)
  BY <1>2, <1>7, <1>8 DEF LinesAreTold
<1> QED BY <1>9 DEF len

\* A line that writes the profile of an earlier one in another way is a duplicate: for any
\* feed, and each of the six protocols.
LEMMA DuplicatesAreTold == FeedsInv => (Shown # Failed => PresentationsAreDuplicates)
<1> SUFFICES ASSUME FeedsInv, Shown # Failed, NEW n \in Links, NEW m \in Links, n < m,
                    Parse(LinkAt(n)) # Refused, Parse(LinkAt(m)) # Refused,
                    LinkAt(m) \in Presentations(LinkAt(n))
             PROVE  ItemOf(m).status = "duplicate"
  BY DEF PresentationsAreDuplicates
<1>1. /\ n \in 1..Len(ShownLines) /\ m \in 1..Len(ShownLines) /\ IsLink(LinkAt(n))
      /\ LinkAt(n) = ShownLines[n].link /\ LinkAt(m) = ShownLines[m].link
      /\ Readable("links", ShownLines[n]) /\ Readable("links", ShownLines[m])
  BY ShownLinks
<1>2. Fingerprint(Parse(LinkAt(n))) = Fingerprint(Parse(LinkAt(m)))
  BY <1>1, PresentationsShareAFingerprint
<1>3. Identity(LinkKey(ShownLines[n].link, n)) = Identity(LinkKey(ShownLines[m].link, m))
  BY <1>1, <1>2, IdentitiesArePrints
<1>4. m \in Repeats("links", ShownLines, Len(ShownLines))
  BY <1>1, <1>3 DEF Repeats
<1> QED BY <1>4, ItemsTell

\* A line that changes what a client does by each of the earlier ones is none.
LEMMA ChangesAreTold == FeedsInv => (Shown # Failed => ChangesAreNoDuplicates)
<1> SUFFICES ASSUME FeedsInv, Shown # Failed, DocumentsIn(preview.of) = {},
                    NEW m \in Links, Parse(LinkAt(m)) # Refused,
                    \A n \in Links : n < m /\ Parse(LinkAt(n)) # Refused => LinkAt(m) \in Changes(LinkAt(n)),
                    ItemOf(m).status = "duplicate"
             PROVE  FALSE
  BY DEF ChangesAreNoDuplicates
<1>1. preview.of.content.form = "links"
  BY DEF Links
<1>2. /\ Len(ShownLines) \in Nat /\ DOMAIN ShownLines = 1..Len(ShownLines) /\ m \in 1..Len(ShownLines)
      /\ LinkAt(m) = ShownLines[m].link
  BY ShownLinks
<1>3. NoDocuments(ShownLines, Len(ShownLines))
  <2> SUFFICES ASSUME NEW k \in 1..Len(ShownLines), ShownLines[k].form = "json" PROVE FALSE
    BY DEF NoDocuments
  <2>1. ShownLines[k] \in ToSet(ShownLines)
    BY <1>2 DEF ToSet
  <2>2. ShownLines[k].document \in DocumentsIn(preview.of)
    BY <1>1, <2>1 DEF DocumentsIn, ShownLines
  <2> QED BY <2>2
<1>4. m \in Repeats("links", ShownLines, Len(ShownLines))
  BY <1>3, ItemsTell
<1>5. PICK n \in 1..Len(ShownLines) :
        /\ n < m /\ Readable("links", ShownLines[n])
        /\ Identity(LinkKey(ShownLines[n].link, n)) = Identity(LinkKey(ShownLines[m].link, m))
  BY <1>4 DEF Repeats
<1>6. n \in Links /\ LinkAt(n) = ShownLines[n].link
  BY <1>1, <1>2, <1>5 DEF Links, LinkAt, ShownLines, Readable
<1>7. Parse(LinkAt(n)) # Refused
  BY <1>5, <1>6 DEF Readable
<1>8. LinkAt(m) \in Changes(LinkAt(n)) /\ IsLink(LinkAt(n))
  BY <1>5, <1>6, <1>7, ShownLinks
<1>9. Fingerprint(Parse(LinkAt(n))) # Fingerprint(Parse(LinkAt(m)))
  BY <1>7, <1>8, ChangesHaveOtherFingerprints
<1> QED BY <1>2, <1>5, <1>6, <1>9, IdentitiesArePrints

\* A feed yields one key for each profile, whatever ways its lines write it, and no line is
\* taken for another whose values, extensions or port differ: for any body, however long, and
\* each of the six protocols (appendExternalParsedItem over the fingerprints of the adapters).
THEOREM KeysAreOnePerProfile == FeedsSpec => []OneKeyPerProfile
<1>1. FeedsInv => OneKeyPerProfile
  BY KeysAreFound, DuplicatesAreTold, ChangesAreTold DEF OneKeyPerProfile
<1> QED BY <1>1, FeedsInvariant, PTL

\* What is chosen from the preview is taken from whatever the provider publishes by then.
LEMMA ImportsAreExact == FeedsInv => SelectionIsExact
<1> SUFFICES ASSUME FeedsInv, import # Nothing, import.chosen # <<>>
             PROVE  SelectionIsExact
  BY DEF SelectionIsExact
<1> DEFINE chosen == import.chosen
           keys == import.parsed.keys
<1>1. preview # Nothing /\ preview.parsed # Failed
  BY DEF FeedsInv, ImportIsOfABody
<1>2. PICK pick \in Seq(1..MaxItems) :
        /\ \A n \in DOMAIN pick : pick[n] \in DOMAIN preview.parsed.items
        /\ chosen = [n \in DOMAIN pick |-> preview.parsed.items[pick[n]].ref]
  BY DEF FeedsInv, ImportIsOfABody
<1>3. PICK b \in Bodies : /\ updates = 0 => b = preview.of
                          /\ import.parsed = Imported(b, chosen)
  BY DEF FeedsInv, ImportIsOfABody
<1> DEFINE len == Len(pick)
<1>4. len \in Nat /\ DOMAIN pick = 1..len
  BY LenProperties
<1>5. DOMAIN chosen = 1..len
  BY <1>2, <1>4
<1>6. len # 0
  <2>1. CASE len = 0
    <3>1. chosen = [n \in 1..0 |-> preview.parsed.items[pick[n]].ref]
      BY <1>2, <1>4, <2>1
    <3>2. chosen = <<>>
      BY <3>1
    <3> QED BY <3>2
  <2> QED BY <2>1
<1>7. Shown = preview.parsed /\ Shown = Fetched(preview.of) /\ IsResult(preview.of, Shown)
  <2>1. Shown = preview.parsed
    BY <1>1 DEF Shown
  <2>2. preview.parsed = Fetched(preview.of)
    BY <1>1 DEF FeedsInv, PreviewIsOfABody
  <2> QED BY <1>1, <2>1, <2>2, ShownIsAResult
<1>8. Len(chosen) = len
  <2>1. chosen \in Seq({chosen[n] : n \in 1..len})
    <3>1. chosen = [n \in 1..len |-> chosen[n]]
      BY <1>2, <1>4, <1>5
    <3>2. chosen \in [1..len -> {chosen[n] : n \in 1..len}]
      BY <3>1
    <3> QED BY <1>4, <3>2, IsASeq
  <2> QED BY <1>4, <1>5, <2>1, LenProperties
<1>9. CASE Fetched(b) # Failed
  <2>1. IsResult(b, Fetched(b)) /\ import.parsed = FilterSelection(Fetched(b), chosen)
    BY <1>3, <1>9, FetchedIsResult DEF Imported
  <2> HIDE DEF chosen, len
  <2>2. IF import.parsed = Failed
        THEN ~ IsInjective(chosen) \/ \E n \in DOMAIN chosen : \A key \in ToSet(Fetched(b).keys) : key.ref # chosen[n]
        ELSE /\ IsInjective(chosen)
             /\ Len(keys) = len /\ DOMAIN keys = 1..len
             /\ \A n \in 1..len : keys[n] \in ToSet(Fetched(b).keys) /\ keys[n].ref = chosen[n]
    <3>1. IsSelection(Fetched(b), chosen, len, import.parsed)
      BY <1>4, <1>5, <1>6, <2>1, SelectionHasKeys
    <3> QED BY <3>1 DEF IsSelection
  <2>3. CASE import.parsed = Failed
    <3>1. ASSUME updates = 0
          PROVE  \/ \E n \in DOMAIN chosen : \A key \in ToSet(Shown.keys) : key.ref # chosen[n]
                 \/ ~IsInjective(chosen)
      <4>1. Fetched(b) = Shown
        BY <1>3, <1>7, <3>1
      <4> QED BY <2>2, <2>3, <4>1
    <3> QED BY <2>3, <3>1 DEF SelectionIsExact, chosen
  <2>4. CASE import.parsed # Failed
    <3> DEFINE all == Fetched(b).keys
    <3>1. /\ all \in Seq(FeedKeys)
          /\ \A i, j \in DOMAIN all : Identity(all[i]) = Identity(all[j]) => i = j
      BY <2>1, ResultsHaveKeys
    <3>2. /\ IsInjective(chosen) /\ Len(keys) = len /\ DOMAIN keys = 1..len
          /\ \A n \in 1..len : keys[n] \in ToSet(all) /\ keys[n].ref = chosen[n]
      BY <2>2, <2>4
    <3>3. \A n \in 1..len : \E i \in DOMAIN all : keys[n] = all[i]
      BY <3>2 DEF ToSet
    <3> HIDE DEF all, keys
    <3>4. \A n \in 1..len : keys[n] \in FeedKeys
      BY <3>1, <3>3
    <3>5. ASSUME NEW n \in 1..len
          PROVE  \E item \in ToSet(Shown.items) :
                   /\ item.ref = chosen[n] /\ keys[n].ref = item.ref
                   /\ \A key \in ToSet(Shown.keys) : key.ref = item.ref => key = keys[n]
      <4> DEFINE item == Shown.items[pick[n]]
      <4>1. item \in ToSet(Shown.items)
        BY <1>2, <1>4, <1>7 DEF ToSet
      <4>2. item.ref = chosen[n]
        BY <1>2, <1>4, <1>7 DEF chosen
      <4>3. Shown.keys \in Seq(FeedKeys)
        BY <1>7, ResultsHaveKeys
      <4> HIDE DEF item
      <4>4. ASSUME NEW key \in ToSet(Shown.keys), key.ref = item.ref PROVE key = keys[n]
        <5>1. key \in FeedKeys
          BY <4>3 DEF ToSet
        <5>2. key.ref = keys[n].ref
          BY <3>2, <4>2, <4>4
        <5> QED BY <3>4, <5>1, <5>2, ReferencesNameKeys
      <4> QED BY <3>2, <4>1, <4>2, <4>4
    <3>6. ASSUME NEW n \in 1..len, NEW m \in 1..len, Identity(keys[n]) = Identity(keys[m])
          PROVE  n = m
      <4>1. PICK i \in DOMAIN all, j \in DOMAIN all : keys[n] = all[i] /\ keys[m] = all[j]
        BY <3>3
      <4>2. keys[n] = keys[m]
        BY <3>1, <3>6, <4>1
      <4>3. chosen[n] = chosen[m]
        BY <3>2, <4>2
      <4> QED BY <1>5, <3>2, <4>3 DEF IsInjective
    <3>7. Len(keys) = Len(chosen) /\ DOMAIN chosen = 1..len /\ DOMAIN keys = 1..len
      BY <1>5, <1>8, <3>2
    <3> HIDE DEF chosen
    <3> QED BY <2>4, <3>5, <3>6, <3>7 DEF SelectionIsExact, keys, chosen
  <2> QED BY <2>3, <2>4
<1>10. CASE Fetched(b) = Failed
  <2>1. import.parsed = Failed
    BY <1>3, <1>10 DEF Imported
  <2>2. updates # 0
    BY <1>1, <1>3, <1>7, <1>10
  <2> QED BY <2>1, <2>2 DEF SelectionIsExact
<1> QED BY <1>9, <1>10

\* An import hands over exactly the keys that were chosen and previewed, or nothing,
\* whatever the bodies are and however often the provider publishes another one.
THEOREM ChosenIsImported == FeedsSpec => []SelectionIsExact
  BY FeedsInvariant, ImportsAreExact, PTL

-----------------------------------------------------------------------------
(* What is stored for a key.                                                 *)

\* A link reads as a fingerprint, and its canonical link as the same.
ReadsAs(url, print) ==
  \E profile \in {Parse(url)} :
    /\ profile # Refused
    /\ Fingerprint(profile) = print
    /\ profile.readOnly \/ RepeatsCredential(profile) \/ ReadsBack(profile, Canonical(profile))

LEMMA LinksReadBack ==
  ASSUME NEW l, IsLink(l), Parse(l) # Refused
  PROVE  ReadsAs(l, Fingerprint(Parse(l)))
<1> DEFINE profile == Parse(l)
           m == Canonical(profile)
<1>1. ASSUME ~profile.readOnly, ~RepeatsCredential(profile) PROVE ReadsBack(profile, m)
  <2>1. Parse(m) # Refused /\ Fingerprint(Parse(m)) = Fingerprint(profile) /\ Canonical(Parse(m)) = m
    BY <1>1, CanonicalSettles
  <2> HIDE DEF m, profile
  <2> QED BY <2>1 DEF ReadsBack
<1> HIDE DEF profile
<1>2. profile \in {Parse(l)} /\ profile # Refused
  BY DEF profile
<1> QED BY <1>1, <1>2 DEF ReadsAs

LEMMA OutboundsReadBack ==
  ASSUME NEW doc, IsOutbound(doc), HysteriaProfile(doc) # Refused
  PROVE  ReadsAs(Canonical(HysteriaProfile(doc)), Fingerprint(HysteriaProfile(doc)))
<1> DEFINE l == HysteriaLink(doc)
           p == ProtocolOf[l.scheme]
           profile == Parse(l)
           m == Canonical(profile)
           again == Parse(m)
<1>1. HysteriaProfile(doc) = profile /\ profile # Refused
  BY DEF HysteriaProfile
<1>2. IsLink(l) /\ p = "hysteria2"
  BY OutboundsAreLinks
<1>3. Acceptable(l, p, Data(p, l.query), Credential(p, l))
  BY <1>1, ParsedLink
<1>4. IsProfileOf(profile, l, p, Data(p, l.query), Credential(p, l))
  BY <1>3, AcceptedLink
<1> HIDE DEF p, l
<1>5. ~profile.readOnly /\ ~RepeatsCredential(profile)
  <2>1. profile.protocol = "hysteria2" /\ ~profile.readOnly
    BY <1>2, <1>4 DEF IsProfileOf
  <2> QED BY <2>1 DEF RepeatsCredential
<1>6. again # Refused /\ Fingerprint(again) = Fingerprint(profile) /\ Canonical(again) = m
  BY <1>1, <1>2, <1>5, CanonicalSettles
<1> HIDE DEF profile, again
<1>7. ReadsBack(again, m)
  BY <1>6 DEF ReadsBack, again
<1>8. again \in {Parse(m)}
  BY DEF again
<1> HIDE DEF m
<1>9. ReadsAs(m, Fingerprint(profile))
  BY <1>6, <1>7, <1>8 DEF ReadsAs
<1> QED BY <1>1, <1>9 DEF m

LEMMA KeysReadBack ==
  ASSUME NEW key \in FeedKeys, key.print # Unprinted
  PROVE  ReadsAs(key.url, key.print)
<1>1. PICK raw \in FeedTexts, n \in Nat : key = KeyAt(raw, n)
  BY DEF FeedKeys
<1>2. CASE raw \in FeedLinks
  <2>1. key = LinkKey(raw, n) /\ Parse(raw) # Refused
    BY <1>1, <1>2 DEF KeyAt, FeedTexts, Legible
  <2>2. key.url = raw /\ key.print = Fingerprint(Parse(raw))
    BY <2>1 DEF LinkKey, ProfileKey
  <2>3. IsLink(raw)
    BY <1>2, FeedsAssumption
  <2> QED BY <2>1, <2>2, <2>3, LinksReadBack
<1>3. CASE raw \notin FeedLinks
  <2>1. raw \in FeedDocuments /\ key = DocumentKey(raw, n)
    BY <1>1, <1>3 DEF KeyAt, FeedTexts
  <2>2. IsHysteria(raw)
    BY <2>1 DEF DocumentKey, LegacyKey
  <2>3. key = HysteriaKey(raw, n) /\ HysteriaProfile(raw) # Refused
    BY <2>1, <2>2 DEF DocumentKey, FeedTexts, Legible
  <2>4. key.url = Canonical(HysteriaProfile(raw)) /\ key.print = Fingerprint(HysteriaProfile(raw))
    BY <2>3 DEF HysteriaKey, ProfileKey
  <2>5. IsOutbound(raw)
    BY <2>1, FeedsAssumption
  <2> QED BY <2>3, <2>4, <2>5, OutboundsReadBack
<1> QED BY <1>2, <1>3

LEMMA StoredLinksSettle == FeedsInv => StoredLinkKeepsIdentity
<1> SUFFICES ASSUME FeedsInv, Shown # Failed, NEW key \in ToSet(Shown.keys), key.print # Unprinted
             PROVE  ReadsAs(key.url, key.print)
  BY DEF StoredLinkKeepsIdentity, ReadsAs
<1>1. IsResult(preview.of, Shown)
  BY ShownIsAResult
<1>2. Shown.keys \in Seq(FeedKeys)
  BY <1>1, ResultsHaveKeys
<1>3. key \in FeedKeys
  BY <1>2 DEF ToSet
<1> QED BY <1>3, KeysReadBack

\* The link stored for a key parses to the fingerprint the key is known by, its canonical link
\* parses to the same, and writing that one again changes nothing: a profile keeps its identity
\* through Serialize and Parse in every adapter (SemanticallyStable), whatever the link is, but
\* for a read-only profile, which has no canonical link, and a repeated TUIC credential.
THEOREM StoredLinksAreRead == FeedsSpec => []StoredLinkKeepsIdentity
<1>1. FeedsSpec => []FeedsInv
  BY FeedsInvariant
<1> QED BY <1>1, StoredLinksSettle, PTL

-----------------------------------------------------------------------------
(* SourceSync: workers, leases and published keys.                         *)

\* A worker that may still change what its source shows.
Pending == {"leased", "announcing", "fetching", "fetched", "reporting", "publishing"}

\* A worker that has not recorded its outcome.
Unfinished == Pending \cup {"queued", "marked", "opened", "located", "lost", "settling"}

\* Lease numbers in use are positive, issued, and held once.
LeasesIssued ==
    /\ \A j \in Jobs : pc[j] \in Leased => lease[j] > 0 /\ lease[j] <= sequence
    /\ \A j, k \in Jobs : pc[j] \in Leased /\ pc[k] \in Leased /\ lease[j] = lease[k] => j = k

\* App.mu is held from the check of a status write to its UPDATE.
CriticalSection ==
    \A j \in Jobs : pc[j] \in {"announcing", "publishing"} => mu = j /\ Owned(j)

\* The owner's result is not the one shown while it may still be published.
OwnerUnpublished ==
    \A j \in Jobs : pc[j] \in Pending /\ Owned(j) =>
        shown[jobSource[j]].fetch < newest[jobSource[j]]

\* What is shown was begun.
ShownBegan == \A s \in Sources : shown[s].fetch <= newest[s]

\* A job exists before its goroutine, and its source existed before the job.
JobsHaveSources ==
    \A j \in Jobs :
        /\ jobStatus[j] = "none" => pc[j] = "idle"
        /\ jobStatus[j] # "none" => status[jobSource[j]] # "absent"

\* A row has inputs.
RowsHaveInputs == \A s \in Sources : status[s] # "absent" => input[s] \in Inputs

\* Only the goroutine itself, at its end, or recovery ends a job.
OpenWhileServed ==
    \A j \in Jobs : pc[j] \in Unfinished => jobStatus[j] \in {"queued", "running"}

\* Nothing of the process survives it.
DownIsIdle == ~up => \A j \in Jobs : pc[j] \notin Busy

IInv ==
    /\ TypeOK
    /\ LeasesIssued
    /\ CriticalSection
    /\ OwnerIsNewest
    /\ ShownBegan
    /\ OwnerUnpublished
    /\ JobsHaveSources
    /\ RowsHaveInputs
    /\ OpenWhileServed
    /\ DownIsIdle

\* Every step of every operation keeps the types.
LEMMA TypeStep == ASSUME TypeOK, RowsHaveInputs, [Next]_vars PROVE TypeOK'
<1> USE DEF TypeOK, Inputs, Stored, Statuses, JobStatuses, RunStatuses, Leased, Busy, Places
<1>1. ASSUME NEW j \in Jobs, QueueSync(j) PROVE TypeOK'
  BY <1>1 DEF QueueSync, Queue, Goto, memVars, historyVars, boundVars
<1>2. ASSUME NEW j \in Jobs, NEW old \in Jobs, RetryJob(j, old) PROVE TypeOK'
  BY <1>2 DEF RetryJob, Queue, Goto, memVars, historyVars, boundVars
<1>3. ASSUME NEW j \in Jobs, Worker(j) PROVE TypeOK'
  <2>1. CASE MarkRunning(j)
    BY <2>1 DEF MarkRunning, Try, Goto, memVars, historyVars
  <2>2. CASE StartRun(j)
    BY <2>2 DEF StartRun, Try, Goto, memVars, historyVars
  <2>3. CASE ReadSource(j)
    <3>1. seen' \in [Jobs -> Inputs \cup {NoInput}]
      BY <2>3 DEF ReadSource, Live, RowsHaveInputs
    <3>2. PICK ok \in BOOLEAN : Try(ok) /\ (Goto(j, "located") \/ Goto(j, "lost"))
      BY <2>3 DEF ReadSource
    <3>3. pc' \in [Jobs -> Places]
      BY <3>2 DEF Goto
    <3>4. faults' \in Nat
      BY <3>2 DEF Try
    <3> QED BY <2>3, <3>1, <3>3, <3>4 DEF ReadSource, dbVars, memVars, historyVars
  <2>4. CASE BeginFetch(j)
    BY <2>4 DEF BeginFetch, NextSequence, Goto, dbVars, boundVars
  <2>5. CASE CheckSyncing(j)
    BY <2>5 DEF CheckSyncing, CheckStatus, ResetInvalidated, Try, Goto, historyVars
  <2>6. CASE WriteSyncing(j)
    <3>1. status' \in [Sources -> Statuses]
      BY <2>6 DEF WriteSyncing, WriteStatus, ResetInvalidated, TypeOK, Stored, Statuses
    <3>2. pc' \in [Jobs -> Places] /\ mu' \in Jobs \cup {NoJob} /\ faults' \in Nat
      BY <2>6 DEF WriteSyncing, WriteStatus, Try, Goto, TypeOK, Leased, Busy, Places
    <3> QED BY <2>6, <3>1, <3>2 DEF WriteSyncing, WriteStatus, historyVars, TypeOK
  <2>7. CASE Fetch(j)
    BY <2>7 DEF Fetch, Goto, dbVars, memVars, historyVars, boundVars
  <2>8. CASE SyncResult(j)
    <3>1. CASE Commit(j)
      <4>1. shown' \in [Sources -> [fetch : Nat, input : Inputs \cup {NoInput}]]
        BY <3>1 DEF Commit, TypeOK
      <4>2. status' \in [Sources -> Statuses] /\ committed' \subseteq Jobs /\ pc' \in [Jobs -> Places]
        BY <3>1 DEF Commit, Goto, TypeOK, Stored, Statuses, Leased, Busy, Places
      <4> QED BY <2>8, <4>1, <4>2 DEF SyncResult, memVars, boundVars, TypeOK
    <3>2. CASE Reject(j)
      BY <2>8, <3>2 DEF SyncResult, Reject, Goto, memVars, boundVars, TypeOK, Inputs, Stored,
         Statuses, JobStatuses, RunStatuses, Leased, Busy, Places
    <3> QED BY <2>8, <3>1, <3>2 DEF SyncResult
  <2>9. CASE CheckError(j)
    BY <2>9 DEF CheckError, CheckStatus, ResetInvalidated, Try, Goto, historyVars
  <2>10. CASE WriteError(j)
    <3>1. status' \in [Sources -> Statuses]
      BY <2>10 DEF WriteError, WriteStatus, ResetInvalidated, TypeOK, Stored, Statuses
    <3>2. pc' \in [Jobs -> Places] /\ mu' \in Jobs \cup {NoJob} /\ faults' \in Nat
      BY <2>10 DEF WriteError, WriteStatus, Try, Goto, TypeOK, Leased, Busy, Places
    <3> QED BY <2>10, <3>1, <3>2 DEF WriteError, WriteStatus, historyVars, TypeOK
  <2>11. CASE FinishJob(j)
    BY <2>11 DEF FinishJob, Outcome, Try, Goto, memVars, historyVars
  <2>12. CASE FinishRun(j)
    BY <2>12 DEF FinishRun, Outcome, Try, Goto, memVars, historyVars
  <2>13. CASE Release(j)
    BY <2>13 DEF Release, Goto, dbVars, historyVars, boundVars
  <2> QED BY <1>3, <2>1, <2>2, <2>3, <2>4, <2>5, <2>6, <2>7, <2>8, <2>9, <2>10, <2>11, <2>12,
     <2>13 DEF Worker
<1>4. ASSUME NEW s \in Sources, CreateSource(s) PROVE TypeOK'
  BY <1>4 DEF CreateSource, workerVars, memVars, historyVars, boundVars
<1>5. ASSUME NEW s \in Sources, DeleteSource(s) PROVE TypeOK'
  BY <1>5 DEF DeleteSource, Live, workerVars, memVars, historyVars, boundVars
<1>6. ASSUME NEW e \in Editors, ReadForEdit(e) PROVE TypeOK'
  <2>1. PICK s \in Sources, retain \in BOOLEAN :
           Live(s) /\ editor' = [editor EXCEPT ![e] = [source |-> s, secret |-> input[s].secret,
                                                  retain |-> retain]]
    BY <1>6 DEF ReadForEdit
  <2>2. input[s].secret \in Secrets
    BY <2>1 DEF RowsHaveInputs, Live, Stored, Inputs
  <2>3. editor' \in [Editors -> {NoEdit} \cup [source : Sources, secret : Secrets, retain : BOOLEAN]]
    BY <2>1, <2>2 DEF TypeOK
  <2> QED BY <1>6, <2>3 DEF ReadForEdit, dbVars, workerVars, memVars, historyVars, TypeOK
<1>7. ASSUME NEW e \in Editors, EditSource(e) PROVE TypeOK'
  BY <1>7 DEF EditSource, Live, workerVars, memVars, historyVars, boundVars
<1>8. CASE Crash
  <2>1. pc' \in [Jobs -> Places]
    BY <1>8 DEF Crash, TypeOK, Leased, Busy, Places
  <2>2. editor' \in [Editors -> {NoEdit} \cup [source : Sources, secret : Secrets, retain : BOOLEAN]]
    BY <1>8 DEF Crash
  <2>3. /\ owner' \in [Sources -> Nat] /\ sequence' \in Nat /\ mu' \in Jobs \cup {NoJob}
        /\ seen' \in [Jobs -> Inputs \cup {NoInput}]
        /\ lease' \in [Jobs -> Nat] /\ began' \in [Jobs -> Nat]
        /\ crashes' \in Nat
    BY <1>8 DEF Crash, TypeOK
  <2>4. up' \in BOOLEAN
    BY <1>8 DEF Crash
  <2> QED BY <1>8, <2>1, <2>2, <2>3, <2>4 DEF Crash, dbVars, historyVars, TypeOK
<1>9. CASE Restart
  BY <1>9 DEF Restart, RecoverJobs, RecoverRuns, RecoverSources, Try, workerVars, memVars,
     historyVars
<1>10. CASE Quiet
  BY <1>10 DEF Quiet, vars, dbVars, workerVars, memVars, historyVars, boundVars
<1>11. CASE UNCHANGED vars
  BY <1>11 DEF vars, dbVars, workerVars, memVars, historyVars, boundVars
<1> QED BY <1>1, <1>2, <1>3, <1>4, <1>5, <1>6, <1>7, <1>8, <1>9, <1>10, <1>11 DEF Next

\* A row always has inputs: creation gives them, edits replace them.
LEMMA RowsStep == ASSUME TypeOK, RowsHaveInputs, [Next]_vars PROVE RowsHaveInputs'
<1> USE DEF TypeOK, RowsHaveInputs, Live, Stored, Statuses
<1>1. ASSUME NEW j \in Jobs, QueueSync(j) PROVE RowsHaveInputs'
  BY <1>1 DEF QueueSync, Queue, Goto, memVars, historyVars, boundVars
<1>2. ASSUME NEW j \in Jobs, NEW old \in Jobs, RetryJob(j, old) PROVE RowsHaveInputs'
  BY <1>2 DEF RetryJob, Queue, Goto, memVars, historyVars, boundVars
<1>3. ASSUME NEW j \in Jobs, Worker(j) PROVE RowsHaveInputs'
  <2>1. CASE MarkRunning(j)
    BY <2>1 DEF MarkRunning, Try, Goto, memVars, historyVars
  <2>2. CASE StartRun(j)
    BY <2>2 DEF StartRun, Try, Goto, memVars, historyVars
  <2>3. CASE ReadSource(j)
    BY <2>3 DEF ReadSource, Try, Goto, dbVars, memVars, historyVars
  <2>4. CASE BeginFetch(j)
    BY <2>4 DEF BeginFetch, NextSequence, Goto, dbVars, boundVars
  <2>5. CASE CheckSyncing(j)
    BY <2>5 DEF CheckSyncing, CheckStatus, ResetInvalidated, Try, Goto, historyVars
  <2>6. CASE WriteSyncing(j)
    BY <2>6 DEF WriteSyncing, WriteStatus, ResetInvalidated, Try, Goto, historyVars
  <2>7. CASE Fetch(j)
    BY <2>7 DEF Fetch, Goto, dbVars, memVars, historyVars, boundVars
  <2>8. CASE SyncResult(j)
    BY <2>8 DEF SyncResult, Commit, Reject, Goto, memVars, boundVars
  <2>9. CASE CheckError(j)
    BY <2>9 DEF CheckError, CheckStatus, ResetInvalidated, Try, Goto, historyVars
  <2>10. CASE WriteError(j)
    BY <2>10 DEF WriteError, WriteStatus, ResetInvalidated, Try, Goto, historyVars
  <2>11. CASE FinishJob(j)
    BY <2>11 DEF FinishJob, Outcome, Try, Goto, memVars, historyVars
  <2>12. CASE FinishRun(j)
    BY <2>12 DEF FinishRun, Outcome, Try, Goto, memVars, historyVars
  <2>13. CASE Release(j)
    BY <2>13 DEF Release, Owned, Goto, dbVars, historyVars, boundVars
  <2> QED BY <1>3, <2>1, <2>2, <2>3, <2>4, <2>5, <2>6, <2>7, <2>8, <2>9, <2>10, <2>11, <2>12,
     <2>13 DEF Worker
<1>4. ASSUME NEW s \in Sources, CreateSource(s) PROVE RowsHaveInputs'
  BY <1>4 DEF CreateSource, workerVars, memVars, historyVars, boundVars
<1>5. ASSUME NEW s \in Sources, DeleteSource(s) PROVE RowsHaveInputs'
  BY <1>5 DEF DeleteSource, workerVars, memVars, historyVars, boundVars
<1>6. ASSUME NEW e \in Editors, ReadForEdit(e) PROVE RowsHaveInputs'
  BY <1>6 DEF ReadForEdit, dbVars, workerVars, memVars, historyVars
<1>7. ASSUME NEW e \in Editors, EditSource(e) PROVE RowsHaveInputs'
  BY <1>7 DEF EditSource, workerVars, memVars, historyVars, boundVars
<1>8. CASE Crash
  BY <1>8 DEF Crash, dbVars, historyVars
<1>9. CASE Restart
  BY <1>9 DEF Restart, RecoverJobs, RecoverRuns, RecoverSources, workerVars, memVars,
     historyVars
<1>10. CASE Quiet
  BY <1>10 DEF Quiet, vars, dbVars, workerVars, memVars, historyVars, boundVars
<1>11. CASE UNCHANGED vars
  BY <1>11 DEF vars, dbVars, workerVars, memVars, historyVars, boundVars
<1> QED BY <1>1, <1>2, <1>3, <1>4, <1>5, <1>6, <1>7, <1>8, <1>9, <1>10, <1>11 DEF Next

\* The crash ends every goroutine and none starts before the restart.
LEMMA DownStep == ASSUME TypeOK, DownIsIdle, [Next]_vars PROVE DownIsIdle'
<1> USE DEF TypeOK, DownIsIdle, Leased, Busy, Places
<1>1. ASSUME NEW j \in Jobs, QueueSync(j) PROVE DownIsIdle'
  BY <1>1 DEF QueueSync, Queue, Goto, Live, memVars, historyVars, boundVars
<1>2. ASSUME NEW j \in Jobs, NEW old \in Jobs, RetryJob(j, old) PROVE DownIsIdle'
  BY <1>2 DEF RetryJob, Queue, Goto, memVars, historyVars, boundVars
<1>3. ASSUME NEW j \in Jobs, Worker(j) PROVE DownIsIdle'
  <2>1. CASE MarkRunning(j)
    BY <2>1 DEF MarkRunning, Try, Goto, memVars, historyVars
  <2>2. CASE StartRun(j)
    BY <2>2 DEF StartRun, Try, Goto, memVars, historyVars
  <2>3. CASE ReadSource(j)
    BY <2>3 DEF ReadSource, Try, Goto, dbVars, memVars, historyVars
  <2>4. CASE BeginFetch(j)
    BY <2>4 DEF BeginFetch, NextSequence, Goto, dbVars, boundVars
  <2>5. CASE CheckSyncing(j)
    BY <2>5 DEF CheckSyncing, CheckStatus, ResetInvalidated, Try, Goto, historyVars
  <2>6. CASE WriteSyncing(j)
    BY <2>6 DEF WriteSyncing, WriteStatus, ResetInvalidated, Try, Goto, historyVars
  <2>7. CASE Fetch(j)
    BY <2>7 DEF Fetch, Goto, dbVars, memVars, historyVars, boundVars
  <2>8. CASE SyncResult(j)
    BY <2>8 DEF SyncResult, Commit, Reject, Goto, memVars, boundVars
  <2>9. CASE CheckError(j)
    BY <2>9 DEF CheckError, CheckStatus, ResetInvalidated, Try, Goto, historyVars
  <2>10. CASE WriteError(j)
    BY <2>10 DEF WriteError, WriteStatus, ResetInvalidated, Try, Goto, historyVars
  <2>11. CASE FinishJob(j)
    BY <2>11 DEF FinishJob, Outcome, Try, Goto, memVars, historyVars
  <2>12. CASE FinishRun(j)
    BY <2>12 DEF FinishRun, Outcome, Try, Goto, memVars, historyVars
  <2>13. CASE Release(j)
    BY <2>13 DEF Release, Owned, Goto, dbVars, historyVars, boundVars
  <2> QED BY <1>3, <2>1, <2>2, <2>3, <2>4, <2>5, <2>6, <2>7, <2>8, <2>9, <2>10, <2>11, <2>12,
     <2>13 DEF Worker
<1>4. ASSUME NEW s \in Sources, CreateSource(s) PROVE DownIsIdle'
  BY <1>4 DEF CreateSource, workerVars, memVars, historyVars, boundVars
<1>5. ASSUME NEW s \in Sources, DeleteSource(s) PROVE DownIsIdle'
  BY <1>5 DEF DeleteSource, Live, workerVars, memVars, historyVars, boundVars
<1>6. ASSUME NEW e \in Editors, ReadForEdit(e) PROVE DownIsIdle'
  BY <1>6 DEF ReadForEdit, dbVars, workerVars, memVars, historyVars
<1>7. ASSUME NEW e \in Editors, EditSource(e) PROVE DownIsIdle'
  BY <1>7 DEF EditSource, workerVars, memVars, historyVars, boundVars
<1>8. CASE Crash
  BY <1>8 DEF Crash, dbVars, historyVars
<1>9. CASE Restart
  BY <1>9 DEF Restart, RecoverJobs, RecoverRuns, RecoverSources, workerVars, memVars,
     historyVars
<1>10. CASE Quiet
  BY <1>10 DEF Quiet, vars, dbVars, workerVars, memVars, historyVars, boundVars
<1>11. CASE UNCHANGED vars
  BY <1>11 DEF vars, dbVars, workerVars, memVars, historyVars, boundVars
<1> QED BY <1>1, <1>2, <1>3, <1>4, <1>5, <1>6, <1>7, <1>8, <1>9, <1>10, <1>11 DEF Next

\* A job is queued with the id of a source that exists, and ids stay used.
LEMMA SourcesStep == ASSUME TypeOK, JobsHaveSources, [Next]_vars PROVE JobsHaveSources'
<1> USE DEF TypeOK, JobsHaveSources, Live, Stored, Statuses, Leased, Busy, Places
<1>1. ASSUME NEW j \in Jobs, QueueSync(j) PROVE JobsHaveSources'
  BY <1>1 DEF QueueSync, Queue, Goto, memVars, historyVars, boundVars
<1>2. ASSUME NEW j \in Jobs, NEW old \in Jobs, RetryJob(j, old) PROVE JobsHaveSources'
  BY <1>2 DEF RetryJob, Queue, Goto, memVars, historyVars, boundVars
<1>3. ASSUME NEW j \in Jobs, Worker(j) PROVE JobsHaveSources'
  <2>1. CASE MarkRunning(j)
    BY <2>1 DEF MarkRunning, Try, Goto, memVars, historyVars
  <2>2. CASE StartRun(j)
    BY <2>2 DEF StartRun, Try, Goto, memVars, historyVars
  <2>3. CASE ReadSource(j)
    BY <2>3 DEF ReadSource, Try, Goto, dbVars, memVars, historyVars
  <2>4. CASE BeginFetch(j)
    BY <2>4 DEF BeginFetch, NextSequence, Goto, dbVars, boundVars
  <2>5. CASE CheckSyncing(j)
    BY <2>5 DEF CheckSyncing, CheckStatus, ResetInvalidated, Try, Goto, historyVars
  <2>6. CASE WriteSyncing(j)
    BY <2>6 DEF WriteSyncing, WriteStatus, ResetInvalidated, Try, Goto, historyVars
  <2>7. CASE Fetch(j)
    BY <2>7 DEF Fetch, Goto, dbVars, memVars, historyVars, boundVars
  <2>8. CASE SyncResult(j)
    BY <2>8 DEF SyncResult, Commit, Reject, Goto, memVars, boundVars
  <2>9. CASE CheckError(j)
    BY <2>9 DEF CheckError, CheckStatus, ResetInvalidated, Try, Goto, historyVars
  <2>10. CASE WriteError(j)
    BY <2>10 DEF WriteError, WriteStatus, ResetInvalidated, Try, Goto, historyVars
  <2>11. CASE FinishJob(j)
    BY <2>11 DEF FinishJob, Outcome, Try, Goto, memVars, historyVars
  <2>12. CASE FinishRun(j)
    BY <2>12 DEF FinishRun, Outcome, Try, Goto, memVars, historyVars
  <2>13. CASE Release(j)
    BY <2>13 DEF Release, Owned, Goto, dbVars, historyVars, boundVars
  <2> QED BY <1>3, <2>1, <2>2, <2>3, <2>4, <2>5, <2>6, <2>7, <2>8, <2>9, <2>10, <2>11, <2>12,
     <2>13 DEF Worker
<1>4. ASSUME NEW s \in Sources, CreateSource(s) PROVE JobsHaveSources'
  BY <1>4 DEF CreateSource, workerVars, memVars, historyVars, boundVars
<1>5. ASSUME NEW s \in Sources, DeleteSource(s) PROVE JobsHaveSources'
  BY <1>5 DEF DeleteSource, workerVars, memVars, historyVars, boundVars
<1>6. ASSUME NEW e \in Editors, ReadForEdit(e) PROVE JobsHaveSources'
  BY <1>6 DEF ReadForEdit, dbVars, workerVars, memVars, historyVars
<1>7. ASSUME NEW e \in Editors, EditSource(e) PROVE JobsHaveSources'
  BY <1>7 DEF EditSource, workerVars, memVars, historyVars, boundVars
<1>8. CASE Crash
  BY <1>8 DEF Crash, dbVars, historyVars
<1>9. CASE Restart
  <2>1. jobSource' = jobSource /\ pc' = pc
    BY <1>9 DEF Restart, workerVars
  <2>2. \A j \in Jobs : jobStatus'[j] = "none" <=> jobStatus[j] = "none"
    BY <1>9 DEF Restart, RecoverJobs
  <2>3. \A s \in Sources : status'[s] = "absent" => status[s] = "absent"
    BY <1>9 DEF Restart, RecoverSources
  <2> QED BY <2>1, <2>2, <2>3 DEF JobsHaveSources, TypeOK
<1>10. CASE Quiet
  BY <1>10 DEF Quiet, vars, dbVars, workerVars, memVars, historyVars, boundVars
<1>11. CASE UNCHANGED vars
  BY <1>11 DEF vars, dbVars, workerVars, memVars, historyVars, boundVars
<1> QED BY <1>1, <1>2, <1>3, <1>4, <1>5, <1>6, <1>7, <1>8, <1>9, <1>10, <1>11 DEF Next

\* Only its own FinishJob or a recovery ends a job.
LEMMA OpenStep == ASSUME TypeOK, DownIsIdle, JobsHaveSources, OpenWhileServed, [Next]_vars PROVE
   OpenWhileServed'
<1> USE DEF TypeOK, DownIsIdle, JobsHaveSources, OpenWhileServed, Unfinished, Pending, Leased,
   Busy, Places
<1>1. ASSUME NEW j \in Jobs, QueueSync(j) PROVE OpenWhileServed'
  BY <1>1 DEF QueueSync, Queue, Goto, Live, memVars, historyVars, boundVars
<1>2. ASSUME NEW j \in Jobs, NEW old \in Jobs, RetryJob(j, old) PROVE OpenWhileServed'
  BY <1>2 DEF RetryJob, Queue, Goto, memVars, historyVars, boundVars
<1>3. ASSUME NEW j \in Jobs, Worker(j) PROVE OpenWhileServed'
  <2>1. CASE MarkRunning(j)
    BY <2>1 DEF MarkRunning, Try, Goto, memVars, historyVars
  <2>2. CASE StartRun(j)
    BY <2>2 DEF StartRun, Try, Goto, memVars, historyVars
  <2>3. CASE ReadSource(j)
    BY <2>3 DEF ReadSource, Try, Goto, dbVars, memVars, historyVars
  <2>4. CASE BeginFetch(j)
    BY <2>4 DEF BeginFetch, NextSequence, Goto, dbVars, boundVars
  <2>5. CASE CheckSyncing(j)
    BY <2>5 DEF CheckSyncing, CheckStatus, ResetInvalidated, Try, Goto, historyVars
  <2>6. CASE WriteSyncing(j)
    BY <2>6 DEF WriteSyncing, WriteStatus, ResetInvalidated, Try, Goto, historyVars
  <2>7. CASE Fetch(j)
    BY <2>7 DEF Fetch, Goto, dbVars, memVars, historyVars, boundVars
  <2>8. CASE SyncResult(j)
    BY <2>8 DEF SyncResult, Commit, Reject, Goto, memVars, boundVars
  <2>9. CASE CheckError(j)
    BY <2>9 DEF CheckError, CheckStatus, ResetInvalidated, Try, Goto, historyVars
  <2>10. CASE WriteError(j)
    BY <2>10 DEF WriteError, WriteStatus, ResetInvalidated, Try, Goto, historyVars
  <2>11. CASE FinishJob(j)
    BY <2>11 DEF FinishJob, Outcome, Try, Goto, memVars, historyVars
  <2>12. CASE FinishRun(j)
    BY <2>12 DEF FinishRun, Outcome, Try, Goto, memVars, historyVars
  <2>13. CASE Release(j)
    BY <2>13 DEF Release, Owned, Goto, dbVars, historyVars, boundVars
  <2> QED BY <1>3, <2>1, <2>2, <2>3, <2>4, <2>5, <2>6, <2>7, <2>8, <2>9, <2>10, <2>11, <2>12,
     <2>13 DEF Worker
<1>4. ASSUME NEW s \in Sources, CreateSource(s) PROVE OpenWhileServed'
  BY <1>4 DEF CreateSource, workerVars, memVars, historyVars, boundVars
<1>5. ASSUME NEW s \in Sources, DeleteSource(s) PROVE OpenWhileServed'
  BY <1>5 DEF DeleteSource, Live, workerVars, memVars, historyVars, boundVars
<1>6. ASSUME NEW e \in Editors, ReadForEdit(e) PROVE OpenWhileServed'
  BY <1>6 DEF ReadForEdit, dbVars, workerVars, memVars, historyVars
<1>7. ASSUME NEW e \in Editors, EditSource(e) PROVE OpenWhileServed'
  BY <1>7 DEF EditSource, workerVars, memVars, historyVars, boundVars
<1>8. CASE Crash
  BY <1>8 DEF Crash, dbVars, historyVars
<1>9. CASE Restart
  BY <1>9 DEF Restart, RecoverJobs, RecoverRuns, RecoverSources, workerVars, memVars,
     historyVars
<1>10. CASE Quiet
  BY <1>10 DEF Quiet, vars, dbVars, workerVars, memVars, historyVars, boundVars
<1>11. CASE UNCHANGED vars
  BY <1>11 DEF vars, dbVars, workerVars, memVars, historyVars, boundVars
<1> QED BY <1>1, <1>2, <1>3, <1>4, <1>5, <1>6, <1>7, <1>8, <1>9, <1>10, <1>11 DEF Next

\* Only a fetch that began is published, by its owner.
LEMMA ShownStep == ASSUME TypeOK, OwnerIsNewest, ShownBegan, [Next]_vars PROVE ShownBegan'
<1> USE DEF TypeOK, OwnerIsNewest, ShownBegan, Owned, Leased, Busy, Places
<1>1. ASSUME NEW j \in Jobs, QueueSync(j) PROVE ShownBegan'
  BY <1>1 DEF QueueSync, Queue, Goto, Live, memVars, historyVars, boundVars
<1>2. ASSUME NEW j \in Jobs, NEW old \in Jobs, RetryJob(j, old) PROVE ShownBegan'
  BY <1>2 DEF RetryJob, Queue, Goto, memVars, historyVars, boundVars
<1>3. ASSUME NEW j \in Jobs, Worker(j) PROVE ShownBegan'
  <2>1. CASE MarkRunning(j)
    BY <2>1 DEF MarkRunning, Try, Goto, memVars, historyVars
  <2>2. CASE StartRun(j)
    BY <2>2 DEF StartRun, Try, Goto, memVars, historyVars
  <2>3. CASE ReadSource(j)
    BY <2>3 DEF ReadSource, Try, Goto, dbVars, memVars, historyVars
  <2>4. CASE BeginFetch(j)
    BY <2>4 DEF BeginFetch, NextSequence, Goto, dbVars, boundVars
  <2>5. CASE CheckSyncing(j)
    <3>1. UNCHANGED <<shown, newest>>
      BY <2>5 DEF CheckSyncing, CheckStatus, historyVars
    <3> QED BY <3>1
  <2>6. CASE WriteSyncing(j)
    <3>1. UNCHANGED <<shown, newest>>
      BY <2>6 DEF WriteSyncing, WriteStatus, historyVars
    <3> QED BY <3>1
  <2>7. CASE Fetch(j)
    BY <2>7 DEF Fetch, Goto, dbVars, memVars, historyVars, boundVars
  <2>8. CASE SyncResult(j)
    <3>1. newest' = newest
      BY <2>8 DEF SyncResult
    <3>2. CASE Commit(j)
      <4>1. shown' = [shown EXCEPT ![jobSource[j]] = [fetch |-> began[j], input |-> seen[j]]]
        BY <3>2 DEF Commit
      <4>2. pc[j] \in Leased /\ Owned(j)
        BY <2>8, <3>2 DEF SyncResult, Commit
      <4>3. began[j] <= newest[jobSource[j]]
        BY <4>2
      <4> QED BY <3>1, <4>1, <4>3
    <3>3. CASE Reject(j)
      <4>1. UNCHANGED <<shown, newest>>
        BY <3>1, <3>3 DEF Reject
      <4> QED BY <4>1
    <3> QED BY <2>8, <3>2, <3>3 DEF SyncResult
  <2>9. CASE CheckError(j)
    <3>1. UNCHANGED <<shown, newest>>
      BY <2>9 DEF CheckError, CheckStatus, historyVars
    <3> QED BY <3>1
  <2>10. CASE WriteError(j)
    <3>1. UNCHANGED <<shown, newest>>
      BY <2>10 DEF WriteError, WriteStatus, historyVars
    <3> QED BY <3>1
  <2>11. CASE FinishJob(j)
    BY <2>11 DEF FinishJob, Outcome, Try, Goto, memVars, historyVars
  <2>12. CASE FinishRun(j)
    BY <2>12 DEF FinishRun, Outcome, Try, Goto, memVars, historyVars
  <2>13. CASE Release(j)
    BY <2>13 DEF Release, Goto, dbVars, historyVars, boundVars
  <2> QED BY <1>3, <2>1, <2>2, <2>3, <2>4, <2>5, <2>6, <2>7, <2>8, <2>9, <2>10, <2>11, <2>12,
     <2>13 DEF Worker
<1>4. ASSUME NEW s \in Sources, CreateSource(s) PROVE ShownBegan'
  BY <1>4 DEF CreateSource, workerVars, memVars, historyVars, boundVars
<1>5. ASSUME NEW s \in Sources, DeleteSource(s) PROVE ShownBegan'
  BY <1>5 DEF DeleteSource, Live, workerVars, memVars, historyVars, boundVars
<1>6. ASSUME NEW e \in Editors, ReadForEdit(e) PROVE ShownBegan'
  BY <1>6 DEF ReadForEdit, dbVars, workerVars, memVars, historyVars
<1>7. ASSUME NEW e \in Editors, EditSource(e) PROVE ShownBegan'
  BY <1>7 DEF EditSource, workerVars, memVars, historyVars, boundVars
<1>8. CASE Crash
  BY <1>8 DEF Crash, dbVars, historyVars
<1>9. CASE Restart
  BY <1>9 DEF Restart, RecoverJobs, RecoverRuns, RecoverSources, workerVars, memVars,
     historyVars
<1>10. CASE Quiet
  BY <1>10 DEF Quiet, vars, dbVars, workerVars, memVars, historyVars, boundVars
<1>11. CASE UNCHANGED vars
  BY <1>11 DEF vars, dbVars, workerVars, memVars, historyVars, boundVars
<1> QED BY <1>1, <1>2, <1>3, <1>4, <1>5, <1>6, <1>7, <1>8, <1>9, <1>10, <1>11 DEF Next

\* Lease numbers are issued in increasing order and used once.
LEMMA LeasesStep == ASSUME TypeOK, DownIsIdle, LeasesIssued, CriticalSection, JobsHaveSources,
   [Next]_vars PROVE LeasesIssued'
<1> USE DEF TypeOK, DownIsIdle, LeasesIssued, JobsHaveSources, Leased, Busy, Places
<1>1. ASSUME NEW j \in Jobs, QueueSync(j) PROVE LeasesIssued'
  BY <1>1 DEF QueueSync, Queue, Goto, Live, memVars, historyVars, boundVars
<1>2. ASSUME NEW j \in Jobs, NEW old \in Jobs, RetryJob(j, old) PROVE LeasesIssued'
  BY <1>2 DEF RetryJob, Queue, Goto, memVars, historyVars, boundVars
<1>3. ASSUME NEW j \in Jobs, Worker(j) PROVE LeasesIssued'
  <2>1. CASE MarkRunning(j)
    BY <2>1 DEF MarkRunning, Try, Goto, memVars, historyVars
  <2>2. CASE StartRun(j)
    BY <2>2 DEF StartRun, Try, Goto, memVars, historyVars
  <2>3. CASE ReadSource(j)
    <3>1. \A k \in Jobs : pc'[k] \in Leased => pc[k] \in Leased
      BY <2>3 DEF ReadSource, Goto, memVars, TypeOK, Leased
    <3>2. lease' = lease /\ sequence' = sequence
      BY <2>3 DEF ReadSource, Goto, memVars
    <3> QED BY <3>1, <3>2 DEF LeasesIssued
  <2>4. CASE BeginFetch(j)
    BY <2>4 DEF BeginFetch, NextSequence, Goto, dbVars, boundVars
  <2>5. CASE CheckSyncing(j)
    <3>1. \A k \in Jobs : pc'[k] \in Leased => pc[k] \in Leased
      BY <2>5 DEF CheckSyncing, CheckStatus, Goto, TypeOK, Leased
    <3>2. lease' = lease /\ sequence' = sequence
      BY <2>5 DEF CheckSyncing, CheckStatus, Goto
    <3> QED BY <3>1, <3>2 DEF LeasesIssued
  <2>6. CASE WriteSyncing(j)
    BY <2>6 DEF WriteSyncing, WriteStatus, ResetInvalidated, Try, Goto, historyVars
  <2>7. CASE Fetch(j)
    BY <2>7 DEF Fetch, Goto, dbVars, memVars, historyVars, boundVars
  <2>8. CASE SyncResult(j)
    <3>1. \A k \in Jobs : pc'[k] \in Leased => pc[k] \in Leased
      BY <2>8 DEF SyncResult, Commit, Reject, Goto, memVars, TypeOK, Leased
    <3>2. lease' = lease /\ sequence' = sequence
      BY <2>8 DEF SyncResult, Commit, Reject, Goto, memVars
    <3> QED BY <3>1, <3>2 DEF LeasesIssued
  <2>9. CASE CheckError(j)
    <3>1. \A k \in Jobs : pc'[k] \in Leased => pc[k] \in Leased
      BY <2>9 DEF CheckError, CheckStatus, Goto, TypeOK, Leased
    <3>2. lease' = lease /\ sequence' = sequence
      BY <2>9 DEF CheckError, CheckStatus, Goto
    <3> QED BY <3>1, <3>2 DEF LeasesIssued
  <2>10. CASE WriteError(j)
    BY <2>10 DEF WriteError, WriteStatus, ResetInvalidated, Try, Goto, historyVars
  <2>11. CASE FinishJob(j)
    BY <2>11 DEF FinishJob, Outcome, Try, Goto, memVars, historyVars
  <2>12. CASE FinishRun(j)
    BY <2>12 DEF FinishRun, Outcome, Try, Goto, memVars, historyVars
  <2>13. CASE Release(j)
    BY <2>13 DEF Release, Owned, Goto, dbVars, historyVars, boundVars
  <2> QED BY <1>3, <2>1, <2>2, <2>3, <2>4, <2>5, <2>6, <2>7, <2>8, <2>9, <2>10, <2>11, <2>12,
     <2>13 DEF Worker
<1>4. ASSUME NEW s \in Sources, CreateSource(s) PROVE LeasesIssued'
  BY <1>4 DEF CreateSource, workerVars, memVars, historyVars, boundVars
<1>5. ASSUME NEW s \in Sources, DeleteSource(s) PROVE LeasesIssued'
  BY <1>5 DEF DeleteSource, Live, workerVars, memVars, historyVars, boundVars
<1>6. ASSUME NEW e \in Editors, ReadForEdit(e) PROVE LeasesIssued'
  BY <1>6 DEF ReadForEdit, dbVars, workerVars, memVars, historyVars
<1>7. ASSUME NEW e \in Editors, EditSource(e) PROVE LeasesIssued'
  BY <1>7 DEF EditSource, workerVars, memVars, historyVars, boundVars
<1>8. CASE Crash
  BY <1>8 DEF Crash, dbVars, historyVars
<1>9. CASE Restart
  BY <1>9 DEF Restart, RecoverJobs, RecoverRuns, RecoverSources, workerVars, memVars,
     historyVars
<1>10. CASE Quiet
  BY <1>10 DEF Quiet, vars, dbVars, workerVars, memVars, historyVars, boundVars
<1>11. CASE UNCHANGED vars
  BY <1>11 DEF vars, dbVars, workerVars, memVars, historyVars, boundVars
<1> QED BY <1>1, <1>2, <1>3, <1>4, <1>5, <1>6, <1>7, <1>8, <1>9, <1>10, <1>11 DEF Next

\* Nobody takes the lease between the two statements of a status write.
LEMMA CriticalStep == ASSUME TypeOK, DownIsIdle, LeasesIssued, CriticalSection, JobsHaveSources,
   [Next]_vars PROVE CriticalSection'
<1> USE DEF TypeOK, DownIsIdle, LeasesIssued, CriticalSection, JobsHaveSources, Owned, Leased,
   Busy, Places
<1>1. ASSUME NEW j \in Jobs, QueueSync(j) PROVE CriticalSection'
  BY <1>1 DEF QueueSync, Queue, Goto, Live, memVars, historyVars, boundVars
<1>2. ASSUME NEW j \in Jobs, NEW old \in Jobs, RetryJob(j, old) PROVE CriticalSection'
  BY <1>2 DEF RetryJob, Queue, Goto, memVars, historyVars, boundVars
<1>3. ASSUME NEW j \in Jobs, Worker(j) PROVE CriticalSection'
  <2>1. CASE MarkRunning(j)
    BY <2>1 DEF MarkRunning, Try, Goto, memVars, historyVars
  <2>2. CASE StartRun(j)
    BY <2>2 DEF StartRun, Try, Goto, memVars, historyVars
  <2>3. CASE ReadSource(j)
    BY <2>3 DEF ReadSource, Try, Goto, dbVars, memVars, historyVars
  <2>4. CASE BeginFetch(j)
    <3>1. \A k \in Jobs : pc[k] \notin {"announcing", "publishing"}
      BY <2>4, NobodyAssumption DEF BeginFetch, CriticalSection
    <3>2. \A k \in Jobs : pc'[k] \notin {"announcing", "publishing"}
      BY <2>4, <3>1 DEF BeginFetch, Goto, TypeOK
    <3> QED BY <3>2 DEF CriticalSection
  <2>5. CASE CheckSyncing(j)
    <3>1. lease' = lease /\ owner' = owner /\ jobSource' = jobSource
      BY <2>5 DEF CheckSyncing, CheckStatus
    <3>2. \A k \in Jobs : pc[k] \notin {"announcing", "publishing"}
      BY <2>5, NobodyAssumption DEF CheckSyncing, CheckStatus, CriticalSection
    <3>3. \A k \in Jobs : pc'[k] \in {"announcing", "publishing"} => k = j /\ mu' = j /\
       Owned(j)
      BY <2>5, <3>2 DEF CheckSyncing, CheckStatus, Goto, TypeOK
    <3> QED BY <3>1, <3>3 DEF CriticalSection, Owned
  <2>6. CASE WriteSyncing(j)
    BY <2>6 DEF WriteSyncing, WriteStatus, ResetInvalidated, Try, Goto, historyVars
  <2>7. CASE Fetch(j)
    BY <2>7 DEF Fetch, Goto, dbVars, memVars, historyVars, boundVars
  <2>8. CASE SyncResult(j)
    BY <2>8 DEF SyncResult, Commit, Reject, Goto, memVars, boundVars
  <2>9. CASE CheckError(j)
    <3>1. lease' = lease /\ owner' = owner /\ jobSource' = jobSource
      BY <2>9 DEF CheckError, CheckStatus
    <3>2. \A k \in Jobs : pc[k] \notin {"announcing", "publishing"}
      BY <2>9, NobodyAssumption DEF CheckError, CheckStatus, CriticalSection
    <3>3. \A k \in Jobs : pc'[k] \in {"announcing", "publishing"} => k = j /\ mu' = j /\
       Owned(j)
      BY <2>9, <3>2 DEF CheckError, CheckStatus, Goto, TypeOK
    <3> QED BY <3>1, <3>3 DEF CriticalSection, Owned
  <2>10. CASE WriteError(j)
    BY <2>10 DEF WriteError, WriteStatus, ResetInvalidated, Try, Goto, historyVars
  <2>11. CASE FinishJob(j)
    BY <2>11 DEF FinishJob, Outcome, Try, Goto, memVars, historyVars
  <2>12. CASE FinishRun(j)
    BY <2>12 DEF FinishRun, Outcome, Try, Goto, memVars, historyVars
  <2>13. CASE Release(j)
    BY <2>13 DEF Release, Goto, dbVars, historyVars, boundVars
  <2> QED BY <1>3, <2>1, <2>2, <2>3, <2>4, <2>5, <2>6, <2>7, <2>8, <2>9, <2>10, <2>11, <2>12,
     <2>13 DEF Worker
<1>4. ASSUME NEW s \in Sources, CreateSource(s) PROVE CriticalSection'
  BY <1>4 DEF CreateSource, workerVars, memVars, historyVars, boundVars
<1>5. ASSUME NEW s \in Sources, DeleteSource(s) PROVE CriticalSection'
  BY <1>5 DEF DeleteSource, Live, workerVars, memVars, historyVars, boundVars
<1>6. ASSUME NEW e \in Editors, ReadForEdit(e) PROVE CriticalSection'
  BY <1>6 DEF ReadForEdit, dbVars, workerVars, memVars, historyVars
<1>7. ASSUME NEW e \in Editors, EditSource(e) PROVE CriticalSection'
  BY <1>7 DEF EditSource, workerVars, memVars, historyVars, boundVars
<1>8. CASE Crash
  BY <1>8 DEF Crash, dbVars, historyVars
<1>9. CASE Restart
  BY <1>9 DEF Restart, RecoverJobs, RecoverRuns, RecoverSources, workerVars, memVars,
     historyVars
<1>10. CASE Quiet
  BY <1>10 DEF Quiet, vars, dbVars, workerVars, memVars, historyVars, boundVars
<1>11. CASE UNCHANGED vars
  BY <1>11 DEF vars, dbVars, workerVars, memVars, historyVars, boundVars
<1> QED BY <1>1, <1>2, <1>3, <1>4, <1>5, <1>6, <1>7, <1>8, <1>9, <1>10, <1>11 DEF Next

\* A lease taken later has the newer fetch, and no number comes back.
LEMMA OwnerStep == ASSUME TypeOK, DownIsIdle, LeasesIssued, CriticalSection, JobsHaveSources,
   OwnerIsNewest, [Next]_vars PROVE OwnerIsNewest'
<1> USE DEF TypeOK, DownIsIdle, LeasesIssued, JobsHaveSources, OwnerIsNewest, Owned, Leased,
   Busy, Places
<1>1. ASSUME NEW j \in Jobs, QueueSync(j) PROVE OwnerIsNewest'
  BY <1>1 DEF QueueSync, Queue, Goto, Live, memVars, historyVars, boundVars
<1>2. ASSUME NEW j \in Jobs, NEW old \in Jobs, RetryJob(j, old) PROVE OwnerIsNewest'
  BY <1>2 DEF RetryJob, Queue, Goto, memVars, historyVars, boundVars
<1>3. ASSUME NEW j \in Jobs, Worker(j) PROVE OwnerIsNewest'
  <2>1. CASE MarkRunning(j)
    BY <2>1 DEF MarkRunning, Try, Goto, memVars, historyVars
  <2>2. CASE StartRun(j)
    BY <2>2 DEF StartRun, Try, Goto, memVars, historyVars
  <2>3. CASE ReadSource(j)
    BY <2>3 DEF ReadSource, Try, Goto, dbVars, memVars, historyVars
  <2>4. CASE BeginFetch(j)
    BY <2>4 DEF BeginFetch, NextSequence, Goto, dbVars, boundVars
  <2>5. CASE CheckSyncing(j)
    BY <2>5 DEF CheckSyncing, CheckStatus, ResetInvalidated, Try, Goto, historyVars
  <2>6. CASE WriteSyncing(j)
    BY <2>6 DEF WriteSyncing, WriteStatus, ResetInvalidated, Try, Goto, historyVars
  <2>7. CASE Fetch(j)
    BY <2>7 DEF Fetch, Goto, dbVars, memVars, historyVars, boundVars
  <2>8. CASE SyncResult(j)
    BY <2>8 DEF SyncResult, Commit, Reject, Goto, memVars, boundVars
  <2>9. CASE CheckError(j)
    BY <2>9 DEF CheckError, CheckStatus, ResetInvalidated, Try, Goto, historyVars
  <2>10. CASE WriteError(j)
    BY <2>10 DEF WriteError, WriteStatus, ResetInvalidated, Try, Goto, historyVars
  <2>11. CASE FinishJob(j)
    BY <2>11 DEF FinishJob, Outcome, Try, Goto, memVars, historyVars
  <2>12. CASE FinishRun(j)
    BY <2>12 DEF FinishRun, Outcome, Try, Goto, memVars, historyVars
  <2>13. CASE Release(j)
    BY <2>13 DEF Release, Goto, dbVars, historyVars, boundVars
  <2> QED BY <1>3, <2>1, <2>2, <2>3, <2>4, <2>5, <2>6, <2>7, <2>8, <2>9, <2>10, <2>11, <2>12,
     <2>13 DEF Worker
<1>4. ASSUME NEW s \in Sources, CreateSource(s) PROVE OwnerIsNewest'
  BY <1>4 DEF CreateSource, workerVars, memVars, historyVars, boundVars
<1>5. ASSUME NEW s \in Sources, DeleteSource(s) PROVE OwnerIsNewest'
  BY <1>5 DEF DeleteSource, Live, workerVars, memVars, historyVars, boundVars
<1>6. ASSUME NEW e \in Editors, ReadForEdit(e) PROVE OwnerIsNewest'
  BY <1>6 DEF ReadForEdit, dbVars, workerVars, memVars, historyVars
<1>7. ASSUME NEW e \in Editors, EditSource(e) PROVE OwnerIsNewest'
  BY <1>7 DEF EditSource, workerVars, memVars, historyVars, boundVars
<1>8. CASE Crash
  BY <1>8 DEF Crash, dbVars, historyVars
<1>9. CASE Restart
  BY <1>9 DEF Restart, RecoverJobs, RecoverRuns, RecoverSources, workerVars, memVars,
     historyVars
<1>10. CASE Quiet
  BY <1>10 DEF Quiet, vars, dbVars, workerVars, memVars, historyVars, boundVars
<1>11. CASE UNCHANGED vars
  BY <1>11 DEF vars, dbVars, workerVars, memVars, historyVars, boundVars
<1> QED BY <1>1, <1>2, <1>3, <1>4, <1>5, <1>6, <1>7, <1>8, <1>9, <1>10, <1>11 DEF Next

\* Publishing ends the pending part of the only worker that could publish.
LEMMA UnpublishedStep == ASSUME TypeOK, DownIsIdle, LeasesIssued, CriticalSection,
   JobsHaveSources, OwnerIsNewest, ShownBegan, OwnerUnpublished, [Next]_vars PROVE
   OwnerUnpublished'
<1> USE DEF TypeOK, DownIsIdle, LeasesIssued, JobsHaveSources, OwnerIsNewest, OwnerUnpublished,
   Owned, Pending, Leased, Busy, Places
<1>1. ASSUME NEW j \in Jobs, QueueSync(j) PROVE OwnerUnpublished'
  BY <1>1 DEF QueueSync, Queue, Goto, Live, memVars, historyVars, boundVars
<1>2. ASSUME NEW j \in Jobs, NEW old \in Jobs, RetryJob(j, old) PROVE OwnerUnpublished'
  BY <1>2 DEF RetryJob, Queue, Goto, memVars, historyVars, boundVars
<1>3. ASSUME NEW j \in Jobs, Worker(j) PROVE OwnerUnpublished'
  <2>1. CASE MarkRunning(j)
    BY <2>1 DEF MarkRunning, Try, Goto, memVars, historyVars
  <2>2. CASE StartRun(j)
    BY <2>2 DEF StartRun, Try, Goto, memVars, historyVars
  <2>3. CASE ReadSource(j)
    BY <2>3 DEF ReadSource, Try, Goto, dbVars, memVars, historyVars
  <2>4. CASE BeginFetch(j)
    <3>1. SUFFICES ASSUME NEW k \in Jobs, pc'[k] \in Pending, Owned(k)'
                   PROVE  shown'[jobSource'[k]].fetch < newest'[jobSource'[k]]
      BY DEF OwnerUnpublished
    <3>2. /\ shown' = shown /\ jobSource' = jobSource
          /\ newest' = [newest EXCEPT ![jobSource[j]] = @ + 1]
      BY <2>4 DEF BeginFetch, dbVars
    <3>3. shown[jobSource[k]].fetch \in Nat /\ newest[jobSource[k]] \in Nat
      BY DEF TypeOK
    <3>4. CASE k = j
      BY <3>2, <3>3, <3>4 DEF ShownBegan, TypeOK
    <3>5. CASE k # j
      <4>1. pc[k] \in Pending /\ lease'[k] = lease[k] /\ lease[k] <= sequence
        BY <2>4, <3>1, <3>5 DEF BeginFetch, Goto, LeasesIssued, Pending, Leased, TypeOK
      <4>2. jobSource[k] # jobSource[j] /\ Owned(k)
        BY <2>4, <3>1, <3>2, <4>1 DEF BeginFetch, NextSequence, Owned, TypeOK
      <4>3. shown[jobSource[k]].fetch < newest[jobSource[k]]
        BY <4>1, <4>2 DEF OwnerUnpublished
      <4> QED BY <3>2, <4>2, <4>3 DEF TypeOK
    <3> QED BY <3>4, <3>5
  <2>5. CASE CheckSyncing(j)
    BY <2>5 DEF CheckSyncing, CheckStatus, ResetInvalidated, Try, Goto, historyVars
  <2>6. CASE WriteSyncing(j)
    BY <2>6 DEF WriteSyncing, WriteStatus, ResetInvalidated, Try, Goto, historyVars
  <2>7. CASE Fetch(j)
    BY <2>7 DEF Fetch, Goto, dbVars, memVars, historyVars, boundVars
  <2>8. CASE SyncResult(j)
    BY <2>8 DEF SyncResult, Commit, Reject, Goto, memVars, boundVars
  <2>9. CASE CheckError(j)
    BY <2>9 DEF CheckError, CheckStatus, ResetInvalidated, Try, Goto, historyVars
  <2>10. CASE WriteError(j)
    BY <2>10 DEF WriteError, WriteStatus, ResetInvalidated, Try, Goto, historyVars
  <2>11. CASE FinishJob(j)
    BY <2>11 DEF FinishJob, Outcome, Try, Goto, memVars, historyVars
  <2>12. CASE FinishRun(j)
    BY <2>12 DEF FinishRun, Outcome, Try, Goto, memVars, historyVars
  <2>13. CASE Release(j)
    BY <2>13 DEF Release, Goto, dbVars, historyVars, boundVars
  <2> QED BY <1>3, <2>1, <2>2, <2>3, <2>4, <2>5, <2>6, <2>7, <2>8, <2>9, <2>10, <2>11, <2>12,
     <2>13 DEF Worker
<1>4. ASSUME NEW s \in Sources, CreateSource(s) PROVE OwnerUnpublished'
  BY <1>4 DEF CreateSource, workerVars, memVars, historyVars, boundVars
<1>5. ASSUME NEW s \in Sources, DeleteSource(s) PROVE OwnerUnpublished'
  BY <1>5 DEF DeleteSource, Live, workerVars, memVars, historyVars, boundVars
<1>6. ASSUME NEW e \in Editors, ReadForEdit(e) PROVE OwnerUnpublished'
  BY <1>6 DEF ReadForEdit, dbVars, workerVars, memVars, historyVars
<1>7. ASSUME NEW e \in Editors, EditSource(e) PROVE OwnerUnpublished'
  BY <1>7 DEF EditSource, workerVars, memVars, historyVars, boundVars
<1>8. CASE Crash
  BY <1>8 DEF Crash, dbVars, historyVars
<1>9. CASE Restart
  BY <1>9 DEF Restart, RecoverJobs, RecoverRuns, RecoverSources, workerVars, memVars,
     historyVars
<1>10. CASE Quiet
  BY <1>10 DEF Quiet, vars, dbVars, workerVars, memVars, historyVars, boundVars
<1>11. CASE UNCHANGED vars
  BY <1>11 DEF vars, dbVars, workerVars, memVars, historyVars, boundVars
<1> QED BY <1>1, <1>2, <1>3, <1>4, <1>5, <1>6, <1>7, <1>8, <1>9, <1>10, <1>11 DEF Next

\* The initial states satisfy the invariant.
LEMMA InitIInv == Init => IInv
<1> SUFFICES ASSUME Init PROVE IInv
  OBVIOUS
<1>1. TypeOK
  <2>1. shown \in [Sources -> [fetch : Nat, input : Inputs \cup {NoInput}]]
    BY DEF Init
  <2>2. editor \in [Editors -> {NoEdit} \cup [source : Sources, secret : Secrets, retain : BOOLEAN]]
    BY DEF Init
  <2>3. up \in BOOLEAN
    BY DEF Init
  <2> QED BY <2>1, <2>2, <2>3 DEF Init, TypeOK, Statuses, JobStatuses, RunStatuses, Places
<1>2. LeasesIssued /\ CriticalSection /\ OwnerIsNewest /\ OwnerUnpublished
  BY DEF Init, LeasesIssued, CriticalSection, OwnerIsNewest, OwnerUnpublished, Pending, Leased
<1>3. ShownBegan /\ JobsHaveSources /\ RowsHaveInputs /\ OpenWhileServed /\ DownIsIdle
  BY DEF Init, ShownBegan, JobsHaveSources, RowsHaveInputs, OpenWhileServed, DownIsIdle,
     Pending,
         Unfinished
<1> QED BY <1>1, <1>2, <1>3 DEF IInv

\* Every step preserves the whole invariant.
LEMMA IInvStep == IInv /\ [Next]_vars => IInv'
BY TypeStep, RowsStep, DownStep, SourcesStep, OpenStep, ShownStep, LeasesStep, CriticalStep,
   OwnerStep, UnpublishedStep DEF IInv

\* The inductive invariant holds in every reachable state.
LEMMA Inductive == Spec => []IInv
BY InitIInv, IInvStep, PTL DEF Spec

\* Every reachable state has the types of the tables and of the worker's variables.
THEOREM SyncTypes == Spec => []TypeOK
BY Inductive, PTL DEF IInv

\* In every reachable state, for any number of sources, jobs, edits, crashes and
\* failed statements, the worker that owns a source's lease is the one whose
\* fetch of that source began last (sourceFetchOwnedLocked).
THEOREM OnlyTheNewestOwns == Spec => []OwnerIsNewest
BY Inductive, PTL DEF IInv

\* No step rewrites a job that has ended.
LEMMA EndedStep == IInv /\ [Next]_vars =>
    (\A j \in Jobs : jobStatus[j] \in Terminal => jobStatus'[j] = jobStatus[j])
<1> SUFFICES ASSUME IInv, [Next]_vars, NEW k \in Jobs, jobStatus[k] \in Terminal
             PROVE  jobStatus'[k] = jobStatus[k]
  OBVIOUS
<1>0. jobStatus \in [Jobs -> JobStatuses] /\ pc[k] \notin Unfinished
  BY DEF IInv, TypeOK, OpenWhileServed, Terminal
<1>1. ASSUME NEW j \in Jobs, NEW s, jobStatus[j] = "none", Queue(j, s)
      PROVE  jobStatus'[k] = jobStatus[k]
  BY <1>0, <1>1 DEF Queue, Terminal
<1>2. ASSUME NEW j \in Jobs, Worker(j) PROVE jobStatus'[k] = jobStatus[k]
  <2>1. CASE FinishJob(j)
    BY <1>0, <2>1 DEF FinishJob, Unfinished, Pending
  <2>2. CASE MarkRunning(j)
    BY <1>0, <2>2 DEF MarkRunning, Unfinished, Terminal
  <2> QED BY <1>2, <2>1, <2>2 DEF Worker, StartRun, ReadSource, BeginFetch, CheckSyncing,
             WriteSyncing, CheckError, WriteError, CheckStatus, WriteStatus, Fetch, SyncResult,
             FinishRun, Release, dbVars
<1>3. CASE Restart
  BY <1>0, <1>3 DEF Restart, RecoverJobs, Terminal
<1> QED BY <1>1, <1>2, <1>3 DEF Next, QueueSync, RetryJob, CreateSource, DeleteSource,
   ReadForEdit,
           EditSource, Crash, Quiet, vars, dbVars

\* A job that has ended keeps its outcome in every step.
THEOREM EndedJobsAreFinal == Spec => EndedJobsStay
BY Inductive, EndedStep, PTL DEF Spec, EndedJobsStay


-----------------------------------------------------------------------------
(* Refinement: every step of SourceSync is a step of NewestFetch or changes  *)
(* nothing it sees.                                                          *)

absView == <<input, status, newest, shown>>

\* The reset of a lingering "syncing" and a status report by a pending owner
\* are reports of the newest fetch.
LEMMA ReportStep ==
    ASSUME IInv, NEW j \in Jobs, pc[j] \in Pending, Owned(j), Live(jobSource[j]),
           NEW v \in {"syncing", "error"},
           status' = [status EXCEPT ![jobSource[j]] = v], UNCHANGED <<input, newest, shown>>
    PROVE  Promise!Report(jobSource[j])
BY DEF IInv, OwnerUnpublished, Promise!Report, Promise!Live, Promise!Stored, Live, Stored

\* The check of a status write reports "error" through the reset, or stutters.
LEMMA CheckIsReport ==
    ASSUME IInv, NEW j \in Jobs, pc[j] \in Pending, NEW from, NEW locked, NEW next,
           CheckStatus(j, from, locked, next)
    PROVE  Promise!Report(jobSource[j]) \/ UNCHANGED absView
<1>1. UNCHANGED <<input, newest, shown>>
  BY DEF CheckStatus, historyVars
<1>2. CASE status' = status
  BY <1>1, <1>2 DEF absView
<1>3. CASE status' # status
  <2>1. /\ Owned(j) /\ Live(jobSource[j])
        /\ status' = [status EXCEPT ![jobSource[j]] = "error"]
    BY <1>3 DEF CheckStatus, ResetInvalidated
  <2> QED BY <1>1, <2>1, ReportStep
<1> QED BY <1>2, <1>3

\* The UPDATE of a status write is a Report of the newest fetch, or stutters.
LEMMA WriteIsReport ==
    ASSUME IInv, NEW j \in Jobs, pc[j] \in {"announcing", "publishing"}, NEW locked, NEW next,
           NEW value \in {"syncing", "error"}, WriteStatus(j, locked, value, next)
    PROVE  Promise!Report(jobSource[j]) \/ UNCHANGED absView
<1>1. UNCHANGED <<input, newest, shown>> /\ Owned(j) /\ pc[j] \in Pending
  BY DEF WriteStatus, historyVars, IInv, CriticalSection, Pending
<1>2. CASE status' = status
  BY <1>1, <1>2 DEF absView
<1>3. CASE status' # status
  <2>1. \E v \in {"syncing", "error"} : status' = [status EXCEPT ![jobSource[j]] = v]
    BY <1>3 DEF WriteStatus, ResetInvalidated
  <2>2. Live(jobSource[j])
    BY <1>3 DEF WriteStatus, ResetInvalidated, Live, Stored
  <2> QED BY <1>1, <2>1, <2>2, ReportStep
<1> QED BY <1>2, <1>3

\* A committed import is a Publish of the newest fetch.
LEMMA CommitIsPublish ==
    ASSUME IInv, NEW j \in Jobs, pc[j] = "fetched", Commit(j), UNCHANGED <<input, newest>>
    PROVE  Promise!Publish(jobSource[j])
<1>1. pc[j] \in Leased /\ pc[j] \in Pending
  BY DEF Leased, Pending
<1>2. Owned(j) /\ Live(jobSource[j]) /\ seen[j] = input[jobSource[j]]
  BY DEF Commit, InputMatches
<1>3. began[j] = newest[jobSource[j]] /\ shown[jobSource[j]].fetch < newest[jobSource[j]]
  BY <1>1, <1>2 DEF IInv, OwnerIsNewest, OwnerUnpublished
<1> QED BY <1>2, <1>3 DEF Commit, Promise!Publish, Promise!Live, Promise!Stored, Live, Stored

\* Every step maps to a step of the promise or to a stutter.
LEMMA RefinementStep == IInv /\ [Next]_vars => [Promise!Next]_absView
<1> SUFFICES ASSUME IInv, [Next]_vars PROVE Promise!Next \/ UNCHANGED absView
  OBVIOUS
<1>0. jobSource \in [Jobs -> Sources] /\ newest \in [Sources -> Nat]
  BY DEF IInv, TypeOK
<1>1. ASSUME NEW j \in Jobs, QueueSync(j) PROVE UNCHANGED absView
  BY <1>1 DEF QueueSync, Queue, historyVars, absView
<1>2. ASSUME NEW j \in Jobs, NEW old \in Jobs, RetryJob(j, old) PROVE UNCHANGED absView
  BY <1>2 DEF RetryJob, Queue, historyVars, absView
<1>3. ASSUME NEW j \in Jobs, Worker(j) PROVE Promise!Next \/ UNCHANGED absView
  <2>1. CASE CheckSyncing(j) \/ CheckError(j)
    <3>1. pc[j] \in Pending
      BY <2>1 DEF CheckSyncing, CheckError, CheckStatus, Pending
    <3> QED BY <1>0, <2>1, <3>1, CheckIsReport DEF CheckSyncing, CheckError, Promise!Next
  <2>2. CASE WriteSyncing(j) \/ WriteError(j)
    <3>1. pc[j] \in {"announcing", "publishing"}
      BY <2>2 DEF WriteSyncing, WriteError, WriteStatus
    <3> QED BY <1>0, <2>2, <3>1, WriteIsReport DEF WriteSyncing, WriteError, Promise!Next
  <2>3. CASE BeginFetch(j)
    <3>1. Promise!Begin(jobSource[j])
      BY <1>0, <2>3 DEF BeginFetch, dbVars, Promise!Begin
    <3> QED BY <1>0, <3>1 DEF Promise!Next
  <2>4. CASE SyncResult(j)
    <3>1. pc[j] = "fetched" /\ UNCHANGED <<input, newest>>
      BY <2>4 DEF SyncResult
    <3>2. CASE Commit(j)
      BY <1>0, <3>1, <3>2, CommitIsPublish DEF Promise!Next
    <3>3. CASE Reject(j)
      BY <3>1, <3>3 DEF Reject, absView
    <3> QED BY <2>4, <3>2, <3>3 DEF SyncResult
  <2> QED BY <1>3, <2>1, <2>2, <2>3, <2>4 DEF Worker, MarkRunning, StartRun, ReadSource, Fetch,
             FinishJob, FinishRun, Release, dbVars, historyVars, absView
<1>4. ASSUME NEW s \in Sources, CreateSource(s) PROVE Promise!Next
  <2>1. Promise!Create(s)
    BY <1>4 DEF CreateSource, historyVars, Promise!Create, Inputs
  <2> QED BY <2>1 DEF Promise!Next
<1>5. ASSUME NEW s \in Sources, DeleteSource(s) PROVE Promise!Next
  <2>1. Promise!Delete(s)
    BY <1>5 DEF DeleteSource, Live, Stored, historyVars, Promise!Delete, Promise!Live,
       Promise!Stored
  <2> QED BY <2>1 DEF Promise!Next
<1>6. ASSUME NEW e \in Editors, EditSource(e) PROVE Promise!Next \/ UNCHANGED absView
  <2>1. UNCHANGED <<status, newest, shown>>
    BY <1>6 DEF EditSource, historyVars
  <2>2. CASE input' = input
    BY <2>1, <2>2 DEF absView
  <2>3. CASE input' # input
    <3>1. PICK i \in Inputs : /\ Live(editor[e].source)
                              /\ input' = [input EXCEPT ![editor[e].source] = i]
      BY <1>6, <2>3 DEF EditSource
    <3>2. editor[e].source \in Sources
      BY <1>6 DEF EditSource, IInv, TypeOK
    <3>3. Promise!Change(editor[e].source)
      BY <2>1, <3>1 DEF Promise!Change, Promise!Live, Promise!Stored, Live, Stored
    <3> QED BY <3>2, <3>3 DEF Promise!Next
  <2> QED BY <2>2, <2>3
<1>7. CASE Restart
  <2>1. UNCHANGED <<input, newest, shown>> /\ (status' = status \/ RecoverSources)
    BY <1>7 DEF Restart, historyVars
  <2> QED BY <2>1 DEF RecoverSources, absView, Promise!Next, Promise!Interrupt
<1>8. CASE (\E e \in Editors : ReadForEdit(e)) \/ Crash \/ Quiet \/ UNCHANGED vars
  BY <1>8 DEF ReadForEdit, Crash, Quiet, vars, dbVars, historyVars, absView
<1> QED BY <1>1, <1>2, <1>3, <1>4, <1>5, <1>6, <1>7, <1>8 DEF Next

\* The lease table, the conditional status writes and the import transaction
\* together keep the promise of NewestFetch: an older fetch never replaces the
\* result or the status of a newer one, and a result is only published for the
\* inputs the source has at that moment.
THEOREM NewestFetchWins == Spec => ImplementsPromise
<1>1. Init => Promise!Init
  BY DEF Init, Promise!Init
<1>2. [Promise!Next]_absView => [Promise!Next]_(Promise!absVars)
  BY DEF absView, Promise!absVars
<1> QED BY <1>1, <1>2, Inductive, RefinementStep, PTL DEF Spec, ImplementsPromise, Promise!Spec

-----------------------------------------------------------------------------
(* What the records say: no claim of a success that did not happen, no status *)
(* left behind by a worker or by a process.  IInv says who owns a source; this *)
(* invariant adds what each worker has recorded at each of its last steps,    *)
(* which the properties say of the end only.                                  *)


\* A success was committed.
ClaimsAreTrue ==
    \A j \in Jobs :
        /\ jobStatus[j] = "succeeded" => j \in committed
        /\ runStatus[j] = "succeeded" => j \in committed

\* A worker that has passed FinishJob, or FinishRun, has recorded its outcome.
OutcomeIsRecorded ==
    faults = 0 => \A j \in Jobs :
        /\ pc[j] \in {"closing", "lostClosing", "releasing", "done"} => jobStatus[j] = Outcome(j)
        /\ pc[j] \in {"releasing", "done"} => runStatus[j] \in {"none", Outcome(j)}

RecordsInv ==
    /\ IInv
    /\ ClaimsAreTrue
    /\ OutcomeIsRecorded
    /\ RecoveryIsComplete
    /\ SyncingIsAttended

\* A fault is never forgotten: the sum of Try only grows.
LEMMA FaultsStay == ASSUME IInv, [Next]_vars, faults' = 0 PROVE faults = 0
<1>0. faults \in Nat
  BY DEF IInv, TypeOK
<1>1. ASSUME NEW ok \in BOOLEAN, Try(ok) PROVE faults = 0
  BY <1>0, <1>1 DEF Try
<1>2. ASSUME NEW j \in Jobs, Worker(j) PROVE faults = 0
  <2>1. CASE MarkRunning(j) \/ StartRun(j) \/ ReadSource(j) \/ BeginFetch(j) \/ Fetch(j)
    BY <1>0, <1>1, <2>1 DEF MarkRunning, StartRun, ReadSource, BeginFetch, Fetch, boundVars
  <2>2. CASE CheckSyncing(j) \/ CheckError(j)
    BY <1>0, <1>1, <2>2 DEF CheckSyncing, CheckError, CheckStatus, boundVars
  <2>3. CASE WriteSyncing(j) \/ WriteError(j)
    BY <1>0, <1>1, <2>3 DEF WriteSyncing, WriteError, WriteStatus, boundVars
  <2>4. CASE SyncResult(j) \/ FinishJob(j) \/ FinishRun(j) \/ Release(j)
    BY <1>0, <1>1, <2>4 DEF SyncResult, FinishJob, FinishRun, Release, boundVars
  <2> QED BY <1>2, <2>1, <2>2, <2>3, <2>4 DEF Worker
<1> QED BY <1>0, <1>1, <1>2 DEF Next, QueueSync, RetryJob, Queue, CreateSource, DeleteSource,
     ReadForEdit, EditSource, Crash, Restart, Quiet, vars, boundVars

\* A row of a job that no worker serves is left as it is by the workers.
LEMMA RowsOfOthers ==
    ASSUME IInv, [Next]_vars, NEW k \in Jobs, jobStatus[k] # "none",
           pc[k] \notin {"queued", "marked", "settling", "closing", "lost", "lostClosing"}
    PROVE  /\ jobStatus'[k] = jobStatus[k] \/ Restart
           /\ runStatus'[k] \in {"none", runStatus[k]} \/ Restart
<1>0. jobStatus \in [Jobs -> JobStatuses] /\ runStatus \in [Jobs -> RunStatuses]
  BY DEF IInv, TypeOK
<1>1. ASSUME NEW j \in Jobs, NEW s, jobStatus[j] = "none", Queue(j, s)
      PROVE  jobStatus'[k] = jobStatus[k] /\ runStatus' = runStatus
  BY <1>0, <1>1 DEF Queue
<1>2. ASSUME NEW j \in Jobs, Worker(j)
      PROVE  jobStatus'[k] = jobStatus[k] /\ runStatus'[k] = runStatus[k]
  <2>1. CASE FinishJob(j) \/ MarkRunning(j)
    BY <1>0, <2>1 DEF FinishJob, MarkRunning
  <2>2. CASE FinishRun(j) \/ StartRun(j)
    BY <1>0, <2>2 DEF FinishRun, StartRun
  <2> QED BY <1>2, <2>1, <2>2 DEF Worker, ReadSource, BeginFetch, CheckSyncing,
             WriteSyncing, CheckError, WriteError, CheckStatus, WriteStatus, Fetch, SyncResult,
             Release, dbVars
<1>3. ASSUME NEW s \in Sources, DeleteSource(s)
      PROVE  jobStatus'[k] = jobStatus[k] /\ runStatus'[k] \in {"none", runStatus[k]}
  BY <1>3 DEF DeleteSource
<1> QED BY <1>1, <1>2, <1>3 DEF Next, QueueSync, RetryJob, CreateSource, ReadForEdit, EditSource,
   Crash, Quiet, vars, dbVars

\* While a worker waits to record its run, its job's row is left alone.
LEMMA RecordOfTheWaiting ==
    ASSUME IInv, [Next]_vars, NEW k \in Jobs, jobStatus[k] # "none",
           pc[k] \in {"closing", "lostClosing"}
    PROVE  jobStatus'[k] = jobStatus[k] \/ Restart
<1>0. jobStatus \in [Jobs -> JobStatuses]
  BY DEF IInv, TypeOK
<1>1. ASSUME NEW j \in Jobs, NEW s, jobStatus[j] = "none", Queue(j, s)
      PROVE  jobStatus'[k] = jobStatus[k]
  BY <1>0, <1>1 DEF Queue
<1>2. ASSUME NEW j \in Jobs, Worker(j) PROVE jobStatus'[k] = jobStatus[k]
  <2>1. CASE FinishJob(j) \/ MarkRunning(j)
    BY <1>0, <2>1 DEF FinishJob, MarkRunning
  <2> QED BY <1>2, <2>1 DEF Worker, StartRun, ReadSource, BeginFetch, CheckSyncing,
             WriteSyncing, CheckError, WriteError, CheckStatus, WriteStatus, Fetch, SyncResult,
             FinishRun, Release, dbVars
<1> QED BY <1>1, <1>2 DEF Next, QueueSync, RetryJob, CreateSource, DeleteSource, ReadForEdit,
   EditSource, Crash, Quiet, vars, dbVars

\* Only an import commits, and only once the worker has fetched.
LEMMA CommitsStay ==
    ASSUME IInv, [Next]_vars, NEW k \in Jobs
    PROVE  /\ k \in committed => k \in committed'
           /\ pc[k] # "fetched" => (k \in committed' <=> k \in committed)
<1>1. ASSUME NEW j \in Jobs, SyncResult(j)
      PROVE  /\ k \in committed => k \in committed'
             /\ pc[k] # "fetched" => (k \in committed' <=> k \in committed)
  BY <1>1 DEF SyncResult, Commit, Reject
<1> QED BY <1>1 DEF Next, Worker, MarkRunning, StartRun, ReadSource, BeginFetch,
     CheckSyncing, WriteSyncing, CheckError, WriteError, CheckStatus, WriteStatus, Fetch,
     FinishJob, FinishRun, Release, QueueSync, RetryJob, Queue, CreateSource,
     DeleteSource, ReadForEdit, EditSource, Crash, Restart, Quiet, vars, historyVars

\* Where a worker can be after a step, told from where it was.
LEMMA PlacesStep ==
    ASSUME IInv, [Next]_vars, NEW k \in Jobs
    PROVE  /\ pc'[k] \in {"closing", "lostClosing"} =>
                pc[k] = pc'[k] \/ FinishJob(k)
           /\ pc'[k] \in {"releasing", "done"} =>
                pc[k] = pc'[k] \/ FinishRun(k) \/ (pc[k] = "releasing" /\ Release(k))
           /\ pc'[k] = "dead" => pc[k] = "dead" \/ Crash
<1>0. pc \in [Jobs -> Places]
  BY DEF IInv, TypeOK
<1>1. ASSUME NEW j \in Jobs, Worker(j) PROVE
           /\ pc'[k] \in {"closing", "lostClosing"} =>
                pc[k] = pc'[k] \/ FinishJob(k)
           /\ pc'[k] \in {"releasing", "done"} =>
                pc[k] = pc'[k] \/ FinishRun(k) \/ (pc[k] = "releasing" /\ Release(k))
           /\ pc'[k] = "dead" => pc[k] = "dead"
  <2>1. CASE j # k
    <3>1. pc'[k] = pc[k]
      BY <1>0, <1>1, <2>1 DEF Worker, MarkRunning, StartRun, ReadSource, BeginFetch,
         CheckSyncing, WriteSyncing, CheckError, WriteError, CheckStatus, WriteStatus, Fetch,
         SyncResult, Commit, Reject, FinishJob, FinishRun, Release, Goto
    <3> QED BY <3>1
  <2>2. CASE j = k
    <3>1. CASE FinishJob(j)
      BY <1>0, <2>2, <3>1 DEF FinishJob, Goto
    <3>2. CASE FinishRun(j)
      BY <1>0, <2>2, <3>2 DEF FinishRun, Goto
    <3>3. CASE Release(j)
      BY <1>0, <2>2, <3>3 DEF Release, Goto
    <3> QED BY <1>0, <1>1, <2>2, <3>1, <3>2, <3>3 DEF Worker, MarkRunning, StartRun, ReadSource,
         BeginFetch, CheckSyncing, WriteSyncing, CheckError, WriteError, CheckStatus,
         WriteStatus, Fetch, SyncResult, Commit, Reject, Goto
  <2> QED BY <2>1, <2>2
<1>2. ASSUME NEW j \in Jobs, NEW s, Queue(j, s) PROVE pc'[k] \in {pc[k], "queued"}
  BY <1>0, <1>2 DEF Queue, Goto
<1>3. CASE Crash
  BY <1>0, <1>3 DEF Crash, Busy, Leased
<1> QED BY <1>1, <1>2, <1>3 DEF Next, QueueSync, RetryJob, CreateSource, DeleteSource, ReadForEdit,
   EditSource, Restart, Quiet, vars, workerVars

\* A success is written only after the commit, and no commit is undone.
LEMMA ClaimsStep == ASSUME IInv, ClaimsAreTrue, [Next]_vars PROVE ClaimsAreTrue'
<1> SUFFICES ASSUME NEW k \in Jobs
             PROVE  /\ jobStatus'[k] = "succeeded" => k \in committed'
                    /\ runStatus'[k] = "succeeded" => k \in committed'
  BY DEF ClaimsAreTrue
<1>0. jobStatus \in [Jobs -> JobStatuses] /\ runStatus \in [Jobs -> RunStatuses]
  BY DEF IInv, TypeOK
<1>1. jobStatus'[k] = "succeeded" => jobStatus[k] = "succeeded" \/ k \in committed
  <2>1. ASSUME NEW j \in Jobs, NEW s, Queue(j, s)
        PROVE  jobStatus'[k] \in {jobStatus[k], "queued"}
    BY <1>0, <2>1 DEF Queue
  <2>2. ASSUME NEW j \in Jobs, FinishJob(j)
        PROVE  jobStatus'[k] = jobStatus[k] \/ (k = j /\ jobStatus'[k] = Outcome(k))
    BY <1>0, <2>2 DEF FinishJob
  <2>3. ASSUME NEW j \in Jobs, MarkRunning(j)
        PROVE  jobStatus'[k] \in {jobStatus[k], "running"}
    BY <1>0, <2>3 DEF MarkRunning
  <2>4. CASE Restart
    BY <1>0, <2>4 DEF Restart, RecoverJobs
  <2> QED BY <2>1, <2>2, <2>3, <2>4 DEF Outcome, Next, Worker, StartRun, ReadSource, BeginFetch,
       CheckSyncing, WriteSyncing, CheckError, WriteError, CheckStatus, WriteStatus, Fetch,
       SyncResult, FinishRun, Release, QueueSync, RetryJob, CreateSource,
       DeleteSource, ReadForEdit, EditSource, Crash, Quiet, vars, dbVars
<1>2. runStatus'[k] = "succeeded" => runStatus[k] = "succeeded" \/ k \in committed
  <2>1. ASSUME NEW j \in Jobs, StartRun(j)
        PROVE  runStatus'[k] \in {runStatus[k], "running"}
    BY <1>0, <2>1 DEF StartRun
  <2>2. ASSUME NEW j \in Jobs, FinishRun(j)
        PROVE  runStatus'[k] = runStatus[k] \/ (k = j /\ runStatus'[k] = Outcome(k))
    BY <1>0, <2>2 DEF FinishRun
  <2>3. ASSUME NEW s \in Sources, DeleteSource(s)
        PROVE  runStatus'[k] \in {runStatus[k], "none"}
    BY <1>0, <2>3 DEF DeleteSource
  <2>4. CASE Restart
    BY <1>0, <2>4 DEF Restart, RecoverRuns
  <2> QED BY <2>1, <2>2, <2>3, <2>4 DEF Outcome, Next, Worker, MarkRunning, ReadSource, BeginFetch,
       CheckSyncing, WriteSyncing, CheckError, WriteError, CheckStatus, WriteStatus, Fetch,
       SyncResult, FinishJob, Release, QueueSync, RetryJob, Queue, CreateSource,
       ReadForEdit, EditSource, Crash, Quiet, vars, dbVars
<1> QED BY <1>1, <1>2, CommitsStay DEF ClaimsAreTrue

\* A start that meets no failure ends every record that was open.
LEMMA RestartRecovers ==
    ASSUME IInv, Restart, faults' = 0 PROVE RecoverJobs /\ RecoverRuns /\ RecoverSources
<1>1. faults \in Nat
  BY DEF IInv, TypeOK
<1> QED BY <1>1 DEF Restart, Try

\* FinishJob and FinishRun record the outcome, and nobody writes the rows after.
LEMMA OutcomeStep == ASSUME IInv, OutcomeIsRecorded, [Next]_vars PROVE OutcomeIsRecorded'
<1> SUFFICES ASSUME faults' = 0, NEW k \in Jobs
             PROVE  /\ pc'[k] \in {"closing", "lostClosing", "releasing", "done"} =>
                         jobStatus'[k] = Outcome(k)'
                    /\ pc'[k] \in {"releasing", "done"} => runStatus'[k] \in {"none", Outcome(k)'}
  BY DEF OutcomeIsRecorded
<1>0. /\ jobStatus \in [Jobs -> JobStatuses] /\ runStatus \in [Jobs -> RunStatuses]
      /\ faults = 0 /\ pc \in [Jobs -> Places]
  BY FaultsStay DEF IInv, TypeOK
<1>1. jobStatus[k] = "none" => pc[k] = "idle"
  BY DEF IInv, JobsHaveSources
<1>2. pc[k] # "fetched" => Outcome(k)' = Outcome(k)
  BY CommitsStay DEF Outcome
<1>3. CASE FinishJob(k)
  <2>1. jobStatus'[k] = Outcome(k) /\ pc[k] # "fetched"
    BY <1>0, <1>3 DEF FinishJob, Try
  <2>2. pc'[k] \in {"closing", "lostClosing"}
    BY <1>0, <1>3 DEF FinishJob, Goto
  <2> QED BY <1>2, <2>1, <2>2
<1>4. CASE FinishRun(k)
  <2>1. jobStatus'[k] = jobStatus[k] /\ pc[k] \in {"closing", "lostClosing"}
    BY <1>4 DEF FinishRun
  <2>2. runStatus'[k] \in {"none", Outcome(k)}
    BY <1>0, <1>4 DEF FinishRun, Try
  <2> QED BY <1>0, <1>2, <2>1, <2>2 DEF OutcomeIsRecorded
<1>5. CASE Restart
  <2>1. RecoverJobs /\ RecoverRuns /\ pc' = pc
    BY <1>5, RestartRecovers DEF Restart, workerVars
  <2>2. pc[k] \in {"closing", "lostClosing", "releasing", "done"} => jobStatus[k] = Outcome(k)
    BY <1>0 DEF OutcomeIsRecorded
  <2>3. pc[k] \in {"releasing", "done"} => runStatus[k] \in {"none", Outcome(k)}
    BY <1>0 DEF OutcomeIsRecorded
  <2>4. jobStatus[k] = Outcome(k) => jobStatus'[k] = Outcome(k)
    BY <2>1 DEF RecoverJobs, Outcome
  <2>5. runStatus[k] \in {"none", Outcome(k)} => runStatus'[k] = runStatus[k]
    BY <2>1 DEF RecoverRuns, Outcome
  <2> QED BY <1>2, <2>1, <2>2, <2>3, <2>4, <2>5
<1>6. CASE pc'[k] \in {"closing", "lostClosing"} /\ pc[k] = pc'[k] /\ ~FinishRun(k) /\ ~Restart
  <2>1. jobStatus[k] = Outcome(k) /\ jobStatus[k] # "none"
    BY <1>0, <1>1, <1>6 DEF OutcomeIsRecorded, Outcome
  <2>2. jobStatus'[k] = jobStatus[k]
    BY <1>0, <1>6, <2>1, RecordOfTheWaiting
  <2> QED BY <1>2, <1>6, <2>1, <2>2
<1>7. CASE pc'[k] \in {"releasing", "done"} /\ (pc[k] = pc'[k] \/ pc[k] = "releasing") /\ ~Restart
  <2>1. pc[k] \in {"releasing", "done"}
    BY <1>7
  <2>2. jobStatus[k] = Outcome(k) /\ runStatus[k] \in {"none", Outcome(k)}
    BY <1>0, <2>1 DEF OutcomeIsRecorded
  <2>3. jobStatus[k] # "none"
    BY <1>1, <2>1
  <2>4. jobStatus'[k] = jobStatus[k] /\ runStatus'[k] \in {"none", runStatus[k]}
    BY <1>7, <2>1, <2>3, RowsOfOthers
  <2> QED BY <1>2, <1>7, <2>1, <2>2, <2>4
<1> QED BY <1>3, <1>4, <1>5, <1>6, <1>7, PlacesStep

\* A process that starts ends what its predecessors left, and nobody reopens it.
LEMMA RecoveryStep == ASSUME IInv, RecoveryIsComplete, [Next]_vars PROVE RecoveryIsComplete'
<1> SUFFICES ASSUME up', faults' = 0, NEW k \in Jobs, pc'[k] = "dead"
             PROVE  jobStatus'[k] \in Terminal /\ runStatus'[k] # "running"
  BY DEF RecoveryIsComplete
<1>0. /\ jobStatus \in [Jobs -> JobStatuses] /\ runStatus \in [Jobs -> RunStatuses]
      /\ faults = 0
  BY FaultsStay DEF IInv, TypeOK
<1>1. pc[k] = "dead" /\ ~Crash
  BY PlacesStep DEF Crash
<1>2. jobStatus[k] # "none"
  BY <1>1 DEF IInv, JobsHaveSources
<1>3. CASE Restart
  <2>1. RecoverJobs /\ RecoverRuns
    BY <1>3, RestartRecovers
  <2> QED BY <1>0, <1>2, <2>1 DEF RecoverJobs, RecoverRuns, JobStatuses, Terminal
<1>4. CASE ~Restart
  <2>1. up
    BY <1>1, <1>4 DEF Next, Worker, MarkRunning, StartRun, ReadSource, BeginFetch,
     CheckSyncing, WriteSyncing, CheckError, WriteError, CheckStatus, WriteStatus, Fetch,
     SyncResult, FinishJob, FinishRun, Release, QueueSync, RetryJob, Queue, CreateSource,
     DeleteSource, ReadForEdit, EditSource, Quiet, vars
  <2>2. jobStatus[k] \in Terminal /\ runStatus[k] # "running"
    BY <1>0, <1>1, <2>1 DEF RecoveryIsComplete
  <2>3. jobStatus'[k] = jobStatus[k] /\ runStatus'[k] \in {"none", runStatus[k]}
    BY <1>1, <1>2, <1>4, RowsOfOthers
  <2> QED BY <2>2, <2>3
<1> QED BY <1>3, <1>4

\* Whoever attends a source still does after a step that leaves the worker
\* pending, the source's lease alone, and the status as it was or ended.
LEMMA AttendedStep == ASSUME IInv, SyncingIsAttended, [Next]_vars PROVE SyncingIsAttended'
<1> DEFINE Attends(k, s) == jobSource[k] = s /\ Owned(k) /\ pc[k] \in Pending
<1> SUFFICES ASSUME up', faults' = 0, NEW s \in Sources, status'[s] = "syncing"
             PROVE  \E k \in Jobs : Attends(k, s)'
  BY DEF SyncingIsAttended, Pending
<1>0. /\ jobStatus \in [Jobs -> JobStatuses] /\ status \in [Sources -> Statuses]
      /\ pc \in [Jobs -> Places] /\ jobSource \in [Jobs -> Sources]
      /\ owner \in [Sources -> Nat] /\ lease \in [Jobs -> Nat]
      /\ faults \in Nat /\ faults = 0
  BY FaultsStay DEF IInv, TypeOK
<1>1. ASSUME up, status[s] = "syncing" PROVE \E k \in Jobs : Attends(k, s)
  BY <1>0, <1>1 DEF SyncingIsAttended, Pending
<1>2. ASSUME NEW j \in Jobs, NEW k \in Jobs, Attends(k, s), jobSource[j] = s, Owned(j),
             pc[j] \in Leased
      PROVE  k = j
  BY <1>2 DEF IInv, LeasesIssued, Owned, Pending, Leased
<1>3. ASSUME NEW j \in Jobs, NEW t, jobStatus[j] = "none", Queue(j, t), up
      PROVE  \E k \in Jobs : Attends(k, s)'
  <2>1. status'[s] = status[s]
    BY <1>3 DEF Queue
  <2>2. PICK k \in Jobs : Attends(k, s)
    BY <1>1, <1>3, <2>1
  <2>3. k # j
    BY <1>3, <2>2 DEF IInv, JobsHaveSources, Pending
  <2> QED BY <1>0, <1>3, <2>2, <2>3 DEF Queue, Goto, Owned, memVars
<1>4. ASSUME NEW j \in Jobs, Worker(j), up PROVE \E k \in Jobs : Attends(k, s)'
  <2>0. jobSource' = jobSource
    BY <1>4 DEF Worker, MarkRunning, StartRun, ReadSource, BeginFetch,
       CheckSyncing, WriteSyncing, CheckError, WriteError, CheckStatus, WriteStatus, Fetch,
       SyncResult, FinishJob, FinishRun, Release, dbVars
  <2>1. CASE BeginFetch(j)
    <3>1. status' = status
      BY <2>1 DEF BeginFetch, dbVars
    <3>2. CASE jobSource[j] = s
      BY <1>0, <2>0, <2>1, <3>2 DEF BeginFetch, Goto, Owned, Pending
    <3>3. CASE jobSource[j] # s
      <4>1. PICK k \in Jobs : Attends(k, s)
        BY <1>1, <1>4, <3>1
      <4>2. k # j
        BY <3>3, <4>1
      <4> QED BY <1>0, <2>0, <2>1, <3>3, <4>1, <4>2 DEF BeginFetch, Goto, Owned
    <3> QED BY <3>2, <3>3
  <2>2. CASE Release(j)
    <3>1. status' = status /\ pc[j] = "releasing"
      BY <2>2 DEF Release, dbVars
    <3>2. PICK k \in Jobs : Attends(k, s)
      BY <1>1, <1>4, <3>1
    <3>3. k # j
      BY <3>1, <3>2 DEF Pending
    <3>4. ~(jobSource[j] = s /\ Owned(j))
      BY <1>2, <3>1, <3>2, <3>3 DEF Leased
    <3> QED BY <1>0, <2>0, <2>2, <3>2, <3>3, <3>4 DEF Release, Goto, Owned
  <2>3. CASE CheckError(j)
    <3>1. owner' = owner /\ lease' = lease
      BY <2>3 DEF CheckError, CheckStatus
    <3>2. pc[j] = "reporting" /\ pc' \in {[pc EXCEPT ![j] = "publishing"], [pc EXCEPT ![j] = "settling"]}
      BY <2>3 DEF CheckError, CheckStatus, Goto
    <3>3. status[s] = "syncing"
      BY <1>0, <2>3 DEF CheckError, CheckStatus, ResetInvalidated
    <3>4. PICK k \in Jobs : Attends(k, s)
      BY <1>1, <1>4, <3>3
    <3>5. CASE k # j
      BY <1>0, <2>0, <3>1, <3>2, <3>4, <3>5 DEF Owned
    <3>6. CASE k = j
      <4>1. Owned(j) /\ Live(jobSource[j]) /\ status[jobSource[j]] = "syncing" /\ jobSource[j] = s
        BY <3>3, <3>4, <3>6 DEF Live, Stored
      <4>2. pc' = [pc EXCEPT ![j] = "publishing"]
        BY <1>0, <2>3, <4>1 DEF CheckError, CheckStatus, ResetInvalidated, Try, Goto
      <4> QED BY <1>0, <2>0, <3>1, <3>4, <3>6, <4>2 DEF Owned, Pending
    <3> QED BY <3>5, <3>6
  <2>4. CASE WriteError(j)
    <3>1. owner' = owner /\ lease' = lease
      BY <2>4 DEF WriteError, WriteStatus
    <3>2. pc[j] = "publishing" /\ pc' = [pc EXCEPT ![j] = "settling"] /\ Owned(j)
      BY <2>4 DEF WriteError, WriteStatus, Goto, IInv, CriticalSection
    <3>3. status[s] = "syncing" /\ jobSource[j] # s
      BY <1>0, <2>4 DEF WriteError, WriteStatus, ResetInvalidated, Try, Live, Stored
    <3>4. PICK k \in Jobs : Attends(k, s)
      BY <1>1, <1>4, <3>3
    <3>5. k # j
      BY <3>3, <3>4
    <3> QED BY <1>0, <2>0, <3>1, <3>2, <3>4, <3>5 DEF Owned
  <2>5. CASE WriteSyncing(j)
    <3>1. owner' = owner /\ lease' = lease
      BY <2>5 DEF WriteSyncing, WriteStatus
    <3>2. pc' = [pc EXCEPT ![j] = "fetching"] /\ Owned(j)
      BY <2>5 DEF WriteSyncing, WriteStatus, Goto, IInv, CriticalSection
    <3>3. CASE jobSource[j] = s
      BY <1>0, <2>0, <3>1, <3>2, <3>3 DEF Owned, Pending
    <3>4. CASE jobSource[j] # s
      <4>1. status[s] = "syncing"
        BY <1>0, <2>5, <3>4 DEF WriteSyncing, WriteStatus, ResetInvalidated
      <4>2. PICK k \in Jobs : Attends(k, s)
        BY <1>1, <1>4, <4>1
      <4> QED BY <1>0, <2>0, <3>1, <3>2, <3>4, <4>2 DEF Owned
    <3> QED BY <3>3, <3>4
  <2>6. CASE CheckSyncing(j) \/ Fetch(j) \/ SyncResult(j)
    <3>1. owner' = owner /\ lease' = lease
      BY <2>6 DEF CheckSyncing, CheckStatus, Fetch, SyncResult, memVars
    <3>2. status[s] = "syncing" /\ ~(Commit(j) /\ jobSource[j] = s)
      BY <1>0, <2>6 DEF CheckSyncing, CheckStatus, ResetInvalidated, Fetch, SyncResult, Commit, Reject,
         dbVars
    <3>3. PICK k \in Jobs : Attends(k, s)
      BY <1>1, <1>4, <3>2
    <3>4. k # j \/ ~Commit(j)
      BY <3>2, <3>3
    <3>5. \A i \in Jobs : pc'[i] = pc[i] \/ (i = j /\ (Commit(j) \/ pc'[i] \in Pending))
      <4>1. CASE CheckSyncing(j) \/ Fetch(j)
        BY <1>0, <4>1 DEF CheckSyncing, CheckStatus, Fetch, Goto, Pending
      <4>2. CASE SyncResult(j)
        <5>1. CASE Commit(j)
          BY <1>0, <5>1 DEF Commit, Goto
        <5>2. CASE Reject(j)
          BY <1>0, <5>2 DEF Reject, Goto, Pending
        <5> QED BY <4>2, <5>1, <5>2 DEF SyncResult
      <4> QED BY <2>6, <4>1, <4>2
    <3>6. pc'[k] \in Pending
      BY <3>3, <3>4, <3>5
    <3> QED BY <2>0, <3>1, <3>3, <3>6 DEF Owned
  <2>7. CASE MarkRunning(j) \/ StartRun(j) \/ ReadSource(j) \/ FinishJob(j) \/ FinishRun(j)
    <3>1. owner' = owner /\ lease' = lease /\ status' = status /\ pc[j] \notin Pending
      BY <2>7 DEF MarkRunning, StartRun, ReadSource, FinishJob, FinishRun, memVars, dbVars, Pending
    <3>2. PICK k \in Jobs : Attends(k, s)
      BY <1>1, <1>4, <3>1
    <3>3. k # j
      BY <3>1, <3>2
    <3>4. pc'[k] = pc[k]
      BY <1>0, <2>7, <3>3 DEF MarkRunning, StartRun, ReadSource, FinishJob, FinishRun, Goto
    <3> QED BY <2>0, <3>1, <3>2, <3>4 DEF Owned
  <2> QED BY <1>4, <2>1, <2>2, <2>3, <2>4, <2>5, <2>6, <2>7 DEF Worker
<1>5. ASSUME UNCHANGED <<workerVars, memVars, jobSource>>, up, status'[s] = status[s]
      PROVE  \E k \in Jobs : Attends(k, s)'
  BY <1>1, <1>5 DEF workerVars, memVars, Owned
<1>6. CASE Restart
  BY <1>0, <1>6, RestartRecovers DEF RecoverSources
<1>7. ASSUME NEW t \in Sources, CreateSource(t) PROVE \E k \in Jobs : Attends(k, s)'
  BY <1>0, <1>5, <1>7 DEF CreateSource
<1>8. ASSUME NEW t \in Sources, DeleteSource(t) PROVE \E k \in Jobs : Attends(k, s)'
  BY <1>0, <1>5, <1>8 DEF DeleteSource
<1>9. ASSUME NEW e \in Editors, ReadForEdit(e) \/ EditSource(e)
      PROVE  \E k \in Jobs : Attends(k, s)'
  BY <1>5, <1>9 DEF ReadForEdit, EditSource, dbVars
<1>10. ASSUME Quiet \/ UNCHANGED vars PROVE \E k \in Jobs : Attends(k, s)'
  BY <1>5, <1>10 DEF Quiet, vars, dbVars
<1>11. ASSUME NEW j \in Jobs, Worker(j) PROVE up
  <2>1. pc[j] \in Busy
    BY <1>11 DEF Worker, MarkRunning, StartRun, ReadSource, BeginFetch,
       CheckSyncing, WriteSyncing, CheckError, WriteError, CheckStatus, WriteStatus, Fetch,
       SyncResult, FinishJob, FinishRun, Release, Busy, Leased
  <2> QED BY <2>1 DEF IInv, DownIsIdle
<1> QED BY <1>3, <1>4, <1>6, <1>7, <1>8, <1>9, <1>10, <1>11 DEF Next, QueueSync, RetryJob, Crash

-----------------------------------------------------------------------------

\* The records of every reachable state.
LEMMA RecordsInductive == Spec => []RecordsInv
<1>1. Init => RecordsInv
  BY InitIInv DEF Init, RecordsInv, ClaimsAreTrue, OutcomeIsRecorded, RecoveryIsComplete,
     SyncingIsAttended
<1>2. RecordsInv /\ [Next]_vars => RecordsInv'
  BY IInvStep, ClaimsStep, OutcomeStep, RecoveryStep, AttendedStep DEF RecordsInv
<1> QED BY <1>1, <1>2, PTL DEF Spec

\* Whatever overlaps, fails or crashes, a job or a run is recorded as succeeded
\* only if its import committed, and a worker that met no failed statement leaves
\* the outcome in both records (runQueuedSourceSync, finishJob).
THEOREM RecordsAreTheTruth == Spec => []RecordsTellTheTruth
<1>1. RecordsInv => RecordsTellTheTruth
  BY DEF RecordsInv, ClaimsAreTrue, OutcomeIsRecorded, RecordsTellTheTruth, Outcome
<1> QED BY <1>1, RecordsInductive, PTL

\* A "syncing" source always has the worker that will end it: no interleaving of
\* any number of fetches, edits, deletions and restarts strands one
\* (markSourceFetchStatus, resetInvalidatedSourceFetchLocked).
THEOREM NoSyncingIsStranded == Spec => []SyncingIsAttended
BY RecordsInductive, PTL DEF RecordsInv

\* A start ends every record that an earlier process left open
\* (recoverInterruptedJobs).
THEOREM RecoveryEndsEverything == Spec => []RecoveryIsComplete
BY RecordsInductive, PTL DEF RecordsInv

=============================================================================
