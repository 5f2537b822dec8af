-------------------------------- MODULE Feeds --------------------------------
(****************************************************************************)
(* A feed of a source, from the body of its response to the keys an import   *)
(* stores (internal/sources: decode, parse_links, parse_json, refs and       *)
(* xray_hysteria2), and the two requests of an administrator: a preview, and *)
(* an import that fetches the feed again and takes the items chosen from the *)
(* preview.  The provider may publish another body in between.               *)
(*                                                                          *)
(* HMACs and hashes are taken as injective: an item reference is the pair of *)
(* position and text, a fingerprint the material it is computed from.        *)
(****************************************************************************)
EXTENDS Profiles

CONSTANTS
  Bodies,         \* the bodies a provider may have published
  Updated(_),     \* the bodies it may publish after one of them
  MaxItems,       \* MaxImportItems
  MaxUpdates,     \* bound: updates of the provider
  Picks(_),       \* bound: the choices tried of a body, as positions in its preview
  Nothing

\* What a body is made of: the links and the documents it holds.
LinksIn(b) ==
  IF b.content.form # "links" THEN {}
  ELSE {line.link : line \in {x \in ToSet(b.content.lines) : x.form = "uri"}}
DocumentsIn(b) ==
  CASE b.content.form = "links" ->
         {line.document : line \in {x \in ToSet(b.content.lines) : x.form = "json"}}
    [] b.content.form = "document" -> ToSet(b.content.values) \ {Nothing}
    [] OTHER -> {}

\* What a link is split into.
IsLink(l) ==
  /\ l = [scheme |-> l.scheme, form |-> l.form, host |-> l.host, port |-> l.port,
          name |-> l.name, user |-> l.user, query |-> l.query]
  /\ l.query \in Seq(ToSet(l.query)) /\ l.port \in Seq(Seq(STRING))
  /\ \A i \in DOMAIN l.query :
       /\ l.query[i] = [key |-> l.query[i].key, value |-> l.query[i].value, has |-> l.query[i].has]
       /\ l.scheme \in DOMAIN ProtocolOf =>
            NameOf(ProtocolOf[l.scheme], l.query[i].key) \in ToSet(KeyOrder)
  \* The members of a VMess object have one value each.
  /\ l.scheme = "vmess" => \A i, j \in DOMAIN l.query : l.query[i].key = l.query[j].key => i = j
\* What the Hysteria outbound of a document is made of: a link and settings by their names.
IsOutbound(doc) ==
  /\ IsLink(doc.link) /\ doc.link.scheme = "hysteria2" /\ doc.hop \in Seq(Seq(STRING))
  /\ \A name \in DOMAIN doc.settings :
       /\ doc.settings[name] \in Seq(STRING)
       /\ name \in ToSet(KeyOrder) => NameOf("hysteria2", name) \in ToSet(KeyOrder)
FeedLinks == UNION {LinksIn(b) : b \in Bodies}
FeedDocuments == UNION {DocumentsIn(b) : b \in Bodies}

\* A document begins with a brace and a link with its scheme, so no text is both.
ASSUME FeedsAssumption ==
  /\ {MaxItems, MaxUpdates} \subseteq Nat
  /\ UNION {Updated(b) : b \in Bodies} \subseteq Bodies
  /\ \A b \in Bodies :
       /\ b.content.form \in {"empty", "links", "document", "scalar"}
       /\ \A pick \in Picks(b) : pick \in Seq(1..MaxItems)
       /\ b.content.form = "links" => b.content.lines \in Seq(ToSet(b.content.lines))
       /\ b.content.form = "document" => b.content.values \in Seq(ToSet(b.content.values))
  /\ \A link \in FeedLinks : IsLink(link)
  /\ \A doc \in FeedDocuments : IsOutbound(doc)
  /\ FeedLinks \cap FeedDocuments = {}
  /\ \A p \in DOMAIN Names : ~Known(p, "ext") /\ ~Known(p, "EXT")

VARIABLES
  body,      \* what the source answers
  updates,   \* how often it has changed
  preview,   \* the result shown to the administrator, with the body it is of
  import     \* the choice, and what is handed to the synchronisation

feedVars == <<body, updates, preview, import>>

(* A body is plain, or Base64 with ("marked") or without ("bare") the prefix    *)
(* "base64:", which may be unsound.  It holds lines or a JSON document.  A line *)
(* is a comment, a link, a link of another scheme, or a JSON object; an object  *)
(* is described by what the importer asks of it:                                *)
(*   sip008     it is a SIP008 profile          drafts  profileconfig reads it   *)
(*   outbounds  their protocols, in order       marks   both Hysteria versions   *)
(*   shaped     no field the importer does not know                             *)
(*   link, settings, hop  the Hysteria outbound: target, TLS and mask, udpHop    *)
Helpers == {"freedom", "blackhole", "dns"}

--------------------------------------------------------------------------------
(* Items and keys.                                                              *)

\* Mutant: the reference of an item is its position.
RefByLine(raw, line) == <<line>>
Ref(raw, line) == <<line, raw>>
Item(raw, line, status) ==
  [ref |-> Ref(raw, line), line |-> line, status |-> status, readOnly |-> FALSE, warnings |-> {}]
KeyItem(key, status) ==
  [ref |-> key.ref, line |-> key.line, status |-> status, readOnly |-> key.readOnly,
   warnings |-> key.warnings]

Unclear == {"ambiguous_parameter", "conflicting_preference"}
InitialStatus(profile) ==
  IF profile.readOnly THEN "compatibility_only"
  ELSE IF profile.warnings \cap Unclear # {} THEN "ambiguous" ELSE "accepted"

ProfileKey(profile, url, raw, line, status) ==
  [url |-> url, ref |-> Ref(raw, line), line |-> line, print |-> Fingerprint(profile),
   readOnly |-> profile.readOnly, warnings |-> profile.warnings, status |-> status]
\* A document that is kept whole has no fingerprint.
Unprinted == <<>>
LegacyKey(doc, line) ==
  [url |-> doc, ref |-> Ref(doc, line), line |-> line, print |-> Unprinted,
   readOnly |-> FALSE, warnings |-> {}, status |-> "accepted"]

Identity(key) == IF key.print # Unprinted THEN <<"profile", key.print>> ELSE <<"raw", key.url>>

\* A key seen before in the same feed is reported as a duplicate and not kept.
Accept(parsed, key) ==
  IF Identity(key) \in parsed.seen
  THEN [parsed EXCEPT !.items = Append(@, KeyItem(key, "duplicate"))]
  ELSE [keys |-> Append(parsed.keys, key), seen |-> parsed.seen \cup {Identity(key)},
        items |-> Append(parsed.items, KeyItem(key, key.status))]
Report(parsed, item) == [parsed EXCEPT !.items = Append(@, item)]
Empty == [keys |-> <<>>, items |-> <<>>, seen |-> {}]
\* A request answered with an error; a result that is none has at least one key.
Failed == [keys |-> <<>>, items |-> <<>>]

--------------------------------------------------------------------------------
(* JSON documents.                                                              *)

HysteriaOutbounds(doc) == {i \in DOMAIN doc.outbounds : doc.outbounds[i] = "hysteria"}
\* A document with another profile beside the Hysteria one stays a whole.
IsHysteria(doc) ==
  /\ Cardinality(HysteriaOutbounds(doc)) = 1
  /\ \A i \in DOMAIN doc.outbounds : doc.outbounds[i] \in Helpers \cup {"hysteria"}
Version2(marks) ==
  /\ marks # <<"absent", "absent">>
  /\ \A i \in DOMAIN marks : marks[i] \in {"absent", "2"}

\* url.Values.Encode sorts the parameters by name and keeps repeated values in order.
HysteriaPlaces(doc) ==
  UNION {{k} \X DOMAIN doc.settings[KeyOrder[k]] : k \in {x \in DOMAIN KeyOrder : KeyOrder[x] \in DOMAIN doc.settings}}
HysteriaQuery(doc) ==
  LET order == InOrder(HysteriaPlaces(doc))
      Setting(name, n) == [key |-> name, value |-> doc.settings[name][n], has |-> TRUE]
  IN [n \in DOMAIN order |-> Setting(KeyOrder[order[n][1]], order[n][2])]
HysteriaLink(doc) ==
  [doc.link EXCEPT !.port = IF doc.hop # <<>> THEN doc.hop ELSE @, !.query = HysteriaQuery(doc)]
HysteriaProfile(doc) == IF doc.shaped THEN Parse(HysteriaLink(doc)) ELSE Refused

Outbound(parsed, profile, doc, line) ==
  IF profile = Refused THEN Report(parsed, Item(doc, line, "rejected"))
  ELSE Accept(parsed, ProfileKey(profile, Canonical(profile), doc, line, "accepted"))
HysteriaDocument(parsed, doc, line) ==
  IF Version2(doc.marks) THEN Outbound(parsed, HysteriaProfile(doc), doc, line)
  ELSE Report(parsed, Item(doc, line, "unsupported"))

\* What cannot be drafted is a malformed profile when a link could have carried it.
Undraftable(doc) ==
  LET named == SelectSeq(doc.outbounds, LAMBDA p : p \notin {"", "broken"})
  IN IF named = <<>> \/ Head(named) \in {"vless", "vmess", "trojan"} THEN "rejected" ELSE "unsupported"

Document(parsed, doc, line) ==
  CASE doc.sip008 -> Report(parsed, Item(doc, line, "unsupported"))
    [] ~doc.sip008 /\ IsHysteria(doc) -> HysteriaDocument(parsed, doc, line)
    [] ~doc.sip008 /\ ~IsHysteria(doc) /\ doc.drafts -> Accept(parsed, LegacyKey(doc, line))
    [] OTHER -> Report(parsed, Item(doc, line, Undraftable(doc)))

\* An array may hold what is no object.
Element(parsed, value, line) ==
  IF value = Nothing THEN Report(parsed, Item("invalid-json-item", line, "rejected"))
  ELSE Document(parsed, value, line)

--------------------------------------------------------------------------------
(* Lists of links.                                                              *)

UriLine(parsed, profile, link, line) ==
  IF profile = Refused THEN Report(parsed, Item(link, line, "rejected"))
  ELSE Accept(parsed, ProfileKey(profile, link, link, line, InitialStatus(profile)))

\* Mutant: the key of an object is compared with no other.
JsonLineApart(parsed, own) ==
  [parsed EXCEPT !.keys = @ \o own.keys, !.items = @ \o own.items]

\* The object is parsed by itself, which yields one key or one item: its key is compared with
\* the keys of the list, and an item is reported only if it was rejected.
JsonLine(parsed, own) ==
  IF own.keys # <<>> THEN Accept(parsed, own.keys[1])
  ELSE IF own.items[1].status = "rejected" THEN Report(parsed, own.items[1]) ELSE parsed

ParseLine(parsed, line, n) ==
  CASE line.form = "comment" -> parsed
    [] line.form = "uri" -> UriLine(parsed, Parse(line.link), line.link, n)
    [] line.form = "json" -> JsonLine(parsed, Document(Empty, line.document, n))
    [] OTHER -> Report(parsed, Item(line, n, "unsupported"))

--------------------------------------------------------------------------------
(* Both are read one entry after the other.                                     *)

AppendEntry(parsed, form, entry, n) ==
  IF form = "links" THEN ParseLine(parsed, entry, n) ELSE Element(parsed, entry, n)

\* The result after each number of entries.
Collected(form, entries) ==
  LET after[n \in 0..Len(entries)] ==
        IF n = 0 THEN Empty ELSE AppendEntry(after[n - 1], form, entries[n], n)
  IN after

ParseLinks(lines) ==
  IF Len(lines) > MaxItems THEN Failed ELSE Collected("links", lines)[Len(lines)]

ParseJson(content) ==
  IF content.form = "scalar" \/ Len(content.values) > MaxItems THEN Failed
  ELSE Collected("document", content.values)[Len(content.values)]

--------------------------------------------------------------------------------
(* Bodies.                                                                      *)

Recognised(content) ==
  \/ content.form \in {"document", "scalar"}
  \/ content.form = "links" /\ \E i \in DOMAIN content.lines :
        content.lines[i].form \in {"uri", "foreign"}

\* Base64 is an explicit attempt: what does not decode to a known format is an error.
Decoded(b) ==
  CASE b.wrap = "plain" -> b.content
    [] b.wrap # "plain" /\ b.sound /\ Recognised(b.content) -> b.content
    [] OTHER -> Failed

ParseBody(b) ==
  LET content == Decoded(b)
  IN CASE content = Failed -> Failed
       [] content # Failed /\ content.form = "empty" -> Failed
       [] content # Failed /\ content.form = "links" -> ParseLinks(content.lines)
       [] OTHER -> ParseJson(content)

Kept(parsed) ==
  IF parsed = Failed THEN Failed
  ELSE IF parsed.keys = <<>> \/ Len(parsed.items) > MaxItems THEN Failed
  ELSE [keys |-> parsed.keys, items |-> parsed.items]
Fetched(b) == Kept(ParseBody(b))

\* The chosen keys in the order of the choice; an unknown or a repeated reference is refused.
FilterSelection(parsed, chosen) ==
  LET refs == {parsed.keys[k].ref : k \in DOMAIN parsed.keys}
      KeyOf(ref) == CHOOSE key \in ToSet(parsed.keys) : key.ref = ref
  IN IF chosen = <<>> THEN parsed
     ELSE IF ~(ToSet(chosen) \subseteq refs) \/ ~IsInjective(chosen) THEN Failed
     ELSE [keys |-> [n \in DOMAIN chosen |-> KeyOf(chosen[n])],
           items |-> SelectSeq(parsed.items, LAMBDA item : item.ref \in ToSet(chosen))]

--------------------------------------------------------------------------------
FeedsInit ==
  /\ body \in Bodies /\ updates = 0
  /\ preview = Nothing /\ import = Nothing

Update ==
  /\ updates < MaxUpdates
  /\ body' \in Updated(body)
  /\ updates' = updates + 1
  /\ UNCHANGED <<preview, import>>

Preview ==
  /\ preview = Nothing
  /\ preview' = [of |-> body, parsed |-> Fetched(body)]
  /\ UNCHANGED <<body, updates, import>>

Import ==
  /\ import = Nothing /\ preview # Nothing /\ preview.parsed # Failed
  /\ LET parsed == Fetched(body)
         shown == preview.parsed.items
     IN \E pick \in Picks(preview.of) :
          /\ ToSet(pick) \subseteq DOMAIN shown
          /\ LET chosen == [n \in DOMAIN pick |-> shown[pick[n]].ref]
             IN import' = [chosen |-> chosen,
                           parsed |-> IF parsed = Failed THEN Failed ELSE FilterSelection(parsed, chosen)]
  /\ UNCHANGED <<body, updates, preview>>

\* The administrator begins again.
Again ==
  /\ preview # Nothing
  /\ preview' = Nothing /\ import' = Nothing
  /\ UNCHANGED <<body, updates>>

FeedsNext == Update \/ Preview \/ Import \/ Again
FeedsSpec == FeedsInit /\ [][FeedsNext]_feedVars

--------------------------------------------------------------------------------
(* Reference: when two links are the same profile, told by rewriting them.      *)

Swapped(query, i, j) == [query EXCEPT ![i] = query[j], ![j] = query[i]]
Spellings(p, parameter) ==
  LET all == {a \in UNION {ToSet(row) : row \in Names[p]} : NameOf(p, a) = NameOf(p, parameter.key)}
      bare == Trim(parameter.value) \in DOMAIN NumberOf
  IN {a \in all : bare => (Lower(a) \in InMilliseconds <=> Lower(parameter.key) \in InMilliseconds)}

\* Another name or host spelling, parameters of different names in another order, an alias.
Presentations(l) ==
  LET p == ProtocolOf[l.scheme]
      q == l.query
  IN {[l EXCEPT !.name = "another"]}
     \cup {[l EXCEPT !.host = h] : h \in {x \in DOMAIN HostOf : HostOf[x] = Convert(HostOf, l.host)}}
     \cup {[l EXCEPT !.scheme = s] : s \in {x \in DOMAIN ProtocolOf : ProtocolOf[x] = p}}
     \cup {[l EXCEPT !.query = Swapped(q, i, i + 1)] :
             i \in {x \in 1..Len(q) - 1 : NameOf(p, q[x].key) # NameOf(p, q[x + 1].key)}}
     \cup UNION {{[l EXCEPT !.query[i].key = a] : a \in Spellings(p, q[i])} :
                   i \in {x \in DOMAIN q : Known(p, q[x].key)}}

\* Repeated values in another order, one of them left out, an extension added or renamed.
Changes(l) ==
  LET p == ProtocolOf[l.scheme]
      q == l.query
      repeats == {ij \in (DOMAIN q) \X (DOMAIN q) :
                    ij[1] < ij[2] /\ NameOf(p, q[ij[1]].key) = NameOf(p, q[ij[2]].key)}
  IN {[l EXCEPT !.query = RemoveAt(q, ij[2])] : ij \in repeats}
     \cup {[l EXCEPT !.query = Swapped(q, ij[1], ij[2])] :
             ij \in {x \in repeats : q[x[1]].value # q[x[2]].value}}
     \cup {[l EXCEPT !.query = Append(q, [key |-> "ext", value |-> "1", has |-> TRUE])]}
     \cup {[l EXCEPT !.query[i].key = "EXT"] : i \in {x \in DOMAIN q : q[x].key = "ext"}}
     \cup {[l EXCEPT !.port = <<<<"8443">>>>] : x \in {y \in {l.port} : Port(y) # Port(<<<<"8443">>>>)}}

Shown == IF preview = Nothing THEN Failed ELSE preview.parsed
Links == IF preview.of.content.form = "links"
         THEN {n \in DOMAIN preview.of.content.lines : preview.of.content.lines[n].form = "uri"} ELSE {}
LinkAt(n) == preview.of.content.lines[n].link
ItemOf(n) == CHOOSE item \in ToSet(Shown.items) : item.line = n

\* Two keys of a feed never are one profile.
KeysDiffer ==
  \A k, m \in DOMAIN Shown.keys : Identity(Shown.keys[k]) = Identity(Shown.keys[m]) => k = m

\* A readable link is a key or a duplicate of one.
ReadableLinksAreKeys ==
  \A n \in Links : Parse(LinkAt(n)) # Refused =>
    \E key \in ToSet(Shown.keys) : key.print = Fingerprint(Parse(LinkAt(n)))

\* A line that presents a profile in another way than an earlier one is a duplicate.
PresentationsAreDuplicates ==
  \A n, m \in Links :
    /\ n < m /\ Parse(LinkAt(n)) # Refused /\ Parse(LinkAt(m)) # Refused
    /\ LinkAt(m) \in Presentations(LinkAt(n))
    => ItemOf(m).status = "duplicate"

\* In a list of links, a line is no duplicate if it changes what a client does by each of the
\* earlier ones.
ChangesAreNoDuplicates ==
  DocumentsIn(preview.of) = {} =>
    \A m \in Links :
      /\ Parse(LinkAt(m)) # Refused
      /\ \A n \in Links : n < m /\ Parse(LinkAt(n)) # Refused => LinkAt(m) \in Changes(LinkAt(n))
      => ItemOf(m).status # "duplicate"

\* A feed yields one key for each profile, whatever ways its lines write it
\* (appendExternalParsedItem over the fingerprints of all six adapters).
OneKeyPerProfile ==
  Shown # Failed =>
    KeysDiffer /\ ReadableLinksAreKeys /\ PresentationsAreDuplicates /\ ChangesAreNoDuplicates

\* The parameter that carried a credential is left out of the canonical link, so a repetition
\* of it becomes its only occurrence (canonicalQuery's omitFirst).
RepeatsCredential(profile) ==
  profile.protocol = "tuic" /\ \E line \in Extras("tuic", profile.query) : line[1] \in Credentials

ReadsBack(profile, link) ==
  \E again \in {Parse(link)} :
    again # Refused /\ Fingerprint(again) = Fingerprint(profile) /\ Canonical(again) = link

\* What is stored for a key can be read back: its link parses to the fingerprint of the key,
\* its canonical link too, and the canonical link of that is itself (SemanticallyStable).
StoredLinkKeepsIdentity ==
  Shown # Failed =>
    \A key \in ToSet(Shown.keys) : key.print # Unprinted =>
      \E profile \in {Parse(key.url)} :
        /\ profile # Refused
        /\ Fingerprint(profile) = key.print
        /\ profile.readOnly \/ RepeatsCredential(profile) \/ ReadsBack(profile, Canonical(profile))

\* An import hands over exactly the profiles that were chosen, in the order of the choice: as
\* the administrator saw them, or nothing at all when the feed has changed under a reference;
\* and it does not refuse a choice of previewed keys from an unchanged feed.
SelectionIsExact ==
  import # Nothing /\ import.chosen # <<>> =>
    IF import.parsed # Failed
    THEN /\ Len(import.parsed.keys) = Len(import.chosen)
         /\ \A n \in DOMAIN import.chosen :
              \E item \in ToSet(Shown.items) :
                /\ item.ref = import.chosen[n] /\ import.parsed.keys[n].ref = item.ref
                /\ \A key \in ToSet(Shown.keys) :
                     key.ref = item.ref => key = import.parsed.keys[n]
         /\ \A n, m \in DOMAIN import.parsed.keys :
              Identity(import.parsed.keys[n]) = Identity(import.parsed.keys[m]) => n = m
    ELSE updates = 0 => \/ \E n \in DOMAIN import.chosen :
                             \A key \in ToSet(Shown.keys) : key.ref # import.chosen[n]
                        \/ ~IsInjective(import.chosen)
=============================================================================
