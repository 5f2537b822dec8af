------------------------------- MODULE Profiles -------------------------------
(*****************************************************************************)
(* The codecs of internal/profiles: what the adapter of each protocol reads   *)
(* from a share link, the canonical link it writes and the material the       *)
(* fingerprint of a profile is computed from.                                *)
(*                                                                           *)
(* A link is what the grammar of the URI (or the JSON object of VMess) splits *)
(* it into:                                                                  *)
(*   scheme, host, name                                                      *)
(*   user    the parts of the user information, as many as ":" separates     *)
(*   form    how they are written: "plain", "base64" or "legacy" (the whole  *)
(*           authority in Base64)                                            *)
(*   port    the items of the port expression, each with its bounds          *)
(*   query   the parameters in their order: key, value, and whether "=" is   *)
(*           there; for VMess the other members of the object                *)
(* Text is atomic; what the code does to it (lower case, trimming, numbers,   *)
(* durations, host names) is given by the conversions below.                 *)
(*****************************************************************************)
EXTENDS Integers, FiniteSets, Sequences, SequencesExt, TLC

CONSTANTS
  LowerOf, TrimOf,     \* strings.ToLower and TrimSpace where they change a text
  NumberOf,            \* the texts that are decimal numbers
  DurationOf,          \* the texts time.ParseDuration reads, in milliseconds
  HostOf, PinOf,       \* normal forms of host names and certificate pins
  Uuids, NearUuids,    \* texts that are, or only look like, a UUID
  Secrets2022,         \* for each text that starts with 2022- the keys it takes as a method:
                       \* those of the right length, none if there is no such method
  KeyOrder             \* every parameter name, in the order of its bytes

Converts(f) == \A x \in DOMAIN f : f[x] \in DOMAIN f => f[f[x]] = f[x]
ASSUME ProfilesAssumption ==
  /\ \A f \in {LowerOf, TrimOf, HostOf, PinOf} : Converts(f)
  /\ \A f \in {HostOf, PinOf} : \A x \in DOMAIN f : f[x] \in DOMAIN f
  /\ KeyOrder \in Seq(STRING) /\ \A i, j \in DOMAIN KeyOrder : KeyOrder[i] = KeyOrder[j] => i = j

NoText == ""     \* what a text is compared with
Refused == <<>>  \* the result for a link that is not accepted
Convert(f, text) == IF text \in DOMAIN f THEN f[text] ELSE text
Lower(text) == Convert(LowerOf, text)
Trim(text) == Convert(TrimOf, text)

ProtocolOf == [vless |-> "vless", trojan |-> "trojan", vmess |-> "vmess", ss |-> "shadowsocks",
               hysteria2 |-> "hysteria2", hy2 |-> "hysteria2", tuic |-> "tuic"]
SchemeOf == [vless |-> "vless", trojan |-> "trojan", vmess |-> "vmess", shadowsocks |-> "ss",
             hysteria2 |-> "hysteria2", tuic |-> "tuic"]

--------------------------------------------------------------------------------
(* Parameters: the canonical name, its spellings and how its value is read.    *)

\* Each row: a canonical name, and its other spellings.
TuicNames ==
  {<<"token">>, <<"uuid">>, <<"password">>, <<"sni", "servername", "server_name">>, <<"alpn">>,
   <<"skip-cert-verify", "skip_cert_verify", "insecure", "allow_insecure">>,
   <<"disable-sni", "disable_sni">>, <<"congestion-controller", "congestion_control">>,
   <<"udp-relay-mode", "udp_relay_mode">>, <<"udp-over-stream", "udp_over_stream">>,
   <<"zero-rtt", "zero_rtt", "zero-rtt-handshake", "zero_rtt_handshake", "reduce-rtt", "reduce_rtt">>,
   <<"heartbeat", "heartbeat-interval", "heartbeat_interval">>,
   <<"request-timeout", "request_timeout">>, <<"fast-open", "fast_open">>,
   <<"max-open-streams", "max_open_streams">>,
   <<"max-udp-relay-packet-size", "max_udp_relay_packet_size">>}

\* Only the pin is written with capitals; parameters are looked up in lower case.
HysteriaNames ==
  {<<"obfs">>, <<"obfs-password">>, <<"sni">>, <<"insecure">>, <<"pinSHA256", "pinsha256">>}

Names == [vless |-> {}, trojan |-> {}, vmess |-> {}, shadowsocks |-> {<<"plugin">>},
          hysteria2 |-> HysteriaNames, tuic |-> TuicNames]
Aliases == [p \in DOMAIN Names |->
  [a \in {Lower(x) : x \in UNION {ToSet(row) : row \in Names[p]}} |->
     Head(CHOOSE row \in Names[p] : a \in ToSet(row))]]

Known(p, key) == Lower(key) \in DOMAIN Aliases[p]
NameOf(p, key) == IF Known(p, key) THEN Aliases[p][Lower(key)] ELSE key
\* A name is known in lower case too, and is a spelling of one parameter.
ASSUME NamesAssumption ==
  \A p \in DOMAIN Names : \A row, other \in Names[p] : \A x \in ToSet(row) :
    Lower(x) \in ToSet(row) /\ (x \in ToSet(other) => row = other)
\* The spellings for which a bare number is a time in milliseconds.
InMilliseconds == {"heartbeat-interval", "heartbeat_interval", "request-timeout", "request_timeout"}

Credentials == {"token", "uuid", "password"}
Fields(p) == {Head(row) : row \in Names[p]} \ (IF p = "tuic" THEN Credentials ELSE {})
Flags == {"skip-cert-verify", "disable-sni", "udp-over-stream", "zero-rtt", "fast-open", "insecure"}
LowerCase == {"sni", "obfs", "congestion-controller", "udp-relay-mode"}
Times == {"heartbeat", "request-timeout"}
MaxCount ==
  [field \in {"max-open-streams", "max-udp-relay-packet-size"} |->
     IF field = "max-open-streams" THEN 2147483647 ELSE 65535]

Bad == "bad"
Unset == "unset"
Default(field) ==
  CASE field \in Flags -> "0"
    [] field = "congestion-controller" -> "cubic"
    [] field = "udp-relay-mode" -> "native"
    [] OTHER -> Unset

Flag(text, words) ==
  CASE text \in {"1"} \cup (words \cap {"true"}) -> "1"
    [] text \in {"0"} \cup (words \cap {"false"}) -> "0"
    [] OTHER -> Bad

\* duration.String() of whole seconds, or of less than one second.
TimeText(ms) == IF ms % 1000 = 0 THEN ToString(ms \div 1000) \o "s" ELSE ToString(ms) \o "ms"
Time(key, text) ==
  LET ms == IF text \in DOMAIN NumberOf /\ Lower(key) \in InMilliseconds THEN NumberOf[text]
            ELSE IF text \in DOMAIN DurationOf THEN DurationOf[text] ELSE 0
  IN IF ms <= 0 THEN Bad ELSE TimeText(ms)

Count(field, text) ==
  IF text \in DOMAIN NumberOf /\ NumberOf[text] \in 1..MaxCount[field]
  THEN ToString(NumberOf[text]) ELSE Bad

\* The value of a field as the adapter keeps it, from the parameter that carries it.
\* Only the password of the obfuscation may be blank.
Reading(p, field, parameter) ==
  LET text == IF field = "obfs-password" THEN parameter.value ELSE Trim(parameter.value)
  IN IF text = NoText THEN Bad
     ELSE CASE field \in Flags -> Flag(Lower(text), IF p = "tuic" THEN {"true", "false"} ELSE {})
            [] field \in LowerCase -> Lower(text)
            [] field \in Times -> Time(parameter.key, text)
            [] field \in DOMAIN MaxCount -> Count(field, text)
            [] field = "pinSHA256" -> IF text \in DOMAIN PinOf THEN PinOf[text] ELSE Bad
            [] OTHER -> text

Occurrences(p, query, name) == {i \in DOMAIN query : NameOf(p, query[i].key) = name}
\* The first occurrence of a known parameter is the one the adapter reads.
Reads(p, query, i) ==
  /\ Known(p, query[i].key)
  /\ \A j \in Occurrences(p, query, NameOf(p, query[i].key)) : i <= j
Has(p, query, name) == \E i \in DOMAIN query : Reads(p, query, i) /\ NameOf(p, query[i].key) = name
Reader(p, query, name) == query[CHOOSE i \in Occurrences(p, query, name) : Reads(p, query, i)]
Value(p, query, name) == IF Has(p, query, name) THEN Reader(p, query, name).value ELSE NoText

Data(p, query) ==
  [f \in Fields(p) |-> IF Has(p, query, f) THEN Reading(p, f, Reader(p, query, f)) ELSE Default(f)]

\* A repeated parameter is kept and reported; a conflicting one makes the profile ambiguous.
RepeatWarnings(p, query) ==
  LET Repeats(i, j) == i < j /\ NameOf(p, query[i].key) = NameOf(p, query[j].key)
      Same(i, j) == query[i].value = query[j].value /\ query[i].has = query[j].has
      pairs == {ij \in (DOMAIN query) \X (DOMAIN query) : Repeats(ij[1], ij[2])}
  IN {"ambiguous_parameter" : ij \in {x \in pairs : ~Same(x[1], x[2])}}
     \cup {"duplicate_parameter" : ij \in {x \in pairs :
              \A y \in pairs : NameOf(p, query[y[1]].key) = NameOf(p, query[x[1]].key) => Same(y[1], y[2])}}

\* What a conversion has written is read as it stands: texts in lower case, UUIDs and pins,
\* the digits of a number (443 is the port of a link without one) and durations.
Plain(text) == text # NoText /\ Trim(text) = text
ASSUME ConversionsAssumption ==
  /\ {NoText, "0", "1"} \cap (DOMAIN TrimOf \cup DOMAIN LowerOf) = {}
  /\ \A x \in DOMAIN LowerOf : LowerOf[x] # NoText /\ (Plain(x) => Plain(LowerOf[x]))
  /\ NoText \notin Uuids /\ \A x \in Uuids : Lower(x) \in Uuids
  /\ \A x \in DOMAIN PinOf : Plain(PinOf[x])
  /\ \A n \in {NumberOf[x] : x \in DOMAIN NumberOf} \cup {443} :
       n \in Nat /\ Plain(ToString(n)) /\ ToString(n) \in DOMAIN NumberOf /\ NumberOf[ToString(n)] = n
  /\ \A ms \in {NumberOf[x] : x \in DOMAIN NumberOf} \cup {DurationOf[x] : x \in DOMAIN DurationOf} :
       ms \in Int /\ (ms > 0 => /\ Plain(TimeText(ms)) /\ TimeText(ms) \notin DOMAIN NumberOf
                                /\ TimeText(ms) \in DOMAIN DurationOf /\ DurationOf[TimeText(ms)] = ms)

--------------------------------------------------------------------------------
(* Hosts, ports and credentials.                                              *)

Number(text) == IF text \in DOMAIN NumberOf THEN NumberOf[text] ELSE 0
PortBounds(item) == [i \in DOMAIN item |-> Number(item[i])]
MaxPort == 65535
GoodItem(item) ==
  /\ Len(item) \in 1..2
  /\ \A i \in DOMAIN item : Number(item[i]) \in 1..MaxPort
  /\ Number(item[1]) <= Number(item[Len(item)])
\* An omitted port is 443, but for Shadowsocks and TUIC; only Hysteria 2 hops ports.
GoodPort(p, port) ==
  /\ port = <<>> => p \notin {"shadowsocks", "tuic"}
  /\ \A i \in DOMAIN port : GoodItem(port[i])
  /\ p = "hysteria2" \/ (Len(port) <= 1 /\ \A i \in DOMAIN port : Len(port[i]) = 1)
Port(port) ==
  IF port = <<>> THEN <<<<443>>>>
  ELSE [i \in DOMAIN port |->
          IF Number(port[i][1]) = Number(port[i][Len(port[i])])
          THEN <<Number(port[i][1])>> ELSE PortBounds(port[i])]

\* A method and a password; the keys of 2022 methods are plain and of one length, and
\* a method that only looks like one of them has none.
MethodAndPassword(user) == Len(user) = 2 /\ Trim(user[1]) # NoText /\ user[2] # NoText
Key2022(method, l) ==
  method \in DOMAIN Secrets2022 => l.form = "plain" /\ l.user[2] \in Secrets2022[method]
ShadowsocksCredential(l) ==
  IF ~MethodAndPassword(l.user) THEN Refused
  ELSE LET method == Lower(Trim(l.user[1]))
       IN IF Key2022(method, l) THEN <<method, l.user[2]>> ELSE Refused

(* TUIC has no share URI of its own: a token is generation 4, a UUID and a      *)
(* password, wherever they are, generation 5, and a mixture is refused.         *)
TuicChoice(user, token, ownUuid, ownPassword) ==
  LET pair == Len(user) = 2
      single == IF Len(user) = 1 THEN user[1] ELSE NoText
      alone == single # NoText /\ token = NoText /\ ownUuid = NoText
      isId == alone /\ ownPassword # NoText
      uuid == IF isId THEN single ELSE ownUuid
      v5 == pair \/ uuid # NoText \/ ownPassword # NoText
      v4 == token # NoText \/ (single # NoText /\ ownPassword = NoText)
      Either(a, b) == IF b # NoText THEN b ELSE a
      given == IF pair THEN user ELSE <<NoText, NoText>>
      id == Either(given[1], uuid)
      password == Either(given[2], ownPassword)
      mixed == \/ v4 <=> v5
               \/ alone /\ ~isId /\ single \in Uuids \cup NearUuids
               \/ single # NoText /\ token \notin {NoText, single}
      good5 == /\ given[1] # NoText => uuid \in {NoText, given[1]}
               /\ given[2] # NoText => ownPassword \in {NoText, given[2]}
               /\ id \in Uuids /\ password # NoText
  IN IF mixed THEN Refused
     ELSE IF v4 THEN <<"4", Either(single, token)>>
     ELSE IF good5 THEN <<"5", Lower(id), password>> ELSE Refused

TuicCredential(user, query) ==
  IF \E c \in Credentials : \E i, j \in Occurrences("tuic", query, c) : query[i].value # query[j].value
  THEN Refused
  ELSE TuicChoice(user, Value("tuic", query, "token"), Value("tuic", query, "uuid"),
                  Value("tuic", query, "password"))

Credential(p, l) ==
  CASE p = "tuic" -> TuicCredential(l.user, l.query)
    [] p = "shadowsocks" -> ShadowsocksCredential(l)
    [] OTHER -> IF l.user \in {<<>>, <<NoText>>} THEN Refused ELSE l.user

--------------------------------------------------------------------------------
(* Parse: the adapter's Parse and Validate.                                   *)

GoodHysteria(data) ==
  /\ data["obfs"] \in {Unset, "salamander", "gecko"}
  /\ data["obfs"] # Unset => data["obfs-password"] # Unset
GoodTuic(query, data) ==
  /\ data["congestion-controller"] \in {"cubic", "new_reno", "bbr"}
  /\ data["udp-relay-mode"] \in {"native", "quic"}
  /\ ~(data["udp-over-stream"] = "1" /\ Has("tuic", query, "udp-relay-mode"))
GoodData(p, query, data) ==
  /\ \A f \in DOMAIN data : data[f] # Bad
  /\ "sni" \in DOMAIN data => data["sni"] \in DOMAIN HostOf \cup {Unset}
  /\ p = "hysteria2" => GoodHysteria(data)
  /\ p = "tuic" => GoodTuic(query, data)

GoodQuery(p, query) ==
  \A i \in DOMAIN query : Known(p, query[i].key) => query[i].has /\ query[i].value # NoText

\* The members of a VMess object have one value each.
Repeatable(p, l) == IF p = "vmess" THEN <<>> ELSE l.query

Warnings(p, l, data, readOnly) ==
  LET raised == [legacy_input |-> l.form = "legacy",
                 non_canonical_scheme |-> l.scheme = "hy2",
                 client_version_sensitive |-> p = "hysteria2" /\ data["obfs"] = "gecko",
                 conflicting_preference |-> p = "tuic" /\ data["disable-sni"] = "1" /\ data["sni"] # Unset,
                 compatibility_only |-> readOnly]
  IN RepeatWarnings(p, Repeatable(p, l)) \cup {w \in DOMAIN raised : raised[w]}

Profile(l, p, data, credential, readOnly) ==
  [protocol |-> p, server |-> HostOf[l.host], port |-> Port(l.port), name |-> l.name,
   credential |-> credential, data |-> data, query |-> l.query, readOnly |-> readOnly,
   warnings |-> Warnings(p, l, data, readOnly)]

Validate(l, p, data, credential) ==
  IF /\ GoodPort(p, l.port) /\ GoodQuery(p, l.query)
     /\ credential # Refused /\ GoodData(p, l.query, data)
  THEN Profile(l, p, data, credential, p = "tuic" /\ credential[1] = "4") ELSE Refused

ParseAs(l, p) == Validate(l, p, Data(p, l.query), Credential(p, l))
Parse(l) ==
  IF l.scheme \in DOMAIN ProtocolOf /\ l.host \in DOMAIN HostOf
  THEN ParseAs(l, ProtocolOf[l.scheme]) ELSE Refused

--------------------------------------------------------------------------------
(* Serialize(CanonicalSerialization) and FingerprintInput.                    *)

Entry(p, parameter) == [parameter EXCEPT !.key = NameOf(p, parameter.key)]

\* A stable sort by two numbers.
Precedes(a, b) == a[1] < b[1] \/ (a[1] = b[1] /\ a[2] < b[2])
Rank(places, x) == Cardinality({y \in places : Precedes(y, x)})
InOrder(places) == [n \in 1..Cardinality(places) |-> CHOOSE x \in places : Rank(places, x) = n - 1]

\* VMess: the members of the object that only name the profile.
DisplayMembers == {"ps", "remark", "remarks", "tag", "serverDescription"}
Connects(p, parameter) == p = "vmess" => parameter.key \notin DisplayMembers

\* What the fields do not say, one line each: later occurrences, and extensions by their exact
\* names.  The values of one name are counted in their order, the names among each other are not.
Extras(p, query) ==
  LET kept == {i \in DOMAIN query : ~Reads(p, query, i) /\ Connects(p, query[i])}
      Earlier(i) == {j \in kept : j < i /\ NameOf(p, query[j].key) = NameOf(p, query[i].key)}
  IN {<<NameOf(p, query[i].key), query[i].has, Cardinality(Earlier(i)), query[i].value>> : i \in kept}

Fingerprint(profile) ==
  <<profile.protocol, profile.server, profile.port, profile.credential, profile.data,
    Extras(profile.protocol, profile.query)>>

Primary(profile, name) ==
  /\ name \in DOMAIN profile.data
  /\ profile.data[name] # Default(name) \/ Has(profile.protocol, profile.query, name)

\* The fields, by the place of their name, and what was kept, by that of its name and its own.
FieldPlaces(profile) == {<<k, 0>> : k \in {x \in DOMAIN KeyOrder : Primary(profile, KeyOrder[x])}}
ParameterPlaces(profile, written) ==
  {place \in (DOMAIN KeyOrder) \X written :
     KeyOrder[place[1]] = NameOf(profile.protocol, profile.query[place[2]].key)}

\* Mutant: of a repeated parameter the first value alone is written.
FirstPlaces(profile) ==
  FieldPlaces(profile)
  \cup ParameterPlaces(profile, {i \in DOMAIN profile.query : ~Known(profile.protocol, profile.query[i].key)})

Replaced(profile, i) ==
  LET name == NameOf(profile.protocol, profile.query[i].key)
  IN Reads(profile.protocol, profile.query, i) /\ (Primary(profile, name) \/ name \in Credentials)
CanonicalPlaces(profile) ==
  FieldPlaces(profile) \cup ParameterPlaces(profile, {i \in DOMAIN profile.query : ~Replaced(profile, i)})

CanonicalEntry(profile, place) ==
  LET name == KeyOrder[place[1]]
  IN IF place[2] = 0 THEN [key |-> name, value |-> profile.data[name], has |-> TRUE]
     ELSE Entry(profile.protocol, profile.query[place[2]])

\* Sorted by name, a field before what was kept, and that in the order of the link.
CanonicalQuery(profile) ==
  LET order == InOrder(CanonicalPlaces(profile))
  IN [n \in DOMAIN order |-> CanonicalEntry(profile, order[n])]

PortText(port) == [i \in DOMAIN port |-> [b \in DOMAIN port[i] |-> ToString(port[i][b])]]

CanonicalUser(profile) ==
  IF profile.protocol = "tuic" THEN <<profile.credential[2], profile.credential[3]>>
  ELSE profile.credential

CanonicalForm(profile) ==
  IF profile.protocol = "shadowsocks" /\ profile.credential[1] \notin DOMAIN Secrets2022
  THEN "base64" ELSE "plain"

\* A read-only profile has no canonical link.
Canonical(profile) ==
  IF profile.readOnly THEN Refused
  ELSE [scheme |-> SchemeOf[profile.protocol], host |-> profile.server,
        user |-> CanonicalUser(profile), form |-> CanonicalForm(profile),
        port |-> PortText(profile.port), query |-> CanonicalQuery(profile), name |-> profile.name]
=============================================================================
