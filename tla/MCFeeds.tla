------------------------------- MODULE MCFeeds -------------------------------
(****************************************************************************)
(* Feeds for TLC.  The feeds are of three families: a link beside another    *)
(* presentation or a change of it, for links of every protocol with up to    *)
(* three parameters; lines and documents of every form, which the provider   *)
(* replaces by one another; and bodies in and out of Base64.                 *)
(****************************************************************************)
EXTENDS Feeds

MCLowerOf == ("SNI" :> "sni") @@ ("EXT" :> "ext") @@ ("pinSHA256" :> "pinsha256") @@ ("A.example" :> "a.example")
             @@ ("TRUE" :> "true") @@ ("BBR" :> "bbr") @@ ("ID-1" :> "id-1")
             @@ ("AES-128-GCM" :> "aes-128-gcm")
MCTrimOf == (" h3" :> "h3") @@ (" " :> "") @@ ("aes-128-gcm " :> "aes-128-gcm")
MCNumberOf == ("0" :> 0) @@ ("1" :> 1) @@ ("3000" :> 3000) @@ ("443" :> 443) @@ ("8443" :> 8443)
              @@ ("0443" :> 443) @@ ("65535" :> 65535) @@ ("65536" :> 65536)
MCDurationOf == ("3s" :> 3000) @@ ("3000ms" :> 3000) @@ ("0" :> 0)
                @@ ("1ms" :> 1) @@ ("443ms" :> 443) @@ ("8443ms" :> 8443) @@ ("65535ms" :> 65535) @@ ("65536ms" :> 65536)
MCHostOf == ("a.example" :> "a.example") @@ ("A.example" :> "a.example")
            @@ ("[2001:0db8::1]" :> "2001:db8::1") @@ ("2001:db8::1" :> "2001:db8::1")
MCPinOf == ("aabb" :> "aabb") @@ ("AA:BB" :> "aabb")
MCSecrets2022 == ("2022-blake3-aes-128-gcm" :> {"key16"}) @@ ("2022-blake3" :> {})
MCKeyOrder == <<"EXT", "Type", "alpn", "congestion-controller", "disable-sni", "ext", "fast-open", "fp",
  "heartbeat", "insecure", "max-open-streams", "max-udp-relay-packet-size", "net", "obfs",
  "obfs-password", "password", "pinSHA256", "plugin", "remarks", "request-timeout", "skip-cert-verify", "sni",
  "token", "type", "udp-over-stream", "udp-relay-mode", "uuid", "zero-rtt">>

Arg(key, value) == [key |-> key, value |-> value, has |-> TRUE]
Base(scheme) ==
  [scheme |-> scheme, form |-> "plain", host |-> "A.example", port |-> <<<<"443">>>>, name |-> "one",
   user |-> IF scheme \in {"ss", "tuic"} THEN <<"AES-128-GCM", "pw">> ELSE <<"ID-1">>, query |-> <<>>]

Pool == [
  vless |-> {Arg("type", "ws"), Arg("Type", "ws"), Arg("type", "tcp"), Arg("ext", "1"),
             [Arg("ext", "") EXCEPT !.has = FALSE]},
  ss |-> {Arg("plugin", "obfs"), Arg("plugin", "v2ray"), Arg("ext", "1"), Arg("plugin", " ")},
  hysteria2 |-> {Arg("obfs", "salamander"), Arg("obfs", "other"), Arg("obfs-password", "pw"), Arg("obfs-password", " "),
                 Arg("sni", "A.example"), Arg("SNI", "a.example"), Arg("insecure", "1"),
                 Arg("insecure", "0"), Arg("insecure", "true"), Arg("pinSHA256", "AA:BB"), Arg("ext", "2")},
  tuic |-> {Arg("token", "tok"), Arg("uuid", "ID-1"), Arg("uuid", "id-1"), Arg("password", "pw"),
            Arg("sni", "A.example"), Arg("server_name", "a.example"), Arg("alpn", " h3"),
            Arg("insecure", "TRUE"), Arg("skip_cert_verify", "0"), Arg("disable_sni", "1"),
            Arg("congestion_control", "BBR"), Arg("udp_relay_mode", "quic"), Arg("udp-relay-mode", "native"),
            Arg("udp_over_stream", "1"), Arg("heartbeat", "3s"), Arg("heartbeat_interval", "3000"),
            Arg("heartbeat", "3000"), Arg("request_timeout", "3000"), Arg("reduce_rtt", "1"),
            Arg("max_open_streams", "8443"), Arg("max-udp-relay-packet-size", "65536"), Arg("ext", "2")}]

Queries(pool, n) == UNION {[1..m -> pool] : m \in 0..n}
With(link, queries) == {[link EXCEPT !.query = q] : q \in queries}

Users == {<<>>, <<"ID-1">>, <<"nearly">>, <<"tok">>, <<"id-1", "pw">>, <<"ID-1", "">>}
TuicLinks == UNION {With([Base("tuic") EXCEPT !.user = u], Queries(Pool.tuic, IF u = <<"id-1", "pw">> THEN 2 ELSE 0)
                           \cup Queries({a \in Pool.tuic : a.key \in Credentials}, 2)) : u \in Users}
Triples == UNION {[1..3 -> {Arg("heartbeat_interval", "3000"), Arg("heartbeat", "3s"), Arg("ext", "2")}],
                  [1..3 -> {Arg("insecure", "TRUE"), Arg("skip_cert_verify", "0"), Arg("ext", "2")}]}
ShadowLinks ==
  UNION {With([Base("ss") EXCEPT !.form = f, !.user = <<m, k>>], Queries(Pool.ss, 2)) :
           f \in {"plain", "base64", "legacy"},
           m \in {"AES-128-GCM", "2022-blake3-aes-128-gcm", "2022-blake3", " "}, k \in {"key16"}}
VmessLinks == With([Base("vmess") EXCEPT !.port = <<>>],
                   {<<>>, <<Arg("net", "ws")>>, <<Arg("remarks", "x"), Arg("net", "ws")>>, <<Arg("net", "tcp"), Arg("type", "ws")>>})
PortLinks == {[Base(s) EXCEPT !.port = p, !.host = h] :
                s \in {"hy2", "trojan", "tuic"}, h \in {"A.example", "[2001:0db8::1]", "bad host"},
                p \in {<<>>, <<<<"0443">>>>, <<<<"65536">>>>, <<<<"443", "443">>>>, <<<<"443">>, <<"3000", "8443">>>>}}
AllLinks ==
  TuicLinks \cup With([Base("tuic") EXCEPT !.user = <<"id-1", "pw">>], Triples) \cup ShadowLinks \cup VmessLinks
  \cup PortLinks \cup With(Base("vless"), Queries(Pool.vless, 3)) \cup With(Base("hysteria2"), Queries(Pool.hysteria2, 2))
  \cup With([Base("hy2") EXCEPT !.port = <<>>], Queries(Pool.hysteria2, 1))

Uri(link) == [form |-> "uri", link |-> link]
Of(lines) == [wrap |-> "plain", sound |-> TRUE, content |-> [form |-> "links", lines |-> lines]]
Pairs == {Of(<<Uri(l), Uri(m)>>) : <<l, m>> \in
            UNION {{<<l, v>> : v \in Presentations(l) \cup Changes(l)} : l \in AllLinks}}

Hysteria == [sip008 |-> FALSE, outbounds |-> <<"hysteria", "freedom">>, marks |-> <<"2", "absent">>,
             shaped |-> TRUE, drafts |-> FALSE, hop |-> <<>>, link |-> Base("hysteria2"),
             settings |-> ("sni" :> <<"A.example">>)]
Documents ==
  {Hysteria,
   [Hysteria EXCEPT !.settings = ("alpn" :> <<"h3", "h2">>) @@ ("obfs" :> <<"salamander">>) @@ ("obfs-password" :> <<"pw">>)],
   [Hysteria EXCEPT !.hop = <<<<"443">>, <<"3000", "8443">>>>], [Hysteria EXCEPT !.shaped = FALSE],
   [Hysteria EXCEPT !.marks = <<"absent", "absent">>], [Hysteria EXCEPT !.marks = <<"1", "2">>],
   [Hysteria EXCEPT !.outbounds = <<"hysteria", "vless">>, !.drafts = TRUE],
   [Hysteria EXCEPT !.outbounds = <<"", "wireguard">>], [Hysteria EXCEPT !.outbounds = <<"broken">>],
   [Hysteria EXCEPT !.sip008 = TRUE]}
Same == [Base("hy2") EXCEPT !.query = <<Arg("SNI", "a.example")>>]
Lines == {[form |-> "comment"], [form |-> "foreign"], [form |-> "other"],
          Uri(Same), Uri([Same EXCEPT !.name = "two"]), Uri(Base("vless")), Uri([Base("vless") EXCEPT !.host = "bad host"])}
         \cup {[form |-> "json", document |-> d] : d \in Documents}
Mixed == {Of(<<a, b>>) : a, b \in Lines}
Json == {[wrap |-> "plain", sound |-> TRUE, content |-> [form |-> "document", values |-> <<a, b>>]] :
           a, b \in Documents \cup {Nothing}}
Four == Of(<<Uri(Same), [form |-> "comment"], Uri(Base("vless")), Uri(Same)>>)
Wrapped == {[Of(<<a>>) EXCEPT !.wrap = w, !.sound = s] : a \in Lines, w \in {"marked", "bare"}, s \in BOOLEAN}
           \cup {[Of(<<>>) EXCEPT !.content = [form |-> f]] : f \in {"empty", "scalar"}}

MCBodies == Pairs \cup Mixed \cup Json \cup Wrapped \cup {Four}
Few == {Of(<<a, b>>) : a, b \in {Uri(Same), Uri(Base("vless")), Uri([Same EXCEPT !.name = "two"]), [form |-> "comment"],
                                 [form |-> "json", document |-> Hysteria]}}
MCUpdated(b) == IF b \in Few THEN Few ELSE {}
MCPicks(b) == IF b \in Pairs THEN {} ELSE {<<>>, <<1>>, <<2>>, <<1, 2>>, <<2, 1>>, <<1, 1>>}
=============================================================================
