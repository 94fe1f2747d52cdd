--------------------------------- MODULE Config ---------------------------------
(***************************************************************************)
(* What config.rs makes of /etc/config/qddns.  A file is the sequence of    *)
(* its lines and a line the sequence of the tokens split_uci_tokens finds,   *)
(* in which a quoted empty text leaves no token; a line that parse_uci does   *)
(* not look at because no space follows its first word is, like a comment,   *)
(* <<>>.  The value of an option is the sequence of texts joined with commas: *)
(* one, unless `list' added some.                                           *)
(***************************************************************************)
EXTENDS Naturals, SequencesExt

CONSTANTS
    Number,     \* the natural number each numeral spells: a function on texts
    MaxU32,     \* u32::MAX
    MaxU64,     \* u64::MAX
    BlankText,  \* texts of white space only
    HttpUrl,    \* texts that start with http:// or https://
    V4, V6,     \* texts that are an IPv4 or an IPv6 address
    IfaceName   \* texts that may name an interface

ASSUME ConfigAssumption ==
    /\ \A t \in DOMAIN Number : Number[t] \in Nat
    /\ MaxU32 \in Nat /\ MaxU64 \in Nat
    /\ V4 \cap V6 = {}

-----------------------------------------------------------------------------
(* Lines and sections *)

\* Lines that start with another word say nothing.
Lines(uci, words) == {i \in DOMAIN uci : uci[i] # <<>> /\ uci[i][1] \in words}
Heads(uci) == Lines(uci, {"config"})

WellFormed(uci) ==
    \A i \in Lines(uci, {"config", "option", "list"}) :
        /\ Len(uci[i]) >= 3
        /\ \E h \in Heads(uci) : h <= i

\* The options of the section that starts at line h: an `option' line replaces
\* what was said before, a `list' line adds to it.
Options(uci, h) ==
    LET lines == {i \in Lines(uci, {"option", "list"}) :
                     h < i /\ \A g \in Heads(uci) : g <= h \/ i < g}
        Counts(k) == {i \in lines :
                         /\ uci[i][2] = k
                         /\ \A j \in lines : j > i /\ uci[j][2] = k => uci[j][1] = "list"}
        Value(k) == LET order == SetToSortSeq(Counts(k), <) IN [n \in DOMAIN order |-> uci[order[n]][3]]
    IN [k \in {uci[i][2] : i \in lines} |-> Value(k)]

Sections(uci) ==
    [h \in Heads(uci) |->
        [kind |-> uci[h][2], name |-> uci[h][3], options |-> Options(uci, h)]]

-----------------------------------------------------------------------------
(* The options of a section *)

Has(s, k) == k \in DOMAIN s.options
In(s, k, Texts) == Has(s, k) /\ \E t \in Texts : s.options[k] = <<t>>
Filled(s, k) == Has(s, k) /\ ~In(s, k, BlankText)
Text(s, k, default) == IF Has(s, k) THEN s.options[k] ELSE default

\* parse_bool, parse_u64_range and parse_u32_range, validate_optional_url.
Truths == {"1", "true", "yes", "on"}
Falsehoods == {"0", "false", "no", "off"}
IsBool(s, k) == Has(s, k) => In(s, k, Truths \cup Falsehoods)
Bool(s, k, default) == IF Has(s, k) THEN In(s, k, Truths) ELSE default

Within(s, k, low, high) ==
    Has(s, k) => In(s, k, {t \in DOMAIN Number : Number[t] \in low .. high})
Num(value, default) == IF value = <<>> THEN default ELSE Number[value[1]]
Count(s, k, default) == Num(Text(s, k, <<>>), default)

IsUrl(s, k) == Has(s, k) => s.options[k][1] \in HttpUrl

-----------------------------------------------------------------------------
(* The kinds of section *)

SourceFields ==
    [local_addr |-> {"family", "address"},
     interface |-> {"family", "interface"},
     public_probe |-> {"family", "probe_url"},
     script |-> {"family", "script"},
     dhcpv6_duid |-> {"duid", "iaid", "interface", "lease_file", "prefix_filter", "hostname_hint"},
     dhcpv6_mac |-> {"mac", "interface", "lease_file", "prefix_filter", "hostname_hint"}]

Credentials ==
    [cloudflare |-> {"api_token"},
     dnspod |-> {"secret_id", "secret_key"},
     aliyun |-> {"access_key_id", "access_key_secret"},
     custom_http |-> {}]

Known ==
    [qddns |-> {"enabled", "log_dir", "state_dir", "listen", "poll_interval", "timeout",
                "log_level", "lan_interface"},
     source |-> {"name", "type"} \cup UNION {SourceFields[t] : t \in DOMAIN SourceFields},
     provider |-> {"name", "type", "url", "method", "headers_json", "body_template",
                   "lookup_url", "lookup_method", "lookup_headers_json",
                   "lookup_json_pointer", "success_contains"}
                  \cup UNION {Credentials[t] : t \in DOMAIN Credentials},
     rule |-> {"name", "enabled", "provider", "source", "probe_interface", "record_type",
               "zone", "record_name", "ttl", "proxied", "check_interval", "force_interval",
               "retry_count", "retry_backoff"}]

MainOK(s) ==
    /\ IsBool(s, "enabled")
    /\ Within(s, "poll_interval", 1, MaxU64)
    /\ Within(s, "timeout", 1, 30)

\* parse_source_kind.
SourceOK(s) ==
    /\ In(s, "type", DOMAIN SourceFields)
    /\ Has(s, "family") => In(s, "family", {"ipv4", "ipv6"})
    /\ In(s, "type", {"public_probe"}) => Filled(s, "probe_url") /\ IsUrl(s, "probe_url")

\* parse_provider_kind.
ProviderOK(s) ==
    \E t \in DOMAIN Credentials :
        /\ In(s, "type", {t})
        /\ \A k \in Credentials[t] : Filled(s, k)
        /\ t = "custom_http" => IsUrl(s, "url") /\ IsUrl(s, "lookup_url")

RuleOK(s) ==
    /\ \A k \in {"provider", "source", "zone", "record_name"} : Has(s, k)
    /\ In(s, "record_type", {"A", "AAAA"})
    /\ IsBool(s, "enabled") /\ IsBool(s, "proxied")
    /\ Within(s, "ttl", 1, 86400)
    /\ \A k \in {"check_interval", "force_interval", "retry_backoff"} : Within(s, k, 1, MaxU64)
    /\ Within(s, "retry_count", 0, MaxU32)

SectionOK(s) ==
    /\ s.kind \in DOMAIN Known
    /\ DOMAIN s.options \subseteq Known[s.kind]
    /\ s.kind = "qddns" => MainOK(s)
    /\ s.kind = "source" => SourceOK(s)
    /\ s.kind = "provider" => ProviderOK(s)
    /\ s.kind = "rule" => RuleOK(s)

Parses(uci) ==
    /\ WellFormed(uci)
    /\ LET s == Sections(uci) IN \A h \in DOMAIN s : SectionOK(s[h])

-----------------------------------------------------------------------------
(* The Config a file that parses gives *)

\* The value of k the last of the sections says.
LastSaid(s, sections, k, default) ==
    LET saying == {h \in sections : Has(s[h], k)} IN
    IF saying = {} THEN default ELSE s[Max(saying)].options[k]

\* A second section for the daemon keeps what an earlier one said, except that
\* it is enabled unless it says otherwise and has a LAN interface only if it
\* names one.
MainOf(s) ==
    LET mains == {h \in DOMAIN s : s[h].kind = "qddns"}
        last == {h \in mains : \A g \in mains : g <= h}
    IN [enabled |-> \A h \in last : Bool(s[h], "enabled", TRUE),
        log_dir |-> LastSaid(s, mains, "log_dir", <<"/var/log/qddns">>),
        state_dir |-> LastSaid(s, mains, "state_dir", <<"/var/run/qddns">>),
        poll_interval |-> Num(LastSaid(s, mains, "poll_interval", <<>>), 60),
        timeout |-> Num(LastSaid(s, mains, "timeout", <<>>), 15),
        lan_interface |-> LastSaid(s, last, "lan_interface", <<>>)]

\* A source keeps the options of its type only.
SourceOf(s) ==
    LET type == s.options["type"][1] IN
    [type |-> type,
     options |-> Restrict(s.options, DOMAIN s.options \cap SourceFields[type])]

ProviderOf(s) == [type |-> s.options["type"][1], options |-> s.options]

RuleOf(s) ==
    [enabled |-> Bool(s, "enabled", TRUE),
     source |-> s.options["source"],
     provider |-> s.options["provider"],
     record_type |-> s.options["record_type"][1],
     probe_interface |-> Text(s, "probe_interface", <<>>),
     check_interval |-> Count(s, "check_interval", 60),
     force_interval |-> Count(s, "force_interval", 3600),
     retry_count |-> Count(s, "retry_count", 3),
     retry_backoff |-> Count(s, "retry_backoff", 30)]

\* Of two sections of one kind and name the later one counts.
Latest(s, kind) ==
    LET latest == {h \in DOMAIN s :
                      /\ s[h].kind = kind
                      /\ \A g \in DOMAIN s :
                            s[g].kind = kind /\ s[g].name = s[h].name => g <= h}
    IN [n \in {<<s[h].name>> : h \in latest} |->
           s[CHOOSE h \in latest : <<s[h].name>> = n]]

ConfigOf(uci) ==
    LET s == Sections(uci)
        sources == Latest(s, "source")
        providers == Latest(s, "provider")
        rules == Latest(s, "rule")
    IN [main |-> MainOf(s),
        sources |-> [n \in DOMAIN sources |-> SourceOf(sources[n])],
        providers |-> [n \in DOMAIN providers |-> ProviderOf(providers[n])],
        rules |-> [n \in DOMAIN rules |-> RuleOf(rules[n])]]

-----------------------------------------------------------------------------
(* What a Config says about a rule *)

None == <<>>

\* SourceKind::family and SourceKind::address.
Family(source) ==
    IF source.type \in {"dhcpv6_duid", "dhcpv6_mac"} THEN <<"ipv6">> ELSE Text(source, "family", None)
Address(source) ==
    IF source.type = "local_addr" THEN Text(source, "address", None) ELSE None

Spells(value, Texts) == \E t \in Texts : value = <<t>>

\* Faulty variant: the address of local_addr is not looked at.
FitsFamilyOnly(rule, source) ==
    /\ rule.record_type = "AAAA" => Family(source) # <<"ipv4">>
    /\ rule.record_type = "A" => Family(source) # <<"ipv6">>

Fits(rule, source) ==
    /\ rule.record_type = "AAAA" => Family(source) # <<"ipv4">> /\ ~Spells(Address(source), V4)
    /\ rule.record_type = "A" => Family(source) # <<"ipv6">> /\ ~Spells(Address(source), V6)

Validate(c) ==
    /\ \A n \in DOMAIN c.sources :
          c.sources[n].type \in {"dhcpv6_duid", "dhcpv6_mac"} => Filled(c.sources[n], "interface")
    /\ \A n \in DOMAIN c.rules :
          LET rule == c.rules[n] IN
          /\ rule.source \in DOMAIN c.sources
          /\ rule.provider \in DOMAIN c.providers
          /\ Fits(rule, c.sources[rule.source])
          /\ \/ rule.probe_interface = None
             \/ Spells(rule.probe_interface, BlankText \cup IfaceName)

\* get_provider_and_source and validate_rule_family.
Bound(c, n) ==
    /\ n \in DOMAIN c.rules
    /\ c.rules[n].source \in DOMAIN c.sources
    /\ c.rules[n].provider \in DOMAIN c.providers
    /\ <<c.rules[n].record_type, Family(c.sources[c.rules[n].source])>>
           \notin {<<"AAAA", <<"ipv4">>>>, <<"A", <<"ipv6">>>>}

\* validate_rule_resolved_address, for an address of the family v.
Publishable(rule, v) == rule.record_type = IF v = "ipv4" THEN "A" ELSE "AAAA"

\* resolve_local_addr: the family of the address it yields, or None for an error.
LocalFamily(source) ==
    IF Spells(Address(source), V4) THEN <<"ipv4">>
    ELSE IF Spells(Address(source), V6) THEN <<"ipv6">> ELSE None

EnabledRules(c) == {n \in DOMAIN c.rules : c.rules[n].enabled}
=============================================================================
