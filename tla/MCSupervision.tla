----------------------------- MODULE MCSupervision -----------------------------
(***************************************************************************)
(* Supervision for TLC: files as LuCI writes them, and what an editor may    *)
(* leave of them.                                                           *)
(***************************************************************************)
EXTENDS Supervision

Section(kind, name, options) == <<<<"config", kind, name>>>> \o options
O(k, v) == <<"option", k, v>>
L(k, v) == <<"list", k, v>>

Main(v) == Section("qddns", "main", <<O("enabled", v), O("poll_interval", "60"), O("timeout", "15")>>)
Local(family, a) == Section("source", "1", <<O("type", "local_addr"), O("address", a)>> \o family)
Host(ifaces) == Section("source", "2", <<O("name", "x"), O("type", "dhcpv6_mac"), O("mac", "x")>> \o ifaces)
Lan == <<L("interface", "wan"), L("interface", "wan6")>>
Cloud(options) == Section("provider", "4", <<O("type", "cloudflare")>> \o options)
Token == <<O("api_token", "x")>>
Rule(name, source, type, options) ==
    Section("rule", name, <<O("provider", "4"), O("source", source), O("record_type", type),
                            O("zone", "x"), O("record_name", "x")>> \o options)
Fast == <<O("ttl", "60"), O("check_interval", "60"), O("retry_count", "0"), O("enabled", "on")>>

Home == Local(<<O("family", "ipv4")>>, "1.2.3.4") \o Cloud(Token) \o Rule("8", "1", "A", Fast)
Both == Main("1") \o Home \o Host(Lan) \o Rule("9", "2", "AAAA", <<>>)
Off == Main("0") \o Home
Bare == <<<<>>>> \o Section("qddns", "global", <<O("enabled", "no")>>) \o Home

\* Files that are refused, each for another reason.
Refused ==
    {Main("maybe") \o Home,
     <<O("enabled", "1")>> \o Home,
     Main("1") \o Home \o <<<<"option", "name">>>>,
     Main("1") \o Home \o Rule("9", "2", "AAAA", <<>>),
     Main("1") \o Home \o Host(<<>>),
     Main("1") \o Home \o Local(<<>>, "2001::1"),
     Main("1") \o Home \o Local(<<O("family", "ipv6")>>, "x"),
     Main("1") \o Home \o Cloud(<<O("api_token", " ")>>),
     Main("1") \o Home \o Rule("8", "1", "A", <<O("probe_interface", "wan wan")>>),
     Main("1") \o Home \o Rule("8", "1", "A", <<O("ttl", "0")>>),
     Main("1") \o Home \o Section("source", "3", <<O("type", "command")>>),
     Main("1") \o Home \o Section("source", "3", <<O("type", "public_probe"), O("probe_url", "file:")>>)}

AllFiles == {Both, Off, Bare} \cup Refused

Numerals == [t \in {"0", "15", "60"} |-> CASE t = "0" -> 0 [] t = "15" -> 15 [] t = "60" -> 60]
=============================================================================
