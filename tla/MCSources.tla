-------------------------------- MODULE MCSources -------------------------------
(***************************************************************************)
(* Sources for TLC: a router whose provider renumbers it from network 1 to  *)
(* network 2 (0 is private), with two subnets in each.  The host has the    *)
(* computed identifier 9 and others.                                        *)
(***************************************************************************)
EXTENDS Sources

P(net, subnet, len) == [address |-> <<net, subnet, 0>>, len |-> len]
L(client, a) == [client |-> client, addr |-> a]

LoAddr == <<0, 0, 1>>

Before == [leases |-> <<L("sameMac", <<1, 0, 1>>), L("mine", <<1, 1, 1>>), L("mine", <<0, 0, 1>>)>>,
           file |-> "ok",
           routes |-> [lo |-> <<>>, wan |-> <<P(1, 0, 1)>>, wanb |-> <<P(0, 0, 2)>>],
           near |-> <<<<0, 0, 9>>, <<1, 1, 2>>>>,
           links |-> [lo |-> LoAddr, wan |-> NoAddr, wanb |-> <<0, 1, 1>>]]

\* Both prefixes for a while, then the new one with what remembers the old one.
Renumbering == [Before EXCEPT !.routes.wan = <<P(1, 0, 1), P(2, 0, 1)>>,
                              !.routes.wanb = <<P(2, 1, 2)>>,
                              !.links.wan = <<2, 0, 1>>]
After == [Renumbering EXCEPT !.routes.wan = <<P(2, 0, 1)>>,
                             !.near = <<<<1, 1, 2>>, <<2, 1, 2>>>>]
Settled == [After EXCEPT !.leases = <<L("stranger", <<2, 0, 1>>), L("mine", <<2, 1, 1>>)>>]
NoLeases == [Settled EXCEPT !.file = "missing"]
NoFile == [Settled EXCEPT !.file = "unreadable"]
Offline == [Settled EXCEPT !.leases = <<>>, !.near = <<>>]

States == {Before, Renumbering, After, Settled, NoLeases, NoFile, Offline}

S(kind, ifaces, filter, leaseFile) ==
    [kind |-> kind, ifaces |-> ifaces, filter |-> filter, leaseFile |-> leaseFile]

AllSources ==
    {S("dhcpv6_duid", <<"wan">>, f, "unset") : f \in {NoFilter, P(2, 1, 2)}}
    \cup {S("dhcpv6_mac", <<"wan">>, f, "other") : f \in {NoFilter, P(1, 1, 2), BadFilter}}
    \cup {S("dhcpv6_mac", <<"wanb", "wan">>, f, "unset") : f \in {NoFilter, P(2, 0, 1)}}
    \cup {S("dhcpv6_mac", <<"wan">>, NoFilter, "odhcpd")}
    \cup {S("interface", i, NoFilter, "unset") : i \in {<<"wan", "wanb">>, <<"wan", "lo">>, <<"lo">>}}
    \cup {S("script", <<"wan">>, NoFilter, "unset")}
=============================================================================
