--------------------------------- MODULE Dhcpv6 ---------------------------------
(***************************************************************************)
(* How an address of a LAN host is selected among the leases, the           *)
(* neighbours and the prefixes that were read.  An address has three parts: *)
(* the network of a provider, the /64 inside it, the interface identifier.  *)
(* A prefix fixes the first `len' of them: 1 is shorter than /64, 2 is /64, *)
(* 3 is a single address, and 0 is ::/0.                                    *)
(***************************************************************************)
EXTENDS Naturals, Sequences

CONSTANTS
    Net,        \* networks
    Public,     \* those inside 2000::/3 that are not for documentation
    Subnet,     \* subnets of a network
    Iid,        \* interface identifiers
    EuiIid,     \* the one computed from the MAC of the host
    Client,     \* what identifies the holder of a lease: DUID and IAID
    NoFilter,   \* no prefix_filter
    BadFilter   \* a prefix_filter that does not parse

Addr == Net \X Subnet \X Iid
Prefix == [address : Addr, len : 0 .. 3]
Lease == [client : Client, addr : Addr]

ASSUME Dhcpv6Assumption ==
    /\ Public \subseteq Net
    /\ EuiIid \in Iid
    /\ NoFilter \notin Prefix
    /\ BadFilter \notin Prefix \cup {NoFilter}

Contains(p, a) == \A i \in 1 .. p.len : p.address[i] = a[i]

IsPublic(a) == a[1] \in Public

\* The source prefixes of routes that are kept.
Delegated(routes) ==
    {p \in {routes[i] : i \in DOMAIN routes} : p.len # 0 /\ IsPublic(p.address)}

\* prefix_filter only narrows; one that does not parse lets nothing pass.
Within(filter, a) == filter # NoFilter => filter # BadFilter /\ Contains(filter, a)

\* Faulty variant: prefix_filter replaces the prefixes of the WAN.
FitsFilterOnly(a, wan, filter) ==
    /\ IsPublic(a)
    /\ filter = NoFilter => \E p \in Delegated(wan) : Contains(p, a)
    /\ Within(filter, a)

\* select_lease_address keeps these candidates.
Fits(a, wan, filter) ==
    /\ IsPublic(a)
    /\ \E p \in Delegated(wan) : Contains(p, a)
    /\ Within(filter, a)

\* The address the host gives itself in p, in the subnet of the filter if that
\* lies in p.
Eui64(p, filter) ==
    LET base == IF /\ filter \notin {NoFilter, BadFilter}
                   /\ filter.len <= 2
                   /\ Contains(p, filter.address)
                THEN filter.address
                ELSE p.address
    IN <<base[1], base[2], EuiIid>>

First(I) == CHOOSE i \in I : \A j \in I : i <= j

\* Faulty variant: the lines of other hosts count too.
FromLeasesOfAnyone(leases, mine, wan, filter) ==
    {i \in DOMAIN leases : Fits(leases[i].addr, wan, filter)}

\* Places of the candidates that fit, in the order in which they are collected.
FromLeases(leases, mine, wan, filter) ==
    {i \in DOMAIN leases : leases[i].client \in mine /\ Fits(leases[i].addr, wan, filter)}

FromNeighbours(near, wan, filter) == {i \in DOMAIN near : Fits(near[i], wan, filter)}

FromMac(wan, filter) ==
    {i \in DOMAIN wan : /\ wan[i] \in Delegated(wan)
                        /\ wan[i].len <= 2
                        /\ Fits(Eui64(wan[i], filter), wan, filter)}

\* The address of the lease of a DUID and an IAID.
SelectByDuid(leases, mine, wan, filter, none) ==
    LET L == FromLeases(leases, mine, wan, filter) IN
    IF L # {} THEN leases[First(L)].addr ELSE none

\* Faulty variant: the computed address comes before the leases.
SelectByMacGuessing(leases, mine, near, wan, filter, none) ==
    LET N == FromNeighbours(near, wan, filter)
        E == FromMac(wan, filter)
    IN IF E # {} THEN Eui64(wan[First(E)], filter)
       ELSE IF N # {} THEN near[First(N)]
       ELSE SelectByDuid(leases, mine, wan, filter, none)

\* The address of a MAC: leases first, then neighbours, then a computed one.
SelectByMac(leases, mine, near, wan, filter, none) ==
    LET L == FromLeases(leases, mine, wan, filter)
        N == FromNeighbours(near, wan, filter)
        E == FromMac(wan, filter)
    IN CASE L # {} -> leases[First(L)].addr
         [] L = {} /\ N # {} -> near[First(N)]
         [] L = {} /\ N = {} /\ E # {} -> Eui64(wan[First(E)], filter)
         [] OTHER -> none
=============================================================================
