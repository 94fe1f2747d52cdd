---------------------------------- MODULE Hosts ---------------------------------
(***************************************************************************)
(* `qddnsctl leases': the hosts LuCI offers as sources.  One entry per MAC   *)
(* is put together from the leases of odhcpd, those of dnsmasq, both         *)
(* neighbour tables and, on the LAN interface, addresses computed from the   *)
(* MAC that answer a ping.  Each table is read at a moment of its own while   *)
(* hosts come and go; a missing file and a command that fails are empty       *)
(* tables.                                                                  *)
(***************************************************************************)
EXTENDS Naturals, SequencesExt

CONSTANTS
    Mac, NoMac,         \* MACs; what normalize_mac does not take for one
    Client, NoClient,   \* holders of DHCPv6 leases: DUID and IAID
    MacOf,              \* the MAC the last twelve digits of the DUID make
    Iface, Name, NoName,
    Addr, Public,       \* IPv6 addresses, those is_public_ipv6 accepts
    V4, Private,        \* IPv4 addresses, those is_private_ipv4 accepts
    Net,                \* the networks of routes that lan_prefixes keeps
    Eui,                \* the address a MAC gives itself in a network
    Lan, NoIface,       \* main.lan_interface, which need not be configured
    RouterStates,       \* the states of the tables that occur
    MaxEntries,         \* MAX_ENTRIES
    MaxPrefixes,        \* MAX_PREFIXES_PER_ENTRY
    MaxEvents           \* bound on changes of the tables

Prefix == [addr : Addr, len : {64, 128}]

Router ==
    [odhcpd : Seq([client : Client, iface : Iface, name : Name \cup {NoName},
                   prefixes : Seq(Prefix)]),
     dnsmasq : Seq([mac : Mac \cup {NoMac}, name : Name \cup {NoName}, addr : V4]),
     near6 : Seq([mac : Mac \cup {NoMac}, iface : Iface, addr : Addr]),
     near4 : Seq([mac : Mac \cup {NoMac}, addr : V4]),
     routes : Seq(Net),
     up : SUBSET Addr]

Entry ==
    [client : Client \cup {NoClient},
     name : Name \cup {NoName},
     ipv4 : SUBSET V4,
     prefixes : SUBSET Prefix,
     ifaces : SUBSET (Iface \cup Mac)]

ASSUME HostsAssumption ==
    /\ NoMac \notin Mac /\ NoClient \notin Client /\ NoName \notin Name
    /\ MacOf \in [Client -> Mac \cup {NoMac}]
    /\ Public \subseteq Addr /\ Private \subseteq V4
    /\ Eui \in [Mac \X Net -> Addr]
    /\ Lan \in Iface /\ NoIface \notin Iface
    /\ RouterStates \subseteq Router
    /\ MaxEntries \in Nat \ {0} /\ MaxPrefixes \in Nat \ {0}
    /\ MaxEvents \in Nat

VARIABLES
    router,    \* what the files and commands would show
    step,      \* the table to read next
    mode,      \* LeaseMode
    lan,       \* the LAN interface of the configuration
    entries,   \* what has been put together, by MAC
    nets,      \* the networks on the LAN
    asked,     \* addresses being pinged: a MAC and the place of a network
    answered,  \* those that have answered
    shown,     \* the last list
    during,    \* history: the states of the tables since the command began
    events

vars == <<router, step, mode, lan, entries, nets, asked, answered, shown, during, events>>
slaac == <<nets, asked, answered>>

Step == {"odhcpd", "dnsmasq", "near6", "near4", "routes", "again", "ping"}
Lists == UNION {[S -> Entry] : S \in SUBSET Mac}
Empty == [m \in {} |-> NoClient]

TypeOK ==
    /\ router \in RouterStates
    /\ step \in Step \cup {"idle"}
    /\ mode \in {"duid", "mac"}
    /\ lan \in {Lan, NoIface}
    /\ \A list \in {entries, shown} :
          /\ DOMAIN list \subseteq Mac
          /\ \A m \in DOMAIN list :
                list[m] \in Entry /\ Cardinality(list[m].prefixes) <= MaxPrefixes
    /\ \A m \in DOMAIN shown : shown[m].prefixes # {}
    /\ nets \in Seq(Net)
    /\ asked \subseteq Mac \X DOMAIN nets
    /\ answered \subseteq Mac \X DOMAIN nets
    /\ during \subseteq RouterStates
    /\ events \in 0 .. MaxEvents

Init ==
    /\ router \in RouterStates
    /\ step = "idle" /\ mode = "duid" /\ lan = NoIface
    /\ entries = Empty /\ nets = <<>> /\ asked = {} /\ answered = {}
    /\ shown = Empty
    /\ during = {router}
    /\ events = 0

-----------------------------------------------------------------------------
(* Entries *)

Blank == [client |-> NoClient, name |-> NoName, ipv4 |-> {}, prefixes |-> {}, ifaces |-> {}]

\* entry(mac).or_insert_with(HostEntry::new).
With(list, macs) ==
    [m \in DOMAIN list \cup macs |-> IF m \in DOMAIN list THEN list[m] ELSE Blank]

\* A prefix that is offered to a host: the row of the table and the place in the
\* row where it stands, and the prefix.
Before(x, y) == x[1] < y[1] \/ (x[1] = y[1] /\ x[2] < y[2])
PrefixesIn(offered) == {x[3] : x \in offered}

\* Faulty variant: the limit is forgotten.
PushUnbounded(have, offered) == have \cup PrefixesIn(offered)

\* Faulty variant: a list that would grow too long begins anew.
PushAnew(have, offered) ==
    IF Cardinality(have \cup PrefixesIn(offered)) <= MaxPrefixes
    THEN have \cup PrefixesIn(offered) ELSE PrefixesIn(offered)

\* push_prefix, for one prefix after the other: no duplicates, and no more than
\* the limit.
New(have, offered) ==
    {x \in offered : x[3] \notin have /\ \A y \in offered : y[3] = x[3] => ~Before(y, x)}
Fits(have, offered) ==
    {x \in New(have, offered) :
        Cardinality(have) + Cardinality({y \in New(have, offered) : Before(y, x)}) < MaxPrefixes}
Push(have, offered) == have \cup PrefixesIn(Fits(have, offered))

\* The first hostname counts.
Named(name, rows, I) ==
    LET named == {i \in I : rows[i].name # NoName} IN
    IF name # NoName \/ named = {} THEN name ELSE rows[Min(named)].name

RowsOf(rows, m) == {i \in DOMAIN rows : rows[i].mac = m}
MacsOf(rows) == {rows[i].mac : i \in DOMAIN rows} \ {NoMac}

Host(a) == [addr |-> a, len |-> 128]

\* Where a line of odhcpd has public prefixes, and where the first of them.
PublicIn(line) == {k \in DOMAIN line.prefixes : line.prefixes[k].addr \in Public}
PublicOf(line) ==
    {k \in PublicIn(line) : Cardinality({j \in PublicIn(line) : j < k}) < MaxPrefixes}

\* Lines without a MAC or a public prefix are skipped; lines after the one that
\* fills the list are not read.
Usable(lines) == {i \in DOMAIN lines : MacOf[lines[i].client] # NoMac /\ PublicOf(lines[i]) # {}}
Taken(lines) ==
    {i \in Usable(lines) :
        Cardinality({MacOf[lines[j].client] : j \in {k \in Usable(lines) : k < i}}) < MaxEntries}
LinesOf(lines, m) == {i \in Taken(lines) : MacOf[lines[i].client] = m}
Leases(lines, I) == UNION {{<<i, k, lines[i].prefixes[k]>> : k \in PublicOf(lines[i])} : i \in I}

\* add_dhcpv6_entries.  The last line of a host gives DUID and IAID.
AddOdhcpd(list, lines) ==
    LET all == With(list, {MacOf[lines[i].client] : i \in Taken(lines)}) IN
    [m \in DOMAIN all |->
        LET mine == LinesOf(lines, m) IN
        IF mine = {} THEN all[m] ELSE
        [all[m] EXCEPT !.client = lines[Max(mine)].client,
                       !.name = Named(@, lines, mine),
                       !.ifaces = @ \cup {lines[i].iface : i \in mine},
                       !.prefixes = Push(@, Leases(lines, mine))]]

\* add_dhcpv4_entries.
AddDnsmasq(list, rows) ==
    LET all == With(list, MacsOf(rows)) IN
    [m \in DOMAIN all |->
        [all[m] EXCEPT !.name = Named(@, rows, RowsOf(rows, m)),
                       !.ipv4 = @ \cup ({rows[i].addr : i \in RowsOf(rows, m)} \cap Private)]]

\* The rows `ip' lists, of one device if there is a LAN interface.
OnDevice(rows) == {i \in DOMAIN rows : lan \in {NoIface, rows[i].iface}}

\* The public neighbours with a MAC, and what they offer.
Near(rows) == {i \in OnDevice(rows) : rows[i].mac # NoMac /\ rows[i].addr \in Public}
NearPrefixes(rows, I) == {<<i, 1, Host(rows[i].addr)>> : i \in I}

\* add_ndp_entries.  Asked for the neighbours of one device, `ip' does not print
\* the device, and the third field of a line is the MAC.
AddNeighbours(list, rows) ==
    LET all == With(list, {rows[i].mac : i \in Near(rows)})
        Third(n) == IF lan = NoIface THEN n.iface ELSE n.mac
    IN [m \in DOMAIN all |->
          LET mine == {i \in Near(rows) : rows[i].mac = m} IN
          [all[m] EXCEPT !.ifaces = @ \cup {Third(rows[i]) : i \in mine},
                         !.prefixes = Push(@, NearPrefixes(rows, mine))]]

\* add_ipv4_entries.
AddIpv4(list, rows) ==
    [m \in DOMAIN list |->
        [list[m] EXCEPT !.ipv4 = @ \cup ({rows[i].addr : i \in RowsOf(rows, m)} \cap Private)]]

\* add_slaac_entries, in the order of the networks.
Guesses(m, pinged) ==
    {<<k, 1, Host(Eui[<<m, nets[k]>>])>> : k \in {j \in DOMAIN nets : <<m, j>> \in pinged}}
AddSlaac(list, pinged) ==
    [m \in DOMAIN list |-> [list[m] EXCEPT !.prefixes = Push(@, Guesses(m, pinged))]]

\* The end of list_leases, and list_leases_cmd.
Listing(list) ==
    [m \in {n \in DOMAIN list : list[n].prefixes # {}} |->
        IF mode = "mac" THEN [list[m] EXCEPT !.client = NoClient] ELSE list[m]]

-----------------------------------------------------------------------------
(* The command *)

\* What a command that lists a table gives.
Rows(table) == {table, <<>>}

Begin ==
    /\ step = "idle"
    /\ step' = "odhcpd"
    /\ mode' \in {"duid", "mac"}
    /\ lan' \in {Lan, NoIface}
    /\ entries' = Empty
    /\ shown' = Empty
    /\ during' = {router}
    /\ UNCHANGED <<router, slaac, events>>

Finish(list) ==
    /\ step' = "idle"
    /\ shown' = Listing(list)
    /\ entries' = Empty
    /\ nets' = <<>> /\ asked' = {} /\ answered' = {}
    /\ UNCHANGED <<router, mode, lan, during, events>>

Goto(to) ==
    /\ step' = to
    /\ UNCHANGED <<router, mode, lan, shown, during, events>>

ReadOdhcpd ==
    /\ step = "odhcpd"
    /\ entries' = AddOdhcpd(entries, router.odhcpd)
    /\ Goto("dnsmasq")
    /\ UNCHANGED slaac

ReadDnsmasq ==
    /\ step = "dnsmasq"
    /\ entries' = AddDnsmasq(entries, router.dnsmasq)
    /\ Goto("near6")
    /\ UNCHANGED slaac

ReadNeighbours ==
    /\ step = "near6"
    /\ \E rows \in Rows(router.near6) : entries' = AddNeighbours(entries, rows)
    /\ Goto("near4")
    /\ UNCHANGED slaac

\* Without a LAN interface the list is complete.  With one, ff02::1 is pinged,
\* and the neighbour table may change.
ReadIpv4 ==
    /\ step = "near4"
    /\ \E rows \in Rows(router.near4) :
          IF lan = NoIface
          THEN Finish(AddIpv4(entries, rows))
          ELSE entries' = AddIpv4(entries, rows) /\ Goto("routes") /\ UNCHANGED slaac

\* lan_prefixes.
ReadRoutes ==
    /\ step = "routes"
    /\ \E rows \in Rows(router.routes) :
          IF rows = <<>>
          THEN Finish(entries)
          ELSE nets' = rows /\ Goto("again") /\ UNCHANGED <<entries, asked, answered>>

\* Every MAC that is near is tried in every network.
ReadTargets ==
    /\ step = "again"
    /\ \E rows \in Rows(router.near6) :
          asked' = ({rows[i].mac : i \in OnDevice(rows)} \ {NoMac}) \X DOMAIN nets
    /\ Goto("ping")
    /\ UNCHANGED <<entries, nets, answered>>

\* Faulty variant: the exit status of ping6 is not looked at.
PingEndsAnyway ==
    /\ step = "ping"
    /\ \E t \in asked : asked' = asked \ {t} /\ answered' = answered \cup {t}
    /\ UNCHANGED <<router, step, mode, lan, entries, nets, shown, during, events>>

\* One of the pings ends, in any order.
PingEnds ==
    /\ step = "ping"
    /\ \E t \in asked :
          /\ asked' = asked \ {t}
          /\ \/ Eui[<<t[1], nets[t[2]]>>] \in router.up /\ answered' = answered \cup {t}
             \/ UNCHANGED answered
    /\ UNCHANGED <<router, step, mode, lan, entries, nets, shown, during, events>>

\* Every ping has been joined.
Complete ==
    /\ step = "ping"
    /\ asked = {}
    /\ Finish(AddSlaac(entries, answered))

-----------------------------------------------------------------------------

Change ==
    /\ events < MaxEvents
    /\ events' = events + 1
    /\ router' \in RouterStates \ {router}
    /\ during' = IF step = "idle" THEN during ELSE during \cup {router'}
    /\ UNCHANGED <<step, mode, lan, entries, slaac, shown>>

Command ==
    \/ Begin \/ ReadOdhcpd \/ ReadDnsmasq \/ ReadNeighbours \/ ReadIpv4
    \/ ReadRoutes \/ ReadTargets \/ PingEnds \/ Complete

Next == Command \/ Change

Spec == Init /\ [][Next]_vars

-----------------------------------------------------------------------------
(* Properties *)

Leased(t, m) == {i \in DOMAIN t.odhcpd : MacOf[t.odhcpd[i].client] = m}
LeasedTo(t, m) ==
    {p \in UNION {ToSet(t.odhcpd[i].prefixes) : i \in Leased(t, m)} : p.addr \in Public}
NearOn(t, m) == {i \in DOMAIN t.near6 : t.near6[i].mac = m /\ lan \in {NoIface, t.near6[i].iface}}

\* What the list says of a host was true while the command ran: a prefix was in
\* a lease of its DUID or was the address of the host as a neighbour, or the host
\* was a neighbour on the LAN, the LAN had the network, and the address answered;
\* its DUID and IAID are those of a lease it had with one of these prefixes or of
\* one the limit left no room for; its IPv4 addresses were leased or near.  Hosts
\* that leave, move or swap addresses between the reads are not mixed up.
ShownIsObserved ==
    step = "idle" =>
        \A m \in DOMAIN shown :
            /\ \A p \in shown[m].prefixes :
                  \/ \E t \in during : \E i \in Leased(t, m) :
                        p \in ToSet(t.odhcpd[i].prefixes)
                  \/ \E t \in during : \E i \in NearOn(t, m) : p = Host(t.near6[i].addr)
                  \/ /\ lan = Lan
                     /\ \E t \in during : NearOn(t, m) # {}
                     /\ \E t \in during : p.addr \in t.up
                     /\ \E t \in during : \E n \in ToSet(t.routes) : p = Host(Eui[<<m, n>>])
            /\ shown[m].client # NoClient =>
                  \E t \in during : \E i \in Leased(t, m) :
                      /\ t.odhcpd[i].client = shown[m].client
                      /\ \/ ToSet(t.odhcpd[i].prefixes) \cap shown[m].prefixes # {}
                         \/ Cardinality(shown[m].prefixes) = MaxPrefixes
            /\ \A a \in shown[m].ipv4 :
                  \E t \in during :
                      \/ \E i \in RowsOf(t.dnsmasq, m) : t.dnsmasq[i].addr = a
                      \/ \E i \in RowsOf(t.near4, m) : t.near4[i].addr = a

\* A public prefix a host has leased all the time is offered, however many
\* neighbours there are, whatever addresses they have besides, and whatever
\* command fails, if the hosts with leases are less than MAX_ENTRIES and the
\* prefixes of the host at most MAX_PREFIXES_PER_ENTRY, in one of its leases with
\* what the lease repeats.
LeasedIsShown ==
    step = "idle" /\ shown # Empty =>
        \A m \in Mac, p \in [addr : Public, len : {64, 128}] :
            (\A t \in during :
                /\ Cardinality({n \in Mac : Leased(t, n) # {}}) < MaxEntries
                /\ p \in LeasedTo(t, m)
                /\ Cardinality(LeasedTo(t, m)) <= MaxPrefixes
                /\ \A i \in Leased(t, m) : Cardinality(PublicIn(t.odhcpd[i])) <= MaxPrefixes)
            => m \in DOMAIN shown /\ p \in shown[m].prefixes
=============================================================================
