---------------------------------- MODULE MCHosts -------------------------------
(***************************************************************************)
(* Hosts for TLC: a phone with two leases, a laptop, and a host whose DUID   *)
(* ends in no MAC.                                                          *)
(***************************************************************************)
EXTENDS Hosts

P(a) == [addr |-> a, len |-> 64]
Line(c, i, n, p) == [client |-> c, iface |-> i, name |-> n, prefixes |-> p]
Row(m, i, a) == [mac |-> m, iface |-> i, addr |-> a]

Owners == [c \in {"phone1", "phone2", "laptop", "tablet", "uuid"} |->
              CASE c \in {"phone1", "phone2"} -> "m1" [] c = "laptop" -> "m2"
                [] c = "tablet" -> "m3" [] c = "uuid" -> "?"]
Addresses == [t \in {"m1", "m2", "m3"} \X {"N"} |->
              CASE t[1] = "m1" -> "e1" [] t[1] = "m2" -> "e2" [] t[1] = "m3" -> "e1"]

Phone1 == Line("phone1", "lan", "phone", <<P("p1"), P("ula")>>)
Phone2 == Line("phone2", "guest", "-", <<P("p2"), P("p1")>>)
Laptop == Line("laptop", "lan", "-", <<P("p3")>>)

\* Everybody is at home.
Home == [odhcpd |-> <<Phone1, Line("uuid", "lan", "-", <<P("p3")>>), Phone2, Laptop>>,
         dnsmasq |-> <<[mac |-> "m1", name |-> "handy", addr |-> "10.1"],
                       [mac |-> "m2", name |-> "book", addr |-> "8.8"]>>,
         near6 |-> <<Row("m1", "lan", "a1"), Row("m1", "lan", "a2"), Row("?", "lan", "a2"),
                     Row("m2", "guest", "ula"), Row("m2", "lan", "a2")>>,
         near4 |-> <<[mac |-> "m2", addr |-> "10.2"], [mac |-> "m3", addr |-> "10.3"]>>,
         routes |-> <<"N">>,
         up |-> {"e2"}]

\* The phone keeps one lease, the laptop has lost its own to a third host, which
\* has taken an address of the phone.
Away == [Home EXCEPT !.odhcpd = <<Laptop, Phone1>>,
                     !.near6 = <<Row("m3", "lan", "a1"), Row("m2", "lan", "a2")>>,
                     !.near4 = <<>>,
                     !.up = {"e1"}]

\* odhcpd has restarted, and the LAN has lost its network.
Restarted == [Home EXCEPT !.odhcpd = <<>>, !.dnsmasq = <<>>, !.routes = <<>>]

\* The list is full before the second lease of the phone.
Crowded == [Home EXCEPT !.odhcpd = <<Laptop, Phone1, Line("tablet", "lan", "-", <<P("p1")>>), Phone2>>,
                        !.near6 = <<Row("m1", "lan", "a1"), Row("m3", "lan", "a2")>>]

States == {Home, Away, Restarted, Crowded}
=============================================================================
