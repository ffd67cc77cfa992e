---------------------------- MODULE MC_DnsmasqDHCP ----------------------------
(* Three IPs and three ranges: the IPv4 ranges {i1, i2} and {i2} overlap *)
(* in i2, and the IPv6 range {i3} stands for one too large for int64.     *)
EXTENDS DnsmasqDHCP, TLC

CONSTANTS i1, i2, i3, junk

MCRanges == << [hosts |-> {i1, i2}, family |-> "v4", big |-> FALSE],
               [hosts |-> {i2},     family |-> "v4", big |-> FALSE],
               [hosts |-> {i3},     family |-> "v6", big |-> TRUE] >>
====
