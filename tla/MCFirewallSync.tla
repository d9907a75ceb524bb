--------------------------- MODULE MCFirewallSync ---------------------------
(***************************************************************************)
(* A provider that takes IPv4 only and has few slots: a public address, a  *)
(* range around it and a private one, the private one and an IPv6 one.     *)
(***************************************************************************)
EXTENDS FirewallSync

CONSTANTS public, home, ipv6, host, range, lan, host6, t1, t2

AddressesOf == [c \in Cidr |-> CASE c = host  -> {public}
                                 [] c = range -> {public, home}
                                 [] c = lan   -> {home}
                                 [] c = host6 -> {ipv6}]

WrittenWith == [c \in Cidr |-> CASE c = lan   -> home
                                 [] c = host6 -> ipv6
                                 [] OTHER     -> public]

FreeSlots == [t \in Target |-> IF t = t1 THEN 1 ELSE 2]
=============================================================================
