---------------------------- MODULE AddressGuard ----------------------------
(***************************************************************************)
(* The address rules of backend/internal/scanner/guard.go.                 *)
(*                                                                         *)
(* A netip.Addr is its 16-bit words, two of IPv4 or eight of IPv6; zones,  *)
(* which DNS never answers, are left out.                                  *)
(***************************************************************************)
EXTENDS Integers, Sequences

IPv4(a, b, c, d) == <<256 * a + b, 256 * c + d>>
IPv6(front)      == SubSeq(front \o <<0, 0, 0, 0, 0, 0, 0, 0>>, 1, 8)

Is4(addr)     == Len(addr) = 2
IsValid(addr) == Len(addr) \in {2, 8}

(* netip.Prefix: an address and how many of its bits count.                *)
Net(addr, bits) == [addr |-> addr, bits |-> bits]

CoversOneBitLess(net, addr) ==
    /\ Len(addr) = Len(net.addr)
    /\ \A i \in DOMAIN addr :
          LET unread == 16 * i - net.bits + 1
          IN  unread < 16 =>
                LET block == 2 ^ (IF unread > 0 THEN unread ELSE 0)
                IN  addr[i] \div block = net.addr[i] \div block

(* Prefix.Contains: of the i-th word, what lies beyond the prefix is not   *)
(* compared.                                                               *)
Covers(net, addr) ==
    /\ Len(addr) = Len(net.addr)
    /\ \A i \in DOMAIN addr :
          LET unread == 16 * i - net.bits
          IN  unread < 16 =>
                LET block == 2 ^ (IF unread > 0 THEN unread ELSE 0)
                IN  addr[i] \div block = net.addr[i] \div block

blockedPrefixes ==
    {Net(IPv4(0, 0, 0, 0), 8),       Net(IPv4(10, 0, 0, 0), 8),      Net(IPv4(100, 64, 0, 0), 10),
     Net(IPv4(127, 0, 0, 0), 8),     Net(IPv4(169, 254, 0, 0), 16),  Net(IPv4(172, 16, 0, 0), 12),
     Net(IPv4(192, 0, 0, 0), 24),    Net(IPv4(192, 0, 2, 0), 24),    Net(IPv4(192, 88, 99, 0), 24),
     Net(IPv4(192, 168, 0, 0), 16),  Net(IPv4(198, 18, 0, 0), 15),   Net(IPv4(198, 51, 100, 0), 24),
     Net(IPv4(203, 0, 113, 0), 24),  Net(IPv4(224, 0, 0, 0), 4),     Net(IPv4(240, 0, 0, 0), 4),
     Net(IPv6(<<>>), 128),           Net(IPv6(<<0, 0, 0, 0, 0, 0, 0, 1>>), 128),
     Net(IPv6(<<\h64, \hff9b>>), 96), Net(IPv6(<<\h64, \hff9b, 1>>), 48), Net(IPv6(<<\h100>>), 64),
     Net(IPv6(<<\h2001>>), 32),      Net(IPv6(<<\h2001, \h20>>), 28), Net(IPv6(<<\h2001, \hdb8>>), 32),
     Net(IPv6(<<\h2002>>), 16),      Net(IPv6(<<\hfc00>>), 7),       Net(IPv6(<<\hfe80>>), 10),
     Net(IPv6(<<\hff00>>), 8)}

(* IsUnspecified, IsLoopback, IsPrivate, IsMulticast, IsLinkLocalUnicast;  *)
(* the narrower multicast predicates lie within IsMulticast.               *)
NetipPrefixes ==
    {Net(IPv4(0, 0, 0, 0), 32), Net(IPv4(127, 0, 0, 0), 8), Net(IPv4(10, 0, 0, 0), 8),
     Net(IPv4(172, 16, 0, 0), 12), Net(IPv4(192, 168, 0, 0), 16), Net(IPv4(224, 0, 0, 0), 4),
     Net(IPv4(169, 254, 0, 0), 16), Net(IPv6(<<>>), 128), Net(IPv6(<<0, 0, 0, 0, 0, 0, 0, 1>>), 128),
     Net(IPv6(<<\hfc00>>), 7), Net(IPv6(<<\hff00>>), 8), Net(IPv6(<<\hfe80>>), 10)}

Is4In6(addr) == Covers(Net(IPv6(<<0, 0, 0, 0, 0, \hffff>>), 96), addr)
Unmap(addr)  == IF Is4In6(addr) THEN <<addr[7], addr[8]>> ELSE addr

(* The IPv4 address inside one of IPv6, if any: mapped, 6to4, Teredo (its  *)
(* bits inverted), NAT64.  Of the NAT64 prefix only 32 bits are looked at. *)
unwrap(addr) ==
    IF Is4In6(addr) THEN {Unmap(addr)}
    ELSE IF Is4(addr) THEN {}
    ELSE IF addr[1] = \h2002 THEN {<<addr[2], addr[3]>>}
    ELSE IF addr[1] = \h2001 /\ addr[2] = 0 THEN {<<\hffff - addr[7], \hffff - addr[8]>>}
    ELSE IF addr[1] = \h64 /\ addr[2] = \hff9b THEN {<<addr[7], addr[8]>>}
    ELSE {}

(* The address as given and what it embeds both have to pass.              *)
IsPublicAddr(addr) ==
    /\ IsValid(addr)
    /\ \A candidate \in {Unmap(addr)} \cup unwrap(addr) :
          \A net \in NetipPrefixes \cup blockedPrefixes : ~Covers(net, candidate)
=============================================================================
