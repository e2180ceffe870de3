------------------------------- MODULE MCScan -------------------------------
(* Small instances of Scan for TLC. *)
EXTENDS GuardedScan

CONSTANTS n1, n2, v6, root, spaced

TwoNames  == {n1, n2}
OneV6     == {v6}
TwoPaths  == {root, spaced}
WithSpace == {spaced}
WebPorts  == {80, 443}

As6(addr)    == IPv6(<<0, 0, 0, 0, 0, \hffff>> \o addr)
Teredo(addr) == IPv6(<<\h2001, 0, 8, 8, 8, 8, \hffff - addr[1], \hffff - addr[2]>>)

pub1 == IPv4(172, 15, 255, 255)
pub2 == As6(IPv4(172, 32, 0, 0))
pub6 == IPv6(<<\h2606, \h4700, \h4700, 0, 0, 0, 0, \h1111>>)

(* Public neighbours of internal ranges, on both sides where both are      *)
(* public.                                                                 *)
Neighbours == <<pub2, pub6,
    IPv4(1, 0, 0, 0), IPv4(9, 255, 255, 255), IPv4(11, 0, 0, 0), IPv4(100, 63, 255, 255), IPv4(100, 128, 0, 0),
    IPv4(126, 255, 255, 255), IPv4(128, 0, 0, 0), IPv4(169, 253, 0, 1), IPv4(169, 255, 0, 0),
    IPv4(191, 255, 255, 255), IPv4(192, 0, 1, 255), IPv4(192, 0, 3, 0), IPv4(192, 88, 98, 255), IPv4(192, 88, 100, 0),
    IPv4(192, 167, 255, 255), IPv4(192, 169, 0, 0), IPv4(198, 17, 255, 255), IPv4(198, 20, 0, 0),
    IPv4(198, 51, 99, 255), IPv4(198, 51, 101, 0), IPv4(203, 0, 112, 255), IPv4(203, 0, 114, 0),
    IPv4(223, 255, 255, 255),
    IPv6(<<\h64, \hff9b, 0, 0, 0, 1, \h808, \h808>>), IPv6(<<\h100, 0, 0, 1>>), IPv6(<<\h2001, 1>>),
    IPv6(<<\h2001, \h30>>), IPv6(<<\h2001, \hdb7>>), IPv6(<<\h2001, \hdb9>>), IPv6(<<\h2003>>),
    IPv6(<<\hfbff>>), IPv6(<<\hfe7f, \hffff>>), IPv6(<<\hfec0>>), IPv6(<<\hfeff, \hffff>>)>>

(* The table of guard_test.go, the far end of every range, and addresses   *)
(* refused for the range they are in though what they embed is public.     *)
Internals == {
    IPv4(0, 0, 0, 0), IPv4(0, 255, 255, 255), IPv4(10, 0, 0, 5), IPv4(10, 255, 255, 255), IPv4(100, 127, 255, 255),
    IPv4(127, 0, 0, 1), IPv4(127, 255, 255, 255), IPv4(169, 254, 169, 254), IPv4(172, 16, 0, 0),
    IPv4(172, 31, 255, 255), IPv4(192, 0, 0, 255), IPv4(192, 0, 2, 255), IPv4(192, 88, 99, 255),
    IPv4(192, 168, 255, 255), IPv4(198, 19, 255, 255), IPv4(198, 51, 100, 255), IPv4(203, 0, 113, 255), IPv4(239, 255, 255, 255),
    IPv4(240, 0, 0, 0), IPv4(255, 255, 255, 255), IPv6(<<>>), IPv6(<<0, 0, 0, 0, 0, 0, 0, 1>>),
    IPv6(<<\h64, \hff9b, 0, 0, 0, 0, \hac20, 1>>), IPv6(<<\h64, \hff9b, 1, \hffff, 0, 0, \hac20, 1>>),
    IPv6(<<\h100, 0, 0, 0, \hffff>>), IPv6(<<\h2001, \h20>>), IPv6(<<\h2001, \h2f>>),
    IPv6(<<\h2001, \hdb8, 0, 0, 0, 0, 0, 1>>), IPv6(<<\hfdff>>), IPv6(<<\hfe80, 0, 0, 0, 0, 0, 0, 1>>),
    IPv6(<<\hfebf, \hffff>>), IPv6(<<\hffff>>),
    As6(IPv4(127, 0, 0, 1)), As6(IPv4(169, 254, 169, 254)), As6(IPv4(172, 31, 255, 255)),
    IPv6(<<\h64, \hff9b, 0, 0, 0, 0, \h7f00, 1>>), IPv6(<<\h2002, \h7f00, 1>>), IPv6(<<\h2002, \hac20, 1>>),
    Teredo(IPv4(0, 0, 0, 0)), Teredo(IPv4(127, 0, 0, 1)), Teredo(IPv4(8, 8, 8, 8))}

(* TLC evaluates a definition once, and what a constant is replaced by     *)
(* every time: hence two names of each.                                    *)
Judged  == Internals \cup {pub1} \cup {Neighbours[i] : i \in DOMAIN Neighbours}
Written == {addr : addr \in Judged \cup {Unmap(a) : a \in Judged}}
Passed  == {addr : addr \in {a \in Written : IsPublicAddr(a)}}
Lookups == {<<>>, <<pub1>>, Neighbours} \cup {<<pub1, addr>> : addr \in Internals}

AllAddrs  == Written
Accepted  == Passed
AsIPv4    == [addr \in Written |-> Unmap(addr)]
Refused   == Internals
V6Address == [h \in Literals6 |-> pub6]
DnsMaySay == Lookups

At(form, scheme, host, port, path) ==
    [form |-> form, scheme |-> scheme, user |-> FALSE, host |-> host, port |-> port,
     path |-> [name |-> path, escapes |-> 0], sep |-> FALSE]

TypedName    == At("bare", "none", n1, NoPort, root)
TypedQuery   == [TypedName EXCEPT !.sep = TRUE]
HttpsSpaced  == At("absolute", "https", n1, NoPort, spaced)
HttpOn443    == At("absolute", "http", n2, 443, root)
Https6       == At("absolute", "https", v6, NoPort, root)
Https6On80   == At("absolute", "https", v6, 80, root)
Ftp          == At("absolute", "other", n1, NoPort, root)
Port8080     == At("absolute", "http", n2, 8080, root)
WithUser     == [At("absolute", "https", n1, NoPort, root) EXCEPT !.user = TRUE]
Hostless     == At("absolute", "https", NoHost, NoPort, root)
Blank        == At("blank", "none", NoHost, NoPort, root)
Unparsable   == At("malformed", "none", NoHost, NoPort, root)

ToPath       == At("path", "none", NoHost, NoPort, spaced)
ToQuery      == At("query", "none", NoHost, NoPort, root)
ToNetwork    == At("network", "none", n2, NoPort, root)
ToHttp       == At("absolute", "http", n2, NoPort, root)
ToOpaque     == At("bare", "none", n1, 443, root)

AllInputs    == {TypedName, TypedQuery, HttpsSpaced, HttpOn443, Https6, Https6On80, Ftp, Port8080, WithUser, Hostless,
                 Blank, Unparsable}
AllLocations == {ToPath, ToQuery, ToNetwork, ToHttp, ToOpaque, Port8080, Ftp, Unparsable}

SpacedInputs   == {HttpsSpaced}
V6Inputs       == {Https6}
FewLocations   == {ToPath, ToHttp, Port8080}
=============================================================================
