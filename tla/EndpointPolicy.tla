---------------------------- MODULE EndpointPolicy ----------------------------
(***************************************************************************)
(* Which endpoints of a caller the Walrus tools talk to (utils.rs): a      *)
(* public https URL.  An address is its four octets or its eight segments, *)
(* a host name the sequence of its labels, lower case and without the dot  *)
(* at its end, a URL a record of what the policy looks at.                 *)
(***************************************************************************)
EXTENDS Naturals, Sequences

\* std::net::IpAddr.
Octet == {n \in Nat : n <= 255}
Segment == {n \in Nat : n <= 65535}
IpAddr == [v : {4}, n : [1 .. 4 -> Octet]] \cup [v : {6}, n : [1 .. 8 -> Segment]]

\* The ranges as the code tests them: octets, masks and the library's predicates.
is_public_ipv4(o) ==
  ~ \/ o[1] = 127                                    \* is_loopback
    \/ o[1] = 10                                     \* is_private
    \/ o[1] = 172 /\ o[2] \div 16 = 1
    \/ o[1] = 192 /\ o[2] = 168
    \/ o[1] = 169 /\ o[2] = 254                      \* is_link_local
    \/ o[1] \div 16 = 14                             \* is_multicast
    \/ <<o[1], o[2], o[3]>> \in                      \* is_documentation
         {<<192, 0, 2>>, <<198, 51, 100>>, <<203, 0, 113>>}
    \/ o[1] = 0
    \/ o[1] = 100 /\ o[2] \div 64 = 1                \* o[1] & 0xc0 == 64
    \/ <<o[1], o[2], o[3]>> \in {<<192, 0, 0>>, <<192, 88, 99>>}
    \/ o[1] = 198 /\ o[2] \div 2 = 9                 \* o[1] & 0xfe == 18
    \/ o[1] >= 240

Octets(hi, lo) == <<hi \div 256, hi % 256, lo \div 256, lo % 256>>

\* Mutant of embedded_ipv4: 6to4 is forgotten.
embedded_ipv4_no_6to4(s) ==
  CASE (\A i \in 1 .. 5 : s[i] = 0) /\ s[6] \in {0, 65535} -> {Octets(s[7], s[8])}
    [] s[1] = 100 /\ s[2] = 65435 /\ (\A i \in 3 .. 6 : s[i] = 0) -> {Octets(s[7], s[8])}
    [] OTHER -> {}

\* The v4 address that a v6 address stands in for, at most one: mapped and
\* compatible (to_ipv4), 6to4 and NAT64.
embedded_ipv4(s) ==
  CASE (\A i \in 1 .. 5 : s[i] = 0) /\ s[6] \in {0, 65535} -> {Octets(s[7], s[8])}
    [] s[1] = 8194 -> {Octets(s[2], s[3])}
    [] s[1] = 100 /\ s[2] = 65435 /\ (\A i \in 3 .. 6 : s[i] = 0) -> {Octets(s[7], s[8])}
    [] OTHER -> {}

\* Global unicast (2000::/3) without what is set apart in it; 0x2001 is 8193.
is_public_ipv6(s) ==
  IF embedded_ipv4(s) # {}
  THEN \A o \in embedded_ipv4(s) : is_public_ipv4(o)
  ELSE /\ s[1] \div 8192 = 1
       /\ ~ \/ s[1] = 8193 /\ s[2] < 512
            \/ s[1] = 8193 /\ s[2] = 3512
            \/ s[1] = 16383 /\ s[2] \div 4096 = 0

is_public_ip(ip) == IF ip.v = 4 THEN is_public_ipv4(ip.n) ELSE is_public_ipv6(ip.n)

\* A host that is an address, at most one (Url has normalized odd forms).
host_as_ip(host) == IF host.is = "ip" THEN {host.ip} ELSE {}

\* A name has a dot in it and is not one of a private domain.
check_endpoint_host(host) ==
  IF host_as_ip(host) # {}
  THEN \A ip \in host_as_ip(host) : is_public_ip(ip)
  ELSE /\ Len(host.name) > 1
       /\ host.name[Len(host.name)] \notin {"internal", "local", "localhost", "arpa"}

\* https, and nothing before or after the host and path that would change what
\* the SDK appends to the URL.
check_endpoint_url(url) ==
  /\ url.scheme = "https"
  /\ url.parts \cap {"user", "password", "query", "fragment"} = {}
  /\ check_endpoint_host(url.host)

-----------------------------------------------------------------------------
(* The registries' special-purpose blocks, first and last address of each. *)

Reserved ==
  {<<<<0, 0, 0, 0>>, <<0, 255, 255, 255>>>>, <<<<10, 0, 0, 0>>, <<10, 255, 255, 255>>>>,
   <<<<100, 64, 0, 0>>, <<100, 127, 255, 255>>>>, <<<<127, 0, 0, 0>>, <<127, 255, 255, 255>>>>,
   <<<<169, 254, 0, 0>>, <<169, 254, 255, 255>>>>, <<<<172, 16, 0, 0>>, <<172, 31, 255, 255>>>>,
   <<<<192, 0, 0, 0>>, <<192, 0, 0, 255>>>>, <<<<192, 0, 2, 0>>, <<192, 0, 2, 255>>>>,
   <<<<192, 88, 99, 0>>, <<192, 88, 99, 255>>>>, <<<<192, 168, 0, 0>>, <<192, 168, 255, 255>>>>,
   <<<<198, 18, 0, 0>>, <<198, 19, 255, 255>>>>, <<<<198, 51, 100, 0>>, <<198, 51, 100, 255>>>>,
   <<<<203, 0, 113, 0>>, <<203, 0, 113, 255>>>>, <<<<224, 0, 0, 0>>, <<255, 255, 255, 255>>>>}

\* The same of IPv6, by the first two segments.
ReservedV6 ==
  {<<<<0, 0>>, <<8191, 65535>>>>, <<<<8193, 0>>, <<8193, 511>>>>,
   <<<<8193, 3512>>, <<8193, 3512>>>>, <<<<16383, 0>>, <<16383, 4095>>>>,
   <<<<16384, 0>>, <<65535, 65535>>>>}

\* The order of addresses.
UpTo(a, b) ==
  \/ \A i \in DOMAIN a : a[i] = b[i]
  \/ \E i \in DOMAIN a : (\A k \in 1 .. i - 1 : a[k] = b[k]) /\ a[i] < b[i]

Within(blocks, a) == \E b \in blocks : UpTo(b[1], a) /\ UpTo(a, b[2])

\* The prefixes whose addresses carry a v4 address, and the segment it starts at.
Carriers ==
  {[prefix |-> <<0, 0, 0, 0, 0, 0>>, at |-> 7], [prefix |-> <<0, 0, 0, 0, 0, 65535>>, at |-> 7],
   [prefix |-> <<8194>>, at |-> 2], [prefix |-> <<100, 65435, 0, 0, 0, 0>>, at |-> 7]}

Carried(s) ==
  {Octets(s[c.at], s[c.at + 1]) :
     c \in {d \in Carriers : \A i \in DOMAIN d.prefix : s[i] = d.prefix[i]}}

\* A v6 address that carries a v4 one reaches that one, and is as reserved as it is.
IsReserved(ip) ==
  IF ip.v = 4 THEN Within(Reserved, ip.n)
  ELSE IF Carried(ip.n) # {} THEN \E o \in Carried(ip.n) : Within(Reserved, o)
  ELSE Within(ReservedV6, <<ip.n[1], ip.n[2]>>)
=============================================================================
