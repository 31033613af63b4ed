-------------------------- MODULE ToolServers_proofs --------------------------
(***************************************************************************)
(* What the tool servers do for every input, every limit and every answer. *)
(* A server serves nothing but its own tools, so each has an invariant of  *)
(* its own, proved from the steps of its own component.                    *)
(***************************************************************************)
EXTENDS ToolServers, SequenceTheorems, WellFoundedInduction, NaturalsInduction, TLAPS

\* No step changes the server, and each is one of the server's own component.
LEMMA WhoServes ==
  ASSUME Next
  PROVE  /\ server' = server
         /\ server = "coinbase" => Coinbase!Next
         /\ server = "math" => Math!Next
         /\ server = "jinja" => Jinja!Next
         /\ server = "bench" => Bench!Next
         /\ server = "twitter" => Twitter!Next
         /\ server = "walrus-read" => Read!Next
         /\ server = "walrus-publisher" => Publisher!Next
<1>1. CASE ServesCoinbase
  BY <1>1 DEF ServesCoinbase
<1>2. CASE ServesMath
  BY <1>2 DEF ServesMath
<1>3. CASE ServesJinja
  BY <1>3 DEF ServesJinja
<1>4. CASE ServesBench
  BY <1>4 DEF ServesBench
<1>5. CASE ServesTwitter
  BY <1>5 DEF ServesTwitter
<1>6. CASE ServesRead
  BY <1>6 DEF ServesRead
<1>7. CASE ServesPublisher
  BY <1>7 DEF ServesPublisher
<1>8. QED
  BY <1>1, <1>2, <1>3, <1>4, <1>5, <1>6, <1>7 DEF Next

-----------------------------------------------------------------------------
(* The endpoint policy.                                                    *)

\* Addresses compare octet by octet.
LEMMA OctetOrder ==
  ASSUME NEW a \in [1 .. 4 -> Read!Octet], NEW b \in [1 .. 4 -> Read!Octet]
  PROVE  Read!UpTo(a, b) <=>
           \/ a[1] < b[1]
           \/ a[1] = b[1] /\ a[2] < b[2]
           \/ a[1] = b[1] /\ a[2] = b[2] /\ a[3] < b[3]
           \/ a[1] = b[1] /\ a[2] = b[2] /\ a[3] = b[3] /\ a[4] <= b[4]
<1>1. DOMAIN a = {1, 2, 3, 4}
  OBVIOUS
<1>2. /\ 1 .. 1 - 1 = {} /\ 1 .. 2 - 1 = {1} /\ 1 .. 3 - 1 = {1, 2} /\ 1 .. 4 - 1 = {1, 2, 3}
  OBVIOUS
<1>3. Read!UpTo(a, b) <=>
        \/ a[1] = b[1] /\ a[2] = b[2] /\ a[3] = b[3] /\ a[4] = b[4]
        \/ a[1] < b[1]
        \/ a[1] = b[1] /\ a[2] < b[2]
        \/ a[1] = b[1] /\ a[2] = b[2] /\ a[3] < b[3]
        \/ a[1] = b[1] /\ a[2] = b[2] /\ a[3] = b[3] /\ a[4] < b[4]
  BY <1>1, <1>2 DEF Read!UpTo
<1>4. \A i \in 1 .. 4 : a[i] \in Nat /\ b[i] \in Nat
  BY DEF Read!Octet
<1>5. QED
  BY <1>3, <1>4

\* A block of whole first octets: an address is in it by its first octet.
LEMMA Slash8 ==
  ASSUME NEW o \in [1 .. 4 -> Read!Octet], NEW n \in Read!Octet, NEW m \in Read!Octet
  PROVE  Read!UpTo(<<n, 0, 0, 0>>, o) /\ Read!UpTo(o, <<m, 255, 255, 255>>) <=> o[1] \in n .. m
<1> DEFINE f == <<n, 0, 0, 0>>
           t == <<m, 255, 255, 255>>
<1>1. f \in [1 .. 4 -> Read!Octet] /\ t \in [1 .. 4 -> Read!Octet]
  BY DEF Read!Octet
<1>2. /\ f[1] = n /\ f[2] = 0 /\ f[3] = 0 /\ f[4] = 0
      /\ t[1] = m /\ t[2] = 255 /\ t[3] = 255 /\ t[4] = 255
  OBVIOUS
<1>3. /\ \A k \in 1 .. 4 : o[k] \in Nat /\ o[k] <= 255
      /\ n \in Nat /\ n <= 255 /\ m \in Nat /\ m <= 255
  BY DEF Read!Octet
<1> HIDE DEF f, t
<1>4. Read!UpTo(f, o) <=> n <= o[1]
  <2>1. Read!UpTo(f, o) <=>
          \/ f[1] < o[1]
          \/ f[1] = o[1] /\ f[2] < o[2]
          \/ f[1] = o[1] /\ f[2] = o[2] /\ f[3] < o[3]
          \/ f[1] = o[1] /\ f[2] = o[2] /\ f[3] = o[3] /\ f[4] <= o[4]
    BY <1>1, OctetOrder
  <2>2. QED
    BY <1>2, <1>3, <2>1
<1>5. Read!UpTo(o, t) <=> o[1] <= m
  <2>1. Read!UpTo(o, t) <=>
          \/ o[1] < t[1]
          \/ o[1] = t[1] /\ o[2] < t[2]
          \/ o[1] = t[1] /\ o[2] = t[2] /\ o[3] < t[3]
          \/ o[1] = t[1] /\ o[2] = t[2] /\ o[3] = t[3] /\ o[4] <= t[4]
    BY <1>1, OctetOrder
  <2>2. QED
    BY <1>2, <1>3, <2>1
<1>6. (Read!UpTo(f, o) /\ Read!UpTo(o, t)) <=> (o[1] \in n .. m)
  BY <1>3, <1>4, <1>5
<1>7. QED
  BY <1>6 DEF f, t

\* A block of whole second octets.
LEMMA Slash16 ==
  ASSUME NEW o \in [1 .. 4 -> Read!Octet], NEW a \in Read!Octet, NEW n \in Read!Octet, NEW m \in Read!Octet
  PROVE  Read!UpTo(<<a, n, 0, 0>>, o) /\ Read!UpTo(o, <<a, m, 255, 255>>) <=> o[1] = a /\ n <= o[2] /\ o[2] <= m
<1> DEFINE f == <<a, n, 0, 0>>
           t == <<a, m, 255, 255>>
<1>1. f \in [1 .. 4 -> Read!Octet] /\ t \in [1 .. 4 -> Read!Octet]
  BY DEF Read!Octet
<1>2. /\ f[1] = a /\ f[2] = n /\ f[3] = 0 /\ f[4] = 0
      /\ t[1] = a /\ t[2] = m /\ t[3] = 255 /\ t[4] = 255
  OBVIOUS
<1>3. /\ \A k \in 1 .. 4 : o[k] \in Nat /\ o[k] <= 255
      /\ a \in Nat /\ a <= 255 /\ n \in Nat /\ n <= 255 /\ m \in Nat /\ m <= 255
  BY DEF Read!Octet
<1> HIDE DEF f, t
<1>4. Read!UpTo(f, o) <=> a < o[1] \/ (a = o[1] /\ n <= o[2])
  <2>1. Read!UpTo(f, o) <=>
          \/ f[1] < o[1]
          \/ f[1] = o[1] /\ f[2] < o[2]
          \/ f[1] = o[1] /\ f[2] = o[2] /\ f[3] < o[3]
          \/ f[1] = o[1] /\ f[2] = o[2] /\ f[3] = o[3] /\ f[4] <= o[4]
    BY <1>1, OctetOrder
  <2>2. QED
    BY <1>2, <1>3, <2>1
<1>5. Read!UpTo(o, t) <=> o[1] < a \/ (o[1] = a /\ o[2] <= m)
  <2>1. Read!UpTo(o, t) <=>
          \/ o[1] < t[1]
          \/ o[1] = t[1] /\ o[2] < t[2]
          \/ o[1] = t[1] /\ o[2] = t[2] /\ o[3] < t[3]
          \/ o[1] = t[1] /\ o[2] = t[2] /\ o[3] = t[3] /\ o[4] <= t[4]
    BY <1>1, OctetOrder
  <2>2. QED
    BY <1>2, <1>3, <2>1
<1>6. (Read!UpTo(f, o) /\ Read!UpTo(o, t)) <=> (o[1] = a /\ n <= o[2] /\ o[2] <= m)
  BY <1>3, <1>4, <1>5
<1>7. QED
  BY <1>6 DEF f, t

\* A block of one third octet.
LEMMA Slash24 ==
  ASSUME NEW o \in [1 .. 4 -> Read!Octet], NEW a \in Read!Octet, NEW b \in Read!Octet, NEW n \in Read!Octet
  PROVE  Read!UpTo(<<a, b, n, 0>>, o) /\ Read!UpTo(o, <<a, b, n, 255>>) <=> o[1] = a /\ o[2] = b /\ o[3] = n
<1> DEFINE f == <<a, b, n, 0>>
           t == <<a, b, n, 255>>
<1>1. f \in [1 .. 4 -> Read!Octet] /\ t \in [1 .. 4 -> Read!Octet]
  BY DEF Read!Octet
<1>2. /\ f[1] = a /\ f[2] = b /\ f[3] = n /\ f[4] = 0
      /\ t[1] = a /\ t[2] = b /\ t[3] = n /\ t[4] = 255
  OBVIOUS
<1>3. /\ \A k \in 1 .. 4 : o[k] \in Nat /\ o[k] <= 255
      /\ a \in Nat /\ a <= 255 /\ b \in Nat /\ b <= 255 /\ n \in Nat /\ n <= 255
  BY DEF Read!Octet
<1> HIDE DEF f, t
<1>4. Read!UpTo(f, o) <=> a < o[1] \/ (a = o[1] /\ (b < o[2] \/ (b = o[2] /\ n <= o[3])))
  <2>1. Read!UpTo(f, o) <=>
          \/ f[1] < o[1]
          \/ f[1] = o[1] /\ f[2] < o[2]
          \/ f[1] = o[1] /\ f[2] = o[2] /\ f[3] < o[3]
          \/ f[1] = o[1] /\ f[2] = o[2] /\ f[3] = o[3] /\ f[4] <= o[4]
    BY <1>1, OctetOrder
  <2>2. QED
    BY <1>2, <1>3, <2>1
<1>5. Read!UpTo(o, t) <=> o[1] < a \/ (o[1] = a /\ (o[2] < b \/ (o[2] = b /\ o[3] <= n)))
  <2>1. Read!UpTo(o, t) <=>
          \/ o[1] < t[1]
          \/ o[1] = t[1] /\ o[2] < t[2]
          \/ o[1] = t[1] /\ o[2] = t[2] /\ o[3] < t[3]
          \/ o[1] = t[1] /\ o[2] = t[2] /\ o[3] = t[3] /\ o[4] <= t[4]
    BY <1>1, OctetOrder
  <2>2. QED
    BY <1>2, <1>3, <2>1
<1>6. (Read!UpTo(f, o) /\ Read!UpTo(o, t)) <=> (o[1] = a /\ o[2] = b /\ o[3] = n)
  BY <1>3, <1>4, <1>5
<1>7. QED
  BY <1>6 DEF f, t

\* The reserved blocks of IPv4, by octets.
LEMMA ReservedByOctets ==
  ASSUME NEW o \in [1 .. 4 -> Read!Octet]
  PROVE  Read!Within(Read!Reserved, o) <=>
           \/ o[1] \in {0, 10, 127} \cup 224 .. 255
           \/ o[1] = 100 /\ o[2] \in 64 .. 127
           \/ o[1] = 169 /\ o[2] = 254
           \/ o[1] = 172 /\ o[2] \in 16 .. 31
           \/ o[1] = 192 /\ o[2] = 168
           \/ o[1] = 198 /\ o[2] \in 18 .. 19
           \/ o[1] = 192 /\ o[2] = 0 /\ o[3] \in {0, 2}
           \/ o[1] = 192 /\ o[2] = 88 /\ o[3] = 99
           \/ o[1] = 198 /\ o[2] = 51 /\ o[3] = 100
           \/ o[1] = 203 /\ o[2] = 0 /\ o[3] = 113
<1> DEFINE In8(n, m) == Read!UpTo(<<n, 0, 0, 0>>, o) /\ Read!UpTo(o, <<m, 255, 255, 255>>)
           In16(a, n, m) == Read!UpTo(<<a, n, 0, 0>>, o) /\ Read!UpTo(o, <<a, m, 255, 255>>)
           In24(a, b, n) == Read!UpTo(<<a, b, n, 0>>, o) /\ Read!UpTo(o, <<a, b, n, 255>>)
<1>1. Read!Within(Read!Reserved, o) <=>
        \/ In8(0, 0) \/ In8(10, 10) \/ In8(127, 127) \/ In8(224, 255)
        \/ In16(100, 64, 127) \/ In16(169, 254, 254) \/ In16(172, 16, 31)
        \/ In16(192, 168, 168) \/ In16(198, 18, 19)
        \/ In24(192, 0, 0) \/ In24(192, 0, 2) \/ In24(192, 88, 99)
        \/ In24(198, 51, 100) \/ In24(203, 0, 113)
  BY DEF Read!Within, Read!Reserved
<1>2. /\ \A n, m \in Read!Octet : In8(n, m) <=> o[1] \in n .. m
      /\ \A a, n, m \in Read!Octet : In16(a, n, m) <=> (o[1] = a /\ n <= o[2] /\ o[2] <= m)
      /\ \A a, b, n \in Read!Octet : In24(a, b, n) <=> (o[1] = a /\ o[2] = b /\ o[3] = n)
  <2>1. \A n, m \in Read!Octet : In8(n, m) <=> o[1] \in n .. m
    BY Slash8
  <2>2. \A a, n, m \in Read!Octet : In16(a, n, m) <=> (o[1] = a /\ n <= o[2] /\ o[2] <= m)
    BY Slash16
  <2>3. \A a, b, n \in Read!Octet : In24(a, b, n) <=> (o[1] = a /\ o[2] = b /\ o[3] = n)
    BY ZenonT(30), Slash24
  <2>4. QED
    BY <2>1, <2>2, <2>3
<1>3. /\ {0, 2, 10, 16, 18, 19, 31, 51, 64, 88, 99, 100, 113, 127} \subseteq Read!Octet
      /\ {168, 169, 172, 192, 198, 203, 224, 254, 255} \subseteq Read!Octet
      /\ o[1] \in Nat /\ o[2] \in Nat /\ o[3] \in Nat
  BY DEF Read!Octet
<1> HIDE DEF In8, In16, In24
<1>4. /\ In8(0, 0) <=> o[1] = 0
      /\ In8(10, 10) <=> o[1] = 10
      /\ In8(127, 127) <=> o[1] = 127
      /\ In8(224, 255) <=> o[1] \in 224 .. 255
  <2>1. \A n, m \in Read!Octet : In8(n, m) <=> o[1] \in n .. m
    BY <1>2
  <2>2. \A n \in Read!Octet : In8(n, n) <=> o[1] = n
    BY <1>3, <2>1 DEF Read!Octet
  <2>3. {0, 10, 127, 224, 255} \subseteq Read!Octet
    BY <1>3
  <2>4. In8(224, 255) <=> o[1] \in 224 .. 255
    BY <2>1, <2>3
  <2>5. QED
    BY <2>2, <2>3, <2>4
<1>5. /\ In16(100, 64, 127) <=> o[1] = 100 /\ o[2] \in 64 .. 127
      /\ In16(169, 254, 254) <=> o[1] = 169 /\ o[2] = 254
      /\ In16(172, 16, 31) <=> o[1] = 172 /\ o[2] \in 16 .. 31
      /\ In16(192, 168, 168) <=> o[1] = 192 /\ o[2] = 168
      /\ In16(198, 18, 19) <=> o[1] = 198 /\ o[2] \in 18 .. 19
  <2>1. \A a, n, m \in Read!Octet :
          In16(a, n, m) <=> (a = o[1] /\ o[2] \in n .. m)
    BY <1>2, <1>3 DEF Read!Octet
  <2>2. /\ In16(100, 64, 127) <=> o[1] = 100 /\ o[2] \in 64 .. 127
        /\ In16(172, 16, 31) <=> o[1] = 172 /\ o[2] \in 16 .. 31
        /\ In16(198, 18, 19) <=> o[1] = 198 /\ o[2] \in 18 .. 19
    BY SMTT(30), <1>3, <2>1
  <2>3. In16(169, 254, 254) <=> o[1] = 169 /\ o[2] = 254
    BY <1>2, <1>3
  <2>4. In16(192, 168, 168) <=> o[1] = 192 /\ o[2] = 168
    BY <1>2, <1>3
  <2>5. QED
    BY <2>2, <2>3, <2>4
<1>6. /\ In24(192, 0, 0) <=> o[1] = 192 /\ o[2] = 0 /\ o[3] = 0
      /\ In24(192, 0, 2) <=> o[1] = 192 /\ o[2] = 0 /\ o[3] = 2
      /\ In24(192, 88, 99) <=> o[1] = 192 /\ o[2] = 88 /\ o[3] = 99
      /\ In24(198, 51, 100) <=> o[1] = 198 /\ o[2] = 51 /\ o[3] = 100
      /\ In24(203, 0, 113) <=> o[1] = 203 /\ o[2] = 0 /\ o[3] = 113
  BY <1>2, <1>3
<1>7. QED
  BY <1>1, <1>4, <1>5, <1>6

\* is_public_ipv4 lets through what is in no reserved block.
LEMMA PolicyV4 ==
  ASSUME NEW o \in [1 .. 4 -> Read!Octet]
  PROVE  Read!is_public_ipv4(o) <=> ~Read!Within(Read!Reserved, o)
<1>1. /\ o[1] \in Nat /\ o[1] <= 255 /\ o[2] \in Nat /\ o[2] <= 255 /\ o[3] \in Nat /\ o[3] <= 255
  BY DEF Read!Octet
<1>2. /\ o[2] \div 16 = 1 <=> o[2] \in 16 .. 31
      /\ o[1] \div 16 = 14 <=> o[1] \in 224 .. 239
      /\ o[2] \div 64 = 1 <=> o[2] \in 64 .. 127
      /\ o[2] \div 2 = 9 <=> o[2] \in 18 .. 19
  BY <1>1
<1>3. \A a, b, c : <<o[1], o[2], o[3]>> = <<a, b, c>> <=> o[1] = a /\ o[2] = b /\ o[3] = c
  OBVIOUS
<1>4. QED
  BY <1>1, <1>2, <1>3, ReservedByOctets DEF Read!is_public_ipv4

\* The reserved blocks of IPv6, by the first two segments.
LEMMA ReservedBySegments ==
  ASSUME NEW a \in Read!Segment, NEW b \in Read!Segment
  PROVE  Read!Within(Read!ReservedV6, <<a, b>>) <=>
           \/ a < 8192 \/ a > 16383
           \/ a = 8193 /\ b <= 511
           \/ a = 8193 /\ b = 3512
           \/ a = 16383 /\ b <= 4095
<1>1. ASSUME NEW c \in Read!Segment, NEW d \in Read!Segment, NEW e \in Read!Segment, NEW f \in Read!Segment
      PROVE  Read!UpTo(<<c, d>>, <<e, f>>) <=> c < e \/ (c = e /\ d <= f)
  <2> DEFINE x == <<c, d>>
             y == <<e, f>>
  <2>1. DOMAIN x = {1, 2} /\ 1 .. 1 - 1 = {} /\ 1 .. 2 - 1 = {1}
    OBVIOUS
  <2>2. x[1] = c /\ x[2] = d /\ y[1] = e /\ y[2] = f
    OBVIOUS
  <2> HIDE DEF x, y
  <2>3. Read!UpTo(x, y) <=> (c = e /\ d = f) \/ c < e \/ (c = e /\ d < f)
    BY <2>1, <2>2 DEF Read!UpTo
  <2>4. c \in Nat /\ d \in Nat /\ e \in Nat /\ f \in Nat
    BY DEF Read!Segment
  <2>5. QED
    BY <2>3, <2>4 DEF x, y
<1> DEFINE In(f, t) == Read!UpTo(f, <<a, b>>) /\ Read!UpTo(<<a, b>>, t)
<1>2. Read!Within(Read!ReservedV6, <<a, b>>) <=>
        \/ In(<<0, 0>>, <<8191, 65535>>) \/ In(<<8193, 0>>, <<8193, 511>>)
        \/ In(<<8193, 3512>>, <<8193, 3512>>) \/ In(<<16383, 0>>, <<16383, 4095>>)
        \/ In(<<16384, 0>>, <<65535, 65535>>)
  BY DEF Read!Within, Read!ReservedV6
<1>3. \A n \in Nat : n <= 65535 => n \in Read!Segment
  BY DEF Read!Segment
<1>4. a \in Nat /\ b \in Nat /\ a <= 65535 /\ b <= 65535
  BY DEF Read!Segment
<1>5. In(<<0, 0>>, <<8191, 65535>>) <=> a <= 8191
  BY <1>1, <1>3, <1>4
<1>6. In(<<8193, 0>>, <<8193, 511>>) <=> a = 8193 /\ b <= 511
  BY <1>1, <1>3, <1>4
<1>7. In(<<8193, 3512>>, <<8193, 3512>>) <=> a = 8193 /\ b = 3512
  BY <1>1, <1>3, <1>4
<1>8. In(<<16383, 0>>, <<16383, 4095>>) <=> a = 16383 /\ b <= 4095
  BY <1>1, <1>3, <1>4
<1>9. In(<<16384, 0>>, <<65535, 65535>>) <=> a >= 16384
  BY <1>1, <1>3, <1>4
<1> HIDE DEF In
<1>10. QED
  BY <1>2, <1>4, <1>5, <1>6, <1>7, <1>8, <1>9

\* The branches of embedded_ipv4 are the prefixes that carry a v4 address.
LEMMA EmbeddedIsCarried ==
  ASSUME NEW s
  PROVE  Read!Carried(s) = Read!embedded_ipv4(s)
<1> DEFINE Starts(p) == \A i \in DOMAIN p : s[i] = p[i]
           zeros == <<0, 0, 0, 0, 0, 0>>
           mapped == <<0, 0, 0, 0, 0, 65535>>
           tunnel == <<8194>>
           nat == <<100, 65435, 0, 0, 0, 0>>
<1>1. Read!Carried(s) =
        {Read!Octets(s[c.at], s[c.at + 1]) : c \in {d \in Read!Carriers : Starts(d.prefix)}}
  BY DEF Read!Carried
<1>2. Read!Carriers = {[prefix |-> zeros, at |-> 7], [prefix |-> mapped, at |-> 7],
                       [prefix |-> tunnel, at |-> 2], [prefix |-> nat, at |-> 7]}
  BY DEF Read!Carriers
<1>3. /\ Starts(zeros) \/ Starts(mapped) <=> (\A i \in 1 .. 5 : s[i] = 0) /\ s[6] \in {0, 65535}
      /\ Starts(tunnel) <=> s[1] = 8194
      /\ Starts(nat) <=> s[1] = 100 /\ s[2] = 65435 /\ \A i \in 3 .. 6 : s[i] = 0
  <2>1. \A i : /\ i \in 1 .. 6 <=> i = 1 \/ i = 2 \/ i = 3 \/ i = 4 \/ i = 5 \/ i = 6
               /\ i \in 1 .. 5 <=> i = 1 \/ i = 2 \/ i = 3 \/ i = 4 \/ i = 5
               /\ i \in 3 .. 6 <=> i = 3 \/ i = 4 \/ i = 5 \/ i = 6
    OBVIOUS
  <2>2. /\ Starts(zeros) <=> s[1] = 0 /\ s[2] = 0 /\ s[3] = 0 /\ s[4] = 0 /\ s[5] = 0 /\ s[6] = 0
        /\ Starts(mapped) <=> /\ s[1] = 0 /\ s[2] = 0 /\ s[3] = 0 /\ s[4] = 0 /\ s[5] = 0
                              /\ s[6] = 65535
        /\ Starts(tunnel) <=> s[1] = 8194
        /\ Starts(nat) <=> /\ s[1] = 100 /\ s[2] = 65435 /\ s[3] = 0 /\ s[4] = 0 /\ s[5] = 0
                           /\ s[6] = 0
    OBVIOUS
  <2> HIDE DEF Starts
  <2>3. QED
    BY <2>1, <2>2
<1>4. Read!Carried(s) =
        (IF Starts(zeros) \/ Starts(mapped) \/ Starts(nat) THEN {Read!Octets(s[7], s[8])} ELSE {})
        \cup (IF Starts(tunnel) THEN {Read!Octets(s[2], s[3])} ELSE {})
  <2> DEFINE Of(c) == Read!Octets(s[c.at], s[c.at + 1])
             Cs == {d \in Read!Carriers : Starts(d.prefix)}
             Made == (IF Starts(zeros) \/ Starts(mapped) \/ Starts(nat)
                      THEN {Read!Octets(s[7], s[8])} ELSE {})
                     \cup (IF Starts(tunnel) THEN {Read!Octets(s[2], s[3])} ELSE {})
             a == [prefix |-> zeros, at |-> 7]
             b == [prefix |-> mapped, at |-> 7]
             c6 == [prefix |-> tunnel, at |-> 2]
             n64 == [prefix |-> nat, at |-> 7]
  <2>1. /\ a.prefix = zeros /\ b.prefix = mapped /\ c6.prefix = tunnel /\ n64.prefix = nat
        /\ Of(a) = Read!Octets(s[7], s[8]) /\ Of(b) = Read!Octets(s[7], s[8])
        /\ Of(n64) = Read!Octets(s[7], s[8]) /\ Of(c6) = Read!Octets(s[2], s[3])
    OBVIOUS
  <2>2. Read!Carriers = {a, b, c6, n64}
    BY <1>2
  <2> HIDE DEF a, b, c6, n64, Starts, zeros, mapped, tunnel, nat, Of
  <2>3. Cs = {d \in {a, b, c6, n64} : Starts(d.prefix)}
    BY <2>2
  <2>4. \A x : x \in {Of(c) : c \in Cs} <=> x \in Made
    BY <2>1, <2>3
  <2>5. Read!Carried(s) = {Of(c) : c \in Cs}
    BY <1>1 DEF Of
  <2>6. QED
    BY <2>4, <2>5
<1>5. Read!embedded_ipv4(s) =
        (IF Starts(zeros) \/ Starts(mapped) \/ Starts(nat) THEN {Read!Octets(s[7], s[8])} ELSE {})
        \cup (IF Starts(tunnel) THEN {Read!Octets(s[2], s[3])} ELSE {})
  <2>1. (Starts(zeros) \/ Starts(mapped) => s[1] = 0) /\ (Starts(nat) => s[1] = 100)
    BY <1>3
  <2> HIDE DEF Starts, zeros, mapped, tunnel, nat
  <2>2. QED
    BY <1>3, <2>1 DEF Read!embedded_ipv4
<1>6. QED
  BY <1>4, <1>5

\* What the tests of is_public_ip on octets, segments and masks let through is what
\* is in no reserved block, for every address of 32 and of 128 bits (utils.rs).
THEOREM PolicyIsExact ==
  ASSUME NEW ip \in Read!IpAddr
  PROVE  Read!is_public_ip(ip) <=> ~Read!IsReserved(ip)
<1>1. CASE ip \in [v : {4}, n : [1 .. 4 -> Read!Octet]]
  BY <1>1, PolicyV4 DEF Read!is_public_ip, Read!IsReserved
<1>2. CASE ip \in [v : {6}, n : [1 .. 8 -> Read!Segment]]
  <2> DEFINE s == ip.n
  <2>1. s \in [1 .. 8 -> Read!Segment] /\ ip.v = 6
    BY <1>2
  <2> HIDE DEF s
  <2>2. \A o \in Read!embedded_ipv4(s) : Read!is_public_ipv4(o) <=> ~Read!Within(Read!Reserved, o)
    <3>1. \A hi, lo \in Read!Segment : Read!Octets(hi, lo) \in [1 .. 4 -> Read!Octet]
      <4>1. ASSUME NEW n \in Read!Segment PROVE n \div 256 \in Read!Octet /\ n % 256 \in Read!Octet
        BY DEF Read!Segment, Read!Octet
      <4>2. QED
        BY <4>1 DEF Read!Octets
    <3>2. /\ Read!Octets(s[7], s[8]) \in [1 .. 4 -> Read!Octet]
          /\ Read!Octets(s[2], s[3]) \in [1 .. 4 -> Read!Octet]
      BY <2>1, <3>1
    <3>3. Read!embedded_ipv4(s) \subseteq {Read!Octets(s[7], s[8]), Read!Octets(s[2], s[3])}
      BY DEF Read!embedded_ipv4
    <3>4. QED
      BY <3>2, <3>3, PolicyV4
  <2>3. \A o, p \in Read!embedded_ipv4(s) : o = p
    BY DEF Read!embedded_ipv4
  <2>4. CASE Read!embedded_ipv4(s) # {}
    <3>1. Read!is_public_ipv6(s) <=> \A o \in Read!embedded_ipv4(s) : Read!is_public_ipv4(o)
      BY <2>4 DEF Read!is_public_ipv6
    <3>2. Read!IsReserved(ip) <=> \E o \in Read!embedded_ipv4(s) : Read!Within(Read!Reserved, o)
      BY <2>1, <2>4, EmbeddedIsCarried DEF Read!IsReserved, s
    <3>3. QED
      BY <2>1, <2>2, <2>3, <2>4, <3>1, <3>2 DEF Read!is_public_ip, s
  <2>5. CASE Read!embedded_ipv4(s) = {}
    <3>1. s[1] \in Nat /\ s[2] \in Nat /\ s[1] <= 65535 /\ s[2] <= 65535
      BY <2>1 DEF Read!Segment
    <3>3. /\ s[1] \div 8192 = 1 <=> s[1] >= 8192 /\ s[1] <= 16383
          /\ s[2] \div 4096 = 0 <=> s[2] <= 4095
      BY <3>1
    <3>4. Read!is_public_ipv6(s) <=>
            /\ s[1] >= 8192 /\ s[1] <= 16383
            /\ ~ \/ s[1] = 8193 /\ s[2] < 512
                 \/ s[1] = 8193 /\ s[2] = 3512
                 \/ s[1] = 16383 /\ s[2] <= 4095
      BY <2>5, <3>3 DEF Read!is_public_ipv6
    <3>5. Read!IsReserved(ip) <=> Read!Within(Read!ReservedV6, <<s[1], s[2]>>)
      BY <2>1, <2>5, EmbeddedIsCarried DEF Read!IsReserved, s
    <3>6. Read!is_public_ip(ip) <=> Read!is_public_ipv6(s)
      BY <2>1 DEF Read!is_public_ip, s
    <3>7. QED
      BY <3>1, <3>4, <3>5, <3>6, ReservedBySegments DEF Read!Segment
  <2>6. QED
    BY <2>4, <2>5
<1>3. QED
  BY <1>1, <1>2 DEF Read!IpAddr

-----------------------------------------------------------------------------
(* bench.load                                                              *)

\* A call that sleeps was not refused; what it returned is why it was asked to.
BenchInv ==
  server = "bench" =>
    /\ clock \in Nat
    /\ stage = "idle" => output = [is |-> "none"]
    /\ stage # "idle" =>
         input \in [sleep_ms : Sleeps, payload_bytes : Payloads, error_rate : Rates]
    /\ stage = "sleeping" => ~Bench!refused(input) /\ output = [is |-> "none"]
    /\ stage = "dropped" => output = [is |-> "none"]
    /\ stage = "returned" =>
         \/ output = [is |-> "err", why |-> "input"]
         \/ output = [is |-> "err", why |-> "synthetic"] /\ input.error_rate > 0
         \/ /\ output = Bench!Answer(input)
            /\ ~Bench!refused(input)
            /\ input.error_rate < 1000
            /\ clock >= input.sleep_ms
    /\ stage \in {"idle", "sleeping", "returned", "dropped"}

\* No step of bench.load leaves what its answer and its sleep are to be.
LEMMA BenchStep ==
  ASSUME BenchInv, [Next]_vars
  PROVE  BenchInv'
<1>1. CASE UNCHANGED vars
  <2>1. /\ server' = server /\ stage' = stage /\ input' = input
        /\ output' = output /\ clock' = clock
    BY <1>1 DEF vars
  <2>2. /\ (~Bench!refused(input))' <=> ~Bench!refused(input)
        /\ Bench!Answer(input)' = Bench!Answer(input)
    BY <2>1
  <2>3. QED
    BY <2>1, <2>2 DEF BenchInv
<1>2. CASE Next
  <2> SUFFICES ASSUME server' = "bench"
               PROVE  BenchInv'
    BY DEF BenchInv
  <2>1. server = "bench" /\ Bench!Next
    BY <1>2, WhoServes
  <2> DEFINE Calls == [sleep_ms : Sleeps, payload_bytes : Payloads, error_rate : Rates]
  <2>2. CASE Bench!invoke
    <3>1. PICK i \in Calls :
            /\ input' = i
            /\ IF Bench!refused(i)
               THEN stage' = "returned" /\ output' = [is |-> "err", why |-> "input"]
               ELSE stage' = "sleeping" /\ output' = output
      BY <2>2 DEF Bench!invoke, Bench!Returns
    <3>2. stage = "idle" /\ clock' = clock
      BY <2>2 DEF Bench!invoke
    <3>3. Bench!refused(i)' <=> Bench!refused(i)
      BY DEF Bench!refused, Bench!One
    <3>4. QED
      BY <2>1, <3>1, <3>2, <3>3 DEF BenchInv
  <2>3. CASE Bench!Wakes
    <3>1. /\ stage = "sleeping" /\ input' = input /\ clock' = clock
          /\ clock >= input.sleep_ms /\ stage' = "returned"
      BY <2>3 DEF Bench!Wakes, Bench!Returns
    <3>2. /\ input \in Calls /\ ~Bench!refused(input) /\ clock \in Nat
      BY <2>1, <3>1 DEF BenchInv
    <3>3. /\ Bench!refused(input)' <=> Bench!refused(input)
          /\ Bench!Answer(input)' = Bench!Answer(input)
      BY <3>1 DEF Bench!refused, Bench!Answer, Bench!One
    <3>4. PICK roll \in {0, input.error_rate, 999} \ {1000} :
            IF Bench!Draws(roll, input.error_rate)
            THEN output' = [is |-> "err", why |-> "synthetic"]
            ELSE output' = Bench!Answer(input)
      BY <2>3 DEF Bench!Wakes, Bench!Returns, Bench!One
    <3>5. input.error_rate \in Int /\ input.error_rate <= 1000
      BY <3>2, BenchAssumption DEF BenchAssumption, Bench!refused, Bench!One
    <3>6. CASE Bench!Draws(roll, input.error_rate)
      BY <2>1, <3>1, <3>2, <3>3, <3>4, <3>6 DEF BenchInv, Bench!Draws
    <3>7. CASE ~Bench!Draws(roll, input.error_rate)
      <4>1. input.error_rate < 1000
        <5>1. roll \in Int /\ roll <= 999
          BY <3>4, <3>5
        <5>2. input.error_rate # 1000 \/ ~(roll < 1000)
          BY <3>7, <5>1 DEF Bench!Draws
        <5>3. QED
          BY <3>5, <5>1, <5>2
      <4>2. QED
        BY <2>1, <3>1, <3>2, <3>3, <3>4, <3>7, <4>1 DEF BenchInv
    <3>8. QED
      BY <3>6, <3>7
  <2>4. CASE Bench!Dropped
    BY <2>1, <2>4 DEF Bench!Dropped, BenchInv, Bench!refused, Bench!Answer, Bench!One
  <2>5. CASE Bench!Tick
    <3>1. clock' \in Nat
      BY <2>1, <2>5, BenchAssumption DEF Bench!Tick, BenchInv, BenchAssumption
    <3>2. QED
      BY <2>1, <2>5, <3>1 DEF Bench!Tick, BenchInv, Bench!refused, Bench!Answer, Bench!One
  <2>6. QED
    BY <2>1, <2>2, <2>3, <2>4, <2>5 DEF Bench!Next
<1>3. QED
  BY <1>1, <1>2

\* bench.load fails a call only if it is asked to, answers no earlier than it is
\* asked to, and not with more than the toolkit takes inline (main.rs of bench).
THEOREM LoadAsAsked == Spec => []LoadIsAsAsked
<1>1. Init => BenchInv
  BY DEF Init, BenchInv, Bench!Init
<1>2. BenchInv /\ [Next]_vars => BenchInv'
  BY BenchStep
<1>3. BenchInv => LoadIsAsAsked
  <2> SUFFICES ASSUME BenchInv, server = "bench"
      PROVE  Bench!AnswerFitsInline /\ Bench!LoadIsAsAsked
    BY DEF LoadIsAsAsked
  <2>1. CASE stage # "returned"
    BY <2>1 DEF BenchInv, Bench!AnswerFitsInline, Bench!LoadIsAsAsked
  <2>2. CASE output = [is |-> "err", why |-> "input"]
    BY <2>2 DEF Bench!AnswerFitsInline, Bench!LoadIsAsAsked
  <2>3. CASE output = [is |-> "err", why |-> "synthetic"] /\ input.error_rate > 0
    BY <2>3 DEF Bench!AnswerFitsInline, Bench!LoadIsAsAsked
  <2>4. CASE /\ stage = "returned" /\ output = Bench!Answer(input)
             /\ ~Bench!refused(input) /\ input.error_rate < 1000
             /\ clock >= input.sleep_ms
    <3>1. input.payload_bytes \in Payloads /\ ~(input.payload_bytes > MAX_PAYLOAD_BYTES)
      BY <2>4 DEF BenchInv, Bench!refused
    <3>2. output.is = "ok" /\ output.bytes = 52 + 5 * 20 + input.payload_bytes
      BY <2>4 DEF Bench!Answer
    <3>3. output.bytes < 61440
      <4>1. ASSUME NEW p \in Payloads, ~(p > MAX_PAYLOAD_BYTES)
            PROVE  52 + 5 * 20 + p < 61440
        BY <4>1, BenchAssumption DEF BenchAssumption
      <4>2. QED
        BY <3>1, <3>2, <4>1
    <3>4. QED
      BY <2>4, <3>2, <3>3
      DEF Bench!AnswerFitsInline, Bench!LoadIsAsAsked, Bench!INLINE_LIMIT, Bench!One
  <2>5. QED
    BY <2>1, <2>2, <2>3, <2>4 DEF BenchInv
<1>4. QED
  BY <1>1, <1>2, <1>3, PTL DEF Spec

-----------------------------------------------------------------------------
(* The reads of storage-walrus.                                            *)

ReadInput == Read!ReadJsonInput \cup Read!ReadFileInput \cup Read!VerifyBlobInput

\* From the URL to the connection: the host answers for the URL, what is pinned was
\* checked, and who connects for a caller has checked a literal or pinned a name.
ConnectInv ==
  server = "walrus-read" =>
    /\ input \in ReadInput
    /\ host \in Read!Hosts(input.url)
    /\ pins # {} => pins \subseteq Address /\ Read!AllPublic(pins)
    /\ stage = "connecting" /\ input.url # {} /\ pins = {} =>
         Read!IsLiteral(input.url) /\ \A u \in input.url : Read!check_endpoint_url(u)
    /\ peer # Nothing /\ input.url # {} => peer \in Read!IpAddr /\ Read!is_public_ip(peer)
    /\ output = "refused" => input.url # {} /\ \A u \in input.url : ~Read!check_endpoint_url(u)

\* From the bytes to the receiving tool: an Ok of read-json is final and commits to
\* the bytes that were validated, and only such bytes are delivered.
DeliverInv ==
  server = "walrus-read" =>
    /\ stage # "returned" => output = "none"
    /\ output = "ok" /\ input.tool = "read-json" =>
         digest = body /\ body \in Json /\ (input.schema => body \in Conforming)
    /\ delivered # Nothing /\ input.tool = "read-json" => output = "ok" /\ delivered = digest

\* A caller's URL is one, and its host is known when it is an address.
LEMMA CallersUrl ==
  ASSUME NEW i \in ReadInput
  PROVE  \/ i.url = {}
         \/ \E u \in Urls :
              /\ i.url = {u}
              /\ u.host.is \in {"ip", "name"}
              /\ u.host.is = "ip" => u.host.ip \in Read!IpAddr
<1>1. i.url \in Read!Endpoints
  BY DEF ReadInput, Read!ReadJsonInput, Read!ReadFileInput, Read!VerifyBlobInput
<1>2. i.url = {} \/ \E u \in Urls : i.url = {u}
  BY <1>1 DEF Read!Endpoints
<1>3. QED
  BY <1>2, ReadAssumption DEF ReadAssumption

\* A literal that passes the check is connected to at a public address.
LEMMA LiteralIsPublic ==
  ASSUME NEW i \in ReadInput, i.url # {}, Read!IsLiteral(i.url),
         \A u \in i.url : Read!check_endpoint_url(u),
         NEW h \in Read!Hosts(i.url), NEW ip \in h
  PROVE  ip \in Read!IpAddr /\ Read!is_public_ip(ip)
<1>1. PICK u \in Urls : /\ i.url = {u}
                        /\ u.host.is = "ip" => u.host.ip \in Read!IpAddr
  BY CallersUrl
<1>2. u.host.is = "ip" /\ h = {u.host.ip}
  BY <1>1 DEF Read!IsLiteral, Read!Hosts, Read!host_as_ip
<1>3. Read!is_public_ip(u.host.ip)
  BY <1>1, <1>2 DEF Read!check_endpoint_url, Read!check_endpoint_host, Read!host_as_ip
<1>4. QED
  BY <1>1, <1>2, <1>3

\* The next state's view of what is decided by the input alone.
LEMMA SameInput ==
  ASSUME input' = input
  PROVE  /\ Read!Hosts(input.url)' = Read!Hosts(input.url)
         /\ Read!IsLiteral(input.url)' <=> Read!IsLiteral(input.url)
         /\ (\A u \in input.url : Read!check_endpoint_url(u))' <=>
              \A u \in input.url : Read!check_endpoint_url(u)
         /\ (\A u \in input.url : ~Read!check_endpoint_url(u))' <=>
              \A u \in input.url : ~Read!check_endpoint_url(u)
<1>1. \A u : Read!check_endpoint_url(u)' <=> Read!check_endpoint_url(u)
  BY DEF Read!check_endpoint_url, Read!check_endpoint_host, Read!host_as_ip, Read!is_public_ip,
         Read!is_public_ipv4, Read!is_public_ipv6, Read!embedded_ipv4, Read!Octets
<1>2. Read!IsLiteral(input.url)' <=> Read!IsLiteral(input.url)
  BY DEF Read!IsLiteral, Read!host_as_ip
<1>3. Read!Hosts(input.url)' = Read!Hosts(input.url)
  BY DEF Read!Hosts, Read!IsLiteral, Read!host_as_ip
<1>4. QED
  BY <1>1, <1>2, <1>3

\* The next state's view of an address.
LEMMA SameAddress ==
  /\ \A ip : Read!is_public_ip(ip)' <=> Read!is_public_ip(ip)
  /\ \A h : Read!AllPublic(h)' <=> Read!AllPublic(h)
BY DEF Read!AllPublic, Read!is_public_ip, Read!is_public_ipv4, Read!is_public_ipv6,
       Read!embedded_ipv4, Read!Octets

\* No step of a read connects elsewhere.
LEMMA ConnectStep ==
  ASSUME ConnectInv, [Next]_vars
  PROVE  ConnectInv'
<1>1. CASE UNCHANGED vars
  <2>1. input' = input /\ UNCHANGED <<server, stage, output, host, pins, peer>>
    BY <1>1 DEF vars, walrus
  <2>2. input \in ReadInput => (input \in ReadInput)'
    BY <2>1 DEF ReadInput, Read!ReadJsonInput, Read!ReadFileInput, Read!VerifyBlobInput, Read!Endpoints
  <2>3. (peer \in Read!IpAddr)' <=> peer \in Read!IpAddr
    BY <2>1 DEF Read!IpAddr, Read!Octet, Read!Segment
  <2>4. QED
    BY <2>1, <2>2, <2>3, SameInput, SameAddress DEF ConnectInv
<1>2. CASE Next
  <2> SUFFICES ASSUME server' = "walrus-read"
               PROVE  ConnectInv'
    BY DEF ConnectInv
  <2>1. server = "walrus-read" /\ Read!Next
    BY <1>2, WhoServes
  <2>2. input' = input
    BY <2>1 DEF Read!Next, Read!RefuseUrl, Read!Resolve, Read!RefuseName, Read!NoLookup,
         Read!Connect, Read!RequestFails, Read!Drop, Read!ReadJson, Read!ReadJsonRefused,
         Read!ReadFile, Read!VerifyBlob, Read!HostChanges, Read!LeaderReads
  <2>3. (input \in ReadInput)' /\ input \in ReadInput
    BY <2>1, <2>2 DEF ConnectInv, ReadInput, Read!ReadJsonInput, Read!ReadFileInput,
         Read!VerifyBlobInput, Read!Endpoints
  <2>4. \A ip : (ip \in Read!IpAddr)' <=> ip \in Read!IpAddr
    BY DEF Read!IpAddr, Read!Octet, Read!Segment
  <2>5. CASE Read!RefuseUrl
    BY <2>1, <2>2, <2>3, <2>4, <2>5, SameInput, SameAddress
    DEF ConnectInv, Read!RefuseUrl, Read!OfCaller, Read!Return
  <2>6. CASE Read!Resolve
    <3>1. pins' = host /\ Read!AllPublic(host) /\ host' = host /\ peer' = peer
          /\ stage' = "connecting" /\ output' = output /\ ~Read!IsLiteral(input.url)
      BY <2>6 DEF Read!Resolve, Read!ToResolve
    <3>2. host \subseteq Address /\ host # {}
      BY <2>1, <3>1 DEF ConnectInv, Read!Hosts, Read!AllPublic
    <3>3. QED
      BY <2>1, <2>2, <2>3, <2>4, <3>1, <3>2, SameInput, SameAddress DEF ConnectInv
  <2>7. CASE Read!NoLookup
    BY <2>1, <2>2, <2>3, <2>4, <2>7, SameInput, SameAddress
    DEF ConnectInv, Read!NoLookup, Read!OfCaller
  <2>8. CASE Read!Connect
    <3>1. /\ stage = "connecting" /\ stage' = "reading" /\ UNCHANGED <<host, pins, output>>
          /\ peer' \in IF pins # {} THEN pins ELSE host
      BY <2>8 DEF Read!Connect
    <3>2. ASSUME input.url # {}
          PROVE  peer' \in Read!IpAddr /\ Read!is_public_ip(peer')
      <4>1. CASE pins # {}
        BY <2>1, <3>1, <4>1, ReadAssumption DEF ConnectInv, Read!AllPublic, ReadAssumption
      <4>2. CASE pins = {}
        BY <2>1, <2>3, <3>1, <3>2, <4>2, LiteralIsPublic DEF ConnectInv
      <4>3. QED
        BY <4>1, <4>2
    <3>3. input'.url # {} => (peer \in Read!IpAddr)' /\ Read!is_public_ip(peer)'
      <4>1. (peer \in Read!IpAddr)' <=> peer' \in Read!IpAddr
        BY DEF Read!IpAddr, Read!Octet, Read!Segment
      <4>2. Read!is_public_ip(peer)' <=> Read!is_public_ip(peer')
        BY DEF Read!is_public_ip, Read!is_public_ipv4, Read!is_public_ipv6,
               Read!embedded_ipv4, Read!Octets
      <4>3. QED
        BY <2>2, <3>2, <4>1, <4>2
    <3>4. QED
      BY <2>1, <2>2, <2>3, <3>1, <3>3, SameInput, SameAddress DEF ConnectInv
  <2>9. CASE Read!HostChanges
    <3>1. (host \in Read!Hosts(input.url))'
      BY <2>2, <2>9 DEF Read!HostChanges, Read!Hosts, Read!IsLiteral, Read!host_as_ip
    <3>2. UNCHANGED <<stage, pins, peer, output>>
      BY <2>9 DEF Read!HostChanges, Read!client
    <3>3. QED
      BY <2>1, <2>2, <2>3, <2>4, <3>1, <3>2, SameInput, SameAddress DEF ConnectInv
  <2>10. CASE Read!RefuseName \/ Read!RequestFails \/ Read!Drop \/ Read!VerifyBlob
    BY <2>1, <2>2, <2>3, <2>4, <2>10, SameInput, SameAddress
    DEF ConnectInv, Read!RefuseName, Read!RequestFails, Read!Drop, Read!VerifyBlob,
        Read!Return, Read!RequestError
  <2>11. CASE Read!ReadJson \/ Read!ReadJsonRefused \/ Read!ReadFile
    BY <2>1, <2>2, <2>3, <2>4, <2>11, SameInput, SameAddress
    DEF ConnectInv, Read!ReadJson, Read!ReadJsonRefused, Read!ReadFile, Read!Return
  <2>12. CASE Read!LeaderReads
    BY <2>1, <2>2, <2>3, <2>4, <2>12, SameInput, SameAddress
    DEF ConnectInv, Read!LeaderReads, Read!client
  <2>13. QED
    BY <2>1, <2>5, <2>6, <2>7, <2>8, <2>9, <2>10, <2>11, <2>12 DEF Read!Next
<1>3. QED
  BY <1>1, <1>2

\* No step of a read delivers what was not validated.
LEMMA DeliverStep ==
  ASSUME DeliverInv, [Next]_vars
  PROVE  DeliverInv'
<1>1. CASE UNCHANGED vars
  BY <1>1 DEF DeliverInv, vars, walrus
<1>2. CASE Next
  <2> SUFFICES ASSUME server' = "walrus-read"
               PROVE  DeliverInv'
    BY DEF DeliverInv
  <2>1. server = "walrus-read" /\ Read!Next
    BY <1>2, WhoServes
  <2>2. CASE Read!ReadJson
    BY <2>1, <2>2 DEF DeliverInv, Read!ReadJson, Read!Return, Read!validate
  <2>3. CASE Read!ReadJsonRefused \/ Read!ReadFile \/ Read!VerifyBlob
    BY <2>1, <2>3
    DEF DeliverInv, Read!ReadJsonRefused, Read!ReadFile, Read!VerifyBlob, Read!Return
  <2>4. CASE Read!RefuseUrl \/ Read!RefuseName \/ Read!RequestFails \/ Read!Drop
    BY <2>1, <2>4
    DEF DeliverInv, Read!RefuseUrl, Read!RefuseName, Read!ToResolve, Read!RequestFails, Read!Drop,
        Read!Return, Read!RequestError
  <2>5. CASE Read!Resolve \/ Read!NoLookup \/ Read!Connect
    BY <2>1, <2>5
    DEF DeliverInv, Read!Resolve, Read!ToResolve, Read!NoLookup, Read!Connect
  <2>6. CASE Read!HostChanges \/ Read!LeaderReads
    BY <2>1, <2>6 DEF DeliverInv, Read!HostChanges, Read!LeaderReads, Read!client
  <2>7. QED
    BY <2>1, <2>2, <2>3, <2>4, <2>5, <2>6 DEF Read!Next
<1>3. QED
  BY <1>1, <1>2

\* A caller's endpoint is connected to at an address in no reserved block, and is
\* refused as such only if it is in one (utils.rs: check_endpoint_url and
\* resolve_public_endpoint), for every URL, every address and every change of DNS.
THEOREM EndpointChecked == Spec => []EndpointIsChecked
<1>1. Init => ConnectInv
  <2> SUFFICES ASSUME Init, server = "walrus-read"
      PROVE  ConnectInv
    BY DEF ConnectInv
  <2>1. QED
    BY DEF Init, ConnectInv, Read!Init, ReadInput
<1>2. ConnectInv /\ [Next]_vars => ConnectInv'
  BY ConnectStep
<1>3. ConnectInv => EndpointIsChecked
  <2> SUFFICES ASSUME ConnectInv, server = "walrus-read"
      PROVE  Read!ConnectsToChecked /\ Read!RefusesOnlyPrivate
    BY DEF EndpointIsChecked
  <2>1. Read!ConnectsToChecked
    BY PolicyIsExact DEF ConnectInv, Read!ConnectsToChecked, Read!OfCaller
  <2>2. ASSUME output = "refused"
        PROVE  \E u \in input.url :
                 \/ u.scheme # "https" \/ u.parts # {}
                 \/ \E ip \in Read!host_as_ip(u.host) : Read!IsReserved(ip)
                 \/ Read!host_as_ip(u.host) = {}
    <3>1. input \in ReadInput /\ input.url # {}
          /\ \A u \in input.url : ~Read!check_endpoint_url(u)
      BY <2>2 DEF ConnectInv
    <3>2. PICK u \in Urls : /\ input.url = {u}
                            /\ u.host.is = "ip" => u.host.ip \in Read!IpAddr
      BY <3>1, CallersUrl
    <3>3. CASE u.scheme # "https" \/ u.parts # {} \/ u.host.is # "ip"
      BY <3>2, <3>3 DEF Read!host_as_ip
    <3>4. CASE u.scheme = "https" /\ u.parts = {} /\ u.host.is = "ip"
      <4>1. Read!host_as_ip(u.host) = {u.host.ip}
        BY <3>4 DEF Read!host_as_ip
      <4>2. ~Read!is_public_ip(u.host.ip)
        BY <3>1, <3>2, <3>4, <4>1 DEF Read!check_endpoint_url, Read!check_endpoint_host
      <4>3. Read!IsReserved(u.host.ip)
        BY <3>2, <3>4, <4>2, PolicyIsExact
      <4>4. QED
        BY <3>2, <4>1, <4>3
    <3>5. QED
      BY <3>3, <3>4
  <2>3. QED
    BY <2>1, <2>2 DEF Read!RefusesOnlyPrivate
<1>4. QED
  BY <1>1, <1>2, <1>3, PTL DEF Spec

\* What the tool that receives a read-json's reference decodes is the bytes that
\* were parsed and validated (read_json.rs: read), for every sequence of answers.
THEOREM ValidatedIsDelivered == Spec => []DeliveredIsValidated
<1>1. Init => DeliverInv
  BY DEF Init, DeliverInv, Read!Init
<1>2. DeliverInv /\ [Next]_vars => DeliverInv'
  BY DeliverStep
<1>3. DeliverInv => DeliveredIsValidated
  BY DEF DeliverInv, DeliveredIsValidated, Read!DeliveredIsValidated
<1>4. QED
  BY <1>1, <1>2, <1>3, PTL DEF Spec

-----------------------------------------------------------------------------
(* The publisher's client of storage-walrus.                               *)

\* A token is for the URL the client was built for, and only an upload to Cloud Run
\* has one; what is sent goes to that URL's host.
TokenInv ==
  server = "walrus-publisher" =>
    /\ input \in Publisher!Requests
    /\ stage = "idle" => pins = {}
    /\ stage = "fetching" => Publisher!WantsToken
    /\ pins # {} => Publisher!WantsToken /\ pins = input.url
    /\ \A r \in peer : r.token # {} =>
         Publisher!WantsToken /\ r.token = input.url /\ \E u \in input.url : r.host = u.host

\* No step of an upload, nor a redirect, takes the token elsewhere.
LEMMA TokenStep ==
  ASSUME TokenInv, [Next]_vars
  PROVE  TokenInv'
<1>1. CASE UNCHANGED vars
  <2>1. UNCHANGED <<server, stage, input, pins, peer>>
    BY <1>1 DEF vars, walrus
  <2>2. QED
    BY <2>1 DEF TokenInv, Publisher!Requests, Publisher!WantsToken, Publisher!Configured,
                Publisher!is_cloud_run_url
<1>2. CASE Next
  <2> SUFFICES ASSUME server' = "walrus-publisher"
               PROVE  TokenInv'
    BY DEF TokenInv
  <2>1. server = "walrus-publisher" /\ Publisher!Next
    BY <1>2, WhoServes
  <2>2. input' = input
    BY <2>1 DEF Publisher!Next, Publisher!NoPublisher, Publisher!build_http_client,
         Publisher!fetch_id_token, Publisher!Send, Publisher!Answered, Publisher!Fails
  <2>3. /\ Publisher!WantsToken' <=> Publisher!WantsToken
        /\ (input \in Publisher!Requests)' /\ input \in Publisher!Requests
    BY <2>1, <2>2 DEF TokenInv, Publisher!Requests, Publisher!WantsToken, Publisher!Configured,
         Publisher!is_cloud_run_url
  <2>4. CASE Publisher!NoPublisher \/ Publisher!Answered \/ Publisher!Fails
    BY <2>1, <2>2, <2>3, <2>4
    DEF TokenInv, Publisher!NoPublisher, Publisher!Answered, Publisher!Fails, Publisher!Return
  <2>5. CASE Publisher!build_http_client
    BY <2>1, <2>2, <2>3, <2>5 DEF TokenInv, Publisher!build_http_client
  <2>6. CASE Publisher!fetch_id_token
    BY <2>1, <2>2, <2>3, <2>6 DEF TokenInv, Publisher!fetch_id_token
  <2>7. CASE Publisher!Send
    <3>1. CASE \E u \in input.url : ~u.parses /\ Publisher!Return("network") /\ UNCHANGED peer
      BY <2>1, <2>2, <2>3, <2>7, <3>1 DEF TokenInv, Publisher!Send, Publisher!Return
    <3>2. CASE /\ stage' = "sent"
               /\ \E h \in IF input.url = {} THEN {<<"sdk">>} ELSE {u.host : u \in input.url} :
                    peer' = {[host |-> h, token |-> pins]}
      <4>1. PICK h \in IF input.url = {} THEN {<<"sdk">>} ELSE {u.host : u \in input.url} :
              peer' = {[host |-> h, token |-> pins]}
        BY <3>2
      <4>2. pins' = pins
        BY <2>7 DEF Publisher!Send
      <4>3. pins # {} => Publisher!WantsToken /\ pins = input.url
        BY <2>1 DEF TokenInv
      <4>4. \A r \in peer' : r.token # {} =>
              Publisher!WantsToken /\ r.token = input.url /\ \E u \in input.url : r.host = u.host
        BY <4>1, <4>3, SMTT(40)
      <4>5. QED
        BY <2>2, <2>3, <3>2, <4>2, <4>3, <4>4 DEF TokenInv
    <3>3. QED
      BY <2>7, <3>1, <3>2 DEF Publisher!Send
  <2>8. QED
    BY <2>1, <2>4, <2>5, <2>6, <2>7 DEF Publisher!Next
<1>3. QED
  BY <1>1, <1>2

\* A text that ends with two labels is what is before them, and them.
LEMMA EndsWith ==
  ASSUME NEW s \in Seq(STRING), Len(s) >= 2,
         SubSeq(s, Len(s) - 1, Len(s)) = <<"run", "app">>
  PROVE  \E service \in {SubSeq(s, 1, i) : i \in 0 .. Len(s)} :
           s = service \o <<"run", "app">>
<1>1. Len(s) - 2 \in 0 .. Len(s) /\ Len(s) \in Nat
  OBVIOUS
<1>2. SubSeq(s, 1, Len(s) - 2) \o SubSeq(s, (Len(s) - 2) + 1, Len(s)) = SubSeq(s, 1, Len(s))
  <2>1. /\ 1 \in 1 .. Len(s) + 1
        /\ Len(s) - 2 \in 1 - 1 .. Len(s)
        /\ Len(s) \in Len(s) - 2 .. Len(s)
    BY <1>1
  <2>2. QED
    BY <2>1, ConcatAdjacentSubSeq
<1>3. SubSeq(s, 1, Len(s)) = s /\ (Len(s) - 2) + 1 = Len(s) - 1
  BY <1>1, SubSeqFull
<1>4. QED
  BY <1>1, <1>2, <1>3

\* The identity of the tool is shown to the publisher it is minted for, which runs
\* on Cloud Run, and to nobody else (client.rs: build_http_client, is_cloud_run_url).
THEOREM TokenGoesHome == Spec => []TokenStaysHome
<1>1. Init => TokenInv
  BY DEF Init, TokenInv, Publisher!Init
<1>2. TokenInv /\ [Next]_vars => TokenInv'
  BY TokenStep
<1>3. TokenInv => TokenStaysHome
  <2> SUFFICES ASSUME TokenInv, server = "walrus-publisher",
                      NEW r \in peer, NEW u \in r.token
      PROVE  /\ input.tool = "upload"
             /\ u.host = r.host
             /\ \E service \in {SubSeq(r.host, 1, i) : i \in 0 .. Len(r.host)} :
                  r.host = service \o <<"run", "app">>
    BY DEF TokenStaysHome, Publisher!TokenStaysHome
  <2>1. /\ Publisher!WantsToken /\ r.token = input.url /\ input \in Publisher!Requests
        /\ \E v \in input.url : r.host = v.host
    BY DEF TokenInv
  <2>2. u \in PublisherUrls /\ input.url = {u}
    BY <2>1 DEF Publisher!Requests
  <2>3. u.host = r.host /\ u.host \in Seq(STRING)
    BY <2>1, <2>2, PublisherAssumption DEF PublisherAssumption
  <2>4. /\ Len(u.host) >= 2
        /\ SubSeq(u.host, Len(u.host) - 1, Len(u.host)) = <<"run", "app">>
    BY <2>1, <2>2 DEF Publisher!WantsToken, Publisher!is_cloud_run_url
  <2>5. QED
    BY <2>1, <2>3, <2>4, EndsWith DEF Publisher!WantsToken
<1>4. QED
  BY <1>1, <1>2, <1>3, PTL DEF Spec

-----------------------------------------------------------------------------
(* exchanges-coinbase.                                                     *)

\* What is asked names the pair as the caller wrote it, and no day to come.
AskedInv ==
  server = "coinbase" =>
    /\ clock \in Nat
    /\ stage = "idle" => work.asked = {}
    /\ stage # "idle" =>
         /\ input.tool \in {"spot", "ticker", "stats"}
         /\ Coinbase!PairIsTheCallers
         /\ \A q \in work.asked : \A d \in q.date : d \in Nat /\ 1 <= d /\ d <= clock

\* The end of a call: refused unsent, without an answer, or of an answer of status s.
Refused ==
  /\ work.asked = {} /\ work.status = {}
  /\ output = [is |-> "err", kind |-> "invalid_request", status_code |-> {}]
Unreached ==
  /\ work.asked # {} /\ work.status = {}
  /\ \E k \in {"network_timeout", "network_connection_failed", "network_ip_blocked"} :
       output = [is |-> "err", kind |-> k, status_code |-> {0}]
Unreadable == output = [is |-> "err", kind |-> "parse", status_code |-> {}]
FailedBy(s) ==
  /\ work.body.is # "cut"
  /\ ~Coinbase!is_success(s)
  /\ output = [is |-> "err", kind |-> output.kind, status_code |-> {s}]
  /\ \/ output.kind = Coinbase!from_status_code(s)
     \/ work.body.is = "object" /\ work.body.errorType # {}
SaidNo(s) ==
  /\ work.body.is = "object" /\ Coinbase!is_success(s)
  /\ output = [is |-> "err", kind |-> "invalid_request", status_code |-> {}]
Succeeded(s) ==
  /\ Coinbase!is_success(s)
  /\ work.body.is = "object" /\ work.body.data = "whole"
  /\ input.tool = "spot" => ~work.body.errors
  /\ output = [is |-> "ok"]

\* How far a call is, and with what it has ended.
StageInv ==
  server = "coinbase" =>
    /\ stage \in {"idle", "sent", "reading", "returned"}
    /\ stage # "returned" => output = [is |-> "none"]
    /\ stage = "idle" => work.status = {}
    /\ stage = "sent" => work.asked # {} /\ work.status = {}
    /\ stage = "reading" => work.asked # {} /\ \E s \in Statuses : work.status = {s}
    /\ stage = "returned" =>
         \/ Refused \/ Unreached
         \/ \E s \in Statuses :
              /\ work.status = {s} /\ work.asked # {}
              /\ \/ Unreadable /\ (work.body.is = "cut" \/ Coinbase!is_success(s))
                 \/ FailedBy(s) \/ SaidNo(s) \/ Succeeded(s)

\* A sequence put after one of length one.
LEMMA OneAndRest ==
  ASSUME NEW S, NEW s \in Seq(S), Len(s) = 1, NEW t \in Seq(S)
  PROVE  s = <<s[1]>> /\ (s \o t)[1] = s[1] /\ Tail(s \o t) = t
<1>1. s = <<s[1]>>
  <2>1. s[1] \in S
    BY ElementOfSeq
  <2>2. <<s[1]>> \in Seq(S) /\ Len(<<s[1]>>) = 1 /\ <<s[1]>>[1] = s[1]
    BY <2>1
  <2>3. \A i \in 1 .. Len(s) : s[i] = <<s[1]>>[i]
    OBVIOUS
  <2>4. QED
    BY <2>2, <2>3, SeqEqual
<1>2. /\ s \o t \in Seq(S) /\ Len(s \o t) = 1 + Len(t)
      /\ \A i \in 1 .. 1 + Len(t) : (s \o t)[i] = IF i <= 1 THEN s[i] ELSE t[i - 1]
  <2>1. /\ s \o t \in Seq(S) /\ Len(s \o t) = Len(s) + Len(t)
        /\ \A i \in 1 .. Len(s) + Len(t) :
             (s \o t)[i] = IF i <= Len(s) THEN s[i] ELSE t[i - Len(s)]
    BY ConcatProperties, Zenon
  <2>2. QED
    BY <2>1
<1> DEFINE c == s \o t
<1>3. Len(t) \in Nat /\ c # <<>> /\ c \in Seq(S)
  BY <1>2
<1>4. /\ Tail(c) \in Seq(S) /\ Len(Tail(c)) = Len(t)
      /\ \A i \in 1 .. Len(t) : Tail(c)[i] = c[i + 1]
  BY <1>2, <1>3, HeadTailProperties
<1>5. \A i \in 1 .. Len(t) : Tail(c)[i] = t[i]
  BY <1>2, <1>3, <1>4
<1>6. Tail(c) = t
  BY <1>4, <1>5, SeqEqual
<1>7. QED
  BY <1>1, <1>2, <1>3, <1>6

\* The pair that is asked for: the one a quote is put to, or the text as it came.
LEMMA FinalPair ==
  ASSUME NEW p \in Pairs, NEW pair \in Coinbase!deserialize_trading_pair(p),
         NEW quote \in Coinbase!QuoteInputs,
         NEW asked \in Coinbase!final_currency_pair(pair, quote)
  PROVE  \/ quote = {} /\ asked \in Coinbase!deserialize_trading_pair(p)
         \/ /\ quote # {}
            /\ asked[1] # ""
            /\ {<<asked[1]>>} = Coinbase!deserialize_trading_pair(p)
            /\ {Tail(asked)} = quote
            /\ Tail(asked) # <<"">>
<1>1. Coinbase!deserialize_trading_pair(p) = {pair}
  BY DEF Coinbase!deserialize_trading_pair, Coinbase!Some, Coinbase!None
<1>2. pair \in Seq(STRING) /\ pair # <<>>
  <2>1. CASE p.is = "string"
    BY <2>1, CoinbaseAssumption
    DEF Coinbase!deserialize_trading_pair, Coinbase!Some, CoinbaseAssumption, Text
  <2>2. CASE p.is = "array" /\ Len(p.items) = 2
    <3>1. p.items \in Seq(Text) /\ pair = p.items[1] \o p.items[2]
      BY ZenonT(30), <2>2, CoinbaseAssumption
      DEF Coinbase!deserialize_trading_pair, Coinbase!Some, CoinbaseAssumption
    <3>2. p.items[1] \in Text /\ p.items[2] \in Text
      BY <2>2, <3>1
    <3>3. QED
      BY <3>1, <3>2 DEF Text
  <2>3. QED
    BY <2>1, <2>2 DEF Coinbase!deserialize_trading_pair, Coinbase!None
<1>3. CASE quote = {}
  BY <1>1, <1>3
  DEF Coinbase!final_currency_pair, Coinbase!None, Coinbase!Some
<1>4. CASE quote # {}
  <2>1. PICK q \in Quotes : quote = {q}
    BY <1>4 DEF Coinbase!QuoteInputs, Coinbase!None, Coinbase!Some
  <2>2. /\ ~(Len(pair) > 1) /\ pair # <<"">> /\ q # <<"">>
        /\ asked = pair \o q
    BY <1>4, <2>1 DEF Coinbase!final_currency_pair, Coinbase!None, Coinbase!Empty
  <2>3. q \in Seq(STRING) /\ q # <<>>
    BY <2>1, CoinbaseAssumption DEF CoinbaseAssumption, Text
  <2>4. Len(pair) = 1
    <3>1. Len(pair) \in Nat \ {0}
      BY <1>2, EmptySeq
    <3>2. \A n \in Nat \ {0} : ~(n > 1) => n = 1
      OBVIOUS
    <3>3. QED
      BY <2>2, <3>1, <3>2
  <2>5. /\ pair = <<pair[1]>> /\ asked[1] = pair[1] /\ Tail(asked) = q
        /\ pair[1] # ""
    BY <1>2, <2>2, <2>3, <2>4, OneAndRest
  <2>6. QED
    BY <1>1, <1>4, <2>1, <2>2, <2>4, <2>5
<1>5. QED
  BY <1>3, <1>4

\* No step of a Coinbase tool changes what it was asked.
LEMMA AskedStep ==
  ASSUME AskedInv, [Next]_vars
  PROVE  AskedInv'
<1>1. CASE UNCHANGED vars
  BY <1>1 DEF AskedInv, vars, Coinbase!PairIsTheCallers, Coinbase!deserialize_trading_pair,
              Coinbase!None, Coinbase!Some, Coinbase!Empty
<1>2. CASE Next
  <2> SUFFICES ASSUME server' = "coinbase"
               PROVE  AskedInv'
    BY DEF AskedInv
  <2>1. server = "coinbase" /\ Coinbase!Next
    BY <1>2, WhoServes
  <2>2. ASSUME UNCHANGED input, work'.asked = work.asked
        PROVE  Coinbase!PairIsTheCallers' <=> Coinbase!PairIsTheCallers
    BY <2>2 DEF Coinbase!PairIsTheCallers, Coinbase!deserialize_trading_pair,
                Coinbase!None, Coinbase!Some, Coinbase!Empty
  <2>3. CASE Coinbase!invoke
    <3> PICK i \in Coinbase!SpotInput \cup Coinbase!TickerInput \cup Coinbase!StatsInput :
          \E pair \in Coinbase!deserialize_trading_pair(i.pair) :
            input' = i /\ work' = Coinbase!Unanswered(Coinbase!endpoint(i, pair))
      BY <2>3 DEF Coinbase!invoke
    <3>1. PICK pair \in Coinbase!deserialize_trading_pair(i.pair) :
            input' = i /\ work' = Coinbase!Unanswered(Coinbase!endpoint(i, pair))
      OBVIOUS
    <3>2. stage = "idle" /\ stage' # "idle" /\ clock' = clock /\ clock \in Nat
      BY <2>1, <2>3 DEF AskedInv, Coinbase!invoke, Coinbase!Fails, Coinbase!Returns
    <3>3. i.pair \in Pairs /\ i.quote \in Coinbase!QuoteInputs
      BY DEF Coinbase!SpotInput, Coinbase!TickerInput, Coinbase!StatsInput
    <3>4. work'.asked = Coinbase!endpoint(i, pair)
      BY <3>1 DEF Coinbase!Unanswered
    <3>5. ASSUME NEW q \in work'.asked
          PROVE  /\ q.pair \in Coinbase!final_currency_pair(pair, i.quote)
                 /\ \A d \in q.date : d \in Nat /\ 1 <= d /\ d <= clock
      <4>1. CASE i.tool = "spot"
        <5>1. i \in Coinbase!SpotInput
          BY <4>1 DEF Coinbase!SpotInput, Coinbase!TickerInput, Coinbase!StatsInput
        <5>2. q \in Coinbase!spot_endpoint(i, pair)
          BY <3>4, <4>1 DEF Coinbase!endpoint
        <5>3. /\ \A d \in i.date : Coinbase!validate_date_format(d)
              /\ q.pair \in Coinbase!final_currency_pair(pair, i.quote)
              /\ q.date = i.date
          BY <5>2 DEF Coinbase!spot_endpoint
        <5>4. \A d \in i.date : d \in Nat
          BY <5>1, CoinbaseAssumption
          DEF Coinbase!SpotInput, Coinbase!None, Coinbase!Some, CoinbaseAssumption
        <5>5. QED
          BY <3>2, <5>3, <5>4 DEF Coinbase!validate_date_format, Coinbase!NoDay
      <4>2. CASE i.tool = "ticker"
        <5>1. q \in Coinbase!ticker_endpoint(i, pair)
          BY <3>4, <4>2 DEF Coinbase!endpoint
        <5>2. QED
          BY <5>1 DEF Coinbase!ticker_endpoint, Coinbase!ticker_product_id, Coinbase!None
      <4>3. CASE i.tool = "stats"
        <5>1. q \in Coinbase!stats_endpoint(i, pair)
          BY <3>4, <4>3 DEF Coinbase!endpoint
        <5>2. QED
          BY <5>1 DEF Coinbase!stats_endpoint, Coinbase!stats_product_id, Coinbase!None
      <4>4. QED
        BY <4>1, <4>2, <4>3 DEF Coinbase!SpotInput, Coinbase!TickerInput, Coinbase!StatsInput
    <3>6. Coinbase!PairIsTheCallers'
      <4>1. \A v : Coinbase!deserialize_trading_pair(v)' = Coinbase!deserialize_trading_pair(v)
        BY DEF Coinbase!deserialize_trading_pair, Coinbase!None, Coinbase!Some
      <4>2. \A q \in work'.asked :
              \/ i.quote = {} /\ q.pair \in Coinbase!deserialize_trading_pair(i.pair)
              \/ /\ i.quote # {}
                 /\ q.pair[1] # ""
                 /\ {<<q.pair[1]>>} = Coinbase!deserialize_trading_pair(i.pair)
                 /\ {Tail(q.pair)} = i.quote
                 /\ Tail(q.pair) # <<"">>
        <5>1. \A asked \in Coinbase!final_currency_pair(pair, i.quote) :
                \/ i.quote = {} /\ asked \in Coinbase!deserialize_trading_pair(i.pair)
                \/ /\ i.quote # {}
                   /\ asked[1] # ""
                   /\ {<<asked[1]>>} = Coinbase!deserialize_trading_pair(i.pair)
                   /\ {Tail(asked)} = i.quote
                   /\ Tail(asked) # <<"">>
          BY ZenonT(30), <3>1, <3>3, FinalPair
        <5>2. QED
          BY <3>5, <5>1
      <4>3. QED
        BY <3>1, <4>1, <4>2
        DEF Coinbase!PairIsTheCallers, Coinbase!None, Coinbase!Some, Coinbase!Empty
    <3>7. input'.tool \in {"spot", "ticker", "stats"}
      BY <3>1 DEF Coinbase!SpotInput, Coinbase!TickerInput, Coinbase!StatsInput
    <3>8. QED
      BY <2>1, <3>2, <3>5, <3>6, <3>7 DEF AskedInv
  <2>4. CASE Coinbase!NetworkFails
    <3>1. UNCHANGED <<input, work, clock>> /\ stage = "sent" /\ stage' = "returned"
      BY <2>4 DEF Coinbase!NetworkFails, Coinbase!Fails, Coinbase!Returns
    <3>2. QED
      BY <2>1, <2>2, <3>1 DEF AskedInv
  <2>5. CASE Coinbase!Responds
    <3>1. /\ UNCHANGED <<input, clock>> /\ stage = "sent" /\ stage' = "reading"
          /\ work'.asked = work.asked
      BY <2>5 DEF Coinbase!Responds
    <3>2. QED
      BY <2>1, <2>2, <3>1 DEF AskedInv
  <2>6. CASE Coinbase!get
    <3>1. /\ UNCHANGED <<input, clock>> /\ stage = "reading"
          /\ work'.asked = work.asked
      BY <2>6 DEF Coinbase!get
    <3>2. stage' = "returned"
      BY <2>1, <2>6
      DEF AskedInv, Coinbase!get, Coinbase!ParseFails, Coinbase!ErrorResponse, Coinbase!Fails,
          Coinbase!Returns, Coinbase!read_spot_price, Coinbase!read_ticker,
          Coinbase!read_stats, Coinbase!OkOutput
    <3>3. QED
      BY <2>1, <2>2, <3>1, <3>2 DEF AskedInv
  <2>7. CASE Coinbase!Midnight
    <3>1. UNCHANGED <<input, work, stage>> /\ clock' = clock + 1 /\ clock \in Nat
      BY <2>1, <2>7 DEF Coinbase!Midnight, AskedInv
    <3>2. QED
      BY <2>1, <2>2, <3>1 DEF AskedInv
  <2>8. QED
    BY <2>1, <2>3, <2>4, <2>5, <2>6, <2>7 DEF Coinbase!Next
<1>3. QED
  BY <1>1, <1>2

\* An error that the exchange answers with has the status it came with, and the kind
\* that its body names, or else the status.
LEMMA ErrorAnswer ==
  ASSUME NEW s, NEW b \in Coinbase!Bodies, Coinbase!ErrorResponse(s, b)
  PROVE  /\ stage' = "returned"
         /\ output' = [is |-> "err", kind |-> output'.kind, status_code |-> {s}]
         /\ \/ output'.kind = Coinbase!from_status_code(s)
            \/ b.is = "object" /\ b.errorType # {}
<1>1. PICK k :
        /\ stage' = "returned"
        /\ output' = [is |-> "err", kind |-> k, status_code |-> {s}]
        /\ \/ k = Coinbase!from_status_code(s)
           \/ b.is = "object" /\ b.errorType # {}
  BY DEF Coinbase!ErrorResponse, Coinbase!Fails, Coinbase!Returns, Coinbase!Some,
         Coinbase!to_error_response, Coinbase!None
<1>2. output'.kind = k
  BY <1>1
<1>3. QED
  BY <1>1, <1>2

\* No step of a Coinbase tool says of its request what was not so.
LEMMA StageStep ==
  ASSUME AskedInv, StageInv, [Next]_vars
  PROVE  StageInv'
<1> USE DEF Coinbase!None, Coinbase!Some
<1>1. \A s : /\ Coinbase!is_success(s)' <=> Coinbase!is_success(s)
             /\ Coinbase!from_status_code(s)' = Coinbase!from_status_code(s)
  BY DEF Coinbase!is_success, Coinbase!from_status_code
<1>2. CASE UNCHANGED <<server, stage, input, work, output>>
  BY <1>1, <1>2
  DEF StageInv, Refused, Unreached, Unreadable, FailedBy, SaidNo, Succeeded
<1>3. CASE Next
  <2> SUFFICES ASSUME server' = "coinbase"
               PROVE  StageInv'
    BY DEF StageInv
  <2>1. server = "coinbase" /\ Coinbase!Next
    BY <1>3, WhoServes
  <2>2. CASE Coinbase!invoke
    <3>1. stage = "idle" /\ output = [is |-> "none"]
      BY <2>1, <2>2 DEF StageInv, Coinbase!invoke
    <3>2. PICK a :
            /\ work' = [asked |-> a, status |-> {}, body |-> [is |-> "none"]]
            /\ \/ /\ a = {} /\ stage' = "returned"
                  /\ output' = [is |-> "err", kind |-> "invalid_request", status_code |-> {}]
               \/ a # {} /\ stage' = "sent" /\ output' = output
      BY <2>2 DEF Coinbase!invoke, Coinbase!Unanswered, Coinbase!Fails, Coinbase!Returns
    <3>3. work'.asked = a /\ work'.status = {}
      BY <3>2
    <3>4. QED
      BY <2>1, <3>1, <3>2, <3>3 DEF StageInv, Refused
  <2>3. CASE Coinbase!NetworkFails
    <3>1. work' = work /\ stage = "sent" /\ stage' = "returned"
      BY <2>3 DEF Coinbase!NetworkFails, Coinbase!Fails, Coinbase!Returns
    <3>2. \E k \in {"network_timeout", "network_connection_failed", "network_ip_blocked"} :
            output' = [is |-> "err", kind |-> k, status_code |-> {0}]
      BY <2>3
      DEF Coinbase!NetworkFails, Coinbase!Fails, Coinbase!Returns, Coinbase!from_network_error
    <3>3. QED
      BY <2>1, <3>1, <3>2 DEF StageInv, Unreached
  <2>4. CASE Coinbase!Responds
    <3>1. PICK s \in Statuses : work' = [work EXCEPT !.status = {s}]
      BY <2>4 DEF Coinbase!Responds
    <3>2. stage = "sent" /\ stage' = "reading" /\ output' = output
      BY <2>4 DEF Coinbase!Responds
    <3>3. work'.status = {s} /\ work'.asked = work.asked
      BY <3>1
    <3>4. QED
      BY <2>1, <3>2, <3>3 DEF StageInv
  <2>5. CASE Coinbase!get
    <3>1. stage = "reading" /\ input' = input
          /\ input.tool \in {"spot", "ticker", "stats"}
      BY <2>1, <2>5 DEF AskedInv, Coinbase!get
    <3>2. PICK s \in Statuses : work.status = {s} /\ work.asked # {}
      BY <2>1, <3>1 DEF StageInv
    <3>3. PICK b \in Coinbase!Bodies :
            /\ work' = [work EXCEPT !.body = b]
            /\ IF b.is = "cut" THEN Coinbase!ParseFails
               ELSE IF ~Coinbase!is_success(s) THEN Coinbase!ErrorResponse(s, b)
               ELSE CASE input.tool = "spot"   -> Coinbase!read_spot_price(b)
                      [] input.tool = "ticker" -> Coinbase!read_ticker(b)
                      [] input.tool = "stats"  -> Coinbase!read_stats(b)
      BY <2>5, <3>2 DEF Coinbase!get
    <3>4. work'.body = b /\ work'.status = {s} /\ work'.asked # {}
      BY <3>2, <3>3
    <3>5. /\ stage' = "returned"
          /\ \/ Unreadable' /\ (b.is = "cut" \/ Coinbase!is_success(s))
             \/ FailedBy(s)' \/ SaidNo(s)' \/ Succeeded(s)'
      <4>1. CASE b.is = "cut"
        BY <3>3, <4>1 DEF Unreadable, Coinbase!ParseFails, Coinbase!Fails, Coinbase!Returns
      <4>2. CASE b.is # "cut" /\ ~Coinbase!is_success(s)
        BY <1>1, <3>3, <3>4, <4>2, ErrorAnswer DEF FailedBy
      <4>3. CASE b.is # "cut" /\ Coinbase!is_success(s)
        <5>1. b.is \in {"text", "object"}
              /\ (b.is = "object" => b.data \in {"absent", "unfit", "whole"})
          BY <4>3 DEF Coinbase!Bodies
        <5>2. CASE input.tool = "spot"
          BY <1>1, <3>1, <3>3, <3>4, <4>3, <5>1, <5>2
          DEF Unreadable, SaidNo, Succeeded, Coinbase!read_spot_price, Coinbase!ParseFails,
              Coinbase!Fails, Coinbase!Returns, Coinbase!OkOutput
        <5>3. CASE input.tool = "ticker" \/ input.tool = "stats"
          BY <1>1, <3>1, <3>3, <3>4, <4>3, <5>1, <5>3
          DEF Unreadable, SaidNo, Succeeded, Coinbase!read_ticker, Coinbase!read_stats,
              Coinbase!ParseFails, Coinbase!Fails, Coinbase!Returns, Coinbase!OkOutput
        <5>4. QED
          BY <3>1, <5>2, <5>3
      <4>4. QED
        BY <4>1, <4>2, <4>3
    <3>6. QED
      BY <1>1, <2>1, <3>4, <3>5 DEF StageInv
  <2>6. CASE Coinbase!Midnight
    BY <1>2, <2>1, <2>6, <1>3, WhoServes DEF Coinbase!Midnight
  <2>7. QED
    BY <2>1, <2>2, <2>3, <2>4, <2>5, <2>6 DEF Coinbase!Next
<1>4. QED
  BY <1>2, <1>3 DEF vars

\* What a status is as an error is the caller's only for a 4xx and a gateway's timeout.
LEMMA BlameOfStatus ==
  ASSUME NEW s \in Statuses,
         Coinbase!from_status_code(s) \in Coinbase!CallersKinds
  PROVE  s \in 400 .. 499 \cup {504}
<1>1. s \in Nat
  BY CoinbaseAssumption DEF CoinbaseAssumption
<1>2. s \in {400, 401, 402, 403, 404, 408, 504, 409, 422, 429}
  <2>1. /\ "unknown" \notin Coinbase!CallersKinds
        /\ "internal_server_error" \notin Coinbase!CallersKinds
        /\ "bad_gateway" \notin Coinbase!CallersKinds
        /\ "service_unavailable" \notin Coinbase!CallersKinds
    BY DEF Coinbase!CallersKinds
  <2>2. QED
    BY <2>1 DEF Coinbase!from_status_code
<1>3. QED
  BY <1>2

\* An error's status, when none of the wire's is mistaken for the 0 of no answer.
LEMMA ToldStatus ==
  ASSUME output.is = "err",
         output.status_code = {0} <=> (work.asked # {} /\ work.status = {}),
         \A t : t # 0 =>
           (output.status_code = {t} <=>
              work.status = {t} /\ ~Coinbase!is_success(t) /\ work.body.is # "cut")
  PROVE  Coinbase!StatusTellsStage
<1>1. \A t \in 1 .. 999 : t # 0
  OBVIOUS
<1>2. QED
  BY ZenonT(30), <1>1 DEF Coinbase!StatusTellsStage, Coinbase!None, Coinbase!Some

\* A Coinbase tool's answer tells the truth about its call (error.rs and
\* CoinbaseClient::get), for every input, status, body and change of day.
THEOREM CoinbaseHonest == Spec => []CoinbaseIsHonest
<1>1. Init => AskedInv /\ StageInv
  <2> SUFFICES ASSUME Init, server = "coinbase"
      PROVE  AskedInv /\ StageInv
    BY DEF AskedInv, StageInv
  <2>1. /\ stage = "idle" /\ work = [asked |-> {}, status |-> {}, body |-> [is |-> "none"]]
        /\ output = [is |-> "none"] /\ clock \in 1 .. MAX_DAY
    BY DEF Init, Coinbase!Init, Coinbase!Unanswered, Coinbase!NoOutput, Coinbase!None
  <2>2. QED
    BY <2>1 DEF AskedInv, StageInv
<1>2. AskedInv /\ StageInv /\ [Next]_vars => (AskedInv /\ StageInv)'
  BY AskedStep, StageStep
<1>3. AskedInv /\ StageInv => CoinbaseIsHonest
  <2> SUFFICES ASSUME AskedInv, StageInv, server = "coinbase"
      PROVE  /\ Coinbase!BlameIsEarned /\ Coinbase!StatusTellsStage /\ Coinbase!OkIsWhole
             /\ Coinbase!PairIsTheCallers /\ Coinbase!DateNotAhead
    BY DEF CoinbaseIsHonest
  <2> USE DEF Coinbase!None, Coinbase!Some
  <2>1. Coinbase!PairIsTheCallers /\ Coinbase!DateNotAhead
    <3>1. CASE stage = "idle"
      BY <3>1 DEF AskedInv, Coinbase!PairIsTheCallers, Coinbase!DateNotAhead
    <3>2. CASE stage # "idle"
      BY <3>2 DEF AskedInv, Coinbase!DateNotAhead
    <3>3. QED
      BY <3>1, <3>2
  <2>2. CASE stage # "returned"
    <3>1. output = [is |-> "none"]
      BY <2>2 DEF StageInv
    <3>2. output.is # "err" /\ output.is # "ok"
      BY <3>1
    <3>3. QED
      BY <2>1, <3>2
      DEF Coinbase!BlameIsEarned, Coinbase!StatusTellsStage, Coinbase!OkIsWhole
  <2>3. CASE Refused
    <3>1. output.is = "err" /\ output.status_code = {} /\ work.asked = {} /\ work.status = {}
      BY <2>3 DEF Refused
    <3>2. Coinbase!StatusTellsStage
      BY <3>1, ToldStatus
    <3>3. QED
      BY <2>1, <3>1, <3>2 DEF Coinbase!BlameIsEarned, Coinbase!OkIsWhole
  <2>4. CASE Unreached
    <3>1. /\ output.is = "err" /\ output.status_code = {0}
          /\ output.kind \in {"network_timeout", "network_connection_failed", "network_ip_blocked"}
          /\ work.asked # {} /\ work.status = {}
      BY <2>4 DEF Unreached
    <3>2. output.kind \notin Coinbase!CallersKinds
      BY <3>1 DEF Coinbase!CallersKinds
    <3>3. Coinbase!StatusTellsStage
      <4>1. \A t : t # 0 => {0} # {t}
        OBVIOUS
      <4>2. QED
        BY <3>1, <4>1, ToldStatus
    <3>4. QED
      BY <2>1, <3>1, <3>2, <3>3 DEF Coinbase!BlameIsEarned, Coinbase!OkIsWhole
  <2>5. ASSUME NEW s \in Statuses, work.status = {s}, work.asked # {},
               \/ Unreadable /\ (work.body.is = "cut" \/ Coinbase!is_success(s))
               \/ FailedBy(s) \/ SaidNo(s) \/ Succeeded(s)
        PROVE  /\ Coinbase!BlameIsEarned /\ Coinbase!StatusTellsStage
               /\ Coinbase!OkIsWhole
    <3>1. s \in Nat /\ 100 <= s
      BY CoinbaseAssumption DEF CoinbaseAssumption
    <3>2. CASE Unreadable /\ (work.body.is = "cut" \/ Coinbase!is_success(s))
      <4>1. output.is = "err" /\ output.kind = "parse" /\ output.status_code = {}
        BY <3>2 DEF Unreadable
      <4>2. "parse" \notin Coinbase!CallersKinds
        BY DEF Coinbase!CallersKinds
      <4>3. Coinbase!StatusTellsStage
        BY <2>5, <3>2, <4>1, ToldStatus
      <4>4. QED
        BY <4>1, <4>2, <4>3 DEF Coinbase!BlameIsEarned, Coinbase!OkIsWhole
    <3>3. CASE FailedBy(s)
      <4>1. /\ output.is = "err" /\ output.status_code = {s}
            /\ \/ output.kind = Coinbase!from_status_code(s)
               \/ work.body.is = "object" /\ work.body.errorType # {}
            /\ work.body.is # "cut" /\ ~Coinbase!is_success(s)
        BY <3>3 DEF FailedBy
      <4>2. output.kind \in Coinbase!CallersKinds =>
              \/ s \in 400 .. 499 \cup {504}
              \/ work.body.is = "object" /\ work.body.errorType # {}
        BY <4>1, BlameOfStatus
      <4>3. s # 0
        BY <3>1
      <4>4. Coinbase!BlameIsEarned
        BY <2>5, <4>2 DEF Coinbase!BlameIsEarned
      <4>5. Coinbase!StatusTellsStage
        <5>1. \A t : output.status_code = {t} <=>
                work.status = {t} /\ ~Coinbase!is_success(t) /\ work.body.is # "cut"
          BY <2>5, <4>1
        <5>2. output.status_code # {0}
          BY <4>1, <4>3
        <5>3. QED
          BY <2>5, <4>1, <5>1, <5>2, ToldStatus
      <4>6. QED
        BY <4>1, <4>4, <4>5 DEF Coinbase!OkIsWhole
    <3>4. CASE SaidNo(s)
      <4>1. /\ output.is = "err" /\ output.status_code = {}
            /\ work.body.is = "object" /\ Coinbase!is_success(s)
        BY <3>4 DEF SaidNo
      <4>2. Coinbase!StatusTellsStage
        BY <2>5, <4>1, ToldStatus
      <4>3. QED
        BY <2>5, <4>1, <4>2 DEF Coinbase!BlameIsEarned, Coinbase!OkIsWhole
    <3>5. CASE Succeeded(s)
      <4>1. output.is = "ok"
        BY <3>5 DEF Succeeded
      <4>2. QED
        BY <2>5, <3>5, <4>1
        DEF Succeeded, Coinbase!BlameIsEarned, Coinbase!StatusTellsStage, Coinbase!OkIsWhole
    <3>6. QED
      BY <2>5, <3>2, <3>3, <3>4, <3>5
  <2>6. QED
    BY <2>1, <2>2, <2>3, <2>4, <2>5 DEF StageInv
<1>4. QED
  BY <1>1, <1>2, <1>3, PTL DEF Spec

-----------------------------------------------------------------------------
(* Induction over numbers, as a fact about sets, and what it gives: that a *)
(* function defined by recursion over 0 .. N is there.                     *)

\* What has 0, and n + 1 with each n, has every number: or there were a least it has
\* not.
LEMMA Induction ==
  ASSUME NEW S, 0 \in S, \A n \in Nat : n \in S => n + 1 \in S
  PROVE  Nat \subseteq S
<1> DEFINE T == Nat \ S
<1> SUFFICES ASSUME T # {} PROVE FALSE
  OBVIOUS
<1>1. IsWellFoundedOn(OpToRel(<, Nat), Nat)
  BY NatLessThanWellFounded
<1>2. T \subseteq Nat
  OBVIOUS
<1> HIDE DEF T
<1>3. PICK m \in T : \A k \in T : ~ (<<k, m>> \in OpToRel(<, Nat))
  BY <1>1, <1>2, WFMin
<1>4. m \in Nat /\ \A k \in T : ~(k < m)
  <2>1. \A k \in T : k \in Nat /\ m \in Nat
    BY <1>2
  <2>2. QED
    BY <1>3, <2>1 DEF OpToRel
<1> USE DEF T
<1>5. m # 0
  BY <1>3
<1>6. m - 1 \in Nat /\ m - 1 < m /\ m = (m - 1) + 1
  BY <1>4, <1>5
<1>7. m - 1 \in S
  BY <1>4, <1>6
<1>8. QED
  BY <1>3, <1>6, <1>7

\* Function f of 0 .. N by recursion: G[k] makes its value at k from the one before.
Recurs(f, N, base, G) == f[0] = base /\ \A k \in 1 .. N : f[k] = G[k][f[k - 1]]

\* The function that recursion defines is there.
LEMMA Recursion ==
  ASSUME NEW N \in Nat, NEW V, NEW base \in V, NEW G \in [1 .. N -> [V -> V]]
  PROVE  \E f \in [0 .. N -> V] : Recurs(f, N, base, G)
<1> DEFINE Is(f, n) == f[0] = base /\ \A k \in 1 .. n : f[k] = G[k][f[k - 1]]
           S == {n \in Nat : n <= N => \E f \in [0 .. n -> V] : Is(f, n)}
<1>1. 0 \in S
  <2>1. [k \in 0 .. 0 |-> base] \in [0 .. 0 -> V] /\ Is([k \in 0 .. 0 |-> base], 0)
    OBVIOUS
  <2>2. QED
    BY <2>1
<1>2. ASSUME NEW n \in Nat, n \in S
      PROVE  n + 1 \in S
  <2> SUFFICES ASSUME n + 1 <= N
      PROVE  \E f \in [0 .. n + 1 -> V] : Is(f, n + 1)
    OBVIOUS
  <2>1. PICK f \in [0 .. n -> V] : Is(f, n)
    BY <1>2
  <2> DEFINE g == [k \in 0 .. n + 1 |-> IF k = n + 1 THEN G[n + 1][f[n]] ELSE f[k]]
  <2>2. n \in 0 .. n /\ n + 1 \in 1 .. N /\ f[n] \in V
    OBVIOUS
  <2>3. G[n + 1] \in [V -> V]
    BY <2>2
  <2>4. g \in [0 .. n + 1 -> V]
    <3>1. ASSUME NEW k \in 0 .. n + 1, k # n + 1 PROVE f[k] \in V
      <4>1. k \in 0 .. n
        BY <3>1
      <4>2. QED
        BY <4>1
    <3>2. G[n + 1][f[n]] \in V
      BY <2>2, <2>3
    <3>3. QED
      BY <3>1, <3>2
  <2>5. g[0] = base
    BY <2>1
  <2>6. ASSUME NEW k \in 1 .. n + 1
        PROVE  g[k] = G[k][g[k - 1]]
    <3>1. CASE k = n + 1
      <4>1. k - 1 = n /\ g[k] = G[n + 1][f[n]]
        BY <3>1
      <4>2. g[n] = f[n]
        BY <2>2
      <4>3. QED
        BY <3>1, <4>1, <4>2
    <3>2. CASE k # n + 1
      <4>1. k \in 1 .. n /\ k - 1 \in 0 .. n + 1 /\ k \in 0 .. n + 1 /\ k - 1 # n + 1
        BY <3>2
      <4>2. g[k] = f[k] /\ g[k - 1] = f[k - 1]
        BY <3>2, <4>1
      <4>3. f[k] = G[k][f[k - 1]]
        BY <2>1, <4>1
      <4>4. QED
        BY <4>2, <4>3
    <3>3. QED
      BY <3>1, <3>2
  <2> HIDE DEF g
  <2>7. QED
    BY <2>4, <2>5, <2>6
<1>3. Nat \subseteq S
  <2> HIDE DEF S
  <2>1. QED
    BY <1>1, <1>2, Induction
<1>4. QED
  BY <1>3 DEF Recurs

-----------------------------------------------------------------------------
(* math.i64.                                                               *)

\* Total, written as a function of 0 .. k, is the running sum.
LEMMA TotalIsRunning ==
  ASSUME NEW n \in Nat, NEW v \in [1 .. n -> Int]
  PROVE  \E f \in [0 .. n -> Int] :
           /\ f[0] = 0 /\ \A k \in 1 .. n : f[k] = f[k - 1] + v[k]
           /\ \A k \in 0 .. n : Math!Total(v, k) = f[k]
<1> DEFINE V == Int
           zero == 0
           G == [k \in 1 .. n |-> [x \in V |-> x + v[k]]]
<1>1. zero \in V /\ G \in [1 .. n -> [V -> V]]
  <2>1. \A k \in 1 .. n : \A x \in Int : x + v[k] \in Int
    OBVIOUS
  <2>2. QED
    BY <2>1
<1> HIDE DEF V, zero, G
<1>2. PICK f \in [0 .. n -> V] : Recurs(f, n, zero, G)
  BY <1>1, Recursion
<1> USE DEF V, zero, G
<1>3. \A k \in 1 .. n : f[k] = f[k - 1] + v[k]
  <2> TAKE k \in 1 .. n
  <2>1. k - 1 \in 0 .. n /\ f[k - 1] \in Int
    OBVIOUS
  <2>2. f[k] = G[k][f[k - 1]]
    BY <1>2 DEF Recurs
  <2>3. QED
    BY <2>1, <2>2
<1>0. f[0] = 0
  BY <1>2 DEF Recurs
<1>4. ASSUME NEW k \in 0 .. n
      PROVE  Math!Total(v, k) = f[k]
  <2> DEFINE Is(g) == g = [j \in 0 .. k |-> IF j = 0 THEN 0 ELSE g[j - 1] + v[j]]
             total == CHOOSE g : Is(g)
             S == {j \in Nat : j <= k => total[j] = f[j]}
  <2>1. Is([j \in 0 .. k |-> f[j]])
    <3> DEFINE g == [j \in 0 .. k |-> f[j]]
    <3>1. \A j \in 0 .. k : g[j] = IF j = 0 THEN 0 ELSE g[j - 1] + v[j]
      <4> TAKE j \in 0 .. k
      <4>1. j = 0 \/ (j \in 1 .. n /\ j - 1 \in 0 .. k)
        OBVIOUS
      <4>2. QED
        BY <1>0, <1>3, <4>1
    <3>2. QED
      BY <3>1
  <2> HIDE DEF Is
  <2>2. Is(total)
    BY <2>1
  <2>3. \A j \in 0 .. k : total[j] = IF j = 0 THEN 0 ELSE total[j - 1] + v[j]
    <3> HIDE DEF total
    <3>1. QED
      BY <2>2 DEF Is
  <2> HIDE DEF total
  <2>4. 0 \in S
    BY <1>0, <2>3
  <2>5. ASSUME NEW j \in Nat, j \in S
        PROVE  j + 1 \in S
    <3> SUFFICES ASSUME j + 1 <= k
        PROVE  total[j + 1] = f[j + 1]
      OBVIOUS
    <3>1. total[j] = f[j]
      BY <2>5
    <3>2. j + 1 \in 0 .. k /\ j + 1 \in 1 .. n /\ j + 1 # 0 /\ (j + 1) - 1 = j
      OBVIOUS
    <3>3. total[j + 1] = total[j] + v[j + 1]
      BY <2>3, <3>2
    <3>4. f[j + 1] = f[j] + v[j + 1]
      BY <1>3, <3>2
    <3>5. QED
      BY <3>1, <3>3, <3>4
  <2>6. Nat \subseteq S
    <3> HIDE DEF S
    <3>1. QED
      BY <2>4, <2>5, Induction
  <2>7. total[k] = f[k]
    BY <2>6
  <2>8. Math!Total(v, k) = total[k]
    BY DEF Math!Total, total, Is
  <2>9. QED
    BY <2>7, <2>8
<1>5. QED
  BY <1>0, <1>3, <1>4

\* The sum of the first k numbers, and of one number more.
LEMMA TotalOf ==
  ASSUME NEW n \in Nat, NEW v \in [1 .. n -> Int]
  PROVE  /\ Math!Total(v, 0) = 0
         /\ \A k \in 0 .. n : Math!Total(v, k) \in Int
         /\ \A k \in 0 .. n - 1 : Math!Total(v, k + 1) = Math!Total(v, k) + v[k + 1]
<1>1. PICK f \in [0 .. n -> Int] :
        /\ f[0] = 0 /\ \A k \in 1 .. n : f[k] = f[k - 1] + v[k]
        /\ \A k \in 0 .. n : Math!Total(v, k) = f[k]
  BY TotalIsRunning
<1>0. \A k \in 0 .. n - 1 : k \in 0 .. n /\ k + 1 \in 0 .. n /\ k + 1 \in 1 .. n /\ (k + 1) - 1 = k
  OBVIOUS
<1>3. ASSUME NEW k \in 0 .. n - 1
      PROVE  Math!Total(v, k + 1) = Math!Total(v, k) + v[k + 1]
  BY <1>1, <1>0
<1>4. QED
  BY <1>1, <1>3

\* A vector of sum, and how far it is folded: what is left, and the sum of the rest.
Folding ==
  \E n \in 0 .. MAX_LEN : \E k \in 0 .. n :
    /\ input.tool = "sum" /\ input.vec \in [1 .. n -> Math!i64]
    /\ work.rest = SubSeq(input.vec, k + 1, n)
    /\ work.acc = Math!Total(input.vec, k)

\* How far sum is, and with what add, mul, cmp and sum have ended.
MathInv ==
  server = "math" =>
    /\ stage \in {"idle", "folding"} => output = [is |-> "none"]
    /\ stage = "folding" => Folding
    /\ Math!OkIsExact /\ Math!ErrIsOverflow

\* A result that is checked is there as it is, or is an overflow.
LEMMA Checked ==
  ASSUME NEW x, Math!ReturnsChecked(Math!checked(x))
  PROVE  /\ stage' = "returned"
         /\ \/ output' = [is |-> "ok", result |-> x]
            \/ x \notin Math!i64 /\ output' = [is |-> "err"]
BY DEF Math!ReturnsChecked, Math!checked, Math!Returns

\* The sum of two numbers.
LEMMA TotalOfTwo ==
  ASSUME NEW a \in Int, NEW b \in Int
  PROVE  Len(<<a, b>>) = 2 /\ Math!Total(<<a, b>>, 2) = a + b
<1> DEFINE v == <<a, b>>
<1>1. v \in [1 .. 2 -> Int] /\ v[1] = a /\ v[2] = b /\ Len(v) = 2
  OBVIOUS
<1> HIDE DEF v
<1>2. 0 \in 0 .. 2 - 1 /\ 1 \in 0 .. 2 - 1 /\ 2 \in Nat
  OBVIOUS
<1>3. /\ Math!Total(v, 0) = 0
      /\ Math!Total(v, 0 + 1) = Math!Total(v, 0) + v[0 + 1]
      /\ Math!Total(v, 1 + 1) = Math!Total(v, 1) + v[1 + 1]
  <2>1. \A k \in 0 .. 2 - 1 : Math!Total(v, k + 1) = Math!Total(v, k) + v[k + 1]
    BY <1>1, <1>2, TotalOf
  <2>2. Math!Total(v, 0) = 0
    BY <1>1, <1>2, TotalOf
  <2>3. QED
    BY <1>2, <2>1, <2>2
<1>4. 0 + 1 = 1 /\ 1 + 1 = 2 /\ 0 + a = a
  OBVIOUS
<1>5. Math!Total(v, 2) = a + b
  BY <1>1, <1>3, <1>4
<1>6. QED
  BY <1>1, <1>5 DEF v

\* No step of a math tool loses track of the sum so far.
LEMMA MathStep ==
  ASSUME MathInv, [Next]_vars
  PROVE  MathInv'
<1>1. /\ Math!i64' = Math!i64
      /\ \A v, k : Math!Total(v, k)' = Math!Total(v, k)
  BY DEF Math!i64, Math!Total
<1>2. Math!i64 \subseteq Int
  BY DEF Math!i64
<1>3. CASE UNCHANGED vars
  BY <1>1, <1>3
  DEF vars, MathInv, Folding, Math!OkIsExact, Math!ErrIsOverflow, Math!Exact
<1>4. CASE Next
  <2> SUFFICES ASSUME server' = "math"
               PROVE  MathInv'
    BY DEF MathInv
  <2>1. server = "math" /\ Math!Next
    BY <1>4, WhoServes
  <2>2. CASE Math!add
    <3>1. PICK a \in Math!i64, b \in Math!i64 :
            /\ input' = [tool |-> "add", vec |-> <<a, b>>]
            /\ Math!ReturnsChecked(Math!checked(a + b))
      BY <2>2 DEF Math!add, Math!checked_add
    <3>2. /\ stage' = "returned"
          /\ \/ output' = [is |-> "ok", result |-> a + b]
             \/ a + b \notin Math!i64 /\ output' = [is |-> "err"]
      BY <3>1, Checked
    <3>3. Math!Exact' = a + b
      BY <1>1, <1>2, <3>1, TotalOfTwo DEF Math!Exact
    <3>4. QED
      BY <1>1, <2>1, <3>2, <3>3 DEF MathInv, Math!OkIsExact, Math!ErrIsOverflow
  <2>3. CASE Math!mul
    <3>1. PICK a \in Math!i64, b \in Math!i64 :
            /\ input' = [tool |-> "mul", vec |-> <<a, b>>]
            /\ Math!ReturnsChecked(Math!checked(a * b))
      BY <2>3 DEF Math!mul, Math!checked_mul
    <3>2. /\ stage' = "returned"
          /\ \/ output' = [is |-> "ok", result |-> a * b]
             \/ a * b \notin Math!i64 /\ output' = [is |-> "err"]
      BY <3>1, Checked
    <3>3. Math!Exact' = a * b
      BY <3>1 DEF Math!Exact
    <3>4. QED
      BY <1>1, <2>1, <3>2, <3>3 DEF MathInv, Math!OkIsExact, Math!ErrIsOverflow
  <2>4. CASE Math!cmp
    <3>1. PICK a \in Math!i64, b \in Math!i64 :
            \/ a > b /\ Math!Returns([is |-> "gt", a |-> a, b |-> b])
            \/ a = b /\ Math!Returns([is |-> "eq", a |-> a, b |-> b])
            \/ a < b /\ Math!Returns([is |-> "lt", a |-> a, b |-> b])
      BY <2>4 DEF Math!cmp
    <3>2. QED
      BY <2>1, <3>1 DEF MathInv, Math!OkIsExact, Math!ErrIsOverflow, Math!Returns
  <2>5. CASE Math!sum
    <3> PICK n \in 0 .. MAX_LEN : \E v \in [1 .. n -> Math!i64] :
          /\ input' = [tool |-> "sum", vec |-> v]
          /\ work' = [acc |-> 0, rest |-> v]
      BY <2>5 DEF Math!sum
    <3>1. PICK v \in [1 .. n -> Math!i64] :
            /\ input' = [tool |-> "sum", vec |-> v]
            /\ work' = [acc |-> 0, rest |-> v]
      OBVIOUS
    <3>2. n \in Nat /\ v \in [1 .. n -> Int] /\ 0 \in 0 .. n
      <4>1. n \in Nat
        BY MathAssumption DEF MathAssumption
      <4>2. v \in [1 .. n -> Int]
        BY <1>2
      <4>3. QED
        BY <4>1, <4>2
    <3>3. SubSeq(v, 0 + 1, n) = v
      <4>1. v \in Seq(Int) /\ Len(v) = n
        BY <3>2
      <4>2. QED
        BY <4>1, SubSeqFull
    <3>4. Math!Total(v, 0) = 0
      BY <3>2, TotalOf
    <3>5. Folding'
      BY <1>1, <3>1, <3>2, <3>3, <3>4 DEF Folding
    <3>6. stage = "idle" /\ stage' = "folding" /\ output' = output
      BY <2>5 DEF Math!sum
    <3>7. QED
      BY <2>1, <3>5, <3>6 DEF MathInv, Math!OkIsExact, Math!ErrIsOverflow
  <2>6. CASE Math!try_fold
    <3>1. stage = "folding" /\ input' = input
      BY <2>6 DEF Math!try_fold
    <3> PICK n \in 0 .. MAX_LEN : \E k \in 0 .. n :
          /\ input.tool = "sum" /\ input.vec \in [1 .. n -> Math!i64]
          /\ work.rest = SubSeq(input.vec, k + 1, n)
          /\ work.acc = Math!Total(input.vec, k)
      BY <2>1, <3>1 DEF MathInv, Folding
    <3>2. PICK k \in 0 .. n :
            /\ input.tool = "sum" /\ input.vec \in [1 .. n -> Math!i64]
            /\ work.rest = SubSeq(input.vec, k + 1, n)
            /\ work.acc = Math!Total(input.vec, k)
      OBVIOUS
    <3> DEFINE v == input.vec
    <3>3. n \in Nat /\ v \in [1 .. n -> Int] /\ v \in Seq(Int) /\ Len(v) = n
      <4>1. n \in Nat
        BY MathAssumption DEF MathAssumption
      <4>2. v \in [1 .. n -> Int]
        BY <1>2, <3>2
      <4>3. QED
        BY <4>1, <4>2
    <3>4. k = n => work.rest = <<>>
      BY <3>2, <3>3, SubSeqEmpty
    <3>5. k < n => /\ k + 1 \in 1 .. n /\ work.rest # <<>>
                   /\ Head(work.rest) = v[k + 1]
                   /\ Tail(work.rest) = SubSeq(v, (k + 1) + 1, n)
      <4>1. ASSUME k < n
            PROVE  k + 1 \in 1 .. Len(v) /\ n \in k + 1 .. Len(v)
        BY <3>3, <4>1
      <4>2. ASSUME k < n
            PROVE  /\ Head(SubSeq(v, k + 1, n)) = v[k + 1]
                   /\ Tail(SubSeq(v, k + 1, n)) = SubSeq(v, (k + 1) + 1, n)
        BY <3>3, <4>1, <4>2, HeadTailOfSubSeq
      <4>3. ASSUME k < n
            PROVE  Len(SubSeq(v, k + 1, n)) > 0
        <5>1. \A i \in k + 1 .. n : v[i] \in Int
          BY <3>3
        <5>2. Len(SubSeq(v, k + 1, n)) = n - (k + 1) + 1
          BY <3>3, <4>3, <5>1, SubSeqProperties
        <5>3. QED
          BY <3>3, <4>3, <5>2
      <4>4. Len(<<>>) = 0
        OBVIOUS
      <4>5. ASSUME k < n
            PROVE  SubSeq(v, k + 1, n) # <<>>
        BY <4>3, <4>4, <4>5
      <4>6. ASSUME k < n
            PROVE  k + 1 \in 1 .. n
        BY <3>3, <4>6
      <4>7. QED
        BY <3>2, <4>2, <4>5, <4>6
    <3> HIDE DEF v
    <3>6. CASE k = n
      <4>1. stage' = "returned" /\ output' = [is |-> "ok", result |-> work.acc]
        BY <2>6, <3>4, <3>6 DEF Math!try_fold, Math!Returns
      <4>2. Math!Exact' = work.acc
        BY <1>1, <3>1, <3>2, <3>3, <3>6 DEF Math!Exact, v
      <4>3. QED
        BY <2>1, <4>1, <4>2 DEF MathInv, Math!OkIsExact, Math!ErrIsOverflow
    <3>7. CASE k < n
      <4>1. /\ k + 1 \in 1 .. n /\ k \in 0 .. n - 1
            /\ Math!Total(v, k + 1) = work.acc + v[k + 1]
        <5>1. k + 1 \in 1 .. n /\ k \in 0 .. n - 1
          BY <3>3, <3>7
        <5>2. Math!Total(v, k + 1) = Math!Total(v, k) + v[k + 1]
          BY <3>3, <5>1, TotalOf
        <5>3. work.acc = Math!Total(v, k)
          BY <3>2 DEF v
        <5>4. QED
          BY <5>1, <5>2, <5>3
      <4>2. CASE work.acc + v[k + 1] \notin Math!i64
        <5>1. stage' = "returned" /\ output' = [is |-> "err"]
          BY <2>6, <3>5, <3>7, <4>2
          DEF Math!try_fold, Math!checked_add, Math!checked, Math!Returns
        <5>2. k + 1 \in 1 .. Len(input.vec) /\ Math!Total(input.vec, k + 1) \notin Math!i64
          BY <3>3, <4>1, <4>2 DEF v
        <5>3. QED
          BY <1>1, <2>1, <3>1, <3>2, <5>1, <5>2 DEF MathInv, Math!OkIsExact, Math!ErrIsOverflow
      <4>3. CASE work.acc + v[k + 1] \in Math!i64
        <5>1. /\ work' = [acc |-> work.acc + v[k + 1], rest |-> Tail(work.rest)]
              /\ stage' = stage /\ output' = output
          BY <2>6, <3>5, <3>7, <4>3 DEF Math!try_fold, Math!checked_add, Math!checked
        <5>2. k + 1 \in 0 .. n
          BY <3>7
        <5>3. Folding'
          BY <1>1, <3>1, <3>2, <3>5, <3>7, <4>1, <5>1, <5>2 DEF Folding, v
        <5>4. QED
          BY <2>1, <3>1, <5>1, <5>3 DEF MathInv, Math!OkIsExact, Math!ErrIsOverflow
      <4>4. QED
        BY <4>2, <4>3
    <3>8. QED
      BY <3>3, <3>6, <3>7
  <2>7. QED
    BY <2>1, <2>2, <2>3, <2>4, <2>5, <2>6 DEF Math!Next
<1>5. QED
  BY <1>3, <1>4

\* The answers of math.i64 are those of arithmetic, and its errors overflows, for
\* numbers of every width and vectors of every length (add.rs, mul.rs, sum.rs,
\* cmp.rs).
THEOREM MathExact == Spec => []MathIsExact
<1>1. Init => MathInv
  BY DEF Init, MathInv, Math!Init, Math!OkIsExact, Math!ErrIsOverflow
<1>2. MathInv /\ [Next]_vars => MathInv'
  BY MathStep
<1>3. MathInv => MathIsExact
  BY DEF MathInv, MathIsExact
<1>4. QED
  BY <1>1, <1>2, <1>3, PTL DEF Spec

-----------------------------------------------------------------------------
(* The reads of social-twitter: the pages of a workflow.                   *)

\* The option whose token a request carries: a search takes next_token first, and
\* only searches have it.
Carried(g) ==
  IF "next_token" \in DOMAIN g THEN {"next_token"} ELSE {"pagination_token"} \cap DOMAIN g

\* What a caller may give to a tool.
OptionsFit ==
  /\ input = [tool |-> input.tool, given |-> input.given]
  /\ input.tool \in ReadTools
  /\ DOMAIN input.given \subseteq Twitter!Options(input.tool)

\* The reply to a call that skips n items.
RepliesWith(n) ==
  \/ work.reply.refused
  \/ ~work.reply.refused /\ work.reply.data = {} /\ n = Twitter!Pages(input.tool)
  \/ /\ ~work.reply.refused /\ n < Twitter!Pages(input.tool)
     /\ work.reply.data = {n + 1}
     /\ work.reply.next \in {0, n + 1}
     /\ work.reply.next = 0 => n + 1 = Twitter!Pages(input.tool)

\* After n items the token that the next request carries skips n.
FollowInv ==
  server = "twitter" =>
    /\ OptionsFit
    /\ work = [query |-> work.query, reply |-> work.reply, seen |-> work.seen]
    /\ stage \in {"called", "sent", "answered", "returned"}
    /\ \E n \in Nat :
         /\ n <= Twitter!Pages(input.tool)
         /\ work.seen = [k \in 1 .. n |-> k]
         /\ stage # "returned" =>
              /\ \A o \in Carried(input.given) : input.given[o].skips = n
              /\ Carried(input.given) = {} => n = 0
         /\ stage = "sent" => Twitter!Skipped = n
         /\ stage = "answered" => RepliesWith(n)
         /\ stage = "returned" =>
              /\ output.next # 0 => output.next = n
              /\ output.next = 0 /\ (output.tag = "ok" \/ output.kind = "not_found") =>
                   n = Twitter!Pages(input.tool)

\* Parameters that are made of other options are not of a token.
LEMMA NoToken ==
  ASSUME NEW os, "next_token" \notin os, "pagination_token" \notin os,
         NEW p \in {"next_token", "pagination_token"}
  PROVE  /\ \A q \in Twitter!Plain(os) : q[1] # p
         /\ \A q \in Twitter!Fields(os) : q[1] # p
         /\ \A q \in Twitter!AddFieldsParam(os) : q[1] # p
         /\ \A q \in Twitter!Quoted("exclude") : q[1] # p
<1>1. \A o \in os : o # p /\ Twitter!ParamOf(o) # p
  BY DEF Twitter!ParamOf
<1>2. \A q \in Twitter!Fields(os) : q[1] # p
  BY <1>1 DEF Twitter!Fields
<1>3. QED
  BY <1>1, <1>2 DEF Twitter!Plain, Twitter!AddFieldsParam, Twitter!Quoted

\* Parameters of which one is of the pages.
LEMMA PlainToken ==
  ASSUME NEW os, "next_token" \notin os, "pagination_token" \notin os
  PROVE  {q \in Twitter!Plain(os \cup {"pagination_token"}) : q[1] = "pagination_token"} =
           {<<"pagination_token", input.given[o]>> : o \in {"pagination_token"} \cap DOMAIN input.given}
BY DEF Twitter!Plain, Twitter!given

\* A query with a token among plain parameters, and one with a search's token.
LEMMA QueryWithPlain ==
  ASSUME NEW os, "next_token" \notin os, "pagination_token" \notin os, NEW R,
         \A q \in R : q[1] # "pagination_token",
         Twitter!Query = Twitter!Plain(os \cup {"pagination_token"}) \cup R,
         "next_token" \notin DOMAIN input.given
  PROVE  {q \in Twitter!Query : q[1] = "pagination_token"} =
           {<<"pagination_token", input.given[o]>> : o \in Carried(input.given)}
<1>1. {q \in Twitter!Query : q[1] = "pagination_token"} =
        {q \in Twitter!Plain(os \cup {"pagination_token"}) : q[1] = "pagination_token"}
  OBVIOUS
<1>2. QED
  BY <1>1, PlainToken DEF Carried

\* The same of the searches, which send either token as next_token.
LEMMA QueryWithNext ==
  ASSUME NEW R, \A q \in R : q[1] # "next_token",
         Twitter!Query = Twitter!NextToken \cup R
  PROVE  {q \in Twitter!Query : q[1] = "next_token"} =
           {<<"next_token", input.given[o]>> : o \in Carried(input.given)}
BY DEF Twitter!NextToken, Twitter!Gives, Twitter!given, Carried

\* The token of a request is the one that is carried, for each of the tools.
LEMMA TokensOfQuery ==
  ASSUME OptionsFit
  PROVE  LET p == Twitter!TokenParam(input.tool) IN
         {q \in Twitter!Query : q[1] = p} =
           {<<p, input.given[o]>> : o \in Carried(input.given)}
<1> DEFINE p == Twitter!TokenParam(input.tool)
           Free(os) == "next_token" \notin os /\ "pagination_token" \notin os
<1>0. Free(Twitter!Window) /\ Free(Twitter!TweetOptions) /\ Free(Twitter!UserOptions)
      /\ Free(Twitter!MessageFields)
  BY DEF Twitter!Window, Twitter!TweetOptions, Twitter!UserOptions, Twitter!MessageFields
<1>1. CASE input.tool = "get_user_tweets"
  <2> DEFINE os == Twitter!Window \cup {"max_results"}
             R == Twitter!Quoted("exclude") \cup Twitter!Fields(Twitter!TweetOptions)
  <2>1. p = "pagination_token" /\ "next_token" \notin DOMAIN input.given /\ Free(os)
    BY <1>0, <1>1 DEF OptionsFit, Twitter!Options, Twitter!GetUserTweetsInput,
                      Twitter!Window, Twitter!TweetOptions, Twitter!TokenParam, Twitter!Searches
  <2>2. Twitter!Query = Twitter!Plain(os \cup {"pagination_token"}) \cup R
    <3>1. os \cup {"pagination_token"} = Twitter!Window \cup {"max_results", "pagination_token"}
      OBVIOUS
    <3>2. QED
      BY <1>1, <3>1 DEF Twitter!Query, Twitter!GetUserTweetsQuery
  <2>3. \A q \in R : q[1] # "pagination_token"
    BY <1>0, NoToken
  <2> HIDE DEF os, R
  <2>4. QED
    BY ZenonT(30), <2>1, <2>2, <2>3, QueryWithPlain
<1>2. CASE input.tool = "get_mentioned_tweets"
  <2> DEFINE os == Twitter!Window \cup {"max_results"}
             R == Twitter!Fields(Twitter!TweetOptions)
  <2>1. p = "pagination_token" /\ "next_token" \notin DOMAIN input.given /\ Free(os)
    BY <1>0, <1>2 DEF OptionsFit, Twitter!Options, Twitter!GetMentionedTweetsInput,
                      Twitter!Window, Twitter!TweetOptions, Twitter!TokenParam, Twitter!Searches
  <2>2. Twitter!Query = Twitter!Plain(os \cup {"pagination_token"}) \cup R
    <3>1. os \cup {"pagination_token"} = Twitter!Window \cup {"max_results", "pagination_token"}
      OBVIOUS
    <3>2. QED
      BY <1>2, <3>1 DEF Twitter!Query, Twitter!GetMentionedTweetsQuery
  <2>3. \A q \in R : q[1] # "pagination_token"
    BY <1>0, NoToken
  <2> HIDE DEF os, R
  <2>4. QED
    BY ZenonT(30), <2>1, <2>2, <2>3, QueryWithPlain
<1>3. CASE input.tool = "get_list_tweets"
  <2> DEFINE os == {"max_results"}
             R == Twitter!Fields(Twitter!TweetOptions)
  <2>1. p = "pagination_token" /\ "next_token" \notin DOMAIN input.given /\ Free(os)
    BY <1>0, <1>3 DEF OptionsFit, Twitter!Options, Twitter!GetListTweetsInput,
                      Twitter!Window, Twitter!TweetOptions, Twitter!TokenParam, Twitter!Searches
  <2>2. Twitter!Query = Twitter!Plain(os \cup {"pagination_token"}) \cup R
    <3>1. os \cup {"pagination_token"} = {"max_results", "pagination_token"}
      OBVIOUS
    <3>2. QED
      BY <1>3, <3>1 DEF Twitter!Query, Twitter!GetListTweetsQuery
  <2>3. \A q \in R : q[1] # "pagination_token"
    BY <1>0, NoToken
  <2> HIDE DEF os, R
  <2>4. QED
    BY ZenonT(30), <2>1, <2>2, <2>3, QueryWithPlain
<1>4. CASE input.tool = "get_list_members"
  <2> DEFINE os == {"max_results"}
             R == Twitter!Fields({"user_fields", "expansions", "tweet_fields"})
  <2>1. p = "pagination_token" /\ "next_token" \notin DOMAIN input.given /\ Free(os)
    BY <1>0, <1>4 DEF OptionsFit, Twitter!Options, Twitter!GetListMembersInput,
                      Twitter!Window, Twitter!TweetOptions, Twitter!TokenParam, Twitter!Searches
  <2>2. Twitter!Query = Twitter!Plain(os \cup {"pagination_token"}) \cup R
    <3>1. os \cup {"pagination_token"} = {"max_results", "pagination_token"}
      OBVIOUS
    <3>2. QED
      BY <1>4, <3>1 DEF Twitter!Query, Twitter!GetListMembersQuery
  <2>3. \A q \in R : q[1] # "pagination_token"
    BY <1>0, NoToken
  <2> HIDE DEF os, R
  <2>4. QED
    BY ZenonT(30), <2>1, <2>2, <2>3, QueryWithPlain
<1>5. CASE input.tool = "get_user_lists"
  <2> DEFINE os == {"max_results"}
             R == Twitter!Fields({"user_fields", "expansions", "list_fields"})
  <2>1. p = "pagination_token" /\ "next_token" \notin DOMAIN input.given /\ Free(os)
    BY <1>0, <1>5 DEF OptionsFit, Twitter!Options, Twitter!GetUserListsInput,
                      Twitter!Window, Twitter!TweetOptions, Twitter!TokenParam, Twitter!Searches
  <2>2. Twitter!Query = Twitter!Plain(os \cup {"pagination_token"}) \cup R
    <3>1. os \cup {"pagination_token"} = {"max_results", "pagination_token"}
      OBVIOUS
    <3>2. QED
      BY <1>5, <3>1 DEF Twitter!Query, Twitter!GetUserListsQuery
  <2>3. \A q \in R : q[1] # "pagination_token"
    BY <1>0, NoToken
  <2> HIDE DEF os, R
  <2>4. QED
    BY ZenonT(30), <2>1, <2>2, <2>3, QueryWithPlain
<1>6. CASE input.tool = "get_conversation_messages"
  <2> DEFINE os == {"max_results"}
             R == Twitter!AddFieldsParam(Twitter!MessageFields \cup {"event_types"})
  <2>1. p = "pagination_token" /\ "next_token" \notin DOMAIN input.given /\ Free(os)
    BY <1>0, <1>6 DEF OptionsFit, Twitter!Options, Twitter!GetConversationMessagesInput,
                      Twitter!Window, Twitter!TweetOptions, Twitter!TokenParam, Twitter!Searches
  <2>2. Twitter!Query = Twitter!Plain(os \cup {"pagination_token"}) \cup R
    <3>1. os \cup {"pagination_token"} = {"max_results", "pagination_token"}
      OBVIOUS
    <3>2. QED
      BY <1>6, <3>1 DEF Twitter!Query, Twitter!GetConversationMessagesQuery
  <2>3. \A q \in R : q[1] # "pagination_token"
    BY <1>0, NoToken
  <2> HIDE DEF os, R
  <2>4. QED
    BY ZenonT(30), <2>1, <2>2, <2>3, QueryWithPlain
<1>7. CASE input.tool = "get_conversation_messages_by_id"
  <2> DEFINE os == {"max_results", "event_types"}
             R == Twitter!AddFieldsParam(Twitter!MessageFields)
  <2>1. p = "pagination_token" /\ "next_token" \notin DOMAIN input.given /\ Free(os)
    BY <1>0, <1>7 DEF OptionsFit, Twitter!Options, Twitter!GetConversationMessagesByIdInput, Twitter!GetConversationMessagesInput,
                      Twitter!Window, Twitter!TweetOptions, Twitter!TokenParam, Twitter!Searches
  <2>2. Twitter!Query = Twitter!Plain(os \cup {"pagination_token"}) \cup R
    <3>1. os \cup {"pagination_token"} = {"max_results", "pagination_token", "event_types"}
      OBVIOUS
    <3>2. QED
      BY <1>7, <3>1 DEF Twitter!Query, Twitter!GetConversationMessagesByIdQuery
  <2>3. \A q \in R : q[1] # "pagination_token"
    BY <1>0, NoToken
  <2> HIDE DEF os, R
  <2>4. QED
    BY ZenonT(30), <2>1, <2>2, <2>3, QueryWithPlain
<1>8. CASE input.tool = "get_recent_search_tweets"
  <2> DEFINE os == Twitter!Window \cup {"query", "max_results", "sort_order"}
             R == Twitter!Plain(os) \cup Twitter!AddFieldsParam(Twitter!TweetOptions)
  <2>1. p = "next_token"
    BY <1>8 DEF Twitter!TokenParam, Twitter!Searches
  <2>2. Twitter!Query = Twitter!NextToken \cup R
    BY <1>8 DEF Twitter!Query, Twitter!GetRecentSearchTweetsQuery
  <2>3. \A q \in R : q[1] # "next_token"
    <3>1. Free(os)
      BY <1>0
    <3>2. QED
      BY <1>0, <3>1, NoToken
  <2> HIDE DEF os, R
  <2>4. QED
    BY <2>1, <2>2, <2>3, QueryWithNext
<1>9. CASE input.tool = "get_recent_tweet_count"
  <2> DEFINE os == Twitter!Window \cup {"query", "granularity"}
             R == Twitter!Plain(os) \cup Twitter!AddFieldsParam({"search_count_fields"})
  <2>1. p = "next_token"
    BY <1>9 DEF Twitter!TokenParam, Twitter!Searches
  <2>2. Twitter!Query = Twitter!NextToken \cup R
    BY <1>9 DEF Twitter!Query, Twitter!GetRecentTweetCountQuery
  <2>3. \A q \in R : q[1] # "next_token"
    <3>1. Free(os)
      BY <1>0
    <3>2. QED
      BY <1>0, <3>1, NoToken
  <2> HIDE DEF os, R
  <2>4. QED
    BY <2>1, <2>2, <2>3, QueryWithNext
<1>10. CASE input.tool \in {"get_tweets", "get_users_by_id", "get_users_by_username", "get_user_by_id",
                          "get_user_by_username", "get_list", "get_tweet"}
  <2>1. p = "pagination_token" /\ Carried(input.given) = {}
    BY <1>0, <1>10 DEF OptionsFit, Carried, Twitter!Options, Twitter!GetTweetsInput, Twitter!GetUsersByIdInput,
         Twitter!GetUsersByUsernameInput, Twitter!UserOptions, Twitter!TweetOptions, Twitter!GetListInput,
         Twitter!TokenParam, Twitter!Searches
  <2>2. \A q \in Twitter!Query : q[1] # "pagination_token"
    <3>1. CASE input.tool = "get_tweets"
      BY <1>0, <3>1, NoToken DEF Twitter!Query, Twitter!GetTweetsQuery
    <3>2. CASE input.tool = "get_users_by_id"
      BY <3>2, NoToken DEF Twitter!Query, Twitter!GetUsersByIdQuery
    <3>3. CASE input.tool = "get_users_by_username"
      BY <1>0, <3>3, NoToken DEF Twitter!Query, Twitter!GetUsersByUsernameQuery
    <3>4. CASE input.tool \in {"get_user_by_id", "get_user_by_username"}
      BY <1>0, <3>4, NoToken DEF Twitter!Query, Twitter!GetUserByIdQuery, Twitter!GetUserByUsernameQuery
    <3>5. CASE input.tool = "get_list"
      BY <3>5, NoToken DEF Twitter!Query, Twitter!GetListQuery
    <3>6. CASE input.tool = "get_tweet"
      BY <3>6 DEF Twitter!Query
    <3>7. QED
      BY <1>10, <3>1, <3>2, <3>3, <3>4, <3>5, <3>6
  <2>3. QED
    BY <2>1, <2>2
<1>11. QED
  BY <1>1, <1>2, <1>3, <1>4, <1>5, <1>6, <1>7, <1>8, <1>9, <1>10 DEF OptionsFit, ReadTools

\* What a request skips is what the token it carries says.
LEMMA SkippedByToken ==
  ASSUME OptionsFit, NEW n,
         \A o \in Carried(input.given) : input.given[o].skips = n,
         Carried(input.given) = {} => n = 0
  PROVE  LET tokens == {q \in Twitter!Query : q[1] = Twitter!TokenParam(input.tool)} IN
         n = IF tokens = {} THEN 0 ELSE (CHOOSE q \in tokens : TRUE)[2].skips
<1> DEFINE p == Twitter!TokenParam(input.tool)
           tokens == {q \in Twitter!Query : q[1] = p}
<1>1. tokens = {<<p, input.given[o]>> : o \in Carried(input.given)}
  BY TokensOfQuery
<1>2. \A o1, o2 \in Carried(input.given) : o1 = o2
  BY DEF Carried
<1> HIDE DEF tokens
<1> SUFFICES n = IF tokens = {} THEN 0 ELSE (CHOOSE q \in tokens : TRUE)[2].skips
  BY DEF tokens
<1>4. CASE Carried(input.given) = {}
  BY <1>1, <1>4
<1>5. CASE Carried(input.given) # {}
  <2>1. PICK o \in Carried(input.given) : TRUE
    BY <1>5
  <2>2. tokens = {<<p, input.given[o]>>}
    BY <1>1, <1>2, <2>1
  <2>3. (CHOOSE q \in tokens : TRUE) = <<p, input.given[o]>>
    BY <2>2
  <2>4. QED
    BY <2>1, <2>2, <2>3
<1>6. QED
  BY <1>4, <1>5

\* The number of pages is one at least.
LEMMA PagesType == Twitter!Pages(input.tool) \in Nat \ {0}
BY TwitterAssumption DEF TwitterAssumption, Twitter!Pages

\* A page more of those seen.
LEMMA OneMore ==
  ASSUME NEW n \in Nat
  PROVE  [k \in 1 .. n |-> k] \o [k \in 1 .. 1 |-> n + 1] = [k \in 1 .. n + 1 |-> k]
<1> DEFINE s == [k \in 1 .. n |-> k]
           t == [k \in 1 .. 1 |-> n + 1]
           u == [k \in 1 .. n + 1 |-> k]
<1>1. /\ s \in Seq(Nat) /\ Len(s) = n /\ t \in Seq(Nat) /\ Len(t) = 1
      /\ u \in Seq(Nat) /\ Len(u) = n + 1
  OBVIOUS
<1>2. /\ \A k \in 1 .. n : s[k] = k
      /\ t[1] = n + 1
      /\ \A k \in 1 .. n + 1 : u[k] = k
  OBVIOUS
<1> HIDE DEF s, t, u
<1>3. /\ s \o t \in Seq(Nat) /\ Len(s \o t) = Len(s) + Len(t)
      /\ \A k \in 1 .. Len(s) + Len(t) :
           (s \o t)[k] = IF k <= Len(s) THEN s[k] ELSE t[k - Len(s)]
  BY <1>1, ConcatProperties
<1>4. \A k \in 1 .. n + 1 : (s \o t)[k] = k
  <2> TAKE k \in 1 .. n + 1
  <2>1. CASE k <= n
    BY <1>1, <1>2, <1>3, <2>1
  <2>2. CASE k = n + 1
    <3>1. k - n = 1 /\ ~(k <= n)
      BY <2>2
    <3>2. QED
      BY <1>1, <1>2, <1>3, <2>2, <3>1
  <2>3. k <= n \/ k = n + 1
    OBVIOUS
  <2>4. QED
    BY <2>1, <2>2, <2>3
<1>5. s \o t = u
  BY <1>1, <1>2, <1>3, <1>4, SeqEqual
<1>6. QED
  BY <1>5 DEF s, t, u

\* No page more.
LEMMA NoneMore ==
  ASSUME NEW n \in Nat, NEW v
  PROVE  [k \in 1 .. n |-> k] \o [k \in 1 .. 0 |-> v] = [k \in 1 .. n |-> k]
<1> DEFINE s == [k \in 1 .. n |-> k]
<1>1. s \in Seq(Nat)
  OBVIOUS
<1>2. [k \in 1 .. 0 |-> v] = <<>>
  OBVIOUS
<1>3. QED
  BY <1>1, <1>2, ConcatEmptySeq

\* What a tool returns of a reply: the page, an empty page, or an error.
LEMMA OutcomeOf ==
  /\ work.reply.refused =>
       Twitter!Outcome.items = {} /\ Twitter!Outcome.next = 0
       /\ Twitter!Outcome.tag = "err" /\ Twitter!Outcome.kind = "api"
  /\ ~work.reply.refused /\ work.reply.data = {} =>
       Twitter!Outcome.items = {} /\ Twitter!Outcome.next = 0
  /\ ~work.reply.refused /\ work.reply.data # {} =>
       \/ /\ Twitter!Outcome.items = work.reply.data
          /\ Twitter!Outcome.next = work.reply.next
       \/ /\ Twitter!Outcome.items = {} /\ Twitter!Outcome.next = 0
          /\ Twitter!Outcome.tag = "err" /\ Twitter!Outcome.kind = "parse"
<1> DEFINE none == Twitter!NoOutput
<1>1. \A k : /\ Twitter!Err(k).items = {} /\ Twitter!Err(k).next = 0
             /\ Twitter!Err(k).tag = "err" /\ Twitter!Err(k).kind = k
  BY DEF Twitter!Err, Twitter!NoOutput
<1>2. LET ok == [none EXCEPT !.tag = "ok"] IN ok.items = {} /\ ok.next = 0
  BY DEF Twitter!NoOutput
<1>3. Twitter!Ok.items = work.reply.data /\ Twitter!Ok.next = work.reply.next
  BY DEF Twitter!Ok, Twitter!NoOutput, Twitter!PassesMeta
<1>4. QED
  BY <1>1, <1>2, <1>3 DEF Twitter!Outcome

\* No step loses the place in the pages.
LEMMA FollowStep ==
  ASSUME FollowInv, [Next]_vars
  PROVE  FollowInv'
<1>1. /\ \A t : Twitter!Options(t)' = Twitter!Options(t) /\ Twitter!Pages(t)' = Twitter!Pages(t)
      /\ ReadTools' = ReadTools
      /\ \A g : Carried(g)' = Carried(g)
  <2>1. \A t : Twitter!Options(t)' = Twitter!Options(t)
    BY DEF Twitter!Options, Twitter!GetUserTweetsInput, Twitter!GetMentionedTweetsInput,
           Twitter!GetRecentSearchTweetsInput, Twitter!GetRecentTweetCountInput,
           Twitter!GetListTweetsInput, Twitter!GetListMembersInput, Twitter!GetUserListsInput,
           Twitter!GetConversationMessagesInput, Twitter!GetConversationMessagesByIdInput,
           Twitter!GetTweetsInput, Twitter!GetUsersByIdInput, Twitter!GetUsersByUsernameInput,
           Twitter!GetListInput, Twitter!UserOptions, Twitter!Window, Twitter!TweetOptions
  <2>2. \A t : Twitter!Pages(t)' = Twitter!Pages(t)
    BY DEF Twitter!Pages, Twitter!Timelines, Twitter!Searches, Twitter!Messages
  <2>3. QED
    BY <2>1, <2>2 DEF ReadTools, Carried
<1>2. ASSUME UNCHANGED input
      PROVE  OptionsFit' <=> OptionsFit
  BY <1>1, <1>2 DEF OptionsFit
<1>3. ASSUME UNCHANGED <<input, work>>
      PROVE  /\ Twitter!Skipped' = Twitter!Skipped
             /\ \A n : RepliesWith(n)' <=> RepliesWith(n)
  BY <1>1, <1>3 DEF Twitter!Skipped, Twitter!TokenParam, Twitter!Searches, RepliesWith
<1>4. CASE UNCHANGED vars
  BY <1>1, <1>2, <1>3, <1>4 DEF vars, FollowInv
<1>5. CASE Next
  <2> SUFFICES ASSUME server' = "twitter"
               PROVE  FollowInv'
    BY DEF FollowInv
  <2>1. server = "twitter" /\ Twitter!Next
    BY <1>5, WhoServes
  <2> DEFINE pages == Twitter!Pages(input.tool)
  <2>2. PICK n \in Nat :
          /\ n <= pages
          /\ work.seen = [k \in 1 .. n |-> k]
          /\ stage # "returned" =>
               /\ \A o \in Carried(input.given) : input.given[o].skips = n
               /\ Carried(input.given) = {} => n = 0
          /\ stage = "sent" => Twitter!Skipped = n
          /\ stage = "answered" => RepliesWith(n)
          /\ stage = "returned" =>
               /\ output.next # 0 => output.next = n
               /\ output.next = 0 /\ (output.tag = "ok" \/ output.kind = "not_found") =>
                    n = pages
    BY <2>1 DEF FollowInv
  <2>3. OptionsFit /\ pages \in Nat \ {0}
    BY <2>1, PagesType DEF FollowInv
  <2>4. CASE Twitter!Refuse
    <3>1. /\ stage = "called" /\ stage' = "returned" /\ UNCHANGED <<input, work>>
          /\ output' = Twitter!Err(Twitter!Refusal) /\ Twitter!Refusal \in {"validation", "unknown"}
      BY <2>4 DEF Twitter!Refuse, Twitter!Refusal
    <3>2. output'.next = 0 /\ output'.tag = "err" /\ output'.kind \in {"validation", "unknown"}
      BY <3>1 DEF Twitter!Err, Twitter!NoOutput
    <3>3. QED
      BY <1>1, <1>2, <2>1, <2>2, <2>3, <3>1, <3>2 DEF FollowInv
  <2>5. CASE Twitter!Send
    <3>1. /\ stage = "called" /\ stage' = "sent" /\ UNCHANGED <<input, output>>
          /\ work' = [work EXCEPT !.query = Twitter!Query]
      BY <2>5 DEF Twitter!Send
    <3>2. /\ work' = [query |-> work'.query, reply |-> work'.reply, seen |-> work'.seen]
          /\ work'.seen = work.seen
      BY <2>1, <3>1 DEF FollowInv
    <3>3. Twitter!Skipped' = n
      <4>1. work'.query = Twitter!Query /\ input' = input
        BY <2>1, <3>1 DEF FollowInv
      <4>2. LET tokens == {q \in Twitter!Query : q[1] = Twitter!TokenParam(input.tool)} IN
            n = IF tokens = {} THEN 0 ELSE (CHOOSE q \in tokens : TRUE)[2].skips
        BY <2>2, <2>3, <3>1, SkippedByToken
      <4>3. \A t : Twitter!TokenParam(t)' = Twitter!TokenParam(t)
        BY DEF Twitter!TokenParam, Twitter!Searches
      <4>4. QED
        BY <4>1, <4>2, <4>3 DEF Twitter!Skipped
    <3>4. QED
      BY <1>1, <1>2, <2>1, <2>2, <2>3, <3>1, <3>2, <3>3 DEF FollowInv
  <2>6. CASE Twitter!Answer
    <3>1. /\ stage = "sent" /\ stage' = "answered" /\ UNCHANGED <<input, output>>
      BY <2>6 DEF Twitter!Answer
    <3>2. Twitter!Skipped = n
      BY <2>2, <3>1
    <3>3. PICK reply \in {[Twitter!Silent EXCEPT !.refused = TRUE]} \cup
                         IF n < pages THEN Twitter!Page(n + 1) ELSE {Twitter!Silent} :
            work' = [work EXCEPT !.reply = reply]
      BY <2>6, <3>2 DEF Twitter!Answer
    <3>4. /\ work' = [query |-> work'.query, reply |-> work'.reply, seen |-> work'.seen]
          /\ work'.reply = reply /\ work'.seen = work.seen
      BY <2>1, <3>3 DEF FollowInv
    <3>5. \/ reply.refused
          \/ ~reply.refused /\ reply.data = {} /\ n = pages
          \/ /\ ~reply.refused /\ n < pages
             /\ reply.data = {n + 1}
             /\ reply.next \in {0, n + 1}
             /\ reply.next = 0 => n + 1 = pages
      <4>1. CASE reply = [Twitter!Silent EXCEPT !.refused = TRUE]
        BY <4>1 DEF Twitter!Silent
      <4>2. CASE ~(n < pages) /\ reply = Twitter!Silent
        BY <2>2, <2>3, <4>2 DEF Twitter!Silent
      <4>3. CASE n < pages /\ reply \in Twitter!Page(n + 1)
        <5>1. PICK next \in IF n + 1 < pages THEN {n + 1}
                            ELSE IF input.tool \in Twitter!Timelines THEN {0, n + 1} ELSE {0} :
                reply = [refused |-> FALSE, data |-> {n + 1},
                         fields |-> Twitter!Shown(Twitter!Kind(input.tool)),
                         includes |-> Twitter!Included, next |-> next]
          BY <4>3 DEF Twitter!Page
        <5>2. ~reply.refused /\ reply.data = {n + 1} /\ reply.next = next
          BY <5>1
        <5>3. next \in {0, n + 1}
          BY <5>1
        <5>4. next = 0 => n + 1 = pages
          BY <2>3, <4>3, <5>1
        <5>5. QED
          BY <4>3, <5>2, <5>3, <5>4
      <4>4. QED
        BY <3>3, <4>1, <4>2, <4>3
    <3>6. RepliesWith(n)'
      BY <1>1, <3>1, <3>4, <3>5 DEF RepliesWith
    <3>7. QED
      BY <1>1, <1>2, <2>1, <2>2, <2>3, <3>1, <3>4, <3>6 DEF FollowInv
  <2>7. CASE Twitter!Return
    <3>1. /\ stage = "answered" /\ stage' = "returned" /\ UNCHANGED input
          /\ output' = Twitter!Outcome
          /\ work'.seen = work.seen \o [k \in 1 .. IF Twitter!Outcome.items = {} THEN 0 ELSE 1 |->
                                          CHOOSE i \in Twitter!Outcome.items : TRUE]
      BY <2>7 DEF Twitter!Return
    <3>2. RepliesWith(n)
      BY <2>2, <3>1
    <3>3. work' = [query |-> work'.query, reply |-> work'.reply, seen |-> work'.seen]
      BY <2>7 DEF Twitter!Return
    <3>4. CASE Twitter!Outcome.items = {}
      <4>1. work'.seen = work.seen
        BY <2>2, <3>1, <3>4, NoneMore
      <4>2. Twitter!Outcome.next = 0
        BY <3>2, <3>4, OutcomeOf DEF RepliesWith
      <4>3. Twitter!Outcome.tag = "ok" \/ Twitter!Outcome.kind = "not_found" => n = pages
        BY <3>2, <3>4, OutcomeOf DEF RepliesWith
      <4>4. QED
        BY <1>1, <1>2, <2>1, <2>2, <2>3, <3>1, <3>3, <4>1, <4>2, <4>3 DEF FollowInv
    <3>5. CASE Twitter!Outcome.items # {}
      <4>1. /\ ~work.reply.refused /\ n < pages /\ work.reply.data = {n + 1}
            /\ work.reply.next \in {0, n + 1}
            /\ work.reply.next = 0 => n + 1 = pages
        BY <3>2, <3>5, OutcomeOf DEF RepliesWith
      <4>2. Twitter!Outcome.items = {n + 1} /\ Twitter!Outcome.next = work.reply.next
        BY <3>5, <4>1, OutcomeOf
      <4>3. (CHOOSE i \in Twitter!Outcome.items : TRUE) = n + 1
        BY <4>2
      <4>4. work'.seen = [k \in 1 .. n + 1 |-> k]
        BY <2>2, <3>1, <3>5, <4>3, OneMore
      <4>5. n + 1 \in Nat /\ n + 1 <= pages
        BY <2>3, <4>1
      <4>6. /\ output'.next # 0 => output'.next = n + 1
            /\ output'.next = 0 => n + 1 = pages
        BY <3>1, <4>1, <4>2
      <4>7. QED
        BY <1>1, <1>2, <2>1, <2>3, <3>1, <3>3, <4>4, <4>5, <4>6 DEF FollowInv
    <3>6. QED
      BY <3>4, <3>5
  <2>8. CASE Twitter!NextPage
    <3>1. /\ stage = "returned" /\ output.next # 0 /\ stage' = "called" /\ UNCHANGED work
      BY <2>8 DEF Twitter!NextPage
    <3>2. PICK o \in Twitter!Options(input.tool) \cap {"next_token", "pagination_token"} :
            /\ o = "pagination_token" => ~Twitter!Gives("next_token")
            /\ input' = [input EXCEPT !.given =
                 [p \in DOMAIN Twitter!given \cup {o} |->
                    IF p = o THEN [skips |-> output.next, length |-> 16] ELSE Twitter!given[p]]]
      BY <2>8 DEF Twitter!NextPage
    <3> DEFINE g == [p \in DOMAIN input.given \cup {o} |->
                       IF p = o THEN [skips |-> output.next, length |-> 16] ELSE input.given[p]]
    <3>3. input' = [tool |-> input.tool, given |-> g]
      BY <2>3, <3>2 DEF OptionsFit, Twitter!given
    <3>4. DOMAIN g = DOMAIN input.given \cup {o} /\ g[o].skips = output.next
      OBVIOUS
    <3> HIDE DEF g
    <3>5. OptionsFit'
      BY <1>1, <2>3, <3>2, <3>3, <3>4 DEF OptionsFit
    <3>6. Carried(g) = {o}
      BY <3>2, <3>4 DEF Carried, Twitter!Gives, Twitter!given
    <3>7. output.next = n
      BY <2>2, <3>1
    <3>8. input'.given = g /\ input'.tool = input.tool
      BY <3>3
    <3>9. QED
      BY <1>1, <2>1, <2>2, <3>1, <3>4, <3>5, <3>6, <3>7, <3>8 DEF FollowInv
  <2>9. QED
    BY <2>1, <2>4, <2>5, <2>6, <2>7, <2>8 DEF Twitter!Next
<1>6. QED
  BY <1>4, <1>5

\* A call that begins is at the first page.
LEMMA FollowInit == Init => FollowInv
<1> SUFFICES ASSUME Init, server = "twitter"
             PROVE  FollowInv
  BY DEF FollowInv
<1>1. Twitter!Init
  BY DEF Init
<1>2. /\ stage = "called" /\ input \in Inputs
      /\ work = [query |-> work.query, reply |-> work.reply, seen |-> work.seen]
      /\ work.seen = <<>>
  BY <1>1 DEF Twitter!Init
<1>3. OptionsFit
  BY <1>2, TwitterAssumption DEF OptionsFit, TwitterAssumption
<1>4. \A o \in Carried(input.given) : input.given[o].skips = 0
  BY <1>2, TwitterAssumption DEF Carried, TwitterAssumption
<1>5. <<>> = [k \in 1 .. 0 |-> k]
  OBVIOUS
<1>6. 0 \in Nat /\ 0 <= Twitter!Pages(input.tool)
  BY PagesType
<1>7. QED
  BY <1>2, <1>3, <1>4, <1>5, <1>6 DEF FollowInv

\* Whoever follows next_token sees every item once, in order, up to the last
\* (meta.next_token of each tool's output).
THEOREM PagesFollow == Spec => []PagesInOrder
<1>1. FollowInv => PagesInOrder
  <2> SUFFICES ASSUME FollowInv, server = "twitter"
               PROVE  Twitter!PagesInOrder
    BY DEF PagesInOrder
  <2>1. PICK n \in Nat :
          /\ work.seen = [k \in 1 .. n |-> k]
          /\ stage = "returned" =>
               (output.next = 0 /\ (output.tag = "ok" \/ output.kind = "not_found") =>
                  n = Twitter!Pages(input.tool))
    BY DEF FollowInv
  <2>2. Len(work.seen) = n
    BY <2>1
  <2>3. QED
    BY <2>1, <2>2 DEF Twitter!PagesInOrder
<1>2. QED
  BY <1>1, FollowInit, FollowStep, PTL DEF Spec

\* The names that a request gives as they are, and the lists of fields.
PlainNames ==
  {"since_id", "until_id", "start_time", "end_time", "max_results", "query", "sort_order",
   "granularity", "ids", "usernames", "event_types"}
FieldNames ==
  {"tweet_fields", "expansions", "expansions_fields", "media_fields", "poll_fields",
   "user_fields", "place_fields", "list_fields", "dm_event_fields", "search_count_fields",
   "event_types"}
Tokens == {"next_token", "pagination_token"}

\* What an option becomes in the request.
Sent(o) ==
  <<IF o \in Tokens THEN Twitter!TokenParam(input.tool) ELSE Twitter!ParamOf(o),
    IF o = "exclude" THEN {<<"quoted", n>> : n \in input.given[o]} ELSE input.given[o]>>

\* The request is of the options in os: of all but empty lists, and of one token.
SendsOf(os) ==
  /\ Twitter!Query = {Sent(o) : o \in os}
  /\ os \subseteq (DOMAIN input.given \ Tokens) \cup Carried(input.given)
  /\ \A o \in DOMAIN input.given \ Tokens :
       (o \in Twitter!Lists => input.given[o] # {}) => o \in os

LEMMA NamesAre ==
  /\ \A o \in PlainNames : Twitter!ParamOf(o) = o /\ o \notin Tokens /\ o # "exclude"
  /\ \A o \in FieldNames : o \notin Tokens /\ o # "exclude" /\ o \in Twitter!Lists
  /\ "exclude" \notin Tokens /\ "exclude" \in Twitter!Lists /\ Twitter!ParamOf("exclude") = "exclude"
<1>1. \A o \in PlainNames : Twitter!ParamOf(o) = o /\ o \notin Tokens /\ o # "exclude"
  BY DEF PlainNames, Tokens, Twitter!ParamOf
<1>2. \A o \in FieldNames : o \notin Tokens /\ o # "exclude" /\ o \in Twitter!Lists
  BY DEF FieldNames, Tokens, Twitter!Lists
<1>3. "exclude" \notin Tokens /\ "exclude" \in Twitter!Lists /\ Twitter!ParamOf("exclude") = "exclude"
  BY DEF Tokens, Twitter!Lists, Twitter!ParamOf
<1>4. QED
  BY <1>1, <1>2, <1>3

\* A query made of plain options, lists of fields, lists that are not empty, and more.
LEMMA QuerySends ==
  ASSUME NEW P, NEW F, NEW A, NEW Z, NEW X,
         P \subseteq PlainNames \cup {"pagination_token"}, F \subseteq FieldNames, A \subseteq FieldNames,
         Twitter!Query = Twitter!Plain(P) \cup Twitter!Fields(F) \cup Twitter!AddFieldsParam(A) \cup Z,
         Z = {Sent(o) : o \in X}, X \subseteq Carried(input.given) \cup ({"exclude"} \cap DOMAIN input.given),
         "pagination_token" \in P =>
           Twitter!TokenParam(input.tool) = "pagination_token" /\ "next_token" \notin DOMAIN input.given,
         DOMAIN input.given \subseteq P \cup F \cup A \cup X \cup Tokens
  PROVE  \E os : SendsOf(os)
<1> DEFINE D == DOMAIN input.given
           os == (P \cap D) \cup (F \cap D) \cup {o \in A \cap D : input.given[o] # {}} \cup X
<1>1. Twitter!Plain(P) = {Sent(o) : o \in P \cap D}
  <2>1. \A o \in P : Sent(o) = <<o, input.given[o]>>
    BY NamesAre DEF Sent, Tokens
  <2>2. QED
    BY <2>1 DEF Twitter!Plain, Twitter!given
<1>2. \A S \in SUBSET FieldNames : Twitter!Fields(S) = {Sent(o) : o \in S \cap D}
  <2> TAKE S \in SUBSET FieldNames
  <2>1. \A o \in S : Sent(o) = <<Twitter!ParamOf(o), input.given[o]>>
    BY NamesAre DEF Sent
  <2>2. QED
    BY <2>1 DEF Twitter!Fields, Twitter!given
<1>3. Twitter!AddFieldsParam(A) = {Sent(o) : o \in {x \in A \cap D : input.given[x] # {}}}
  <2>1. \A o \in A : Sent(o)[2] = input.given[o]
    BY NamesAre DEF Sent
  <2>2. Twitter!AddFieldsParam(A) = {q \in {Sent(o) : o \in A \cap D} : q[2] # {}}
    BY <1>2 DEF Twitter!AddFieldsParam
  <2> HIDE DEF D
  <2>3. QED
    BY <2>1, <2>2
<1>4. Twitter!Query = {Sent(o) : o \in os}
  BY <1>1, <1>2, <1>3
<1>5. os \subseteq (D \ Tokens) \cup Carried(input.given)
  <2>1. P \cap D \subseteq (D \ Tokens) \cup Carried(input.given)
    BY NamesAre DEF Carried
  <2>2. QED
    BY <2>1, NamesAre
<1>6. ASSUME NEW o \in D \ Tokens, o \in Twitter!Lists => input.given[o] # {}
      PROVE  o \in os
  BY <1>6, NamesAre
<1>7. QED
  BY <1>4, <1>5, <1>6 DEF SendsOf

\* Nothing asked for is nothing sent; the exclusions go out quoted, a search's token
\* under a name of its own.
LEMMA PiecesSent ==
  /\ Twitter!Plain({}) = {} /\ Twitter!Fields({}) = {} /\ Twitter!AddFieldsParam({}) = {}
  /\ Twitter!Quoted("exclude") = {Sent(o) : o \in {"exclude"} \cap DOMAIN input.given}
  /\ input.tool \in Twitter!Searches => Twitter!NextToken = {Sent(o) : o \in Carried(input.given)}
<1>1. Twitter!Fields({}) = {}
  BY DEF Twitter!Fields
<1>2. Sent("exclude") = <<"exclude", {<<"quoted", n>> : n \in input.given["exclude"]}>>
  BY NamesAre DEF Sent
<1>3. Twitter!Quoted("exclude") = {Sent(o) : o \in {"exclude"} \cap DOMAIN input.given}
  BY <1>2 DEF Twitter!Quoted, Twitter!Gives, Twitter!given
<1>4. ASSUME input.tool \in Twitter!Searches
      PROVE  Twitter!NextToken = {Sent(o) : o \in Carried(input.given)}
  <2>1. \A o \in Tokens : Sent(o) = <<"next_token", input.given[o]>>
    BY <1>4 DEF Sent, Tokens, Twitter!TokenParam
  <2>2. Carried(input.given) \subseteq Tokens
    BY DEF Carried, Tokens
  <2>3. Twitter!NextToken = {<<"next_token", input.given[o]>> : o \in Carried(input.given)}
    BY DEF Twitter!NextToken, Twitter!Gives, Twitter!given, Carried
  <2>4. QED
    BY <2>1, <2>2, <2>3
<1>5. QED
  BY <1>1, <1>3, <1>4 DEF Twitter!Plain, Twitter!AddFieldsParam

\* The request of each of the tools is of the options given, whichever they are.
LEMMA QueryOf ==
  ASSUME OptionsFit
  PROVE  \E os : SendsOf(os)
<1>1. CASE input.tool = "get_user_tweets"
  <2> DEFINE P == Twitter!Window \cup {"max_results", "pagination_token"}
             F == Twitter!TweetOptions
             A == {}
             X == {"exclude"} \cap DOMAIN input.given
  <2>1. /\ P \subseteq PlainNames \cup {"pagination_token"}
        /\ F \subseteq FieldNames /\ A \subseteq FieldNames
    BY DEF PlainNames, FieldNames, Twitter!Window, Twitter!TweetOptions
  <2>2. Twitter!Query = Twitter!Plain(P) \cup Twitter!Fields(F) \cup Twitter!AddFieldsParam(A)
                          \cup {Sent(o) : o \in X}
    BY <1>1, PiecesSent DEF Twitter!Query, Twitter!GetUserTweetsQuery
  <2>3. X \subseteq Carried(input.given) \cup ({"exclude"} \cap DOMAIN input.given)
    OBVIOUS
  <2>4. "pagination_token" \in P =>
          Twitter!TokenParam(input.tool) = "pagination_token" /\ "next_token" \notin DOMAIN input.given
    BY <1>1 DEF OptionsFit, Twitter!Options, Twitter!GetUserTweetsInput, Twitter!Window, Twitter!TweetOptions,
                  Twitter!TokenParam, Twitter!Searches
  <2>5. DOMAIN input.given \subseteq P \cup F \cup A \cup X \cup Tokens
    BY <1>1 DEF OptionsFit, Tokens, Twitter!Options, Twitter!GetUserTweetsInput, Twitter!Window, Twitter!TweetOptions
  <2> HIDE DEF P, F, A, X
  <2>6. QED
    BY <2>1, <2>2, <2>3, <2>4, <2>5, QuerySends
<1>2. CASE input.tool = "get_mentioned_tweets"
  <2> DEFINE P == Twitter!Window \cup {"max_results", "pagination_token"}
             F == Twitter!TweetOptions
             A == {}
             X == {}
  <2>1. /\ P \subseteq PlainNames \cup {"pagination_token"}
        /\ F \subseteq FieldNames /\ A \subseteq FieldNames
    BY DEF PlainNames, FieldNames, Twitter!Window, Twitter!TweetOptions
  <2>2. Twitter!Query = Twitter!Plain(P) \cup Twitter!Fields(F) \cup Twitter!AddFieldsParam(A)
                          \cup {Sent(o) : o \in X}
    BY <1>2, PiecesSent DEF Twitter!Query, Twitter!GetMentionedTweetsQuery
  <2>3. X \subseteq Carried(input.given) \cup ({"exclude"} \cap DOMAIN input.given)
    OBVIOUS
  <2>4. "pagination_token" \in P =>
          Twitter!TokenParam(input.tool) = "pagination_token" /\ "next_token" \notin DOMAIN input.given
    BY <1>2 DEF OptionsFit, Twitter!Options, Twitter!GetMentionedTweetsInput, Twitter!Window, Twitter!TweetOptions,
                  Twitter!TokenParam, Twitter!Searches
  <2>5. DOMAIN input.given \subseteq P \cup F \cup A \cup X \cup Tokens
    BY <1>2 DEF OptionsFit, Tokens, Twitter!Options, Twitter!GetMentionedTweetsInput, Twitter!Window, Twitter!TweetOptions
  <2> HIDE DEF P, F, A, X
  <2>6. QED
    BY <2>1, <2>2, <2>3, <2>4, <2>5, QuerySends
<1>3. CASE input.tool = "get_recent_search_tweets"
  <2> DEFINE P == Twitter!Window \cup {"query", "max_results", "sort_order"}
             F == {}
             A == Twitter!TweetOptions
             X == Carried(input.given)
  <2>1. /\ P \subseteq PlainNames \cup {"pagination_token"}
        /\ F \subseteq FieldNames /\ A \subseteq FieldNames
    BY DEF PlainNames, FieldNames, Twitter!Window, Twitter!TweetOptions
  <2>2. Twitter!Query = Twitter!Plain(P) \cup Twitter!Fields(F) \cup Twitter!AddFieldsParam(A)
                          \cup {Sent(o) : o \in X}
    BY <1>3, PiecesSent DEF Twitter!Query, Twitter!GetRecentSearchTweetsQuery, Twitter!Searches
  <2>3. X \subseteq Carried(input.given) \cup ({"exclude"} \cap DOMAIN input.given)
    OBVIOUS
  <2>4. "pagination_token" \in P =>
          Twitter!TokenParam(input.tool) = "pagination_token" /\ "next_token" \notin DOMAIN input.given
    BY DEF Twitter!Window, Twitter!TweetOptions
  <2>5. DOMAIN input.given \subseteq P \cup F \cup A \cup X \cup Tokens
    BY <1>3 DEF OptionsFit, Tokens, Twitter!Options, Twitter!GetRecentSearchTweetsInput, Twitter!Window, Twitter!TweetOptions
  <2> HIDE DEF P, F, A, X
  <2>6. QED
    BY <2>1, <2>2, <2>3, <2>4, <2>5, QuerySends
<1>4. CASE input.tool = "get_recent_tweet_count"
  <2> DEFINE P == Twitter!Window \cup {"query", "granularity"}
             F == {}
             A == {"search_count_fields"}
             X == Carried(input.given)
  <2>1. /\ P \subseteq PlainNames \cup {"pagination_token"}
        /\ F \subseteq FieldNames /\ A \subseteq FieldNames
    BY DEF PlainNames, FieldNames, Twitter!Window
  <2>2. Twitter!Query = Twitter!Plain(P) \cup Twitter!Fields(F) \cup Twitter!AddFieldsParam(A)
                          \cup {Sent(o) : o \in X}
    BY <1>4, PiecesSent DEF Twitter!Query, Twitter!GetRecentTweetCountQuery, Twitter!Searches
  <2>3. X \subseteq Carried(input.given) \cup ({"exclude"} \cap DOMAIN input.given)
    OBVIOUS
  <2>4. "pagination_token" \in P =>
          Twitter!TokenParam(input.tool) = "pagination_token" /\ "next_token" \notin DOMAIN input.given
    BY DEF Twitter!Window
  <2>5. DOMAIN input.given \subseteq P \cup F \cup A \cup X \cup Tokens
    BY <1>4 DEF OptionsFit, Tokens, Twitter!Options, Twitter!GetRecentTweetCountInput, Twitter!Window
  <2> HIDE DEF P, F, A, X
  <2>6. QED
    BY <2>1, <2>2, <2>3, <2>4, <2>5, QuerySends
<1>5. CASE input.tool = "get_list_tweets"
  <2> DEFINE P == {"max_results", "pagination_token"}
             F == Twitter!TweetOptions
             A == {}
             X == {}
  <2>1. /\ P \subseteq PlainNames \cup {"pagination_token"}
        /\ F \subseteq FieldNames /\ A \subseteq FieldNames
    BY DEF PlainNames, FieldNames, Twitter!TweetOptions
  <2>2. Twitter!Query = Twitter!Plain(P) \cup Twitter!Fields(F) \cup Twitter!AddFieldsParam(A)
                          \cup {Sent(o) : o \in X}
    BY <1>5, PiecesSent DEF Twitter!Query, Twitter!GetListTweetsQuery
  <2>3. X \subseteq Carried(input.given) \cup ({"exclude"} \cap DOMAIN input.given)
    OBVIOUS
  <2>4. "pagination_token" \in P =>
          Twitter!TokenParam(input.tool) = "pagination_token" /\ "next_token" \notin DOMAIN input.given
    BY <1>5 DEF OptionsFit, Twitter!Options, Twitter!GetListTweetsInput, Twitter!TweetOptions,
                  Twitter!TokenParam, Twitter!Searches
  <2>5. DOMAIN input.given \subseteq P \cup F \cup A \cup X \cup Tokens
    BY <1>5 DEF OptionsFit, Tokens, Twitter!Options, Twitter!GetListTweetsInput, Twitter!TweetOptions
  <2> HIDE DEF P, F, A, X
  <2>6. QED
    BY <2>1, <2>2, <2>3, <2>4, <2>5, QuerySends
<1>6. CASE input.tool = "get_list_members"
  <2> DEFINE P == {"max_results", "pagination_token"}
             F == {"user_fields", "expansions", "tweet_fields"}
             A == {}
             X == {}
  <2>1. /\ P \subseteq PlainNames \cup {"pagination_token"}
        /\ F \subseteq FieldNames /\ A \subseteq FieldNames
    BY DEF PlainNames, FieldNames
  <2>2. Twitter!Query = Twitter!Plain(P) \cup Twitter!Fields(F) \cup Twitter!AddFieldsParam(A)
                          \cup {Sent(o) : o \in X}
    BY <1>6, PiecesSent DEF Twitter!Query, Twitter!GetListMembersQuery
  <2>3. X \subseteq Carried(input.given) \cup ({"exclude"} \cap DOMAIN input.given)
    OBVIOUS
  <2>4. "pagination_token" \in P =>
          Twitter!TokenParam(input.tool) = "pagination_token" /\ "next_token" \notin DOMAIN input.given
    BY <1>6 DEF OptionsFit, Twitter!Options, Twitter!GetListMembersInput,
                  Twitter!TokenParam, Twitter!Searches
  <2>5. DOMAIN input.given \subseteq P \cup F \cup A \cup X \cup Tokens
    BY <1>6 DEF OptionsFit, Tokens, Twitter!Options, Twitter!GetListMembersInput
  <2> HIDE DEF P, F, A, X
  <2>6. QED
    BY <2>1, <2>2, <2>3, <2>4, <2>5, QuerySends
<1>7. CASE input.tool = "get_user_lists"
  <2> DEFINE P == {"max_results", "pagination_token"}
             F == {"user_fields", "expansions", "list_fields"}
             A == {}
             X == {}
  <2>1. /\ P \subseteq PlainNames \cup {"pagination_token"}
        /\ F \subseteq FieldNames /\ A \subseteq FieldNames
    BY DEF PlainNames, FieldNames
  <2>2. Twitter!Query = Twitter!Plain(P) \cup Twitter!Fields(F) \cup Twitter!AddFieldsParam(A)
                          \cup {Sent(o) : o \in X}
    BY <1>7, PiecesSent DEF Twitter!Query, Twitter!GetUserListsQuery
  <2>3. X \subseteq Carried(input.given) \cup ({"exclude"} \cap DOMAIN input.given)
    OBVIOUS
  <2>4. "pagination_token" \in P =>
          Twitter!TokenParam(input.tool) = "pagination_token" /\ "next_token" \notin DOMAIN input.given
    BY <1>7 DEF OptionsFit, Twitter!Options, Twitter!GetUserListsInput,
                  Twitter!TokenParam, Twitter!Searches
  <2>5. DOMAIN input.given \subseteq P \cup F \cup A \cup X \cup Tokens
    BY <1>7 DEF OptionsFit, Tokens, Twitter!Options, Twitter!GetUserListsInput
  <2> HIDE DEF P, F, A, X
  <2>6. QED
    BY <2>1, <2>2, <2>3, <2>4, <2>5, QuerySends
<1>8. CASE input.tool = "get_conversation_messages"
  <2> DEFINE P == {"max_results", "pagination_token"}
             F == {}
             A == Twitter!MessageFields \cup {"event_types"}
             X == {}
  <2>1. /\ P \subseteq PlainNames \cup {"pagination_token"}
        /\ F \subseteq FieldNames /\ A \subseteq FieldNames
    BY DEF PlainNames, FieldNames, Twitter!MessageFields
  <2>2. Twitter!Query = Twitter!Plain(P) \cup Twitter!Fields(F) \cup Twitter!AddFieldsParam(A)
                          \cup {Sent(o) : o \in X}
    BY <1>8, PiecesSent DEF Twitter!Query, Twitter!GetConversationMessagesQuery
  <2>3. X \subseteq Carried(input.given) \cup ({"exclude"} \cap DOMAIN input.given)
    OBVIOUS
  <2>4. "pagination_token" \in P =>
          Twitter!TokenParam(input.tool) = "pagination_token" /\ "next_token" \notin DOMAIN input.given
    BY <1>8 DEF OptionsFit, Twitter!Options, Twitter!GetConversationMessagesInput, Twitter!MessageFields,
                  Twitter!TokenParam, Twitter!Searches
  <2>5. DOMAIN input.given \subseteq P \cup F \cup A \cup X \cup Tokens
    BY <1>8 DEF OptionsFit, Tokens, Twitter!Options, Twitter!GetConversationMessagesInput, Twitter!MessageFields
  <2> HIDE DEF P, F, A, X
  <2>6. QED
    BY <2>1, <2>2, <2>3, <2>4, <2>5, QuerySends
<1>9. CASE input.tool = "get_conversation_messages_by_id"
  <2> DEFINE P == {"max_results", "pagination_token", "event_types"}
             F == {}
             A == Twitter!MessageFields
             X == {}
  <2>1. /\ P \subseteq PlainNames \cup {"pagination_token"}
        /\ F \subseteq FieldNames /\ A \subseteq FieldNames
    BY DEF PlainNames, FieldNames, Twitter!MessageFields
  <2>2. Twitter!Query = Twitter!Plain(P) \cup Twitter!Fields(F) \cup Twitter!AddFieldsParam(A)
                          \cup {Sent(o) : o \in X}
    BY <1>9, PiecesSent DEF Twitter!Query, Twitter!GetConversationMessagesByIdQuery
  <2>3. X \subseteq Carried(input.given) \cup ({"exclude"} \cap DOMAIN input.given)
    OBVIOUS
  <2>4. "pagination_token" \in P =>
          Twitter!TokenParam(input.tool) = "pagination_token" /\ "next_token" \notin DOMAIN input.given
    BY <1>9 DEF OptionsFit, Twitter!Options, Twitter!GetConversationMessagesByIdInput, Twitter!GetConversationMessagesInput, Twitter!MessageFields,
                  Twitter!TokenParam, Twitter!Searches
  <2>5. DOMAIN input.given \subseteq P \cup F \cup A \cup X \cup Tokens
    BY <1>9 DEF OptionsFit, Tokens, Twitter!Options, Twitter!GetConversationMessagesByIdInput, Twitter!GetConversationMessagesInput, Twitter!MessageFields
  <2> HIDE DEF P, F, A, X
  <2>6. QED
    BY <2>1, <2>2, <2>3, <2>4, <2>5, QuerySends
<1>10. CASE input.tool = "get_tweets"
  <2> DEFINE P == {"ids"}
             F == {}
             A == Twitter!TweetOptions
             X == {}
  <2>1. /\ P \subseteq PlainNames \cup {"pagination_token"}
        /\ F \subseteq FieldNames /\ A \subseteq FieldNames
    BY DEF PlainNames, FieldNames, Twitter!TweetOptions
  <2>2. Twitter!Query = Twitter!Plain(P) \cup Twitter!Fields(F) \cup Twitter!AddFieldsParam(A)
                          \cup {Sent(o) : o \in X}
    BY <1>10, PiecesSent DEF Twitter!Query, Twitter!GetTweetsQuery
  <2>3. X \subseteq Carried(input.given) \cup ({"exclude"} \cap DOMAIN input.given)
    OBVIOUS
  <2>4. "pagination_token" \in P =>
          Twitter!TokenParam(input.tool) = "pagination_token" /\ "next_token" \notin DOMAIN input.given
    OBVIOUS
  <2>5. DOMAIN input.given \subseteq P \cup F \cup A \cup X \cup Tokens
    BY <1>10 DEF OptionsFit, Tokens, Twitter!Options, Twitter!GetTweetsInput, Twitter!TweetOptions
  <2> HIDE DEF P, F, A, X
  <2>6. QED
    BY <2>1, <2>2, <2>3, <2>4, <2>5, QuerySends
<1>11. CASE input.tool = "get_users_by_id"
  <2> DEFINE P == {"ids"}
             F == {}
             A == {"user_fields", "expansions", "tweet_fields"}
             X == {}
  <2>1. /\ P \subseteq PlainNames \cup {"pagination_token"}
        /\ F \subseteq FieldNames /\ A \subseteq FieldNames
    BY DEF PlainNames, FieldNames
  <2>2. Twitter!Query = Twitter!Plain(P) \cup Twitter!Fields(F) \cup Twitter!AddFieldsParam(A)
                          \cup {Sent(o) : o \in X}
    BY <1>11, PiecesSent DEF Twitter!Query, Twitter!GetUsersByIdQuery
  <2>3. X \subseteq Carried(input.given) \cup ({"exclude"} \cap DOMAIN input.given)
    OBVIOUS
  <2>4. "pagination_token" \in P =>
          Twitter!TokenParam(input.tool) = "pagination_token" /\ "next_token" \notin DOMAIN input.given
    OBVIOUS
  <2>5. DOMAIN input.given \subseteq P \cup F \cup A \cup X \cup Tokens
    BY <1>11 DEF OptionsFit, Tokens, Twitter!Options, Twitter!GetUsersByIdInput
  <2> HIDE DEF P, F, A, X
  <2>6. QED
    BY <2>1, <2>2, <2>3, <2>4, <2>5, QuerySends
<1>12. CASE input.tool = "get_users_by_username"
  <2> DEFINE P == {"usernames"}
             F == Twitter!UserOptions
             A == {}
             X == {}
  <2>1. /\ P \subseteq PlainNames \cup {"pagination_token"}
        /\ F \subseteq FieldNames /\ A \subseteq FieldNames
    BY DEF PlainNames, FieldNames, Twitter!UserOptions
  <2>2. Twitter!Query = Twitter!Plain(P) \cup Twitter!Fields(F) \cup Twitter!AddFieldsParam(A)
                          \cup {Sent(o) : o \in X}
    BY <1>12, PiecesSent DEF Twitter!Query, Twitter!GetUsersByUsernameQuery
  <2>3. X \subseteq Carried(input.given) \cup ({"exclude"} \cap DOMAIN input.given)
    OBVIOUS
  <2>4. "pagination_token" \in P =>
          Twitter!TokenParam(input.tool) = "pagination_token" /\ "next_token" \notin DOMAIN input.given
    OBVIOUS
  <2>5. DOMAIN input.given \subseteq P \cup F \cup A \cup X \cup Tokens
    BY <1>12 DEF OptionsFit, Tokens, Twitter!Options, Twitter!GetUsersByUsernameInput, Twitter!UserOptions
  <2> HIDE DEF P, F, A, X
  <2>6. QED
    BY <2>1, <2>2, <2>3, <2>4, <2>5, QuerySends
<1>13. CASE input.tool = "get_user_by_id"
  <2> DEFINE P == {}
             F == Twitter!UserOptions
             A == {}
             X == {}
  <2>1. /\ P \subseteq PlainNames \cup {"pagination_token"}
        /\ F \subseteq FieldNames /\ A \subseteq FieldNames
    BY DEF PlainNames, FieldNames, Twitter!UserOptions
  <2>2. Twitter!Query = Twitter!Plain(P) \cup Twitter!Fields(F) \cup Twitter!AddFieldsParam(A)
                          \cup {Sent(o) : o \in X}
    BY <1>13, PiecesSent DEF Twitter!Query, Twitter!GetUserByIdQuery
  <2>3. X \subseteq Carried(input.given) \cup ({"exclude"} \cap DOMAIN input.given)
    OBVIOUS
  <2>4. "pagination_token" \in P =>
          Twitter!TokenParam(input.tool) = "pagination_token" /\ "next_token" \notin DOMAIN input.given
    OBVIOUS
  <2>5. DOMAIN input.given \subseteq P \cup F \cup A \cup X \cup Tokens
    BY <1>13 DEF OptionsFit, Tokens, Twitter!Options, Twitter!UserOptions
  <2> HIDE DEF P, F, A, X
  <2>6. QED
    BY <2>1, <2>2, <2>3, <2>4, <2>5, QuerySends
<1>14. CASE input.tool = "get_user_by_username"
  <2> DEFINE P == {}
             F == Twitter!UserOptions
             A == {}
             X == {}
  <2>1. /\ P \subseteq PlainNames \cup {"pagination_token"}
        /\ F \subseteq FieldNames /\ A \subseteq FieldNames
    BY DEF PlainNames, FieldNames, Twitter!UserOptions
  <2>2. Twitter!Query = Twitter!Plain(P) \cup Twitter!Fields(F) \cup Twitter!AddFieldsParam(A)
                          \cup {Sent(o) : o \in X}
    BY <1>14, PiecesSent DEF Twitter!Query, Twitter!GetUserByUsernameQuery
  <2>3. X \subseteq Carried(input.given) \cup ({"exclude"} \cap DOMAIN input.given)
    OBVIOUS
  <2>4. "pagination_token" \in P =>
          Twitter!TokenParam(input.tool) = "pagination_token" /\ "next_token" \notin DOMAIN input.given
    OBVIOUS
  <2>5. DOMAIN input.given \subseteq P \cup F \cup A \cup X \cup Tokens
    BY <1>14 DEF OptionsFit, Tokens, Twitter!Options, Twitter!UserOptions
  <2> HIDE DEF P, F, A, X
  <2>6. QED
    BY <2>1, <2>2, <2>3, <2>4, <2>5, QuerySends
<1>15. CASE input.tool = "get_list"
  <2> DEFINE P == {}
             F == {"list_fields", "expansions", "user_fields"}
             A == {}
             X == {}
  <2>1. /\ P \subseteq PlainNames \cup {"pagination_token"}
        /\ F \subseteq FieldNames /\ A \subseteq FieldNames
    BY DEF PlainNames, FieldNames
  <2>2. Twitter!Query = Twitter!Plain(P) \cup Twitter!Fields(F) \cup Twitter!AddFieldsParam(A)
                          \cup {Sent(o) : o \in X}
    BY <1>15, PiecesSent DEF Twitter!Query, Twitter!GetListQuery
  <2>3. X \subseteq Carried(input.given) \cup ({"exclude"} \cap DOMAIN input.given)
    OBVIOUS
  <2>4. "pagination_token" \in P =>
          Twitter!TokenParam(input.tool) = "pagination_token" /\ "next_token" \notin DOMAIN input.given
    OBVIOUS
  <2>5. DOMAIN input.given \subseteq P \cup F \cup A \cup X \cup Tokens
    BY <1>15 DEF OptionsFit, Tokens, Twitter!Options, Twitter!GetListInput
  <2> HIDE DEF P, F, A, X
  <2>6. QED
    BY <2>1, <2>2, <2>3, <2>4, <2>5, QuerySends
<1>16. CASE input.tool = "get_tweet"
  <2> DEFINE P == {}
             F == {}
             A == {}
             X == {}
  <2>1. /\ P \subseteq PlainNames \cup {"pagination_token"}
        /\ F \subseteq FieldNames /\ A \subseteq FieldNames
    BY DEF PlainNames, FieldNames
  <2>2. Twitter!Query = Twitter!Plain(P) \cup Twitter!Fields(F) \cup Twitter!AddFieldsParam(A)
                          \cup {Sent(o) : o \in X}
    BY <1>16, PiecesSent DEF Twitter!Query
  <2>3. X \subseteq Carried(input.given) \cup ({"exclude"} \cap DOMAIN input.given)
    OBVIOUS
  <2>4. "pagination_token" \in P =>
          Twitter!TokenParam(input.tool) = "pagination_token" /\ "next_token" \notin DOMAIN input.given
    OBVIOUS
  <2>5. DOMAIN input.given \subseteq P \cup F \cup A \cup X \cup Tokens
    BY <1>16 DEF OptionsFit, Tokens, Twitter!Options
  <2> HIDE DEF P, F, A, X
  <2>6. QED
    BY <2>1, <2>2, <2>3, <2>4, <2>5, QuerySends
<1>17. QED
  BY <1>1, <1>2, <1>3, <1>4, <1>5, <1>6, <1>7, <1>8, <1>9, <1>10, <1>11, <1>12, <1>13, <1>14, <1>15, <1>16 DEF OptionsFit, ReadTools

\* The names that the tools have for options.
Known == PlainNames \cup FieldNames \cup {"exclude"}

\* A tool has options of these names, and one name for expansions.
LEMMA OptionNames ==
  ASSUME NEW t \in ReadTools
  PROVE  /\ Twitter!Options(t) \subseteq Known \cup Tokens
         /\ ~({"expansions", "expansions_fields"} \subseteq Twitter!Options(t))
<1>1. Twitter!Options(t) \subseteq Known \cup Tokens
  BY DEF ReadTools, Known, PlainNames, FieldNames, Tokens, Twitter!Options,
         Twitter!GetUserTweetsInput, Twitter!GetMentionedTweetsInput,
         Twitter!GetRecentSearchTweetsInput, Twitter!GetRecentTweetCountInput,
         Twitter!GetListTweetsInput, Twitter!GetListMembersInput, Twitter!GetUserListsInput,
         Twitter!GetConversationMessagesInput, Twitter!GetConversationMessagesByIdInput,
         Twitter!GetTweetsInput, Twitter!GetUsersByIdInput, Twitter!GetUsersByUsernameInput,
         Twitter!GetListInput, Twitter!UserOptions, Twitter!Window, Twitter!TweetOptions
<1>2. ~({"expansions", "expansions_fields"} \subseteq Twitter!Options(t))
  BY DEF ReadTools, Twitter!Options,
         Twitter!GetUserTweetsInput, Twitter!GetMentionedTweetsInput,
         Twitter!GetRecentSearchTweetsInput, Twitter!GetRecentTweetCountInput,
         Twitter!GetListTweetsInput, Twitter!GetListMembersInput, Twitter!GetUserListsInput,
         Twitter!GetConversationMessagesInput, Twitter!GetConversationMessagesByIdInput,
         Twitter!GetTweetsInput, Twitter!GetUsersByIdInput, Twitter!GetUsersByUsernameInput,
         Twitter!GetListInput, Twitter!UserOptions, Twitter!Window, Twitter!TweetOptions
<1>3. QED
  BY <1>1, <1>2

\* Twitter has a name of its own for each of them but the two of expansions.
LEMMA ParamsDiffer ==
  ASSUME NEW o1 \in Known, NEW o2 \in Known
  PROVE  /\ Twitter!ParamOf(o1) \notin Tokens
         /\ Twitter!ParamOf(o1) = Twitter!ParamOf(o2) =>
              o1 = o2 \/ {o1, o2} = {"expansions", "expansions_fields"}
<1>1. ASSUME NEW o \in Known \ FieldNames
      PROVE  Twitter!ParamOf(o) = o
  BY <1>1, NamesAre DEF Known
<1>2. ASSUME NEW o \in FieldNames
      PROVE  /\ o = "tweet_fields" => Twitter!ParamOf(o) = "tweet.fields"
             /\ o = "media_fields" => Twitter!ParamOf(o) = "media.fields"
             /\ o = "poll_fields" => Twitter!ParamOf(o) = "poll.fields"
             /\ o = "user_fields" => Twitter!ParamOf(o) = "user.fields"
             /\ o = "place_fields" => Twitter!ParamOf(o) = "place.fields"
             /\ o = "list_fields" => Twitter!ParamOf(o) = "list.fields"
             /\ o = "dm_event_fields" => Twitter!ParamOf(o) = "dm_event.fields"
             /\ o = "search_count_fields" => Twitter!ParamOf(o) = "search_count.fields"
             /\ o \in {"expansions_fields", "expansions"} => Twitter!ParamOf(o) = "expansions"
             /\ o = "event_types" => Twitter!ParamOf(o) = "event_types"
  BY DEF Twitter!ParamOf
<1>3. QED
  BY <1>1, <1>2 DEF Known, PlainNames, FieldNames, Tokens

\* What is given to a tool that Twitter knows under a name of its own.
LEMMA FieldsOf ==
  ASSUME NEW o \in Known
  PROVE  /\ Twitter!ParamOf(o) = "tweet.fields" => o = "tweet_fields"
         /\ Twitter!ParamOf(o) = "user.fields" => o = "user_fields"
         /\ Twitter!ParamOf(o) = "list.fields" => o = "list_fields"
         /\ Twitter!ParamOf(o) = "dm_event.fields" => o = "dm_event_fields"
         /\ Twitter!ParamOf(o) = "search_count.fields" => o = "search_count_fields"
         /\ Twitter!ParamOf(o) = "expansions" => o \in {"expansions", "expansions_fields"}
BY DEF Twitter!ParamOf, Known, PlainNames, FieldNames

\* Every option is asked for, once.
LEMMA AllIsAsked ==
  ASSUME OptionsFit, work.query = Twitter!Query
  PROVE  Twitter!AsksAllThatIsGiven
<1>1. PICK os : SendsOf(os)
  BY QueryOf
<1>2. /\ work.query = {Sent(o) : o \in os}
      /\ os \subseteq (DOMAIN input.given \ Tokens) \cup Carried(input.given)
      /\ \A o \in DOMAIN input.given \ Tokens :
           (o \in Twitter!Lists => input.given[o] # {}) => o \in os
  BY <1>1 DEF SendsOf
<1>3. /\ DOMAIN input.given \ Tokens \subseteq Known
      /\ ~({"expansions", "expansions_fields"} \subseteq DOMAIN input.given)
  BY OptionNames DEF OptionsFit
<1>4. ASSUME NEW o \in DOMAIN input.given \ {"exclude", "next_token", "pagination_token"},
             o \in Twitter!Lists => input.given[o] # {}
      PROVE  <<Twitter!ParamOf(o), input.given[o]>> \in work.query
  <2>1. o \in os
    BY <1>2, <1>4 DEF Tokens
  <2>2. Sent(o) = <<Twitter!ParamOf(o), input.given[o]>>
    BY DEF Sent, Tokens
  <2>3. QED
    BY <1>2, <2>1, <2>2
<1>5. ASSUME NEW o1 \in os, NEW o2 \in os, Sent(o1)[1] = Sent(o2)[1]
      PROVE  o1 = o2
  <2>1. \A o \in os : Sent(o)[1] = IF o \in Tokens THEN Twitter!TokenParam(input.tool)
                                   ELSE Twitter!ParamOf(o)
    BY DEF Sent
  <2>2. Twitter!TokenParam(input.tool) \in Tokens
    BY DEF Twitter!TokenParam, Tokens
  <2>3. /\ \A o \in os \ Tokens : o \in Known /\ o \in DOMAIN input.given
        /\ \A o \in os \cap Tokens : o \in Carried(input.given)
    <3>1. Carried(input.given) \subseteq Tokens
      BY DEF Carried, Tokens
    <3>2. QED
      BY <1>2, <1>3, <3>1
  <2>4. CASE o1 \in Tokens /\ o2 \in Tokens
    BY <2>3, <2>4 DEF Carried
  <2>5. CASE o1 \in Tokens /\ o2 \notin Tokens
    BY <1>5, <2>1, <2>2, <2>3, <2>5, ParamsDiffer
  <2>6. CASE o1 \notin Tokens /\ o2 \in Tokens
    BY <1>5, <2>1, <2>2, <2>3, <2>6, ParamsDiffer
  <2>7. CASE o1 \notin Tokens /\ o2 \notin Tokens
    <3>1. Twitter!ParamOf(o1) = Twitter!ParamOf(o2)
      BY <1>5, <2>1, <2>7
    <3>2. o1 = o2 \/ {o1, o2} = {"expansions", "expansions_fields"}
      BY <2>3, <2>7, <3>1, ParamsDiffer
    <3>3. QED
      BY <1>3, <2>3, <2>7, <3>2
  <2>8. QED
    BY <2>4, <2>5, <2>6, <2>7
<1>6. \A q, r \in work.query : q[1] = r[1] => q = r
  BY <1>2, <1>5
<1>7. QED
  BY <1>4, <1>6 DEF Twitter!AsksAllThatIsGiven, Twitter!given

\* What is given is what Twitter is asked for, and nothing else is.
LEMMA AskedIsGiven ==
  ASSUME OptionsFit, work.query = Twitter!Query
  PROVE  /\ \A o \in DOMAIN input.given \cap Known :
              o # "exclude" /\ o \in Twitter!Lists =>
                input.given[o] \subseteq Twitter!Asked(Twitter!ParamOf(o))
         /\ \A e \in Twitter!Asked("expansions") :
              \E o \in {"expansions", "expansions_fields"} \cap DOMAIN input.given :
                e \in input.given[o]
<1>1. PICK os : SendsOf(os)
  BY QueryOf
<1>2. /\ work.query = {Sent(o) : o \in os}
      /\ os \subseteq (DOMAIN input.given \ Tokens) \cup Carried(input.given)
      /\ \A o \in DOMAIN input.given \ Tokens :
           (o \in Twitter!Lists => input.given[o] # {}) => o \in os
  BY <1>1 DEF SendsOf
<1>3. DOMAIN input.given \ Tokens \subseteq Known
  BY OptionNames DEF OptionsFit
<1>4. ASSUME NEW o \in DOMAIN input.given \cap Known, o # "exclude", o \in Twitter!Lists
      PROVE  input.given[o] \subseteq Twitter!Asked(Twitter!ParamOf(o))
  <2>1. o \notin Tokens
    BY NamesAre DEF Known
  <2>2. CASE input.given[o] = {}
    BY <2>2
  <2>3. CASE input.given[o] # {}
    <3>1. Sent(o) = <<Twitter!ParamOf(o), input.given[o]>> /\ Sent(o) \in work.query
      BY <1>2, <1>4, <2>1, <2>3 DEF Sent
    <3>2. QED
      BY <3>1 DEF Twitter!Asked
  <2>4. QED
    BY <2>2, <2>3
<1>5. ASSUME NEW e \in Twitter!Asked("expansions")
      PROVE  \E o \in {"expansions", "expansions_fields"} \cap DOMAIN input.given :
               e \in input.given[o]
  <2>1. PICK q \in work.query : q[1] = "expansions" /\ e \in q[2]
    BY <1>5 DEF Twitter!Asked
  <2>2. PICK o \in os : q = Sent(o)
    BY <1>2, <2>1
  <2>3. o \notin Tokens
    <3>1. Twitter!TokenParam(input.tool) # "expansions"
      BY DEF Twitter!TokenParam
    <3>2. QED
      BY <2>1, <2>2, <3>1 DEF Sent
  <2>4. o \in DOMAIN input.given /\ o \in Known
    BY <1>2, <1>3, <2>3 DEF Carried, Tokens
  <2>5. Twitter!ParamOf(o) = "expansions"
    BY <2>1, <2>2, <2>3 DEF Sent
  <2>6. o \in {"expansions", "expansions_fields"}
    BY <2>4, <2>5, FieldsOf
  <2>7. q[2] = input.given[o]
    BY <2>2, <2>6 DEF Sent
  <2>8. QED
    BY <2>1, <2>4, <2>6, <2>7
<1>6. QED
  BY <1>4, <1>5

\* The lists that are given are of names that the tool has.
ListsFit ==
  \A o \in DOMAIN input.given \cap Twitter!Lists :
    input.given[o] \subseteq Twitter!Choices(input.tool, o)

\* The fields that can be asked for and that no struct has a place for.
NoPlace ==
  {"article", "card_uri", "display_text_range", "media_metadata",
   "is_identity_verified", "parody", "subscription", "verified_followers_count"}

\* What is asked for is in fs, and what is expanded in is.
Arrived(fs, is) ==
  LET kind == Twitter!Kind(input.tool) IN
  /\ \A o \in DOMAIN input.given : Twitter!ParamOf(o) = Twitter!FieldsParam(kind) =>
       input.given[o] \ fs \subseteq NoPlace
  /\ \A o \in DOMAIN input.given : Twitter!ParamOf(o) = "expansions" /\ input.tool # "get_list" =>
       \A e \in input.given[o] : Twitter!Expands(kind, e) # "none" =>
         \E i \in is : i.kind = Twitter!Expands(kind, e)

\* A user or a poll is expanded without the fields that tweet/models.rs needs of it.
Unmodelled ==
  /\ input.tool \in {"get_user_tweets", "get_mentioned_tweets", "get_recent_search_tweets"}
  /\ \E e \in input.given["expansions"] :
       \/ /\ Twitter!Expands("tweet", e) = "user"
          /\ "user_fields" \in DOMAIN input.given => "protected" \notin input.given["user_fields"]
       \/ /\ Twitter!Expands("tweet", e) = "poll"
          /\ "poll_fields" \in DOMAIN input.given =>
               ~({"duration_minutes", "end_datetime", "voting_status"}
                   \subseteq input.given["poll_fields"])

\* What a tool reads the objects into needs no more of them than is always there, and
\* takes all that can be asked for but for those fields.
LEMMA MainStruct ==
  ASSUME NEW t \in ReadTools
  PROVE  LET kind == Twitter!Kind(t) IN
         /\ Twitter!Main(t).needs \subseteq Twitter!Always(kind)
         /\ \A o \in Known : Twitter!ParamOf(o) = Twitter!FieldsParam(kind) =>
              /\ o \in Twitter!Lists /\ o # "exclude"
              /\ Twitter!Choices(t, o) \ Twitter!Main(t).takes \subseteq NoPlace
<1> DEFINE kind == Twitter!Kind(t)
           Good == /\ Twitter!Main(t).needs \subseteq Twitter!Always(kind)
                   /\ \A o \in Known : Twitter!ParamOf(o) = Twitter!FieldsParam(kind) =>
                        /\ o \in Twitter!Lists /\ o # "exclude"
                        /\ Twitter!Choices(t, o) \ Twitter!Main(t).takes \subseteq NoPlace
<1>1. CASE kind = "tweet"
  <2>1. t \in {"get_tweet", "get_tweets", "get_user_tweets", "get_mentioned_tweets",
               "get_recent_search_tweets", "get_list_tweets"}
    BY <1>1 DEF ReadTools, Twitter!Kind, Twitter!Messages
  <2>2. Twitter!Main(t) = IF t = "get_list_tweets" THEN Twitter!ListTweet ELSE Twitter!Tweet
    BY <1>1 DEF Twitter!Main
  <2>3. /\ Twitter!Main(t).needs = {"id", "text"}
        /\ Twitter!TweetField \ Twitter!Main(t).takes \subseteq NoPlace
    BY <2>2 DEF Twitter!Tweet, Twitter!ListTweet, Twitter!Struct, NoPlace
  <2>4. Twitter!FieldsParam(kind) = "tweet.fields" /\ Twitter!Always(kind) = {"id", "text"}
    BY <1>1 DEF Twitter!FieldsParam, Twitter!Always
  <2>5. Twitter!Choices(t, "tweet_fields") = Twitter!TweetField
    BY DEF Twitter!Choices
  <2>6. QED
    BY <2>3, <2>4, <2>5, FieldsOf, NamesAre DEF FieldNames
<1>2. CASE kind = "user"
  <2>1. t \in {"get_list_members", "get_users_by_id", "get_users_by_username",
               "get_user_by_id", "get_user_by_username"}
    BY <1>2 DEF ReadTools, Twitter!Kind, Twitter!Messages
  <2>2. Twitter!Main(t) = Twitter!UserData
    BY <1>2, <2>1 DEF Twitter!Main
  <2>3. /\ Twitter!Main(t).needs = {"id", "name", "username"}
        /\ Twitter!UserField \ Twitter!Main(t).takes \subseteq NoPlace
    BY <2>2 DEF Twitter!UserData, Twitter!Struct, NoPlace
  <2>4. Twitter!FieldsParam(kind) = "user.fields" /\ Twitter!Always(kind) = {"id", "name", "username"}
    BY <1>2 DEF Twitter!FieldsParam, Twitter!Always
  <2>5. Twitter!Choices(t, "user_fields") = Twitter!UserField
    BY <2>1 DEF Twitter!Choices
  <2>6. QED
    BY <2>3, <2>4, <2>5, FieldsOf, NamesAre DEF FieldNames
<1>3. CASE kind = "list"
  <2>1. t \in {"get_list", "get_user_lists"}
    BY <1>3 DEF ReadTools, Twitter!Kind, Twitter!Messages
  <2>2. Twitter!Main(t) = Twitter!ListData
    BY <1>3, <2>1 DEF Twitter!Main
  <2>3. /\ Twitter!Main(t).needs = {"id", "name"}
        /\ Twitter!ListField \subseteq Twitter!Main(t).takes
    BY <2>2 DEF Twitter!ListData, Twitter!Struct
  <2>4. Twitter!FieldsParam(kind) = "list.fields" /\ Twitter!Always(kind) = {"id", "name"}
    BY <1>3 DEF Twitter!FieldsParam, Twitter!Always
  <2>5. Twitter!Choices(t, "list_fields") = Twitter!ListField
    BY DEF Twitter!Choices
  <2>6. QED
    BY <2>3, <2>4, <2>5, FieldsOf, NamesAre DEF FieldNames
<1>4. CASE kind = "dm_event"
  <2>1. t \in Twitter!Messages
    BY <1>4 DEF ReadTools, Twitter!Kind, Twitter!Messages
  <2>2. Twitter!Main(t) = Twitter!DmEvent
    BY <1>4, <2>1 DEF Twitter!Main, Twitter!Messages
  <2>3. /\ Twitter!Main(t).needs = {"id", "event_type"}
        /\ Twitter!DmEventField \subseteq Twitter!Main(t).takes
    BY <2>2 DEF Twitter!DmEvent, Twitter!Struct
  <2>4. Twitter!FieldsParam(kind) = "dm_event.fields" /\ Twitter!Always(kind) = {"id", "event_type"}
    BY <1>4 DEF Twitter!FieldsParam, Twitter!Always
  <2>5. Twitter!Choices(t, "dm_event_fields") = Twitter!DmEventField
    BY DEF Twitter!Choices
  <2>6. QED
    BY <2>3, <2>4, <2>5, FieldsOf, NamesAre DEF FieldNames
<1>5. CASE kind = "search_count"
  <2>1. t = "get_recent_tweet_count"
    BY <1>5 DEF ReadTools, Twitter!Kind, Twitter!Messages
  <2>2. Twitter!Main(t) = Twitter!TweetCount
    BY <1>5, <2>1 DEF Twitter!Main
  <2>3. Twitter!Main(t).needs = {"start", "end", "tweet_count"}
    BY <2>2 DEF Twitter!TweetCount, Twitter!Struct
  <2>4. /\ Twitter!FieldsParam(kind) = "search_count.fields"
        /\ Twitter!Always(kind) = {"start", "end", "tweet_count"}
    BY <1>5 DEF Twitter!FieldsParam, Twitter!Always
  <2>5. Twitter!Choices(t, "search_count_fields") = Twitter!TweetCount.takes
    BY DEF Twitter!Choices
  <2>6. QED
    BY <2>2, <2>3, <2>4, <2>5, FieldsOf, NamesAre DEF FieldNames
<1>6. kind \in {"tweet", "user", "list", "dm_event", "search_count"}
  BY DEF Twitter!Kind
<1>7. QED
  BY <1>1, <1>2, <1>3, <1>4, <1>5, <1>6

\* What an expansion of a tool can bring.
LEMMA ExpandsTo ==
  ASSUME NEW t \in ReadTools, NEW o \in {"expansions", "expansions_fields"},
         o \in Twitter!Options(t), NEW e \in Twitter!Choices(t, o),
         NEW k, k = Twitter!Expands(Twitter!Kind(t), e), k # "none"
  PROVE  \/ /\ t \in {"get_user_tweets", "get_mentioned_tweets", "get_recent_search_tweets"}
            /\ o = "expansions" /\ k \in {"tweet", "user", "media", "poll", "place"}
         \/ t \in Twitter!Messages /\ k \in {"tweet", "user", "media"}
         \/ t \in {"get_list", "get_user_lists"} /\ k = "user"
<1>1. CASE Twitter!Kind(t) = "tweet"
  <2>1. t \in {"get_tweet", "get_tweets", "get_user_tweets", "get_mentioned_tweets",
               "get_recent_search_tweets", "get_list_tweets"}
    BY <1>1 DEF ReadTools, Twitter!Kind, Twitter!Messages
  <2>2. k \in {"tweet", "user", "media", "poll", "place"}
    BY <1>1 DEF Twitter!Expands
  <2>3. t # "get_tweet"
    BY DEF Twitter!Options
  <2>4. o = "expansions"
    BY <2>1, <2>3 DEF Twitter!Options, Twitter!GetTweetsInput, Twitter!GetUserTweetsInput,
         Twitter!GetMentionedTweetsInput, Twitter!GetRecentSearchTweetsInput,
         Twitter!GetListTweetsInput, Twitter!TweetOptions, Twitter!Window
  <2>5. t \notin {"get_tweets", "get_list_tweets"}
    <3>1. t \in {"get_tweets", "get_list_tweets"} => e = "owner_id"
      BY <2>4 DEF Twitter!Choices, Twitter!Expansion
    <3>2. Twitter!Expands("tweet", "owner_id") = "none"
      BY DEF Twitter!Expands
    <3>3. QED
      BY <1>1, <3>1, <3>2
  <2>6. QED
    BY <2>1, <2>2, <2>3, <2>4, <2>5
<1>2. CASE Twitter!Kind(t) = "dm_event"
  <2>1. t \in Twitter!Messages
    BY <1>2 DEF ReadTools, Twitter!Kind, Twitter!Messages
  <2>2. k \in {"tweet", "user", "media"}
    BY <1>2 DEF Twitter!Expands
  <2>3. QED
    BY <2>1, <2>2
<1>3. CASE Twitter!Kind(t) = "list"
  <2>1. t \in {"get_list", "get_user_lists"}
    BY <1>3 DEF ReadTools, Twitter!Kind, Twitter!Messages
  <2>2. k = "user"
    BY <1>3 DEF Twitter!Expands
  <2>3. QED
    BY <2>1, <2>2
<1>4. CASE Twitter!Kind(t) \in {"user", "search_count"}
  BY <1>4 DEF Twitter!Expands
<1>5. QED
  BY <1>1, <1>2, <1>3, <1>4 DEF Twitter!Kind

\* A struct of something expanded needs no more than is always there, but for users
\* and polls in the tools on tweet/models.rs.
LEMMA IncludeNeeds ==
  ASSUME NEW t \in ReadTools, NEW k
  PROVE  LET needs == Twitter!IncludeStruct(t, k).needs IN
         /\ t \in {"get_user_tweets", "get_mentioned_tweets", "get_recent_search_tweets"} =>
              /\ k = "user" => needs \subseteq Twitter!Always(k) \cup {"protected"}
              /\ k = "poll" => needs \subseteq Twitter!Always(k) \cup
                                 {"duration_minutes", "end_datetime", "voting_status"}
              /\ k \in {"tweet", "media", "place"} => needs \subseteq Twitter!Always(k)
         /\ t \in Twitter!Messages /\ k \in {"tweet", "user", "media"} =>
              needs \subseteq Twitter!Always(k)
         /\ t \in {"get_list", "get_user_lists"} /\ k = "user" => needs \subseteq Twitter!Always(k)
<1>1. ASSUME t \in {"get_user_tweets", "get_mentioned_tweets", "get_recent_search_tweets"}
      PROVE  LET needs == Twitter!IncludeStruct(t, k).needs IN
             /\ k = "user" => needs \subseteq Twitter!Always(k) \cup {"protected"}
             /\ k = "poll" => needs \subseteq Twitter!Always(k) \cup
                                {"duration_minutes", "end_datetime", "voting_status"}
             /\ k \in {"tweet", "media", "place"} => needs \subseteq Twitter!Always(k)
  <2>1. Twitter!IncludeStruct(t, k) = Twitter!TweetsInclude(k)
    BY <1>1 DEF Twitter!IncludeStruct, Twitter!Messages, Twitter!Kind
  <2>2. QED
    BY <2>1 DEF Twitter!TweetsInclude, Twitter!TweetsUser, Twitter!TweetsPoll, Twitter!TweetsMedia,
                Twitter!TweetsPlace, Twitter!Tweet, Twitter!Struct, Twitter!PollField, Twitter!Always
<1>2. ASSUME t \in Twitter!Messages, k \in {"tweet", "user", "media"}
      PROVE  Twitter!IncludeStruct(t, k).needs \subseteq Twitter!Always(k)
  <2>1. Twitter!IncludeStruct(t, k) = Twitter!DmInclude(k)
    BY <1>2 DEF Twitter!IncludeStruct, Twitter!Messages, Twitter!Kind
  <2>2. QED
    BY <1>2, <2>1 DEF Twitter!DmInclude, Twitter!DmUser, Twitter!DmMedia, Twitter!DmTweet,
                      Twitter!Struct, Twitter!Always
<1>3. ASSUME t \in {"get_list", "get_user_lists"}, k = "user"
      PROVE  Twitter!IncludeStruct(t, k).needs \subseteq Twitter!Always(k)
  <2>1. Twitter!IncludeStruct(t, k) = Twitter!ListsUser
    BY <1>3 DEF Twitter!IncludeStruct, Twitter!Messages, Twitter!Kind
  <2>2. QED
    BY <1>3, <2>1 DEF Twitter!ListsUser, Twitter!Struct, Twitter!Always
<1>4. QED
  BY <1>1, <1>2, <1>3

\* Of a page of what was asked for, what was asked for arrives, or the page is lost for
\* want of what the structs of an expansion need.
LEMMA ArrivesOrLost ==
  ASSUME OptionsFit, ListsFit, work.query = Twitter!Query,
         work.reply.fields = Twitter!Shown(Twitter!Kind(input.tool)),
         work.reply.includes = Twitter!Included
  PROVE  /\ Arrived(Twitter!Ok.fields, Twitter!Ok.includes)
         /\ Twitter!Reads \/ Unmodelled
<1> DEFINE t == input.tool
           kind == Twitter!Kind(t)
           main == Twitter!Main(t)
<1>1. /\ t \in ReadTools /\ DOMAIN input.given \subseteq Twitter!Options(t)
      /\ DOMAIN input.given \subseteq Known \cup Tokens
  BY OptionNames DEF OptionsFit
<1>2. \A o \in Tokens : Twitter!ParamOf(o) = o
  BY DEF Tokens, Twitter!ParamOf
<1>3. /\ main.needs \subseteq Twitter!Always(kind)
      /\ \A o \in Known : Twitter!ParamOf(o) = Twitter!FieldsParam(kind) =>
           /\ o \in Twitter!Lists /\ o # "exclude"
           /\ Twitter!Choices(t, o) \ main.takes \subseteq NoPlace
  BY <1>1, MainStruct
<1>4. /\ work.reply.fields = Twitter!Always(kind) \cup Twitter!Asked(Twitter!FieldsParam(kind))
      /\ Twitter!Decodes(work.reply.fields, main)
  BY <1>3 DEF Twitter!Shown, Twitter!Decodes
<1>5. Twitter!Ok.fields = work.reply.fields \cap main.takes
  BY DEF Twitter!Ok, Twitter!NoOutput, Twitter!Decoded
<1>6. ASSUME NEW o \in DOMAIN input.given, Twitter!ParamOf(o) = Twitter!FieldsParam(kind)
      PROVE  input.given[o] \ Twitter!Ok.fields \subseteq NoPlace
  <2>1. o \in Known
    <3>1. Twitter!FieldsParam(kind) \notin Tokens
      BY DEF Twitter!FieldsParam, Twitter!Kind, Tokens
    <3>2. QED
      BY <1>1, <1>2, <1>6, <3>1
  <2>2. /\ input.given[o] \subseteq Twitter!Asked(Twitter!FieldsParam(kind))
        /\ input.given[o] \subseteq Twitter!Choices(t, o)
    BY <1>3, <1>6, <2>1, AskedIsGiven DEF ListsFit
  <2>3. Twitter!Choices(t, o) \ main.takes \subseteq NoPlace
    BY <1>3, <1>6, <2>1
  <2> HIDE DEF t, kind, main
  <2>4. QED
    BY <1>4, <1>5, <2>2, <2>3
<1>7. ASSUME NEW o \in DOMAIN input.given, Twitter!ParamOf(o) = "expansions", t # "get_list",
             NEW e \in input.given[o], Twitter!Expands(kind, e) # "none"
      PROVE  \E i \in Twitter!Ok.includes : i.kind = Twitter!Expands(kind, e)
  <2> DEFINE k == Twitter!Expands(kind, e)
             i == [kind |-> k, fields |-> Twitter!Shown(k)]
             j == [i EXCEPT !.fields = Twitter!Decoded(@, Twitter!IncludeStruct(t, i.kind))]
  <2>1. o \in {"expansions", "expansions_fields"}
    BY <1>1, <1>2, <1>7, FieldsOf DEF Tokens
  <2>2. e \in Twitter!Asked("expansions")
    <3>1. o \in Known /\ o # "exclude" /\ o \in Twitter!Lists
      BY <2>1, NamesAre DEF Known, FieldNames
    <3>2. QED
      BY <1>7, <3>1, AskedIsGiven
  <2>3. i \in work.reply.includes
    BY <1>7, <2>2 DEF Twitter!Included
  <2>4. Twitter!ReadsIncludes(t)
    BY <1>7 DEF Twitter!ReadsIncludes
  <2>5. Twitter!Ok.includes =
          {[x EXCEPT !.fields = Twitter!Decoded(@, Twitter!IncludeStruct(t, x.kind))] :
             x \in work.reply.includes}
    BY <2>4 DEF Twitter!Ok, Twitter!NoOutput
  <2>6. j \in Twitter!Ok.includes /\ j.kind = k
    BY <2>3, <2>5
  <2>7. QED
    BY <2>6
<1>8. ASSUME NEW i \in work.reply.includes, ~Twitter!Decodes(i.fields, Twitter!IncludeStruct(t, i.kind))
      PROVE  Unmodelled
  <2>1. PICK e \in Twitter!Asked("expansions") :
          /\ Twitter!Expands(kind, e) # "none"
          /\ i = [kind |-> Twitter!Expands(kind, e), fields |-> Twitter!Shown(Twitter!Expands(kind, e))]
    BY DEF Twitter!Included
  <2> DEFINE k == Twitter!Expands(kind, e)
             needs == Twitter!IncludeStruct(t, k).needs
  <2>2. PICK o \in {"expansions", "expansions_fields"} \cap DOMAIN input.given : e \in input.given[o]
    BY AskedIsGiven
  <2>3. o \in Twitter!Options(t) /\ e \in Twitter!Choices(t, o)
    <3>1. o \in Twitter!Lists
      BY DEF Twitter!Lists
    <3>2. QED
      BY <1>1, <2>2, <3>1 DEF ListsFit
  <2>4. i.kind = k /\ i.fields = Twitter!Always(k) \cup Twitter!Asked(Twitter!FieldsParam(k))
    BY <2>1 DEF Twitter!Shown
  <2>5. ~(needs \subseteq Twitter!Always(k) \cup Twitter!Asked(Twitter!FieldsParam(k)))
    BY <1>8, <2>4 DEF Twitter!Decodes
  <2>6. \/ /\ t \in {"get_user_tweets", "get_mentioned_tweets", "get_recent_search_tweets"}
           /\ o = "expansions" /\ k \in {"tweet", "user", "media", "poll", "place"}
        \/ t \in Twitter!Messages /\ k \in {"tweet", "user", "media"}
        \/ t \in {"get_list", "get_user_lists"} /\ k = "user"
    BY <1>1, <2>1, <2>3, ExpandsTo
  <2>7. /\ t \in {"get_user_tweets", "get_mentioned_tweets", "get_recent_search_tweets"} =>
             /\ k = "user" => needs \subseteq Twitter!Always(k) \cup {"protected"}
             /\ k = "poll" => needs \subseteq Twitter!Always(k) \cup
                                {"duration_minutes", "end_datetime", "voting_status"}
             /\ k \in {"tweet", "media", "place"} => needs \subseteq Twitter!Always(k)
        /\ t \in Twitter!Messages /\ k \in {"tweet", "user", "media"} =>
             needs \subseteq Twitter!Always(k)
        /\ t \in {"get_list", "get_user_lists"} /\ k = "user" => needs \subseteq Twitter!Always(k)
    BY <1>1, IncludeNeeds
  <2>8. /\ t \in {"get_user_tweets", "get_mentioned_tweets", "get_recent_search_tweets"}
        /\ o = "expansions" /\ k \in {"user", "poll"}
    <3> HIDE DEF t, k, needs
    <3>1. QED
      BY <2>5, <2>6, <2>7
  <2>9. kind = "tweet"
    BY <2>8 DEF Twitter!Kind, Twitter!Messages
  <2>10. CASE k = "user"
    <3>1. "protected" \notin Twitter!Asked("user.fields")
      <4>1. Twitter!FieldsParam(k) = "user.fields"
        BY <2>10 DEF Twitter!FieldsParam
      <4> HIDE DEF t, k, needs
      <4>2. QED
        BY <2>5, <2>7, <2>8, <2>10, <4>1
    <3>2. "user_fields" \in DOMAIN input.given => "protected" \notin input.given["user_fields"]
      <4>1. /\ "user_fields" \in Known /\ "user_fields" \in Twitter!Lists
            /\ Twitter!ParamOf("user_fields") = "user.fields"
        BY DEF Known, FieldNames, Twitter!Lists, Twitter!ParamOf
      <4>2. QED
        BY <3>1, <4>1, AskedIsGiven
    <3>3. QED
      BY <2>2, <2>8, <2>9, <2>10, <3>2 DEF Unmodelled
  <2>11. CASE k = "poll"
    <3> DEFINE three == {"duration_minutes", "end_datetime", "voting_status"}
    <3>1. ~(three \subseteq Twitter!Asked("poll.fields"))
      <4>1. Twitter!FieldsParam(k) = "poll.fields"
        BY <2>11 DEF Twitter!FieldsParam
      <4>2. needs \subseteq Twitter!Always(k) \cup three
        BY <2>7, <2>8, <2>11
      <4> HIDE DEF t, k, needs, three
      <4>3. QED
        BY <2>5, <4>1, <4>2
    <3>2. "poll_fields" \in DOMAIN input.given => ~(three \subseteq input.given["poll_fields"])
      <4>1. /\ "poll_fields" \in Known /\ "poll_fields" \in Twitter!Lists
            /\ Twitter!ParamOf("poll_fields") = "poll.fields"
        BY DEF Known, FieldNames, Twitter!Lists, Twitter!ParamOf
      <4> HIDE DEF three
      <4>2. QED
        BY <3>1, <4>1, AskedIsGiven
    <3>3. QED
      BY <2>2, <2>8, <2>9, <2>11, <3>2 DEF Unmodelled
  <2>12. QED
    BY <2>8, <2>10, <2>11
<1>9. Arrived(Twitter!Ok.fields, Twitter!Ok.includes)
  BY <1>6, <1>7 DEF Arrived
<1>10. Twitter!Reads \/ Unmodelled
  BY <1>4, <1>8 DEF Twitter!Reads
<1>11. QED
  BY <1>9, <1>10

\* The query that was sent is the one of the call, and a page is of what it asks for.
DropInv ==
  server = "twitter" =>
    /\ ListsFit
    /\ stage \in {"sent", "answered"} => work.query = Twitter!Query
    /\ stage = "answered" /\ ~work.reply.refused /\ work.reply.data # {} =>
         /\ work.reply.fields = Twitter!Shown(Twitter!Kind(input.tool))
         /\ work.reply.includes = Twitter!Included
    /\ Twitter!AskedArrives
    /\ Twitter!LostToExpansion

\* What is of the tools alone is the same in every state.
LEMMA NamesStay ==
  /\ Known' = Known /\ Tokens' = Tokens /\ NoPlace' = NoPlace
  /\ Twitter!Lists' = Twitter!Lists
  /\ \A t : Twitter!Kind(t)' = Twitter!Kind(t)
  /\ \A k : Twitter!FieldsParam(k)' = Twitter!FieldsParam(k)
  /\ \A k : Twitter!Always(k)' = Twitter!Always(k)
  /\ \A o : Twitter!ParamOf(o)' = Twitter!ParamOf(o)
  /\ \A k, e : Twitter!Expands(k, e)' = Twitter!Expands(k, e)
  /\ \A t, o : Twitter!Choices(t, o)' = Twitter!Choices(t, o)
<1>1. \A t : Twitter!Kind(t)' = Twitter!Kind(t)
  BY DEF Twitter!Kind, Twitter!Messages
<1>2. /\ \A k : Twitter!FieldsParam(k)' = Twitter!FieldsParam(k)
      /\ \A k : Twitter!Always(k)' = Twitter!Always(k)
      /\ \A o : Twitter!ParamOf(o)' = Twitter!ParamOf(o)
  BY DEF Twitter!FieldsParam, Twitter!Always, Twitter!ParamOf
<1>3. \A k, e : Twitter!Expands(k, e)' = Twitter!Expands(k, e)
  BY DEF Twitter!Expands
<1>4. \A t, o : Twitter!Choices(t, o)' = Twitter!Choices(t, o)
  BY DEF Twitter!Choices, Twitter!TweetField, Twitter!MediaField, Twitter!PollField,
         Twitter!PlaceField, Twitter!UserField, Twitter!ListUserField, Twitter!DmUserField,
         Twitter!ListField, Twitter!DmEventField, Twitter!EventType, Twitter!ExcludeField,
         Twitter!TweetCount, Twitter!Struct, Twitter!DmExpansionField, Twitter!Expansion,
         Twitter!ExpansionField
<1>5. QED
  BY <1>1, <1>2, <1>3, <1>4 DEF Known, PlainNames, FieldNames, Tokens, NoPlace, Twitter!Lists

\* While the input stays, so do the query it makes and what it gives.
LEMMA QueryStays ==
  ASSUME UNCHANGED input
  PROVE  Twitter!Query' = Twitter!Query /\ (ListsFit' <=> ListsFit)
<1>1. Twitter!Query' = Twitter!Query
  BY DEF Twitter!Query, Twitter!GetUserTweetsQuery, Twitter!GetMentionedTweetsQuery,
         Twitter!GetRecentSearchTweetsQuery, Twitter!GetRecentTweetCountQuery,
         Twitter!GetListTweetsQuery, Twitter!GetListMembersQuery, Twitter!GetUserListsQuery,
         Twitter!GetConversationMessagesQuery, Twitter!GetConversationMessagesByIdQuery,
         Twitter!GetTweetsQuery, Twitter!GetUsersByIdQuery, Twitter!GetUsersByUsernameQuery,
         Twitter!GetUserByIdQuery, Twitter!GetUserByUsernameQuery, Twitter!GetListQuery,
         Twitter!MessageFields, Twitter!Window, Twitter!TweetOptions, Twitter!UserOptions,
         Twitter!Plain, Twitter!Fields, Twitter!AddFieldsParam, Twitter!Quoted,
         Twitter!NextToken, Twitter!ParamOf, Twitter!Gives, Twitter!given
<1>2. ListsFit' <=> ListsFit
  BY NamesStay DEF ListsFit
<1>3. QED
  BY <1>1, <1>2

\* While the query stays, so does what Twitter shows for it.
LEMMA ShownStays ==
  ASSUME UNCHANGED input, work'.query = work.query
  PROVE  /\ \A k : Twitter!Shown(k)' = Twitter!Shown(k)
         /\ Twitter!Included' = Twitter!Included
<1>1. \A p : Twitter!Asked(p)' = Twitter!Asked(p)
  BY DEF Twitter!Asked
<1>2. \A k : Twitter!Shown(k)' = Twitter!Shown(k)
  BY <1>1, NamesStay DEF Twitter!Shown
<1>3. Twitter!Included' = Twitter!Included
  <2>1. Twitter!Asked("expansions")' = Twitter!Asked("expansions")
    BY <1>1
  <2>2. \A e : Twitter!Expands(Twitter!Kind(input.tool), e)' = Twitter!Expands(Twitter!Kind(input.tool), e)
    BY NamesStay
  <2>3. QED
    BY <1>2, <2>1, <2>2 DEF Twitter!Included
<1>4. QED
  BY <1>2, <1>3

\* A tool that has nothing to pass on, or has not returned, has lost nothing.
LEMMA NothingYet ==
  ASSUME stage # "returned" \/ (output.items = {} /\ output.kind # "parse")
  PROVE  Twitter!AskedArrives /\ Twitter!LostToExpansion
BY DEF Twitter!AskedArrives, Twitter!LostToExpansion

\* What a tool returns.
LEMMA OutcomeIs ==
  /\ work.reply.refused \/ work.reply.data = {} => Twitter!Outcome.items = {}
  /\ work.reply.refused => Twitter!Outcome.kind # "parse"
  /\ ~work.reply.refused /\ work.reply.data # {} =>
       \/ Twitter!Reads /\ Twitter!Outcome = Twitter!Ok /\ Twitter!Ok.kind = "none"
       \/ ~Twitter!Reads /\ Twitter!Outcome.items = {}
<1>1. \A k : Twitter!Err(k).items = {} /\ Twitter!Err(k).kind = k
  BY DEF Twitter!Err, Twitter!NoOutput
<1>2. Twitter!Ok.kind = "none"
  BY DEF Twitter!Ok, Twitter!NoOutput
<1>3. [Twitter!NoOutput EXCEPT !.tag = "ok"].items = {}
  BY DEF Twitter!NoOutput
<1>4. QED
  BY <1>1, <1>2, <1>3 DEF Twitter!Outcome

\* No step loses what was asked for.
LEMMA DropStep ==
  ASSUME FollowInv, DropInv, [Next]_vars
  PROVE  DropInv'
<1>1. CASE UNCHANGED vars
  <2>1. UNCHANGED <<server, stage, input, work, output>>
    BY <1>1 DEF vars
  <2>2. Twitter!AskedArrives' <=> Twitter!AskedArrives
    BY <2>1, NamesStay DEF Twitter!AskedArrives, Twitter!given
  <2>3. Twitter!LostToExpansion' <=> Twitter!LostToExpansion
    BY <2>1, NamesStay DEF Twitter!LostToExpansion, Twitter!given, Twitter!Gives
  <2>4. Twitter!Shown(Twitter!Kind(input.tool))' = Twitter!Shown(Twitter!Kind(input.tool))
    BY <2>1, NamesStay, ShownStays
  <2>5. QED
    BY <2>1, <2>2, <2>3, <2>4, QueryStays, ShownStays DEF DropInv
<1>2. CASE Next
  <2> SUFFICES ASSUME server' = "twitter"
               PROVE  DropInv'
    BY DEF DropInv
  <2>1. server = "twitter" /\ Twitter!Next
    BY <1>2, WhoServes
  <2>2. /\ ListsFit /\ OptionsFit
        /\ work = [query |-> work.query, reply |-> work.reply, seen |-> work.seen]
    BY <2>1 DEF DropInv, FollowInv
  <2>3. CASE Twitter!Refuse
    <3>1. /\ stage' = "returned" /\ UNCHANGED input
          /\ output' = Twitter!Err(Twitter!Refusal) /\ Twitter!Refusal \in {"validation", "unknown"}
      BY <2>3 DEF Twitter!Refuse, Twitter!Refusal
    <3>2. output'.items = {} /\ output'.kind # "parse"
      BY <3>1 DEF Twitter!Err, Twitter!NoOutput
    <3>3. Twitter!AskedArrives' /\ Twitter!LostToExpansion'
      BY <3>2 DEF Twitter!AskedArrives, Twitter!LostToExpansion
    <3>4. QED
      BY <2>2, <3>1, <3>3, QueryStays DEF DropInv
  <2>4. CASE Twitter!Send
    <3>1. /\ stage' = "sent" /\ UNCHANGED input
          /\ work' = [work EXCEPT !.query = Twitter!Query]
      BY <2>4 DEF Twitter!Send
    <3>2. work'.query = Twitter!Query
      BY <2>2, <3>1
    <3>3. Twitter!AskedArrives' /\ Twitter!LostToExpansion'
      BY <3>1 DEF Twitter!AskedArrives, Twitter!LostToExpansion
    <3>4. QED
      BY <2>2, <3>1, <3>2, <3>3, QueryStays DEF DropInv
  <2>5. CASE Twitter!Answer
    <3>1. /\ stage = "sent" /\ stage' = "answered" /\ UNCHANGED input
      BY <2>5 DEF Twitter!Answer
    <3>2. PICK reply \in {[Twitter!Silent EXCEPT !.refused = TRUE], Twitter!Silent} \cup
                         Twitter!Page(Twitter!Skipped + 1) :
            work' = [work EXCEPT !.reply = reply]
      BY <2>5 DEF Twitter!Answer
    <3>3. work'.reply = reply /\ work'.query = work.query /\ work.query = Twitter!Query
      BY <2>1, <2>2, <3>1, <3>2 DEF DropInv
    <3>4. reply.data # {} =>
            /\ reply.fields = Twitter!Shown(Twitter!Kind(input.tool))
            /\ reply.includes = Twitter!Included
      BY <3>2 DEF Twitter!Silent, Twitter!Page
    <3>5. /\ Twitter!Shown(Twitter!Kind(input.tool))' = Twitter!Shown(Twitter!Kind(input.tool))
          /\ Twitter!Included' = Twitter!Included
      BY <3>1, <3>3, NamesStay, ShownStays
    <3>6. Twitter!AskedArrives' /\ Twitter!LostToExpansion'
      BY <3>1 DEF Twitter!AskedArrives, Twitter!LostToExpansion
    <3>7. QED
      BY <2>2, <3>1, <3>3, <3>4, <3>5, <3>6, QueryStays DEF DropInv
  <2>6. CASE Twitter!Return
    <3>1. /\ stage = "answered" /\ stage' = "returned" /\ UNCHANGED input
          /\ output' = Twitter!Outcome
          /\ work'.seen = work.seen \o [k \in 1 .. IF Twitter!Outcome.items = {} THEN 0 ELSE 1 |->
                                          CHOOSE i \in Twitter!Outcome.items : TRUE]
      BY <2>6 DEF Twitter!Return
    <3> DEFINE r == work.reply
    <3>2. CASE r.refused
      <4>1. output'.items = {} /\ output'.kind # "parse"
        BY <3>1, <3>2, OutcomeIs
      <4>2. Twitter!AskedArrives' /\ Twitter!LostToExpansion'
        BY <4>1 DEF Twitter!AskedArrives, Twitter!LostToExpansion
      <4>3. QED
        BY <2>2, <3>1, <4>2, QueryStays DEF DropInv
    <3>3. CASE ~r.refused /\ r.data = {}
      <4>1. output'.items = {}
        BY <3>1, <3>3, OutcomeIs
      <4>2. work'.seen # <<>>
        <5>1. PICK n \in Nat : work.seen = [k \in 1 .. n |-> k] /\ RepliesWith(n)
          BY <2>1, <3>1 DEF FollowInv
        <5>2. n = Twitter!Pages(input.tool)
          BY <3>3, <5>1 DEF RepliesWith
        <5>3. n \in Nat \ {0}
          BY <5>2, PagesType
        <5>4. work'.seen = work.seen
          BY <3>1, <4>1, <5>1, NoneMore
        <5>5. 1 \in DOMAIN work.seen
          BY <5>1, <5>3
        <5>6. QED
          BY <5>4, <5>5
      <4>3. Twitter!AskedArrives' /\ Twitter!LostToExpansion'
        BY <4>1, <4>2 DEF Twitter!AskedArrives, Twitter!LostToExpansion
      <4>4. QED
        BY <2>2, <3>1, <4>3, QueryStays DEF DropInv
    <3>4. CASE ~r.refused /\ r.data # {}
      <4>1. /\ Arrived(Twitter!Ok.fields, Twitter!Ok.includes)
            /\ Twitter!Reads \/ Unmodelled
        BY <2>1, <2>2, <3>1, <3>4, ArrivesOrLost DEF DropInv
      <4>2. \/ /\ output' = Twitter!Ok /\ Twitter!Ok.kind = "none"
               /\ Arrived(Twitter!Ok.fields, Twitter!Ok.includes)
            \/ output'.items = {} /\ Unmodelled
        BY <3>1, <3>4, <4>1, OutcomeIs
      <4>3. Twitter!AskedArrives'
        <5>1. CASE output'.items = {}
          BY <5>1 DEF Twitter!AskedArrives
        <5>2. CASE output' = Twitter!Ok /\ Arrived(Twitter!Ok.fields, Twitter!Ok.includes)
          <6> DEFINE fs == Twitter!Ok.fields
                     is == Twitter!Ok.includes
          <6>1. output'.fields = fs /\ output'.includes = is
            BY <5>2
          <6> HIDE DEF fs, is
          <6>2. Arrived(fs, is)
            BY <5>2 DEF fs, is
          <6>3. QED
            BY <3>1, <6>1, <6>2, NamesStay DEF Twitter!AskedArrives, Twitter!given, Arrived, NoPlace
        <5>3. QED
          BY <4>2, <5>1, <5>2
      <4>4. Twitter!LostToExpansion'
        <5>1. CASE output'.kind # "parse"
          BY <5>1 DEF Twitter!LostToExpansion
        <5>2. CASE Unmodelled
          BY <3>1, <5>2, NamesStay DEF Twitter!LostToExpansion, Twitter!given, Twitter!Gives, Unmodelled
        <5>3. QED
          BY <4>2, <5>1, <5>2
      <4>5. QED
        BY <2>2, <3>1, <4>3, <4>4, QueryStays DEF DropInv
    <3>5. QED
      BY <3>2, <3>3, <3>4
  <2>7. CASE Twitter!NextPage
    <3>1. stage' = "called"
      BY <2>7 DEF Twitter!NextPage
    <3>2. PICK o \in {"next_token", "pagination_token"} :
            input' = [input EXCEPT !.given =
              [p \in DOMAIN input.given \cup {o} |->
                 IF p = o THEN [skips |-> output.next, length |-> 16] ELSE input.given[p]]]
      BY <2>7 DEF Twitter!NextPage, Twitter!given
    <3> DEFINE g == [p \in DOMAIN input.given \cup {o} |->
                       IF p = o THEN [skips |-> output.next, length |-> 16] ELSE input.given[p]]
    <3>3. input'.tool = input.tool /\ input'.given = g
      BY <2>2, <3>2 DEF OptionsFit
    <3>4. \A p \in DOMAIN g \cap Twitter!Lists : p \in DOMAIN input.given /\ g[p] = input.given[p]
      BY DEF Twitter!Lists
    <3> HIDE DEF g
    <3>5. ListsFit'
      BY <2>2, <3>3, <3>4, NamesStay DEF ListsFit
    <3>6. Twitter!AskedArrives' /\ Twitter!LostToExpansion'
      BY <3>1 DEF Twitter!AskedArrives, Twitter!LostToExpansion
    <3>7. QED
      BY <3>1, <3>5, <3>6 DEF DropInv
  <2>8. QED
    BY <2>1, <2>3, <2>4, <2>5, <2>6, <2>7 DEF Twitter!Next
<1>3. QED
  BY <1>1, <1>2

\* Every option given to a read of Twitter is in the request once, what it asks for arrives
\* where a struct has a place for it, and a page is lost to its expansions only for want of
\* the known fields (the sixteen query builders, and models.rs).
THEOREM NothingDropped == Spec => []NothingIsDropped
<1>1. Init => DropInv
  <2> SUFFICES ASSUME Init, server = "twitter"
               PROVE  DropInv
    BY DEF DropInv
  <2>1. stage = "called" /\ input \in Inputs
    BY DEF Init, Twitter!Init
  <2>2. ListsFit
    BY <2>1, TwitterAssumption DEF ListsFit, TwitterAssumption
  <2>3. QED
    BY <2>1, <2>2, NothingYet DEF DropInv
<1>2. FollowInv /\ DropInv => NothingIsDropped
  <2> SUFFICES ASSUME FollowInv, DropInv, server = "twitter"
               PROVE  Twitter!AsksAllThatIsGiven
    BY DEF NothingIsDropped, DropInv
  <2>1. CASE stage = "sent"
    BY <2>1, AllIsAsked DEF FollowInv, DropInv
  <2>2. CASE stage # "sent"
    BY <2>2 DEF Twitter!AsksAllThatIsGiven
  <2>3. QED
    BY <2>1, <2>2
<1>3. QED
  BY <1>1, <1>2, FollowInit, FollowStep, DropStep, PTL DEF Spec

-----------------------------------------------------------------------------
(* templating-jinja: what expression_bound lets through fits.              *)

\* A function over 0 .. N whose steps stay in V has its values there.
LEMMA StaysIn ==
  ASSUME NEW N \in Nat, NEW V, NEW f, f = [k \in 0 .. N |-> f[k]], f[0] \in V,
         \A k \in 1 .. N : f[k - 1] \in V => f[k] \in V
  PROVE  f \in [0 .. N -> V]
<1> DEFINE S == {n \in Nat : n <= N => f[n] \in V}
<1>1. 0 \in S
  OBVIOUS
<1>2. ASSUME NEW n \in Nat, n \in S
      PROVE  n + 1 \in S
  <2>1. CASE n + 1 <= N
    <3>1. n + 1 \in 1 .. N /\ (n + 1) - 1 = n /\ f[n] \in V
      BY <1>2, <2>1
    <3>2. QED
      BY <3>1
  <2>2. QED
    BY <2>1
<1>3. Nat \subseteq S
  <2> HIDE DEF S
  <2>1. QED
    BY <1>1, <1>2, Induction
<1>4. \A k \in 0 .. N : f[k] \in V
  BY <1>3
<1>5. QED
  BY <1>4

Top == MAX_DEPTH + 1

\* The levels that are looked at.
LEMMA TopType == Top \in Nat \ {0} /\ Jinja!Levels = 0 .. Top
BY JinjaAssumption DEF JinjaAssumption, Top, Jinja!Levels

\* The shape of expressions, and of their children.
LEMMA Shapes ==
  ASSUME NEW e \in Expressions
  PROVE  /\ e.is \in {"var", "str", "int", "binop", "filter", "other"}
         /\ e.is = "str" => e.size \in Nat
         /\ e.is = "int" => e.n \in Nat
         /\ e.is = "binop" => /\ e.left \in Expressions /\ e.right \in Expressions
                              /\ Jinja!Children(e) = {e.left, e.right}
         /\ e.is = "filter" =>
              /\ e.expr \in Expressions /\ e.args \in Seq(Expressions)
              /\ \A k \in DOMAIN e.args : e.args[k] \in Expressions
              /\ Jinja!Children(e) = {e.expr} \cup {e.args[k] : k \in DOMAIN e.args}
         /\ e.is \notin {"binop", "filter"} => Jinja!Children(e) = {}
         /\ Jinja!Children(e) \subseteq Expressions
<1>1. /\ e.is \in {"var", "str", "int", "binop", "filter", "other"}
      /\ e.is = "str" => e.size \in Nat
      /\ e.is = "int" => e.n \in Nat
      /\ e.is = "binop" => e.left \in Expressions /\ e.right \in Expressions
      /\ e.is = "filter" => e.expr \in Expressions /\ e.args \in Seq(Expressions)
  BY JinjaAssumption DEF JinjaAssumption
<1>2. e.is = "filter" => \A k \in DOMAIN e.args : e.args[k] \in Expressions
  BY <1>1, ElementOfSeq
<1>3. /\ e.is = "binop" => Jinja!Children(e) = {e.left, e.right}
      /\ e.is = "filter" => Jinja!Children(e) = {e.expr} \cup {e.args[k] : k \in DOMAIN e.args}
      /\ e.is \notin {"binop", "filter"} => Jinja!Children(e) = {}
  BY DEF Jinja!Children
<1>4. Jinja!Children(e) \subseteq Expressions
  BY <1>1, <1>2, <1>3
<1>5. QED
  BY <1>1, <1>2, <1>3, <1>4

\* The parts of an expression, by the levels that are looked at.
LEMMA PartsByLevel ==
  /\ Jinja!parts \in [0 .. Top -> [Expressions -> SUBSET Expressions]]
  /\ \A n \in 1 .. Top : \A e \in Expressions :
       Jinja!parts[n][e] = {e} \cup UNION {Jinja!parts[n - 1][x] : x \in Jinja!Children(e)}
<1> DEFINE N == Top
           V == [Expressions -> SUBSET Expressions]
           base == [e \in Expressions |-> {e}]
           more == [v \in V |-> [e \in Expressions |-> {e} \cup UNION {v[x] : x \in Jinja!Children(e)}]]
           G == [k \in 1 .. N |-> more]
           Body(f) == [n \in 0 .. N |->
                         [e \in Expressions |->
                            {e} \cup (IF n = 0 THEN {}
                                      ELSE UNION {f[n - 1][x] : x \in Jinja!Children(e)})]]
<1>1. N \in Nat /\ base \in V
  BY TopType
<1>2. ASSUME NEW v \in V
      PROVE  /\ more[v] \in V
             /\ \A e \in Expressions :
                  more[v][e] = {e} \cup UNION {v[x] : x \in Jinja!Children(e)}
  <2>1. \A e \in Expressions : {e} \cup UNION {v[x] : x \in Jinja!Children(e)} \in SUBSET Expressions
    BY Shapes
  <2>2. QED
    BY <2>1
<1>3. G \in [1 .. N -> [V -> V]]
  <2>1. more \in [V -> V]
    BY <1>2
  <2> HIDE DEF more, V
  <2>2. QED
    BY <2>1
<1>4. PICK f \in [0 .. N -> V] : Recurs(f, N, base, G)
  <2> HIDE DEF V, base, G, N
  <2>1. QED
    BY <1>1, <1>3, Recursion
<1>5. f[0] = base /\ \A k \in 1 .. N : f[k] = more[f[k - 1]] /\ f[k - 1] \in V
  <2>1. \A k \in 1 .. N : k - 1 \in 0 .. N
    BY <1>1
  <2>2. \A k \in 1 .. N : G[k] = more
    OBVIOUS
  <2> HIDE DEF V, more, G, base, N
  <2>3. QED
    BY <1>4, <2>1, <2>2 DEF Recurs
<1>6. \A n \in 0 .. N : f[n] = Body(f)[n]
  <2> TAKE n \in 0 .. N
  <2>1. CASE n = 0
    BY <1>5, <2>1
  <2>2. CASE n # 0
    <3>1. n \in 1 .. N /\ f[n - 1] \in V
      BY <1>1, <1>5, <2>2
    <3>2. f[n] = more[f[n - 1]]
      BY <1>5, <3>1
    <3>3. more[f[n - 1]] = [e \in Expressions |-> {e} \cup UNION {f[n - 1][x] : x \in Jinja!Children(e)}]
      BY <3>1
    <3>4. QED
      BY <2>2, <3>2, <3>3
  <2>3. QED
    BY <2>1, <2>2
<1>7. f = Body(f)
  <2>1. f = [n \in 0 .. N |-> f[n]]
    BY <1>4
  <2>2. QED
    BY <1>6, <2>1
<1>8. Jinja!parts = CHOOSE g : g = Body(g)
  BY TopType DEF Jinja!parts
<1>9. Jinja!parts = Body(Jinja!parts)
  <2> HIDE DEF Body
  <2>1. QED
    BY <1>7, <1>8
<1>10. /\ Jinja!parts = [n \in 0 .. N |-> Jinja!parts[n]]
       /\ Jinja!parts[0] = base
       /\ \A n \in 1 .. N :
            Jinja!parts[n] = [e \in Expressions |->
                                {e} \cup UNION {Jinja!parts[n - 1][x] : x \in Jinja!Children(e)}]
  <2> DEFINE p == Jinja!parts
  <2>1. p = Body(p)
    BY <1>9
  <2> HIDE DEF p
  <2>2. p = [n \in 0 .. N |-> p[n]] /\ p[0] = base
    BY <1>1, <2>1
  <2>3. ASSUME NEW n \in 1 .. N
        PROVE  p[n] = [e \in Expressions |-> {e} \cup UNION {p[n - 1][x] : x \in Jinja!Children(e)}]
    <3>1. n \in 0 .. N /\ n # 0
      BY <1>1
    <3>2. QED
      BY <2>1, <3>1
  <2>4. QED
    BY <2>2, <2>3 DEF p
<1>11. \A n \in 1 .. N : Jinja!parts[n - 1] \in V => Jinja!parts[n] \in V
  <2> TAKE n \in 1 .. N
  <2> HAVE Jinja!parts[n - 1] \in V
  <2>1. \A e \in Expressions :
          {e} \cup UNION {Jinja!parts[n - 1][x] : x \in Jinja!Children(e)} \in SUBSET Expressions
    BY Shapes
  <2>2. [e \in Expressions |-> {e} \cup UNION {Jinja!parts[n - 1][x] : x \in Jinja!Children(e)}] \in V
    BY <2>1
  <2>3. QED
    BY <1>10, <2>2
<1>12. Jinja!parts \in [0 .. N -> V]
  <2> HIDE DEF V, base
  <2>1. Jinja!parts[0] \in V
    BY <1>1, <1>10
  <2>2. QED
    BY <1>1, <1>10, <1>11, <2>1, StaysIn
<1>13. \A n \in 1 .. N : \A e \in Expressions :
         Jinja!parts[n][e] = {e} \cup UNION {Jinja!parts[n - 1][x] : x \in Jinja!Children(e)}
  <2> TAKE n \in 1 .. N
  <2>1. Jinja!parts[n] = [e \in Expressions |->
                            {e} \cup UNION {Jinja!parts[n - 1][x] : x \in Jinja!Children(e)}]
    BY <1>10
  <2>2. QED
    BY <2>1
<1>14. QED
  BY <1>12, <1>13

\* The sizes of the arguments of a render.
ArgsFit(args) == \A x \in DOMAIN args : args[x] \in Nat

\* The values that parts give to the arguments of a filter.
LEMMA ArgsOf ==
  ASSUME NEW e \in Expressions, e.is = "filter", NEW T, NEW v \in [Expressions -> T]
  PROVE  LET a == [k \in DOMAIN e.args |-> v[e.args[k]]] IN
         /\ a \in Seq(T) /\ Len(a) = Len(e.args) /\ Len(a) \in Nat
         /\ a = <<>> <=> Len(a) = 0
         /\ \A k \in 1 .. Len(e.args) : a[k] = v[e.args[k]] /\ e.args[k] \in Expressions
         /\ DOMAIN e.args = 1 .. Len(e.args)
<1> DEFINE a == [k \in DOMAIN e.args |-> v[e.args[k]]]
<1>1. e.args \in Seq(Expressions) /\ \A k \in DOMAIN e.args : e.args[k] \in Expressions
  BY Shapes
<1>2. DOMAIN e.args = 1 .. Len(e.args) /\ Len(e.args) \in Nat
  BY <1>1, LenProperties
<1>3. a \in Seq(T) /\ Len(a) = Len(e.args)
  <2>1. a \in [1 .. Len(e.args) -> T]
    BY <1>1, <1>2
  <2>2. QED
    BY <1>2, <2>1
<1>4. a = <<>> <=> Len(a) = 0
  BY <1>3, EmptySeq
<1>5. QED
  BY <1>1, <1>2, <1>3, <1>4

\* Every size is a number.
LEMMA FilterSizesAreNat ==
  ASSUME NEW name, NEW in \in SUBSET Nat, NEW a \in Seq(SUBSET Nat)
  PROVE  Jinja!FilterSizes(name, in, a) \in SUBSET Nat
<1>1. \A S \in SUBSET Nat : UNION {0 .. n : n \in S} \in SUBSET Nat
  OBVIOUS
<1>2. {3 * n : n \in in} \in SUBSET Nat /\ {6 * n + 2 : n \in in} \in SUBSET Nat
  OBVIOUS
<1>3. a # <<>> => a[1] \in SUBSET Nat
  OBVIOUS
<1>4. ASSUME Len(a) > 1 PROVE {n + (n + 1) * r : n \in in, r \in a[2]} \in SUBSET Nat
  <2>1. a[2] \in SUBSET Nat
    BY <1>4
  <2>2. \A n, r \in Nat : n + (n + 1) * r \in Nat
    OBVIOUS
  <2>3. QED
    BY <2>1, <2>2
<1>5. 1 .. 20 \in SUBSET Nat
  OBVIOUS
<1>6. in \cup (IF a = <<>> THEN {0} ELSE a[1]) \in SUBSET Nat
  <2>1. \A S, T \in SUBSET Nat : S \cup T \in SUBSET Nat
    OBVIOUS
  <2>2. (IF a = <<>> THEN {0} ELSE a[1]) \in SUBSET Nat
    BY <1>3
  <2>3. QED
    BY <2>1, <2>2
<1>7. QED
  BY <1>1, <1>2, <1>4, <1>5, <1>6 DEF Jinja!FilterSizes

\* The same of operators.
LEMMA SizesAreNat ==
  ASSUME NEW args, ArgsFit(args)
  PROVE  \A v \in [Expressions -> SUBSET Nat] : \A e \in Expressions :
           Jinja!SizesOf(e, args, v) \in SUBSET Nat
<1> SUFFICES ASSUME NEW v \in [Expressions -> SUBSET Nat], NEW e \in Expressions
             PROVE  Jinja!SizesOf(e, args, v) \in SUBSET Nat
  OBVIOUS
<1>1. CASE e.is = "var"
  BY <1>1 DEF Jinja!SizesOf, ArgsFit
<1>2. CASE e.is = "str"
  BY <1>2, Shapes DEF Jinja!SizesOf
<1>3. CASE e.is = "int"
  BY <1>3 DEF Jinja!SizesOf
<1>4. CASE e.is = "binop"
  <2> DEFINE l == v[e.left]
             r == v[e.right]
  <2>1. l \in SUBSET Nat /\ r \in SUBSET Nat
    BY <1>4, Shapes
  <2>2. \A n, k \in Nat : n * k \in Nat /\ n + k \in Nat
    OBVIOUS
  <2>3. e.left.is = "int" => e.left.n \in Nat
    BY <1>4, Shapes
  <2>4. e.right.is = "int" => e.right.n \in Nat
    BY <1>4, Shapes
  <2> HIDE DEF l, r
  <2>5. Jinja!BinopSizes(e, l, r) \in SUBSET Nat
    BY <2>1, <2>2, <2>3, <2>4 DEF Jinja!BinopSizes
  <2>6. QED
    BY <1>4, <2>5 DEF Jinja!SizesOf, l, r
<1>5. CASE e.is = "filter"
  <2> DEFINE a == [k \in DOMAIN e.args |-> v[e.args[k]]]
  <2>1. a \in Seq(SUBSET Nat)
    BY <1>5, ArgsOf
  <2>2. v[e.expr] \in SUBSET Nat
    BY <1>5, Shapes
  <2> HIDE DEF a
  <2>3. Jinja!FilterSizes(e.name, v[e.expr], a) \in SUBSET Nat
    BY <2>1, <2>2, FilterSizesAreNat
  <2>4. QED
    BY <1>5, <2>3 DEF Jinja!SizesOf, a
<1>6. CASE e.is = "other"
  BY <1>6 DEF Jinja!SizesOf
<1>7. QED
  BY <1>1, <1>2, <1>3, <1>4, <1>5, <1>6, Shapes

\* Every bound is a set of numbers.
LEMMA FilterBoundsAreInt ==
  ASSUME NEW name, NEW in \in SUBSET Int, NEW a \in Seq(SUBSET Int)
  PROVE  Jinja!filter_bound(name, in, a) \in SUBSET Int
<1>1. {n * 3 : n \in in} \in SUBSET Int /\ {n * 6 + 2 : n \in in} \in SUBSET Int
  OBVIOUS
<1>2. {20 : n \in in} \in SUBSET Int
  OBVIOUS
<1>3. \A S \in SUBSET Int : {IF x > y THEN x ELSE y : x \in in, y \in S} \in SUBSET Int
  OBVIOUS
<1>4. \A S \in SUBSET Int : {(n + 1) * (r + 1) : n \in in, r \in S} \in SUBSET Int
  <2>1. \A n, r \in Int : (n + 1) * (r + 1) \in Int
    OBVIOUS
  <2>2. QED
    BY <2>1
<1>5. (IF a = <<>> \/ a[1] = Jinja!None THEN Jinja!Some(0) ELSE a[1]) \in SUBSET Int
  BY DEF Jinja!Some
<1>6. Len(a) \in 2 .. 3 => a[2] \in SUBSET Int
  OBVIOUS
<1>7. Jinja!Err \in SUBSET Int
  BY DEF Jinja!Err
<1>8. QED
  BY <1>1, <1>2, <1>3, <1>4, <1>5, <1>6, <1>7 DEF Jinja!filter_bound

\* The same of operators.
LEMMA BoundsAreInt ==
  ASSUME NEW args, ArgsFit(args)
  PROVE  \A v \in [Expressions -> SUBSET Int] : \A e \in Expressions :
           Jinja!bound_of(e, args, v) \in SUBSET Int
<1> SUFFICES ASSUME NEW v \in [Expressions -> SUBSET Int], NEW e \in Expressions
             PROVE  Jinja!bound_of(e, args, v) \in SUBSET Int
  OBVIOUS
<1> DEFINE a == [k \in DOMAIN e.args |-> v[e.args[k]]]
           binop == Jinja!binop_bound(e.op, e.left, e.right, v[e.left], v[e.right])
           filter == Jinja!filter_bound(e.name, v[e.expr], a)
<1>1. e.is = "binop" => binop \in SUBSET Int
  <2> SUFFICES ASSUME e.is = "binop" PROVE binop \in SUBSET Int
    OBVIOUS
  <2> DEFINE l == v[e.left]
             r == v[e.right]
  <2>1. l \in SUBSET Int /\ r \in SUBSET Int
    BY Shapes
  <2>2. \A n, k \in Int : n * k \in Int /\ n + k \in Int
    OBVIOUS
  <2>3. e.left.is = "int" => e.left.n \in Int
    BY Shapes
  <2>4. e.right.is = "int" => e.right.n \in Int
    BY Shapes
  <2> HIDE DEF l, r
  <2>5. Jinja!binop_bound(e.op, e.left, e.right, l, r) \in SUBSET Int
    BY <2>1, <2>2, <2>3, <2>4 DEF Jinja!binop_bound, Jinja!Err
  <2>6. QED
    BY <2>5 DEF l, r
<1>2. e.is = "filter" => filter \in SUBSET Int
  <2> SUFFICES ASSUME e.is = "filter" PROVE filter \in SUBSET Int
    OBVIOUS
  <2>1. a \in Seq(SUBSET Int)
    BY ArgsOf
  <2>2. v[e.expr] \in SUBSET Int
    BY Shapes
  <2> HIDE DEF a
  <2>3. QED
    BY <2>1, <2>2, FilterBoundsAreInt
<1>3. /\ e.is = "var" => (IF e.id \in DOMAIN args THEN {args[e.id]} ELSE {}) \in SUBSET Int
      /\ e.is = "str" => {e.size} \in SUBSET Int
      /\ {1} \in SUBSET Int /\ Jinja!Err \in SUBSET Int
  BY Shapes DEF ArgsFit, Jinja!Err
<1>4. \A b \in SUBSET Int : Jinja!within_limit(b) \in SUBSET Int
  BY <1>3 DEF Jinja!within_limit
<1> HIDE DEF binop, filter
<1> DEFINE b == CASE e.is = "var" -> IF e.id \in DOMAIN args THEN Jinja!Some(args[e.id]) ELSE Jinja!None
                  [] e.is = "str" -> Jinja!Some(e.size)
                  [] e.is = "int" -> Jinja!Some(1)
                  [] e.is = "binop" -> binop
                  [] e.is = "filter" -> filter
                  [] OTHER -> Jinja!Err
<1>5. b \in SUBSET Int
  BY <1>1, <1>2, <1>3 DEF Jinja!Some, Jinja!None
<1>6. Jinja!bound_of(e, args, v) =
        IF b = Jinja!Err \/ \E x \in Jinja!Children(e) : v[x] = Jinja!Err
        THEN Jinja!Err ELSE Jinja!within_limit(b)
  BY DEF Jinja!bound_of, binop, filter
<1> HIDE DEF b
<1>7. QED
  BY <1>3, <1>4, <1>5, <1>6

\* The sizes of an expression, by the levels that are looked at.
LEMMA SizesByLevel ==
  ASSUME NEW args, ArgsFit(args)
  PROVE  /\ Jinja!SizesIn(args)[0] = [e \in Expressions |-> {}]
         /\ \A n \in 1 .. Top : \A e \in Expressions :
              Jinja!SizesIn(args)[n][e] = Jinja!SizesOf(e, args, Jinja!SizesIn(args)[n - 1])
         /\ Jinja!SizesIn(args) \in [0 .. Top -> [Expressions -> SUBSET Nat]]
<1> DEFINE N == Top
           V == [Expressions -> SUBSET Nat]
           base == [e \in Expressions |-> {}]
           more == [v \in V |-> [e \in Expressions |-> Jinja!SizesOf(e, args, v)]]
           G == [k \in 1 .. N |-> more]
           Body(f) == [n \in 0 .. N |->
                         [e \in Expressions |->
                            IF n = 0 THEN {} ELSE Jinja!SizesOf(e, args, f[n - 1])]]
<1>1. N \in Nat /\ base \in V
  BY TopType
<1>2. \A v \in V : \A e \in Expressions : Jinja!SizesOf(e, args, v) \in SUBSET Nat
  BY SizesAreNat
<1>3. G \in [1 .. N -> [V -> V]]
  <2>1. more \in [V -> V]
    BY <1>2
  <2> HIDE DEF more, V
  <2>2. QED
    BY <2>1
<1>4. PICK f \in [0 .. N -> V] : Recurs(f, N, base, G)
  <2> HIDE DEF V, base, G, N
  <2>1. QED
    BY <1>1, <1>3, Recursion
<1>5. f[0] = base /\ \A k \in 1 .. N : f[k] = more[f[k - 1]] /\ f[k - 1] \in V
  <2>1. \A k \in 1 .. N : k - 1 \in 0 .. N
    BY <1>1
  <2>2. \A k \in 1 .. N : G[k] = more
    OBVIOUS
  <2> HIDE DEF V, more, G, base, N
  <2>3. QED
    BY <1>4, <2>1, <2>2 DEF Recurs
<1>6. \A n \in 0 .. N : f[n] = Body(f)[n]
  <2> TAKE n \in 0 .. N
  <2>1. CASE n = 0
    BY <1>5, <2>1
  <2>2. CASE n # 0
    <3>1. n \in 1 .. N /\ f[n - 1] \in V
      BY <1>1, <1>5, <2>2
    <3>2. f[n] = more[f[n - 1]]
      BY <1>5, <3>1
    <3>3. more[f[n - 1]] = [e \in Expressions |-> Jinja!SizesOf(e, args, f[n - 1])]
      BY <3>1
    <3>4. QED
      BY <2>2, <3>2, <3>3
  <2>3. QED
    BY <2>1, <2>2
<1>7. f = Body(f)
  <2>1. f = [n \in 0 .. N |-> f[n]]
    BY <1>4
  <2>2. QED
    BY <1>6, <2>1
<1> DEFINE s == Jinja!SizesIn(args)
<1>8. s = CHOOSE g : g = Body(g)
  BY TopType DEF Jinja!SizesIn
<1>9. s = Body(s)
  <2> HIDE DEF Body
  <2>1. QED
    BY <1>7, <1>8
<1> HIDE DEF s
<1>10. s = [n \in 0 .. N |-> s[n]] /\ s[0] = base
  BY <1>1, <1>9
<1>11. ASSUME NEW n \in 1 .. N
       PROVE  s[n] = [e \in Expressions |-> Jinja!SizesOf(e, args, s[n - 1])]
  <2>1. n \in 0 .. N /\ n # 0
    BY <1>1
  <2>2. QED
    BY <1>9, <2>1
<1>12. \A n \in 1 .. N : \A e \in Expressions : s[n][e] = Jinja!SizesOf(e, args, s[n - 1])
  <2> TAKE n \in 1 .. N
  <2>1. QED
    BY <1>11
<1>13. s \in [0 .. N -> V]
  <2>1. \A n \in 1 .. N : s[n - 1] \in V => s[n] \in V
    <3> TAKE n \in 1 .. N
    <3> HAVE s[n - 1] \in V
    <3>1. [e \in Expressions |-> Jinja!SizesOf(e, args, s[n - 1])] \in V
      BY <1>2
    <3>2. QED
      BY <1>11, <3>1
  <2> HIDE DEF V, base
  <2>2. s[0] \in V
    BY <1>1, <1>10
  <2>3. QED
    BY <1>1, <1>10, <2>1, <2>2, StaysIn
<1>14. QED
  BY <1>10, <1>12, <1>13 DEF s

\* Its bounds, in the same way.
LEMMA BoundsByLevel ==
  ASSUME NEW args, ArgsFit(args)
  PROVE  /\ Jinja!BoundsIn(args)[0] = [e \in Expressions |-> Jinja!Err]
         /\ \A n \in 1 .. Top : \A e \in Expressions :
              Jinja!BoundsIn(args)[n][e] = Jinja!bound_of(e, args, Jinja!BoundsIn(args)[n - 1])
<1> DEFINE N == Top
           V == [Expressions -> SUBSET Int]
           base == [e \in Expressions |-> Jinja!Err]
           more == [v \in V |-> [e \in Expressions |-> Jinja!bound_of(e, args, v)]]
           G == [k \in 1 .. N |-> more]
           Body(f) == [n \in 0 .. N |->
                         [e \in Expressions |->
                            IF n = 0 THEN Jinja!Err ELSE Jinja!bound_of(e, args, f[n - 1])]]
<1>1. N \in Nat /\ base \in V
  BY TopType DEF Jinja!Err
<1>2. \A v \in V : \A e \in Expressions : Jinja!bound_of(e, args, v) \in SUBSET Int
  BY BoundsAreInt
<1>3. G \in [1 .. N -> [V -> V]]
  <2>1. more \in [V -> V]
    BY <1>2
  <2> HIDE DEF more, V
  <2>2. QED
    BY <2>1
<1>4. PICK f \in [0 .. N -> V] : Recurs(f, N, base, G)
  <2> HIDE DEF V, base, G, N
  <2>1. QED
    BY <1>1, <1>3, Recursion
<1>5. f[0] = base /\ \A k \in 1 .. N : f[k] = more[f[k - 1]] /\ f[k - 1] \in V
  <2>1. \A k \in 1 .. N : k - 1 \in 0 .. N
    BY <1>1
  <2>2. \A k \in 1 .. N : G[k] = more
    OBVIOUS
  <2> HIDE DEF V, more, G, base, N
  <2>3. QED
    BY <1>4, <2>1, <2>2 DEF Recurs
<1>6. \A n \in 0 .. N : f[n] = Body(f)[n]
  <2> TAKE n \in 0 .. N
  <2>1. CASE n = 0
    BY <1>5, <2>1
  <2>2. CASE n # 0
    <3>1. n \in 1 .. N /\ f[n - 1] \in V
      BY <1>1, <1>5, <2>2
    <3>2. f[n] = more[f[n - 1]]
      BY <1>5, <3>1
    <3>3. more[f[n - 1]] = [e \in Expressions |-> Jinja!bound_of(e, args, f[n - 1])]
      BY <3>1
    <3>4. QED
      BY <2>2, <3>2, <3>3
  <2>3. QED
    BY <2>1, <2>2
<1>7. f = Body(f)
  <2>1. f = [n \in 0 .. N |-> f[n]]
    BY <1>4
  <2>2. QED
    BY <1>6, <2>1
<1> DEFINE s == Jinja!BoundsIn(args)
<1>8. s = CHOOSE g : g = Body(g)
  BY TopType DEF Jinja!BoundsIn
<1>9. s = Body(s)
  <2> HIDE DEF Body
  <2>1. QED
    BY <1>7, <1>8
<1> HIDE DEF s
<1>10. s = [n \in 0 .. N |-> s[n]] /\ s[0] = base
  BY <1>1, <1>9
<1>11. ASSUME NEW n \in 1 .. N
       PROVE  s[n] = [e \in Expressions |-> Jinja!bound_of(e, args, s[n - 1])]
  <2>1. n \in 0 .. N /\ n # 0
    BY <1>1
  <2>2. QED
    BY <1>9, <2>1
<1>12. \A n \in 1 .. N : \A e \in Expressions : s[n][e] = Jinja!bound_of(e, args, s[n - 1])
  <2> TAKE n \in 1 .. N
  <2>1. QED
    BY <1>11
<1>13. QED
  BY <1>10, <1>12 DEF s

\* The bound and the sizes of an expression are made of those of its children.
LEMMA OfChildren ==
  ASSUME NEW args, NEW e \in Expressions, NEW v, NEW w,
         \A x \in Jinja!Children(e) : v[x] = w[x]
  PROVE  /\ Jinja!bound_of(e, args, v) = Jinja!bound_of(e, args, w)
         /\ Jinja!SizesOf(e, args, v) = Jinja!SizesOf(e, args, w)
<1>1. e.is = "binop" => v[e.left] = w[e.left] /\ v[e.right] = w[e.right]
  BY Shapes
<1>2. e.is = "filter" => /\ v[e.expr] = w[e.expr]
                         /\ [k \in DOMAIN e.args |-> v[e.args[k]]] = [k \in DOMAIN e.args |-> w[e.args[k]]]
  BY Shapes
<1>3. (\E x \in Jinja!Children(e) : v[x] = Jinja!Err) <=> (\E x \in Jinja!Children(e) : w[x] = Jinja!Err)
  OBVIOUS
<1>4. Jinja!SizesOf(e, args, v) = Jinja!SizesOf(e, args, w)
  BY <1>1, <1>2 DEF Jinja!SizesOf
<1>5. Jinja!bound_of(e, args, v) = Jinja!bound_of(e, args, w)
  BY <1>1, <1>2, <1>3 DEF Jinja!bound_of
<1>6. QED
  BY <1>4, <1>5

\* An expression with a bound has no more levels than are looked at: one level more
\* changes nothing of it.
LEMMA Settles ==
  ASSUME NEW args, ArgsFit(args), NEW n \in 0 .. Top, NEW e \in Expressions,
         Jinja!BoundsIn(args)[n][e] # Jinja!Err
  PROVE  /\ n # 0
         /\ \A m \in n .. Top :
              /\ Jinja!BoundsIn(args)[m][e] = Jinja!BoundsIn(args)[n][e]
              /\ Jinja!SizesIn(args)[m][e] = Jinja!SizesIn(args)[n][e]
              /\ Jinja!parts[m][e] = Jinja!parts[n][e]
<1> DEFINE b == Jinja!BoundsIn(args)
           s == Jinja!SizesIn(args)
           p == Jinja!parts
           Settled(k) == \A x \in Expressions : b[k][x] # Jinja!Err =>
             /\ k # 0
             /\ \A m \in k .. Top : b[m][x] = b[k][x] /\ s[m][x] = s[k][x] /\ p[m][x] = p[k][x]
           S == {k \in Nat : k <= Top => Settled(k)}
<1>0. Top \in Nat
  BY TopType
<1>1. /\ b[0] = [x \in Expressions |-> Jinja!Err]
      /\ \A k \in 1 .. Top : \A x \in Expressions : b[k][x] = Jinja!bound_of(x, args, b[k - 1])
  BY BoundsByLevel
<1>2. \A k \in 1 .. Top : \A x \in Expressions : s[k][x] = Jinja!SizesOf(x, args, s[k - 1])
  BY SizesByLevel
<1>3. \A k \in 1 .. Top : \A x \in Expressions :
        p[k][x] = {x} \cup UNION {p[k - 1][y] : y \in Jinja!Children(x)}
  BY PartsByLevel
<1> HIDE DEF b, s, p
<1>4. 0 \in S
  BY <1>1
<1>5. ASSUME NEW k \in Nat, k \in S
      PROVE  k + 1 \in S
  <2> SUFFICES ASSUME k + 1 <= Top, NEW x \in Expressions, b[k + 1][x] # Jinja!Err,
                      NEW m \in k + 1 .. Top
               PROVE  b[m][x] = b[k + 1][x] /\ s[m][x] = s[k + 1][x] /\ p[m][x] = p[k + 1][x]
    OBVIOUS
  <2>1. k + 1 \in 1 .. Top /\ (k + 1) - 1 = k /\ m \in 1 .. Top /\ m - 1 \in k .. Top
    BY <1>0
  <2>2. Settled(k)
    BY <1>0, <1>5
  <2>3. b[k + 1][x] = Jinja!bound_of(x, args, b[k]) /\ b[m][x] = Jinja!bound_of(x, args, b[m - 1])
    BY <1>1, <2>1
  <2>4. \A y \in Jinja!Children(x) : y \in Expressions /\ b[k][y] # Jinja!Err
    BY <2>3, Shapes DEF Jinja!bound_of
  <2>5. \A y \in Jinja!Children(x) :
          b[m - 1][y] = b[k][y] /\ s[m - 1][y] = s[k][y] /\ p[m - 1][y] = p[k][y]
    BY <2>1, <2>2, <2>4
  <2>6. b[m][x] = b[k + 1][x]
    BY <2>3, <2>5, OfChildren
  <2>7. s[m][x] = s[k + 1][x]
    <3>1. s[k + 1][x] = Jinja!SizesOf(x, args, s[k]) /\ s[m][x] = Jinja!SizesOf(x, args, s[m - 1])
      BY <1>2, <2>1
    <3>2. QED
      BY <2>5, <3>1, OfChildren
  <2>8. p[m][x] = p[k + 1][x]
    <3>1. /\ p[k + 1][x] = {x} \cup UNION {p[k][y] : y \in Jinja!Children(x)}
          /\ p[m][x] = {x} \cup UNION {p[m - 1][y] : y \in Jinja!Children(x)}
      BY <1>3, <2>1
    <3>2. QED
      BY <2>5, <3>1
  <2>9. QED
    BY <2>6, <2>7, <2>8
<1>6. Nat \subseteq S
  <2> HIDE DEF S
  <2>1. QED
    BY <1>4, <1>5, Induction
<1>7. Settled(n)
  BY <1>6
<1>8. QED
  BY <1>7 DEF b, s, p

\* An expression with a bound, and its children: their bounds, sizes and parts.
LEMMA Unfold ==
  ASSUME NEW args, ArgsFit(args), NEW n \in 0 .. Top, NEW e \in Expressions,
         Jinja!BoundsIn(args)[n][e] # Jinja!Err
  PROVE  LET b == Jinja!BoundsIn(args)[Top]
             s == Jinja!SizesIn(args)[Top] IN
         /\ n # 0
         /\ b[e] = Jinja!bound_of(e, args, b)
         /\ b[e] # Jinja!Err
         /\ s[e] = Jinja!SizesOf(e, args, s)
         /\ Jinja!parts[Top][e] = {e} \cup UNION {Jinja!parts[Top][x] : x \in Jinja!Children(e)}
         /\ \A x \in Jinja!Children(e) :
              x \in Expressions /\ Jinja!BoundsIn(args)[n - 1][x] # Jinja!Err
<1> DEFINE b == Jinja!BoundsIn(args)
           s == Jinja!SizesIn(args)
           p == Jinja!parts
<1>0. Top \in Nat \ {0}
  BY TopType
<1>1. /\ n # 0 /\ Top \in n .. Top
      /\ b[Top][e] = b[n][e] /\ s[Top][e] = s[n][e] /\ p[Top][e] = p[n][e]
  BY <1>0, Settles
<1>2. n \in 1 .. Top /\ n - 1 \in 0 .. Top /\ Top \in n - 1 .. Top
  BY <1>0, <1>1
<1>3. b[n][e] = Jinja!bound_of(e, args, b[n - 1])
  BY <1>2, BoundsByLevel
<1>4. \A x \in Jinja!Children(e) : x \in Expressions /\ b[n - 1][x] # Jinja!Err
  <2>1. b[n][e] # Jinja!Err
    OBVIOUS
  <2> HIDE DEF b
  <2>2. QED
    BY <1>3, <2>1, Shapes DEF Jinja!bound_of
<1>5. \A x \in Jinja!Children(e) :
        b[Top][x] = b[n - 1][x] /\ s[Top][x] = s[n - 1][x] /\ p[Top][x] = p[n - 1][x]
  BY <1>2, <1>4, Settles
<1>6. b[Top][e] = Jinja!bound_of(e, args, b[Top])
  BY <1>1, <1>3, <1>5, OfChildren
<1>7. s[Top][e] = Jinja!SizesOf(e, args, s[Top])
  <2>1. s[n][e] = Jinja!SizesOf(e, args, s[n - 1])
    BY <1>2, SizesByLevel
  <2>2. QED
    BY <1>1, <1>5, <2>1, OfChildren
<1>8. p[Top][e] = {e} \cup UNION {p[Top][x] : x \in Jinja!Children(e)}
  <2>1. p[n][e] = {e} \cup UNION {p[n - 1][x] : x \in Jinja!Children(e)}
    BY <1>2, PartsByLevel
  <2>2. QED
    BY <1>1, <1>5, <2>1
<1>9. b[Top][e] # Jinja!Err
  BY <1>1
<1>10. QED
  BY <1>1, <1>4, <1>6, <1>7, <1>8, <1>9

\* The last level, which expression_bound is asked at.
BoundAt(args, e) == Jinja!BoundsIn(args)[Top][e]
SizesAt(args, e) == Jinja!SizesIn(args)[Top][e]
PartsAt(e) == Jinja!parts[Top][e]

MissingIn(args, e) == {q \in PartsAt(e) : q.is = "var" /\ q.id \notin DOMAIN args}
LooksIn(args, e) ==
  \A q \in PartsAt(e) : q.is = "filter" =>
    \A k \in DOMAIN q.args : q.args[k].is = "var" \/ MissingIn(args, q.args[k]) = {}

\* What a bound says of an expression and of its parts.
Covers(args, e) ==
  /\ \A k \in BoundAt(args, e) : \A t \in SizesAt(args, e) : t <= k
  /\ \A q \in PartsAt(e) : \A t \in SizesAt(args, q) : t <= MAX_OUTPUT_BYTES

Fits(args, e) ==
  /\ BoundAt(args, e) = {} \/ \E k \in 0 .. MAX_OUTPUT_BYTES : BoundAt(args, e) = {k}
  /\ e.is = "int" => BoundAt(args, e) = {1}
  /\ e.is = "var" =>
       /\ PartsAt(e) = {e}
       /\ e.id \in DOMAIN args => BoundAt(args, e) = SizesAt(args, e)
       /\ e.id \notin DOMAIN args => BoundAt(args, e) = {} /\ SizesAt(args, e) = {0}
  /\ MissingIn(args, e) = {} => BoundAt(args, e) # {}
  /\ LooksIn(args, e) /\ BoundAt(args, e) # {} => Covers(args, e)

\* expression e as Unfold gives it, and its children that fit.
Made(args, e) ==
  /\ ArgsFit(args) /\ e \in Expressions
  /\ BoundAt(args, e) = Jinja!bound_of(e, args, Jinja!BoundsIn(args)[Top])
  /\ BoundAt(args, e) # Jinja!Err
  /\ SizesAt(args, e) = Jinja!SizesOf(e, args, Jinja!SizesIn(args)[Top])
  /\ PartsAt(e) = {e} \cup UNION {PartsAt(x) : x \in Jinja!Children(e)}
  /\ \A x \in Jinja!Children(e) : BoundAt(args, x) # Jinja!Err /\ Fits(args, x)

\* What is said of the parts of an expression is said of those of its children.
LEMMA ChildrenToo ==
  ASSUME NEW args, NEW e, Made(args, e), NEW x \in Jinja!Children(e)
  PROVE  /\ MissingIn(args, e) = {} => MissingIn(args, x) = {}
         /\ LooksIn(args, e) => LooksIn(args, x)
         /\ LooksIn(args, e) /\ BoundAt(args, x) # {} => Covers(args, x)
<1>1. PartsAt(x) \subseteq PartsAt(e)
  BY DEF Made
<1>2. QED
  BY <1>1 DEF MissingIn, LooksIn, Made, Fits

\* Sizes are numbers at the last level.
LEMMA SizesAtType ==
  ASSUME NEW args, ArgsFit(args), NEW e \in Expressions
  PROVE  SizesAt(args, e) \in SUBSET Nat
<1>1. Top \in 0 .. Top /\ Jinja!SizesIn(args) \in [0 .. Top -> [Expressions -> SUBSET Nat]]
  BY TopType, SizesByLevel
<1>2. QED
  BY <1>1 DEF SizesAt

\* A bound that is none or one number, not over the limit.
LEMMA OneBound ==
  ASSUME NEW S, S = {} \/ \E k \in Nat : S = {k}, \A n \in S : ~(n > MAX_OUTPUT_BYTES)
  PROVE  S = {} \/ \E k \in 0 .. MAX_OUTPUT_BYTES : S = {k}
<1>1. MAX_OUTPUT_BYTES \in Nat
  BY JinjaAssumption DEF JinjaAssumption
<1>2. ASSUME NEW k \in Nat, S = {k}
      PROVE  k \in 0 .. MAX_OUTPUT_BYTES
  <2>1. ~(k > MAX_OUTPUT_BYTES)
    BY <1>2
  <2>2. QED
    BY <1>1, <2>1
<1>3. QED
  BY <1>2

\* What has no children.
LEMMA LeafFits ==
  ASSUME NEW args, NEW e, Made(args, e), e.is \in {"var", "str", "int", "other"}
  PROVE  Fits(args, e)
<1>1. PartsAt(e) = {e} /\ e \in Expressions /\ ArgsFit(args) /\ BoundAt(args, e) # Jinja!Err
  BY Shapes DEF Made
<1>2. MAX_OUTPUT_BYTES \in Nat
  BY JinjaAssumption DEF JinjaAssumption
<1> DEFINE raw == CASE e.is = "var" -> IF e.id \in DOMAIN args THEN {args[e.id]} ELSE {}
                    [] e.is = "str" -> {e.size}
                    [] e.is = "int" -> {1}
                    [] OTHER -> Jinja!Err
<1>3. BoundAt(args, e) = raw /\ \A n \in raw : ~(n > MAX_OUTPUT_BYTES)
  <2>1. BoundAt(args, e) = Jinja!bound_of(e, args, Jinja!BoundsIn(args)[Top])
    BY DEF Made
  <2>2. BoundAt(args, e) = IF raw = Jinja!Err \/ \E x \in Jinja!Children(e) : Jinja!BoundsIn(args)[Top][x] = Jinja!Err
                           THEN Jinja!Err ELSE Jinja!within_limit(raw)
    BY <2>1 DEF Jinja!bound_of, Jinja!Some, Jinja!None
  <2> HIDE DEF raw
  <2>3. QED
    BY <1>1, <2>2 DEF Jinja!within_limit
<1>4. raw = {} \/ \E k \in Nat : raw = {k}
  BY <1>1, <1>3, Shapes DEF ArgsFit
<1>5. raw = {} \/ \E k \in 0 .. MAX_OUTPUT_BYTES : raw = {k}
  <2> HIDE DEF raw
  <2>1. QED
    BY <1>3, <1>4, OneBound
<1>6. SizesAt(args, e) = CASE e.is = "var" -> IF e.id \in DOMAIN args THEN {args[e.id]} ELSE {0}
                           [] e.is = "str" -> {e.size}
                           [] e.is = "int" -> {1}
                           [] OTHER -> {}
  BY DEF Made, Jinja!SizesOf
<1>7. MissingIn(args, e) = {} => raw # {}
  BY <1>1, <1>3 DEF MissingIn
<1>8. raw # {} => SizesAt(args, e) = raw
  BY <1>1, <1>3, <1>6
<1>9. raw # {} => Covers(args, e)
  <2> SUFFICES ASSUME raw # {} PROVE Covers(args, e)
    OBVIOUS
  <2>1. PICK k \in 0 .. MAX_OUTPUT_BYTES : BoundAt(args, e) = {k} /\ SizesAt(args, e) = {k}
    BY <1>3, <1>5, <1>8
  <2>2. QED
    BY <1>1, <1>2, <2>1 DEF Covers
<1>10. QED
  BY <1>1, <1>3, <1>5, <1>6, <1>7, <1>9 DEF Fits

\* More times the same is more.
LEMMA TimesMore ==
  ASSUME NEW t \in Nat, NEW a \in Nat, NEW n \in Nat, t <= a
  PROVE  t * n <= a * n
<1>1. PICK d \in Nat : a = t + d
  <2>1. a - t \in Nat /\ a = t + (a - t)
    OBVIOUS
  <2>2. QED
    BY <2>1
<1>2. d * n \in Nat /\ t * n \in Nat
  OBVIOUS
<1>3. a * n = t * n + d * n
  BY <1>1
<1>4. QED
  BY <1>2, <1>3

\* An operation on what fits.
LEMMA BinopFits ==
  ASSUME NEW args, NEW e, Made(args, e), e.is = "binop"
  PROVE  Fits(args, e)
<1> DEFINE l == BoundAt(args, e.left)
           r == BoundAt(args, e.right)
           b == BoundAt(args, e)
           raw == Jinja!binop_bound(e.op, e.left, e.right, l, r)
<1>0. /\ e \in Expressions /\ e.left \in Expressions /\ e.right \in Expressions /\ ArgsFit(args)
      /\ e.left \in Jinja!Children(e) /\ e.right \in Jinja!Children(e)
      /\ Jinja!Children(e) = {e.left, e.right}
  BY Shapes DEF Made
<1>1. Fits(args, e.left) /\ Fits(args, e.right)
  BY <1>0 DEF Made
<1>2. /\ l = {} \/ \E k \in 0 .. MAX_OUTPUT_BYTES : l = {k}
      /\ r = {} \/ \E k \in 0 .. MAX_OUTPUT_BYTES : r = {k}
      /\ e.left.is = "int" => l = {1}
      /\ e.right.is = "int" => r = {1}
  BY <1>1 DEF Fits
<1>3. /\ e.left.is = "int" => e.left.n \in Nat
      /\ e.right.is = "int" => e.right.n \in Nat
  BY <1>0, Shapes
<1>4. b = raw /\ raw # Jinja!Err /\ \A n \in raw : ~(n > MAX_OUTPUT_BYTES)
  <2>1. b = Jinja!bound_of(e, args, Jinja!BoundsIn(args)[Top]) /\ b # Jinja!Err
    BY DEF Made
  <2>2. b = IF raw = Jinja!Err \/ \E x \in Jinja!Children(e) : Jinja!BoundsIn(args)[Top][x] = Jinja!Err
            THEN Jinja!Err ELSE Jinja!within_limit(raw)
    BY <2>1 DEF Jinja!bound_of, BoundAt
  <2> HIDE DEF raw, b
  <2>3. QED
    BY <2>1, <2>2 DEF Jinja!within_limit
<1>5. \/ e.op \in {"~", "+"} /\ raw = {x + y : x \in l, y \in r}
      \/ e.op = "*" /\ e.right.is = "int" /\ raw = {x * e.right.n : x \in l}
      \/ e.op = "*" /\ e.right.is # "int" /\ e.left.is = "int" /\ raw = {y * e.left.n : y \in r}
  <2> HIDE DEF l, r
  <2>1. QED
    BY <1>4 DEF Jinja!binop_bound
<1> DEFINE sl == SizesAt(args, e.left)
           sr == SizesAt(args, e.right)
<1>6. /\ e.op \in {"~", "+"} => SizesAt(args, e) = {x + y : x \in sl, y \in sr}
      /\ e.op = "*" /\ e.right.is = "int" => SizesAt(args, e) = {x * e.right.n : x \in sl}
      /\ e.op = "*" /\ e.right.is # "int" /\ e.left.is = "int" =>
           SizesAt(args, e) = {y * e.left.n : y \in sr}
  <2>1. SizesAt(args, e) = Jinja!BinopSizes(e, sl, sr)
    BY DEF Made, Jinja!SizesOf, SizesAt
  <2> HIDE DEF sl, sr
  <2>2. QED
    BY <2>1 DEF Jinja!BinopSizes
<1>7. sl \in SUBSET Nat /\ sr \in SUBSET Nat
  BY <1>0, SizesAtType
<1>8. MissingIn(args, e) = {} => l # {} /\ r # {}
  BY <1>0, <1>1, ChildrenToo DEF Fits
<1>9. LooksIn(args, e) =>
        /\ l # {} => Covers(args, e.left)
        /\ r # {} => Covers(args, e.right)
  BY <1>0, ChildrenToo
<1>10. PartsAt(e) = {e} \cup PartsAt(e.left) \cup PartsAt(e.right)
  <2>1. PartsAt(e) = {e} \cup UNION {PartsAt(x) : x \in Jinja!Children(e)}
    BY DEF Made
  <2>2. QED
    BY <1>0, <2>1
<1> HIDE DEF l, r, b, raw, sl, sr
<1>11. raw # {} => l # {} /\ r # {}
  BY <1>2, <1>5
<1>12. l # {} /\ r # {} => raw # {}
  BY <1>5
<1>13. raw = {} \/ \E k \in Nat : raw = {k}
  <2>1. CASE raw # {}
    <3>1. PICK x \in 0 .. MAX_OUTPUT_BYTES, y \in 0 .. MAX_OUTPUT_BYTES : l = {x} /\ r = {y}
      BY <1>2, <1>11, <2>1
    <3>2. x \in Nat /\ y \in Nat
      OBVIOUS
    <3>3. CASE e.op \in {"~", "+"} /\ raw = {v + w : v \in l, w \in r}
      BY <3>1, <3>2, <3>3
    <3>4. CASE e.op = "*" /\ e.right.is = "int" /\ raw = {v * e.right.n : v \in l}
      <4>1. raw = {x * e.right.n} /\ x * e.right.n \in Nat
        BY <1>3, <3>1, <3>2, <3>4
      <4>2. QED
        BY <4>1
    <3>5. CASE e.op = "*" /\ e.right.is # "int" /\ e.left.is = "int" /\ raw = {v * e.left.n : v \in r}
      <4>1. raw = {y * e.left.n} /\ y * e.left.n \in Nat
        BY <1>3, <3>1, <3>2, <3>5
      <4>2. QED
        BY <4>1
    <3>6. QED
      BY <1>5, <3>3, <3>4, <3>5
  <2>2. QED
    BY <2>1
<1>14. b = {} \/ \E k \in 0 .. MAX_OUTPUT_BYTES : b = {k}
  BY <1>4, <1>13, OneBound
<1>15. ASSUME LooksIn(args, e), b # {}
       PROVE  Covers(args, e)
  <2>1. PICK x \in 0 .. MAX_OUTPUT_BYTES, y \in 0 .. MAX_OUTPUT_BYTES : l = {x} /\ r = {y}
    BY <1>2, <1>4, <1>11, <1>15
  <2>2. /\ \A t \in sl : t \in Nat /\ t <= x
        /\ \A t \in sr : t \in Nat /\ t <= y
        /\ \A q \in PartsAt(e.left) \cup PartsAt(e.right) : \A t \in SizesAt(args, q) : t <= MAX_OUTPUT_BYTES
    BY <1>7, <1>9, <1>15, <2>1 DEF Covers, l, r, sl, sr
  <2>3. x \in Nat /\ y \in Nat
    OBVIOUS
  <2>4. \A k \in raw : \A t \in SizesAt(args, e) : t <= k
    <3>1. CASE e.op \in {"~", "+"} /\ raw = {v + w : v \in l, w \in r}
      <4>1. raw = {x + y}
        BY <2>1, <3>1
      <4>2. \A v \in sl, w \in sr : v + w <= x + y
        BY <2>2, <2>3
      <4>3. QED
        BY <1>6, <3>1, <4>1, <4>2
    <3>2. CASE e.op = "*" /\ e.right.is = "int" /\ raw = {v * e.right.n : v \in l}
      <4>1. raw = {x * e.right.n}
        BY <2>1, <3>2
      <4>2. \A v \in sl : v * e.right.n <= x * e.right.n
        BY <1>3, <2>2, <2>3, <3>2, TimesMore
      <4>3. QED
        BY <1>6, <3>2, <4>1, <4>2
    <3>3. CASE e.op = "*" /\ e.right.is # "int" /\ e.left.is = "int" /\ raw = {v * e.left.n : v \in r}
      <4>1. raw = {y * e.left.n}
        BY <2>1, <3>3
      <4>2. \A w \in sr : w * e.left.n <= y * e.left.n
        BY <1>3, <2>2, <2>3, <3>3, TimesMore
      <4>3. SizesAt(args, e) = {w * e.left.n : w \in sr}
        BY <1>6, <3>3
      <4>4. QED
        BY <4>1, <4>2, <4>3
    <3>4. QED
      BY <1>5, <3>1, <3>2, <3>3
  <2>5. PICK k \in 0 .. MAX_OUTPUT_BYTES : b = {k}
    BY <1>14, <1>15
  <2>6. \A t \in SizesAt(args, e) : t <= k /\ t <= MAX_OUTPUT_BYTES
    <3>1. \A t \in SizesAt(args, e) : t \in Nat /\ t <= k
      BY <1>0, <1>4, <2>4, <2>5, SizesAtType
    <3>2. MAX_OUTPUT_BYTES \in Nat
      BY JinjaAssumption DEF JinjaAssumption
    <3>3. QED
      BY <3>1, <3>2
  <2>7. QED
    BY <1>10, <2>2, <2>5, <2>6 DEF Covers, b
<1>16. QED
  BY <1>4, <1>8, <1>12, <1>14, <1>15 DEF Fits, b

\* What is known of an argument of a filter, with a bound or without.
LEMMA ArgumentFits ==
  ASSUME NEW args, NEW e, Made(args, e), e.is = "filter", LooksIn(args, e),
         NEW k \in DOMAIN e.args
  PROVE  LET x == e.args[k] IN
         /\ BoundAt(args, x) = {} => SizesAt(args, x) = {0}
         /\ \A n \in BoundAt(args, x) : \A t \in SizesAt(args, x) : t <= n
         /\ \A q \in PartsAt(x) : \A t \in SizesAt(args, q) : t <= MAX_OUTPUT_BYTES
<1> DEFINE x == e.args[k]
<1>1. e \in Expressions /\ x \in Jinja!Children(e) /\ Fits(args, x) /\ ArgsFit(args) /\ x \in Expressions
  BY Shapes DEF Made
<1>2. e \in PartsAt(e)
  BY DEF Made
<1>3. x.is = "var" \/ MissingIn(args, x) = {}
  BY <1>2 DEF LooksIn
<1>4. BoundAt(args, x) # {} => Covers(args, x)
  BY <1>1, ChildrenToo
<1>5. CASE BoundAt(args, x) # {}
  BY <1>4, <1>5 DEF Covers
<1>6. CASE BoundAt(args, x) = {}
  <2>1. x.is = "var"
    BY <1>1, <1>3, <1>6 DEF Fits
  <2>2. PartsAt(x) = {x} /\ SizesAt(args, x) = {0}
    <3>1. x.id \in DOMAIN args => BoundAt(args, x) = SizesAt(args, x)
      BY <1>1, <2>1 DEF Fits
    <3>2. x.id \in DOMAIN args => BoundAt(args, x) # {}
      <4>1. x.id \in DOMAIN args => MissingIn(args, x) = {}
        BY <1>1, <2>1 DEF MissingIn, Fits
      <4>2. QED
        BY <1>1, <4>1 DEF Fits
    <3>3. QED
      BY <1>1, <1>6, <2>1, <3>2 DEF Fits
  <2>3. MAX_OUTPUT_BYTES \in Nat
    BY JinjaAssumption DEF JinjaAssumption
  <2>4. QED
    BY <1>6, <2>2, <2>3
<1>7. QED
  BY <1>5, <1>6

\* A bound made of others: none or one number, and none if one of them is.
OneOrNone(raw, in, a) ==
  /\ raw = {} \/ \E n \in Nat : raw = {n}
  /\ raw # {} => in # {}
  /\ in # {} /\ (\A k \in DOMAIN a : a[k] # {}) => raw # {}

\* A filter on what fits: the bounds are none or one number.
LEMMA FilterBound ==
  ASSUME NEW name, NEW in, NEW Bs, NEW a \in Seq(Bs),
         Bs = {{}} \cup {{n} : n \in 0 .. MAX_OUTPUT_BYTES}, in \in Bs,
         Jinja!filter_bound(name, in, a) # Jinja!Err
  PROVE  OneOrNone(Jinja!filter_bound(name, in, a), in, a)
<1> DEFINE raw == Jinja!filter_bound(name, in, a)
<1>0. /\ in = {} \/ \E n \in Nat : in = {n}
      /\ \A k \in DOMAIN a : a[k] = {} \/ \E n \in Nat : a[k] = {n}
  <2>1. \A B \in Bs : B = {} \/ \E n \in Nat : B = {n}
    OBVIOUS
  <2>2. \A k \in DOMAIN a : a[k] \in Bs
    BY ElementOfSeq
  <2>3. QED
    BY <2>1, <2>2
<1>1. Len(a) \in Nat /\ DOMAIN a = 1 .. Len(a)
  BY LenProperties
<1> SUFFICES /\ raw = {} \/ \E n \in Nat : raw = {n}
             /\ raw # {} => in # {}
             /\ in # {} /\ (\A k \in DOMAIN a : a[k] # {}) => raw # {}
  BY DEF OneOrNone
<1> HIDE DEF raw
<1>2. CASE name \in Jinja!CaseFilters /\ raw = {n * 3 : n \in in}
  BY <1>0, <1>2
<1>3. CASE raw = in
  BY <1>0, <1>3
<1>4. CASE raw = {20 : n \in in}
  BY <1>0, <1>4
<1>5. CASE raw = {n * 6 + 2 : n \in in}
  BY <1>0, <1>5
<1>6. ASSUME NEW other, \E n \in Nat : other = {n},
             raw = {IF x > y THEN x ELSE y : x \in in, y \in other}
      PROVE  /\ raw = {} \/ \E n \in Nat : raw = {n}
             /\ raw # {} => in # {}
             /\ in # {} /\ (\A k \in DOMAIN a : a[k] # {}) => raw # {}
  <2>2. PICK n \in Nat : other = {n}
    BY <1>6
  <2>3. CASE in = {}
    <3>1. raw = {}
      BY <1>6, <2>3
    <3>2. QED
      BY <2>3, <3>1
  <2>4. CASE in # {}
    <3>1. PICK m \in Nat : in = {m}
      BY <1>0, <2>4
    <3>2. raw = {IF m > n THEN m ELSE n}
      BY SMTT(30), <1>6, <2>2, <3>1
    <3>3. QED
      BY <2>4, <3>2
  <2>5. QED
    BY <2>3, <2>4
<1>7. CASE Len(a) \in 2 .. 3 /\ raw = {(n + 1) * (r + 1) : n \in in, r \in a[2]}
  <2>1. 2 \in DOMAIN a
    BY <1>1, <1>7
  <2>2. CASE in # {} /\ a[2] # {}
    <3>1. PICK n \in Nat, r \in Nat : in = {n} /\ a[2] = {r}
      BY <1>0, <2>1, <2>2
    <3>2. raw = {(n + 1) * (r + 1)}
      BY <1>7, <3>1
    <3>3. (n + 1) * (r + 1) \in Nat
      OBVIOUS
    <3>4. QED
      BY <3>1, <3>2, <3>3
  <2>3. CASE in = {} \/ a[2] = {}
    BY <1>7, <2>1, <2>3
  <2>4. QED
    BY <2>2, <2>3
<1>8. QED
  <2> DEFINE other == IF a = <<>> \/ a[1] = Jinja!None THEN Jinja!Some(0) ELSE a[1]
  <2>1. \E n \in Nat : other = {n}
    <3>1. a # <<>> => 1 \in DOMAIN a
      BY <1>1, EmptySeq
    <3>2. QED
      BY <1>0, <3>1 DEF Jinja!Some, Jinja!None
  <2>2. \/ name \in Jinja!CaseFilters /\ raw = {n * 3 : n \in in}
        \/ raw = in
        \/ raw = {20 : n \in in}
        \/ raw = {n * 6 + 2 : n \in in}
        \/ raw = {IF x > y THEN x ELSE y : x \in in, y \in other}
        \/ Len(a) \in 2 .. 3 /\ raw = {(n + 1) * (r + 1) : n \in in, r \in a[2]}
    BY DEF Jinja!filter_bound, raw
  <2> HIDE DEF other
  <2>3. CASE raw = {IF x > y THEN x ELSE y : x \in in, y \in other}
    BY <1>6, <2>1, <2>3
  <2>4. QED
    BY SMTT(30), <1>2, <1>3, <1>4, <1>5, <1>7, <2>2, <2>3

\* UpTo of FilterSizes: nothing is larger than the largest.
LEMMA UpToFits ==
  ASSUME NEW S \in SUBSET Nat, NEW m \in Nat, \A n \in S : n <= m
  PROVE  \A t \in UNION {0 .. n : n \in S} : t <= m
<1> TAKE t \in UNION {0 .. n : n \in S}
<1>1. PICK n \in S : t \in 0 .. n
  OBVIOUS
<1>2. n \in Nat /\ t \in Nat /\ t <= n /\ n <= m
  BY <1>1
<1>3. QED
  BY <1>2

\* The same with the factors of the filters.
LEMMA Scaled ==
  ASSUME NEW m \in Nat, NEW n \in Nat, n <= m
  PROVE  /\ 3 * n \in Nat /\ 3 * n <= m * 3
         /\ 6 * n + 2 \in Nat /\ 6 * n + 2 <= m * 6 + 2
OBVIOUS

\* The sizes that a filter makes of what its bounds cover are covered by its bound.
LEMMA FilterCovers ==
  ASSUME NEW name, NEW a, NEW Bs, NEW c \in Seq(Bs), NEW i \in Nat,
         NEW in \in SUBSET Nat, NEW z \in Seq(SUBSET Nat), Len(z) = Len(c),
         Bs = {{}} \cup {{n} : n \in 0 .. MAX_OUTPUT_BYTES},
         \A t \in in : t <= i,
         \A k \in 1 .. Len(c) : /\ c[k] = {} => z[k] = {0}
                               /\ \A n \in c[k] : \A t \in z[k] : t <= n,
         a = {i}, Jinja!filter_bound(name, a, c) # Jinja!Err
  PROVE  \A k \in Jinja!filter_bound(name, a, c) : \A t \in Jinja!FilterSizes(name, in, z) : t <= k
<1> DEFINE raw == Jinja!filter_bound(name, a, c)
           UpTo(S) == UNION {0 .. n : n \in S}
           sizes == Jinja!FilterSizes(name, in, z)
           other == IF c = <<>> \/ c[1] = Jinja!None THEN Jinja!Some(0) ELSE c[1]
           more == IF z = <<>> THEN {0} ELSE z[1]
           pairs == {n + (n + 1) * r : n \in in, r \in z[2]}
<1>0. Len(c) \in Nat /\ DOMAIN c = 1 .. Len(c) /\ DOMAIN z = 1 .. Len(c)
  BY LenProperties
<1>1. \A k \in 1 .. Len(c) : z[k] \in SUBSET Nat /\ (c[k] = {} \/ \E n \in Nat : c[k] = {n})
  <2>1. \A B \in Bs : B = {} \/ \E n \in Nat : B = {n}
    OBVIOUS
  <2>2. \A k \in 1 .. Len(c) : c[k] \in Bs /\ z[k] \in SUBSET Nat
    BY <1>0, ElementOfSeq
  <2>3. QED
    BY <2>1, <2>2
<1>2. \/ name \in Jinja!CaseFilters /\ raw = {n * 3 : n \in a}
      \/ name = "trim" /\ raw = a
      \/ name \in Jinja!LengthFilters /\ raw = {20 : n \in a}
      \/ name \in Jinja!EscapeFilters /\ raw = {n * 6 + 2 : n \in a}
      \/ name \in Jinja!DefaultFilters /\ raw = {IF x > y THEN x ELSE y : x \in a, y \in other}
      \/ name = "replace" /\ Len(c) \in 2 .. 3 /\ raw = {(n + 1) * (r + 1) : n \in a, r \in c[2]}
  <2>1. raw # Jinja!Err
    OBVIOUS
  <2> HIDE DEF other
  <2>2. QED
    BY <2>1 DEF Jinja!filter_bound, other
<1>3. /\ name \in Jinja!CaseFilters => sizes = UpTo({3 * n : n \in in})
      /\ name = "trim" => sizes = UpTo(in)
      /\ name \in Jinja!LengthFilters => sizes = 1 .. 20
      /\ name \in Jinja!EscapeFilters => sizes = UpTo({6 * n + 2 : n \in in})
      /\ name \in Jinja!DefaultFilters => sizes = in \cup more
      /\ name = "replace" /\ Len(z) > 1 => sizes = UpTo(pairs)
  BY SMTT(30) DEF Jinja!FilterSizes, Jinja!CaseFilters, Jinja!LengthFilters, Jinja!EscapeFilters, Jinja!DefaultFilters
<1> SUFFICES \A k \in raw : \A t \in sizes : t <= k
  OBVIOUS
<1> HIDE DEF raw, sizes, UpTo
<1>4. CASE name \in Jinja!CaseFilters /\ raw = {n * 3 : n \in a}
  <2>1. raw = {i * 3} /\ i * 3 \in Nat
    BY <1>4
  <2>2. {3 * n : n \in in} \in SUBSET Nat /\ \A n \in {3 * m : m \in in} : n <= i * 3
    <3>1. \A n \in in : 3 * n \in Nat /\ 3 * n <= i * 3
      BY Scaled
    <3>2. QED
      BY <3>1
  <2>3. QED
    BY <1>3, <1>4, <2>1, <2>2, UpToFits DEF UpTo
<1>5. CASE name = "trim" /\ raw = a
  BY <1>3, <1>5, UpToFits DEF UpTo
<1>6. CASE name \in Jinja!LengthFilters /\ raw = {20 : n \in a}
  <2>1. raw = {20} /\ sizes = 1 .. 20
    BY <1>3, <1>6
  <2>2. QED
    BY <2>1
<1>7. CASE name \in Jinja!EscapeFilters /\ raw = {n * 6 + 2 : n \in a}
  <2>1. raw = {i * 6 + 2} /\ i * 6 + 2 \in Nat
    BY <1>7
  <2>2. {6 * n + 2 : n \in in} \in SUBSET Nat /\ \A n \in {6 * m + 2 : m \in in} : n <= i * 6 + 2
    <3>1. \A n \in in : 6 * n + 2 \in Nat /\ 6 * n + 2 <= i * 6 + 2
      BY Scaled
    <3>2. QED
      BY <3>1
  <2>3. QED
    BY <1>3, <1>7, <2>1, <2>2, UpToFits DEF UpTo
<1>8. CASE name \in Jinja!DefaultFilters /\ raw = {IF x > y THEN x ELSE y : x \in a, y \in other}
  <2>1. /\ c = <<>> <=> Len(c) = 0
        /\ z = <<>> <=> Len(c) = 0
        /\ Len(c) # 0 => 1 \in 1 .. Len(c)
    BY <1>0, EmptySeq
  <2>2. PICK o \in Nat : other = {o} /\ \A t \in more : t \in Nat /\ t <= o
    <3>1. CASE Len(c) = 0
      BY <2>1, <3>1 DEF Jinja!Some
    <3>2. CASE Len(c) # 0 /\ c[1] = {}
      BY <2>1, <3>2 DEF Jinja!Some, Jinja!None
    <3>3. CASE Len(c) # 0 /\ c[1] # {}
      BY <1>1, <2>1, <3>3 DEF Jinja!None
    <3>4. QED
      BY <3>1, <3>2, <3>3
  <2> HIDE DEF other, more
  <2>3. raw = {IF i > o THEN i ELSE o}
    BY <1>8, <2>2
  <2>4. \A t \in in : t \in Nat /\ t <= i
    OBVIOUS
  <2>5. sizes = in \cup more
    BY <1>3, <1>8
  <2>6. QED
    BY <2>2, <2>3, <2>4, <2>5
<1>9. CASE name = "replace" /\ Len(c) \in 2 .. 3 /\ raw = {(n + 1) * (r + 1) : n \in a, r \in c[2]}
  <2>1. 2 \in 1 .. Len(c) /\ Len(z) > 1
    BY <1>0, <1>9
  <2>2. CASE c[2] = {}
    BY <1>9, <2>2
  <2>3. CASE c[2] # {}
    <3>1. PICK r \in Nat : c[2] = {r} /\ \A t \in z[2] : t \in Nat /\ t <= r
      BY <1>1, <2>1, <2>3
    <3>2. raw = {(i + 1) * (r + 1)} /\ (i + 1) * (r + 1) \in Nat
      BY <1>9, <3>1
    <3>3. ASSUME NEW n \in in, NEW t \in z[2]
          PROVE  n + (n + 1) * t \in Nat /\ n + (n + 1) * t <= (i + 1) * (r + 1)
      <4>1. n \in Nat /\ t \in Nat /\ n <= i /\ t <= r
        BY <3>1
      <4>2. (n + 1) * (t + 1) <= (i + 1) * (t + 1)
        BY <4>1, TimesMore
      <4>3. (t + 1) * (i + 1) <= (r + 1) * (i + 1)
        BY SMTT(30), <4>1, TimesMore
      <4>4. /\ (t + 1) * (i + 1) = (i + 1) * (t + 1) /\ (r + 1) * (i + 1) = (i + 1) * (r + 1)
            /\ (n + 1) * (t + 1) = (n + 1) * t + n + 1
        <5>1. /\ \A x, y \in Nat : x * y = y * x
              /\ \A x, y \in Nat : x * (y + 1) = x * y + x
          OBVIOUS
        <5>2. n + 1 \in Nat /\ t + 1 \in Nat /\ i + 1 \in Nat /\ r + 1 \in Nat /\ t \in Nat /\ n \in Nat
          BY <4>1
        <5>3. (n + 1) * (t + 1) = (n + 1) * t + (n + 1)
          BY <5>1, <5>2
        <5>4. (n + 1) * t \in Nat
          BY <5>2
        <5>5. (n + 1) * (t + 1) = (n + 1) * t + n + 1
          BY <5>2, <5>3, <5>4
        <5>6. QED
          BY <5>1, <5>2, <5>5
      <4>5. (n + 1) * t \in Nat /\ (i + 1) * (t + 1) \in Nat /\ (i + 1) * (r + 1) \in Nat
        <5>1. \A x, y \in Nat : x * y \in Nat
          OBVIOUS
        <5>2. n + 1 \in Nat /\ t + 1 \in Nat /\ i + 1 \in Nat /\ r + 1 \in Nat /\ t \in Nat
          BY <4>1
        <5>3. QED
          BY <5>1, <5>2
      <4>6. QED
        BY <4>1, <4>2, <4>3, <4>4, <4>5
    <3>4. pairs \in SUBSET Nat /\ \A n \in pairs : n <= (i + 1) * (r + 1)
      BY <3>3
    <3> HIDE DEF pairs
    <3>5. sizes = UpTo(pairs)
      BY <1>3, <1>9, <2>1
    <3>6. QED
      BY <3>2, <3>4, <3>5, UpToFits DEF UpTo
  <2>4. QED
    BY <2>2, <2>3
<1>10. QED
  BY <1>2, <1>4, <1>5, <1>6, <1>7, <1>8, <1>9

\* A filter on what fits.
LEMMA FilterFits ==
  ASSUME NEW args, NEW e, Made(args, e), e.is = "filter"
  PROVE  Fits(args, e)
<1> DEFINE in == BoundAt(args, e.expr)
           c == [k \in DOMAIN e.args |-> BoundAt(args, e.args[k])]
           z == [k \in DOMAIN e.args |-> SizesAt(args, e.args[k])]
           b == BoundAt(args, e)
           raw == Jinja!filter_bound(e.name, in, c)
           Bs == {{}} \cup {{n} : n \in 0 .. MAX_OUTPUT_BYTES}
           n0 == Len(e.args)
<1>0. /\ e \in Expressions /\ e.expr \in Expressions /\ ArgsFit(args)
      /\ e.expr \in Jinja!Children(e)
      /\ e.args \in Seq(Expressions)
      /\ \A k \in DOMAIN e.args : e.args[k] \in Jinja!Children(e) /\ e.args[k] \in Expressions
      /\ Jinja!Children(e) = {e.expr} \cup {e.args[k] : k \in DOMAIN e.args}
  BY Shapes DEF Made
<1>1. n0 \in Nat /\ DOMAIN e.args = 1 .. n0
  BY <1>0, LenProperties
<1>2. /\ Fits(args, e.expr)
      /\ \A k \in DOMAIN e.args : Fits(args, e.args[k])
  BY <1>0 DEF Made
<1>3. in \in Bs /\ \A k \in 1 .. n0 : c[k] \in Bs
  BY <1>1, <1>2 DEF Fits
<1>4. c \in Seq(Bs) /\ Len(c) = n0 /\ DOMAIN c = 1 .. n0
  <2> HIDE DEF Bs, n0
  <2>1. c = [k \in 1 .. n0 |-> c[k]]
    BY <1>1
  <2> HIDE DEF c
  <2>2. c \in [1 .. n0 -> Bs]
    BY <1>3, <2>1
  <2>3. QED
    BY <1>1, <2>2
<1>5. z \in Seq(SUBSET Nat) /\ Len(z) = n0
  <2>1. \A k \in 1 .. n0 : z[k] \in SUBSET Nat
    BY <1>0, <1>1, SizesAtType
  <2> HIDE DEF n0
  <2>2. z = [k \in 1 .. n0 |-> z[k]]
    BY <1>1
  <2> HIDE DEF z
  <2>3. z \in [1 .. n0 -> SUBSET Nat]
    BY <2>1, <2>2
  <2>4. QED
    BY <1>1, <2>3
<1>6. b = raw /\ raw # Jinja!Err /\ \A n \in raw : ~(n > MAX_OUTPUT_BYTES)
  <2>1. b = Jinja!bound_of(e, args, Jinja!BoundsIn(args)[Top]) /\ b # Jinja!Err
    BY DEF Made
  <2>2. b = IF raw = Jinja!Err \/ \E x \in Jinja!Children(e) : Jinja!BoundsIn(args)[Top][x] = Jinja!Err
            THEN Jinja!Err ELSE Jinja!within_limit(raw)
    BY <2>1 DEF Jinja!bound_of, BoundAt
  <2> HIDE DEF raw, b
  <2>3. QED
    BY <2>1, <2>2 DEF Jinja!within_limit
<1>7. SizesAt(args, e) = Jinja!FilterSizes(e.name, SizesAt(args, e.expr), z)
  BY DEF Made, Jinja!SizesOf, SizesAt
<1>8. PartsAt(e) = {e} \cup PartsAt(e.expr) \cup UNION {PartsAt(e.args[k]) : k \in DOMAIN e.args}
  <2>1. PartsAt(e) = {e} \cup UNION {PartsAt(x) : x \in Jinja!Children(e)}
    BY DEF Made
  <2>2. QED
    BY <1>0, <2>1
<1>9. MissingIn(args, e) = {} => in # {} /\ \A k \in 1 .. n0 : c[k] # {}
  BY <1>0, <1>1, <1>2, ChildrenToo DEF Fits
<1>10. /\ raw = {} \/ \E n \in Nat : raw = {n}
       /\ raw # {} => in # {}
       /\ in # {} /\ (\A k \in 1 .. n0 : c[k] # {}) => raw # {}
  <2>1. Bs = {{}} \cup {{n} : n \in 0 .. MAX_OUTPUT_BYTES}
    OBVIOUS
  <2> HIDE DEF c, in, n0, Bs
  <2>2. OneOrNone(raw, in, c)
    <3>1. Jinja!filter_bound(e.name, in, c) # Jinja!Err /\ in \in Bs /\ c \in Seq(Bs)
      BY <1>3, <1>4, <1>6
    <3>2. QED
      BY <2>1, <3>1, FilterBound
  <2> HIDE DEF raw
  <2>3. QED
    BY <1>4, <2>2 DEF OneOrNone
<1>11. b = {} \/ \E k \in 0 .. MAX_OUTPUT_BYTES : b = {k}
  <2> HIDE DEF raw, b
  <2>1. QED
    BY <1>6, <1>10, OneBound
<1>12. ASSUME LooksIn(args, e), b # {}
       PROVE  Covers(args, e)
  <2>1. in # {} /\ Covers(args, e.expr)
    <3>1. in # {}
      <4> HIDE DEF raw, b, in
      <4>1. QED
        BY <1>6, <1>10, <1>12
    <3>2. QED
      BY <1>0, <1>12, <3>1, ChildrenToo
  <2>2. PICK i \in 0 .. MAX_OUTPUT_BYTES : in = {i}
    <3> HIDE DEF in
    <3>1. QED
      BY <1>3, <2>1
  <2>3. /\ \A t \in SizesAt(args, e.expr) : t <= i
        /\ \A q \in PartsAt(e.expr) : \A t \in SizesAt(args, q) : t <= MAX_OUTPUT_BYTES
    BY <2>1, <2>2 DEF Covers
  <2>4. \A k \in 1 .. n0 :
          /\ c[k] = {} => z[k] = {0}
          /\ \A n \in c[k] : \A t \in z[k] : t <= n
          /\ \A q \in PartsAt(e.args[k]) : \A t \in SizesAt(args, q) : t <= MAX_OUTPUT_BYTES
    BY <1>1, <1>12, ArgumentFits
  <2>5. SizesAt(args, e.expr) \in SUBSET Nat /\ i \in Nat
    BY <1>0, SizesAtType
  <2>6. \A k \in raw : \A t \in SizesAt(args, e) : t <= k
    <3> DEFINE s == SizesAt(args, e.expr)
    <3>1. \A t \in s : t <= i
      BY <2>3
    <3>2. s \in SUBSET Nat /\ SizesAt(args, e) = Jinja!FilterSizes(e.name, s, z)
      BY <1>7, <2>5
    <3>3. \A k \in 1 .. Len(c) : /\ c[k] = {} => z[k] = {0}
                                /\ \A n \in c[k] : \A t \in z[k] : t <= n
      BY <1>4, <2>4
    <3>4. Len(z) = Len(c) /\ Bs = {{}} \cup {{n} : n \in 0 .. MAX_OUTPUT_BYTES}
      BY <1>4, <1>5
    <3> HIDE DEF c, in, z, s, Bs, n0
    <3>5. Jinja!filter_bound(e.name, in, c) # Jinja!Err /\ c \in Seq(Bs) /\ z \in Seq(SUBSET Nat)
      BY <1>4, <1>5, <1>6
    <3>6. \A k \in Jinja!filter_bound(e.name, in, c) : \A t \in Jinja!FilterSizes(e.name, s, z) : t <= k
      BY <2>2, <2>5, <3>1, <3>2, <3>3, <3>4, <3>5, FilterCovers
    <3>7. QED
      BY <3>2, <3>6
  <2>7. PICK k \in 0 .. MAX_OUTPUT_BYTES : b = {k}
    <3> HIDE DEF b
    <3>1. QED
      BY <1>11, <1>12
  <2>8. \A t \in SizesAt(args, e) : t <= k /\ t <= MAX_OUTPUT_BYTES
    <3>0. k \in raw
      <4> HIDE DEF raw, b
      <4>1. QED
        BY <1>6, <2>7
    <3>1. \A t \in SizesAt(args, e) : t \in Nat /\ t <= k
      BY <1>0, <2>6, <3>0, SizesAtType
    <3>2. MAX_OUTPUT_BYTES \in Nat
      BY JinjaAssumption DEF JinjaAssumption
    <3>3. QED
      BY <3>1, <3>2
  <2>9. \A q \in PartsAt(e) : \A t \in SizesAt(args, q) : t <= MAX_OUTPUT_BYTES
    <3> TAKE q \in PartsAt(e)
    <3>1. CASE q = e
      BY <2>8, <3>1
    <3>2. CASE q \in PartsAt(e.expr)
      BY <2>3, <3>2
    <3>3. CASE q \in UNION {PartsAt(e.args[k1]) : k1 \in DOMAIN e.args}
      BY <1>1, <2>4, <3>3
    <3>4. QED
      BY <1>8, <3>1, <3>2, <3>3
  <2>10. QED
    BY <2>7, <2>8, <2>9 DEF Covers
<1>13. MissingIn(args, e) = {} => b # {}
  <2> HIDE DEF raw, b, in, c, n0
  <2>1. QED
    BY <1>6, <1>9, <1>10
<1>14. QED
  BY <1>11, <1>12, <1>13 DEF Fits

\* Every expression with a bound fits.
LEMMA BoundedFits ==
  ASSUME NEW args, ArgsFit(args), NEW e \in Expressions, BoundAt(args, e) # Jinja!Err
  PROVE  Fits(args, e)
<1> DEFINE B == Jinja!BoundsIn(args)
           Fit(n) == \A x \in Expressions : B[n][x] # Jinja!Err => Fits(args, x)
           S == {n \in Nat : n <= Top => Fit(n)}
<1>0. Top \in Nat
  BY TopType
<1>1. 0 \in S
  <2>1. \A x \in Expressions : B[0][x] = Jinja!Err
    BY BoundsByLevel
  <2>2. QED
    BY <2>1
<1>2. ASSUME NEW n \in Nat, n \in S
      PROVE  n + 1 \in S
  <2> SUFFICES ASSUME n + 1 <= Top, NEW x \in Expressions, B[n + 1][x] # Jinja!Err
               PROVE  Fits(args, x)
    OBVIOUS
  <2>1. n + 1 \in 0 .. Top /\ (n + 1) - 1 = n /\ n \in 0 .. Top /\ n <= Top
    BY <1>0
  <2>2. /\ BoundAt(args, x) = Jinja!bound_of(x, args, B[Top])
        /\ BoundAt(args, x) # Jinja!Err
        /\ SizesAt(args, x) = Jinja!SizesOf(x, args, Jinja!SizesIn(args)[Top])
        /\ PartsAt(x) = {x} \cup UNION {PartsAt(y) : y \in Jinja!Children(x)}
        /\ \A y \in Jinja!Children(x) : y \in Expressions /\ B[n][y] # Jinja!Err
    BY <2>1, Unfold DEF BoundAt, SizesAt, PartsAt
  <2>3. \A y \in Jinja!Children(x) : Fits(args, y)
    BY <1>2, <2>1, <2>2
  <2>4. \A y \in Jinja!Children(x) : BoundAt(args, y) # Jinja!Err
    BY <2>1, <2>2, Unfold DEF BoundAt
  <2>5. Made(args, x)
    BY <2>2, <2>3, <2>4 DEF Made
  <2>6. QED
    BY <2>5, LeafFits, BinopFits, FilterFits, Shapes
<1>3. Nat \subseteq S
  <2> HIDE DEF S
  <2>1. QED
    BY <1>1, <1>2, Induction
<1>4. Fit(Top)
  BY <1>0, <1>3
<1>5. QED
  BY <1>4 DEF BoundAt

\* The variables that an expression needs, by the levels that are looked at.
LEMMA NeedsByLevel ==
  /\ \A e \in Expressions : Jinja!needs[0][e] = {}
  /\ \A n \in 1 .. Top : \A e \in Expressions :
       Jinja!needs[n][e] = Jinja!needed(e, Jinja!needs[n - 1])
<1> DEFINE N == Top
           I == {e.id : e \in Expressions}
           V == [Expressions -> SUBSET I]
           base == [e \in Expressions |-> {}]
           more == [v \in V |-> [e \in Expressions |-> Jinja!needed(e, v)]]
           G == [k \in 1 .. N |-> more]
           Body(f) == [n \in 0 .. N |->
                         [e \in Expressions |-> IF n = 0 THEN {} ELSE Jinja!needed(e, f[n - 1])]]
<1>1. N \in Nat /\ base \in V
  BY TopType
<1>2. \A v \in V : \A e \in Expressions : Jinja!needed(e, v) \in SUBSET I
  <2> TAKE v \in V
  <2> TAKE e \in Expressions
  <2>1. e.id \in I /\ \A x \in Expressions : v[x] \in SUBSET I
    OBVIOUS
  <2> HIDE DEF I, V
  <2>2. CASE e.is = "binop"
    BY <2>1, <2>2, Shapes DEF Jinja!needed
  <2>3. CASE e.is = "filter"
    <3>1. e.expr \in Expressions /\ e.args \in Seq(Expressions)
      BY <2>3, Shapes
    <3>2. Len(e.args) > 1 => e.args[2] \in Expressions
      BY <3>1
    <3>3. QED
      BY <2>1, <2>3, <3>1, <3>2 DEF Jinja!needed
  <2>4. CASE e.is \notin {"binop", "filter"}
    BY <2>1, <2>4 DEF Jinja!needed
  <2>5. QED
    BY <2>2, <2>3, <2>4
<1>3. G \in [1 .. N -> [V -> V]]
  <2>1. more \in [V -> V]
    BY <1>2
  <2> HIDE DEF more, V
  <2>2. QED
    BY <2>1
<1>4. PICK f \in [0 .. N -> V] : Recurs(f, N, base, G)
  <2> HIDE DEF V, base, G, N
  <2>1. QED
    BY <1>1, <1>3, Recursion
<1>5. f[0] = base /\ \A k \in 1 .. N : f[k] = more[f[k - 1]] /\ f[k - 1] \in V
  <2>1. \A k \in 1 .. N : k - 1 \in 0 .. N
    BY <1>1
  <2>2. \A k \in 1 .. N : G[k] = more
    OBVIOUS
  <2> HIDE DEF V, more, G, base, N
  <2>3. QED
    BY <1>4, <2>1, <2>2 DEF Recurs
<1>6. \A n \in 0 .. N : f[n] = Body(f)[n]
  <2> TAKE n \in 0 .. N
  <2>1. CASE n = 0
    BY <1>5, <2>1
  <2>2. CASE n # 0
    <3>1. n \in 1 .. N /\ f[n - 1] \in V
      BY <1>1, <1>5, <2>2
    <3>2. f[n] = more[f[n - 1]]
      BY <1>5, <3>1
    <3>3. more[f[n - 1]] = [e \in Expressions |-> Jinja!needed(e, f[n - 1])]
      BY <3>1
    <3>4. QED
      BY <2>2, <3>2, <3>3
  <2>3. QED
    BY <2>1, <2>2
<1>7. f = Body(f)
  <2>1. f = [n \in 0 .. N |-> f[n]]
    BY <1>4
  <2>2. QED
    BY <1>6, <2>1
<1>8. Jinja!needs = CHOOSE g : g = Body(g)
  BY TopType DEF Jinja!needs
<1>9. Jinja!needs = Body(Jinja!needs)
  <2> HIDE DEF Body
  <2>1. QED
    BY <1>7, <1>8
<1>10. ASSUME NEW n \in 1 .. N
       PROVE  Jinja!needs[n] = [e \in Expressions |-> Jinja!needed(e, Jinja!needs[n - 1])]
  <2> DEFINE s == Jinja!needs
  <2>1. s = Body(s)
    BY <1>9
  <2>2. n \in 0 .. N /\ n # 0
    BY <1>1
  <2> HIDE DEF s
  <2>3. s[n] = [e \in Expressions |-> Jinja!needed(e, s[n - 1])]
    BY <2>1, <2>2
  <2>4. QED
    BY <2>3 DEF s
<1>11. \A e \in Expressions : Jinja!needs[0][e] = {}
  <2> DEFINE s == Jinja!needs
  <2>1. s = Body(s)
    BY <1>9
  <2> HIDE DEF s
  <2>2. s[0] = base
    BY <1>1, <2>1
  <2>3. QED
    BY <2>2 DEF s
<1>12. \A n \in 1 .. Top : \A e \in Expressions :
         Jinja!needs[n][e] = Jinja!needed(e, Jinja!needs[n - 1])
  <2> TAKE n \in 1 .. Top
  <2>1. QED
    BY <1>10
<1>13. QED
  BY <1>11, <1>12

\* A literal needs no variable.
LEMMA NeedsOfInt ==
  ASSUME NEW n \in 0 .. Top, NEW e \in Expressions, e.is = "int"
  PROVE  Jinja!needs[n][e] = {}
<1>1. CASE n = 0
  BY <1>1, NeedsByLevel
<1>2. CASE n # 0
  <2>1. n \in 1 .. Top
    BY <1>2, TopType
  <2>2. QED
    BY <2>1, NeedsByLevel DEF Jinja!needed
<1>3. QED
  BY <1>1, <1>2

\* The bounds of the arguments of a filter are a sequence.
LEMMA ArgsLength ==
  ASSUME NEW s, NEW v, NEW n \in Nat, Len(s) = n, DOMAIN s = 1 .. n
  PROVE  LET a == [k \in DOMAIN s |-> v[s[k]]] IN
         /\ DOMAIN a = 1 .. n /\ Len(a) = n
         /\ a # <<>> => 1 \in DOMAIN a
         /\ n > 1 => a[2] = v[s[2]]
<1> DEFINE a == [k \in DOMAIN s |-> v[s[k]]]
           W == {v[s[k]] : k \in 1 .. n}
<1>1. a \in [1 .. n -> W]
  OBVIOUS
<1>2. a \in Seq(W) /\ DOMAIN a = 1 .. n
  BY <1>1
<1>3. Len(a) = n
  <2> HIDE DEF a, W
  <2>1. QED
    BY <1>2, LenProperties
<1>4. a # <<>> => 1 \in DOMAIN a
  <2> HIDE DEF a, W
  <2>1. Len(a) = 0 => a = <<>>
    BY <1>2, EmptySeq
  <2>2. QED
    BY <1>2, <1>3, <2>1
<1>5. QED
  BY <1>2, <1>3, <1>4

\* A filter has no bound for want of that of its input or, if it replaces, of the
\* replacement.
LEMMA FilterNeeds ==
  ASSUME NEW name, NEW in, NEW a, DOMAIN a = 1 .. Len(a), Len(a) \in Nat,
         a # <<>> => 1 \in DOMAIN a,
         Jinja!filter_bound(name, in, a) # Jinja!Err
  PROVE  /\ name = "replace" => /\ Len(a) > 1
                                /\ Jinja!filter_bound(name, in, a) = {} <=> in = {} \/ a[2] = {}
         /\ name # "replace" => (Jinja!filter_bound(name, in, a) = {} <=> in = {})
<1> DEFINE raw == Jinja!filter_bound(name, in, a)
           other == IF a = <<>> \/ a[1] = Jinja!None THEN Jinja!Some(0) ELSE a[1]
<1>1. other # {}
  BY DEF Jinja!Some, Jinja!None
<1>2. name = "replace" =>
        Len(a) > 1 /\ raw = {(n + 1) * (r + 1) : n \in in, r \in a[2]}
  BY SMTT(30) DEF Jinja!filter_bound, Jinja!CaseFilters, Jinja!LengthFilters, Jinja!EscapeFilters,
         Jinja!DefaultFilters
<1>3. name # "replace" =>
        \/ raw = {n * 3 : n \in in}
        \/ raw = in
        \/ raw = {20 : n \in in}
        \/ raw = {n * 6 + 2 : n \in in}
        \/ raw = {IF x > y THEN x ELSE y : x \in in, y \in other}
  BY DEF Jinja!filter_bound
<1> HIDE DEF raw, other
<1>4. name # "replace" => (raw = {} <=> in = {})
  <2>1. CASE raw = {n * 3 : n \in in}
    BY <2>1
  <2>2. CASE raw = in
    BY <2>2
  <2>3. CASE raw = {20 : n \in in}
    BY <2>3
  <2>4. CASE raw = {n * 6 + 2 : n \in in}
    BY <2>4
  <2>5. CASE raw = {IF x > y THEN x ELSE y : x \in in, y \in other}
    <3>1. ASSUME NEW x \in in, NEW y \in other PROVE (IF x > y THEN x ELSE y) \in raw
      BY <2>5
    <3>2. in = {} => raw = {}
      BY <2>5
    <3>3. QED
      BY <1>1, <3>1, <3>2
  <2>6. QED
    BY <1>3, <2>1, <2>2, <2>3, <2>4, <2>5
<1>5. name = "replace" => Len(a) > 1 /\ (raw = {} <=> in = {} \/ a[2] = {})
  <2> SUFFICES ASSUME name = "replace" PROVE Len(a) > 1 /\ (raw = {} <=> in = {} \/ a[2] = {})
    OBVIOUS
  <2>1. Len(a) > 1 /\ raw = {(n + 1) * (r + 1) : n \in in, r \in a[2]}
    BY <1>2
  <2>2. ASSUME NEW n \in in, NEW r \in a[2] PROVE (n + 1) * (r + 1) \in raw
    BY <2>1
  <2>3. ASSUME NEW s \in raw PROVE \E n \in in : \E r \in a[2] : TRUE
    <3>1. PICK n \in in, r \in a[2] : s = (n + 1) * (r + 1)
      BY <2>1
    <3>2. QED
      BY <3>1
  <2>4. QED
    BY <2>1, <2>2, <2>3
<1>6. QED
  BY <1>4, <1>5 DEF raw

\* An expression that is bounded is without a bound exactly when a variable that it needs
\* is missing.
LEMMA UnboundedNeeds ==
  ASSUME NEW args, ArgsFit(args), NEW e \in Expressions, BoundAt(args, e) # Jinja!Err
  PROVE  BoundAt(args, e) = {} <=> ~(Jinja!needs[Top][e] \subseteq DOMAIN args)
<1> DEFINE B == Jinja!BoundsIn(args)
           M == Jinja!needs
           Kept(n) == \A x \in Expressions :
                        B[n][x] # Jinja!Err => (B[n][x] = {} <=> ~(M[n][x] \subseteq DOMAIN args))
           S == {n \in Nat : n <= Top => Kept(n)}
<1>0. Top \in Nat
  BY TopType
<1>1. 0 \in S
  <2>1. \A x \in Expressions : B[0][x] = Jinja!Err
    BY BoundsByLevel
  <2>2. QED
    BY <2>1
<1>2. ASSUME NEW n \in Nat, n \in S
      PROVE  n + 1 \in S
  <2> SUFFICES ASSUME n + 1 <= Top, NEW x \in Expressions, B[n + 1][x] # Jinja!Err
               PROVE  B[n + 1][x] = {} <=> ~(M[n + 1][x] \subseteq DOMAIN args)
    OBVIOUS
  <2> DEFINE v == B[n]
             m == M[n]
             b == B[n + 1][x]
             d == M[n + 1][x]
  <2>1. n + 1 \in 1 .. Top /\ (n + 1) - 1 = n /\ n <= Top
    BY <1>0
  <2>2. b = Jinja!bound_of(x, args, v) /\ d = Jinja!needed(x, m)
    BY <2>1, BoundsByLevel, NeedsByLevel
  <2>3. \A y \in Expressions : v[y] # Jinja!Err => (v[y] = {} <=> ~(m[y] \subseteq DOMAIN args))
    BY <1>2, <2>1
  <2>4. b # Jinja!Err
    OBVIOUS
  <2> HIDE DEF v, m, b, d, B, M
  <2> DEFINE a == [k \in DOMAIN x.args |-> v[x.args[k]]]
             raw == CASE x.is = "var" -> IF x.id \in DOMAIN args THEN Jinja!Some(args[x.id]) ELSE Jinja!None
                      [] x.is = "str" -> Jinja!Some(x.size)
                      [] x.is = "int" -> Jinja!Some(1)
                      [] x.is = "binop" -> Jinja!binop_bound(x.op, x.left, x.right, v[x.left], v[x.right])
                      [] x.is = "filter" -> Jinja!filter_bound(x.name, v[x.expr], a)
                      [] OTHER -> Jinja!Err
  <2>5. b = IF raw = Jinja!Err \/ \E y \in Jinja!Children(x) : v[y] = Jinja!Err
            THEN Jinja!Err ELSE Jinja!within_limit(raw)
    BY <2>2 DEF Jinja!bound_of
  <2>6. b = raw /\ raw # Jinja!Err /\ \A y \in Jinja!Children(x) : v[y] # Jinja!Err
    <3> HIDE DEF raw
    <3>1. QED
      BY <2>4, <2>5 DEF Jinja!within_limit
  <2>7. CASE x.is \notin {"binop", "filter"}
    <3>1. b = (CASE x.is = "var" -> IF x.id \in DOMAIN args THEN {args[x.id]} ELSE {}
                 [] x.is = "str" -> {x.size}
                 [] x.is = "int" -> {1}
                 [] OTHER -> Jinja!Err)
      BY <2>6, <2>7 DEF Jinja!Some, Jinja!None
    <3>2. b = {} <=> x.is = "var" /\ x.id \notin DOMAIN args
      BY <2>6, <2>7, <3>1, Shapes DEF Jinja!Err
    <3>3. d = IF x.is = "var" THEN {x.id} ELSE {}
      BY <2>2, <2>7 DEF Jinja!needed
    <3>4. QED
      BY <3>2, <3>3 DEF b, d
  <2>8. CASE x.is = "binop"
    <3>0. /\ x.left \in Expressions /\ x.right \in Expressions
          /\ v[x.left] # Jinja!Err /\ v[x.right] # Jinja!Err
      BY <2>6, <2>8, Shapes
    <3> DEFINE l == v[x.left]
               r == v[x.right]
    <3>1. b = Jinja!binop_bound(x.op, x.left, x.right, l, r)
      BY <2>6, <2>8
    <3>2. b # Jinja!Err
      BY <2>6
    <3>3. \/ b = {p + q : p \in l, q \in r}
          \/ x.right.is = "int" /\ b = {p * x.right.n : p \in l}
          \/ x.left.is = "int" /\ b = {q * x.left.n : q \in r}
      <4> HIDE DEF l, r
      <4>1. QED
        BY <3>1, <3>2 DEF Jinja!binop_bound
    <3>4. /\ l = {} <=> ~(m[x.left] \subseteq DOMAIN args)
          /\ r = {} <=> ~(m[x.right] \subseteq DOMAIN args)
      BY <2>3, <3>0
    <3>5. /\ x.right.is = "int" => m[x.right] \subseteq DOMAIN args
          /\ x.left.is = "int" => m[x.left] \subseteq DOMAIN args
      BY <2>1, <3>0, NeedsOfInt DEF m, M
    <3>6. d = m[x.left] \cup m[x.right]
      BY <2>2, <2>8 DEF Jinja!needed
    <3> HIDE DEF l, r
    <3>7. b = {} <=> l = {} \/ r = {}
      <4>1. CASE b = {p + q : p \in l, q \in r}
        <5>1. ASSUME NEW p \in l, NEW q \in r PROVE p + q \in b
          BY <4>1
        <5>2. l = {} \/ r = {} => b = {}
          BY <4>1
        <5>3. QED
          BY <5>1, <5>2
      <4>2. CASE x.right.is = "int" /\ b = {p * x.right.n : p \in l}
        <5>1. b = {} <=> l = {}
          BY <4>2
        <5>2. r # {}
          BY <3>4, <3>5, <4>2
        <5>3. QED
          BY <5>1, <5>2
      <4>3. CASE x.left.is = "int" /\ b = {q * x.left.n : q \in r}
        <5>1. b = {} <=> r = {}
          BY <4>3
        <5>2. l # {}
          BY <3>4, <3>5, <4>3
        <5>3. QED
          BY <5>1, <5>2
      <4>4. QED
        BY <3>3, <4>1, <4>2, <4>3
    <3>8. QED
      BY <3>4, <3>6, <3>7 DEF b, d
  <2>9. CASE x.is = "filter"
    <3>0. /\ x.expr \in Expressions /\ v[x.expr] # Jinja!Err /\ x.args \in Seq(Expressions)
          /\ \A k \in DOMAIN x.args : x.args[k] \in Expressions /\ v[x.args[k]] # Jinja!Err
      BY <2>6, <2>9, Shapes
    <3>1. Len(x.args) \in Nat /\ DOMAIN x.args = 1 .. Len(x.args)
      BY <3>0, LenProperties
    <3>2. /\ DOMAIN a = 1 .. Len(x.args) /\ Len(a) = Len(x.args)
          /\ a # <<>> => 1 \in DOMAIN a
          /\ Len(a) > 1 => a[2] = v[x.args[2]]
      BY <3>1, ArgsLength
    <3> DEFINE in == v[x.expr]
    <3>3. b = Jinja!filter_bound(x.name, in, a)
      BY <2>6, <2>9
    <3> HIDE DEF a
    <3>4. /\ x.name = "replace" => Len(a) > 1 /\ (b = {} <=> in = {} \/ a[2] = {})
          /\ x.name # "replace" => (b = {} <=> in = {})
      BY <2>4, <3>1, <3>2, <3>3, FilterNeeds
    <3>5. in = {} <=> ~(m[x.expr] \subseteq DOMAIN args)
      BY <2>3, <3>0
    <3>6. Len(a) > 1 => (a[2] = {} <=> ~(m[x.args[2]] \subseteq DOMAIN args))
      <4>1. Len(a) > 1 => 2 \in DOMAIN x.args
        BY <3>1, <3>2
      <4>2. QED
        BY <2>3, <3>0, <3>2, <4>1
    <3>7. /\ x.name = "replace" /\ Len(x.args) > 1 => d = m[x.expr] \cup m[x.args[2]]
          /\ ~(x.name = "replace" /\ Len(x.args) > 1) => d = m[x.expr]
      BY <2>2, <2>9 DEF Jinja!needed
    <3> HIDE DEF in
    <3>8. b = {} <=> ~(d \subseteq DOMAIN args)
      BY <3>2, <3>4, <3>5, <3>6, <3>7
    <3>9. QED
      BY <3>8 DEF b, d
  <2>10. QED
    BY <2>7, <2>8, <2>9
<1>3. Nat \subseteq S
  <2> HIDE DEF S
  <2>1. QED
    BY <1>1, <1>2, Induction
<1>4. Kept(Top)
  BY <1>0, <1>3
<1>5. QED
  BY <1>4 DEF BoundAt

\* An expression that is evaluated has a bound, and one that is kept is about a variable
\* that is missing; a piece is of its segment.
Evaluates(args, e) == e \in Expressions /\ BoundAt(args, e) # Jinja!Err /\ BoundAt(args, e) # {}
Keeps(args, e) == e \in Expressions /\ BoundAt(args, e) # Jinja!Err /\ BoundAt(args, e) = {}
PieceOf(args, segment, piece) ==
  /\ piece = "none" <=> segment.is = "comment"
  /\ piece = "kept" => segment.is = "expression" /\ Keeps(args, segment.expr)
  /\ piece = "value" => Evaluates(args, segment.expr)

\* The tool's work at every step.
JinjaInv ==
  server = "jinja" =>
    /\ work = [args |-> work.args, pieces |-> work.pieces, size |-> work.size,
               count |-> work.count, evaluated |-> work.evaluated]
    /\ ArgsFit(work.args)
    /\ work.size \in 0 .. MAX_OUTPUT_BYTES
    /\ \A e \in work.evaluated : Evaluates(work.args, e)
    /\ work.pieces \in Seq({"data", "kept", "value", "none"})
    /\ \A k \in 1 .. Len(work.pieces) : PieceOf(work.args, input.template[k], work.pieces[k])
    /\ stage = "idle" => work = Jinja!NoWork
    /\ stage # "idle" => input.template \in Templates
    /\ stage # "returned" => output.is = "none"
    /\ output.is = "ok" => output.size = work.size /\ Len(work.pieces) = Len(input.template)

\* What does not depend on the state.
LEMMA JinjaConstants ==
  /\ \A a, e : BoundAt(a, e)' = BoundAt(a, e)
  /\ Jinja!Err' = Jinja!Err /\ Jinja!NoWork' = Jinja!NoWork
  /\ \A a : ArgsFit(a)' <=> ArgsFit(a)
  /\ \A a, e : (Evaluates(a, e)' <=> Evaluates(a, e)) /\ (Keeps(a, e)' <=> Keeps(a, e))
  /\ \A a, s, p : PieceOf(a, s, p)' <=> PieceOf(a, s, p)
<1>1. \A a, e : BoundAt(a, e)' = BoundAt(a, e)
  BY DEF BoundAt, Top, Jinja!BoundsIn, Jinja!Levels, Jinja!bound_of, Jinja!binop_bound,
         Jinja!filter_bound, Jinja!within_limit, Jinja!Err, Jinja!None, Jinja!Some,
         Jinja!Children, Jinja!CaseFilters, Jinja!LengthFilters, Jinja!EscapeFilters,
         Jinja!DefaultFilters
<1>2. Jinja!Err' = Jinja!Err /\ Jinja!NoWork' = Jinja!NoWork
  BY DEF Jinja!Err, Jinja!NoWork
<1>3. \A a : ArgsFit(a)' <=> ArgsFit(a)
  BY DEF ArgsFit
<1>4. \A a, e : (Evaluates(a, e)' <=> Evaluates(a, e)) /\ (Keeps(a, e)' <=> Keeps(a, e))
  BY <1>1, <1>2 DEF Evaluates, Keeps
<1>5. \A a, s, p : PieceOf(a, s, p)' <=> PieceOf(a, s, p)
  BY <1>4 DEF PieceOf
<1>6. QED
  BY <1>1, <1>2, <1>3, <1>4, <1>5

\* A piece more.
LEMMA PieceMore ==
  ASSUME NEW K, NEW s \in Seq(K), NEW p \in K
  PROVE  /\ Append(s, p) \in Seq(K) /\ Len(Append(s, p)) = Len(s) + 1 /\ Len(s) \in Nat
         /\ \A k \in 1 .. Len(s) : Append(s, p)[k] = s[k]
         /\ Append(s, p)[Len(s) + 1] = p
BY AppendProperties, LenProperties

\* What Push leaves of the invariant's parts.
LEMMA PushFits ==
  ASSUME JinjaInv, server = "jinja", stage = "rendering", server' = server, UNCHANGED input,
         NEW kind \in {"data", "kept", "value"}, NEW n \in Nat, NEW w,
         w = [args |-> work.args, pieces |-> work.pieces, size |-> work.size,
              count |-> w.count, evaluated |-> w.evaluated],
         \A e \in w.evaluated : Evaluates(work.args, e),
         PieceOf(work.args, input.template[Len(work.pieces) + 1], kind),
         Jinja!Push(kind, n, w)
  PROVE  JinjaInv'
<1>0. /\ MAX_OUTPUT_BYTES \in Nat
      /\ work.size \in 0 .. MAX_OUTPUT_BYTES
      /\ work.pieces \in Seq({"data", "kept", "value", "none"})
      /\ ArgsFit(work.args) /\ input.template \in Templates
      /\ \A k \in 1 .. Len(work.pieces) : PieceOf(work.args, input.template[k], work.pieces[k])
      /\ output.is = "none"
  BY JinjaAssumption DEF JinjaAssumption, JinjaInv
<1>1. CASE w.size + n > MAX_OUTPUT_BYTES
  <2>1. stage' = "returned" /\ output' = [is |-> "err"] /\ work' = w
    BY <1>1 DEF Jinja!Push, Jinja!Returns
  <2>2. /\ output'.is = "err"
        /\ work'.args = work.args /\ work'.pieces = work.pieces /\ work'.size = work.size
        /\ work'.evaluated = w.evaluated /\ work'.count = w.count
    BY <2>1
  <2>3. QED
    BY <1>0, <2>1, <2>2, JinjaConstants DEF JinjaInv
<1>2. CASE ~(w.size + n > MAX_OUTPUT_BYTES)
  <2>1. /\ work' = [w EXCEPT !.pieces = Append(w.pieces, kind), !.size = w.size + n]
        /\ UNCHANGED <<stage, output>>
    BY <1>2 DEF Jinja!Push
  <2>2. /\ work' = [args |-> work'.args, pieces |-> work'.pieces, size |-> work'.size,
                    count |-> work'.count, evaluated |-> work'.evaluated]
        /\ work'.args = work.args /\ work'.evaluated = w.evaluated
        /\ work'.pieces = Append(work.pieces, kind) /\ work'.size = work.size + n
    <3>1. w.pieces = work.pieces /\ w.size = work.size
      OBVIOUS
    <3>2. work' = [args |-> work.args, pieces |-> Append(work.pieces, kind), size |-> work.size + n,
                   count |-> w.count, evaluated |-> w.evaluated]
      <4> DEFINE c == w.count
                 v == w.evaluated
      <4>1. w = [args |-> work.args, pieces |-> work.pieces, size |-> work.size,
                 count |-> c, evaluated |-> v]
        OBVIOUS
      <4> HIDE DEF c, v
      <4>2. work' = [args |-> work.args, pieces |-> Append(work.pieces, kind), size |-> work.size + n,
                     count |-> c, evaluated |-> v]
        BY <2>1, <3>1, <4>1
      <4>3. QED
        BY <4>2 DEF c, v
    <3>3. QED
      BY <3>2
  <2>3. work'.size \in 0 .. MAX_OUTPUT_BYTES
    <3>1. w.size = work.size
      OBVIOUS
    <3>2. QED
      BY <1>0, <1>2, <2>2, <3>1
  <2>4. /\ work'.pieces \in Seq({"data", "kept", "value", "none"})
        /\ Len(work'.pieces) = Len(work.pieces) + 1 /\ Len(work.pieces) \in Nat
        /\ \A k \in 1 .. Len(work.pieces) : work'.pieces[k] = work.pieces[k]
        /\ work'.pieces[Len(work.pieces) + 1] = kind
    BY <1>0, <2>2, PieceMore
  <2>5. \A k \in 1 .. Len(work'.pieces) : PieceOf(work.args, input.template[k], work'.pieces[k])
    BY <1>0, <2>4
  <2>6. QED
    BY <1>0, <2>1, <2>2, <2>3, <2>4, <2>5, JinjaConstants DEF JinjaInv
<1>3. QED
  BY <1>1, <1>2

\* The arguments of a render are sizes.
LEMMA MergedFit ==
  ASSUME NEW args \in Jinja!Args,
         NEW name \in {Jinja!None} \cup {Jinja!Some(x) : x \in Names},
         NEW value \in {Jinja!None} \cup {Jinja!Some(n) : n \in ArgSizes},
         (name = Jinja!None) <=> (value = Jinja!None)
  PROVE  ArgsFit(Jinja!merge(args, name, value))
<1>1. ArgSizes \subseteq Nat
  BY JinjaAssumption DEF JinjaAssumption
<1>2. \A x \in DOMAIN args : args[x] \in ArgSizes
  BY DEF Jinja!Args
<1>3. ASSUME NEW x \in name
      PROVE  (CHOOSE v \in value : TRUE) \in ArgSizes
  <2>1. PICK n \in ArgSizes : value = {n}
    BY <1>3 DEF Jinja!None, Jinja!Some
  <2>2. QED
    BY <2>1
<1>4. QED
  BY <1>1, <1>2, <1>3 DEF ArgsFit, Jinja!merge

\* The segment that is next, and its expression.
LEMMA NextSegment ==
  ASSUME JinjaInv, server = "jinja", NEW kind, Jinja!Finds(kind)
  PROVE  /\ stage = "rendering"
         /\ Jinja!Segment = input.template[Len(work.pieces) + 1]
         /\ Jinja!Segment.is = kind /\ Jinja!Segment.size \in Nat
         /\ kind = "expression" => Jinja!Segment.expr \in Expressions
<1>1. /\ stage = "rendering" /\ Len(work.pieces) < Len(input.template)
      /\ Jinja!Segment = input.template[Len(work.pieces) + 1] /\ Jinja!Segment.is = kind
  BY DEF Jinja!Finds, Jinja!Segment
<1>2. Len(work.pieces) \in Nat /\ input.template \in Templates
  BY <1>1, LenProperties DEF JinjaInv
<1> DEFINE t == input.template
<1>3. /\ t \in Seq({t[k] : k \in DOMAIN t})
      /\ \A k \in DOMAIN t : t[k].size \in Nat /\ (t[k].is = "expression" => t[k].expr \in Expressions)
  BY <1>2, JinjaAssumption DEF JinjaAssumption
<1> HIDE DEF t
<1>4. DOMAIN t = 1 .. Len(t) /\ Len(t) \in Nat
  BY <1>3, LenProperties
<1>5. Len(work.pieces) + 1 \in DOMAIN t
  BY <1>1, <1>2, <1>4 DEF t
<1>6. QED
  BY <1>1, <1>3, <1>5 DEF t

\* A render that has not begun.
LEMMA FreshFits ==
  ASSUME server' = "jinja", stage' \in {"rendering", "returned"}, input'.template \in Templates,
         work' = [args |-> work'.args, pieces |-> <<>>, size |-> 0,
                  count |-> work'.count, evaluated |-> {}],
         ArgsFit(work'.args), output'.is # "ok", stage' = "rendering" => output'.is = "none"
  PROVE  JinjaInv'
<1>1. /\ work'.pieces = <<>> /\ work'.size = 0 /\ work'.evaluated = {}
  OBVIOUS
<1>2. 0 \in 0 .. MAX_OUTPUT_BYTES /\ <<>> \in Seq({"data", "kept", "value", "none"})
  BY JinjaAssumption DEF JinjaAssumption
<1>3. \A k \in 1 .. Len(work'.pieces) : FALSE
  BY <1>1
<1>4. work' = [args |-> work'.args, pieces |-> work'.pieces, size |-> work'.size,
               count |-> work'.count, evaluated |-> work'.evaluated]
  BY <1>1
<1>5. QED
  BY <1>1, <1>2, <1>3, <1>4, JinjaConstants DEF JinjaInv

\* No step of render leaves a piece that is not of its segment.
LEMMA JinjaStep ==
  ASSUME JinjaInv, [Next]_vars
  PROVE  JinjaInv'
<1>1. CASE UNCHANGED vars
  BY <1>1, JinjaConstants DEF vars, JinjaInv
<1>2. CASE Next
  <2> SUFFICES ASSUME server' = "jinja"
               PROVE  JinjaInv'
    BY DEF JinjaInv
  <2>1. server = "jinja" /\ server' = server /\ Jinja!Next
    BY <1>2, WhoServes
  <2>0. /\ MAX_OUTPUT_BYTES \in Nat
        /\ work = [args |-> work.args, pieces |-> work.pieces, size |-> work.size,
                   count |-> work.count, evaluated |-> work.evaluated]
        /\ \A e \in work.evaluated : Evaluates(work.args, e)
        /\ ArgsFit(work.args)
    BY <2>1, JinjaAssumption DEF JinjaAssumption, JinjaInv
  <2>2. CASE Jinja!invoke
    <3>1. stage = "idle" /\ work = Jinja!NoWork /\ output.is = "none"
      BY <2>1, <2>2 DEF Jinja!invoke, JinjaInv
    <3>2. PICK t \in Templates, args \in Jinja!Args,
               name \in {Jinja!None} \cup {Jinja!Some(x) : x \in Names},
               value \in {Jinja!None} \cup {Jinja!Some(n) : n \in ArgSizes} :
            LET all == Jinja!merge(args, name, value) IN
            /\ input' = [template |-> t, args |-> args, name |-> name, value |-> value]
            /\ \/ Jinja!Fails
               \/ /\ (name = Jinja!None) <=> (value = Jinja!None)
                  /\ work' = [Jinja!NoWork EXCEPT !.args = all]
                  /\ stage' = "rendering"
                  /\ UNCHANGED output
      BY <2>2 DEF Jinja!invoke
    <3>3. input'.template = t
      BY <3>2
    <3>4. Jinja!NoWork = [args |-> <<>>, pieces |-> <<>>, size |-> 0, count |-> 0, evaluated |-> {}]
      BY DEF Jinja!NoWork
    <3>5. CASE Jinja!Fails
      <4>1. stage' = "returned" /\ output'.is = "err" /\ work' = Jinja!NoWork
        BY <3>1, <3>5 DEF Jinja!Fails, Jinja!Returns
      <4>2. ArgsFit(<<>>)
        BY DEF ArgsFit
      <4>3. work'.args = <<>> /\ work'.count = 0
        BY <3>4, <4>1
      <4>4. QED
        BY <2>1, <3>3, <3>4, <4>1, <4>2, <4>3, FreshFits
    <3>6. CASE ~Jinja!Fails
      <4>1. /\ stage' = "rendering" /\ UNCHANGED output
            /\ (name = Jinja!None) <=> (value = Jinja!None)
            /\ work' = [Jinja!NoWork EXCEPT !.args = Jinja!merge(args, name, value)]
        BY <3>2, <3>6
      <4>2. ArgsFit(Jinja!merge(args, name, value))
        BY <4>1, MergedFit
      <4>3. /\ work'.args = Jinja!merge(args, name, value) /\ work'.count = 0
            /\ work' = [args |-> Jinja!merge(args, name, value), pieces |-> <<>>, size |-> 0,
                        count |-> 0, evaluated |-> {}]
        BY <3>4, <4>1
      <4>4. QED
        BY <2>1, <3>1, <3>3, <4>1, <4>2, <4>3, FreshFits
    <3>7. QED
      BY <3>5, <3>6
  <2>3. CASE Jinja!TemplateData
    <3>1. Jinja!Finds("data") /\ Jinja!Push("data", Jinja!Segment.size, work) /\ UNCHANGED input
      BY <2>3 DEF Jinja!TemplateData
    <3>2. /\ stage = "rendering" /\ Jinja!Segment = input.template[Len(work.pieces) + 1]
          /\ Jinja!Segment.is = "data" /\ Jinja!Segment.size \in Nat
      BY <2>1, <3>1, NextSegment
    <3>3. PieceOf(work.args, input.template[Len(work.pieces) + 1], "data")
      BY <3>2 DEF PieceOf
    <3>4. QED
      BY <2>0, <2>1, <3>1, <3>2, <3>3, PushFits
  <2>4. CASE Jinja!Expression
    <3> DEFINE e == Jinja!Segment.expr
               counted == [work EXCEPT !.count = work.count + 1]
               evaluated == [counted EXCEPT !.evaluated = counted.evaluated \cup {e}]
    <3>1. /\ Jinja!Finds("expression") /\ UNCHANGED input
          /\ \/ Jinja!Fails
             \/ /\ Jinja!expression_bound(e, work.args) # Jinja!Err
                /\ Jinja!expression_bound(e, work.args) = Jinja!None
                /\ Jinja!Push("kept", Jinja!Segment.size, counted)
             \/ /\ Jinja!expression_bound(e, work.args) # Jinja!Err
                /\ Jinja!expression_bound(e, work.args) # Jinja!None
                /\ \/ Jinja!Returns([is |-> "err"]) /\ work' = evaluated
                   \/ \E size \in Jinja!Sizes(e, work.args) : Jinja!Push("value", size, evaluated)
      BY <2>4 DEF Jinja!Expression
    <3>2. /\ stage = "rendering" /\ Jinja!Segment = input.template[Len(work.pieces) + 1]
          /\ Jinja!Segment.is = "expression" /\ Jinja!Segment.size \in Nat /\ e \in Expressions
      BY <2>1, <3>1, NextSegment
    <3>3. /\ Jinja!expression_bound(e, work.args) = BoundAt(work.args, e)
          /\ Jinja!Sizes(e, work.args) = SizesAt(work.args, e)
      BY DEF Jinja!expression_bound, Jinja!Sizes, BoundAt, SizesAt, Top
    <3>4. SizesAt(work.args, e) \in SUBSET Nat
      BY <2>0, <3>2, SizesAtType
    <3>5. /\ counted = [args |-> work.args, pieces |-> work.pieces, size |-> work.size,
                        count |-> counted.count, evaluated |-> counted.evaluated]
          /\ counted.evaluated = work.evaluated
      BY <2>0
    <3>6. /\ evaluated = [args |-> work.args, pieces |-> work.pieces, size |-> work.size,
                          count |-> evaluated.count, evaluated |-> evaluated.evaluated]
          /\ evaluated.evaluated = work.evaluated \cup {e}
      <4>1. counted = [args |-> work.args, pieces |-> work.pieces, size |-> work.size,
                       count |-> work.count + 1, evaluated |-> work.evaluated]
        BY <2>0
      <4> HIDE DEF counted, e
      <4>2. evaluated = [args |-> work.args, pieces |-> work.pieces, size |-> work.size,
                         count |-> work.count + 1, evaluated |-> work.evaluated \cup {e}]
        BY <4>1
      <4>3. QED
        BY <4>2
    <3> HIDE DEF e, counted, evaluated
    <3>7. CASE Jinja!Fails
      <4>1. stage' = "returned" /\ output'.is = "err" /\ UNCHANGED <<input, work>>
        BY <3>1, <3>7 DEF Jinja!Fails, Jinja!Returns
      <4>2. QED
        BY <2>1, <3>2, <4>1, JinjaConstants DEF JinjaInv
    <3>8. CASE /\ BoundAt(work.args, e) # Jinja!Err /\ BoundAt(work.args, e) = {}
               /\ Jinja!Push("kept", Jinja!Segment.size, counted)
      <4>1. PieceOf(work.args, input.template[Len(work.pieces) + 1], "kept")
        BY <3>2, <3>8 DEF PieceOf, Keeps, e
      <4>2. QED
        BY <2>0, <2>1, <3>1, <3>2, <3>5, <3>8, <4>1, PushFits
    <3>9. CASE BoundAt(work.args, e) # Jinja!Err /\ BoundAt(work.args, e) # {}
      <4>1. Evaluates(work.args, e)
        BY <3>2, <3>9 DEF Evaluates
      <4>2. \A x \in evaluated.evaluated : Evaluates(work.args, x)
        BY <2>0, <3>6, <4>1
      <4>3. CASE Jinja!Returns([is |-> "err"]) /\ work' = evaluated
        <5>1. /\ stage' = "returned" /\ output'.is = "err" /\ UNCHANGED input
              /\ work' = [args |-> work'.args, pieces |-> work'.pieces, size |-> work'.size,
                          count |-> work'.count, evaluated |-> work'.evaluated]
              /\ work'.args = work.args /\ work'.pieces = work.pieces /\ work'.size = work.size
              /\ work'.evaluated = evaluated.evaluated
          BY <3>1, <3>6, <4>3 DEF Jinja!Returns
        <5>2. QED
          BY <2>0, <2>1, <3>2, <4>2, <5>1, JinjaConstants DEF JinjaInv
      <4>4. ASSUME NEW size \in SizesAt(work.args, e), Jinja!Push("value", size, evaluated)
            PROVE  JinjaInv'
        <5>1. size \in Nat
          BY <3>4
        <5>2. PieceOf(work.args, input.template[Len(work.pieces) + 1], "value")
          BY <3>2, <4>1 DEF PieceOf, e
        <5>3. QED
          BY <2>1, <3>1, <3>2, <3>6, <4>2, <4>4, <5>1, <5>2, PushFits
      <4>5. \/ Jinja!Fails
            \/ Jinja!Returns([is |-> "err"]) /\ work' = evaluated
            \/ \E size \in SizesAt(work.args, e) : Jinja!Push("value", size, evaluated)
        BY <3>1, <3>3, <3>9 DEF Jinja!None
      <4>6. QED
        BY <3>7, <4>3, <4>4, <4>5
    <3>10. QED
      BY <3>1, <3>3, <3>7, <3>8, <3>9 DEF Jinja!None
  <2>5. CASE Jinja!Comment
    <3>1. /\ Jinja!Finds("comment") /\ UNCHANGED <<stage, input, output>>
          /\ work' = [work EXCEPT !.pieces = Append(work.pieces, "none")]
      BY <2>5 DEF Jinja!Comment
    <3>2. /\ stage = "rendering" /\ Jinja!Segment = input.template[Len(work.pieces) + 1]
          /\ Jinja!Segment.is = "comment"
      BY <2>1, <3>1, NextSegment
    <3>3. PieceOf(work.args, input.template[Len(work.pieces) + 1], "none")
      BY <3>2 DEF PieceOf
    <3>4. /\ work' = [args |-> work'.args, pieces |-> work'.pieces, size |-> work'.size,
                      count |-> work'.count, evaluated |-> work'.evaluated]
          /\ work'.args = work.args /\ work'.size = work.size /\ work'.evaluated = work.evaluated
          /\ work'.pieces = Append(work.pieces, "none")
      BY <2>0, <3>1
    <3>5. work.pieces \in Seq({"data", "kept", "value", "none"}) /\ output.is = "none"
      BY <2>1, <3>2 DEF JinjaInv
    <3>6. /\ work'.pieces \in Seq({"data", "kept", "value", "none"})
          /\ Len(work'.pieces) = Len(work.pieces) + 1 /\ Len(work.pieces) \in Nat
          /\ \A k \in 1 .. Len(work.pieces) : work'.pieces[k] = work.pieces[k]
          /\ work'.pieces[Len(work.pieces) + 1] = "none"
      BY <3>4, <3>5, PieceMore
    <3>7. \A k \in 1 .. Len(work.pieces) : PieceOf(work.args, input.template[k], work.pieces[k])
      BY <2>1 DEF JinjaInv
    <3>8. \A k \in 1 .. Len(work'.pieces) : PieceOf(work.args, input.template[k], work'.pieces[k])
      BY <3>3, <3>6, <3>7
    <3>9. QED
      BY <2>0, <2>1, <3>1, <3>2, <3>4, <3>5, <3>6, <3>8, JinjaConstants DEF JinjaInv
  <2>6. CASE Jinja!Unsupported
    <3>1. /\ stage = "rendering" /\ UNCHANGED <<input, work>>
          /\ stage' = "returned" /\ output'.is = "err"
      BY <2>6 DEF Jinja!Unsupported, Jinja!Finds, Jinja!Fails, Jinja!Returns
    <3>2. QED
      BY <2>1, <3>1, JinjaConstants DEF JinjaInv
  <2>7. CASE Jinja!Rendered
    <3>1. /\ stage = "rendering" /\ Len(work.pieces) = Len(input.template)
          /\ stage' = "returned" /\ output' = [is |-> "ok", size |-> work.size]
          /\ UNCHANGED <<input, work>>
      BY <2>7 DEF Jinja!Rendered, Jinja!Returns
    <3>2. output'.size = work.size
      BY <3>1
    <3>3. QED
      BY <2>1, <3>1, <3>2, JinjaConstants DEF JinjaInv
  <2>8. QED
    BY <2>1, <2>2, <2>3, <2>4, <2>5, <2>6, <2>7 DEF Jinja!Next
<1>3. QED
  BY <1>1, <1>2

\* No text made inside an expression whose arguments have bounds, nor what is returned,
\* is larger than the output limit; every segment has its piece, and an expression stays as
\* it is written exactly when a variable that its value needs is missing (expression_bound,
\* render).
THEOREM RenderBounded == Spec => []RenderIsBounded
<1>1. Init => JinjaInv
  <2> SUFFICES ASSUME Init, server = "jinja"
               PROVE  JinjaInv
    BY DEF JinjaInv
  <2>1. stage = "idle" /\ work = Jinja!NoWork /\ output.is = "none"
    BY DEF Init, Jinja!Init
  <2>2. work = [args |-> <<>>, pieces |-> <<>>, size |-> 0, count |-> 0, evaluated |-> {}]
    BY <2>1 DEF Jinja!NoWork
  <2>3. /\ work.args = <<>> /\ work.pieces = <<>> /\ work.size = 0 /\ work.evaluated = {}
        /\ work.count = 0
    BY <2>2
  <2>4. ArgsFit(<<>>) /\ <<>> \in Seq({"data", "kept", "value", "none"}) /\ 0 \in 0 .. MAX_OUTPUT_BYTES
    BY JinjaAssumption DEF JinjaAssumption, ArgsFit
  <2>5. \A k \in 1 .. Len(work.pieces) : FALSE
    BY <2>3
  <2>6. QED
    BY <2>1, <2>2, <2>3, <2>4, <2>5 DEF JinjaInv
<1>2. JinjaInv => RenderIsBounded
  <2> SUFFICES ASSUME JinjaInv, server = "jinja"
               PROVE  Jinja!EveryTextIsBounded /\ Jinja!OutputIsBounded /\ Jinja!KeptWhenMissing
    BY DEF RenderIsBounded
  <2>1. /\ ArgsFit(work.args)
        /\ work.size \in 0 .. MAX_OUTPUT_BYTES
        /\ \A e \in work.evaluated : Evaluates(work.args, e)
        /\ work.pieces \in Seq({"data", "kept", "value", "none"})
        /\ \A k \in 1 .. Len(work.pieces) : PieceOf(work.args, input.template[k], work.pieces[k])
        /\ output.is = "ok" => output.size = work.size /\ Len(work.pieces) = Len(input.template)
        /\ MAX_OUTPUT_BYTES \in Nat
    BY JinjaAssumption DEF JinjaInv, JinjaAssumption
  <2>2. DOMAIN work.pieces = 1 .. Len(work.pieces)
    BY <2>1, LenProperties
  <2>3. /\ \A e : Jinja!Parts(e) = PartsAt(e)
        /\ \A e, a : Jinja!Sizes(e, a) = SizesAt(a, e)
    BY DEF Jinja!Parts, PartsAt, Jinja!Sizes, SizesAt, Top
  <2>4. \A e : Jinja!Missing(e) = MissingIn(work.args, e)
    BY <2>3 DEF Jinja!Missing, MissingIn
  <2>5. \A e : Jinja!LooksAtNothingElse(e) => LooksIn(work.args, e)
    BY <2>3, <2>4 DEF Jinja!LooksAtNothingElse, LooksIn
  <2>6. Jinja!EveryTextIsBounded
    <3> SUFFICES ASSUME NEW e \in work.evaluated, Jinja!LooksAtNothingElse(e),
                        NEW p \in Jinja!Parts(e), NEW n \in Jinja!Sizes(p, work.args)
                 PROVE  n <= MAX_OUTPUT_BYTES
      BY DEF Jinja!EveryTextIsBounded
    <3>1. e \in Expressions /\ BoundAt(work.args, e) # Jinja!Err /\ BoundAt(work.args, e) # {}
      BY <2>1 DEF Evaluates
    <3>2. Fits(work.args, e)
      BY <2>1, <3>1, BoundedFits
    <3>3. Covers(work.args, e)
      BY <2>5, <3>1, <3>2 DEF Fits
    <3>4. QED
      BY <2>3, <3>3 DEF Covers
  <2>7. Jinja!OutputIsBounded
    <3> SUFFICES ASSUME output.is = "ok"
                 PROVE  /\ output.size <= MAX_OUTPUT_BYTES
                        /\ Len(work.pieces) = Len(input.template)
                        /\ \A k \in DOMAIN work.pieces :
                             work.pieces[k] = "none" <=> input.template[k].is = "comment"
      BY DEF Jinja!OutputIsBounded
    <3>1. output.size <= MAX_OUTPUT_BYTES /\ Len(work.pieces) = Len(input.template)
      BY <2>1
    <3>2. QED
      BY <2>1, <2>2, <3>1 DEF PieceOf
  <2>8. Jinja!KeptWhenMissing
    <3> SUFFICES ASSUME NEW k \in DOMAIN work.pieces
                 PROVE  /\ work.pieces[k] = "kept" =>
                             /\ input.template[k].is = "expression"
                             /\ ~(Jinja!Needs(input.template[k].expr) \subseteq DOMAIN work.args)
                        /\ work.pieces[k] = "value" =>
                             Jinja!Needs(input.template[k].expr) \subseteq DOMAIN work.args
      BY DEF Jinja!KeptWhenMissing
    <3> DEFINE e == input.template[k].expr
    <3>1. PieceOf(work.args, input.template[k], work.pieces[k])
      BY <2>1, <2>2
    <3>2. Jinja!Needs(e) = Jinja!needs[Top][e]
      BY DEF Jinja!Needs, Top
    <3>3. ASSUME work.pieces[k] = "kept"
          PROVE  input.template[k].is = "expression" /\ ~(Jinja!Needs(e) \subseteq DOMAIN work.args)
      <4>1. /\ input.template[k].is = "expression" /\ e \in Expressions
            /\ BoundAt(work.args, e) # Jinja!Err /\ BoundAt(work.args, e) = {}
        BY <3>1, <3>3 DEF PieceOf, Keeps
      <4>2. QED
        BY <2>1, <3>2, <4>1, UnboundedNeeds
    <3>4. ASSUME work.pieces[k] = "value"
          PROVE  Jinja!Needs(e) \subseteq DOMAIN work.args
      <4>1. e \in Expressions /\ BoundAt(work.args, e) # Jinja!Err /\ BoundAt(work.args, e) # {}
        BY <3>1, <3>4 DEF PieceOf, Evaluates
      <4>2. QED
        BY <2>1, <3>2, <4>1, UnboundedNeeds
    <3>5. QED
      BY <3>3, <3>4
  <2>9. QED
    BY <2>6, <2>7, <2>8
<1>3. QED
  BY <1>1, <1>2, JinjaStep, PTL DEF Spec

=============================================================================
