--------------------------- MODULE RequestsProofs ---------------------------
(***************************************************************************)
(* The parsers of main.c against the grammar, for requests of any length   *)
(* that arrive cut in any way.                                             *)
(***************************************************************************)
EXTENDS Requests, SequenceTheorems, WellFoundedInduction, TLAPS

Byte == 0..255

(* A greeting of k bytes, and a request from byte h + 1 to byte e, of b.    *)
Greet(b, k) == k >= 2 /\ k = 2 + b[2] /\ b[1] = 5 /\ \E i \in 3..k : b[i] = 0

Sent(b, h, e) == SubSeq(b, h + (IF b[h + 4] = 1 THEN 5 ELSE 6), e - 2)
ReqHost(b, h, e) == IF b[h + 4] = 1 THEN Sent(b, h, e) ELSE c_string(Sent(b, h, e))

Req(b, h, e) ==
    /\ e - h >= 8 /\ b[h + 1] = 5 /\ b[h + 2] = 1 /\ b[h + 3] = 0 /\ b[h + 4] \in {1, 3}
    /\ e = h + (IF b[h + 4] = 1 THEN 10 ELSE 7 + b[h + 5])
    /\ ReqHost(b, h, e) # <<>>
    /\ valid_port(256 * b[e - 1] + b[e])

ReqTarget(b, h, e) == [host |-> ReqHost(b, h, e), port |-> 256 * b[e - 1] + b[e]]

-----------------------------------------------------------------------------
(* A byte is a natural number.                                              *)
LEMMA ByteNat == \A v \in Byte : v \in Nat
BY DEF Byte

(* A part of a sequence.                                                    *)
LEMMA Part ==
    ASSUME NEW S, NEW s \in Seq(S), NEW m \in 1..(Len(s) + 1), NEW n \in (m - 1)..Len(s)
    PROVE  /\ SubSeq(s, m, n) \in Seq(S)
           /\ Len(SubSeq(s, m, n)) = n - m + 1
           /\ \A i \in 1..(n - m + 1) : SubSeq(s, m, n)[i] = s[m + i - 1]
<1>1. m \in Int /\ n \in Int /\ \A i \in m..n : s[i] \in S
  OBVIOUS
<1> QED
  BY <1>1, SubSeqProperties

(* A part of a part.                                                        *)
LEMMA PartOfPart ==
    ASSUME NEW S, NEW s \in Seq(S), NEW m \in 1..(Len(s) + 1), NEW n \in (m - 1)..Len(s),
           NEW i \in 1..(n - m + 2), NEW j \in (i - 1)..(n - m + 1)
    PROVE  SubSeq(SubSeq(s, m, n), i, j) = SubSeq(s, m + i - 1, m + j - 1)
<1> DEFINE t == SubSeq(s, m, n)
           x == SubSeq(t, i, j)
           y == SubSeq(s, m + i - 1, m + j - 1)
<1>1. t \in Seq(S) /\ Len(t) = n - m + 1 /\ \A k \in 1..(n - m + 1) : t[k] = s[m + k - 1]
  BY Part
<1> HIDE DEF t
<1>2. i \in 1..(Len(t) + 1) /\ j \in (i - 1)..Len(t)
  BY <1>1
<1>3. x \in Seq(S) /\ Len(x) = j - i + 1 /\ \A k \in 1..(j - i + 1) : x[k] = t[i + k - 1]
  BY <1>1, <1>2, Part
<1>4. m + i - 1 \in 1..(Len(s) + 1) /\ m + j - 1 \in ((m + i - 1) - 1)..Len(s)
      /\ (m + j - 1) - (m + i - 1) + 1 = j - i + 1
  OBVIOUS
<1>5. y \in Seq(S) /\ Len(y) = j - i + 1 /\ \A k \in 1..(j - i + 1) : y[k] = s[(m + i - 1) + k - 1]
  BY <1>4, Part
<1> HIDE DEF x, y
<1>6. \A k \in 1..(j - i + 1) : x[k] = y[k]
  <2> SUFFICES ASSUME NEW k \in 1..(j - i + 1) PROVE x[k] = y[k]
    OBVIOUS
  <2>1. x[k] = t[i + k - 1] /\ y[k] = s[(m + i - 1) + k - 1]
    BY <1>3, <1>5
  <2>2. i + k - 1 \in 1..(n - m + 1) /\ m + (i + k - 1) - 1 = (m + i - 1) + k - 1
    OBVIOUS
  <2> QED
    BY <1>1, <2>1, <2>2
<1>7. x = y
  BY <1>3, <1>5, <1>6, SeqEqual
<1> QED
  BY <1>7 DEF x, y, t

(* The bytes h + 1 to e of b.                                               *)
LEMMA Bytes ==
    ASSUME NEW S, NEW b \in Seq(S), NEW h \in 0..Len(b), NEW e \in h..Len(b)
    PROVE  /\ SubSeq(b, h + 1, e) \in Seq(S)
           /\ Len(SubSeq(b, h + 1, e)) = e - h
           /\ \A i \in 1..(e - h) : SubSeq(b, h + 1, e)[i] = b[h + i]
<1>1. h + 1 \in 1..(Len(b) + 1) /\ e \in ((h + 1) - 1)..Len(b) /\ e - (h + 1) + 1 = e - h
  OBVIOUS
<1>2. /\ SubSeq(b, h + 1, e) \in Seq(S)
      /\ Len(SubSeq(b, h + 1, e)) = e - (h + 1) + 1
      /\ \A i \in 1..(e - (h + 1) + 1) : SubSeq(b, h + 1, e)[i] = b[(h + 1) + i - 1]
  BY <1>1, Part
<1>3. \A i \in 1..(e - h) : (h + 1) + i - 1 = h + i
  OBVIOUS
<1> QED
  BY <1>1, <1>2, <1>3

(* ... and bytes i + 1 to j of them.                                        *)
LEMMA BytesOfBytes ==
    ASSUME NEW S, NEW b \in Seq(S), NEW h \in 0..Len(b), NEW e \in h..Len(b),
           NEW i \in 0..(e - h), NEW j \in i..(e - h)
    PROVE  SubSeq(SubSeq(b, h + 1, e), i + 1, j) = SubSeq(b, h + i + 1, h + j)
<1>1. /\ h + 1 \in 1..(Len(b) + 1) /\ e \in ((h + 1) - 1)..Len(b)
      /\ i + 1 \in 1..(e - (h + 1) + 2) /\ j \in ((i + 1) - 1)..(e - (h + 1) + 1)
      /\ (h + 1) + (i + 1) - 1 = h + i + 1 /\ (h + 1) + j - 1 = h + j
  OBVIOUS
<1>2. SubSeq(SubSeq(b, h + 1, e), i + 1, j) = SubSeq(b, (h + 1) + (i + 1) - 1, (h + 1) + j - 1)
  BY <1>1, PartOfPart
<1> QED
  BY <1>1, <1>2

(* The first n bytes of b.                                                  *)
LEMMA Prefix ==
    ASSUME NEW S, NEW b \in Seq(S), NEW n \in 0..Len(b)
    PROVE  SubSeq(b, 1, n) \in Seq(S) /\ Len(SubSeq(b, 1, n)) = n /\ \A i \in 1..n : SubSeq(b, 1, n)[i] = b[i]
<1>1. 0 \in 0..Len(b) /\ n \in 0..Len(b) /\ 0 + 1 = 1 /\ n - 0 = n /\ \A i \in 1..n : 0 + i = i
  OBVIOUS
<1> QED
  BY <1>1, Bytes

(* ... and what follows byte j of them.                                     *)
LEMMA Rest ==
    ASSUME NEW S, NEW b \in Seq(S), NEW n \in 0..Len(b), NEW j \in 0..n
    PROVE  After(SubSeq(b, 1, n), j) = SubSeq(b, j + 1, n)
<1>1. 0 \in 0..Len(b) /\ n \in 0..Len(b) /\ 0 + 1 = 1 /\ j \in 0..(n - 0) /\ n \in j..(n - 0) /\ 0 + j + 1 = j + 1 /\ 0 + n = n
  OBVIOUS
<1>2. SubSeq(SubSeq(b, 0 + 1, n), j + 1, n) = SubSeq(b, 0 + j + 1, 0 + n)
  BY <1>1, BytesOfBytes
<1> QED
  BY <1>1, <1>2, Prefix DEF After

-----------------------------------------------------------------------------
(* SOCKS: the grammar, said of the bytes of b.                              *)
LEMMA GreetIs ==
    ASSUME NEW b \in Seq(Byte), NEW n \in 0..Len(b), NEW k \in 0..n
    PROVE  IsGreeting(SubSeq(SubSeq(b, 1, n), 1, k)) <=> Greet(b, k)
<1> DEFINE x == SubSeq(b, 1, k)
<1>1. SubSeq(SubSeq(b, 1, n), 1, k) = x
  <2>1. 1 \in 1..(Len(b) + 1) /\ n \in (1 - 1)..Len(b) /\ 1 \in 1..(n - 1 + 2) /\ k \in (1 - 1)..(n - 1 + 1)
    OBVIOUS
  <2>2. SubSeq(SubSeq(b, 1, n), 1, k) = SubSeq(b, 1 + 1 - 1, 1 + k - 1)
    BY <2>1, PartOfPart
  <2>3. 1 + 1 - 1 = 1 /\ 1 + k - 1 = k
    OBVIOUS
  <2> QED
    BY <2>2, <2>3
<1>2. Len(x) = k /\ \A i \in 1..k : x[i] = b[i]
  <2>1. k \in 0..Len(b)
    OBVIOUS
  <2> QED
    BY <2>1, Prefix
<1> HIDE DEF x
<1>3. IsGreeting(x) <=> Greet(b, k)
  <2>1. CASE k < 2
    BY <1>2, <2>1 DEF IsGreeting, Greet
  <2>2. CASE k >= 2
    <3>1. x[1] = b[1] /\ x[2] = b[2] /\ \A i \in 3..k : x[i] = b[i]
      BY <1>2, <2>2
    <3> QED
      BY <1>2, <2>2, <3>1 DEF IsGreeting, Greet
  <2> QED
    BY <2>1, <2>2
<1> QED
  BY <1>1, <1>3, Zenon

(* The version, command and reserved bytes of a request.                    *)
LEMMA FirstThree ==
    ASSUME NEW x \in Seq(Byte), Len(x) >= 4
    PROVE  SubSeq(x, 1, 3) = <<5, 1, 0>> <=> x[1] = 5 /\ x[2] = 1 /\ x[3] = 0
<1> DEFINE y == SubSeq(x, 1, 3)
<1>1. 3 \in 0..Len(x)
  OBVIOUS
<1>2. y \in Seq(Byte) /\ Len(y) = 3 /\ \A i \in 1..3 : y[i] = x[i]
  BY <1>1, Prefix
<1>3. y \in Seq(Byte) /\ Len(y) = 3 /\ y[1] = x[1] /\ y[2] = x[2] /\ y[3] = x[3]
  BY <1>1, <1>2
<1> HIDE DEF y
<1>4. <<5, 1, 0>> \in Seq(Byte) /\ Len(<<5, 1, 0>>) = 3
  BY DEF Byte
<1>5. y = <<5, 1, 0>> <=> y[1] = 5 /\ y[2] = 1 /\ y[3] = 0
  BY <1>3, <1>4, SeqEqual
<1> QED
  BY <1>3, <1>5 DEF y

(* The grammar's request from byte h + 1 to byte e.                         *)
LEMMA SocksRequestIs ==
    ASSUME NEW b \in Seq(Byte), NEW h \in 0..Len(b), NEW e \in h..Len(b)
    PROVE  /\ IsSocksRequest(SubSeq(b, h + 1, e)) <=> Req(b, h, e)
           /\ Req(b, h, e) => SocksTarget(SubSeq(b, h + 1, e)) = ReqTarget(b, h, e)
<1> DEFINE x == SubSeq(b, h + 1, e)
           f == IF b[h + 4] = 1 THEN 5 ELSE 6
<1>1. x \in Seq(Byte) /\ Len(x) = e - h /\ \A i \in 1..(e - h) : x[i] = b[h + i]
  BY Bytes
<1>2. CASE e - h < 8
  BY <1>1, <1>2 DEF IsSocksRequest, Req
<1>3. CASE e - h >= 8
  <2>1. /\ x[1] = b[h + 1] /\ x[2] = b[h + 2] /\ x[3] = b[h + 3] /\ x[4] = b[h + 4] /\ x[5] = b[h + 5]
        /\ x[e - h - 1] = b[h + (e - h - 1)] /\ x[e - h] = b[h + (e - h)]
        /\ h + (e - h - 1) = e - 1 /\ h + (e - h) = e
    BY <1>1, <1>3
  <2>2. SubSeq(x, 1, 3) = <<5, 1, 0>> <=> b[h + 1] = 5 /\ b[h + 2] = 1 /\ b[h + 3] = 0
    <3> HIDE DEF x
    <3>1. Len(x) >= 4
      BY <1>1, <1>3
    <3> QED
      BY <1>1, <2>1, <3>1, FirstThree, Zenon
  <2>3. Len(SubSeq(x, f, (e - h) - 2)) = (e - h) - 2 - f + 1
    <3>1. /\ f \in 1..(Len(x) + 1) /\ (e - h) - 2 \in (f - 1)..Len(x)
      BY <1>1, <1>3
    <3> HIDE DEF x, f
    <3> QED
      BY <1>1, <3>1, Part
  <2>4. SubSeq(x, f, (e - h) - 2) = SubSeq(b, h + f, e - 2)
    <3>1. f - 1 \in 0..(e - h) /\ (e - h) - 2 \in (f - 1)..(e - h) /\ (f - 1) + 1 = f
          /\ h + (f - 1) + 1 = h + f /\ h + ((e - h) - 2) = e - 2
      BY <1>3
    <3>2. SubSeq(x, (f - 1) + 1, (e - h) - 2) = SubSeq(b, h + (f - 1) + 1, h + ((e - h) - 2))
      <4> DEFINE i == f - 1
                 j == (e - h) - 2
      <4>1. i \in 0..(e - h) /\ j \in i..(e - h)
        BY <3>1
      <4> HIDE DEF x, f, i, j
      <4>2. SubSeq(SubSeq(b, h + 1, e), i + 1, j) = SubSeq(b, h + i + 1, h + j)
        BY <4>1, BytesOfBytes
      <4> QED
        BY <4>2, Zenon DEF x, i, j
    <3> HIDE DEF x, f
    <3> QED
      BY <3>1, <3>2, Zenon
  <2>h. SocksHost(x) = Sent(b, h, e) /\ Len(SocksHost(x)) = (e - h) - 2 - f + 1
    <3> HIDE DEF x
    <3>1. SocksHost(x) = SubSeq(x, f, (e - h) - 2)
      BY <1>1, <2>1, Zenon DEF SocksHost
    <3> QED
      BY <2>3, <2>4, <3>1, Zenon DEF Sent
  <2>5. SocksTarget(x) = ReqTarget(b, h, e)
    <3> HIDE DEF x, f
    <3> QED
      BY <1>1, <2>1, <2>h, ZenonT(30) DEF SocksTarget, ReqTarget, ReqHost
  <2>6. IsSocksRequest(x) <=> Req(b, h, e)
    <3> HIDE DEF x
    <3>1. b[h + 5] \in Int
      <4>1. h + 5 \in 1..Len(b)
        BY <1>3
      <4>2. b[h + 5] \in Byte
        BY <4>1
      <4> QED
        BY <4>2, ByteNat
    <3> HIDE DEF f
    <3>2. SocksTarget(x).host = ReqHost(b, h, e) /\ SocksTarget(x).port = 256 * b[e - 1] + b[e]
      <4> DEFINE port == 256 * b[e - 1] + b[e]
                 host == ReqHost(b, h, e)
      <4>1. ReqTarget(b, h, e) = [host |-> host, port |-> port]
        BY DEF ReqTarget
      <4> HIDE DEF port, host
      <4>2. ReqTarget(b, h, e).host = host /\ ReqTarget(b, h, e).port = port
        BY <4>1
      <4> QED
        BY <2>5, <4>2 DEF port, host
    <3>3. b[h + 4] \in {1, 3} =>
             ((e - h) - 2 - f + 1 = (IF b[h + 4] = 1 THEN 4 ELSE b[h + 5])
              <=> e = h + (IF b[h + 4] = 1 THEN 10 ELSE 7 + b[h + 5]))
      BY <3>1, SMTT(20) DEF f
    <3>4. Len(SocksHost(x)) = (IF x[4] = 1 THEN 4 ELSE x[5])
             <=> (e - h) - 2 - f + 1 = (IF b[h + 4] = 1 THEN 4 ELSE b[h + 5])
      BY <2>1, <2>h, Zenon
    <3>5. Len(x) >= 8 /\ e - h >= 8 /\ (x[4] \in {1, 3} <=> b[h + 4] \in {1, 3})
      BY <1>1, <1>3, <2>1
    <3> QED
      BY <2>2, <3>2, <3>3, <3>4, <3>5, Zenon DEF IsSocksRequest, Req
  <2> QED
    BY <2>5, <2>6 DEF Req
<1> QED
  BY <1>2, <1>3
(* What the parsers return.                                                 *)
LEMMA Outcomes ==
    /\ Closed.to = "CLOSED" /\ Closed.target = NoTarget /\ Closed.out = Nothing
    /\ \A ph, rest : /\ Wait(ph, rest).to = ph /\ Wait(ph, rest).rest = rest
                     /\ Wait(ph, rest).target = NoTarget /\ Wait(ph, rest).out = Nothing
    /\ \A host, port, out :
          /\ Start(host, port, out).to = "RESOLVING" /\ Start(host, port, out).out = out
          /\ Start(host, port, out).target = [host |-> host, port |-> port]
BY DEF Closed, Wait, Start

(* The verdict r on bytes h + 1 to m of b is right.                         *)
SocksVerdict(r, b, h, m) ==
    \/ /\ r.to = "SOCKS_REQUEST" /\ r.rest = SubSeq(b, h + 1, m)
       /\ \A e \in h..m : ~Req(b, h, e)
    \/ /\ r.to = "CLOSED"
       /\ \A e \in h..Len(b) : ~Req(b, h, e)
    \/ /\ r.to = "RESOLVING"
       /\ \E e \in h..m : /\ Req(b, h, e) /\ r.target = ReqTarget(b, h, e)
                          /\ r.out = [path |-> <<>>, data |-> SubSeq(b, e + 1, m)]

(* parse_socks_request waits, refuses or starts as the grammar asks.        *)
LEMMA ParseSocks ==
    ASSUME NEW b \in Seq(Byte), NEW h \in 0..Len(b), NEW m \in h..Len(b)
    PROVE  SocksVerdict(parse_socks_request(SubSeq(b, h + 1, m)), b, h, m)
<1> DEFINE q == SubSeq(b, h + 1, m)
           r == parse_socks_request(q)
           domain == q[4] = 3
           at == IF domain THEN 5 ELSE 4
           n == IF domain THEN q[5] ELSE 4
           sent == SubSeq(q, at + 1, at + n)
           host == IF domain THEN c_string(sent) ELSE sent
           port == q[at + n + 1] * 256 + q[at + n + 2]
<1>1. q \in Seq(Byte) /\ Len(q) = m - h /\ \A i \in 1..(m - h) : q[i] = b[h + i]
  BY Bytes
<1>2. r = IF Len(q) < 4 THEN Wait("SOCKS_REQUEST", q)
          ELSE IF SubSeq(q, 1, 3) # <<5, 1, 0>> \/ q[4] \notin {1, 3} THEN Closed
          ELSE IF domain /\ Len(q) < 5 THEN Wait("SOCKS_REQUEST", q)
          ELSE IF n = 0 THEN Closed
          ELSE IF Len(q) < at + n + 2 THEN Wait("SOCKS_REQUEST", q)
          ELSE IF host = <<>> \/ ~valid_port(port) THEN Closed
          ELSE Start(host, port, [Nothing EXCEPT !.data = After(q, at + n + 2)])
  BY DEF parse_socks_request
<1>w. ASSUME r = Wait("SOCKS_REQUEST", q), \A e \in h..m : ~Req(b, h, e)
      PROVE  SocksVerdict(r, b, h, m)
  <2> HIDE DEF q, r
  <2>0. Wait("SOCKS_REQUEST", q).to = "SOCKS_REQUEST" /\ Wait("SOCKS_REQUEST", q).rest = q
    BY Outcomes
  <2>1. r.to = "SOCKS_REQUEST" /\ r.rest = q
    BY <1>w, <2>0
  <2> QED
    BY <1>w, <2>1 DEF SocksVerdict, q
<1>t. Len(q) >= 4 => (SubSeq(q, 1, 3) = <<5, 1, 0>> <=> b[h + 1] = 5 /\ b[h + 2] = 1 /\ b[h + 3] = 0)
  <2> SUFFICES ASSUME Len(q) >= 4
               PROVE  SubSeq(q, 1, 3) = <<5, 1, 0>> <=> b[h + 1] = 5 /\ b[h + 2] = 1 /\ b[h + 3] = 0
    OBVIOUS
  <2> HIDE DEF q
  <2>1. q[1] = b[h + 1] /\ q[2] = b[h + 2] /\ q[3] = b[h + 3]
    BY <1>1
  <2> QED
    BY <1>1, <2>1, FirstThree
<1> HIDE DEF q, r
<1>3. CASE Len(q) < 4
  <2>1. r = Wait("SOCKS_REQUEST", q)
    BY <1>2, <1>3
  <2>2. \A e \in h..m : ~Req(b, h, e)
    BY <1>1, <1>3 DEF Req
  <2> QED
    BY <1>w, <2>1, <2>2 DEF q, r
<1>4. CASE Len(q) >= 4 /\ (SubSeq(q, 1, 3) # <<5, 1, 0>> \/ q[4] \notin {1, 3})
  <2>1. r = Closed
    BY <1>1, <1>2, <1>4
  <2>2. \A e \in h..Len(b) : ~Req(b, h, e)
    <3>1. SubSeq(q, 1, 3) = <<5, 1, 0>> <=> b[h + 1] = 5 /\ b[h + 2] = 1 /\ b[h + 3] = 0
      BY <1>4, <1>t
    <3>2. q[4] = b[h + 4]
      BY <1>1, <1>4
    <3> QED
      BY <1>4, <3>1, <3>2 DEF Req
  <2> QED
    BY <2>1, <2>2, Outcomes DEF SocksVerdict, q, r
<1>5. CASE Len(q) >= 4 /\ SubSeq(q, 1, 3) = <<5, 1, 0>> /\ q[4] \in {1, 3}
  <2>0. /\ q[4] = b[h + 4] /\ b[h + 4] \in {1, 3}
        /\ b[h + 1] = 5 /\ b[h + 2] = 1 /\ b[h + 3] = 0
    <3>1. SubSeq(q, 1, 3) = <<5, 1, 0>> <=> b[h + 1] = 5 /\ b[h + 2] = 1 /\ b[h + 3] = 0
      BY <1>5, <1>t
    <3> QED
      BY <1>1, <1>5, <3>1, SMTT(20)
  <2>1. CASE domain /\ Len(q) < 5
    <3>1. r = Wait("SOCKS_REQUEST", q)
      BY <1>1, <1>2, <1>5, <2>1
    <3>2. \A e \in h..m : ~Req(b, h, e)
      BY <1>1, <2>1 DEF Req
    <3> QED
      BY <1>w, <3>1, <3>2 DEF q, r
  <2>2. CASE ~(domain /\ Len(q) < 5)
    <3>1. n \in Nat /\ ((at = 5 /\ n = b[h + 5] /\ b[h + 4] = 3) \/ (at = 4 /\ n = 4 /\ b[h + 4] = 1))
      <4>1. CASE domain
        <5>1. 5 \in 1..Len(q) /\ 5 \in 1..(m - h)
          BY <1>1, <2>2, <4>1
        <5>2. q[5] \in Byte /\ q[5] = b[h + 5]
          BY <1>1, <5>1
        <5> QED
          <6> HIDE DEF q
          <6>1. q[5] \in Nat
            BY <5>2, ByteNat
          <6>2. at = 5 /\ n = q[5]
            BY <4>1
          <6>3. b[h + 4] = 3
            BY <2>0, <4>1
          <6> HIDE DEF at, n, domain
          <6> QED
            BY <5>2, <6>1, <6>2, <6>3
      <4>2. CASE ~domain
        BY <2>0, <4>2
      <4> QED
        BY <4>1, <4>2
    <3>0. n \in Nat /\ at \in Nat /\ at >= 4
      <4> HIDE DEF at, n, domain
      <4> QED
        BY <3>1
    <3>2. \A e \in h..Len(b) : Req(b, h, e) <=>
             /\ e - h >= 8 /\ e = h + at + n + 2
             /\ ReqHost(b, h, e) # <<>> /\ valid_port(256 * b[e - 1] + b[e])
      <4> HIDE DEF at, n, domain
      <4>1. at + n + 2 = (IF b[h + 4] = 1 THEN 10 ELSE 7 + b[h + 5])
        BY <3>1
      <4>2. \A e \in h..Len(b) : e = h + (IF b[h + 4] = 1 THEN 10 ELSE 7 + b[h + 5]) <=> e = h + at + n + 2
        <5> DEFINE z == IF b[h + 4] = 1 THEN 10 ELSE 7 + b[h + 5]
        <5>1. z = at + n + 2
          BY <4>1
        <5> HIDE DEF z
        <5>2. \A e \in h..Len(b) : e = h + z <=> e = h + at + n + 2
          BY <3>0, <5>1
        <5> QED
          BY <5>2 DEF z
      <4> QED
        BY <2>0, <4>2 DEF Req
    <3>3. CASE n = 0
      <4>1. r = Closed
        BY <1>1, <1>2, <1>5, <2>2, <3>3
      <4>2. \A e \in h..Len(b) : ~Req(b, h, e)
        <5> HIDE DEF at, n, domain
        <5> QED
          BY <3>1, <3>2, <3>3
      <4> QED
        BY <4>1, <4>2, Outcomes DEF SocksVerdict, q, r
    <3>4. CASE n # 0 /\ Len(q) < at + n + 2
      <4>1. r = Wait("SOCKS_REQUEST", q)
        BY <1>1, <1>2, <1>5, <2>2, <3>4
      <4>2. \A e \in h..m : ~Req(b, h, e)
        <5> HIDE DEF at, n, domain
        <5> QED
          BY <1>1, <3>0, <3>2, <3>4
      <4> QED
        BY <1>w, <4>1, <4>2 DEF q, r
    <3>5. CASE n # 0 /\ Len(q) >= at + n + 2
      <4> DEFINE e == h + at + n + 2
      <4>1. IF host = <<>> \/ ~valid_port(port) THEN r = Closed
            ELSE r = Start(host, port, [Nothing EXCEPT !.data = After(q, at + n + 2)])
        <5> HIDE DEF port, host, sent, at, n, domain
        <5>1. ~(Len(q) < 4) /\ ~(Len(q) < at + n + 2)
          BY <1>1, <1>5, <3>1, <3>5, SMTT(20)
        <5> QED
          BY <1>2, <1>5, <2>2, <3>5, <5>1
      <4> HIDE DEF at, n, domain
      <4>2. e \in h..m /\ e - h >= 7 /\ e - 1 = h + (at + n + 1) /\ e = h + (at + n + 2)
            /\ at + n + 1 \in 1..(m - h) /\ at + n + 2 \in 1..(m - h)
        BY <1>1, <3>0, <3>5
      <4>3. port = 256 * b[e - 1] + b[e]
        <5>1. q[at + n + 1] = b[h + (at + n + 1)] /\ q[at + n + 2] = b[h + (at + n + 2)]
          BY <1>1, <4>2, Zenon
        <5>2. q[at + n + 1] = b[e - 1] /\ q[at + n + 2] = b[e]
          BY <4>2, <5>1
        <5>3. b[e] \in Nat /\ b[e - 1] \in Nat
          <6> HIDE DEF e
          <6>1. e \in 1..Len(b) /\ e - 1 \in 1..Len(b)
            BY <4>2
          <6>2. b[e] \in Byte /\ b[e - 1] \in Byte
            BY <6>1
          <6> QED
            BY <6>2, ByteNat
        <5> HIDE DEF e
        <5> QED
          BY <5>2, <5>3
      <4>4. e - h >= 8
        BY <3>1, <3>5
      <4>h. host = ReqHost(b, h, e)
        <5> DEFINE L == m - h
                   k == at + n
        <5>1. at \in 0..L /\ k \in at..L /\ h + k = e - 2
          BY <3>0, <4>2
        <5>2. SubSeq(SubSeq(b, h + 1, m), at + 1, k) = SubSeq(b, h + at + 1, h + k)
          <6> HIDE DEF k
          <6> QED
            BY <5>1, BytesOfBytes
        <5>3. h + at + 1 = h + (IF b[h + 4] = 1 THEN 5 ELSE 6)
          BY <1>5, <2>0 DEF at, domain
        <5> HIDE DEF e
        <5>4. sent = Sent(b, h, e)
          BY <5>1, <5>2, <5>3, Zenon DEF q, Sent
        <5>5. domain <=> b[h + 4] # 1
          BY <1>5, <2>0 DEF domain
        <5> HIDE DEF sent
        <5> QED
          BY <5>4, <5>5, Zenon DEF ReqHost
      <4> HIDE DEF host
      <4>5. Req(b, h, e) <=> host # <<>> /\ valid_port(port)
        <5>1. e \in h..Len(b) /\ e = h + at + n + 2
          BY <4>2
        <5> HIDE DEF e, port
        <5> QED
          BY <3>2, <4>3, <4>4, <4>h, <5>1
      <4>6. CASE host = <<>> \/ ~valid_port(port)
        <5>1. \A d \in h..Len(b) : ~Req(b, h, d)
          <6> SUFFICES ASSUME NEW d \in h..Len(b), Req(b, h, d) PROVE FALSE
            OBVIOUS
          <6>1. d = e
            BY <3>2
          <6> HIDE DEF e, port
          <6> QED
            BY <4>5, <4>6, <6>1, Zenon
        <5> HIDE DEF port
        <5> QED
          BY <4>1, <4>6, <5>1, Outcomes DEF SocksVerdict, r, q
      <4>7. CASE host # <<>> /\ valid_port(port)
        <5> DEFINE i == at + n + 2
                   L == m - h
                   out == [Nothing EXCEPT !.data = After(q, i)]
        <5>1. r = Start(host, port, out)
          BY <4>1, <4>7
        <5>2. After(q, i) = SubSeq(b, e + 1, m)
          <6>1. i \in 0..L /\ L \in i..L /\ h + i = e /\ h + L = m
            BY <4>2
          <6>2. SubSeq(SubSeq(b, h + 1, m), i + 1, L) = SubSeq(b, h + i + 1, h + L)
            <7> HIDE DEF i
            <7> QED
              BY <6>1, BytesOfBytes
          <6> HIDE DEF i, e
          <6> QED
            BY <1>1, <6>1, <6>2, Zenon DEF After, q
        <5>4. [host |-> host, port |-> port] = ReqTarget(b, h, e)
          <6> HIDE DEF port, e
          <6> QED
            BY <4>3, <4>h DEF ReqTarget
        <5>5. out = [path |-> <<>>, data |-> SubSeq(b, e + 1, m)]
          <6>1. \A d : [Nothing EXCEPT !.data = d] = [path |-> <<>>, data |-> d]
            BY DEF Nothing
          <6> HIDE DEF e, i
          <6> QED
            BY <5>2, <6>1, Zenon
        <5> HIDE DEF out, e, port
        <5>6. r.to = "RESOLVING" /\ r.target = [host |-> host, port |-> port] /\ r.out = out
          BY <5>1, Outcomes
        <5> QED
          BY <4>2, <4>5, <4>7, <5>4, <5>5, <5>6, Zenon DEF SocksVerdict, r, q
      <4> QED
        BY <4>6, <4>7
    <3> QED
      BY <1>1, <3>1, <3>3, <3>4, <3>5, SMTT(20)
  <2> QED
    BY <2>1, <2>2
<1> QED
  BY <1>1, <1>3, <1>4, <1>5

(* x is what the first n bytes of b mean.                                   *)
SocksMeans(b, n, k, e, x) ==
    Greet(b, k) /\ Req(b, k, e) /\ x = [target |-> ReqTarget(b, k, e), out |-> [path |-> <<>>, data |-> SubSeq(b, e + 1, n)]]

(* Bytes to send that no rewritten line comes before.                       *)
LEMMA WithData == \A d : [Nothing EXCEPT !.data = d] = [path |-> <<>>, data |-> d]
BY DEF Nothing

(* The meanings of the first n bytes: a greeting, then a request.           *)
LEMMA SocksMeaningsAre ==
    ASSUME NEW b \in Seq(Byte), NEW n \in 0..Len(b), NEW x
    PROVE  x \in SocksMeanings(SubSeq(b, 1, n)) <=> \E k \in 0..n : \E e \in k..n : SocksMeans(b, n, k, e, x)
<1> DEFINE p == SubSeq(b, 1, n)
           Meaning(c) == [target |-> SocksTarget(SubSeq(p, c[1] + 1, c[2])), out |-> [Nothing EXCEPT !.data = After(p, c[2])]]
           Cut(c) == IsGreeting(SubSeq(p, 1, c[1])) /\ IsSocksRequest(SubSeq(p, c[1] + 1, c[2]))
<1>1. p \in Seq(Byte) /\ Len(p) = n
  BY Prefix
<1>2. SocksMeanings(p) = {Meaning(c) : c \in {c \in (0..n) \X (0..n) : Cut(c)}}
  BY <1>1 DEF SocksMeanings
<1>3. ASSUME NEW k \in 0..n, NEW e \in 0..n
      PROVE  /\ Cut(<<k, e>>) <=> (e \in k..n /\ Greet(b, k) /\ Req(b, k, e))
             /\ Cut(<<k, e>>) => Meaning(<<k, e>>) = [target |-> ReqTarget(b, k, e), out |-> [path |-> <<>>, data |-> SubSeq(b, e + 1, n)]]
  <2>0. <<k, e>>[1] = k /\ <<k, e>>[2] = e
    OBVIOUS
  <2>1. CASE e < k
    <3> DEFINE y == SubSeq(p, k + 1, e)
    <3>1. y = <<>>
      BY <2>1, SubSeqEmpty
    <3>2. Len(y) = 0
      BY <3>1
    <3>3. ~IsSocksRequest(y)
      <4> HIDE DEF y
      <4> QED
        BY <3>2 DEF IsSocksRequest
    <3>4. ~Cut(<<k, e>>)
      <4> HIDE DEF p
      <4> QED
        BY <2>0, <3>3
    <3> HIDE DEF p, Cut, Meaning
    <3> QED
      BY <2>1, <3>4
  <2>2. CASE e >= k
    <3>1. IsGreeting(SubSeq(p, 1, k)) <=> Greet(b, k)
      BY GreetIs
    <3>2. SubSeq(p, k + 1, e) = SubSeq(b, k + 1, e)
      <4>1. 0 \in 0..Len(b) /\ n \in 0..Len(b) /\ 0 + 1 = 1 /\ k \in 0..(n - 0) /\ e \in k..(n - 0) /\ 0 + k + 1 = k + 1 /\ 0 + e = e
        BY <2>2
      <4>2. SubSeq(SubSeq(b, 0 + 1, n), k + 1, e) = SubSeq(b, 0 + k + 1, 0 + e)
        BY <4>1, BytesOfBytes
      <4> QED
        BY <4>1, <4>2
    <3>3. After(p, e) = SubSeq(b, e + 1, n)
      BY Rest
    <3>4. k \in 0..Len(b) /\ e \in k..Len(b) /\ e \in k..n
      BY <2>2
    <3>5. /\ IsSocksRequest(SubSeq(b, k + 1, e)) <=> Req(b, k, e)
          /\ Req(b, k, e) => SocksTarget(SubSeq(b, k + 1, e)) = ReqTarget(b, k, e)
      BY <3>4, SocksRequestIs
    <3> HIDE DEF p
    <3>6. Cut(<<k, e>>) <=> Greet(b, k) /\ Req(b, k, e)
      BY <2>0, <3>1, <3>2, <3>5, Zenon
    <3>7. Meaning(<<k, e>>) = [target |-> SocksTarget(SubSeq(b, k + 1, e)), out |-> [path |-> <<>>, data |-> SubSeq(b, e + 1, n)]]
      BY <2>0, <3>2, <3>3, WithData, Zenon
    <3> HIDE DEF Cut, Meaning
    <3> QED
      BY <3>4, <3>5, <3>6, <3>7, Zenon
  <2> QED
    BY <2>1, <2>2
<1> HIDE DEF p, Cut, Meaning
<1>4. ASSUME x \in SocksMeanings(p)
      PROVE  \E k \in 0..n : \E e \in k..n : SocksMeans(b, n, k, e, x)
  <2>1. PICK c \in (0..n) \X (0..n) : Cut(c) /\ x = Meaning(c)
    BY <1>2, <1>4
  <2>2. PICK k \in 0..n, e \in 0..n : c = <<k, e>>
    BY <2>1
  <2> QED
    BY <1>3, <2>1, <2>2, Zenon DEF SocksMeans
<1>5. ASSUME NEW k \in 0..n, NEW e \in k..n, SocksMeans(b, n, k, e, x)
      PROVE  x \in SocksMeanings(p)
  <2>1. e \in 0..n /\ <<k, e>> \in (0..n) \X (0..n)
    OBVIOUS
  <2>2. Cut(<<k, e>>) /\ x = Meaning(<<k, e>>)
    BY <1>3, <1>5, <2>1, Zenon DEF SocksMeans
  <2> QED
    BY <1>2, <2>1, <2>2
<1> QED
  BY <1>4, <1>5 DEF p

(* Where a SOCKS client whose stream is b stands when g bytes were read:    *)
(* the header holds what follows the last complete part, the next part is   *)
(* not complete, and a connection is closed for a cause.                    *)
SocksOk(ph, hd, tg, out, b, g) ==
    \/ /\ ph = "SOCKS_GREETING" /\ hd = SubSeq(b, 1, g)
       /\ \A k \in 0..g : ~Greet(b, k)
    \/ /\ ph = "SOCKS_REQUEST"
       /\ \E h \in 0..g : /\ Greet(b, h) /\ hd = SubSeq(b, h + 1, g)
                          /\ \A e \in h..g : ~Req(b, h, e)
    \/ /\ ph = "RESOLVING"
       /\ \E k \in 0..g : \E e \in k..g : SocksMeans(b, g, k, e, [target |-> tg, out |-> out])
    \/ /\ ph = "CLOSED"
       /\ \/ g >= MaxHeader
          \/ \A k \in 0..Len(b) : \A e \in k..Len(b) : ~(Greet(b, k) /\ Req(b, k, e))

(* A right verdict on the bytes after the greeting leads to a right state.  *)
LEMMA VerdictOk ==
    ASSUME NEW b \in Seq(Byte), NEW m \in 0..Len(b), NEW h \in 0..m, Greet(b, h),
           NEW r, SocksVerdict(r, b, h, m)
    PROVE  SocksOk(r.to, r.rest, r.target, r.out, b, m)
<1>1. \A k : Greet(b, k) => k = h
  BY DEF Greet
<1>2. CASE r.to = "CLOSED" /\ \A e \in h..Len(b) : ~Req(b, h, e)
  BY <1>1, <1>2 DEF SocksOk
<1>3. CASE /\ r.to = "RESOLVING"
           /\ \E e \in h..m : /\ Req(b, h, e) /\ r.target = ReqTarget(b, h, e)
                              /\ r.out = [path |-> <<>>, data |-> SubSeq(b, e + 1, m)]
  BY <1>3, Zenon DEF SocksOk, SocksMeans
<1>4. CASE /\ r.to = "SOCKS_REQUEST" /\ r.rest = SubSeq(b, h + 1, m)
           /\ \A e \in h..m : ~Req(b, h, e)
  BY <1>4 DEF SocksOk
<1> QED
  BY <1>2, <1>3, <1>4, Zenon DEF SocksVerdict

(* feed_local in SOCKS_GREETING, with the request that may follow.          *)
LEMMA GreetingOk ==
    ASSUME NEW b \in Seq(Byte), NEW m \in 0..Len(b), NEW r,
           r = IF Greeted(SubSeq(b, 1, m)) THEN greeting(SubSeq(b, 1, m)) ELSE Wait("SOCKS_GREETING", SubSeq(b, 1, m))
    PROVE  SocksOk(r.to, r.rest, r.target, r.out, b, m)
<1> DEFINE q == SubSeq(b, 1, m)
           n == 2 + b[2]
<1>1. q \in Seq(Byte) /\ Len(q) = m /\ \A i \in 1..m : q[i] = b[i]
  BY Prefix
<1>2. Greeted(q) <=> m >= 2 /\ m >= n
  <2> HIDE DEF q
  <2> QED
    BY <1>1 DEF Greeted
<1>3. CASE ~Greeted(q)
  <2>1. \A k \in 0..m : ~Greet(b, k)
    <3> HIDE DEF q
    <3> QED
      BY <1>2, <1>3 DEF Greet
  <2>2. r = Wait("SOCKS_GREETING", q)
    BY <1>3
  <2> HIDE DEF q
  <2>3. r.to = "SOCKS_GREETING" /\ r.rest = q
    <3>1. Wait("SOCKS_GREETING", q).to = "SOCKS_GREETING" /\ Wait("SOCKS_GREETING", q).rest = q
      BY Outcomes
    <3> QED
      BY <2>2, <3>1
  <2> QED
    BY <2>1, <2>3 DEF SocksOk, q
<1>4. CASE Greeted(q)
  <2>0. r = greeting(q)
    BY <1>4
  <2>1. 2 \in 1..m /\ 1 \in 1..m /\ q[2] = b[2] /\ q[1] = b[1] /\ b[2] \in Nat
    <3> HIDE DEF q
    <3>1. 2 \in 1..m /\ 1 \in 1..m
      BY <1>2, <1>4
    <3>2. b[2] \in Byte
      BY <3>1
    <3> QED
      BY <1>1, <3>1, <3>2, ByteNat
  <2> HIDE DEF q
  <2>2. n \in 2..m
    BY <1>2, <1>4, <2>1
  <2>3. r = IF q[1] # 5 \/ ~Contains(SubSeq(q, 3, n), 0) THEN Closed ELSE parse_socks_request(After(q, n))
    BY <2>0, <2>1 DEF greeting
  <2> HIDE DEF n
  <2>4. Contains(SubSeq(q, 3, n), 0) <=> \E i \in 3..n : b[i] = 0
    <3> DEFINE y == SubSeq(q, 3, n)
    <3>1. Len(y) = n - 2 /\ \A i \in 1..(n - 2) : y[i] = q[2 + i]
      <4>1. 2 \in 0..Len(q) /\ n \in 2..Len(q) /\ 2 + 1 = 3
        BY <1>1, <2>1, <2>2
      <4> QED
        BY <1>1, <4>1, Bytes
    <3> HIDE DEF y
    <3>2. \A i \in 1..(n - 2) : y[i] = b[2 + i]
      <4> SUFFICES ASSUME NEW i \in 1..(n - 2) PROVE y[i] = b[2 + i]
        OBVIOUS
      <4>1. 2 + i \in 1..m
        BY <2>2
      <4> QED
        BY <1>1, <3>1, <4>1
    <3>3. ASSUME NEW i \in 3..n PROVE i - 2 \in 1..(n - 2) /\ 2 + (i - 2) = i
      BY <2>2
    <3>4. ASSUME NEW i \in 1..(n - 2) PROVE 2 + i \in 3..n
      BY <2>2
    <3>5. Contains(y, 0) <=> \E i \in 1..(n - 2) : y[i] = 0
      BY <3>1 DEF Contains
    <3>6. (\E i \in 1..(n - 2) : y[i] = 0) <=> \E i \in 3..n : b[i] = 0
      BY <3>2, <3>3, <3>4
    <3> QED
      BY <3>5, <3>6, Zenon DEF y
  <2>5. \A k : Greet(b, k) <=> k = n /\ b[1] = 5 /\ \E i \in 3..n : b[i] = 0
    BY <2>2 DEF Greet, n
  <2>6. CASE ~Greet(b, n)
    <3>1. r = Closed
      BY <2>1, <2>3, <2>4, <2>5, <2>6
    <3>2. \A k : ~Greet(b, k)
      BY <2>5, <2>6
    <3> QED
      BY <3>1, <3>2, Outcomes DEF SocksOk
  <2>7. CASE Greet(b, n)
    <3>1. r = parse_socks_request(After(q, n))
      BY <2>1, <2>3, <2>4, <2>5, <2>7
    <3>2. After(q, n) = SubSeq(b, n + 1, m)
      <4>1. n \in 0..m
        BY <2>2
      <4> QED
        BY <4>1, Rest DEF q
    <3>3. n \in 0..Len(b) /\ m \in n..Len(b) /\ n \in 0..m
      BY <2>2
    <3>4. SocksVerdict(r, b, n, m)
      BY <3>1, <3>2, <3>3, ParseSocks
    <3> QED
      BY <2>7, <3>3, <3>4, VerdictOk
  <2> QED
    BY <2>6, <2>7
<1> QED
  BY <1>3, <1>4

(* A nonempty set of naturals has a least element, a bounded one a greatest.*)
LEMMA LeastIs ==
    ASSUME NEW T \in SUBSET Nat, T # {}
    PROVE  \E m \in T : \A k \in T : m <= k
<1> DEFINE R == OpToRel(<, Nat)
<1>1. IsWellFoundedOn(R, Nat)
  BY NatLessThanWellFounded, Zenon
<1>2. \A x, y \in Nat : x < y => <<x, y>> \in R
  BY DEF OpToRel
<1> HIDE DEF R
<1>3. PICK x \in T : \A y \in T : ~(<<y, x>> \in R)
  BY <1>1, WFMin, Zenon
<1>4. \A y \in T : x \in Nat /\ y \in Nat /\ ~(y < x)
  BY <1>2, <1>3, Zenon
<1> QED
  BY <1>4

LEMMA GreatestIs ==
    ASSUME NEW n \in Nat, NEW T \in SUBSET (1..n), T # {}
    PROVE  \E m \in T : \A k \in T : m >= k
<1> DEFINE U == {n - k : k \in T}
<1>1. U \in SUBSET Nat /\ U # {}
  <2>1. \A k \in T : n - k \in Nat
    OBVIOUS
  <2>2. PICK k \in T : TRUE
    BY Zenon
  <2>3. n - k \in U
    OBVIOUS
  <2> QED
    BY <2>1, <2>3
<1>2. PICK u \in U : \A v \in U : u <= v
  BY <1>1, LeastIs, Zenon
<1>3. PICK m \in T : u = n - m
  BY <1>2
<1>4. ASSUME NEW k \in T PROVE m >= k
  <2>1. n - k \in U /\ m \in Nat /\ k \in Nat
    OBVIOUS
  <2>2. n - m <= n - k
    BY <1>2, <1>3, <2>1, Zenon
  <2> QED
    BY <2>1, <2>2
<1> QED
  BY <1>3, <1>4

(* The place of the last ":".                                               *)
LEMMA LastColon ==
    ASSUME NEW a \in Seq(STRING), NEW c, c = strrchr(a, ":")
    PROVE  \/ c = 0 /\ ~Contains(a, ":")
           \/ c \in 1..Len(a) /\ a[c] = ":" /\ \A i \in (c + 1)..Len(a) : a[i] # ":"
<1> DEFINE I == {i \in 1..Len(a) : a[i] \in {":"}}
<1>1. c = IF I = {} THEN 0 ELSE Last(I)
  BY DEF strrchr, Places
<1>2. CASE I = {}
  BY <1>1, <1>2 DEF Contains
<1>3. CASE I # {}
  <2>1. \E m \in I : \A k \in I : m >= k
    <3>1. Len(a) \in Nat /\ I \in SUBSET (1..Len(a))
      OBVIOUS
    <3> HIDE DEF I
    <3> QED
      BY <1>3, <3>1, GreatestIs, Zenon
  <2>2. c \in I /\ \A k \in I : c >= k
    BY <1>1, <1>3, <2>1, Zenon DEF Last
  <2> QED
    BY <2>2
<1> QED
  BY <1>2, <1>3

(* The place of the first "/" or "?".                                       *)
LEMMA FirstSlash ==
    ASSUME NEW a \in Seq(STRING), NEW c, c = strpbrk(a, {"/", "?"})
    PROVE  \/ c = 0 /\ \A i \in 1..Len(a) : a[i] \notin {"/", "?"}
           \/ c \in 1..Len(a) /\ a[c] \in {"/", "?"} /\ \A i \in 1..(c - 1) : a[i] \notin {"/", "?"}
<1> DEFINE I == {i \in 1..Len(a) : a[i] \in {"/", "?"}}
<1>1. c = IF I = {} THEN 0 ELSE First(I)
  BY DEF strpbrk, Places
<1>2. CASE I = {}
  BY <1>1, <1>2
<1>3. CASE I # {}
  <2>1. \E m \in I : \A k \in I : m <= k
    <3>1. I \in SUBSET Nat
      OBVIOUS
    <3> HIDE DEF I
    <3> QED
      BY <1>3, <3>1, LeastIs
  <2>2. c \in I /\ \A k \in I : c <= k
    BY <1>1, <1>3, <2>1, Zenon DEF First
  <2>3. c \in 1..Len(a) /\ a[c] \in {"/", "?"}
    BY <2>2
  <2>4. \A i \in 1..(c - 1) : a[i] \notin {"/", "?"}
    BY <2>2, <2>3
  <2> QED
    BY <2>3, <2>4
<1> QED
  BY <1>2, <1>3

(* A host, a ":" and a port.                                                *)
LEMMA HostPort ==
    ASSUME NEW a \in Seq(STRING), NEW x \in Seq(STRING), NEW d
    PROVE  a = x \o <<":", d>> <=> /\ Len(a) = Len(x) + 2 /\ \A i \in 1..Len(x) : a[i] = x[i]
                                  /\ a[Len(x) + 1] = ":" /\ a[Len(x) + 2] = d
<1> DEFINE S == STRING \cup {":", d}
           t == <<":", d>>
           y == x \o t
<1>1. a \in Seq(S) /\ x \in Seq(S) /\ t \in Seq(S) /\ Len(t) = 2 /\ t[1] = ":" /\ t[2] = d
  OBVIOUS
<1> HIDE DEF t, S
<1>2. /\ y \in Seq(S) /\ Len(y) = Len(x) + Len(t)
      /\ \A i \in 1..(Len(x) + Len(t)) : y[i] = IF i <= Len(x) THEN x[i] ELSE t[i - Len(x)]
  BY <1>1, ConcatProperties, Zenon
<1> HIDE DEF y
<1>3. /\ Len(y) = Len(x) + 2 /\ \A i \in 1..Len(x) : y[i] = x[i]
      /\ y[Len(x) + 1] = ":" /\ y[Len(x) + 2] = d
  <2>0. Len(x) \in Nat
    BY <1>1
  <2>1. /\ Len(x) + 1 \in 1..(Len(x) + Len(t)) /\ ~(Len(x) + 1 <= Len(x)) /\ (Len(x) + 1) - Len(x) = 1
        /\ Len(x) + 2 \in 1..(Len(x) + Len(t)) /\ ~(Len(x) + 2 <= Len(x)) /\ (Len(x) + 2) - Len(x) = 2
        /\ \A i \in 1..Len(x) : i \in 1..(Len(x) + Len(t)) /\ i <= Len(x)
    BY <1>1, <2>0
  <2> QED
    BY <1>1, <1>2, <2>1
<1>4. ASSUME Len(a) = Len(x) + 2, \A i \in 1..Len(x) : a[i] = x[i],
             a[Len(x) + 1] = ":", a[Len(x) + 2] = d
      PROVE  a = y
  <2>1. Len(a) = Len(y) /\ \A i \in 1..Len(a) : a[i] = y[i]
    BY <1>3, <1>4
  <2> QED
    BY <1>1, <1>2, <2>1, SeqEqual
<1> QED
  BY <1>3, <1>4 DEF y, t

(* parse_authority reads what the grammar names, and only that.             *)
LEMMA AuthorityIs ==
    ASSUME NEW a \in Seq(STRING), NEW p \in Nat, NEW r, r = parse_authority(a, p)
    PROVE  /\ r.ok => [host |-> r.host, port |-> r.port] \in Named(a, p)
           /\ ~r.ok => Named(a, p) = {}
<1> DEFINE colon == strrchr(a, ":")
           host == IF colon = 0 THEN a ELSE SubSeq(a, 1, colon - 1)
           digits == After(a, colon)
           port == IF colon = 0 THEN p
                   ELSE IF Len(digits) = 1 /\ digits[1] \in DOMAIN Number THEN Number[digits[1]] ELSE 0
           Sane(x, y) == /\ Len(x) \in 1..(MaxHost - 1)
                         /\ ~Contains(a, "@") /\ ~Contains(a, "[") /\ valid_port(y)
           Names(x, y) == \/ a = x /\ ~Contains(a, ":") /\ y = p
                          \/ \E d \in DOMAIN Number : a = x \o <<":", d>> /\ y = Number[d]
           Cand == {[host |-> a, port |-> p]} \cup {[host |-> SubSeq(a, 1, n), port |-> Number[d]] : n \in 0..Len(a), d \in DOMAIN Number}
<1>1. r = [ok |-> Sane(host, port), host |-> host, port |-> port]
  BY DEF parse_authority
<1>2. \/ colon = 0 /\ ~Contains(a, ":")
      \/ colon \in 1..Len(a) /\ a[colon] = ":" /\ \A i \in (colon + 1)..Len(a) : a[i] # ":"
  BY LastColon
<1> HIDE DEF colon
<1>3. Named(a, p) = {t \in Cand : Sane(t.host, t.port) /\ Names(t.host, t.port)}
  BY DEF Named
<1>4. ASSUME NEW n \in 0..Len(a) PROVE SubSeq(a, 1, n) \in Seq(STRING) /\ Len(SubSeq(a, 1, n)) = n
                                       /\ \A i \in 1..n : SubSeq(a, 1, n)[i] = a[i]
  BY Prefix
<1>5. ASSUME NEW t \in Cand
      PROVE  t.host \in Seq(STRING) /\ t = [host |-> t.host, port |-> t.port]
  BY <1>4
<1>6. CASE colon = 0
  <2>1. ~Contains(a, ":") /\ host = a /\ port = p
    BY <1>2, <1>6
  <2>2. ASSUME NEW x \in Seq(STRING), NEW y, Names(x, y) PROVE x = a /\ y = p
    <3>1. ASSUME NEW d, a = x \o <<":", d>> PROVE FALSE
      <4>1. Len(a) = Len(x) + 2 /\ a[Len(x) + 1] = ":"
        BY <3>1, HostPort
      <4> QED
        BY <2>1, <4>1 DEF Contains
    <3> QED
      BY <2>2, <3>1, Zenon
  <2>3. Named(a, p) = {t \in {[host |-> a, port |-> p]} : Sane(a, p)}
    <3>1. \A t : t \in Named(a, p) <=> t = [host |-> a, port |-> p] /\ Sane(a, p)
      <4>1. [host |-> a, port |-> p] \in Cand /\ Names(a, p)
        BY <2>1
      <4>2. [host |-> a, port |-> p].host = a /\ [host |-> a, port |-> p].port = p
        OBVIOUS
      <4> HIDE DEF Sane, Names, Cand
      <4> QED
        BY <1>3, <1>5, <2>2, <4>1, <4>2
    <3> HIDE DEF Sane
    <3> QED
      BY <3>1
  <2>4. r.ok = Sane(a, p) /\ r.host = a /\ r.port = p
    <3> HIDE DEF Sane, host, port
    <3> QED
      BY <1>1, <2>1
  <2> HIDE DEF Sane
  <2> QED
    BY <2>3, <2>4
<1>7. CASE colon # 0
  <2> DEFINE Good == Len(digits) = 1 /\ digits[1] \in DOMAIN Number
  <2>0. colon \in 1..Len(a) /\ a[colon] = ":" /\ \A i \in (colon + 1)..Len(a) : a[i] # ":"
    BY <1>2, <1>7
  <2>1. host = SubSeq(a, 1, colon - 1) /\ port = IF Good THEN Number[digits[1]] ELSE 0
    BY <1>7, Zenon
  <2>2. host \in Seq(STRING) /\ Len(host) = colon - 1 /\ \A i \in 1..(colon - 1) : host[i] = a[i]
    <3>1. colon - 1 \in 0..Len(a)
      BY <2>0
    <3> QED
      BY <1>4, <2>1, <3>1, Zenon
  <2>3. Len(digits) = Len(a) - colon /\ (Len(digits) = 1 => digits[1] = a[colon + 1])
    <3>1. colon \in 0..Len(a) /\ Len(a) \in colon..Len(a)
      BY <2>0
    <3>2. Len(digits) = Len(a) - colon /\ \A i \in 1..(Len(a) - colon) : digits[i] = a[colon + i]
      BY <3>1, Bytes DEF After
    <3> QED
      BY <3>2
  <2>4. Contains(a, ":")
    BY <2>0 DEF Contains
  <2> HIDE DEF host, digits
  <2>5. ASSUME NEW x \in Seq(STRING), NEW y
        PROVE  Names(x, y) <=> x = host /\ Good /\ y = Number[digits[1]]
    <3>1. ASSUME NEW d \in DOMAIN Number, a = x \o <<":", d>>
          PROVE  x = host /\ Good /\ d = digits[1]
      <4>1. /\ Len(a) = Len(x) + 2 /\ \A i \in 1..Len(x) : a[i] = x[i]
            /\ a[Len(x) + 1] = ":" /\ a[Len(x) + 2] = d
        BY <3>1, HostPort
      <4>2. d # ":"
        BY RequestsAssumption
      <4>3. colon = Len(x) + 1
        <5>1. ~(Len(x) + 1 > colon)
          BY <2>0, <4>1
        <5>2. colon # Len(x) + 2
          BY <2>0, <4>1, <4>2
        <5> QED
          BY <2>0, <4>1, <5>1, <5>2
      <4>4. Len(x) = Len(host) /\ \A i \in 1..Len(x) : x[i] = host[i]
        BY <2>2, <4>1, <4>3
      <4>5. x = host
        BY <2>2, <4>4, SeqEqual
      <4>6. Len(digits) = 1 /\ digits[1] = d
        BY <2>3, <4>1, <4>3
      <4> QED
        BY <4>5, <4>6
    <3>2. ASSUME Good PROVE a = host \o <<":", digits[1]>>
      <4> DEFINE d == digits[1]
      <4>1. /\ Len(a) = Len(host) + 2 /\ \A i \in 1..Len(host) : a[i] = host[i]
            /\ a[Len(host) + 1] = ":" /\ a[Len(host) + 2] = d
        <5>1. Len(a) - colon = 1 /\ d = a[colon + 1]
          BY <2>3, <3>2, Zenon
        <5>2. Len(host) + 1 = colon /\ Len(host) + 2 = colon + 1 /\ Len(a) = Len(host) + 2
          BY <2>0, <2>2, <5>1
        <5> HIDE DEF d
        <5> QED
          BY <2>0, <2>2, <5>1, <5>2
      <4> HIDE DEF d
      <4>2. a = host \o <<":", d>>
        BY <2>2, <4>1, HostPort
      <4> QED
        BY <4>2 DEF d
    <3>3. Names(x, y) <=> \E d \in DOMAIN Number : a = x \o <<":", d>> /\ y = Number[d]
      BY <2>4, Zenon
    <3> HIDE DEF Names
    <3>4. ASSUME Names(x, y) PROVE x = host /\ Good /\ y = Number[digits[1]]
      BY <3>1, <3>3, <3>4, Zenon
    <3>5. ASSUME x = host, Good, y = Number[digits[1]] PROVE Names(x, y)
      BY <3>2, <3>3, <3>5
    <3> QED
      BY <3>4, <3>5
  <2>6. CASE Good
    <3>0. port = Number[digits[1]]
      BY <2>1, <2>6
    <3>1. [host |-> host, port |-> port] \in Cand
      <4>1. colon - 1 \in 0..Len(a) /\ digits[1] \in DOMAIN Number
        BY <2>0, <2>6
      <4>2. \A n \in 0..Len(a) : \A d \in DOMAIN Number : [host |-> SubSeq(a, 1, n), port |-> Number[d]] \in Cand
        OBVIOUS
      <4> HIDE DEF Cand, port
      <4> QED
        BY <2>1, <3>0, <4>1, <4>2, Zenon
    <3> HIDE DEF port, Good
    <3>2. [host |-> host, port |-> port].host = host /\ [host |-> host, port |-> port].port = port
      OBVIOUS
    <3>3. r.ok = Sane(host, port) /\ r.host = host /\ r.port = port
      <4> HIDE DEF Sane
      <4> QED
        BY <1>1
    <3>4. Names(host, port)
      <4> HIDE DEF Names
      <4> QED
        BY <2>2, <2>5, <2>6, <3>0
    <3> HIDE DEF Sane, Names, Cand
    <3>5. ASSUME Sane(host, port) PROVE [host |-> host, port |-> port] \in Named(a, p)
      BY <1>3, <3>1, <3>2, <3>4, <3>5
    <3>6. ASSUME NEW t \in Named(a, p) PROVE Sane(host, port)
      <4>1. t \in Cand /\ Sane(t.host, t.port) /\ Names(t.host, t.port)
        BY <1>3
      <4>2. t.host = host /\ t.port = port
        BY <1>5, <2>5, <3>0, <4>1
      <4> QED
        BY <4>1, <4>2
    <3> QED
      BY <3>3, <3>5, <3>6
  <2>7. CASE ~Good
    <3>1. port = 0
      BY <2>1, <2>7
    <3> HIDE DEF port, Good
    <3>2. ~Sane(host, port)
      BY <3>1 DEF valid_port
    <3>3. ~r.ok
      <4> HIDE DEF Sane
      <4>1. r.ok = Sane(host, port)
        BY <1>1
      <4> QED
        BY <3>2, <4>1
    <3> HIDE DEF Sane, Names, Cand
    <3>4. \A t : t \notin Named(a, p)
      BY <1>3, <1>5, <2>5, <2>7
    <3> QED
      BY <3>3, <3>4
  <2> QED
    BY <2>6, <2>7
<1> QED
  BY <1>6, <1>7

(* The symbols of a stream.                                                 *)
Sym == STRING \cup {"line", "CR", "LF"}

(* The request line, a blank line that ends at byte j and the end of the    *)
(* header, of a stream b.                                                   *)
HasLine(b) == b[1] = "line" /\ b[2] = "CR" /\ b[3] = "LF"
Clean(b, j) == \A k \in 1..j : b[k] # "NUL"
BreaksAt(b, j) == b[j - 3] = "CR" /\ b[j - 2] = "LF" /\ b[j - 1] = "CR" /\ b[j] = "LF"
Blank(b, j) == BreaksAt(b, j) /\ Clean(b, j)
EndsAt(b, j) == Blank(b, j) /\ \A i \in 4..(j - 1) : ~Blank(b, i)

(* Short sequences, and the symbols of a stream.                            *)
LEMMA Pair ==
    ASSUME NEW S, NEW x \in S, NEW y \in S
    PROVE  <<x, y>> \in Seq(S) /\ Len(<<x, y>>) = 2 /\ <<x, y>>[1] = x /\ <<x, y>>[2] = y
OBVIOUS

LEMMA Triple ==
    ASSUME NEW S, NEW x \in S, NEW y \in S, NEW z \in S
    PROVE  /\ <<x, y, z>> \in Seq(S) /\ Len(<<x, y, z>>) = 3
           /\ <<x, y, z>>[1] = x /\ <<x, y, z>>[2] = y /\ <<x, y, z>>[3] = z
OBVIOUS

LEMMA Words == "line" \in Sym /\ "CR" \in Sym /\ "LF" \in Sym /\ \A s \in Seq(STRING) : s \in Seq(Sym)
BY DEF Sym

(* The end of a line, and the blank line that ends a header.                *)
LEMMA LineEnd == CRLF \in Seq(Sym) /\ Len(CRLF) = 2 /\ CRLF[1] = "CR" /\ CRLF[2] = "LF"
BY Pair, Words DEF CRLF

LEMMA BlankLine ==
    /\ CRLF \o CRLF \in Seq(Sym) /\ Len(CRLF \o CRLF) = 4
    /\ (CRLF \o CRLF)[1] = "CR" /\ (CRLF \o CRLF)[2] = "LF"
    /\ (CRLF \o CRLF)[3] = "CR" /\ (CRLF \o CRLF)[4] = "LF"
<1>1. /\ CRLF \o CRLF \in Seq(Sym) /\ Len(CRLF \o CRLF) = Len(CRLF) + Len(CRLF)
      /\ \A i \in 1..(Len(CRLF) + Len(CRLF)) :
            (CRLF \o CRLF)[i] = IF i <= Len(CRLF) THEN CRLF[i] ELSE CRLF[i - Len(CRLF)]
  BY LineEnd, ConcatProperties, Zenon
<1> QED
  BY <1>1, LineEnd

(* strstr compares symbol by symbol.                                        *)
LEMMA HasAtIs ==
    ASSUME NEW q \in Seq(Sym), NEW s \in Seq(Sym), NEW i \in 1..Len(q), i + Len(s) - 1 <= Len(q)
    PROVE  HasAt(q, i, s) <=> \A k \in 1..Len(s) : q[i + k - 1] = s[k]
<1> DEFINE y == SubSeq(q, i, i + Len(s) - 1)
<1>1. y \in Seq(Sym) /\ Len(y) = Len(s) /\ \A k \in 1..Len(s) : y[k] = q[i + k - 1]
  <2>1. i \in 1..(Len(q) + 1) /\ i + Len(s) - 1 \in (i - 1)..Len(q) /\ (i + Len(s) - 1) - i + 1 = Len(s)
    OBVIOUS
  <2> DEFINE n == i + Len(s) - 1
  <2> HIDE DEF n
  <2>2. n \in (i - 1)..Len(q) /\ n - i + 1 = Len(s)
    BY <2>1 DEF n
  <2>3. SubSeq(q, i, n) \in Seq(Sym) /\ Len(SubSeq(q, i, n)) = n - i + 1
        /\ \A k \in 1..(n - i + 1) : SubSeq(q, i, n)[k] = q[i + k - 1]
    BY <2>1, <2>2, Part
  <2> QED
    BY <2>2, <2>3 DEF n
<1> HIDE DEF y
<1>2. y = s <=> \A k \in 1..Len(s) : y[k] = s[k]
  BY <1>1, SeqEqual
<1>3. HasAt(q, i, s) <=> y = s
  BY DEF HasAt, y
<1> QED
  BY <1>1, <1>2, <1>3

(* A blank line found in what was read is one of the stream.                *)
LEMMA BlankIs ==
    ASSUME NEW b \in Seq(Sym), NEW n \in 0..Len(b), NEW j \in 4..n
    PROVE  /\ BlankAt(SubSeq(b, 1, n), j) <=> Blank(b, j)
           /\ (HasAt(SubSeq(b, 1, n), j - 3, CRLF \o CRLF) /\ \A k \in 1..(j - 3) : SubSeq(b, 1, n)[k] # "NUL")
                 <=> Blank(b, j)
<1> DEFINE q == SubSeq(b, 1, n)
           s == CRLF \o CRLF
           i == j - 3
<1>1. q \in Seq(Sym) /\ Len(q) = n /\ \A k \in 1..n : q[k] = b[k]
  BY Prefix
<1>2. s \in Seq(Sym) /\ Len(s) = 4 /\ s[1] = "CR" /\ s[2] = "LF" /\ s[3] = "CR" /\ s[4] = "LF"
  BY BlankLine
<1> HIDE DEF q, s
<1>3. i \in 1..Len(q) /\ i + Len(s) - 1 <= Len(q)
  BY <1>1, <1>2
<1> HIDE DEF i
<1>4. HasAt(q, i, s) <=> \A k \in 1..Len(s) : q[i + k - 1] = s[k]
  BY <1>1, <1>2, <1>3, HasAtIs, Zenon
<1>5. (\A k \in 1..Len(s) : q[i + k - 1] = s[k]) <=>
         q[i + 1 - 1] = s[1] /\ q[i + 2 - 1] = s[2] /\ q[i + 3 - 1] = s[3] /\ q[i + 4 - 1] = s[4]
  <2>1. 1..Len(s) = {1, 2, 3, 4}
    BY <1>2
  <2> QED
    BY <2>1
<1>6. i + 1 - 1 = j - 3 /\ i + 2 - 1 = j - 2 /\ i + 3 - 1 = j - 1 /\ i + 4 - 1 = j
  BY DEF i
<1>7. q[j - 3] = b[j - 3] /\ q[j - 2] = b[j - 2] /\ q[j - 1] = b[j - 1] /\ q[j] = b[j]
  BY <1>1
<1>8. HasAt(q, j - 3, s) <=> BreaksAt(b, j)
  BY <1>2, <1>4, <1>5, <1>6, <1>7 DEF BreaksAt, i
<1>9. (\A k \in 1..j : q[k] # "NUL") <=> Clean(b, j)
  BY <1>1 DEF Clean
<1>10. (\A k \in 1..(j - 3) : q[k] # "NUL") <=> Clean(b, j - 3)
  BY <1>1 DEF Clean
<1>11. BreaksAt(b, j) /\ Clean(b, j - 3) => Clean(b, j)
  <2> SUFFICES ASSUME BreaksAt(b, j), Clean(b, j - 3), NEW k \in 1..j PROVE b[k] # "NUL"
    BY DEF Clean
  <2>1. k \in 1..(j - 3) \/ k = j - 2 \/ k = j - 1 \/ k = j
    OBVIOUS
  <2> QED
    BY <2>1 DEF BreaksAt, Clean
<1>12. Clean(b, j) => Clean(b, j - 3)
  BY DEF Clean
<1>13. BlankAt(q, j) <=> Blank(b, j)
  BY <1>8, <1>9, Zenon DEF BlankAt, Blank, s
<1>14. (HasAt(q, j - 3, s) /\ \A k \in 1..(j - 3) : q[k] # "NUL") <=> Blank(b, j)
  BY <1>8, <1>10, <1>11, <1>12, Zenon DEF Blank
<1> QED
  BY <1>13, <1>14, Zenon DEF q, s

(* Where lines and the header end, said of the stream.                      *)
LEMMA HeaderEndsAre ==
    ASSUME NEW b \in Seq(Sym), NEW n \in 0..Len(b)
    PROVE  /\ HeaderEnds(SubSeq(b, 1, n)) = {j \in 5..n : EndsAt(b, j)}
           /\ n >= 3 => (HasAt(SubSeq(b, 1, n), 1, <<"line", "CR", "LF">>) <=> HasLine(b))
           /\ Find(SubSeq(b, 1, n), CRLF \o CRLF) = {i \in 1..(n - 3) : Blank(b, i + 3)}
           /\ Find(SubSeq(b, 1, n), CRLF) = {i \in 1..(n - 1) : b[i] = "CR" /\ b[i + 1] = "LF" /\ Clean(b, i)}
<1> DEFINE q == SubSeq(b, 1, n)
<1>1. q \in Seq(Sym) /\ Len(q) = n /\ \A k \in 1..n : q[k] = b[k]
  BY Prefix
<1>b. \A j \in 4..n : BlankAt(q, j) <=> Blank(b, j)
  BY BlankIs
<1>2. \A j \in 4..n : (HasAt(q, j - 3, CRLF \o CRLF) /\ \A k \in 1..(j - 3) : q[k] # "NUL") <=> Blank(b, j)
  BY BlankIs
<1> HIDE DEF q
<1>3. HeaderEnds(q) = {j \in 5..n : EndsAt(b, j)}
  <2>1. \A j \in 5..n : j \in 4..n /\ \A i \in 4..(j - 1) : i \in 4..n
    OBVIOUS
  <2>2. \A j \in 5..n : (BlankAt(q, j) /\ \A i \in 4..(j - 1) : ~BlankAt(q, i)) <=> EndsAt(b, j)
    BY <1>b, <2>1, Zenon DEF EndsAt
  <2> QED
    BY <1>1, <2>2 DEF HeaderEnds
<1>4. ASSUME n >= 3 PROVE HasAt(q, 1, <<"line", "CR", "LF">>) <=> HasLine(b)
  <2> DEFINE s == <<"line", "CR", "LF">>
  <2>1. s \in Seq(Sym) /\ Len(s) = 3 /\ s[1] = "line" /\ s[2] = "CR" /\ s[3] = "LF"
    BY Triple, Words
  <2> HIDE DEF s
  <2>2. 1 \in 1..Len(q) /\ 1 + Len(s) - 1 <= Len(q) /\ 1..Len(s) = {1, 2, 3}
    BY <1>1, <1>4, <2>1
  <2>3. HasAt(q, 1, s) <=> \A k \in 1..Len(s) : q[1 + k - 1] = s[k]
    BY <1>1, <2>1, <2>2, HasAtIs, Zenon
  <2>4. 1 + 1 - 1 = 1 /\ 1 + 2 - 1 = 2 /\ 1 + 3 - 1 = 3 /\ q[1] = b[1] /\ q[2] = b[2] /\ q[3] = b[3]
    BY <1>1, <1>4
  <2>5. (\A k \in {1, 2, 3} : q[1 + k - 1] = s[k]) <=> q[1] = s[1] /\ q[2] = s[2] /\ q[3] = s[3]
    BY <2>4
  <2> QED
    BY <2>1, <2>2, <2>3, <2>4, <2>5 DEF HasLine, s
<1>5. Find(q, CRLF \o CRLF) = {i \in 1..(n - 3) : Blank(b, i + 3)}
  <2>1. \A i \in 1..(n - 3) : i + 3 \in 4..n /\ (i + 3) - 3 = i
    OBVIOUS
  <2>2. \A i \in 1..(n - 3) : (HasAt(q, i, CRLF \o CRLF) /\ \A k \in 1..i : q[k] # "NUL") <=> Blank(b, i + 3)
    <3> SUFFICES ASSUME NEW i \in 1..(n - 3)
                 PROVE  (HasAt(q, i, CRLF \o CRLF) /\ \A k \in 1..i : q[k] # "NUL") <=> Blank(b, i + 3)
      OBVIOUS
    <3> DEFINE j == i + 3
    <3>1. j \in 4..n /\ j - 3 = i
      BY <2>1
    <3> HIDE DEF j
    <3>2. (HasAt(q, j - 3, CRLF \o CRLF) /\ \A k \in 1..(j - 3) : q[k] # "NUL") <=> Blank(b, j)
      BY <1>2, <3>1
    <3> QED
      BY <3>1, <3>2, Zenon DEF j
  <2>3. Len(q) - Len(CRLF \o CRLF) + 1 = n - 3
    BY <1>1, BlankLine
  <2> QED
    BY <2>2, <2>3 DEF Find
<1>6. Find(q, CRLF) = {i \in 1..(n - 1) : b[i] = "CR" /\ b[i + 1] = "LF" /\ Clean(b, i)}
  <2>1. ASSUME NEW i \in 1..(n - 1)
        PROVE  HasAt(q, i, CRLF) <=> b[i] = "CR" /\ b[i + 1] = "LF"
    <3> DEFINE s == CRLF
    <3>1. s \in Seq(Sym) /\ Len(s) = 2 /\ s[1] = "CR" /\ s[2] = "LF"
      BY LineEnd
    <3> HIDE DEF s
    <3>2. i \in 1..Len(q) /\ i + Len(s) - 1 <= Len(q) /\ 1..Len(s) = {1, 2}
      BY <1>1, <3>1
    <3>3. HasAt(q, i, s) <=> \A k \in 1..Len(s) : q[i + k - 1] = s[k]
      BY <1>1, <3>1, <3>2, HasAtIs, Zenon
    <3>4. i + 1 - 1 = i /\ i + 2 - 1 = i + 1 /\ q[i] = b[i] /\ q[i + 1] = b[i + 1]
      BY <1>1
    <3>5. (\A k \in {1, 2} : q[i + k - 1] = s[k]) <=> q[i] = s[1] /\ q[i + 1] = s[2]
      BY <3>4
    <3> QED
      BY <3>1, <3>2, <3>3, <3>4, <3>5 DEF s
  <2>2. Len(q) - Len(CRLF) + 1 = n - 1
    BY <1>1, LineEnd
  <2>3. \A i \in 1..(n - 1) : (\A k \in 1..i : q[k] # "NUL") <=> Clean(b, i)
    BY <1>1 DEF Clean
  <2> QED
    BY <2>1, <2>2, <2>3 DEF Find
<1> QED
  BY <1>3, <1>4, <1>5, <1>6 DEF q

(* What a stream b of which n symbols were read means.                      *)
Said(t, path, data) == [target |-> t, out |-> [path |-> path, data |-> data]]
ConnectMeans(uri, b, n, j, x) == \E t \in Named(uri, 443) : x = Said(t, <<>>, SubSeq(b, j + 1, n))
PlainMeans(uri, b, n, x) ==
    \E m \in Ends(uri) : \E t \in Named(SubSeq(uri, 2, m), 80) : x = Said(t, PathFrom(uri, m), SubSeq(b, 4, n))

HttpMeans(line, b, n, x) ==
    \E j \in 5..n :
       /\ EndsAt(b, j) /\ HasLine(b) /\ ~line.long /\ line.version = "HTTP/1."
       /\ IF line.method = "CONNECT" THEN ConnectMeans(line.uri, b, n, j, x) ELSE PlainMeans(line.uri, b, n, x)

(* The meanings of the first n symbols.                                     *)
LEMMA HttpMeaningsAre ==
    ASSUME NEW b \in Seq(Sym), NEW n \in 0..Len(b), NEW x
    PROVE  x \in HttpMeanings(SubSeq(b, 1, n)) <=> HttpMeans(input.line, b, n, x)
<1> DEFINE p == SubSeq(b, 1, n)
           line == input.line
           ok == ~line.long /\ line.version = "HTTP/1."
           E == HeaderEnds(p)
<1>1. Len(p) = n /\ \A j \in 0..n : After(p, j) = SubSeq(b, j + 1, n)
  BY Prefix, Rest, Zenon
<1>2. E = {j \in 5..n : EndsAt(b, j)}
  BY HeaderEndsAre
<1>3. CASE E = {} \/ ~HasAt(p, 1, <<"line", "CR", "LF">>)
  <2>1. HttpMeanings(p) = {}
    BY <1>3 DEF HttpMeanings
  <2>2. ASSUME NEW j \in 5..n, EndsAt(b, j), HasLine(b) PROVE FALSE
    <3>1. n >= 3
      OBVIOUS
    <3> QED
      BY <1>2, <1>3, <2>2, <3>1, HeaderEndsAre
  <2> HIDE DEF p
  <2> QED
    BY <2>1, <2>2 DEF HttpMeans, p
<1>4. CASE E # {} /\ HasAt(p, 1, <<"line", "CR", "LF">>)
  <2>1. HasLine(b) /\ n >= 5
    <3>1. n >= 5
      BY <1>2, <1>4
    <3> QED
      BY <1>4, <3>1, HeaderEndsAre
  <2> DEFINE C == {[target |-> t, out |-> [Nothing EXCEPT !.data = After(p, j)]] : t \in Named(line.uri, 443), j \in E}
             P == UNION {{[target |-> t, out |-> [path |-> PathFrom(line.uri, m), data |-> After(p, 3)]] :
                               t \in Named(SubSeq(line.uri, 2, m), 80)} : m \in Ends(line.uri)}
  <2>2. HttpMeanings(p) = CASE line.long \/ line.version # "HTTP/1." -> {}
                            [] ~line.long /\ line.version = "HTTP/1." /\ line.method = "CONNECT" -> C
                            [] OTHER -> P
    BY <1>4 DEF HttpMeanings
  <2>3. x \in C <=> \E j \in 5..n : EndsAt(b, j) /\ ConnectMeans(line.uri, b, n, j, x)
    <3>1. ASSUME NEW j \in E PROVE [Nothing EXCEPT !.data = After(p, j)] = [path |-> <<>>, data |-> SubSeq(b, j + 1, n)]
      <4>0. j \in 0..n
        BY <1>2
      <4>1. After(p, j) = SubSeq(b, j + 1, n)
        <5> HIDE DEF p
        <5> QED
          BY <1>1, <4>0
      <4> QED
        BY <4>1, WithData, Zenon
    <3>2. x \in C <=> \E t \in Named(line.uri, 443), j \in E : x = [target |-> t, out |-> [Nothing EXCEPT !.data = After(p, j)]]
      OBVIOUS
    <3> HIDE DEF E, C
    <3>3. x \in C <=> \E t \in Named(line.uri, 443), j \in E : x = Said(t, <<>>, SubSeq(b, j + 1, n))
      BY <3>1, <3>2, ZenonT(30) DEF Said
    <3> QED
      BY <1>2, <3>3 DEF ConnectMeans
  <2>4. x \in P <=> PlainMeans(line.uri, b, n, x)
    <3>1. After(p, 3) = SubSeq(b, 4, n)
      <4>1. 3 \in 0..n /\ 3 + 1 = 4
        BY <2>1
      <4> QED
        BY <1>1, <4>1, Zenon
    <3>2. x \in P <=> \E m \in Ends(line.uri) : \E t \in Named(SubSeq(line.uri, 2, m), 80) :
                         x = [target |-> t, out |-> [path |-> PathFrom(line.uri, m), data |-> After(p, 3)]]
      OBVIOUS
    <3> HIDE DEF p, P
    <3> QED
      BY <3>1, <3>2, Zenon DEF PlainMeans, Said
  <2>5. \E j \in 5..n : EndsAt(b, j)
    BY <1>2, <1>4
  <2>6. HttpMeans(line, b, n, x) <=>
           /\ ok
           /\ IF line.method = "CONNECT" THEN x \in C ELSE x \in P
    <3> HIDE DEF C, P, E, p
    <3> QED
      BY <2>1, <2>3, <2>4, <2>5 DEF HttpMeans
  <2> HIDE DEF C, P, p
  <2>7. CASE ~ok
    BY <2>2, <2>6, <2>7 DEF p
  <2>8. CASE ok /\ line.method = "CONNECT"
    BY <2>2, <2>6, <2>8 DEF p
  <2>9. CASE ok /\ line.method # "CONNECT"
    BY <2>2, <2>6, <2>9 DEF p
  <2> QED
    BY <2>7, <2>8, <2>9
<1> QED
  BY <1>3, <1>4

(* The authority of an absolute URI, and the path after it.                 *)
LEMMA PlainIs ==
    ASSUME NEW uri \in Seq(STRING), NEW b, NEW m, NEW q, After(q, 2 + 1) = SubSeq(b, 4, m),
           NEW r, r = plain_request(uri, q, 2)
    PROVE  \/ r.to = "CLOSED" /\ \A e \in Ends(uri) : Named(SubSeq(uri, 2, e), 80) = {}
           \/ r.to = "RESOLVING" /\ PlainMeans(uri, b, m, [target |-> r.target, out |-> r.out])
<1> DEFINE text == After(uri, 1)
           slash == strpbrk(text, {"/", "?"})
           auth == IF slash = 0 THEN text ELSE SubSeq(text, 1, slash - 1)
           a == parse_authority(auth, 80)
           path == IF slash = 0 THEN <<"/">>
                   ELSE IF text[slash] = "?" THEN <<"/">> \o After(text, slash - 1) ELSE After(text, slash - 1)
           n == IF slash = 0 THEN Len(uri) ELSE slash
           L == Len(uri)
<1>1. r = IF uri = <<>> \/ uri[1] # "http://" \/ Len(auth) \notin 1..(MaxHost - 1) \/ ~a.ok THEN Closed
          ELSE Start(a.host, a.port, [path |-> path, data |-> SubSeq(b, 4, m)])
  BY Zenon DEF plain_request
<1>2. CASE uri = <<>> \/ uri[1] # "http://"
  <2>1. r = Closed
    <3> HIDE DEF a, path
    <3> QED
      BY <1>1, <1>2
  <2>2. Ends(uri) = {}
    BY <1>2 DEF Ends
  <2> QED
    BY <2>1, <2>2, Outcomes
<1>3. CASE uri # <<>> /\ uri[1] = "http://"
  <2>0. L \in Nat /\ L >= 1
    BY <1>3
  <2>1. text \in Seq(STRING) /\ Len(text) = L - 1 /\ \A i \in 1..(L - 1) : text[i] = uri[1 + i]
    <3>1. 1 \in 0..Len(uri) /\ Len(uri) \in 1..Len(uri)
      BY <2>0
    <3> QED
      BY <3>1, Bytes, ZenonT(30) DEF After
  <2>2. ASSUME NEW i \in 0..(L - 1), NEW j \in i..(L - 1)
        PROVE  SubSeq(text, i + 1, j) = SubSeq(uri, 1 + i + 1, 1 + j)
    <3>1. 1 \in 0..Len(uri) /\ Len(uri) \in 1..Len(uri)
      BY <2>0
    <3> QED
      BY <3>1, BytesOfBytes DEF After
  <2>3. \/ slash = 0 /\ \A i \in 1..Len(text) : text[i] \notin {"/", "?"}
        \/ slash \in 1..Len(text) /\ text[slash] \in {"/", "?"} /\ \A i \in 1..(slash - 1) : text[i] \notin {"/", "?"}
    <3> HIDE DEF text
    <3> QED
      BY <2>1, FirstSlash
  <2> HIDE DEF text, slash
  <2>4. n \in 1..L /\ (slash = 0 => n = L) /\ (slash # 0 => n = slash /\ n < L)
    BY <2>0, <2>1, <2>3
  <2>5. (\A i \in 2..n : uri[i] \notin {"/", "?"}) /\ (n = L \/ uri[n + 1] \in {"/", "?"})
        /\ (slash # 0 => text[slash] = uri[n + 1])
    <3>1. ASSUME NEW i \in 2..n PROVE uri[i] \notin {"/", "?"}
      <4>1. i - 1 \in 1..(L - 1) /\ 1 + (i - 1) = i /\ (slash # 0 => i - 1 \in 1..(slash - 1))
        BY <2>0, <2>4
      <4>2. text[i - 1] = uri[i]
        BY <2>1, <4>1
      <4> QED
        BY <2>1, <2>3, <4>1, <4>2
    <3>2. ASSUME slash # 0 PROVE text[slash] = uri[n + 1]
      <4>1. slash \in 1..(L - 1) /\ 1 + slash = n + 1
        BY <2>1, <2>3, <2>4, <3>2
      <4> QED
        BY <2>1, <4>1
    <3> QED
      BY <2>3, <2>4, <3>1, <3>2
  <2>6. Ends(uri) = IF n - 1 < MaxHost THEN {n} ELSE {}
    <3> HIDE DEF n
    <3>1. n - 1 < MaxHost => n \in Ends(uri)
      BY <1>3, <2>4, <2>5 DEF Ends
    <3>2. ASSUME NEW k \in Ends(uri) PROVE k = n
      <4>1. /\ k \in 1..L /\ \A i \in 2..k : uri[i] \notin {"/", "?"}
            /\ k = L \/ uri[k + 1] \in {"/", "?"}
        BY DEF Ends
      <4>2. ~(k < n)
        <5> SUFFICES ASSUME k < n PROVE FALSE
          OBVIOUS
        <5>1. k + 1 \in 2..n /\ k # L
          BY <2>4, <4>1
        <5> QED
          BY <2>5, <4>1, <5>1
      <4>3. ~(n < k)
        <5> SUFFICES ASSUME n < k PROVE FALSE
          OBVIOUS
        <5>1. n + 1 \in 2..k /\ n # L
          BY <2>4, <4>1
        <5> QED
          BY <2>5, <4>1, <5>1
      <4> QED
        BY <2>4, <4>1, <4>2, <4>3
    <3>3. \A k \in Ends(uri) : k - 1 < MaxHost
      BY DEF Ends
    <3> QED
      BY <3>1, <3>2, <3>3
  <2>7. auth = SubSeq(uri, 2, n) /\ auth \in Seq(STRING)
    <3>1. CASE slash = 0
      <4>1. auth = text /\ n = L
        BY <3>1
      <4>2. 1 + 1 = 2
        OBVIOUS
      <4>3. text = SubSeq(uri, 2, L)
        BY <4>2 DEF text, After
      <4> HIDE DEF auth, n
      <4> QED
        BY <2>1, <4>1, <4>3
    <3>2. CASE slash # 0
      <4> DEFINE j == slash - 1
      <4>1. 0 \in 0..(L - 1) /\ j \in 0..(L - 1) /\ 1 + 0 + 1 = 2 /\ 1 + j = slash /\ 0 + 1 = 1
        BY <2>0, <2>1, <2>3, <3>2
      <4>2. auth = SubSeq(text, 1, j) /\ n = slash
        BY <3>2, Zenon
      <4>3. SubSeq(text, 0 + 1, j) = SubSeq(uri, 1 + 0 + 1, 1 + j)
        <5> HIDE DEF j
        <5> QED
          BY <2>2, <4>1, Zenon
      <4>4. 0 \in 0..Len(text) /\ j \in 0..Len(text)
        BY <2>1, <4>1
      <4>5. SubSeq(text, 0 + 1, j) \in Seq(STRING)
        <5> HIDE DEF j
        <5> QED
          BY <2>1, <4>4, Bytes
      <4> HIDE DEF j, auth, n
      <4> QED
        BY <4>1, <4>2, <4>3, <4>5
    <3> QED
      BY <3>1, <3>2, Zenon
  <2>8. path = PathFrom(uri, n)
    <3>1. CASE slash = 0
      <4>1. n = L /\ path = <<"/">>
        BY <3>1
      <4>2. After(uri, L) = <<>>
        <5>1. L + 1 \in Int /\ L \in Int /\ L < L + 1
          BY <2>0
        <5> QED
          BY <5>1, SubSeqEmpty DEF After
      <4>3. <<"/">> \o <<>> = <<"/">>
        <5> DEFINE s == <<"/">>
        <5>1. s \in Seq({"/"})
          OBVIOUS
        <5> HIDE DEF s
        <5>2. s \o <<>> = s
          BY <5>1, ConcatEmptySeq
        <5> QED
          BY <5>2 DEF s
      <4>4. PathFrom(uri, L) = <<"/">> \o After(uri, L)
        BY <2>0 DEF PathFrom
      <4> QED
        BY <4>1, <4>2, <4>3, <4>4, Zenon
    <3>2. CASE slash # 0
      <4> DEFINE i == slash - 1
                 rest == After(text, i)
      <4>1. i \in 0..(L - 1) /\ L - 1 \in i..(L - 1) /\ 1 + i + 1 = n + 1 /\ 1 + (L - 1) = L /\ n < L
        BY <2>0, <2>1, <2>3, <2>4, <3>2
      <4>2. rest = After(uri, n)
        <5> HIDE DEF i, n
        <5>1. SubSeq(text, i + 1, L - 1) = SubSeq(uri, 1 + i + 1, 1 + (L - 1))
          BY <2>2, <4>1, Zenon
        <5> QED
          BY <2>1, <4>1, <5>1, SMTT(20) DEF After
      <4>3. path = IF text[slash] = "?" THEN <<"/">> \o rest ELSE rest
        BY <3>2
      <4>4. text[slash] = uri[n + 1] /\ uri[n + 1] \in {"/", "?"}
        BY <2>4, <2>5, <3>2
      <4>5. rest \in Seq(STRING)
        <5>1. n \in 0..Len(uri) /\ Len(uri) \in n..Len(uri)
          BY <2>4
        <5> HIDE DEF rest, n
        <5> QED
          BY <4>2, <5>1, Bytes DEF After
      <4> HIDE DEF i, rest, n, path
      <4>6. <<>> \o rest = rest
        BY <4>5, ConcatEmptySeq
      <4>7. CASE uri[n + 1] = "?"
        BY <4>1, <4>2, <4>3, <4>4, <4>7 DEF PathFrom
      <4>8. CASE uri[n + 1] = "/"
        BY <4>1, <4>2, <4>3, <4>4, <4>6, <4>8, Zenon DEF PathFrom
      <4> QED
        BY <4>4, <4>7, <4>8
    <3> QED
      BY <3>1, <3>2
  <2> HIDE DEF n, path, auth
  <2>9. /\ a.ok => [host |-> a.host, port |-> a.port] \in Named(auth, 80)
        /\ ~a.ok => Named(auth, 80) = {}
    <3> DEFINE p == 80
    <3>1. p \in Nat /\ a = parse_authority(auth, p)
      OBVIOUS
    <3> HIDE DEF p, a
    <3>2. /\ a.ok => [host |-> a.host, port |-> a.port] \in Named(auth, p)
          /\ ~a.ok => Named(auth, p) = {}
      BY <2>7, <3>1, AuthorityIs, Zenon
    <3> QED
      BY <3>2 DEF p
  <2>f. Len(auth) = n - 1
    <3>1. 2 \in 1..(Len(uri) + 1) /\ n \in (2 - 1)..Len(uri) /\ n - 2 + 1 = n - 1
      BY <2>4
    <3>2. Len(SubSeq(uri, 2, n)) = n - 2 + 1
      BY <3>1, Part
    <3> QED
      BY <2>7, <3>1, <3>2, Zenon
  <2>g. a.ok => Len(auth) # 0
    <3> SUFFICES ASSUME Len(auth) = 0 PROVE ~a.ok
      OBVIOUS
    <3>1. strrchr(auth, ":") = 0
      BY DEF strrchr, Places
    <3> QED
      BY <3>1 DEF parse_authority
  <2> HIDE DEF a
  <2>10. CASE ~a.ok \/ ~(n - 1 < MaxHost)
    <3>1. r = Closed
      <4>1. CASE ~a.ok
        BY <1>1, <4>1
      <4>2. CASE ~(n - 1 < MaxHost)
        <5>1. Len(auth) \notin 1..(MaxHost - 1)
          BY <2>4, <2>f, <4>2, RequestsAssumption
        <5> QED
          BY <1>1, <5>1, Zenon
      <4> QED
        BY <2>10, <4>1, <4>2
    <3>2. \A e \in Ends(uri) : e = n /\ n - 1 < MaxHost
      BY <2>6
    <3> QED
      BY <2>7, <2>9, <2>10, <3>1, <3>2, Outcomes
  <2>11. CASE a.ok /\ n - 1 < MaxHost
    <3> DEFINE t == [host |-> a.host, port |-> a.port]
               out == [path |-> path, data |-> SubSeq(b, 4, m)]
    <3>0. Len(auth) \in 1..(MaxHost - 1)
      BY <2>4, <2>11, <2>f, <2>g, RequestsAssumption
    <3>1. r = Start(a.host, a.port, out)
      BY <1>1, <1>3, <2>11, <3>0, Zenon
    <3>2. r.to = "RESOLVING" /\ r.target = t /\ r.out = out
      <4> HIDE DEF out
      <4> QED
        BY <3>1, Outcomes
    <3>3. t \in Named(SubSeq(uri, 2, n), 80)
      BY <2>7, <2>9, <2>11
    <3>4. out = [path |-> PathFrom(uri, n), data |-> SubSeq(b, 4, m)]
      BY <2>8
    <3> HIDE DEF t, out
    <3>5. [target |-> r.target, out |-> r.out] = Said(t, PathFrom(uri, n), SubSeq(b, 4, m))
      BY <3>2, <3>4, Zenon DEF Said
    <3> QED
      BY <2>6, <2>11, <3>2, <3>3, <3>5 DEF PlainMeans
  <2> QED
    BY <2>10, <2>11
<1> QED
  BY <1>2, <1>3

(* The first place that strstr finds.                                       *)
LEMMA FirstIs ==
    ASSUME NEW T \in SUBSET Nat, T # {}
    PROVE  First(T) \in T /\ \A k \in T : First(T) <= k
BY LeastIs, Zenon DEF First

(* parse_authority on the URI of a CONNECT.                                 *)
LEMMA ConnectAuthority ==
    ASSUME NEW uri \in Seq(STRING), NEW a, a = parse_authority(uri, 443)
    PROVE  /\ a.ok => [host |-> a.host, port |-> a.port] \in Named(uri, 443)
           /\ ~a.ok => Named(uri, 443) = {}
<1> DEFINE p == 443
<1>1. p \in Nat /\ a = parse_authority(uri, p)
  OBVIOUS
<1> HIDE DEF p
<1>2. /\ a.ok => [host |-> a.host, port |-> a.port] \in Named(uri, p)
      /\ ~a.ok => Named(uri, p) = {}
  BY <1>1, AuthorityIs
<1> QED
  BY <1>2 DEF p

(* connect_request starts what the grammar names, or refuses it.            *)
LEMMA ConnectIs ==
    ASSUME NEW uri \in Seq(STRING), NEW b, NEW m, NEW q, NEW j, After(q, First(Find(q, CRLF \o CRLF)) + 3) = SubSeq(b, j + 1, m),
           NEW r, r = connect_request(uri, q)
    PROVE  \/ r.to = "CLOSED" /\ Named(uri, 443) = {}
           \/ r.to = "RESOLVING" /\ ConnectMeans(uri, b, m, j, [target |-> r.target, out |-> r.out])
<1> DEFINE a == parse_authority(uri, 443)
           out == [path |-> <<>>, data |-> SubSeq(b, j + 1, m)]
           t == [host |-> a.host, port |-> a.port]
<1>1. r = IF ~a.ok THEN Closed ELSE Start(a.host, a.port, out)
  <2>1. r = IF ~a.ok THEN Closed ELSE Start(a.host, a.port, [Nothing EXCEPT !.data = After(q, First(Find(q, CRLF \o CRLF)) + 3)])
    BY DEF connect_request
  <2> QED
    BY <2>1, WithData, ZenonT(30)
<1>2. (a.ok => t \in Named(uri, 443)) /\ (~a.ok => Named(uri, 443) = {})
  BY ConnectAuthority
<1> HIDE DEF a
<1>3. CASE ~a.ok
  BY <1>1, <1>2, <1>3, Outcomes
<1>4. CASE a.ok
  <2>1. r = Start(a.host, a.port, out)
    BY <1>1, <1>4
  <2> HIDE DEF out
  <2>2. r.to = "RESOLVING" /\ r.target = t /\ r.out = out
    BY <2>1, Outcomes, SMTT(20)
  <2> HIDE DEF t
  <2>3. [target |-> r.target, out |-> r.out] = Said(t, <<>>, SubSeq(b, j + 1, m))
    BY <2>2 DEF Said, out
  <2> QED
    BY <1>2, <1>4, <2>2, <2>3 DEF ConnectMeans
<1> QED
  BY <1>3, <1>4

(* Where an HTTP client stands when g symbols of its stream were read.      *)
HttpOk(ph, hd, tg, out, line, b, g) ==
    \/ /\ ph = "PROXY_HEADER" /\ hd = SubSeq(b, 1, g)
       /\ \A j \in 4..g : ~Blank(b, j)
    \/ ph = "RESOLVING" /\ HttpMeans(line, b, g, [target |-> tg, out |-> out])
    \/ /\ ph = "CLOSED"
       /\ g >= MaxHeader \/ \A n \in 0..Len(b) : \A x : ~HttpMeans(line, b, n, x)

(* feed_local in PROXY_HEADER: parse_http once the header is complete.      *)
LEMMA HttpParse ==
    ASSUME NEW b \in Seq(Sym), NEW m \in 0..Len(b), input.line.uri \in Seq(STRING), NEW r,
           r = IF Find(SubSeq(b, 1, m), CRLF \o CRLF) = {} THEN Wait("PROXY_HEADER", SubSeq(b, 1, m)) ELSE parse_http(SubSeq(b, 1, m))
    PROVE  HttpOk(r.to, r.rest, r.target, r.out, input.line, b, m)
<1> DEFINE q == SubSeq(b, 1, m)
           F == Find(q, CRLF \o CRLF)
           C == Find(q, CRLF)
           line == input.line
           None == \A n \in 0..Len(b) : \A x : ~HttpMeans(line, b, n, x)
<1>1. F = {i \in 1..(m - 3) : Blank(b, i + 3)} /\ C = {i \in 1..(m - 1) : b[i] = "CR" /\ b[i + 1] = "LF" /\ Clean(b, i)}
  BY HeaderEndsAre
<1>2. ASSUME NEW j \in 0..m PROVE After(q, j) = SubSeq(b, j + 1, m)
  BY Rest
<1>c. ASSUME r = Closed, None PROVE HttpOk(r.to, r.rest, r.target, r.out, line, b, m)
  <2> HIDE DEF None
  <2>1. r.to = "CLOSED"
    BY <1>c, Outcomes
  <2> QED
    BY <1>c, <2>1 DEF HttpOk, None
<1>3. CASE F = {}
  <2>1. r = Wait("PROXY_HEADER", q)
    BY <1>3
  <2>2. \A j \in 4..m : ~Blank(b, j)
    <3> SUFFICES ASSUME NEW j \in 4..m, Blank(b, j) PROVE FALSE
      OBVIOUS
    <3>1. j - 3 \in 1..(m - 3) /\ (j - 3) + 3 = j
      OBVIOUS
    <3>2. j - 3 \in F
      <4> HIDE DEF F
      <4> QED
        BY <1>1, <3>1
    <3> HIDE DEF F
    <3> QED
      BY <1>3, <3>2
  <2> HIDE DEF q
  <2>3. Wait("PROXY_HEADER", q).to = "PROXY_HEADER" /\ Wait("PROXY_HEADER", q).rest = q
    BY Outcomes
  <2>4. r.to = "PROXY_HEADER" /\ r.rest = q
    BY <2>1, <2>3
  <2> QED
    BY <2>2, <2>4 DEF HttpOk, q
<1>4. CASE F # {}
  <2> DEFINE f == First(F)
             e == First(C)
             first == SubSeq(q, 1, e - 1)
  <2>1. f \in F /\ \A k \in F : f <= k
    <3>1. F \in SUBSET Nat
      <4> HIDE DEF F
      <4> QED
        BY <1>1
    <3> HIDE DEF F
    <3> QED
      BY <1>4, <3>1, FirstIs
  <2>2. f \in 1..(m - 3) /\ Blank(b, f + 3) /\ \A k \in 1..(m - 3) : Blank(b, k + 3) => f <= k
    <3> HIDE DEF F, f
    <3> QED
      BY <1>1, <2>1
  <2>3. e \in C /\ \A k \in C : e <= k
    <3>1. f \in C
      <4> HIDE DEF f, C
      <4>1. f + 3 - 3 = f /\ f + 3 - 2 = f + 1 /\ f \in 1..(m - 1)
        BY <2>2
      <4>2. Clean(b, f)
        BY <2>2 DEF Blank, Clean
      <4> QED
        BY <1>1, <2>2, <4>1, <4>2 DEF Blank, BreaksAt
    <3>2. C \in SUBSET Nat
      <4> HIDE DEF C
      <4> QED
        BY <1>1
    <3> HIDE DEF C, f
    <3> QED
      BY <3>1, <3>2, FirstIs
  <2>4. e \in 1..(m - 1) /\ b[e] = "CR" /\ b[e + 1] = "LF" /\ \A k \in 1..(m - 1) : b[k] = "CR" /\ b[k + 1] = "LF" => e <= k
    <3>1. \A k \in 1..f : Clean(b, k)
      <4> HIDE DEF f
      <4> QED
        BY <2>2 DEF Blank, Clean
    <3>2. f \in C /\ e <= f
      <4> HIDE DEF f, C, e
      <4>1. f + 3 - 3 = f /\ f + 3 - 2 = f + 1 /\ f \in 1..(m - 1) /\ f \in 1..f
        BY <2>2
      <4>2. f \in C
        BY <1>1, <2>2, <3>1, <4>1 DEF Blank, BreaksAt
      <4> QED
        BY <2>3, <4>2
    <3> HIDE DEF C, e, f
    <3>3. e \in 1..(m - 1) /\ b[e] = "CR" /\ b[e + 1] = "LF"
      BY <1>1, <2>3
    <3>4. ASSUME NEW k \in 1..(m - 1), b[k] = "CR", b[k + 1] = "LF" PROVE e <= k
      <4>1. CASE k <= f
        <5>1. k \in 1..f
          BY <2>2, <4>1
        <5>2. k \in C
          BY <1>1, <3>1, <3>4, <5>1
        <5> QED
          BY <2>3, <5>2
      <4>2. CASE ~(k <= f)
        BY <2>2, <3>2, <3>3, <4>2
      <4> QED
        BY <4>1, <4>2
    <3> QED
      BY <3>3, <3>4
  <2>5. r = IF first # <<"line">> THEN Closed
            ELSE IF line.long \/ line.version # "HTTP/1." THEN Closed
            ELSE IF line.method = "CONNECT" THEN connect_request(line.uri, q)
            ELSE plain_request(line.uri, q, e)
    <3>1. r = parse_http(q)
      BY <1>4
    <3> QED
      BY <3>1 DEF parse_http
  <2> HIDE DEF f, e
  <2>6. first \in Seq(Sym) /\ Len(first) = e - 1 /\ \A i \in 1..(e - 1) : first[i] = b[i]
    <3>1. q \in Seq(Sym) /\ Len(q) = m /\ \A i \in 1..m : q[i] = b[i]
      BY Prefix
    <3> DEFINE d == e - 1
    <3>2. d \in 0..Len(q) /\ \A k \in 1..d : k \in 1..m
      BY <2>4, <3>1
    <3> HIDE DEF q, d
    <3>3. SubSeq(q, 1, d) \in Seq(Sym) /\ Len(SubSeq(q, 1, d)) = d /\ \A i \in 1..d : SubSeq(q, 1, d)[i] = q[i]
      BY <3>1, <3>2, Prefix
    <3> QED
      BY <3>1, <3>2, <3>3 DEF d
  <2> HIDE DEF first
  <2>7. first = <<"line">> <=> HasLine(b)
    <3> DEFINE s == <<"line">>
    <3>1. s \in Seq(Sym) /\ Len(s) = 1 /\ s[1] = "line"
      <4>1. \A S : \A x \in S : <<x>> \in Seq(S) /\ Len(<<x>>) = 1 /\ <<x>>[1] = x
        OBVIOUS
      <4> QED
        BY <4>1, Words
    <3> HIDE DEF s
    <3>2. ASSUME first = s PROVE HasLine(b)
      <4>1. e = 2
        <5>1. e \in Int
          BY <2>4
        <5>2. Len(first) = 1
          BY <3>1, <3>2
        <5>3. e - 1 = 1
          BY <2>6, <5>2, Zenon
        <5> QED
          BY <5>1, <5>3
      <4>2. b[1] = "line"
        BY <2>6, <3>1, <3>2, <4>1
      <4> QED
        BY <2>4, <4>1, <4>2 DEF HasLine
    <3>3. ASSUME HasLine(b) PROVE first = s
      <4>1. e <= 2
        <5>1. 2 \in 1..(m - 1) /\ 2 + 1 = 3
          BY <2>2
        <5> QED
          BY <2>4, <3>3, <5>1 DEF HasLine
      <4>2. e # 1
        BY <2>4, <3>3 DEF HasLine
      <4>3. e = 2
        BY <2>4, <4>1, <4>2
      <4>4. Len(first) = Len(s) /\ \A i \in 1..Len(first) : first[i] = s[i]
        BY <2>6, <3>1, <3>3, <4>3 DEF HasLine
      <4> QED
        BY <2>6, <3>1, <4>4, SeqEqual
    <3> QED
      BY <3>2, <3>3 DEF s
  <2>8. CASE ~HasLine(b)
    <3>1. r = Closed
      BY <2>5, <2>7, <2>8
    <3>2. None
      BY <2>8 DEF HttpMeans
    <3> QED
      BY <1>c, <3>1, <3>2
  <2>9. CASE HasLine(b) /\ (line.long \/ line.version # "HTTP/1.")
    <3>1. r = Closed
      BY <2>5, <2>7, <2>9
    <3>2. None
      BY <2>9 DEF HttpMeans
    <3> QED
      BY <1>c, <3>1, <3>2
  <2>10. CASE HasLine(b) /\ ~line.long /\ line.version = "HTTP/1."
    <3> DEFINE j == f + 3
    <3>1. j \in 5..m /\ EndsAt(b, j)
      <4>1. f # 1
        <5>1. 1 + 3 - 3 = 1
          OBVIOUS
        <5> QED
          BY <2>2, <2>10, <5>1 DEF HasLine, Blank, BreaksAt
      <4>2. j \in 5..m /\ Blank(b, j)
        BY <2>2, <4>1
      <4>3. ASSUME NEW i \in 4..(j - 1) PROVE ~Blank(b, i)
        <5>1. i - 3 \in 1..(m - 3) /\ (i - 3) + 3 = i /\ ~(f <= i - 3)
          BY <2>2
        <5> QED
          BY <2>2, <5>1, Zenon
      <4> HIDE DEF j
      <4> QED
        BY <4>2, <4>3 DEF EndsAt
    <3>2. CASE line.method = "CONNECT"
      <4>1. r = connect_request(line.uri, q)
        BY <2>5, <2>7, <2>10, <3>2
      <4>2. After(q, First(Find(q, CRLF \o CRLF)) + 3) = SubSeq(b, j + 1, m)
        <5>1. j \in 0..m
          BY <3>1
        <5>2. After(q, j) = SubSeq(b, j + 1, m)
          <6> HIDE DEF j, q
          <6> QED
            BY <1>2, <5>1
        <5> QED
          BY <5>2 DEF f
      <4>3. \/ r.to = "CLOSED" /\ Named(line.uri, 443) = {}
            \/ r.to = "RESOLVING" /\ ConnectMeans(line.uri, b, m, j, [target |-> r.target, out |-> r.out])
        <5> HIDE DEF j, q
        <5> QED
          BY <4>1, <4>2, ConnectIs, Zenon
      <4> HIDE DEF j, q
      <4>4. CASE r.to = "CLOSED" /\ Named(line.uri, 443) = {}
        <5>1. None
          BY <3>2, <4>4 DEF HttpMeans, ConnectMeans
        <5> QED
          BY <4>4, <5>1 DEF HttpOk
      <4>5. CASE r.to = "RESOLVING" /\ ConnectMeans(line.uri, b, m, j, [target |-> r.target, out |-> r.out])
        <5>1. HttpMeans(line, b, m, [target |-> r.target, out |-> r.out])
          BY <2>10, <3>1, <3>2, <4>5 DEF HttpMeans
        <5> QED
          BY <4>5, <5>1 DEF HttpOk
      <4> QED
        BY <4>3, <4>4, <4>5
    <3>3. CASE line.method # "CONNECT"
      <4>0. e = 2
        <5>1. 2 \in 1..(m - 1) /\ 2 + 1 = 3
          BY <2>2
        <5>2. e <= 2
          BY <2>4, <2>10, <5>1 DEF HasLine
        <5>3. e # 1
          BY <2>4, <2>10 DEF HasLine
        <5> QED
          BY <2>4, <5>2, <5>3
      <4>1. r = plain_request(line.uri, q, 2)
        BY <2>5, <2>7, <2>10, <3>3, <4>0
      <4>2. After(q, 2 + 1) = SubSeq(b, 4, m)
        <5>1. 3 \in 0..m /\ 3 + 1 = 4 /\ 2 + 1 = 3
          BY <2>2
        <5> HIDE DEF q
        <5> QED
          BY <1>2, <5>1, Zenon
      <4>3. \/ r.to = "CLOSED" /\ \A d \in Ends(line.uri) : Named(SubSeq(line.uri, 2, d), 80) = {}
            \/ r.to = "RESOLVING" /\ PlainMeans(line.uri, b, m, [target |-> r.target, out |-> r.out])
        <5> HIDE DEF q
        <5> QED
          BY <4>1, <4>2, PlainIs, Zenon
      <4> HIDE DEF j, q
      <4>4. CASE r.to = "CLOSED" /\ \A d \in Ends(line.uri) : Named(SubSeq(line.uri, 2, d), 80) = {}
        <5>1. None
          BY <3>3, <4>4 DEF HttpMeans, PlainMeans
        <5> QED
          BY <4>4, <5>1 DEF HttpOk
      <4>5. CASE r.to = "RESOLVING" /\ PlainMeans(line.uri, b, m, [target |-> r.target, out |-> r.out])
        <5>1. HttpMeans(line, b, m, [target |-> r.target, out |-> r.out])
          BY <2>10, <3>1, <3>3, <4>5 DEF HttpMeans
        <5> QED
          BY <4>5, <5>1 DEF HttpOk
      <4> QED
        BY <4>3, <4>4, <4>5
    <3> QED
      BY <3>2, <3>3
  <2> QED
    BY <2>8, <2>9, <2>10
<1> QED
  BY <1>3, <1>4

(* The inductive invariant.                                                 *)
Inv ==
    /\ input \in Inputs /\ got \in 0..Len(input.bytes)
    /\ input.kind = "socks" => SocksOk(phase, header, target, to_remote, input.bytes, got)
    /\ input.kind = "http" => HttpOk(phase, header, target, to_remote, input.line, input.bytes, got)

(* The streams of the two protocols.                                        *)
LEMMA Streams ==
    ASSUME NEW i \in Inputs
    PROVE  \/ i.kind = "socks" /\ i.bytes \in Seq(Byte)
           \/ i.kind = "http" /\ i.bytes \in Seq(Sym) /\ i.line.uri \in Seq(STRING)
BY RequestsAssumption, Words DEF Byte

(* Two parts of a stream, one after the other.                              *)
LEMMA Joined ==
    ASSUME NEW S, NEW b \in Seq(S), NEW h \in 0..Len(b), NEW g \in h..Len(b), NEW m \in g..Len(b)
    PROVE  SubSeq(b, h + 1, g) \o SubSeq(b, g + 1, m) = SubSeq(b, h + 1, m)
<1> DEFINE x == SubSeq(b, h + 1, g)
           y == SubSeq(b, g + 1, m)
           z == SubSeq(b, h + 1, m)
<1>1. g \in 0..Len(b) /\ m \in h..Len(b)
  OBVIOUS
<1>2. x \in Seq(S) /\ Len(x) = g - h /\ \A i \in 1..(g - h) : x[i] = b[h + i]
  BY Bytes
<1>3. y \in Seq(S) /\ Len(y) = m - g /\ \A i \in 1..(m - g) : y[i] = b[g + i]
  BY <1>1, Bytes
<1>4. z \in Seq(S) /\ Len(z) = m - h /\ \A i \in 1..(m - h) : z[i] = b[h + i]
  BY <1>1, Bytes
<1> HIDE DEF x, y, z
<1>5. /\ x \o y \in Seq(S) /\ Len(x \o y) = Len(x) + Len(y)
      /\ \A i \in 1..(Len(x) + Len(y)) : (x \o y)[i] = IF i <= Len(x) THEN x[i] ELSE y[i - Len(x)]
  BY <1>2, <1>3, ConcatProperties, Zenon
<1>6. Len(x \o y) = Len(z)
  BY <1>2, <1>3, <1>4, <1>5
<1>7. ASSUME NEW i \in 1..(m - h) PROVE (x \o y)[i] = z[i]
  <2>0. z[i] = b[h + i] /\ i \in 1..(Len(x) + Len(y))
    BY <1>2, <1>3, <1>4
  <2>1. CASE i <= g - h
    <3>1. i \in 1..(g - h) /\ i <= Len(x)
      BY <1>2, <2>1
    <3> QED
      BY <1>2, <1>5, <2>0, <3>1
  <2>2. CASE i > g - h
    <3>1. i - (g - h) \in 1..(m - g) /\ ~(i <= Len(x)) /\ i - Len(x) = i - (g - h) /\ g + (i - (g - h)) = h + i
      BY <1>2, <2>2
    <3>2. (x \o y)[i] = y[i - Len(x)]
      BY <1>5, <2>0, <3>1
    <3> QED
      BY <1>3, <2>0, <3>1, <3>2, Zenon
  <2>3. i <= g - h \/ i > g - h
    OBVIOUS
  <2> QED
    BY <2>1, <2>2, <2>3, Zenon
<1>8. \A i \in 1..Len(x \o y) : (x \o y)[i] = z[i]
  BY <1>4, <1>6, <1>7
<1>9. x \o y = z
  BY <1>4, <1>5, <1>6, <1>8, SeqEqual
<1> QED
  BY <1>9 DEF x, y, z

(* Nothing was read.                                                        *)
LEMMA InitInv == Init => Inv
<1> SUFFICES ASSUME Init PROVE Inv
  OBVIOUS
<1> DEFINE b == input.bytes
<1>1. input \in Inputs /\ got = 0 /\ header = <<>>
      /\ phase = IF input.kind = "socks" THEN "SOCKS_GREETING" ELSE "PROXY_HEADER"
  BY DEF Init
<1>2. SubSeq(b, 1, 0) = <<>>
  BY SubSeqEmpty
<1>3. (b \in Seq(Byte) \/ b \in Seq(Sym)) /\ Len(b) \in Nat
  BY <1>1, Streams
<1> HIDE DEF b
<1>4. \A k \in 0..0 : ~Greet(b, k)
  BY DEF Greet
<1>5. input.kind = "socks" => SocksOk(phase, header, target, to_remote, b, got)
  BY <1>1, <1>2, <1>4 DEF SocksOk
<1>6. input.kind = "http" => HttpOk(phase, header, target, to_remote, input.line, b, got)
  BY <1>1, <1>2 DEF HttpOk
<1> QED
  BY <1>1, <1>3, <1>5, <1>6 DEF Inv, b

(* The states the invariant allows are those of the three properties.       *)
LEMMA InvStarted == Inv => StartedAsAsked /\ CompleteIsStarted /\ RefusedForCause
<1> SUFFICES ASSUME Inv PROVE StartedAsAsked /\ CompleteIsStarted /\ RefusedForCause
  OBVIOUS
<1> DEFINE b == input.bytes
           x == [target |-> target, out |-> to_remote]
<1>1. input \in Inputs /\ got \in 0..Len(b)
  BY DEF Inv
<1>2. CASE input.kind = "socks"
  <2>1. b \in Seq(Byte) /\ SocksOk(phase, header, target, to_remote, b, got)
    BY <1>1, <1>2, Streams DEF Inv
  <2>2. \A s : Meanings(s) = SocksMeanings(s)
    BY <1>2 DEF Meanings
  <2>3. \A n \in 0..Len(b) : \A y : y \in Meanings(SubSeq(b, 1, n)) <=> \E k \in 0..n : \E e \in k..n : SocksMeans(b, n, k, e, y)
    BY <2>1, <2>2, SocksMeaningsAre
  <2>4. Received = SubSeq(b, 1, got)
    BY DEF Received
  <2>5. Len(Received) = got
    BY <1>1, <2>1, <2>4, Prefix
  <2> HIDE DEF b
  <2>6. StartedAsAsked
    <3> SUFFICES ASSUME phase = "RESOLVING" PROVE x \in Meanings(Received)
      BY DEF StartedAsAsked
    <3>1. \E k \in 0..got : \E e \in k..got : SocksMeans(b, got, k, e, x)
      BY <2>1 DEF SocksOk
    <3> HIDE DEF x
    <3> QED
      BY <1>1, <2>3, <2>4, <3>1
  <2>7. CompleteIsStarted
    <3> SUFFICES ASSUME phase \notin {"RESOLVING", "CLOSED"} PROVE Meanings(Received) = {}
      BY DEF CompleteIsStarted
    <3>1. ASSUME NEW k \in 0..got, NEW e \in k..got, Greet(b, k), Req(b, k, e) PROVE FALSE
      <4>1. CASE \A h \in 0..got : ~Greet(b, h)
        BY <3>1, <4>1
      <4>2. CASE \E h \in 0..got : Greet(b, h) /\ \A d \in h..got : ~Req(b, h, d)
        <5>1. PICK h \in 0..got : Greet(b, h) /\ \A d \in h..got : ~Req(b, h, d)
          BY <4>2
        <5>2. h = k
          BY <3>1, <5>1 DEF Greet
        <5> QED
          BY <3>1, <5>1, <5>2
      <4> QED
        BY <2>1, <4>1, <4>2 DEF SocksOk
    <3>2. \A y : y \notin Meanings(Received)
      BY <1>1, <2>3, <2>4, <3>1 DEF SocksMeans
    <3> QED
      BY <3>2
  <2>8. RefusedForCause
    <3> SUFFICES ASSUME phase = "CLOSED"
                 PROVE  Len(Received) >= MaxHeader \/ \A n \in 0..Len(b) : Meanings(SubSeq(b, 1, n)) = {}
      BY DEF RefusedForCause, b
    <3>1. CASE got >= MaxHeader
      BY <2>5, <3>1
    <3>2. CASE \A k \in 0..Len(b) : \A e \in k..Len(b) : ~(Greet(b, k) /\ Req(b, k, e))
      <4> SUFFICES ASSUME NEW n \in 0..Len(b), NEW y \in Meanings(SubSeq(b, 1, n)) PROVE FALSE
        OBVIOUS
      <4>1. PICK k \in 0..n : \E e \in k..n : SocksMeans(b, n, k, e, y)
        BY <2>3
      <4>2. PICK e \in k..n : SocksMeans(b, n, k, e, y)
        BY <4>1
      <4>3. k \in 0..Len(b) /\ e \in k..Len(b)
        BY <2>1
      <4> QED
        BY <3>2, <4>2, <4>3 DEF SocksMeans
    <3> QED
      BY <2>1, <3>1, <3>2 DEF SocksOk
  <2> QED
    BY <2>6, <2>7, <2>8
<1>3. CASE input.kind = "http"
  <2> DEFINE line == input.line
  <2>1. b \in Seq(Sym) /\ HttpOk(phase, header, target, to_remote, line, b, got)
    BY <1>1, <1>3, Streams DEF Inv
  <2>2. \A s : Meanings(s) = HttpMeanings(s)
    BY <1>3 DEF Meanings
  <2>3. \A n \in 0..Len(b) : \A y : y \in Meanings(SubSeq(b, 1, n)) <=> HttpMeans(line, b, n, y)
    BY <2>1, <2>2, HttpMeaningsAre
  <2>4. Received = SubSeq(b, 1, got)
    BY DEF Received
  <2>5. Len(Received) = got
    BY <1>1, <2>1, <2>4, Prefix
  <2> HIDE DEF b, line
  <2>6. StartedAsAsked
    <3> SUFFICES ASSUME phase = "RESOLVING" PROVE x \in Meanings(Received)
      BY DEF StartedAsAsked
    <3>1. HttpMeans(line, b, got, x)
      BY <2>1 DEF HttpOk
    <3> HIDE DEF x
    <3> QED
      BY <1>1, <2>3, <2>4, <3>1
  <2>7. CompleteIsStarted
    <3> SUFFICES ASSUME phase \notin {"RESOLVING", "CLOSED"} PROVE Meanings(Received) = {}
      BY DEF CompleteIsStarted
    <3>1. \A j \in 4..got : ~Blank(b, j)
      BY <2>1 DEF HttpOk
    <3>2. \A j \in 5..got : ~EndsAt(b, j)
      BY <3>1 DEF EndsAt
    <3>3. \A y : y \notin Meanings(Received)
      BY <1>1, <2>3, <2>4, <3>2 DEF HttpMeans
    <3> QED
      BY <3>3
  <2>8. RefusedForCause
    <3> SUFFICES ASSUME phase = "CLOSED"
                 PROVE  Len(Received) >= MaxHeader \/ \A n \in 0..Len(b) : Meanings(SubSeq(b, 1, n)) = {}
      BY DEF RefusedForCause, b
    <3>1. CASE got >= MaxHeader
      BY <2>5, <3>1
    <3>2. CASE \A n \in 0..Len(b) : \A y : ~HttpMeans(line, b, n, y)
      BY <2>3, <3>2
    <3> QED
      BY <2>1, <3>1, <3>2 DEF HttpOk
  <2> QED
    BY <2>6, <2>7, <2>8
<1> QED
  BY <1>1, <1>2, <1>3, Streams

(* A read while the connection is being made appends what it returned.      *)
More(o, data) == [o EXCEPT !.data = @ \o data]

LEMMA Appended ==
    ASSUME NEW S, NEW b \in Seq(S), NEW g \in 0..Len(b), NEW m \in g..Len(b), NEW h \in 0..g,
           NEW path, NEW o, o = [path |-> path, data |-> SubSeq(b, h + 1, g)]
    PROVE  More(o, SubSeq(b, g + 1, m)) = [path |-> path, data |-> SubSeq(b, h + 1, m)]
<1>1. SubSeq(b, h + 1, g) \o SubSeq(b, g + 1, m) = SubSeq(b, h + 1, m)
  <2>1. h \in 0..Len(b) /\ g \in h..Len(b) /\ m \in g..Len(b)
    OBVIOUS
  <2> QED
    BY <2>1, Joined
<1> DEFINE x == SubSeq(b, h + 1, g)
           y == SubSeq(b, g + 1, m)
           z == SubSeq(b, h + 1, m)
<1>2. o = [path |-> path, data |-> x] /\ x \o y = z
  BY <1>1
<1> HIDE DEF x, y, z
<1>3. o.data = x
  BY <1>2
<1>4. [o EXCEPT !.data = z] = [path |-> path, data |-> z]
  BY <1>2
<1>5. More(o, y) = [o EXCEPT !.data = o.data \o y]
  BY DEF More
<1>6. More(o, y) = [path |-> path, data |-> z]
  BY <1>2, <1>3, <1>4, <1>5, Zenon
<1> QED
  BY <1>6 DEF y, z

(* ... and leaves a started SOCKS connection right,                         *)
LEMMA SocksMore ==
    ASSUME NEW b \in Seq(Byte), NEW g \in 0..Len(b), NEW m \in g..Len(b), NEW hd, NEW tg, NEW o,
           SocksOk("RESOLVING", hd, tg, o, b, g)
    PROVE  SocksOk("RESOLVING", hd, tg, More(o, SubSeq(b, g + 1, m)), b, m)
<1> DEFINE new == More(o, SubSeq(b, g + 1, m))
<1>1. PICK k \in 0..g : \E e \in k..g : SocksMeans(b, g, k, e, [target |-> tg, out |-> o])
  BY DEF SocksOk
<1>2. PICK e \in k..g : SocksMeans(b, g, k, e, [target |-> tg, out |-> o])
  BY <1>1
<1>3. /\ Greet(b, k) /\ Req(b, k, e)
      /\ [target |-> tg, out |-> o] = [target |-> ReqTarget(b, k, e), out |-> [path |-> <<>>, data |-> SubSeq(b, e + 1, g)]]
  BY <1>2 DEF SocksMeans
<1>4. tg = ReqTarget(b, k, e) /\ o = [path |-> <<>>, data |-> SubSeq(b, e + 1, g)]
  <2> DEFINE u == ReqTarget(b, k, e)
             v == [path |-> <<>>, data |-> SubSeq(b, e + 1, g)]
  <2>1. [target |-> tg, out |-> o] = [target |-> u, out |-> v]
    BY <1>3
  <2> HIDE DEF u, v
  <2>2. tg = u /\ o = v
    BY <2>1
  <2> QED
    BY <2>2 DEF u, v
<1>5. e \in 0..g
  OBVIOUS
<1>6. new = [path |-> <<>>, data |-> SubSeq(b, e + 1, m)]
  BY <1>4, <1>5, Appended, Zenon
<1> HIDE DEF new
<1>7. SocksMeans(b, m, k, e, [target |-> tg, out |-> new])
  BY <1>3, <1>4, <1>6 DEF SocksMeans
<1>8. k \in 0..m /\ e \in k..m
  OBVIOUS
<1>9. SocksOk("RESOLVING", hd, tg, new, b, m)
  BY <1>7, <1>8 DEF SocksOk
<1> QED
  BY <1>9 DEF new

(* ... and an HTTP one.                                                     *)
LEMMA HttpMore ==
    ASSUME NEW b \in Seq(Sym), NEW g \in 0..Len(b), NEW m \in g..Len(b), NEW hd, NEW tg, NEW o, NEW line,
           HttpOk("RESOLVING", hd, tg, o, line, b, g)
    PROVE  HttpOk("RESOLVING", hd, tg, More(o, SubSeq(b, g + 1, m)), line, b, m)
<1> DEFINE new == More(o, SubSeq(b, g + 1, m))
           x == [target |-> tg, out |-> o]
           y == [target |-> tg, out |-> new]
<1>1. HttpMeans(line, b, g, x)
  BY DEF HttpOk
<1>2. PICK j \in 5..g :
         /\ EndsAt(b, j) /\ HasLine(b) /\ ~line.long /\ line.version = "HTTP/1."
         /\ IF line.method = "CONNECT" THEN ConnectMeans(line.uri, b, g, j, x) ELSE PlainMeans(line.uri, b, g, x)
  <2> HIDE DEF x
  <2> QED
    BY <1>1 DEF HttpMeans
<1>3. j \in 5..m /\ j \in 0..g /\ 3 \in 0..g /\ 3 + 1 = 4
  OBVIOUS
<1>4. ASSUME NEW t, NEW path, NEW h \in 0..g, x = Said(t, path, SubSeq(b, h + 1, g))
      PROVE  y = Said(t, path, SubSeq(b, h + 1, m))
  <2> DEFINE v == [path |-> path, data |-> SubSeq(b, h + 1, g)]
  <2>1. [target |-> tg, out |-> o] = [target |-> t, out |-> v]
    BY <1>4 DEF Said
  <2>2. tg = t /\ o = v
    <3> HIDE DEF v
    <3> QED
      BY <2>1
  <2>3. new = [path |-> path, data |-> SubSeq(b, h + 1, m)]
    BY <2>2, Appended, Zenon
  <2> HIDE DEF new
  <2> QED
    BY <2>2, <2>3 DEF Said
<1> HIDE DEF x, y
<1>5. CASE line.method = "CONNECT"
  <2>1. ConnectMeans(line.uri, b, m, j, y)
    BY <1>2, <1>3, <1>4, <1>5 DEF ConnectMeans
  <2> QED
    BY <1>2, <1>3, <1>5, <2>1, Zenon DEF HttpOk, HttpMeans, y
<1>6. CASE line.method # "CONNECT"
  <2>0. ASSUME NEW t, NEW path, x = Said(t, path, SubSeq(b, 4, g)) PROVE y = Said(t, path, SubSeq(b, 4, m))
    <3>1. x = Said(t, path, SubSeq(b, 3 + 1, g))
      BY <1>3, <2>0
    <3>2. y = Said(t, path, SubSeq(b, 3 + 1, m))
      BY <1>3, <1>4, <3>1, Zenon
    <3> QED
      BY <1>3, <3>2
  <2>1. PlainMeans(line.uri, b, m, y)
    BY <1>2, <1>6, <2>0 DEF PlainMeans
  <2> QED
    BY <1>2, <1>3, <1>6, <2>1, Zenon DEF HttpOk, HttpMeans, y
<1> QED
  BY <1>5, <1>6

(* feed_local for a SOCKS client whose request is not complete,             *)
LEMMA SocksReads ==
    ASSUME input.kind = "socks", NEW b \in Seq(Byte), NEW g \in 0..Len(b), NEW m \in g..Len(b), m > g,
           SocksOk(phase, header, target, to_remote, b, g), phase \notin {"RESOLVING", "CLOSED"},
           NEW data, data = SubSeq(b, g + 1, m),
           NEW r, r = IF Fits(Len(data)) THEN parse(header \o data) ELSE Closed
    PROVE  SocksOk(r.to, r.rest, r.target, r.out, b, m)
<1>0. Len(data) = m - g
  <2>1. g \in 0..Len(b) /\ m \in g..Len(b)
    OBVIOUS
  <2> QED
    BY <2>1, Bytes
<1>1. ASSUME NEW h \in 0..g, header = SubSeq(b, h + 1, g)
      PROVE  /\ header \o data = SubSeq(b, h + 1, m)
             /\ ~Fits(Len(data)) => m >= MaxHeader
  <2>1. h \in 0..Len(b) /\ g \in h..Len(b) /\ m \in g..Len(b)
    OBVIOUS
  <2>2. Len(header) = g - h
    BY <1>1, <2>1, Bytes
  <2>3. header \o data = SubSeq(b, h + 1, m)
    BY <1>1, <2>1, Joined
  <2> QED
    BY <1>0, <2>2, <2>3, RequestsAssumption DEF Fits
<1>2. ASSUME NEW h \in 0..g, header = SubSeq(b, h + 1, g), ~Fits(Len(data))
      PROVE  SocksOk(r.to, r.rest, r.target, r.out, b, m)
  <2>1. m >= MaxHeader
    BY <1>1, <1>2
  <2>2. r.to = "CLOSED"
    BY <1>2, Outcomes
  <2> QED
    BY <2>1, <2>2 DEF SocksOk
<1>3. CASE phase = "SOCKS_GREETING" /\ header = SubSeq(b, 1, g)
  <2>1. 0 \in 0..g /\ 0 + 1 = 1
    OBVIOUS
  <2>2. CASE Fits(Len(data))
    <3> DEFINE q == SubSeq(b, 1, m)
    <3>1. header \o data = q
      BY <1>1, <1>3, <2>1
    <3>2. r = parse(q)
      BY <2>2, <3>1, Zenon
    <3> HIDE DEF q
    <3>3. r = IF Greeted(q) THEN greeting(q) ELSE Wait("SOCKS_GREETING", q)
      BY <1>3, <3>2 DEF parse
    <3>4. m \in 0..Len(b)
      OBVIOUS
    <3> QED
      BY <3>3, <3>4, GreetingOk DEF q
  <2>3. CASE ~Fits(Len(data))
    BY <1>2, <1>3, <2>1, <2>3, Zenon
  <2> QED
    BY <2>2, <2>3
<1>4. CASE /\ phase = "SOCKS_REQUEST"
           /\ \E h \in 0..g : Greet(b, h) /\ header = SubSeq(b, h + 1, g)
  <2>1. PICK h \in 0..g : Greet(b, h) /\ header = SubSeq(b, h + 1, g)
    BY <1>4
  <2>2. CASE Fits(Len(data))
    <3> DEFINE q == SubSeq(b, h + 1, m)
    <3>1. header \o data = q
      BY <1>1, <2>1
    <3>2. r = parse(q)
      BY <2>2, <3>1, Zenon
    <3>3. r = parse_socks_request(q)
      <4> HIDE DEF q
      <4> QED
        BY <1>4, <3>2 DEF parse
    <3>4. h \in 0..Len(b) /\ m \in h..Len(b) /\ m \in 0..Len(b) /\ h \in 0..m
      OBVIOUS
    <3>5. SocksVerdict(r, b, h, m)
      BY <3>3, <3>4, ParseSocks
    <3> QED
      BY <2>1, <3>4, <3>5, VerdictOk
  <2>3. CASE ~Fits(Len(data))
    BY <1>2, <2>1, <2>3
  <2> QED
    BY <2>2, <2>3
<1> QED
  BY <1>3, <1>4, Zenon DEF SocksOk

(* ... and for an HTTP client.                                              *)
LEMMA HttpReads ==
    ASSUME input.kind = "http", NEW b \in Seq(Sym), NEW g \in 0..Len(b), NEW m \in g..Len(b), m > g,
           input.line.uri \in Seq(STRING),
           HttpOk(phase, header, target, to_remote, input.line, b, g), phase \notin {"RESOLVING", "CLOSED"},
           NEW data, data = SubSeq(b, g + 1, m),
           NEW r, r = IF Fits(Len(data)) THEN parse(header \o data) ELSE Closed
    PROVE  HttpOk(r.to, r.rest, r.target, r.out, input.line, b, m)
<1> DEFINE q == SubSeq(b, 1, m)
<1>0. /\ 0 \in 0..Len(b) /\ g \in 0..Len(b) /\ m \in g..Len(b) /\ 0 + 1 = 1 /\ m \in 0..Len(b)
      /\ g - 0 = g
  OBVIOUS
<1>1. phase = "PROXY_HEADER" /\ header = SubSeq(b, 1, g)
  BY DEF HttpOk
<1>2. Len(data) = m - g /\ Len(header) = g
  BY <1>0, <1>1, Bytes
<1>3. header \o data = q
  BY <1>0, <1>1, Joined
<1>4. CASE Fits(Len(data))
  <2>1. r = parse(q)
    BY <1>3, <1>4, Zenon
  <2> HIDE DEF q
  <2>2. r = IF Find(q, CRLF \o CRLF) = {} THEN Wait("PROXY_HEADER", q) ELSE parse_http(q)
    BY <1>1, <2>1 DEF parse
  <2> QED
    BY <1>0, <2>2, HttpParse DEF q
<1>5. CASE ~Fits(Len(data))
  <2>1. m >= MaxHeader
    BY <1>2, <1>5, RequestsAssumption, SMTT(20) DEF Fits
  <2>2. r.to = "CLOSED"
    BY <1>5, Outcomes
  <2> QED
    BY <2>1, <2>2 DEF HttpOk
<1> QED
  BY <1>4, <1>5

(* A read keeps the invariant, whatever it returns.                         *)
LEMMA ReadInv == Inv /\ Read => Inv'
<1> SUFFICES ASSUME Inv, Read PROVE Inv'
  OBVIOUS
<1> DEFINE b == input.bytes
<1>1. input \in Inputs /\ got \in 0..Len(b) /\ input' = input /\ phase # "CLOSED"
  BY DEF Inv, Read
<1>2. PICK n \in 1..ReadSize :
         /\ got + n <= Len(b) /\ got' = got + n
         /\ LET data == SubSeq(b, got + 1, got + n)
            IN IF phase = "RESOLVING"
               THEN /\ to_remote' = [to_remote EXCEPT !.data = @ \o data]
                    /\ UNCHANGED <<phase, header, target, replies>>
               ELSE feed_header(data)
  BY Zenon DEF Read
<1> DEFINE m == got + n
           data == SubSeq(b, got + 1, m)
           r == IF Fits(Len(data)) THEN parse(header \o data) ELSE Closed
<1>3. /\ \/ input.kind = "socks" /\ b \in Seq(Byte)
         \/ input.kind = "http" /\ b \in Seq(Sym) /\ input.line.uri \in Seq(STRING)
      /\ Len(b) \in Nat
  BY <1>1, Streams
<1>4. /\ input.kind = "socks" => SocksOk(phase, header, target, to_remote, b, got)
      /\ input.kind = "http" => HttpOk(phase, header, target, to_remote, input.line, b, got)
  BY DEF Inv
<1>5. m \in got..Len(b) /\ m \in 0..Len(b) /\ m > got /\ got' = m
  <2>1. n \in Nat /\ n >= 1
    BY RequestsAssumption
  <2> QED
    BY <1>1, <1>2, <1>3, <2>1
<1>6. CASE phase = "RESOLVING"
  <2>1. to_remote' = More(to_remote, data) /\ phase' = "RESOLVING" /\ header' = header /\ target' = target
    BY <1>2, <1>6, Zenon DEF More
  <2> HIDE DEF m, b
  <2>2. input.kind = "socks" => SocksOk("RESOLVING", header, target, More(to_remote, data), b, m)
    BY <1>1, <1>3, <1>4, <1>5, <1>6, SocksMore
  <2>3. input.kind = "http" => HttpOk("RESOLVING", header, target, More(to_remote, data), input.line, b, m)
    BY <1>1, <1>3, <1>4, <1>5, <1>6, HttpMore
  <2> HIDE DEF data
  <2> QED
    BY <1>1, <1>5, <2>1, <2>2, <2>3 DEF Inv, b
<1>7. CASE phase # "RESOLVING"
  <2>1. phase' = r.to /\ header' = r.rest /\ target' = r.target /\ to_remote' = r.out
    <3>1. feed_header(data)
      BY <1>2, <1>7
    <3> QED
      BY <3>1 DEF feed_header
  <2> HIDE DEF m, b, r, data
  <2>0. /\ phase \notin {"RESOLVING", "CLOSED"} /\ data = SubSeq(b, got + 1, m)
        /\ r = IF Fits(Len(data)) THEN parse(header \o data) ELSE Closed
    BY <1>1, <1>7 DEF r, data
  <2>2. input.kind = "socks" => SocksOk(r.to, r.rest, r.target, r.out, b, m)
    <3> SUFFICES ASSUME input.kind = "socks" PROVE SocksOk(r.to, r.rest, r.target, r.out, b, m)
      OBVIOUS
    <3>1. b \in Seq(Byte) /\ SocksOk(phase, header, target, to_remote, b, got)
      BY <1>3, <1>4
    <3> QED
      BY <1>1, <1>5, <2>0, <3>1, SocksReads, Zenon
  <2>3. input.kind = "http" => HttpOk(r.to, r.rest, r.target, r.out, input.line, b, m)
    <3> SUFFICES ASSUME input.kind = "http" PROVE HttpOk(r.to, r.rest, r.target, r.out, input.line, b, m)
      OBVIOUS
    <3>1. b \in Seq(Sym) /\ input.line.uri \in Seq(STRING) /\ HttpOk(phase, header, target, to_remote, input.line, b, got)
      BY <1>3, <1>4
    <3> QED
      BY <1>1, <1>5, <2>0, <3>1, HttpReads, Zenon
  <2> QED
    BY <1>1, <1>5, <2>1, <2>2, <2>3 DEF Inv, b
<1> QED
  BY <1>6, <1>7

LEMMA NextInv == Inv /\ [Next]_vars => Inv'
<1>1. ASSUME Inv, UNCHANGED vars PROVE Inv'
  BY <1>1 DEF Inv, vars
<1> QED
  BY <1>1, ReadInv DEF Next

(* However a client's bytes are cut into reads, the header buffer holds     *)
(* the part of the stream that is not yet acted on, that part is not        *)
(* complete, and a connection is started or closed as the grammar asks.     *)
THEOREM RequestsInvariance == Spec => []Inv
BY InitInv, NextInv, PTL DEF Spec

(* feed_local starts a connection for the target the client named, and      *)
(* queues exactly the bytes that follow the request.                        *)
THEOREM RequestsStartedAsAsked == Spec => []StartedAsAsked
BY RequestsInvariance, InvStarted, PTL

(* No client waits in feed_local with a complete request in its buffer,     *)
(* also when a SOCKS request came in the same read as the greeting.         *)
THEOREM RequestsCompleteIsStarted == Spec => []CompleteIsStarted
BY RequestsInvariance, InvStarted, PTL

(* feed_local refuses a client only when no prefix of its stream is a       *)
(* request or it had sent MAX_HEADER bytes.                                 *)
THEOREM RequestsRefusedForCause == Spec => []RefusedForCause
BY RequestsInvariance, InvStarted, PTL
=============================================================================
