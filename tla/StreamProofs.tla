---------------------------- MODULE StreamProofs ----------------------------
(***************************************************************************)
(* Both directions of a proxied connection are Channels, for streams,      *)
(* buffers, windows and segments of any size.                              *)
(***************************************************************************)
EXTENDS Stream, SequenceTheorems, TLAPS

Data == Seq(Nat)
Cat(s, t) == s \o t

Connection ==
    [phase : {"CONNECTING", "STREAMING", "CONNECTION_CLOSED"}, tcp : BOOLEAN, fd : BOOLEAN,
     remote_closed : BOOLEAN, reply : BOOLEAN, to_remote : Data, to_local : Data]

Pcb == [pcb : {"open", "closing", "gone"}, snd : Data, refused : Data, refused_fin : BOOLEAN]

(* The types, and that lwIP's send queue is not overfilled.                 *)
TypeOK ==
    /\ c \in Connection
    /\ lwip \in Pcb /\ Len(lwip.snd) <= SendBuffer
    /\ socket \in [in : Data, out : Data, client : {"open", "half", "gone"}]
    /\ target \in [net : Data, fin : {"none", "sent", "in"}]
    /\ client_sent \in Nat /\ target_sent \in Nat
    /\ got \in [client : Data, target : Data]

(* The slot has a pcb exactly as long as lwIP has it open for the slot.     *)
PcbHeld ==
    /\ c.tcp <=> lwip.pcb = "open"
    /\ c.tcp => c.fd /\ c.phase # "CONNECTION_CLOSED"
    /\ c.fd <=> c.phase # "CONNECTION_CLOSED"
    /\ c.phase = "CONNECTING" => c.tcp
    /\ ~c.fd => c.to_local = <<>>

(* What a client sent is with the target, in lwIP's queue or behind it; and *)
(* as long as there is a pcb, in to_remote and then in the client's socket. *)
UpPipe ==
    \E rest \in Data :
       /\ FromClient = Cat(got.target, Cat(lwip.snd, rest))
       /\ c.tcp => rest = Cat(c.to_remote, socket.in)

(* What a target sent is written to the client, in to_local or behind it;   *)
(* as long as there is a pcb, refused or still on its way.                  *)
DownPipe ==
    \E rest \in Data :
       /\ FromTarget = Cat(Written, Cat(c.to_local, rest))
       /\ c.tcp /\ c.phase = "STREAMING" => rest = Cat(lwip.refused, target.net)

(* Before the connection is there nothing has come from the target.         *)
Fresh ==
    c.phase = "CONNECTING" =>
       /\ Written = <<>> /\ c.to_local = <<>> /\ lwip.refused = <<>>
       /\ target.net = <<>> /\ target_sent = 0

Inv == TypeOK /\ PcbHeld /\ UpPipe /\ DownPipe /\ Fresh

(* How a connection ends.  A FIN that waits behind refused data is the last *)
(* that comes; a slot that has lost its pcb and keeps its descriptor has    *)
(* all the target sent, and only has to write it.                           *)
Ended ==
    /\ lwip.refused_fin => target.fin = "in" /\ target.net = <<>>
    /\ c.remote_closed => ~c.tcp
    /\ c.fd /\ ~c.tcp => target.fin = "in" /\ FromTarget = Cat(Written, c.to_local)
    /\ ResponseComplete

(* What select answered still holds when the slot has its turn: there is    *)
(* something to read, or the client has ended, and room for a read.         *)
Selected ==
    set.pc = "serve" /\ set.read =>
       /\ socket.in # <<>> \/ socket.client # "open"
       /\ Len(c.to_remote) + ReadSize < BufferSize

EndInv == Ended /\ Selected

-----------------------------------------------------------------------------
(* Sequences.                                                               *)
LEMMA Concat == \A s, t \in Data : Cat(s, t) \in Data /\ Len(Cat(s, t)) = Len(s) + Len(t)
BY ConcatProperties DEF Data, Cat

LEMMA Assoc == \A s, t, u \in Data : Cat(Cat(s, t), u) = Cat(s, Cat(t, u))
<1> SUFFICES ASSUME NEW s \in Seq(Nat), NEW t \in Seq(Nat), NEW u \in Seq(Nat)
             PROVE  (s \o t) \o u = s \o (t \o u)
  BY SMTT(20) DEF Data, Cat
<1> QED
  BY ConcatAssociative, SMTT(20)

LEMMA Nothing == <<>> \in Data /\ \A s \in Data : Cat(s, <<>>) = s /\ Cat(<<>>, s) = s
BY ConcatEmptySeq, EmptySeq DEF Data, Cat

(* A sequence is what is taken and what is left.                            *)
LEMMA Split ==
    ASSUME NEW s \in Data, NEW k \in 0..Len(s)
    PROVE  /\ Take(s, k) \in Data /\ Drop(s, k) \in Data
           /\ Cat(Take(s, k), Drop(s, k)) = s
           /\ Len(Take(s, k)) = k /\ Len(Drop(s, k)) = Len(s) - k
<1>1. Len(s) \in Nat /\ \A i \in 1..Len(s) : s[i] \in Nat
  BY LenProperties, ElementOfSeq DEF Data
<1>2. /\ SubSeq(s, 1, k) \in Seq(Nat)
      /\ Len(SubSeq(s, 1, k)) = IF 1 <= k THEN k - 1 + 1 ELSE 0
  <2>1. \A i \in 1..k : s[i] \in Nat
    BY <1>1
  <2> QED
    BY <1>1, <2>1, SubSeqProperties
<1>3. /\ SubSeq(s, k + 1, Len(s)) \in Seq(Nat)
      /\ Len(SubSeq(s, k + 1, Len(s))) = IF k + 1 <= Len(s) THEN Len(s) - (k + 1) + 1 ELSE 0
  <2>1. \A i \in (k + 1)..Len(s) : s[i] \in Nat
    BY <1>1
  <2> QED
    BY <1>1, <2>1, SubSeqProperties
<1>4. SubSeq(s, 1, k) \o SubSeq(s, k + 1, Len(s)) = SubSeq(s, 1, Len(s))
  <2>1. 1 \in 1..(Len(s) + 1) /\ k \in (1 - 1)..Len(s) /\ Len(s) \in k..Len(s)
    BY <1>1
  <2> QED
    BY <2>1, ConcatAdjacentSubSeq DEF Data
<1>5. SubSeq(s, 1, Len(s)) = s
  BY SubSeqFull DEF Data
<1>6. Len(SubSeq(s, 1, k)) = k /\ Len(SubSeq(s, k + 1, Len(s))) = Len(s) - k
  BY <1>1, <1>2, <1>3
<1> QED
  BY <1>2, <1>3, <1>4, <1>5, <1>6, Zenon DEF Take, Drop, Data, Cat

(* The least of three lengths.                                              *)
LEMMA LeastFacts ==
    ASSUME NEW a \in Nat, NEW b \in Nat, NEW g \in Nat
    PROVE  Least(Least(a, b), g) \in 0..a /\ Least(Least(a, b), g) <= b
BY DEF Least

LEMMA LeastOfTwo ==
    ASSUME NEW a \in Int, NEW b \in Int, NEW k \in Nat, k <= Least(a, b)
    PROVE  k \in 0..a /\ k \in 0..b
BY DEF Least

(* A peer's next byte is appended to what it has sent.                      *)
LEMMA NextByte ==
    ASSUME NEW n \in Nat
    PROVE  Bytes(n) \in Data /\ <<n + 1>> \in Data /\ Bytes(n + 1) = Cat(Bytes(n), <<n + 1>>)
<1> DEFINE a == Bytes(n)
           b == <<n + 1>>
<1>1. \A m \in Nat : Bytes(m) \in Seq(Nat) /\ Len(Bytes(m)) = m /\ \A i \in 1..m : Bytes(m)[i] = i
  <2> SUFFICES ASSUME NEW m \in Nat
               PROVE  Bytes(m) \in Seq(Nat) /\ Len(Bytes(m)) = m /\ \A i \in 1..m : Bytes(m)[i] = i
    OBVIOUS
  <2>1. Bytes(m) \in [1..m -> Nat]
    BY DEF Bytes
  <2> QED
    BY <2>1, SeqDef DEF Bytes
<1>2. b \in Seq(Nat) /\ Len(b) = 1 /\ b[1] = n + 1
  OBVIOUS
<1>3. a \in Seq(Nat) /\ Len(a) = n /\ \A i \in 1..n : a[i] = i
  BY <1>1
<1> HIDE DEF a, b
<1>4. /\ a \o b \in Seq(Nat) /\ Len(a \o b) = n + 1
      /\ \A i \in 1..(n + 1) : (a \o b)[i] = IF i <= n THEN a[i] ELSE b[i - n]
  <2>1. /\ a \o b \in Seq(Nat) /\ Len(a \o b) = Len(a) + Len(b)
        /\ \A i \in 1..(Len(a) + Len(b)) : (a \o b)[i] = IF i <= Len(a) THEN a[i] ELSE b[i - Len(a)]
    BY <1>2, <1>3, ConcatProperties
  <2> QED
    BY <1>2, <1>3, <2>1
<1>5. \A i \in 1..(n + 1) : (a \o b)[i] = i
  BY <1>2, <1>3, <1>4
<1>6. Bytes(n + 1) \in Seq(Nat) /\ Len(Bytes(n + 1)) = n + 1 /\ \A i \in 1..(n + 1) : Bytes(n + 1)[i] = i
  BY <1>1
<1>7. Bytes(n + 1) = a \o b
  BY <1>4, <1>5, <1>6, SeqEqual
<1> QED
  BY <1>2, <1>3, <1>7 DEF a, b, Data, Cat

(* A channel's prefix.                                                      *)
LEMMA Prefix ==
    ASSUME NEW s \in Data, NEW t \in Data
    PROVE  Up!IsPrefix(s, Cat(s, t)) /\ Down!IsPrefix(s, Cat(s, t))
<1>1. Len(s) \in Nat /\ Len(t) \in Nat /\ Len(s \o t) = Len(s) + Len(t)
  BY LenProperties, ConcatProperties DEF Data
<1>2. s = SubSeq(s \o t, 1, Len(s))
  <2>1. CASE Len(s) = 0
    BY <2>1, SubSeqEmpty
  <2>2. CASE Len(s) # 0
    <3>1. 1 \in 1..Len(s) /\ Len(s) \in 1..Len(s)
      BY <1>1, <2>2
    <3> QED
      BY <3>1, SubSeqOfConcat1 DEF Data
  <2> QED
    BY <2>1, <2>2
<1>3. Len(s) <= Len(s \o t)
  BY <1>1
<1> QED
  BY <1>2, <1>3 DEF Up!IsPrefix, Down!IsPrefix, Cat

-----------------------------------------------------------------------------
(* A step as the channel to the target sees it.                             *)
UpStep ==
    \/ client_sent' = client_sent + 1 /\ got'.target = got.target /\ lwip'.pcb = lwip.pcb
    \/ /\ client_sent' = client_sent
       /\ \E x \in Data : got'.target = Cat(got.target, x)
       /\ lwip.pcb = "gone" => lwip'.pcb = "gone" /\ got'.target = got.target

(* A step as the channel to the client sees it.                             *)
DownStep ==
    /\ c'.reply = c.reply
    /\ \/ target_sent' = target_sent + 1 /\ Written' = Written /\ c'.fd = c.fd
       \/ /\ target_sent' = target_sent
          /\ \E x \in Data : Written' = Cat(Written, x)
          /\ ~c.fd => ~c'.fd /\ Written' = Written

LEMMA UpIsChannel ==
    ASSUME Inv, Inv', UpStep
    PROVE  [Up!Next]_(Up!vars)
<1> DEFINE s == FromClient
           r == got.target
<1>1. /\ s \in Data /\ s' \in Data /\ r \in Data /\ r' \in Data
      /\ client_sent \in Nat
  BY NextByte DEF Inv, TypeOK, FromClient
<1>2. \E rest \in Data : s' = Cat(r', rest)
  <2>1. PICK rest \in Data : s' = Cat(r', Cat(lwip'.snd, rest))
    BY DEF Inv, UpPipe
  <2>2. Cat(lwip'.snd, rest) \in Data
    BY Concat DEF Inv, TypeOK, Pcb
  <2> QED
    BY <2>1, <2>2
<1>3. CASE client_sent' = client_sent + 1 /\ got'.target = got.target /\ lwip'.pcb = lwip.pcb
  <2>1. s' = Cat(s, <<client_sent + 1>>) /\ <<client_sent + 1>> \in Data
    BY <1>1, <1>3, NextByte DEF FromClient
  <2>2. Up!IsPrefix(s, s')
    BY <1>1, <2>1, Prefix
  <2> QED
    BY <1>3, <2>2 DEF Up!Next, Up!Send
<1>4. CASE /\ client_sent' = client_sent
           /\ \E x \in Data : got'.target = Cat(got.target, x)
           /\ lwip.pcb = "gone" => lwip'.pcb = "gone" /\ got'.target = got.target
  <2>1. s' = s
    BY <1>4 DEF FromClient
  <2>2. Up!IsPrefix(r, r')
    BY <1>1, <1>4, Prefix
  <2>3. Up!IsPrefix(r', s)
    BY <1>1, <1>2, <2>1, Prefix
  <2> HIDE DEF s, r
  <2>4. CASE lwip.pcb = "gone"
    BY <1>4, <2>1, <2>4 DEF Up!vars, s, r
  <2>5. CASE lwip.pcb # "gone"
    BY <1>4, <2>1, <2>2, <2>3, <2>5 DEF Up!Next, Up!Deliver, Up!Cut, s, r
  <2> QED
    BY <2>4, <2>5
<1> QED
  BY <1>3, <1>4 DEF UpStep

LEMMA DownIsChannel ==
    ASSUME Inv, Inv', DownStep
    PROVE  [Down!Next]_(Down!vars)
<1> DEFINE s == FromTarget
           r == Written
           reply == IF c.reply THEN <<Reply>> ELSE <<>>
<1>1. /\ s \in Data /\ s' \in Data /\ r \in Data /\ r' \in Data
      /\ target_sent \in Nat /\ reply \in Data /\ Bytes(target_sent) \in Data
  <2>1. target_sent \in Nat /\ target_sent' \in Nat /\ c.reply \in BOOLEAN /\ c'.reply \in BOOLEAN
    BY DEF Inv, TypeOK, Connection
  <2>2. Bytes(target_sent) \in Data /\ Bytes(target_sent') \in Data
    BY <2>1, NextByte
  <2>3. <<Reply>> \in Data /\ <<>> \in Data
    BY DEF Reply, Data
  <2>4. s \in Data /\ s' \in Data
    BY <2>2, <2>3, Concat DEF FromTarget, Cat
  <2>5. r \in Data /\ r' \in Data
    BY Concat DEF Inv, TypeOK, Written, Cat
  <2> QED
    BY <2>1, <2>2, <2>3, <2>4, <2>5
<1>2. \E rest \in Data : s' = Cat(r', rest)
  <2>1. PICK rest \in Data : s' = Cat(r', Cat(c'.to_local, rest))
    BY DEF Inv, DownPipe
  <2>2. Cat(c'.to_local, rest) \in Data
    BY Concat DEF Inv, TypeOK, Connection
  <2> QED
    BY <2>1, <2>2
<1>3. CASE target_sent' = target_sent + 1 /\ Written' = Written /\ c'.fd = c.fd
  <2>1. Bytes(target_sent') = Cat(Bytes(target_sent), <<target_sent + 1>>) /\ <<target_sent + 1>> \in Data
    BY <1>1, <1>3, NextByte
  <2>2. s = Cat(reply, Bytes(target_sent)) /\ s' = Cat(reply, Bytes(target_sent'))
    BY DEF FromTarget, DownStep, Cat
  <2>3. s' = Cat(s, <<target_sent + 1>>)
    <3> HIDE DEF s, reply
    <3> QED
      BY <1>1, <2>1, <2>2, Assoc
  <2>4. Down!IsPrefix(s, s')
    BY <1>1, <2>1, <2>3, Prefix
  <2> QED
    BY <1>3, <2>4 DEF Down!Next, Down!Send
<1>4. CASE /\ target_sent' = target_sent
           /\ \E x \in Data : Written' = Cat(Written, x)
           /\ ~c.fd => ~c'.fd /\ Written' = Written
  <2>1. s' = s
    BY <1>4 DEF FromTarget, DownStep
  <2>2. Down!IsPrefix(r, r')
    BY <1>1, <1>4, Prefix
  <2>3. Down!IsPrefix(r', s)
    BY <1>1, <1>2, <2>1, Prefix
  <2> HIDE DEF s, r
  <2>4. CASE ~c.fd
    BY <1>4, <2>1, <2>4 DEF Down!vars, s, r
  <2>5. CASE c.fd
    BY <1>4, <2>1, <2>2, <2>3, <2>5 DEF Down!Next, Down!Deliver, Down!Cut, s, r
  <2> QED
    BY <2>4, <2>5
<1> QED
  BY <1>3, <1>4 DEF DownStep

-----------------------------------------------------------------------------
(* flush_remote moves bytes from to_remote to lwIP's queue, and no others.  *)
LEMMA Flushed ==
    ASSUME NEW d \in Connection, NEW q \in Pcb, Len(q.snd) <= SendBuffer, flush_remote(d, q)
    PROVE  /\ c' = [d EXCEPT !.to_remote = c'.to_remote] /\ c' \in Connection
           /\ lwip' = [q EXCEPT !.snd = lwip'.snd] /\ lwip' \in Pcb
           /\ Len(lwip'.snd) <= SendBuffer
           /\ Cat(lwip'.snd, c'.to_remote) = Cat(q.snd, d.to_remote)
           /\ ~d.tcp => c' = d /\ lwip' = q
           /\ Len(c'.to_remote) <= Len(d.to_remote)
<1> DEFINE k == Least(Least(Len(d.to_remote), SendBuffer - Len(q.snd)), Segment)
           s == d.to_remote
<1>1. CASE c' = d /\ lwip' = q
  <2>1. d.to_remote \in Seq(Nat)
    BY DEF Connection, Data
  <2>2. Len(d.to_remote) <= Len(d.to_remote)
    BY <2>1, LenProperties
  <2> QED
    BY <1>1, <2>2 DEF Connection, Pcb
<1>2. CASE /\ d.tcp /\ d.phase = "STREAMING"
           /\ c' = [d EXCEPT !.to_remote = Drop(@, k)]
           /\ lwip' = [q EXCEPT !.snd = @ \o Take(d.to_remote, k)]
  <2>1. s \in Data /\ q.snd \in Data
    BY DEF Connection, Pcb
  <2>2. Len(s) \in Nat /\ Len(q.snd) \in Nat /\ SendBuffer \in Nat /\ Segment \in Nat
    BY <2>1, StreamSizes, LenProperties DEF Data
  <2>3. k \in 0..Len(s) /\ k <= SendBuffer - Len(q.snd)
    <3>1. SendBuffer - Len(q.snd) \in Nat
      BY <2>2
    <3> QED
      BY <2>2, <3>1, LeastFacts
  <2> HIDE DEF k
  <2>4. /\ Take(s, k) \in Data /\ Drop(s, k) \in Data /\ Len(Take(s, k)) = k
        /\ Cat(Take(s, k), Drop(s, k)) = s /\ Len(Drop(s, k)) = Len(s) - k
    BY <2>1, <2>3, Split
  <2>5. Cat(q.snd, Take(s, k)) \in Data /\ Len(Cat(q.snd, Take(s, k))) = Len(q.snd) + k
    BY <2>1, <2>4, Concat
  <2>6. Cat(Cat(q.snd, Take(s, k)), Drop(s, k)) = Cat(q.snd, s)
    BY <2>1, <2>4, Assoc
  <2>7. Len(q.snd) + k <= SendBuffer /\ Len(Drop(s, k)) <= Len(s)
    BY <2>2, <2>3, <2>4
  <2>8. /\ c' = [d EXCEPT !.to_remote = Drop(s, k)]
        /\ lwip' = [q EXCEPT !.snd = Cat(q.snd, Take(s, k))]
    BY <1>2 DEF Cat
  <2>9. c'.to_remote = Drop(s, k) /\ lwip'.snd = Cat(q.snd, Take(s, k))
    BY <2>8 DEF Connection, Pcb
  <2>10. c' \in Connection /\ lwip' \in Pcb
    BY <2>4, <2>5, <2>8 DEF Connection, Pcb
  <2> QED
    BY <1>2, <2>5, <2>6, <2>7, <2>8, <2>9, <2>10
<1> QED
  BY <1>1, <1>2 DEF flush_remote

(* A step that adds nothing to the way to the target keeps it whole, or     *)
(* loses what is behind lwIP's queue, or all of it.                         *)
UpMoved ==
    \/ /\ c.tcp /\ c'.tcp
       /\ Cat(lwip'.snd, Cat(c'.to_remote, socket'.in)) = Cat(lwip.snd, Cat(c.to_remote, socket.in))
    \/ ~c'.tcp /\ lwip'.snd = lwip.snd
    \/ ~c'.tcp /\ lwip'.snd = <<>>

LEMMA UpKept ==
    ASSUME TypeOK, TypeOK', UpPipe,
           client_sent' = client_sent, got'.target = got.target, UpMoved
    PROVE  UpPipe'
<1>1. PICK rest \in Data : /\ FromClient = Cat(got.target, Cat(lwip.snd, rest))
                           /\ c.tcp => rest = Cat(c.to_remote, socket.in)
  BY DEF UpPipe
<1>2. FromClient' = FromClient
  BY DEF FromClient
<1>3. CASE /\ c.tcp /\ c'.tcp
           /\ Cat(lwip'.snd, Cat(c'.to_remote, socket'.in)) = Cat(lwip.snd, Cat(c.to_remote, socket.in))
  <2>1. Cat(c'.to_remote, socket'.in) \in Data
    BY Concat DEF TypeOK, Connection
  <2>2. FromClient' = Cat(got'.target, Cat(lwip'.snd, Cat(c'.to_remote, socket'.in)))
    BY <1>1, <1>2, <1>3
  <2> QED
    BY <2>1, <2>2 DEF UpPipe
<1>4. CASE ~c'.tcp /\ lwip'.snd = lwip.snd
  BY <1>1, <1>2, <1>4 DEF UpPipe
<1>5. CASE ~c'.tcp /\ lwip'.snd = <<>>
  <2>1. Cat(lwip.snd, rest) \in Data
    BY Concat DEF TypeOK, Pcb
  <2>2. FromClient' = Cat(got'.target, Cat(lwip'.snd, Cat(lwip.snd, rest)))
    BY <1>1, <1>2, <1>5, <2>1, Nothing
  <2> QED
    BY <1>5, <2>1, <2>2 DEF UpPipe
<1> QED
  BY <1>3, <1>4, <1>5 DEF UpMoved

(* A step that adds nothing to the way to the client moves bytes along it,  *)
(* or loses some behind those that were written.                            *)
DownMoved ==
    \/ /\ c.tcp /\ c.phase = "STREAMING"
       /\ \E x \in Data :
             /\ Cat(Written, Cat(c.to_local, Cat(lwip.refused, target.net)))
                = Cat(Written', Cat(c'.to_local, x))
             /\ c'.tcp /\ c'.phase = "STREAMING" => x = Cat(lwip'.refused, target'.net)
    \/ /\ ~(c'.tcp /\ c'.phase = "STREAMING")
       /\ \E x \in Data : Cat(Written, c.to_local) = Cat(Written', Cat(c'.to_local, x))

LEMMA DownKept ==
    ASSUME TypeOK, TypeOK', DownPipe,
           target_sent' = target_sent, c'.reply = c.reply, DownMoved
    PROVE  DownPipe'
<1>1. PICK rest \in Data : /\ FromTarget = Cat(Written, Cat(c.to_local, rest))
                           /\ c.tcp /\ c.phase = "STREAMING" => rest = Cat(lwip.refused, target.net)
  BY DEF DownPipe
<1>2. FromTarget' = FromTarget
  BY DEF FromTarget
<1>3. CASE /\ c.tcp /\ c.phase = "STREAMING"
           /\ \E x \in Data :
                 /\ Cat(Written, Cat(c.to_local, Cat(lwip.refused, target.net)))
                    = Cat(Written', Cat(c'.to_local, x))
                 /\ c'.tcp /\ c'.phase = "STREAMING" => x = Cat(lwip'.refused, target'.net)
  BY <1>1, <1>2, <1>3 DEF DownPipe
<1>4. CASE /\ ~(c'.tcp /\ c'.phase = "STREAMING")
           /\ \E x \in Data : Cat(Written, c.to_local) = Cat(Written', Cat(c'.to_local, x))
  <2>1. PICK x \in Data : Cat(Written, c.to_local) = Cat(Written', Cat(c'.to_local, x))
    BY <1>4
  <2>2. Written \in Data /\ Written' \in Data /\ c.to_local \in Data /\ c'.to_local \in Data
    BY Concat DEF TypeOK, Connection, Written, Cat
  <2>3. Cat(c'.to_local, x) \in Data /\ Cat(x, rest) \in Data
    BY <2>2, Concat
  <2>4. FromTarget' = Cat(Written', Cat(c'.to_local, Cat(x, rest)))
    BY <1>1, <1>2, <2>1, <2>2, <2>3, Assoc
  <2> QED
    BY <1>4, <2>3, <2>4 DEF DownPipe
<1> QED
  BY <1>3, <1>4 DEF DownMoved

-----------------------------------------------------------------------------
LEMMA NothingLeft ==
    ASSUME NEW s \in Data, NEW t \in Data, NEW u \in Data, Cat(s, Cat(t, u)) = <<>>
    PROVE  s = <<>> /\ t = <<>>
<1>1. Cat(t, u) \in Data /\ Len(Cat(s, Cat(t, u))) = Len(s) + (Len(t) + Len(u))
  <2>1. Cat(t, u) \in Data /\ Len(Cat(t, u)) = Len(t) + Len(u)
    BY Concat
  <2>2. Len(Cat(s, Cat(t, u))) = Len(s) + Len(Cat(t, u))
    BY <2>1, Concat
  <2> QED
    BY <2>1, <2>2
<1>2. Len(s) \in Nat /\ Len(t) \in Nat /\ Len(u) \in Nat
  BY LenProperties DEF Data
<1>3. 0 = Len(s) + (Len(t) + Len(u))
  <2>1. Len(<<>>) = 0
    OBVIOUS
  <2> QED
    BY <1>1, <2>1
<1>4. Len(s) = 0 /\ Len(t) = 0
  BY <1>2, <1>3
<1> QED
  BY <1>4, EmptySeq DEF Data

LEMMA AddOne ==
    ASSUME NEW s \in Data, NEW n \in Nat
    PROVE  Append(s, n) = Cat(s, <<n>>)
BY AppendIsConcat DEF Data, Cat

(* The fields' types, one by one.                                           *)
LEMMA Fields ==
    ASSUME TypeOK
    PROVE  /\ c.to_remote \in Data /\ c.to_local \in Data /\ lwip.snd \in Data /\ lwip.refused \in Data
           /\ socket.in \in Data /\ socket.out \in Data /\ target.net \in Data
           /\ got.client \in Data /\ got.target \in Data /\ Written \in Data
           /\ client_sent \in Nat /\ target_sent \in Nat
           /\ c.tcp \in BOOLEAN /\ c.fd \in BOOLEAN /\ c.reply \in BOOLEAN
           /\ FromClient \in Data /\ FromTarget \in Data
<1>1. /\ c.to_remote \in Data /\ c.to_local \in Data /\ lwip.snd \in Data /\ lwip.refused \in Data
      /\ socket.in \in Data /\ socket.out \in Data /\ target.net \in Data
      /\ got.client \in Data /\ got.target \in Data
      /\ client_sent \in Nat /\ target_sent \in Nat
      /\ c.tcp \in BOOLEAN /\ c.fd \in BOOLEAN /\ c.reply \in BOOLEAN
  BY DEF TypeOK, Connection, Pcb
<1>2. Written \in Data
  BY <1>1, Concat DEF Written, Cat
<1>3. Bytes(client_sent) \in Data /\ Bytes(target_sent) \in Data
  BY <1>1, NextByte
<1>4. <<Reply>> \in Data /\ <<>> \in Data
  BY DEF Reply, Data
<1>5. FromClient \in Data /\ FromTarget \in Data
  BY <1>3, <1>4, Concat DEF FromClient, FromTarget, Cat
<1> QED
  BY <1>1, <1>2, <1>5

(* Steps that do not touch one of the two ways.                             *)
LEMMA UpSame ==
    ASSUME Inv, client_sent' = client_sent, got'.target = got.target, lwip'.snd = lwip.snd,
           lwip'.pcb = lwip.pcb, c'.tcp = c.tcp, c'.to_remote = c.to_remote, socket'.in = socket.in
    PROVE  UpPipe' /\ UpStep
<1>1. UpPipe'
  BY DEF Inv, UpPipe, FromClient
<1>2. got'.target = Cat(got.target, <<>>) /\ <<>> \in Data
  BY Fields, Nothing DEF Inv
<1> QED
  BY <1>1, <1>2 DEF UpStep

LEMMA DownSame ==
    ASSUME Inv, target_sent' = target_sent, Written' = Written, c'.reply = c.reply,
           c'.tcp = c.tcp, c'.fd = c.fd, c'.phase = c.phase, c'.to_local = c.to_local,
           lwip'.refused = lwip.refused, target'.net = target.net
    PROVE  DownPipe' /\ Fresh' /\ DownStep
<1>1. DownPipe'
  BY DEF Inv, DownPipe, FromTarget
<1>2. Fresh'
  BY DEF Inv, Fresh
<1>3. Written' = Cat(Written, <<>>) /\ <<>> \in Data
  BY Fields, Nothing DEF Inv
<1> QED
  BY <1>1, <1>2, <1>3 DEF DownStep

(* A step that keeps the invariant and that both channels can take.         *)
Good == Inv' /\ UpStep /\ DownStep

-----------------------------------------------------------------------------
(* The peers.                                                               *)
LEMMA ClientSendGood == Inv /\ ClientSend => Good
<1> SUFFICES ASSUME Inv, ClientSend PROVE Good
  OBVIOUS
<1>1. /\ client_sent' = client_sent + 1
      /\ socket' = [socket EXCEPT !.in = Append(@, client_sent + 1)]
      /\ UNCHANGED <<c, lwip, target, target_sent, got>>
  BY DEF ClientSend
<1>2. /\ <<client_sent + 1>> \in Data /\ Bytes(client_sent + 1) = Cat(Bytes(client_sent), <<client_sent + 1>>)
      /\ Append(socket.in, client_sent + 1) = Cat(socket.in, <<client_sent + 1>>)
  <2>1. client_sent \in Nat /\ client_sent + 1 \in Nat /\ socket.in \in Data
    BY Fields DEF Inv
  <2> QED
    BY <2>1, NextByte, AddOne
<1>3. /\ socket' = [socket EXCEPT !.in = Cat(socket.in, <<client_sent + 1>>)]
      /\ Cat(socket.in, <<client_sent + 1>>) \in Data
  BY <1>1, <1>2, Fields, Concat DEF Inv
<1>4. TypeOK' /\ PcbHeld'
  <2>1. client_sent' \in Nat
    BY <1>1, Fields DEF Inv
  <2> QED
    BY <1>1, <1>3, <2>1 DEF Inv, TypeOK, PcbHeld
<1>5. UpPipe'
  <2>1. PICK rest \in Data : /\ FromClient = Cat(got.target, Cat(lwip.snd, rest))
                             /\ c.tcp => rest = Cat(c.to_remote, socket.in)
    BY DEF Inv, UpPipe
  <2> DEFINE b == <<client_sent + 1>>
  <2>2. FromClient' = Cat(FromClient, b)
    BY <1>1, <1>2 DEF FromClient
  <2>3. b \in Data /\ socket'.in = Cat(socket.in, b)
    BY <1>2, <1>3 DEF Inv, TypeOK
  <2> HIDE DEF b
  <2>4. Cat(rest, b) \in Data /\ Cat(lwip.snd, rest) \in Data
    BY <2>3, Fields, Concat DEF Inv
  <2>5. FromClient' = Cat(got.target, Cat(lwip.snd, Cat(rest, b)))
    BY <2>1, <2>2, <2>3, <2>4, Fields, Assoc DEF Inv
  <2>6. c.tcp => Cat(rest, b) = Cat(c.to_remote, socket'.in)
    BY <2>1, <2>3, Fields, Assoc DEF Inv
  <2> QED
    BY <1>1, <2>4, <2>5, <2>6 DEF UpPipe
<1>6. UpStep
  BY <1>1 DEF UpStep
<1>7. DownPipe' /\ Fresh' /\ DownStep
  <2>1. Written' = Written
    BY <1>1, <1>3 DEF Written, Inv, TypeOK
  <2> QED
    BY <1>1, <2>1, DownSame
<1> QED
  BY <1>4, <1>5, <1>6, <1>7 DEF Good, Inv

LEMMA ClientEndGood == Inv /\ ClientEnd => Good
<1> SUFFICES ASSUME Inv, ClientEnd PROVE Good
  OBVIOUS
<1>1. PICK s \in {"half", "gone"} : socket' = [socket EXCEPT !.client = s]
  BY DEF ClientEnd
<1>2. UNCHANGED <<c, lwip, target, client_sent, target_sent, got>>
  BY DEF ClientEnd
<1>3. TypeOK' /\ PcbHeld' /\ socket'.in = socket.in /\ socket'.out = socket.out
  BY <1>1, <1>2 DEF Inv, TypeOK, PcbHeld
<1>4. UpPipe' /\ UpStep
  BY <1>2, <1>3, UpSame
<1>5. DownPipe' /\ Fresh' /\ DownStep
  BY <1>2, <1>3, DownSame DEF Written
<1> QED
  BY <1>3, <1>4, <1>5 DEF Good, Inv

LEMMA ClientReadWritten ==
    ASSUME Inv, ClientRead
    PROVE  Written' = Written /\ TypeOK' /\ got'.target = got.target /\ socket'.in = socket.in
<1> DEFINE h == <<Head(socket.out)>>
           r == Tail(socket.out)
<1>1. /\ socket.out # <<>> /\ got' = [got EXCEPT !.client = Append(@, Head(socket.out))]
      /\ socket' = [socket EXCEPT !.out = r]
      /\ UNCHANGED <<c, lwip, target, client_sent, target_sent>>
  BY DEF ClientRead
<1>2. h \in Data /\ r \in Data /\ Cat(h, r) = socket.out
  <2>1. socket.out \in Seq(Nat) /\ socket.out # <<>>
    BY <1>1, Fields DEF Inv, Data
  <2>2. Head(socket.out) \in Nat /\ r \in Seq(Nat)
    BY <2>1, HeadTailProperties
  <2>3. h \o r = socket.out
    BY <2>1, <2>2
  <2> QED
    BY <2>2, <2>3 DEF Data, Cat
<1>3. /\ got' = [got EXCEPT !.client = Cat(got.client, h)] /\ Cat(got.client, h) \in Data
  <2>1. Append(got.client, Head(socket.out)) = got.client \o h
    BY <1>1, Fields, HeadTailProperties, AppendIsConcat DEF Inv, Data
  <2>2. Cat(got.client, h) \in Data
    BY <1>2, Fields, Concat DEF Inv
  <2> QED
    BY <1>1, <2>1, <2>2, SMTT(20) DEF Cat
<1> HIDE DEF h, r
<1>4. /\ TypeOK' /\ got'.target = got.target /\ socket'.in = socket.in
      /\ got'.client = Cat(got.client, h) /\ socket'.out = r
  BY <1>1, <1>2, <1>3 DEF Inv, TypeOK
<1>5. Written' = Written
  <2>1. Written = Cat(got.client, Cat(h, r)) /\ Written' = Cat(Cat(got.client, h), r)
    BY <1>2, <1>4 DEF Written, Cat
  <2> QED
    BY <1>2, <2>1, Fields, Assoc DEF Inv
<1> QED
  BY <1>4, <1>5

LEMMA ClientReadGood == Inv /\ ClientRead => Good
<1> SUFFICES ASSUME Inv, ClientRead PROVE Good
  OBVIOUS
<1>1. UNCHANGED <<c, lwip, target, client_sent, target_sent>>
  BY DEF ClientRead
<1>2. PcbHeld'
  BY <1>1 DEF Inv, PcbHeld
<1>3. UpPipe' /\ UpStep
  BY <1>1, ClientReadWritten, UpSame
<1>4. DownPipe' /\ Fresh' /\ DownStep
  BY <1>1, ClientReadWritten, DownSame
<1> QED
  BY <1>2, <1>3, <1>4, ClientReadWritten DEF Good, Inv

LEMMA TargetSendGood == Inv /\ TargetSend => Good
<1> SUFFICES ASSUME Inv, TargetSend PROVE Good
  OBVIOUS
<1> DEFINE b == <<target_sent + 1>>
           reply == IF c.reply THEN <<Reply>> ELSE <<>>
<1>1. /\ c.phase = "STREAMING" /\ c.tcp
      /\ target_sent' = target_sent + 1
      /\ target' = [target EXCEPT !.net = Append(@, target_sent + 1)]
      /\ UNCHANGED <<c, lwip, socket, client_sent, got>>
  BY DEF TargetSend, Inv, PcbHeld
<1>2. /\ target_sent \in Nat /\ target_sent + 1 \in Nat /\ b \in Data
      /\ Bytes(target_sent) \in Data /\ Bytes(target_sent + 1) = Cat(Bytes(target_sent), b)
      /\ Append(target.net, target_sent + 1) = Cat(target.net, b) /\ Cat(target.net, b) \in Data
  <2>1. target_sent \in Nat /\ target_sent + 1 \in Nat /\ target.net \in Data
    BY Fields DEF Inv
  <2> QED
    BY <2>1, NextByte, AddOne, Concat
<1>3. reply \in Data
  BY DEF Reply, Data
<1>4. FromTarget = Cat(reply, Bytes(target_sent)) /\ FromTarget' = Cat(reply, Bytes(target_sent + 1))
  BY <1>1 DEF FromTarget, Cat
<1> HIDE DEF b, reply
<1>5. TypeOK' /\ PcbHeld' /\ target'.net = Cat(target.net, b)
  BY <1>1, <1>2 DEF Inv, TypeOK, PcbHeld
<1>6. FromTarget' = Cat(FromTarget, b)
  BY <1>2, <1>3, <1>4, Assoc
<1>7. Written' = Written
  BY <1>1 DEF Written
<1>8. DownPipe'
  <2>1. PICK rest \in Data : /\ FromTarget = Cat(Written, Cat(c.to_local, rest))
                             /\ rest = Cat(lwip.refused, target.net)
    BY <1>1 DEF Inv, DownPipe
  <2>2. Cat(rest, b) \in Data /\ Cat(c.to_local, rest) \in Data
    BY <1>2, Fields, Concat DEF Inv
  <2>3. FromTarget' = Cat(Written, Cat(c.to_local, Cat(rest, b)))
    <3>1. Written \in Data /\ c.to_local \in Data /\ b \in Data
      BY <1>2, Fields DEF Inv
    <3>2. Cat(Cat(Written, Cat(c.to_local, rest)), b) = Cat(Written, Cat(Cat(c.to_local, rest), b))
      BY <2>2, <3>1, Assoc
    <3>3. Cat(Cat(c.to_local, rest), b) = Cat(c.to_local, Cat(rest, b))
      BY <2>1, <3>1, Assoc
    <3> QED
      BY <1>6, <2>1, <3>2, <3>3
  <2>4. Cat(rest, b) = Cat(lwip.refused, target'.net)
    BY <1>2, <1>5, <2>1, Fields, Assoc DEF Inv
  <2> QED
    BY <1>1, <1>7, <2>2, <2>3, <2>4 DEF DownPipe
<1>9. Fresh' /\ DownStep
  BY <1>1, <1>7 DEF Fresh, DownStep
<1>10. UpPipe' /\ UpStep
  BY <1>1, UpSame
<1> QED
  BY <1>5, <1>8, <1>9, <1>10 DEF Good, Inv

LEMMA TargetFinGood == Inv /\ TargetFin => Good
<1> SUFFICES ASSUME Inv, TargetFin PROVE Good
  OBVIOUS
<1>1. /\ target' = [target EXCEPT !.fin = "sent"]
      /\ UNCHANGED <<c, lwip, socket, client_sent, target_sent, got>>
  BY DEF TargetFin
<1>2. TypeOK' /\ PcbHeld' /\ target'.net = target.net
  BY <1>1 DEF Inv, TypeOK, PcbHeld
<1>3. UpPipe' /\ UpStep
  BY <1>1, UpSame
<1>4. DownPipe' /\ Fresh' /\ DownStep
  BY <1>1, <1>2, DownSame DEF Written
<1> QED
  BY <1>2, <1>3, <1>4 DEF Good, Inv

-----------------------------------------------------------------------------
(* Handlers that only call flush_remote.                                    *)
LEMMA FlushGood ==
    ASSUME Inv, flush_remote(c, lwip),
           UNCHANGED <<socket, target, client_sent, target_sent, got>>
    PROVE  Good
<1>1. /\ c' = [c EXCEPT !.to_remote = c'.to_remote] /\ c' \in Connection
      /\ lwip' = [lwip EXCEPT !.snd = lwip'.snd] /\ lwip' \in Pcb
      /\ Len(lwip'.snd) <= SendBuffer
      /\ Cat(lwip'.snd, c'.to_remote) = Cat(lwip.snd, c.to_remote)
      /\ ~c.tcp => c' = c /\ lwip' = lwip
  BY Flushed DEF Inv, TypeOK
<1>2. /\ c'.phase = c.phase /\ c'.tcp = c.tcp /\ c'.fd = c.fd /\ c'.reply = c.reply
      /\ c'.to_local = c.to_local /\ lwip'.pcb = lwip.pcb /\ lwip'.refused = lwip.refused
  <2>1. c \in Connection /\ lwip \in Pcb
    BY DEF Inv, TypeOK
  <2> QED
    BY <1>1, <2>1 DEF Connection, Pcb
<1>3. TypeOK'
  BY <1>1 DEF Inv, TypeOK
<1>4. PcbHeld'
  BY <1>2 DEF Inv, PcbHeld
<1>5. UpMoved
  <2>1. CASE c.tcp
    <3>1. lwip'.snd \in Data /\ c'.to_remote \in Data
      BY <1>1 DEF Connection, Pcb
    <3>2. Cat(lwip'.snd, Cat(c'.to_remote, socket'.in)) = Cat(lwip.snd, Cat(c.to_remote, socket.in))
      BY <1>1, <3>1, Fields, Assoc DEF Inv
    <3> QED
      BY <1>2, <2>1, <3>2 DEF UpMoved
  <2>2. CASE ~c.tcp
    BY <1>1, <2>2 DEF UpMoved
  <2> QED
    BY <2>1, <2>2
<1>6. UpPipe'
  BY <1>3, <1>5, UpKept DEF Inv
<1>7. UpStep
  <2>1. got'.target = Cat(got.target, <<>>) /\ <<>> \in Data
    BY Fields, Nothing DEF Inv
  <2> QED
    BY <1>2, <2>1 DEF UpStep
<1>8. DownPipe' /\ Fresh' /\ DownStep
  BY <1>2, DownSame DEF Written
<1> QED
  BY <1>3, <1>4, <1>6, <1>7, <1>8 DEF Good, Inv

LEMMA PollGood == Inv /\ Poll => Good
BY FlushGood DEF Poll

LEMMA BuildGood == Inv /\ Build => Good
BY FlushGood DEF Build

(* on_tcp_connected: the reply, if there is one, is the first for the       *)
(* client.                                                                  *)
LEMMA ConnectedGood == Inv /\ Connected => Good
<1> SUFFICES ASSUME Inv, Connected PROVE Good
  OBVIOUS
<1> DEFINE reply == IF c.reply THEN <<Reply>> ELSE <<>>
           d == [c EXCEPT !.phase = "STREAMING", !.to_local = reply]
<1>1. /\ c.phase = "CONNECTING" /\ c.tcp /\ c.fd
      /\ Written = <<>> /\ c.to_local = <<>> /\ lwip.refused = <<>>
      /\ target.net = <<>> /\ target_sent = 0
      /\ UNCHANGED <<socket, target, client_sent, target_sent, got>>
  BY DEF Connected, Inv, PcbHeld, Fresh
<1>2. reply \in Data /\ <<Reply>> \in Data
  BY DEF Reply, Data
<1>3. c \in Connection /\ lwip \in Pcb /\ Len(lwip.snd) <= SendBuffer
  BY DEF Inv, TypeOK
<1>4. flush_remote(d, lwip)
  <2>1. <<>> \o <<Reply>> = <<Reply>>
    BY <1>2, Nothing DEF Cat
  <2>2. [c EXCEPT !.phase = "STREAMING", !.to_local = IF c.reply THEN @ \o <<Reply>> ELSE @] = d
    BY <1>1, <2>1, <1>3 DEF Connection
  <2> QED
    BY <2>2 DEF Connected
<1>5. d \in Connection /\ d.tcp = c.tcp /\ d.fd = c.fd /\ d.phase = "STREAMING"
      /\ d.reply = c.reply /\ d.to_local = reply /\ d.to_remote = c.to_remote
  BY <1>2, <1>3 DEF Connection
<1> HIDE DEF d
<1>6. /\ c' = [d EXCEPT !.to_remote = c'.to_remote] /\ c' \in Connection
      /\ lwip' = [lwip EXCEPT !.snd = lwip'.snd] /\ lwip' \in Pcb
      /\ Len(lwip'.snd) <= SendBuffer
      /\ Cat(lwip'.snd, c'.to_remote) = Cat(lwip.snd, d.to_remote)
  BY <1>3, <1>4, <1>5, Flushed
<1>7. /\ c'.phase = "STREAMING" /\ c'.tcp = c.tcp /\ c'.fd = c.fd /\ c'.reply = c.reply
      /\ c'.to_local = reply /\ lwip'.pcb = lwip.pcb /\ lwip'.refused = lwip.refused
  BY <1>3, <1>5, <1>6 DEF Connection, Pcb
<1>8. TypeOK'
  BY <1>1, <1>6 DEF Inv, TypeOK
<1>9. PcbHeld'
  BY <1>1, <1>7 DEF Inv, PcbHeld
<1>10. UpPipe'
  <2>1. lwip'.snd \in Data /\ c'.to_remote \in Data
    BY <1>6 DEF Connection, Pcb
  <2>2. Cat(lwip'.snd, Cat(c'.to_remote, socket'.in)) = Cat(lwip.snd, Cat(c.to_remote, socket.in))
    BY <1>1, <1>5, <1>6, <2>1, Fields, Assoc DEF Inv
  <2>3. UpMoved
    BY <1>1, <1>7, <2>2 DEF UpMoved
  <2> QED
    BY <1>1, <1>8, <2>3, UpKept DEF Inv
<1>11. UpStep
  <2>1. got'.target = Cat(got.target, <<>>) /\ <<>> \in Data
    BY <1>1, Fields, Nothing DEF Inv
  <2> QED
    BY <1>1, <1>7, <2>1 DEF UpStep
<1>12. Written' = Written
  BY <1>1 DEF Written
<1>13. DownPipe'
  <2>1. Bytes(0) = <<>>
    <3>1. Bytes(0) \in Seq(Nat) /\ Len(Bytes(0)) = 0
      BY SeqDef DEF Bytes
    <3> QED
      BY <3>1, EmptySeq
  <2>2. FromTarget' = Cat(reply, <<>>)
    BY <1>1, <1>7, <2>1 DEF FromTarget, Cat
  <2> HIDE DEF reply
  <2>3. FromTarget' = Cat(Written', Cat(c'.to_local, Cat(lwip'.refused, target'.net)))
    BY <1>1, <1>2, <1>7, <1>12, <2>2, Nothing
  <2>4. Cat(lwip'.refused, target'.net) \in Data
    BY <1>1, <1>7, Nothing
  <2> QED
    BY <2>3, <2>4 DEF DownPipe
<1>14. Fresh' /\ DownStep
  <2>1. Written' = Cat(Written, <<>>) /\ <<>> \in Data
    BY <1>12, Fields, Nothing DEF Inv
  <2> QED
    BY <1>1, <1>7, <1>12, <2>1 DEF Fresh, DownStep
<1> QED
  BY <1>8, <1>9, <1>10, <1>11, <1>13, <1>14 DEF Good, Inv

(* An acknowledgement splits lwIP's queue.                                  *)
LEMMA Acknowledged ==
    ASSUME Inv, NEW k \in 1..Len(lwip.snd)
    PROVE  LET x == Take(lwip.snd, k)
               y == Drop(lwip.snd, k)
               q == [lwip EXCEPT !.snd = y]
           IN /\ x \in Data /\ y \in Data /\ Cat(x, y) = lwip.snd /\ Len(y) <= SendBuffer
              /\ q \in Pcb /\ q.snd = y /\ q.pcb = lwip.pcb /\ q.refused = lwip.refused
              /\ q.refused_fin = lwip.refused_fin
<1> DEFINE x == Take(lwip.snd, k)
           y == Drop(lwip.snd, k)
           q == [lwip EXCEPT !.snd = y]
<1>1. lwip \in Pcb /\ Len(lwip.snd) <= SendBuffer /\ lwip.snd \in Data
  BY Fields DEF Inv, TypeOK
<1>2. Len(lwip.snd) \in Nat /\ SendBuffer \in Nat
  BY <1>1, StreamSizes, LenProperties DEF Data
<1>3. k \in 0..Len(lwip.snd)
  BY <1>2
<1>4. x \in Data /\ y \in Data /\ Cat(x, y) = lwip.snd /\ Len(y) = Len(lwip.snd) - k
  BY <1>1, <1>3, Split
<1>5. Len(y) <= SendBuffer
  BY <1>1, <1>2, <1>4
<1> HIDE DEF x, y
<1>6. /\ q \in Pcb /\ q.snd = y /\ q.pcb = lwip.pcb /\ q.refused = lwip.refused
      /\ q.refused_fin = lwip.refused_fin
  BY <1>1, <1>4 DEF Pcb
<1> QED
  BY <1>4, <1>5, <1>6 DEF x, y

(* on_tcp_sent: what is acknowledged has reached the target.                *)
LEMMA TcpSentGood == Inv /\ TcpSent => Good
<1> SUFFICES ASSUME Inv, TcpSent PROVE Good
  OBVIOUS
<1>1. PICK k \in 1..Len(lwip.snd) :
         /\ got' = [got EXCEPT !.target = @ \o Take(lwip.snd, k)]
         /\ LET q == [lwip EXCEPT !.snd = Drop(@, k)] IN
            IF c.tcp THEN flush_remote(c, q) ELSE c' = c /\ lwip' = q
  BY DEF TcpSent
<1>2. lwip.pcb # "gone" /\ UNCHANGED <<socket, target, client_sent, target_sent>>
  BY DEF TcpSent
<1> DEFINE x == Take(lwip.snd, k)
           y == Drop(lwip.snd, k)
           q == [lwip EXCEPT !.snd = y]
<1>3. c \in Connection /\ lwip \in Pcb /\ Len(lwip.snd) <= SendBuffer /\ lwip.snd \in Data
  BY Fields DEF Inv, TypeOK
<1>4. /\ x \in Data /\ y \in Data /\ Cat(x, y) = lwip.snd /\ Len(y) <= SendBuffer
      /\ q \in Pcb /\ q.snd = y /\ q.pcb = lwip.pcb /\ q.refused = lwip.refused
  BY Acknowledged
<1> HIDE DEF x, y
<1>7. IF c.tcp THEN flush_remote(c, q) ELSE c' = c /\ lwip' = q
  BY <1>1 DEF y
<1> HIDE DEF q
<1>8. /\ c' = [c EXCEPT !.to_remote = c'.to_remote] /\ c' \in Connection
      /\ lwip' = [q EXCEPT !.snd = lwip'.snd] /\ lwip' \in Pcb
      /\ Len(lwip'.snd) <= SendBuffer
      /\ Cat(lwip'.snd, c'.to_remote) = Cat(y, c.to_remote)
      /\ ~c.tcp => c' = c /\ lwip'.snd = y
  <2>1. CASE c.tcp
    BY <1>3, <1>4, <1>7, <2>1, Flushed
  <2>2. CASE ~c.tcp
    BY <1>3, <1>4, <1>7, <2>2 DEF Connection, Pcb
  <2> QED
    BY <2>1, <2>2
<1>9. /\ c'.phase = c.phase /\ c'.tcp = c.tcp /\ c'.fd = c.fd /\ c'.reply = c.reply
      /\ c'.to_local = c.to_local /\ lwip'.pcb = lwip.pcb /\ lwip'.refused = lwip.refused
  BY <1>3, <1>4, <1>8 DEF Connection, Pcb
<1>10. /\ got'.target = Cat(got.target, x) /\ got'.client = got.client
       /\ got' \in [client : Data, target : Data]
  <2>1. Cat(got.target, x) \in Data /\ got' = [got EXCEPT !.target = Cat(got.target, x)]
    BY <1>1, <1>4, Fields, Concat DEF Inv, x, Cat
  <2> QED
    BY <2>1 DEF Inv, TypeOK
<1>11. TypeOK'
  BY <1>2, <1>8, <1>10 DEF Inv, TypeOK
<1>12. PcbHeld'
  BY <1>9 DEF Inv, PcbHeld
<1>13. UpPipe'
  <2>1. PICK rest \in Data : /\ FromClient = Cat(got.target, Cat(lwip.snd, rest))
                             /\ c.tcp => rest = Cat(c.to_remote, socket.in)
    BY DEF Inv, UpPipe
  <2>2. FromClient' = FromClient
    BY <1>2 DEF FromClient
  <2>3. Cat(y, rest) \in Data /\ got.target \in Data /\ lwip'.snd \in Data /\ c'.to_remote \in Data
    BY <1>4, <1>8, Fields, Concat DEF Inv, Connection, Pcb
  <2>4. FromClient = Cat(Cat(got.target, x), Cat(y, rest))
    BY <1>4, <2>1, <2>3, Assoc
  <2>5. CASE ~c.tcp
    BY <1>8, <1>9, <1>10, <2>2, <2>4, <2>5 DEF UpPipe
  <2>6. CASE c.tcp
    <3>1. Cat(c'.to_remote, socket.in) \in Data
      BY <2>3, Fields, Concat DEF Inv
    <3>2. Cat(y, rest) = Cat(lwip'.snd, Cat(c'.to_remote, socket.in))
      BY <1>4, <1>8, <2>1, <2>3, <2>6, Fields, Assoc, SMTT(20) DEF Inv
    <3>3. FromClient' = Cat(got'.target, Cat(lwip'.snd, Cat(c'.to_remote, socket'.in)))
      BY <1>2, <1>10, <2>2, <2>4, <3>2
    <3> QED
      BY <1>2, <3>1, <3>3 DEF UpPipe
  <2> QED
    BY <2>5, <2>6
<1>14. UpStep
  BY <1>2, <1>4, <1>10 DEF UpStep
<1>15. DownPipe' /\ Fresh' /\ DownStep
  BY <1>2, <1>9, <1>10, DownSame DEF Written
<1> QED
  BY <1>11, <1>12, <1>13, <1>14, <1>15 DEF Good, Inv

-----------------------------------------------------------------------------
(* What is left to show of a step in which neither peer does anything.      *)
LEMMA MovedGood ==
    ASSUME Inv, TypeOK', PcbHeld', Fresh', UpMoved, DownMoved,
           UNCHANGED <<client_sent, target_sent>>, got'.target = got.target, c'.reply = c.reply,
           lwip.pcb = "gone" => lwip'.pcb = "gone",
           \E x \in Data : Written' = Cat(Written, x),
           ~c.fd => ~c'.fd /\ Written' = Written
    PROVE  Good
<1>1. UpPipe' /\ DownPipe'
  BY UpKept, DownKept DEF Inv
<1>2. UpStep
  <2>1. got'.target = Cat(got.target, <<>>) /\ <<>> \in Data
    BY Fields, Nothing DEF Inv
  <2> QED
    BY <2>1 DEF UpStep
<1>3. DownStep
  BY DEF DownStep
<1> QED
  BY <1>1, <1>2, <1>3 DEF Good, Inv

LEMMA ClosedFacts ==
    ASSUME NEW d \in Connection
    PROVE  /\ Closed(d) \in Connection /\ ~Closed(d).fd /\ ~Closed(d).tcp
           /\ Closed(d).phase = "CONNECTION_CLOSED" /\ Closed(d).reply = d.reply
           /\ Closed(d).to_local = <<>> /\ Closed(d).to_remote = <<>>
           /\ Closed(d).remote_closed = d.remote_closed
BY Nothing DEF Closed, Connection

LEMMA AbortedFacts ==
    ASSUME NEW q \in Pcb
    PROVE  Aborted(q) \in Pcb /\ Aborted(q).pcb = "gone" /\ Aborted(q).snd = <<>>
           /\ Len(Aborted(q).snd) <= SendBuffer /\ ~Aborted(q).refused_fin
<1>1. Aborted(q) \in Pcb /\ Aborted(q).pcb = "gone" /\ Aborted(q).snd = <<>> /\ ~Aborted(q).refused_fin
  BY Nothing DEF Aborted, Pcb
<1>2. Len(<<>>) = 0 /\ 0 <= SendBuffer
  BY StreamSizes
<1> QED
  BY <1>1, <1>2

(* close_connection, wherever it is called from.                            *)
LEMMA CloseGood ==
    ASSUME Inv, c' = Closed(c), lwip' = Aborted(lwip) \/ (~c.tcp /\ lwip' = lwip),
           UNCHANGED <<socket, target, client_sent, target_sent, got>>
    PROVE  Good
<1>1. c \in Connection /\ lwip \in Pcb
  BY DEF Inv, TypeOK
<1>2. TypeOK'
  BY <1>1, ClosedFacts, AbortedFacts DEF Inv, TypeOK
<1>3. PcbHeld' /\ Fresh' /\ (lwip.pcb = "gone" => lwip'.pcb = "gone")
  BY <1>1, ClosedFacts, AbortedFacts DEF Inv, PcbHeld, Fresh
<1>4. UpMoved
  BY <1>1, ClosedFacts, AbortedFacts DEF UpMoved
<1>5. Written' = Written /\ Written' = Cat(Written, <<>>) /\ <<>> \in Data
  BY Fields, Nothing DEF Written, Inv
<1>6. DownMoved
  <2>1. c.to_local \in Data /\ Cat(Written, c.to_local) = Cat(Written', Cat(c'.to_local, c.to_local))
    BY <1>1, <1>5, ClosedFacts, Fields, Nothing DEF Inv
  <2> QED
    BY <1>1, <2>1, ClosedFacts DEF DownMoved
<1> QED
  BY <1>1, <1>2, <1>3, <1>4, <1>5, <1>6, ClosedFacts, MovedGood

LEMMA LinkDownGood == Inv /\ LinkDown => Good
BY CloseGood DEF LinkDown

LEMMA TcpErrorGood == Inv /\ TcpError => Good
<1> SUFFICES ASSUME Inv, TcpError PROVE Good
  OBVIOUS
<1>1. /\ c' = (IF c.tcp THEN Closed(c) ELSE c) /\ lwip' = Aborted(lwip)
      /\ UNCHANGED <<socket, target, client_sent, target_sent, got>>
  BY DEF TcpError
<1>2. CASE c.tcp
  BY <1>1, <1>2, CloseGood
<1>3. CASE ~c.tcp
  <2>1. lwip \in Pcb /\ c' = c
    BY <1>1, <1>3 DEF Inv, TypeOK
  <2>2. TypeOK'
    BY <1>1, <2>1, AbortedFacts DEF Inv, TypeOK
  <2>3. PcbHeld' /\ Fresh' /\ lwip'.pcb = "gone"
    BY <1>1, <1>3, <2>1, AbortedFacts DEF Inv, PcbHeld, Fresh
  <2>4. UpMoved
    BY <1>1, <1>3, <2>1, AbortedFacts DEF UpMoved
  <2>5. Written' = Written /\ Written' = Cat(Written, <<>>) /\ <<>> \in Data
    BY <1>1, Fields, Nothing DEF Written, Inv
  <2>6. DownMoved
    <3>1. Cat(Written, c.to_local) = Cat(Written', Cat(c'.to_local, <<>>))
      BY <2>1, <2>5, Fields, Nothing DEF Inv
    <3> QED
      BY <1>3, <2>1, <2>5, <3>1 DEF DownMoved
  <2> QED
    BY <1>1, <2>1, <2>2, <2>3, <2>4, <2>5, <2>6, MovedGood
<1> QED
  BY <1>2, <1>3

(* on_tcp_receive, with data, without, or refusing it: y is to_local then,  *)
(* z what is refused.                                                       *)
Receives(y, z, f) ==
    LET e == [c EXCEPT !.to_local = y]
        q == [lwip EXCEPT !.refused = z, !.refused_fin = f]
    IN on_tcp_fin(e, q) \/ (c' = e /\ lwip' = q)

(* Together with what is still to come nothing is lost, doubled or out of   *)
(* order.                                                                   *)
LEMMA ReceiveGood ==
    ASSUME Inv, c.tcp, c.phase = "STREAMING",
           NEW y \in Data, NEW z \in Data, NEW f \in BOOLEAN, Receives(y, z, f),
           target' \in [net : Data, fin : {"none", "sent", "in"}],
           Cat(c.to_local, Cat(lwip.refused, target.net)) = Cat(y, Cat(z, target'.net)),
           UNCHANGED <<socket, client_sent, target_sent, got>>
    PROVE  Good
<1> DEFINE e == [c EXCEPT !.to_local = y]
           q == [lwip EXCEPT !.refused = z, !.refused_fin = f]
           g == [e EXCEPT !.tcp = FALSE, !.remote_closed = TRUE]
           h == [q EXCEPT !.pcb = "closing"]
<1>1. c \in Connection /\ lwip \in Pcb /\ Len(lwip.snd) <= SendBuffer /\ c.fd /\ lwip.pcb = "open"
  BY DEF Inv, TypeOK, PcbHeld
<1>2. /\ e \in Connection /\ e.fd /\ e.tcp /\ e.phase = "STREAMING" /\ e.reply = c.reply
      /\ e.to_local = y /\ e.to_remote = c.to_remote
      /\ g \in Connection /\ g.fd /\ ~g.tcp /\ g.phase = "STREAMING" /\ g.reply = c.reply
      /\ g.to_local = y
  BY <1>1 DEF Connection
<1>3. /\ q \in Pcb /\ q.pcb = "open" /\ q.snd = lwip.snd /\ q.refused = z
      /\ h \in Pcb /\ h.pcb = "closing" /\ h.snd = lwip.snd
  BY <1>1 DEF Pcb
<1>4. \/ c' = e /\ lwip' = q
      \/ (c' = g \/ (c' = Closed(g) /\ y = <<>>)) /\ (lwip' = h \/ lwip' = Aborted(q))
  BY <1>2 DEF Receives, on_tcp_fin
<1> HIDE DEF e, q, g, h
<1>5. TypeOK'
  BY <1>1, <1>2, <1>3, <1>4, ClosedFacts, AbortedFacts DEF Inv, TypeOK
<1>6. PcbHeld' /\ Fresh'
  BY <1>2, <1>3, <1>4, ClosedFacts, AbortedFacts DEF PcbHeld, Fresh
<1>7. UpMoved
  BY <1>2, <1>3, <1>4, ClosedFacts, AbortedFacts DEF UpMoved
<1>8. c'.to_local = y /\ c'.reply = c.reply /\ (c'.tcp => lwip'.refused = z)
  BY <1>2, <1>3, <1>4, ClosedFacts
<1>9. Written' = Written /\ Written' = Cat(Written, <<>>) /\ <<>> \in Data
  BY Fields, Nothing DEF Written, Inv
<1>10. DownMoved
  <2>1. Cat(z, target'.net) \in Data
    BY Concat
  <2> QED
    BY <1>8, <1>9, <2>1 DEF DownMoved
<1> QED
  BY <1>1, <1>5, <1>6, <1>7, <1>8, <1>9, <1>10, MovedGood

LEMMA FastTimerGood == Inv /\ FastTimer => Good
<1> SUFFICES ASSUME Inv, FastTimer PROVE Good
  OBVIOUS
<1> DEFINE y == Cat(c.to_local, lwip.refused)
<1>1. /\ lwip.refused # <<>> /\ c.tcp /\ Retried(c, lwip)
      /\ UNCHANGED <<socket, target, client_sent, target_sent, got>>
  BY DEF FastTimer, RefusedTaken, Inv, PcbHeld
<1>2. c.phase = "STREAMING"
  BY <1>1 DEF Inv, PcbHeld, Fresh, TypeOK, Connection
<1>3. y \in Data /\ <<>> \in Data
  BY Fields, Concat, Nothing DEF Inv
<1>4. Receives(y, <<>>, FALSE)
  <2>1. Received(c, lwip.refused) = [c EXCEPT !.to_local = y]
    BY DEF Received, Cat
  <2> QED
    BY <1>1, <2>1 DEF Retried, Receives
<1>5. target' \in [net : Data, fin : {"none", "sent", "in"}]
  BY <1>1 DEF Inv, TypeOK
<1>6. Cat(c.to_local, Cat(lwip.refused, target.net)) = Cat(y, Cat(<<>>, target'.net))
  BY <1>1, <1>3, Fields, Assoc, Nothing DEF Inv
<1> HIDE DEF y
<1> QED
  BY <1>1, <1>2, <1>3, <1>4, <1>5, <1>6, ReceiveGood

(* A segment, with the target's FIN in it or not.                           *)
Segments(y, z, f, fin) ==
    /\ Receives(y, z, f)
    /\ target' \in [net : Data, fin : {"none", "sent", "in"}]
    /\ Cat(c.to_local, Cat(lwip.refused, target.net)) = Cat(y, Cat(z, target'.net))
    /\ c'.tcp \/ (fin /\ z = <<>>)
    /\ f => fin \/ lwip.refused_fin
    /\ fin => target.fin = "sent" /\ target'.fin = "in" /\ target'.net = <<>>
    /\ target.net = <<>> => fin

LEMMA TcpInputSegments ==
    ASSUME Inv, TcpInput
    PROVE  \/ UNCHANGED <<c, lwip, target>>
           \/ \E y, z \in Data, f, fin \in BOOLEAN : Segments(y, z, f, fin)
<1> DEFINE taken == IF RefusedTaken(c, lwip) THEN Received(c, lwip.refused) ELSE c
           front == IF RefusedTaken(c, lwip) THEN Cat(c.to_local, lwip.refused) ELSE c.to_local
           q == [lwip EXCEPT !.refused = <<>>]
<1>1. /\ c.tcp /\ c.phase = "STREAMING"
      /\ UNCHANGED <<socket, client_sent, target_sent, got>>
  BY DEF TcpInput, Inv, PcbHeld
<1>2. PICK k \in 0..Least(Segment, Len(target.net)), fin \in BOOLEAN :
         /\ k > 0 \/ fin
         /\ fin => target.fin = "sent" /\ k = Len(target.net)
         /\ \/ UNCHANGED <<c, lwip, target>>
            \/ /\ lwip.refused = <<>> \/ RefusedTaken(c, lwip)
               /\ Deliver(taken, q, Take(target.net, k), fin)
               /\ target' = [net |-> Drop(target.net, k), fin |-> IF fin THEN "in" ELSE target.fin]
  BY DEF TcpInput
<1>3. CASE UNCHANGED <<c, lwip, target>>
  BY <1>3
<1>4. CASE /\ lwip.refused = <<>> \/ RefusedTaken(c, lwip)
           /\ Deliver(taken, q, Take(target.net, k), fin)
           /\ target' = [net |-> Drop(target.net, k), fin |-> IF fin THEN "in" ELSE target.fin]
  <2> DEFINE data == Take(target.net, k)
             left == Drop(target.net, k)
  <2>1. /\ data \in Data /\ left \in Data /\ Cat(data, left) = target.net
        /\ (k = Len(target.net) => left = <<>>) /\ (target.net = <<>> => k = 0)
    <3>1. target.net \in Data
      BY Fields DEF Inv
    <3>2. Len(target.net) \in Nat /\ Segment \in Nat
      BY <3>1, LenProperties, StreamSizes DEF Data
    <3>3. k \in 0..Len(target.net) /\ (target.net = <<>> => k = 0)
      BY <3>2 DEF Least
    <3>4. /\ data \in Data /\ left \in Data /\ Cat(data, left) = target.net
          /\ Len(left) = Len(target.net) - k
      BY <3>1, <3>3, Split
    <3>5. k = Len(target.net) => Len(left) = 0
      BY <3>2, <3>3, <3>4
    <3> QED
      BY <3>3, <3>4, <3>5, EmptySeq DEF Data
  <2>2. target' \in [net : Data, fin : {"none", "sent", "in"}] /\ target'.net = left
    BY <1>4, <2>1 DEF Inv, TypeOK
  <2>3. c \in Connection /\ lwip \in Pcb /\ lwip.refused_fin \in BOOLEAN
    BY DEF Inv, TypeOK, Pcb
  <2>4. front \in Data /\ Cat(front, data) \in Data /\ <<>> \in Data
    BY <2>1, Fields, Concat, Nothing DEF Inv
  <2>5. taken = [c EXCEPT !.to_local = front]
    BY <2>3 DEF Received, Cat, Connection
  <2>6. Received(taken, data) = [c EXCEPT !.to_local = Cat(front, data)]
    <3> HIDE DEF front, taken, data
    <3> QED
      BY <2>3, <2>4, <2>5 DEF Received, Cat, Connection
  <2>7. Cat(c.to_local, Cat(lwip.refused, target.net)) = Cat(front, target.net)
    <3>1. CASE RefusedTaken(c, lwip)
      BY <3>1, Fields, Assoc DEF Inv
    <3>2. CASE ~RefusedTaken(c, lwip) /\ lwip.refused = <<>>
      BY <3>2, Fields, Nothing DEF Inv
    <3> QED
      BY <1>4, <3>1, <3>2
  <2>8. \/ c' = taken /\ lwip' = [q EXCEPT !.refused = data, !.refused_fin = fin]
        \/ (fin /\ on_tcp_fin(Received(taken, data), q)) \/ (c' = Received(taken, data) /\ lwip' = q)
    BY <1>4 DEF Deliver
  <2>9. /\ q = [lwip EXCEPT !.refused = <<>>, !.refused_fin = lwip.refused_fin]
        /\ [q EXCEPT !.refused = data, !.refused_fin = fin] = [lwip EXCEPT !.refused = data, !.refused_fin = fin]
    BY <2>3 DEF Pcb
  <2>10. /\ fin => target.fin = "sent" /\ target'.fin = "in" /\ left = <<>>
         /\ target.net = <<>> => fin
    BY <1>2, <1>4, <2>1
  <2> HIDE DEF front, taken, data, left, q
  <2>11. CASE c' = taken /\ lwip' = [q EXCEPT !.refused = data, !.refused_fin = fin]
    <3>1. Cat(c.to_local, Cat(lwip.refused, target.net)) = Cat(front, Cat(data, target'.net))
      BY <2>1, <2>2, <2>7
    <3>2. Receives(front, data, fin)
      BY <2>5, <2>9, <2>11 DEF Receives
    <3>3. c'.tcp
      BY <1>1, <2>3, <2>5, <2>11 DEF Connection
    <3> QED
      BY <2>1, <2>2, <2>4, <2>10, <3>1, <3>2, <3>3 DEF Segments
  <2>12. CASE (fin /\ on_tcp_fin(Received(taken, data), q)) \/ (c' = Received(taken, data) /\ lwip' = q)
    <3>1. Cat(c.to_local, Cat(lwip.refused, target.net)) = Cat(Cat(front, data), Cat(<<>>, target'.net))
      BY <2>1, <2>2, <2>4, <2>7, Assoc, Nothing
    <3>2. Receives(Cat(front, data), <<>>, lwip.refused_fin)
      BY <2>6, <2>9, <2>12 DEF Receives
    <3>3. c'.tcp \/ fin
      BY <1>1, <2>3, <2>6, <2>12 DEF Connection
    <3> QED
      BY <2>2, <2>3, <2>4, <2>10, <3>1, <3>2, <3>3 DEF Segments
  <2> QED
    BY <2>8, <2>11, <2>12
<1> QED
  BY <1>2, <1>3, <1>4

LEMMA TcpInputGood == Inv /\ TcpInput => Good
<1> SUFFICES ASSUME Inv, TcpInput PROVE Good
  OBVIOUS
<1>1. /\ c.tcp /\ c.phase = "STREAMING"
      /\ UNCHANGED <<socket, client_sent, target_sent, got>>
  BY DEF TcpInput, Inv, PcbHeld
<1>2. CASE UNCHANGED <<c, lwip, target>>
  <2>1. TypeOK' /\ PcbHeld' /\ Written' = Written
    BY <1>1, <1>2 DEF Inv, TypeOK, PcbHeld, Written
  <2> QED
    BY <1>1, <1>2, <2>1, UpSame, DownSame DEF Good, Inv
<1>3. CASE \E y, z \in Data, f, fin \in BOOLEAN : Segments(y, z, f, fin)
  <2>1. PICK y \in Data, z \in Data, f \in BOOLEAN, fin \in BOOLEAN : Segments(y, z, f, fin)
    BY <1>3
  <2> QED
    BY <1>1, <2>1, ReceiveGood DEF Segments
<1> QED
  BY <1>2, <1>3, TcpInputSegments

-----------------------------------------------------------------------------
(* The turn in the loop: what of d and s holds after a write, and after a   *)
(* read on top of it.  x is what was written, z what a close threw away.    *)
Turned(d, s) ==
    /\ d \in Connection /\ d.reply = c.reply
    /\ s \in [in : Data, out : Data, client : {"open", "half", "gone"}]
    /\ \/ /\ d.fd /\ d.phase = c.phase /\ d.tcp = c.tcp /\ d.remote_closed = c.remote_closed
          /\ Cat(d.to_remote, s.in) = Cat(c.to_remote, socket.in)
       \/ ~d.fd /\ ~d.tcp /\ d.phase = "CONNECTION_CLOSED" /\ d.to_local = <<>>
    /\ \E x, z \in Data : /\ s.out = Cat(socket.out, x)
                          /\ c.to_local = Cat(x, Cat(d.to_local, z))
                          /\ d.fd => z = <<>>

LEMMA TakenWhole ==
    ASSUME NEW t \in Data, NEW o \in Data, NEW k \in 1..Least(Len(t), SocketBuffer - Len(o))
    PROVE  Take(t, k) \in Data /\ Drop(t, k) \in Data /\ Cat(Take(t, k), Drop(t, k)) = t
<1> DEFINE m == Least(Len(t), SocketBuffer - Len(o))
<1>1. Len(t) \in Nat /\ Len(o) \in Nat /\ SocketBuffer \in Nat
  BY LenProperties, StreamSizes DEF Data
<1>2. SocketBuffer - Len(o) \in Int
  BY <1>1
<1>3. m \in Int
  BY <1>1, <1>2 DEF Least
<1>4. k \in 1..m
  OBVIOUS
<1> HIDE DEF m
<1>5. k \in Nat /\ k <= m
  BY <1>3, <1>4
<1>6. k \in 0..Len(t)
  BY <1>1, <1>2, <1>5, LeastOfTwo DEF m
<1> QED
  BY <1>6, Split

LEMMA WriteTurned ==
    ASSUME Inv, c.fd, NEW w \in AfterWrite
    PROVE  Turned(w.d, w.s) /\ (w.d.fd => w.d.to_remote = c.to_remote) /\ w.s.in = socket.in
<1>1. c \in Connection /\ socket \in [in : Data, out : Data, client : {"open", "half", "gone"}]
  BY DEF Inv, TypeOK
<1>2. /\ <<>> \in Data /\ c.to_local \in Data /\ socket.out \in Data
      /\ socket.out = Cat(socket.out, <<>>) /\ c.to_local = Cat(<<>>, Cat(c.to_local, <<>>))
      /\ c.to_local = Cat(<<>>, Cat(<<>>, c.to_local))
  BY Fields, Nothing DEF Inv
<1>3. CASE w = [d |-> c, s |-> socket]
  BY <1>1, <1>2, <1>3 DEF Turned
<1>4. CASE w = [d |-> Closed(c), s |-> socket]
  BY <1>1, <1>2, <1>4, ClosedFacts DEF Turned
<1>5. ASSUME NEW k \in 1..Least(Len(c.to_local), SocketBuffer - Len(socket.out)),
             w = [d |-> flush_local(k), s |-> [socket EXCEPT !.out = @ \o Take(c.to_local, k)]]
      PROVE  Turned(w.d, w.s) /\ (w.d.fd => w.d.to_remote = c.to_remote) /\ w.s.in = socket.in
  <2> DEFINE x == Take(c.to_local, k)
             y == Drop(c.to_local, k)
             d == [c EXCEPT !.to_local = y]
             s == [socket EXCEPT !.out = Cat(socket.out, x)]
  <2>1. x \in Data /\ y \in Data /\ Cat(x, y) = c.to_local
    BY <1>2, TakenWhole
  <2>2. Cat(socket.out, x) \in Data
    BY <1>2, <2>1, Concat
  <2>3. w.s = s /\ (w.d = d \/ (w.d = Closed(d) /\ y = <<>>))
    <3>1. d.to_local = y
      BY <1>1 DEF Connection
    <3> QED
      BY <1>5, <3>1 DEF flush_local, Cat
  <2> HIDE DEF x, y
  <2>4. /\ s \in [in : Data, out : Data, client : {"open", "half", "gone"}]
        /\ s.in = socket.in /\ s.out = Cat(socket.out, x)
    BY <1>1, <2>2
  <2>5. /\ d \in Connection /\ d.fd /\ d.phase = c.phase /\ d.tcp = c.tcp /\ d.reply = c.reply
        /\ d.remote_closed = c.remote_closed /\ d.to_remote = c.to_remote /\ d.to_local = y
    BY <1>1, <2>1 DEF Connection
  <2>6. c.to_local = Cat(x, Cat(y, <<>>))
    BY <2>1, Nothing
  <2> HIDE DEF d, s
  <2> QED
    BY <1>2, <2>1, <2>3, <2>4, <2>5, <2>6, ClosedFacts DEF Turned
<1> QED
  BY <1>3, <1>4, <1>5 DEF AfterWrite

LEMMA ReadTurned ==
    ASSUME Inv, c.fd, NEW d, NEW s, Turned(d, s)
    PROVE  LET r == AfterRead(d, s) IN Turned(r.d, r.s)
<1> DEFINE k == Least(ReadSize, Len(s.in))
           x == Take(s.in, k)
           y == Drop(s.in, k)
           e == [d EXCEPT !.to_remote = Cat(d.to_remote, x)]
           t == [s EXCEPT !.in = y]
           r == AfterRead(d, s)
<1>1. /\ d \in Connection /\ d.to_remote \in Data /\ d.to_local \in Data
      /\ s \in [in : Data, out : Data, client : {"open", "half", "gone"}]
  BY DEF Turned, Connection
<1>2. \/ r = [d |-> d, s |-> s]
      \/ r = [d |-> Closed(d), s |-> s] /\ d.fd
      \/ r = [d |-> e, s |-> t] /\ d.fd
  BY DEF AfterRead, Cat
<1>3. x \in Data /\ y \in Data /\ Cat(x, y) = s.in
  <2>1. Len(s.in) \in Nat /\ ReadSize \in Nat
    BY <1>1, LenProperties, StreamSizes DEF Data
  <2>2. k \in 0..Len(s.in)
    BY <2>1 DEF Least
  <2> QED
    BY <1>1, <2>2, Split
<1>4. Cat(d.to_remote, x) \in Data
  BY <1>1, <1>3, Concat
<1> HIDE DEF k, x, y, r
<1>5. CASE r = [d |-> d, s |-> s]
  BY <1>5 DEF r
<1>6. CASE r = [d |-> Closed(d), s |-> s] /\ d.fd
  <2>1. PICK a \in Data : s.out = Cat(socket.out, a) /\ c.to_local = Cat(a, Cat(d.to_local, <<>>))
    BY <1>6 DEF Turned
  <2>2. c.to_local = Cat(a, Cat(<<>>, d.to_local))
    BY <1>1, <2>1, Nothing
  <2>3. Turned(Closed(d), s)
    BY <1>1, <2>1, <2>2, ClosedFacts, SMTT(20) DEF Turned
  <2> QED
    BY <1>6, <2>3 DEF r
<1>7. CASE r = [d |-> e, s |-> t] /\ d.fd
  <2>1. /\ e \in Connection /\ e.fd = d.fd /\ e.phase = d.phase /\ e.tcp = d.tcp /\ e.reply = d.reply
        /\ e.remote_closed = d.remote_closed /\ e.to_remote = Cat(d.to_remote, x) /\ e.to_local = d.to_local
    BY <1>1, <1>4 DEF Connection
  <2>2. /\ t \in [in : Data, out : Data, client : {"open", "half", "gone"}]
        /\ t.in = y /\ t.out = s.out
    BY <1>1, <1>3
  <2> HIDE DEF e, t
  <2>3. Cat(e.to_remote, t.in) = Cat(d.to_remote, s.in)
    BY <1>1, <1>3, <2>1, <2>2, Assoc
  <2>4. Turned(e, t)
    BY <1>7, <2>1, <2>2, <2>3 DEF Turned
  <2> QED
    BY <1>7, <2>4 DEF r
<1> QED
  BY <1>2, <1>5, <1>6, <1>7

LEMMA ServeGood == Inv /\ Serve => Good
<1> SUFFICES ASSUME Inv, Serve PROVE Good
  OBVIOUS
<1>1. UNCHANGED <<target, client_sent, target_sent, got>>
  BY DEF Serve
<1>2. CASE ~c.fd /\ UNCHANGED <<c, lwip, socket>>
  <2>1. TypeOK' /\ PcbHeld' /\ Written' = Written
    BY <1>1, <1>2 DEF Inv, TypeOK, PcbHeld, Written
  <2> QED
    BY <1>1, <1>2, <2>1, UpSame, DownSame DEF Good, Inv
<1>3. CASE /\ c.fd
           /\ \E w \in AfterWrite :
                 LET r == AfterRead(w.d, w.s) IN
                 /\ c' = r.d
                 /\ socket' = r.s
                 /\ lwip' = IF c.tcp /\ ~r.d.tcp THEN Aborted(lwip) ELSE lwip
  <2>1. Turned(c', socket') /\ lwip' = IF c.tcp /\ ~c'.tcp THEN Aborted(lwip) ELSE lwip
    BY <1>3, WriteTurned, ReadTurned
  <2>2. lwip \in Pcb
    BY DEF Inv, TypeOK
  <2>3. TypeOK'
    BY <1>1, <2>1, <2>2, AbortedFacts DEF Inv, TypeOK, Turned
  <2>4. PICK x \in Data, z \in Data : /\ socket'.out = Cat(socket.out, x)
                                      /\ c.to_local = Cat(x, Cat(c'.to_local, z))
                                      /\ c'.fd => z = <<>>
    BY <2>1 DEF Turned
  <2>5. Written' = Cat(Written, x)
    <3>1. Written = Cat(got.client, socket.out) /\ Written' = Cat(got.client, socket'.out)
      BY <1>1 DEF Written, Cat
    <3> QED
      BY <2>4, <3>1, Fields, Assoc DEF Inv
  <2>6. \/ c'.fd /\ c'.phase = c.phase /\ c'.tcp = c.tcp
           /\ Cat(c'.to_remote, socket'.in) = Cat(c.to_remote, socket.in)
        \/ ~c'.fd /\ ~c'.tcp /\ c'.phase = "CONNECTION_CLOSED" /\ c'.to_local = <<>>
    BY <2>1 DEF Turned
  <2>7. PcbHeld'
    BY <1>3, <2>1, <2>2, <2>6, AbortedFacts DEF Inv, PcbHeld
  <2>8. UpMoved
    BY <2>1, <2>2, <2>6, AbortedFacts DEF UpMoved
  <2>9. c'.to_local \in Data /\ Written \in Data /\ Cat(c'.to_local, z) \in Data
    <3>1. c'.to_local \in Data
      BY <2>1 DEF Turned, Connection
    <3> QED
      BY <3>1, Fields, Concat DEF Inv
  <2>10. DownMoved
    <3>1. CASE c'.tcp /\ c'.phase = "STREAMING"
      <4> DEFINE behind == Cat(lwip.refused, target.net)
      <4>1. c.tcp /\ c.phase = "STREAMING" /\ z = <<>> /\ lwip' = lwip
        BY <2>1, <2>4, <2>6, <3>1
      <4>2. c.to_local = Cat(x, c'.to_local)
        BY <2>4, <2>9, <4>1, Nothing
      <4>3. behind \in Data /\ behind = Cat(lwip'.refused, target'.net)
        BY <1>1, <4>1, Fields, Concat DEF Inv
      <4> HIDE DEF behind
      <4>4. Cat(c'.to_local, behind) \in Data
        BY <2>9, <4>3, Concat
      <4>5. Cat(Written, Cat(c.to_local, behind)) = Cat(Written', Cat(c'.to_local, behind))
        BY <2>5, <2>9, <4>2, <4>3, <4>4, Assoc
      <4> QED
        BY <4>1, <4>3, <4>5 DEF DownMoved, behind
    <3>2. CASE ~(c'.tcp /\ c'.phase = "STREAMING")
      <4>1. Cat(Written, c.to_local) = Cat(Written', Cat(c'.to_local, z))
        BY <2>4, <2>5, <2>9, Assoc
      <4> QED
        BY <3>2, <4>1 DEF DownMoved
    <3> QED
      BY <3>1, <3>2
  <2>11. Fresh'
    <3> SUFFICES ASSUME c'.phase = "CONNECTING" PROVE Fresh'
      BY DEF Fresh
    <3>1. c.phase = "CONNECTING" /\ c'.tcp = c.tcp
      BY <2>6
    <3>2. /\ Written = <<>> /\ c.to_local = <<>> /\ lwip.refused = <<>>
          /\ target.net = <<>> /\ target_sent = 0 /\ lwip' = lwip
      BY <2>1, <3>1 DEF Inv, Fresh
    <3>3. x = <<>> /\ c'.to_local = <<>>
      <4>1. Cat(x, Cat(c'.to_local, z)) = <<>>
        BY <2>4, <3>2
      <4> QED
        BY <2>9, <4>1, NothingLeft
    <3>4. Written' = <<>>
      BY <2>5, <3>2, <3>3, Nothing
    <3> QED
      BY <1>1, <3>2, <3>3, <3>4 DEF Fresh
  <2>12. lwip.pcb = "gone" => lwip'.pcb = "gone"
    BY <2>1, <2>2, AbortedFacts
  <2>13. c'.reply = c.reply
    BY <2>1 DEF Turned
  <2> QED
    BY <1>1, <1>3, <2>3, <2>5, <2>7, <2>8, <2>10, <2>11, <2>12, <2>13, MovedGood
<1> QED
  BY <1>2, <1>3 DEF Serve

-----------------------------------------------------------------------------
LEMMA InitInv == Init => Inv
<1> SUFFICES ASSUME Init PROVE Inv
  OBVIOUS
<1>1. /\ client_sent \in Nat /\ target_sent = 0
      /\ lwip = [pcb |-> "open", snd |-> <<>>, refused |-> <<>>, refused_fin |-> FALSE]
      /\ socket = [in |-> <<>>, out |-> <<>>, client |-> "open"]
      /\ target = [net |-> <<>>, fin |-> "none"]
      /\ got = [client |-> <<>>, target |-> <<>>]
  BY StreamSizes DEF Init
<1>2. PICK reply \in BOOLEAN :
         c = [phase |-> "CONNECTING", tcp |-> TRUE, fd |-> TRUE, remote_closed |-> FALSE,
              reply |-> reply, to_remote |-> Bytes(client_sent), to_local |-> <<>>]
  BY DEF Init
<1>3. Bytes(client_sent) \in Data /\ <<>> \in Data
  BY <1>1, NextByte, Nothing
<1>4. TypeOK
  <2>1. Len(lwip.snd) <= SendBuffer
    BY <1>1, StreamSizes
  <2> QED
    BY <1>1, <1>2, <1>3, <2>1 DEF TypeOK, Connection, Pcb
<1>5. PcbHeld
  BY <1>1, <1>2 DEF PcbHeld
<1>6. Written = <<>>
  BY <1>1, <1>3, Nothing DEF Written, Cat
<1>7. UpPipe
  <2>1. Bytes(client_sent) = Cat(got.target, Cat(lwip.snd, Bytes(client_sent)))
    BY <1>1, <1>3, Nothing
  <2>2. Bytes(client_sent) = Cat(c.to_remote, socket.in)
    BY <1>1, <1>2, <1>3, Nothing
  <2> QED
    BY <1>3, <2>1, <2>2 DEF UpPipe, FromClient
<1>8. DownPipe
  <2>1. FromTarget \in Data
    BY <1>4, Fields
  <2>2. FromTarget = Cat(Written, Cat(c.to_local, FromTarget))
    BY <1>2, <1>6, <2>1, Nothing
  <2>3. c.phase # "STREAMING"
    BY <1>2
  <2> QED
    BY <2>1, <2>2, <2>3 DEF DownPipe
<1>9. Fresh
  BY <1>1, <1>2, <1>6 DEF Fresh
<1> QED
  BY <1>4, <1>5, <1>7, <1>8, <1>9 DEF Inv

LEMMA StutterGood == Inv /\ UNCHANGED vars => Good
<1> SUFFICES ASSUME Inv, UNCHANGED vars PROVE Good
  OBVIOUS
<1>1. UNCHANGED <<c, lwip, socket, target, client_sent, target_sent, got>>
  BY DEF vars
<1>2. TypeOK' /\ PcbHeld' /\ Written' = Written
  BY <1>1 DEF Inv, TypeOK, PcbHeld, Written
<1> QED
  BY <1>1, <1>2, UpSame, DownSame DEF Good, Inv

LEMMA NextGood == Inv /\ [Next]_vars => Good
<1> SUFFICES ASSUME Inv, [Next]_vars PROVE Good
  OBVIOUS
<1>1. CASE ClientSend \/ ClientEnd \/ ClientRead \/ TargetSend \/ TargetFin
  BY <1>1, ClientSendGood, ClientEndGood, ClientReadGood, TargetSendGood, TargetFinGood
<1>2. CASE Connected \/ FastTimer \/ TcpInput \/ TcpSent \/ Poll \/ TcpError \/ LinkDown
  BY <1>2, ConnectedGood, FastTimerGood, TcpInputGood, TcpSentGood, PollGood, TcpErrorGood, LinkDownGood
<1>3. CASE Build \/ Serve
  BY <1>3, BuildGood, ServeGood
<1>4. CASE UNCHANGED vars
  BY <1>4, StutterGood
<1> QED
  BY <1>1, <1>2, <1>3, <1>4 DEF Next

(* Types, and where every byte is, in every state of the proxied            *)
(* connection: with its receiver, in a queue on the way, in order and once, *)
(* as long as the connection is there (to_remote, to_local, lwIP's queues). *)
THEOREM StreamInvariance == Spec => []Inv
<1>1. Inv /\ [Next]_vars => Inv'
  BY NextGood DEF Good
<1> QED
  BY InitInv, <1>1, PTL DEF Spec

(* Both directions of the connection implement a Channel, whatever          *)
(* on_tcp_receive refuses, flush_remote and flush_local move in part,       *)
(* tcp_write has no memory for, or close_connection cuts off.               *)
THEOREM StreamImplementsChannels == Spec => BothAreChannels
<1>1. Init => Up!Init /\ Down!Init
  <2> SUFFICES ASSUME Init PROVE Up!Init /\ Down!Init
    OBVIOUS
  <2>1. Inv /\ got.target = <<>> /\ Written = <<>> /\ lwip.pcb = "open" /\ c.fd
    <3>1. got = [client |-> <<>>, target |-> <<>>] /\ socket.out = <<>> /\ lwip.pcb = "open" /\ c.fd
      BY DEF Init
    <3>2. Written = Cat(<<>>, <<>>)
      BY <3>1 DEF Written, Cat
    <3> QED
      BY <3>1, <3>2, InitInv, Nothing
  <2>2. FromClient \in Data /\ FromTarget \in Data
    BY <2>1, Fields DEF Inv
  <2> QED
    BY <2>1, <2>2 DEF Up!Init, Down!Init, Data
<1>2. Inv /\ [Next]_vars => [Up!Next]_(Up!vars) /\ [Down!Next]_(Down!vars)
  BY NextGood, UpIsChannel, DownIsChannel DEF Good
<1> QED
  BY <1>1, <1>2, StreamInvariance, PTL DEF Spec, BothAreChannels, Up!Spec, Down!Spec

-----------------------------------------------------------------------------
(* How a connection ends.                                                   *)
LEMMA EndedSame ==
    ASSUME Ended, UNCHANGED <<target, target_sent, broken>>, Written' = Written,
           c'.remote_closed = c.remote_closed, c'.tcp = c.tcp, c'.fd = c.fd,
           c'.reply = c.reply, c'.to_local = c.to_local, lwip'.refused_fin = lwip.refused_fin,
           socket'.client = socket.client \/ socket'.client # "open"
    PROVE  Ended'
<1>1. FromTarget' = FromTarget
  BY DEF FromTarget
<1> QED
  BY <1>1 DEF Ended, ResponseComplete

LEMMA SelectedSame ==
    ASSUME Inv, Inv', Selected, set' = set,
           socket'.in = socket.in \/ socket'.in # <<>>,
           socket'.client = socket.client \/ socket'.client # "open",
           Len(c'.to_remote) <= Len(c.to_remote)
    PROVE  Selected'
<1>1. c.to_remote \in Data /\ c'.to_remote \in Data
  BY DEF Inv, TypeOK, Connection
<1>2. Len(c.to_remote) \in Nat /\ Len(c'.to_remote) \in Nat /\ ReadSize \in Nat /\ BufferSize \in Nat
  BY <1>1, LenProperties, StreamSizes DEF Data
<1> QED
  BY <1>2 DEF Selected

(* A closed slot has room.                                                  *)
LEMMA SelectedClosed ==
    ASSUME Selected, set' = set, UNCHANGED socket, c'.to_remote = <<>>
    PROVE  Selected'
<1>1. Len(c'.to_remote) = 0 /\ ReadSize \in Nat /\ BufferSize \in Nat /\ ReadSize < BufferSize
  BY StreamSizes
<1>2. Len(c'.to_remote) + ReadSize < BufferSize
  BY <1>1
<1> QED
  BY <1>2 DEF Selected

LEMMA SameLength ==
    ASSUME Inv
    PROVE  Len(c.to_remote) <= Len(c.to_remote)
<1>1. c.to_remote \in Data
  BY Fields DEF Inv
<1> QED
  BY <1>1, LenProperties DEF Data

LEMMA PeersEnd ==
    ASSUME Inv, Inv', EndInv,
           ClientSend \/ ClientEnd \/ ClientRead \/ TargetSend \/ TargetFin
    PROVE  EndInv'
<1>1. UNCHANGED <<c, set, lwip, broken>> /\ Ended /\ Selected
  BY DEF ClientSend, ClientEnd, ClientRead, TargetSend, TargetFin, EndInv
<1>2. socket \in [in : Data, out : Data, client : {"open", "half", "gone"}]
  BY DEF Inv, TypeOK
<1>3. CASE ClientSend \/ ClientEnd \/ ClientRead
  <2>1. UNCHANGED <<target, target_sent>>
    BY <1>3 DEF ClientSend, ClientEnd, ClientRead
  <2>2. socket'.client = socket.client \/ socket'.client # "open"
    BY <1>2, <1>3 DEF ClientSend, ClientEnd, ClientRead
  <2>3. socket'.in = socket.in \/ socket'.in # <<>>
    <3>1. CASE ClientSend
      <4>1. socket'.in = Append(socket.in, client_sent + 1)
        BY <1>2, <3>1 DEF ClientSend
      <4>2. socket.in \in Seq(Nat) /\ client_sent + 1 \in Nat
        BY Fields DEF Inv, Data
      <4> QED
        BY <4>1, <4>2, AppendProperties
    <3>2. CASE ClientEnd \/ ClientRead
      BY <1>2, <3>2 DEF ClientEnd, ClientRead
    <3> QED
      BY <1>3, <3>1, <3>2
  <2>4. Written' = Written
    <3>1. CASE ClientSend \/ ClientEnd
      BY <1>2, <3>1 DEF ClientSend, ClientEnd, Written
    <3>2. CASE ClientRead
      BY <3>2, ClientReadWritten
    <3> QED
      BY <1>3, <3>1, <3>2
  <2>5. Ended'
    BY <1>1, <2>1, <2>2, <2>4, EndedSame
  <2>6. Selected'
    BY <1>1, <2>2, <2>3, SelectedSame, SameLength
  <2> QED
    BY <2>5, <2>6 DEF EndInv
<1>4. CASE TargetSend \/ TargetFin
  <2>1. c.tcp /\ c.fd /\ target.fin = "none" /\ UNCHANGED socket
    BY <1>4 DEF TargetSend, TargetFin, Inv, PcbHeld
  <2>2. Ended'
    BY <1>1, <2>1 DEF Ended, ResponseComplete
  <2>3. Selected'
    BY <1>1, <2>1, SelectedSame, SameLength
  <2> QED
    BY <2>2, <2>3 DEF EndInv
<1> QED
  BY <1>3, <1>4

LEMMA FlushEnd ==
    ASSUME Inv, Inv', EndInv, flush_remote(c, lwip),
           UNCHANGED <<socket, target, target_sent, got, broken>>
    PROVE  Ended' /\ Len(c'.to_remote) <= Len(c.to_remote)
<1>1. c \in Connection /\ lwip \in Pcb
  BY DEF Inv, TypeOK
<1>2. /\ c' = [c EXCEPT !.to_remote = c'.to_remote]
      /\ lwip' = [lwip EXCEPT !.snd = lwip'.snd]
      /\ Len(c'.to_remote) <= Len(c.to_remote)
  BY <1>1, Flushed DEF Inv, TypeOK
<1>3. /\ c'.remote_closed = c.remote_closed /\ c'.tcp = c.tcp /\ c'.fd = c.fd
      /\ c'.reply = c.reply /\ c'.to_local = c.to_local /\ lwip'.refused_fin = lwip.refused_fin
  BY <1>1, <1>2 DEF Connection, Pcb
<1>4. Written' = Written
  BY DEF Written
<1> QED
  BY <1>2, <1>3, <1>4, EndedSame DEF EndInv

LEMMA PollEnd == Inv /\ Inv' /\ EndInv /\ Poll => EndInv'
BY FlushEnd, SelectedSame DEF Poll, EndInv

LEMMA BuildEnd == Inv /\ Inv' /\ EndInv /\ Build => EndInv'
<1> SUFFICES ASSUME Inv, Inv', EndInv, Build PROVE EndInv'
  OBVIOUS
<1>1. Ended' /\ Len(c'.to_remote) <= Len(c.to_remote) /\ socket' = socket
  BY FlushEnd DEF Build
<1>2. c.to_remote \in Data /\ c'.to_remote \in Data
  BY DEF Inv, TypeOK, Connection
<1>3. Len(c.to_remote) \in Nat /\ Len(c'.to_remote) \in Nat /\ ReadSize \in Nat /\ BufferSize \in Nat
  BY <1>2, LenProperties, StreamSizes DEF Data
<1>4. set'.read => Len(c.to_remote) < BufferSize - ReadSize /\ (socket.in # <<>> \/ socket.client # "open")
  BY DEF Build
<1>5. set'.read => Len(c'.to_remote) + ReadSize < BufferSize
  BY <1>1, <1>3, <1>4
<1> QED
  BY <1>1, <1>4, <1>5 DEF EndInv, Selected

LEMMA ConnectedEnd == Inv /\ Inv' /\ EndInv /\ Connected => EndInv'
<1> SUFFICES ASSUME Inv, Inv', EndInv, Connected PROVE EndInv'
  OBVIOUS
<1> DEFINE d == [c EXCEPT !.phase = "STREAMING", !.to_local = IF c.reply THEN @ \o <<Reply>> ELSE @]
<1>1. c \in Connection /\ lwip \in Pcb /\ Len(lwip.snd) <= SendBuffer /\ c.tcp /\ c.fd /\ c.to_local = <<>>
  BY DEF Connected, Inv, TypeOK, PcbHeld, Fresh
<1>2. flush_remote(d, lwip) /\ UNCHANGED <<set, socket, target, broken>>
  BY DEF Connected
<1>3. /\ d \in Connection /\ d.tcp = c.tcp /\ d.fd = c.fd /\ d.remote_closed = c.remote_closed
      /\ d.to_remote = c.to_remote
  <2>1. c.to_local \o <<Reply>> \in Data
    BY <1>1, Fields, Concat DEF Reply, Data, Cat, Inv
  <2> QED
    BY <1>1, <2>1 DEF Connection
<1> HIDE DEF d
<1>4. /\ c' = [d EXCEPT !.to_remote = c'.to_remote]
      /\ lwip' = [lwip EXCEPT !.snd = lwip'.snd]
      /\ Len(c'.to_remote) <= Len(d.to_remote)
  BY <1>1, <1>2, <1>3, Flushed
<1>5. /\ c'.tcp /\ c'.fd /\ c'.remote_closed = c.remote_closed
      /\ lwip'.refused_fin = lwip.refused_fin
  BY <1>1, <1>3, <1>4 DEF Connection, Pcb
<1>6. Ended'
  BY <1>1, <1>2, <1>5 DEF EndInv, Ended, ResponseComplete
<1>7. Selected'
  BY <1>2, <1>3, <1>4, SelectedSame DEF EndInv
<1> QED
  BY <1>6, <1>7 DEF EndInv

LEMMA TcpSentEnd == Inv /\ Inv' /\ EndInv /\ TcpSent => EndInv'
<1> SUFFICES ASSUME Inv, Inv', EndInv, TcpSent PROVE EndInv'
  OBVIOUS
<1>1. PICK k \in 1..Len(lwip.snd) :
         /\ got' = [got EXCEPT !.target = @ \o Take(lwip.snd, k)]
         /\ LET q == [lwip EXCEPT !.snd = Drop(@, k)] IN
            IF c.tcp THEN flush_remote(c, q) ELSE c' = c /\ lwip' = q
  BY DEF TcpSent
<1> DEFINE q == [lwip EXCEPT !.snd = Drop(lwip.snd, k)]
<1>2. q \in Pcb /\ Len(q.snd) <= SendBuffer /\ q.refused_fin = lwip.refused_fin
  BY Acknowledged
<1>3. (IF c.tcp THEN flush_remote(c, q) ELSE c' = c /\ lwip' = q)
      /\ UNCHANGED <<set, socket, target, target_sent, broken>>
  BY <1>1 DEF TcpSent
<1> HIDE DEF q
<1>4. c \in Connection
  BY DEF Inv, TypeOK
<1>5. /\ c' = [c EXCEPT !.to_remote = c'.to_remote]
      /\ lwip' = [q EXCEPT !.snd = lwip'.snd]
      /\ Len(c'.to_remote) <= Len(c.to_remote)
  <2>1. CASE c.tcp
    BY <1>2, <1>3, <1>4, <2>1, Flushed
  <2>2. CASE ~c.tcp
    BY <1>2, <1>3, <1>4, <2>2, SameLength DEF Connection, Pcb
  <2> QED
    BY <2>1, <2>2
<1>6. /\ c'.remote_closed = c.remote_closed /\ c'.tcp = c.tcp /\ c'.fd = c.fd
      /\ c'.reply = c.reply /\ c'.to_local = c.to_local /\ lwip'.refused_fin = lwip.refused_fin
  BY <1>2, <1>4, <1>5 DEF Connection, Pcb
<1>7. Written' = Written
  BY <1>1, <1>3 DEF Written, Inv, TypeOK
<1>8. Ended'
  BY <1>3, <1>6, <1>7, EndedSame DEF EndInv
<1>9. Selected'
  BY <1>3, <1>5, SelectedSame DEF EndInv
<1> QED
  BY <1>8, <1>9 DEF EndInv

LEMMA LinkDownEnd == Inv /\ Inv' /\ EndInv /\ LinkDown => EndInv'
<1> SUFFICES ASSUME Inv, Inv', EndInv, LinkDown PROVE EndInv'
  OBVIOUS
<1>1. /\ c' = Closed(c) /\ (lwip' = lwip \/ lwip' = Aborted(lwip)) /\ broken'
      /\ UNCHANGED <<set, socket, target>>
  BY DEF LinkDown
<1>2. c \in Connection /\ lwip \in Pcb
  BY DEF Inv, TypeOK
<1>3. Ended'
  BY <1>1, <1>2, ClosedFacts, AbortedFacts DEF EndInv, Ended, ResponseComplete
<1>4. Selected'
  BY <1>1, <1>2, ClosedFacts, SelectedClosed DEF EndInv
<1> QED
  BY <1>3, <1>4 DEF EndInv

LEMMA TcpErrorEnd == Inv /\ Inv' /\ EndInv /\ TcpError => EndInv'
<1> SUFFICES ASSUME Inv, Inv', EndInv, TcpError PROVE EndInv'
  OBVIOUS
<1>1. /\ c' = (IF c.tcp THEN Closed(c) ELSE c) /\ lwip' = Aborted(lwip)
      /\ broken' = (broken \/ c.tcp)
      /\ UNCHANGED <<set, socket, target, target_sent, got>>
  BY SMTT(20) DEF TcpError
<1>2. c \in Connection /\ lwip \in Pcb
  BY DEF Inv, TypeOK
<1>3. CASE c.tcp
  <2>1. Ended'
    BY <1>1, <1>2, <1>3, ClosedFacts, AbortedFacts DEF EndInv, Ended, ResponseComplete
  <2>2. Selected'
    BY <1>1, <1>2, <1>3, ClosedFacts, SelectedClosed DEF EndInv
  <2> QED
    BY <2>1, <2>2 DEF EndInv
<1>4. CASE ~c.tcp
  <2>1. c' = c /\ ~lwip'.refused_fin /\ Written' = Written /\ FromTarget' = FromTarget
    BY <1>1, <1>2, <1>4, AbortedFacts DEF Written, FromTarget
  <2>2. Ended'
    BY <1>1, <1>4, <2>1 DEF EndInv, Ended, ResponseComplete
  <2>3. Selected'
    BY <1>1, <2>1, SelectedSame, SameLength DEF EndInv
  <2> QED
    BY <2>2, <2>3 DEF EndInv
<1> QED
  BY <1>3, <1>4

(* on_tcp_receive: the end is passed on only when nothing is left to come.  *)
LEMMA ReceiveEnd ==
    ASSUME Inv, Inv', EndInv, c.tcp, c.phase = "STREAMING",
           NEW y \in Data, NEW z \in Data, NEW f \in BOOLEAN,
           Receives(y, z, f), c'.tcp \/ (target'.fin = "in" /\ z = <<>> /\ target'.net = <<>>),
           f => target'.fin = "in" /\ target'.net = <<>>,
           Cat(c.to_local, Cat(lwip.refused, target.net)) = Cat(y, Cat(z, target'.net)),
           UNCHANGED <<set, socket, target_sent, got, broken>>
    PROVE  EndInv'
<1> DEFINE e == [c EXCEPT !.to_local = y]
           q == [lwip EXCEPT !.refused = z, !.refused_fin = f]
           g == [e EXCEPT !.tcp = FALSE, !.remote_closed = TRUE]
           h == [q EXCEPT !.pcb = "closing"]
<1>1. c \in Connection /\ lwip \in Pcb /\ c.fd /\ ~c.remote_closed
  BY DEF Inv, TypeOK, PcbHeld, EndInv, Ended
<1>2. /\ e \in Connection /\ e.fd /\ e.tcp /\ ~e.remote_closed
      /\ e.to_local = y /\ e.to_remote = c.to_remote
      /\ g \in Connection /\ g.fd /\ ~g.tcp /\ g.reply = c.reply
      /\ g.to_local = y /\ g.to_remote = c.to_remote
  BY <1>1 DEF Connection
<1>3. q \in Pcb /\ q.refused_fin = f /\ h.refused_fin = f
  BY <1>1 DEF Pcb
<1>4. \/ c' = e /\ lwip' = q
      \/ (c' = g \/ (c' = Closed(g) /\ y = <<>>)) /\ (lwip' = h \/ lwip' = Aborted(q))
  BY <1>2 DEF Receives, on_tcp_fin
<1> HIDE DEF e, q, g, h
<1>5. lwip'.refused_fin => target'.fin = "in" /\ target'.net = <<>>
  BY <1>3, <1>4, AbortedFacts
<1>6. Selected'
  <2>1. CASE c'.to_remote = c.to_remote
    BY <2>1, SelectedSame, SameLength DEF EndInv
  <2>2. CASE c' = Closed(g)
    BY <1>2, <2>2, ClosedFacts, SelectedClosed DEF EndInv
  <2> QED
    BY <1>2, <1>4, <2>1, <2>2
<1>7. Ended'
  <2>1. CASE c' = e
    BY <1>2, <1>5, <2>1 DEF Ended, ResponseComplete
  <2>2. CASE ~c'.tcp
    <3>1. c' = g \/ (c' = Closed(g) /\ y = <<>>)
      BY <1>2, <1>4, <2>2
    <3>2. target'.fin = "in" /\ z = <<>> /\ target'.net = <<>>
      BY <2>2
    <3>3. c'.reply = c.reply /\ c'.to_local = y
      BY <1>2, <3>1, ClosedFacts
    <3>4. Written' = Written /\ FromTarget' = FromTarget
      BY <3>3 DEF Written, FromTarget
    <3>5. FromTarget = Cat(Written, y)
      <4>1. FromTarget = Cat(Written, Cat(c.to_local, Cat(lwip.refused, target.net)))
        BY SMTT(20) DEF Inv, DownPipe
      <4>2. Cat(y, Cat(z, target'.net)) = y
        BY <3>2, Nothing
      <4> QED
        BY <4>1, <4>2
    <3>6. ~c'.fd => Written = FromTarget
      <4>1. CASE c' = Closed(g) /\ y = <<>>
        BY <3>5, <4>1, Fields, Nothing DEF Inv
      <4> QED
        BY <1>2, <3>1, <4>1
    <3> QED
      BY <1>5, <2>2, <3>2, <3>3, <3>4, <3>5, <3>6, SMTT(20) DEF Ended, ResponseComplete
  <2> QED
    BY <1>2, <1>4, <2>1, <2>2, ClosedFacts
<1> QED
  BY <1>6, <1>7 DEF EndInv

LEMMA FastTimerEnd == Inv /\ Inv' /\ EndInv /\ FastTimer => EndInv'
<1> SUFFICES ASSUME Inv, Inv', EndInv, FastTimer PROVE EndInv'
  OBVIOUS
<1> DEFINE y == Cat(c.to_local, lwip.refused)
<1>1. /\ lwip.refused # <<>> /\ c.tcp /\ Retried(c, lwip)
      /\ UNCHANGED <<set, socket, target, target_sent, got, broken>>
  BY DEF FastTimer, RefusedTaken, Inv, PcbHeld
<1>2. c.phase = "STREAMING" /\ c \in Connection
  BY <1>1 DEF Inv, PcbHeld, Fresh, TypeOK, Connection
<1>3. y \in Data /\ <<>> \in Data
  BY Fields, Concat, Nothing DEF Inv
<1>4. Received(c, lwip.refused) = [c EXCEPT !.to_local = y]
  BY DEF Received, Cat
<1>5. Receives(y, <<>>, FALSE)
  BY <1>1, <1>4 DEF Retried, Receives
<1>6. Cat(c.to_local, Cat(lwip.refused, target.net)) = Cat(y, Cat(<<>>, target'.net))
  BY <1>1, <1>3, Fields, Assoc, Nothing, SMTT(20) DEF Inv
<1>7. c'.tcp \/ (target'.fin = "in" /\ target'.net = <<>>)
  <2>1. CASE lwip.refused_fin
    BY <1>1, <2>1 DEF EndInv, Ended
  <2>2. CASE ~lwip.refused_fin
    <3>1. c' = [c EXCEPT !.to_local = y]
      BY <1>1, <1>4, <2>2 DEF Retried
    <3> QED
      BY <1>1, <1>2, <3>1 DEF Connection
  <2> QED
    BY <2>1, <2>2
<1> HIDE DEF y
<1> QED
  BY <1>1, <1>2, <1>3, <1>5, <1>6, <1>7, ReceiveEnd

LEMMA TcpInputEnd == Inv /\ Inv' /\ EndInv /\ TcpInput => EndInv'
<1> SUFFICES ASSUME Inv, Inv', EndInv, TcpInput PROVE EndInv'
  OBVIOUS
<1>1. /\ c.tcp /\ c.phase = "STREAMING"
      /\ UNCHANGED <<set, socket, client_sent, target_sent, got, broken>>
  BY DEF TcpInput, Inv, PcbHeld
<1>2. CASE UNCHANGED <<c, lwip, target>>
  BY <1>1, <1>2, EndedSame, SelectedSame, SameLength DEF EndInv, Written
<1>3. CASE \E y, z \in Data, f, fin \in BOOLEAN : Segments(y, z, f, fin)
  <2>1. PICK y \in Data, z \in Data, f \in BOOLEAN, fin \in BOOLEAN : Segments(y, z, f, fin)
    BY <1>3
  <2>2. fin => target.fin = "sent" /\ target'.fin = "in" /\ target'.net = <<>>
    BY <2>1 DEF Segments
  <2>3. ~lwip.refused_fin
    <3>1. lwip.refused_fin => target.fin = "in" /\ fin
      BY <2>1 DEF EndInv, Ended, Segments
    <3> QED
      BY <2>2, <3>1
  <2>4. f => target'.fin = "in" /\ target'.net = <<>>
    BY <2>1, <2>2, <2>3 DEF Segments
  <2>5. c'.tcp \/ (target'.fin = "in" /\ z = <<>> /\ target'.net = <<>>)
    BY <2>1, <2>2 DEF Segments
  <2> QED
    BY <1>1, <2>1, <2>4, <2>5, ReceiveEnd DEF Segments
<1> QED
  BY <1>2, <1>3, TcpInputSegments

(* The turn in the loop: why a descriptor is closed in it.                  *)
LEMMA WriteEnd ==
    ASSUME Inv, NEW w \in AfterWrite
    PROVE  /\ w.s.client = socket.client
           /\ c.fd /\ ~w.d.fd => \/ socket.client = "gone"
                                 \/ c.remote_closed /\ w.s.out = Cat(socket.out, c.to_local)
<1>1. c \in Connection /\ socket \in [in : Data, out : Data, client : {"open", "half", "gone"}]
  BY DEF Inv, TypeOK
<1>2. CASE w = [d |-> c, s |-> socket]
  BY <1>1, <1>2
<1>3. CASE w = [d |-> Closed(c), s |-> socket] /\ socket.client = "gone"
  BY <1>1, <1>3
<1>4. ASSUME NEW k \in 1..Least(Len(c.to_local), SocketBuffer - Len(socket.out)),
             w = [d |-> flush_local(k), s |-> [socket EXCEPT !.out = @ \o Take(c.to_local, k)]]
      PROVE  /\ w.s.client = socket.client
             /\ c.fd /\ ~w.d.fd => c.remote_closed /\ w.s.out = Cat(socket.out, c.to_local)
  <2> DEFINE x == Take(c.to_local, k)
             y == Drop(c.to_local, k)
             d == [c EXCEPT !.to_local = y]
  <2>1. c.to_local \in Data /\ socket.out \in Data
    BY Fields DEF Inv
  <2>2. x \in Data /\ y \in Data /\ Cat(x, y) = c.to_local
    BY <2>1, TakenWhole
  <2>3. w.s.client = socket.client /\ w.s.out = Cat(socket.out, x)
    BY <1>1, <1>4 DEF Cat
  <2>4. d.fd = c.fd /\ d.remote_closed = c.remote_closed /\ d.to_local = y
    BY <1>1 DEF Connection
  <2>5. w.d = IF d.remote_closed /\ d.to_local = <<>> THEN Closed(d) ELSE d
    BY <1>4 DEF flush_local
  <2> HIDE DEF x, y, d
  <2>6. c.fd /\ ~w.d.fd => c.remote_closed /\ y = <<>>
    BY <2>4, <2>5
  <2>7. y = <<>> => x = c.to_local
    BY <2>2, Nothing
  <2> QED
    BY <2>3, <2>6, <2>7
<1> QED
  BY <1>2, <1>3, <1>4 DEF AfterWrite

LEMMA ReadEnd ==
    ASSUME Inv, Selected, set.pc = "serve", NEW d, NEW s, Turned(d, s),
           s.client = socket.client, s.in = socket.in, d.fd => d.to_remote = c.to_remote
    PROVE  LET r == AfterRead(d, s) IN
           /\ r.s.client = s.client /\ r.s.out = s.out
           /\ ~d.fd => r.d = d
           /\ d.fd /\ ~r.d.fd => socket.client # "open"
<1> DEFINE k == Least(ReadSize, Len(s.in))
           r == AfterRead(d, s)
<1>1. d \in Connection /\ s \in [in : Data, out : Data, client : {"open", "half", "gone"}]
  BY DEF Turned
<1>2. CASE ~set.read \/ ~d.fd
  BY <1>2 DEF AfterRead
<1>3. CASE set.read /\ d.fd
  <2>1. /\ Len(d.to_remote) + ReadSize < BufferSize
        /\ socket.in # <<>> \/ socket.client # "open"
    BY <1>3 DEF Selected
  <2>2. ~(k > BufferSize - Len(d.to_remote))
    <3>1. d.to_remote \in Data /\ s.in \in Data
      BY <1>1 DEF Connection
    <3>2. Len(d.to_remote) \in Nat /\ Len(s.in) \in Nat /\ ReadSize \in Nat /\ BufferSize \in Nat
      BY <3>1, LenProperties, StreamSizes DEF Data
    <3>3. k \in Int /\ k <= ReadSize
      BY <3>2 DEF Least
    <3> HIDE DEF k
    <3> QED
      BY <2>1, <3>2, <3>3
  <2>3. \/ r = [d |-> Closed(d), s |-> s] /\ s.in = <<>>
        \/ r = [d |-> [d EXCEPT !.to_remote = @ \o Take(s.in, k)], s |-> [s EXCEPT !.in = Drop(@, k)]]
    BY <1>3, <2>2 DEF AfterRead
  <2> HIDE DEF r, k
  <2>4. CASE r = [d |-> Closed(d), s |-> s] /\ s.in = <<>>
    BY <1>3, <2>1, <2>4 DEF r
  <2>5. CASE r = [d |-> [d EXCEPT !.to_remote = @ \o Take(s.in, k)], s |-> [s EXCEPT !.in = Drop(@, k)]]
    <3>1. r.d.fd = d.fd /\ r.s.client = s.client /\ r.s.out = s.out
      BY <1>1, <2>5 DEF Connection
    <3> QED
      BY <1>3, <3>1 DEF r
  <2> QED
    BY <2>3, <2>4, <2>5
<1> QED
  BY <1>2, <1>3 DEF Turned, Connection

LEMMA ServeEnd == Inv /\ Inv' /\ EndInv /\ Serve => EndInv'
<1> SUFFICES ASSUME Inv, Inv', EndInv, Serve PROVE EndInv'
  OBVIOUS
<1>1. UNCHANGED <<target, client_sent, target_sent, got, broken>> /\ set.pc = "serve"
  BY DEF Serve
<1>2. Selected'
  BY DEF Serve, Selected
<1>3. CASE ~c.fd /\ UNCHANGED <<c, lwip, socket>>
  <2>1. Written' = Written
    BY <1>1, <1>3 DEF Written
  <2> QED
    BY <1>1, <1>2, <1>3, <2>1, EndedSame DEF EndInv
<1>4. CASE /\ c.fd
           /\ \E w \in AfterWrite :
                 LET r == AfterRead(w.d, w.s) IN
                 /\ c' = r.d
                 /\ socket' = r.s
                 /\ lwip' = IF c.tcp /\ ~r.d.tcp THEN Aborted(lwip) ELSE lwip
  <2>1. PICK w \in AfterWrite : /\ c' = AfterRead(w.d, w.s).d
                                /\ socket' = AfterRead(w.d, w.s).s
                                /\ lwip' = IF c.tcp /\ ~c'.tcp THEN Aborted(lwip) ELSE lwip
    BY <1>4
  <2>2. Turned(w.d, w.s) /\ (w.d.fd => w.d.to_remote = c.to_remote) /\ w.s.in = socket.in
    BY <1>4, WriteTurned
  <2>3. Turned(c', socket')
    BY <1>4, <2>1, <2>2, ReadTurned
  <2>4. /\ w.s.client = socket.client
        /\ ~w.d.fd => \/ socket.client = "gone"
                      \/ c.remote_closed /\ w.s.out = Cat(socket.out, c.to_local)
    BY <1>4, WriteEnd
  <2>5. /\ socket'.client = socket.client /\ socket'.out = w.s.out
        /\ ~w.d.fd => c' = w.d
        /\ w.d.fd /\ ~c'.fd => socket.client # "open"
    <3> DEFINE d == w.d
               s == w.s
    <3>1. Selected /\ set.pc = "serve"
      BY <1>1 DEF EndInv
    <3>2. /\ Turned(d, s) /\ s.client = socket.client /\ s.in = socket.in
          /\ d.fd => d.to_remote = c.to_remote
      BY <2>2, <2>4
    <3>3. c' = AfterRead(d, s).d /\ socket' = AfterRead(d, s).s
      BY <2>1
    <3> HIDE DEF d, s
    <3>4. /\ AfterRead(d, s).s.client = s.client /\ AfterRead(d, s).s.out = s.out
          /\ ~d.fd => AfterRead(d, s).d = d
          /\ d.fd /\ ~AfterRead(d, s).d.fd => socket.client # "open"
      BY <3>1, <3>2, ReadEnd
    <3>5. /\ socket'.client = socket.client /\ socket'.out = s.out
          /\ ~d.fd => c' = d
          /\ d.fd /\ ~c'.fd => socket.client # "open"
      BY <3>2, <3>3, <3>4, SMTT(20)
    <3> QED
      BY <3>5 DEF d, s
  <2>6. \/ c'.fd /\ c'.tcp = c.tcp /\ c'.remote_closed = c.remote_closed
        \/ ~c'.fd /\ ~c'.tcp
    BY <2>3 DEF Turned
  <2>7. c'.reply = c.reply
    BY <2>3 DEF Turned
  <2>8. FromTarget' = FromTarget
    BY <1>1, <2>7 DEF FromTarget
  <2>9. Written = Cat(got.client, socket.out) /\ Written' = Cat(got.client, socket'.out)
    BY <1>1 DEF Written, Cat
  <2>10. lwip'.refused_fin => target'.fin = "in" /\ target'.net = <<>>
    <3>1. lwip \in Pcb
      BY DEF Inv, TypeOK
    <3> QED
      BY <1>1, <2>1, <3>1, AbortedFacts DEF EndInv, Ended
  <2>11. c'.remote_closed => ~c'.tcp
    BY <2>6 DEF EndInv, Ended
  <2>12. c'.fd /\ ~c'.tcp => target'.fin = "in" /\ FromTarget' = Cat(Written', c'.to_local)
    <3> SUFFICES ASSUME c'.fd, ~c'.tcp
                 PROVE  target'.fin = "in" /\ FromTarget' = Cat(Written', c'.to_local)
      OBVIOUS
    <3>1. target.fin = "in" /\ FromTarget = Cat(Written, c.to_local)
      BY <1>4, <2>6 DEF EndInv, Ended
    <3>2. PICK x \in Data : socket'.out = Cat(socket.out, x) /\ c.to_local = Cat(x, Cat(c'.to_local, <<>>))
      BY <2>3 DEF Turned
    <3>3. c'.to_local \in Data
      BY <2>3 DEF Turned, Connection
    <3>4. c.to_local = Cat(x, c'.to_local)
      BY <3>2, <3>3, Nothing, SMTT(20)
    <3>5. Written' = Cat(Written, x)
      BY <2>9, <3>2, Fields, Assoc, SMTT(20) DEF Inv
    <3>6. FromTarget = Cat(Written', c'.to_local)
      BY <3>1, <3>3, <3>4, <3>5, Fields, Assoc DEF Inv
    <3> QED
      BY <1>1, <2>8, <3>1, <3>6
  <2>13. ~c'.fd /\ socket'.client = "open" => target'.fin = "in" /\ Written' = FromTarget'
    <3> SUFFICES ASSUME ~c'.fd, socket'.client = "open"
                 PROVE  target'.fin = "in" /\ Written' = FromTarget'
      OBVIOUS
    <3>1. c.remote_closed /\ socket'.out = Cat(socket.out, c.to_local)
      BY <2>4, <2>5, SMTT(20)
    <3>2. target.fin = "in" /\ FromTarget = Cat(Written, c.to_local)
      BY <1>4, <3>1, SMTT(20) DEF EndInv, Ended
    <3>3. Written' = Cat(Written, c.to_local)
      BY <2>9, <3>1, Fields, Assoc, SMTT(20) DEF Inv
    <3> QED
      BY <1>1, <2>8, <3>2, <3>3
  <2>14. Ended'
    BY <2>10, <2>11, <2>12, <2>13 DEF Ended, ResponseComplete
  <2> QED
    BY <1>2, <2>14 DEF EndInv
<1> QED
  BY <1>3, <1>4 DEF Serve

LEMMA InitEnd == Init => EndInv
<1> SUFFICES ASSUME Init PROVE EndInv
  OBVIOUS
<1>1. c.tcp /\ c.fd /\ ~c.remote_closed /\ ~lwip.refused_fin /\ set.pc = "build"
  BY DEF Init
<1> QED
  BY <1>1, SMTT(20) DEF EndInv, Ended, Selected, ResponseComplete

LEMMA NextEnd == Inv /\ Inv' /\ EndInv /\ [Next]_vars => EndInv'
<1> SUFFICES ASSUME Inv, Inv', EndInv, [Next]_vars PROVE EndInv'
  OBVIOUS
<1>1. CASE ClientSend \/ ClientEnd \/ ClientRead \/ TargetSend \/ TargetFin
  BY <1>1, PeersEnd
<1>2. CASE Connected \/ FastTimer \/ TcpInput \/ TcpSent \/ Poll \/ TcpError \/ LinkDown
  BY <1>2, ConnectedEnd, FastTimerEnd, TcpInputEnd, TcpSentEnd, PollEnd, TcpErrorEnd, LinkDownEnd
<1>3. CASE Build \/ Serve
  BY <1>3, BuildEnd, ServeEnd
<1>4. CASE UNCHANGED vars
  BY <1>4, EndedSame, SelectedSame, SameLength DEF vars, EndInv, Written
<1> QED
  BY <1>1, <1>2, <1>3, <1>4 DEF Next

(* A descriptor that close_connection closes while its client is still      *)
(* there and nothing is broken is closed because the target ended, after    *)
(* the last byte of the target was written: flush_local and on_tcp_receive  *)
(* look at remote_closed and to_local in this order, and what select        *)
(* answered about the descriptor is not stale when read() is called.        *)
THEOREM StreamResponseComplete == Spec => []ResponseComplete
<1>1. EndInv => ResponseComplete
  BY DEF EndInv, Ended
<1>2. Init => Inv /\ EndInv
  BY InitInv, InitEnd
<1>3. Inv /\ EndInv /\ [Next]_vars => (Inv /\ EndInv)'
  BY NextGood, NextEnd DEF Good
<1> QED
  BY <1>1, <1>2, <1>3, PTL DEF Spec
=============================================================================
