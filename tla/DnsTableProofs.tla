--------------------------- MODULE DnsTableProofs ---------------------------
(***************************************************************************)
(* The contract of lwIP's DNS client, for tables, names, servers and       *)
(* callers of any number.                                                  *)
(***************************************************************************)
EXTENDS DnsTable, FiniteSetTheorems, WellFoundedInduction, TLAPS

Entry ==
    [state : {"UNUSED"}]
    \cup [state : {"ASKING"}, name : Names, txid : Txids, server_idx : Int, tmr : Int,
          retries : Int, port : Ports, seqno : Int]
    \cup [state : {"DONE"}, name : Names, addr : Names, ttl : Int, port : Ports \cup {NoPort},
          seqno : Int]

Request == [found : {FALSE}] \cup [found : {TRUE}, arg : Clients, idx : Entries]

Lookup ==
    [state : {"idle"}] \cup [state : {"waiting"}, name : Names]
    \cup [state : {"answered", "twice"}, name : Names, result : Names \cup {Failed}]

Dns == [table : [Entries -> Entry], req : [Requests -> Request], pcbs : SUBSET Ports,
        seqno : Int, lookup : [Clients -> Lookup]]

(* A request in use is for a query that is out, and for a caller that waits *)
(* for its name.                                                            *)
RequestsHeld(d) ==
    \A r \in Requests : d.req[r].found =>
        /\ d.req[r].idx \in Asking(d)
        /\ d.lookup[d.req[r].arg].state = "waiting"
        /\ d.table[d.req[r].idx].name = d.lookup[d.req[r].arg].name

(* A caller has one request while it waits, and no second one.              *)
OneRequest(d) ==
    /\ \A c \in Clients : d.lookup[c].state = "waiting" =>
          \E r \in Requests : d.req[r].found /\ d.req[r].arg = c
    /\ \A r, s \in Requests :
          d.req[r].found /\ d.req[s].found /\ d.req[r].arg = d.req[s].arg => r = s

(* What a caller of name n may be given: the answer to a question that      *)
(* dns_compare_name() takes for n, or none.                                 *)
Answers(n) == {q \in Names : dns_compare_name(n, q)} \cup {Failed}

(* What callers were given, and what the table will give to the next ones.  *)
Truthful(d) ==
    /\ \A c \in Clients :
          /\ d.lookup[c].state # "twice"
          /\ d.lookup[c].state = "answered" => d.lookup[c].result \in Answers(d.lookup[c].name)
    /\ \A i \in Done(d) : dns_compare_name(d.table[i].name, d.table[i].addr)

PortsOpen(d) == d.pcbs = {d.table[i].port : i \in Asking(d)}

DInv(d) == d \in Dns /\ RequestsHeld(d) /\ OneRequest(d) /\ Truthful(d) /\ PortsOpen(d)

Inv == DInv(dns)

-----------------------------------------------------------------------------
(* Induction over the naturals, with a set for the predicate.               *)
LEMMA LeastExists ==
    ASSUME NEW T \in SUBSET Nat, T # {}
    PROVE  \E m \in T : \A k \in T : m <= k
<1> DEFINE R == OpToRel(<, Nat)
<1>1. IsWellFoundedOn(R, Nat)
  BY NatLessThanWellFounded
<1>2. \A x, y \in Nat : x < y => <<x, y>> \in R
  BY DEF OpToRel
<1> HIDE DEF R
<1>3. PICK x \in T : \A y \in T : ~(<<y, x>> \in R)
  BY <1>1, WFMin
<1>4. \A y \in T : x <= y
  <2> SUFFICES ASSUME NEW y \in T PROVE x <= y
    OBVIOUS
  <2>1. x \in Nat /\ y \in Nat
    OBVIOUS
  <2>2. ~(y < x)
    BY <1>2, <1>3, <2>1
  <2> QED
    BY <2>1, <2>2
<1> QED
  BY <1>4

LEMMA SetInduction ==
    ASSUME NEW S, 0 \in S, \A n \in Nat : n \in S => n + 1 \in S
    PROVE  Nat \subseteq S
<1> SUFFICES ASSUME ~(Nat \subseteq S) PROVE FALSE
  OBVIOUS
<1> DEFINE T == {n \in Nat : n \notin S}
<1>1. T \in SUBSET Nat /\ T # {}
  OBVIOUS
<1>2. PICK m \in T : \A k \in T : m <= k
  BY <1>1, LeastExists
<1>3. m \in Nat /\ m # 0 /\ m - 1 \in Nat /\ m - 1 \notin T /\ (m - 1) + 1 = m
  BY <1>2
<1> QED
  BY <1>2, <1>3

(* Min is an element of a set of entries or of requests that has one.       *)
LEMMA MinIn ==
    ASSUME NEW n \in Nat, NEW S \in SUBSET (1..n), S # {}
    PROVE  Min(S) \in S
<1>1. S \in SUBSET Nat
  OBVIOUS
<1>2. \E m \in S : \A k \in S : m <= k
  BY <1>1, LeastExists
<1> QED
  BY <1>2 DEF Min

-----------------------------------------------------------------------------
(* A change of the fields that only the timer looks at.                     *)
LEMMA TimerOnly ==
    ASSUME NEW d, DInv(d), NEW f \in Dns, f.req = d.req, f.lookup = d.lookup, f.pcbs = d.pcbs,
           \A i \in Entries :
              /\ f.table[i].state = d.table[i].state
              /\ d.table[i].state # "UNUSED" => f.table[i].name = d.table[i].name
              /\ d.table[i].state = "ASKING" => f.table[i].port = d.table[i].port
              /\ d.table[i].state = "DONE" => f.table[i].addr = d.table[i].addr
    PROVE  DInv(f)
<1>1. Asking(f) = Asking(d) /\ Done(f) = Done(d)
  BY DEF Asking, Done
<1>2. RequestsHeld(f)
  BY <1>1 DEF DInv, RequestsHeld, Asking
<1>3. OneRequest(f)
  BY DEF DInv, OneRequest
<1>4. Truthful(f)
  BY <1>1 DEF DInv, Truthful, Done
<1>5. PortsOpen(f)
  <2>1. \A i \in Asking(d) : f.table[i].port = d.table[i].port
    BY DEF Asking
  <2> QED
    BY <1>1, <2>1 DEF DInv, PortsOpen
<1> QED
  BY <1>2, <1>3, <1>4, <1>5 DEF DInv

(* The end of a query, whether its entry is freed or completed: e is what   *)
(* the entry is then.                                                       *)
Called(d, i) == {r \in Requests : d.req[r].found /\ d.req[r].idx = i}

RequestsAfter(d, i) == [r \in Requests |-> IF r \in Called(d, i) THEN Free ELSE d.req[r]]

LookupsAfter(d, i, result) ==
    [c \in Clients |-> IF \E r \in Called(d, i) : d.req[r].arg = c
                       THEN dns_done(d.lookup[c], result) ELSE d.lookup[c]]

PortsAfter(d, i) ==
    IF \E j \in Asking(d) \ {i} : d.table[j].port = d.table[i].port
    THEN d.pcbs ELSE d.pcbs \ {d.table[i].port}

CallFound(d, i, result, e) ==
    [table |-> [d.table EXCEPT ![i] = e], req |-> RequestsAfter(d, i), pcbs |-> PortsAfter(d, i),
     seqno |-> d.seqno, lookup |-> LookupsAfter(d, i, result)]

LEMMA CallFoundKeeps ==
    ASSUME NEW d, DInv(d), NEW i \in Asking(d), NEW e \in Entry, e.state # "ASKING",
           e.state = "DONE" => dns_compare_name(e.name, e.addr),
           NEW result \in Answers(d.table[i].name)
    PROVE  DInv(CallFound(d, i, result, e))
<1> DEFINE f == CallFound(d, i, result, e)
<1>0. /\ f.table = [d.table EXCEPT ![i] = e]
      /\ f.req = RequestsAfter(d, i) /\ f.lookup = LookupsAfter(d, i, result)
      /\ f.pcbs = PortsAfter(d, i) /\ f.seqno = d.seqno
      /\ f = [table |-> f.table, req |-> f.req, pcbs |-> f.pcbs, seqno |-> f.seqno, lookup |-> f.lookup]
  BY DEF CallFound
<1> HIDE DEF f
<1>1. /\ d \in Dns /\ d.table \in [Entries -> Entry] /\ d.req \in [Requests -> Request]
      /\ d.pcbs \in SUBSET Ports /\ d.seqno \in Int /\ d.lookup \in [Clients -> Lookup]
      /\ i \in Entries /\ d.table[i].state = "ASKING"
  BY DEF DInv, Dns, Asking
<1>2. \A j \in Entries : f.table[j] = IF j = i THEN e ELSE d.table[j]
  BY <1>0, <1>1
<1>3. \A r \in Requests : /\ r \in Called(d, i) => ~f.req[r].found
                          /\ r \notin Called(d, i) => f.req[r] = d.req[r]
  BY <1>0 DEF RequestsAfter, Free
<1>4. \A r \in Called(d, i) : /\ d.req[r].found /\ d.req[r].idx = i /\ d.req[r].arg \in Clients
                              /\ d.lookup[d.req[r].arg].state = "waiting"
                              /\ d.lookup[d.req[r].arg].name = d.table[i].name
  <2> SUFFICES ASSUME NEW r \in Called(d, i)
               PROVE  /\ d.req[r].found /\ d.req[r].idx = i /\ d.req[r].arg \in Clients
                      /\ d.lookup[d.req[r].arg].state = "waiting"
                      /\ d.lookup[d.req[r].arg].name = d.table[i].name
    OBVIOUS
  <2>1. r \in Requests /\ d.req[r].found /\ d.req[r].idx = i
    BY DEF Called
  <2>2. d.req[r].arg \in Clients
    BY <1>1, <2>1 DEF Request
  <2> QED
    BY <2>1, <2>2 DEF DInv, RequestsHeld
<1>5. \A c \in Clients :
         \/ /\ \E r \in Called(d, i) : d.req[r].arg = c
            /\ d.lookup[c].state = "waiting"
            /\ f.lookup[c] = [state |-> "answered", name |-> d.table[i].name, result |-> result]
         \/ /\ ~\E r \in Called(d, i) : d.req[r].arg = c
            /\ f.lookup[c] = d.lookup[c]
  BY <1>0, <1>4 DEF LookupsAfter, dns_done
<1>6. f.lookup \in [Clients -> Lookup]
  <2>1. d.table[i].name \in Names
    BY <1>1 DEF Entry
  <2>2. \A c \in Clients : f.lookup[c] \in Lookup
    <3>1. result \in Names \cup {Failed}
      BY DEF Answers
    <3> QED
      BY <1>1, <1>5, <2>1, <3>1 DEF Lookup
  <2> QED
    BY <1>0, <2>2 DEF LookupsAfter
<1>7. f \in Dns
  <2>1. f.table \in [Entries -> Entry]
    BY <1>0, <1>1
  <2>2. f.req \in [Requests -> Request]
    <3>1. Free \in Request
      BY DEF Free, Request
    <3> QED
      BY <1>0, <1>1, <3>1 DEF RequestsAfter
  <2>3. f.pcbs \in SUBSET Ports
    BY <1>0, <1>1 DEF PortsAfter
  <2> QED
    BY <1>0, <1>1, <1>6, <2>1, <2>2, <2>3 DEF Dns
<1>8. Asking(f) = Asking(d) \ {i}
  BY <1>2 DEF Asking
<1>9. RequestsHeld(f)
  <2> SUFFICES ASSUME NEW r \in Requests, f.req[r].found
               PROVE  /\ f.req[r].idx \in Asking(f)
                      /\ f.lookup[f.req[r].arg].state = "waiting"
                      /\ f.table[f.req[r].idx].name = f.lookup[f.req[r].arg].name
    BY DEF RequestsHeld
  <2>1. r \notin Called(d, i) /\ f.req[r] = d.req[r] /\ d.req[r].found
    BY <1>3
  <2>2. /\ d.req[r].idx \in Asking(d) /\ d.lookup[d.req[r].arg].state = "waiting"
        /\ d.table[d.req[r].idx].name = d.lookup[d.req[r].arg].name
    BY <2>1 DEF DInv, RequestsHeld
  <2>3. d.req[r].idx # i /\ d.req[r].arg \in Clients /\ d.req[r].idx \in Entries
    BY <1>1, <2>1 DEF Called, Request
  <2>4. ~\E s \in Called(d, i) : d.req[s].arg = d.req[r].arg
    BY <2>1 DEF DInv, OneRequest, Called
  <2>5. f.lookup[d.req[r].arg] = d.lookup[d.req[r].arg]
    BY <1>5, <2>3, <2>4
  <2> QED
    BY <1>2, <1>8, <2>1, <2>2, <2>3, <2>5
<1>10. OneRequest(f)
  <2>1. ASSUME NEW c \in Clients, f.lookup[c].state = "waiting"
        PROVE  \E r \in Requests : f.req[r].found /\ f.req[r].arg = c
    <3>1. d.lookup[c].state = "waiting" /\ ~\E r \in Called(d, i) : d.req[r].arg = c
      BY <1>5, <2>1
    <3>2. PICK r \in Requests : d.req[r].found /\ d.req[r].arg = c
      BY <3>1 DEF DInv, OneRequest
    <3>3. r \notin Called(d, i)
      BY <3>1, <3>2
    <3> QED
      BY <1>3, <3>2, <3>3
  <2>2. ASSUME NEW r \in Requests, NEW s \in Requests,
               f.req[r].found, f.req[s].found, f.req[r].arg = f.req[s].arg
        PROVE  r = s
    BY <1>3, <2>2 DEF DInv, OneRequest
  <2> QED
    BY <2>1, <2>2 DEF OneRequest
<1>11. Truthful(f)
  <2>1. ASSUME NEW c \in Clients
        PROVE  /\ f.lookup[c].state # "twice"
               /\ f.lookup[c].state = "answered" => f.lookup[c].result \in Answers(f.lookup[c].name)
    BY <1>5 DEF DInv, Truthful
  <2>2. ASSUME NEW j \in Done(f)
        PROVE  dns_compare_name(f.table[j].name, f.table[j].addr)
    BY <1>2 DEF DInv, Truthful, Done
  <2> QED
    BY <2>1, <2>2 DEF Truthful
<1>12. PortsOpen(f)
  <2>1. f.pcbs = {d.table[j].port : j \in Asking(d) \ {i}}
    BY <1>0 DEF DInv, PortsOpen, PortsAfter
  <2>2. \A j \in Asking(d) \ {i} : f.table[j] = d.table[j]
    BY <1>2 DEF Asking
  <2>3. {f.table[j].port : j \in Asking(d) \ {i}} = {d.table[j].port : j \in Asking(d) \ {i}}
    BY <2>2
  <2> QED
    BY <1>8, <2>1, <2>3 DEF PortsOpen
<1> QED
  BY <1>7, <1>9, <1>10, <1>11, <1>12 DEF DInv, f

(* dns_call_found, and the entry set after it.                              *)
WithEntry(d, i, e) == [d EXCEPT !.table[i] = e]

LEMMA WithEntryFields ==
    ASSUME NEW d, NEW t, NEW q, NEW p, NEW n, NEW l, NEW i, NEW e,
           d = [table |-> t, req |-> q, pcbs |-> p, seqno |-> n, lookup |-> l]
    PROVE  WithEntry(d, i, e) = [table |-> [t EXCEPT ![i] = e], req |-> q, pcbs |-> p, seqno |-> n, lookup |-> l]
BY DEF WithEntry

LEMMA DnsFields ==
    ASSUME NEW d \in Dns
    PROVE  d = [table |-> d.table, req |-> d.req, pcbs |-> d.pcbs, seqno |-> d.seqno, lookup |-> d.lookup]
BY DEF Dns

WithOthers(d, R, L, P) == [d EXCEPT !.req = R, !.lookup = L, !.pcbs = P]

LEMMA WithOthersFields ==
    ASSUME NEW d, NEW t, NEW q, NEW p, NEW n, NEW l, NEW R, NEW L, NEW P,
           d = [table |-> t, req |-> q, pcbs |-> p, seqno |-> n, lookup |-> l]
    PROVE  WithOthers(d, R, L, P)
           = [table |-> t, req |-> R, pcbs |-> P, seqno |-> n, lookup |-> L]
<1> DEFINE a == [d EXCEPT !.req = R]
           b == [a EXCEPT !.lookup = L]
           c == [b EXCEPT !.pcbs = P]
<1>1. WithOthers(d, R, L, P) = c
  BY DEF WithOthers
<1>2. a = [table |-> t, req |-> R, pcbs |-> p, seqno |-> n, lookup |-> l]
  OBVIOUS
<1> HIDE DEF a
<1>3. b = [table |-> t, req |-> R, pcbs |-> p, seqno |-> n, lookup |-> L]
  BY <1>2
<1> HIDE DEF b
<1>4. c = [table |-> t, req |-> R, pcbs |-> P, seqno |-> n, lookup |-> L]
  BY <1>3
<1> HIDE DEF c
<1> QED
  BY <1>1, <1>4

LEMMA CallFoundFields ==
    ASSUME NEW d \in Dns, NEW i \in Entries, NEW result, NEW e
    PROVE  /\ dns_call_found(d, i, result) = CallFound(d, i, result, [d.table[i] EXCEPT !.port = NoPort])
           /\ WithEntry(dns_call_found(d, i, result), i, e) = CallFound(d, i, result, e)
<1> DEFINE R == RequestsAfter(d, i)
           L == LookupsAfter(d, i, result)
           P == PortsAfter(d, i)
           g == [d EXCEPT !.req = R, !.lookup = L, !.pcbs = P, !.table[i].port = NoPort]
           x == [d.table[i] EXCEPT !.port = NoPort]
<1>1. dns_call_found(d, i, result) = g
  BY DEF dns_call_found, RequestsAfter, LookupsAfter, PortsAfter, Called
<1> HIDE DEF R, L, P
<1>2. g = [table |-> [d.table EXCEPT ![i] = x], req |-> R, pcbs |-> P, seqno |-> d.seqno, lookup |-> L]
  <2> DEFINE z == [d EXCEPT !.req = R, !.lookup = L, !.pcbs = P]
  <2>1. g = [z EXCEPT !.table[i].port = NoPort]
    OBVIOUS
  <2>2. z = [table |-> d.table, req |-> R, pcbs |-> P, seqno |-> d.seqno, lookup |-> L]
    <3>1. z = WithOthers(d, R, L, P)
      BY DEF WithOthers
    <3> HIDE DEF z
    <3> QED
      BY <3>1, DnsFields, WithOthersFields
  <2> HIDE DEF g, z
  <2>3. [z EXCEPT !.table[i].port = NoPort]
        = [table |-> [d.table EXCEPT ![i].port = NoPort], req |-> R, pcbs |-> P, seqno |-> d.seqno,
           lookup |-> L]
    BY <2>2
  <2>4. [d.table EXCEPT ![i].port = NoPort] = [d.table EXCEPT ![i] = x]
    BY DEF Dns
  <2> QED
    BY <2>1, <2>3, <2>4
<1> HIDE DEF g
<1>3. WithEntry(g, i, e)
      = [table |-> [[d.table EXCEPT ![i] = x] EXCEPT ![i] = e], req |-> R, pcbs |-> P, seqno |-> d.seqno,
         lookup |-> L]
  BY <1>2, WithEntryFields
<1>4. [[d.table EXCEPT ![i] = x] EXCEPT ![i] = e] = [d.table EXCEPT ![i] = e]
  BY DEF Dns
<1> QED
  BY <1>1, <1>2, <1>3, <1>4 DEF CallFound, R, L, P

LEMMA CallFoundThen ==
    ASSUME NEW d \in Dns, NEW i \in Entries, NEW result, NEW e
    PROVE  WithEntry(dns_call_found(d, i, result), i, e) = CallFound(d, i, result, e)
BY CallFoundFields

LEMMA FailKeeps ==
    ASSUME NEW d, DInv(d), NEW i \in Asking(d)
    PROVE  DInv(Fail(d, i))
<1>1. d \in Dns /\ i \in Entries
  BY DEF DInv, Asking
<1>2. Blank \in Entry /\ Blank.state = "UNUSED"
  BY DEF Blank, Entry
<1>3. Fail(d, i) = CallFound(d, i, Failed, Blank)
  <2>1. Fail(d, i) = WithEntry(dns_call_found(d, i, Failed), i, Blank)
    BY DEF Fail, WithEntry
  <2> QED
    BY <1>1, <2>1, CallFoundFields
<1> QED
  <2>1. Failed \in Answers(d.table[i].name)
    BY DEF Answers
  <2> QED
    BY <1>2, <1>3, <2>1, CallFoundKeeps
-----------------------------------------------------------------------------
(* The timer.                                                               *)
LEMMA EntryKeeps ==
    ASSUME NEW d, DInv(d), NEW i \in Entries, NEW e \in Entry,
           e.state = d.table[i].state,
           e.state # "UNUSED" => e.name = d.table[i].name,
           e.state = "ASKING" => e.port = d.table[i].port,
           e.state = "DONE" => e.addr = d.table[i].addr
    PROVE  DInv(WithEntry(d, i, e)) /\ WithEntry(d, i, e).table[i] = e
<1> DEFINE f == WithEntry(d, i, e)
<1>1. d \in Dns /\ d.table \in [Entries -> Entry]
  BY DEF DInv, Dns
<1>2. f = [table |-> [d.table EXCEPT ![i] = e], req |-> d.req, pcbs |-> d.pcbs, seqno |-> d.seqno,
           lookup |-> d.lookup]
  BY <1>1, DnsFields, WithEntryFields
<1> HIDE DEF f
<1>3. f.table = [d.table EXCEPT ![i] = e]
  BY <1>2
<1>4. f \in Dns
  BY <1>1, <1>2 DEF Dns
<1>5. \A j \in Entries : f.table[j] = IF j = i THEN e ELSE d.table[j]
  BY <1>1, <1>3
<1>6. f.req = d.req /\ f.lookup = d.lookup /\ f.pcbs = d.pcbs
  BY <1>2
<1>7. DInv(f)
  BY <1>4, <1>5, <1>6, TimerOnly
<1> QED
  BY <1>5, <1>7 DEF f

Asked(d, i, server, tmr, retries) ==
    [state |-> "ASKING", name |-> d.table[i].name, txid |-> d.table[i].txid, server_idx |-> server,
     tmr |-> tmr, retries |-> retries, port |-> d.table[i].port, seqno |-> d.table[i].seqno]

LEMMA AskingFields ==
    ASSUME NEW d \in Dns, NEW i \in Asking(d)
    PROVE  /\ i \in Entries /\ d.table[i] \in Entry /\ d.table[i].state = "ASKING"
           /\ d.table[i].name \in Names /\ d.table[i].port \in Ports
           /\ d.table[i].tmr \in Int /\ d.table[i].retries \in Int /\ d.table[i].server_idx \in Int
           /\ d.table[i] = Asked(d, i, d.table[i].server_idx, d.table[i].tmr, d.table[i].retries)
<1>1. i \in Entries /\ d.table[i] \in Entry /\ d.table[i].state = "ASKING"
  BY DEF Dns, Asking
<1>2. d.table[i] \in [state : {"ASKING"}, name : Names, txid : Txids, server_idx : Int, tmr : Int,
          retries : Int, port : Ports, seqno : Int]
  BY <1>1 DEF Entry
<1> QED
  BY <1>1, <1>2 DEF Asked

LEMMA AskedKeeps ==
    ASSUME NEW d, DInv(d), NEW i \in Asking(d), NEW s \in Int, NEW t \in Int, NEW q \in Int
    PROVE  /\ DInv(WithEntry(d, i, Asked(d, i, s, t, q)))
           /\ i \in Asking(WithEntry(d, i, Asked(d, i, s, t, q)))
<1> DEFINE e == Asked(d, i, s, t, q)
<1>1. d \in Dns
  BY DEF DInv
<1>2. d.table[i] \in [state : {"ASKING"}, name : Names, txid : Txids, server_idx : Int, tmr : Int,
          retries : Int, port : Ports, seqno : Int]
  BY <1>1, AskingFields DEF Entry
<1>3. e \in Entry
  BY <1>2 DEF Asked, Entry
<1>4. e.state = "ASKING" /\ e.name = d.table[i].name /\ e.port = d.table[i].port
  BY DEF Asked
<1>5. i \in Entries /\ d.table[i].state = "ASKING"
  BY <1>1, AskingFields
<1> HIDE DEF e
<1>6. DInv(WithEntry(d, i, e)) /\ WithEntry(d, i, e).table[i] = e
  BY <1>3, <1>4, <1>5, EntryKeeps
<1>7. i \in Asking(WithEntry(d, i, e))
  BY <1>4, <1>5, <1>6 DEF Asking
<1> QED
  BY <1>6, <1>7 DEF e

LEMMA SendKeeps ==
    ASSUME NEW d, DInv(d), NEW i \in Asking(d)
    PROVE  DInv(dns_send(d, i))
BY FailKeeps DEF dns_send
(* The updates of Retry and of dns_recv, as one new entry.                  *)
SetTmr(d, i, t) == [d EXCEPT !.table[i].tmr = t]
SetRetries(d, i, q) == [d EXCEPT !.table[i].retries = q]
SetServer(d, i, s) == [d EXCEPT !.table[i].server_idx = s]

LEMMA SetOne ==
    ASSUME NEW d \in Dns, NEW i \in Asking(d), NEW v
    PROVE  LET e == d.table[i]
           IN  /\ SetTmr(d, i, v) = WithEntry(d, i, Asked(d, i, e.server_idx, v, e.retries))
               /\ SetRetries(d, i, v) = WithEntry(d, i, Asked(d, i, e.server_idx, e.tmr, v))
               /\ SetServer(d, i, v) = WithEntry(d, i, Asked(d, i, v, e.tmr, e.retries))
<1> DEFINE e == d.table[i]
<1>1. e = Asked(d, i, e.server_idx, e.tmr, e.retries)
  BY AskingFields
<1>2. /\ SetTmr(d, i, v) = WithEntry(d, i, [e EXCEPT !.tmr = v])
      /\ SetRetries(d, i, v) = WithEntry(d, i, [e EXCEPT !.retries = v])
      /\ SetServer(d, i, v) = WithEntry(d, i, [e EXCEPT !.server_idx = v])
  BY DEF SetTmr, SetRetries, SetServer, WithEntry
<1>3. /\ [e EXCEPT !.tmr = v] = Asked(d, i, e.server_idx, v, e.retries)
      /\ [e EXCEPT !.retries = v] = Asked(d, i, e.server_idx, e.tmr, v)
      /\ [e EXCEPT !.server_idx = v] = Asked(d, i, v, e.tmr, e.retries)
  BY <1>1 DEF Asked
<1> QED
  BY <1>2, <1>3
LEMMA SetKeeps ==
    ASSUME NEW d, DInv(d), NEW i \in Asking(d), NEW v \in Int
    PROVE  /\ DInv(SetTmr(d, i, v)) /\ i \in Asking(SetTmr(d, i, v))
           /\ DInv(SetRetries(d, i, v)) /\ i \in Asking(SetRetries(d, i, v))
           /\ DInv(SetServer(d, i, v)) /\ i \in Asking(SetServer(d, i, v))
<1>1. d \in Dns
  BY DEF DInv
<1>2. d.table[i].tmr \in Int /\ d.table[i].retries \in Int /\ d.table[i].server_idx \in Int
  BY <1>1, AskingFields
<1>3. \A s, t, q \in Int : /\ DInv(WithEntry(d, i, Asked(d, i, s, t, q)))
                           /\ i \in Asking(WithEntry(d, i, Asked(d, i, s, t, q)))
  BY AskedKeeps
<1>4. SetTmr(d, i, v) = WithEntry(d, i, Asked(d, i, d.table[i].server_idx, v, d.table[i].retries))
  BY <1>1, SetOne
<1>5. SetRetries(d, i, v) = WithEntry(d, i, Asked(d, i, d.table[i].server_idx, d.table[i].tmr, v))
  BY <1>1, SetOne
<1>6. SetServer(d, i, v) = WithEntry(d, i, Asked(d, i, v, d.table[i].tmr, d.table[i].retries))
  BY <1>1, SetOne
<1> QED
  BY <1>2, <1>3, <1>4, <1>5, <1>6

LEMMA RetryKeeps ==
    ASSUME NEW d, DInv(d), NEW i \in Asking(d)
    PROVE  DInv(Retry(d, i))
<1> DEFINE e == d.table[i]
           slower == SetTmr(SetRetries(d, i, e.retries + 1), i, e.retries + 1)
           backup == SetRetries(SetTmr(SetServer(d, i, e.server_idx + 1), i, 1), i, 0)
<1>1. e.tmr \in Int /\ e.retries \in Int /\ e.server_idx \in Int
  BY AskingFields DEF DInv
<1>2. \/ Retry(d, i) = SetTmr(d, i, e.tmr - 1)
      \/ Retry(d, i) = dns_send(slower, i)
      \/ Retry(d, i) = dns_send(backup, i)
      \/ Retry(d, i) = Fail(d, i)
  BY DEF Retry, SetTmr, SetRetries, SetServer
<1>3. DInv(SetTmr(d, i, e.tmr - 1))
  BY <1>1, SetKeeps
<1>4. DInv(slower) /\ i \in Asking(slower)
  <2>1. DInv(SetRetries(d, i, e.retries + 1)) /\ i \in Asking(SetRetries(d, i, e.retries + 1))
    BY <1>1, SetKeeps
  <2> QED
    BY <1>1, <2>1, SetKeeps
<1>5. DInv(backup) /\ i \in Asking(backup)
  <2>1. DInv(SetServer(d, i, e.server_idx + 1)) /\ i \in Asking(SetServer(d, i, e.server_idx + 1))
    BY <1>1, SetKeeps
  <2>2. /\ DInv(SetTmr(SetServer(d, i, e.server_idx + 1), i, 1))
        /\ i \in Asking(SetTmr(SetServer(d, i, e.server_idx + 1), i, 1))
    BY <2>1, SetKeeps
  <2> QED
    BY <2>2, SetKeeps
<1> HIDE DEF slower, backup
<1> QED
  BY <1>2, <1>3, <1>4, <1>5, SendKeeps, FailKeeps

(* A completed entry ages, and is forgotten.                                *)
LEMMA ForgetKeeps ==
    ASSUME NEW d, DInv(d), NEW i \in Entries, i \notin Asking(d)
    PROVE  DInv(WithEntry(d, i, Blank))
<1> DEFINE f == WithEntry(d, i, Blank)
<1>1. d \in Dns /\ d.table \in [Entries -> Entry]
  BY DEF DInv, Dns
<1>2. f = [table |-> [d.table EXCEPT ![i] = Blank], req |-> d.req, pcbs |-> d.pcbs, seqno |-> d.seqno,
           lookup |-> d.lookup]
  BY <1>1, DnsFields, WithEntryFields
<1> HIDE DEF f
<1>3. Blank \in Entry /\ Blank.state = "UNUSED"
  BY DEF Blank, Entry
<1>4. f \in Dns
  BY <1>1, <1>2, <1>3 DEF Dns
<1>5. \A j \in Entries : f.table[j] = IF j = i THEN Blank ELSE d.table[j]
  BY <1>1, <1>2
<1>6. f.req = d.req /\ f.lookup = d.lookup /\ f.pcbs = d.pcbs
  BY <1>2
<1>7. Asking(f) = Asking(d) /\ \A j \in Asking(d) : f.table[j] = d.table[j]
  BY <1>3, <1>5 DEF Asking
<1>8. RequestsHeld(f)
  BY <1>6, <1>7, SMTT(20) DEF DInv, RequestsHeld
<1>9. OneRequest(f)
  BY <1>6 DEF DInv, OneRequest
<1>10. Truthful(f)
  BY <1>3, <1>5, <1>6 DEF DInv, Truthful, Done
<1>11. PortsOpen(f)
  BY <1>6, <1>7 DEF DInv, PortsOpen
<1> QED
  BY <1>4, <1>8, <1>9, <1>10, <1>11 DEF DInv, f

LEMMA CheckEntryKeeps ==
    ASSUME NEW d, DInv(d), NEW i \in Entries
    PROVE  DInv(dns_check_entry(d, i))
<1>1. d \in Dns /\ d.table[i] \in Entry
  BY DEF DInv, Dns
<1>2. d.table[i].state \in {"UNUSED", "ASKING", "DONE"}
  BY <1>1 DEF Entry
<1>3. CASE d.table[i].state = "ASKING"
  BY <1>3, RetryKeeps DEF dns_check_entry, Asking
<1>4. CASE d.table[i].state = "UNUSED"
  BY <1>4 DEF dns_check_entry
<1>5. CASE d.table[i].state = "DONE"
  <2> DEFINE e == d.table[i]
             aged == [e EXCEPT !.ttl = @ - 1]
  <2>1. e \in [state : {"DONE"}, name : Names, addr : Names, ttl : Int, port : Ports \cup {NoPort},
               seqno : Int]
    BY <1>1, <1>5 DEF Entry
  <2>2. aged \in [state : {"DONE"}, name : Names, addr : Names, ttl : Int, port : Ports \cup {NoPort},
                  seqno : Int]
    BY <2>1
  <2>3. aged \in Entry /\ aged.state = "DONE" /\ aged.name = e.name /\ aged.addr = e.addr
    BY <2>1, <2>2 DEF Entry
  <2>4. [d EXCEPT !.table[i].ttl = @ - 1] = WithEntry(d, i, aged)
    BY DEF WithEntry
  <2>5. DInv(WithEntry(d, i, aged))
    <3> HIDE DEF aged
    <3> QED
      BY <1>5, <2>3, EntryKeeps
  <2>6. i \notin Asking(d)
    BY <1>5 DEF Asking
  <2>7. DInv(WithEntry(d, i, Blank))
    BY <2>6, ForgetKeeps
  <2>8. CASE e.ttl > 1
    <3>1. e.ttl \in Int
      BY <2>1
    <3>2. ~(e.ttl <= 1)
      BY <2>8, <3>1
    <3>3. dns_check_entry(d, i) = [d EXCEPT !.table[i].ttl = @ - 1]
      BY <1>5, <2>8, <3>2 DEF dns_check_entry
    <3> HIDE DEF aged
    <3> QED
      BY <2>4, <2>5, <3>3
  <2>9. CASE e.ttl <= 1
    BY <1>5, <2>7, <2>9 DEF dns_check_entry, WithEntry
  <2> QED
    BY <2>1, <2>8, <2>9
<1> QED
  BY <1>2, <1>3, <1>4, <1>5
(* dns_check_entries: the function its loop is written as exists, so it is  *)
(* what its definition says, and every one of its values keeps the          *)
(* invariant.                                                               *)
CheckNext(x, n) == CHOOSE e \in {dns_check_entry(before, n) : before \in {x}} : TRUE

Loop(d, m, f) == [n \in 0..m |-> IF n = 0 THEN d ELSE CheckNext(f[n - 1], n)]

LEMMA CheckNextIs ==
    ASSUME NEW x, NEW n
    PROVE  CheckNext(x, n) = dns_check_entry(x, n)
<1>1. dns_check_entry(x, n) \in {dns_check_entry(before, n) : before \in {x}}
  OBVIOUS
<1>2. \A e \in {dns_check_entry(before, n) : before \in {x}} : e = dns_check_entry(x, n)
  OBVIOUS
<1> QED
  BY <1>1, <1>2 DEF CheckNext

LEMMA LoopExists ==
    ASSUME NEW d, NEW m \in Nat
    PROVE  \E f : f = Loop(d, m, f)
<1> DEFINE S == {k \in Nat : \E f : f = Loop(d, k, f)}
<1>1. 0 \in S
  <2>1. [n \in 0..0 |-> d] = Loop(d, 0, [n \in 0..0 |-> d])
    BY DEF Loop
  <2> QED
    BY <2>1
<1>2. ASSUME NEW k \in Nat, k \in S
      PROVE  k + 1 \in S
  <2>1. PICK f : f = Loop(d, k, f)
    BY <1>2
  <2> DEFINE g == [n \in 0..(k + 1) |-> IF n = k + 1 THEN CheckNext(f[k], k + 1) ELSE f[n]]
  <2>2. \A n \in 0..k : f[n] = IF n = 0 THEN d ELSE CheckNext(f[n - 1], n)
    BY <2>1 DEF Loop
  <2>3. \A n \in 0..(k + 1) : g[n] = IF n = 0 THEN d ELSE CheckNext(g[n - 1], n)
    <3> SUFFICES ASSUME NEW n \in 0..(k + 1)
                 PROVE  g[n] = IF n = 0 THEN d ELSE CheckNext(g[n - 1], n)
      OBVIOUS
    <3>1. CASE n = k + 1
      <4>1. g[n] = CheckNext(f[k], k + 1)
        BY <3>1
      <4>2. n # 0 /\ n - 1 = k /\ k \in 0..(k + 1) /\ k # k + 1
        BY <3>1
      <4>3. g[n - 1] = f[k]
        BY <4>2
      <4> QED
        BY <3>1, <4>1, <4>2, <4>3
    <3>2. CASE n = 0
      <4>1. n # k + 1 /\ n \in 0..k
        BY <3>2
      <4> QED
        BY <2>2, <3>2, <4>1
    <3>3. CASE n # k + 1 /\ n # 0
      <4>1. n \in 0..k /\ n - 1 \in 0..(k + 1) /\ n - 1 # k + 1
        BY <3>3
      <4>2. g[n] = f[n] /\ g[n - 1] = f[n - 1]
        BY <3>3, <4>1
      <4> QED
        BY <2>2, <3>3, <4>1, <4>2
    <3> QED
      BY <3>1, <3>2, <3>3
  <2>4. g = [n \in 0..(k + 1) |-> g[n]]
    OBVIOUS
  <2> HIDE DEF g
  <2>5. g = Loop(d, k + 1, g)
    BY <2>3, <2>4 DEF Loop
  <2> QED
    BY <2>5
<1> HIDE DEF S
<1>3. Nat \subseteq S
  BY <1>1, <1>2, SetInduction
<1> QED
  BY <1>3 DEF S

LEMMA CheckEntriesKeeps ==
    ASSUME NEW d, DInv(d)
    PROVE  DInv(dns_check_entries(d))
<1> DEFINE after == CHOOSE f : f = Loop(d, TableSize, f)
<1>1. dns_check_entries(d) = after[TableSize]
  BY DEF dns_check_entries, Loop, CheckNext
<1>2. TableSize \in Nat
  BY DnsAssumption
<1>3. after = Loop(d, TableSize, after)
  BY <1>2, LoopExists
<1> HIDE DEF after
<1>4. /\ after[0] = d
      /\ \A n \in 1..TableSize : after[n] = dns_check_entry(after[n - 1], n)
  BY <1>2, <1>3, CheckNextIs DEF Loop
<1> DEFINE S == {n \in Nat : n <= TableSize => DInv(after[n])}
<1>5. 0 \in S
  BY <1>4
<1>6. ASSUME NEW n \in Nat, n \in S
      PROVE  n + 1 \in S
  <2> SUFFICES ASSUME n + 1 <= TableSize PROVE DInv(after[n + 1])
    OBVIOUS
  <2>1. n <= TableSize /\ n + 1 \in 1..TableSize /\ (n + 1) - 1 = n
    BY <1>2
  <2>2. DInv(after[n])
    BY <1>6, <2>1
  <2>3. after[n + 1] = dns_check_entry(after[n], n + 1)
    BY <1>4, <2>1
  <2> QED
    BY <2>1, <2>2, <2>3, CheckEntryKeeps DEF Entries
<1> HIDE DEF S
<1>7. Nat \subseteq S
  BY <1>5, <1>6, SetInduction
<1> QED
  BY <1>1, <1>2, <1>7 DEF S
-----------------------------------------------------------------------------
(* A new lookup: a caller that does not wait is answered or refused.        *)
WithLookup(d, c, l) == [d EXCEPT !.lookup[c] = l]

LEMMA WithLookupFields ==
    ASSUME NEW d, NEW t, NEW q, NEW p, NEW n, NEW k, NEW c, NEW l,
           d = [table |-> t, req |-> q, pcbs |-> p, seqno |-> n, lookup |-> k]
    PROVE  WithLookup(d, c, l)
           = [table |-> t, req |-> q, pcbs |-> p, seqno |-> n, lookup |-> [k EXCEPT ![c] = l]]
BY DEF WithLookup

LEMMA LookupKeeps ==
    ASSUME NEW d, DInv(d), NEW c \in Clients, d.lookup[c].state # "waiting", NEW l \in Lookup,
           l.state \in {"idle", "answered"},
           l.state = "answered" => l.result \in Answers(l.name)
    PROVE  DInv(WithLookup(d, c, l))
<1> DEFINE f == WithLookup(d, c, l)
<1>1. d \in Dns /\ d.lookup \in [Clients -> Lookup] /\ d.req \in [Requests -> Request]
  BY DEF DInv, Dns
<1>2. f = [table |-> d.table, req |-> d.req, pcbs |-> d.pcbs, seqno |-> d.seqno,
           lookup |-> [d.lookup EXCEPT ![c] = l]]
  BY <1>1, DnsFields, WithLookupFields
<1> HIDE DEF f
<1>3. f \in Dns
  BY <1>1, <1>2 DEF Dns
<1>4. f.table = d.table /\ f.req = d.req /\ f.pcbs = d.pcbs
  BY <1>2
<1>5. \A b \in Clients : f.lookup[b] = IF b = c THEN l ELSE d.lookup[b]
  BY <1>1, <1>2
<1>6. Asking(f) = Asking(d) /\ Done(f) = Done(d)
  BY <1>4, SMTT(20) DEF Asking, Done
<1>7. RequestsHeld(f)
  <2>1. \A r \in Requests : d.req[r].found =>
           /\ d.req[r].arg \in Clients
           /\ d.lookup[d.req[r].arg].state = "waiting"
           /\ f.lookup[d.req[r].arg] = d.lookup[d.req[r].arg]
    BY <1>1, <1>5 DEF DInv, RequestsHeld, Request
  <2> QED
    BY <1>4, <1>6, <2>1, SMTT(20) DEF DInv, RequestsHeld
<1>8. OneRequest(f)
  BY <1>4, <1>5 DEF DInv, OneRequest
<1>9. Truthful(f)
  BY <1>4, <1>5, <1>6 DEF DInv, Truthful
<1>10. PortsOpen(f)
  BY <1>4, <1>6 DEF DInv, PortsOpen
<1> QED
  BY <1>3, <1>7, <1>8, <1>9, <1>10 DEF DInv, f

LEMMA RefuseKeeps ==
    ASSUME NEW d, DInv(d), NEW c \in Clients, d.lookup[c].state # "waiting"
    PROVE  DInv(Refuse(d, c))
<1> DEFINE l == [state |-> "idle"]
<1>1. l \in Lookup /\ l.state = "idle"
  BY DEF Lookup
<1>2. Refuse(d, c) = WithLookup(d, c, l)
  BY DEF Refuse, WithLookup
<1> HIDE DEF l
<1> QED
  BY <1>1, <1>2, LookupKeeps

(* ... or waits: it gets a free request, for entry i that asks its name.    *)
NewRequest(d, f, c, n, r, i) ==
    /\ f.req = [d.req EXCEPT ![r] = [found |-> TRUE, arg |-> c, idx |-> i]]
    /\ f.lookup = [d.lookup EXCEPT ![c] = [state |-> "waiting", name |-> n]]
    /\ Asking(f) = Asking(d) \cup {i}
    /\ \A j \in Asking(d) : f.table[j] = d.table[j]
    /\ f.table[i].name = n
    /\ \A j \in Done(f) : j \in Done(d) /\ f.table[j] = d.table[j]
    /\ PortsOpen(f)

LEMMA NewRequestKeeps ==
    ASSUME NEW d, DInv(d), NEW c \in Clients, d.lookup[c].state # "waiting", NEW n \in Names,
           NEW r \in FreeRequests(d), NEW i \in Entries, NEW f \in Dns, NewRequest(d, f, c, n, r, i)
    PROVE  DInv(f)
<1>0. r \in Requests /\ ~d.req[r].found
  BY DEF FreeRequests
<1>1. d.lookup \in [Clients -> Lookup] /\ d.req \in [Requests -> Request]
  BY DEF DInv, Dns
<1>2. \A b \in Clients : f.lookup[b] = IF b = c THEN [state |-> "waiting", name |-> n] ELSE d.lookup[b]
  BY <1>0, <1>1 DEF NewRequest
<1>3. \A q \in Requests : f.req[q] = IF q = r THEN [found |-> TRUE, arg |-> c, idx |-> i] ELSE d.req[q]
  BY <1>0, <1>1 DEF NewRequest
<1>4. \A q \in Requests : d.req[q].found => /\ d.req[q].arg \in Clients /\ d.req[q].arg # c /\ q # r
  <2>1. \A q \in Requests : d.req[q].found => d.req[q].arg \in Clients
    BY <1>1 DEF Request
  <2>2. \A q \in Requests : d.req[q].found => d.lookup[d.req[q].arg].state = "waiting"
    BY DEF DInv, RequestsHeld
  <2> QED
    BY <1>0, <2>1, <2>2
<1>5. RequestsHeld(f)
  <2> SUFFICES ASSUME NEW q \in Requests, f.req[q].found
               PROVE  /\ f.req[q].idx \in Asking(f)
                      /\ f.lookup[f.req[q].arg].state = "waiting"
                      /\ f.table[f.req[q].idx].name = f.lookup[f.req[q].arg].name
    BY DEF RequestsHeld
  <2>1. CASE q = r
    <3>1. f.req[q].arg = c /\ f.req[q].idx = i
      BY <1>3, <2>1
    <3>2. f.lookup[c].state = "waiting" /\ f.lookup[c].name = n
      BY <1>2
    <3> QED
      BY <3>1, <3>2 DEF NewRequest
  <2>2. CASE q # r
    <3>1. f.req[q] = d.req[q] /\ d.req[q].found
      BY <1>3, <2>2
    <3>2. /\ d.req[q].idx \in Asking(d) /\ d.lookup[d.req[q].arg].state = "waiting"
          /\ d.table[d.req[q].idx].name = d.lookup[d.req[q].arg].name
      BY <3>1 DEF DInv, RequestsHeld
    <3>3. f.lookup[d.req[q].arg] = d.lookup[d.req[q].arg]
      BY <1>2, <1>4, <3>1
    <3> QED
      BY <3>1, <3>2, <3>3, SMTT(20) DEF NewRequest
  <2> QED
    BY <2>1, <2>2
<1>6. OneRequest(f)
  <2>1. ASSUME NEW b \in Clients, f.lookup[b].state = "waiting"
        PROVE  \E q \in Requests : f.req[q].found /\ f.req[q].arg = b
    <3>1. CASE b = c
      BY <1>0, <1>3, <3>1
    <3>2. CASE b # c
      <4>1. d.lookup[b].state = "waiting"
        BY <1>2, <2>1, <3>2
      <4>2. PICK q \in Requests : d.req[q].found /\ d.req[q].arg = b
        BY <4>1 DEF DInv, OneRequest
      <4> QED
        BY <1>3, <1>4, <4>2
    <3> QED
      BY <3>1, <3>2
  <2>2. ASSUME NEW q \in Requests, NEW s \in Requests,
               f.req[q].found, f.req[s].found, f.req[q].arg = f.req[s].arg
        PROVE  q = s
    BY <1>3, <1>4, <2>2 DEF DInv, OneRequest
  <2> QED
    BY <2>1, <2>2 DEF OneRequest
<1>7. Truthful(f)
  <2>1. \A b \in Clients : /\ f.lookup[b].state # "twice"
                           /\ f.lookup[b].state = "answered" =>
                                f.lookup[b].result \in Answers(f.lookup[b].name)
    BY <1>2 DEF DInv, Truthful
  <2>2. \A j \in Done(f) : dns_compare_name(f.table[j].name, f.table[j].addr)
    BY DEF DInv, Truthful, NewRequest
  <2> QED
    BY <2>1, <2>2 DEF Truthful
<1> QED
  BY <1>5, <1>6, <1>7 DEF DInv, NewRequest
LEMMA AttachFields ==
    ASSUME NEW d \in Dns, NEW c, NEW n, NEW r, NEW i
    PROVE  Attach(d, c, n, r, i)
           = [table |-> d.table, req |-> [d.req EXCEPT ![r] = [found |-> TRUE, arg |-> c, idx |-> i]],
              pcbs |-> d.pcbs, seqno |-> d.seqno,
              lookup |-> [d.lookup EXCEPT ![c] = [state |-> "waiting", name |-> n]]]
<1> DEFINE q == [found |-> TRUE, arg |-> c, idx |-> i]
           l == [state |-> "waiting", name |-> n]
           y == [d EXCEPT !.req[r] = q]
           z == [y EXCEPT !.lookup[c] = l]
<1>1. Attach(d, c, n, r, i) = z
  <2> HIDE DEF q, l
  <2>1. [d EXCEPT !.req[r] = q, !.lookup[c] = l] = z
    OBVIOUS
  <2>2. Attach(d, c, n, r, i) = [d EXCEPT !.req[r] = q, !.lookup[c] = l]
    BY DEF Attach, q, l
  <2> HIDE DEF z
  <2> QED
    BY <2>1, <2>2
<1> HIDE DEF q, l
<1>2. y = [table |-> d.table, req |-> [d.req EXCEPT ![r] = q], pcbs |-> d.pcbs, seqno |-> d.seqno,
           lookup |-> d.lookup]
  <2>1. d = [table |-> d.table, req |-> d.req, pcbs |-> d.pcbs, seqno |-> d.seqno, lookup |-> d.lookup]
    BY DnsFields
  <2> QED
    BY <2>1
<1> HIDE DEF y
<1>3. z = [table |-> d.table, req |-> [d.req EXCEPT ![r] = q], pcbs |-> d.pcbs, seqno |-> d.seqno,
           lookup |-> [d.lookup EXCEPT ![c] = l]]
  BY <1>2
<1> HIDE DEF z
<1> QED
  BY <1>1, <1>3 DEF q, l

LEMMA AttachedType ==
    ASSUME NEW d \in Dns, NEW c \in Clients, NEW n \in Names, NEW r \in Requests, NEW i \in Entries
    PROVE  /\ [d.req EXCEPT ![r] = [found |-> TRUE, arg |-> c, idx |-> i]] \in [Requests -> Request]
           /\ [d.lookup EXCEPT ![c] = [state |-> "waiting", name |-> n]] \in [Clients -> Lookup]
<1>1. [found |-> TRUE, arg |-> c, idx |-> i] \in Request
  BY DEF Request
<1>2. [state |-> "waiting", name |-> n] \in Lookup
  BY DEF Lookup
<1> QED
  BY <1>1, <1>2 DEF Dns

LEMMA AttachKeeps ==
    ASSUME NEW d, DInv(d), NEW c \in Clients, d.lookup[c].state # "waiting", NEW n \in Names,
           NEW r \in FreeRequests(d), NEW i \in Asking(d), d.table[i].name = n
    PROVE  DInv(Attach(d, c, n, r, i))
<1> DEFINE R == [d.req EXCEPT ![r] = [found |-> TRUE, arg |-> c, idx |-> i]]
           L == [d.lookup EXCEPT ![c] = [state |-> "waiting", name |-> n]]
           f == Attach(d, c, n, r, i)
<1>1. d \in Dns /\ i \in Entries /\ r \in Requests /\ ~d.req[r].found
  BY DEF DInv, Asking, FreeRequests
<1>2. R \in [Requests -> Request] /\ L \in [Clients -> Lookup]
  BY <1>1, AttachedType
<1>3. f = [table |-> d.table, req |-> R, pcbs |-> d.pcbs, seqno |-> d.seqno, lookup |-> L]
  BY <1>1, AttachFields
<1>4. R = [d.req EXCEPT ![r] = [found |-> TRUE, arg |-> c, idx |-> i]]
  OBVIOUS
<1>5. L = [d.lookup EXCEPT ![c] = [state |-> "waiting", name |-> n]]
  OBVIOUS
<1> HIDE DEF R, L, f
<1>6. f \in Dns
  BY <1>1, <1>2, <1>3 DEF Dns
<1>7. f.table = d.table /\ f.req = R /\ f.lookup = L /\ f.pcbs = d.pcbs
  BY <1>3
<1>8. Asking(f) = Asking(d) /\ Done(f) = Done(d) /\ Asking(d) = Asking(d) \cup {i}
  BY <1>7 DEF Asking, Done
<1>9. PortsOpen(f)
  BY <1>7, <1>8 DEF DInv, PortsOpen
<1>10. NewRequest(d, f, c, n, r, i)
  BY <1>4, <1>5, <1>7, <1>8, <1>9 DEF NewRequest
<1>11. DInv(f)
  BY <1>1, <1>6, <1>10, NewRequestKeeps
<1> QED
  BY <1>11 DEF f
(* A new query: an entry that is not asking, with an open or a new port.    *)
Started(a, i, p, e) ==
    [a EXCEPT !.seqno = (@ + 1) % SeqModulus, !.pcbs = @ \cup {p}, !.table[i] = e]

LEMMA StartedFields ==
    ASSUME NEW a, NEW i, NEW p, NEW e,
           a = [table |-> a.table, req |-> a.req, pcbs |-> a.pcbs, seqno |-> a.seqno, lookup |-> a.lookup]
    PROVE  Started(a, i, p, e)
           = [table |-> [a.table EXCEPT ![i] = e], req |-> a.req, pcbs |-> a.pcbs \cup {p},
              seqno |-> (a.seqno + 1) % SeqModulus, lookup |-> a.lookup]
<1> DEFINE t == a.table
           q == a.req
           o == a.pcbs
           n == a.seqno
           l == a.lookup
           m == (n + 1) % SeqModulus
           u == o \cup {p}
           x == [a EXCEPT !.seqno = m]
           y == [x EXCEPT !.pcbs = u]
           z == [y EXCEPT !.table[i] = e]
<1>1. a = [table |-> t, req |-> q, pcbs |-> o, seqno |-> n, lookup |-> l]
  OBVIOUS
<1>2. Started(a, i, p, e) = [a EXCEPT !.seqno = m, !.pcbs = u, !.table[i] = e]
  BY DEF Started
<1> HIDE DEF m, u, t, q, o, n, l
<1>3. [a EXCEPT !.seqno = m, !.pcbs = u, !.table[i] = e] = z
  OBVIOUS
<1>4. x = [table |-> t, req |-> q, pcbs |-> o, seqno |-> m, lookup |-> l]
  BY <1>1
<1> HIDE DEF x
<1>5. y = [table |-> t, req |-> q, pcbs |-> u, seqno |-> m, lookup |-> l]
  BY <1>4
<1> HIDE DEF y
<1>6. z = [table |-> [t EXCEPT ![i] = e], req |-> q, pcbs |-> u, seqno |-> m, lookup |-> l]
  BY <1>5
<1> HIDE DEF z
<1> QED
  BY <1>2, <1>3, <1>6 DEF m, u, t, q, o, n, l

LEMMA StartedKeeps ==
    ASSUME NEW d, DInv(d), NEW c \in Clients, d.lookup[c].state # "waiting", NEW n \in Names,
           NEW r \in FreeRequests(d), NEW i \in Entries, i \notin Asking(d),
           NEW p \in Ports, NEW e \in Entry, e.state = "ASKING", e.name = n, e.port = p
    PROVE  /\ DInv(Started(Attach(d, c, n, r, i), i, p, e))
           /\ i \in Asking(Started(Attach(d, c, n, r, i), i, p, e))
<1> DEFINE R == [d.req EXCEPT ![r] = [found |-> TRUE, arg |-> c, idx |-> i]]
           L == [d.lookup EXCEPT ![c] = [state |-> "waiting", name |-> n]]
           m == (d.seqno + 1) % SeqModulus
           a == Attach(d, c, n, r, i)
           f == Started(a, i, p, e)
<1>1. d \in Dns /\ r \in Requests /\ d.table \in [Entries -> Entry] /\ d.pcbs \subseteq Ports
  BY DEF DInv, Dns, FreeRequests
<1>2. R \in [Requests -> Request] /\ L \in [Clients -> Lookup]
  BY <1>1, AttachedType
<1>3. a = [table |-> d.table, req |-> R, pcbs |-> d.pcbs, seqno |-> d.seqno, lookup |-> L]
  BY <1>1, AttachFields
<1>4. m \in Int
  BY <1>1, DnsAssumption DEF Dns
<1> HIDE DEF R, L, a
<1>5. f = [table |-> [d.table EXCEPT ![i] = e], req |-> R, pcbs |-> d.pcbs \cup {p}, seqno |-> m,
           lookup |-> L]
  <2>1. a = [table |-> a.table, req |-> a.req, pcbs |-> a.pcbs, seqno |-> a.seqno, lookup |-> a.lookup]
    BY <1>3
  <2>2. f = [table |-> [a.table EXCEPT ![i] = e], req |-> a.req, pcbs |-> a.pcbs \cup {p},
             seqno |-> (a.seqno + 1) % SeqModulus, lookup |-> a.lookup]
    BY <2>1, StartedFields
  <2>3. a.table = d.table /\ a.req = R /\ a.pcbs = d.pcbs /\ a.seqno = d.seqno /\ a.lookup = L
    BY <1>3
  <2> HIDE DEF f
  <2> QED
    BY <2>2, <2>3
<1> HIDE DEF f, m
<1>6. f \in Dns
  BY <1>1, <1>2, <1>4, <1>5, SMTT(20) DEF Dns
<1>7. f.req = R /\ f.lookup = L /\ f.pcbs = d.pcbs \cup {p} /\ f.table = [d.table EXCEPT ![i] = e]
  BY <1>5
<1>8. \A j \in Entries : f.table[j] = IF j = i THEN e ELSE d.table[j]
  BY <1>1, <1>7
<1>9. Asking(f) = Asking(d) \cup {i}
  BY <1>8 DEF Asking
<1>10. \A j \in Asking(d) : f.table[j] = d.table[j]
  BY <1>8 DEF Asking
<1>11. \A j \in Done(f) : j \in Done(d) /\ f.table[j] = d.table[j]
  BY <1>8 DEF Done
<1>12. PortsOpen(f)
  <2>1. f.table[i].port = p
    BY <1>8
  <2>2. {f.table[j].port : j \in Asking(d) \cup {i}} = {d.table[j].port : j \in Asking(d)} \cup {p}
    BY <1>10, <2>1
  <2> QED
    BY <1>7, <1>9, <2>2 DEF DInv, PortsOpen
<1>13. f.table[i].name = n
  BY <1>8
<1>14. NewRequest(d, f, c, n, r, i)
  BY <1>7, <1>9, <1>10, <1>11, <1>12, <1>13 DEF NewRequest, R, L
<1>15. DInv(f)
  BY <1>6, <1>14, NewRequestKeeps
<1> QED
  BY <1>9, <1>15 DEF f, a

LEMMA AllocPcb ==
    ASSUME NEW d \in Dns, NEW p \in dns_alloc_pcb(d) \ {NoPort}
    PROVE  p \in Ports
<1>1. d.pcbs \in SUBSET Ports
  BY DEF Dns
<1>2. MaxRequests \in Nat
  BY DnsAssumption
<1>3. Ports \ d.pcbs # {} => Min(Ports \ d.pcbs) \in Ports \ d.pcbs
  BY <1>2, MinIn DEF Ports
<1> QED
  BY <1>1, <1>3 DEF dns_alloc_pcb

NewEntry(d, n, p, t) ==
    [state |-> "ASKING", name |-> n, txid |-> t, server_idx |-> 0, tmr |-> 1, retries |-> 0,
     port |-> p, seqno |-> d.seqno]

LEMMA StartKeeps ==
    ASSUME NEW d, DInv(d), NEW c \in Clients, d.lookup[c].state # "waiting", NEW n \in Names,
           NEW r \in FreeRequests(d), NEW i \in Entries, i \notin Asking(d),
           NEW f \in Start(d, c, n, r, i)
    PROVE  DInv(f)
<1>1. d \in Dns /\ d.seqno \in Int
  BY DEF DInv, Dns
<1>2. CASE f = Refuse([d EXCEPT !.table[i] = Blank], c)
  <2> DEFINE g == WithEntry(d, i, Blank)
  <2>1. g = [table |-> [d.table EXCEPT ![i] = Blank], req |-> d.req, pcbs |-> d.pcbs,
             seqno |-> d.seqno, lookup |-> d.lookup]
    BY <1>1, DnsFields, WithEntryFields
  <2>2. f = Refuse(g, c)
    BY <1>2 DEF WithEntry
  <2> HIDE DEF g
  <2>3. g.lookup = d.lookup
    BY <2>1
  <2>4. DInv(g)
    BY ForgetKeeps DEF g
  <2> QED
    BY <2>2, <2>3, <2>4, RefuseKeeps
<1>3. CASE \E p \in dns_alloc_pcb(d) \ {NoPort}, t \in dns_create_txid(d) : f = Ask(d, c, n, r, i, p, t)
  <2>0. PICK p \in dns_alloc_pcb(d) \ {NoPort}, t \in dns_create_txid(d) : f = Ask(d, c, n, r, i, p, t)
    BY <1>3
  <2> DEFINE e == NewEntry(d, n, p, t)
             g == Started(Attach(d, c, n, r, i), i, p, e)
  <2>1. f = dns_send(g, i)
    BY <2>0 DEF Ask, Started, NewEntry
  <2>2. p \in Ports
    BY <1>1, AllocPcb
  <2>3. t \in Txids
    BY DEF dns_create_txid
  <2>4. e \in Entry /\ e.state = "ASKING" /\ e.name = n /\ e.port = p
    BY <1>1, <2>2, <2>3, SMTT(20) DEF Entry, NewEntry
  <2> HIDE DEF e
  <2>5. DInv(g) /\ i \in Asking(g)
    BY <2>2, <2>4, StartedKeeps
  <2> HIDE DEF g
  <2> QED
    BY <2>1, <2>5, SendKeeps
<1>4. \/ f = Refuse([d EXCEPT !.table[i] = Blank], c)
      \/ \E p \in dns_alloc_pcb(d) \ {NoPort}, t \in dns_create_txid(d) : f = Ask(d, c, n, r, i, p, t)
  BY DEF Start
<1> QED
  BY <1>2, <1>3, <1>4
LEMMA CandidateIdle ==
    ASSUME NEW d, NEW i \in Candidates(d)
    PROVE  i \in Entries /\ i \notin Asking(d)
<1> DEFINE unused == {j \in Entries : d.table[j].state = "UNUSED"}
<1>1. CASE unused # {}
  <2>1. TableSize \in Nat /\ unused \in SUBSET (1..TableSize)
    BY DnsAssumption DEF Entries
  <2>2. Min(unused) \in unused
    BY <1>1, <2>1, MinIn
  <2>3. i = Min(unused)
    BY <1>1 DEF Candidates
  <2> QED
    BY <2>2, <2>3 DEF Asking
<1>2. CASE unused = {}
  <2>1. i \in Done(d)
    BY <1>2 DEF Candidates
  <2> QED
    BY <2>1 DEF Done, Asking
<1> QED
  BY <1>1, <1>2

LEMMA EnqueueKeeps ==
    ASSUME NEW d, DInv(d), NEW c \in Clients, d.lookup[c].state # "waiting", NEW n \in Names,
           NEW f \in dns_enqueue(d, c, n)
    PROVE  DInv(f)
<1> DEFINE same == {i \in Asking(d) : d.table[i].name = n}
           r == Min(FreeRequests(d))
<1>1. \/ f = Refuse(d, c)
      \/ FreeRequests(d) # {} /\ same # {} /\ f = Attach(d, c, n, r, Min(same))
      \/ FreeRequests(d) # {} /\ \E i \in Candidates(d) : f \in Start(d, c, n, r, i)
  BY DEF dns_enqueue
<1>2. ASSUME FreeRequests(d) # {}
      PROVE  r \in FreeRequests(d)
  <2>1. MaxRequests \in Nat /\ FreeRequests(d) \in SUBSET (1..MaxRequests)
    BY DnsAssumption DEF FreeRequests, Requests
  <2> QED
    BY <1>2, <2>1, MinIn
<1>3. ASSUME same # {}
      PROVE  Min(same) \in same
  <2>1. TableSize \in Nat /\ same \in SUBSET (1..TableSize)
    BY DnsAssumption DEF Asking, Entries
  <2> QED
    BY <1>3, <2>1, MinIn
<1> HIDE DEF r
<1>4. CASE f = Refuse(d, c)
  BY <1>4, RefuseKeeps
<1>5. CASE FreeRequests(d) # {} /\ same # {} /\ f = Attach(d, c, n, r, Min(same))
  BY <1>2, <1>3, <1>5, AttachKeeps
<1>6. CASE FreeRequests(d) # {} /\ \E i \in Candidates(d) : f \in Start(d, c, n, r, i)
  <2>1. PICK i \in Candidates(d) : f \in Start(d, c, n, r, i)
    BY <1>6
  <2>2. i \in Entries /\ i \notin Asking(d)
    BY CandidateIdle
  <2> QED
    BY <1>2, <1>6, <2>1, <2>2, StartKeeps
<1> QED
  BY <1>1, <1>4, <1>5, <1>6

LEMMA GetHostByNameKeeps ==
    ASSUME NEW d, DInv(d), NEW c \in Clients, d.lookup[c].state # "waiting", NEW n \in Names,
           NEW f \in dns_gethostbyname(d, c, n)
    PROVE  DInv(f)
<1> DEFINE cached == {i \in Done(d) : d.table[i].name = n}
           l == [state |-> "answered", name |-> n, result |-> d.table[Min(cached)].addr]
<1>1. \/ cached # {} /\ f = WithLookup(d, c, l)
      \/ f = Refuse(d, c)
      \/ f \in dns_enqueue(d, c, n)
  BY DEF dns_gethostbyname, WithLookup
<1>2. CASE cached # {} /\ f = WithLookup(d, c, l)
  <2>1. TableSize \in Nat /\ cached \in SUBSET (1..TableSize)
    BY DnsAssumption DEF Done, Entries
  <2>2. Min(cached) \in cached
    BY <1>2, <2>1, MinIn
  <2>3. d.table[Min(cached)].addr \in Answers(n)
    <3>1. d.table[Min(cached)] \in Entry /\ d.table[Min(cached)].state = "DONE"
      BY <2>2 DEF DInv, Dns, Done
    <3>2. d.table[Min(cached)].addr \in Names
      BY <3>1 DEF Entry
    <3>3. dns_compare_name(n, d.table[Min(cached)].addr)
      BY <2>2 DEF DInv, Truthful
    <3> QED
      BY <3>2, <3>3 DEF Answers
  <2>4. l \in Lookup /\ l.state = "answered" /\ l.name = n /\ l.result \in Answers(n)
    BY <2>3 DEF Lookup, Answers
  <2> HIDE DEF l
  <2> QED
    BY <1>2, <2>4, LookupKeeps
<1>3. CASE f = Refuse(d, c)
  BY <1>3, RefuseKeeps
<1>4. CASE f \in dns_enqueue(d, c, n)
  BY <1>4, EnqueueKeeps
<1> QED
  BY <1>1, <1>2, <1>3, <1>4

-----------------------------------------------------------------------------
(* A response.                                                              *)

(* The entry is completed before the callbacks are made: to them it is the  *)
(* same as after.                                                           *)
LEMMA CompletedFirst ==
    ASSUME NEW d \in Dns, NEW i \in Asking(d), NEW x \in Entry, x.state = "DONE",
           x.port = d.table[i].port, NEW result, NEW e
    PROVE  /\ WithEntry(d, i, x) \in Dns
           /\ WithEntry(d, i, x).table[i] = x
           /\ CallFound(WithEntry(d, i, x), i, result, e) = CallFound(d, i, result, e)
<1> DEFINE g == WithEntry(d, i, x)
<1>1. d.table \in [Entries -> Entry] /\ i \in Entries
  BY DEF Dns, Asking
<1>2. g = [table |-> [d.table EXCEPT ![i] = x], req |-> d.req, pcbs |-> d.pcbs, seqno |-> d.seqno,
           lookup |-> d.lookup]
  BY DnsFields, WithEntryFields
<1> HIDE DEF g
<1>3. g \in Dns
  BY <1>1, <1>2 DEF Dns
<1>4. /\ g.table = [d.table EXCEPT ![i] = x]
      /\ g.req = d.req /\ g.pcbs = d.pcbs /\ g.seqno = d.seqno /\ g.lookup = d.lookup
  BY <1>2
<1>5. \A j \in Entries : g.table[j] = IF j = i THEN x ELSE d.table[j]
  BY <1>1, <1>4
<1>6. [g.table EXCEPT ![i] = e] = [d.table EXCEPT ![i] = e]
  BY <1>1, <1>4
<1>7. Called(g, i) = Called(d, i)
  BY <1>4 DEF Called
<1>8. RequestsAfter(g, i) = RequestsAfter(d, i)
  BY <1>4, <1>7 DEF RequestsAfter
<1>9. LookupsAfter(g, i, result) = LookupsAfter(d, i, result)
  BY <1>4, <1>7 DEF LookupsAfter
<1>10. PortsAfter(g, i) = PortsAfter(d, i)
  <2>1. Asking(g) \ {i} = Asking(d) \ {i}
    BY <1>5 DEF Asking
  <2>2. g.table[i].port = d.table[i].port /\ \A j \in Asking(d) \ {i} : g.table[j] = d.table[j]
    BY <1>1, <1>5 DEF Asking
  <2> QED
    BY <1>4, <2>1, <2>2 DEF PortsAfter
<1>11. CallFound(g, i, result, e) = CallFound(d, i, result, e)
  BY <1>4, <1>6, <1>8, <1>9, <1>10 DEF CallFound
<1> QED
  BY <1>1, <1>3, <1>5, <1>11 DEF g
LEMMA CorrectResponseKeeps ==
    ASSUME NEW d, DInv(d), NEW i \in Asking(d), NEW response,
           response.name \in Names, dns_compare_name(d.table[i].name, response.name),
           response.ttl \in Int
    PROVE  DInv(dns_correct_response(d, i, response))
<1> DEFINE ttl == IF response.ttl > MaxTtl THEN MaxTtl ELSE response.ttl
           e == d.table[i]
           x == [state |-> "DONE", name |-> e.name, addr |-> response.name, ttl |-> ttl,
                 port |-> e.port, seqno |-> e.seqno]
           y == [state |-> "DONE", name |-> e.name, addr |-> response.name, ttl |-> ttl,
                 port |-> NoPort, seqno |-> e.seqno]
           g == WithEntry(d, i, x)
           after == dns_call_found(g, i, response.name)
<1>0. response.name \in Answers(d.table[i].name)
  BY DEF Answers
<1>1. d \in Dns /\ i \in Entries
  BY DEF DInv, Asking
<1>2. e \in [state : {"ASKING"}, name : Names, txid : Txids, server_idx : Int, tmr : Int,
             retries : Int, port : Ports, seqno : Int]
  BY <1>1, AskingFields DEF Entry
<1>3. ttl \in Int
  BY DnsAssumption
<1>4. dns_correct_response(d, i, response) = IF ttl = 0 THEN WithEntry(after, i, Blank) ELSE after
  BY DEF dns_correct_response, WithEntry
<1> HIDE DEF ttl
<1>5. x \in Entry /\ x.state = "DONE" /\ x.port = d.table[i].port /\ [x EXCEPT !.port = NoPort] = y
  BY <1>2, <1>3 DEF Entry
<1>6. y \in Entry /\ y.state = "DONE" /\ dns_compare_name(y.name, y.addr)
  BY <1>2, <1>3 DEF Entry
<1> HIDE DEF x, y
<1>7. g \in Dns /\ g.table[i] = x
  BY <1>1, <1>5, CompletedFirst
<1>8. \A z : CallFound(g, i, response.name, z) = CallFound(d, i, response.name, z)
  BY <1>1, <1>5, CompletedFirst
<1> HIDE DEF g
<1>9. after = CallFound(d, i, response.name, y)
  BY <1>1, <1>5, <1>7, <1>8, CallFoundFields
<1>10. WithEntry(after, i, Blank) = CallFound(d, i, response.name, Blank)
  <2>1. WithEntry(dns_call_found(g, i, response.name), i, Blank) = CallFound(g, i, response.name, Blank)
    BY <1>1, <1>7, CallFoundThen
  <2> QED
    BY <1>8, <2>1
<1> HIDE DEF after
<1>11. Blank \in Entry /\ Blank.state = "UNUSED"
  BY DEF Blank, Entry
<1>12. DInv(CallFound(d, i, response.name, y))
  BY <1>0, <1>6, CallFoundKeeps
<1>13. DInv(CallFound(d, i, response.name, Blank))
  BY <1>0, <1>11, CallFoundKeeps
<1> QED
  BY <1>4, <1>9, <1>10, <1>12, <1>13

LEMMA RecvKeeps ==
    ASSUME NEW d, DInv(d), NEW i \in Asking(d), NEW response,
           response.name \in Names, dns_compare_name(d.table[i].name, response.name),
           response.ttl \in Int
    PROVE  DInv(dns_recv(d, i, response))
<1> DEFINE g == SetTmr(SetRetries(d, i, MaxRetries - 1), i, 1)
<1>1. \/ dns_recv(d, i, response) = dns_correct_response(d, i, response)
      \/ dns_recv(d, i, response) = dns_check_entry(g, i)
      \/ dns_recv(d, i, response) = Fail(d, i)
  BY DEF dns_recv, SetTmr, SetRetries
<1>2. DInv(g) /\ i \in Entries
  <2>1. MaxRetries - 1 \in Int
    BY DnsAssumption
  <2>2. DInv(SetRetries(d, i, MaxRetries - 1)) /\ i \in Asking(SetRetries(d, i, MaxRetries - 1))
    BY <2>1, SetKeeps
  <2> QED
    BY <2>2, SetKeeps DEF Asking
<1> HIDE DEF g
<1> QED
  BY <1>1, <1>2, CorrectResponseKeeps, CheckEntryKeeps, FailKeeps

-----------------------------------------------------------------------------
LEMMA InitInv == Init => Inv
<1> SUFFICES ASSUME Init PROVE DInv(dns)
  BY DEF Inv
<1>1. /\ dns.table = [i \in Entries |-> Blank] /\ dns.req = [r \in Requests |-> Free]
      /\ dns.pcbs = {} /\ dns.seqno = 0 /\ dns.lookup = [c \in Clients |-> [state |-> "idle"]]
      /\ dns = [table |-> dns.table, req |-> dns.req, pcbs |-> dns.pcbs, seqno |-> dns.seqno,
                lookup |-> dns.lookup]
  BY DEF Init
<1>2. /\ Blank \in Entry /\ Blank.state = "UNUSED"
      /\ Free \in Request /\ ~Free.found
      /\ [state |-> "idle"] \in Lookup
  BY DEF Blank, Entry, Free, Request, Lookup
<1>3. dns \in Dns
  BY <1>1, <1>2 DEF Dns
<1>4. Asking(dns) = {} /\ Done(dns) = {}
  BY <1>1, <1>2 DEF Asking, Done
<1>5. RequestsHeld(dns) /\ OneRequest(dns)
  BY <1>1, <1>2 DEF RequestsHeld, OneRequest
<1>6. Truthful(dns)
  BY <1>1, <1>4 DEF Truthful
<1>7. PortsOpen(dns)
  BY <1>1, <1>4 DEF PortsOpen
<1> QED
  BY <1>3, <1>5, <1>6, <1>7 DEF DInv

LEMMA NextInv == Inv /\ [Next]_vars => Inv'
<1> SUFFICES ASSUME DInv(dns), [Next]_vars PROVE DInv(dns')
  BY DEF Inv, DInv, Dns, RequestsHeld, OneRequest, Truthful, PortsOpen, Asking, Done
<1>1. ASSUME NEW c \in Clients, NEW n \in Names, Resolve(c, n)
      PROVE  DInv(dns')
  BY <1>1, GetHostByNameKeeps DEF Resolve
<1>2. CASE Tick
  BY <1>2, CheckEntriesKeeps DEF Tick
<1>3. CASE Response
  <2>0. PICK t \in Txids, f \in Servers, n \in Names, k \in {"address", "error", "none"},
             ttl \in 0..(MaxTtl + 1) :
                \E i \in Matches(dns, [txid |-> t, from |-> f, name |-> n, kind |-> k, ttl |-> ttl]) :
                   dns' = dns_recv(dns, i, [txid |-> t, from |-> f, name |-> n, kind |-> k, ttl |-> ttl])
    BY <1>3 DEF Response
  <2> DEFINE response == [txid |-> t, from |-> f, name |-> n, kind |-> k, ttl |-> ttl]
  <2>1. PICK i \in Matches(dns, response) : dns' = dns_recv(dns, i, response)
    BY <2>0
  <2>2. response.name = n /\ response.ttl \in Int
    BY DnsAssumption
  <2>3. i \in Matches(dns, response) /\ dns' = dns_recv(dns, i, response)
    BY <2>1
  <2> HIDE DEF response
  <2>4. i \in Asking(dns) /\ dns_compare_name(dns.table[i].name, response.name)
    BY <2>3 DEF Matches
  <2> QED
    BY <2>2, <2>3, <2>4, RecvKeeps
<1>4. CASE sdns \/ cdns \/ UNCHANGED vars
  BY <1>4 DEF sdns, cdns, vars
<1> QED
  BY <1>1, <1>2, <1>3, <1>4, SMTT(20) DEF Next

\* The invariant of the tables of dns.c, whatever their sizes, the callers, the
\* servers and the responses are: the request entries in use are those of the
\* waiting callers, each for an outstanding query with its caller's name; a
\* completed entry holds the answer to a question that dns_compare_name() takes
\* for its name; the open ports are those of the outstanding queries.
THEOREM DnsInvariance == Spec => []Inv
<1>1. Init => Inv
  BY InitInv
<1>2. Inv /\ [Next]_vars => Inv'
  BY NextInv
<1> QED
  BY <1>1, <1>2, PTL DEF Spec

\* dns_done() of main.c is called at most once for a lookup, and a slot that
\* waits has exactly one request, with an outstanding query for its name: the
\* timer, responses, full tables and the loss of the servers included.
THEOREM DnsCalledOnce == Spec => []CalledOnce
<1>1. Inv => CalledOnce
  <2> SUFFICES ASSUME DInv(dns), NEW c \in Clients
               PROVE  LET mine == {r \in Requests : dns.req[r].found /\ dns.req[r].arg = c}
                      IN  /\ dns.lookup[c].state # "twice"
                          /\ dns.lookup[c].state # "waiting" => mine = {}
                          /\ dns.lookup[c].state = "waiting" =>
                                /\ Cardinality(mine) = 1
                                /\ \A r \in mine :
                                      /\ dns.req[r].idx \in Asking(dns)
                                      /\ dns.table[dns.req[r].idx].name = dns.lookup[c].name
    BY DEF Inv, CalledOnce
  <2> DEFINE mine == {r \in Requests : dns.req[r].found /\ dns.req[r].arg = c}
  <2>1. dns.lookup[c].state # "twice"
    BY DEF DInv, Truthful
  <2>2. \A r \in mine : /\ dns.lookup[c].state = "waiting"
                        /\ dns.req[r].idx \in Asking(dns)
                        /\ dns.table[dns.req[r].idx].name = dns.lookup[c].name
    BY DEF DInv, RequestsHeld
  <2>3. ASSUME dns.lookup[c].state = "waiting"
        PROVE  Cardinality(mine) = 1
    <3>1. PICK r \in Requests : dns.req[r].found /\ dns.req[r].arg = c
      BY <2>3 DEF DInv, OneRequest
    <3>2. mine = {r}
      BY <3>1 DEF DInv, OneRequest
    <3> QED
      BY <3>2, FS_Singleton
  <2> QED
    BY <2>1, <2>2, <2>3
<1> QED
  BY <1>1, DnsInvariance, PTL

\* A slot is given, by the callback or from the table, a failure or the answer to
\* a question that dns_compare_name() takes for the name it asked for, whatever
\* responses come late or twice and however entries and ids are used again.
THEOREM DnsRightAnswer == Spec => []RightAnswer
<1>1. Inv => RightAnswer
  BY DEF Inv, DInv, Truthful, RightAnswer, Answers
<1> QED
  BY <1>1, DnsInvariance, PTL

\* dns_call_found() closes a port when its last query is over and not before,
\* though queries share ports once udp pcbs run out.
THEOREM DnsPortsInUse == Spec => []PortsInUse
<1>1. Inv => PortsInUse
  BY DEF Inv, DInv, PortsOpen, PortsInUse
<1> QED
  BY <1>1, DnsInvariance, PTL
====
