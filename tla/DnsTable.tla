------------------------------ MODULE DnsTable ------------------------------
(***************************************************************************)
(* The DNS client of lwIP (src/lwip/src/core/dns.c) in the configuration   *)
(* of src/proxy-engine/lwipopts.h: IPv4 only, no mDNS, and the default     *)
(* LWIP_DNS_SECURE, so that a name has at most one query outstanding,      *)
(* callers of one name share it, and every query has a source port of its  *)
(* own while udp pcbs last.                                                *)
(*                                                                         *)
(* start_connection() of main.c calls dns_gethostbyname() and, on          *)
(* ERR_INPROGRESS, leaves its slot resolving until dns_done() is called:   *)
(* module Connections takes for granted that the call comes once, and this *)
(* module is where that is checked.  A client is one slot of the           *)
(* connection table.                                                       *)
(*                                                                         *)
(* A name is its text, a sequence of symbols in which "." separates the    *)
(* labels; letters that differ in case only are one symbol.  An answer is  *)
(* modelled by the name in its question.  Nothing is assumed of the        *)
(* network: any response, to any query ever made or to none, may arrive at *)
(* any time, any number of times, or never.                                *)
(***************************************************************************)
EXTENDS Integers, Sequences, FiniteSets, FiniteSetsExt

CONSTANTS
    Clients,        \* the callers: slots of main.c's connections[]
    Names,          \* host names, in lookups and in questions: texts
    Servers,        \* addresses of DNS servers
    AnyAddress,     \* IP_ADDR_ANY: no server configured
    Txids,          \* transaction ids
    TableSize,      \* DNS_TABLE_SIZE (16 in lwipopts.h)
    MaxRequests,    \* DNS_MAX_REQUESTS, and DNS_MAX_SOURCE_PORTS
    MaxServers,     \* DNS_MAX_SERVERS (2 in lwipopts.h)
    MaxRetries,     \* DNS_MAX_RETRIES (4)
    MaxTtl,         \* DNS_MAX_TTL
    SeqModulus      \* dns_seqno is a u8_t: 256

ASSUME DnsAssumption ==
    /\ \A n \in {TableSize, MaxRequests, MaxServers, MaxRetries, MaxTtl, SeqModulus} :
          n \in Nat \ {0}
    /\ MaxRequests = TableSize
    /\ AnyAddress \notin Servers
    /\ Cardinality(Txids) >= TableSize

VARIABLES
    dns,            \* the static variables of dns.c, and what its callers know
    servers         \* dns_servers[]

vars == <<dns, servers>>

Entries == 1..TableSize
Requests == 1..MaxRequests
Ports == 1..MaxRequests
NoPort == 0
Failed == <<>>    \* dns_done() with no address

Blank == [state |-> "UNUSED"]
Free == [found |-> FALSE]
Asking(d) == {i \in Entries : d.table[i].state = "ASKING"}
Done(d) == {i \in Entries : d.table[i].state = "DONE"}
FreeRequests(d) == {r \in Requests : ~d.req[r].found}

-----------------------------------------------------------------------------
(* The callback, and what the caller makes of it                           *)

\* dns_done() of main.c, for a slot that is resolving; a second call, or one
\* that nobody waits for, is recorded as such.
dns_done(lookup, result) ==
    [state |-> IF lookup.state = "waiting" THEN "answered" ELSE "twice",
     name |-> lookup.name, result |-> result]

\* dns_call_found() without the search for another user of the port
dns_call_found_closes(d, i, result) ==
    LET called == {r \in Requests : d.req[r].found /\ d.req[r].idx = i}
    IN  [d EXCEPT
            !.req = [r \in Requests |-> IF r \in called THEN Free ELSE @[r]],
            !.lookup = [c \in Clients |->
                          IF \E r \in called : d.req[r].arg = c
                          THEN dns_done(@[c], result) ELSE @[c]],
            !.pcbs = @ \ {d.table[i].port},
            !.table[i].port = NoPort]

\* Every request attached to the entry is called and freed; then the port is
\* closed unless the query of another entry uses it.
dns_call_found(d, i, result) ==
    LET called == {r \in Requests : d.req[r].found /\ d.req[r].idx = i}
        port   == d.table[i].port
        shared == \E j \in Asking(d) \ {i} : d.table[j].port = port
    IN  [d EXCEPT
            !.req = [r \in Requests |-> IF r \in called THEN Free ELSE @[r]],
            !.lookup = [c \in Clients |->
                          IF \E r \in called : d.req[r].arg = c
                          THEN dns_done(@[c], result) ELSE @[c]],
            !.pcbs = IF shared THEN @ ELSE @ \ {port},
            !.table[i].port = NoPort]

\* The end of an entry that fails: the callbacks, then DNS_STATE_UNUSED.
Fail(d, i) == [dns_call_found(d, i, Failed) EXCEPT !.table[i] = Blank]

-----------------------------------------------------------------------------
(* Queries, retries and time to live                                       *)

\* A query whose server is gone, as after the link went down, is given up.
\* Otherwise the packet leaves or is lost, which is the same to the table.
dns_send(d, i) ==
    IF servers[d.table[i].server_idx] = AnyAddress THEN Fail(d, i) ELSE d

dns_backupserver_available(entry) ==
    /\ entry.server_idx + 1 < MaxServers
    /\ servers[entry.server_idx + 1] # AnyAddress

\* Retry() that starts over at the first server
Retry_wraps(d, i) ==
    LET e == d.table[i]
    IN  CASE e.tmr > 1 -> [d EXCEPT !.table[i].tmr = @ - 1]
          [] e.tmr = 1 /\ e.retries + 1 < MaxRetries ->
                dns_send([d EXCEPT !.table[i].retries = @ + 1,
                                   !.table[i].tmr = e.retries + 1], i)
          [] OTHER ->
                dns_send([d EXCEPT !.table[i].server_idx = (@ + 1) % MaxServers,
                                   !.table[i].tmr = 1, !.table[i].retries = 0], i)

\* dns_check_entry() of an entry in DNS_STATE_ASKING.
Retry(d, i) ==
    LET e == d.table[i]
    IN  CASE e.tmr > 1 -> [d EXCEPT !.table[i].tmr = @ - 1]
          [] e.tmr = 1 /\ e.retries + 1 < MaxRetries ->
                dns_send([d EXCEPT !.table[i].retries = @ + 1,
                                   !.table[i].tmr = e.retries + 1], i)
          [] e.tmr = 1 /\ e.retries + 1 = MaxRetries /\ dns_backupserver_available(e) ->
                dns_send([d EXCEPT !.table[i].server_idx = @ + 1,
                                   !.table[i].tmr = 1, !.table[i].retries = 0], i)
          [] OTHER -> Fail(d, i)

\* dns_check_entry(): the timer's work on one entry.
dns_check_entry(d, i) ==
    CASE d.table[i].state = "ASKING" -> Retry(d, i)
      [] d.table[i].state = "DONE" /\ d.table[i].ttl > 1 ->
            [d EXCEPT !.table[i].ttl = @ - 1]
      [] d.table[i].state = "DONE" /\ d.table[i].ttl <= 1 ->
            [d EXCEPT !.table[i] = Blank]
      [] d.table[i].state = "UNUSED" -> d

\* dns_check_entries(): every entry in turn, each on the table the one before
\* has left (computed once, as the set of one element that before ranges over).
dns_check_entries(d) ==
    LET after[n \in 0..TableSize] ==
            IF n = 0 THEN d
            ELSE CHOOSE e \in {dns_check_entry(before, n) : before \in {after[n - 1]}} : TRUE
    IN  after[TableSize]

-----------------------------------------------------------------------------
(* A new lookup                                                            *)

\* Client c waits in request entry r for table entry i.
Attach(d, c, n, r, i) ==
    [d EXCEPT !.req[r] = [found |-> TRUE, arg |-> c, idx |-> i],
              !.lookup[c] = [state |-> "waiting", name |-> n]]

\* ERR_MEM or ERR_VAL: the slot is closed, and free for another connection.
Refuse(d, c) == [d EXCEPT !.lookup[c] = [state |-> "idle"]]

\* dns_alloc_pcb(): a new port, when there is a free place and the udp pcb can
\* be made; any of the existing ones otherwise; none when there is none.
dns_alloc_pcb(d) ==
    LET unused == Ports \ d.pcbs
        old    == IF d.pcbs = {} THEN {NoPort} ELSE d.pcbs
    IN  IF unused = {} THEN old ELSE {Min(unused)} \cup old

\* dns_create_txid(): an id no outstanding query has.
dns_create_txid(d) == Txids \ {d.table[i].txid : i \in Asking(d)}

Age(d, i) == (d.seqno - d.table[i].seqno) % SeqModulus

\* Candidates() that takes the oldest entry whether or not it is completed
Candidates_pending(d) ==
    LET unused == {i \in Entries : d.table[i].state = "UNUSED"}
    IN  IF unused # {} THEN {Min(unused)} ELSE Entries

\* The entry a new name gets: the first unused one, or the oldest completed
\* one, where an entry whose age is zero (modulo 256) is passed over.
Candidates(d) ==
    LET unused == {i \in Entries : d.table[i].state = "UNUSED"}
        aged   == {i \in Done(d) : Age(d, i) > 0}
        oldest == {i \in aged : \A j \in aged :
                        Age(d, j) < Age(d, i) \/ (Age(d, j) = Age(d, i) /\ i <= j)}
    IN  IF unused # {} THEN {Min(unused)} ELSE oldest

\* The entry is filled, on port p and with transaction id t, and asks the first
\* server: dns_check_entry() in DNS_STATE_NEW.
Ask(d, c, n, r, i, p, t) ==
    dns_send([Attach(d, c, n, r, i) EXCEPT
                !.seqno = (@ + 1) % SeqModulus,
                !.pcbs = @ \cup {p},
                !.table[i] = [state |-> "ASKING", name |-> n, txid |-> t, server_idx |-> 0,
                              tmr |-> 1, retries |-> 0, port |-> p, seqno |-> d.seqno]], i)

\* dns_enqueue() once a table entry i and a request entry r were found: with a
\* port the entry asks; without one it is left unused.
Start(d, c, n, r, i) ==
    {Refuse([d EXCEPT !.table[i] = Blank], c) : p \in dns_alloc_pcb(d) \cap {NoPort}}
    \cup {Ask(d, c, n, r, i, p, t) : p \in dns_alloc_pcb(d) \ {NoPort}, t \in dns_create_txid(d)}

\* dns_enqueue(): share the query that is out for this name; else a new one.
dns_enqueue(d, c, n) ==
    LET same == {i \in Asking(d) : d.table[i].name = n}
    IN  CASE FreeRequests(d) = {} \/ (same = {} /\ Candidates(d) = {}) -> {Refuse(d, c)}
          [] FreeRequests(d) # {} /\ same # {} ->
                {Attach(d, c, n, Min(FreeRequests(d)), Min(same))}
          [] OTHER ->
                UNION {Start(d, c, n, Min(FreeRequests(d)), i) : i \in Candidates(d)}

\* dns_gethostbyname(): a completed entry answers at once (ERR_OK); without a
\* first server the call fails (ERR_VAL).
dns_gethostbyname(d, c, n) ==
    LET cached == {i \in Done(d) : d.table[i].name = n}
    IN  CASE cached # {} ->
                {[d EXCEPT !.lookup[c] =
                    [state |-> "answered", name |-> n, result |-> d.table[Min(cached)].addr]]}
          [] cached = {} /\ servers[0] = AnyAddress -> {Refuse(d, c)}
          [] OTHER -> dns_enqueue(d, c, n)

-----------------------------------------------------------------------------
(* Responses                                                               *)

\* dns_compare_name(): the question's labels are compared with the text of the
\* entry's name, symbol by symbol, up to the root label.  The symbol of the name
\* where a label ends is skipped whatever it is, and nothing asks whether the
\* name ends where the question does.  A question with a label after the end of
\* the name is compared with what an earlier name left in entry->name, which
\* may or may not agree.  (The question of no labels fails the test of its type.)
dns_compare_name(query, question) ==
    /\ question # <<>>
    /\ \A k \in DOMAIN question :
          \/ question[k] = "."
          \/ k \in DOMAIN query /\ question[k] = query[k]
          \/ k > Len(query) + 1

\* Matches() without dns_compare_name()
Matches_unnamed(d, response) ==
    {i \in Asking(d) : /\ d.table[i].txid = response.txid
                       /\ servers[d.table[i].server_idx] = response.from}

\* The entries dns_recv() matches with a response: the transaction id, the
\* address it was sent from, and the name in its question.
Matches(d, response) ==
    {i \in Asking(d) : /\ d.table[i].txid = response.txid
                       /\ servers[d.table[i].server_idx] = response.from
                       /\ dns_compare_name(d.table[i].name, response.name)}

\* dns_correct_response(): completed, called, and kept while the answer lives.
dns_correct_response(d, i, response) ==
    LET ttl   == IF response.ttl > MaxTtl THEN MaxTtl ELSE response.ttl
        e     == d.table[i]
        after == dns_call_found([d EXCEPT !.table[i] =
                    [state |-> "DONE", name |-> e.name, addr |-> response.name,
                     ttl |-> ttl, port |-> e.port, seqno |-> e.seqno]], i, response.name)
    IN  IF ttl = 0 THEN [after EXCEPT !.table[i] = Blank] ELSE after

\* dns_recv() for the entry it matched: an error moves on to the backup server,
\* if there is one, as if the last retry had timed out.
dns_recv(d, i, response) ==
    CASE response.kind = "address" -> dns_correct_response(d, i, response)
      [] response.kind = "error" /\ dns_backupserver_available(d.table[i]) ->
            dns_check_entry([d EXCEPT !.table[i].retries = MaxRetries - 1,
                                      !.table[i].tmr = 1], i)
      [] OTHER -> Fail(d, i)

-----------------------------------------------------------------------------
Init ==
    /\ dns = [table |-> [i \in Entries |-> Blank], req |-> [r \in Requests |-> Free],
              pcbs |-> {}, seqno |-> 0, lookup |-> [c \in Clients |-> [state |-> "idle"]]]
    /\ servers = [s \in 0..(MaxServers - 1) |-> AnyAddress]

\* start_connection() of a slot that is not resolving.
Resolve(c, n) ==
    /\ dns.lookup[c].state # "waiting"
    /\ dns' \in dns_gethostbyname(dns, c, n)
    /\ UNCHANGED servers

\* dns_tmr(), once a second.
Tick ==
    /\ dns' = dns_check_entries(dns)
    /\ UNCHANGED servers

\* A response comes; every outstanding query has its own id, so that it is for
\* one entry at most.
Response ==
    /\ \E t \in Txids, f \in Servers, n \in Names, k \in {"address", "error", "none"},
          ttl \in 0..(MaxTtl + 1) :
          LET response == [txid |-> t, from |-> f, name |-> n, kind |-> k, ttl |-> ttl]
          IN  \E i \in Matches(dns, response) : dns' = dns_recv(dns, i, response)
    /\ UNCHANGED servers

\* IPCP is up: sdns() sets both servers to what the peer told, if it told any.
sdns ==
    /\ \E told \in [0..(MaxServers - 1) -> Servers \cup {AnyAddress}] :
          /\ \E s \in DOMAIN told : told[s] # AnyAddress
          /\ servers' = told
    /\ UNCHANGED dns

\* IPCP is down: cdns() clears them.
cdns ==
    /\ servers' = [s \in DOMAIN servers |-> AnyAddress]
    /\ UNCHANGED dns

Next ==
    \/ \E c \in Clients, n \in Names : Resolve(c, n)
    \/ Tick
    \/ Response
    \/ sdns
    \/ cdns

Spec == Init /\ [][Next]_vars

\* sys_check_timeouts() runs dns_tmr() for ever: main()'s select() wakes up
\* at least every 100 ms.
FairSpec == Spec /\ WF_vars(Tick)

-----------------------------------------------------------------------------
(* Properties                                                              *)

\* The contract dns_done() of main.c relies on: no slot is called twice for one
\* lookup, and a slot that waits has exactly one request entry, attached to an
\* outstanding query for the very name it asked for, so that the callback of
\* that query is its own.  Table entries are reused for other names while
\* request entries still hold indices into the table.
CalledOnce ==
    \A c \in Clients :
        LET mine == {r \in Requests : dns.req[r].found /\ dns.req[r].arg = c}
        IN  /\ dns.lookup[c].state # "twice"
            /\ dns.lookup[c].state # "waiting" => mine = {}
            /\ dns.lookup[c].state = "waiting" =>
                  /\ Cardinality(mine) = 1
                  /\ \A r \in mine :
                        /\ dns.req[r].idx \in Asking(dns)
                        /\ dns.table[dns.req[r].idx].name = dns.lookup[c].name

\* What a slot is given, by dns_done() or from the table, late and duplicated
\* responses included, is a failure or the answer to a question that
\* dns_compare_name() takes for the name this slot asked for: entries and
\* transaction ids are used again, and no other lookup's answer comes through.
\* (Not always the very name: README, section 5.)
RightAnswer ==
    \A c \in Clients :
        dns.lookup[c].state = "answered" =>
            \/ dns.lookup[c].result = Failed
            \/ dns_compare_name(dns.lookup[c].name, dns.lookup[c].result)

\* Every outstanding query has an open port to be answered on, though queries
\* share ports when udp pcbs run out and dns_call_found() closes them; and a
\* port nobody uses is closed, so that udp pcbs are not lost.
PortsInUse ==
    dns.pcbs = {dns.table[i].port : i \in Asking(dns)}

\* Every lookup that was answered ERR_INPROGRESS gets its callback, whatever
\* the servers and the link do: a slot does not stay resolving, and is not lost
\* to the connection table, for ever.
LookupEnds ==
    \A c \in Clients : []<>(dns.lookup[c].state # "waiting")

\* "no entry can be used now, table is full" (dns.c:1460): a lookup is refused
\* for want of an entry only when every entry has a query outstanding.  The code
\* does not keep this (README, section 5): ages are taken modulo 256.
FullMeansPending ==
    Candidates(dns) = {} => Asking(dns) = Entries
=============================================================================
