---------------------------- MODULE Connections ----------------------------
(***************************************************************************)
(* The connection table of proxy-engine/main.c: the slots connections[],   *)
(* the lwIP protocol control blocks (pcbs) and DNS requests they own, the  *)
(* client descriptors and the flag link_up.  Every handler of main.c that  *)
(* touches a slot is one action, and any handler may run after any other:  *)
(* the order in which the select loop really calls them is in EventLoop.   *)
(*                                                                         *)
(* Bytes are counted, not named.  What a client's bytes parse to is a      *)
(* choice among the verdicts the parsers can return; the traffic counters  *)
(* that only STATUS reports and the log are left out.                      *)
(***************************************************************************)
EXTENDS Integers, FiniteSets

CONSTANTS
    MaxConnections, \* MAX_CONNECTIONS: length of connections[]
    Pcbs,           \* lwIP's pool of TCP pcbs (MEMP_NUM_TCP_PCB of them)
    Fds,            \* descriptor numbers accept() can return
    Names,          \* target hosts that need the VPN's DNS
    Literals,       \* target hosts written as an IPv4 address
    BufferSize,     \* BUFFER_SIZE: capacity of to_remote and of to_local
    MaxHeader,      \* MAX_HEADER: capacity of header
    ReadSize,       \* most bytes one read() of a client takes (8192)
    Segment,        \* TCP_MSS: most bytes flush_remote hands to tcp_write
    Window,         \* TCP_WND: most bytes lwIP delivers in one callback
    ReplySize,      \* size of a proxy's own reply to its client
    DnsRequests,    \* requests lwIP's DNS table can hold
    NULL            \* no pcb, no slot, no host

Slots == 1..MaxConnections
Hosts == Names \cup Literals
NoFd == -1

ASSUME MaxConnectionsAssumption == MaxConnections \in Nat \ {0}
ASSUME FdsAssumption == Fds \subseteq Nat
ASSUME NullAssumption == NULL \notin Pcbs \cup Slots \cup Hosts
ASSUME SizesAssumption ==
    /\ BufferSize \in Nat /\ MaxHeader \in Nat /\ ReadSize \in Nat \ {0}
    /\ Segment \in Nat \ {0} /\ Window \in Nat \ {0} /\ ReplySize \in Nat \ {0} /\ DnsRequests \in Nat
    /\ ReadSize < BufferSize
    /\ MaxHeader < BufferSize
    /\ 2 * ReplySize <= BufferSize

VARIABLES
    connections,    \* the array of struct connection
    pcbs,           \* what lwIP holds for each pcb
    dns,            \* dns_gethostbyname calls whose dns_done is still to come
    open,           \* client descriptors open in the process
    link_up         \* PPP and MPPE are up in both directions

vars == <<connections, pcbs, dns, open, link_up>>

Kinds == {"HTTP_PROXY", "SOCKS_PROXY", "FORWARD"}
HeaderPhases == {"PROXY_HEADER", "SOCKS_GREETING", "SOCKS_REQUEST"}
TargetPhases == {"RESOLVING", "CONNECTING", "STREAMING"}
Phases == HeaderPhases \cup TargetPhases \cup {"CONNECTION_CLOSED"}

Connection ==
    [fd : Fds \cup {NoFd}, kind : Kinds, phase : Phases, tcp : Pcbs \cup {NULL},
     resolving : BOOLEAN, remote_closed : BOOLEAN, http_connect : BOOLEAN,
     host : Hosts \cup {NULL}, header_len : 0..MaxHeader,
     remote_len : 0..BufferSize, local_len : 0..BufferSize]

(* A pcb that is closing has been handed to tcp_close: lwIP finishes it on  *)
(* its own, with every callback removed.                                    *)
Pcb == [state : {"free", "connecting", "established", "closing"},
        arg : Slots \cup {NULL}, remote : Hosts \cup {NULL}]

FreePcb == [state |-> "free", arg |-> NULL, remote |-> NULL]

(* memset(c, 0, sizeof *c), then fd; the listener's kind is the zero value. *)
EmptyConnection(fd) ==
    [fd |-> fd, kind |-> "HTTP_PROXY", phase |-> "PROXY_HEADER", tcp |-> NULL,
     resolving |-> FALSE, remote_closed |-> FALSE, http_connect |-> FALSE,
     host |-> NULL, header_len |-> 0, remote_len |-> 0, local_len |-> 0]

Init ==
    /\ connections = [i \in Slots |-> EmptyConnection(NoFd)]
    /\ pcbs = [p \in Pcbs |-> FreePcb]
    /\ dns = {}
    /\ open = {}
    /\ link_up = FALSE

-----------------------------------------------------------------------------
(* Parts of handlers.  c is the slot's record as the handler has it so far, *)
(* o the descriptors open so far.                                           *)

(* What close_connection leaves in the slot; resolving is not touched.      *)
Closed(c) ==
    [c EXCEPT !.fd = NoFd, !.tcp = NULL, !.phase = "CONNECTION_CLOSED",
              !.remote_len = 0, !.local_len = 0, !.header_len = 0]

(* tcp_abort after the callbacks are removed: the pcb is lwIP's again.      *)
Abort(p) == IF p = NULL THEN pcbs ELSE [pcbs EXCEPT ![p] = FreePcb]

(* Fault: close() is forgotten.                                             *)
close_connection_leaks(i, c, o) ==
    /\ connections' = [connections EXCEPT ![i] = Closed(c)]
    /\ pcbs' = Abort(c.tcp)
    /\ open' = o

close_connection(i, c, o) ==
    /\ connections' = [connections EXCEPT ![i] = Closed(c)]
    /\ pcbs' = Abort(c.tcp)
    /\ open' = o \ {c.fd}

(* tcp_alloc: a free pcb, else one that only waits for its close to finish, *)
(* unless that one could not send its FIN yet.                              *)
FreePcbs == {p \in Pcbs : pcbs[p].state = "free"}
Allocatable ==
    IF FreePcbs # {} THEN FreePcbs ELSE {p \in Pcbs : pcbs[p].state = "closing"}

(* Fault: a slot that was closed in the meantime is connected all the same. *)
connect_ip_unchecked(i, c, host, o) ==
    \E p \in Allocatable :
       /\ connections' = [connections EXCEPT ![i] =
              [c EXCEPT !.resolving = FALSE, !.tcp = p, !.phase = "CONNECTING"]]
       /\ pcbs' = [pcbs EXCEPT ![p] = [state |-> "connecting", arg |-> i, remote |-> host]]
       /\ open' = o

connect_ip(i, c, host, o) ==
    LET r == [c EXCEPT !.resolving = FALSE] IN
    \/ /\ r.phase = "CONNECTION_CLOSED" \/ r.fd = NoFd
       /\ connections' = [connections EXCEPT ![i] = r]
       /\ open' = o
       /\ pcbs' = pcbs
    \/ /\ r.phase # "CONNECTION_CLOSED" /\ r.fd # NoFd
       /\ \/ /\ FreePcbs = {}                                \* tcp_new failed
             /\ close_connection(i, r, o)
          \/ \E p \in Allocatable :
                \/ /\ connections' = [connections EXCEPT ![i] =
                                  [r EXCEPT !.tcp = p, !.phase = "CONNECTING"]]
                   /\ pcbs' = [pcbs EXCEPT ![p] = [state |-> "connecting",
                                                   arg |-> i, remote |-> host]]
                   /\ open' = o
                \/ close_connection(i, [r EXCEPT !.tcp = p], o)  \* tcp_connect failed

start_connection(i, c, o) ==
    \/ /\ ~link_up
       /\ close_connection(i, c, o)
       /\ dns' = dns
    \/ /\ link_up
       /\ c.host \in Literals
       /\ connect_ip(i, c, c.host, o)
       /\ dns' = dns
    \/ /\ link_up
       /\ c.host \in Names
       /\ LET r == [c EXCEPT !.phase = "RESOLVING", !.resolving = TRUE] IN
          \/ connect_ip(i, r, r.host, o) /\ dns' = dns              \* ERR_OK: cached
          \/ /\ Cardinality(dns) < DnsRequests                      \* ERR_INPROGRESS
             /\ connections' = [connections EXCEPT ![i] = r]
             /\ dns' = dns \cup {[slot |-> i, name |-> r.host]}
             /\ open' = o
             /\ pcbs' = pcbs
          \/ /\ close_connection(i, [r EXCEPT !.resolving = FALSE], o)
             /\ dns' = dns

(* flush_remote hands lwIP up to a segment of to_remote; how much the send  *)
(* buffer has room for, and whether tcp_write succeeds, is lwIP's affair.   *)
flush_remote(c) ==
    IF c.tcp = NULL \/ c.phase # "STREAMING" THEN {c}
    ELSE {[c EXCEPT !.remote_len = c.remote_len - k] :
             k \in {n \in 0..Segment : n <= c.remote_len}}

keep(i, c) ==
    /\ connections' = [connections EXCEPT ![i] = c]
    /\ UNCHANGED <<pcbs, dns, open>>

drop(i, c) == close_connection(i, c, open) /\ UNCHANGED dns

(* The request names host h; e bytes follow it and are already the target's. *)
parse_socks_request(i, c) ==
    \/ keep(i, c)                                        \* incomplete
    \/ drop(i, c)                                        \* malformed
    \/ \E h \in Hosts, e \in 0..(c.header_len - 1) :
          start_connection(i, [c EXCEPT !.host = h, !.remote_len = e,
                                        !.header_len = 0], open)

(* A complete HTTP header: CONNECT (b) or a plain request, which is copied  *)
(* to to_remote with a first line that is always shorter than the client's. *)
parse_http(i, c) ==
    \/ drop(i, c)                                        \* malformed
    \/ \E h \in Hosts, b \in BOOLEAN, e \in 0..(c.header_len - 1) :
          start_connection(i, [c EXCEPT !.host = h, !.http_connect = b,
                                        !.remote_len = e], open)

(* feed_local with n bytes, and close_connection when it returns false.     *)
feed_local(i, n) ==
    LET c == connections[i]
        h == [c EXCEPT !.header_len = c.header_len + n]
    IN
    \/ /\ c.phase \in TargetPhases
       /\ IF n <= BufferSize - c.remote_len
            THEN keep(i, [c EXCEPT !.remote_len = c.remote_len + n])
            ELSE drop(i, c)
    \/ /\ c.phase \notin TargetPhases
       /\ c.header_len + n >= MaxHeader
       /\ drop(i, c)
    \/ /\ c.phase \notin TargetPhases
       /\ c.header_len + n < MaxHeader
       /\ \/ keep(i, h)                                  \* incomplete
          \/ /\ c.phase = "PROXY_HEADER"
             /\ parse_http(i, h)
          \/ /\ c.phase = "SOCKS_REQUEST"
             /\ parse_socks_request(i, h)
          \/ /\ c.phase = "SOCKS_GREETING"
             /\ \/ drop(i, h)                            \* no common method
                \/ /\ c.local_len + ReplySize <= BufferSize
                   /\ \E e \in 0..(c.header_len + n - 1) :
                         parse_socks_request(i,
                            [h EXCEPT !.phase = "SOCKS_REQUEST", !.header_len = e,
                                      !.local_len = c.local_len + ReplySize])

-----------------------------------------------------------------------------
(* The handlers.                                                            *)

(* Fault: a slot is free as soon as its client has gone.                    *)
FreeSlots_by_fd == {i \in Slots : connections[i].fd = NoFd}

(* accept_client, for one client of a listener of the given kind (and, for  *)
(* a FORWARD listener, remote host): it gets the first slot that has no     *)
(* descriptor and no DNS answer to come, or is turned away.                 *)
FreeSlots == {i \in Slots : connections[i].fd = NoFd /\ ~connections[i].resolving}

accept_client(fd, kind, host) ==
    /\ fd \notin open
    /\ \E i \in FreeSlots :
          LET c == [EmptyConnection(fd) EXCEPT !.kind = kind,
                      !.phase = IF kind = "SOCKS_PROXY" THEN "SOCKS_GREETING"
                                                        ELSE "PROXY_HEADER"]
          IN /\ \A k \in FreeSlots : i <= k
             /\ IF kind = "FORWARD"
                  THEN start_connection(i, [c EXCEPT !.host = host], open \cup {fd})
                  ELSE /\ connections' = [connections EXCEPT ![i] = c]
                       /\ open' = open \cup {fd}
                       /\ UNCHANGED <<pcbs, dns>>
    /\ UNCHANGED link_up

(* The loop's read() of a client: data, or end of file or a hard error.     *)
read_client(i) ==
    /\ connections[i].fd # NoFd
    /\ \/ \E n \in 1..ReadSize : feed_local(i, n)
       \/ drop(i, connections[i])
    /\ UNCHANGED link_up

(* flush_local: the kernel takes w bytes of to_local, or the write fails.   *)
flush_local(i) ==
    LET c == connections[i] IN
    /\ c.fd # NoFd
    /\ c.local_len > 0
    /\ \/ \E w \in 1..c.local_len :
             LET r == [c EXCEPT !.local_len = c.local_len - w] IN
             IF c.remote_closed /\ r.local_len = 0 THEN drop(i, r) ELSE keep(i, r)
       \/ drop(i, c)
    /\ UNCHANGED link_up

(* Fault: a name that is not found leaves the slot marked resolving.        *)
dns_done_keeps_resolving(d, found) ==
    LET c == connections[d.slot] IN
    /\ dns' = dns \ {d}
    /\ IF found
         THEN connect_ip(d.slot, c, d.name, open)
         ELSE close_connection(d.slot, c, open)
    /\ UNCHANGED link_up

(* dns_done with an address (found) or without; lwIP calls it once per      *)
(* request, when the answer comes or when it has given up.                  *)
dns_done(d, found) ==
    LET c == connections[d.slot] IN
    /\ dns' = dns \ {d}
    /\ IF found
         THEN connect_ip(d.slot, c, d.name, open)
         ELSE close_connection(d.slot, [c EXCEPT !.resolving = FALSE], open)
    /\ UNCHANGED link_up

(* on_tcp_connected: a CONNECT or SOCKS client gets its reply, then what it *)
(* has already sent starts to flow.                                         *)
on_tcp_connected(p) ==
    LET i == pcbs[p].arg
        c == [connections[i] EXCEPT !.phase = "STREAMING"]
        reply == IF c.kind = "SOCKS_PROXY" \/ (c.kind = "HTTP_PROXY" /\ c.http_connect)
                   THEN ReplySize ELSE 0
    IN
    /\ pcbs[p].state = "connecting"
    /\ IF c.local_len + reply > BufferSize
         THEN drop(i, c)
         ELSE \E r \in flush_remote([c EXCEPT !.local_len = c.local_len + reply]) :
                 /\ connections' = [connections EXCEPT ![i] = r]
                 /\ pcbs' = [pcbs EXCEPT ![p].state = "established"]
                 /\ UNCHANGED <<dns, open>>
    /\ UNCHANGED link_up

(* flush_remote, from on_tcp_sent, on_tcp_poll and each pass of the loop.   *)
flush(i) ==
    /\ connections[i].remote_len > 0
    /\ \E r \in flush_remote(connections[i]) : keep(i, r)
    /\ UNCHANGED link_up

(* Fault: data is stored without regard to the room that is left.           *)
on_tcp_receive_unchecked(p, n) ==
    LET i == pcbs[p].arg
        c == connections[i]
    IN
    /\ pcbs[p].state = "established"
    /\ keep(i, [c EXCEPT !.local_len = c.local_len + n])
    /\ UNCHANGED link_up

(* on_tcp_receive with n bytes: stored if all of them fit, else refused and *)
(* kept by lwIP, which offers them again later.                             *)
on_tcp_receive(p, n) ==
    LET i == pcbs[p].arg
        c == connections[i]
    IN
    /\ pcbs[p].state = "established"
    /\ n <= BufferSize - c.local_len
    /\ keep(i, [c EXCEPT !.local_len = c.local_len + n])
    /\ UNCHANGED link_up

(* Fault: the callbacks stay on the pcb that is handed to tcp_close.        *)
Detached_with_callbacks(p) == {[pcbs[p] EXCEPT !.state = "closing"]}

(* What becomes of a pcb whose callbacks are removed before tcp_close: lwIP *)
(* ends it in its own time, or it is gone at once (tcp_abort if need be).   *)
Detached(p) == {FreePcb, [FreePcb EXCEPT !.state = "closing"]}

(* on_tcp_receive without data, the target's FIN: what the client has still *)
(* to get is kept, what it has sent and lwIP has not taken is not.          *)
on_tcp_fin(p) ==
    LET i == pcbs[p].arg
        c == [connections[i] EXCEPT !.remote_closed = TRUE, !.tcp = NULL]
    IN
    /\ pcbs[p].state = "established"
    /\ \E q \in Detached(p) : pcbs' = [pcbs EXCEPT ![p] = q]
    /\ connections' = [connections EXCEPT ![i] = IF c.local_len = 0 THEN Closed(c) ELSE c]
    /\ open' = IF c.local_len = 0 THEN open \ {c.fd} ELSE open
    /\ UNCHANGED <<dns, link_up>>

(* Fault: the slot forgets its pcb and is not closed.                       *)
on_tcp_error_stays_open(p) ==
    LET i == pcbs[p].arg IN
    /\ pcbs[p].state \in {"connecting", "established"}
    /\ connections' = [connections EXCEPT ![i].tcp = NULL]
    /\ pcbs' = [pcbs EXCEPT ![p] = FreePcb]
    /\ UNCHANGED <<dns, open, link_up>>

(* on_tcp_error: a reset, a refused or a timed-out connection.  lwIP frees  *)
(* the pcb itself, so the slot must have forgotten it before it is closed.  *)
on_tcp_error(p) ==
    LET i == pcbs[p].arg
        c == [connections[i] EXCEPT !.tcp = NULL]
    IN
    /\ pcbs[p].state \in {"connecting", "established"}
    /\ connections' = [connections EXCEPT ![i] = Closed(c)]
    /\ open' = open \ {c.fd}
    /\ pcbs' = [pcbs EXCEPT ![p] = FreePcb]
    /\ UNCHANGED <<dns, link_up>>

(* lwIP ends a pcb that was left to it; no callback is set any more.        *)
pcb_gone(p) ==
    /\ pcbs[p].state = "closing"
    /\ pcbs' = [pcbs EXCEPT ![p] = FreePcb]
    /\ UNCHANGED <<connections, dns, open, link_up>>

(* Fault: only the clients that are being relayed are closed.               *)
Clients_streaming == {i \in Slots : connections[i].phase = "STREAMING"}

(* The slots that a lost link closes.                                       *)
Clients == {i \in Slots : connections[i].fd # NoFd}

(* ppp_status: up says that the status is PPPERR_NONE and both directions   *)
(* use MPPE.  Otherwise every client is closed, even one that has only sent *)
(* part of its request.                                                     *)
ppp_status(up) ==
    /\ link_up' = up
    /\ IF up
         THEN UNCHANGED <<connections, pcbs, open>>
         ELSE /\ connections' = [i \in Slots |->
                     IF i \in Clients THEN Closed(connections[i]) ELSE connections[i]]
              /\ pcbs' = [p \in Pcbs |->
                     IF \E i \in Clients : connections[i].tcp = p THEN FreePcb ELSE pcbs[p]]
              /\ open' = open \ {connections[i].fd : i \in Clients}
    /\ UNCHANGED dns

-----------------------------------------------------------------------------
Next ==
    \/ \E fd \in Fds, kind \in Kinds, host \in Hosts : accept_client(fd, kind, host)
    \/ \E i \in Slots : read_client(i) \/ flush_local(i) \/ flush(i)
    \/ \E d \in dns, found \in BOOLEAN : dns_done(d, found)
    \/ \E p \in Pcbs : on_tcp_connected(p) \/ on_tcp_fin(p) \/ on_tcp_error(p)
    \/ \E p \in Pcbs, n \in 1..Window : on_tcp_receive(p, n)
    \/ \E p \in Pcbs : pcb_gone(p)
    \/ \E up \in BOOLEAN : ppp_status(up)

Spec == Init /\ [][Next]_vars

-----------------------------------------------------------------------------
(* Every field of a slot keeps its range; the buffers hold no more than     *)
(* their arrays do.                                                         *)
TypeOK ==
    /\ connections \in [Slots -> Connection]
    /\ pcbs \in [Pcbs -> Pcb]
    /\ dns \subseteq [slot : Slots, name : Names]
    /\ open \subseteq Fds
    /\ link_up \in BOOLEAN

Consistent(c) ==
    /\ c.phase \in TargetPhases => c.fd # NoFd
    /\ c.fd # NoFd => c.phase # "CONNECTION_CLOSED"
    /\ c.tcp # NULL => c.phase \in {"CONNECTING", "STREAMING"}
    /\ c.phase = "CONNECTING" => c.tcp # NULL
    /\ c.phase = "RESOLVING" => c.resolving
    /\ c.resolving => c.phase \in {"RESOLVING", "CONNECTION_CLOSED"}

(* How the fields of a slot go together: a slot is only closed once its     *)
(* descriptor is gone, has a pcb only while connecting or streaming, and    *)
(* awaits a DNS answer only while resolving or after an early close.        *)
SlotConsistency == \A i \in Slots : Consistent(connections[i])

(* No descriptor serves two clients, and none is open that no slot will     *)
(* close: close_connection neither leaks one nor closes a stranger's.       *)
FdOwnership ==
    /\ \A i, j \in Slots : connections[i].fd = connections[j].fd =>
          i = j \/ connections[i].fd = NoFd
    /\ open = {connections[i].fd : i \in Slots} \ {NoFd}

(* Every pcb whose callbacks are set belongs to the slot they are given, in *)
(* the matching phase, and every other pcb to none: no callback reaches a   *)
(* closed or reused slot, and no slot aborts a pcb lwIP has already freed.  *)
PcbOwnership ==
    /\ \A p \in Pcbs : \A i \in Slots :
          pcbs[p].arg = i <=> connections[i].tcp = p
    /\ \A p \in Pcbs :
          /\ pcbs[p].state \in {"free", "closing"} <=> pcbs[p].arg = NULL
          /\ \A i \in Slots : pcbs[p].arg = i =>
                connections[i].phase = IF pcbs[p].state = "connecting"
                                         THEN "CONNECTING" ELSE "STREAMING"

(* Requests are refused until PPP and MPPE are up, and a link that goes     *)
(* down takes with it every client that is past its request: no slot looks  *)
(* up, connects or relays without the tunnel.                               *)
TunnelGate ==
    \A i \in Slots : connections[i].phase \in TargetPhases => link_up

(* A TCP connection always leads to the host its slot's client asked for,   *)
(* though the DNS answer may arrive after that client has gone.             *)
RightDestination ==
    \A p \in Pcbs, i \in Slots :
        pcbs[p].arg = i => pcbs[p].remote = connections[i].host

(* A slot is marked resolving exactly while one DNS answer for its own host *)
(* is to come, so no slot is lost and none gets another client's answer.    *)
DnsOwnership ==
    /\ \A i \in Slots : connections[i].resolving <=> \E d \in dns : d.slot = i
    /\ \A d \in dns : connections[d.slot].host = d.name

(* A slot whose client has gone while its DNS answer is to come stays       *)
(* closed until the answer: the answer never revives it.                    *)
NoRevival ==
    [][\A i \in Slots :
          connections[i].fd = NoFd /\ connections[i].resolving
             => connections'[i].fd = NoFd /\ connections'[i].tcp = NULL]_vars
=============================================================================
