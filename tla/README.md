# Verification of the PPTP proxy client

This directory holds TLA+ models of the program in this repository, TLC
configurations that check them on small instances, and proofs checked by TLAPS.
The program is a macOS app (`PPTPProxyClient.swift`) that starts a root process
(`proxy-engine/main.c`). The engine runs the `pptp` client on a pty, speaks PPP
over it with the lwIP stack linked into the process, and offers local HTTP and
SOCKS5 proxies and port forwards that leave through the tunnel. No route of the
host is changed: only what is sent to the local ports uses the VPN.

## 1. Inventory

| part | state | operations | what is hard about it |
|---|---|---|---|
| connection table (`main.c` 52-68, 159-526) | 128 slots: descriptor, phase, pcb, `resolving`, buffers; `link_up` | `accept_client`, `feed_local`, parsers, `start_connection`, `dns_done`, `connect_ip`, TCP callbacks, `flush_*`, `close_connection`, `ppp_status` | slots are reused while DNS answers are still to come; pcbs are freed by lwIP or by the slot, never by both; any handler may run between two others |
| select loop (756-808) | `fd_set`s, cursor | one pass: timers, sets, `select`, tunnel input, control, accept, clients | room and descriptor numbers are looked at before `select` and used after other handlers ran |
| listeners and APPLY (125-138, 528-655, 730-733) | `listeners[]`, sockets | start-up, `apply_request`, `reconfigure_listeners` | ports shared by the old and the new configuration; failure half way; other programs take ports |
| request parsers (327-459) | `header`, `header_len` | `parse_http`, `parse_socks_request`, SOCKS greeting | requests arrive in pieces; size limits |
| data path (175-245, 461-469; lwIP `tcp.c`, `tcp_in.c`) | `to_remote`, `to_local`, lwIP's refused data | append, flush, FIN | order and loss of bytes at either end's close; mutual waiting |
| control socket (140-157, 657-696) | request buffer | STOP, STATUS, APPLY | a slow peer holds the only thread |
| engine life cycle (305-325, 702-755, 809-827) | pptp child, pty, password, `stop_requested` | start-up, password FIFO, shutdown | time limits on both sides of the FIFO; the child must be ended and reaped |
| DNS client (lwIP `dns.c`) | table of names, requests, ports, servers | lookup, response, timer, servers set and cleared | entries are reused while requests point at them; any response may come at any time |
| PPP link (491-526; lwIP `fsm.c`, `lcp.c`, `ccp.c`, `ipcp.c`, `auth.c`, `ppp.c`, `chap-new.c`, `mppe.c`) | three automata, phase, MPPE, `link_up` | packets, timers, status callback, output to the pty | the automata call each other back in the middle of a transition |
| app session (Swift) | `isActive`, `connected`, `processID`, `sessionDirectory`, status failures | connect, disconnect, polling, quit | callbacks on the main queue that outlive their session; process numbers that are reused |
| profiles and Keychain (Swift) | profile list, selection, passwords | save, delete, persist settings | two stores that are not written together |
| orphan clean-up (Swift) | processes of earlier runs | find and end them | an engine that outlived its app |
| window, localisation | - | - | layout and wording |
| the rest of lwIP, pptp | - | - | vendored; taken by the contract of their callbacks |

`PROJECT.json` lists the parts under `components`, and every hard-to-test spot
under `hazards`, each at its line.

## 2. Modules

| module | models | uses |
|---|---|---|
| `Connections` | connection table, with the pcbs and DNS requests lwIP holds for it | |
| `EventLoop` | the select loop that calls the table's handlers | extends `Connections` |
| `Listeners` | listening ports, start-up and APPLY | |
| `Requests` | how a proxy request is read and parsed, and the grammar it is compared with | |
| `Channel` | what one direction of a proxied connection promises | |
| `Stream` | one connection's bytes between client, engine, lwIP and target | two instances of `Channel` |
| `DnsTable` | lwIP's DNS client | |
| `PppLink` | LCP, CCP, IPCP, phases, CHAP client, MPPE, `link_up` | |
| `Engine` | the process from its control socket to its last return, and pptp | |
| `PasswordFifo` | the password's way from the app to the engine | |
| `AppSession` | connect, disconnect, polling, clean-up and quit in the app | |
| `Profiles` | profiles, settings, Keychain, and what APPLY stores | |
| `MC...` | the same with sets for TLC | the module they check |
| `ConnectionsProofs` (with `EventLoop`), `ListenersProofs`, `RequestsProofs`, `EngineProofs`, `PasswordFifoProofs`, `ProfilesProofs`, `StreamProofs`, `DnsTableProofs` | theorems | extend the module they are about |

The modules meet where one takes another's result for granted. `Connections` assumes
that `dns_done` is called once for each lookup; `DnsTable` checks it of `dns.c`.
`Connections` lets `link_up` change freely; `PppLink` says when it does. `Connections`
counts bytes and takes the parsers' verdicts; `Stream` names the bytes and `Requests`
computes the verdicts. `AppSession` has an engine that stops when told and ends when it
gets no password; `Engine` and `PasswordFifo` check both. `EventLoop` is the one place
where two models are composed in full.

Definitions named `X_something` stand before `X` and are deliberate mistakes. They are
not part of a specification; putting one in the place of `X` must make a property fail,
which shows that the property depends on that code.

### Connections

| model | code |
|---|---|
| `connections[i]` | `connections[]`; the buffers are represented by their lengths, the target by `host` |
| `pcbs[p]` | lwIP's view of a pcb: `state`, the slot passed to `tcp_arg`, the address passed to `tcp_connect` |
| `dns` | calls of `dns_gethostbyname` that returned `ERR_INPROGRESS` and whose `dns_done` is still to come |
| `open` | client descriptors the process has open |
| `link_up` | `link_up` |

Each handler is one action that includes everything the handler calls:
`accept_client` on a FORWARD listener runs through `start_connection` and
`connect_ip`; `read_client` through `feed_local`, the parsers and, when they
return false, `close_connection`. Operators such as `close_connection(i, c, o)`
take the slot's record and the open descriptors as the handler has changed them
so far. The engine has one thread and lwIP runs with `NO_SYS`, so a handler is
never interrupted; the model interleaves whole handlers in any order.

What the bytes of a request parse to is a choice among the results the parsers
can return: incomplete, malformed, or a request for some host with some bytes
left over. lwIP's part is the contract that `main.c` relies on: `dns_done` is
called once per request, found or not; the error callback comes after the pcb has
been freed; data may be refused and is offered again; a pcb handed to `tcp_close`
ends by itself, and `tcp_alloc` may take such a pcb when the pool is empty.
Traffic counters and the log are left out.

### EventLoop

`pc`, `next`, `readfds` and `writefds` are the position in the pass and the sets.
`Watch(i)` is the look at slot `i` before `select` and includes `flush_remote`;
`ServeWrite(i)` and `ServeRead(i)` are what is done for it after `select`. Between
them any number of handlers run from the timers and the tunnel, and clients are
accepted, so a bit set for one client may be read on behalf of another that got
the same descriptor number. Leaving the loop, the control socket (which touches
no slot) and the pty's descriptor are in `Engine`.

### Listeners

`listeners` and `requested` are the two arrays, `sockets` the listening sockets as
the kernel has them, `foreign` the ports that other programs hold. Each
`listen_loopback` is a step of its own (`Start`, `Open`) because other programs
run in between; `Switch` is the second loop with the `memcpy`. A request that
cannot be parsed ends like one that is no configuration: `ERR APPLY 0`, nothing
changed. While an APPLY is under way no client is accepted, since the loop has
one thread.

### Requests

`input` is what the client sends, `got` how much of it has been read. One `Read` is one
`read()` of any size followed by `feed_local` and the parsers. SOCKS bytes are numbers.
An HTTP request line is one symbol whose words are given; line ends are symbols, since
finding the header's end across two reads is the point. A SOCKS domain ends at its first
zero byte, as `set_target` copies it (`c_string`). `Meanings` is the reference: the
targets and remaining bytes that a grammar gives the bytes received, written without
looking at the parsers' way of scanning.

### Stream

`c` is the slot, `socket` the kernel's buffers of the client, `lwip` the send queue and
the data `on_tcp_receive` refused, `target` what is in flight. `Build` is the loop's look
at the slot and the `select`, `Serve` what it does afterwards; lwIP's callbacks (`TcpInput`,
`TcpSent`, `Poll`, `TcpError`, `FastTimer`) come between. Either peer may end or break off
at any moment, and the link may go down.

### DnsTable

`dns` is the static state of `dns.c` (`table`, `req`, `pcbs`, `seqno`) and what each slot
knows of its lookup; `servers` is `dns_servers[]`. A response is any combination of
transaction id, sender, name and kind, whether or not a query is out for it. A name is a
sequence of symbols in which "." ends a label, because `dns_compare_name` goes through the
labels without looking at their lengths in the query (section 5). `sdns` and
`cdns` are the link's coming up and going down.

### PppLink

Every C function is an operator from the control block before the call to the one after
it, in the order of the statements, so that a callback that closes another automaton in
the middle of a transition finds what the C code finds there. The timer list counts
entries per automaton, because a nested restart can leave two. The peer may send any
packet at any time. Of a packet's options the model keeps what decides about
authentication, MPPE and addresses; of a Nak or Reject, whether it refuses MPPE, is malformed
after that, is empty, or shows a looped line. `chap_respond` derives the MPPE keys from a
challenge (`mppe_keys_set`), before the server's verdict sets `auth_done`.

### Engine

`pc` is the place in `main()`; `child`, the terminal's state, `control`, `backlog` and
`peer` are the world around it. Every early return of the start-up is a step. A peer
sends its request in pieces and may stop in the middle; `Read` is one `recv` with its
one-second limit. pptp may exit at any moment, ignore SIGTERM, or stop reading its
terminal, in which case `ppp_output` never returns.

### PasswordFifo

A tick is the writer's 0.1 s. In a tick each side that waits polls once, in either order.
The engine's 15 s run from its `open`, the app's 10 s from `PrivilegedReturns`, when osascript
gives back the process id. Nothing relates the two starts: the engine may not have come to its
`open` by then, or may have waited for any number of polls.

### AppSession

`app` is what the main thread believes, `tasks` the blocks on background queues, `queue`
the answers on the main queue, `engine[s]` what can be seen of the engine of session `s`.
A handler on the main thread is one action. A task reads its session when it is created
and its answer arrives when it may, also after the session has ended. Process numbers may
be given out again, control requests may time out although they are carried out, the app
may be killed and started again. `left` bounds the sessions and the events of a behaviour.

### Profiles

`profiles` is the list in memory, `stored` the one in the settings, `keychain` the ids that
have a password. A Keychain call may fail, and the app may die between a Keychain call and
what should follow it. `lost` remembers the ids of saves that broke off there.

## 3. What the runs check

| run | instance | states | properties |
|---|---|---|---|
| `connections` | 2 slots, 2 pcbs, 2 descriptors, 2 names, a literal address; buffers of 3, headers below 2, reads of 1, deliveries up to 2 | 490,550 | `TypeOK`, `FdOwnership`, `PcbOwnership`, `TunnelGate`, `RightDestination`, `NoRevival` |
| `event_loop` | 2 slots, 1 pcb, 1 descriptor, a name; buffers of 4, reads of up to 2 | 261,077 | `ReadFits`, `RequestSettled`, `ResolvingEnds` |
| `listeners` | 4 ports, 5 descriptors, 3 listeners | 137,806 | `StillServing`, `NoStraySocket`, `OwnPortNeverFails`, `KeptSocket` |
| `requests` | 5 greetings, 10 SOCKS requests, 84 request lines, 5 header shapes, with and without bytes after them, cut in every way | 14,984 | `StartedAsAsked`, `CompleteIsStarted`, `RefusedForCause` |
| `stream` | 2 bytes up, 3 down and a reply; buffers of 3, window and send buffer of 2 | 98,958 | `ResponseComplete`, `BothAreChannels`, `BytesArrive`, `TargetEndArrives` |
| `dns` | 2 slots, 3 names of which one begins another, 2 entries, 2 transaction ids, a server and a backup; 2 retries | 236,424 | `CalledOnce`, `RightAnswer`, `PortsInUse`, `LookupEnds` |
| `ppp_link` | 3 requests and 2 terminations before giving up, 3 restarts by the peer | 139,038 | `InterfaceNeedsLink`, `EncryptionNeedsKeys`, `AdmittedWhenNegotiated`, `ClosingEnds` |
| `engine` | 2 peers, requests of 2 units, 2 waits before SIGKILL, a signal, a pptp that may hang | 196,820 | `SignalsOwnChild`, `NoChildLeft`, `StopIsLast`, `StopObeyed`, `PeersServed` |
| `password` | passwords of up to 6, buffer of 5, 4 attempts against 6 polls, any delay between them | 7,911 | `FifoGivesFirstLine`, `NotGivenUpFirst` |
| `app_session` | 1 session with 3 events, 2 sessions with 1: disconnects, clean-ups, crashes, lost links, timeouts, failed quits, reused numbers | 282,616 | `EngineDeathNoticed`, `DisconnectEnds`, `ConfirmedQuitEndsEngines` |
| `profiles` | 3 ids, 3 texts, a crash | 296,887 | `Durable`, `NoPasswordLeft` |
| `app_session_quit` | 2 sessions, no events | violated | `QuitIsConfirmed` (section 5) |

All but the last hold. What they say of the code:

- **Ownership.** Every open client descriptor belongs to exactly one slot
  (`FdOwnership`); a pcb's callbacks reach only the slot that owns it, and no slot
  keeps a pcb lwIP has freed (`PcbOwnership`).
- **Late DNS answers.** `accept_client` skips slots that are still `resolving`, and
  `connect_ip` clears the mark before it looks whether the client is still there.
  So an answer goes to the client that asked (`RightDestination`) and never reopens a
  closed slot (`NoRevival`). In `dns.c` every lookup gets one callback (`CalledOnce`),
  about a name that `dns_compare_name` takes for its own (`RightAnswer`), although slots share queries, queries share ports
  and entries are reused; ports are closed with their last query (`PortsInUse`).
- **The tunnel.** No slot resolves, connects or relays without the link
  (`TunnelGate`); `ppp_status` closes every client, not only those that stream. The link
  is called up only when LCP, CCP and IPCP are open, the client is authenticated and
  MPPE is on both ways (`AdmittedWhenNegotiated`). MPPE is only used after
  authentication and with keys that a challenge has given (`EncryptionNeedsKeys`), and the interface is up only over an open LCP and IPCP
  (`InterfaceNeedsLink`).
- **Buffers.** Nothing is written past `to_remote`, `to_local` or `header`
  (`TypeOK`), and the loop never reads more than fits (`ReadFits`), so no client is
  closed for a full buffer.
- **Requests.** A connection is made to the target the grammar names, with exactly the
  bytes that follow the request (`StartedAsAsked`), as soon as it is complete
  (`CompleteIsStarted`), and a client is turned away only for a cause (`RefusedForCause`),
  however its bytes were cut.
- **Bytes.** Both directions implement `Channel`: in order, none twice, none skipped
  (`BothAreChannels`). The whole response is written before the engine closes a client
  because the target ended (`ResponseComplete`). Nothing stays behind in a buffer
  (`BytesArrive`), and the target's end is passed on (`TargetEndArrives`).
- **Progress.** Every request ends in a connection or a close (`RequestSettled`),
  every slot waiting for DNS becomes usable again (`ResolvingEnds`), `dns.c`'s own timer
  is enough for that (`LookupEnds`), and a closing link ends (`ClosingEnds`).
- **APPLY.** The configuration changes as a whole or not at all: its sockets stay
  open during an APPLY and after one that fails (`StillServing`), nothing else stays
  open (`NoStraySocket`), a port the engine itself holds is never the one that fails
  (`OwnPortNeverFails`), and a port that stays configured keeps its socket, whatever
  its new role (`KeptSocket`).
- **The process.** It signals pptp only while pptp's number is its own
  (`SignalsOwnChild`), reaps it (`NoChildLeft`) and answers no other request once it has said
  OK STOP (`StopIsLast`). A stop request ends it and a peer gets an answer or a close, however
  slowly other peers send (`StopObeyed`, `PeersServed`), unless pptp hangs (section 5).
- **The password.** An engine that goes on with a password from the FIFO has all of it
  (`FifoGivesFirstLine`). The engine does not give up on an app that still tries, unless
  the app began when the engine had no more than a poll left, nor does the app give up on an
  engine that waits (`NotGivenUpFirst`).
- **The app.** The end of an engine is noticed, unless its number is taken and no STATUS can
  tell (`EngineDeathNoticed`); a disconnect comes to an end unless another session replaces
  its own (`DisconnectEnds`); a confirmed quit leaves no engine of its session, nor one that
  waits for a password (`ConfirmedQuitEndsEngines`). Section 5 has what the conditions exclude.
  What the window lists is what a restart finds (`Durable`), and a password in the Keychain
  has a profile, or belongs to a save that broke off (`NoPasswordLeft`).

### Bounds

Two slots are enough for one client to take over the slot, descriptor or pcb of
another; a third brings no new relation between two of them. One pcb for two slots
makes the pool run dry in `event_loop`; two let both slots connect in `connections`.
One descriptor in `event_loop` keeps the fair graph small; two clients at a time are in
`connections`, and `ReadFits` is proved for any number.
Buffers are a few units: enough for a reply, leftover bytes and a delivery to meet
in one buffer, and for each to be refused. `MaxListeners` is 3 with 4 ports, so a
request can be one entry too long, can exchange ports between roles, and can open
one port and fail on the next.

In `dns` three names compete for two entries, so a completed entry is reused for another
name while queries are out; two slots can share a query and, when pcbs run out, two
queries a port. `SeqModulus` is 2 there, so ages wrap constantly. In `ppp_link` the limits
let each counter be started, used and exhausted; the peer may start three negotiations
over, one of each automaton or three of one. In `engine` two peers fill and block each other in the
backlog of 2. In `password` the limits keep the order and the one-poll distances of the
code's. In `app_session` a behaviour has one session and any three events, so that a fault
meets another's handling, or two sessions and any one event, so that what is left of the
first session meets the second. That is enough for each of the behaviours listed at the end
of section 5, which the properties would forbid without their conditions; two sessions with
two events have 2.3 million states, too many for the liveness check.

Pcbs, names and ports are interchangeable and used as symmetry sets in `connections` and
`listeners`; symmetry is not used in runs with liveness. Every bound is a CONSTANT; the
program's values are in the comments of the declarations. Deadlock is checked in
`connections`, `event_loop`, `listeners` and `dns`, which run for ever; a connection, a
request, a process, a session, a link and a password come to an end.

### Fairness

| specification | assumed | because |
|---|---|---|
| `EventLoop!FairLoopSpec` | the loop advances; in its timer phase, strongly: an unanswered SYN and an unanswered lookup fail | `select` waits at most 100 ms and client sockets do not block; lwIP limits SYN retransmissions and `LookupEnds` is checked in `DnsTable` |
| `Stream!FairSpec` | the loop, lwIP's fast timer, poll and retransmission run; a connection attempt is answered; the client reads | the timers run on every turn; TCP retransmits until it fails; a client that never reads may be left waiting, and with it, since a client is read only while `to_local` has room, the bytes it sends |
| `DnsTable!FairSpec` | `Tick` | `sys_check_timeouts` on every turn; nothing of servers or network |
| `PppLink!FairSpec` | each running timer goes off | the same; nothing of the peer |
| `Engine!FairSpec` | `main()` goes on; a pptp that does not hang reads its terminal | every `recv`, `select` and wait has a limit; the write to the pty has none, see section 5 |
| `AppSession!FairSpec` | timer, main queue and each kind of background task run; an engine that was told to stop, or waits for a password, ends | Dispatch's queues; `StopObeyed` and the 15 s deadline |

Nothing is assumed of clients, targets, DNS servers or the VPN server except where the
table says so.

## 4. What is proved

For every number of slots, pcbs, descriptors, hosts, ports, control peers, profiles, rules,
table entries and DNS servers, all lengths of passwords, streams and requests and all sizes that meet the
named assumptions:

| theorem | module |
|---|---|
| `TypeCorrect`, `SlotsConsistent`, `FdsOwned`, `PcbsOwned`, `TunnelGated`, `DestinationsRight`, `DnsOwned`, `AnswersNeverRevive` | `ConnectionsProofs` |
| `LoopImplementsConnections`, `LoopTypeCorrect`, `ReadsFit` | `ConnectionsProofs` |
| `ListenersTypeCorrect`, `AlwaysServing`, `NothingLeaks`, `OwnPorts`, `SocketsKept` | `ListenersProofs` |
| `EngineTypes`, `SignalsReachOwnChild`, `ChildReaped`, `NothingAfterStop` | `EngineProofs` |
| `FifoDelivers`, `EngineWaits` | `PasswordFifoProofs` |
| `ListsAreDurable`, `PasswordsHaveProfiles` | `ProfilesProofs` |
| `StreamInvariance`, `StreamImplementsChannels`, `StreamResponseComplete` | `StreamProofs` |
| `DnsInvariance`, `DnsCalledOnce`, `DnsRightAnswer`, `DnsPortsInUse` | `DnsTableProofs` |
| `RequestsInvariance`, `RequestsStartedAsAsked`, `RequestsCompleteIsStarted`, `RequestsRefusedForCause` | `RequestsProofs` |

**Assumptions.** `NoFd` is no descriptor and `NULL` no pcb, slot, host or port; sizes
are naturals; a read and a header are smaller than a buffer and two replies fit in
one (8192 and 65536 bytes in the code); at least one slot, and room for at least the
HTTP and the SOCKS listener; a control request has at least two units;
the engine polls for its password at least three times (15 s, and a poll every 50 ms); the
empty rule list is valid; a connection's window, send buffer and client socket hold something and
its buffer holds a whole read; the DNS table has as many request entries as entries, and there are
transaction ids for all of them (65536 for 16 in the code); a SOCKS stream is of bytes and an HTTP
stream of symbols, and `strtol` reads no number from ":".

**Connections.** The inductive invariant `Inv` is the conjunction of the checked
invariants, of `SlotConsistency` (phase, descriptor, pcb and mark of a slot fit together)
and of `DnsOwnership` (a pending lookup belongs to a slot kept for it). None is inductive alone: that a callback finds the right phase
(`PcbOwnership`) needs `SlotConsistency`; that a slot may be reused needs
`DnsOwnership`; that a DNS answer may connect needs `TunnelGate` for the slot that
resolves. Every handler but `ppp_status` and `pcb_gone` changes one slot; `SlotStep`
says how, `SlotStepInv` shows that such a change preserves `Inv`, and one lemma per
handler shows that it is such a change.

**EventLoop.** `LoopImplementsConnections` says that every step of the loop is a step
of `Connections` or leaves its variables alone, so all invariants carry over.
`ReadsFit` needs `Room`: a slot whose bit is set and that is still ahead in this pass
has room for a whole read. Handlers between only shrink `to_remote` or close the
slot (`Shrunk`), and an accepted client starts empty.

**Listeners.** `Inv` gives the exact set of sockets at each point: while opening,
those of the listeners and of the entries dealt with so far, with `opened` the
descriptors that are new; and no two sockets share a descriptor or a port. From
that, undoing gives back the old sockets and switching leaves the new ones.

**Engine.** `Inv` is `TypeOK /\ ReadyIsTrue /\ ChildKnown /\ StopAnswered`.
`NoChildLeft` and `SignalsOwnChild` are not inductive: they need `ChildKnown`, which says at
every place of `main()` whether there is a child and whether its number is known, reaped or
still to be signalled. `ReadyIsTrue` (what `select` reported is still in the backlog when
`accept` runs) is what keeps `TypeOK`. `StopAnswered` says that after OK STOP the process is on
its way out of the loop, from which `StopIsLast` follows.

**PasswordFifo.** `InTransit` says that the engine's buffer followed by the bytes in the FIFO
is what was written of the line so far; each write and each read, of any number of bytes,
keeps that (`AppendFacts`, `MoveFacts`). The line's only line end is its last byte, so the
loop in `read_password` ends exactly when the buffer is the whole line. `NotGivenUpFirst`
needs `InStep`, which counts from the poll at which the writer began: a reader that waits meets
the polling writer in that tick or the next, and the poll after that finds the whole line or
fills the buffer. So a reader with two polls left when the writer begins never comes to its
deadline; before that, `Waiting` says that only time or a removed FIFO makes it fail.

**Profiles.** `Durable` and `NoPasswordLeft` become inductive with two facts: an APPLY is
answered only in a running app, and settings that were never written hold no profile. One
lemma per operation shows that each early return between the Keychain and the settings leaves
them in step.

**Stream.** `Inv` is `TypeOK` with two pipes: what the client's socket, `to_remote`, lwIP's queue
and the way to the target hold is, in this order, the part of the client's bytes that the target
lacks (`UpPipe`), and likewise downwards (`DownPipe`); `PcbHeld` and `Fresh` say when these parts
exist at all. Every action moves bytes from the front of one part to the end of the next
(`UpMoved`, `DownMoved`) or drops the pipe for good, and either is a step of `Channel` or leaves
it alone: that is `StreamImplementsChannels`, the refinement in both directions.
`ResponseComplete` needs more, `EndInv`: after the target's FIN came in while data was refused,
nothing else is on the way (`Ended`), and what `select` found for the slot is still true at its
turn (`Selected`), so that a read of no bytes means that the client ended.

**DnsTable.** `DInv` says of one value of the tables that a request entry in use points to an
outstanding query for the name its caller waits for (`RequestsHeld`), that each waiting caller has
one (`OneRequest`), that completed entries and answers given are for a name that
`dns_compare_name` accepts (`Truthful`) and that the
open ports are those of the queries out (`PortsOpen`). Reuse of an entry is harmless because
`Candidates` never gives an entry that asks, and no request points to another. `CallFoundKeeps` is the core: it ends a query,
whatever becomes of its entry. The timer goes through the whole table; that the loop keeps `DInv`
at every entry is induction on the number of entries done. The library's induction theorems
take an operator and cannot be used, so `SetInduction` states induction with a set in the place
of the predicate; it follows from the well-foundedness of the naturals. `LoopExists` shows by it
that the recursive function exists, `CheckEntriesKeeps` that its values keep `DInv`.

**Requests.** `Inv` compares the buffer with a position in the stream: while a client waits, the
header is the stream from the end of the greeting (or its start) to the last byte read, and no
request ends there (`SocksOk`, `HttpOk`); once it is started, target and queued bytes are a meaning
of all that was read; once it is closed, the cause of `RefusedForCause` holds. The three checked
properties follow (`InvStarted`) but none is inductive, since each says nothing of the buffer that the next read is
appended to. The proof first restates the grammar by positions in the stream
(`SocksMeaningsAre`, `HttpMeaningsAre`, `AuthorityIs`), so that the bytes before a cut and after it are
compared in place. Then `ParseSocks`, `GreetingOk`, `ConnectIs` and `PlainIs` show that each parser, given the
buffer, finds what the grammar finds in the stream, one case per early return; `SocksMore` and
`HttpMore` show that bytes read after the start only lengthen what is queued.

**Only model-checked:** every liveness property, since fairness is beyond the prover;
`PppLink`, whose functions call each other recursively, which the prover's SMT backend does not
take; and `AppSession`, whose properties are all about liveness.

## 5. Where the code and its documents part

Modelling met nine places where the code does not do what a text of the repository says.
The first is a run of its own. The others are reproduced by putting the named formula in the
place of the properties of the cfg given, with the changes noted; the named formulas are kept
in the modules and marked.

| code | formula, cfg | what TLC shows |
|---|---|---|
| `PPTPProxyClient.swift:454` | `QuitIsConfirmed`, `MCAppSessionQuit.cfg` | A launch fails after a new session has begun. Its handler leaves `processID` of the session that failed; the timer finds that process gone and clears the new session, whose late start then sets `connected` with `isActive` false. Quitting shows no dialog. `docs/USAGE.md:117`: "Quitting while connected shows a confirmation dialog." |
| `PPTPProxyClient.swift:573` | `LinkLossShown`, `MCAppSession.cfg` | A lost link is shown as up again at the next tick, because the log still has the line that it came up; STATUS and log alternate for ever. `docs/USAGE.md:117`: "The top of the window shows connection status". |
| `PPTPProxyClient.swift:305` | `AppliedToOwner`, `MCProfiles.cfg` | The connection ends while APPLY is under way, another profile is selected, and the answer stores the rules with that one. `Localization.swift:43`: "Save a profile to keep its port forwarding rules." |
| `main.c:496` | `stop_requested ~> pc \in Ended`, `MCEngine.cfg` | pptp lives and does not read: the write to the blocking pty never returns, also the one `ppp_close` makes before SIGTERM and SIGKILL, so neither STOP nor a signal ends the engine. `docs/USAGE.md:117`: "Click **Disconnect** to stop the backend." |
| `main.c:507` | `LinkLossNoticed`, `MCPppLink.cfg` | IPCP goes down alone (a Protocol-Reject, or a renegotiation that does not complete). `sifdown` makes no status callback, so `link_up` stays set. `docs/USAGE.md:93`: "Proxy requests are blocked until PPP/MPPE negotiation completes." |
| `main.c:306` | `PasswordIsFirstLine`, `MCPasswordFifo.cfg` | On standard input `fgets` cuts a line longer than the buffer and the engine goes on with part of the password; the FIFO branch refuses it. `main.c:699`: the password is taken as the first line of standard input or of the FIFO. |
| `dns.c:1449` | `FullMeansPending`, `MCDnsTable.cfg` with `SeqModulus = 256`, 1 client, 2 one-label names | Ages are `u8_t` and must exceed 0: a completed entry exactly 256 lookups old is never chosen, and the lookup fails though an entry is free to reuse. `dns.c:1460`: "no entry can be used now, table is full". |
| `dns.c:694` | `RightAnswer` with `dns.lookup[c].result = dns.lookup[c].name` for its last line, `MCDnsTable.cfg` | The comparison takes the label breaks from the response, never looks for a dot or for the end of the query, and stops where the response's name ends: one that is the beginning of the query, has its dots elsewhere, or has an empty label where the query ends and goes on behind it, is accepted. So a late answer for a shorter name with the same transaction id counts for the longer one. `dns.c:667`: "0xFFFF: names differ, other: names equal". |
| `ccp.c:1505` | `CcpSilentWithoutLcp`, `MCPppLink.cfg` | `ccp_down` closes LCP within CCP's own restart, which takes CCP down; the outer function then sends a request all the same. `ccp.c:445`: "we may not transmit CCP packets". The closing link ends regardless (`ClosingEnds`). |

Four behaviours contradict no text, but limit what the properties say. TLC shows the first
three in `MCAppSession.cfg` once the condition named is struck out.

- `DisconnectEnds` (`app.session \notin {s, None}`): Disconnect is clicked, the administrator's
  prompt cancelled, and Connect clicked again. The answer to the first session's STOP ends at
  `sessionDirectory == directory` (`PPTPProxyClient.swift:486`), and `disconnecting` stays set
  until the second session is cleared: its own Disconnect does nothing.
- `EngineDeathNoticed` (`app.session # s`): a failed launch leaves its `processID`, the timer
  clears the second session, and the second launch then sets `connected` without a
  `sessionDirectory`. No STATUS is sent for it, so when its engine ends and the number is taken
  by another process, the window shows the connection for good. The same is so for a killed
  engine whose socket stays (`engine[s].socket`).
- `ConfirmedQuitEndsEngines` (`app.controlSocketPath = s`): an engine that runs on after a crash
  of the app is not known to the next app; a confirmed quit stops the session of that app only.
  The clean-up is what ends such an engine.
- `EncryptionNeedsKeys` says that keys were derived, not when: `mppe_keys_set` is cleared by
  `ppp_start` only, and a CHAP Success counts without a challenge before it. After the peer
  restarts LCP, the keys may be those of the negotiation before.

## 6. Not modelled

- **The rest of lwIP.** The vendored tree is some 130,000 lines, most of which the engine never
  runs: sequential API, IPv6, IGMP, example applications, tests, ports. What the engine's
  correctness hangs on is modelled: `dns.c` as a whole, PPP's control plane, and of TCP the
  life of a pcb and the hand-over of data. Measured in lines of the whole tree that is a small
  share; of `main.c` nearly all is modelled, of the app's logic all that changes state.
- **TCP below its callbacks** (segments, retransmission, congestion control), IP, checksums
  and memory pools: their contract is what `Connections` and `Stream` use. Exhaustion of
  lwIP's heap, where `fsm_sconfreq` would start no timer, is not modelled.
- **PPP's framing, key values and digests**: data without control; whether keys exist is
  modelled. Nothing limits how long a server
  may take for its CHAP challenge; no text promises a limit, and the user can disconnect.
- **Which password the Keychain holds**: `Profiles` keeps whether there is one. A save that
  breaks off after the Keychain was written leaves the new password with the old profile.
- **pptp**, shipped as a source archive: a child process at a terminal.
- **Window layout, formatting, localisation, traffic figures, log texts; the validators of the
  form's fields** (string tests without state); build scripts and tests.
- **The composition of `AppSession` with `Engine` and `PasswordFifo` in full.** Each uses the
  other's checked behaviour as an assumption (section 2); together their states are too many.
