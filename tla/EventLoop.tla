----------------------------- MODULE EventLoop -----------------------------
(***************************************************************************)
(* The select loop of main(): the order in which it calls the handlers of  *)
(* Connections, and the descriptor sets it computes before select() and    *)
(* uses after other handlers have closed and accepted clients.             *)
(*                                                                         *)
(* One pass: lwIP's timers; the sets, slot by slot; select; the bytes of   *)
(* the tunnel; the listeners; then each slot's client, written and read.   *)
(* Leaving the loop (STOP, a signal, the end of pptp) is not part of this  *)
(* module, and neither is the control socket, which touches no slot.       *)
(***************************************************************************)
EXTENDS Connections

VARIABLES
    pc,         \* where the pass stands
    next,       \* the slot the pass is at, in "watch", "write" and "read"
    readfds,    \* the loop's fd_sets, descriptor numbers of clients only
    writefds

loop == <<pc, next, readfds, writefds>>
loopVars == <<vars, loop>>

LoopInit ==
    /\ Init
    /\ pc = "timers"
    /\ next = 1
    /\ readfds = {}
    /\ writefds = {}

-----------------------------------------------------------------------------
(* sys_check_timeouts: DNS requests give up, TCP connections time out, are  *)
(* polled, offer refused data again or end; PPP's own timers end the link.  *)
TimerEvent ==
    \/ \E d \in dns : dns_done(d, FALSE)
    \/ \E p \in Pcbs : on_tcp_error(p) \/ on_tcp_fin(p) \/ pcb_gone(p)
    \/ \E p \in Pcbs, n \in 1..Window : on_tcp_receive(p, n)
    \/ \E i \in Slots : flush(i)
    \/ ppp_status(FALSE)

(* pppos_input: whatever packets the tunnel delivers.                       *)
TunnelEvent ==
    \/ \E d \in dns, found \in BOOLEAN : dns_done(d, found)
    \/ \E p \in Pcbs : on_tcp_connected(p) \/ on_tcp_fin(p) \/ on_tcp_error(p)
    \/ \E p \in Pcbs : pcb_gone(p)
    \/ \E p \in Pcbs, n \in 1..Window : on_tcp_receive(p, n)
    \/ \E i \in Slots : flush(i)
    \/ \E up \in BOOLEAN : ppp_status(up)

Timers ==
    /\ pc = "timers"
    /\ TimerEvent
    /\ UNCHANGED loop

StartWatch ==
    /\ pc = "timers"
    /\ pc' = "watch"
    /\ next' = 1
    /\ readfds' = {}
    /\ writefds' = {}
    /\ UNCHANGED vars

(* Fault: a client is read while to_remote is not full.                     *)
Readable_until_full(c) ==
    /\ c.phase \notin {"RESOLVING", "CONNECTING"}
    /\ c.remote_len < BufferSize
    /\ c.local_len < BufferSize - ReadSize

(* A client is read only while to_remote has room for a whole read(), and   *)
(* only while its answers are being taken.                                  *)
Readable(c) ==
    /\ c.phase \notin {"RESOLVING", "CONNECTING"}
    /\ c.remote_len < BufferSize - ReadSize
    /\ c.local_len < BufferSize - ReadSize

(* The loop's look at one slot: FD_SET its descriptor, flush_remote.        *)
Watch(i) ==
    LET c == connections[i] IN
    /\ pc = "watch"
    /\ next = i
    /\ next' = i + 1
    /\ readfds' = IF c.fd # NoFd /\ Readable(c) THEN readfds \cup {c.fd} ELSE readfds
    /\ writefds' = IF c.fd # NoFd /\ c.local_len > 0 THEN writefds \cup {c.fd} ELSE writefds
    /\ \/ /\ c.fd # NoFd
          /\ flush(i)
       \/ /\ c.fd = NoFd \/ c.remote_len = 0
          /\ UNCHANGED vars
    /\ UNCHANGED pc

(* select(): the kernel leaves the ready descriptors in the sets, or it is  *)
(* interrupted and the pass starts again.                                   *)
Select ==
    /\ pc = "watch"
    /\ next = MaxConnections + 1
    /\ \/ /\ pc' = "input"
          /\ readfds' \in SUBSET readfds
          /\ writefds' \in SUBSET writefds
       \/ /\ pc' = "timers"
          /\ readfds' = {}
          /\ writefds' = {}
    /\ next' = 1
    /\ UNCHANGED vars

Input ==
    /\ pc = "input"
    /\ TunnelEvent
    /\ UNCHANGED loop

InputDone ==
    /\ pc = "input"
    /\ pc' = "accept"
    /\ UNCHANGED <<next, readfds, writefds, vars>>

Accept ==
    /\ pc = "accept"
    /\ \E fd \in Fds, kind \in Kinds, host \in Hosts : accept_client(fd, kind, host)
    /\ UNCHANGED loop

AcceptDone ==
    /\ pc = "accept"
    /\ pc' = "write"
    /\ next' = 1
    /\ UNCHANGED <<readfds, writefds, vars>>

(* A descriptor number in a set may by now be that of another client; then  *)
(* read() and write() find nothing to do (EAGAIN) or do their work.         *)
ServeWrite(i) ==
    /\ pc = "write"
    /\ next = i
    /\ pc' = "read"
    /\ \/ connections[i].fd \in writefds /\ flush_local(i)
       \/ UNCHANGED vars
    /\ UNCHANGED <<next, readfds, writefds>>

ServeRead(i) ==
    /\ pc = "read"
    /\ next = i
    /\ pc' = "write"
    /\ next' = i + 1
    /\ \/ connections[i].fd \in readfds /\ read_client(i)
       \/ UNCHANGED vars
    /\ UNCHANGED <<readfds, writefds>>

EndPass ==
    /\ pc = "write"
    /\ next = MaxConnections + 1
    /\ pc' = "timers"
    /\ next' = 1
    /\ readfds' = {}
    /\ writefds' = {}
    /\ UNCHANGED vars

(* What the loop does by itself, whatever clients and tunnel do.            *)
Advance ==
    \/ StartWatch \/ Select \/ InputDone \/ AcceptDone \/ EndPass
    \/ \E i \in Slots : Watch(i) \/ ServeWrite(i) \/ ServeRead(i)

LoopNext == Timers \/ Input \/ Accept \/ Advance

(* The loop never blocks: select() waits at most 100 ms, the clients'       *)
(* sockets are non-blocking.  lwIP's timers give up on every DNS request    *)
(* and on every connection attempt that is not answered.                    *)
Fairness ==
    /\ WF_loopVars(Advance)
    /\ \A p \in Pcbs : SF_loopVars(pc = "timers" /\ UNCHANGED loop
                            /\ pcbs[p].state = "connecting" /\ on_tcp_error(p))
    /\ \A i \in Slots : SF_loopVars(pc = "timers" /\ UNCHANGED loop
                            /\ \E d \in dns : d.slot = i /\ dns_done(d, FALSE))

LoopSpec == LoopInit /\ [][LoopNext]_loopVars
FairLoopSpec == LoopSpec /\ Fairness

-----------------------------------------------------------------------------
(* The loop's cursor and sets stay in range, and so do the slots.           *)
LoopTypeOK ==
    /\ TypeOK
    /\ pc \in {"timers", "watch", "input", "accept", "write", "read"}
    /\ next \in 1..(MaxConnections + 1)
    /\ readfds \subseteq Fds
    /\ writefds \subseteq Fds

(* When the loop reads a client, to_remote has room for everything read()   *)
(* may return, although the room was checked before select() and other      *)
(* handlers ran since: no client is ever closed because its buffer is full. *)
ReadFits ==
    \A i \in Slots :
        pc = "read" /\ next = i /\ connections[i].fd \in readfds =>
            connections[i].remote_len + ReadSize <= BufferSize

(* A client that has made its request is not left waiting for ever: it is   *)
(* connected or closed.                                                     *)
RequestSettled ==
    \A i \in Slots : connections[i].phase \in {"RESOLVING", "CONNECTING"}
                        ~> connections[i].phase \notin {"RESOLVING", "CONNECTING"}

(* Every slot that waits for a DNS answer, its client gone or not, becomes  *)
(* usable again.                                                            *)
ResolvingEnds ==
    \A i \in Slots : connections[i].resolving ~> ~connections[i].resolving
=============================================================================
