------------------------------- MODULE Stream -------------------------------
(***************************************************************************)
(* One proxied connection once its request has been parsed: the bytes of   *)
(* the client and of the target, named, on their way through the kernel's  *)
(* sockets, the buffers to_remote and to_local of struct connection and    *)
(* lwIP's queues.  A handler of main.c is one action; a pass of the select *)
(* loop is Build (the descriptor sets and select) followed by Serve, and   *)
(* lwIP's callbacks come before, between and after them.                   *)
(*                                                                         *)
(* The n-th byte of a peer is the number n, the proxy's own reply is Reply.*)
(* In lwIP an acknowledgement arrives with the data it acknowledges.       *)
(***************************************************************************)
EXTENDS Integers, Sequences

CONSTANTS
    ClientBytes,    \* how many bytes the client sends (bound)
    TargetBytes,    \* how many bytes the target sends (bound)
    Leftover,       \* client bytes that came with the request (bound)
    BufferSize,     \* BUFFER_SIZE: capacity of to_remote and of to_local
    ReadSize,       \* most bytes one read() of the client takes (8192)
    Segment,        \* TCP_MSS
    SendBuffer,     \* TCP_SND_BUF
    Window,         \* TCP_WND
    SocketBuffer    \* the kernel's buffers of the client's socket

ASSUME StreamSizes ==
    /\ {ClientBytes, TargetBytes, BufferSize, SendBuffer, Window, SocketBuffer} \subseteq Nat
    /\ ReadSize \in 1..(BufferSize - 1) /\ Segment \in 1..Window
    /\ Window < BufferSize              \* 8 * TCP_MSS < BUFFER_SIZE
    /\ SendBuffer >= Segment /\ SocketBuffer >= 1
    /\ Leftover \in 0..ClientBytes

Reply == 0

VARIABLES
    c,          \* the fields of struct connection, and whether fd is open
    set,        \* the descriptor sets of the pass, and where the pass is
    lwip,       \* the pcb: its send queue and the data on_tcp_receive refused
    socket,     \* the client's socket, and what became of the client
    target,     \* what the target has in flight, and whether its FIN is too
    client_sent, target_sent,   \* how many bytes each peer has sent
    got,        \* what the client and the target have received
    broken      \* the target's reset, or the loss of the PPP link, hit it

vars == <<c, set, lwip, socket, target, client_sent, target_sent, got, broken>>

Bytes(n) == [i \in 1..n |-> i]
Take(s, k) == SubSeq(s, 1, k)
Drop(s, k) == SubSeq(s, k + 1, Len(s))
Least(a, b) == IF a <= b THEN a ELSE b

Init ==
    /\ client_sent \in 0..Leftover
    /\ \E reply \in BOOLEAN :           \* HTTP CONNECT and SOCKS have one
          c = [phase |-> "CONNECTING", tcp |-> TRUE, fd |-> TRUE, remote_closed |-> FALSE,
               reply |-> reply, to_remote |-> Bytes(client_sent), to_local |-> <<>>]
    /\ set = [pc |-> "build", read |-> FALSE, write |-> FALSE]
    /\ lwip = [pcb |-> "open", snd |-> <<>>, refused |-> <<>>, refused_fin |-> FALSE]
    /\ socket = [in |-> <<>>, out |-> <<>>, client |-> "open"]
    /\ target = [net |-> <<>>, fin |-> "none"]
    /\ target_sent = 0
    /\ got = [client |-> <<>>, target |-> <<>>]
    /\ broken = FALSE

-----------------------------------------------------------------------------
(* The peers.                                                               *)

ClientSend ==
    /\ c.fd /\ socket.client = "open" /\ client_sent < ClientBytes
    /\ Len(socket.in) < SocketBuffer
    /\ client_sent' = client_sent + 1
    /\ socket' = [socket EXCEPT !.in = Append(@, client_sent + 1)]
    /\ UNCHANGED <<c, set, lwip, target, target_sent, got, broken>>

(* The client ends its own direction, or goes away altogether.              *)
ClientEnd ==
    /\ c.fd /\ socket.client # "gone"
    /\ \E s \in {"half", "gone"} : socket' = [socket EXCEPT !.client = s]
    /\ UNCHANGED <<c, set, lwip, target, client_sent, target_sent, got, broken>>

ClientRead ==
    /\ socket.out # <<>> /\ socket.client # "gone"
    /\ got' = [got EXCEPT !.client = Append(@, Head(socket.out))]
    /\ socket' = [socket EXCEPT !.out = Tail(@)]
    /\ UNCHANGED <<c, set, lwip, target, client_sent, target_sent, broken>>

(* The target sends what lwIP's window lets it send.                        *)
TargetSend ==
    /\ c.phase = "STREAMING" /\ lwip.pcb = "open" /\ target.fin = "none"
    /\ target_sent < TargetBytes
    /\ Len(target.net) + Len(lwip.refused) < Window
    /\ target_sent' = target_sent + 1
    /\ target' = [target EXCEPT !.net = Append(@, target_sent + 1)]
    /\ UNCHANGED <<c, set, lwip, socket, client_sent, got, broken>>

TargetFin ==
    /\ c.phase = "STREAMING" /\ lwip.pcb = "open" /\ target.fin = "none"
    /\ target' = [target EXCEPT !.fin = "sent"]
    /\ UNCHANGED <<c, set, lwip, socket, client_sent, target_sent, got, broken>>

-----------------------------------------------------------------------------
(* Parts of handlers.  d and q are c and lwip as the handler has them.      *)

(* close_connection: the pcb, if the slot still has one, is aborted.        *)
Closed(d) == [d EXCEPT !.fd = FALSE, !.tcp = FALSE, !.phase = "CONNECTION_CLOSED",
                       !.to_remote = <<>>, !.to_local = <<>>]
Aborted(q) == [q EXCEPT !.pcb = "gone", !.snd = <<>>, !.refused = <<>>, !.refused_fin = FALSE]

(* Fault: the result of tcp_write is not looked at.                         *)
flush_remote_unchecked(d, q) ==
    LET k == Least(Least(Len(d.to_remote), SendBuffer - Len(q.snd)), Segment) IN
    IF ~d.tcp \/ d.phase # "STREAMING" THEN c' = d /\ lwip' = q
    ELSE /\ c' = [d EXCEPT !.to_remote = Drop(@, k)]
         /\ \/ lwip' = [q EXCEPT !.snd = @ \o Take(d.to_remote, k)]
            \/ lwip' = q

(* flush_remote hands one segment, or what there is room for, to tcp_write. *)
(* tcp_write may have no memory, and then nothing is moved.                 *)
flush_remote(d, q) ==
    LET k == Least(Least(Len(d.to_remote), SendBuffer - Len(q.snd)), Segment) IN
    \/ c' = d /\ lwip' = q
    \/ /\ d.tcp /\ d.phase = "STREAMING"
       /\ c' = [d EXCEPT !.to_remote = Drop(@, k)]
       /\ lwip' = [q EXCEPT !.snd = @ \o Take(d.to_remote, k)]

(* on_tcp_receive with data: all of it is copied, or ERR_MEM.               *)
Accepts(d, data) == Len(data) <= BufferSize - Len(d.to_local)

Received(d, data) == [d EXCEPT !.to_local = @ \o data]

(* Fault: the client is let go although bytes for it are left.              *)
on_tcp_fin_closes(d, q) ==
    /\ c' = Closed([d EXCEPT !.tcp = FALSE, !.remote_closed = TRUE])
    /\ lwip' = [q EXCEPT !.pcb = "closing"]

(* on_tcp_receive without data.  tcp_close lets lwIP finish the send queue  *)
(* on its own; to_remote stays behind.                                      *)
on_tcp_fin(d, q) ==
    LET e == [d EXCEPT !.tcp = FALSE, !.remote_closed = TRUE]
    IN /\ \/ lwip' = [q EXCEPT !.pcb = "closing"]
          \/ lwip' = Aborted(q)                          \* tcp_close failed
       /\ c' = IF e.to_local = <<>> THEN Closed(e) ELSE e

-----------------------------------------------------------------------------
(* lwIP's callbacks.                                                        *)

(* on_tcp_connected with ERR_OK.                                            *)
Connected ==
    /\ c.phase = "CONNECTING" /\ lwip.pcb = "open"
    /\ flush_remote([c EXCEPT !.phase = "STREAMING",
                              !.to_local = IF c.reply THEN @ \o <<Reply>> ELSE @], lwip)
    /\ UNCHANGED <<set, socket, target, client_sent, target_sent, got, broken>>

(* tcp_process_refused_data: the data is offered again, and with it the FIN *)
(* that came meanwhile.                                                     *)
RefusedTaken(d, q) ==
    /\ q.refused # <<>>
    /\ Accepts(d, q.refused)

Retried(d, q) ==
    LET e == Received(d, q.refused)
        r == [q EXCEPT !.refused = <<>>, !.refused_fin = FALSE]
    IN IF q.refused_fin THEN on_tcp_fin(e, r) ELSE c' = e /\ lwip' = r

(* Fault: what was refused is not offered again by the timer.               *)
FastTimer_never == FALSE /\ UNCHANGED vars

(* tcp_fasttmr, every 250 ms.                                               *)
FastTimer ==
    /\ lwip.pcb = "open" /\ RefusedTaken(c, lwip)
    /\ Retried(c, lwip)
    /\ UNCHANGED <<set, socket, target, client_sent, target_sent, got, broken>>

(* The data of a segment, and its FIN, are passed to on_tcp_receive.        *)
Deliver(d, q, data, fin) ==
    LET e == Received(d, data) IN
    \/ /\ data # <<>> /\ ~Accepts(d, data)
       /\ c' = d
       /\ lwip' = [q EXCEPT !.refused = data, !.refused_fin = fin]
    \/ /\ data = <<>> \/ Accepts(d, data)
       /\ IF fin THEN on_tcp_fin(e, q) ELSE c' = e /\ lwip' = q

(* tcp_input: the next segment of the target.  While refused data cannot be *)
(* delivered it is dropped, and the target will send it again.              *)
TcpInput ==
    /\ lwip.pcb = "open" /\ c.phase = "STREAMING"
    /\ \E k \in 0..Least(Segment, Len(target.net)), fin \in BOOLEAN :
          /\ k > 0 \/ fin
          /\ fin => target.fin = "sent" /\ k = Len(target.net)
          /\ LET data == Take(target.net, k)
                 e == IF RefusedTaken(c, lwip) THEN Received(c, lwip.refused) ELSE c
                 q == [lwip EXCEPT !.refused = <<>>]
             IN \/ /\ lwip.refused # <<>> /\ ~RefusedTaken(c, lwip)
                   /\ UNCHANGED <<c, lwip, target>>
                \/ /\ lwip.refused = <<>> \/ RefusedTaken(c, lwip)
                   /\ Deliver(e, q, data, fin)
                   /\ target' = [net |-> Drop(target.net, k),
                                 fin |-> IF fin THEN "in" ELSE target.fin]
    /\ UNCHANGED <<set, socket, client_sent, target_sent, got, broken>>

(* The target acknowledges k bytes of the send queue: on_tcp_sent, unless   *)
(* the callbacks are gone.                                                  *)
TcpSent ==
    /\ lwip.pcb # "gone" /\ lwip.snd # <<>>
    /\ \E k \in 1..Len(lwip.snd) :
          /\ got' = [got EXCEPT !.target = @ \o Take(lwip.snd, k)]
          /\ LET q == [lwip EXCEPT !.snd = Drop(@, k)] IN
             IF c.tcp THEN flush_remote(c, q) ELSE c' = c /\ lwip' = q
    /\ UNCHANGED <<set, socket, target, client_sent, target_sent, broken>>

(* on_tcp_poll.                                                             *)
Poll ==
    /\ c.tcp /\ c.phase = "STREAMING"
    /\ flush_remote(c, lwip)
    /\ UNCHANGED <<set, socket, target, client_sent, target_sent, got, broken>>

(* on_tcp_error: the pcb is gone before the callback.  A pcb that is being  *)
(* closed belongs to lwIP alone and is lost without a callback.             *)
TcpError ==
    /\ lwip.pcb # "gone"
    /\ c' = IF c.tcp THEN Closed(c) ELSE c
    /\ lwip' = Aborted(lwip)
    /\ broken' = (broken \/ c.tcp)
    /\ UNCHANGED <<set, socket, target, client_sent, target_sent, got>>

(* ppp_status without a link.                                               *)
LinkDown ==
    /\ c.fd
    /\ c' = Closed(c)
    /\ lwip' = IF c.tcp THEN Aborted(lwip) ELSE lwip
    /\ broken' = TRUE
    /\ UNCHANGED <<set, socket, target, client_sent, target_sent, got>>

-----------------------------------------------------------------------------
(* The select loop.                                                         *)

(* The descriptor sets, flush_remote, and select's answer.                  *)
Build ==
    /\ set.pc = "build" /\ c.fd
    /\ set' = [pc |-> "serve",
               read |-> /\ c.phase # "CONNECTING"
                        /\ Len(c.to_remote) < BufferSize - ReadSize
                        /\ Len(c.to_local) < BufferSize - ReadSize
                        /\ socket.in # <<>> \/ socket.client # "open",
               write |-> /\ c.to_local # <<>>
                         /\ Len(socket.out) < SocketBuffer \/ socket.client = "gone"]
    /\ flush_remote(c, lwip)
    /\ UNCHANGED <<socket, target, client_sent, target_sent, got, broken>>

(* Fault: the end of the target is not looked at after a write.             *)
flush_local_stays(k) == [c EXCEPT !.to_local = Drop(@, k)]

(* What flush_local leaves when k bytes could be written.                   *)
flush_local(k) ==
    LET d == [c EXCEPT !.to_local = Drop(@, k)]
    IN IF d.remote_closed /\ d.to_local = <<>> THEN Closed(d) ELSE d

(* The slot and the socket after the loop's flush_local, if it is called.   *)
AfterWrite ==
    LET room == Least(Len(c.to_local), SocketBuffer - Len(socket.out)) IN
    IF ~set.write THEN {[d |-> c, s |-> socket]}
    ELSE IF socket.client = "gone" THEN {[d |-> Closed(c), s |-> socket]}
    ELSE {[d |-> flush_local(k), s |-> [socket EXCEPT !.out = @ \o Take(c.to_local, k)]] :
             k \in 1..room}

(* The slot and the socket after read() and feed_local on top of that.      *)
AfterRead(d, s) ==
    LET k == Least(ReadSize, Len(s.in)) IN
    IF ~set.read \/ ~d.fd THEN [d |-> d, s |-> s]
    ELSE IF s.in = <<>> \/ k > BufferSize - Len(d.to_remote)
           THEN [d |-> Closed(d), s |-> s]
    ELSE [d |-> [d EXCEPT !.to_remote = @ \o Take(s.in, k)],
          s |-> [s EXCEPT !.in = Drop(@, k)]]

(* The connection's turn in the loop over connections[].                    *)
Serve ==
    /\ set.pc = "serve"
    /\ set' = [set EXCEPT !.pc = "build"]
    /\ \/ ~c.fd /\ UNCHANGED <<c, lwip, socket>>           \* closed by a callback
       \/ /\ c.fd
          /\ \E w \in AfterWrite :
                LET r == AfterRead(w.d, w.s) IN
                /\ c' = r.d
                /\ socket' = r.s
                /\ lwip' = IF c.tcp /\ ~r.d.tcp THEN Aborted(lwip) ELSE lwip
    /\ UNCHANGED <<target, client_sent, target_sent, got, broken>>

-----------------------------------------------------------------------------
Next ==
    \/ ClientSend \/ ClientEnd \/ ClientRead \/ TargetSend \/ TargetFin
    \/ Connected \/ FastTimer \/ TcpInput \/ TcpSent \/ Poll \/ TcpError \/ LinkDown
    \/ Build \/ Serve

Spec == Init /\ [][Next]_vars

(* The loop runs, lwIP's timers run and TCP retransmits; an answer to the   *)
(* connection request comes; the client reads what it is sent.              *)
FairSpec ==
    /\ Spec
    /\ WF_vars(Build) /\ WF_vars(Serve)
    /\ WF_vars(Connected) /\ WF_vars(FastTimer) /\ WF_vars(TcpInput)
    /\ WF_vars(TcpSent) /\ WF_vars(Poll)
    /\ WF_vars(ClientRead)

-----------------------------------------------------------------------------
(* What each peer has sent, as the other one should see it.                 *)
FromClient == Bytes(client_sent)
FromTarget == (IF c.reply THEN <<Reply>> ELSE <<>>) \o Bytes(target_sent)
Written == got.client \o socket.out

(* Each direction is a Channel.  Towards the target it ends with the pcb,   *)
(* towards the client with the descriptor.                                  *)
Up == INSTANCE Channel WITH sent <- FromClient, received <- got.target,
                            cut <- lwip.pcb = "gone"
Down == INSTANCE Channel WITH sent <- FromTarget, received <- Written, cut <- ~c.fd

(* Each direction keeps a channel's promise, whatever is refused, delayed,   *)
(* written in part or cut off.  The target gets the client's bytes, those    *)
(* that came with the request first (flush_remote, tcp_write, tcp_close).    *)
(* The client gets the proxy's reply and then the target's bytes, although   *)
(* on_tcp_receive may refuse a segment that lwIP offers again later.         *)
BothAreChannels == Up!Spec /\ Down!Spec

(* A descriptor that the engine closes on its own, the client still there   *)
(* and nothing broken, is closed because the target ended, and only after   *)
(* everything the target sent was written to the client (remote_closed).    *)
ResponseComplete ==
    ~c.fd /\ ~broken /\ socket.client = "open" => target.fin = "in" /\ Written = FromTarget

(* No byte stays behind.  What a client sends reaches the target, unless the *)
(* connection is over: somebody calls flush_remote again.  What the target   *)
(* sends reaches the client, data refused for want of room included.  And    *)
(* the full buffers of the two directions never wait for each other as long  *)
(* as the client reads.                                                      *)
BytesArrive ==
    /\ \A n \in 1..ClientBytes :
          client_sent >= n ~> Len(got.target) >= n \/ c.remote_closed \/ ~c.fd
    /\ \A n \in 1..TargetBytes :
          target_sent >= n ~> Len(Written) >= n \/ ~c.fd

(* The end of the target is passed on: its client's descriptor is closed.   *)
TargetEndArrives == target.fin = "sent" ~> ~c.fd
=============================================================================
