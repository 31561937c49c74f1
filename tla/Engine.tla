------------------------------- MODULE Engine -------------------------------
(***************************************************************************)
(* The life of the process, main() in proxy-engine/main.c, from the        *)
(* control socket to the last return: start-up and its early returns, the  *)
(* parts of the select loop that can end it (the stop flag, the pty, the   *)
(* control socket, waitpid) and the shutdown, beside its environment: the  *)
(* pptp child at the other end of the pty, signals, and peers that connect *)
(* to the control socket, at their own pace or not at all.                 *)
(*                                                                         *)
(* Clients and listeners (EventLoop, Connections, Listeners) do not end    *)
(* the loop and are left out, APPLY's work included; so is the password's  *)
(* way through the FIFO, which is PasswordFifo.                            *)
(***************************************************************************)
EXTENDS Integers, Sequences

CONSTANTS
    Peers,          \* connections to the control socket, one request each
    Backlog,        \* listen(fd, 2)
    MaxRequest,     \* sizeof(request)-1, in units of one command
    Attempts,       \* waitpid attempts before SIGKILL, 20
    MaxSignals,     \* SIGTERM and SIGINT that the engine is sent (bound)
    MayHang         \* whether pptp may stop reading its end of the pty

ASSUME EngineAssumption ==
    /\ Backlog \in Nat /\ MaxRequest \in Nat \ {0, 1} /\ Attempts \in Nat /\ MaxSignals \in Nat
    /\ MayHang \in BOOLEAN

VARIABLES
    pc,             \* where main() stands; it ends "returned" (0), "failed" (1 or 2),
                    \* "refused" (no control socket) or "killed" (a signal)
    ready,          \* control_fd is in readfds after select
    attempt,        \* the loop counter of the shutdown
    stop_requested,
    signals,        \* signals sent so far
    control,        \* [fd, file]: control_fd is open, its path exists
    backlog,        \* peers that wait for accept
    peer,           \* each peer: [text, state, reply]
    serving,        \* whose request handle_control is reading
    length,         \* of that request
    pptp_pid,       \* "none", "child" or "reaped" (-1)
    child,          \* the pptp process: "none", "reads", "hangs", "zombie", "gone"
    full,           \* the pty takes no more bytes towards pptp
    stray           \* a signal went to a process id that was not pptp's any more

flow == <<pc, ready, attempt>>
stopping == <<stop_requested, signals>>
requests == <<control, backlog, peer, serving, length>>
process == <<pptp_pid, child, full, stray>>
vars == <<flow, stopping, requests, process>>

Commands == {"STOP", "STATUS", "APPLY", "other"}
Ended == {"returned", "failed", "refused", "killed"}
Alive == {"reads", "hangs"}

Init ==
    /\ pc = "control" /\ ready = FALSE /\ attempt = 0
    /\ stop_requested = FALSE /\ signals = 0
    /\ control = [fd |-> FALSE, file |-> FALSE]
    /\ backlog = <<>> /\ serving = "nobody" /\ length = 0
    /\ \E text \in [Peers -> Commands] :
          peer = [p \in Peers |-> [text |-> text[p], state |-> "away", reply |-> "none"]]
    /\ pptp_pid = "none" /\ child = "none" /\ full = FALSE /\ stray = FALSE

-----------------------------------------------------------------------------
(* A peer connects when the backlog has room.  It sends its command, and    *)
(* more, until it shuts its side down (or goes away, which reads the same). *)
PeerConnects(p) ==
    /\ peer[p].state = "away"
    /\ control.fd /\ Len(backlog) < Backlog
    /\ peer' = [peer EXCEPT ![p].state = "sending"]
    /\ backlog' = Append(backlog, p)
    /\ UNCHANGED <<flow, stopping, control, serving, length, process>>

PeerEnds(p) ==
    /\ peer[p].state = "sending"
    /\ peer' = [peer EXCEPT ![p].state = "shut"]
    /\ UNCHANGED <<flow, stopping, control, backlog, serving, length, process>>

(* The pptp process: it takes bytes from the pty, stops taking them, exits. *)
ChildReads ==
    /\ child = "reads" /\ full
    /\ full' = FALSE
    /\ UNCHANGED <<flow, stopping, requests, pptp_pid, child, stray>>

ChildHangs ==
    /\ MayHang /\ child = "reads"
    /\ child' = "hangs"
    /\ UNCHANGED <<flow, stopping, requests, pptp_pid, full, stray>>

ChildExits ==
    /\ child \in Alive
    /\ child' = "zombie"
    /\ UNCHANGED <<flow, stopping, requests, pptp_pid, full, stray>>

-----------------------------------------------------------------------------
(* The process ends: the kernel closes its descriptors, and peers that were *)
(* waiting see the end of their connection.  The path of the control socket *)
(* stays unless cleanup_control_socket has unlinked it.                     *)
Hangup == [p \in Peers |-> IF peer[p].state \in {"sending", "shut"}
                             THEN [peer[p] EXCEPT !.state = "closed"] ELSE peer[p]]

End(how, file) ==
    /\ pc' = how
    /\ control' = [fd |-> FALSE, file |-> file]
    /\ peer' = Hangup /\ backlog' = <<>> /\ serving' = "nobody" /\ length' = 0
    /\ UNCHANGED <<ready, attempt>>

(* return from main(): cleanup_control_socket runs, from main() or atexit.  *)
Return(how) == End(how, FALSE)

Goto(to) == pc' = to /\ UNCHANGED <<ready, attempt>>
Continue(to) == Goto(to) /\ UNCHANGED requests

(* SIGTERM or SIGINT: on_signal, or, before main() installs it, the end.    *)
Unhandled == {"control", "password", "ports"}

Signal ==
    /\ pc \notin Ended /\ signals < MaxSignals
    /\ signals' = signals + 1
    /\ IF pc \in Unhandled
         THEN End("killed", control.file) /\ UNCHANGED stop_requested
         ELSE stop_requested' = TRUE /\ UNCHANGED <<flow, requests>>
    /\ UNCHANGED process

-----------------------------------------------------------------------------
(* Start-up.                                                                *)

(* listen_control: it may fail before the path exists or after.             *)
ListenControl ==
    /\ pc = "control"
    /\ \/ /\ Goto("password")
          /\ control' = [fd |-> TRUE, file |-> TRUE]
          /\ UNCHANGED <<backlog, peer, serving, length>>
       \/ \E bound \in BOOLEAN : End("refused", bound)
    /\ UNCHANGED <<stopping, process>>

(* read_password: a password, or none in time, or an empty one.             *)
ReadPassword ==
    /\ pc = "password"
    /\ Continue("ports") \/ Return("failed")
    /\ UNCHANGED <<stopping, process>>

(* The listeners' ports, then the signal handlers.                          *)
OpenPorts ==
    /\ pc = "ports"
    /\ Continue("fork") \/ Return("failed")
    /\ UNCHANGED <<stopping, process>>

ForkPty ==
    /\ pc = "fork"
    /\ \/ /\ Continue("ppp")
          /\ pptp_pid' = "child" /\ child' = "reads"
          /\ UNCHANGED <<full, stray>>
       \/ Return("failed") /\ UNCHANGED process
    /\ UNCHANGED stopping

(* pppos_create and ppp_connect: a failure leaves pptp to the closed pty.   *)
StartPpp ==
    /\ pc = "ppp"
    /\ Continue("check") \/ Return("failed")
    /\ UNCHANGED <<stopping, process>>

-----------------------------------------------------------------------------
(* The loop.                                                                *)

(* while (!stop_requested): lwIP's timers, which may send.                  *)
Check ==
    /\ pc = "check"
    /\ IF stop_requested THEN Goto("close") ELSE Goto("select") \/ Goto("timers")
    /\ UNCHANGED <<stopping, requests, process>>

(* Fault: select without a time limit.                                      *)
Select_endless ==
    /\ pc = "select"
    /\ backlog # <<>> \/ child = "zombie"
    /\ pc' = "pty" /\ ready' = (backlog # <<>>) /\ UNCHANGED attempt
    /\ UNCHANGED <<stopping, requests, process>>

(* select: after 100 ms at most it returns; interrupted by a signal, or     *)
(* failed, or with what is ready.                                           *)
Select ==
    /\ pc = "select"
    /\ \/ stop_requested /\ pc' = "check" /\ ready' = FALSE       \* EINTR
       \/ pc' = "close" /\ ready' = FALSE
       \/ pc' = "pty" /\ ready' = (backlog # <<>>)
    /\ UNCHANGED <<attempt, stopping, requests, process>>

(* read(pty_fd): packets for lwIP, which may send; or pptp's end.           *)
ReadPty ==
    /\ pc = "pty"
    /\ \/ Goto("accept") \/ Goto("input")
       \/ child \notin Alive /\ Goto("close")
    /\ UNCHANGED <<stopping, requests, process>>

(* ppp_output, from the timers, the input or ppp_close: write() blocks      *)
(* while pptp does not make room.                                           *)
ppp_output ==
    /\ \/ pc = "timers" /\ Goto("select")
       \/ pc = "input" /\ Goto("accept")
       \/ pc = "farewell" /\ Goto("kill")
    /\ ~(full /\ child \in Alive)
    /\ full' \in BOOLEAN
    /\ UNCHANGED <<stopping, requests, pptp_pid, child, stray>>

(* accept(control_fd).                                                      *)
Accept ==
    /\ pc = "accept"
    /\ IF ready THEN /\ Goto("request")
                     /\ serving' = Head(backlog) /\ backlog' = Tail(backlog) /\ length' = 0
                ELSE Goto("wait") /\ UNCHANGED <<serving, backlog, length>>
    /\ UNCHANGED <<stopping, control, peer, process>>

(* Fault: a full buffer is written from its start again.                    *)
Read_wraps ==
    /\ pc = "request"
    /\ peer[serving].state = "sending" \/ length = 0
    /\ length' = (length + 1) % MaxRequest
    /\ UNCHANGED <<flow, stopping, control, backlog, peer, serving, process>>

(* handle_control's read(): the command, and what may follow it.            *)
Read ==
    /\ pc = "request" /\ length < MaxRequest
    /\ peer[serving].state = "sending" \/ length = 0
    /\ length' = length + 1
    /\ UNCHANGED <<flow, stopping, control, backlog, peer, serving, process>>

(* The answers to a request of which the whole text was read.               *)
Command == IF length = 1 THEN peer[serving].text ELSE "other"
Replies ==
    CASE length = 0 -> {"none"}
      [] length > 0 /\ Command = "STOP" -> {"OK STOP"}
      [] length > 0 /\ Command = "STATUS" -> {"STATUS"}
      [] length > 0 /\ Command = "APPLY" -> {"OK APPLY", "ERR APPLY"}
      [] length > 0 /\ Command = "other" -> {"ERR COMMAND"}

(* Fault: while peers wait, the next one is accepted at once.                *)
Close_next(reply) ==
    /\ Goto(IF backlog # <<>> THEN "accept" ELSE "wait")
    /\ peer' = [peer EXCEPT ![serving].state = "closed", ![serving].reply = reply]
    /\ serving' = "nobody" /\ length' = 0
    /\ UNCHANGED <<control, backlog, signals, process>>

(* handle_control is done with its peer; the loop goes on.                  *)
Close(reply) ==
    /\ Goto("wait")
    /\ peer' = [peer EXCEPT ![serving].state = "closed", ![serving].reply = reply]
    /\ serving' = "nobody" /\ length' = 0
    /\ UNCHANGED <<control, backlog, signals, process>>

(* handle_control after end of file or a full buffer.                       *)
Answer ==
    /\ pc = "request"
    /\ peer[serving].state = "shut" \/ length = MaxRequest
    /\ \E reply \in Replies :
          /\ Close(reply)
          /\ stop_requested' = (stop_requested \/ reply = "OK STOP")

(* SO_RCVTIMEO: a second without a byte.                                    *)
Silence ==
    /\ pc = "request" /\ peer[serving].state = "sending" /\ length < MaxRequest
    /\ Close("none")
    /\ UNCHANGED stop_requested

(* Fault: pptp is reaped and its number kept.                               *)
Wait_keepsPid ==
    /\ pc = "wait"
    /\ IF child = "zombie" THEN child' = "gone" /\ Goto("close")
                           ELSE UNCHANGED child /\ Goto("check")
    /\ UNCHANGED <<stopping, requests, pptp_pid, full, stray>>

(* waitpid(pptp_pid, WNOHANG).                                              *)
Wait ==
    /\ pc = "wait"
    /\ IF child = "zombie" THEN child' = "gone" /\ pptp_pid' = "reaped" /\ Goto("close")
                           ELSE UNCHANGED <<child, pptp_pid>> /\ Goto("check")
    /\ UNCHANGED <<stopping, requests, full, stray>>

-----------------------------------------------------------------------------
(* Shutdown.                                                                *)

(* The clients, then ppp_close, which sends if the link is up.              *)
CloseAll ==
    /\ pc = "close"
    /\ Goto("kill") \/ Goto("farewell")
    /\ UNCHANGED <<stopping, requests, process>>

(* kill(pptp_pid, SIGTERM), if there still is one.                          *)
Kill ==
    /\ pc = "kill"
    /\ IF pptp_pid = "child"
         THEN /\ pc' = "reap" /\ attempt' = 0
              /\ stray' = (stray \/ child = "gone")
              /\ \/ child' = child
                 \/ child \in Alive /\ child' = "zombie"
         ELSE pc' = "final" /\ UNCHANGED <<attempt, stray, child>>
    /\ UNCHANGED <<ready, stopping, requests, pptp_pid, full>>

(* Fault: a pptp that does not react to SIGTERM is left alone.              *)
Reap_gently ==
    /\ pc = "reap"
    /\ IF child = "zombie" \/ attempt = Attempts
         THEN /\ pc' = "final" /\ UNCHANGED attempt
              /\ child' = IF child = "zombie" THEN "gone" ELSE child
         ELSE attempt' = attempt + 1 /\ UNCHANGED <<pc, child>>
    /\ UNCHANGED <<ready, stopping, requests, pptp_pid, full, stray>>

(* waitpid every 100 ms, at last SIGKILL and a waitpid that blocks.         *)
Reap ==
    /\ pc = "reap"
    /\ IF child \in {"zombie", "gone"} \/ attempt = Attempts
         THEN /\ pc' = "final" /\ UNCHANGED attempt
              /\ stray' = (stray \/ (child = "gone" /\ attempt = Attempts))
              /\ child' = "gone"
         ELSE attempt' = attempt + 1 /\ UNCHANGED <<pc, child, stray>>
    /\ UNCHANGED <<ready, stopping, requests, pptp_pid, full>>

Final ==
    /\ pc = "final"
    /\ Return("returned")
    /\ UNCHANGED <<stopping, process>>

Main ==
    \/ ListenControl \/ ReadPassword \/ OpenPorts \/ ForkPty \/ StartPpp
    \/ Check \/ Select \/ ReadPty \/ ppp_output \/ Accept \/ Read \/ Answer \/ Silence \/ Wait
    \/ CloseAll \/ Kill \/ Reap \/ Final

Next ==
    \/ Main \/ Signal \/ ChildReads \/ ChildHangs \/ ChildExits
    \/ \E p \in Peers : PeerConnects(p) \/ PeerEnds(p)

Spec == Init /\ [][Next]_vars

(* The engine runs: its reads, its select and its waits all have a limit in *)
(* time.  A pptp that does not hang reads what it is sent.                  *)
FairSpec == Spec /\ WF_vars(Main) /\ WF_vars(ChildReads)

-----------------------------------------------------------------------------
Outcomes == {"none", "OK STOP", "STATUS", "OK APPLY", "ERR APPLY", "ERR COMMAND"}
PeerStates == {"away", "sending", "shut", "closed"}
PeerType == [text : Commands, state : PeerStates, reply : Outcomes]

(* Each variable has its type.                                              *)
TypeOK ==
    /\ pc \in Ended \cup {"control", "password", "ports", "fork", "ppp", "check", "timers",
                           "select", "pty", "input", "accept", "request", "wait", "close",
                           "farewell", "kill", "reap", "final"}
    /\ ready \in BOOLEAN /\ stop_requested \in BOOLEAN /\ full \in BOOLEAN /\ stray \in BOOLEAN
    /\ control \in [fd : BOOLEAN, file : BOOLEAN]
    /\ peer \in [Peers -> PeerType]
    /\ attempt \in 0..Attempts /\ signals \in 0..MaxSignals /\ length \in 0..MaxRequest
    /\ backlog \in Seq(Peers) /\ Len(backlog) <= Backlog
    /\ serving \in Peers \cup {"nobody"} /\ (pc = "request" => serving \in Peers)
    /\ pptp_pid \in {"none", "child", "reaped"}
    /\ child \in {"none", "reads", "hangs", "zombie", "gone"}

(* kill() never names a process that has been reaped already, whose number  *)
(* may belong to another one: waitpid in the loop sets pptp_pid to -1.      *)
SignalsOwnChild == ~stray

(* A regular end leaves no pptp behind, however it takes SIGTERM.           *)
NoChildLeft == pc = "returned" => child = "gone"

(* After "OK STOP" no other request is answered, although peers may wait    *)
(* for accept: a client told that the engine stops is not followed by one   *)
(* whose APPLY opens ports.  The loop accepts one peer in a round and tests *)
(* stop_requested before the next.                                          *)
StopIsLast ==
    [][(\E p \in Peers : peer[p].reply = "OK STOP")
          => \A q \in Peers : peer'[q].reply = peer[q].reply]_vars

(* A stop request, from a signal or a peer, ends the process, although the  *)
(* signal may come between the loop's test and select, and although a peer  *)
(* may go on sending for as long as it likes.  A pptp that lives and no     *)
(* longer reads is the exception: the write to the pty then never returns.  *)
StopObeyed == stop_requested ~> pc \in Ended \/ child = "hangs"

(* A peer that has sent its request is answered or its connection closed,   *)
(* with the same exception.                                                 *)
PeersServed ==
    \A p \in Peers : peer[p].state = "shut" ~> peer[p].state = "closed" \/ child = "hangs"
=============================================================================
