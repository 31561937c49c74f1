----------------------------- MODULE Listeners -----------------------------
(***************************************************************************)
(* The listening ports of proxy-engine/main.c: how they are opened when    *)
(* the engine starts, and how the control command APPLY replaces them      *)
(* while clients are being served.  A port that is in the old and in the   *)
(* new configuration keeps its socket, whatever its new role; a port that  *)
(* cannot be opened must leave the old configuration as it was.            *)
(*                                                                         *)
(* listen_loopback() is a step of its own: other programs take and release *)
(* ports between two calls, and each call may fail.                        *)
(***************************************************************************)
EXTENDS Integers, Sequences

CONSTANTS
    Ports,          \* local ports, valid_port() of each holds
    Hosts,          \* remote hosts of forwarding rules
    Fds,            \* descriptor numbers socket() can return
    MaxListeners,   \* MAX_LISTENERS
    NULL            \* no host, no port

NoFd == -1

ASSUME ListenerFdsAssumption == Fds \subseteq Nat
ASSUME MaxListenersAssumption == MaxListeners \in Nat /\ MaxListeners >= 2
ASSUME ListenerNullAssumption == NULL \notin Ports \cup Hosts

VARIABLES
    listeners,      \* listeners[0 .. listener_count-1]
    requested,      \* the configuration that an APPLY asks for
    i,              \* the entry at which the opening loop stands
    opened,         \* descriptors that this APPLY has opened
    sockets,        \* the engine's listening sockets, as the kernel has them
    foreign,        \* ports held by other programs
    failed_port,    \* what the last ERR APPLY reported, else NULL
    pc              \* "starting", "idle", "opening" or "exited"

vars == <<listeners, requested, i, opened, sockets, foreign, failed_port, pc>>

Kinds == {"HTTP_PROXY", "SOCKS_PROXY", "FORWARD"}

Listener == [fd : Fds \cup {NoFd}, kind : Kinds, local_port : Ports,
             remote_host : Hosts \cup {NULL}]
Socket == [fd : Fds, port : Ports]

Entry(kind, port, host) ==
    [fd |-> NoFd, kind |-> kind, local_port |-> port, remote_host |-> host]

(* The configurations that main() and apply_request() let through: an HTTP  *)
(* port, a SOCKS port and forwarding rules, no port twice, at most          *)
(* MAX_LISTENERS in all.                                                    *)
Config(s) ==
    /\ Len(s) \in 2..MaxListeners
    /\ s[1].kind = "HTTP_PROXY" /\ s[2].kind = "SOCKS_PROXY"
    /\ \A j \in 3..Len(s) : s[j].kind = "FORWARD"
    /\ \A j, k \in DOMAIN s : s[j].local_port = s[k].local_port => j = k

FdsOf(s) == {s[j].fd : j \in DOMAIN s}
PortsOf(s) == {s[j].local_port : j \in DOMAIN s}
SocketsOf(s) == {[fd |-> s[j].fd, port |-> s[j].local_port] : j \in DOMAIN s}

(* The forwarding rules an APPLY or a command line can ask for, before the  *)
(* ports are compared and the rules counted.                                *)
Requests ==
    UNION {[1..n -> {Entry("FORWARD", p, h) : p \in Ports, h \in Hosts}] :
              n \in 0..(MaxListeners - 1)}
Asked(http, socks, rules) ==
    <<Entry("HTTP_PROXY", http, NULL), Entry("SOCKS_PROXY", socks, NULL)>> \o rules

-----------------------------------------------------------------------------
Init ==
    /\ \E http, socks \in Ports, rules \in Requests :
          /\ Config(Asked(http, socks, rules))
          /\ listeners = Asked(http, socks, rules)
    /\ requested = <<>>
    /\ i = 1
    /\ opened = {}
    /\ sockets = {}
    /\ foreign \in SUBSET Ports
    /\ failed_port = NULL
    /\ pc = "starting"

(* listen_loopback(port) returning fd: it may succeed when no one holds the *)
(* port, and it may fail at any time.                                       *)
listen_loopback(port, fd) ==
    /\ port \notin foreign
    /\ \A s \in sockets : s.port # port /\ s.fd # fd
    /\ sockets' = sockets \cup {[fd |-> fd, port |-> port]}

(* main() opens the listeners one after the other and exits if one fails.   *)
Start ==
    /\ pc = "starting"
    /\ i <= Len(listeners)
    /\ \/ \E fd \in Fds :
             /\ listen_loopback(listeners[i].local_port, fd)
             /\ listeners' = [listeners EXCEPT ![i].fd = fd]
             /\ i' = i + 1
             /\ UNCHANGED pc
       \/ /\ sockets' = {}
          /\ pc' = "exited"
          /\ UNCHANGED <<listeners, i>>
    /\ UNCHANGED <<requested, opened, foreign, failed_port>>

Started ==
    /\ pc = "starting"
    /\ i > Len(listeners)
    /\ pc' = "idle"
    /\ UNCHANGED <<listeners, requested, i, opened, sockets, foreign, failed_port>>

(* apply_request: a request that is no configuration, or cannot be parsed   *)
(* as one, is answered ERR APPLY 0 and changes nothing.                     *)
apply_request ==
    /\ pc = "idle"
    /\ \E http, socks \in Ports, rules \in Requests :
          LET asked == Asked(http, socks, rules) IN
          IF Config(asked)
            THEN /\ requested' = asked
                 /\ i' = 1
                 /\ pc' = "opening"
                 /\ UNCHANGED failed_port
            ELSE /\ failed_port' = NULL
                 /\ UNCHANGED <<requested, i, pc>>
    /\ UNCHANGED <<listeners, opened, sockets, foreign>>

(* Fault: a socket is taken over only for the same role.                    *)
Inherited_by_kind(e) ==
    {j \in DOMAIN listeners : /\ listeners[j].local_port = e.local_port
                              /\ listeners[j].kind = e.kind}

(* The listener whose socket entry e takes over.                            *)
Inherited(e) == {j \in DOMAIN listeners : listeners[j].local_port = e.local_port}

(* Fault: what was opened before the failure stays open.                    *)
Undone_nothing == sockets

(* The sockets left after reconfigure_listeners has given up.               *)
Undone == {s \in sockets : s.fd \notin opened}

(* One entry of reconfigure_listeners' first loop: take over the socket of  *)
(* a listener on the same port, else open one, else undo and give up.       *)
Open ==
    LET e == requested[i] IN
    /\ pc = "opening"
    /\ i <= Len(requested)
    /\ \/ \E j \in Inherited(e) :
             /\ requested' = [requested EXCEPT ![i].fd = listeners[j].fd]
             /\ i' = i + 1
             /\ UNCHANGED <<opened, sockets, failed_port, pc>>
       \/ /\ Inherited(e) = {}
          /\ \E fd \in Fds :
                /\ listen_loopback(e.local_port, fd)
                /\ requested' = [requested EXCEPT ![i].fd = fd]
                /\ opened' = opened \cup {fd}
                /\ i' = i + 1
                /\ UNCHANGED <<failed_port, pc>>
       \/ /\ Inherited(e) = {}
          /\ failed_port' = e.local_port
          /\ sockets' = Undone
          /\ opened' = {}
          /\ pc' = "idle"
          /\ UNCHANGED <<requested, i>>
    /\ UNCHANGED <<listeners, foreign>>

(* Fault: every old socket is closed.                                       *)
Remaining_new_only == {s \in sockets : s.fd \notin FdsOf(listeners)}

(* The sockets left by the second loop: an old one only if it is kept.      *)
Remaining ==
    {s \in sockets : s.fd \in FdsOf(listeners) => s.fd \in FdsOf(requested)}

(* The second loop and the memcpy: close what is not kept, then switch.     *)
Switch ==
    /\ pc = "opening"
    /\ i > Len(requested)
    /\ sockets' = Remaining
    /\ listeners' = requested
    /\ opened' = {}
    /\ failed_port' = NULL
    /\ pc' = "idle"
    /\ UNCHANGED <<requested, i, foreign>>

(* The main loop ends, or main() gives up after the listeners are open: the *)
(* process exits and the kernel closes its sockets.                         *)
Exit ==
    /\ pc = "idle"
    /\ sockets' = {}
    /\ pc' = "exited"
    /\ UNCHANGED <<listeners, requested, i, opened, foreign, failed_port>>

(* Another program takes or releases a port.                                *)
Others ==
    /\ \E p \in Ports :
          \/ /\ p \notin foreign
             /\ \A s \in sockets : s.port # p
             /\ foreign' = foreign \cup {p}
          \/ foreign' = foreign \ {p}
    /\ UNCHANGED <<listeners, requested, i, opened, sockets, failed_port, pc>>

Next == Start \/ Started \/ apply_request \/ Open \/ Switch \/ Exit \/ Others

Spec == Init /\ [][Next]_vars

-----------------------------------------------------------------------------
(* Every listener is a valid entry, every socket a descriptor on a port,    *)
(* and neither listeners[] nor requested[] outgrows MAX_LISTENERS.          *)
TypeOK ==
    /\ listeners \in Seq(Listener)
    /\ requested \in Seq(Listener)
    /\ Len(listeners) <= MaxListeners /\ Len(requested) <= MaxListeners
    /\ i \in Nat
    /\ opened \subseteq Fds
    /\ sockets \subseteq Socket
    /\ foreign \subseteq Ports
    /\ failed_port \in Ports \cup {NULL}
    /\ pc \in {"starting", "idle", "opening", "exited"}

(* The engine is never without the configuration it reports: each of its    *)
(* listeners has its own open socket on its own port, also while an APPLY   *)
(* is half done and after one has failed.                                   *)
StillServing ==
    pc \in {"idle", "opening"} =>
        /\ SocketsOf(listeners) \subseteq sockets
        /\ Config(listeners)
        /\ \A j, k \in DOMAIN listeners : listeners[j].fd = listeners[k].fd => j = k

(* Between two requests the engine listens on no port but its listeners':   *)
(* a failed APPLY closes what it opened, a successful one what it replaced. *)
NoStraySocket == pc = "idle" => sockets = SocketsOf(listeners)

(* APPLY never fails on a port the engine itself listens on: ports may be   *)
(* exchanged between HTTP, SOCKS and forwarding rules at any time.          *)
OwnPortNeverFails ==
    [][pc = "opening" /\ pc' = "idle" => failed_port' \notin PortsOf(listeners)]_vars

(* A port that is configured before and after a step keeps its socket, so   *)
(* no client waiting in its queue is lost, even if APPLY gives the port     *)
(* another role.                                                            *)
KeptSocket ==
    [][pc # "starting" /\ pc' # "exited" =>
          \A s \in sockets : s.port \in PortsOf(listeners) \cap PortsOf(listeners')
                               => s \in sockets']_vars
=============================================================================
