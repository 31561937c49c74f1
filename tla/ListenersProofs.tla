-------------------------- MODULE ListenersProofs --------------------------
(***************************************************************************)
(* Proofs about Listeners, for every set of ports and descriptors.  The    *)
(* inductive invariant says which sockets are open at each point: those of *)
(* the listeners and, while an APPLY is under way, those of the entries it *)
(* has dealt with; and that no two sockets share a descriptor or a port.   *)
(***************************************************************************)
EXTENDS Listeners, SequenceTheorems, TLAPS

(* The sockets of the first n entries of s.                                 *)
Bound(s, n) == {[fd |-> s[j].fd, port |-> s[j].local_port] : j \in 1..n}

Unique == \A s, t \in sockets : s.fd = t.fd \/ s.port = t.port => s = t

Starting ==
    /\ Config(listeners)
    /\ i \in 1..(Len(listeners) + 1)
    /\ opened = {}
    /\ \A j \in 1..(i - 1) : listeners[j].fd \in Fds
    /\ sockets = Bound(listeners, i - 1)

Running ==
    /\ Config(listeners)
    /\ \A j \in DOMAIN listeners : listeners[j].fd \in Fds

Idle ==
    /\ Running
    /\ opened = {}
    /\ sockets = Bound(listeners, Len(listeners))

Opening ==
    /\ Running
    /\ Config(requested)
    /\ i \in 1..(Len(requested) + 1)
    /\ \A j \in 1..(i - 1) : requested[j].fd \in Fds
    /\ sockets = Bound(listeners, Len(listeners)) \cup Bound(requested, i - 1)
    /\ opened = {s.fd : s \in sockets} \ FdsOf(listeners)

(* The inductive invariant.                                                 *)
Inv ==
    /\ TypeOK
    /\ Unique
    /\ pc = "starting" => Starting
    /\ pc = "idle" => Idle
    /\ pc = "opening" => Opening

-----------------------------------------------------------------------------
(* Bound and SocketsOf say the same of a whole sequence.                    *)
LEMMA BoundAll ==
  ASSUME NEW s \in Seq(Listener)
  PROVE  Bound(s, Len(s)) = SocketsOf(s)
  BY LenProperties DEF Bound, SocketsOf

(* Filling in the descriptor of one entry changes nothing else.             *)
LEMMA PutFd ==
  ASSUME NEW s \in Seq(Listener), NEW n \in 1..Len(s), NEW fd \in Fds \cup {NoFd}
  PROVE  LET t == [s EXCEPT ![n].fd = fd] IN
         /\ t \in Seq(Listener) /\ Len(t) = Len(s)
         /\ \A j \in 1..Len(s) : /\ t[j].fd = IF j = n THEN fd ELSE s[j].fd
                                 /\ t[j].local_port = s[j].local_port
                                 /\ t[j].kind = s[j].kind
  <1> DEFINE e == [s[n] EXCEPT !.fd = fd]
             t == [s EXCEPT ![n] = e]
  <1>1. s[n] \in Listener
    BY ElementOfSeq
  <1>2. /\ e \in Listener /\ e.fd = fd
        /\ e.local_port = s[n].local_port /\ e.kind = s[n].kind
    BY <1>1 DEF Listener
  <1> HIDE DEF e
  <1>3. /\ t \in Seq(Listener) /\ Len(t) = Len(s)
        /\ \A j \in 1..Len(s) : t[j] = IF j = n THEN e ELSE s[j]
    BY <1>2, ExceptSeq
  <1>4. [s EXCEPT ![n].fd = fd] = t
    BY DEF e
  <1> HIDE DEF t
  <1>5. \A j \in 1..Len(s) : /\ t[j].fd = IF j = n THEN fd ELSE s[j].fd
                             /\ t[j].local_port = s[j].local_port
                             /\ t[j].kind = s[j].kind
    BY <1>2, <1>3
  <1> QED
    BY <1>3, <1>4, <1>5

(* It keeps a configuration one, and adds one socket to those so far.      *)
LEMMA PutFdConfig ==
  ASSUME NEW s \in Seq(Listener), NEW n \in 1..Len(s), NEW fd \in Fds, Config(s)
  PROVE  /\ Config([s EXCEPT ![n].fd = fd])
         /\ Bound([s EXCEPT ![n].fd = fd], n)
              = Bound(s, n - 1) \cup {[fd |-> fd, port |-> s[n].local_port]}
  <1> DEFINE t == [s EXCEPT ![n].fd = fd]
  <1>1. /\ t \in Seq(Listener) /\ Len(t) = Len(s)
        /\ \A j \in 1..Len(s) : /\ t[j].fd = IF j = n THEN fd ELSE s[j].fd
                                /\ t[j].local_port = s[j].local_port
                                /\ t[j].kind = s[j].kind
    BY PutFd
  <1> HIDE DEF t
  <1>2. DOMAIN t = 1..Len(s) /\ DOMAIN s = 1..Len(s) /\ Len(s) \in Nat
    BY <1>1, LenProperties
  <1>3. Config(t)
    BY <1>1, <1>2 DEF Config
  <1>4. Bound(t, n) = Bound(s, n - 1) \cup {[fd |-> fd, port |-> s[n].local_port]}
    <2>1. 1..n = (1..(n - 1)) \cup {n} /\ \A j \in 1..(n - 1) : j # n /\ j \in 1..Len(s)
      BY <1>2
    <2> QED
      BY <1>1, <2>1 DEF Bound
  <1> QED
    BY <1>3, <1>4 DEF t

(* A configuration that is asked for is a sequence of listeners without     *)
(* descriptors.                                                             *)
LEMMA AskedType ==
  ASSUME NEW http \in Ports, NEW socks \in Ports, NEW rules \in Requests
  PROVE  Asked(http, socks, rules) \in Seq(Listener)
  <1>1. \A p \in Ports, h \in Hosts \cup {NULL}, k \in Kinds : Entry(k, p, h) \in Listener
    BY DEF Entry, Listener
  <1>2. rules \in Seq(Listener)
    <2>1. PICK n \in Nat : rules \in [1..n -> {Entry("FORWARD", p, h) : p \in Ports, h \in Hosts}]
      BY MaxListenersAssumption DEF Requests
    <2>2. {Entry("FORWARD", p, h) : p \in Ports, h \in Hosts} \subseteq Listener
      BY <1>1 DEF Kinds
    <2>3. rules \in [1..n -> Listener]
      BY <2>1, <2>2
    <2> QED
      BY <2>3, SeqDef
  <1>3. <<Entry("HTTP_PROXY", http, NULL), Entry("SOCKS_PROXY", socks, NULL)>> \in Seq(Listener)
    <2>1. Entry("HTTP_PROXY", http, NULL) \in Listener /\ Entry("SOCKS_PROXY", socks, NULL) \in Listener
      BY <1>1 DEF Kinds
    <2> QED
      BY <2>1
  <1> QED
    BY <1>2, <1>3, ConcatProperties DEF Asked

(* The invariant holds when main() reaches its loop over the listeners.     *)
LEMMA InitInv == Init => Inv
  <1> SUFFICES ASSUME Init PROVE Inv
    OBVIOUS
  <1>1. listeners \in Seq(Listener) /\ Config(listeners)
    BY AskedType DEF Init
  <1>2. TypeOK
    <2>1. Len(listeners) <= MaxListeners /\ Len(<<>>) <= MaxListeners
      BY <1>1, MaxListenersAssumption DEF Config
    <2> QED
      BY <1>1, <2>1, EmptySeq DEF Init, TypeOK
  <1>3. Starting
    <2>1. Len(listeners) \in Nat
      BY <1>1, LenProperties
    <2> QED
      BY <1>1, <2>1 DEF Init, Starting, Bound
  <1> QED
    BY <1>2, <1>3 DEF Init, Inv, Unique

-----------------------------------------------------------------------------
(* The descriptors of a sequence are those of its sockets.                  *)
LEMMA FdsBound ==
  ASSUME NEW s \in Seq(Listener)
  PROVE  FdsOf(s) = {x.fd : x \in Bound(s, Len(s))}
  <1> DEFINE sock(j) == [fd |-> s[j].fd, port |-> s[j].local_port]
  <1>1. DOMAIN s = 1..Len(s)
    BY LenProperties
  <1>2. \A j : sock(j).fd = s[j].fd
    OBVIOUS
  <1>3. Bound(s, Len(s)) = {sock(j) : j \in 1..Len(s)}
    BY DEF Bound
  <1> HIDE DEF sock
  <1> QED
    BY <1>1, <1>2, <1>3 DEF FdsOf

(* A new socket keeps descriptors and ports distinct.                       *)
LEMMA UniqueListen ==
  ASSUME Unique, NEW port, NEW fd, listen_loopback(port, fd)
  PROVE  Unique'
  BY DEF Unique, listen_loopback

(* Each action of the model preserves the invariant.                        *)
LEMMA StartInv ==
  ASSUME Inv, Start
  PROVE  Inv'
  <1> USE DEF Start
  <1>1. TypeOK /\ Unique /\ Starting
    BY DEF Inv
  <1>2. CASE pc' = "exited" /\ sockets' = {} /\ UNCHANGED <<listeners, i>>
    BY <1>1, <1>2 DEF Inv, TypeOK, Unique
  <1>3. ASSUME NEW fd \in Fds,
               listen_loopback(listeners[i].local_port, fd),
               listeners' = [listeners EXCEPT ![i].fd = fd],
               i' = i + 1, pc' = pc
        PROVE  Inv'
    <2>1. listeners \in Seq(Listener) /\ i \in 1..Len(listeners) /\ Len(listeners) \in Nat
      <3>1. listeners \in Seq(Listener) /\ i \in Nat /\ Len(listeners) \in Nat
        BY <1>1, LenProperties DEF TypeOK
      <3>2. i <= Len(listeners) /\ i >= 1
        BY <1>1 DEF Starting
      <3> QED
        BY <3>1, <3>2
    <2>2. listeners[i] \in Listener
      BY <2>1, ElementOfSeq
    <2>3. /\ listeners' \in Seq(Listener) /\ Len(listeners') = Len(listeners)
          /\ \A j \in 1..Len(listeners) :
                listeners'[j].fd = IF j = i THEN fd ELSE listeners[j].fd
      BY <1>3, <2>1, PutFd
    <2>4. /\ Config(listeners')
          /\ Bound(listeners', i)
               = Bound(listeners, i - 1) \cup {[fd |-> fd, port |-> listeners[i].local_port]}
      BY <1>1, <1>3, <2>1, PutFdConfig DEF Starting
    <2>5. TypeOK'
      <3>1. [fd |-> fd, port |-> listeners[i].local_port] \in Socket
        BY <2>2 DEF Listener, Socket
      <3> QED
        BY <1>1, <1>3, <2>1, <2>3, <3>1 DEF TypeOK, listen_loopback
    <2>6. i' - 1 = i /\ i' \in 1..(Len(listeners') + 1)
      BY <1>3, <2>1, <2>3
    <2>7. \A j \in 1..i : listeners'[j].fd \in Fds
      <3>1. \A j \in 1..i : j \in 1..Len(listeners) /\ (j # i => j \in 1..(i - 1))
        BY <2>1
      <3> QED
        BY <1>1, <2>3, <3>1 DEF Starting
    <2>8. sockets' = Bound(listeners', i)
      BY <1>1, <1>3, <2>4 DEF listen_loopback, Starting
    <2>9. Starting'
      <3>1. /\ \A j \in 1..(i' - 1) : listeners'[j].fd \in Fds
            /\ sockets' = Bound(listeners', i' - 1)
        BY <2>6, <2>7, <2>8
      <3> QED
        BY <1>1, <2>4, <2>6, <3>1 DEF Starting, Bound
    <2> QED
      BY <1>1, <1>3, <2>5, <2>9, UniqueListen DEF Inv
  <1> QED
    BY <1>2, <1>3

LEMMA StartedInv ==
  ASSUME Inv, Started
  PROVE  Inv'
  <1>1. TypeOK /\ Unique /\ Starting
    BY DEF Inv, Started
  <1>2. /\ listeners \in Seq(Listener) /\ Len(listeners) \in Nat
        /\ i - 1 = Len(listeners) /\ DOMAIN listeners = 1..Len(listeners)
    BY <1>1, LenProperties DEF TypeOK, Starting, Started
  <1>3. Idle
    BY <1>1, <1>2 DEF Idle, Running, Starting
  <1>4. Idle' /\ Unique' /\ TypeOK'
    BY <1>1, <1>3 DEF Started, Idle, Running, Unique, TypeOK
  <1> QED
    BY <1>4 DEF Inv, Started

LEMMA ApplyInv ==
  ASSUME Inv, apply_request
  PROVE  Inv'
  <1>1. TypeOK /\ Unique /\ Idle
    BY DEF Inv, apply_request
  <1>2. Unique' /\ Running' /\ Idle'
    BY <1>1 DEF Unique, Running, Idle, apply_request
  <1>3. PICK http \in Ports, socks \in Ports, rules \in Requests :
           LET asked == Asked(http, socks, rules) IN
           IF Config(asked)
             THEN requested' = asked /\ i' = 1 /\ pc' = "opening" /\ UNCHANGED failed_port
             ELSE failed_port' = NULL /\ UNCHANGED <<requested, i, pc>>
    BY DEF apply_request
  <1>4. CASE ~Config(Asked(http, socks, rules))
    <2>1. TypeOK'
      BY <1>1, <1>3, <1>4 DEF TypeOK, apply_request
    <2> QED
      BY <1>2, <1>3, <1>4, <2>1 DEF Inv, apply_request
  <1>5. CASE Config(Asked(http, socks, rules))
    <2>1. requested' \in Seq(Listener) /\ Config(requested') /\ i' = 1 /\ pc' = "opening"
      BY <1>3, <1>5, AskedType
    <2>2. Len(requested') \in Nat /\ Len(requested') <= MaxListeners
      BY <2>1, LenProperties, MaxListenersAssumption DEF Config
    <2>3. TypeOK'
      BY <1>1, <1>3, <1>5, <2>1, <2>2 DEF TypeOK, apply_request
    <2>4. Opening'
      <3>1. FdsOf(listeners) = {s.fd : s \in sockets}
        BY <1>1, FdsBound DEF TypeOK, Idle
      <3>2. i' \in 1..(Len(requested') + 1) /\ 1..(i' - 1) = {}
        BY <2>1, <2>2
      <3>3. (Config(requested))'
        BY <2>1 DEF Config
      <3>4. (opened = {s.fd : s \in sockets} \ FdsOf(listeners))'
        BY <1>1, <3>1 DEF apply_request, Idle, FdsOf
      <3>5. (sockets = Bound(listeners, Len(listeners)) \cup Bound(requested, i - 1))'
        BY <1>2, <3>2 DEF Idle, Bound
      <3> QED
        BY <1>2, <3>2, <3>3, <3>4, <3>5 DEF Opening
    <2> QED
      BY <1>2, <2>1, <2>3, <2>4 DEF Inv
  <1> QED
    BY <1>4, <1>5

LEMMA OpenInv ==
  ASSUME Inv, Open
  PROVE  Inv'
  <1> DEFINE e == requested[i]
             old == Bound(listeners, Len(listeners))
  <1>1. TypeOK /\ Unique /\ Opening
    BY DEF Inv, Open
  <1>2. /\ listeners \in Seq(Listener) /\ requested \in Seq(Listener)
        /\ Len(requested) \in Nat /\ Len(listeners) \in Nat
        /\ DOMAIN listeners = 1..Len(listeners)
        /\ i \in Nat /\ i >= 1 /\ i <= Len(requested)
    BY <1>1, LenProperties DEF TypeOK, Opening, Open
  <1>3. i \in 1..Len(requested) /\ e \in Listener
    BY <1>2, ElementOfSeq
  <1>4. /\ Config(requested) /\ Running
        /\ sockets = old \cup Bound(requested, i - 1)
        /\ opened = {s.fd : s \in sockets} \ FdsOf(listeners)
        /\ \A j \in 1..(i - 1) : requested[j].fd \in Fds
    BY <1>1 DEF Opening
  <1>5. listeners' = listeners /\ foreign' = foreign /\ Running' /\ (old)' = old
    BY <1>4 DEF Open, Running, Bound
  <1>6. FdsOf(listeners) = {s.fd : s \in old}
    BY <1>2, FdsBound
  (* What the first two alternatives have in common.                         *)
  <1>7. ASSUME NEW fd \in Fds,
               requested' = [requested EXCEPT ![i].fd = fd],
               i' = i + 1, pc' = pc, failed_port' = failed_port,
               sockets' \subseteq Socket, Unique',
               sockets' = sockets \cup {[fd |-> fd, port |-> e.local_port]},
               opened' = {s.fd : s \in sockets'} \ FdsOf(listeners)
        PROVE  Inv'
    <2>1. /\ requested' \in Seq(Listener) /\ Len(requested') = Len(requested)
          /\ \A j \in 1..Len(requested) :
                requested'[j].fd = IF j = i THEN fd ELSE requested[j].fd
      BY <1>2, <1>3, <1>7, PutFd
    <2>2. /\ Config(requested')
          /\ Bound(requested', i)
               = Bound(requested, i - 1) \cup {[fd |-> fd, port |-> e.local_port]}
      BY <1>2, <1>3, <1>4, <1>7, PutFdConfig
    <2>3. opened' \subseteq Fds
      BY <1>7 DEF Socket
    <2>4. TypeOK'
      BY <1>1, <1>2, <1>5, <1>7, <2>1, <2>3 DEF TypeOK
    <2>5. i' - 1 = i /\ i' \in 1..(Len(requested') + 1)
      BY <1>2, <1>7, <2>1
    <2>6. \A j \in 1..i : requested'[j].fd \in Fds
      <3>1. \A j \in 1..i : j \in 1..Len(requested) /\ (j # i => j \in 1..(i - 1))
        BY <1>2
      <3> QED
        BY <1>4, <2>1, <3>1
    <2>7. Opening'
      <3>1. sockets' = old \cup Bound(requested', i)
        BY <1>4, <1>7, <2>2
      <3>2. (sockets = old \cup Bound(requested, i - 1))'
        BY <1>5, <2>5, <3>1 DEF Bound
      <3>3. (opened = {s.fd : s \in sockets} \ FdsOf(listeners))'
        BY <1>5, <1>7 DEF FdsOf
      <3>4. (Config(requested))'
        BY <2>2 DEF Config
      <3>5. (\A j \in 1..(i - 1) : requested[j].fd \in Fds)'
        BY <2>5, <2>6
      <3> QED
        BY <1>5, <2>5, <3>2, <3>3, <3>4, <3>5 DEF Opening
    <2> QED
      BY <1>7, <2>4, <2>7 DEF Inv, Open
  <1>8. ASSUME NEW j \in Inherited(e),
               requested' = [requested EXCEPT ![i].fd = listeners[j].fd],
               i' = i + 1, UNCHANGED <<opened, sockets, failed_port, pc>>
        PROVE  Inv'
    <2>1. j \in DOMAIN listeners /\ listeners[j].local_port = e.local_port
      BY DEF Inherited
    <2>2. listeners[j].fd \in Fds
      BY <1>4, <2>1 DEF Running
    <2>3. [fd |-> listeners[j].fd, port |-> e.local_port] \in old
      BY <1>2, <2>1 DEF Bound
    <2>4. sockets' = sockets \cup {[fd |-> listeners[j].fd, port |-> e.local_port]}
      BY <1>4, <1>8, <2>3
    <2>5. Unique' /\ sockets' \subseteq Socket
      BY <1>1, <1>8 DEF Unique, TypeOK
    <2>6. opened' = {s.fd : s \in sockets'} \ FdsOf(listeners)
      BY <1>4, <1>8
    <2> HIDE DEF e, old
    <2> QED
      BY <1>7, <1>8, <2>2, <2>4, <2>5, <2>6
  <1>9. ASSUME NEW fd \in Fds,
               listen_loopback(e.local_port, fd),
               requested' = [requested EXCEPT ![i].fd = fd],
               opened' = opened \cup {fd}, i' = i + 1,
               UNCHANGED <<failed_port, pc>>
        PROVE  Inv'
    <2>1. Unique' /\ sockets' = sockets \cup {[fd |-> fd, port |-> e.local_port]}
      BY <1>1, <1>9, UniqueListen DEF listen_loopback
    <2>2. sockets' \subseteq Socket
      BY <1>1, <1>3, <2>1 DEF TypeOK, Listener, Socket
    <2>3. fd \notin FdsOf(listeners)
      BY <1>4, <1>6, <1>9 DEF listen_loopback
    <2>4. {s.fd : s \in sockets'} = {s.fd : s \in sockets} \cup {fd}
      <3> DEFINE new == [fd |-> fd, port |-> e.local_port]
      <3>1. sockets' = sockets \cup {new} /\ new.fd = fd
        BY <2>1
      <3> HIDE DEF new
      <3> QED
        BY <3>1
    <2>5. opened' = {s.fd : s \in sockets'} \ FdsOf(listeners)
      BY <1>4, <1>9, <2>3, <2>4
    <2> HIDE DEF e, old
    <2> QED
      BY <1>7, <1>9, <2>1, <2>2, <2>5
  <1>10. CASE /\ failed_port' = e.local_port /\ sockets' = Undone
              /\ opened' = {} /\ pc' = "idle" /\ UNCHANGED <<requested, i>>
    <2>1. Undone = old
      <3>1. \A s \in old : s \in sockets /\ s.fd \notin opened
        BY <1>4, <1>6
      <3>2. \A s \in sockets : s.fd \notin opened => \E t \in old : s.fd = t.fd
        BY <1>4, <1>6
      <3>3. \A s \in sockets : s.fd \notin opened => s \in old
        BY <1>1, <1>4, <3>2 DEF Unique
      <3> QED
        BY <3>1, <3>3 DEF Undone
    <2>2. Unique' /\ sockets' \subseteq Socket
      BY <1>1, <1>4, <1>10, <2>1 DEF Unique, TypeOK
    <2>3. e.local_port \in Ports
      BY <1>3 DEF Listener
    <2>4. TypeOK'
      BY <1>1, <1>5, <1>10, <2>2, <2>3 DEF TypeOK
    <2>5. Idle'
      BY <1>5, <1>10, <2>1 DEF Idle
    <2> QED
      BY <1>10, <2>2, <2>4, <2>5 DEF Inv
  <1> HIDE DEF old
  <1> QED
    BY <1>8, <1>9, <1>10 DEF Open

LEMMA SwitchInv ==
  ASSUME Inv, Switch
  PROVE  Inv'
  <1> DEFINE old == Bound(listeners, Len(listeners))
             new == Bound(requested, Len(requested))
  <1>1. TypeOK /\ Unique /\ Opening
    BY DEF Inv, Switch
  <1>2. /\ listeners \in Seq(Listener) /\ requested \in Seq(Listener)
        /\ Len(requested) \in Nat /\ DOMAIN requested = 1..Len(requested)
        /\ i \in Nat /\ i <= Len(requested) + 1 /\ i > Len(requested)
    BY <1>1, LenProperties DEF TypeOK, Opening, Switch
  <1>3. i - 1 = Len(requested)
    BY <1>2
  <1>4. FdsOf(listeners) = {s.fd : s \in old} /\ FdsOf(requested) = {s.fd : s \in new}
    BY <1>2, FdsBound
  <1>5. sockets = old \cup new
    BY <1>1, <1>3 DEF Opening
  <1>6. Remaining = new
    <2>1. \A s \in sockets : s.fd \in FdsOf(requested) => s \in new
      BY <1>1, <1>4, <1>5 DEF Unique
    <2>2. \A s \in old : s.fd \in FdsOf(listeners)
      BY <1>4
    <2>3. \A s \in new : s.fd \in FdsOf(requested)
      BY <1>4
    <2> QED
      BY <1>5, <2>1, <2>2, <2>3 DEF Remaining
  <1>7. Unique' /\ sockets' \subseteq Socket
    BY <1>1, <1>5, <1>6 DEF Unique, TypeOK, Switch
  <1>8. TypeOK'
    BY <1>1, <1>7 DEF TypeOK, Switch
  <1>9. Idle'
    <2>1. (Config(listeners))'
      BY <1>1 DEF Opening, Config, Switch
    <2>2. (\A j \in DOMAIN listeners : listeners[j].fd \in Fds)'
      BY <1>1, <1>2, <1>3 DEF Opening, Switch
    <2>3. (sockets = Bound(listeners, Len(listeners)))'
      BY <1>6 DEF Bound, Switch
    <2> QED
      BY <2>1, <2>2, <2>3 DEF Idle, Running, Switch
  <1> QED
    BY <1>7, <1>8, <1>9 DEF Inv, Switch

(* Exit, what other programs do, and steps that change nothing.             *)
LEMMA RestInv ==
  ASSUME Inv, Exit \/ Others \/ UNCHANGED vars
  PROVE  Inv'
  <1>1. CASE Exit
    BY <1>1 DEF Inv, Exit, TypeOK, Unique
  <1>2. CASE Others \/ UNCHANGED vars
    <2>1. UNCHANGED <<listeners, requested, i, opened, sockets, failed_port, pc>>
      BY <1>2 DEF Others, vars
    <2>2. TypeOK'
      BY <1>2, <2>1 DEF Inv, TypeOK, Others, vars
    <2>3. Unique' /\ (Starting => Starting') /\ (Idle => Idle') /\ (Opening => Opening')
      BY <2>1 DEF Inv, Unique, Starting, Idle, Opening, Running, Config, Bound, FdsOf
    <2> QED
      BY <2>1, <2>2, <2>3 DEF Inv
  <1> QED
    BY <1>1, <1>2

LEMMA NextInv == Inv /\ [Next]_vars => Inv'
  BY StartInv, StartedInv, ApplyInv, OpenInv, SwitchInv, RestInv DEF Next

-----------------------------------------------------------------------------
(* The inductive invariant holds in every reachable state.                  *)
THEOREM ListenersInvariance == Spec => []Inv
  BY InitInv, NextInv, PTL DEF Spec

(* listeners[] and requested[] keep their type and never outgrow            *)
(* MAX_LISTENERS.                                                           *)
THEOREM ListenersTypeCorrect == Spec => []TypeOK
  <1>1. Inv => TypeOK
    BY DEF Inv
  <1> QED
    BY <1>1, ListenersInvariance, PTL

(* Every listener has its own socket on its port at all times, also in the  *)
(* middle of reconfigure_listeners and after it has given up.               *)
THEOREM AlwaysServing == Spec => []StillServing
  <1>1. Inv => StillServing
    <2> SUFFICES ASSUME Inv, pc \in {"idle", "opening"} PROVE StillServing
      BY DEF StillServing
    <2>1. /\ listeners \in Seq(Listener) /\ Unique /\ Config(listeners)
          /\ Bound(listeners, Len(listeners)) \subseteq sockets
      BY DEF Inv, Idle, Opening, Running, TypeOK
    <2>2. SocketsOf(listeners) \subseteq sockets
      BY <2>1, BoundAll
    <2>3. ASSUME NEW j \in DOMAIN listeners, NEW k \in DOMAIN listeners,
                 listeners[j].fd = listeners[k].fd
          PROVE  j = k
      <3> DEFINE sock(n) == [fd |-> listeners[n].fd, port |-> listeners[n].local_port]
      <3>1. sock(j) \in sockets /\ sock(k) \in sockets
        BY <2>2 DEF SocketsOf
      <3>2. sock(j).fd = sock(k).fd
        BY <2>3
      <3>3. sock(j) = sock(k)
        BY <2>1, <3>1, <3>2 DEF Unique
      <3>4. listeners[j].local_port = listeners[k].local_port
        BY <3>3
      <3> QED
        BY <2>1, <3>4 DEF Config
    <2> QED
      BY <2>1, <2>2, <2>3 DEF StillServing
  <1> QED
    BY <1>1, ListenersInvariance, PTL

(* Whenever no APPLY is under way, the sockets are exactly the listeners'.  *)
THEOREM NothingLeaks == Spec => []NoStraySocket
  <1>1. Inv => NoStraySocket
    BY BoundAll DEF Inv, Idle, NoStraySocket, TypeOK
  <1> QED
    BY <1>1, ListenersInvariance, PTL

(* reconfigure_listeners never reports a port that the engine listens on.   *)
THEOREM OwnPorts == Spec => OwnPortNeverFails
  <1> DEFINE A == pc = "opening" /\ pc' = "idle" => failed_port' \notin PortsOf(listeners)
  <1>1. Inv /\ Inv' /\ [Next]_vars => [A]_vars
    <2> SUFFICES ASSUME Inv, Next, pc = "opening", pc' = "idle"
                 PROVE  failed_port' \notin PortsOf(listeners)
      OBVIOUS
    <2>1. Open \/ Switch
      BY DEF Next, Start, Started, apply_request, Exit, Others
    <2>2. CASE Open
      BY <2>2 DEF Open, Inherited, PortsOf
    <2>3. CASE Switch
      <3>1. \A j \in DOMAIN listeners : listeners[j].local_port \in Ports
        <4>1. listeners \in Seq(Listener) /\ DOMAIN listeners = 1..Len(listeners)
          BY LenProperties DEF Inv, TypeOK
        <4>2. \A j \in DOMAIN listeners : listeners[j] \in Listener
          BY <4>1, ElementOfSeq
        <4> QED
          BY <4>2 DEF Listener
      <3> QED
        BY <2>3, <3>1, ListenerNullAssumption DEF Switch, PortsOf
    <2> QED
      BY <2>1, <2>2, <2>3
  <1> QED
    BY <1>1, ListenersInvariance, PTL DEF Spec, OwnPortNeverFails

(* No step of an APPLY closes the socket of a port that stays configured.   *)
THEOREM SocketsKept == Spec => KeptSocket
  <1> DEFINE A == pc # "starting" /\ pc' # "exited" =>
                    \A s \in sockets :
                       s.port \in PortsOf(listeners) \cap PortsOf(listeners')
                         => s \in sockets'
  <1>1. Inv /\ Inv' /\ [Next]_vars => [A]_vars
    <2> SUFFICES ASSUME Inv, Inv', Next, pc # "starting", pc' # "exited",
                        NEW s \in sockets,
                        s.port \in PortsOf(listeners) \cap PortsOf(listeners')
                 PROVE  s \in sockets'
      OBVIOUS
    <2>1. CASE sockets \subseteq sockets'
      BY <2>1
    <2>2. CASE pc = "opening" /\ pc' = "idle"
      <3>1. Unique /\ Opening /\ (Idle)' /\ (listeners \in Seq(Listener))'
            /\ listeners \in Seq(Listener)
        BY <2>2 DEF Inv, TypeOK
      <3>2. SocketsOf(listeners') = sockets'
        BY <3>1, BoundAll DEF Idle, Bound, SocketsOf
      <3>3. PICK j \in DOMAIN listeners' : listeners'[j].local_port = s.port
        BY DEF PortsOf
      <3>4. [fd |-> listeners'[j].fd, port |-> s.port] \in sockets'
        BY <3>2, <3>3 DEF SocketsOf
      <3>5. sockets' \subseteq sockets
        BY <2>2 DEF Next, Start, Started, apply_request, Open, Switch, Exit, Others,
                    Undone, Remaining
      <3> QED
        BY <3>1, <3>4, <3>5 DEF Unique
    <2> QED
      BY <2>1, <2>2 DEF Inv, TypeOK, Next, Start, Started, apply_request, Open, Switch,
                        Exit, Others, listen_loopback
  <1> QED
    BY <1>1, ListenersInvariance, PTL DEF Spec, KeptSocket
=============================================================================
