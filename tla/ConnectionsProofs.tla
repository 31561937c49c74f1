------------------------- MODULE ConnectionsProofs -------------------------
(***************************************************************************)
(* Proofs about Connections, for every number of slots, pcbs, descriptors  *)
(* and hosts.  The argument: every handler but two changes one slot, in a  *)
(* way that SlotStep describes; SlotStep preserves the invariant.          *)
(*                                                                         *)
(* Then proofs about EventLoop: the loop only ever takes steps of          *)
(* Connections, so everything proved there holds of it; and the room it    *)
(* checks before select() is still there when it reads.                    *)
(***************************************************************************)
EXTENDS EventLoop, TLAPS

(* The inductive invariant.                                                 *)
Inv ==
    /\ TypeOK
    /\ SlotConsistency
    /\ FdOwnership
    /\ PcbOwnership
    /\ TunnelGate
    /\ RightDestination
    /\ DnsOwnership

Unused(q) == q.arg = NULL /\ q.state \in {"free", "closing"}

(* A slot's descriptor is kept or closed; a new client's is only given to a *)
(* slot that has no DNS answer to come.                                     *)
NewFd(i, fd) ==
    \/ fd \in {NoFd, connections[i].fd}
    \/ fd \in Fds \ open /\ connections[i].fd = NoFd /\ ~connections[i].resolving

(* Slot i becomes r.  The pcb it had, if it no longer has it, is no one's;  *)
(* the pcb it has is connecting or established on its behalf; no other      *)
(* slot's pcb changes.  Its DNS request, if any, is for its host.           *)
SlotStep(i, r) ==
    /\ r \in Connection
    /\ Consistent(r)
    /\ connections' = [connections EXCEPT ![i] = r]
    /\ pcbs' \in [Pcbs -> Pcb]
    /\ \A p \in Pcbs : p # r.tcp =>
          \/ pcbs'[p] = pcbs[p] /\ p # connections[i].tcp
          \/ Unused(pcbs'[p]) /\ (pcbs[p].arg = NULL \/ pcbs[p].arg = i)
    /\ r.tcp # NULL =>
          /\ pcbs[r.tcp].arg \in {NULL, i}
          /\ pcbs'[r.tcp].arg = i
          /\ pcbs'[r.tcp].remote = r.host
          /\ \/ pcbs'[r.tcp].state = "connecting" /\ r.phase = "CONNECTING"
             \/ pcbs'[r.tcp].state = "established" /\ r.phase = "STREAMING"
    /\ NewFd(i, r.fd)
    /\ open' = (open \ {connections[i].fd}) \cup ({r.fd} \ {NoFd})
    /\ dns' \subseteq [slot : Slots, name : Names]
    /\ \A d \in dns' \cup dns : d.slot # i => d \in dns /\ d \in dns'
    /\ r.resolving <=> \E d \in dns' : d.slot = i
    /\ \A d \in dns' : d.slot = i => d.name = r.host
    /\ r.phase \in TargetPhases => link_up
    /\ link_up' = link_up

(* The invariant holds when main() has cleared the table.                   *)
LEMMA InitInv == Init => Inv
  <1> SUFFICES ASSUME Init PROVE Inv
    OBVIOUS
  <1> USE MaxConnectionsAssumption, FdsAssumption, NullAssumption, SizesAssumption
  <1>1. EmptyConnection(NoFd) \in Connection
    BY DEF EmptyConnection, Connection, Kinds, Phases, HeaderPhases, TargetPhases, NoFd
  <1>2. FreePcb \in Pcb
    BY DEF FreePcb, Pcb
  <1>3. TypeOK
    BY <1>1, <1>2 DEF TypeOK, Init
  <1>4. SlotConsistency
    BY DEF Init, SlotConsistency, Consistent, EmptyConnection, TargetPhases, NoFd
  <1>5. FdOwnership
    BY DEF Init, FdOwnership, EmptyConnection
  <1>6. PcbOwnership
    BY DEF Init, PcbOwnership, EmptyConnection, FreePcb, Slots
  <1>7. TunnelGate /\ RightDestination /\ DnsOwnership
    BY DEF Init, TunnelGate, RightDestination, DnsOwnership, EmptyConnection, FreePcb,
           TargetPhases, Slots
  <1> QED
    BY <1>3, <1>4, <1>5, <1>6, <1>7 DEF Inv

(* What one slot's change leaves true of the whole table.                   *)
LEMMA SlotStepInv ==
  ASSUME Inv, NEW i \in Slots, NEW r, SlotStep(i, r)
  PROVE  Inv'
  <1> USE NullAssumption
  <1>1. /\ connections \in [Slots -> Connection]
        /\ connections' \in [Slots -> Connection]
        /\ connections'[i] = r
        /\ \A j \in Slots : j # i => connections'[j] = connections[j]
    BY DEF SlotStep, Inv, TypeOK
  <1>2. TypeOK'
    <2>1. r.fd \in {NoFd} \cup Fds
      BY DEF SlotStep, Connection
    <2>2. open' \subseteq Fds
      BY <2>1 DEF SlotStep, Inv, TypeOK
    <2> QED
      BY <1>1, <2>2 DEF SlotStep, Inv, TypeOK
  <1>3. SlotConsistency'
    BY <1>1 DEF SlotStep, Inv, SlotConsistency, Consistent
  <1>4. FdOwnership'
    <2>1. \A j \in Slots : connections[j].fd # NoFd => connections[j].fd \in open
      BY DEF Inv, FdOwnership
    <2>2. \A j \in Slots : j # i /\ connections[j].fd = r.fd => r.fd = NoFd
      BY <2>1, <1>1 DEF Inv, FdOwnership, SlotStep, NewFd
    <2>3. ASSUME NEW j \in Slots, NEW k \in Slots, connections'[j].fd = connections'[k].fd
          PROVE  j = k \/ connections'[j].fd = NoFd
      BY <1>1, <2>2, <2>3 DEF Inv, FdOwnership
    <2>4. open' = {connections'[j].fd : j \in Slots} \ {NoFd}
      <3>1. ASSUME NEW f \in open' PROVE f \in {connections'[j].fd : j \in Slots} \ {NoFd}
        <4>1. CASE f = r.fd /\ r.fd # NoFd
          BY <4>1, <1>1
        <4>2. CASE f \in open \ {connections[i].fd}
          BY <4>2, <1>1 DEF Inv, FdOwnership
        <4> QED
          BY <3>1, <4>1, <4>2 DEF SlotStep
      <3>2. ASSUME NEW j \in Slots, connections'[j].fd # NoFd PROVE connections'[j].fd \in open'
        <4>1. CASE j = i
          BY <4>1, <3>2, <1>1 DEF SlotStep
        <4>2. CASE j # i
          <5>1. connections[j].fd \in open /\ connections[j].fd # connections[i].fd
            BY <4>2, <3>2, <1>1, <2>1 DEF Inv, FdOwnership
          <5> QED
            BY <5>1, <4>2, <1>1 DEF SlotStep
        <4> QED
          BY <4>1, <4>2
      <3> QED
        BY <3>1, <3>2
    <2> QED
      BY <2>3, <2>4 DEF FdOwnership
  <1>5. PcbOwnership'
    <2>1. /\ pcbs \in [Pcbs -> Pcb] /\ pcbs' \in [Pcbs -> Pcb]
          /\ r.tcp \in Pcbs \cup {NULL} /\ connections[i].tcp \in Pcbs \cup {NULL}
      BY <1>1 DEF SlotStep, Inv, TypeOK, Connection
    <2>2. ASSUME NEW p \in Pcbs, NEW j \in Slots
          PROVE  pcbs'[p].arg = j <=> connections'[j].tcp = p
      <3>1. CASE p = r.tcp
        BY <3>1, <2>1, <1>1 DEF SlotStep, Inv, PcbOwnership
      <3>2. CASE p # r.tcp
        BY <3>2, <2>1, <1>1 DEF SlotStep, Inv, PcbOwnership, Unused
      <3> QED
        BY <3>1, <3>2
    <2>3. ASSUME NEW p \in Pcbs
          PROVE  /\ pcbs'[p].state \in {"free", "closing"} <=> pcbs'[p].arg = NULL
                 /\ \A j \in Slots : pcbs'[p].arg = j =>
                      connections'[j].phase = IF pcbs'[p].state = "connecting"
                                                THEN "CONNECTING" ELSE "STREAMING"
      <3>1. CASE p = r.tcp
        BY <3>1, <2>1, <1>1 DEF SlotStep
      <3>2. CASE p # r.tcp
        BY <3>2, <2>1, <1>1 DEF SlotStep, Inv, PcbOwnership, Unused
      <3> QED
        BY <3>1, <3>2
    <2> QED
      BY <2>2, <2>3 DEF PcbOwnership
  <1>6. TunnelGate'
    BY <1>1 DEF SlotStep, Inv, TunnelGate
  <1>7. RightDestination'
    <2>1. ASSUME NEW p \in Pcbs, NEW j \in Slots, pcbs'[p].arg = j
          PROVE  pcbs'[p].remote = connections'[j].host
      <3>1. CASE p = r.tcp
        BY <3>1, <2>1, <1>1 DEF SlotStep
      <3>2. CASE p # r.tcp
        BY <3>2, <2>1, <1>1 DEF SlotStep, Inv, PcbOwnership, RightDestination, Unused
      <3> QED
        BY <3>1, <3>2
    <2> QED
      BY <2>1 DEF RightDestination
  <1>8. DnsOwnership'
    <2>1. ASSUME NEW j \in Slots PROVE connections'[j].resolving <=> \E d \in dns' : d.slot = j
      <3>1. CASE j = i
        BY <3>1, <1>1 DEF SlotStep
      <3>2. CASE j # i
        BY <3>2, <1>1 DEF SlotStep, Inv, DnsOwnership
      <3> QED
        BY <3>1, <3>2
    <2>2. ASSUME NEW d \in dns' PROVE connections'[d.slot].host = d.name
      <3>1. d.slot \in Slots
        BY DEF SlotStep
      <3> QED
        BY <3>1, <1>1 DEF SlotStep, Inv, DnsOwnership
    <2> QED
      BY <2>1, <2>2 DEF DnsOwnership
  <1> QED
    BY <1>2, <1>3, <1>4, <1>5, <1>6, <1>7, <1>8 DEF Inv

-----------------------------------------------------------------------------
(* The parts of handlers as slot steps.                                     *)

(* o is the set of open descriptors once slot i holds c.fd.                 *)
FdFor(i, c, o) ==
    /\ NewFd(i, c.fd)
    /\ o = (open \ {connections[i].fd}) \cup ({c.fd} \ {NoFd})

(* The pending requests of slot i, after the step, are those c stands for.  *)
DnsFor(i, c) ==
    /\ dns' \subseteq [slot : Slots, name : Names]
    /\ \A d \in dns' \cup dns : d.slot # i => d \in dns /\ d \in dns'
    /\ c.resolving <=> \E d \in dns' : d.slot = i
    /\ \A d \in dns' : d.slot = i => d.name = c.host

(* A slot that keeps its descriptor meets the condition on descriptors.     *)
LEMMA FdForSame ==
  ASSUME Inv, NEW i \in Slots, NEW c, c.fd = connections[i].fd
  PROVE  FdFor(i, c, open)
  <1>1. connections[i].fd # NoFd => connections[i].fd \in open
    BY DEF Inv, FdOwnership
  <1>2. NoFd \notin open
    BY FdsAssumption DEF Inv, TypeOK, NoFd
  <1> QED
    BY <1>1, <1>2 DEF FdFor, NewFd

(* A slot that keeps its host and mark meets the condition on dns.          *)
LEMMA DnsForSame ==
  ASSUME Inv, NEW i \in Slots, NEW c, dns' = dns,
         c.resolving = connections[i].resolving,
         c.resolving => c.host = connections[i].host
  PROVE  DnsFor(i, c)
  BY DEF Inv, TypeOK, DnsOwnership, DnsFor

(* What close_connection leaves is a well-formed slot.                      *)
LEMMA ClosedType ==
  ASSUME NEW c \in Connection
  PROVE  Closed(c) \in Connection /\ Consistent(Closed(c))
  <1>1. Closed(c) \in Connection
    <2>1. 0 \in 0..MaxHeader /\ 0 \in 0..BufferSize /\ "CONNECTION_CLOSED" \in Phases
      BY SizesAssumption DEF Phases
    <2> QED
      BY <2>1 DEF Closed, Connection
  <1>2. Closed(c).fd = NoFd /\ Closed(c).tcp = NULL /\ Closed(c).phase = "CONNECTION_CLOSED"
    BY DEF Closed, Connection
  <1>3. Consistent(Closed(c))
    BY <1>2 DEF Consistent, TargetPhases
  <1> QED
    BY <1>1, <1>3

(* A step that only edits slot i, keeping its descriptor, pcb and request.  *)
LEMMA KeepStep ==
  ASSUME Inv, NEW i \in Slots, NEW r \in Connection, Consistent(r), keep(i, r),
         link_up' = link_up,
         r.fd = connections[i].fd, r.tcp = connections[i].tcp,
         r.resolving = connections[i].resolving,
         r.resolving \/ r.tcp # NULL =>
             r.host = connections[i].host /\ r.phase = connections[i].phase,
         r.phase \in TargetPhases => link_up
  PROVE  SlotStep(i, r)
  <1> USE NullAssumption
  <1>1. DnsFor(i, r) /\ FdFor(i, r, open)
    BY FdForSame, DnsForSame DEF keep
  <1>2. /\ pcbs' = pcbs /\ open' = open /\ pcbs \in [Pcbs -> Pcb]
        /\ connections' = [connections EXCEPT ![i] = r]
        /\ r.tcp \in Pcbs \cup {NULL}
    BY DEF keep, Inv, TypeOK, Connection
  <1>3. \A p \in Pcbs : p # r.tcp => pcbs'[p] = pcbs[p] /\ p # connections[i].tcp
    BY <1>2
  <1>4. r.tcp # NULL =>
          /\ pcbs[r.tcp].arg \in {NULL, i}
          /\ pcbs'[r.tcp].arg = i
          /\ pcbs'[r.tcp].remote = r.host
          /\ \/ pcbs'[r.tcp].state = "connecting" /\ r.phase = "CONNECTING"
             \/ pcbs'[r.tcp].state = "established" /\ r.phase = "STREAMING"
    BY <1>2 DEF Inv, PcbOwnership, RightDestination, Pcb
  <1> QED
    BY <1>1, <1>2, <1>3, <1>4 DEF SlotStep, DnsFor, FdFor

(* close_connection gives up the descriptor and the pcb.                    *)
LEMMA CloseStep ==
  ASSUME Inv, NEW i \in Slots, NEW c \in Connection, NEW o, close_connection(i, c, o),
         FdFor(i, c, o), DnsFor(i, c), link_up' = link_up,
         \/ c.tcp = connections[i].tcp
         \/ connections[i].tcp = NULL /\ pcbs[c.tcp].arg = NULL
  PROVE  SlotStep(i, Closed(c))
  <1> USE NullAssumption
  <1> DEFINE r == Closed(c)
  <1>1. /\ r \in Connection /\ Consistent(r)
        /\ r.fd = NoFd /\ r.tcp = NULL /\ r.phase = "CONNECTION_CLOSED"
        /\ r.resolving = c.resolving /\ r.host = c.host
    BY ClosedType DEF Closed, Connection
  <1>2. /\ pcbs \in [Pcbs -> Pcb] /\ FreePcb \in Pcb /\ Unused(FreePcb)
        /\ c.tcp \in Pcbs \cup {NULL}
    BY DEF Inv, TypeOK, Connection, FreePcb, Pcb, Unused
  <1>3. pcbs' \in [Pcbs -> Pcb]
    BY <1>2 DEF close_connection, Abort
  <1>4. ASSUME NEW p \in Pcbs
        PROVE  \/ pcbs'[p] = pcbs[p] /\ p # connections[i].tcp
               \/ Unused(pcbs'[p]) /\ (pcbs[p].arg = NULL \/ pcbs[p].arg = i)
    BY <1>2 DEF close_connection, Abort, Inv, PcbOwnership
  <1>5. NewFd(i, r.fd) /\ open' = (open \ {connections[i].fd}) \cup ({r.fd} \ {NoFd})
    <2>1. NoFd \notin open
      BY FdsAssumption DEF Inv, TypeOK, NoFd
    <2> QED
      BY <1>1, <2>1 DEF close_connection, FdFor, NewFd
  <1>6. connections' = [connections EXCEPT ![i] = r]
    BY DEF close_connection
  <1>7. r.phase \notin TargetPhases
    BY <1>1 DEF TargetPhases
  <1> HIDE DEF r
  <1> QED
    BY <1>1, <1>3, <1>4, <1>5, <1>6, <1>7, SMTT(20) DEF SlotStep, DnsFor, r

(* connect_ip, for a slot without a pcb whose request is settled.           *)
LEMMA ConnectStep ==
  ASSUME Inv, NEW i \in Slots, NEW c \in Connection, NEW o,
         connect_ip(i, c, c.host, o), link_up' = link_up,
         Consistent(c), c.host \in Hosts, c.tcp = NULL, connections[i].tcp = NULL,
         FdFor(i, c, o), DnsFor(i, [c EXCEPT !.resolving = FALSE]),
         c.fd # NoFd => link_up
  PROVE  \E r : SlotStep(i, r)
  <1> USE NullAssumption
  <1> DEFINE r == [c EXCEPT !.resolving = FALSE]
  <1>1. /\ r \in Connection /\ r.resolving = FALSE
        /\ r.fd = c.fd /\ r.tcp = NULL /\ r.host = c.host /\ r.phase = c.phase
    BY DEF Connection
  <1>2. FdFor(i, r, o) /\ DnsFor(i, r)
    BY <1>1 DEF FdFor
  <1>3. pcbs \in [Pcbs -> Pcb] /\ FreePcb \in Pcb
    BY DEF Inv, TypeOK, FreePcb, Pcb
  <1>4. ASSUME NEW p \in Allocatable
        PROVE  p \in Pcbs /\ pcbs[p].arg = NULL
    BY DEF Allocatable, FreePcbs, Inv, PcbOwnership
  <1> HIDE DEF r
  <1>5. CASE /\ r.phase = "CONNECTION_CLOSED" \/ r.fd = NoFd
             /\ connections' = [connections EXCEPT ![i] = r]
             /\ open' = o
             /\ pcbs' = pcbs
    <2>1. Consistent(r) /\ r.phase \notin TargetPhases
      BY <1>1, <1>5 DEF Consistent, TargetPhases
    <2>2. NewFd(i, r.fd)
      BY <1>2 DEF FdFor
    <2> QED
      BY <1>1, <1>2, <1>3, <1>5, <2>1, <2>2 DEF SlotStep, DnsFor, FdFor
  <1>6. CASE close_connection(i, r, o)
    BY <1>1, <1>2, <1>6, CloseStep
  <1>7. ASSUME NEW p \in Allocatable, close_connection(i, [r EXCEPT !.tcp = p], o)
        PROVE  \E s : SlotStep(i, s)
    <2> DEFINE q == [r EXCEPT !.tcp = p]
    <2>1. q \in Connection /\ q.fd = r.fd /\ q.tcp = p
          /\ q.resolving = r.resolving /\ q.host = r.host
      BY <1>1, <1>4 DEF Connection
    <2>2. close_connection(i, q, o)
      BY <1>7
    <2> HIDE DEF q
    <2>3. FdFor(i, q, o) /\ DnsFor(i, q)
      BY <1>2, <2>1 DEF FdFor, DnsFor
    <2> QED
      BY <1>4, <2>1, <2>2, <2>3, CloseStep
  <1>8. ASSUME NEW p \in Allocatable,
               r.phase # "CONNECTION_CLOSED", r.fd # NoFd,
               connections' = [connections EXCEPT ![i] =
                                  [r EXCEPT !.tcp = p, !.phase = "CONNECTING"]],
               pcbs' = [pcbs EXCEPT ![p] = [state |-> "connecting",
                                            arg |-> i, remote |-> c.host]],
               open' = o
        PROVE  \E s : SlotStep(i, s)
    <2> DEFINE q == [r EXCEPT !.tcp = p, !.phase = "CONNECTING"]
               b == [state |-> "connecting", arg |-> i, remote |-> c.host]
    <2>1. /\ q \in Connection /\ q.fd = r.fd /\ q.tcp = p /\ q.phase = "CONNECTING"
          /\ q.resolving = FALSE /\ q.host = c.host
      <3>1. "CONNECTING" \in Phases
        BY DEF Phases, TargetPhases
      <3> QED
        BY <1>1, <1>4, <3>1 DEF Connection
    <2>2. b \in Pcb
      BY DEF Pcb
    <2>3. /\ connections' = [connections EXCEPT ![i] = q]
          /\ pcbs' = [pcbs EXCEPT ![p] = b]
          /\ b.arg = i /\ b.state = "connecting" /\ b.remote = c.host
      BY <1>8
    <2> HIDE DEF q, b
    <2>4. Consistent(q)
      BY <2>1, <1>4, <1>8 DEF Consistent
    <2>5. NewFd(i, q.fd)
      BY <1>2, <2>1 DEF FdFor
    <2>6. open' = (open \ {connections[i].fd}) \cup ({q.fd} \ {NoFd})
      BY <1>2, <1>8, <2>1 DEF FdFor
    <2>7. link_up
      BY <1>1, <1>8
    <2>8. /\ pcbs' \in [Pcbs -> Pcb]
          /\ \A u \in Pcbs : u # p => pcbs'[u] = pcbs[u]
          /\ pcbs'[p] = b
      BY <1>3, <1>4, <2>2, <2>3
    <2>9. DnsFor(i, q)
      BY <1>1, <1>2, <2>1 DEF DnsFor
    <2>10. \A u \in Pcbs : u # q.tcp => pcbs'[u] = pcbs[u] /\ u # connections[i].tcp
      BY <2>1, <2>8
    <2>11. /\ pcbs[q.tcp].arg \in {NULL, i}
           /\ pcbs'[q.tcp].arg = i
           /\ pcbs'[q.tcp].remote = q.host
           /\ pcbs'[q.tcp].state = "connecting" /\ q.phase = "CONNECTING"
      BY <1>4, <2>1, <2>3, <2>8
    <2>12. SlotStep(i, q)
      BY <2>1, <2>3, <2>4, <2>5, <2>6, <2>7, <2>8, <2>9, <2>10, <2>11 DEF SlotStep, DnsFor
    <2> QED
      BY <2>12
  <1> QED
    BY <1>5, <1>6, <1>7, <1>8 DEF connect_ip, r

(* start_connection, for a slot whose client has just named its target.     *)
LEMMA StartStep ==
  ASSUME Inv, NEW i \in Slots, NEW c \in Connection, NEW o,
         start_connection(i, c, o), link_up' = link_up,
         c.phase \in HeaderPhases, c.host \in Hosts, c.tcp = NULL, ~c.resolving, c.fd # NoFd,
         connections[i].tcp = NULL, ~connections[i].resolving,
         FdFor(i, c, o)
  PROVE  \E r : SlotStep(i, r)
  <1> USE NullAssumption
  <1>1. ASSUME dns' = dns, NEW r \in Connection, ~r.resolving PROVE DnsFor(i, r)
    BY <1>1 DEF Inv, TypeOK, DnsOwnership, DnsFor
  <1>2. CASE close_connection(i, c, o) /\ dns' = dns
    BY <1>1, <1>2, CloseStep
  <1>3. Consistent(c)
    BY DEF Consistent, HeaderPhases, TargetPhases
  <1>4. CASE link_up /\ connect_ip(i, c, c.host, o) /\ dns' = dns
    <2>1. [c EXCEPT !.resolving = FALSE] \in Connection /\ ~[c EXCEPT !.resolving = FALSE].resolving
      BY DEF Connection
    <2> QED
      BY <1>1, <1>3, <1>4, <2>1, ConnectStep
  <1> DEFINE r == [c EXCEPT !.phase = "RESOLVING", !.resolving = TRUE]
             n == [r EXCEPT !.resolving = FALSE]
  <1>5. /\ r \in Connection /\ r.phase = "RESOLVING" /\ r.resolving
        /\ r.fd = c.fd /\ r.tcp = NULL /\ r.host = c.host
        /\ n \in Connection /\ ~n.resolving /\ n.fd = c.fd /\ n.tcp = NULL /\ n.host = c.host
    <2>1. "RESOLVING" \in Phases
      BY DEF Phases, TargetPhases
    <2> QED
      BY <2>1 DEF Connection
  <1>6. Consistent(r)
    BY <1>5 DEF Consistent
  <1>7. FdFor(i, r, o) /\ FdFor(i, n, o)
    BY <1>5 DEF FdFor
  <1>8. CASE link_up /\ connect_ip(i, r, r.host, o) /\ dns' = dns
    BY <1>1, <1>5, <1>6, <1>7, <1>8, ConnectStep
  <1>9. CASE close_connection(i, n, o) /\ dns' = dns
    BY <1>1, <1>5, <1>7, <1>9, CloseStep
  <1>10. CASE /\ link_up
              /\ c.host \in Names
              /\ connections' = [connections EXCEPT ![i] = r]
              /\ dns' = dns \cup {[slot |-> i, name |-> r.host]}
              /\ open' = o
              /\ pcbs' = pcbs
    <2> HIDE DEF r, n
    <2>1. DnsFor(i, r)
      <3>1. \A d \in dns : d.slot # i
        BY DEF Inv, DnsOwnership
      <3> DEFINE e == [slot |-> i, name |-> c.host]
      <3>2. e \in [slot : Slots, name : Names] /\ e.slot = i /\ e.name = c.host
        BY <1>10
      <3>3. dns' = dns \cup {e}
        BY <1>5, <1>10
      <3> HIDE DEF e
      <3> QED
        BY <1>5, <3>1, <3>2, <3>3 DEF Inv, TypeOK, DnsFor
    <2>2. /\ NewFd(i, r.fd)
          /\ open' = (open \ {connections[i].fd}) \cup ({r.fd} \ {NoFd})
      BY <1>7, <1>10 DEF FdFor
    <2>3. pcbs \in [Pcbs -> Pcb]
      BY DEF Inv, TypeOK
    <2> QED
      BY <1>5, <1>6, <1>10, <2>1, <2>2, <2>3 DEF SlotStep, DnsFor
  <1> QED
    BY <1>2, <1>4, <1>8, <1>9, <1>10 DEF start_connection

-----------------------------------------------------------------------------
(* The handlers as slot steps.                                              *)

(* What is known of a slot whose client is still sending its request.       *)
LEMMA HeaderSlot ==
  ASSUME Inv, NEW i \in Slots, connections[i].fd # NoFd,
         connections[i].phase \notin TargetPhases
  PROVE  /\ connections[i] \in Connection
         /\ connections[i].phase \in HeaderPhases
         /\ connections[i].tcp = NULL
         /\ connections[i].resolving = FALSE
  BY DEF Inv, TypeOK, SlotConsistency, Consistent, Connection, Phases, TargetPhases

(* Closing a slot outside DNS handling is a step of that slot.              *)
LEMMA DropStep ==
  ASSUME Inv, NEW i \in Slots, NEW c \in Connection, drop(i, c), link_up' = link_up,
         c.fd = connections[i].fd, c.tcp = connections[i].tcp,
         c.resolving = connections[i].resolving,
         c.resolving => c.host = connections[i].host
  PROVE  \E r : SlotStep(i, r)
  <1>1. FdFor(i, c, open)
    BY FdForSame
  <1>2. DnsFor(i, c)
    BY DnsForSame DEF drop
  <1> QED
    BY <1>1, <1>2, CloseStep DEF drop

(* The slot still waits for (the rest of) a request.                        *)
LEMMA KeepHeaderStep ==
  ASSUME Inv, NEW i \in Slots, NEW c \in Connection, keep(i, c), link_up' = link_up,
         connections[i].fd # NoFd, connections[i].phase \notin TargetPhases,
         c.phase \in HeaderPhases, c.fd = connections[i].fd, c.tcp = NULL, c.resolving = FALSE
  PROVE  \E r : SlotStep(i, r)
  <1>1. Consistent(c) /\ c.phase \notin TargetPhases
    BY DEF Consistent, HeaderPhases, TargetPhases
  <1> QED
    BY <1>1, HeaderSlot, KeepStep

(* parse_socks_request, whatever its verdict, is a step of its slot.        *)
LEMMA SocksStep ==
  ASSUME Inv, NEW i \in Slots, NEW c \in Connection,
         parse_socks_request(i, c), link_up' = link_up,
         connections[i].fd # NoFd, connections[i].phase \notin TargetPhases,
         c.phase \in HeaderPhases, c.fd = connections[i].fd, c.tcp = NULL, c.resolving = FALSE
  PROVE  \E r : SlotStep(i, r)
  <1>1. CASE keep(i, c)
    BY <1>1, KeepHeaderStep
  <1>2. CASE drop(i, c)
    BY <1>2, DropStep, HeaderSlot
  <1>3. ASSUME NEW h \in Hosts, NEW e \in 0..(c.header_len - 1),
               start_connection(i, [c EXCEPT !.host = h, !.remote_len = e,
                                             !.header_len = 0], open)
        PROVE  \E r : SlotStep(i, r)
    <2> DEFINE t == [c EXCEPT !.host = h, !.remote_len = e, !.header_len = 0]
    <2>1. e \in 0..BufferSize /\ 0 \in 0..MaxHeader
      BY SizesAssumption DEF Connection
    <2>2. /\ t \in Connection /\ t.phase = c.phase /\ t.host = h /\ t.tcp = NULL
          /\ ~t.resolving /\ t.fd = c.fd
      BY <2>1 DEF Connection
    <2>3. start_connection(i, t, open)
      BY <1>3
    <2> HIDE DEF t
    <2>4. FdFor(i, t, open)
      BY <2>2, FdForSame
    <2> QED
      BY <2>2, <2>3, <2>4, HeaderSlot, StartStep
  <1> QED
    BY <1>1, <1>2, <1>3 DEF parse_socks_request

(* parse_http, whatever its verdict, is a step of its slot.                 *)
LEMMA HttpStep ==
  ASSUME Inv, NEW i \in Slots, NEW c \in Connection,
         parse_http(i, c), link_up' = link_up,
         connections[i].fd # NoFd, connections[i].phase \notin TargetPhases,
         c.phase \in HeaderPhases, c.fd = connections[i].fd, c.tcp = NULL, c.resolving = FALSE
  PROVE  \E r : SlotStep(i, r)
  <1>1. CASE drop(i, c)
    BY <1>1, DropStep, HeaderSlot
  <1>2. ASSUME NEW h \in Hosts, NEW b \in BOOLEAN, NEW e \in 0..(c.header_len - 1),
               start_connection(i, [c EXCEPT !.host = h, !.http_connect = b,
                                             !.remote_len = e], open)
        PROVE  \E r : SlotStep(i, r)
    <2> DEFINE t == [c EXCEPT !.host = h, !.http_connect = b, !.remote_len = e]
    <2>1. e \in 0..BufferSize
      BY SizesAssumption DEF Connection
    <2>2. /\ t \in Connection /\ t.phase = c.phase /\ t.host = h /\ t.tcp = NULL
          /\ ~t.resolving /\ t.fd = c.fd
      BY <2>1 DEF Connection
    <2>3. start_connection(i, t, open)
      BY <1>2
    <2> HIDE DEF t
    <2>4. FdFor(i, t, open)
      BY <2>2, FdForSame
    <2> QED
      BY <2>2, <2>3, <2>4, HeaderSlot, StartStep
  <1> QED
    BY <1>1, <1>2 DEF parse_http

(* read_client with feed_local is a step of its slot.                       *)
LEMMA ReadStep ==
  ASSUME Inv, NEW i \in Slots, read_client(i)
  PROVE  \E r : SlotStep(i, r)
  <1> DEFINE c == connections[i]
  <1>1. c \in Connection /\ Consistent(c) /\ c.fd # NoFd /\ link_up' = link_up
    BY DEF Inv, TypeOK, SlotConsistency, read_client
  <1>2. CASE drop(i, c)
    BY <1>1, <1>2, DropStep
  <1>3. ASSUME NEW n \in 1..ReadSize, c.phase \in TargetPhases, n <= BufferSize - c.remote_len,
               keep(i, [c EXCEPT !.remote_len = c.remote_len + n])
        PROVE  \E r : SlotStep(i, r)
    <2> DEFINE r == [c EXCEPT !.remote_len = c.remote_len + n]
    <2>1. c.remote_len + n \in 0..BufferSize
      BY <1>1, <1>3, SizesAssumption DEF Connection
    <2>2. /\ r \in Connection /\ r.fd = c.fd /\ r.tcp = c.tcp /\ r.phase = c.phase
          /\ r.resolving = c.resolving /\ r.host = c.host
      BY <1>1, <2>1 DEF Connection
    <2>3. link_up
      BY <1>3 DEF Inv, TunnelGate
    <2>4. keep(i, r)
      BY <1>3
    <2> HIDE DEF r
    <2>5. Consistent(r)
      BY <1>1, <2>2 DEF Consistent
    <2> QED
      BY <1>1, <2>2, <2>3, <2>4, <2>5, KeepStep
  <1>4. ASSUME NEW n \in 1..ReadSize, c.phase \notin TargetPhases, c.header_len + n < MaxHeader
        PROVE  LET h == [c EXCEPT !.header_len = c.header_len + n] IN
               /\ h \in Connection /\ h.fd = c.fd /\ h.tcp = NULL /\ h.phase = c.phase
               /\ h.phase \in HeaderPhases /\ h.resolving = FALSE /\ h.local_len = c.local_len
    <2>1. c.header_len + n \in 0..MaxHeader
      BY <1>1, <1>4, SizesAssumption DEF Connection
    <2> QED
      BY <1>1, <1>4, <2>1, HeaderSlot DEF Connection
  <1>5. ASSUME NEW n \in 1..ReadSize, c.phase \notin TargetPhases, c.header_len + n < MaxHeader,
               LET h == [c EXCEPT !.header_len = c.header_len + n] IN
               \/ keep(i, h)
               \/ parse_http(i, h)
               \/ parse_socks_request(i, h)
               \/ drop(i, h)
        PROVE  \E r : SlotStep(i, r)
    <2> DEFINE h == [c EXCEPT !.header_len = c.header_len + n]
    <2>1. /\ h \in Connection /\ h.fd = c.fd /\ h.tcp = NULL /\ h.phase = c.phase
          /\ h.phase \in HeaderPhases /\ h.resolving = FALSE
      BY <1>4, <1>5
    <2>2. keep(i, h) \/ parse_http(i, h) \/ parse_socks_request(i, h) \/ drop(i, h)
      BY <1>5
    <2> HIDE DEF h
    <2> QED
      BY <1>1, <1>5, <2>1, <2>2, KeepHeaderStep, HttpStep, SocksStep, DropStep, HeaderSlot
  <1>6. ASSUME NEW n \in 1..ReadSize, c.phase \notin TargetPhases, c.header_len + n < MaxHeader,
               c.local_len + ReplySize <= BufferSize,
               NEW e \in 0..(c.header_len + n - 1),
               parse_socks_request(i, [[c EXCEPT !.header_len = c.header_len + n] EXCEPT
                          !.phase = "SOCKS_REQUEST", !.header_len = e,
                          !.local_len = c.local_len + ReplySize])
        PROVE  \E r : SlotStep(i, r)
    <2> DEFINE h == [c EXCEPT !.header_len = c.header_len + n]
               g == [h EXCEPT !.phase = "SOCKS_REQUEST", !.header_len = e,
                              !.local_len = c.local_len + ReplySize]
    <2>1. /\ h \in Connection /\ h.fd = c.fd /\ h.tcp = NULL
          /\ h.phase \in HeaderPhases /\ h.resolving = FALSE
      BY <1>4, <1>6
    <2>2. /\ e \in 0..MaxHeader /\ c.local_len + ReplySize \in 0..BufferSize
          /\ "SOCKS_REQUEST" \in Phases /\ "SOCKS_REQUEST" \in HeaderPhases
      BY <1>1, <1>6, SizesAssumption DEF Connection, Phases, HeaderPhases
    <2>3. parse_socks_request(i, g)
      BY <1>6
    <2> HIDE DEF h
    <2>4. /\ g \in Connection /\ g.fd = c.fd /\ g.tcp = NULL
          /\ g.phase \in HeaderPhases /\ g.resolving = FALSE
      BY <2>1, <2>2 DEF Connection
    <2> HIDE DEF g
    <2> QED
      BY <1>1, <1>6, <2>3, <2>4, SocksStep
  <1>7. ASSUME NEW n \in 1..ReadSize, feed_local(i, n)
        PROVE  \E r : SlotStep(i, r)
    <2> DEFINE h == [c EXCEPT !.header_len = c.header_len + n]
               g(e) == [h EXCEPT !.phase = "SOCKS_REQUEST", !.header_len = e,
                                 !.local_len = c.local_len + ReplySize]
    <2>2. CASE /\ c.phase \in TargetPhases
               /\ n <= BufferSize - c.remote_len
               /\ keep(i, [c EXCEPT !.remote_len = c.remote_len + n])
      BY <1>3, <2>2
    <2>3. CASE /\ c.phase \notin TargetPhases /\ c.header_len + n < MaxHeader
               /\ keep(i, h) \/ parse_http(i, h) \/ parse_socks_request(i, h) \/ drop(i, h)
      BY <1>5, <2>3
    <2>4. CASE /\ c.phase \notin TargetPhases /\ c.header_len + n < MaxHeader
               /\ c.local_len + ReplySize <= BufferSize
               /\ \E e \in 0..(c.header_len + n - 1) : parse_socks_request(i, g(e))
      BY <1>6, <2>4, Zenon
    <2> QED
      BY <1>2, <1>7, <2>2, <2>3, <2>4, Zenon DEF feed_local
  <1> QED
    BY <1>2, <1>7 DEF read_client

(* accept_client is a step of the slot it picks.                            *)
LEMMA AcceptStep ==
  ASSUME Inv, NEW fd \in Fds, NEW kind \in Kinds, NEW host \in Hosts,
         accept_client(fd, kind, host)
  PROVE  \E i \in Slots : \E r : SlotStep(i, r)
  <1> USE NullAssumption
  <1> DEFINE c == [EmptyConnection(fd) EXCEPT !.kind = kind,
                      !.phase = IF kind = "SOCKS_PROXY" THEN "SOCKS_GREETING"
                                                        ELSE "PROXY_HEADER"]
             t == [c EXCEPT !.host = host]
  <1>1. PICK i \in FreeSlots :
           IF kind = "FORWARD"
             THEN start_connection(i, t, open \cup {fd})
             ELSE /\ connections' = [connections EXCEPT ![i] = c]
                  /\ open' = open \cup {fd}
                  /\ UNCHANGED <<pcbs, dns>>
    BY DEF accept_client
  <1>2. /\ i \in Slots /\ fd \notin open /\ link_up' = link_up /\ fd # NoFd
        /\ connections[i].fd = NoFd /\ ~connections[i].resolving
    BY FdsAssumption DEF FreeSlots, accept_client, NoFd
  <1>3. connections[i].tcp = NULL
    BY <1>2 DEF Inv, SlotConsistency, Consistent, TargetPhases
  <1>4. EmptyConnection(fd) \in Connection
    <2>1. 0 \in 0..MaxHeader /\ 0 \in 0..BufferSize /\ "PROXY_HEADER" \in Phases
          /\ "HTTP_PROXY" \in Kinds
      BY SizesAssumption DEF Phases, HeaderPhases, Kinds
    <2> QED
      BY <2>1 DEF EmptyConnection, Connection
  <1>5. /\ EmptyConnection(fd).fd = fd /\ EmptyConnection(fd).tcp = NULL
        /\ EmptyConnection(fd).resolving = FALSE
    BY DEF EmptyConnection
  <1>6. /\ c \in Connection /\ c.fd = fd /\ c.tcp = NULL /\ c.resolving = FALSE
        /\ c.phase \in HeaderPhases
    <2>1. /\ "SOCKS_GREETING" \in Phases /\ "PROXY_HEADER" \in Phases
          /\ "SOCKS_GREETING" \in HeaderPhases /\ "PROXY_HEADER" \in HeaderPhases
      BY DEF Phases, HeaderPhases
    <2> QED
      BY <1>4, <1>5, <2>1 DEF Connection
  <1>7. FdFor(i, [fd |-> fd], open \cup {fd})
    <2>1. open \ {NoFd} = open
      BY FdsAssumption DEF Inv, TypeOK, NoFd
    <2> QED
      BY <1>2, <2>1 DEF FdFor, NewFd
  <1>8. CASE kind = "FORWARD"
    <2>1. /\ t \in Connection /\ t.fd = fd /\ t.tcp = NULL /\ ~t.resolving
          /\ t.phase \in HeaderPhases /\ t.host = host
      <3> HIDE DEF c
      <3> QED
        BY <1>6 DEF Connection
    <2>2. start_connection(i, t, open \cup {fd})
      BY <1>1, <1>8
    <2> HIDE DEF t
    <2>3. FdFor(i, t, open \cup {fd})
      BY <1>7, <2>1 DEF FdFor
    <2> QED
      BY <1>2, <1>3, <2>1, <2>2, <2>3, StartStep
  <1>9. CASE kind # "FORWARD"
    <2>1. /\ connections' = [connections EXCEPT ![i] = c]
          /\ open' = open \cup {fd}
          /\ pcbs' = pcbs /\ dns' = dns
      BY <1>1, <1>9
    <2> HIDE DEF c
    <2>2. Consistent(c) /\ c.phase \notin TargetPhases
      BY <1>6 DEF Consistent, HeaderPhases, TargetPhases
    <2>3. /\ NewFd(i, c.fd)
          /\ open' = (open \ {connections[i].fd}) \cup ({c.fd} \ {NoFd})
      BY <1>2, <1>6, <1>7, <2>1 DEF FdFor
    <2>4. DnsFor(i, c)
      <3>1. connections[i].resolving = FALSE
        BY <1>2 DEF Inv, TypeOK, Connection
      <3> QED
        BY <1>2, <1>6, <2>1, <3>1, DnsForSame
    <2>5. pcbs \in [Pcbs -> Pcb]
      BY DEF Inv, TypeOK
    <2>6. SlotStep(i, c)
      BY <1>2, <1>3, <1>6, <2>1, <2>2, <2>3, <2>4, <2>5 DEF SlotStep, DnsFor
    <2> QED
      BY <1>2, <2>6
  <1> QED
    BY <1>8, <1>9

(* flush_local is a step of its slot.                                       *)
LEMMA FlushLocalStep ==
  ASSUME Inv, NEW i \in Slots, flush_local(i)
  PROVE  \E r : SlotStep(i, r)
  <1> DEFINE c == connections[i]
  <1>1. c \in Connection /\ Consistent(c) /\ c.fd # NoFd /\ link_up' = link_up
    BY DEF Inv, TypeOK, SlotConsistency, flush_local
  <1>2. CASE drop(i, c)
    BY <1>1, <1>2, DropStep
  <1>3. ASSUME NEW w \in 1..c.local_len,
               LET r == [c EXCEPT !.local_len = c.local_len - w] IN keep(i, r) \/ drop(i, r)
        PROVE  \E r : SlotStep(i, r)
    <2> DEFINE r == [c EXCEPT !.local_len = c.local_len - w]
    <2>1. c.local_len - w \in 0..BufferSize
      BY <1>1, <1>3, SizesAssumption DEF Connection
    <2>2. /\ r \in Connection /\ r.fd = c.fd /\ r.tcp = c.tcp /\ r.phase = c.phase
          /\ r.resolving = c.resolving /\ r.host = c.host
      BY <1>1, <2>1 DEF Connection
    <2>3. keep(i, r) \/ drop(i, r)
      BY <1>3
    <2> HIDE DEF r
    <2>4. Consistent(r)
      BY <1>1, <2>2 DEF Consistent
    <2>5. r.phase \in TargetPhases => link_up
      BY <2>2 DEF Inv, TunnelGate
    <2> QED
      BY <1>1, <2>2, <2>3, <2>4, <2>5, KeepStep, DropStep
  <1> QED
    BY <1>2, <1>3, Zenon DEF flush_local

(* flush_remote only takes bytes out of to_remote.                          *)
LEMMA FlushedSlot ==
  ASSUME NEW c \in Connection, NEW r \in flush_remote(c)
  PROVE  /\ r \in Connection /\ r.fd = c.fd /\ r.tcp = c.tcp /\ r.phase = c.phase
         /\ r.resolving = c.resolving /\ r.host = c.host
         /\ r.remote_len <= c.remote_len
  <1>1. CASE r = c
    BY <1>1 DEF Connection
  <1>2. CASE \E k \in 0..Segment : k <= c.remote_len /\ r = [c EXCEPT !.remote_len = c.remote_len - k]
    <2>1. PICK k \in 0..Segment : k <= c.remote_len /\ r = [c EXCEPT !.remote_len = c.remote_len - k]
      BY <1>2
    <2>2. c.remote_len - k \in 0..BufferSize /\ c.remote_len - k <= c.remote_len
      BY <2>1, SizesAssumption DEF Connection
    <2> QED
      BY <2>1, <2>2 DEF Connection
  <1> QED
    BY <1>1, <1>2 DEF flush_remote

(* flush is a step of its slot.                                             *)
LEMMA FlushStep ==
  ASSUME Inv, NEW i \in Slots, flush(i)
  PROVE  \E r : SlotStep(i, r)
  <1> DEFINE c == connections[i]
  <1>1. c \in Connection /\ Consistent(c) /\ link_up' = link_up
    BY DEF Inv, TypeOK, SlotConsistency, flush
  <1>2. PICK r \in flush_remote(c) : keep(i, r)
    BY DEF flush
  <1>3. /\ r \in Connection /\ r.fd = c.fd /\ r.tcp = c.tcp /\ r.phase = c.phase
        /\ r.resolving = c.resolving /\ r.host = c.host
    BY <1>1, FlushedSlot
  <1>4. Consistent(r)
    BY <1>1, <1>3 DEF Consistent
  <1>5. r.phase \in TargetPhases => link_up
    BY <1>3 DEF Inv, TunnelGate
  <1> QED
    BY <1>1, <1>2, <1>3, <1>4, <1>5, KeepStep

(* dns_done: the slot's one request is gone with its answer.                *)
LEMMA DnsDoneStep ==
  ASSUME Inv, NEW d \in dns, NEW found \in BOOLEAN, dns_done(d, found)
  PROVE  \E i \in Slots : \E r : SlotStep(i, r)
  <1> USE NullAssumption
  <1> DEFINE i == d.slot
             c == connections[i]
             n == [c EXCEPT !.resolving = FALSE]
  <1>1. i \in Slots /\ d.name \in Names /\ dns \subseteq [slot : Slots, name : Names]
    BY DEF Inv, TypeOK
  <1>2. /\ c \in Connection /\ Consistent(c) /\ c.host = d.name /\ c.resolving
        /\ link_up' = link_up /\ dns' = dns \ {d}
    BY <1>1 DEF Inv, TypeOK, SlotConsistency, DnsOwnership, dns_done
  <1>3. /\ n \in Connection /\ n.fd = c.fd /\ n.tcp = c.tcp /\ n.resolving = FALSE
        /\ n.host = c.host
    BY <1>2 DEF Connection
  <1>4. c.tcp = NULL
    BY <1>2 DEF Consistent
  <1>5. c.fd # NoFd => link_up
    BY <1>1, <1>2 DEF Inv, TunnelGate, Consistent, TargetPhases
  <1>6. DnsFor(i, n)
    <2>1. \A e \in dns : e.slot = i => e = d
      BY <1>1, <1>2 DEF Inv, DnsOwnership
    <2> HIDE DEF n
    <2> QED
      BY <1>1, <1>2, <1>3, <2>1 DEF DnsFor
  <1>7. FdFor(i, c, open) /\ FdFor(i, n, open)
    BY <1>1, <1>3, FdForSame
  <1>8. CASE connect_ip(i, c, d.name, open)
    BY <1>1, <1>2, <1>4, <1>5, <1>6, <1>7, <1>8, ConnectStep DEF Hosts
  <1>9. CASE close_connection(i, n, open)
    BY <1>1, <1>2, <1>3, <1>4, <1>6, <1>7, <1>9, CloseStep
  <1> QED
    BY <1>8, <1>9 DEF dns_done

(* The slot a live pcb belongs to.                                          *)
LEMMA PcbSlot ==
  ASSUME Inv, NEW p \in Pcbs, pcbs[p].state \in {"connecting", "established"}
  PROVE  LET i == pcbs[p].arg
             c == connections[i]
         IN /\ i \in Slots /\ c \in Connection /\ Consistent(c) /\ c.tcp = p
            /\ c.phase = IF pcbs[p].state = "connecting" THEN "CONNECTING" ELSE "STREAMING"
            /\ pcbs[p].remote = c.host /\ c.fd # NoFd /\ link_up /\ c.resolving = FALSE
  <1>1. pcbs[p].arg \in Slots
    BY DEF Inv, TypeOK, PcbOwnership, Pcb
  <1>2. /\ connections[pcbs[p].arg] \in Connection /\ Consistent(connections[pcbs[p].arg])
        /\ connections[pcbs[p].arg].tcp = p
        /\ pcbs[p].remote = connections[pcbs[p].arg].host
        /\ connections[pcbs[p].arg].phase =
              IF pcbs[p].state = "connecting" THEN "CONNECTING" ELSE "STREAMING"
    BY <1>1 DEF Inv, TypeOK, PcbOwnership, SlotConsistency, RightDestination
  <1>3. link_up /\ connections[pcbs[p].arg].fd # NoFd
    BY <1>1, <1>2 DEF Inv, TunnelGate, Consistent, TargetPhases
  <1>4. connections[pcbs[p].arg].resolving = FALSE
    BY <1>2 DEF Connection, Consistent
  <1> QED
    BY <1>1, <1>2, <1>3, <1>4

(* on_tcp_receive is a step of the slot that owns the pcb.                  *)
LEMMA ReceiveStep ==
  ASSUME Inv, NEW p \in Pcbs, NEW n \in 1..Window, on_tcp_receive(p, n)
  PROVE  \E i \in Slots : \E r : SlotStep(i, r)
  <1> DEFINE i == pcbs[p].arg
             c == connections[i]
             r == [c EXCEPT !.local_len = c.local_len + n]
  <1>1. /\ i \in Slots /\ c \in Connection /\ Consistent(c) /\ c.tcp = p
        /\ link_up /\ link_up' = link_up
    BY PcbSlot DEF on_tcp_receive
  <1>2. c.local_len + n \in 0..BufferSize
    BY <1>1, SizesAssumption DEF Connection, on_tcp_receive
  <1>3. /\ r \in Connection /\ r.fd = c.fd /\ r.tcp = c.tcp /\ r.phase = c.phase
        /\ r.resolving = c.resolving /\ r.host = c.host
    BY <1>1, <1>2 DEF Connection
  <1>4. keep(i, r)
    BY DEF on_tcp_receive
  <1> HIDE DEF r
  <1>5. Consistent(r)
    BY <1>1, <1>3 DEF Consistent
  <1> QED
    BY <1>1, <1>3, <1>4, <1>5, KeepStep

(* on_tcp_connected is a step of the slot that owns the pcb.                *)
LEMMA ConnectedStep ==
  ASSUME Inv, NEW p \in Pcbs, on_tcp_connected(p)
  PROVE  \E i \in Slots : \E r : SlotStep(i, r)
  <1> USE NullAssumption
  <1> DEFINE i == pcbs[p].arg
             b == connections[i]
             c == [b EXCEPT !.phase = "STREAMING"]
             reply == IF c.kind = "SOCKS_PROXY" \/ (c.kind = "HTTP_PROXY" /\ c.http_connect)
                        THEN ReplySize ELSE 0
             a == [c EXCEPT !.local_len = c.local_len + reply]
  <1>1. /\ i \in Slots /\ b \in Connection /\ Consistent(b) /\ b.tcp = p
        /\ b.phase = "CONNECTING" /\ pcbs[p].remote = b.host /\ b.fd # NoFd
        /\ link_up /\ link_up' = link_up /\ b.resolving = FALSE
    BY PcbSlot DEF on_tcp_connected
  <1>2. /\ c \in Connection /\ c.phase = "STREAMING" /\ c.fd = b.fd /\ c.tcp = p
        /\ c.resolving = FALSE /\ c.host = b.host
    <2>1. "STREAMING" \in Phases
      BY DEF Phases, TargetPhases
    <2> QED
      BY <1>1, <2>1 DEF Connection
  <1>3. reply \in Nat
    BY SizesAssumption
  <1>4. \/ c.local_len + reply > BufferSize /\ drop(i, c)
        \/ /\ ~(c.local_len + reply > BufferSize)
           /\ \E r \in flush_remote(a) :
                 /\ connections' = [connections EXCEPT ![i] = r]
                 /\ pcbs' = [pcbs EXCEPT ![p].state = "established"]
                 /\ dns' = dns /\ open' = open
    BY DEF on_tcp_connected
  <1> HIDE DEF c, reply
  <1>5. CASE drop(i, c)
    BY <1>1, <1>2, <1>5, DropStep
  <1>6. ASSUME ~(c.local_len + reply > BufferSize), NEW r \in flush_remote(a),
               connections' = [connections EXCEPT ![i] = r],
               pcbs' = [pcbs EXCEPT ![p].state = "established"],
               dns' = dns /\ open' = open
        PROVE  SlotStep(i, r)
    <2>1. c.local_len + reply \in 0..BufferSize
      BY <1>2, <1>3, <1>6, SizesAssumption DEF Connection
    <2>2. /\ a \in Connection /\ a.phase = "STREAMING" /\ a.fd = b.fd /\ a.tcp = p
          /\ a.resolving = FALSE /\ a.host = b.host
      BY <1>2, <2>1 DEF Connection
    <2> HIDE DEF a
    <2>3. /\ r \in Connection /\ r.fd = b.fd /\ r.tcp = p /\ r.phase = "STREAMING"
          /\ r.resolving = FALSE /\ r.host = b.host
      BY <2>2, FlushedSlot
    <2>4. Consistent(r)
      BY <1>1, <2>3 DEF Consistent
    <2>5. FdFor(i, r, open) /\ DnsFor(i, r)
      BY <1>1, <1>6, <2>3, FdForSame, DnsForSame
    <2>6. /\ pcbs \in [Pcbs -> Pcb] /\ pcbs' \in [Pcbs -> Pcb]
          /\ pcbs'[p].arg = i /\ pcbs'[p].remote = b.host /\ pcbs'[p].state = "established"
          /\ \A q \in Pcbs : q # p => pcbs'[q] = pcbs[q]
      BY <1>1, <1>6 DEF Inv, TypeOK, Pcb
    <2>7. NewFd(i, r.fd) /\ open' = (open \ {connections[i].fd}) \cup ({r.fd} \ {NoFd})
      BY <1>6, <2>5 DEF FdFor
    <2>8. \A q \in Pcbs : q # r.tcp => pcbs'[q] = pcbs[q] /\ q # connections[i].tcp
      BY <1>1, <2>3, <2>6
    <2>9. /\ pcbs[r.tcp].arg \in {NULL, i} /\ pcbs'[r.tcp].arg = i
          /\ pcbs'[r.tcp].remote = r.host
          /\ pcbs'[r.tcp].state = "established" /\ r.phase = "STREAMING"
      BY <1>1, <2>3, <2>6
    <2> QED
      BY <1>1, <1>6, <2>3, <2>4, <2>5, <2>6, <2>7, <2>8, <2>9 DEF SlotStep, DnsFor
  <1> QED
    BY <1>1, <1>4, <1>5, <1>6

(* The slot loses its pcb, which lwIP goes on with or frees by itself, and  *)
(* is closed or, after a FIN, kept until its client has read everything.    *)
LEMMA LosePcbStep ==
  ASSUME Inv, NEW p \in Pcbs, pcbs[p].state \in {"connecting", "established"},
         NEW q \in Pcb, Unused(q), pcbs' = [pcbs EXCEPT ![p] = q],
         NEW c \in Connection, c.tcp = NULL,
         c.fd = connections[pcbs[p].arg].fd, c.resolving = FALSE,
         \/ /\ pcbs[p].state = "established" /\ c.phase = "STREAMING"
            /\ connections' = [connections EXCEPT ![pcbs[p].arg] = c]
            /\ open' = open
         \/ /\ connections' = [connections EXCEPT ![pcbs[p].arg] = Closed(c)]
            /\ open' = open \ {c.fd},
         dns' = dns, link_up' = link_up
  PROVE  \E i \in Slots : \E r : SlotStep(i, r)
  <1> USE NullAssumption
  <1> DEFINE i == pcbs[p].arg
             b == connections[i]
  <1>1. /\ i \in Slots /\ b \in Connection /\ Consistent(b) /\ b.tcp = p
        /\ b.fd # NoFd /\ link_up /\ b.resolving = FALSE
    BY PcbSlot
  <1>2. /\ pcbs' \in [Pcbs -> Pcb]
        /\ \A u \in Pcbs : \/ pcbs'[u] = pcbs[u] /\ u # connections[i].tcp
                           \/ Unused(pcbs'[u]) /\ (pcbs[u].arg = NULL \/ pcbs[u].arg = i)
    BY <1>1 DEF Inv, TypeOK
  <1>3. ASSUME NEW r \in Connection, Consistent(r), r.tcp = NULL, r.resolving = FALSE,
               connections' = [connections EXCEPT ![i] = r],
               NewFd(i, r.fd),
               open' = (open \ {connections[i].fd}) \cup ({r.fd} \ {NoFd})
        PROVE  SlotStep(i, r)
    <2>1. DnsFor(i, r)
      BY <1>1, <1>3, DnsForSame
    <2> QED
      BY <1>1, <1>2, <1>3, <2>1 DEF SlotStep, DnsFor
  <1>4. CASE /\ c.phase = "STREAMING"
             /\ connections' = [connections EXCEPT ![i] = c] /\ open' = open
    <2>1. FdFor(i, c, open)
      BY <1>1, FdForSame
    <2>2. Consistent(c)
      BY <1>1, <1>4 DEF Consistent
    <2> QED
      BY <1>1, <1>3, <1>4, <2>1, <2>2 DEF FdFor
  <1>5. CASE /\ connections' = [connections EXCEPT ![i] = Closed(c)]
             /\ open' = open \ {c.fd}
    <2> DEFINE r == Closed(c)
    <2>1. r \in Connection /\ Consistent(r) /\ r.fd = NoFd /\ r.tcp = NULL /\ r.resolving = FALSE
      BY ClosedType, ZenonT(30) DEF Closed, Connection
    <2>2. connections' = [connections EXCEPT ![i] = r]
      BY <1>5
    <2> HIDE DEF r
    <2>3. NewFd(i, r.fd) /\ open' = (open \ {connections[i].fd}) \cup ({r.fd} \ {NoFd})
      BY <1>5, <2>1 DEF NewFd
    <2> QED
      BY <1>1, <1>3, <2>1, <2>2, <2>3
  <1> QED
    BY <1>4, <1>5

(* The target's FIN is a step of the slot that owns the pcb.                *)
LEMMA FinStep ==
  ASSUME Inv, NEW p \in Pcbs, on_tcp_fin(p)
  PROVE  \E i \in Slots : \E r : SlotStep(i, r)
  <1> DEFINE i == pcbs[p].arg
             b == connections[i]
             c == [b EXCEPT !.remote_closed = TRUE, !.tcp = NULL]
  <1>1. /\ b \in Connection /\ b.phase = "STREAMING" /\ b.resolving = FALSE
        /\ pcbs[p].state = "established" /\ link_up' = link_up /\ dns' = dns
    BY PcbSlot DEF on_tcp_fin, Detached
  <1>2. c \in Connection /\ c.tcp = NULL /\ c.fd = b.fd /\ c.resolving = FALSE
        /\ c.phase = "STREAMING"
    BY <1>1 DEF Connection
  <1>3. PICK q \in {FreePcb, [FreePcb EXCEPT !.state = "closing"]} :
           pcbs' = [pcbs EXCEPT ![p] = q]
    BY DEF on_tcp_fin, Detached
  <1>4. q \in Pcb /\ Unused(q)
    BY <1>3 DEF FreePcb, Pcb, Unused
  <1>5. \/ connections' = [connections EXCEPT ![i] = c] /\ open' = open
        \/ connections' = [connections EXCEPT ![i] = Closed(c)] /\ open' = open \ {c.fd}
    BY DEF on_tcp_fin, Detached
  <1> HIDE DEF c
  <1> QED
    BY <1>1, <1>2, <1>3, <1>4, <1>5, LosePcbStep

(* on_tcp_error is a step of the slot that owns the pcb.                    *)
LEMMA ErrorStep ==
  ASSUME Inv, NEW p \in Pcbs, on_tcp_error(p)
  PROVE  \E i \in Slots : \E r : SlotStep(i, r)
  <1> DEFINE i == pcbs[p].arg
             b == connections[i]
             c == [b EXCEPT !.tcp = NULL]
  <1>1. /\ b \in Connection /\ b.resolving = FALSE /\ link_up' = link_up /\ dns' = dns
        /\ pcbs[p].state \in {"connecting", "established"}
        /\ pcbs' = [pcbs EXCEPT ![p] = FreePcb]
    BY PcbSlot DEF on_tcp_error
  <1>2. c \in Connection /\ c.tcp = NULL /\ c.fd = b.fd /\ c.resolving = FALSE
    BY <1>1 DEF Connection
  <1>3. FreePcb \in Pcb /\ Unused(FreePcb)
    BY DEF FreePcb, Pcb, Unused
  <1>4. connections' = [connections EXCEPT ![i] = Closed(c)] /\ open' = open \ {c.fd}
    BY DEF on_tcp_error
  <1> HIDE DEF c
  <1> QED
    BY <1>1, <1>2, <1>3, <1>4, LosePcbStep

-----------------------------------------------------------------------------
(* The two steps that are not slot steps.                                   *)

(* A closing pcb ends without any slot noticing.                            *)
LEMMA GoneInv ==
  ASSUME Inv, NEW p \in Pcbs, pcb_gone(p)
  PROVE  Inv'
  <1>1. /\ connections' = connections /\ dns' = dns /\ open' = open /\ link_up' = link_up
        /\ pcbs \in [Pcbs -> Pcb] /\ pcbs' = [pcbs EXCEPT ![p] = FreePcb]
        /\ FreePcb \in Pcb /\ Unused(FreePcb) /\ pcbs[p].arg = NULL
    BY DEF pcb_gone, Inv, TypeOK, PcbOwnership, FreePcb, Pcb, Unused
  <1>2. \A u \in Pcbs : \/ pcbs'[u] = pcbs[u]
                        \/ Unused(pcbs'[u]) /\ pcbs[u].arg = NULL
    BY <1>1
  <1>3. TypeOK'
    BY <1>1 DEF Inv, TypeOK
  <1>4. SlotConsistency' /\ FdOwnership' /\ TunnelGate' /\ DnsOwnership'
    BY <1>1 DEF Inv, SlotConsistency, FdOwnership, TunnelGate, DnsOwnership
  <1>5. PcbOwnership'
    BY <1>1, <1>2, NullAssumption DEF Inv, PcbOwnership, Unused
  <1>6. RightDestination'
    BY <1>1, <1>2, NullAssumption DEF Inv, RightDestination, Unused
  <1> QED
    BY <1>3, <1>4, <1>5, <1>6 DEF Inv

(* ppp_status closes every slot that has a client; the others have nothing  *)
(* but, perhaps, a DNS answer to come.                                      *)
LEMMA StatusInv ==
  ASSUME Inv, NEW up \in BOOLEAN, ppp_status(up)
  PROVE  Inv'
  <1> USE NullAssumption
  <1> DEFINE S == {i \in Slots : connections[i].fd # NoFd}
  <1>1. link_up' = up /\ dns' = dns
    BY DEF ppp_status, Clients
  <1>2. CASE up
    <2>1. connections' = connections /\ pcbs' = pcbs /\ open' = open /\ link_up'
      BY <1>1, <1>2 DEF ppp_status, Clients
    <2> QED
      BY <1>1, <2>1 DEF Inv, TypeOK, SlotConsistency, FdOwnership, PcbOwnership, TunnelGate,
                        RightDestination, DnsOwnership
  <1>3. CASE ~up
    <2>1. /\ connections \in [Slots -> Connection] /\ pcbs \in [Pcbs -> Pcb]
          /\ FreePcb \in Pcb /\ Unused(FreePcb)
      BY DEF Inv, TypeOK, FreePcb, Pcb, Unused
    <2>2. /\ connections' = [i \in Slots |->
                IF i \in S THEN Closed(connections[i]) ELSE connections[i]]
          /\ pcbs' = [p \in Pcbs |->
                IF \E i \in S : connections[i].tcp = p THEN FreePcb ELSE pcbs[p]]
          /\ open' = open \ {connections[i].fd : i \in S}
      BY <1>3 DEF ppp_status, Clients
    <2>3. ASSUME NEW i \in Slots
          PROVE  /\ connections'[i] \in Connection /\ Consistent(connections'[i])
                 /\ connections'[i].fd = NoFd /\ connections'[i].tcp = NULL
                 /\ connections'[i].phase \notin TargetPhases
                 /\ connections'[i].resolving = connections[i].resolving
                 /\ connections'[i].host = connections[i].host
      <3>1. connections[i] \in Connection /\ Consistent(connections[i])
        BY DEF Inv, TypeOK, SlotConsistency
      <3>2. CASE i \in S
        <4>1. connections'[i] = Closed(connections[i])
          BY <2>2, <3>2
        <4>2. Closed(connections[i]) \in Connection /\ Consistent(Closed(connections[i]))
          BY <3>1, ClosedType
        <4>3. LET c == Closed(connections[i]) IN
              /\ c.fd = NoFd /\ c.tcp = NULL /\ c.phase = "CONNECTION_CLOSED"
              /\ c.resolving = connections[i].resolving /\ c.host = connections[i].host
          BY <3>1 DEF Closed, Connection
        <4> QED
          BY <4>1, <4>2, <4>3 DEF TargetPhases
      <3>3. CASE i \notin S
        <4>1. connections'[i] = connections[i] /\ connections[i].fd = NoFd
          BY <2>2, <3>3
        <4> QED
          BY <3>1, <4>1 DEF Consistent, TargetPhases
      <3> QED
        BY <3>2, <3>3
    <2>4. ASSUME NEW p \in Pcbs PROVE Unused(pcbs'[p]) /\ pcbs'[p] \in Pcb
      <3>1. CASE \E i \in S : connections[i].tcp = p
        BY <2>1, <2>2, <3>1
      <3>2. CASE ~\E i \in S : connections[i].tcp = p
        <4>1. pcbs'[p] = pcbs[p] /\ pcbs[p] \in Pcb
          BY <2>1, <2>2, <3>2
        <4>2. \A i \in Slots : connections[i].tcp # p
          BY <3>2 DEF Inv, SlotConsistency, Consistent, TargetPhases
        <4>3. pcbs[p].arg = NULL
          BY <4>1, <4>2 DEF Inv, PcbOwnership, Pcb
        <4> QED
          BY <4>1, <4>3 DEF Inv, PcbOwnership, Unused
      <3> QED
        BY <3>1, <3>2
    <2>5. open' = {}
      BY <2>2 DEF Inv, FdOwnership
    <2>6. TypeOK'
      <3>1. connections' \in [Slots -> Connection]
        BY <2>2, <2>3
      <3>2. pcbs' \in [Pcbs -> Pcb]
        BY <2>2, <2>4
      <3> QED
        BY <1>1, <2>5, <3>1, <3>2 DEF Inv, TypeOK
    <2>7. SlotConsistency' /\ TunnelGate'
      BY <2>3 DEF SlotConsistency, TunnelGate
    <2>8. FdOwnership'
      BY <2>3, <2>5 DEF FdOwnership
    <2>9. PcbOwnership' /\ RightDestination'
      BY <2>3, <2>4 DEF PcbOwnership, RightDestination, Unused
    <2>10. DnsOwnership'
      BY <1>1, <2>3, SMTT(20) DEF Inv, TypeOK, DnsOwnership
    <2> QED
      BY <2>6, <2>7, <2>8, <2>9, <2>10 DEF Inv
  <1> QED
    BY <1>2, <1>3

(* A step that changes nothing preserves the invariant.                     *)
LEMMA StutterInv ==
  ASSUME Inv, UNCHANGED vars
  PROVE  Inv'
  BY DEF vars, Inv, TypeOK, SlotConsistency, FdOwnership, PcbOwnership, TunnelGate,
         RightDestination, DnsOwnership

(* Every step is a slot step, or one of the two others.                     *)
LEMMA NextCases ==
  ASSUME Inv, Next
  PROVE  \/ \E i \in Slots : \E r : SlotStep(i, r)
         \/ \E p \in Pcbs : pcb_gone(p)
         \/ \E up \in BOOLEAN : ppp_status(up)
  BY AcceptStep, ReadStep, FlushLocalStep, FlushStep, DnsDoneStep, ConnectedStep,
     FinStep, ErrorStep, ReceiveStep DEF Next

(* Every step preserves the invariant.                                      *)
LEMMA NextInv ==
  ASSUME Inv, [Next]_vars
  PROVE  Inv'
  BY NextCases, SlotStepInv, GoneInv, StatusInv, StutterInv

-----------------------------------------------------------------------------
(* Inv holds in every reachable state of the connection table.              *)
THEOREM Invariance == Spec => []Inv
  <1>1. Init => Inv
    BY InitInv
  <1>2. Inv /\ [Next]_vars => Inv'
    BY NextInv
  <1> QED
    BY <1>1, <1>2, PTL DEF Spec

(* The table's variables keep their types: no length exceeds its buffer.    *)
THEOREM TypeCorrect == Spec => []TypeOK
  <1>1. Inv => TypeOK
    BY DEF Inv
  <1> QED
    BY <1>1, Invariance, PTL

(* However many slots and descriptors there are, close_connection never     *)
(* leaks a descriptor and never closes another client's.                    *)
THEOREM FdsOwned == Spec => []FdOwnership
  <1>1. Inv => FdOwnership
    BY DEF Inv
  <1> QED
    BY <1>1, Invariance, PTL

(* lwIP's callbacks only ever reach the slot that owns the pcb, and no slot *)
(* keeps a pcb that lwIP has freed.                                         *)
THEOREM PcbsOwned == Spec => []PcbOwnership
  <1>1. Inv => PcbOwnership
    BY DEF Inv
  <1> QED
    BY <1>1, Invariance, PTL

(* No request is served before PPP and MPPE are up or after they went down. *)
THEOREM TunnelGated == Spec => []TunnelGate
  <1>1. Inv => TunnelGate
    BY DEF Inv
  <1> QED
    BY <1>1, Invariance, PTL

(* What a slot holds fits its phase, after every callback and every close.  *)
THEOREM SlotsConsistent == Spec => []SlotConsistency
  <1>1. Inv => SlotConsistency
    BY DEF Inv
  <1> QED
    BY <1>1, Invariance, PTL

(* A DNS answer to come is for a slot that waits for it, and for the name   *)
(* that the slot's client asked for.                                        *)
THEOREM DnsOwned == Spec => []DnsOwnership
  <1>1. Inv => DnsOwnership
    BY DEF Inv
  <1> QED
    BY <1>1, Invariance, PTL

(* Every TCP connection leads to the host that its slot's client named, and *)
(* every DNS answer to come belongs to the client that asked.               *)
THEOREM DestinationsRight == Spec => [](RightDestination /\ DnsOwnership)
  <1>1. Inv => RightDestination /\ DnsOwnership
    BY DEF Inv
  <1> QED
    BY <1>1, Invariance, PTL

(* A late DNS answer never revives a slot whose client has gone, and no new *)
(* client gets the slot before that answer.                                 *)
THEOREM AnswersNeverRevive == Spec => NoRevival
  <1> DEFINE Stays(i) == connections[i].fd = NoFd /\ connections[i].resolving
                            => connections'[i].fd = NoFd /\ connections'[i].tcp = NULL
  <1>1. ASSUME Inv, [Next]_vars PROVE [\A i \in Slots : Stays(i)]_vars
    <2> SUFFICES ASSUME Next, NEW i \in Slots,
                        connections[i].fd = NoFd, connections[i].resolving
                 PROVE  connections'[i].fd = NoFd /\ connections'[i].tcp = NULL
      BY <1>1
    <2>1. Inv' /\ Inv
      BY <1>1, NextInv
    <2>2. ASSUME NEW j \in Slots, NEW r, SlotStep(j, r) PROVE connections'[i].fd = NoFd
      BY <2>1, <2>2 DEF SlotStep, NewFd, Inv, TypeOK
    <2>3. ASSUME NEW p \in Pcbs, pcb_gone(p) PROVE connections'[i].fd = NoFd
      BY <2>3 DEF pcb_gone
    <2>4. ASSUME NEW up \in BOOLEAN, ppp_status(up) PROVE connections'[i].fd = NoFd
      BY <2>4 DEF ppp_status, Clients
    <2>5. connections'[i].fd = NoFd
      BY <1>1, <2>2, <2>3, <2>4, NextCases
    <2> QED
      BY <2>1, <2>5 DEF Inv, SlotConsistency, Consistent, TargetPhases
  <1>2. Inv /\ [Next]_vars => [\A i \in Slots : Stays(i)]_vars
    BY <1>1
  <1> QED
    BY <1>2, Invariance, PTL DEF Spec, NoRevival

-----------------------------------------------------------------------------
(* The loop runs handlers of Connections and nothing else: LoopSpec         *)
(* implements Spec.                                                         *)
LEMMA LoopStep ==
  ASSUME LoopNext
  PROVE  [Next]_vars
  <1>1. CASE Timers
    BY <1>1 DEF Timers, TimerEvent, Next
  <1>2. CASE Input
    BY <1>2 DEF Input, TunnelEvent, Next
  <1>3. CASE Accept
    BY <1>3 DEF Accept, Next
  <1>4. CASE StartWatch \/ Select \/ InputDone \/ AcceptDone \/ EndPass
    BY <1>4 DEF StartWatch, Select, InputDone, AcceptDone, EndPass
  <1>5. ASSUME NEW i \in Slots, Watch(i) PROVE [Next]_vars
    BY <1>5 DEF Watch, Next
  <1>6. ASSUME NEW i \in Slots, ServeWrite(i) PROVE [Next]_vars
    BY <1>6 DEF ServeWrite, Next
  <1>7. ASSUME NEW i \in Slots, ServeRead(i) PROVE [Next]_vars
    BY <1>7 DEF ServeRead, Next
  <1> QED
    BY <1>1, <1>2, <1>3, <1>4, <1>5, <1>6, <1>7 DEF LoopNext, Advance

(* The select loop implements the connection table: it never does to the    *)
(* table what no handler does, whatever the order of events.                *)
THEOREM LoopImplementsConnections == LoopSpec => Spec
  <1>1. LoopInit => Init
    BY DEF LoopInit
  <1>2. [LoopNext]_loopVars => [Next]_vars
    BY LoopStep DEF loopVars, vars
  <1> QED
    BY <1>1, <1>2, PTL DEF LoopSpec, Spec

-----------------------------------------------------------------------------
(* The slots whose bit in readfds is still to be looked at in this pass.    *)
Ahead(i) == pc \in {"watch", "input", "accept"} \/ (pc \in {"write", "read"} /\ i >= next)

(* A slot with its bit set and still to be looked at has room for a read(). *)
Room ==
    \A i \in Slots : connections[i].fd \in readfds /\ Ahead(i) =>
        connections[i].remote_len + ReadSize <= BufferSize

LoopType ==
    /\ pc \in {"timers", "watch", "input", "accept", "write", "read"}
    /\ next \in 1..(MaxConnections + 1)
    /\ readfds \subseteq Fds
    /\ writefds \subseteq Fds

LoopInv == Inv /\ LoopType /\ Room

(* A handler other than accept_client and read_client gives no slot a new   *)
(* descriptor and adds nothing to to_remote.                                *)
Shrunk(c, d) == d.fd \in {c.fd, NoFd} /\ d.remote_len <= c.remote_len
AllShrunk == \A j \in Slots : Shrunk(connections[j], connections'[j])

LEMMA ShrunkClosed ==
  ASSUME NEW c \in Connection, NEW b \in Connection
  PROVE  Shrunk(b, Closed(c))
  <1>1. Closed(c).fd = NoFd /\ Closed(c).remote_len = 0
    BY DEF Closed, Connection
  <1>2. 0 <= b.remote_len
    BY SizesAssumption DEF Connection
  <1> QED
    BY <1>1, <1>2 DEF Shrunk

LEMMA ShrunkOne ==
  ASSUME Inv, NEW i \in Slots, NEW r, Shrunk(connections[i], r),
         connections' = [connections EXCEPT ![i] = r]
  PROVE  AllShrunk
  <1>1. ASSUME NEW j \in Slots PROVE Shrunk(connections[j], connections[j])
    BY SizesAssumption DEF Inv, TypeOK, Connection, Shrunk
  <1> QED
    BY <1>1 DEF AllShrunk, Inv, TypeOK

LEMMA DnsDoneShrinks ==
  ASSUME Inv, NEW d \in dns, NEW found \in BOOLEAN, dns_done(d, found)
  PROVE  AllShrunk
  <1> DEFINE i == d.slot
             c == connections[i]
             n == [c EXCEPT !.resolving = FALSE]
  <1>1. i \in Slots /\ c \in Connection
    BY DEF Inv, TypeOK
  <1>2. n \in Connection /\ n.fd = c.fd /\ n.remote_len = c.remote_len /\ c.remote_len \in Nat
    <2>1. n \in Connection /\ n.fd = c.fd /\ n.remote_len = c.remote_len
      BY <1>1 DEF Connection
    <2>2. c.remote_len \in Nat
      BY <1>1, SizesAssumption DEF Connection
    <2> QED
      BY <2>1, <2>2
  <1>3. ASSUME NEW r \in Connection, connections' = [connections EXCEPT ![i] = Closed(r)]
        PROVE  AllShrunk
    BY <1>1, <1>3, ShrunkClosed, ShrunkOne
  <1>4. CASE connections' = [connections EXCEPT ![i] = n]
    <2>1. Shrunk(c, n)
      <3> HIDE DEF c, n
      <3> QED
        BY <1>2 DEF Shrunk
    <2> HIDE DEF n
    <2> QED
      BY <1>1, <1>4, <2>1, ShrunkOne
  <1>5. ASSUME NEW p \in Pcbs
        PROVE  /\ [n EXCEPT !.tcp = p] \in Connection
               /\ Shrunk(c, [n EXCEPT !.tcp = p, !.phase = "CONNECTING"])
    <2> HIDE DEF n
    <2> QED
      BY <1>2 DEF Connection, Shrunk
  <1>6. ASSUME NEW p \in Pcbs, connections' = [connections EXCEPT ![i] =
                                  [n EXCEPT !.tcp = p, !.phase = "CONNECTING"]]
        PROVE  AllShrunk
    BY <1>1, <1>5, <1>6, ShrunkOne
  <1> QED
    <2>1. CASE close_connection(i, n, open)
      BY <1>2, <1>3, <2>1 DEF close_connection
    <2>2. CASE connect_ip(i, c, d.name, open)
      <3>1. Allocatable \subseteq Pcbs
        BY DEF Allocatable, FreePcbs
      <3> HIDE DEF n
      <3> QED
        BY <1>2, <1>3, <1>4, <1>5, <1>6, <2>2, <3>1 DEF connect_ip, close_connection, n
    <2> QED
      BY <2>1, <2>2 DEF dns_done

LEMMA FlushShrinks ==
  ASSUME Inv, NEW i \in Slots, flush(i)
  PROVE  AllShrunk
  <1>1. PICK r \in flush_remote(connections[i]) : keep(i, r)
    BY DEF flush
  <1>2. Shrunk(connections[i], r)
    BY FlushedSlot DEF Shrunk, Inv, TypeOK
  <1> QED
    BY <1>1, <1>2, ShrunkOne DEF keep

LEMMA FlushLocalShrinks ==
  ASSUME Inv, NEW i \in Slots, flush_local(i)
  PROVE  AllShrunk
  <1> DEFINE c == connections[i]
             r(w) == [c EXCEPT !.local_len = c.local_len - w]
  <1>1. c \in Connection
    BY DEF Inv, TypeOK
  <1>2. CASE connections' = [connections EXCEPT ![i] = Closed(c)]
    BY <1>1, <1>2, ShrunkClosed, ShrunkOne
  <1>3. ASSUME NEW w \in 1..c.local_len
        PROVE  r(w) \in Connection /\ Shrunk(c, r(w)) /\ Shrunk(c, Closed(r(w)))
    <2>1. c.local_len - w \in 0..BufferSize
      BY <1>1, <1>3, SizesAssumption DEF Connection
    <2>2. r(w) \in Connection /\ r(w).fd = c.fd /\ r(w).remote_len = c.remote_len
          /\ c.remote_len \in Nat
      BY <1>1, <2>1, SizesAssumption DEF Connection
    <2> HIDE DEF r
    <2> QED
      BY <1>1, <2>2, ShrunkClosed DEF Shrunk
  <1>4. ASSUME NEW w \in 1..c.local_len,
               \/ connections' = [connections EXCEPT ![i] = r(w)]
               \/ connections' = [connections EXCEPT ![i] = Closed(r(w))]
        PROVE  AllShrunk
    <2> HIDE DEF r
    <2> QED
      BY <1>3, <1>4, ShrunkOne
  <1> QED
    BY <1>2, <1>4, Zenon DEF flush_local, keep, drop, close_connection

(* The callbacks of a live pcb, on the slot it belongs to.                  *)
LEMMA PcbEventShrinks ==
  ASSUME Inv, NEW p \in Pcbs,
         \/ on_tcp_connected(p)
         \/ on_tcp_fin(p)
         \/ on_tcp_error(p)
         \/ \E n \in 1..Window : on_tcp_receive(p, n)
  PROVE  AllShrunk
  <1> DEFINE i == pcbs[p].arg
             c == connections[i]
  <1>1. i \in Slots /\ c \in Connection /\ c.remote_len \in Nat
    <2>1. pcbs[p].state \in {"connecting", "established"}
      BY DEF on_tcp_connected, on_tcp_fin, Detached, on_tcp_error, on_tcp_receive
    <2>2. i \in Slots /\ c \in Connection
      BY <2>1, PcbSlot
    <2> QED
      BY <2>2, SizesAssumption, SMTT(20) DEF Connection
  <1>2. ASSUME NEW r \in Connection, connections' = [connections EXCEPT ![i] = Closed(r)]
        PROVE  AllShrunk
    BY <1>1, <1>2, ShrunkClosed, ShrunkOne
  <1>3. ASSUME NEW r, r.fd = c.fd, r.remote_len <= c.remote_len,
               connections' = [connections EXCEPT ![i] = r]
        PROVE  AllShrunk
    BY <1>1, <1>3, ShrunkOne DEF Shrunk
  <1>4. CASE on_tcp_connected(p)
    <2> DEFINE s == [c EXCEPT !.phase = "STREAMING"]
               t(k) == [s EXCEPT !.local_len = s.local_len + k]
    <2>1. s \in Connection /\ s.fd = c.fd /\ s.remote_len = c.remote_len
          /\ s.local_len \in 0..BufferSize
      <3>1. "STREAMING" \in Phases
        BY DEF Phases, TargetPhases
      <3> QED
        BY <1>1, <3>1 DEF Connection
    <2>2. CASE connections' = [connections EXCEPT ![i] = Closed(s)]
      <3> HIDE DEF s
      <3> QED
        BY <1>2, <2>1, <2>2
    <2>3. ASSUME NEW k \in {0, ReplySize}, s.local_len + k <= BufferSize,
                 NEW r \in flush_remote(t(k)),
                 connections' = [connections EXCEPT ![i] = r]
          PROVE  AllShrunk
      <3> HIDE DEF s
      <3>1. s.local_len + k \in 0..BufferSize
        BY <2>1, <2>3, SizesAssumption
      <3>2. t(k) \in Connection /\ t(k).fd = c.fd /\ t(k).remote_len = c.remote_len
        BY <2>1, <3>1 DEF Connection
      <3> HIDE DEF t
      <3>3. r.fd = c.fd /\ r.remote_len <= c.remote_len
        BY <2>3, <3>2, FlushedSlot
      <3> QED
        BY <1>3, <2>3, <3>3
    <2>4. \E k \in {0, ReplySize} :
             \/ connections' = [connections EXCEPT ![i] = Closed(s)]
             \/ /\ ~(s.local_len + k > BufferSize)
                /\ \E r \in flush_remote(t(k)) : connections' = [connections EXCEPT ![i] = r]
      BY <1>4 DEF on_tcp_connected, drop, close_connection
    <2>5. ASSUME NEW k \in {0, ReplySize}, ~(s.local_len + k > BufferSize)
          PROVE  s.local_len + k <= BufferSize
      <3> HIDE DEF s
      <3> QED
        BY <2>1, <2>5, SizesAssumption
    <2> HIDE DEF s, t
    <2> QED
      BY <2>2, <2>3, <2>4, <2>5, Zenon
  <1>5. CASE on_tcp_fin(p)
    <2> DEFINE s == [c EXCEPT !.remote_closed = TRUE, !.tcp = NULL]
    <2>1. s \in Connection /\ s.fd = c.fd /\ s.remote_len = c.remote_len
      BY <1>1 DEF Connection
    <2>2. \/ connections' = [connections EXCEPT ![i] = s]
          \/ connections' = [connections EXCEPT ![i] = Closed(s)]
      BY <1>5 DEF on_tcp_fin, Detached
    <2> HIDE DEF s
    <2> QED
      BY <1>1, <1>2, <1>3, <2>1, <2>2
  <1>6. CASE on_tcp_error(p)
    <2>1. [c EXCEPT !.tcp = NULL] \in Connection
      BY <1>1 DEF Connection
    <2> QED
      BY <1>2, <1>6, <2>1 DEF on_tcp_error
  <1>7. ASSUME NEW n \in 1..Window, on_tcp_receive(p, n) PROVE AllShrunk
    <2> DEFINE s == [c EXCEPT !.local_len = c.local_len + n]
    <2>1. s \in Connection /\ s.fd = c.fd /\ s.remote_len = c.remote_len
      <3>1. c.local_len + n \in 0..BufferSize
        BY <1>1, <1>7, SizesAssumption DEF Connection, on_tcp_receive
      <3> QED
        BY <1>1, <3>1 DEF Connection
    <2>2. connections' = [connections EXCEPT ![i] = s]
      BY <1>7 DEF on_tcp_receive, keep
    <2>3. s.remote_len <= c.remote_len
      BY <1>1, <2>1
    <2> HIDE DEF s
    <2> QED
      BY <1>3, <2>1, <2>2, <2>3, Zenon
  <1> QED
    BY <1>4, <1>5, <1>6, <1>7

LEMMA StatusShrinks ==
  ASSUME Inv, NEW up \in BOOLEAN, ppp_status(up)
  PROVE  AllShrunk
  <1>1. ASSUME NEW j \in Slots
        PROVE  /\ connections[j] \in Connection
               /\ Shrunk(connections[j], connections[j])
               /\ Shrunk(connections[j], Closed(connections[j]))
    <2>1. connections[j] \in Connection /\ connections[j].remote_len \in Nat
      BY SizesAssumption DEF Inv, TypeOK, Connection
    <2> QED
      BY <2>1, ShrunkClosed DEF Shrunk
  <1>2. ASSUME NEW j \in Slots
        PROVE  connections'[j] \in {connections[j], Closed(connections[j])}
    BY DEF ppp_status, Clients
  <1> QED
    BY <1>1, <1>2 DEF AllShrunk

LEMMA GoneShrinks ==
  ASSUME Inv, UNCHANGED connections
  PROVE  AllShrunk
  <1>1. ASSUME NEW j \in Slots PROVE connections[j].remote_len \in Nat
    BY SizesAssumption DEF Inv, TypeOK, Connection
  <1> QED
    BY <1>1 DEF AllShrunk, Shrunk

(* Nothing the tunnel delivers takes away room that was there.              *)
LEMMA TunnelShrinks ==
  ASSUME Inv, TunnelEvent
  PROVE  AllShrunk
  <1>1. ASSUME NEW d \in dns, NEW found \in BOOLEAN, dns_done(d, found) PROVE AllShrunk
    BY <1>1, DnsDoneShrinks
  <1>2. ASSUME NEW p \in Pcbs, pcb_gone(p) PROVE AllShrunk
    BY <1>2, GoneShrinks DEF pcb_gone
  <1>3. ASSUME NEW i \in Slots, flush(i) PROVE AllShrunk
    BY <1>3, FlushShrinks
  <1>4. ASSUME NEW up \in BOOLEAN, ppp_status(up) PROVE AllShrunk
    BY <1>4, StatusShrinks
  <1> QED
    BY <1>1, <1>2, <1>3, <1>4, PcbEventShrinks, Zenon DEF TunnelEvent

(* A handler that only shrinks slots keeps Room when no descriptor is added *)
(* to the set and no slot gets ahead of the pass again.                     *)
LEMMA ShrunkRoom ==
  ASSUME LoopInv, Inv', AllShrunk, readfds' \subseteq readfds,
         \A i \in Slots : Ahead(i)' => Ahead(i)
  PROVE  Room'
  <1>1. SUFFICES ASSUME NEW i \in Slots, connections'[i].fd \in readfds', Ahead(i)'
                 PROVE  connections'[i].remote_len + ReadSize <= BufferSize
    BY DEF Room
  <1>2. connections'[i].fd = connections[i].fd
    BY <1>1, FdsAssumption DEF AllShrunk, Shrunk, LoopInv, LoopType, NoFd
  <1>3. connections[i].remote_len + ReadSize <= BufferSize
    BY <1>1, <1>2 DEF LoopInv, Room
  <1>4. connections[i].remote_len \in Nat /\ connections'[i].remote_len \in Nat
    BY SizesAssumption DEF LoopInv, Inv, TypeOK, Connection
  <1> QED
    BY <1>3, <1>4, SizesAssumption DEF AllShrunk, Shrunk

(* A slot that accept_client fills has nothing in to_remote yet.            *)
LEMMA ConnectEmpty ==
  ASSUME NEW i, NEW c \in Connection, NEW host, NEW o, c.remote_len = 0,
         connect_ip(i, c, host, o)
  PROVE  \E r : connections' = [connections EXCEPT ![i] = r] /\ r.remote_len = 0
  <1> DEFINE n == [c EXCEPT !.resolving = FALSE]
  <1>1. n \in Connection /\ n.remote_len = 0
    BY DEF Connection
  <1>2. \/ connections' = [connections EXCEPT ![i] = n]
        \/ connections' = [connections EXCEPT ![i] = Closed(n)]
        \/ \E p \in Allocatable :
              \/ connections' = [connections EXCEPT ![i] =
                                    [n EXCEPT !.tcp = p, !.phase = "CONNECTING"]]
              \/ connections' = [connections EXCEPT ![i] = Closed([n EXCEPT !.tcp = p])]
    BY Zenon DEF connect_ip, close_connection
  <1> HIDE DEF n
  <1>3. ASSUME NEW p \in Allocatable
        PROVE  /\ [n EXCEPT !.tcp = p] \in Connection
               /\ [n EXCEPT !.tcp = p, !.phase = "CONNECTING"].remote_len = 0
    <2>1. p \in Pcbs
      BY DEF Allocatable, FreePcbs
    <2> QED
      BY <1>1, <2>1 DEF Connection
  <1>4. ASSUME NEW r \in Connection PROVE Closed(r).remote_len = 0
    BY DEF Closed, Connection
  <1>5. CASE connections' = [connections EXCEPT ![i] = n]
    BY <1>1, <1>5
  <1>6. CASE connections' = [connections EXCEPT ![i] = Closed(n)]
    BY <1>1, <1>4, <1>6
  <1>7. ASSUME NEW p \in Allocatable,
               \/ connections' = [connections EXCEPT ![i] =
                                     [n EXCEPT !.tcp = p, !.phase = "CONNECTING"]]
               \/ connections' = [connections EXCEPT ![i] = Closed([n EXCEPT !.tcp = p])]
        PROVE  \E r : connections' = [connections EXCEPT ![i] = r] /\ r.remote_len = 0
    <2> DEFINE a == [n EXCEPT !.tcp = p, !.phase = "CONNECTING"]
               b == [n EXCEPT !.tcp = p]
    <2>1. a.remote_len = 0 /\ Closed(b).remote_len = 0
      BY <1>3, <1>4
    <2>2. connections' = [connections EXCEPT ![i] = a]
          \/ connections' = [connections EXCEPT ![i] = Closed(b)]
      BY <1>7
    <2> HIDE DEF a, b
    <2> QED
      BY <2>1, <2>2
  <1> QED
    BY <1>2, <1>5, <1>6, <1>7, Zenon

LEMMA StartEmpty ==
  ASSUME NEW i, NEW c \in Connection, NEW o, c.remote_len = 0,
         start_connection(i, c, o)
  PROVE  \E r : connections' = [connections EXCEPT ![i] = r] /\ r.remote_len = 0
  <1> DEFINE n == [c EXCEPT !.phase = "RESOLVING", !.resolving = TRUE]
             m == [n EXCEPT !.resolving = FALSE]
  <1>1. n \in Connection /\ n.remote_len = 0
    <2>1. "RESOLVING" \in Phases
      BY DEF Phases, TargetPhases
    <2> QED
      BY <2>1 DEF Connection
  <1>2. m \in Connection
    <2> HIDE DEF n
    <2> QED
      BY <1>1 DEF Connection
  <1>3. ASSUME NEW r \in Connection PROVE Closed(r).remote_len = 0
    BY DEF Closed, Connection
  <1>4. \/ connections' = [connections EXCEPT ![i] = Closed(c)]
        \/ connect_ip(i, c, c.host, o)
        \/ connect_ip(i, n, n.host, o)
        \/ connections' = [connections EXCEPT ![i] = n]
        \/ connections' = [connections EXCEPT ![i] = Closed(m)]
    BY Zenon DEF start_connection, close_connection
  <1> HIDE DEF n, m
  <1>5. CASE connect_ip(i, c, c.host, o)
    BY <1>5, ConnectEmpty
  <1>6. CASE connect_ip(i, n, n.host, o)
    BY <1>1, <1>6, ConnectEmpty
  <1> QED
    BY <1>1, <1>2, <1>3, <1>4, <1>5, <1>6

LEMMA AcceptEmpty ==
  ASSUME Inv, NEW fd \in Fds, NEW kind \in Kinds, NEW host \in Hosts,
         accept_client(fd, kind, host)
  PROVE  \A j \in Slots : \/ connections'[j] = connections[j]
                          \/ connections'[j].remote_len = 0
  <1> DEFINE ph == IF kind = "SOCKS_PROXY" THEN "SOCKS_GREETING" ELSE "PROXY_HEADER"
             c == [EmptyConnection(fd) EXCEPT !.kind = kind, !.phase = ph]
             f == [c EXCEPT !.host = host]
  <1>1. EmptyConnection(fd) \in Connection /\ EmptyConnection(fd).remote_len = 0
    BY SizesAssumption DEF EmptyConnection, Connection, Kinds, Phases, HeaderPhases
  <1>2. ph \in Phases
    BY DEF Phases, HeaderPhases
  <1> HIDE DEF ph
  <1>3. c \in Connection /\ c.remote_len = 0
    BY <1>1, <1>2 DEF Connection
  <1>4. f \in Connection /\ f.remote_len = 0
    <2> HIDE DEF c
    <2> QED
      BY <1>3 DEF Connection
  <1>5. PICK i \in FreeSlots :
           \/ start_connection(i, f, open \cup {fd})
           \/ connections' = [connections EXCEPT ![i] = c]
    BY Zenon DEF accept_client, ph
  <1> HIDE DEF c, f
  <1>6. \E r : connections' = [connections EXCEPT ![i] = r] /\ r.remote_len = 0
    BY <1>3, <1>4, <1>5, StartEmpty
  <1> QED
    BY <1>6 DEF Inv, TypeOK

-----------------------------------------------------------------------------
LEMMA LoopInitInv == LoopInit => LoopInv
  <1> SUFFICES ASSUME LoopInit PROVE LoopInv
    OBVIOUS
  <1>1. Inv
    BY InitInv DEF LoopInit
  <1>2. LoopType
    BY MaxConnectionsAssumption DEF LoopInit, LoopType
  <1>3. Room
    BY DEF LoopInit, Room
  <1> QED
    BY <1>1, <1>2, <1>3 DEF LoopInv

(* Where the pass goes, and what it does to the sets on the way.            *)
LEMMA LoopTypeStep ==
  ASSUME LoopInv, LoopNext
  PROVE  LoopType'
  <1> USE MaxConnectionsAssumption
  <1>1. CASE Timers \/ Input \/ Accept
    BY <1>1 DEF LoopInv, LoopType, Timers, Input, Accept, loop
  <1>2. CASE StartWatch \/ Select \/ InputDone \/ AcceptDone \/ EndPass
    BY <1>2 DEF LoopInv, LoopType, StartWatch, Select, InputDone, AcceptDone, EndPass
  <1>3. ASSUME NEW i \in Slots, Watch(i) PROVE LoopType'
    <2>1. connections[i].fd \in Fds \cup {NoFd}
      BY DEF LoopInv, Inv, TypeOK, Connection
    <2>2. next' \in 1..(MaxConnections + 1)
      BY <1>3 DEF Watch, Slots
    <2>3. readfds' \subseteq Fds /\ writefds' \subseteq Fds
      BY <1>3, <2>1 DEF LoopInv, LoopType, Watch
    <2> QED
      BY <1>3, <2>2, <2>3 DEF LoopInv, LoopType, Watch
  <1>4. ASSUME NEW i \in Slots, ServeWrite(i) \/ ServeRead(i) PROVE LoopType'
    BY <1>4 DEF LoopInv, LoopType, ServeWrite, ServeRead, Slots
  <1> QED
    BY <1>1, <1>2, <1>3, <1>4 DEF LoopNext, Advance

(* Watch sets a slot's bit only when there is room; flush_remote adds more. *)
LEMMA WatchRoom ==
  ASSUME LoopInv, Inv', NEW i \in Slots, Watch(i)
  PROVE  Room'
  <1>1. AllShrunk
    BY FlushShrinks, GoneShrinks DEF LoopInv, Watch, vars
  <1>2. SUFFICES ASSUME NEW j \in Slots, connections'[j].fd \in readfds'
                 PROVE  connections'[j].remote_len + ReadSize <= BufferSize
    BY DEF Room
  <1>3. connections[j].remote_len \in Nat /\ connections'[j].remote_len \in Nat
    BY SizesAssumption DEF LoopInv, Inv, TypeOK, Connection
  <1>4. connections[j].remote_len + ReadSize <= BufferSize
    <2>1. readfds' \subseteq Fds
      BY LoopTypeStep DEF LoopNext, Advance, LoopType
    <2>2. connections[j].fd = connections'[j].fd /\ connections[j].fd # NoFd
      BY <1>1, <1>2, <2>1, FdsAssumption DEF AllShrunk, Shrunk, NoFd
    <2>3. CASE connections[j].fd \in readfds
      BY <2>3 DEF LoopInv, Room, Ahead, Watch
    <2>4. CASE connections[j].fd \notin readfds
      <3>1. connections[j].fd = connections[i].fd /\ Readable(connections[i])
        BY <1>2, <2>2, <2>4, SMTT(20) DEF Watch
      <3>2. i = j
        BY <2>2, <3>1 DEF LoopInv, Inv, FdOwnership
      <3>3. connections[j].remote_len < BufferSize - ReadSize
        BY <3>1, <3>2 DEF Readable
      <3> QED
        BY <1>3, <3>3, SizesAssumption
    <2> QED
      BY <2>3, <2>4
  <1> QED
    BY <1>1, <1>3, <1>4, SizesAssumption DEF AllShrunk, Shrunk

(* The slot that is read is behind the pass afterwards.                     *)
LEMMA ReadRoom ==
  ASSUME LoopInv, NEW i \in Slots, ServeRead(i)
  PROVE  Room'
  <1>1. ASSUME NEW j \in Slots, j # i PROVE connections'[j] = connections[j]
    <2>1. CASE read_client(i)
      <3>1. PICK r : SlotStep(i, r)
        BY <2>1, ReadStep DEF LoopInv
      <3> QED
        BY <1>1, <3>1 DEF SlotStep, LoopInv, Inv, TypeOK
    <2>2. CASE UNCHANGED vars
      BY <2>2 DEF vars
    <2> QED
      BY <2>1, <2>2, SMTT(20) DEF ServeRead
  <1>2. ASSUME NEW j \in Slots, Ahead(j)' PROVE j # i /\ Ahead(j)
    BY <1>2 DEF Ahead, ServeRead, Slots
  <1>3. readfds' = readfds
    BY DEF ServeRead
  <1> QED
    BY <1>1, <1>2, <1>3 DEF Room, LoopInv

LEMMA LoopNextInv ==
  ASSUME LoopInv, [LoopNext]_loopVars
  PROVE  LoopInv'
  <1>1. Inv'
    <2>1. [Next]_vars
      BY LoopStep DEF loopVars, vars
    <2> QED
      BY <2>1, NextInv DEF LoopInv
  <1>2. CASE UNCHANGED loopVars
    BY <1>1, <1>2 DEF LoopInv, LoopType, Room, Ahead, loopVars, loop, vars
  <1>3. CASE LoopNext
    <2> SUFFICES Room'
      BY <1>1, <1>3, LoopTypeStep DEF LoopInv
    <2>1. CASE Timers \/ StartWatch \/ EndPass
      BY <2>1 DEF Room, Ahead, Timers, StartWatch, EndPass, loop
    <2>2. CASE Select \/ InputDone \/ AcceptDone
      <3>1. AllShrunk
        BY <2>2, GoneShrinks DEF LoopInv, Select, InputDone, AcceptDone, vars
      <3>2. readfds' \subseteq readfds
        BY <2>2 DEF Select, InputDone, AcceptDone
      <3>3. \A i \in Slots : Ahead(i)' => Ahead(i)
        BY <2>2 DEF Select, InputDone, AcceptDone, Ahead
      <3> QED
        BY <1>1, <3>1, <3>2, <3>3, ShrunkRoom
    <2>3. CASE Input
      BY <1>1, <2>3, TunnelShrinks, ShrunkRoom DEF Input, LoopInv, Ahead, loop
    <2>4. CASE Accept
      <3>1. \A j \in Slots : \/ connections'[j] = connections[j]
                            \/ connections'[j].remote_len = 0
        BY <2>4, AcceptEmpty DEF Accept, LoopInv
      <3>2. Room /\ UNCHANGED <<pc, next, readfds>>
        BY <2>4 DEF Accept, LoopInv, loop
      <3>3. 0 + ReadSize <= BufferSize
        BY SizesAssumption
      <3> QED
        BY <3>1, <3>2, <3>3 DEF Room, Ahead
    <2>5. ASSUME NEW i \in Slots, Watch(i) PROVE Room'
      BY <1>1, <2>5, WatchRoom
    <2>6. ASSUME NEW i \in Slots, ServeWrite(i) PROVE Room'
      <3>1. AllShrunk
        BY <2>6, FlushLocalShrinks, GoneShrinks DEF ServeWrite, LoopInv, vars
      <3>2. readfds' \subseteq readfds /\ \A j \in Slots : Ahead(j)' => Ahead(j)
        BY <2>6 DEF ServeWrite, Ahead
      <3> QED
        BY <1>1, <3>1, <3>2, ShrunkRoom
    <2>7. ASSUME NEW i \in Slots, ServeRead(i) PROVE Room'
      BY <2>7, ReadRoom
    <2> QED
      BY <1>3, <2>1, <2>2, <2>3, <2>4, <2>5, <2>6, <2>7 DEF LoopNext, Advance
  <1> QED
    BY <1>2, <1>3

(* The loop keeps its type and, whatever clients, tunnel and timers do,     *)
(* never reads a client that to_remote has no room for.                     *)
THEOREM LoopInvariance == LoopSpec => []LoopInv
  BY LoopInitInv, LoopNextInv, PTL DEF LoopSpec

(* The cursor and the descriptor sets of the loop in main() stay in range.   *)
THEOREM LoopTypeCorrect == LoopSpec => []LoopTypeOK
  <1>1. LoopInv => LoopTypeOK
    BY DEF LoopInv, Inv, LoopType, LoopTypeOK
  <1> QED
    BY <1>1, LoopInvariance, PTL

(* The room tested in the FD_SET pass is still there at the read(), for     *)
(* every number of slots and every buffer and read size.                    *)
THEOREM ReadsFit == LoopSpec => []ReadFits
  <1>1. LoopInv => ReadFits
    <2> SUFFICES ASSUME LoopInv, NEW i \in Slots, pc = "read", next = i,
                        connections[i].fd \in readfds
                 PROVE  connections[i].remote_len + ReadSize <= BufferSize
      BY DEF ReadFits
    <2>1. Ahead(i)
      BY DEF Ahead, Slots
    <2> QED
      BY <2>1 DEF LoopInv, Room
  <1> QED
    BY <1>1, LoopInvariance, PTL
=============================================================================
