------------------------------ MODULE PppLink ------------------------------
(* The PPP link of the engine: the three negotiations lwIP runs on the pty   *)
(* (LCP for the link, CCP for MPPE encryption, IPCP for the address), each   *)
(* an instance of the automaton of fsm.c, the phases auth.c moves the link   *)
(* through, the CHAP client, and the flag link_up that main.c keeps from the *)
(* status callback and by which it admits proxy requests.                    *)
(*                                                                           *)
(* The functions of lwIP call each other back: closing LCP takes CCP down,   *)
(* and CCP going down closes LCP.  Every C function is an operator from the  *)
(* control block before the call to the one after it, in the order of the    *)
(* C statements, so a nested call finds the states the C code leaves at that *)
(* point.  The peer may send any packet at any time.  Of a packet the model  *)
(* keeps the code and what the option parsers make of the options.  The      *)
(* configuration is the one of main.c: client only, MS-CHAPv2, MPPE required *)
(* in 128 bits, no OPT_SILENT, OPT_PASSIVE or OPT_RESTART, no echo requests. *)
EXTENDS Integers

CONSTANTS
    MaxConfReq,  \* settings.fsm_max_conf_req_transmits
    MaxTerm,     \* settings.fsm_max_term_transmits
    MaxRestarts  \* negotiations the peer may start over (a bound of the model)

ASSUME PppAssumption == MaxConfReq \in Nat \ {0} /\ MaxTerm \in Nat \ {0} /\ MaxRestarts \in Nat

VARIABLES
    pcb,         \* the ppp_pcb, and main.c's link_up
    restarts     \* negotiations started over so far

vars == <<pcb, restarts>>

Layers == {"LCP", "CCP", "IPCP"}
Negotiating == {"REQSENT", "ACKRCVD", "ACKSENT"}
State(p, k) == p.fsm[k].state
Goto(p, k, s) == [p EXCEPT !.fsm[k].state = s]
Phase(p, ph) == [p EXCEPT !.phase = ph]

(* TIMEOUT and UNTIMEOUT of fsm_timeout: UNTIMEOUT removes one entry of the *)
(* timer list, not every one.                                                *)
TIMEOUT(p, k) == [p EXCEPT !.fsm[k].timers = @ + 1]
UNTIMEOUT(p, k) == [p EXCEPT !.fsm[k].timers = IF @ > 0 THEN @ - 1 ELSE 0]

(* ccp_set: the compression methods of the two directions, here whether each *)
(* is MPPE.                                                                  *)
ccp_set(p, receive, transmit) == [p EXCEPT !.receive = receive, !.transmit = transmit]

RECURSIVE lcp_close(_), Down(_, _), Finished(_, _)

(* The calls of C take values: after(q) for the q that is computed first.    *)
With(p, after(_)) == CHOOSE r \in {after(q) : q \in {p}} : TRUE

(* Mutant: the test for keys is dropped.                                     *)
ccp_resetci_keyless(p) ==
    With([p EXCEPT !.mppe = TRUE, !.all_rejected = FALSE],
         LAMBDA q : IF q.auth_done THEN q ELSE lcp_close(q))

(* Start of a CCP negotiation: MPPE is asked for, and LCP is closed when     *)
(* MS-CHAP did not succeed since LCP came up, or there are no keys.          *)
ccp_resetci(p) ==
    With([p EXCEPT !.mppe = TRUE, !.all_rejected = FALSE],
         LAMBDA q : IF q.auth_done /\ q.mppe_keys_set THEN q ELSE lcp_close(q))

fsm_sconfreq(p, k, retransmit) ==
    LET left(q) == IF retransmit THEN q.fsm[k].retransmits ELSE MaxConfReq
    IN With(With(p, LAMBDA q : IF k = "CCP" /\ State(q, k) \notin Negotiating THEN ccp_resetci(q) ELSE q),
            LAMBDA q : TIMEOUT([q EXCEPT !.fsm[k].retransmits = left(q) - 1, !.fsm[k].seen_ack = FALSE], k))

Request(p, k) == Goto(fsm_sconfreq(p, k, FALSE), k, "REQSENT")

fsm_lowerup(c, k) ==
    With(c, LAMBDA p :
      CASE State(p, k) = "INITIAL" -> Goto(p, k, "CLOSED")
        [] State(p, k) = "STARTING" -> Request(p, k)
        [] OTHER -> p)

fsm_lowerdown(c, k) ==
    With(c, LAMBDA p :
      CASE State(p, k) = "CLOSED" -> Goto(p, k, "INITIAL")
        [] State(p, k) = "STOPPED" -> Goto(p, k, "STARTING")
        [] State(p, k) = "CLOSING" -> UNTIMEOUT(Goto(p, k, "INITIAL"), k)
        [] State(p, k) \in Negotiating \cup {"STOPPING"} -> UNTIMEOUT(Goto(p, k, "STARTING"), k)
        [] State(p, k) = "OPENED" -> Goto(Down(p, k), k, "STARTING")
        [] OTHER -> p)

fsm_open(c, k) ==
    With(c, LAMBDA p :
      CASE State(p, k) = "INITIAL" -> Goto(p, k, "STARTING")
        [] State(p, k) = "CLOSED" -> Request(p, k)
        [] State(p, k) = "CLOSING" -> Goto(p, k, "STOPPING")
        [] OTHER -> p)

(* Mutant: no timer waits for the answer to the Terminate-Request.           *)
terminate_layer_untimed(p, k, next) ==
    With(IF State(p, k) = "OPENED" THEN Down(p, k) ELSE UNTIMEOUT(p, k),
         LAMBDA q : Goto([q EXCEPT !.fsm[k].retransmits = MaxTerm - 1], k, next))

terminate_layer(p, k, next) ==
    With(IF State(p, k) = "OPENED" THEN Down(p, k) ELSE UNTIMEOUT(p, k),
         LAMBDA q : Goto(TIMEOUT([q EXCEPT !.fsm[k].retransmits = MaxTerm - 1], k), k, next))

fsm_close(c, k) ==
    With(c, LAMBDA p :
      CASE State(p, k) = "STARTING" -> Goto(p, k, "INITIAL")
        [] State(p, k) = "STOPPED" -> Goto(p, k, "CLOSED")
        [] State(p, k) = "STOPPING" -> Goto(p, k, "CLOSING")
        [] State(p, k) \in Negotiating \cup {"OPENED"} -> terminate_layer(p, k, "CLOSING")
        [] OTHER -> p)

lcp_close(p) == fsm_close(IF p.phase = "DEAD" THEN p ELSE Phase(p, "TERMINATE"), "LCP")

ccp_close(p) == fsm_close(ccp_set(p, FALSE, FALSE), "CCP")

(* LCP is gone: chap, ipcp and ccp lose their lower layer, in the order of   *)
(* the table of protocols, and the network protocols are closed.             *)
upper_layers_down(p) ==
    LET chap == [p EXCEPT !.chap = {}]
        ipcp == fsm_close(fsm_lowerdown(chap, "IPCP"), "IPCP")
        ccp == ccp_close(fsm_lowerdown(ipcp, "CCP"))
    IN [ccp EXCEPT !.num_np_open = 0, !.num_np_up = 0]

link_down(p) ==
    With(upper_layers_down(p), LAMBDA q : IF q.phase = "DEAD" THEN q ELSE Phase(q, "ESTABLISH"))

np_down(p) ==
    LET q == [p EXCEPT !.num_np_up = @ - 1]
    IN IF q.num_np_up = 0 THEN Phase(q, "NETWORK") ELSE q

(* Mutant: the interface stays up.                                           *)
ipcp_down_up(p) == IF p.ipcp_is_up THEN np_down([p EXCEPT !.ipcp_is_up = FALSE]) ELSE p

(* sifdown, called here, takes the interface down without a call of the      *)
(* status callback.                                                          *)
ipcp_down(p) ==
    LET q == IF p.ipcp_is_up THEN np_down([p EXCEPT !.ipcp_is_up = FALSE]) ELSE p
    IN [q EXCEPT !.if4_up = FALSE]

ccp_down(p) ==
    LET q == [ccp_set(p, FALSE, FALSE) EXCEPT !.mppe = FALSE]
    IN IF p.mppe /\ State(p, "LCP") = "OPENED" THEN lcp_close(q) ELSE q

Down(p, k) ==
    CASE k = "LCP" -> link_down(p) [] k = "CCP" -> ccp_down(p) [] k = "IPCP" -> ipcp_down(p)

(* Mutant: the compression methods are not looked at.                        *)
ppp_status_unencrypted(p, err) == [p EXCEPT !.link_up = (err = "NONE")]

(* The status callback of main.c: the link is up when lwIP reports no error  *)
(* and MPPE is on in both directions.                                        *)
ppp_status(p, err) == [p EXCEPT !.link_up = (err = "NONE" /\ p.receive /\ p.transmit)]

(* pppos_disconnect and ppp_link_end.                                        *)
ppp_link_end(p) == ppp_status([p EXCEPT !.open = FALSE, !.phase = "DEAD"], "CONNECT")

link_terminated(p) ==
    IF p.phase = "DEAD" THEN p
    ELSE ppp_link_end(fsm_lowerdown(Phase(p, "DISCONNECT"), "LCP"))

np_finished(p) ==
    LET q == [p EXCEPT !.num_np_open = @ - 1]
    IN IF q.num_np_open <= 0 THEN lcp_close(q) ELSE q

ipcp_finished(p) == IF p.ipcp_is_open THEN np_finished([p EXCEPT !.ipcp_is_open = FALSE]) ELSE p

(* CCP has no finished callback.                                             *)
Finished(p, k) ==
    CASE k = "LCP" -> link_terminated(p) [] k = "IPCP" -> ipcp_finished(p) [] k = "CCP" -> p

------------------------------------------------------------------------------
(* Coming up.                                                                *)

continue_networks(p) ==
    LET q == fsm_open(p, "IPCP") IN [q EXCEPT !.ipcp_is_open = TRUE, !.num_np_open = @ + 1]

ccp_open(p) ==
    LET q == IF State(p, "CCP") = "OPENED" THEN p ELSE ccp_set(p, FALSE, FALSE)
    IN fsm_open(ccp_resetci(q), "CCP")

start_networks(p) ==
    LET q == ccp_open(Phase(p, "NETWORK")) IN IF q.mppe THEN q ELSE continue_networks(q)

link_established(p) ==
    LET up == fsm_lowerup(fsm_lowerup([p EXCEPT !.chap = @ \cup {"LOWERUP"}], "IPCP"), "CCP")
        auth == [up EXCEPT !.phase = "AUTHENTICATE", !.auth_done = FALSE]
    IN IF p.neg_chap THEN [auth EXCEPT !.chap = @ \cup {"AUTH_STARTED"}] ELSE start_networks(auth)

ccp_up(p) ==
    LET q == ccp_set(p, p.mppe, p.his_mppe) IN IF p.mppe THEN continue_networks(q) ELSE q

np_up(p) == [p EXCEPT !.phase = IF p.num_np_up = 0 THEN "RUNNING" ELSE @, !.num_np_up = @ + 1]

(* ipcp_up: without a usable address IPCP closes itself; otherwise sifup     *)
(* brings the interface up and calls the status callback.                    *)
ipcp_up(p) ==
    IF ~p.usable THEN fsm_close(p, "IPCP")
    ELSE LET q == np_up(ppp_status([p EXCEPT !.if4_up = TRUE], "NONE"))
         IN [q EXCEPT !.ipcp_is_up = TRUE]

Up(p, k) ==
    CASE k = "LCP" -> link_established(p) [] k = "CCP" -> ccp_up(p) [] k = "IPCP" -> ipcp_up(p)

------------------------------------------------------------------------------
(* Packets received and timers expired.                                      *)

(* What the option parser makes of a request: "auth" (LCP) asks for CHAP,    *)
(* "mppe" (CCP) asks for MPPE, "plain" has nothing of either, all three are  *)
(* acknowledged; "other" is answered by a Nak or the Reject of a part;       *)
(* "rejected" (CCP) asks for MPPE in a form that we rejected as a whole,     *)
(* after maxnakloops Naks; "refused" (CCP) is rejected for want of MPPE.     *)
Requests(p, k) ==
    {"plain", "other"}
    \cup (CASE k = "LCP" -> {"auth"}
            [] k = "CCP" -> {"mppe", "refused"}
                            \cup (IF State(p, k) \in {"REQSENT", "ACKRCVD"} THEN {"rejected"} ELSE {})
            [] OTHER -> {})

reqci(p, k, r) ==
    CASE k = "LCP" -> [p EXCEPT !.neg_chap = (r = "auth")]
      [] k = "CCP" -> LET q == [p EXCEPT !.his_mppe = (r = "mppe"),
                                         !.all_rejected = @ \/ r \in {"rejected", "refused"}]
                      IN IF r = "refused" THEN lcp_close(q) ELSE q
      [] OTHER -> p

(* OPENED: go down and restart the negotiation.                              *)
Restart(p, k) == Request(Down(p, k), k)

fsm_rconfreq(p, k, r) ==
    LET begun == CASE State(p, k) = "OPENED" -> Restart(p, k)
                   [] State(p, k) = "STOPPED" -> Request(p, k)
                   [] OTHER -> p
        q == reqci(begun, k, r)
        agreed == r \notin {"other", "rejected", "refused"}
    IN CASE State(p, k) \in {"CLOSED", "CLOSING", "STOPPING"} -> p
         [] agreed /\ State(q, k) = "ACKRCVD" -> Up(Goto(UNTIMEOUT(q, k), k, "OPENED"), k)
         [] agreed /\ State(q, k) # "ACKRCVD" -> Goto(q, k, "ACKSENT")
         [] ~agreed /\ State(q, k) = "ACKRCVD" -> q
         [] OTHER -> Goto(q, k, "REQSENT")

fsm_rconfack(p, k) ==
    LET q == [p EXCEPT !.fsm[k].seen_ack = TRUE]
        full == [q EXCEPT !.fsm[k].retransmits = MaxConfReq]
    IN CASE State(p, k) = "REQSENT" -> Goto(full, k, "ACKRCVD")
         [] State(p, k) = "ACKRCVD" -> Request(UNTIMEOUT(q, k), k)
         [] State(p, k) = "ACKSENT" -> Up(Goto(UNTIMEOUT(full, k), k, "OPENED"), k)
         [] State(p, k) = "OPENED" -> Restart(q, k)
         [] OTHER -> q

(* What the option parser makes of a Nak or Reject of our request: "good"    *)
(* changes what we ask for; "refused" (CCP) refuses MPPE, and "bad" is one   *)
(* with more options after that; "empty" (CCP) rejects nothing although we   *)
(* rejected all that the peer asked for; "looped" (LCP) is the last of many  *)
(* Naks that hold our magic number.                                          *)
Refusals(p, k, code) ==
    (IF k = "CCP" /\ code = "CONFREJ" /\ p.all_rejected THEN {"empty"} ELSE {"good"})
    \cup (IF k = "CCP" /\ p.mppe THEN {"refused"} ELSE {})
    \cup (IF k = "CCP" /\ p.mppe /\ code = "CONFREJ" THEN {"bad"} ELSE {})
    \cup (IF k = "LCP" /\ code = "CONFNAK" /\ State(p, k) # "OPENED" THEN {"looped"} ELSE {})

(* ccp_nakci, ccp_rejci and lcp_nakci, which close LCP for all but the first *)
(* and the "empty" ones.  The options of CCP are set after that, from what   *)
(* they were before: a Nak drops MPPE from them, a Reject does not.          *)
nakrejci(p, code, refusal) ==
    CASE refusal \in {"good", "empty"} -> p
      [] refusal \in {"bad", "looped"} -> lcp_close(p)
      [] refusal = "refused" -> [lcp_close(p) EXCEPT !.mppe = (code = "CONFREJ")]

fsm_rconfnakrej(p, k, code, refusal) ==
    LET q == [nakrejci(p, code, refusal) EXCEPT !.fsm[k].seen_ack = TRUE]
    IN CASE refusal = "bad" -> nakrejci(p, code, refusal)
         [] refusal # "bad" /\ State(q, k) \in {"REQSENT", "ACKSENT"} ->
               IF refusal = "empty" THEN Goto(UNTIMEOUT(q, k), k, "STOPPED")
               ELSE fsm_sconfreq(UNTIMEOUT(q, k), k, FALSE)
         [] refusal # "bad" /\ State(q, k) = "ACKRCVD" -> Request(UNTIMEOUT(q, k), k)
         [] refusal # "bad" /\ State(q, k) = "OPENED" -> Restart(q, k)
         [] OTHER -> q

fsm_rtermreq(p, k) ==
    CASE State(p, k) \in {"ACKRCVD", "ACKSENT"} -> Goto(p, k, "REQSENT")
      [] State(p, k) = "OPENED" ->
            LET stop == [p EXCEPT !.fsm[k].retransmits = 0, !.fsm[k].state = "STOPPING"]
            IN TIMEOUT(Down(stop, k), k)
      [] OTHER -> p

fsm_rtermack(p, k) ==
    CASE State(p, k) = "CLOSING" -> Finished(Goto(UNTIMEOUT(p, k), k, "CLOSED"), k)
      [] State(p, k) = "STOPPING" -> Finished(Goto(UNTIMEOUT(p, k), k, "STOPPED"), k)
      [] State(p, k) = "ACKRCVD" -> Goto(p, k, "REQSENT")
      [] State(p, k) = "OPENED" -> Restart(p, k)
      [] OTHER -> p

fsm_rcoderej(p, k) == IF State(p, k) = "ACKRCVD" THEN Goto(p, k, "REQSENT") ELSE p

(* ccp_input, after fsm_input: the peer ended CCP.                           *)
ccp_input(p, q, code) ==
    CASE State(p, "CCP") = "OPENED" /\ code = "TERMREQ" /\ State(q, "CCP") # "OPENED" /\ q.mppe -> lcp_close(q)
      [] State(p, "CCP") = "REQSENT" /\ code = "TERMACK" /\ ~q.mppe -> ccp_close(q)
      [] OTHER -> q

fsm_timeout(p, k) ==
    LET q == [p EXCEPT !.fsm[k].timers = @ - 1]
        last == p.fsm[k].retransmits <= 0
        again == fsm_sconfreq(q, k, TRUE)
    IN CASE State(p, k) = "CLOSING" /\ last -> Finished(Goto(q, k, "CLOSED"), k)
         [] State(p, k) = "STOPPING" /\ last -> Finished(Goto(q, k, "STOPPED"), k)
         [] State(p, k) \in {"CLOSING", "STOPPING"} /\ ~last ->
               TIMEOUT([q EXCEPT !.fsm[k].retransmits = @ - 1], k)
         [] State(p, k) \in Negotiating /\ last -> Finished(Goto(q, k, "STOPPED"), k)
         [] State(p, k) \in Negotiating /\ ~last ->
               IF State(again, k) = "ACKRCVD" THEN Goto(again, k, "REQSENT") ELSE again
         [] OTHER -> q

(* chap_respond: the response to a challenge is made, and the keys with it.  *)
chap_respond(p) ==
    IF {"LOWERUP", "AUTH_STARTED"} \subseteq p.chap THEN [p EXCEPT !.mppe_keys_set = TRUE] ELSE p

(* auth_withpeer_success and auth_withpeer_fail.  A Success is compared with *)
(* the last response made, be it of an earlier LCP session, or none yet.     *)
chap_handle_status(p, success) ==
    LET q == [p EXCEPT !.chap = @ \cup {"AUTH_DONE"}]
    IN IF success THEN start_networks([q EXCEPT !.auth_done = TRUE]) ELSE lcp_close(q)

(* lcp_rprotrej: the peer does not know a protocol.                          *)
protrej(p, proto) ==
    CASE proto = "LCP" -> terminate_layer(p, "LCP", "STOPPING")
      [] proto = "IPCP" -> fsm_lowerdown(p, "IPCP")
      [] proto = "CCP" -> LET q == fsm_lowerdown(ccp_set(p, FALSE, FALSE), "CCP")
                          IN IF q.mppe THEN lcp_close(q) ELSE q
      [] proto = "CHAP" -> IF p.chap \cap {"AUTH_STARTED", "AUTH_DONE"} = {"AUTH_STARTED"}
                           THEN lcp_close([p EXCEPT !.chap = @ \ {"AUTH_STARTED"}]) ELSE p

------------------------------------------------------------------------------
(* ppp_connect on a fresh control block: pppos_connect opens the link and    *)
(* ppp_start opens LCP and sends the first request.                          *)
ppp_start(p) ==
    fsm_lowerup(fsm_open([p EXCEPT !.open = TRUE, !.mppe_keys_set = FALSE, !.phase = "ESTABLISH"], "LCP"),
                "LCP")

Init ==
    /\ pcb = ppp_start([fsm |-> [k \in Layers |-> [state |-> "INITIAL", timers |-> 0, retransmits |-> 0, seen_ack |-> FALSE]],
                        open |-> FALSE, phase |-> "DEAD", link_up |-> FALSE, chap |-> {}, neg_chap |-> FALSE,
                        auth_done |-> FALSE, mppe_keys_set |-> FALSE, mppe |-> FALSE,
                        all_rejected |-> FALSE, his_mppe |-> FALSE, receive |-> FALSE,
                        transmit |-> FALSE, num_np_open |-> 0, num_np_up |-> 0, ipcp_is_open |-> FALSE,
                        ipcp_is_up |-> FALSE, if4_up |-> FALSE, usable |-> TRUE])
    /\ restarts = 0

(* ppp_input and fsm_input: what reaches the automaton of layer k.           *)
Admitted(k) ==
    /\ pcb.open
    /\ k # "LCP" => State(pcb, "LCP") = "OPENED" /\ pcb.phase \notin {"ESTABLISH", "AUTHENTICATE"}
    /\ State(pcb, k) \notin {"INITIAL", "STARTING"}

(* Bounds the negotiations that a packet starts over.                        *)
Counted(again) ==
    /\ again => restarts < MaxRestarts
    /\ restarts' = IF again THEN restarts + 1 ELSE restarts

(* The addresses IPCP agrees on may be usable or not.                        *)
Addressed(k) == {[pcb EXCEPT !.usable = u] : u \in IF k = "IPCP" THEN BOOLEAN ELSE {TRUE}}
Settled(p) == pcb' = [p EXCEPT !.usable = TRUE]

ConfReq(k) ==
    /\ Admitted(k)
    /\ Counted(State(pcb, k) \in {"OPENED", "STOPPED"})
    /\ \E r \in Requests(pcb, k), p \in Addressed(k) : Settled(fsm_rconfreq(p, k, r))

ConfAck(k) ==
    /\ Admitted(k) /\ ~pcb.fsm[k].seen_ack
    /\ Counted(State(pcb, k) = "OPENED")
    /\ \E p \in Addressed(k) : Settled(fsm_rconfack(p, k))

ConfNakRej(k) ==
    /\ Admitted(k) /\ ~pcb.fsm[k].seen_ack
    /\ Counted(State(pcb, k) = "OPENED")
    /\ \E code \in {"CONFNAK", "CONFREJ"} : \E refusal \in Refusals(pcb, k, code) :
          pcb' = fsm_rconfnakrej(pcb, k, code, refusal)

Terminate(k) ==
    /\ Admitted(k)
    /\ \E code \in {"TERMREQ", "TERMACK"} :
          LET q == IF code = "TERMREQ" THEN fsm_rtermreq(pcb, k) ELSE fsm_rtermack(pcb, k)
          IN /\ Counted(code = "TERMACK" /\ State(pcb, k) = "OPENED")
             /\ pcb' = IF k = "CCP" THEN ccp_input(pcb, q, code) ELSE q

CodeRej(k) == Admitted(k) /\ pcb' = fsm_rcoderej(pcb, k) /\ UNCHANGED restarts

ProtRej(proto) ==
    /\ Admitted("LCP") /\ State(pcb, "LCP") = "OPENED"
    /\ pcb' = protrej(pcb, proto) /\ UNCHANGED restarts

Challenge ==
    /\ pcb.open /\ State(pcb, "LCP") = "OPENED"
    /\ pcb' = chap_respond(pcb) /\ UNCHANGED restarts

ChapStatus ==
    /\ pcb.open /\ State(pcb, "LCP") = "OPENED" /\ pcb.chap = {"LOWERUP", "AUTH_STARTED"}
    /\ \E success \in BOOLEAN : pcb' = chap_handle_status(pcb, success)
    /\ UNCHANGED restarts

(* mppe_decompress: too many bogus packets.                                  *)
MppeErrors ==
    /\ pcb.open /\ State(pcb, "LCP") = "OPENED" /\ pcb.receive
    /\ pcb.phase \notin {"ESTABLISH", "AUTHENTICATE"}
    /\ pcb' = lcp_close(pcb) /\ UNCHANGED restarts

Timeout(k) == pcb.fsm[k].timers > 0 /\ pcb' = fsm_timeout(pcb, k) /\ UNCHANGED restarts

Next ==
    \/ \E k \in Layers : ConfReq(k) \/ ConfAck(k) \/ ConfNakRej(k) \/ Terminate(k) \/ CodeRej(k) \/ Timeout(k)
    \/ \E proto \in Layers \cup {"CHAP"} : ProtRej(proto)
    \/ Challenge \/ ChapStatus \/ MppeErrors

Spec == Init /\ [][Next]_vars

(* The engine's loop runs sys_check_timeouts on every turn.                  *)
FairSpec == Spec /\ \A k \in Layers : WF_vars(Timeout(k))

------------------------------------------------------------------------------
(* The interface carries packets only over an open LCP and an open IPCP, and *)
(* auth.c's count of running network protocols agrees.                       *)
InterfaceNeedsLink ==
    /\ pcb.if4_up => State(pcb, "LCP") = "OPENED" /\ State(pcb, "IPCP") = "OPENED"
    /\ pcb.num_np_up = IF pcb.if4_up THEN 1 ELSE 0

(* MPPE is on in a direction only with keys set, after an MS-CHAP success in *)
(* this LCP session and over an open CCP.  The keys may be those of an       *)
(* earlier LCP session: a Success counts without a Challenge before it, and  *)
(* only the test of mppe_keys_set in ccp_resetci asks whether one ever came. *)
EncryptionNeedsKeys ==
    pcb.receive \/ pcb.transmit =>
        /\ pcb.mppe_keys_set /\ pcb.auth_done
        /\ State(pcb, "CCP") = "OPENED" /\ State(pcb, "LCP") = "OPENED"

(* Proxy requests are admitted (link_up is set) only at a moment when all    *)
(* three negotiations are complete, the client is authenticated and MPPE is  *)
(* on in both directions.                                                    *)
AdmittedWhenNegotiated ==
    [][~pcb.link_up /\ pcb'.link_up =>
         /\ \A k \in Layers : State(pcb', k) = "OPENED"
         /\ pcb'.auth_done /\ pcb'.receive /\ pcb'.transmit /\ pcb'.if4_up]_vars

(* A link that is closing ends: LCP reaches its end, the serial layer is     *)
(* closed and main.c is told.                                                *)
ClosingEnds ==
    State(pcb, "LCP") \in {"CLOSING", "STOPPING"} ~> ~pcb.open /\ ~pcb.link_up

(* "Proxy requests are blocked until PPP/MPPE negotiation completes":        *)
(* link_up does not stay set on a link whose interface is down.  The code    *)
(* does not keep this (README, section 5): sifdown makes no status callback. *)
LinkLossNoticed == pcb.link_up /\ ~pcb.if4_up ~> ~pcb.link_up \/ pcb.if4_up

(* "ccp_lowerdown - we may not transmit CCP packets": CCP has no request     *)
(* outstanding while LCP is not open.  The code does not keep this (README,  *)
(* section 5): ccp_down closes LCP in the middle of CCP's own restart.       *)
CcpSilentWithoutLcp == State(pcb, "CCP") \in Negotiating => State(pcb, "LCP") = "OPENED"
==============================================================================
