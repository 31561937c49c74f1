---------------------------- MODULE EngineProofs ----------------------------
(***************************************************************************)
(* Proofs about Engine, for any number of control peers, any backlog and   *)
(* any number of waitpid attempts.                                         *)
(***************************************************************************)
EXTENDS Engine, TLAPS

(* What select saw on the control socket is still there at accept(): peers  *)
(* join the backlog in between and do not leave it.                         *)
ReadyIsTrue == pc \in {"pty", "input", "accept"} /\ ready => backlog # <<>>

Starting == {"control", "password", "ports", "fork"}
Running == {"ppp", "check", "timers", "select", "pty", "input", "accept", "request", "wait",
            "close", "farewell", "kill", "reap", "final"}

(* pptp_pid names a process that has not been reaped, or none.              *)
ChildKnown ==
    /\ pc \in Starting => pptp_pid = "none"
    /\ pc \in Running => pptp_pid # "none"
    /\ pc = "reap" => pptp_pid = "child"
    /\ pptp_pid = "none" => child = "none"
    /\ pptp_pid = "reaped" => child = "gone"
    /\ pptp_pid = "child" /\ pc \notin Ended \cup {"final"} => child \in Alive \cup {"zombie"}
    /\ pc = "final" => child = "gone"
    /\ NoChildLeft /\ SignalsOwnChild

(* Once STOP was answered the loop is on its way out.                       *)
Leaving == {"wait", "check", "close", "farewell", "kill", "reap", "final"} \cup Ended
StopAnswered ==
    (\E p \in Peers : peer[p].reply = "OK STOP") => stop_requested /\ pc \in Leaving

Inv == TypeOK /\ ReadyIsTrue /\ ChildKnown /\ StopAnswered

-----------------------------------------------------------------------------
LEMMA InitInv == Init => Inv
  <1> SUFFICES ASSUME Init PROVE Inv
    OBVIOUS
  <1>0. PICK text \in [Peers -> Commands] :
             peer = [p \in Peers |-> [text |-> text[p], state |-> "away", reply |-> "none"]]
    BY DEF Init
  <1>1. TypeOK
    <2>1. peer \in [Peers -> PeerType]
      BY <1>0 DEF PeerType, PeerStates, Outcomes
    <2>2. attempt \in 0..Attempts /\ signals \in 0..MaxSignals /\ length \in 0..MaxRequest
      BY EngineAssumption DEF Init
    <2>3. backlog \in Seq(Peers) /\ Len(backlog) <= Backlog
      BY EngineAssumption DEF Init
    <2>4. control \in [fd : BOOLEAN, file : BOOLEAN]
      BY DEF Init
    <2> QED
      BY <2>1, <2>2, <2>3, <2>4 DEF Init, TypeOK
  <1>2. ReadyIsTrue /\ ChildKnown
    BY DEF Init, ReadyIsTrue, ChildKnown, Starting, Running, NoChildLeft, SignalsOwnChild
  <1>3. StopAnswered
    <2>1. \A p \in Peers : peer[p].reply = "none"
      BY <1>0
    <2> QED
      BY <2>1 DEF StopAnswered
  <1> QED
    BY <1>1, <1>2, <1>3 DEF Inv

(* The end of the process changes no reply and keeps the types.             *)
LEMMA HangupType ==
  ASSUME TypeOK
  PROVE  /\ Hangup \in [Peers -> PeerType]
         /\ \A p \in Peers : Hangup[p].reply = peer[p].reply
  BY DEF TypeOK, Hangup, PeerType, PeerStates

LEMMA EndTypes ==
  ASSUME TypeOK, NEW how \in Ended, NEW file \in BOOLEAN, End(how, file),
         UNCHANGED process, signals' \in 0..MaxSignals, stop_requested' \in BOOLEAN
  PROVE  TypeOK'
  <1>1. peer' \in [Peers -> PeerType]
    BY HangupType DEF End
  <1>2. backlog' \in Seq(Peers) /\ Len(backlog') <= Backlog
    BY EngineAssumption DEF End
  <1>3. pc' = how /\ ready' = ready /\ attempt' = attempt /\ length' = 0 /\ serving' = "nobody"
        /\ control' = [fd |-> FALSE, file |-> file]
    BY DEF End
  <1>4. pptp_pid' = pptp_pid /\ child' = child /\ full' = full /\ stray' = stray
    BY DEF process
  <1> QED
    BY <1>1, <1>2, <1>3, <1>4, EngineAssumption DEF TypeOK, Ended

LEMMA ReplyTypes ==
  ASSUME TypeOK, pc = "request"
  PROVE  Replies \subseteq Outcomes
  <1>1. Command \in Commands
    BY DEF TypeOK, Command, Commands, PeerType
  <1>2. length = 0 \/ length > 0
    BY EngineAssumption DEF TypeOK
  <1> QED
    BY <1>1, <1>2 DEF Replies, Outcomes, Commands

(* handle_control closes the connection it serves and answers on no other.  *)
LEMMA CloseTypes ==
  ASSUME TypeOK, pc = "request", NEW reply \in Outcomes, Close(reply),
         stop_requested' \in BOOLEAN
  PROVE  TypeOK'
  <1>1. serving \in Peers /\ peer \in [Peers -> PeerType]
    BY DEF TypeOK
  <1>2. peer' \in [Peers -> PeerType]
    BY <1>1 DEF Close, PeerType, PeerStates
  <1> QED
    BY <1>2, EngineAssumption DEF TypeOK, Close, Goto, process

-----------------------------------------------------------------------------
(* The types, one step per action.                                          *)

LEMMA TypeNext == TypeOK /\ ReadyIsTrue /\ [Next]_vars => TypeOK'
  <1> SUFFICES ASSUME TypeOK, ReadyIsTrue, [Next]_vars PROVE TypeOK'
    OBVIOUS
  <1> USE EngineAssumption
  <1>1. CASE UNCHANGED vars
    BY <1>1 DEF TypeOK, vars, flow, stopping, requests, process
  <1>2. CASE Check
    BY <1>2 DEF TypeOK, Check, Goto, Continue, flow, stopping, requests, process, Ended
  <1>3. CASE Select
    <2>1. ready' \in BOOLEAN
      BY <1>3 DEF Select
    <2> QED
      BY <1>3, <2>1 DEF TypeOK, Select, Goto, Continue, flow, stopping, requests, process, Ended
  <1>4. CASE ReadPty
    BY <1>4 DEF TypeOK, ReadPty, Goto, Continue, flow, stopping, requests, process, Ended, Alive
  <1>5. CASE ppp_output
    BY <1>5 DEF TypeOK, ppp_output, Goto, Continue, flow, stopping, requests, process, Ended, Alive
  <1>6. CASE Wait
    BY <1>6 DEF TypeOK, Wait, Goto, Continue, flow, stopping, requests, process, Ended
  <1>7. CASE CloseAll
    BY <1>7 DEF TypeOK, CloseAll, Goto, Continue, flow, stopping, requests, process, Ended
  <1>8. CASE Kill
    <2>1. stray' \in BOOLEAN
      BY <1>8 DEF Kill, TypeOK
    <2>2. attempt' \in 0..Attempts
      BY <1>8 DEF Kill, TypeOK
    <2>3. child' \in {"none", "reads", "hangs", "zombie", "gone"} /\ pc' \in {"reap", "final"}
      BY <1>8 DEF Kill, TypeOK
    <2> QED
      BY <1>8, <2>1, <2>2, <2>3 DEF TypeOK, Kill, Goto, Continue, flow, stopping, requests, process, Ended, Alive
  <1>9. CASE Reap
    <2>1. stray' \in BOOLEAN
      BY <1>9 DEF Reap, TypeOK
    <2>2. attempt' \in 0..Attempts
      BY <1>9 DEF Reap, TypeOK
    <2>3. child' \in {"none", "reads", "hangs", "zombie", "gone"} /\ pc' \in {"reap", "final"}
      BY <1>9 DEF Reap, TypeOK
    <2> QED
      BY <1>9, <2>1, <2>2, <2>3 DEF TypeOK, Reap, Goto, Continue, flow, stopping, requests, process, Ended
  <1>10. CASE ChildReads
    <2>1. full' \in BOOLEAN
      BY <1>10 DEF ChildReads
    <2> QED
      BY <1>10, <2>1 DEF TypeOK, ChildReads, Goto, Continue, flow, stopping, requests, process, Ended
  <1>11. CASE ChildHangs
    BY <1>11 DEF TypeOK, ChildHangs, Goto, Continue, flow, stopping, requests, process, Ended
  <1>12. CASE ChildExits
    BY <1>12 DEF TypeOK, ChildExits, Goto, Continue, flow, stopping, requests, process, Ended, Alive
  <1>13. CASE ReadPassword
    <2>1. CASE UNCHANGED requests
      BY <1>13, <2>1 DEF TypeOK, ReadPassword, Return, End, Goto, Continue, flow, stopping, requests, process, Ended
    <2>2. CASE Return("failed")
      BY <1>13, <2>2, EndTypes DEF ReadPassword, Return, TypeOK, stopping, Ended
    <2> QED
      BY <1>13, <2>1, <2>2 DEF ReadPassword, Continue
  <1>14. CASE OpenPorts
    <2>1. CASE UNCHANGED requests
      BY <1>14, <2>1 DEF TypeOK, OpenPorts, Return, End, Goto, Continue, flow, stopping, requests, process, Ended
    <2>2. CASE Return("failed")
      BY <1>14, <2>2, EndTypes DEF OpenPorts, Return, TypeOK, stopping, Ended
    <2> QED
      BY <1>14, <2>1, <2>2 DEF OpenPorts, Continue
  <1>15. CASE StartPpp
    <2>1. CASE UNCHANGED requests
      BY <1>15, <2>1 DEF TypeOK, StartPpp, Return, End, Goto, Continue, flow, stopping, requests, process, Ended
    <2>2. CASE Return("failed")
      BY <1>15, <2>2, EndTypes DEF StartPpp, Return, TypeOK, stopping, Ended
    <2> QED
      BY <1>15, <2>1, <2>2 DEF StartPpp, Continue
  <1>16. CASE Final
    BY <1>16, EndTypes DEF Final, Return, TypeOK, stopping, Ended
  <1>17. CASE ForkPty
    <2>1. CASE Continue("ppp") /\ pptp_pid' = "child" /\ child' = "reads" /\ UNCHANGED <<full, stray>>
      BY <1>17, <2>1 DEF TypeOK, ForkPty, Goto, Continue, flow, stopping, requests, Ended
    <2>2. CASE Return("failed") /\ UNCHANGED process
      BY <1>17, <2>2, EndTypes DEF ForkPty, Return, TypeOK, stopping, Ended
    <2> QED
      BY <1>17, <2>1, <2>2 DEF ForkPty
  <1>18. CASE ListenControl
    <2>1. CASE pc' = "password"
      <3>1. /\ control' = [fd |-> TRUE, file |-> TRUE]
            /\ UNCHANGED <<ready, attempt, backlog, peer, serving, length, stopping, process>>
        BY <1>18, <2>1 DEF ListenControl, Goto, End
      <3>2. control' \in [fd : BOOLEAN, file : BOOLEAN]
        BY <3>1
      <3> QED
        BY <2>1, <3>1, <3>2 DEF TypeOK, stopping, process
    <2>2. CASE \E bound \in BOOLEAN : End("refused", bound)
      BY <1>18, <2>2, EndTypes DEF ListenControl, TypeOK, stopping, Ended
    <2> QED
      BY <1>18, <2>1, <2>2 DEF ListenControl, Goto
  <1>19. CASE Signal
    <2>1. signals' \in 0..MaxSignals
      BY <1>19 DEF Signal, TypeOK
    <2>2. CASE pc \in Unhandled
      BY <1>19, <2>1, <2>2, EndTypes DEF Signal, TypeOK, Ended
    <2>3. CASE pc \notin Unhandled
      BY <1>19, <2>1, <2>3 DEF Signal, TypeOK, flow, requests, process
    <2> QED
      BY <2>2, <2>3
  <1>20. CASE Accept
    <2>1. CASE ready
      <3>1. backlog # <<>> /\ backlog \in Seq(Peers)
        BY <1>20, <2>1 DEF ReadyIsTrue, Accept, TypeOK
      <3>2. Head(backlog) \in Peers /\ Tail(backlog) \in Seq(Peers) /\ Len(Tail(backlog)) <= Backlog
        BY <3>1 DEF TypeOK
      <3> QED
        BY <1>20, <2>1, <3>2 DEF TypeOK, Accept, Goto, stopping, process
    <2>2. CASE ~ready
      BY <1>20, <2>2 DEF TypeOK, Accept, Goto, stopping, process
    <2> QED
      BY <2>1, <2>2
  <1>21. CASE Read
    BY <1>21 DEF TypeOK, Read, flow, stopping, process
  <1>22. CASE Answer
    <2>1. PICK reply \in Replies : Close(reply) /\ stop_requested' = (stop_requested \/ reply = "OK STOP")
      BY <1>22 DEF Answer
    <2>2. reply \in Outcomes
      BY <1>22, ReplyTypes DEF Answer
    <2> QED
      BY <1>22, <2>1, <2>2, CloseTypes DEF Answer, TypeOK
  <1>23. CASE Silence
    BY <1>23, CloseTypes DEF Silence, TypeOK, Outcomes
  <1>24. ASSUME NEW p \in Peers, PeerConnects(p) PROVE TypeOK'
    <2>1. peer' \in [Peers -> PeerType]
      BY <1>24 DEF PeerConnects, TypeOK, PeerType, PeerStates
    <2>2. backlog' \in Seq(Peers) /\ Len(backlog') <= Backlog
      BY <1>24 DEF PeerConnects, TypeOK
    <2> QED
      BY <1>24, <2>1, <2>2 DEF PeerConnects, TypeOK, flow, stopping, process
  <1>25. ASSUME NEW p \in Peers, PeerEnds(p) PROVE TypeOK'
    <2>1. peer' \in [Peers -> PeerType]
      BY <1>25 DEF PeerEnds, TypeOK, PeerType, PeerStates
    <2> QED
      BY <1>25, <2>1 DEF PeerEnds, TypeOK, flow, stopping, process
  <1> QED
    BY <1>1, <1>2, <1>3, <1>4, <1>5, <1>6, <1>7, <1>8, <1>9, <1>10, <1>11, <1>12, <1>13, <1>14, <1>15, <1>16, <1>17, <1>18, <1>19, <1>20, <1>21, <1>22, <1>23, <1>24, <1>25 DEF Next, Main

-----------------------------------------------------------------------------
(* Between select and accept no peer leaves the backlog.                    *)
LEMMA ReadyNext == TypeOK /\ ReadyIsTrue /\ [Next]_vars => ReadyIsTrue'
  <1> SUFFICES ASSUME TypeOK, ReadyIsTrue, [Next]_vars PROVE ReadyIsTrue'
    OBVIOUS
  <1> USE DEF ReadyIsTrue, flow, requests
  <1>1. CASE UNCHANGED vars
    BY <1>1 DEF vars
  <1>2. CASE ListenControl
    BY <1>2 DEF ListenControl, Goto, End
  <1>3. CASE ReadPassword
    BY <1>3 DEF ReadPassword, Continue, Goto, Return, End
  <1>4. CASE OpenPorts
    BY <1>4 DEF OpenPorts, Continue, Goto, Return, End
  <1>5. CASE ForkPty
    BY <1>5 DEF ForkPty, Continue, Goto, Return, End
  <1>6. CASE StartPpp
    BY <1>6 DEF StartPpp, Continue, Goto, Return, End
  <1>7. CASE Check
    BY <1>7 DEF Check, Goto
  <1>8. CASE Select
    BY <1>8 DEF Select
  <1>9. CASE ReadPty
    BY <1>9 DEF ReadPty, Goto
  <1>10. CASE ppp_output
    BY <1>10 DEF ppp_output, Goto
  <1>11. CASE Accept
    BY <1>11 DEF Accept, Goto
  <1>12. CASE Read
    BY <1>12 DEF Read
  <1>13. CASE Answer
    BY <1>13 DEF Answer, Close, Goto
  <1>14. CASE Silence
    BY <1>14 DEF Silence, Close, Goto
  <1>15. CASE Wait
    BY <1>15 DEF Wait, Goto
  <1>16. CASE CloseAll
    BY <1>16 DEF CloseAll, Goto
  <1>17. CASE Kill
    BY <1>17 DEF Kill
  <1>18. CASE Reap
    BY <1>18 DEF Reap
  <1>19. CASE Final
    BY <1>19 DEF Final, Return, End
  <1>20. CASE Signal
    BY <1>20 DEF Signal, End, Unhandled
  <1>21. CASE ChildReads
    BY <1>21 DEF ChildReads
  <1>22. CASE ChildHangs
    BY <1>22 DEF ChildHangs
  <1>23. CASE ChildExits
    BY <1>23 DEF ChildExits
  <1>24. ASSUME NEW p \in Peers, PeerConnects(p) PROVE ReadyIsTrue'
    <2>1. backlog' # <<>>
      BY <1>24 DEF PeerConnects, TypeOK
    <2> QED
      BY <2>1
  <1>25. ASSUME NEW p \in Peers, PeerEnds(p) PROVE ReadyIsTrue'
    BY <1>25 DEF PeerEnds
  <1> QED
    BY <1>1, <1>2, <1>3, <1>4, <1>5, <1>6, <1>7, <1>8, <1>9, <1>10, <1>11, <1>12, <1>13, <1>14,
       <1>15, <1>16, <1>17, <1>18, <1>19, <1>20, <1>21, <1>22, <1>23, <1>24, <1>25
       DEF Next, Main

(* waitpid and the shutdown keep pptp_pid in step with the process.         *)
LEMMA ChildNext == TypeOK /\ ChildKnown /\ [Next]_vars => ChildKnown'
  <1> SUFFICES ASSUME TypeOK, ChildKnown, [Next]_vars PROVE ChildKnown'
    OBVIOUS
  <1> USE DEF TypeOK, ChildKnown, NoChildLeft, SignalsOwnChild, Starting, Running, Ended, Alive,
              flow, process
  <1>1. CASE UNCHANGED vars
    BY <1>1 DEF vars
  <1>2. CASE ListenControl
    BY <1>2 DEF ListenControl, Goto, End
  <1>3. CASE ReadPassword
    BY <1>3 DEF ReadPassword, Continue, Goto, Return, End
  <1>4. CASE OpenPorts
    BY <1>4 DEF OpenPorts, Continue, Goto, Return, End
  <1>5. CASE ForkPty
    BY <1>5 DEF ForkPty, Continue, Goto, Return, End
  <1>6. CASE StartPpp
    BY <1>6 DEF StartPpp, Continue, Goto, Return, End
  <1>7. CASE Check
    BY <1>7 DEF Check, Goto
  <1>8. CASE Select
    BY <1>8 DEF Select
  <1>9. CASE ReadPty
    BY <1>9 DEF ReadPty, Goto
  <1>10. CASE ppp_output
    BY <1>10 DEF ppp_output, Goto
  <1>11. CASE Accept
    BY <1>11 DEF Accept, Goto
  <1>12. CASE Read
    BY <1>12 DEF Read
  <1>13. CASE Answer
    <2>1. pc = "request" /\ pc' = "wait" /\ UNCHANGED process
      BY <1>13 DEF Answer, Close, Goto
    <2> QED
      BY <2>1
  <1>14. CASE Silence
    BY <1>14 DEF Silence, Close, Goto
  <1>15. CASE Wait
    BY <1>15 DEF Wait, Goto
  <1>16. CASE CloseAll
    BY <1>16 DEF CloseAll, Goto
  <1>17. CASE Kill
    BY <1>17 DEF Kill
  <1>18. CASE Reap
    BY <1>18 DEF Reap
  <1>19. CASE Final
    BY <1>19 DEF Final, Return, End
  <1>20. CASE Signal
    BY <1>20 DEF Signal, End, Unhandled
  <1>21. CASE ChildReads
    BY <1>21 DEF ChildReads
  <1>22. CASE ChildHangs
    BY <1>22 DEF ChildHangs
  <1>23. CASE ChildExits
    BY <1>23 DEF ChildExits
  <1>24. ASSUME NEW p \in Peers, PeerConnects(p) PROVE ChildKnown'
    BY <1>24 DEF PeerConnects
  <1>25. ASSUME NEW p \in Peers, PeerEnds(p) PROVE ChildKnown'
    BY <1>25 DEF PeerEnds
  <1> QED
    BY <1>1, <1>2, <1>3, <1>4, <1>5, <1>6, <1>7, <1>8, <1>9, <1>10, <1>11, <1>12, <1>13, <1>14,
       <1>15, <1>16, <1>17, <1>18, <1>19, <1>20, <1>21, <1>22, <1>23, <1>24, <1>25
       DEF Next, Main

(* Nothing but handle_control writes a reply.                               *)
LEMMA RepliesKept ==
  ASSUME TypeOK, [Next]_vars
  PROVE  (\A q \in Peers : peer'[q].reply = peer[q].reply) \/ Answer \/ Silence
  <1> DEFINE Kept == \A q \in Peers : peer'[q].reply = peer[q].reply
  <1>0. peer' \in {peer, Hangup} => Kept
    BY HangupType
  <1> SUFFICES ASSUME ~Answer, ~Silence PROVE Kept
    OBVIOUS
  <1> HIDE DEF Kept
  <1>1. CASE UNCHANGED vars
    BY <1>1, <1>0 DEF requests, vars
  <1>2. CASE ListenControl
    BY <1>2, <1>0 DEF requests, ListenControl, Goto, End
  <1>3. CASE ReadPassword
    BY <1>3, <1>0 DEF requests, ReadPassword, Continue, Goto, Return, End
  <1>4. CASE OpenPorts
    BY <1>4, <1>0 DEF requests, OpenPorts, Continue, Goto, Return, End
  <1>5. CASE ForkPty
    BY <1>5, <1>0 DEF requests, ForkPty, Continue, Goto, Return, End
  <1>6. CASE StartPpp
    BY <1>6, <1>0 DEF requests, StartPpp, Continue, Goto, Return, End
  <1>7. CASE Check
    BY <1>7, <1>0 DEF requests, Check, Goto
  <1>8. CASE Select
    BY <1>8, <1>0 DEF requests, Select
  <1>9. CASE ReadPty
    BY <1>9, <1>0 DEF requests, ReadPty, Goto
  <1>10. CASE ppp_output
    BY <1>10, <1>0 DEF requests, ppp_output, Goto
  <1>11. CASE Accept
    BY <1>11, <1>0 DEF Accept, Goto
  <1>12. CASE Read
    BY <1>12, <1>0 DEF Read
  <1>15. CASE Wait
    BY <1>15, <1>0 DEF requests, Wait, Goto
  <1>16. CASE CloseAll
    BY <1>16, <1>0 DEF requests, CloseAll, Goto
  <1>17. CASE Kill
    BY <1>17, <1>0 DEF requests, Kill
  <1>18. CASE Reap
    BY <1>18, <1>0 DEF requests, Reap
  <1>19. CASE Final
    BY <1>19, <1>0 DEF Final, Return, End
  <1>20. CASE Signal
    BY <1>20, <1>0 DEF requests, Signal, End
  <1>21. CASE ChildReads
    BY <1>21, <1>0 DEF requests, ChildReads
  <1>22. CASE ChildHangs
    BY <1>22, <1>0 DEF requests, ChildHangs
  <1>23. CASE ChildExits
    BY <1>23, <1>0 DEF requests, ChildExits
  <1>24. ASSUME NEW p \in Peers, PeerConnects(p) PROVE Kept
    BY <1>24 DEF PeerConnects, TypeOK, PeerType, Kept
  <1>25. ASSUME NEW p \in Peers, PeerEnds(p) PROVE Kept
    BY <1>25 DEF PeerEnds, TypeOK, PeerType, Kept
  <1> QED
    BY <1>1, <1>2, <1>3, <1>4, <1>5, <1>6, <1>7, <1>8, <1>9, <1>10, <1>11, <1>12,
       <1>15, <1>16, <1>17, <1>18, <1>19, <1>20, <1>21, <1>22, <1>23, <1>24, <1>25
       DEF Next, Main

(* Once a stop was asked for, the loop ends at its next test.               *)
LEMMA LeavingNext ==
  ASSUME stop_requested, pc \in Leaving, [Next]_vars
  PROVE  stop_requested' /\ pc' \in Leaving
  <1> USE DEF Leaving, Ended, flow, stopping
  <1>1. CASE UNCHANGED vars
    BY <1>1 DEF vars
  <1>2. CASE ListenControl
    BY <1>2 DEF ListenControl, Goto, End
  <1>3. CASE ReadPassword
    BY <1>3 DEF ReadPassword, Continue, Goto, Return, End
  <1>4. CASE OpenPorts
    BY <1>4 DEF OpenPorts, Continue, Goto, Return, End
  <1>5. CASE ForkPty
    BY <1>5 DEF ForkPty, Continue, Goto, Return, End
  <1>6. CASE StartPpp
    BY <1>6 DEF StartPpp, Continue, Goto, Return, End
  <1>7. CASE Check
    BY <1>7 DEF Check, Goto
  <1>8. CASE Select
    BY <1>8 DEF Select
  <1>9. CASE ReadPty
    BY <1>9 DEF ReadPty, Goto
  <1>10. CASE ppp_output
    BY <1>10 DEF ppp_output, Goto
  <1>11. CASE Accept
    BY <1>11 DEF Accept, Goto
  <1>12. CASE Read
    BY <1>12 DEF Read
  <1>13. CASE Answer
    BY <1>13 DEF Answer, Close, Goto
  <1>14. CASE Silence
    BY <1>14 DEF Silence, Close, Goto
  <1>15. CASE Wait
    BY <1>15 DEF Wait, Goto
  <1>16. CASE CloseAll
    BY <1>16 DEF CloseAll, Goto
  <1>17. CASE Kill
    BY <1>17 DEF Kill
  <1>18. CASE Reap
    BY <1>18 DEF Reap
  <1>19. CASE Final
    BY <1>19 DEF Final, Return, End
  <1>20. CASE Signal
    BY <1>20 DEF Signal, End
  <1>21. CASE ChildReads
    BY <1>21 DEF ChildReads
  <1>22. CASE ChildHangs
    BY <1>22 DEF ChildHangs
  <1>23. CASE ChildExits
    BY <1>23 DEF ChildExits
  <1>24. ASSUME NEW p \in Peers, PeerConnects(p) PROVE stop_requested' /\ pc' \in Leaving
    BY <1>24 DEF PeerConnects
  <1>25. ASSUME NEW p \in Peers, PeerEnds(p) PROVE stop_requested' /\ pc' \in Leaving
    BY <1>25 DEF PeerEnds
  <1> QED
    BY <1>1, <1>2, <1>3, <1>4, <1>5, <1>6, <1>7, <1>8, <1>9, <1>10, <1>11, <1>12, <1>13, <1>14,
       <1>15, <1>16, <1>17, <1>18, <1>19, <1>20, <1>21, <1>22, <1>23, <1>24, <1>25
       DEF Next, Main

LEMMA StopNext == TypeOK /\ StopAnswered /\ [Next]_vars => StopAnswered'
  <1> SUFFICES ASSUME TypeOK, StopAnswered, [Next]_vars PROVE StopAnswered'
    OBVIOUS
  <1>1. CASE \E p \in Peers : peer[p].reply = "OK STOP"
    BY <1>1, LeavingNext DEF StopAnswered
  <1>2. CASE \A p \in Peers : peer[p].reply # "OK STOP"
    <2>1. CASE \A q \in Peers : peer'[q].reply = peer[q].reply
      BY <1>2, <2>1 DEF StopAnswered
    <2>2. CASE Answer
      <3>1. PICK reply \in Replies : /\ Close(reply)
                                     /\ stop_requested' = (stop_requested \/ reply = "OK STOP")
        BY <2>2 DEF Answer
      <3>2. CASE reply = "OK STOP"
        <4>1. stop_requested' /\ pc' = "wait"
          BY <3>1, <3>2 DEF Close, Goto
        <4> QED
          BY <4>1 DEF StopAnswered, Leaving
      <3>3. CASE reply # "OK STOP"
        <4>1. \A q \in Peers : peer'[q].reply # "OK STOP"
          BY <1>2, <3>1, <3>3 DEF Close, TypeOK, PeerType
        <4> QED
          BY <4>1 DEF StopAnswered
      <3> QED
        BY <3>2, <3>3
    <2>3. CASE Silence
      <3>1. \A q \in Peers : peer'[q].reply # "OK STOP"
        BY <1>2, <2>3 DEF Silence, Close, TypeOK, PeerType
      <3> QED
        BY <3>1 DEF StopAnswered
    <2> QED
      BY <2>1, <2>2, <2>3, RepliesKept
  <1> QED
    BY <1>1, <1>2

-----------------------------------------------------------------------------
(* The inductive invariant.                                                 *)
LEMMA Invariance == Spec => []Inv
  <1>1. Inv /\ [Next]_vars => Inv'
    BY TypeNext, ReadyNext, ChildNext, StopNext DEF Inv
  <1> QED
    BY InitInv, <1>1, PTL DEF Spec

(* The engine's state keeps its types: no read beyond the request buffer,   *)
(* no accept without a peer, no more than Attempts waits in the shutdown.   *)
THEOREM EngineTypes == Spec => []TypeOK
  <1>1. Inv => TypeOK
    BY DEF Inv
  <1> QED
    BY <1>1, Invariance, PTL

(* SIGTERM and SIGKILL go to pptp only while its process is not reaped.     *)
THEOREM SignalsReachOwnChild == Spec => []SignalsOwnChild
  <1>1. Inv => SignalsOwnChild
    BY DEF Inv, ChildKnown
  <1> QED
    BY <1>1, Invariance, PTL

(* A regular end of the engine has reaped pptp.                             *)
THEOREM ChildReaped == Spec => []NoChildLeft
  <1>1. Inv => NoChildLeft
    BY DEF Inv, ChildKnown
  <1> QED
    BY <1>1, Invariance, PTL

(* After "OK STOP" handle_control answers no other request: the loop goes   *)
(* from the answer to its test without another accept.                      *)
THEOREM NothingAfterStop == Spec => StopIsLast
  <1> DEFINE Stopped == \E p \in Peers : peer[p].reply = "OK STOP"
             Kept == \A q \in Peers : peer'[q].reply = peer[q].reply
  <1>1. Inv /\ [Next]_vars => [Stopped => Kept]_vars
    <2> SUFFICES ASSUME Inv, [Next]_vars, Stopped PROVE Kept
      OBVIOUS
    <2>1. ~Answer /\ ~Silence
      BY DEF Inv, StopAnswered, Leaving, Ended, Answer, Silence
    <2> QED
      BY <2>1, RepliesKept DEF Inv
  <1> QED
    BY <1>1, Invariance, PTL DEF Spec, StopIsLast
=============================================================================
