----------------------------- MODULE AppSession -----------------------------
(***************************************************************************)
(* The app's side of a connection, PPTPProxyClient.swift: what the main    *)
(* thread believes (the @State variables and ConnectionActivity), the      *)
(* blocks it hands to background queues and the answers these put back on  *)
(* the main queue, the one-second timer, quitting, and a crash of the app. *)
(* The n-th Connect is session n, and so is its directory (password FIFO,  *)
(* control socket, log), the process it starts and that process's id.      *)
(*                                                                         *)
(* The engine is what the app can see of proxy-engine/main.c: whether it   *)
(* runs, which of its files exist, whether its link is up and whether its  *)
(* log says that it once was.  Traffic figures, texts and pages are left   *)
(* out; saving the profile, which precedes a connection, is in Profiles.   *)
(***************************************************************************)
EXTENDS Integers, Sequences, FiniteSets

CONSTANTS
    MaxSessions,    \* how often the user clicks Connect at most
    Bounds          \* what may happen in one behaviour (bounds of the model):
                    \* pairs of a number of sessions and a number of events

(* An event is a click on Disconnect or on the clean-up, a crash of the app *)
(* and its new start, a link that goes down, a control request that times   *)
(* out, a quit that fails, or a process id that is given out again.         *)
ASSUME SessionBounds ==
    /\ MaxSessions \in Nat \ {0}
    /\ Bounds \subseteq [sessions : 1..MaxSessions, events : Nat]

Sessions == 1..MaxSessions
None == 0                       \* nil: no session, no process id, no path

VARIABLES
    app,        \* the app's memory
    tasks,      \* blocks running on background queues
    queue,      \* answers waiting on the main queue
    engine,     \* the engine of each session
    last,       \* sessions begun
    ended,      \* how the app was quit: "no", "silent" or "confirmed"
    left        \* what is left of the bound

vars == <<app, tasks, queue, engine, last, ended, left>>

Idle == [connecting |-> FALSE, connected |-> FALSE, tunnelReady |-> FALSE,
         disconnecting |-> FALSE, processID |-> None, session |-> None,
         statusRequestInFlight |-> FALSE, statusFailures |-> 0, cleaningUp |-> FALSE,
         isActive |-> FALSE, controlSocketPath |-> None]

(* state: "none", then "boot" (started), "password" (the control socket is  *)
(* there, the FIFO open), "loop", "stopping", "dead".  stop: a STOP waits   *)
(* in the control socket's backlog.                                         *)
NoEngine == [state |-> "none", fifo |-> FALSE, socket |-> FALSE, link |-> FALSE,
             log |-> FALSE, stop |-> FALSE, secret |-> FALSE, reused |-> FALSE]

Init ==
    /\ app = Idle
    /\ tasks = {}
    /\ queue = <<>>
    /\ engine = [s \in Sessions |-> NoEngine]
    /\ last = 0
    /\ ended = "no"
    /\ left \in Bounds

Alive(s) == engine[s].state \in {"boot", "password", "loop", "stopping"}
Spend(what) == left[what] > 0 /\ left' = [left EXCEPT ![what] = @ - 1]

(* kill(pid, 0): true as well for a stranger that has the number by now.    *)
processIsRunning(s) == Alive(s) \/ engine[s].reused

-----------------------------------------------------------------------------
(* The engine of session s.                                                 *)

Put(s, e) == engine' = [engine EXCEPT ![s] = e]

(* exit() removes the control socket (atexit); a killed process does not.   *)
Exited(s) == [engine[s] EXCEPT !.state = "dead", !.socket = FALSE, !.link = FALSE]
Killed(s) == [engine[s] EXCEPT !.state = "dead", !.link = FALSE]

(* listen_control, and read_password's open of the FIFO.                    *)
EngineOpens(s) ==
    /\ engine[s].state = "boot"
    /\ Put(s, IF engine[s].fifo THEN [engine[s] EXCEPT !.state = "password", !.socket = TRUE]
                                ELSE Exited(s))

(* The password is there and the ports, the same for every session, are     *)
(* free: the select loop.                                                   *)
EngineStarts(s) ==
    /\ engine[s].state = "password" /\ engine[s].secret
    /\ \A t \in Sessions : engine[t].state \notin {"loop", "stopping"}
    /\ Put(s, [engine[s] EXCEPT !.state = "loop"])

(* Anything that ends it: no password in 15 s, a port in use, a failed      *)
(* start, the end of the pptp process, the end of the shutdown.             *)
EngineExits(s) == Alive(s) /\ Put(s, Exited(s))

(* ppp_status; "PPP/MPPE 연결됨" is written to the log when the link comes up. *)
EngineLinkUp(s) ==
    /\ engine[s].state = "loop" /\ ~engine[s].link /\ ~engine[s].log
    /\ Put(s, [engine[s] EXCEPT !.link = TRUE, !.log = TRUE])

EngineLinkDown(s) ==
    /\ engine[s].link
    /\ Put(s, [engine[s] EXCEPT !.link = FALSE])

(* handle_control gets to a STOP whose sender may have given up on it.      *)
EngineStops(s) ==
    /\ engine[s].state = "loop" /\ engine[s].stop
    /\ Put(s, [engine[s] EXCEPT !.state = "stopping", !.stop = FALSE])

EngineStep(s) ==
    /\ \/ /\ EngineOpens(s) \/ EngineStarts(s) \/ EngineExits(s) \/ EngineLinkUp(s) \/ EngineStops(s)
          /\ UNCHANGED left
       \/ EngineLinkDown(s) /\ Spend("events")
    /\ UNCHANGED <<app, tasks, queue, last, ended>>

(* The process id of an engine that is gone goes to another process.        *)
PidReused(s) ==
    /\ engine[s].state = "dead" /\ ~engine[s].reused
    /\ Put(s, [engine[s] EXCEPT !.reused = TRUE])
    /\ Spend("events")
    /\ UNCHANGED <<app, tasks, queue, last, ended>>

-----------------------------------------------------------------------------
(* controlRequest, from connect() to the reply or the one-second limit: the *)
(* reply, and the engine afterwards.  A request that is not answered in     *)
(* time stays in the backlog.                                               *)
Failure == [reply |-> "failure", link |-> FALSE]

Answered(s, command) ==
    /\ engine[s].state = "loop"
    /\ Put(s, IF command = "STOP" THEN [engine[s] EXCEPT !.state = "stopping"] ELSE engine[s])

Unanswered(s, command) ==
    \/ /\ ~engine[s].socket \/ ~Alive(s)                     \* connect() failed
       /\ UNCHANGED engine
    \/ /\ engine[s].socket /\ engine[s].state \in {"password", "loop", "stopping"}
       /\ Put(s, [engine[s] EXCEPT !.stop = @ \/ command = "STOP"])

controlRequest(s, command, r) ==
    \/ /\ r = [reply |-> "ok", link |-> engine[s].link]
       /\ Answered(s, command)
    \/ /\ r = Failure
       /\ Unanswered(s, command)

Post(kind, s, r) == Append(queue, [kind |-> kind, s |-> s, r |-> r])
Replies == {Failure} \cup {[reply |-> "ok", link |-> b] : b \in BOOLEAN}

-----------------------------------------------------------------------------
(* The main thread.                                                         *)

Clear(a) == [Idle EXCEPT !.cleaningUp = a.cleaningUp]

(* clearConnection, which also removes the session's FIFO.                  *)
clearConnection(a) ==
    /\ app' = Clear(a)
    /\ engine' = IF a.session = None THEN engine
                 ELSE [engine EXCEPT ![a.session].fifo = FALSE]

(* A block that is handed to a background queue.                            *)
Start(kind, s) ==
    LET n == CHOOSE i \in 1..3 : [kind |-> kind, s |-> s, n |-> i] \notin tasks
    IN tasks \cup {[kind |-> kind, s |-> s, n |-> n]}

(* connect(), once the profile is saved and its password read.              *)
connect ==
    /\ ended = "no" /\ ~app.connecting /\ ~app.connected
    /\ \/ /\ app' = [app EXCEPT !.isActive = FALSE, !.controlSocketPath = None]
          /\ UNCHANGED <<tasks, engine, last, left>>        \* no directory or no FIFO
       \/ /\ Spend("sessions")
          /\ last' = last + 1
          /\ app' = [app EXCEPT !.session = last + 1, !.controlSocketPath = last + 1,
                                !.connecting = TRUE, !.isActive = TRUE]
          /\ Put(last + 1, [NoEngine EXCEPT !.fifo = TRUE])
          /\ tasks' = Start("prompt", last + 1)
    /\ UNCHANGED <<queue, ended>>

disconnect ==
    /\ ended = "no"
    /\ app.connecting \/ app.connected
    /\ ~app.disconnecting
    /\ Spend("events")
    /\ IF app.session = None
         THEN clearConnection(app) /\ UNCHANGED tasks
         ELSE /\ app' = [app EXCEPT !.disconnecting = TRUE]
              /\ tasks' = Start("stop", app.session)
              /\ UNCHANGED engine
    /\ UNCHANGED <<queue, last, ended>>

cleanupOrphanBackend ==
    /\ ended = "no" /\ ~app.connecting /\ ~app.connected /\ ~app.cleaningUp
    /\ Spend("events")
    /\ app' = [app EXCEPT !.cleaningUp = TRUE]
    /\ tasks' = Start("cleanup", None)
    /\ UNCHANGED <<queue, engine, last, ended>>

(* refreshConnectionState: the log is that of the last session.             *)
refreshConnectionState(a) ==
    IF a.processID = None THEN app' = a /\ UNCHANGED engine
    ELSE IF ~processIsRunning(a.processID) THEN clearConnection(a)
    ELSE /\ app' = IF ~a.tunnelReady /\ engine[last].log
                     THEN [a EXCEPT !.tunnelReady = TRUE, !.connecting = FALSE] ELSE a
         /\ UNCHANGED engine

(* The timer: refreshConnectionState, then refreshBackendStatus.            *)
Timer ==
    /\ ended = "no"
    /\ \/ /\ refreshConnectionState(app)
          /\ ~app'.connected \/ app'.statusRequestInFlight \/ app'.session = None
          /\ UNCHANGED tasks
       \/ /\ app.connected /\ ~app.statusRequestInFlight /\ app.session # None
          /\ refreshConnectionState([app EXCEPT !.statusRequestInFlight = TRUE])
          /\ app'.connected
          /\ tasks' = Start("status", app.session)
    /\ UNCHANGED <<queue, last, ended, left>>

(* When the app ends, only osascript and its prompts outlive it.            *)
Orphans == {[t EXCEPT !.kind = "orphan"] : t \in {u \in tasks : u.kind \in {"prompt", "orphan"}}}

(* Fault: quitting tells the engine nothing.                                *)
Quit_silently ==
    /\ ended = "no"
    /\ ended' = IF app.isActive THEN "confirmed" ELSE "silent"
    /\ tasks' = Orphans /\ queue' = <<>>
    /\ UNCHANGED <<app, engine, last, left>>

(* applicationShouldTerminate, when the user does not cancel.               *)
Quit ==
    /\ ended = "no"
    /\ LET path == app.controlSocketPath IN
       \/ /\ ~app.isActive
          /\ ended' = "silent" /\ UNCHANGED <<engine, left>>
       \/ /\ app.isActive
          /\ path = None \/ ~engine[path].socket
          /\ ended' = "confirmed" /\ UNCHANGED <<engine, left>>
       \/ /\ app.isActive /\ path # None /\ engine[path].socket
          /\ \E r \in Replies :
                /\ controlRequest(path, "STOP", r)
                /\ IF r = Failure THEN Spend("events") ELSE UNCHANGED left
                /\ ended' = IF r.reply = "ok" THEN "confirmed" ELSE "no"
    /\ tasks' = IF ended' = "no" THEN tasks ELSE Orphans
    /\ queue' = IF ended' = "no" THEN queue ELSE <<>>
    /\ UNCHANGED <<app, last>>

(* The app is killed and started again.                                     *)
Crash ==
    /\ ended = "no" /\ Spend("events")
    /\ app' = Idle
    /\ tasks' = Orphans
    /\ queue' = <<>>
    /\ engine' = engine
    /\ UNCHANGED <<last, ended>>

-----------------------------------------------------------------------------
(* Answers on the main queue.                                               *)

(* The block's first answer: the process has been started.                  *)
Launched(s) == app' = [app EXCEPT !.processID = s, !.connected = TRUE] /\ UNCHANGED engine

(* The catch clause of the block.                                           *)
LaunchFailed(s) ==
    /\ app' = [app EXCEPT !.connecting = FALSE, !.connected = FALSE,
                          !.isActive = FALSE, !.controlSocketPath = None]
    /\ UNCHANGED engine

(* Fault: a STOP that got no answer leaves the button disabled.             *)
StopAnswered_waits(s, r) == UNCHANGED <<app, engine>>

(* The answer to disconnect()'s STOP.                                       *)
StopAnswered(s, r) ==
    IF app.session # s \/ r.reply = "ok" THEN UNCHANGED <<app, engine>>
    ELSE IF /\ ~(app.connecting /\ app.processID = None)
            /\ \/ ~engine[s].socket
               \/ app.processID # None /\ ~processIsRunning(app.processID)
           THEN clearConnection(app)
           ELSE app' = [app EXCEPT !.disconnecting = FALSE] /\ UNCHANGED engine

(* Fault: a request that fails is never over, so no other one follows it.   *)
StatusAnswered_stuck(s, r) ==
    /\ app' = [app EXCEPT !.statusRequestInFlight = r.reply # "ok"]
    /\ UNCHANGED engine

(* The answer to refreshBackendStatus's STATUS.                             *)
StatusAnswered(s, r) ==
    LET a == [app EXCEPT !.statusRequestInFlight = FALSE]
        f == [a EXCEPT !.statusFailures = IF @ < 2 THEN @ + 1 ELSE @]
    IN
    \/ /\ ~app.connected \/ app.session # s
       /\ app' = a /\ UNCHANGED engine
    \/ /\ app.connected /\ app.session = s /\ r.reply # "ok"
       /\ IF /\ f.statusFailures >= 2
             /\ \/ f.disconnecting
                \/ ~engine[s].socket
                \/ f.processID # None /\ ~processIsRunning(f.processID)
            THEN clearConnection(f)
            ELSE app' = f /\ UNCHANGED engine
    \/ /\ app.connected /\ app.session = s /\ r.reply = "ok"
       /\ app' = IF a.disconnecting THEN [a EXCEPT !.statusFailures = 0]
                 ELSE [a EXCEPT !.statusFailures = 0, !.tunnelReady = r.link,
                                !.connecting = @ /\ ~(r.link /\ ~a.tunnelReady)]
       /\ UNCHANGED engine

Main ==
    /\ ended = "no" /\ queue # <<>>
    /\ LET m == Head(queue) IN
       \/ m.kind = "launched" /\ Launched(m.s)
       \/ m.kind = "failed" /\ LaunchFailed(m.s)
       \/ m.kind = "stop" /\ StopAnswered(m.s, m.r)
       \/ m.kind = "status" /\ StatusAnswered(m.s, m.r)
       \/ m.kind = "cleanup" /\ app' = [app EXCEPT !.cleaningUp = FALSE] /\ UNCHANGED engine
    /\ queue' = Tail(queue)
    /\ UNCHANGED <<tasks, last, ended, left>>

-----------------------------------------------------------------------------
(* Background queues.                                                       *)

(* privileged(): the user authorises the command and the engine starts, or  *)
(* the prompt is cancelled.                                                 *)
Prompt(t) ==
    /\ t.kind = "prompt"
    /\ \/ /\ Put(t.s, [engine[t.s] EXCEPT !.state = "boot"])
          /\ tasks' = (tasks \ {t}) \cup {[t EXCEPT !.kind = "secret"]}
          /\ queue' = Post("launched", t.s, Failure)
       \/ /\ Put(t.s, [engine[t.s] EXCEPT !.fifo = FALSE])
          /\ tasks' = tasks \ {t}
          /\ queue' = Post("failed", t.s, Failure)
    /\ UNCHANGED <<app, last, ended, left>>

(* The same without the app that asked: nobody writes the password.         *)
OrphanPrompt(t) ==
    /\ t.kind = "orphan"
    /\ engine' = engine \/ Put(t.s, [engine[t.s] EXCEPT !.state = "boot"])
    /\ tasks' = tasks \ {t}
    /\ UNCHANGED <<app, queue, last, ended, left>>

(* writeSecret: the engine has opened the FIFO; or the FIFO is gone, the    *)
(* engine is, or ten seconds have passed.  The FIFO is removed either way.  *)
Secret(t) ==
    /\ t.kind = "secret"
    /\ \/ /\ engine[t.s].state = "password" /\ engine[t.s].fifo
          /\ Put(t.s, [engine[t.s] EXCEPT !.secret = TRUE, !.fifo = FALSE])
          /\ UNCHANGED queue
       \/ /\ engine[t.s].state # "password" \/ ~engine[t.s].fifo
          /\ Put(t.s, [engine[t.s] EXCEPT !.fifo = FALSE])
          /\ queue' = Post("failed", t.s, Failure)
    /\ tasks' = tasks \ {t}
    /\ UNCHANGED <<app, last, ended, left>>

(* The control requests of disconnect and refreshBackendStatus.             *)
Request(t) ==
    /\ t.kind \in {"stop", "status"}
    /\ \E r \in Replies :
          /\ controlRequest(t.s, IF t.kind = "stop" THEN "STOP" ELSE "STATUS", r)
          /\ IF r = Failure /\ engine[t.s].state = "loop" THEN Spend("events") ELSE UNCHANGED left
          /\ queue' = Post(t.kind, t.s, r)
    /\ tasks' = tasks \ {t}
    /\ UNCHANGED <<app, last, ended>>

(* The clean-up's shell command: whoever listens on the ports and is this   *)
(* app's engine gets SIGTERM and, if it still listens 2 s later, SIGKILL.   *)
Cleanup(t) ==
    /\ t.kind = "cleanup"
    /\ \/ UNCHANGED engine                                 \* prompt cancelled
       \/ \E hard \in BOOLEAN :
             engine' = [s \in Sessions |->
                IF engine[s].state \notin {"loop", "stopping"} THEN engine[s]
                ELSE IF hard THEN Killed(s) ELSE Exited(s)]
    /\ tasks' = tasks \ {t}
    /\ queue' = Post("cleanup", None, Failure)
    /\ UNCHANGED <<app, last, ended, left>>

Task(t) == Prompt(t) \/ OrphanPrompt(t) \/ Secret(t) \/ Request(t) \/ Cleanup(t)

Next ==
    \/ connect \/ disconnect \/ cleanupOrphanBackend \/ Timer \/ Quit \/ Crash \/ Main
    \/ \E t \in tasks : Task(t)
    \/ \E s \in Sessions : EngineStep(s) \/ PidReused(s)

Spec == Init /\ [][Next]_vars

(* The main run loop and the background queues run; a prompt is answered; a *)
(* starting engine goes on or gives up after its 15 s, one that was told to *)
(* stop stops (STOP is read from the backlog) and a shutdown ends.          *)
EngineProgress(s) == EngineStep(s) /\ (engine[s].state = "loop" => engine'[s].state = "stopping")

FairSpec ==
    /\ Spec
    /\ WF_vars(Timer) /\ WF_vars(Main)
    /\ \A kinds \in {{"prompt", "secret", "orphan"}, {"stop"}, {"status"}, {"cleanup"}} :
          WF_vars(\E t \in tasks : t.kind \in kinds /\ Task(t))
    /\ WF_vars(\E s \in Sessions : EngineProgress(s))

-----------------------------------------------------------------------------
(* The window does not show a connection for ever once its process is gone: *)
(* the timer sees it, or, where the process id lives on in another process, *)
(* two failed STATUS requests and the missing socket do.  What escapes are  *)
(* processes whose number is taken and that were killed (the socket stays)  *)
(* or are not of the window's session, so that no STATUS asks them.         *)
EngineDeathNoticed ==
    \A s \in Sessions :
       app.connected /\ app.processID = s /\ ~Alive(s)
          ~> \/ ~(app.connected /\ app.processID = s) \/ ended # "no"
             \/ engine[s].reused /\ (engine[s].socket \/ app.session # s)

(* A click on Disconnect comes to an end: the connection is cleared or the  *)
(* button can be clicked again, even when STOP gets no answer, as long as   *)
(* no other Connect has taken the window's session meanwhile (README,       *)
(* section 5: the answer is then dropped and the button stays disabled).    *)
DisconnectEnds ==
    \A s \in Sessions :
       app.session = s /\ (\E t \in tasks : t.kind = "stop" /\ t.s = s)
          ~> ~app.disconnecting \/ app.session \notin {s, None} \/ ended # "no"

(* An app that is quit through the dialog leaves no engine of its session   *)
(* behind, nor one that still waits for its password: not even one that is  *)
(* authorised after the app has gone or has no socket yet.  Engines that an *)
(* app before it, or a session before, has left running are not told.       *)
ConfirmedQuitEndsEngines ==
    \A s \in Sessions :
       ended = "confirmed" /\ (app.controlSocketPath = s \/ ~engine[s].secret) ~> ~Alive(s)

(* "Quitting while connected shows a confirmation dialog": without one the  *)
(* app ends only when it shows no connection.                               *)
QuitIsConfirmed == ended = "silent" => ~app.connected

(* "The top of the window shows connection status": a link that is down for *)
(* good, under an engine that goes on running, is shown as down for good.   *)
(* The code does not keep this (README, section 5): refreshConnectionState  *)
(* sets tunnelReady again because the log still says that the link was up.  *)
LinkLossShown ==
    \A s \in Sessions :
       <>[](app.processID = s /\ ended = "no" /\ engine[s].state = "loop" /\ ~engine[s].link)
          => <>[](~app.tunnelReady)
=============================================================================
