---------------------------- MODULE PasswordFifo ----------------------------
(***************************************************************************)
(* How the password gets from the app to the engine: writeSecret in        *)
(* PPTPProxyClient.swift and read_password in proxy-engine/main.c, at the  *)
(* two ends of a FIFO that neither blocks on.  Both poll and both give up: *)
(* the writer after so many attempts to open, the reader after so many     *)
(* polls.  The writer begins when osascript, which starts the engine and   *)
(* asks for the administrator's password, has returned: by then the engine *)
(* may not have come to read_password, or may have been waiting for any    *)
(* time.  A tick is the writer's 0.1 s; in a tick each side that waits     *)
(* polls once, in either order, and a writer that has opened the FIFO      *)
(* writes.  The engine may also be given the password on standard input.   *)
(***************************************************************************)
EXTENDS Integers, Sequences

CONSTANTS
    MaxSecret,      \* length of the longest password tried
    Size,           \* sizeof(vpn_password)-1
    Tries,          \* attempts to open the FIFO, 100
    Polls,          \* polls before the reader's deadline, 15 s
    Sources         \* where the password may come from: "fifo", "stdin"

ASSUME FifoAssumption ==
    /\ MaxSecret \in Nat /\ Size \in Nat \ {0}
    /\ Tries \in Nat \ {0} /\ Polls \in Nat /\ Polls >= 3
    /\ Sources \subseteq {"fifo", "stdin"}

VARIABLES
    source,         \* "fifo", or "stdin" without --password-fifo
    secret,         \* the password, as the app has it
    writer,         \* "launching", "opening", "writing", "done" or "failed"
    began,          \* polls, when the writer began (history)
    tries, offset,  \* writeSecret's counters
    reader,         \* "unborn", "reading", "done" or "failed"
    polls,
    vpn_password,   \* the engine's buffer
    pipe,           \* bytes in the FIFO
    exists,         \* its path exists
    removed,        \* clearConnection has removed it
    polled          \* who has polled in this tick

wvars == <<source, secret, writer, began, tries, offset>>
rvars == <<reader, polls, vpn_password>>
vars == <<wvars, rvars, pipe, exists, removed, polled>>

Newline == 0
Line == secret \o <<Newline>>
Take(s, n) == SubSeq(s, 1, n)
Drop(s, n) == SubSeq(s, n + 1, Len(s))
Least(a, b) == IF a < b THEN a ELSE b

Init ==
    /\ \E n \in 0..MaxSecret : secret = [i \in 1..n |-> i]
    /\ source \in Sources
    /\ writer = (IF source = "fifo" THEN "launching" ELSE "done")
    /\ began = 0 /\ tries = 0 /\ offset = 0
    /\ reader = "unborn" /\ polls = 0 /\ vpn_password = <<>>
    /\ pipe = <<>> /\ exists = TRUE /\ removed = FALSE /\ polled = {}

-----------------------------------------------------------------------------
(* The app.                                                                 *)

(* privileged() returns with the engine's number: connect() goes on to      *)
(* writeSecret.                                                             *)
PrivilegedReturns ==
    /\ writer = "launching"
    /\ writer' = "opening" /\ began' = polls
    /\ UNCHANGED <<source, secret, tries, offset, rvars, pipe, exists, removed, polled>>

(* writeSecret's loop: open() finds a reader, none (ENXIO), or no FIFO.     *)
WriterPolls ==
    /\ writer = "opening" /\ "writer" \notin polled
    /\ polled' = polled \cup {"writer"}
    /\ IF exists /\ reader = "reading"
         THEN writer' = "writing" /\ UNCHANGED <<tries, exists>>
         ELSE /\ tries' = tries + 1
              /\ writer' = IF ~exists \/ tries' = Tries THEN "failed" ELSE "opening"
              /\ exists' = (exists /\ writer' = "opening")
    /\ UNCHANGED <<source, secret, began, offset, rvars, pipe, removed>>

(* write() takes part of the line or all of it; without a reader it fails.  *)
(* The FIFO is removed when the line has been written, or cannot be.        *)
WriterWrites ==
    /\ writer = "writing"
    /\ IF reader = "reading"
         THEN \E n \in 1..(Len(Line) - offset) :
                 /\ pipe' = pipe \o SubSeq(Line, offset + 1, offset + n)
                 /\ offset' = offset + n
                 /\ writer' = IF offset' = Len(Line) THEN "done" ELSE "writing"
         ELSE writer' = "failed" /\ UNCHANGED <<pipe, offset>>
    /\ exists' = (exists /\ writer' = "writing")
    /\ UNCHANGED <<source, secret, began, tries, rvars, removed, polled>>

(* clearConnection, when the session ends meanwhile.                        *)
Remove ==
    /\ ~removed /\ source = "fifo"
    /\ removed' = TRUE /\ exists' = FALSE
    /\ UNCHANGED <<wvars, rvars, pipe, polled>>

-----------------------------------------------------------------------------
(* The engine.                                                              *)

(* read_password opens the FIFO, if it is there.                            *)
ReaderOpens ==
    /\ reader = "unborn" /\ source = "fifo"
    /\ reader' = IF exists THEN "reading" ELSE "failed"
    /\ UNCHANGED <<wvars, polls, vpn_password, pipe, exists, removed, polled>>

(* Fault: a full buffer is taken for a password.                            *)
Outcome_full(buffer) ==
    IF Len(buffer) < Size /\ \A i \in DOMAIN buffer : buffer[i] # Newline THEN "reading" ELSE "done"

(* The line is there when its end is; main() refuses an empty one.          *)
Outcome(buffer) ==
    IF \A i \in DOMAIN buffer : buffer[i] # Newline THEN "reading"
    ELSE IF buffer[1] = Newline THEN "failed" ELSE "done"

(* read() gives what is there, up to the end of the buffer.                 *)
Room == Least(Len(pipe), Size - Len(vpn_password))

(* Fault: the deadline is one poll short.                                   *)
ReaderPolls_short ==
    /\ reader = "reading" /\ "reader" \notin polled
    /\ polled' = polled \cup {"reader"}
    /\ IF polls = Polls - 1 \/ Len(vpn_password) = Size
         THEN reader' = "failed" /\ UNCHANGED <<polls, vpn_password, pipe>>
         ELSE /\ polls' = polls + 1
              /\ vpn_password' = vpn_password \o Take(pipe, Room)
              /\ pipe' = Drop(pipe, Room)
              /\ reader' = Outcome(vpn_password')
    /\ UNCHANGED <<wvars, exists, removed>>

(* One round of read_password's loop; an empty read is no end.              *)
ReaderPolls ==
    /\ reader = "reading" /\ "reader" \notin polled
    /\ polled' = polled \cup {"reader"}
    /\ IF polls = Polls \/ Len(vpn_password) = Size
         THEN reader' = "failed" /\ UNCHANGED <<polls, vpn_password, pipe>>
         ELSE /\ polls' = polls + 1
              /\ vpn_password' = vpn_password \o Take(pipe, Room)
              /\ pipe' = Drop(pipe, Room)
              /\ reader' = Outcome(vpn_password')
    /\ UNCHANGED <<wvars, exists, removed>>

(* fgets: a line, or as much of it as the buffer holds.                     *)
Fgets ==
    /\ reader = "unborn" /\ source = "stdin"
    /\ vpn_password' = Take(Line, Least(Len(Line), Size))
    /\ reader' = IF secret = <<>> THEN "failed" ELSE "done"
    /\ UNCHANGED <<wvars, polls, pipe, exists, removed, polled>>

Tick ==
    /\ polled # {}
    /\ writer = "opening" => "writer" \in polled
    /\ writer # "writing"
    /\ reader = "reading" => "reader" \in polled
    /\ polled' = {}
    /\ UNCHANGED <<wvars, rvars, pipe, exists, removed>>

Next ==
    \/ PrivilegedReturns \/ WriterPolls \/ WriterWrites \/ Remove
    \/ ReaderOpens \/ ReaderPolls \/ Fgets \/ Tick

Spec == Init /\ [][Next]_vars

-----------------------------------------------------------------------------
(* What main() leaves of the buffer: vpn_password up to the line's end.     *)
Password ==
    LET ends == {i \in DOMAIN vpn_password : vpn_password[i] = Newline} IN
    IF ends = {} THEN vpn_password
    ELSE Take(vpn_password, (CHOOSE i \in ends : \A j \in ends : i <= j) - 1)

(* "The password is taken as the first line of standard input or the FIFO": *)
(* an engine that goes on has all of it.  On standard input the code does   *)
(* not keep this (README, section 5): fgets cuts a line that is too long.   *)
PasswordIsFirstLine == reader = "done" => Password = secret

(* The same of the FIFO alone, however the line was cut on its way.         *)
FifoGivesFirstLine == source = "fifo" => PasswordIsFirstLine

(* Neither gives up on the other while it waits.  The engine gives up only  *)
(* when the app has, or the FIFO was removed, or the password is too long   *)
(* or empty, or osascript had not returned by the engine's last poll but    *)
(* one: an app that takes less than the 15 s to launch it can deliver the   *)
(* password.  And the app gives up on a waiting engine only when the FIFO   *)
(* was removed: its 10 s are for an engine that has not come to wait.       *)
Late == writer = "launching" \/ began > Polls - 2
NotGivenUpFirst ==
    /\ reader = "failed" => writer = "failed" \/ removed \/ Len(secret) \notin 1..(Size - 1) \/ Late
    /\ writer = "failed" /\ reader = "reading" => removed
=============================================================================
