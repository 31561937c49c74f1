------------------------- MODULE PasswordFifoProofs -------------------------
(***************************************************************************)
(* The password's way for passwords and buffers of any length, however the *)
(* line is cut into writes and reads, for any two time limits of which the *)
(* reader's is at least three polls, and for any delay between the start   *)
(* of the engine and of the writer.                                        *)
(***************************************************************************)
EXTENDS PasswordFifo, SequenceTheorems, TLAPS

(* Where everyone is.                                                       *)
Places ==
    /\ source \in {"fifo", "stdin"}
    /\ writer \in {"launching", "opening", "writing", "done", "failed"}
    /\ began \in 0..Polls
    /\ reader \in {"unborn", "reading", "done", "failed"}
    /\ polls \in 0..Polls
    /\ source = "stdin" => writer = "done" /\ reader # "reading"
    /\ source = "fifo" /\ reader = "unborn" =>
          writer \in {"launching", "opening", "failed"} /\ "reader" \notin polled /\ polls = 0 /\ began = 0
    /\ writer = "launching" => "writer" \notin polled
    /\ writer = "failed" => ~exists
    /\ exists \/ removed \/ writer \in {"done", "failed"}

(* A password has no line end in it.                                        *)
OneLine ==
    /\ secret \in Seq(Nat)
    /\ \A i \in 1..Len(secret) : secret[i] # Newline

(* What was written of the line is in the engine's buffer and, after that,  *)
(* in the FIFO.                                                             *)
InTransit ==
    /\ vpn_password \in Seq(Nat) /\ pipe \in Seq(Nat)
    /\ offset \in 0..Len(Line) /\ Len(vpn_password) <= Size
    /\ source = "fifo" =>
          /\ Len(vpn_password) + Len(pipe) = offset
          /\ \A i \in 1..Len(vpn_password) : vpn_password[i] = Line[i]
          /\ \A i \in 1..Len(pipe) : pipe[i] = Line[Len(vpn_password) + i]
          /\ writer = "done" => offset = Len(Line)
          /\ reader = "unborn" => Len(vpn_password) = 0
          /\ reader = "reading" => Len(vpn_password) < Len(Line)
          /\ reader = "done" => Len(vpn_password) = Len(Line)

(* How far apart the two polls can be: once the writer has begun, a reader  *)
(* that waits meets it in this tick (or in the next, if the reader came     *)
(* later), and the whole line is there in the one after.                    *)
InStep ==
    source = "fifo" /\ reader = "reading" /\ ~removed =>
       /\ writer = "opening" =>
             \/ polls = began /\ ("reader" \notin polled \/ "writer" \notin polled)
             \/ polls = began + 1 /\ "reader" \in polled /\ (began = 0 \/ "writer" \notin polled)
             \/ began = 0 /\ polls = 1 /\ "writer" \notin polled
             \/ began = 0 /\ polls = 2 /\ "reader" \in polled /\ "writer" \notin polled
       /\ began > 0 /\ writer = "opening" => "writer" \notin polled
       /\ writer = "writing" =>
             \/ polls = began
             \/ polls = began + 1 /\ (began = 0 \/ "reader" \in polled)
             \/ began = 0 /\ polls = 2 /\ "reader" \in polled
       /\ writer = "done" =>
             \/ polls <= began + 1
             \/ began = 0 /\ polls <= 2
             \/ Len(vpn_password) = Size

(* Until the writer begins nothing is written, and only time or the removal *)
(* of the FIFO ends the wait.                                               *)
Waiting ==
    writer = "launching" => offset = 0 /\ (reader = "failed" => removed \/ polls = Polls)

Inv == Places /\ OneLine /\ InTransit /\ InStep /\ Waiting /\ NotGivenUpFirst

-----------------------------------------------------------------------------
(* The line is the password and one line end, its last byte.                *)
LEMMA LineFacts ==
    ASSUME OneLine
    PROVE  /\ Line \in Seq(Nat) /\ Len(Line) = Len(secret) + 1 /\ Len(secret) \in Nat
           /\ \A i \in 1..Len(secret) : Line[i] = secret[i]
           /\ \A i \in 1..Len(Line) : Line[i] \in Nat /\ (Line[i] = Newline <=> i = Len(Line))
<1> DEFINE nl == <<Newline>>
<1>1. nl \in Seq(Nat) /\ Len(nl) = 1 /\ nl[1] = Newline
  BY DEF Newline
<1>2. secret \in Seq(Nat) /\ Len(secret) \in Nat
  BY DEF OneLine
<1> HIDE DEF nl
<1>3. /\ secret \o nl \in Seq(Nat) /\ Len(secret \o nl) = Len(secret) + 1
      /\ \A i \in 1..(Len(secret) + 1) :
            (secret \o nl)[i] = IF i <= Len(secret) THEN secret[i] ELSE nl[i - Len(secret)]
  <2>1. /\ secret \o nl \in Seq(Nat) /\ Len(secret \o nl) = Len(secret) + Len(nl)
        /\ \A i \in 1..(Len(secret) + Len(nl)) :
              (secret \o nl)[i] = IF i <= Len(secret) THEN secret[i] ELSE nl[i - Len(secret)]
    BY <1>1, <1>2, ConcatProperties
  <2> QED
    BY <1>1, <2>1
<1>4. Line = secret \o nl
  BY DEF Line, nl
<1>5. \A i \in 1..Len(secret) : Line[i] = secret[i] /\ secret[i] \in Nat /\ secret[i] # Newline
  BY <1>2, <1>3, <1>4, ElementOfSeq DEF OneLine
<1>6. Line[Len(secret) + 1] = Newline
  BY <1>1, <1>2, <1>3, <1>4
<1> QED
  BY <1>2, <1>3, <1>4, <1>5, <1>6 DEF Newline

(* The first n bytes of a sequence.                                         *)
LEMMA TakeFacts ==
    ASSUME NEW f \in Seq(Nat), NEW n \in 0..Len(f)
    PROVE  Take(f, n) \in Seq(Nat) /\ Len(Take(f, n)) = n /\ \A i \in 1..n : Take(f, n)[i] = f[i]
<1>1. Len(f) \in Nat /\ \A i \in 1..n : f[i] \in Nat
  BY LenProperties, ElementOfSeq
<1>2. /\ SubSeq(f, 1, n) \in Seq(Nat)
      /\ Len(SubSeq(f, 1, n)) = IF 1 <= n THEN n - 1 + 1 ELSE 0
      /\ \A i \in 1..(n - 1 + 1) : SubSeq(f, 1, n)[i] = f[1 + i - 1]
  BY <1>1, SubSeqProperties
<1> QED
  BY <1>1, <1>2 DEF Take

(* Reading moves the first n bytes of the FIFO to the end of the buffer: if *)
(* the buffer and the FIFO held a line l, they still do.                    *)
LEMMA MoveFacts ==
    ASSUME NEW b \in Seq(Nat), NEW f \in Seq(Nat), NEW n \in 0..Len(f), NEW l \in Seq(Nat)
    PROVE  /\ b \o Take(f, n) \in Seq(Nat) /\ Drop(f, n) \in Seq(Nat)
           /\ Len(b \o Take(f, n)) = Len(b) + n /\ Len(Drop(f, n)) = Len(f) - n
           /\ (\A i \in 1..Len(b) : b[i] = l[i]) /\ (\A i \in 1..Len(f) : f[i] = l[Len(b) + i])
              => /\ \A i \in 1..(Len(b) + n) : (b \o Take(f, n))[i] = l[i]
                 /\ \A i \in 1..(Len(f) - n) : Drop(f, n)[i] = l[(Len(b) + n) + i]
<1>1. Len(f) \in Nat /\ Len(b) \in Nat /\ \A i \in 1..Len(f) : f[i] \in Nat
  BY LenProperties, ElementOfSeq
<1>2. /\ Take(f, n) \in Seq(Nat) /\ Len(Take(f, n)) = n
      /\ \A i \in 1..n : Take(f, n)[i] = f[i]
  BY TakeFacts, Zenon
<1>3. /\ Drop(f, n) \in Seq(Nat) /\ Len(Drop(f, n)) = Len(f) - n
      /\ \A i \in 1..(Len(f) - n) : Drop(f, n)[i] = f[n + i]
  <2>1. \A i \in (n + 1)..Len(f) : f[i] \in Nat
    BY <1>1
  <2>2. /\ SubSeq(f, n + 1, Len(f)) \in Seq(Nat)
        /\ Len(SubSeq(f, n + 1, Len(f))) = IF n + 1 <= Len(f) THEN Len(f) - (n + 1) + 1 ELSE 0
        /\ \A i \in 1..(Len(f) - (n + 1) + 1) : SubSeq(f, n + 1, Len(f))[i] = f[n + 1 + i - 1]
    BY <1>1, <2>1, SubSeqProperties
  <2>3. \A i \in 1..(Len(f) - n) : i \in 1..(Len(f) - (n + 1) + 1) /\ n + 1 + i - 1 = n + i
    BY <1>1
  <2> QED
    BY <1>1, <2>2, <2>3 DEF Drop
<1>4. /\ b \o Take(f, n) \in Seq(Nat) /\ Len(b \o Take(f, n)) = Len(b) + n
      /\ \A i \in 1..(Len(b) + n) :
            (b \o Take(f, n))[i] = IF i <= Len(b) THEN b[i] ELSE Take(f, n)[i - Len(b)]
  <2> DEFINE t == Take(f, n)
  <2>1. t \in Seq(Nat) /\ Len(t) = n
    BY <1>2
  <2> HIDE DEF t
  <2>2. /\ b \o t \in Seq(Nat) /\ Len(b \o t) = Len(b) + Len(t)
        /\ \A i \in 1..(Len(b) + Len(t)) : (b \o t)[i] = IF i <= Len(b) THEN b[i] ELSE t[i - Len(b)]
    BY <2>1, ConcatProperties
  <2> QED
    BY <2>1, <2>2 DEF t
<1>5. ASSUME \A i \in 1..Len(b) : b[i] = l[i],
             \A i \in 1..Len(f) : f[i] = l[Len(b) + i]
      PROVE  /\ \A i \in 1..(Len(b) + n) : (b \o Take(f, n))[i] = l[i]
             /\ \A i \in 1..(Len(f) - n) : Drop(f, n)[i] = l[(Len(b) + n) + i]
  <2>1. ASSUME NEW k \in 1..(Len(b) + n) PROVE (b \o Take(f, n))[k] = l[k]
    <3>1. CASE k <= Len(b)
      BY <1>1, <1>4, <1>5, <3>1
    <3>2. CASE k > Len(b)
      <4>1. k - Len(b) \in 1..n /\ k - Len(b) \in 1..Len(f) /\ Len(b) + (k - Len(b)) = k
        BY <1>1, <3>2
      <4>2. ~(k <= Len(b))
        BY <1>1, <3>2
      <4>3. (b \o Take(f, n))[k] = Take(f, n)[k - Len(b)]
        BY <1>4, <4>2, Zenon
      <4> QED
        BY <1>2, <1>5, <4>1, <4>3
    <3>3. k <= Len(b) \/ k > Len(b)
      BY <1>1
    <3> QED
      BY <3>1, <3>2, <3>3, Zenon
  <2>2. ASSUME NEW k \in 1..(Len(f) - n) PROVE Drop(f, n)[k] = l[(Len(b) + n) + k]
    <3>1. n + k \in 1..Len(f) /\ Len(b) + (n + k) = (Len(b) + n) + k
      BY <1>1
    <3> QED
      BY <1>3, <1>5, <3>1
  <2> QED
    BY <2>1, <2>2
<1> QED
  BY <1>3, <1>4, <1>5, ZenonT(30)

(* Places behind F bytes that begin at d.                                   *)
LEMMA ShiftFacts ==
    ASSUME NEW F \in Nat, NEW n \in Nat, NEW d \in Nat, NEW i \in 1..(F + n), i > F
    PROVE  i - F \in 1..n /\ (d + F) + (i - F) = d + i
OBVIOUS

(* Lengths when n more bytes of L are written.                              *)
LEMMA WriteLengths ==
    ASSUME NEW F \in Nat, NEW L \in Nat, NEW d \in Nat, NEW o \in 0..L, NEW n \in 1..(L - o), d + F = o
    PROVE  o + n \in 0..L /\ d + (F + n) = o + n
OBVIOUS

(* Writing puts n more bytes of a line l behind the FIFO's, which follow    *)
(* the d bytes that were read.                                              *)
Follows(f, l, d) == \A i \in 1..Len(f) : f[i] = l[d + i]

LEMMA AppendFacts ==
    ASSUME NEW f \in Seq(Nat), NEW l \in Seq(Nat), NEW o \in 0..Len(l), NEW n \in 1..(Len(l) - o),
           NEW d \in Nat, d + Len(f) = o, Follows(f, l, d)
    PROVE  /\ f \o SubSeq(l, o + 1, o + n) \in Seq(Nat)
           /\ Len(f \o SubSeq(l, o + 1, o + n)) = Len(f) + n
           /\ Follows(f \o SubSeq(l, o + 1, o + n), l, d)
<1> DEFINE s == SubSeq(l, o + 1, o + n)
<1>1. Len(f) \in Nat /\ Len(l) \in Nat /\ o \in Nat /\ n \in Nat /\ o + n <= Len(l) /\ n >= 1
  OBVIOUS
<1>2. \A i \in (o + 1)..(o + n) : l[i] \in Nat
  BY <1>1, ElementOfSeq
<1>3. /\ s \in Seq(Nat)
      /\ Len(s) = IF o + 1 <= o + n THEN (o + n) - (o + 1) + 1 ELSE 0
      /\ \A i \in 1..((o + n) - (o + 1) + 1) : s[i] = l[o + 1 + i - 1]
  BY <1>1, <1>2, SubSeqProperties
<1> HIDE DEF s
<1>4. Len(s) = n
  BY <1>1, <1>3
<1>5. \A i \in 1..n : s[i] = l[o + i]
  <2>1. \A i \in 1..n : i \in 1..((o + n) - (o + 1) + 1) /\ o + 1 + i - 1 = o + i
    BY <1>1
  <2> QED
    BY <1>3, <2>1
<1>6. /\ f \o s \in Seq(Nat) /\ Len(f \o s) = Len(f) + Len(s)
      /\ \A i \in 1..(Len(f) + Len(s)) : (f \o s)[i] = IF i <= Len(f) THEN f[i] ELSE s[i - Len(f)]
  BY <1>3, ConcatProperties
<1>7. ASSUME NEW k \in 1..(Len(f) + n) PROVE (f \o s)[k] = l[d + k]
  <2>0. k \in Int /\ k >= 1 /\ k <= Len(f) + n
    BY <1>1
  <2>1. CASE k <= Len(f)
    BY <1>1, <1>4, <1>6, <2>0, <2>1 DEF Follows
  <2>2. CASE k > Len(f)
    <3>1. k - Len(f) \in 1..n /\ (d + Len(f)) + (k - Len(f)) = d + k
      BY <1>1, <2>2, ShiftFacts
    <3>2. (f \o s)[k] = s[k - Len(f)]
      BY <1>1, <1>4, <1>6, <2>0, <2>2
    <3> QED
      BY <1>5, <3>1, <3>2
  <2>3. k <= Len(f) \/ k > Len(f)
    BY <1>1, <2>0
  <2> QED
    BY <2>1, <2>2, <2>3, Zenon
<1>8. Len(f \o s) = Len(f) + n
  BY <1>4, <1>6
<1>9. \A i \in 1..Len(f \o s) : (f \o s)[i] = l[d + i]
  BY <1>7, <1>8
<1> QED
  BY <1>6, <1>8, <1>9, Zenon DEF s, Follows

(* The app has a password, nobody has begun.                                *)
LEMMA InitInv == Init => Inv
<1> SUFFICES ASSUME Init PROVE Inv
  OBVIOUS
<1>1. OneLine
  <2>1. PICK n \in 0..MaxSecret : secret = [i \in 1..n |-> i]
    BY DEF Init
  <2>2. n \in Nat /\ secret \in [1..n -> Nat]
    BY <2>1, FifoAssumption
  <2>3. secret \in Seq(Nat) /\ Len(secret) = n
    BY <2>2, SeqDef
  <2> QED
    BY <2>1, <2>2, <2>3 DEF OneLine, Newline
<1>2. Places
  BY FifoAssumption DEF Init, Places
<1>3. InTransit
  BY <1>1, LineFacts, FifoAssumption, EmptySeq DEF Init, InTransit
<1>4. InStep /\ Waiting /\ NotGivenUpFirst
  BY DEF Init, InStep, Waiting, NotGivenUpFirst
<1> QED
  BY <1>1, <1>2, <1>3, <1>4 DEF Inv

-----------------------------------------------------------------------------
(* The writer begins.                                                       *)
LEMMA BeginInv == Inv /\ PrivilegedReturns => Inv'
<1> SUFFICES ASSUME Inv, PrivilegedReturns PROVE Inv'
  OBVIOUS
<1> USE DEF PrivilegedReturns, rvars
<1>1. OneLine' /\ Line' = Line
  BY DEF Inv, OneLine, Line
<1>2. Places'
  BY DEF Inv, Places
<1>3. InTransit'
  BY <1>1 DEF Inv, InTransit, Places
<1>4. InStep' /\ Waiting'
  BY DEF Inv, Places, InStep, Waiting
<1>5. NotGivenUpFirst'
  <2>1. reader = "failed" => removed \/ polls > Polls - 2
    BY FifoAssumption DEF Inv, Waiting
  <2> QED
    BY <2>1 DEF Inv, NotGivenUpFirst, Late
<1> QED
  BY <1>1, <1>2, <1>3, <1>4, <1>5 DEF Inv

(* The writer looks for a reader.                                           *)
LEMMA WriterPollsInv == Inv /\ WriterPolls => Inv'
<1> SUFFICES ASSUME Inv, WriterPolls PROVE Inv'
  OBVIOUS
<1> USE DEF WriterPolls, rvars
<1>1. OneLine' /\ Line' = Line
  BY DEF Inv, OneLine, Line
<1>2. Places'
  BY DEF Inv, Places
<1>3. InTransit'
  BY <1>1 DEF Inv, InTransit, Places
<1>4. InStep' /\ Waiting'
  BY DEF Inv, Places, InStep, Waiting
<1>5. NotGivenUpFirst'
  BY DEF Inv, Places, NotGivenUpFirst, Late
<1> QED
  BY <1>1, <1>2, <1>3, <1>4, <1>5 DEF Inv

(* The writer writes some of the line behind what is in the FIFO.           *)
LEMMA WriterWritesInv == Inv /\ WriterWrites => Inv'
<1> SUFFICES ASSUME Inv, WriterWrites PROVE Inv'
  OBVIOUS
<1> USE DEF WriterWrites, rvars
<1>1. OneLine' /\ Line' = Line
  BY DEF Inv, OneLine, Line
<1>2. Places'
  BY DEF Inv, Places
<1>3. InTransit'
  <2>1. CASE reader # "reading"
    BY <1>1, <2>1 DEF Inv, InTransit, Places
  <2>2. CASE reader = "reading"
    <3>1. PICK n \in 1..(Len(Line) - offset) :
             /\ pipe' = pipe \o SubSeq(Line, offset + 1, offset + n)
             /\ offset' = offset + n
             /\ writer' = IF offset' = Len(Line) THEN "done" ELSE "writing"
      BY <2>2
    <3>2. /\ pipe \in Seq(Nat) /\ Line \in Seq(Nat) /\ offset \in 0..Len(Line)
          /\ Len(vpn_password) \in Nat /\ source = "fifo"
          /\ Len(vpn_password) + Len(pipe) = offset
          /\ \A i \in 1..Len(pipe) : pipe[i] = Line[Len(vpn_password) + i]
      BY <2>2, LineFacts DEF Inv, Places, InTransit
    <3>3. /\ pipe' \in Seq(Nat) /\ Len(pipe') = Len(pipe) + n
          /\ \A i \in 1..Len(pipe') : pipe'[i] = Line[Len(vpn_password) + i]
      <4> DEFINE g == pipe \o SubSeq(Line, offset + 1, offset + n)
      <4>1. pipe' = g
        BY <3>1
      <4>2. g \in Seq(Nat) /\ Len(g) = Len(pipe) + n
            /\ \A i \in 1..Len(g) : g[i] = Line[Len(vpn_password) + i]
        <5> HIDE DEF WriterWrites
        <5>1. /\ pipe \in Seq(Nat) /\ Line \in Seq(Nat) /\ offset \in 0..Len(Line)
              /\ Len(vpn_password) \in Nat /\ Len(vpn_password) + Len(pipe) = offset
          BY <3>2
        <5>2. Follows(pipe, Line, Len(vpn_password))
          BY <3>2, Zenon DEF Follows
        <5>3. g \in Seq(Nat) /\ Len(g) = Len(pipe) + n /\ Follows(g, Line, Len(vpn_password))
          BY <5>1, <5>2, AppendFacts, Zenon
        <5> HIDE DEF g
        <5> QED
          BY <5>3, Zenon DEF Follows
      <4> HIDE DEF WriterWrites, g
      <4> QED
        BY <4>1, <4>2
    <3>4. offset' = offset + n /\ writer' = IF offset' = Len(Line) THEN "done" ELSE "writing"
      BY <3>1
    <3>5. offset' \in 0..Len(Line) /\ Len(vpn_password) + Len(pipe') = offset'
      <4> HIDE DEF WriterWrites
      <4>1. Len(Line) \in Nat /\ Len(pipe) \in Nat
        BY <3>2
      <4>2. offset + n \in 0..Len(Line) /\ Len(vpn_password) + (Len(pipe) + n) = offset + n
        BY <3>2, <4>1, WriteLengths, ZenonT(30)
      <4> QED
        BY <3>3, <3>4, <4>2
    <3>6. UNCHANGED <<source, vpn_password, reader>>
      OBVIOUS
    <3> HIDE DEF WriterWrites
    <3> QED
      BY <1>1, <2>2, <3>2, <3>3, <3>4, <3>5, <3>6 DEF Inv, InTransit
  <2> QED
    BY <2>1, <2>2
<1>4. InStep' /\ Waiting'
  BY DEF Inv, Places, InStep, Waiting
<1>5. NotGivenUpFirst'
  BY DEF Inv, Places, NotGivenUpFirst, Late
<1> QED
  BY <1>1, <1>2, <1>3, <1>4, <1>5 DEF Inv

(* The session ends, the engine starts to read, time passes.                *)
LEMMA RemoveInv == Inv /\ Remove => Inv'
<1> SUFFICES ASSUME Inv, Remove PROVE Inv'
  OBVIOUS
<1> USE DEF Remove, wvars, rvars
<1>1. OneLine' /\ Line' = Line
  BY DEF Inv, OneLine, Line
<1>2. Places' /\ Waiting'
  BY DEF Inv, Places, Waiting
<1>3. InTransit'
  BY <1>1 DEF Inv, InTransit
<1>4. InStep' /\ NotGivenUpFirst'
  BY DEF Inv, InStep, NotGivenUpFirst, Late
<1> QED
  BY <1>1, <1>2, <1>3, <1>4 DEF Inv

LEMMA ReaderOpensInv == Inv /\ ReaderOpens => Inv'
<1> SUFFICES ASSUME Inv, ReaderOpens PROVE Inv'
  OBVIOUS
<1> USE DEF ReaderOpens, wvars
<1>1. OneLine' /\ Line' = Line
  BY DEF Inv, OneLine, Line
<1>2. Places'
  BY DEF Inv, Places
<1>3. InTransit'
  BY <1>1, LineFacts DEF Inv, InTransit, Places
<1>4. InStep' /\ Waiting'
  BY DEF Inv, Places, InStep, Waiting
<1>5. NotGivenUpFirst'
  BY DEF Inv, Places, NotGivenUpFirst, Late
<1> QED
  BY <1>1, <1>2, <1>3, <1>4, <1>5 DEF Inv

LEMMA TickInv == Inv /\ Tick => Inv'
<1> SUFFICES ASSUME Inv, Tick PROVE Inv'
  OBVIOUS
<1> USE DEF Tick, wvars, rvars
<1>1. OneLine' /\ Line' = Line
  BY DEF Inv, OneLine, Line
<1>2. Places'
  BY DEF Inv, Places
<1>3. InTransit'
  BY <1>1 DEF Inv, InTransit
<1>4. InStep' /\ Waiting'
  BY DEF Inv, Places, InStep, Waiting
<1>5. NotGivenUpFirst'
  BY DEF Inv, Places, NotGivenUpFirst, Late
<1> QED
  BY <1>1, <1>2, <1>3, <1>4, <1>5 DEF Inv

-----------------------------------------------------------------------------
(* The loop ends with the line's end, and an empty line is refused.         *)
LEMMA OutcomeFacts ==
    ASSUME OneLine, NEW b \in Seq(Nat), Len(b) <= Len(Line)
    PROVE  (\A i \in 1..Len(b) : b[i] = Line[i])
           => Outcome(b) = IF Len(b) < Len(Line) THEN "reading"
                           ELSE IF Len(secret) = 0 THEN "failed" ELSE "done"
<1>1. SUFFICES ASSUME \A i \in 1..Len(b) : b[i] = Line[i]
               PROVE  Outcome(b) = IF Len(b) < Len(Line) THEN "reading"
                                   ELSE IF Len(secret) = 0 THEN "failed" ELSE "done"
  OBVIOUS
<1>2. /\ Len(Line) = Len(secret) + 1 /\ Len(secret) \in Nat
      /\ \A i \in 1..Len(Line) : Line[i] = Newline <=> i = Len(Line)
  BY LineFacts
<1>3. Len(b) \in Nat /\ DOMAIN b = 1..Len(b)
  BY LenProperties
<1>4. CASE Len(b) < Len(Line)
  <2>1. \A i \in 1..Len(b) : i \in 1..Len(Line) /\ i # Len(Line)
    BY <1>2, <1>3, <1>4
  <2>2. \A i \in DOMAIN b : b[i] # Newline
    BY <1>1, <1>2, <1>3, <2>1
  <2> QED
    BY <1>4, <2>2 DEF Outcome
<1>5. CASE Len(b) = Len(Line)
  <2>1. 1 \in 1..Len(Line) /\ Len(Line) \in 1..Len(Line) /\ ~(Len(b) < Len(Line))
    BY <1>2, <1>5
  <2>2. Len(Line) \in DOMAIN b /\ b[Len(Line)] = Newline
    BY <1>1, <1>2, <1>3, <1>5, <2>1
  <2>3. b[1] = Newline <=> 1 = Len(Line)
    BY <1>1, <1>2, <1>5, <2>1
  <2>4. 1 = Len(Line) <=> Len(secret) = 0
    BY <1>2
  <2> QED
    BY <2>1, <2>2, <2>3, <2>4 DEF Outcome
<1>6. Len(b) < Len(Line) \/ Len(b) = Len(Line)
  <2>1. Len(Line) \in Nat
    BY <1>2
  <2> QED
    BY <1>3, <2>1
<1> QED
  BY <1>4, <1>5, <1>6, Zenon

(* The engine takes what is there, or gives up.                             *)
LEMMA ReaderPollsInv == Inv /\ ReaderPolls => Inv'
<1> SUFFICES ASSUME Inv, ReaderPolls PROVE Inv'
  OBVIOUS
<1>1. OneLine' /\ Line' = Line
  BY DEF ReaderPolls, wvars, Inv, OneLine, Line
<1>2. /\ reader = "reading" /\ "reader" \notin polled /\ polled' = polled \cup {"reader"}
      /\ UNCHANGED <<source, secret, writer, began, offset, exists, removed>>
  BY DEF ReaderPolls, wvars
<1>3. /\ source = "fifo" /\ writer \in {"launching", "opening", "writing", "done", "failed"}
      /\ polls \in 0..Polls /\ began \in 0..Polls
      /\ writer = "launching" => offset = 0 /\ "writer" \notin polled
      /\ writer = "failed" => ~exists /\ removed
      /\ (exists \/ removed \/ writer \in {"done", "failed"})
  BY <1>2 DEF Inv, Places, Waiting, NotGivenUpFirst
<1>4. /\ vpn_password \in Seq(Nat) /\ pipe \in Seq(Nat)
      /\ offset \in 0..Len(Line) /\ Len(vpn_password) <= Size
      /\ Len(vpn_password) + Len(pipe) = offset /\ Len(vpn_password) < Len(Line)
      /\ writer = "done" => offset = Len(Line)
  BY <1>2, <1>3 DEF Inv, InTransit
<1>5. /\ \A i \in 1..Len(vpn_password) : vpn_password[i] = Line[i]
      /\ \A i \in 1..Len(pipe) : pipe[i] = Line[Len(vpn_password) + i]
  BY <1>2, <1>3 DEF Inv, InTransit
<1>6. /\ Len(Line) = Len(secret) + 1 /\ Len(secret) \in Nat /\ OneLine
      /\ Len(vpn_password) \in Nat /\ Len(pipe) \in Nat
      /\ Size \in Nat \ {0} /\ Polls \in Nat /\ Polls >= 3
  BY <1>4, LineFacts, FifoAssumption DEF Inv
<1>7. CASE polls = Polls \/ Len(vpn_password) = Size
  <2>1. reader' = "failed" /\ UNCHANGED <<polls, vpn_password, pipe>>
    BY <1>7 DEF ReaderPolls
  <2>2. Places' /\ InStep' /\ Waiting'
    BY <1>2, <1>3, <1>4, <1>6, <1>7, <2>1 DEF Places, InStep, Waiting
  <2>3. InTransit'
    BY <1>1, <1>2, <1>4, <1>5, <2>1 DEF InTransit
  <2>4. NotGivenUpFirst'
    <3>1. CASE Len(vpn_password) = Size
      BY <1>2, <1>4, <1>6, <2>1, <3>1 DEF NotGivenUpFirst
    <3>2. CASE polls = Polls /\ Len(vpn_password) # Size
      <4>1. CASE removed \/ writer = "launching" \/ writer = "failed"
        BY <1>2, <2>1, <4>1 DEF NotGivenUpFirst, Late
      <4>2. CASE ~removed /\ writer \in {"opening", "writing", "done"}
        <5>1. began > Polls - 2
          BY <1>2, <1>3, <1>6, <3>2, <4>2 DEF Inv, InStep
        <5> QED
          BY <1>2, <2>1, <5>1 DEF NotGivenUpFirst, Late
      <4> QED
        BY <1>3, <4>1, <4>2
    <3> QED
      BY <1>7, <3>1, <3>2
  <2> QED
    BY <1>1, <2>2, <2>3, <2>4 DEF Inv
<1>8. CASE ~(polls = Polls \/ Len(vpn_password) = Size)
  <2> DEFINE b == vpn_password \o Take(pipe, Room)
             f == Drop(pipe, Room)
  <2>1. polls' = polls + 1 /\ vpn_password' = b /\ pipe' = f /\ reader' = Outcome(b)
    BY <1>8 DEF ReaderPolls
  <2>2. /\ Room \in 0..Len(pipe) /\ Len(vpn_password) + Room <= Size
        /\ Room = Len(pipe) \/ Len(vpn_password) + Room = Size
    BY <1>4, <1>6, <1>8 DEF Room, Least
  <2>3. /\ b \in Seq(Nat) /\ f \in Seq(Nat)
        /\ Len(b) = Len(vpn_password) + Room /\ Len(f) = Len(pipe) - Room
        /\ \A i \in 1..(Len(vpn_password) + Room) : b[i] = Line[i]
        /\ \A i \in 1..(Len(pipe) - Room) : f[i] = Line[(Len(vpn_password) + Room) + i]
    <3>1. vpn_password \in Seq(Nat) /\ pipe \in Seq(Nat) /\ Room \in 0..Len(pipe) /\ Line \in Seq(Nat)
      BY <1>4, <1>6, <2>2, LineFacts
    <3>2. /\ b \in Seq(Nat) /\ f \in Seq(Nat)
          /\ Len(b) = Len(vpn_password) + Room /\ Len(f) = Len(pipe) - Room
      BY <3>1, MoveFacts, ZenonT(30)
    <3>3. /\ \A i \in 1..(Len(vpn_password) + Room) : b[i] = Line[i]
          /\ \A i \in 1..(Len(pipe) - Room) : f[i] = Line[(Len(vpn_password) + Room) + i]
      BY <1>5, <3>1, MoveFacts, ZenonT(90)
    <3> QED
      BY <3>2, <3>3
  <2> HIDE DEF b, f
  <2>4. Len(b) \in Nat /\ Len(f) \in Nat /\ Len(b) + Len(f) = offset /\ Len(b) <= Len(Line) /\ Len(b) <= Size
    <3>1. /\ Room \in Int /\ Room >= 0 /\ Room <= Len(pipe) /\ Len(vpn_password) + Room <= Size
          /\ offset \in Int /\ offset <= Len(Line) /\ Len(Line) \in Int
          /\ Len(vpn_password) + Len(pipe) = offset
      BY <1>4, <1>6, <2>2
    <3>2. Len(b) = Len(vpn_password) + Room /\ Len(f) = Len(pipe) - Room
      BY <2>3
    <3> QED
      BY <1>6, <3>1, <3>2
  <2>5. (\A i \in 1..Len(b) : b[i] = Line[i]) /\ (\A i \in 1..Len(f) : f[i] = Line[Len(b) + i])
    BY <2>3
  <2>6. reader' = IF Len(b) < Len(Line) THEN "reading" ELSE IF Len(secret) = 0 THEN "failed" ELSE "done"
    BY <1>6, <2>1, <2>3, <2>4, <2>5, OutcomeFacts
  <2>7. Places'
    BY <1>2, <1>3, <1>6, <1>8, <2>1, <2>6 DEF Places
  <2>8. InTransit'
    <3>1. reader' \in {"reading", "failed", "done"}
      BY <2>6
    <3>2. reader' = "reading" => Len(b) < Len(Line)
      BY <2>6
    <3>3. reader' = "done" => Len(b) = Len(Line)
      BY <1>6, <2>4, <2>6
    <3> QED
      BY <1>1, <1>2, <1>4, <2>1, <2>3, <2>4, <2>5, <3>1, <3>2, <3>3 DEF InTransit
  <2>9. InStep'
    <3>1. reader' = "reading" /\ writer = "done" => Len(b) = Size
      BY <1>4, <1>6, <2>2, <2>3, <2>6, SMTT(20)
    <3> QED
      BY <1>2, <1>3, <2>1, <3>1 DEF Inv, InStep
  <2>10. NotGivenUpFirst'
    BY <1>2, <1>3, <1>6, <2>6 DEF NotGivenUpFirst
  <2>11. Waiting'
    <3>1. writer = "launching" => Len(b) < Len(Line)
      BY <1>3, <1>6, <2>4
    <3> QED
      BY <1>2, <1>3, <2>6, <3>1 DEF Waiting
  <2> QED
    BY <1>1, <2>7, <2>8, <2>9, <2>10, <2>11 DEF Inv
<1> QED
  BY <1>7, <1>8

(* The engine takes a line, or what fits of it, from standard input.        *)
LEMMA FgetsInv == Inv /\ Fgets => Inv'
<1> SUFFICES ASSUME Inv, Fgets PROVE Inv'
  OBVIOUS
<1>1. OneLine' /\ Line' = Line
  BY DEF Fgets, wvars, Inv, OneLine, Line
<1>2. /\ source = "stdin" /\ reader' \in {"failed", "done"}
      /\ vpn_password' = Take(Line, Least(Len(Line), Size))
      /\ UNCHANGED <<source, secret, writer, began, offset, polls, pipe, exists, removed, polled>>
  BY DEF Fgets, wvars
<1>3. Places' /\ InStep' /\ Waiting'
  BY <1>2 DEF Inv, Places, InStep, Waiting
<1>4. InTransit'
  <2>1. Line \in Seq(Nat) /\ Len(Line) \in Nat /\ Size \in Nat
    BY LineFacts, FifoAssumption DEF Inv
  <2>2. Least(Len(Line), Size) \in 0..Len(Line) /\ Least(Len(Line), Size) <= Size
    BY <2>1 DEF Least
  <2>3. vpn_password' \in Seq(Nat) /\ Len(vpn_password') = Least(Len(Line), Size)
    BY <1>2, <2>1, <2>2, TakeFacts, Zenon
  <2> QED
    BY <1>1, <1>2, <2>2, <2>3 DEF Inv, InTransit
<1>5. NotGivenUpFirst'
  <2>1. writer = "done" /\ reader' = IF secret = <<>> THEN "failed" ELSE "done"
    BY <1>2 DEF Fgets, Inv, Places
  <2> QED
    BY <1>2, <2>1 DEF NotGivenUpFirst
<1> QED
  BY <1>1, <1>3, <1>4, <1>5 DEF Inv

-----------------------------------------------------------------------------
(* Every step keeps the invariant.                                          *)
LEMMA NextInv == Inv /\ [Next]_vars => Inv'
<1> SUFFICES ASSUME Inv, [Next]_vars PROVE Inv'
  OBVIOUS
<1>0. CASE PrivilegedReturns
  BY <1>0, BeginInv
<1>1. CASE WriterPolls
  BY <1>1, WriterPollsInv
<1>2. CASE WriterWrites
  BY <1>2, WriterWritesInv
<1>3. CASE Remove
  BY <1>3, RemoveInv
<1>4. CASE ReaderOpens
  BY <1>4, ReaderOpensInv
<1>5. CASE ReaderPolls
  BY <1>5, ReaderPollsInv
<1>6. CASE Fgets
  BY <1>6, FgetsInv
<1>7. CASE Tick
  BY <1>7, TickInv
<1>8. CASE UNCHANGED vars
  <2> USE <1>8 DEF vars, wvars, rvars
  <2>1. OneLine' /\ Line' = Line
    BY DEF Inv, OneLine, Line
  <2>2. Places' /\ Waiting'
    BY DEF Inv, Places, Waiting
  <2>3. InTransit'
    BY <2>1 DEF Inv, InTransit
  <2>4. InStep' /\ NotGivenUpFirst'
    BY DEF Inv, InStep, NotGivenUpFirst, Late
  <2> QED
    BY <2>1, <2>2, <2>3, <2>4 DEF Inv
<1> QED
  BY <1>0, <1>1, <1>2, <1>3, <1>4, <1>5, <1>6, <1>7, <1>8 DEF Next

LEMMA Invariance == Spec => []Inv
BY InitInv, NextInv, PTL DEF Spec

(* read_password's first line, once it has all of it, is the password.      *)
LEMMA FirstLine == Inv => FifoGivesFirstLine
<1> SUFFICES ASSUME Inv, source = "fifo", reader = "done" PROVE Password = secret
  BY DEF FifoGivesFirstLine, PasswordIsFirstLine
<1> DEFINE ends == {i \in DOMAIN vpn_password : vpn_password[i] = Newline}
           m == Len(secret)
<1>1. /\ Line \in Seq(Nat) /\ Len(Line) = m + 1 /\ m \in Nat /\ secret \in Seq(Nat)
      /\ \A i \in 1..m : Line[i] = secret[i]
      /\ \A i \in 1..Len(Line) : Line[i] = Newline <=> i = Len(Line)
  BY LineFacts DEF Inv, OneLine
<1>2. /\ vpn_password \in Seq(Nat) /\ Len(vpn_password) = m + 1
      /\ \A i \in 1..(m + 1) : vpn_password[i] = Line[i]
  BY <1>1 DEF Inv, InTransit
<1>3. DOMAIN vpn_password = 1..(m + 1) /\ m + 1 \in 1..(m + 1)
  BY <1>1, <1>2, LenProperties
<1>4. ends = {m + 1}
  BY <1>1, <1>2, <1>3
<1>5. (CHOOSE i \in ends : \A j \in ends : i <= j) = m + 1
  BY <1>1, <1>4
<1>6. Password = Take(vpn_password, m)
  <2>1. ends # {} /\ (m + 1) - 1 = m
    <3>1. ends # {}
      BY <1>4, Zenon
    <3>2. (m + 1) - 1 = m
      BY <1>1
    <3> QED
      BY <3>1, <3>2, Zenon
  <2> DEFINE first == CHOOSE i \in ends : \A j \in ends : i <= j
  <2>2. Password = IF ends = {} THEN vpn_password ELSE Take(vpn_password, first - 1)
    BY Zenon DEF Password
  <2> HIDE DEF ends, first
  <2>3. first = m + 1
    BY <1>5 DEF first
  <2> QED
    BY <2>1, <2>2, <2>3
<1>7. /\ Take(vpn_password, m) \in Seq(Nat) /\ Len(Take(vpn_password, m)) = m
      /\ \A i \in 1..m : Take(vpn_password, m)[i] = vpn_password[i]
  <2>1. m \in 0..Len(vpn_password)
    BY <1>1, <1>2
  <2> QED
    BY <1>2, <2>1, TakeFacts, Zenon
<1>8. \A i \in 1..m : Take(vpn_password, m)[i] = secret[i]
  BY <1>1, <1>2, <1>7
<1> QED
  BY <1>1, <1>6, <1>7, <1>8, SeqEqual

(* "The password is taken as the first line of ... the FIFO"                *)
(* (read_password in main.c, writeSecret in PPTPProxyClient.swift): however *)
(* the line is cut into writes and reads, and however long it and the       *)
(* buffer are, an engine that goes on has the app's password, all of it.    *)
THEOREM FifoDelivers == Spec => []FifoGivesFirstLine
BY Invariance, FirstLine, PTL

(* read_password waits long enough (15 s), whatever its limit of at least   *)
(* three polls, whatever writeSecret's (100 attempts of 0.1 s), and however *)
(* long osascript takes: an engine gives up before the app, on a password   *)
(* it can take and a FIFO that is there, only if osascript had not returned *)
(* by its last poll but one; and writeSecret never gives up on an engine    *)
(* that waits at a FIFO that is there.                                      *)
THEOREM EngineWaits == Spec => []NotGivenUpFirst
<1>1. Inv => NotGivenUpFirst
  BY DEF Inv
<1> QED
  BY <1>1, Invariance, PTL
=============================================================================
