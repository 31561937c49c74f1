------------------------------ MODULE Requests ------------------------------
(* How a proxy client's request is read: feed_local gathers what read()      *)
(* returns in the header buffer and parse_socks_request or parse_http acts   *)
(* on it once it is complete.  A client's bytes may arrive in any pieces.    *)
(*                                                                           *)
(* A SOCKS byte is a number.  An HTTP stream is a sequence of symbols: the   *)
(* request line (the symbol "line", its words in input.line), "CR", "LF",    *)
(* "NUL" and other text; a URI is a sequence of tokens, each of length one.  *)
(* An address is kept as its four bytes.                                     *)
EXTENDS Integers, Sequences

CONSTANTS
    Inputs,      \* the streams clients send: [kind : {"socks", "http"}, bytes : Seq,
                 \*   line : [method, uri, version, long]]
    Number,      \* what strtol reads from a token, for the tokens that are numbers
    MaxHost,     \* sizeof(host) and sizeof(authority_copy), in tokens
    MaxHeader,   \* MAX_HEADER
    ReadSize     \* the most that one read() returns

ASSUME RequestsAssumption ==
    /\ MaxHeader \in Nat \ {0} /\ ReadSize \in Nat \ {0} /\ MaxHost \in Nat
    /\ \A i \in Inputs : \/ i.kind = "socks" /\ i.bytes \in Seq(0..255)
                         \/ i.kind = "http" /\ i.bytes \in Seq(STRING) /\ i.line.uri \in Seq(STRING)
    /\ ":" \notin DOMAIN Number

VARIABLES
    input,       \* what the client sends
    got,         \* how much of it was read
    phase,       \* PROXY_HEADER, SOCKS_GREETING, SOCKS_REQUEST, RESOLVING (started) or CLOSED
    header,      \* c->header
    target,      \* c->host and c->port
    to_remote,   \* c->to_remote: the path of a rewritten line, and the bytes after it
    replies      \* replies to a SOCKS greeting

vars == <<input, got, phase, header, target, to_remote, replies>>

NoTarget == [host |-> <<>>, port |-> 0]
Nothing == [path |-> <<>>, data |-> <<>>]

valid_port(n) == n > 0 /\ n <= 65535
After(s, n) == SubSeq(s, n + 1, Len(s))

(* The searches of the C library: a position, or 0 where they return NULL.   *)
Contains(s, e) == \E i \in 1..Len(s) : s[i] = e
First(S) == CHOOSE i \in S : \A j \in S : i <= j
Last(S) == CHOOSE i \in S : \A j \in S : i >= j
Places(s, T) == {i \in 1..Len(s) : s[i] \in T}
strpbrk(s, T) == IF Places(s, T) = {} THEN 0 ELSE First(Places(s, T))
strrchr(s, e) == IF Places(s, {e}) = {} THEN 0 ELSE Last(Places(s, {e}))

(* A domain name as set_target sees it: strlen() stops at a NUL byte.        *)
c_string(s) == IF Places(s, {0}) = {} THEN s ELSE SubSeq(s, 1, First(Places(s, {0})) - 1)

------------------------------------------------------------------------------
(* What becomes of a connection: a parser returns one of these.              *)
Closed == [to |-> "CLOSED", rest |-> header, target |-> NoTarget, out |-> Nothing]
Wait(ph, rest) == [Closed EXCEPT !.to = ph, !.rest = rest]
Start(host, port, out) == [Closed EXCEPT !.to = "RESOLVING", !.rest = <<>>, !.target = [host |-> host, port |-> port], !.out = out]

(* The early returns of the C function, in their order.                      *)
parse_socks_request(b) ==
    LET domain == b[4] = 3
        at == IF domain THEN 5 ELSE 4
        n == IF domain THEN b[5] ELSE 4
        sent == SubSeq(b, at + 1, at + n)
        host == IF domain THEN c_string(sent) ELSE sent
        port == b[at + n + 1] * 256 + b[at + n + 2]
    IN IF Len(b) < 4 THEN Wait("SOCKS_REQUEST", b)
       ELSE IF SubSeq(b, 1, 3) # <<5, 1, 0>> \/ b[4] \notin {1, 3} THEN Closed
       ELSE IF domain /\ Len(b) < 5 THEN Wait("SOCKS_REQUEST", b)
       ELSE IF n = 0 THEN Closed
       ELSE IF Len(b) < at + n + 2 THEN Wait("SOCKS_REQUEST", b)
       ELSE IF host = <<>> \/ ~valid_port(port) THEN Closed
       ELSE Start(host, port, [Nothing EXCEPT !.data = After(b, at + n + 2)])

(* Mutant: the first colon separates the host from the port.                 *)
parse_authority_first(a, default_port) ==
    LET colon == strpbrk(a, {":"})
        host == IF colon = 0 THEN a ELSE SubSeq(a, 1, colon - 1)
        digits == After(a, colon)
        port == IF colon = 0 THEN default_port
                ELSE IF Len(digits) = 1 /\ digits[1] \in DOMAIN Number THEN Number[digits[1]] ELSE 0
    IN [ok |-> Len(host) \in 1..(MaxHost - 1) /\ ~Contains(a, "@") /\ ~Contains(a, "[") /\ valid_port(port),
        host |-> host, port |-> port]

(* The last colon separates the host from the port.                          *)
parse_authority(a, default_port) ==
    LET colon == strrchr(a, ":")
        host == IF colon = 0 THEN a ELSE SubSeq(a, 1, colon - 1)
        digits == After(a, colon)
        port == IF colon = 0 THEN default_port
                ELSE IF Len(digits) = 1 /\ digits[1] \in DOMAIN Number THEN Number[digits[1]] ELSE 0
    IN [ok |-> /\ Len(host) \in 1..(MaxHost - 1)
               /\ ~Contains(a, "@") /\ ~Contains(a, "[")
               /\ valid_port(port),
        host |-> host, port |-> port]

CRLF == <<"CR", "LF">>
HasAt(b, i, s) == SubSeq(b, i, i + Len(s) - 1) = s

(* strstr finds nothing after a NUL.                                         *)
Find(b, s) == {i \in 1..(Len(b) - Len(s) + 1) : HasAt(b, i, s) /\ \A k \in 1..i : b[k] # "NUL"}

(* A method other than CONNECT names its target by an absolute URI; the line *)
(* is sent on with the path alone, the rest of what was read after it.  The  *)
(* authority is copied to a buffer of its own, where host and port must fit. *)
plain_request(uri, b, line_end) ==
    LET text == After(uri, 1)
        slash == strpbrk(text, {"/", "?"})
        authority == IF slash = 0 THEN text ELSE SubSeq(text, 1, slash - 1)
        a == parse_authority(authority, 80)
        path == IF slash = 0 THEN <<"/">>
                ELSE IF text[slash] = "?" THEN <<"/">> \o After(text, slash - 1) ELSE After(text, slash - 1)
    IN IF uri = <<>> \/ uri[1] # "http://" \/ Len(authority) \notin 1..(MaxHost - 1) \/ ~a.ok THEN Closed
       ELSE Start(a.host, a.port, [path |-> path, data |-> After(b, line_end + 1)])

(* Mutant: the end of the request line is taken for the end of the header.   *)
connect_request_line(uri, b) ==
    LET a == parse_authority(uri, 443)
        consumed == First(Find(b, CRLF)) + 3
    IN IF ~a.ok THEN Closed ELSE Start(a.host, a.port, [Nothing EXCEPT !.data = After(b, consumed)])

connect_request(uri, b) ==
    LET a == parse_authority(uri, 443)
        consumed == First(Find(b, CRLF \o CRLF)) + 3
    IN IF ~a.ok THEN Closed ELSE Start(a.host, a.port, [Nothing EXCEPT !.data = After(b, consumed)])

parse_http(b) ==
    LET line_end == First(Find(b, CRLF))
        first == SubSeq(b, 1, line_end - 1)
        line == input.line
    IN IF first # <<"line">> THEN Closed
       ELSE IF line.long \/ line.version # "HTTP/1." THEN Closed
       ELSE IF line.method = "CONNECT" THEN connect_request(line.uri, b)
       ELSE plain_request(line.uri, b, line_end)

(* Mutant: a request that came with the greeting waits for the next read.    *)
greeting_waits(b) ==
    LET n == 2 + b[2]
    IN IF b[1] # 5 \/ ~Contains(SubSeq(b, 3, n), 0) THEN Closed ELSE Wait("SOCKS_REQUEST", After(b, n))

(* The greeting is complete: its version and that it offers no-auth decide.  *)
greeting(b) ==
    LET n == 2 + b[2]
    IN IF b[1] # 5 \/ ~Contains(SubSeq(b, 3, n), 0) THEN Closed ELSE parse_socks_request(After(b, n))

Greeted(b) == Len(b) >= 2 /\ Len(b) >= 2 + b[2]

(* feed_local before the connection is started, with the header of old and   *)
(* new bytes b.                                                              *)
parse(b) ==
    CASE phase = "SOCKS_GREETING" -> IF Greeted(b) THEN greeting(b) ELSE Wait(phase, b)
      [] phase = "SOCKS_REQUEST" -> parse_socks_request(b)
      [] phase = "PROXY_HEADER" -> IF Find(b, CRLF \o CRLF) = {} THEN Wait(phase, b) ELSE parse_http(b)

(* The bytes of a read(), and a NUL after them, must fit the buffer.         *)
Fits(n) == Len(header) + n < MaxHeader

(* feed_local, with close_connection when it returns false.                  *)
feed_header(data) ==
    LET r == IF Fits(Len(data)) THEN parse(header \o data) ELSE Closed
    IN /\ phase' = r.to /\ header' = r.rest /\ target' = r.target /\ to_remote' = r.out
       /\ replies' = IF phase = "SOCKS_GREETING" /\ r.to \in {"SOCKS_REQUEST", "RESOLVING"}
                     THEN replies + 1 ELSE replies

Read ==
    /\ phase # "CLOSED"
    /\ \E n \in 1..ReadSize :
          /\ got + n <= Len(input.bytes)
          /\ got' = got + n
          /\ LET data == SubSeq(input.bytes, got + 1, got + n)
             IN IF phase = "RESOLVING"
                THEN /\ to_remote' = [to_remote EXCEPT !.data = @ \o data]
                     /\ UNCHANGED <<phase, header, target, replies>>
                ELSE feed_header(data)
    /\ UNCHANGED input

Init ==
    /\ input \in Inputs /\ got = 0
    /\ phase = IF input.kind = "socks" THEN "SOCKS_GREETING" ELSE "PROXY_HEADER"
    /\ header = <<>> /\ target = NoTarget /\ to_remote = Nothing /\ replies = 0

Next == Read

Spec == Init /\ [][Next]_vars

------------------------------------------------------------------------------
(* The requests of the two protocols, as a grammar over everything a client  *)
(* has sent, without regard to how it was cut into reads: the set of what b  *)
(* can mean, each meaning a target and what to send there.                   *)

IsGreeting(b) == Len(b) >= 2 /\ Len(b) = 2 + b[2] /\ b[1] = 5 /\ \E i \in 3..Len(b) : b[i] = 0

(* An address has four bytes; a name has the length it says, and ends at its *)
(* first NUL byte if it has one.                                             *)
SocksHost(b) == SubSeq(b, IF b[4] = 1 THEN 5 ELSE 6, Len(b) - 2)
SocksTarget(b) ==
    [host |-> IF b[4] = 1 THEN SocksHost(b) ELSE c_string(SocksHost(b)),
     port |-> 256 * b[Len(b) - 1] + b[Len(b)]]

IsSocksRequest(b) ==
    /\ Len(b) >= 8 /\ SubSeq(b, 1, 3) = <<5, 1, 0>> /\ b[4] \in {1, 3}
    /\ Len(SocksHost(b)) = IF b[4] = 1 THEN 4 ELSE b[5]
    /\ SocksTarget(b).host # <<>>
    /\ valid_port(SocksTarget(b).port)

SocksMeanings(b) ==
    {[target |-> SocksTarget(SubSeq(b, c[1] + 1, c[2])), out |-> [Nothing EXCEPT !.data = After(b, c[2])]] :
        c \in {c \in (0..Len(b)) \X (0..Len(b)) : IsGreeting(SubSeq(b, 1, c[1])) /\ IsSocksRequest(SubSeq(b, c[1] + 1, c[2]))}}

(* The targets an authority can name: a host alone, or a host and a port.    *)
Named(a, default_port) ==
    {t \in {[host |-> a, port |-> default_port]} \cup {[host |-> SubSeq(a, 1, n), port |-> Number[d]] : n \in 0..Len(a), d \in DOMAIN Number} :
        /\ Len(t.host) \in 1..(MaxHost - 1) /\ ~Contains(a, "@") /\ ~Contains(a, "[") /\ valid_port(t.port)
        /\ \/ a = t.host /\ ~Contains(a, ":") /\ t.port = default_port
           \/ \E d \in DOMAIN Number : a = t.host \o <<":", d>> /\ t.port = Number[d]}

(* Where the authority of an absolute URI ends: before the first "/" or "?". *)
(* It is a request within main.c's limits only if the authority as a whole   *)
(* is no longer than a host name may be.                                     *)
Ends(uri) ==
    {n \in 1..Len(uri) : /\ uri[1] = "http://" /\ n - 1 < MaxHost
                         /\ \A i \in 2..n : uri[i] \notin {"/", "?"}
                         /\ n = Len(uri) \/ uri[n + 1] \in {"/", "?"}}
PathFrom(uri, n) == (IF n < Len(uri) /\ uri[n + 1] = "/" THEN <<>> ELSE <<"/">>) \o After(uri, n)

(* The end of the header: the first blank line.  A header has no NUL.        *)
BlankAt(b, j) == HasAt(b, j - 3, CRLF \o CRLF) /\ \A k \in 1..j : b[k] # "NUL"
HeaderEnds(b) == {j \in 5..Len(b) : BlankAt(b, j) /\ \A i \in 4..(j - 1) : ~BlankAt(b, i)}

HttpMeanings(b) ==
    IF HeaderEnds(b) = {} \/ ~HasAt(b, 1, <<"line", "CR", "LF">>) THEN {}
    ELSE LET line == input.line
         IN CASE line.long \/ line.version # "HTTP/1." -> {}
              [] ~line.long /\ line.version = "HTTP/1." /\ line.method = "CONNECT" ->
                    {[target |-> t, out |-> [Nothing EXCEPT !.data = After(b, j)]] : t \in Named(line.uri, 443), j \in HeaderEnds(b)}
              [] OTHER ->
                    UNION {{[target |-> t, out |-> [path |-> PathFrom(line.uri, n), data |-> After(b, 3)]] :
                               t \in Named(SubSeq(line.uri, 2, n), 80)} : n \in Ends(line.uri)}

Meanings(b) == IF input.kind = "socks" THEN SocksMeanings(b) ELSE HttpMeanings(b)

Received == SubSeq(input.bytes, 1, got)

(* A connection is started for the target the client named, with exactly the *)
(* bytes that follow the request, whatever pieces they came in.              *)
StartedAsAsked == phase = "RESOLVING" => [target |-> target, out |-> to_remote] \in Meanings(Received)

(* A request is acted on as soon as its last byte was read: no connection    *)
(* waits for more with a complete request in its buffer.                     *)
CompleteIsStarted == phase \notin {"RESOLVING", "CLOSED"} => Meanings(Received) = {}

(* A client is turned away only when nothing it sends is a request within    *)
(* the limits on host names and authorities, or when it had sent MAX_HEADER  *)
(* bytes before its connection was started.                                  *)
RefusedForCause ==
    phase = "CLOSED" => Len(Received) >= MaxHeader \/ \A n \in 0..Len(input.bytes) : Meanings(SubSeq(input.bytes, 1, n)) = {}
==============================================================================
