----------------------------- MODULE MCRequests -----------------------------
(* Requests with the well-formed and malformed streams of both protocols.    *)
EXTENDS Requests

MCGreetings == {<<5, 1, 0>>, <<5, 2, 2, 0>>, <<5, 1, 2>>, <<5, 0>>, <<4, 1, 0>>}
MCRequests4 == {<<5, 1, 0, 1, 1, 0, 0, 4, 0, 80>>, <<5, 1, 0, 1, 1, 0, 0, 4, 0, 0>>, <<5, 2, 0, 1, 1, 2, 3, 4, 0, 80>>,
                <<5, 1, 0, 4, 1, 2, 3, 4, 0, 80>>}
MCRequests3 == {<<5, 1, 0, 3, 1, 7, 1, 187>>, <<5, 1, 0, 3, 2, 7, 8, 255, 255>>, <<5, 1, 0, 3, 0, 0, 80>>, <<5, 1, 0, 3, 2, 7>>,
                <<5, 1, 0, 3, 2, 7, 0, 0, 80>>, <<5, 1, 0, 3, 1, 0, 0, 80>>}

MCNumber == [t \in {"80", "8080", "0", "65535", "65536"} |->
               CASE t = "80" -> 80 [] t = "8080" -> 8080 [] t = "0" -> 0 [] t = "65535" -> 65535 [] t = "65536" -> 65536]

MCAuthorities == {<<"h">>, <<"h", ":", "8080">>, <<"h", ":">>, <<":", "80">>, <<"h", ":", "0">>, <<"h", ":", "65535">>,
                  <<"h", ":", "65536">>, <<"h", ":", "x">>, <<"h", ":", "80", "x">>, <<"u", "@", "h">>, <<"[", "h">>,
                  <<"g", ":", "h", ":", "80">>, <<"a", "b", "c", "d">>, <<"a", "b", ":", "80">>, <<"a", "b", "c", ":", "80">>, <<>>}
MCPaths == {<<>>, <<"/">>, <<"/", "p", "?", "q">>, <<"?", "q">>}
MCUris == {<<"http://">> \o a \o p : a \in MCAuthorities, p \in MCPaths} \cup {<<"/", "p">>}

MCLine(m, u, v, l) == [method |-> m, uri |-> u, version |-> v, long |-> l]
MCLines == {MCLine("CONNECT", a, "HTTP/1.", FALSE) : a \in MCAuthorities}
    \cup {MCLine("GET", u, "HTTP/1.", FALSE) : u \in MCUris}
    \cup {MCLine("GET", <<"http://", "h">>, v, l) : v \in {"HTTP/1.", "HTTP/2"}, l \in BOOLEAN}
MCSome == MCLine("GET", <<"http://", "h">>, "HTTP/1.", FALSE)

MCHeads == {<<"CR", "LF">> \o h \o <<"CR", "LF">> : h \in {<<>>, <<"x", "CR", "LF">>, <<"CR", "LF", "x">>, <<"CR">>,
                                                       <<"NUL", "CR", "LF">>}}

MCInputs ==
    {[kind |-> "socks", bytes |-> g \o r \o d, line |-> MCSome] :
        g \in MCGreetings, r \in MCRequests4 \cup MCRequests3, d \in {<<>>, <<9, 0>>}}
    \cup {[kind |-> "http", bytes |-> <<"line">> \o h \o d, line |-> l] : l \in MCLines, h \in MCHeads, d \in {<<>>, <<"d">>}}
    \cup {[kind |-> "http", bytes |-> <<"x">> \o h, line |-> MCSome] : h \in MCHeads \cup {[i \in 1..MaxHeader |-> "x"]}}
==============================================================================
