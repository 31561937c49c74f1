----------------------------- MODULE MCDnsTable -----------------------------
(* A small instance of DnsTable for TLC: two slots, three names, one server  *)
(* that the peer can give or take away, and a table of two entries.  The     *)
(* first name is the beginning of the second.                                *)
EXTENDS DnsTable

MCNames == {<<"a">>, <<"a", ".", "b">>, <<"b">>}
=============================================================================
