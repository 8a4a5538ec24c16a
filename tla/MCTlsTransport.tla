--------------------------- MODULE MCTlsTransport ---------------------------
(* Instances of TlsTransport for TLC: an orderly connection with the calls *)
(* of the application, and, for each TLS library, every way to end.        *)
EXTENDS TlsTransport

Orderly == {"finished", "open", "data"}
Ending  == Orderly \cup {"part", "close", "idle", "end"}

MCSetups ==
  {[backend |-> "openssl", stops |-> FALSE, kinds |-> Orderly, calls |-> c] :
     c \in {{"receive", "peek", "onAvailable", "onMessage"}, {"receive", "onMessage", "unset"}}} \cup
  {[backend |-> b, stops |-> TRUE, kinds |-> Ending, calls |-> {"receive"}] :
     b \in {"openssl", "gnutls", "mbedtls"}}

=============================================================================
