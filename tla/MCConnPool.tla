------------------------------ MODULE MCConnPool ------------------------------
(* Two workers.  Their names are interchangeable.                          *)
EXTENDS ConnPool, TLC

CONSTANTS w1, w2

TwoClients == {w1, w2}
TwoHosts == {"a", "b"}
OneHost == {"a"}
=============================================================================
