--------------------------- MODULE MCDbosActivation ---------------------------
(* Two executors and a request that is repeated, through two faults: it    *)
(* fails half-way, or its executor is killed, and it starts over.          *)
EXTENDS DbosActivation

CONSTANTS e1, e2, c1

Executors == {e1, e2}
=============================================================================
