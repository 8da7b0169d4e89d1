---------------------------- MODULE MCRoundRobin ----------------------------
(* An instance of RoundRobin for TLC.                                      *)
EXTENDS RoundRobin

\* Backends 1 and 2 share a key: "h:8" as the 11th and "h:81" as the 1st one,
\* or two URLs with the same CRC-32.
SharedKey == [b \in Backends |-> IF b = 2 THEN 1 ELSE b]

=============================================================================
