---------------------------- MODULE MCConnection ----------------------------
(* One connection with requests of every kind, and the ways of using it.   *)
EXTENDS Connection

CONSTANTS ping, bare, full1, full2, lost

MCPings == {ping}
MCBare  == {bare}
MCFull  == {full1, full2, lost}
MCKnown == {bare, full1, full2}

Way(served, apart, waits, cut, capacity) ==
  [served |-> served, apart |-> apart, waits |-> waits, cut |-> cut,
   capacity |-> capacity]

(* The server with a peer that sends header and message at once; read_sock *)
(* on the Context itself.                                                  *)
Orderlies ==
  {Way(TRUE, {FALSE}, TRUE, FALSE, n) : n \in {2, 4}} \cup
  {Way(FALSE, BOOLEAN, TRUE, FALSE, n) : n \in {2, 4}}

(* A network that cuts records or does not, and a peer that waits or not.  *)
Others ==
  {Way(served, BOOLEAN, waits, TRUE, 2) :
     served \in BOOLEAN, waits \in BOOLEAN}

AllWays == Orderlies \cup Others

(* The server with a peer that sends header and message apart.             *)
ApartWays == {Way(TRUE, {TRUE}, TRUE, FALSE, 4)}

=============================================================================
