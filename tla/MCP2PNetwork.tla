---------------------------- MODULE MCP2PNetwork ---------------------------
(***************************************************************************)
(* Instances of P2PNetwork for TLC.                                        *)
(***************************************************************************)
EXTENDS P2PNetwork

CONSTANTS c1, c2, ann, bob

NameOf == [c \in Conns |-> IF c = c1 THEN ann ELSE bob]
OwnNames == [c \in Conns |-> {NameOf[c]}]
Calls00 == [c \in Conns |-> 0]
Calls10 == [c \in Conns |-> IF c = c1 THEN 1 ELSE 0]
Anything == [c \in Conns |-> Commands]
Plenty == [c \in Conns |-> 20]

\* The state after the clients in early have registered, each when the ones
\* before it had settled, and see their menus.  It is reached from NetInit by
\* letting nobody else act; starting there leaves room for what comes later.
Settled(early) ==
  LET entry(c) == [username |-> NameOf[c], addr |-> c]
      In(c) == c \in Range(early)
      others(c) == {entry(d) : d \in Range(early) \ {c}}
  IN
  /\ server = "up"
  /\ peer_list = [i \in DOMAIN early |-> entry(early[i])]
  /\ client_sockets = early
  /\ client_mutex = NoConn
  /\ cursor = 1
  /\ pc = [c \in Conns |-> IF In(c) THEN "main_read" ELSE "none"]
  /\ username = [c \in Conns |-> IF In(c) THEN NameOf[c] ELSE NoName]
  /\ request = [c \in Conns |-> IF In(c) THEN GetPeerList ELSE EndOfStream]
  /\ reply = [c \in Conns |-> Invalid]
  /\ inbox = [c \in Conns |-> << >>]
  /\ outbox = [c \in Conns |-> << >>]
  /\ peer_end = [c \in Conns |-> IF In(c) THEN "open" ELSE "idle"]
  /\ sends = [c \in Conns |-> 0]
  /\ told = [c \in Conns |-> IF In(c) THEN {p.username : p \in others(c)} ELSE {}]
  /\ main = [c \in Conns |-> IF In(c) THEN "menu" ELSE "off"]
  /\ my_name = [c \in Conns |-> IF In(c) THEN NameOf[c] ELSE NoName]
  /\ list = [c \in Conns |-> IF In(c) THEN others(c) ELSE {}]
  /\ listener = [c \in Conns |-> IF In(c) THEN "run" ELSE "none"]
  /\ handler = [c \in Conns |-> "none"]
  /\ ears = [c \in Conns |-> IF In(c) THEN "open" ELSE "deaf"]
  /\ in_chat = [c \in Conns |-> FALSE]
  /\ sock = [c \in Conns |-> "open"]
  /\ cut = [c \in Conns |-> FALSE]
  /\ dialed = [c \in Conns |-> NoName]
  /\ calls = [c \in Conns |-> 0]
  /\ merged = [c \in Conns |-> FALSE]

InitAfterOne == Settled(<< c1 >>)
InitAfterTwo == Settled(<< c1, c2 >>)

SpecAfterOne == InitAfterOne /\ [][NetNext]_net_vars
FairAfterOne == SpecAfterOne /\ NetFairness
SpecAfterTwo == InitAfterTwo /\ [][NetNext]_net_vars
=============================================================================
