----------------------------- MODULE Directory -----------------------------
(***************************************************************************)
(* What the routing server promises: a directory of the discoverable peers.*)
(* A connection joins it once, under a name nobody else is listed with,    *)
(* and stays listed until it leaves or a member reports it disconnected.   *)
(* When the directory is full a joining member is not listed.  There are   *)
(* no threads, sockets, locks or arrays here; RoutingServer implements     *)
(* this when no two clients use the same name.                             *)
(***************************************************************************)
EXTENDS FiniteSets, Naturals

CONSTANTS
  Conns,     \* connections
  Names,     \* user names
  MaxPeers   \* the number of entries the directory has room for

VARIABLES
  listed,    \* the entries, [username, addr]
  stage      \* where each connection is: "new", "member" or "gone"

Init ==
  /\ listed = {}
  /\ stage = [c \in Conns |-> "new"]

Join(c, n) ==
  /\ stage[c] = "new"
  /\ \A p \in listed : p.username # n
  /\ stage' = [stage EXCEPT ![c] = "member"]
  /\ listed' = IF Cardinality(listed) < MaxPeers
               THEN listed \cup {[username |-> n, addr |-> c]} ELSE listed

Leave(c) ==
  /\ stage[c] = "member"
  /\ stage' = [stage EXCEPT ![c] = "gone"]
  /\ listed' = {p \in listed : p.addr # c}

\* A connection that never registered, or was never served.
GiveUp(c) ==
  /\ stage[c] = "new"
  /\ stage' = [stage EXCEPT ![c] = "gone"]
  /\ UNCHANGED listed

\* A member reports that the peer named n does not answer.
Report(c, n) ==
  /\ stage[c] = "member"
  /\ listed' = {p \in listed : p.username # n}
  /\ UNCHANGED stage

Next ==
  \E c \in Conns :
    \/ Leave(c) \/ GiveUp(c)
    \/ \E n \in Names : Join(c, n) \/ Report(c, n)

Spec == Init /\ [][Next]_<<listed, stage>>
=============================================================================
