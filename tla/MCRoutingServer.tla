-------------------------- MODULE MCRoutingServer --------------------------
(***************************************************************************)
(* Instances of RoutingServer for TLC.                                     *)
(***************************************************************************)
EXTENDS RoutingServer

CONSTANTS c1, c2, c3, ann, bob, cat

Cmd(verb, name) == [verb |-> verb, name |-> name]
List == Cmd("GET_PEER_LIST", NoName)
Other == Cmd("OTHER", NoName)

\* Everybody uses a name of their own; c2 reports c1 or removes itself.
OwnThree ==
  (c1 :> {Cmd("REGISTER", ann)}) @@
  (c2 :> {Cmd("REGISTER", bob), Cmd("REMOVE", bob), Cmd("PEER_DISCONNECTED", ann)}) @@
  (c3 :> {Cmd("REGISTER", cat)})

\* Two clients, every command, one name wanted by both.
Contended ==
  (c1 :> {Cmd("REGISTER", ann), Cmd("REMOVE", ann), List}) @@
  (c2 :> {Cmd("REGISTER", ann), Cmd("REGISTER", bob), Cmd("PEER_DISCONNECTED", ann), Other})

\* c1 registers and leaves, c2 wants the same name.
Reused ==
  (c1 :> {Cmd("REGISTER", ann), Cmd("REMOVE", ann)}) @@
  (c2 :> {Cmd("REGISTER", ann)})

Sends121 == (c1 :> 1) @@ (c2 :> 2) @@ (c3 :> 1)
Sends21 == (c1 :> 2) @@ (c2 :> 1)
=============================================================================
