---------------------------- MODULE PeerRegistry ----------------------------
(***************************************************************************)
(* The registry of discoverable peers, src/server/peer_registry.c.  The C  *)
(* array peer_list with its length peer_count is a sequence; each function *)
(* of the file runs from lock to unlock of peer_list_mutex without any     *)
(* input or output, so each is one operator, applied in one step.          *)
(*                                                                         *)
(* An entry's ip and port are the address its client listens on.  They are *)
(* represented by the connection that registered it: two connections never *)
(* share a listening address, and no code compares addresses.              *)
(***************************************************************************)
EXTENDS Naturals, Sequences, SequencesExt

CONSTANT MaxPeers       \* MAX_PEERS, the length of the array peer_list

ASSUME MaxPeersAssumption == MaxPeers \in Nat \ {0}

-----------------------------------------------------------------------------
(***************************************************************************)
(* Both tables of the server drop an element the same way: the last one    *)
(* takes its place and the length goes down by one.                        *)
(*                                                                         *)
(* A definition named ...Mutant, here and in the modules built on this     *)
(* one, is the definition below it with a mistake that could be made in    *)
(* the code.  No specification uses it; PROJECT.json names the property    *)
(* that tells it from the real one.                                        *)
(***************************************************************************)
SwapOutMutant(table, i) == Front(table)
SwapOut(table, i) == Front([table EXCEPT ![i] = Last(table)])

EmptyRegistry == << >>

\* add_peer: a full array leaves the call without any effect or report.
AddPeerMutant(list, peer) == Append(list, peer)
AddPeer(list, peer) ==
  IF Len(list) < MaxPeers THEN Append(list, peer) ELSE list

\* The index of the first entry with this username, 0 when there is none.
FirstNamed(list, name) == SelectInSeq(list, LAMBDA p : p.username = name)

\* remove_peer: only the first entry with this name goes.
RemovePeer(list, name) ==
  IF FirstNamed(list, name) = 0 THEN list ELSE SwapOut(list, FirstNamed(list, name))

\* username_exists
UsernameExists(list, name) == \E i \in DOMAIN list : list[i].username = name

\* The part of the registry a handler sends to the client named name: every
\* entry but the ones with that name.
Listing(list, name) == {p \in Range(list) : p.username # name}
=============================================================================
