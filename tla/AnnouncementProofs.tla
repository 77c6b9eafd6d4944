------------------------- MODULE AnnouncementProofs -------------------------
(***************************************************************************)
(* RoutingServer's PeersAnnounced, for every instance of the server: no    *)
(* assumption on the names the clients use is needed.                      *)
(***************************************************************************)
EXTENDS RoutingServerProofs

\* Handlers that have entered their client, perhaps long ago, and handlers that
\* still serve a client they have entered.
Entered(c) == pc[c] \notin {"none", "track", "reg_read", "reg_reply", "check", "add_peer"}
Serving(c) == InMainLoop(c) \/ pc[c] \in {"reg_list", "list_reply", "bcast_lock", "bcast"}

\* An entry was made by the connection it names, under the name it still has.
EntriesEntered ==
  \A p \in Range(peer_list) :
    Entered(p.addr) /\ (Serving(p.addr) => username[p.addr] = p.username)

\* A client with its PEER_LIST behind it, or with it about to be written, knows
\* of every listed peer in the main loop, or is about to be told.  A peer that
\* is not yet in the main loop has its broadcast before it or under way.
ListsComplete ==
  \A c \in Conns : peer_end[c] = "open" =>
    \A p \in Range(peer_list) :
      p.addr # c /\ p.username # username[c] /\ InMainLoop(p.addr) =>
        /\ pc[c] = "list_reply" => p.username \in told[c] \cup NamesIn(reply[c])
        /\ pc[c] \in {"bcast_lock", "bcast"} \/ InMainLoop(c) => p.username \in told[c]

AnnounceInv == EntriesEntered /\ ListsComplete

\* Every entry is of a connection.
LEMMA EntryType == TypeOK => Range(peer_list) \subseteq Peers
  BY DEF TypeOK, Range

\* remove_peer adds no entry.
LEMMA RemovePeerShrinks ==
  ASSUME NEW S, NEW list \in Seq(S), NEW name
  PROVE  Range(RemovePeer(list, name)) \subseteq Range(list)
<1> DEFINE i == FirstNamed(list, name)
<1>1. CASE i = 0
  BY <1>1 DEF RemovePeer
<1>2. CASE i # 0
  <2>1. i \in 1 .. Len(list)
    BY <1>2, FirstNamedIndex
  <2>2. RemovePeer(list, name) = SwapOut(list, i)
    BY <1>2 DEF RemovePeer
  <2> HIDE DEF i
  <2>3. /\ SwapOut(list, i) \in Seq(S) /\ Len(SwapOut(list, i)) = Len(list) - 1
        /\ \A j \in 1 .. Len(list) - 1 :
             SwapOut(list, i)[j] = IF j = i THEN list[Len(list)] ELSE list[j]
    BY <2>1, SwapOutTable
  <2>4. \A j \in 1 .. Len(list) - 1 : \E k \in 1 .. Len(list) : SwapOut(list, i)[j] = list[k]
    BY <2>1, <2>3
  <2> QED
    BY <2>2, <2>3, <2>4 DEF Range
<1> QED
  BY <1>1, <1>2

\* What the rest of the server does not disturb: entries go, handlers leave the
\* main loop, clients leave, and are told more.
LEMMA OutsideAnnouncement ==
  ASSUME TypeInv, AnnounceInv,
         Range(peer_list') \subseteq Range(peer_list),
         \A d \in Conns : Entered(d) => Entered(d)',
         \A d \in Conns : Serving(d)' => Serving(d) /\ username'[d] = username[d],
         \A d \in Conns : InMainLoop(d)' => InMainLoop(d),
         \A d \in Conns : pc'[d] \in {"bcast_lock", "bcast"} =>
                            pc[d] \in {"bcast_lock", "bcast"},
         \A d \in Conns : pc'[d] = "list_reply" => pc[d] = "list_reply" /\ reply'[d] = reply[d],
         \A d \in Conns : Serving(d)' => told[d] \subseteq told'[d],
         \A d \in Conns : Serving(d)' /\ peer_end'[d] = "open" => peer_end[d] = "open"
  PROVE  AnnounceInv'
<1>0. \A p \in Range(peer_list) : p.addr \in Conns
  BY EntryType DEF Peers, TypeInv
<1>1. EntriesEntered'
  BY <1>0 DEF AnnounceInv, EntriesEntered
<1>2. ASSUME NEW c \in Conns, peer_end'[c] = "open", NEW p \in Range(peer_list'),
             p.addr # c, p.username # username'[c], InMainLoop(p.addr)'
      PROVE  /\ pc'[c] = "list_reply" => p.username \in told'[c] \cup NamesIn(reply'[c])
             /\ pc'[c] \in {"bcast_lock", "bcast"} \/ InMainLoop(c)' => p.username \in told'[c]
  <2>1. p \in Range(peer_list) /\ p.addr \in Conns /\ InMainLoop(p.addr)
    BY <1>0, <1>2
  <2>2. CASE Serving(c)'
    <3>1. peer_end[c] = "open" /\ username'[c] = username[c] /\ told[c] \subseteq told'[c]
      BY <1>2, <2>2
    <3>2. /\ pc[c] = "list_reply" => p.username \in told[c] \cup NamesIn(reply[c])
          /\ pc[c] \in {"bcast_lock", "bcast"} \/ InMainLoop(c) => p.username \in told[c]
      BY <1>2, <2>1, <3>1 DEF AnnounceInv, ListsComplete
    <3> QED
      BY <3>1, <3>2
  <2>3. CASE ~ Serving(c)'
    BY <2>3 DEF Serving
  <2> QED
    BY <2>2, <2>3
<1>3. ListsComplete'
  BY <1>2 DEF ListsComplete
<1> QED
  BY <1>1, <1>3 DEF AnnounceInv

\* The handler of c has just made the list for a new client.
LEMMA AnnounceList ==
  ASSUME TypeInv, AnnounceInv, NEW c \in Conns, MakeList(c), pc[c] = "reg_list"
  PROVE  AnnounceInv'
<1>0. /\ \A p \in Range(peer_list) : p.addr \in Conns
      /\ pc \in [Conns -> Labels] /\ reply \in [Conns -> Replies]
  BY EntryType DEF Peers, TypeInv, TypeOK
<1>1. /\ UNCHANGED << peer_list, username, told, peer_end >>
      /\ pc' = [pc EXCEPT ![c] = "list_reply"]
      /\ reply' = [reply EXCEPT ![c] = PeerList(Listing(peer_list, username[c]))]
  BY DEF MakeList, GoTo, tables, socks
<1>2. EntriesEntered'
  BY <1>0, <1>1 DEF AnnounceInv, EntriesEntered, Entered, Serving, InMainLoop
<1>3. \A p \in Range(peer_list) :
        p.username # username[c] => p.username \in NamesIn(reply'[c])
  <2> TAKE p \in Range(peer_list)
  <2>1. reply'[c] = PeerList(Listing(peer_list, username[c]))
    BY <1>0, <1>1
  <2>2. NamesIn(reply'[c]) = {q.username : q \in Listing(peer_list, username[c])}
    BY <2>1 DEF NamesIn, PeerList
  <2> QED
    BY <2>2 DEF Listing
<1>4. ListsComplete'
  BY <1>0, <1>1, <1>3 DEF AnnounceInv, ListsComplete, InMainLoop
<1> QED
  BY <1>2, <1>4 DEF AnnounceInv

\* The PEER_LIST reaches the client, if it is still there.
LEMMA AnnounceAnswer ==
  ASSUME TypeInv, AnnounceInv, NEW c \in Conns, Answer(c), pc[c] = "list_reply"
  PROVE  AnnounceInv'
<1>0. /\ \A p \in Range(peer_list) : p.addr \in Conns
      /\ pc \in [Conns -> Labels] /\ reply \in [Conns -> Replies]
  BY EntryType DEF Peers, TypeInv, TypeOK
<1>1. /\ UNCHANGED << peer_list, username >>
      /\ pc' = [pc EXCEPT ![c] = "bcast_lock"]
      /\ reply' = [reply EXCEPT ![c] = Invalid]
      /\ WriteTo(c, reply[c]) /\ reply[c] \in Replies
  BY <1>0 DEF Answer, AfterReply, GoTo, tables
<1>2. /\ \A e \in Conns : told[e] \subseteq told'[e]
      /\ \A e \in Conns : peer_end'[e] = "open" => peer_end[e] = "open"
      /\ peer_end'[c] = "open" => NamesIn(reply[c]) \subseteq told'[c]
  BY <1>1, WriteToTells DEF TypeInv
<1>3. EntriesEntered'
  BY <1>0, <1>1 DEF AnnounceInv, EntriesEntered, Entered, Serving, InMainLoop
<1>4. ListsComplete'
  BY <1>0, <1>1, <1>2 DEF AnnounceInv, ListsComplete, InMainLoop
<1> QED
  BY <1>3, <1>4 DEF AnnounceInv

\* A new entry is not in the main loop yet, and no other has its address.
LEMMA AnnounceEnter ==
  ASSUME TypeInv, AnnounceInv, NEW c \in Conns, Enter(c)
  PROVE  AnnounceInv'
<1> DEFINE new == [username |-> username[c], addr |-> c]
<1>0. /\ \A p \in Range(peer_list) : p.addr \in Conns
      /\ pc \in [Conns -> Labels] /\ peer_list \in Seq(Peers)
  BY EntryType DEF Peers, TypeInv, TypeOK
<1>1. /\ UNCHANGED << username, reply, told, peer_end >>
      /\ pc[c] = "add_peer" /\ pc' = [pc EXCEPT ![c] = "reg_list"]
      /\ peer_list' = AddPeer(peer_list, new)
  BY DEF Enter, GoTo, socks
<1>2. Range(peer_list') \subseteq Range(peer_list) \cup {new}
  BY <1>0, <1>1, AppendProperties DEF AddPeer, Range
<1>3. \A p \in Range(peer_list) : p.addr # c
  BY <1>1 DEF AnnounceInv, EntriesEntered, Entered
<1>4. new.addr = c /\ new.username = username[c]
  OBVIOUS
<1> HIDE DEF new
<1>5. EntriesEntered'
  BY <1>0, <1>1, <1>2, <1>3, <1>4 DEF AnnounceInv, EntriesEntered, Entered, Serving, InMainLoop
<1>6. ListsComplete'
  BY <1>0, <1>1, <1>2, <1>4 DEF AnnounceInv, ListsComplete, InMainLoop
<1> QED
  BY <1>5, <1>6 DEF AnnounceInv

\* At the end of a broadcast everybody in the table has been told, and whoever
\* has a list behind him is in the table.
LEMMA AnnounceBroadcast ==
  ASSUME TypeInv, TableInv, BroadcastSound, AnnounceInv, NEW c \in Conns, BroadcastEnd(c)
  PROVE  AnnounceInv'
<1>0. /\ \A p \in Range(peer_list) : p.addr \in Conns
      /\ pc \in [Conns -> Labels] /\ client_sockets \in Seq(Conns) /\ cursor \in Nat
  BY EntryType DEF Peers, TypeInv, TypeOK
<1>1. /\ UNCHANGED << peer_list, username, reply, told, peer_end >>
      /\ pc[c] = "bcast" /\ pc' = [pc EXCEPT ![c] = "main_read"]
      /\ cursor > Len(client_sockets)
  BY DEF BroadcastEnd, GoTo, tables, socks
<1>2. EntriesEntered'
  BY <1>0, <1>1 DEF AnnounceInv, EntriesEntered, Entered, Serving, InMainLoop
<1>3. ASSUME NEW d \in Conns, d # c, peer_end[d] = "open",
             pc[d] \in {"list_reply", "bcast_lock", "bcast"} \/ InMainLoop(d)
      PROVE  username[c] \in told[d]
  <2>1. d \in Range(client_sockets)
    BY <1>0, <1>3 DEF TableInv, ClientTableSound, Tracked, Labels, InMainLoop
  <2>2. PICK i \in 1 .. Len(client_sockets) : client_sockets[i] = d
    BY <2>1, <1>0 DEF Range
  <2>3. i \in 1 .. cursor - 1
    BY <2>2, <1>0, <1>1
  <2> QED
    BY <2>2, <2>3, <1>1, <1>3 DEF BroadcastSound
<1>4. ASSUME NEW d \in Conns, peer_end'[d] = "open", NEW p \in Range(peer_list'),
             p.addr # d, p.username # username'[d], InMainLoop(p.addr)'
      PROVE  /\ pc'[d] = "list_reply" => p.username \in told'[d] \cup NamesIn(reply'[d])
             /\ pc'[d] \in {"bcast_lock", "bcast"} \/ InMainLoop(d)' => p.username \in told'[d]
  <2>1. CASE p.addr = c
    <3>1. p.username = username[c]
      BY <1>1, <1>4, <2>1 DEF AnnounceInv, EntriesEntered, Serving
    <3>2. pc'[d] = pc[d] /\ peer_end[d] = "open" /\ d # c
      BY <1>0, <1>1, <1>4, <2>1
    <3> QED
      BY <3>1, <3>2, <1>1, <1>3 DEF InMainLoop
  <2>2. CASE p.addr # c
    <3>1. InMainLoop(p.addr) /\ p \in Range(peer_list)
      BY <1>0, <1>1, <1>4, <2>2 DEF InMainLoop
    <3>2. /\ pc[d] = "list_reply" => p.username \in told[d] \cup NamesIn(reply[d])
          /\ pc[d] \in {"bcast_lock", "bcast"} \/ InMainLoop(d) => p.username \in told[d]
      BY <3>1, <1>1, <1>4 DEF AnnounceInv, ListsComplete
    <3> QED
      BY <3>2, <1>0, <1>1 DEF InMainLoop
  <2> QED
    BY <2>1, <2>2
<1>5. ListsComplete'
  BY <1>4 DEF ListsComplete
<1> QED
  BY <1>2, <1>5 DEF AnnounceInv

\* Every step of a handler or client keeps the invariant: one case per action.
LEMMA AnnounceStep ==
  TypeInv /\ TableInv /\ BroadcastSound /\ AnnounceInv /\ [Next]_vars => AnnounceInv'
<1> SUFFICES ASSUME TypeInv, TableInv, BroadcastSound, AnnounceInv, [Next]_vars
             PROVE  AnnounceInv'
  OBVIOUS
<1> DEFINE Outside ==
         /\ Range(peer_list') \subseteq Range(peer_list)
         /\ \A d \in Conns : Entered(d) => Entered(d)'
         /\ \A d \in Conns : Serving(d)' => Serving(d) /\ username'[d] = username[d]
         /\ \A d \in Conns : InMainLoop(d)' => InMainLoop(d)
         /\ \A d \in Conns : pc'[d] \in {"bcast_lock", "bcast"} =>
                               pc[d] \in {"bcast_lock", "bcast"}
         /\ \A d \in Conns : pc'[d] = "list_reply" => pc[d] = "list_reply" /\ reply'[d] = reply[d]
         /\ \A d \in Conns : Serving(d)' => told[d] \subseteq told'[d]
         /\ \A d \in Conns : Serving(d)' /\ peer_end'[d] = "open" => peer_end[d] = "open"
<1>0. /\ pc \in [Conns -> Labels] /\ reply \in [Conns -> Replies]
      /\ username \in [Conns -> Names \cup {NoName}]
      /\ peer_end \in [Conns -> {"idle", "open", "closed", "reset"}]
      /\ told \in [Conns -> SUBSET Names] /\ peer_list \in Seq(Peers)
      /\ TypeOK
  BY DEF TypeInv, TypeOK
<1>o. Outside => AnnounceInv'
  BY OutsideAnnouncement
<1>1. ASSUME NEW c \in Conns, ClientSend(c) PROVE Outside
  BY <1>0, <1>1 DEF ClientSend, GoTo, tables, lock, locals, socks, Labels, Entered, Serving, InMainLoop
<1>2. ASSUME NEW c \in Conns, ClientRead(c) PROVE Outside
  BY <1>0, <1>2 DEF ClientRead, GoTo, tables, lock, locals, socks, Labels, Entered, Serving, InMainLoop
<1>3. ASSUME NEW c \in Conns, ClientClose(c) PROVE Outside
  BY <1>0, <1>3 DEF ClientClose, GoTo, tables, lock, locals, socks, Labels, Entered, Serving, InMainLoop
<1>4. ASSUME NEW c \in Conns, Accept(c) PROVE Outside
  BY <1>0, <1>4 DEF Accept, GoTo, tables, lock, locals, socks, Labels, Entered, Serving, InMainLoop
<1>5. ASSUME NEW c \in Conns, AcceptFails(c) PROVE Outside
  BY <1>0, <1>5 DEF AcceptFails, GoTo, tables, lock, locals, socks, Labels, Entered, Serving, InMainLoop
<1>6. ASSUME NEW c \in Conns, Track(c) PROVE Outside
  BY <1>0, <1>6 DEF Track, GoTo, tables, lock, locals, socks, Labels, Entered, Serving, InMainLoop
<1>7. ASSUME NEW c \in Conns, RegRead(c) PROVE Outside
  <2>1. /\ UNCHANGED << peer_list, told, peer_end >> /\ pc[c] = "reg_read"
        /\ \A d \in Conns \ {c} : username'[d] = username[d] /\ reply'[d] = reply[d]
        /\ \E l \in {"check", "reg_reply"} : pc' = [pc EXCEPT ![c] = l]
    BY <1>0, <1>7 DEF RegRead, GoTo, tables
  <2> QED
    BY <1>0, <2>1 DEF Entered, Serving, InMainLoop, Labels
<1>8. ASSUME NEW c \in Conns, RegEnd(c) PROVE Outside
  BY <1>0, <1>8 DEF RegEnd, GoTo, tables, lock, locals, socks, Labels, Entered, Serving, InMainLoop, ReadEnd
<1>9. ASSUME NEW c \in Conns, CheckName(c) PROVE Outside
  BY <1>0, <1>9 DEF CheckName, GoTo, tables, lock, locals, socks, Labels, Entered, Serving, InMainLoop
<1>10. ASSUME NEW c \in Conns, BroadcastBegin(c) PROVE Outside
  BY <1>0, <1>10 DEF BroadcastBegin, GoTo, tables, lock, locals, socks, Labels, Entered, Serving, InMainLoop
<1>11. ASSUME NEW c \in Conns, BroadcastNext(c) PROVE Outside
  <2>1. UNCHANGED << peer_list, pc, username, reply >>
    BY <1>11 DEF BroadcastNext, tables, locals
  <2>2. /\ \A e \in Conns : told[e] \subseteq told'[e]
        /\ \A e \in Conns : peer_end'[e] = "open" => peer_end[e] = "open"
    <3>1. CASE client_sockets[cursor] = c
      BY <1>11, <3>1 DEF BroadcastNext, socks
    <3>2. CASE client_sockets[cursor] # c
      <4>0. client_sockets[cursor] \in Conns
        BY <1>11 DEF BroadcastNext, TypeInv, TypeOK
      <4>1. client_sockets[cursor] \in Conns /\ NewPeer(username[c]) \in Replies
        BY <1>11, <4>0, ReplyTypes DEF BroadcastNext, TypeInv, Named
      <4>2. WriteTo(client_sockets[cursor], NewPeer(username[c]))
        BY <1>11, <3>2 DEF BroadcastNext
      <4> QED
        BY <4>1, <4>2, <1>0, WriteToTells
    <3> QED
      BY <3>1, <3>2
  <2> QED
    BY <2>1, <2>2 DEF Entered, Serving, InMainLoop
<1>12. ASSUME NEW c \in Conns, MainRead(c) PROVE Outside
  <2>1. /\ UNCHANGED << peer_list, told, peer_end, reply >> /\ pc[c] = "main_read"
        /\ \/ /\ username' = username
              /\ \E l \in {"main_list", "rm_other", "main_reply"} : pc' = [pc EXCEPT ![c] = l]
           \/ /\ \A d \in Conns \ {c} : username'[d] = username[d]
              /\ pc' = [pc EXCEPT ![c] = "rm_self"]
    BY <1>0, <1>12 DEF MainRead, GoTo, tables
  <2> QED
    BY <1>0, <2>1 DEF Entered, Serving, InMainLoop, Labels
<1>13. ASSUME NEW c \in Conns, MainEnd(c) PROVE Outside
  BY <1>0, <1>13 DEF MainEnd, GoTo, tables, lock, locals, socks, Labels, Entered, Serving, InMainLoop, ReadEnd
<1>14. ASSUME NEW c \in Conns, RemoveSelf(c) PROVE Outside
  BY <1>0, <1>14, RemovePeerShrinks DEF RemoveSelf, GoTo, tables, lock, locals, socks, Labels, Entered, Serving, InMainLoop
<1>15. ASSUME NEW c \in Conns, RemoveOther(c) PROVE Outside
  BY <1>0, <1>15, RemovePeerShrinks DEF RemoveOther, GoTo, tables, lock, locals, socks, Labels, Entered, Serving, InMainLoop
<1>16. ASSUME NEW c \in Conns, FinalRemove(c) PROVE Outside
  BY <1>0, <1>16, RemovePeerShrinks DEF FinalRemove, GoTo, tables, lock, locals, socks, Labels, Entered, Serving, InMainLoop
<1>17. ASSUME NEW c \in Conns, Untrack(c) PROVE Outside
  <2>1. /\ UNCHANGED << peer_list, username, reply, told, peer_end >>
        /\ pc' = [pc EXCEPT ![c] = AfterUntrack[pc[c]]]
        /\ pc[c] \in {"reg_sock", "rm_sock", "final_sock"}
        /\ AfterUntrack[pc[c]] \in {"close", "final_rm"}
    BY <1>17 DEF Untrack, AfterUntrack, GoTo, socks
  <2> QED
    BY <1>0, <2>1 DEF Entered, Serving, InMainLoop, Labels
<1>18. ASSUME NEW c \in Conns, Close(c) PROVE Outside
  BY <1>0, <1>18 DEF Close, GoTo, tables, lock, locals, socks, Labels, Entered, Serving, InMainLoop
<1>19. ASSUME NEW c \in Conns, MakeList(c) PROVE AnnounceInv'
  <2>1. CASE pc[c] = "main_list"
    BY <1>0, <1>19, <2>1, <1>o DEF MakeList, GoTo, tables, socks, Labels, Entered, Serving, InMainLoop
  <2> QED
    BY <1>19, <2>1, AnnounceList DEF MakeList
<1>20. ASSUME NEW c \in Conns, Answer(c) PROVE AnnounceInv'
  <2>1. CASE pc[c] # "list_reply"
    <3>1. /\ UNCHANGED << peer_list, username >>
          /\ pc' = [pc EXCEPT ![c] = AfterReply[pc[c]]]
          /\ pc[c] \in {"reg_reply", "main_reply"}
          /\ pc[c] = "reg_reply" => AfterReply[pc[c]] = "reg_read"
          /\ pc[c] = "main_reply" => AfterReply[pc[c]] = "main_read"
          /\ reply' = [reply EXCEPT ![c] = Invalid]
          /\ WriteTo(c, reply[c]) /\ reply[c] \in Replies
      BY <1>0, <1>20, <2>1 DEF Answer, AfterReply, GoTo, tables
    <3>2. /\ \A e \in Conns : told[e] \subseteq told'[e]
          /\ \A e \in Conns : peer_end'[e] = "open" => peer_end[e] = "open"
      BY <1>0, <3>1, WriteToTells
    <3> QED
      BY <1>0, <3>1, <3>2, <1>o DEF Labels, Entered, Serving, InMainLoop
  <2> QED
    BY <1>20, <2>1, AnnounceAnswer
<1>21. ASSUME NEW c \in Conns, Enter(c) PROVE AnnounceInv'
  BY <1>21, AnnounceEnter
<1>22. ASSUME NEW c \in Conns, BroadcastEnd(c) PROVE AnnounceInv'
  BY <1>22, AnnounceBroadcast
<1>23. ASSUME UNCHANGED vars PROVE Outside
  BY <1>0, <1>23 DEF vars, tables, lock, locals, socks, Entered, Serving, InMainLoop
<1> HIDE DEF Outside
<1>a. ASSUME NEW c \in Conns, Client(c) \/ MainThread(c) PROVE AnnounceInv'
  BY <1>o, <1>a, <1>1, <1>2, <1>3, <1>4, <1>5 DEF Client, MainThread
<1>b. ASSUME NEW c \in Conns, Handler(c) PROVE AnnounceInv'
  BY <1>o, <1>b, <1>6, <1>7, <1>8, <1>9, <1>10, <1>11, <1>12, <1>13, <1>14, <1>15, <1>16, <1>17, <1>18, <1>19, <1>20, <1>21, <1>22 DEF Handler
<1> QED
  BY <1>o, <1>a, <1>b, <1>23 DEF Next, Finished

\* Whatever order two registrations run in, client table, registry, snapshot
\* and broadcast, each client ends up told of the other: nothing the handlers
\* of routing_server.c do between their locks can leave a member unaware of a
\* listed peer.
THEOREM AnnouncementCorrect == Spec => []PeersAnnounced
<1> DEFINE Inv == TypeInv /\ TableInv /\ BroadcastSound /\ AnnounceInv
<1>1. Init => Inv
  <2>1. Init => TypeInv
    BY DEF Init, TypeInv, TypeOK, Named, Labels, EmptyRegistry, Replies, Invalid
  <2>2. Init => TableInv
    BY DEF Init, TableInv, ClientTableSound, RemoveInBuffer, Tracked, Range, Labels
  <2>3. Init => BroadcastSound
    BY ServerConstants DEF Init, BroadcastSound, ServerConstants
  <2>4. Init => AnnounceInv
    BY DEF Init, EmptyRegistry, AnnounceInv, EntriesEntered, ListsComplete, Range
  <2> QED
    BY <2>1, <2>2, <2>3, <2>4
<1>2. Inv /\ [Next]_vars => Inv'
  BY TypeStep, TableStep, BroadcastStep, AnnounceStep
<1>3. Inv => PeersAnnounced
  BY EntryType DEF TypeInv, Peers, AnnounceInv, ListsComplete, PeersAnnounced
<1> HIDE DEF Inv
<1> QED
  BY <1>1, <1>2, <1>3, PTL DEF Spec
=============================================================================
