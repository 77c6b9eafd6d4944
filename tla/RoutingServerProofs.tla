------------------------ MODULE RoutingServerProofs ------------------------
(***************************************************************************)
(* Proofs about RoutingServer, for every number of connections, names and  *)
(* table entries.                                                          *)
(***************************************************************************)
EXTENDS RoutingServer, PeerRegistryProofs

\* A handler past its read of a REGISTER command has a name.
Named ==
  \A c \in Conns :
    pc[c] \notin {"none", "track", "reg_read", "reg_reply", "reg_sock", "close", "done"}
      => username[c] \in Names

TypeInv == TypeOK /\ Named

\* What a write() can change, whichever socket it is for.
LEMMA WriteToType ==
  ASSUME TypeOK, NEW d \in Conns, NEW m \in Replies, WriteTo(d, m)
  PROVE  /\ server' \in {"up", "killed", "corrupt"}
         /\ inbox' = inbox /\ sends' = sends
         /\ outbox' \in [Conns -> Seq(Replies)]
         /\ peer_end' \in [Conns -> {"idle", "open", "closed", "reset"}]
         /\ told' \in [Conns -> SUBSET Names]
<1>1. NamesIn(m) \in SUBSET Names
  BY DEF NamesIn, Replies, Peers
<1>2. outbox[d] \in Seq(Replies) /\ told[d] \in SUBSET Names
  BY DEF TypeOK
<1>3. Append(outbox[d], m) \in Seq(Replies)
  BY <1>2
<1>4. inbox' = inbox /\ sends' = sends
  BY DEF WriteTo
<1>5. CASE peer_end[d] = "open"
  <2>1. /\ outbox' = [outbox EXCEPT ![d] = Append(@, m)]
        /\ told' = [told EXCEPT ![d] = @ \cup NamesIn(m)]
        /\ server' = server /\ peer_end' = peer_end
    BY <1>5 DEF WriteTo
  <2> QED
    BY <2>1, <1>1, <1>2, <1>3, <1>4 DEF TypeOK
<1>6. CASE peer_end[d] # "open"
  <2>1. /\ outbox' = outbox /\ told' = told
        /\ server' = server \/ server' \in {"up", "killed"}
        /\ peer_end' = peer_end \/ peer_end' = [peer_end EXCEPT ![d] = "reset"]
    BY <1>6 DEF WriteTo
  <2> QED
    BY <2>1, <1>4 DEF TypeOK
<1> QED
  BY <1>5, <1>6

\* What a read() leaves in buffer and in the socket.
LEMMA ReadCommandType ==
  ASSUME TypeOK, NEW c \in Conns, ReadCommand(c)
  PROVE  /\ request' \in [Conns -> Commands \cup {EndOfStream}]
         /\ request'[c] \in Commands
         /\ inbox' \in [Conns -> Seq(Commands)]
<1>1. inbox[c] \in Seq(Commands)
  BY DEF TypeOK
<1>2. PICK k \in 1 .. Len(inbox[c]) :
        /\ request' = [request EXCEPT ![c] = Head(inbox[c])]
        /\ inbox' = [inbox EXCEPT ![c] = SubSeq(@, k + 1, Len(@))]
  BY DEF ReadCommand, Returned
<1>3. Head(inbox[c]) \in Commands
  BY <1>1, <1>2
<1>4. SubSeq(inbox[c], k + 1, Len(inbox[c])) \in Seq(Commands)
  BY <1>1, <1>2, SubSeqProperties
<1> QED
  BY <1>2, <1>3, <1>4 DEF TypeOK

\* remove_client_socket either finds the socket, once, or changes nothing.
LEMMA ForgetTable ==
  ASSUME NEW S, NEW table \in Seq(S), NEW c
  PROVE  \/ /\ \A i \in 1 .. Len(table) : table[i] # c
            /\ Forget(table, c) = table
         \/ \E i \in 1 .. Len(table) :
              table[i] = c /\ Forget(table, c) = SwapOut(table, i)
<1> DEFINE I == {i \in 1 .. Len(table) : table[i] = c}
           i0 == IF I # {} THEN Min(I) ELSE 0
<1>1. I \in SUBSET Nat
  OBVIOUS
<1>2. Forget(table, c) = IF i0 = 0 THEN table ELSE SwapOut(table, i0)
  BY Zenon DEF Forget, SelectInSeq
<1>3. CASE I = {}
  BY <1>2, <1>3
<1>4. CASE I # {}
  <2>1. i0 \in I
    BY <1>1, <1>4, MinIndex
  <2>2. i0 \in 1 .. Len(table) /\ table[i0] = c /\ i0 # 0
    BY <2>1
  <2> QED
    BY <1>2, <2>2
<1> QED
  BY <1>3, <1>4

\* What remains of the table is a table.
LEMMA ForgetType ==
  ASSUME NEW S, NEW table \in Seq(S), NEW c
  PROVE  Forget(table, c) \in Seq(S)
  BY ForgetTable, SwapOutTable

\* The small values a handler stores.
LEMMA ReplyTypes ==
  /\ Taken \in Replies /\ Invalid \in Replies
  /\ \A peers \in SUBSET Peers : PeerList(peers) \in Replies
  /\ \A name \in Names : NewPeer(name) \in Replies
  BY DEF Taken, Invalid, PeerList, NewPeer, Replies

\* Every step of a client, the accept loop or a handler keeps the types.
LEMMA TypeStep == TypeInv /\ [Next]_vars => TypeInv'
<1> SUFFICES ASSUME TypeInv, [Next]_vars PROVE TypeInv'
  OBVIOUS
<1>1. ASSUME NEW c \in Conns, ClientSend(c) PROVE TypeInv'
  <2>1. PICK m \in MaySend[c] : inbox' = [inbox EXCEPT ![c] = Append(@, m)]
    BY <1>1 DEF ClientSend
  <2>2. m \in Commands
    BY ServerConstants DEF ServerConstants
  <2>3. inbox' \in [Conns -> Seq(Commands)]
    BY <2>1, <2>2 DEF TypeInv, TypeOK
  <2>4. sends' \in [Conns -> Nat]
    BY <1>1 DEF ClientSend, TypeInv, TypeOK
  <2>5. UNCHANGED << server, peer_list, client_sockets, client_mutex, cursor, pc,
                     username, request, reply, outbox, peer_end, told >>
    BY <1>1 DEF ClientSend, tables, lock, locals
  <2> QED
    BY <2>3, <2>4, <2>5 DEF TypeInv, TypeOK, Named
<1>2. ASSUME NEW c \in Conns, ClientRead(c) PROVE TypeInv'
  <2>1. PICK k \in Returned(outbox[c]) :
          outbox' = [outbox EXCEPT ![c] = SubSeq(@, k + 1, Len(@))]
    BY <1>2 DEF ClientRead
  <2>2. outbox[c] \in Seq(Replies) /\ k \in 1 .. Len(outbox[c])
    BY <2>1 DEF TypeInv, TypeOK, Returned
  <2>3. SubSeq(outbox[c], k + 1, Len(outbox[c])) \in Seq(Replies)
    BY <2>2, SubSeqProperties
  <2>4. outbox' \in [Conns -> Seq(Replies)]
    BY <2>1, <2>3 DEF TypeInv, TypeOK
  <2>5. UNCHANGED << server, peer_list, client_sockets, client_mutex, cursor, pc,
                     username, request, reply, inbox, peer_end, sends, told >>
    BY <1>2 DEF ClientRead, tables, lock, locals
  <2> QED
    BY <2>4, <2>5 DEF TypeInv, TypeOK, Named
<1>3. ASSUME NEW c \in Conns, ClientClose(c) PROVE TypeInv'
  BY <1>3, ReplyTypes DEF TypeInv, TypeOK, Named, Labels, GoTo, tables, lock, locals, socks, ClientClose
<1>4. ASSUME NEW c \in Conns, Accept(c) PROVE TypeInv'
  BY <1>4, ReplyTypes DEF TypeInv, TypeOK, Named, Labels, GoTo, tables, lock, locals, socks, Accept
<1>5. ASSUME NEW c \in Conns, AcceptFails(c) PROVE TypeInv'
  BY <1>5, ReplyTypes DEF TypeInv, TypeOK, Named, Labels, GoTo, tables, lock, locals, socks, AcceptFails
<1>6. ASSUME NEW c \in Conns, Track(c) PROVE TypeInv'
  <2>1. CASE Len(client_sockets) < MaxClients
    <3>1. /\ client_sockets' = Append(client_sockets, c)
          /\ pc' = [pc EXCEPT ![c] = "reg_read"]
          /\ UNCHANGED << server, peer_list, lock, username, request, reply, socks >>
      BY <1>6, <2>1 DEF Track, GoTo
    <3>2. client_sockets' \in Seq(Conns)
      BY <3>1 DEF TypeInv, TypeOK
    <3> QED
      BY <3>1, <3>2 DEF TypeInv, TypeOK, Named, Labels, lock, socks
  <2>2. CASE ~ (Len(client_sockets) < MaxClients)
    BY <1>6, <2>2 DEF TypeInv, TypeOK, Named, Labels, GoTo, tables, lock, locals, socks, Track
  <2> QED
    BY <2>1, <2>2
<1>7. ASSUME NEW c \in Conns, RegRead(c) PROVE TypeInv'
  <2>1. /\ request' \in [Conns -> Commands \cup {EndOfStream}]
        /\ request'[c] \in Commands
        /\ inbox' \in [Conns -> Seq(Commands)]
    BY <1>7, ReadCommandType DEF RegRead, TypeInv
  <2>2. CASE request'[c].verb = "REGISTER"
    <3>1. request'[c].name \in Names
      BY <2>1, <2>2 DEF Commands
    <3>2. /\ username' = [username EXCEPT ![c] = request'[c].name]
          /\ pc' = [pc EXCEPT ![c] = "check"]
          /\ UNCHANGED << server, peer_list, client_sockets, client_mutex, cursor,
                          reply, outbox, peer_end, sends, told >>
      BY <1>7, <2>2 DEF RegRead, GoTo, tables, lock
    <3> QED
      BY <2>1, <3>1, <3>2 DEF TypeInv, TypeOK, Named, Labels
  <2>3. CASE request'[c].verb # "REGISTER"
    BY <1>7, <2>1, <2>3, ReplyTypes DEF TypeInv, TypeOK, Named, Labels, GoTo, tables, lock, locals, socks, RegRead
  <2> QED
    BY <2>2, <2>3
<1>8. ASSUME NEW c \in Conns, RegEnd(c) PROVE TypeInv'
  BY <1>8, ReplyTypes DEF TypeInv, TypeOK, Named, Labels, GoTo, tables, lock, locals, socks, RegEnd, ReadEnd
<1>9. ASSUME NEW c \in Conns, CheckName(c) PROVE TypeInv'
  BY <1>9, ReplyTypes DEF TypeInv, TypeOK, Named, Labels, GoTo, tables, lock, locals, socks, CheckName
<1>10. ASSUME NEW c \in Conns, Enter(c) PROVE TypeInv'
  <2>1. [username |-> username[c], addr |-> c] \in Peers
    BY <1>10 DEF Enter, TypeInv, Named, Peers
  <2>2. peer_list' \in Seq(Peers)
    BY <1>10, <2>1, AddPeerType DEF Enter, TypeInv, TypeOK
  <2> QED
    BY <1>10, <2>2 DEF TypeInv, TypeOK, Named, Labels, GoTo, tables, lock, locals, socks, Enter
<1>11. ASSUME NEW c \in Conns, MakeList(c) PROVE TypeInv'
  <2>1. Listing(peer_list, username[c]) \in SUBSET Peers
    BY DEF Listing, Range, TypeInv, TypeOK
  <2>2. PeerList(Listing(peer_list, username[c])) \in Replies
    BY <2>1, ReplyTypes
  <2>3. server' \in {"up", "killed", "corrupt"}
    BY <1>11 DEF MakeList, TypeInv, TypeOK
  <2> QED
    BY <1>11, <2>2, <2>3 DEF TypeInv, TypeOK, Named, Labels, GoTo, tables, lock, locals, socks, MakeList
<1>12. ASSUME NEW c \in Conns, Answer(c) PROVE TypeInv'
  <2>1. /\ server' \in {"up", "killed", "corrupt"}
        /\ inbox' = inbox /\ sends' = sends
        /\ outbox' \in [Conns -> Seq(Replies)]
        /\ peer_end' \in [Conns -> {"idle", "open", "closed", "reset"}]
        /\ told' \in [Conns -> SUBSET Names]
    <3>1. reply[c] \in Replies /\ WriteTo(c, reply[c])
      BY <1>12 DEF Answer, TypeInv, TypeOK
    <3> QED
      BY <3>1, WriteToType DEF TypeInv
  <2>2. /\ pc[c] \in {"reg_reply", "list_reply", "main_reply"}
        /\ AfterReply[pc[c]] \in {"reg_read", "bcast_lock", "main_read"}
        /\ pc[c] = "reg_reply" => AfterReply[pc[c]] = "reg_read"
    BY <1>12 DEF Answer, AfterReply
  <2> QED
    BY <1>12, <2>1, <2>2, ReplyTypes DEF TypeInv, TypeOK, Named, Labels, GoTo, tables, lock, locals, socks, Answer
<1>13. ASSUME NEW c \in Conns, BroadcastBegin(c) PROVE TypeInv'
  BY <1>13, ReplyTypes DEF TypeInv, TypeOK, Named, Labels, GoTo, tables, lock, locals, socks, BroadcastBegin
<1>14. ASSUME NEW c \in Conns, BroadcastNext(c) PROVE TypeInv'
  <2>1. /\ server' \in {"up", "killed", "corrupt"}
        /\ inbox' = inbox /\ sends' = sends
        /\ outbox' \in [Conns -> Seq(Replies)]
        /\ peer_end' \in [Conns -> {"idle", "open", "closed", "reset"}]
        /\ told' \in [Conns -> SUBSET Names]
    <3>1. CASE client_sockets[cursor] = c
      BY <1>14, <3>1 DEF BroadcastNext, TypeInv, TypeOK, socks
    <3>2. CASE client_sockets[cursor] # c
      <4>1. client_sockets[cursor] \in Conns
        BY <1>14 DEF BroadcastNext, TypeInv, TypeOK
      <4>2. NewPeer(username[c]) \in Replies
        BY <1>14, ReplyTypes DEF BroadcastNext, TypeInv, Named
      <4>3. WriteTo(client_sockets[cursor], NewPeer(username[c]))
        BY <1>14, <3>2 DEF BroadcastNext
      <4> QED
        BY <4>1, <4>2, <4>3, WriteToType DEF TypeInv
    <3> QED
      BY <3>1, <3>2
  <2>2. /\ cursor' = cursor + 1
        /\ UNCHANGED << tables, client_mutex, locals >>
    BY <1>14 DEF BroadcastNext
  <2> QED
    BY <2>1, <2>2 DEF TypeInv, TypeOK, Named, tables, locals
<1>15. ASSUME NEW c \in Conns, BroadcastEnd(c) PROVE TypeInv'
  BY <1>15, ReplyTypes DEF TypeInv, TypeOK, Named, Labels, GoTo, tables, lock, locals, socks, BroadcastEnd
<1>16. ASSUME NEW c \in Conns, MainRead(c) PROVE TypeInv'
  <2>1. /\ request' \in [Conns -> Commands \cup {EndOfStream}]
        /\ request'[c] \in Commands
        /\ inbox' \in [Conns -> Seq(Commands)]
    BY <1>16, ReadCommandType DEF MainRead, TypeInv
  <2>2. request'[c].verb = "REMOVE" => request'[c].name \in Names
    BY <2>1 DEF Commands
  <2>3. /\ username' \in [Conns -> Names \cup {NoName}]
        /\ \A d \in Conns : username'[d] = username[d] \/ username'[d] \in Names
    BY <1>16, <2>2 DEF MainRead, TypeInv, TypeOK
  <2>4. /\ pc[c] = "main_read" /\ username[c] \in Names
        /\ \E l \in {"main_list", "rm_self", "rm_other", "main_reply"} :
             pc' = [pc EXCEPT ![c] = l]
    BY <1>16 DEF MainRead, GoTo, TypeInv, Named
  <2>5. UNCHANGED << server, peer_list, client_sockets, client_mutex, cursor,
                     reply, outbox, peer_end, sends, told >>
    BY <1>16 DEF MainRead, tables, lock
  <2>6. pc' \in [Conns -> Labels]
    BY <2>4 DEF TypeInv, TypeOK, Labels
  <2>7. Named'
    BY <2>3, <2>4 DEF TypeInv, TypeOK, Named
  <2> QED
    BY <2>1, <2>3, <2>5, <2>6, <2>7 DEF TypeInv, TypeOK
<1>17. ASSUME NEW c \in Conns, MainEnd(c) PROVE TypeInv'
  BY <1>17, ReplyTypes DEF TypeInv, TypeOK, Named, Labels, GoTo, tables, lock, locals, socks, MainEnd, ReadEnd
<1>18. ASSUME NEW c \in Conns, RemoveSelf(c) PROVE TypeInv'
  BY <1>18, ReplyTypes, RemovePeerType DEF TypeInv, TypeOK, Named, Labels, GoTo, tables, lock, locals, socks, RemoveSelf
<1>19. ASSUME NEW c \in Conns, RemoveOther(c) PROVE TypeInv'
  BY <1>19, ReplyTypes, RemovePeerType DEF TypeInv, TypeOK, Named, Labels, GoTo, tables, lock, locals, socks, RemoveOther
<1>20. ASSUME NEW c \in Conns, FinalRemove(c) PROVE TypeInv'
  BY <1>20, ReplyTypes, RemovePeerType DEF TypeInv, TypeOK, Named, Labels, GoTo, tables, lock, locals, socks, FinalRemove
<1>21. ASSUME NEW c \in Conns, Untrack(c) PROVE TypeInv'
  <2>1. client_sockets' \in Seq(Conns)
    BY <1>21, ForgetType DEF Untrack, TypeInv, TypeOK
  <2>2. /\ pc[c] \in {"reg_sock", "rm_sock", "final_sock"}
        /\ AfterUntrack[pc[c]] \in {"close", "final_rm"}
        /\ AfterUntrack[pc[c]] = "final_rm" => pc[c] = "rm_sock"
    BY <1>21 DEF Untrack, AfterUntrack
  <2> QED
    BY <1>21, <2>1, <2>2 DEF TypeInv, TypeOK, Named, Labels, GoTo, tables, lock, locals, socks, Untrack
<1>22. ASSUME NEW c \in Conns, Close(c) PROVE TypeInv'
  BY <1>22, ReplyTypes DEF TypeInv, TypeOK, Named, Labels, GoTo, tables, lock, locals, socks, Close
<1>23. CASE UNCHANGED vars
  BY <1>23 DEF vars, TypeInv, TypeOK, Named, Labels, GoTo, tables, lock, locals, socks
<1> QED
  BY <1>1, <1>2, <1>3, <1>4, <1>5, <1>6, <1>7, <1>8, <1>9, <1>10, <1>11, <1>12, <1>13, <1>14, <1>15, <1>16, <1>17, <1>18, <1>19, <1>20, <1>21, <1>22, <1>23 DEF Next, Client, MainThread, Handler, Finished

\* Every variable keeps its type, for any constants that satisfy the
\* assumptions: no reply, table entry or cursor outside its domain.
THEOREM TypeCorrect == Spec => []TypeOK
<1>1. Init => TypeInv
  BY DEF Init, TypeInv, TypeOK, Named, Labels, EmptyRegistry, Replies, Invalid
<1>2. TypeInv /\ [Next]_vars => TypeInv'
  BY TypeStep
<1>3. TypeInv => TypeOK
  BY DEF TypeInv
<1> QED
  BY <1>1, <1>2, <1>3, PTL DEF Spec

-----------------------------------------------------------------------------
(* The client table.                                                       *)

\* Between the REMOVE command and the (first) Untrack the command is still in
\* the buffer: this tells the two ways to the clean-up apart.
RemoveInBuffer ==
  \A c \in Conns : pc[c] \in {"rm_self", "rm_sock"} => request[c] # EndOfStream

TableInv == ClientTableSound /\ RemoveInBuffer

\* What a handler has in its buffer tells the end of the stream from a command.
LEMMA EndIsNoCommand == EndOfStream \notin Commands
  BY DEF EndOfStream, Commands

\* A step that is neither Track nor Untrack leaves the table alone, and no
\* handler enters or leaves the part of its life in which it is tracked.
LEMMA QuietStep ==
  ASSUME TypeInv, RemoveInBuffer, NEW c \in Conns,
         Client(c) \/ MainThread(c) \/ (Handler(c) /\ ~ Track(c) /\ ~ Untrack(c))
  PROVE  /\ client_sockets' = client_sockets
         /\ \A d \in Conns : Tracked(d)' = Tracked(d)
         /\ RemoveInBuffer'
<1> DEFINE Quiet ==
         /\ client_sockets' = client_sockets
         /\ \A d \in Conns : Tracked(d)' = Tracked(d)
         /\ RemoveInBuffer'
<1>0. /\ pc \in [Conns -> Labels] /\ request \in [Conns -> Commands \cup {EndOfStream}]
      /\ TypeOK
  BY DEF TypeInv, TypeOK
<1>1. ASSUME ClientSend(c) PROVE Quiet
  BY <1>0, <1>1 DEF ClientSend, locals, tables, Tracked, RemoveInBuffer, Labels
<1>2. ASSUME ClientRead(c) PROVE Quiet
  BY <1>0, <1>2 DEF ClientRead, locals, tables, Tracked, RemoveInBuffer, Labels
<1>3. ASSUME ClientClose(c) PROVE Quiet
  BY <1>0, <1>3 DEF ClientClose, locals, tables, Tracked, RemoveInBuffer, Labels
<1>4. ASSUME Accept(c) PROVE Quiet
  BY <1>0, <1>4 DEF Accept, GoTo, tables, Tracked, RemoveInBuffer, Labels
<1>5. ASSUME AcceptFails(c) PROVE Quiet
  BY <1>0, <1>5 DEF AcceptFails, GoTo, tables, Tracked, RemoveInBuffer, Labels
<1>6. ASSUME RegRead(c) PROVE Quiet
  <2>1. request'[c] \in Commands /\ \E r : request' = [request EXCEPT ![c] = r]
    BY <1>0, <1>6, ReadCommandType DEF RegRead, ReadCommand
  <2>2. pc[c] = "reg_read" /\ client_sockets' = client_sockets
    BY <1>6 DEF RegRead, tables
  <2>3. \E l \in {"check", "reg_reply"} : pc' = [pc EXCEPT ![c] = l]
    BY <1>6 DEF RegRead, GoTo
  <2> QED
    BY <1>0, <2>1, <2>2, <2>3, EndIsNoCommand DEF Tracked, RemoveInBuffer, Labels
<1>7. ASSUME RegEnd(c) PROVE Quiet
  BY <1>0, <1>7 DEF RegEnd, GoTo, ReadEnd, tables, Tracked, RemoveInBuffer, Labels
<1>8. ASSUME CheckName(c) PROVE Quiet
  BY <1>0, <1>8 DEF CheckName, GoTo, tables, Tracked, RemoveInBuffer, Labels
<1>9. ASSUME Enter(c) PROVE Quiet
  BY <1>0, <1>9 DEF Enter, GoTo, tables, Tracked, RemoveInBuffer, Labels
<1>10. ASSUME MakeList(c) PROVE Quiet
  BY <1>0, <1>10 DEF MakeList, GoTo, tables, Tracked, RemoveInBuffer, Labels
<1>11. ASSUME Answer(c) PROVE Quiet
  BY <1>0, <1>11 DEF Answer, GoTo, AfterReply, tables, Tracked, RemoveInBuffer, Labels
<1>12. ASSUME BroadcastBegin(c) PROVE Quiet
  BY <1>0, <1>12 DEF BroadcastBegin, GoTo, tables, Tracked, RemoveInBuffer, Labels
<1>13. ASSUME BroadcastNext(c) PROVE Quiet
  BY <1>0, <1>13 DEF BroadcastNext, locals, tables, Tracked, RemoveInBuffer, Labels
<1>14. ASSUME BroadcastEnd(c) PROVE Quiet
  BY <1>0, <1>14 DEF BroadcastEnd, GoTo, tables, Tracked, RemoveInBuffer, Labels
<1>15. ASSUME MainRead(c) PROVE Quiet
  <2>1. request'[c] \in Commands /\ \E r : request' = [request EXCEPT ![c] = r]
    BY <1>0, <1>15, ReadCommandType DEF MainRead, ReadCommand
  <2>2. pc[c] = "main_read" /\ client_sockets' = client_sockets
    BY <1>15 DEF MainRead, tables
  <2>3. \E l \in {"main_list", "rm_self", "rm_other", "main_reply"} : pc' = [pc EXCEPT ![c] = l]
    BY <1>15 DEF MainRead, GoTo
  <2> QED
    BY <1>0, <2>1, <2>2, <2>3, EndIsNoCommand DEF Tracked, RemoveInBuffer, Labels
<1>16. ASSUME MainEnd(c) PROVE Quiet
  BY <1>0, <1>16 DEF MainEnd, GoTo, ReadEnd, tables, Tracked, RemoveInBuffer, Labels
<1>17. ASSUME RemoveSelf(c) PROVE Quiet
  BY <1>0, <1>17 DEF RemoveSelf, GoTo, tables, Tracked, RemoveInBuffer, Labels
<1>18. ASSUME RemoveOther(c) PROVE Quiet
  BY <1>0, <1>18 DEF RemoveOther, GoTo, tables, Tracked, RemoveInBuffer, Labels
<1>19. ASSUME FinalRemove(c) PROVE Quiet
  BY <1>0, <1>19 DEF FinalRemove, GoTo, tables, Tracked, RemoveInBuffer, Labels
<1>20. ASSUME Close(c) PROVE Quiet
  BY <1>0, <1>20 DEF Close, GoTo, tables, Tracked, RemoveInBuffer, Labels
<1> QED
  BY <1>1, <1>2, <1>3, <1>4, <1>5, <1>6, <1>7, <1>8, <1>9, <1>10, <1>11, <1>12, <1>13, <1>14, <1>15, <1>16, <1>17, <1>18, <1>19, <1>20 DEF Client, MainThread, Handler

\* Every step keeps the client table sound: Track adds a socket, Untrack takes
\* one out, nothing else touches it.
LEMMA TableStep == TypeInv /\ TableInv /\ [Next]_vars => TableInv'
<1> SUFFICES ASSUME TypeInv, TableInv, [Next]_vars PROVE TableInv'
  OBVIOUS
<1>0. /\ pc \in [Conns -> Labels] /\ request \in [Conns -> Commands \cup {EndOfStream}]
      /\ client_sockets \in Seq(Conns)
      /\ DOMAIN client_sockets = 1 .. Len(client_sockets) /\ Len(client_sockets) \in Nat
  BY DEF TypeInv, TypeOK
<1>1. ASSUME client_sockets' = client_sockets,
             \A d \in Conns : Tracked(d)' = Tracked(d),
             RemoveInBuffer'
      PROVE  TableInv'
  BY <1>1 DEF TableInv, ClientTableSound
<1>2. ASSUME NEW c \in Conns, Track(c) PROVE TableInv'
  <2>1. CASE Len(client_sockets) < MaxClients
    <3>1. /\ client_sockets' = Append(client_sockets, c)
          /\ pc[c] = "track" /\ pc' = [pc EXCEPT ![c] = "reg_read"]
          /\ request' = request
      BY <1>2, <2>1 DEF Track, GoTo
    <3>2. RemoveInBuffer'
      BY <3>1, <1>0 DEF TableInv, RemoveInBuffer
    <3>3. /\ ~ Tracked(c) /\ Tracked(c)'
          /\ \A d \in Conns \ {c} : Tracked(d)' = Tracked(d)
      BY <3>1, <1>0 DEF Tracked, Labels
    <3>4. c \notin Range(client_sockets)
      BY <3>3 DEF TableInv, ClientTableSound
    <3>5. Range(client_sockets') = Range(client_sockets) \cup {c}
      BY <3>1, <1>0, AppendProperties DEF Range
    <3>6. \A j, k \in DOMAIN client_sockets' :
            client_sockets'[j] = client_sockets'[k] => j = k
      BY <3>1, <3>4, <1>0, AppendProperties DEF TableInv, ClientTableSound, Range
    <3> QED
      BY <3>2, <3>3, <3>5, <3>6 DEF TableInv, ClientTableSound
  <2>2. CASE ~ (Len(client_sockets) < MaxClients)
    <3>1. client_sockets' = client_sockets /\ pc' = pc /\ request' = request
      BY <1>2, <2>2 DEF Track
    <3> QED
      BY <3>1 DEF TableInv, ClientTableSound, RemoveInBuffer, Tracked
  <2> QED
    BY <2>1, <2>2
<1>3. ASSUME NEW c \in Conns, Untrack(c) PROVE TableInv'
  <2>1. /\ client_sockets' = Forget(client_sockets, c)
        /\ pc[c] \in {"reg_sock", "rm_sock", "final_sock"}
        /\ pc' = [pc EXCEPT ![c] = AfterUntrack[pc[c]]]
        /\ AfterUntrack[pc[c]] = IF pc[c] = "rm_sock" THEN "final_rm" ELSE "close"
        /\ request' = request
    BY <1>3 DEF Untrack, AfterUntrack, GoTo
  <2>2. RemoveInBuffer'
    BY <2>1, <1>0 DEF TableInv, RemoveInBuffer
  <2>3. ~ Tracked(c)'
    BY <2>1, <1>0 DEF TableInv, RemoveInBuffer, Tracked
  <2>4. \A d \in Conns \ {c} : Tracked(d)' = Tracked(d)
    BY <2>1, <1>0 DEF Tracked
  <2>5. /\ Range(Forget(client_sockets, c)) = Range(client_sockets) \ {c}
        /\ \A j, k \in DOMAIN Forget(client_sockets, c) :
             Forget(client_sockets, c)[j] = Forget(client_sockets, c)[k] => j = k
    <3>1. CASE /\ \A i \in 1 .. Len(client_sockets) : client_sockets[i] # c
               /\ Forget(client_sockets, c) = client_sockets
      BY <3>1, <1>0 DEF Range, TableInv, ClientTableSound
    <3>2. CASE \E i \in 1 .. Len(client_sockets) :
                 client_sockets[i] = c /\ Forget(client_sockets, c) = SwapOut(client_sockets, i)
      <4>1. PICK i \in 1 .. Len(client_sockets) :
              client_sockets[i] = c /\ Forget(client_sockets, c) = SwapOut(client_sockets, i)
        BY <3>2
      <4>2. \A j, k \in 1 .. Len(client_sockets) : client_sockets[j] = client_sockets[k] => j = k
        BY <1>0 DEF TableInv, ClientTableSound
      <4>3. SwapOut(client_sockets, i) \in Seq(Conns)
        BY <1>0, SwapOutTable
      <4> QED
        BY <4>1, <4>2, <4>3, <1>0, SwapOutRange
    <3> QED
      BY <1>0, <3>1, <3>2, ForgetTable
  <2> QED
    BY <2>1, <2>2, <2>3, <2>4, <2>5 DEF TableInv, ClientTableSound
<1>4. CASE UNCHANGED vars
  BY <1>4 DEF vars, tables, locals, TableInv, ClientTableSound, RemoveInBuffer, Tracked
<1>5. ASSUME NEW c \in Conns, Client(c) \/ MainThread(c) \/ Handler(c) PROVE TableInv'
  BY <1>1, <1>2, <1>3, <1>5, QuietStep DEF TableInv
<1> QED
  BY <1>4, <1>5 DEF Next, Finished

\* The client table is exactly the sockets of the handlers between Track and
\* Untrack, each once, for any number of clients and any interleaving.
THEOREM TableCorrect == Spec => []ClientTableSound
<1>1. Init => TypeInv /\ TableInv
  <2>1. Init => TypeInv
    BY DEF Init, TypeInv, TypeOK, Named, Labels, EmptyRegistry, Replies, Invalid
  <2>2. Init => TableInv
    BY DEF Init, TableInv, ClientTableSound, RemoveInBuffer, Tracked, Range, Labels
  <2> QED
    BY <2>1, <2>2
<1>2. TypeInv /\ TableInv /\ [Next]_vars => (TypeInv /\ TableInv)'
  BY TypeStep, TableStep
<1>3. TableInv => ClientTableSound
  BY DEF TableInv
<1> QED
  BY <1>1, <1>2, <1>3, PTL DEF Spec

-----------------------------------------------------------------------------
(* broadcast_message and client_mutex.                                     *)

\* A write() only adds to what its reader was told, opens no socket, and if the
\* reader is still there it has been told.
LEMMA WriteToTells ==
  ASSUME TypeOK, NEW d \in Conns, NEW m \in Replies, WriteTo(d, m)
  PROVE  /\ \A e \in Conns : told[e] \subseteq told'[e]
         /\ \A e \in Conns : peer_end'[e] = "open" => peer_end[e] = "open"
         /\ peer_end'[d] = "open" => NamesIn(m) \subseteq told'[d]
<1>1. CASE peer_end[d] = "open"
  <2>1. told' = [told EXCEPT ![d] = @ \cup NamesIn(m)] /\ peer_end' = peer_end
    BY <1>1 DEF WriteTo
  <2> QED
    BY <2>1 DEF TypeOK
<1>2. CASE peer_end[d] # "open"
  <2>1. /\ told' = told
        /\ peer_end' = peer_end \/ peer_end' = [peer_end EXCEPT ![d] = "reset"]
    BY <1>2 DEF WriteTo
  <2> QED
    BY <1>2, <2>1 DEF TypeOK
<1> QED
  BY <1>1, <1>2

\* Nothing a broadcast relies on is touched: the table, the lock, who is
\* broadcasting under which name; sockets close, clients are told more.
LEMMA OutsideBroadcast ==
  ASSUME TypeInv, BroadcastSound,
         client_sockets' = client_sockets, UNCHANGED lock,
         \A d \in Conns : pc'[d] = "bcast" <=> pc[d] = "bcast",
         \A d \in Conns : pc[d] = "bcast" => username'[d] = username[d],
         \A d \in Conns : told[d] \subseteq told'[d],
         \A d \in Range(client_sockets) : peer_end'[d] = "open" => peer_end[d] = "open"
  PROVE  BroadcastSound'
<1>1. client_mutex' = client_mutex /\ cursor' = cursor
  BY DEF lock
<1>2. /\ client_sockets \in Seq(Conns) /\ cursor \in Nat
  BY DEF TypeInv, TypeOK, BroadcastSound
<1>3. \A c \in Conns : pc[c] = "bcast" =>
        /\ cursor <= Len(client_sockets) + 1
        /\ \A i \in 1 .. cursor - 1 :
             client_sockets[i] \in Conns /\ client_sockets[i] \in Range(client_sockets)
  BY <1>2 DEF BroadcastSound, Range
<1>4. ASSUME NEW c \in Conns, pc'[c] = "bcast", NEW i \in 1 .. cursor - 1,
             client_sockets[i] # c, peer_end'[client_sockets[i]] = "open"
      PROVE  username'[c] \in told'[client_sockets[i]]
  <2>1. pc[c] = "bcast" /\ peer_end[client_sockets[i]] = "open"
    BY <1>3, <1>4
  <2>2. username[c] \in told[client_sockets[i]]
    BY <2>1, <1>4 DEF BroadcastSound
  <2> QED
    BY <2>1, <2>2, <1>3
<1>5. \A c \in Conns : client_mutex' = c <=> pc'[c] = "bcast"
  BY <1>1 DEF BroadcastSound
<1> QED
  BY <1>1, <1>2, <1>4, <1>5 DEF BroadcastSound

\* Every step keeps the broadcast sound: one case per action.
LEMMA BroadcastStep == TypeInv /\ TableInv /\ BroadcastSound /\ [Next]_vars => BroadcastSound'
<1> SUFFICES ASSUME TypeInv, TableInv, BroadcastSound, [Next]_vars PROVE BroadcastSound'
  OBVIOUS
<1> DEFINE Outside ==
         /\ client_sockets' = client_sockets /\ UNCHANGED lock
         /\ \A d \in Conns : pc'[d] = "bcast" <=> pc[d] = "bcast"
         /\ \A d \in Conns : pc[d] = "bcast" => username'[d] = username[d]
         /\ \A d \in Conns : told[d] \subseteq told'[d]
         /\ \A d \in Range(client_sockets) : peer_end'[d] = "open" => peer_end[d] = "open"
<1>0. /\ pc \in [Conns -> Labels]
      /\ username \in [Conns -> Names \cup {NoName}]
      /\ peer_end \in [Conns -> {"idle", "open", "closed", "reset"}]
      /\ client_sockets \in Seq(Conns) /\ cursor \in Nat \ {0} /\ Len(client_sockets) \in Nat
      /\ Range(client_sockets) \subseteq Conns
      /\ TypeOK
  BY DEF TypeInv, TypeOK, TableInv, ClientTableSound
<1>o. Outside => BroadcastSound'
  BY OutsideBroadcast
<1>1. ASSUME NEW c \in Conns, ClientSend(c) PROVE Outside
  BY <1>0, <1>1 DEF ClientSend, locals, tables, lock, Labels
<1>2. ASSUME NEW c \in Conns, ClientRead(c) PROVE Outside
  BY <1>0, <1>2 DEF ClientRead, locals, tables, lock, Labels
<1>3. ASSUME NEW c \in Conns, Accept(c) PROVE Outside
  BY <1>0, <1>3 DEF Accept, GoTo, tables, lock, Labels, TableInv, ClientTableSound, Tracked
<1>4. ASSUME NEW c \in Conns, AcceptFails(c) PROVE Outside
  BY <1>0, <1>4 DEF AcceptFails, GoTo, tables, lock, socks, Labels
<1>5. ASSUME NEW c \in Conns, RegRead(c) PROVE Outside
  BY <1>0, <1>5 DEF RegRead, GoTo, tables, lock, Labels
<1>6. ASSUME NEW c \in Conns, RegEnd(c) PROVE Outside
  BY <1>0, <1>6 DEF RegEnd, GoTo, ReadEnd, tables, lock, socks, Labels
<1>7. ASSUME NEW c \in Conns, CheckName(c) PROVE Outside
  BY <1>0, <1>7 DEF CheckName, GoTo, tables, lock, socks, Labels
<1>8. ASSUME NEW c \in Conns, Enter(c) PROVE Outside
  BY <1>0, <1>8 DEF Enter, GoTo, lock, socks, Labels
<1>9. ASSUME NEW c \in Conns, MakeList(c) PROVE Outside
  BY <1>0, <1>9 DEF MakeList, GoTo, tables, lock, socks, Labels
<1>10. ASSUME NEW c \in Conns, MainRead(c) PROVE Outside
  BY <1>0, <1>10 DEF MainRead, GoTo, tables, lock, Labels
<1>11. ASSUME NEW c \in Conns, MainEnd(c) PROVE Outside
  BY <1>0, <1>11 DEF MainEnd, GoTo, ReadEnd, tables, lock, socks, Labels
<1>12. ASSUME NEW c \in Conns, RemoveSelf(c) PROVE Outside
  BY <1>0, <1>12 DEF RemoveSelf, GoTo, lock, socks, Labels
<1>13. ASSUME NEW c \in Conns, RemoveOther(c) PROVE Outside
  BY <1>0, <1>13 DEF RemoveOther, GoTo, lock, socks, Labels
<1>14. ASSUME NEW c \in Conns, FinalRemove(c) PROVE Outside
  BY <1>0, <1>14 DEF FinalRemove, GoTo, lock, socks, Labels
<1>15. ASSUME NEW c \in Conns, Close(c) PROVE Outside
  BY <1>0, <1>15 DEF Close, GoTo, tables, lock, Labels
<1>16. ASSUME NEW c \in Conns, ClientClose(c) PROVE Outside
  BY <1>0, <1>16 DEF ClientClose, locals, tables, lock, Labels
<1>17. ASSUME NEW c \in Conns, Answer(c) PROVE Outside
  <2>1. WriteTo(c, reply[c]) /\ reply[c] \in Replies
    BY <1>17, <1>0 DEF Answer, TypeOK
  <2>2. /\ pc[c] \in {"reg_reply", "list_reply", "main_reply"}
        /\ AfterReply[pc[c]] # "bcast"
        /\ pc' = [pc EXCEPT ![c] = AfterReply[pc[c]]]
        /\ client_sockets' = client_sockets /\ UNCHANGED lock /\ username' = username
    BY <1>17 DEF Answer, AfterReply, GoTo, tables
  <2> QED
    BY <1>0, <2>1, <2>2, WriteToTells
<1>18. ASSUME UNCHANGED vars PROVE Outside
  BY <1>0, <1>18 DEF vars, tables, lock, locals, socks
<1>19. ASSUME NEW c \in Conns, Track(c) PROVE BroadcastSound'
  <2>1. /\ client_mutex = NoConn /\ client_mutex' = NoConn /\ cursor' = cursor
        /\ pc[c] = "track"
        /\ pc' \in {pc, [pc EXCEPT ![c] = "reg_read"]}
        /\ client_sockets' \in {client_sockets, Append(client_sockets, c)}
    BY <1>19 DEF Track, GoTo, lock
  <2>2. \A d \in Conns : pc[d] # "bcast" /\ pc'[d] # "bcast"
    BY <2>1, <1>0, ServerConstants DEF BroadcastSound, ServerConstants
  <2> QED
    BY <2>1, <2>2, ServerConstants DEF BroadcastSound, ServerConstants
<1>20. ASSUME NEW c \in Conns, Untrack(c) PROVE BroadcastSound'
  <2>1. /\ client_mutex = NoConn /\ client_mutex' = NoConn
        /\ pc' = [pc EXCEPT ![c] = AfterUntrack[pc[c]]]
        /\ AfterUntrack[pc[c]] # "bcast"
    BY <1>20 DEF Untrack, AfterUntrack, GoTo, lock
  <2>2. \A d \in Conns : pc[d] # "bcast" /\ pc'[d] # "bcast"
    BY <2>1, <1>0, ServerConstants DEF BroadcastSound, ServerConstants
  <2> QED
    BY <2>1, <2>2, ServerConstants DEF BroadcastSound, ServerConstants
<1>21. ASSUME NEW c \in Conns, BroadcastBegin(c) PROVE BroadcastSound'
  <2>1. /\ client_mutex = NoConn /\ client_mutex' = c /\ cursor' = 1
        /\ pc' = [pc EXCEPT ![c] = "bcast"]
        /\ client_sockets' = client_sockets
    BY <1>21 DEF BroadcastBegin, GoTo, tables
  <2>2. \A d \in Conns : pc[d] # "bcast"
    BY <2>1, ServerConstants DEF BroadcastSound, ServerConstants
  <2>3. \A d \in Conns : pc'[d] = "bcast" <=> d = c
    BY <2>1, <2>2, <1>0
  <2> QED
    BY <2>1, <2>3, <1>0 DEF BroadcastSound
<1>22. ASSUME NEW c \in Conns, BroadcastNext(c) PROVE BroadcastSound'
  <2> DEFINE d == client_sockets[cursor]
  <2>1. /\ pc[c] = "bcast" /\ cursor <= Len(client_sockets) /\ cursor' = cursor + 1
        /\ client_sockets' = client_sockets /\ client_mutex' = client_mutex
        /\ pc' = pc /\ username' = username
    BY <1>22 DEF BroadcastNext, tables, locals
  <2>2. d \in Conns /\ username[c] \in Names
    BY <2>1, <1>0 DEF TypeInv, Named
  <2>3. /\ \A e \in Conns : told[e] \subseteq told'[e]
        /\ \A e \in Conns : peer_end'[e] = "open" => peer_end[e] = "open"
        /\ d # c /\ peer_end'[d] = "open" => username[c] \in told'[d]
    <3>1. CASE d = c
      BY <1>22, <3>1 DEF BroadcastNext, socks
    <3>2. CASE d # c
      <4>1. WriteTo(d, NewPeer(username[c]))
        BY <1>22, <3>2 DEF BroadcastNext
      <4>2. NewPeer(username[c]) \in Replies /\ NamesIn(NewPeer(username[c])) = {username[c]}
        BY <2>2, ReplyTypes DEF NamesIn, NewPeer
      <4> QED
        BY <4>1, <4>2, <2>2, <1>0, WriteToTells
    <3> QED
      BY <3>1, <3>2
  <2>4. \A e \in Conns : pc[e] = "bcast" => e = c
    BY <2>1 DEF BroadcastSound
  <2>5. \A i \in 1 .. cursor :
          client_sockets[i] # c /\ peer_end'[client_sockets[i]] = "open"
            => username[c] \in told'[client_sockets[i]]
    <3> TAKE i \in 1 .. cursor
    <3>1. client_sockets[i] \in Conns
      BY <2>1, <1>0
    <3>2. CASE i = cursor
      BY <3>2, <2>3
    <3>3. CASE i # cursor
      <4>1. i \in 1 .. cursor - 1
        BY <3>3, <1>0
      <4> QED
        BY <4>1, <3>1, <2>1, <2>3 DEF BroadcastSound
    <3> QED
      BY <3>2, <3>3
  <2>6. cursor' <= Len(client_sockets') + 1 /\ cursor' - 1 = cursor
    BY <2>1, <1>0
  <2> QED
    BY <2>1, <2>4, <2>5, <2>6 DEF BroadcastSound
<1>23. ASSUME NEW c \in Conns, BroadcastEnd(c) PROVE BroadcastSound'
  <2>1. /\ pc[c] = "bcast" /\ pc' = [pc EXCEPT ![c] = "main_read"] /\ client_mutex' = NoConn
    BY <1>23 DEF BroadcastEnd, GoTo
  <2>2. \A d \in Conns : pc'[d] # "bcast"
    BY <2>1, <1>0 DEF BroadcastSound
  <2> QED
    BY <2>1, <2>2, ServerConstants DEF BroadcastSound, ServerConstants
<1> HIDE DEF Outside
<1>a. ASSUME NEW c \in Conns, Client(c) \/ MainThread(c) PROVE BroadcastSound'
  BY <1>o, <1>a, <1>1, <1>2, <1>16, <1>3, <1>4 DEF Client, MainThread
<1>b. ASSUME NEW c \in Conns, Handler(c) PROVE BroadcastSound'
  BY <1>o, <1>b, <1>5, <1>6, <1>7, <1>8, <1>9, <1>10, <1>11, <1>12, <1>13, <1>14, <1>15, <1>17, <1>19, <1>20, <1>21, <1>22, <1>23 DEF Handler
<1> QED
  BY <1>o, <1>a, <1>b, <1>18 DEF Next, Finished

\* Mutual exclusion of broadcasts, and what each has achieved so far.
THEOREM BroadcastCorrect == Spec => []BroadcastSound
<1>1. Init => TypeInv /\ TableInv /\ BroadcastSound
  <2>1. Init => TypeInv
    BY DEF Init, TypeInv, TypeOK, Named, Labels, EmptyRegistry, Replies, Invalid
  <2>2. Init => TableInv
    BY DEF Init, TableInv, ClientTableSound, RemoveInBuffer, Tracked, Range, Labels
  <2>3. Init => BroadcastSound
    BY ServerConstants DEF Init, BroadcastSound, ServerConstants
  <2> QED
    BY <2>1, <2>2, <2>3
<1>2. TypeInv /\ TableInv /\ BroadcastSound /\ [Next]_vars => (TypeInv /\ TableInv /\ BroadcastSound)'
  BY TypeStep, TableStep, BroadcastStep
<1> QED
  BY <1>1, <1>2, PTL DEF Spec

=============================================================================
