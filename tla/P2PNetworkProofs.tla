-------------------------- MODULE P2PNetworkProofs --------------------------
(***************************************************************************)
(* Proofs about P2PNetwork: the client program against the routing server, *)
(* for every number of clients, names, calls and messages.                 *)
(***************************************************************************)
EXTENDS P2PNetwork, DirectoryProofs

\* The client's part of NetTypeOK.
ClientTypes ==
  /\ main \in [Conns -> MainLabels]
  /\ my_name \in [Conns -> Names \cup {NoName}]
  /\ list \in [Conns -> SUBSET Peers]
  /\ listener \in [Conns -> {"none", "run", "notified", "ended"}]
  /\ handler \in [Conns -> HandlerLabels]
  /\ ears \in [Conns -> {"deaf", "open", "failed"}]
  /\ in_chat \in [Conns -> BOOLEAN]
  /\ sock \in [Conns -> {"open", "closed"}]
  /\ cut \in [Conns -> BOOLEAN]
  /\ dialed \in [Conns -> Names \cup {NoName}]
  /\ calls \in [Conns -> Nat]
  /\ merged \in [Conns -> BOOLEAN]

\* How the threads of a client and the two ends of its connection belong
\* together: other threads run after the registration and end with the
\* process; the client has a name once it has entered one; its end of the
\* connection is open while it runs, unless it was never served, and its
\* descriptor is closed only after the server's end.
Session(c) ==
  /\ main[c] = "off" <=> pc[c] = "none"
  /\ main[c] = "off" => peer_end[c] = "idle" /\ outbox[c] = << >>
  /\ main[c] \in {"off", "ask", "answer", "gone"} => handler[c] = "none" /\ ears[c] = "deaf"
  /\ main[c] \in {"off", "ask", "answer"} => listener[c] = "none"
  /\ main[c] = "gone" => listener[c] = "ended"
  /\ main[c] \notin {"off", "ask", "gone"} => my_name[c] \in MayName[c]
  /\ main[c] = "report" => dialed[c] \in Names
  /\ main[c] \notin {"off", "gone"} =>
       peer_end[c] = "open" \/ (pc[c] = "done" /\ outbox[c] = << >>)
  /\ main[c] = "gone" => peer_end[c] \in {"closed", "reset"} \/ pc[c] = "done"
  /\ sock[c] = "closed" => pc[c] = "done"

NetInv == TypeInv /\ ClientTypes /\ \A c \in Conns : Session(c)

-----------------------------------------------------------------------------
(* The steps of the server, as its clients see them.                       *)

\* A step of a handler opens no connection and closes no client's end, and
\* what it writes reaches clients whose end is open.
LEMMA ServeSeen ==
  ASSUME TypeInv, NEW e \in Conns, Handler(e)
  PROVE  \A c \in Conns :
           /\ pc'[c] = "none" <=> pc[c] = "none"
           /\ pc[c] = "done" => pc'[c] = "done"
           /\ peer_end[c] = "open" => peer_end'[c] = "open"
           /\ peer_end[c] # "open" => outbox'[c] = outbox[c]
           /\ peer_end[c] \in {"closed", "reset"} => peer_end'[c] \in {"closed", "reset"}
           /\ peer_end[c] = "idle" => peer_end'[c] = "idle"
<1> DEFINE Goal == \A c \in Conns :
           /\ pc'[c] = "none" <=> pc[c] = "none"
           /\ pc[c] = "done" => pc'[c] = "done"
           /\ peer_end[c] = "open" => peer_end'[c] = "open"
           /\ peer_end[c] # "open" => outbox'[c] = outbox[c]
           /\ peer_end[c] \in {"closed", "reset"} => peer_end'[c] \in {"closed", "reset"}
           /\ peer_end[c] = "idle" => peer_end'[c] = "idle"
<1>0. /\ pc \in [Conns -> Labels]
      /\ peer_end \in [Conns -> {"idle", "open", "closed", "reset"}]
      /\ outbox \in [Conns -> Seq(Replies)]
      /\ client_sockets \in Seq(Conns) /\ cursor \in Nat \ {0}
  BY DEF TypeInv, TypeOK
<1>1. ASSUME NEW l \in Labels \ {"none"}, GoTo(e, l), pc[e] \notin {"none", "done"},
             UNCHANGED << outbox, peer_end >>
      PROVE  Goal
  BY <1>0, <1>1 DEF GoTo
<1>2. ASSUME NEW d \in Conns, NEW m, WriteTo(d, m)
      PROVE  \A c \in Conns :
           /\ peer_end[c] = "open" => peer_end'[c] = "open"
           /\ peer_end[c] # "open" => outbox'[c] = outbox[c]
           /\ peer_end[c] \in {"closed", "reset"} => peer_end'[c] \in {"closed", "reset"}
           /\ peer_end[c] = "idle" => peer_end'[c] = "idle"
  BY <1>0, <1>2 DEF WriteTo
<1>3. CASE Track(e)
  <2>1. CASE GoTo(e, "reg_read")
    BY <1>1, <1>3, <2>1 DEF Track, socks, Labels
  <2>2. CASE UNCHANGED << client_sockets, pc >>
    BY <1>3, <2>2 DEF Track, socks
  <2> QED
    BY <1>3, <2>1, <2>2 DEF Track
<1>4. CASE RegRead(e)
  BY <1>1, <1>4 DEF RegRead, Labels
<1>5. CASE RegEnd(e)
  BY <1>1, <1>5 DEF RegEnd, socks, Labels
<1>6. CASE CheckName(e)
  BY <1>1, <1>6 DEF CheckName, socks, Labels
<1>7. CASE Enter(e)
  BY <1>1, <1>7 DEF Enter, socks, Labels
<1>8. CASE MakeList(e)
  BY <1>1, <1>8 DEF MakeList, socks, Labels
<1>9. CASE Answer(e)
  <2>1. AfterReply[pc[e]] \in Labels \ {"none"} /\ pc[e] \notin {"none", "done"}
    BY <1>9 DEF Answer, AfterReply, Labels
  <2>2. pc' = [pc EXCEPT ![e] = AfterReply[pc[e]]] /\ WriteTo(e, reply[e])
    BY <1>9 DEF Answer, GoTo
  <2>3. \A c \in Conns :
           /\ pc'[c] = "none" <=> pc[c] = "none"
           /\ pc[c] = "done" => pc'[c] = "done"
    BY <1>0, <2>1, <2>2
  <2> QED
    BY <1>2, <2>2, <2>3
<1>10. CASE BroadcastBegin(e)
  BY <1>1, <1>10 DEF BroadcastBegin, socks, Labels
<1>11. CASE BroadcastNext(e)
  <2>1. pc' = pc /\ client_sockets[cursor] \in Conns
    BY <1>0, <1>11 DEF BroadcastNext, locals
  <2>2. CASE UNCHANGED socks
    BY <2>1, <2>2 DEF socks
  <2>3. CASE WriteTo(client_sockets[cursor], NewPeer(username[e]))
    BY <1>2, <2>1, <2>3
  <2> QED
    BY <1>11, <2>2, <2>3 DEF BroadcastNext
<1>12. CASE BroadcastEnd(e)
  BY <1>1, <1>12 DEF BroadcastEnd, socks, Labels
<1>13. CASE MainRead(e)
  <2>1. \E l \in {"main_list", "rm_self", "rm_other", "main_reply"} : GoTo(e, l)
    BY <1>13 DEF MainRead
  <2> QED
    BY <1>1, <1>13, <2>1 DEF MainRead, Labels
<1>14. CASE MainEnd(e)
  BY <1>1, <1>14 DEF MainEnd, socks, Labels
<1>15. CASE RemoveSelf(e)
  BY <1>1, <1>15 DEF RemoveSelf, socks, Labels
<1>16. CASE RemoveOther(e)
  BY <1>1, <1>16 DEF RemoveOther, socks, Labels
<1>17. CASE FinalRemove(e)
  BY <1>1, <1>17 DEF FinalRemove, socks, Labels
<1>18. CASE Untrack(e)
  <2>1. AfterUntrack[pc[e]] \in Labels \ {"none"} /\ pc[e] \notin {"none", "done"}
    BY <1>18 DEF Untrack, AfterUntrack, Labels
  <2> QED
    BY <1>1, <1>18, <2>1 DEF Untrack, socks
<1>19. CASE Close(e)
  BY <1>1, <1>19 DEF Close, Labels
<1> QED
  BY <1>3, <1>4, <1>5, <1>6, <1>7, <1>8, <1>9, <1>10, <1>11, <1>12, <1>13, <1>14, <1>15,
     <1>16, <1>17, <1>18, <1>19 DEF Handler

-----------------------------------------------------------------------------
(* What a client does to its connection.                                   *)

\* The steps of a client leave the server's own variables alone.
LEMMA OutsideServer ==
  ASSUME TypeInv, UNCHANGED << server, tables, lock, locals, told >>,
         inbox' \in [Conns -> Seq(Commands)], outbox' \in [Conns -> Seq(Replies)],
         peer_end' \in [Conns -> {"idle", "open", "closed", "reset"}],
         sends' \in [Conns -> Nat]
  PROVE  TypeInv'
  BY DEF TypeInv, TypeOK, Named, tables, lock, locals

\* A write of a command.
LEMMA WriteServerKeeps ==
  ASSUME TypeInv, ClientTypes, NEW c \in Conns, NEW m \in Commands, WriteServer(c, m)
  PROVE  /\ TypeInv'
         /\ UNCHANGED << server, tables, lock, locals, outbox, peer_end, told >>
         /\ cut' \in [Conns -> BOOLEAN]
         /\ inbox' \in {inbox, [inbox EXCEPT ![c] = Append(@, m)]}
<1>0. inbox \in [Conns -> Seq(Commands)] /\ sends \in [Conns -> Nat]
  BY DEF TypeInv, TypeOK
<1>1. /\ inbox' \in {inbox, [inbox EXCEPT ![c] = Append(inbox[c], m)]}
      /\ sends' = sends \/ sends' = [sends EXCEPT ![c] = sends[c] + 1]
      /\ cut' = cut \/ cut' = [cut EXCEPT ![c] = TRUE]
      /\ UNCHANGED << server, tables, lock, locals, outbox, peer_end, told >>
  BY DEF WriteServer
<1>2. inbox' \in [Conns -> Seq(Commands)]
  <2>1. Append(inbox[c], m) \in Seq(Commands)
    BY <1>0
  <2> QED
    BY <1>0, <1>1, <2>1
<1>3. sends' \in [Conns -> Nat] /\ cut' \in [Conns -> BOOLEAN]
  <2>0. sends' = sends \/ sends' = [sends EXCEPT ![c] = sends[c] + 1]
    BY <1>1
  <2>1. sends' \in [Conns -> Nat]
    BY <1>0, <2>0
  <2>2. cut \in [Conns -> BOOLEAN]
    BY DEF ClientTypes
  <2>3. cut' \in [Conns -> BOOLEAN]
    BY <1>1, <2>2
  <2> QED
    BY <2>1, <2>3
<1>4. TypeInv'
  BY <1>1, <1>2, <1>3, OutsideServer DEF TypeInv, TypeOK
<1> QED
  BY <1>1, <1>3, <1>4

\* A read of replies.
LEMMA ReadServerKeeps ==
  ASSUME TypeInv, NEW c \in Conns, NEW k \in Returned(outbox[c]), ReadServer(c, k)
  PROVE  /\ TypeInv'
         /\ UNCHANGED << server, tables, lock, locals, inbox, peer_end, sends, told >>
         /\ outbox[c] # << >>
         /\ \A d \in Conns : outbox[d] = << >> => outbox'[d] = << >>
         /\ Head(outbox[c]) \in Replies
         /\ Entries(c, k) \in SUBSET Peers
         /\ merged \in [Conns -> BOOLEAN] => merged' \in [Conns -> BOOLEAN]
<1>0. outbox \in [Conns -> Seq(Replies)] /\ outbox[c] \in Seq(Replies)
  BY DEF TypeInv, TypeOK
<1>1. k \in 1 .. Len(outbox[c])
  BY DEF Returned
<1>2. outbox[c] # << >> /\ Head(outbox[c]) \in Replies
  BY <1>0, <1>1
<1>3. outbox' = [outbox EXCEPT ![c] = SubSeq(outbox[c], k + 1, Len(outbox[c]))]
  BY DEF ReadServer
<1>4. SubSeq(outbox[c], k + 1, Len(outbox[c])) \in Seq(Replies)
  BY <1>0, <1>1, SuffixType
<1>5. outbox' \in [Conns -> Seq(Replies)]
  BY <1>0, <1>3, <1>4
<1>6. TypeInv'
  BY <1>5, OutsideServer DEF ReadServer, TypeInv, TypeOK
<1>7. Entries(c, k) \in SUBSET Peers
  <2>1. SubSeq(outbox[c], 1, k) \in Seq(Replies)
    BY <1>0, <1>1, SubSeqProperties
  <2>2. \A n \in Range(SubSeq(outbox[c], 1, k)) : n \in Replies
    BY <2>1 DEF Range
  <2>3. \A n \in Replies : n.kind = "PEER_LIST" => n.peers \in SUBSET Peers
    BY DEF Replies
  <2> QED
    BY <2>2, <2>3 DEF Entries
<1> QED
  BY <1>0, <1>2, <1>3, <1>6, <1>7 DEF ReadServer

\* The end of a client's side of the connection.
LEMMA HangUpKeeps ==
  ASSUME TypeInv, NEW c \in Conns, HangUp(c)
  PROVE  /\ TypeInv'
         /\ UNCHANGED << server, tables, lock, locals, inbox, sends, told >>
         /\ \A d \in Conns \ {c} : outbox'[d] = outbox[d] /\ peer_end'[d] = peer_end[d]
         /\ IF sock[c] = "open" /\ pc[c] # "done"
            THEN peer_end'[c] \in {"closed", "reset"}
            ELSE UNCHANGED << outbox, peer_end >>
<1>0. /\ outbox \in [Conns -> Seq(Replies)]
      /\ peer_end \in [Conns -> {"idle", "open", "closed", "reset"}]
  BY DEF TypeInv, TypeOK
<1>1. /\ outbox' \in [Conns -> Seq(Replies)]
      /\ peer_end' \in [Conns -> {"idle", "open", "closed", "reset"}]
      /\ \A d \in Conns \ {c} : outbox'[d] = outbox[d] /\ peer_end'[d] = peer_end[d]
      /\ IF sock[c] = "open" /\ pc[c] # "done"
         THEN peer_end'[c] \in {"closed", "reset"}
         ELSE UNCHANGED << outbox, peer_end >>
  <2>1. CASE sock[c] = "open" /\ pc[c] # "done"
    <3>1. PICK e \in {"closed", "reset"} : peer_end' = [peer_end EXCEPT ![c] = e]
      BY <2>1 DEF HangUp
    <3>2. outbox' = [outbox EXCEPT ![c] = << >>]
      BY <2>1 DEF HangUp
    <3>3. << >> \in Seq(Replies)
      OBVIOUS
    <3>4. /\ outbox' \in [Conns -> Seq(Replies)]
          /\ \A d \in Conns \ {c} : outbox'[d] = outbox[d]
      BY <1>0, <3>2, <3>3
    <3>5. /\ peer_end' \in [Conns -> {"idle", "open", "closed", "reset"}]
          /\ \A d \in Conns \ {c} : peer_end'[d] = peer_end[d]
          /\ peer_end'[c] \in {"closed", "reset"}
      BY <1>0, <3>1
    <3> QED
      BY <2>1, <3>4, <3>5
  <2>2. CASE ~ (sock[c] = "open" /\ pc[c] # "done")
    BY <1>0, <2>2 DEF HangUp
  <2> QED
    BY <2>1, <2>2
<1>2. TypeInv'
  BY <1>1, OutsideServer DEF HangUp, TypeInv, TypeOK
<1> QED
  BY <1>1, <1>2 DEF HangUp

\* Whoever ends a process: nothing of it is left but the server's handler.
LEMMA ProcessEnds ==
  ASSUME NetInv, NEW c \in Conns, main[c] \notin {"off", "gone"}, EndProcess(c),
         UNCHANGED << shared, cut, dialed, calls, merged >>
  PROVE  NetInv'
<1> USE DEF NetInv
<1>1. /\ main' = [main EXCEPT ![c] = "gone"]
      /\ listener' = [listener EXCEPT ![c] = "ended"]
      /\ handler' = [handler EXCEPT ![c] = "none"]
      /\ ears' = [ears EXCEPT ![c] = "deaf"]
      /\ UNCHANGED << my_name, list, in_chat, sock, cut, dialed, calls, merged >>
      /\ HangUp(c)
  BY DEF EndProcess, MainGoes, HandlerGoes, shared
<1>2. /\ TypeInv' /\ pc' = pc
      /\ \A d \in Conns \ {c} : outbox'[d] = outbox[d] /\ peer_end'[d] = peer_end[d]
      /\ IF sock[c] = "open" /\ pc[c] # "done"
         THEN peer_end'[c] \in {"closed", "reset"}
         ELSE UNCHANGED << outbox, peer_end >>
  BY <1>1, HangUpKeeps DEF locals
<1>3. ClientTypes'
  BY <1>1 DEF ClientTypes, MainLabels, HandlerLabels
<1>4. Session(c)'
  <2>1. sock[c] = "open" \/ pc[c] = "done"
    BY DEF Session, ClientTypes
  <2> QED
    BY <1>1, <1>2, <2>1 DEF Session, ClientTypes
<1>5. \A d \in Conns \ {c} : Session(d)'
  BY <1>1, <1>2 DEF Session, ClientTypes
<1> QED
  BY <1>2, <1>3, <1>4, <1>5

-----------------------------------------------------------------------------
(* The invariant, step by step.                                            *)

\* A connection is opened, and served or not.
LEMMA ConnectKeeps ==
  ASSUME NetInv, NEW c \in Conns, Connect(c)
  PROVE  NetInv'
<1> USE DEF NetInv
<1>0. /\ pc \in [Conns -> Labels]
      /\ peer_end \in [Conns -> {"idle", "open", "closed", "reset"}]
  BY DEF TypeInv, TypeOK
<1>1. TypeInv'
  BY TypeStep DEF Connect, Next
<1>2. /\ main[c] = "off" /\ main' = [main EXCEPT ![c] = "ask"]
      /\ UNCHANGED << my_name, list, listener, handler, ears, in_chat, sock, cut, dialed, calls,
                      merged >>
  BY DEF Connect, MainGoes
<1>3. /\ outbox' = outbox
      /\ \/ /\ pc' = [pc EXCEPT ![c] = "track"]
            /\ peer_end' = [peer_end EXCEPT ![c] = "open"]
         \/ pc' = [pc EXCEPT ![c] = "done"] /\ peer_end' = peer_end
  BY DEF Connect, MainThread, Accept, AcceptFails, GoTo, socks
<1>4. ClientTypes'
  BY <1>2 DEF ClientTypes, MainLabels
<1>5. Session(c)'
  <2>1. (pc'[c] = "track" /\ peer_end'[c] = "open") \/ pc'[c] = "done"
    BY <1>0, <1>3
  <2> QED
    BY <1>2, <1>3, <2>1 DEF Session, ClientTypes
<1>6. \A d \in Conns \ {c} : Session(d)'
  <2>1. \A d \in Conns \ {c} :
          pc'[d] = pc[d] /\ peer_end'[d] = peer_end[d] /\ main'[d] = main[d]
    BY <1>0, <1>2, <1>3 DEF ClientTypes
  <2> QED
    BY <1>2, <1>3, <2>1 DEF Session
<1> QED
  BY <1>1, <1>4, <1>5, <1>6

\* A step of the server.
LEMMA ServeKeeps ==
  ASSUME NetInv, NEW e \in Conns, Serve(e)
  PROVE  NetInv'
<1> USE DEF NetInv
<1>1. TypeInv'
  BY TypeStep DEF Serve, Next
<1>2. UNCHANGED << main, listener, handler, ears, my_name, list, in_chat, sock, dialed, calls >>
  BY DEF Serve, threads, shared
<1>3. ClientTypes'
  <2>1. cut' \in [Conns -> BOOLEAN] /\ merged' \in [Conns -> BOOLEAN]
    BY DEF Serve, ClientTypes
  <2> QED
    BY <1>2, <2>1 DEF ClientTypes
<1>4. \A c \in Conns : Session(c)'
  BY <1>2, ServeSeen DEF Serve, Session
<1> QED
  BY <1>1, <1>3, <1>4

\* The names that appear in commands.
LEMMA CommandTypes ==
  /\ GetPeerList \in Commands
  /\ \A n \in Names : \A v \in {"REGISTER", "REMOVE", "PEER_DISCONNECTED"} :
       Command(v, n) \in Commands
  BY DEF GetPeerList, Command, Commands

\* What a client can send: it registers and removes itself under a name that
\* its user may enter.
ClientCommands(c) ==
  {GetPeerList}
    \cup {Command(v, n) : v \in {"REGISTER", "REMOVE"}, n \in MayName[c]}
    \cup {Command("PEER_DISCONNECTED", n) : n \in Names}

\* It is a command.
LEMMA ClientCommandTypes == \A c \in Conns : ClientCommands(c) \subseteq Commands
<1>1. \A c \in Conns : MayName[c] \subseteq Names
  BY NetConstants DEF NetConstants
<1> QED
  BY <1>1, CommandTypes DEF ClientCommands

\* Where a client writes, and what.
Writes(c, m) ==
  \/ main[c] = "ask" /\ \E n \in MayName[c] : m = Command("REGISTER", n)
  \/ main[c] \in DOMAIN AfterMainCommand /\ m = MainCommand(c)
  \/ handler[c] \in DOMAIN AfterHandlerCommand /\ m = HandlerCommand(c)
  \/ listener[c] = "notified" /\ m = GetPeerList

\* Each of its writes sends one of its commands, and it runs meanwhile.
LEMMA WritesCommand ==
  ASSUME NetInv, NEW c \in Conns, NEW m, Writes(c, m)
  PROVE  m \in ClientCommands(c) /\ main[c] \notin {"off", "gone"}
<1> USE DEF NetInv
<1>0. Session(c)
  OBVIOUS
<1>1. CASE main[c] = "ask" /\ \E n \in MayName[c] : m = Command("REGISTER", n)
  BY <1>1 DEF ClientCommands
<1>2. CASE main[c] \in DOMAIN AfterMainCommand /\ m = MainCommand(c)
  <2>1. main[c] \in {"start", "report", "refresh", "leave", "back", "exit"}
    BY <1>2 DEF AfterMainCommand
  <2>2. my_name[c] \in MayName[c] /\ (main[c] = "report" => dialed[c] \in Names)
    BY <1>0, <2>1 DEF Session
  <2>3. \/ m = GetPeerList
        \/ m \in {Command("REMOVE", my_name[c]), Command("REGISTER", my_name[c])}
        \/ main[c] = "report" /\ m = Command("PEER_DISCONNECTED", dialed[c])
    BY <1>2, <2>1 DEF MainCommand
  <2> QED
    BY <2>1, <2>2, <2>3 DEF ClientCommands
<1>3. CASE handler[c] \in DOMAIN AfterHandlerCommand /\ m = HandlerCommand(c)
  <2>1. handler[c] \in {"leave", "back", "refresh"}
    BY <1>3 DEF AfterHandlerCommand
  <2>2. my_name[c] \in MayName[c] /\ main[c] \notin {"off", "ask", "answer", "gone"}
    BY <1>0, <2>1 DEF Session
  <2>3. \/ m = GetPeerList
        \/ m \in {Command("REMOVE", my_name[c]), Command("REGISTER", my_name[c])}
    BY <1>3, <2>1 DEF HandlerCommand
  <2> QED
    BY <2>2, <2>3 DEF ClientCommands
<1>4. CASE listener[c] = "notified" /\ m = GetPeerList
  BY <1>0, <1>4 DEF ClientCommands, Session
<1> QED
  BY <1>1, <1>2, <1>3, <1>4 DEF Writes

\* What the writing steps of a client do besides the write.
Writing(c) ==
  \/ EnterName(c) \/ MainWrites(c) \/ HandlerWrites(c) \/ ListenerWrites(c)

\* A writing step writes one of the client's commands to the server.
LEMMA WritingWrites ==
  ASSUME NetInv, NEW c \in Conns, Writing(c)
  PROVE  \E m \in ClientCommands(c) : Writes(c, m) /\ WriteServer(c, m)
<1>1. \E m : Writes(c, m) /\ WriteServer(c, m)
  <2>1. CASE EnterName(c)
    BY <2>1 DEF EnterName, Writes
  <2>2. CASE MainWrites(c)
    BY <2>2 DEF MainWrites, Writes
  <2>3. CASE HandlerWrites(c)
    BY <2>3 DEF HandlerWrites, Writes
  <2>4. CASE ListenerWrites(c)
    BY <2>4 DEF ListenerWrites, Writes
  <2> QED
    BY <2>1, <2>2, <2>3, <2>4 DEF Writing
<1> QED
  BY <1>1, WritesCommand

\* A writing step keeps the invariant.
LEMMA WritingKeeps ==
  ASSUME NetInv, NEW c \in Conns, Writing(c)
  PROVE  NetInv'
<1> USE DEF NetInv
<1>1. PICK m \in ClientCommands(c) : Writes(c, m) /\ WriteServer(c, m)
  BY WritingWrites
<1>2. m \in Commands
  BY ClientCommandTypes
<1>3. /\ TypeInv' /\ UNCHANGED << pc, outbox, peer_end >>
      /\ cut' \in [Conns -> BOOLEAN]
  BY <1>1, <1>2, WriteServerKeeps DEF locals
<1>4. Session(c)
  OBVIOUS
<1>5. CASE EnterName(c)
  <2>1. PICK n \in MayName[c] : my_name' = [my_name EXCEPT ![c] = n]
    BY <1>5 DEF EnterName
  <2>2. n \in Names
    BY NetConstants DEF NetConstants
  <2>3. /\ main[c] = "ask" /\ main' = [main EXCEPT ![c] = "answer"]
        /\ UNCHANGED << list, listener, handler, ears, in_chat, sock, dialed, calls, merged >>
    BY <1>5 DEF EnterName, MainGoes
  <2>4. ClientTypes'
    BY <1>3, <2>1, <2>2, <2>3 DEF ClientTypes, MainLabels
  <2>5. \A d \in Conns : Session(d)'
    BY <1>3, <2>1, <2>3 DEF ClientTypes, Session
  <2> QED
    BY <1>3, <2>4, <2>5
<1>6. CASE MainWrites(c)
  <2>1. /\ main[c] \in {"start", "report", "refresh", "leave", "back", "exit"}
        /\ AfterMainCommand[main[c]] \in {"top", "refresh", "chat", "closing"}
    BY <1>6 DEF MainWrites, AfterMainCommand
  <2>2. /\ main' = [main EXCEPT ![c] = AfterMainCommand[main[c]]]
        /\ UNCHANGED << my_name, list, listener, handler, ears, sock, dialed, calls, merged >>
    BY <1>6 DEF MainWrites, MainGoes
  <2>3. in_chat' \in [Conns -> BOOLEAN]
    BY <1>6 DEF MainWrites, ClientTypes
  <2>4. ClientTypes'
    BY <1>3, <2>1, <2>2, <2>3 DEF ClientTypes, MainLabels
  <2>5. \A d \in Conns : Session(d)'
    BY <1>3, <2>1, <2>2 DEF ClientTypes, Session
  <2> QED
    BY <1>3, <2>4, <2>5
<1>7. CASE HandlerWrites(c)
  <2>1. /\ handler[c] \in {"leave", "back", "refresh"}
        /\ AfterHandlerCommand[handler[c]] \in {"chat", "refresh", "none"}
    BY <1>7 DEF HandlerWrites, AfterHandlerCommand
  <2>2. /\ handler' = [handler EXCEPT ![c] = AfterHandlerCommand[handler[c]]]
        /\ UNCHANGED << main, my_name, list, listener, ears, sock, dialed, calls, merged >>
    BY <1>7 DEF HandlerWrites, HandlerGoes
  <2>3. in_chat' \in [Conns -> BOOLEAN]
    BY <1>7 DEF HandlerWrites, ClientTypes
  <2>4. ClientTypes'
    BY <1>3, <2>1, <2>2, <2>3 DEF ClientTypes, HandlerLabels
  <2>5. \A d \in Conns : Session(d)'
    BY <1>3, <2>1, <2>2 DEF ClientTypes, Session
  <2> QED
    BY <1>3, <2>4, <2>5
<1>8. CASE ListenerWrites(c)
  <2>1. /\ listener[c] = "notified" /\ listener' = [listener EXCEPT ![c] = "run"]
        /\ UNCHANGED << main, handler, ears, my_name, list, in_chat, sock, dialed, calls, merged >>
    BY <1>8 DEF ListenerWrites, shared
  <2>2. ClientTypes'
    BY <1>3, <2>1 DEF ClientTypes
  <2>3. \A d \in Conns : Session(d)'
    BY <1>3, <2>1 DEF ClientTypes, Session
  <2> QED
    BY <1>3, <2>2, <2>3
<1> QED
  BY <1>5, <1>6, <1>7, <1>8 DEF Writing

\* A read of a reply, by main or by the listener.
LEMMA ReadingKeeps ==
  ASSUME NetInv, NEW c \in Conns, ReadAnswer(c) \/ Listen(c)
  PROVE  NetInv'
<1> USE DEF NetInv
<1>1. CASE ReadAnswer(c)
  <2>1. PICK k \in Returned(outbox[c]) :
          /\ ReadServer(c, k)
          /\ \/ /\ list' = [list EXCEPT ![c] = Entries(c, k)]
                /\ listener' = [listener EXCEPT ![c] = "run"]
                /\ MainGoes(c, "start")
             \/ /\ list' \in {list, [list EXCEPT ![c] = Entries(c, k)]}
                /\ MainGoes(c, "ask") \/ MainGoes(c, "closing")
                /\ UNCHANGED listener
    BY <1>1 DEF ReadAnswer
  <2>2. /\ TypeInv' /\ UNCHANGED << pc, peer_end >>
        /\ \A d \in Conns : outbox[d] = << >> => outbox'[d] = << >>
        /\ Entries(c, k) \in SUBSET Peers
        /\ merged' \in [Conns -> BOOLEAN]
    BY <2>1, ReadServerKeeps DEF locals, ClientTypes
  <2>3. /\ main[c] = "answer"
        /\ UNCHANGED << handler, ears, my_name, in_chat, sock, cut, dialed, calls >>
    BY <1>1 DEF ReadAnswer
  <2>4. CASE /\ list' = [list EXCEPT ![c] = Entries(c, k)]
             /\ listener' = [listener EXCEPT ![c] = "run"]
             /\ MainGoes(c, "start")
    <3>1. ClientTypes'
      BY <2>2, <2>3, <2>4 DEF ClientTypes, MainGoes, MainLabels
    <3>2. \A d \in Conns : Session(d)'
      BY <2>2, <2>3, <2>4 DEF ClientTypes, MainGoes, Session
    <3> QED
      BY <2>2, <3>1, <3>2
  <2>5. CASE /\ list' \in {list, [list EXCEPT ![c] = Entries(c, k)]}
             /\ MainGoes(c, "ask") \/ MainGoes(c, "closing")
             /\ UNCHANGED listener
    <3>0. list' \in [Conns -> SUBSET Peers]
      BY <2>2, <2>5 DEF ClientTypes
    <3>1. ClientTypes'
      BY <2>2, <2>3, <2>5, <3>0 DEF ClientTypes, MainGoes, MainLabels
    <3>2. \A d \in Conns : Session(d)'
      BY <2>2, <2>3, <2>5 DEF ClientTypes, MainGoes, Session
    <3> QED
      BY <2>2, <3>1, <3>2
  <2> QED
    BY <2>1, <2>4, <2>5
<1>2. CASE Listen(c)
  <2>1. PICK k \in Returned(outbox[c]) :
          /\ ReadServer(c, k)
          /\ listener' = [listener EXCEPT ![c] =
                            IF Head(outbox[c]).kind = "NEW_PEER" THEN "notified" ELSE @]
          /\ list' = [list EXCEPT ![c] =
                        IF Head(outbox[c]).kind = "PEER_LIST" THEN Entries(c, k) ELSE @]
    BY <1>2 DEF Listen
  <2>2. /\ TypeInv' /\ UNCHANGED << pc, peer_end >>
        /\ \A d \in Conns : outbox[d] = << >> => outbox'[d] = << >>
        /\ Entries(c, k) \in SUBSET Peers
        /\ merged' \in [Conns -> BOOLEAN]
    BY <2>1, ReadServerKeeps DEF locals, ClientTypes
  <2>3. /\ listener[c] = "run"
        /\ UNCHANGED << main, handler, ears, my_name, in_chat, sock, cut, dialed, calls >>
    BY <1>2 DEF Listen
  <2>4. /\ listener' \in [Conns -> {"none", "run", "notified", "ended"}]
        /\ \A d \in Conns \ {c} : listener'[d] = listener[d]
        /\ listener'[c] \in {"run", "notified"}
    <3>1. PICK l \in {"run", "notified"} : listener' = [listener EXCEPT ![c] = l]
      BY <2>1, <2>3
    <3> QED
      BY <3>1 DEF ClientTypes
  <2>5. list' \in [Conns -> SUBSET Peers]
    <3>1. PICK l \in SUBSET Peers : list' = [list EXCEPT ![c] = l]
      BY <2>1, <2>2 DEF ClientTypes
    <3> QED
      BY <3>1 DEF ClientTypes
  <2>6. ClientTypes'
    BY <2>2, <2>3, <2>4, <2>5 DEF ClientTypes
  <2>7. \A d \in Conns : Session(d)'
    BY <2>2, <2>3, <2>4 DEF Session
  <2> QED
    BY <2>2, <2>6, <2>7
<1> QED
  BY <1>1, <1>2

\* Steps of a client that do not touch its connection to the server.
AtTheMenu(c) ==
  \/ SeeMenu(c) \/ NoCall(c) \/ Exit(c) \/ ChatThreadEnds(c) \/ ChatEnds(c)
  \/ BindAndListen(c)
  \/ \E p \in Peers : CallFails(c, p) \/ CallAccepted(c, p)

\* They keep the invariant: a client that is called runs and is registered.
LEMMA MenuKeeps ==
  ASSUME NetInv, NEW c \in Conns, AtTheMenu(c)
  PROVE  NetInv' /\ UNCHANGED vars
<1> USE DEF NetInv
<1>0. UNCHANGED vars
  BY DEF AtTheMenu, SeeMenu, NoCall, Exit, ChatThreadEnds, ChatEnds, BindAndListen, CallFails, CallAccepted
<1>1. TypeInv' /\ UNCHANGED << pc, outbox, peer_end >>
  BY <1>0 DEF vars, tables, lock, locals, socks, TypeInv, TypeOK, Named
<1>2. ASSUME NEW l \in {"menu", "top", "exit"}, MainGoes(c, l), main[c] \in {"top", "menu"},
             UNCHANGED << listener, handler, ears, my_name, list, in_chat, sock, cut, dialed,
                          calls, merged >>
      PROVE  NetInv'
  <2>1. ClientTypes'
    BY <1>2 DEF ClientTypes, MainGoes, MainLabels
  <2>2. \A d \in Conns : Session(d)'
    BY <1>1, <1>2 DEF ClientTypes, MainGoes, Session
  <2> QED
    BY <1>1, <2>1, <2>2
<1>3. CASE SeeMenu(c)
  BY <1>2, <1>3 DEF SeeMenu, shared
<1>4. CASE NoCall(c)
  BY <1>2, <1>4 DEF NoCall, shared
<1>5. CASE Exit(c)
  BY <1>2, <1>5 DEF Exit, shared
<1>6. CASE ChatEnds(c)
  <2>1. /\ in_chat' = [in_chat EXCEPT ![c] = FALSE]
        /\ UNCHANGED << listener, ears, my_name, list, sock, cut, dialed, calls, merged >>
    BY <1>6 DEF ChatEnds
  <2>2. CASE main[c] = "chat" /\ (MainGoes(c, "back") \/ MainGoes(c, "top")) /\ UNCHANGED handler
    <3>1. ClientTypes'
      BY <2>1, <2>2 DEF ClientTypes, MainGoes, MainLabels
    <3>2. \A d \in Conns : Session(d)'
      BY <1>1, <2>1, <2>2 DEF ClientTypes, MainGoes, Session
    <3> QED
      BY <1>0, <1>1, <3>1, <3>2
  <2>3. CASE /\ handler[c] = "chat" /\ (HandlerGoes(c, "back") \/ HandlerGoes(c, "none"))
             /\ UNCHANGED main
    <3>1. ClientTypes'
      BY <2>1, <2>3 DEF ClientTypes, HandlerGoes, HandlerLabels
    <3>2. \A d \in Conns : Session(d)'
      BY <1>1, <2>1, <2>3 DEF ClientTypes, HandlerGoes, Session
    <3> QED
      BY <1>0, <1>1, <3>1, <3>2
  <2> QED
    BY <1>6, <2>2, <2>3 DEF ChatEnds
<1>7. CASE BindAndListen(c)
  <2>1. PICK e \in {"open", "failed"} : ears' = [ears EXCEPT ![c] = e]
    BY <1>7 DEF BindAndListen
  <2>4. /\ listener[c] # "none" /\ main[c] # "gone"
        /\ UNCHANGED << main, listener, handler, my_name, list, in_chat, sock, cut, dialed, calls,
                        merged >>
    BY <1>7 DEF BindAndListen, shared
  <2>5. main[c] \notin {"off", "ask", "answer", "gone"}
    BY <2>4 DEF Session
  <2>2. ClientTypes'
    BY <2>1, <2>4 DEF ClientTypes
  <2>3. \A d \in Conns : Session(d)'
    BY <1>1, <2>1, <2>4, <2>5 DEF ClientTypes, Session
  <2> QED
    BY <1>0, <1>1, <2>2, <2>3
<1>10. CASE ChatThreadEnds(c)
  <2>1. /\ in_chat' = [in_chat EXCEPT ![c] = FALSE]
        /\ UNCHANGED << main, handler, listener, ears, my_name, list, sock, cut, dialed, calls,
                        merged >>
    BY <1>10 DEF ChatThreadEnds, threads
  <2>2. ClientTypes'
    BY <2>1 DEF ClientTypes
  <2>3. \A d \in Conns : Session(d)'
    BY <1>1, <2>1 DEF Session
  <2> QED
    BY <1>0, <1>1, <2>2, <2>3
<1>8. ASSUME NEW p \in Peers, CallFails(c, p)
      PROVE  NetInv'
  <2>1. /\ main[c] = "menu" /\ main' = [main EXCEPT ![c] = "report"]
        /\ dialed' = [dialed EXCEPT ![c] = p.username]
        /\ calls' = [calls EXCEPT ![c] = calls[c] + 1]
        /\ UNCHANGED << listener, handler, ears, my_name, list, in_chat, sock, cut, merged >>
    BY <1>8 DEF CallFails, Dial, MainGoes, shared
  <2>2. p.username \in Names
    BY DEF Peers
  <2>3. calls' \in [Conns -> Nat]
    BY <2>1 DEF ClientTypes
  <2>4. ClientTypes'
    BY <2>1, <2>2, <2>3 DEF ClientTypes, MainLabels
  <2>5. \A d \in Conns : Session(d)'
    BY <1>1, <2>1, <2>2 DEF ClientTypes, Session
  <2> QED
    BY <1>1, <2>4, <2>5
<1>9. ASSUME NEW p \in Peers, CallAccepted(c, p)
      PROVE  NetInv'
  <2>0. p.addr \in Conns
    BY DEF Peers
  <2>1. /\ main[c] = "menu" /\ main' = [main EXCEPT ![c] = "leave"]
        /\ ears[p.addr] = "open" /\ handler' = [handler EXCEPT ![p.addr] = "leave"]
        /\ calls' = [calls EXCEPT ![c] = calls[c] + 1]
        /\ UNCHANGED << listener, ears, my_name, list, in_chat, sock, cut, dialed, merged >>
    BY <1>9 DEF CallAccepted, Dial, MainGoes, HandlerGoes, shared
  <2>2. calls' \in [Conns -> Nat]
    BY <2>1 DEF ClientTypes
  <2>3. ClientTypes'
    BY <2>0, <2>1, <2>2 DEF ClientTypes, MainLabels, HandlerLabels
  <2>4. main[p.addr] \notin {"off", "ask", "answer", "gone"}
    BY <2>0, <2>1 DEF Session
  <2>5. \A d \in Conns : Session(d)'
    BY <1>1, <2>0, <2>1, <2>4 DEF ClientTypes, Session
  <2> QED
    BY <1>1, <2>3, <2>5
<1> QED
  BY <1>0, <1>3, <1>4, <1>5, <1>6, <1>7, <1>8, <1>9, <1>10 DEF AtTheMenu

\* Nobody gets on the descriptor in the way of the listener that closes it.
LEMMA ListenerEndsKeeps ==
  ASSUME NetInv, NEW c \in Conns, ListenerEnds(c)
  PROVE  NetInv' /\ UNCHANGED vars
<1> USE DEF NetInv
<1>1. HangUp(c) /\ pc[c] = "done"
  BY DEF ListenerEnds, ServerHungUp
<1>2. TypeInv' /\ UNCHANGED vars
  BY <1>1, HangUpKeeps DEF vars, tables, lock, locals, socks
<1>3. /\ sock' = [sock EXCEPT ![c] = "closed"]
      /\ listener[c] = "run" /\ listener' = [listener EXCEPT ![c] = "ended"]
      /\ UNCHANGED << main, handler, ears, my_name, list, in_chat, cut, dialed, calls, merged >>
  BY DEF ListenerEnds
<1>4. UNCHANGED << pc, outbox, peer_end >>
  BY <1>2 DEF vars, locals, socks
<1>5. ClientTypes'
  BY <1>3 DEF ClientTypes
<1>6. \A d \in Conns : Session(d)'
  BY <1>1, <1>3, <1>4 DEF ClientTypes, Session
<1> QED
  BY <1>2, <1>5, <1>6

\* The ways in which a process ends.
Ending(c) == NoAnswer(c) \/ Leave(c) \/ Die(c)

\* Each of them ends a process that runs, and only that.
LEMMA EndingEnds ==
  ASSUME NEW c, Ending(c)
  PROVE  /\ main[c] \notin {"off", "gone"} /\ EndProcess(c)
         /\ UNCHANGED << shared, cut, dialed, calls, merged >>
  BY DEF Ending, NoAnswer, Leave, Die

\* The steps of a client, by what they do to its connection.
LEMMA NetSteps ==
  ASSUME NetNext
  PROVE  \/ \E c \in Conns :
              \/ Connect(c) \/ Serve(c) \/ Writing(c) \/ ReadAnswer(c) \/ Listen(c)
              \/ AtTheMenu(c) \/ ListenerEnds(c) \/ Ending(c)
         \/ UNCHANGED net_vars
  BY DEF NetNext, MainActs, UserActs, ListenerActs, NetFinished, Writing, AtTheMenu, Ending

\* Every step keeps the invariant.
LEMMA NetStep == NetInv /\ [NetNext]_net_vars => NetInv'
<1> SUFFICES ASSUME NetInv, [NetNext]_net_vars PROVE NetInv'
  OBVIOUS
<1>1. ASSUME NEW c \in Conns, Ending(c) PROVE NetInv'
  BY <1>1, EndingEnds, ProcessEnds
<1>2. CASE UNCHANGED net_vars
  <2>1. UNCHANGED << pc, outbox, peer_end >> /\ TypeInv'
    BY <1>2 DEF net_vars, vars, tables, lock, locals, socks, NetInv, TypeInv, TypeOK, Named
  <2>2. UNCHANGED << main, listener, handler, ears, my_name, list, in_chat, sock, cut, dialed,
                     calls, merged >>
    BY <1>2 DEF net_vars, client_vars, threads, shared
  <2> QED
    BY <2>1, <2>2 DEF NetInv, ClientTypes, Session
<1> QED
  BY <1>1, <1>2, NetSteps, ConnectKeeps, ServeKeeps, WritingKeeps, ReadingKeeps, MenuKeeps,
     ListenerEndsKeeps

\* The clients start without a connection.
LEMMA NetStart == NetInit => NetInv
<1> SUFFICES ASSUME NetInit PROVE NetInv
  OBVIOUS
<1>1. TypeInv
  BY DEF NetInit, Init, TypeInv, TypeOK, Named, Labels, EmptyRegistry, Replies, Invalid
<1>2. ClientTypes
  BY DEF NetInit, ClientTypes, MainLabels, HandlerLabels
<1>3. \A c \in Conns : Session(c)
  BY DEF NetInit, Init, Session
<1> QED
  BY <1>1, <1>2, <1>3 DEF NetInv

\* The server's variables and those of every client stay what they are declared
\* to be: what clients write to the server are commands, and what a client takes
\* for its list of peers are entries, however messages are torn or merged.
THEOREM NetTypeCorrect == NetSpec => []NetTypeOK
<1>1. NetInv => NetTypeOK
  BY DEF NetInv, TypeInv, ClientTypes, NetTypeOK
<1> QED
  BY <1>1, NetStart, NetStep, PTL DEF NetSpec

-----------------------------------------------------------------------------
(* The clients of this program among those that RoutingServer allows for.  *)

\* MaySend allows for every command of the client program.
MaySendAll == \A c \in Conns : ClientCommands(c) \subseteq MaySend[c]

\* The bound that RoutingServer puts on the commands of a client, and this
\* module does not, is not reached.
BelowBound == \A c \in Conns : sends[c] < MaxSends[c]

\* A write, read or close of a client is a step of a client of RoutingServer.
LEMMA ClientIsAllowed ==
  ASSUME NetInv, MaySendAll, BelowBound, Readers = Conns, Leavers = Conns,
         server = "up", NEW c \in Conns,
         \/ \E m \in ClientCommands(c) : WriteServer(c, m) /\ main[c] \notin {"off", "gone"}
         \/ main[c] \notin {"off", "gone"} /\ \E k \in Returned(outbox[c]) : ReadServer(c, k)
         \/ main[c] \notin {"off", "gone"} /\ HangUp(c)
  PROVE  [Next]_vars
<1> USE DEF NetInv
<1>1. Session(c) /\ main[c] \notin {"off", "gone"}
  OBVIOUS
<1>2. ASSUME NEW m \in ClientCommands(c), WriteServer(c, m)
      PROVE  ClientSend(c) \/ UNCHANGED vars
  <2>1. m \in MaySend[c]
    BY DEF MaySendAll
  <2>2. CASE /\ sock[c] = "open" /\ pc[c] # "done"
             /\ inbox' = [inbox EXCEPT ![c] = Append(@, m)]
             /\ sends' = [sends EXCEPT ![c] = @ + 1]
    <3>1. peer_end[c] = "open" /\ sends[c] < MaxSends[c]
      BY <1>1, <2>2 DEF Session, BelowBound
    <3> QED
      BY <1>2, <2>1, <2>2, <3>1 DEF WriteServer, ClientSend
  <2>3. CASE UNCHANGED << inbox, sends >>
    BY <1>2, <2>3 DEF WriteServer, vars, tables, lock, locals, socks
  <2> QED
    BY <1>2, <2>2, <2>3 DEF WriteServer
<1>3. ASSUME NEW k \in Returned(outbox[c]), ReadServer(c, k)
      PROVE  ClientRead(c)
  <2>1. peer_end[c] = "open"
    BY <1>1, <1>3, ReadServerKeeps DEF Session
  <2> QED
    BY <1>3, <2>1 DEF ReadServer, ClientRead
<1>4. ASSUME HangUp(c)
      PROVE  ClientClose(c) \/ UNCHANGED vars
  <2>1. CASE sock[c] = "open" /\ pc[c] # "done"
    BY <1>1, <1>4, <2>1 DEF Session, HangUp, ClientClose
  <2>2. CASE ~ (sock[c] = "open" /\ pc[c] # "done")
    BY <1>4, <2>2 DEF HangUp, vars, tables, lock, locals, socks
  <2> QED
    BY <2>1, <2>2
<1> QED
  BY <1>2, <1>3, <1>4 DEF Next, Client

\* Every step of the network is a step of RoutingServer, or none.
LEMMA NetIsServer ==
  ASSUME NetInv, MaySendAll, BelowBound, Readers = Conns, Leavers = Conns,
         [NetNext]_net_vars
  PROVE  [Next]_vars
<1>1. CASE UNCHANGED net_vars
  BY <1>1 DEF net_vars
<1>2. CASE NetFinished
  BY <1>2 DEF NetFinished, net_vars
<1>3. ASSUME server = "up", NEW c \in Conns,
             \/ Connect(c) \/ Serve(c) \/ Writing(c) \/ ReadAnswer(c) \/ Listen(c)
             \/ AtTheMenu(c) \/ ListenerEnds(c) \/ Ending(c)
      PROVE  [Next]_vars
  <2>1. CASE Connect(c) \/ Serve(c)
    BY <2>1 DEF Connect, Serve, Next
  <2>2. CASE Writing(c)
    <3>1. \E m \in ClientCommands(c) : WriteServer(c, m) /\ main[c] \notin {"off", "gone"}
      BY <2>2, WritingWrites, WritesCommand
    <3> QED
      BY <1>3, <3>1, ClientIsAllowed
  <2>3. CASE ReadAnswer(c) \/ Listen(c)
    <3>1. main[c] \notin {"off", "gone"}
      BY <2>3 DEF ReadAnswer, Listen, NetInv, Session
    <3>2. \E k \in Returned(outbox[c]) : ReadServer(c, k)
      BY <2>3 DEF ReadAnswer, Listen
    <3> QED
      BY <1>3, <3>1, <3>2, ClientIsAllowed
  <2>4. CASE AtTheMenu(c) \/ ListenerEnds(c)
    BY <2>4, MenuKeeps, ListenerEndsKeeps
  <2>5. CASE Ending(c)
    <3>1. main[c] \notin {"off", "gone"} /\ HangUp(c)
      BY <2>5, EndingEnds DEF EndProcess
    <3> QED
      BY <1>3, <3>1, ClientIsAllowed
  <2> QED
    BY <1>3, <2>1, <2>2, <2>3, <2>4, <2>5
<1>4. CASE NetNext
  BY <1>2, <1>3, <1>4 DEF NetNext, MainActs, UserActs, ListenerActs, Writing, AtTheMenu, Ending
<1> QED
  BY <1>1, <1>4

\* The clients do nothing to the server that RoutingServer does not allow for: as
\* long as none of them has sent as much as RoutingServer lets it send, every
\* step is one of RoutingServer's, so that what is proved of Spec holds here.
THEOREM ServerSeesClients ==
  ASSUME MaySendAll, Readers = Conns, Leavers = Conns
  PROVE  NetSpec /\ []BelowBound => Spec /\ ServerView
<1>1. NetInit => Init
  BY DEF NetInit
<1>2. NetInv /\ BelowBound /\ [NetNext]_net_vars => [Next]_vars
  BY NetIsServer
<1> QED
  BY <1>1, <1>2, NetStart, NetStep, PTL DEF NetSpec, Spec, ServerView

-----------------------------------------------------------------------------
(* Who is listed.                                                          *)

\* What a step of a client leaves alone, and the one thing that it may add.
ClientSide ==
  /\ UNCHANGED << server, tables, lock, locals, told >>
  /\ \/ UNCHANGED inbox
     \/ \E c \in Conns : \E m \in ClientCommands(c) :
          inbox' = [inbox EXCEPT ![c] = Append(@, m)]

\* A step is one of the server's, or one of a client.
LEMMA TwoKinds ==
  ASSUME NetInv, [NetNext]_net_vars
  PROVE  ClientSide \/ \E c \in Conns : Connect(c) \/ Serve(c)
<1>1. ASSUME NEW c \in Conns, Writing(c) PROVE ClientSide
  <2>1. PICK m \in ClientCommands(c) : WriteServer(c, m)
    BY <1>1, WritingWrites
  <2>2. m \in Commands
    BY ClientCommandTypes
  <2>3. /\ UNCHANGED << server, tables, lock, locals, told >>
        /\ inbox' \in {inbox, [inbox EXCEPT ![c] = Append(@, m)]}
    BY <2>1, <2>2, WriteServerKeeps DEF NetInv
  <2> QED
    BY <2>3 DEF ClientSide
<1>2. ASSUME NEW c \in Conns, ReadAnswer(c) \/ Listen(c) PROVE ClientSide
  BY <1>2 DEF ReadAnswer, Listen, ReadServer, ClientSide
<1>3. ASSUME NEW c \in Conns, AtTheMenu(c) \/ ListenerEnds(c) PROVE ClientSide
  BY <1>3, MenuKeeps, ListenerEndsKeeps DEF vars, socks, ClientSide
<1>4. ASSUME NEW c \in Conns, Ending(c) PROVE ClientSide
  BY <1>4, EndingEnds DEF EndProcess, HangUp, ClientSide
<1>5. CASE UNCHANGED net_vars
  BY <1>5 DEF net_vars, vars, socks, ClientSide
<1> QED
  BY <1>1, <1>2, <1>3, <1>4, <1>5, NetSteps

\* Every client registers and removes its own name, so the server's directory
\* is as DirectoryProofs has it.
LEMMA DirectoryInNet ==
  ASSUME NetInv, TableInv, MaySendAll,
         NEW own \in [Conns -> Names], OwnNames(own), OwnInv(own), [NetNext]_net_vars
  PROVE  TableInv' /\ OwnInv(own)'
<1>1. CASE \E c \in Conns : Connect(c) \/ Serve(c)
  <2>1. [Next]_vars
    BY <1>1 DEF Connect, Serve, Next
  <2> QED
    BY <2>1, TableStep, DirectoryStep DEF NetInv, TableInv
<1>2. CASE ClientSide
  <2>1. UNCHANGED << client_sockets, peer_list, pc, request, username >>
    BY <1>2 DEF ClientSide, tables, locals
  <2>2. TableInv'
    BY <2>1 DEF TableInv, ClientTableSound, RemoveInBuffer, Tracked
  <2>3. NoGhostEntries'
    BY <2>1 DEF OwnInv, NoGhostEntries, Joined
  <2>4. \A c \in Conns : inbox'[c] \in Seq(MaySend[c])
    <3>1. CASE UNCHANGED inbox
      BY <3>1 DEF OwnInv
    <3>2. ASSUME NEW c \in Conns, NEW m \in ClientCommands(c),
                 inbox' = [inbox EXCEPT ![c] = Append(@, m)]
          PROVE  \A d \in Conns : inbox'[d] \in Seq(MaySend[d])
      <4>1. inbox \in [Conns -> Seq(Commands)]
        BY DEF NetInv, TypeInv, TypeOK
      <4>2. m \in MaySend[c] /\ inbox[c] \in Seq(MaySend[c])
        BY DEF MaySendAll, OwnInv
      <4>3. Append(inbox[c], m) \in Seq(MaySend[c])
        BY <4>2, AppendProperties
      <4> QED
        BY <3>2, <4>1, <4>3 DEF OwnInv
    <3> QED
      BY <1>2, <3>1, <3>2 DEF ClientSide
  <2>5. OwnInv(own)'
    BY <2>1, <2>3, <2>4 DEF OwnInv
  <2> QED
    BY <2>2, <2>5
<1> QED
  BY <1>1, <1>2, TwoKinds

\* NetInv and the directory's invariant, from the start.
LEMMA NetOwnInvariant ==
  ASSUME MaySendAll, NEW own \in [Conns -> Names], OwnNames(own)
  PROVE  NetSpec => [](NetInv /\ TableInv /\ OwnInv(own))
<1>1. NetInit => NetInv /\ TableInv /\ OwnInv(own)
  <2> SUFFICES ASSUME NetInit PROVE NetInv /\ TableInv /\ OwnInv(own)
    OBVIOUS
  <2>1. TableInv
    BY DEF NetInit, Init, TableInv, ClientTableSound, RemoveInBuffer, Tracked, Range
  <2>2. OwnInv(own)
    BY DEF NetInit, Init, OwnInv, NoGhostEntries, EmptyRegistry, Range
  <2> QED
    BY <2>1, <2>2, NetStart
<1>2. NetInv /\ TableInv /\ OwnInv(own) /\ [NetNext]_net_vars
        => (NetInv /\ TableInv /\ OwnInv(own))'
  BY NetStep, DirectoryInNet
<1> QED
  BY <1>1, <1>2, PTL DEF NetSpec

\* A client that has ended, by the menu or by its death, with or without
\* REMOVE, is not listed once the server has dealt with everything: for any
\* number of clients, of which no two use one name.
THEOREM GoneUnlisted ==
  ASSUME DisjointNames, MaySendAll
  PROVE  NetSpec => []GoneIsUnlisted
<1>1. PICK own \in [Conns -> Names] : OwnNames(own)
  BY DEF DisjointNames, OwnNames
<1>2. NetInv /\ TableInv /\ OwnInv(own) => GoneIsUnlisted
  <2> SUFFICES ASSUME NetInv, OwnInv(own), Quiet, NEW p \in Range(peer_list),
                      main[p.addr] = "gone"
               PROVE  FALSE
    BY DEF GoneIsUnlisted
  <2>1. p.addr \in Conns /\ Joined(p.addr)
    BY <1>1, OwnEntries DEF NetInv
  <2>2. pc[p.addr] \in {"reg_read", "main_read"} /\ inbox[p.addr] = << >> /\ ~ AtEnd(p.addr)
    BY <2>1 DEF Quiet, ServerRests, Joined
  <2>3. Session(p.addr)
    BY <2>1 DEF NetInv
  <2> QED
    BY <2>2, <2>3 DEF Session, AtEnd
<1>3. NetSpec => [](NetInv /\ TableInv /\ OwnInv(own))
  BY <1>1, NetOwnInvariant
<1> QED
  BY <1>2, <1>3, PTL

-----------------------------------------------------------------------------
(* Who chats.                                                              *)

\* The handlers whose client has had the answer to its registration.
Registered(c) ==
  pc[c] \notin {"none", "track", "reg_read", "check", "add_peer", "reg_list", "reg_reply",
                "list_reply", "reg_sock"}

\* The handlers that have dealt with REMOVE or need not deal with it any more.
AfterRemove == {"rm_self", "rm_sock", "final_rm", "final_sock", "close", "done"}

\* REMOVE is dealt with or on its way.
SaidRemove(c) ==
  pc[c] \in AfterRemove \/ \E i \in 1 .. Len(inbox[c]) : inbox[c][i].verb = "REMOVE"

\* The client acts on the answer to its registration.
AtHome == {"start", "top", "menu", "report", "refresh", "leave", "chat", "back", "exit"}

\* A list of peers is on its way to registered clients only.
ListInv ==
  \A c \in Conns :
    /\ pc[c] = "reg_reply" => reply[c].kind # "PEER_LIST"
    /\ \A i \in 1 .. Len(outbox[c]) : outbox[c][i].kind = "PEER_LIST" => Registered(c)

\* So a client has a menu and callers only when its handler serves it; and a
\* client that chats has said REMOVE before, and it has not been overlooked in a
\* read() that returned more than one command.
ChatInv ==
  \A c \in Conns :
    /\ main[c] \in AtHome \/ handler[c] # "none" => Registered(c)
    /\ Chats(c) /\ ~ merged[c] => SaidRemove(c)

\* The handler of e reads at most one command in this step.
OneRead(e) == pc[e] # "close" => Len(inbox[e]) <= Len(inbox'[e]) + 1

\* As long as merged is FALSE, nothing has been read behind something else.
LEMMA NotMerged ==
  ASSUME NetInv, [NetNext]_net_vars, NEW c \in Conns, ~ merged'[c]
  PROVE  ~ merged[c] /\ (Serve(c) => OneRead(c))
<1>0. merged \in [Conns -> BOOLEAN]
  BY DEF NetInv, ClientTypes
<1>00. NetInv'
  BY NetStep
<1>1. ASSUME NEW e \in Conns, Connect(e) \/ Writing(e) PROVE merged' = merged
  BY <1>1 DEF Connect, Writing, EnterName, MainWrites, HandlerWrites, ListenerWrites
<1>2. ASSUME NEW e \in Conns, Serve(e) PROVE ~ merged[c] /\ (c = e => OneRead(c))
  <2> DEFINE Second == pc[e] # "close" /\ Len(inbox[e]) > Len(inbox'[e]) + 1
  <2>1. merged' = [merged EXCEPT ![e] = @ \/ Second]
    BY <1>2 DEF Serve
  <2>2. c # e => merged'[c] = merged[c]
    BY <1>0, <2>1
  <2>3. c = e => merged'[c] = (merged[c] \/ Second)
    BY <1>0, <2>1, Zenon
  <2>4. ~ Second => OneRead(e)
    <3>1. Len(inbox[e]) \in Nat /\ Len(inbox'[e]) \in Nat
      BY <1>00, LenProperties DEF NetInv, TypeInv, TypeOK
    <3> QED
      BY <3>1 DEF OneRead
  <2> QED
    BY <2>2, <2>3, <2>4
<1>3. ASSUME NEW e \in Conns, ReadAnswer(e) \/ Listen(e) PROVE ~ merged[c]
  BY <1>0, <1>3 DEF ReadAnswer, Listen, ReadServer
<1>4. ASSUME NEW e \in Conns, AtTheMenu(e) PROVE merged' = merged
  BY <1>4 DEF AtTheMenu, SeeMenu, NoCall, Exit, ChatThreadEnds, ChatEnds, BindAndListen,
              CallFails, CallAccepted
<1>5. ASSUME NEW e \in Conns, ListenerEnds(e) \/ Ending(e) PROVE merged' = merged
  BY <1>5, EndingEnds DEF ListenerEnds
<1>6. ASSUME UNCHANGED net_vars PROVE merged' = merged
  BY <1>6 DEF net_vars, client_vars
<1>7. ~ merged[c]
  BY <1>1, <1>2, <1>3, <1>4, <1>5, <1>6, NetSteps
<1> QED
  BY <1>2, <1>7

\* A read() that returns one command takes it off the inbox.
LEMMA ReadOne ==
  ASSUME TypeInv, NEW e \in Conns, ReadCommand(e), pc[e] # "close", OneRead(e)
  PROVE  /\ Len(inbox[e]) \in Nat \ {0} /\ request'[e] = inbox[e][1]
         /\ Len(inbox'[e]) = Len(inbox[e]) - 1
         /\ \A i \in 1 .. Len(inbox[e]) - 1 : inbox'[e][i] = inbox[e][i + 1]
<1>0. inbox[e] \in Seq(Commands) /\ inbox \in [Conns -> Seq(Commands)]
  BY DEF TypeInv, TypeOK
<1>1. PICK k \in Returned(inbox[e]) :
        /\ request' = [request EXCEPT ![e] = Head(inbox[e])]
        /\ inbox' = [inbox EXCEPT ![e] = SubSeq(@, k + 1, Len(@))]
  BY DEF ReadCommand
<1>2. k \in 1 .. Len(inbox[e]) /\ Len(inbox[e]) \in Nat \ {0}
  BY <1>0 DEF Returned
<1>3. inbox'[e] = SubSeq(inbox[e], k + 1, Len(inbox[e]))
  BY <1>0, <1>1
<1>4. Len(inbox'[e]) = Len(inbox[e]) - k
  <2>1. \A i \in k + 1 .. Len(inbox[e]) : inbox[e][i] \in Commands
    BY <1>0, <1>2
  <2>2. Len(inbox'[e]) = IF k + 1 <= Len(inbox[e]) THEN Len(inbox[e]) - (k + 1) + 1 ELSE 0
    BY <1>0, <1>2, <1>3, <2>1, SubSeqProperties
  <2> QED
    BY <1>2, <2>2
<1>5. k = 1
  BY <1>2, <1>4 DEF OneRead
<1>6. inbox'[e] = Tail(inbox[e]) /\ request'[e] = inbox[e][1]
  BY <1>0, <1>1, <1>2, <1>3, <1>5 DEF TypeInv, TypeOK
<1> QED
  BY <1>0, <1>2, <1>6

\* A handler goes on serving a registered client until it removes it, and it
\* overlooks no REMOVE when a read() returns one command.
LEMMA ServeRemembers ==
  ASSUME TypeInv, NEW e \in Conns, Handler(e)
  PROVE  \A c \in Conns : Registered(c) =>
           /\ Registered(c)'
           /\ SaidRemove(c) /\ (c = e => OneRead(e)) => SaidRemove(c)'
<1> DEFINE Goal == \A c \in Conns : Registered(c) =>
                     /\ Registered(c)'
                     /\ SaidRemove(c) /\ (c = e => OneRead(e)) => SaidRemove(c)'
<1>0. /\ pc \in [Conns -> Labels] /\ inbox \in [Conns -> Seq(Commands)]
  BY DEF TypeInv, TypeOK
<1>1. ASSUME NEW l \in Labels, pc' = [pc EXCEPT ![e] = l],
             Registered(e) =>
               /\ l \notin {"none", "track", "reg_read", "check", "add_peer", "reg_list",
                            "reg_reply", "list_reply", "reg_sock"}
               /\ pc[e] \in AfterRemove => l \in AfterRemove,
             UNCHANGED inbox
      PROVE  Goal
  <2>1. pc'[e] = l /\ \A c \in Conns \ {e} : pc'[c] = pc[c]
    BY <1>0, <1>1
  <2> QED
    BY <1>1, <2>1 DEF Registered, SaidRemove
<1>2. CASE UNCHANGED << pc, inbox >>
  BY <1>2 DEF Registered, SaidRemove
<1>3. CASE Track(e)
  <2>1. CASE GoTo(e, "reg_read")
    BY <1>1, <1>3, <2>1 DEF Track, GoTo, socks, Labels, Registered
  <2>2. CASE UNCHANGED << client_sockets, pc >>
    BY <1>2, <1>3, <2>2 DEF Track, socks
  <2> QED
    BY <1>3, <2>1, <2>2 DEF Track
<1>4. CASE RegRead(e)
  <2>1. /\ pc[e] = "reg_read"
        /\ \A c \in Conns \ {e} : pc'[c] = pc[c] /\ inbox'[c] = inbox[c]
    BY <1>0, <1>4 DEF RegRead, GoTo, ReadCommand
  <2> QED
    BY <2>1 DEF Registered, SaidRemove
<1>5. CASE RegEnd(e)
  BY <1>1, <1>5 DEF RegEnd, GoTo, socks, Labels, Registered
<1>6. CASE CheckName(e)
  BY <1>1, <1>6 DEF CheckName, GoTo, socks, Labels, Registered
<1>7. CASE Enter(e)
  BY <1>1, <1>7 DEF Enter, GoTo, socks, Labels, Registered
<1>8. CASE MakeList(e)
  BY <1>1, <1>8 DEF MakeList, GoTo, socks, Labels, Registered, AfterRemove
<1>9. CASE Answer(e)
  <2>1. /\ pc' = [pc EXCEPT ![e] = AfterReply[pc[e]]] /\ inbox' = inbox
    BY <1>9 DEF Answer, GoTo, WriteTo
  <2>2. \/ pc[e] \in {"reg_reply", "list_reply"} /\ AfterReply[pc[e]] \in Labels
        \/ pc[e] = "main_reply" /\ AfterReply[pc[e]] = "main_read"
    BY <1>9 DEF Answer, AfterReply, Labels
  <2> QED
    BY <1>1, <2>1, <2>2 DEF Labels, Registered, AfterRemove
<1>10. CASE BroadcastBegin(e)
  BY <1>1, <1>10 DEF BroadcastBegin, GoTo, socks, Labels, AfterRemove
<1>11. CASE BroadcastNext(e)
  BY <1>2, <1>11 DEF BroadcastNext, WriteTo, socks, locals
<1>12. CASE BroadcastEnd(e)
  BY <1>1, <1>12 DEF BroadcastEnd, GoTo, socks, Labels, AfterRemove
<1>13. CASE MainRead(e)
  <2>1. ReadCommand(e) /\ pc[e] = "main_read"
    BY <1>13 DEF MainRead
  <2>2. \A c \in Conns \ {e} : inbox'[c] = inbox[c]
    BY <1>0, <2>1 DEF ReadCommand
  <2>3. PICK l \in {"main_list", "rm_self", "rm_other", "main_reply"} :
          /\ pc' = [pc EXCEPT ![e] = l]
          /\ request'[e].verb = "REMOVE" => l = "rm_self"
    BY <1>13 DEF MainRead, GoTo
  <2>4. pc'[e] = l /\ \A c \in Conns \ {e} : pc'[c] = pc[c]
    BY <1>0, <2>3
  <2>5. SaidRemove(e) /\ OneRead(e) => SaidRemove(e)'
    <3>1. SUFFICES ASSUME OneRead(e), NEW i \in 1 .. Len(inbox[e]), inbox[e][i].verb = "REMOVE"
                   PROVE  SaidRemove(e)'
      BY <2>1 DEF SaidRemove, AfterRemove
    <3>2. /\ Len(inbox[e]) \in Nat \ {0} /\ request'[e] = inbox[e][1]
          /\ Len(inbox'[e]) = Len(inbox[e]) - 1
          /\ \A j \in 1 .. Len(inbox[e]) - 1 : inbox'[e][j] = inbox[e][j + 1]
      BY <2>1, <3>1, ReadOne
    <3>3. CASE i = 1
      BY <2>3, <2>4, <3>1, <3>2, <3>3 DEF SaidRemove, AfterRemove
    <3>4. CASE i # 1
      <4>1. i - 1 \in 1 .. Len(inbox[e]) - 1 /\ i - 1 + 1 = i
        BY <3>2, <3>4
      <4>2. inbox'[e][i - 1].verb = "REMOVE" /\ i - 1 \in 1 .. Len(inbox'[e])
        BY <3>1, <3>2, <4>1
      <4> QED
        BY <4>2 DEF SaidRemove
    <3> QED
      BY <3>3, <3>4
  <2>6. \A c \in Conns \ {e} : Registered(c)' = Registered(c) /\ SaidRemove(c)' = SaidRemove(c)
    BY <2>2, <2>4 DEF Registered, SaidRemove
  <2> QED
    BY <2>3, <2>4, <2>5, <2>6 DEF Registered
<1>14. CASE MainEnd(e)
  BY <1>1, <1>14 DEF MainEnd, GoTo, socks, Labels, AfterRemove
<1>15. CASE RemoveSelf(e)
  BY <1>1, <1>15 DEF RemoveSelf, GoTo, socks, Labels, AfterRemove
<1>16. CASE RemoveOther(e)
  BY <1>1, <1>16 DEF RemoveOther, GoTo, socks, Labels, AfterRemove
<1>17. CASE FinalRemove(e)
  BY <1>1, <1>17 DEF FinalRemove, GoTo, socks, Labels, AfterRemove
<1>18. CASE Untrack(e)
  <2>1. AfterUntrack[pc[e]] \in {"close", "final_rm"} /\ inbox' = inbox
        /\ pc' = [pc EXCEPT ![e] = AfterUntrack[pc[e]]]
    BY <1>18 DEF Untrack, AfterUntrack, GoTo, socks
  <2> QED
    BY <1>1, <2>1 DEF Labels, AfterRemove
<1>19. CASE Close(e)
  <2>1. /\ pc'[e] = "done"
        /\ \A c \in Conns \ {e} : pc'[c] = pc[c] /\ inbox'[c] = inbox[c]
    BY <1>0, <1>19 DEF Close, GoTo
  <2> QED
    BY <2>1 DEF Registered, SaidRemove, AfterRemove
<1> QED
  BY <1>3, <1>4, <1>5, <1>6, <1>7, <1>8, <1>9, <1>10, <1>11, <1>12, <1>13, <1>14, <1>15,
     <1>16, <1>17, <1>18, <1>19 DEF Handler

\* The answer to a REGISTER that fails is no list.
LEMMA ServeAnswers ==
  ASSUME TypeInv, NEW e \in Conns, Handler(e), ListInv
  PROVE  ListInv'
<1>0. /\ pc \in [Conns -> Labels] /\ reply \in [Conns -> Replies]
      /\ outbox \in [Conns -> Seq(Replies)]
      /\ client_sockets \in Seq(Conns) /\ cursor \in Nat \ {0}
  BY DEF TypeInv, TypeOK
<1>1. \A c \in Conns : Registered(c) => Registered(c)'
  BY ServeRemembers
<1>2. ASSUME UNCHANGED outbox,
             \A c \in Conns : pc'[c] = "reg_reply" =>
               reply'[c] \in {Taken, Invalid} \/ (pc[c] = "reg_reply" /\ reply'[c] = reply[c])
      PROVE  ListInv'
  BY <1>1, <1>2 DEF ListInv, Taken, Invalid
<1>3. ASSUME NEW l \in Labels \ {"reg_reply"}, pc' = [pc EXCEPT ![e] = l],
             \A c \in Conns \ {e} : reply'[c] = reply[c], UNCHANGED outbox
      PROVE  ListInv'
  BY <1>0, <1>2, <1>3
<1>4. ASSUME NEW d \in Conns, NEW m \in Replies, WriteTo(d, m),
             m.kind = "PEER_LIST" => Registered(d)'
      PROVE  \A c \in Conns : \A i \in 1 .. Len(outbox'[c]) :
               outbox'[c][i].kind = "PEER_LIST" => Registered(c)'
  <2>1. CASE UNCHANGED outbox
    BY <1>1, <2>1 DEF ListInv
  <2>2. CASE outbox' = [outbox EXCEPT ![d] = Append(outbox[d], m)]
    <3>1. outbox'[d] = Append(outbox[d], m) /\ outbox[d] \in Seq(Replies)
      BY <1>0, <2>2
    <3>2. \A i \in 1 .. Len(outbox'[d]) :
            (i \in 1 .. Len(outbox[d]) /\ outbox'[d][i] = outbox[d][i]) \/ outbox'[d][i] = m
      BY <3>1
    <3>3. \A c \in Conns \ {d} : outbox'[c] = outbox[c]
      BY <1>0, <2>2
    <3> QED
      BY <1>1, <1>4, <3>2, <3>3 DEF ListInv
  <2> QED
    BY <1>4, <2>1, <2>2 DEF WriteTo
<1>5. CASE Track(e)
  BY <1>0, <1>2, <1>3, <1>5 DEF Track, GoTo, socks, Labels
<1>6. CASE RegRead(e)
  <2>1. /\ \A c \in Conns \ {e} : pc'[c] = pc[c] /\ reply'[c] = reply[c]
        /\ outbox' = outbox
        /\ pc'[e] = "reg_reply" => reply'[e] = Invalid
    BY <1>0, <1>6 DEF RegRead, GoTo
  <2> QED
    BY <1>2, <2>1
<1>7. CASE RegEnd(e)
  BY <1>3, <1>7 DEF RegEnd, GoTo, socks, Labels
<1>8. CASE CheckName(e)
  <2>1. /\ \A c \in Conns \ {e} : pc'[c] = pc[c] /\ reply'[c] = reply[c]
        /\ outbox' = outbox
        /\ pc'[e] = "reg_reply" => reply'[e] = Taken
    BY <1>0, <1>8 DEF CheckName, GoTo, socks
  <2> QED
    BY <1>2, <2>1
<1>9. CASE Enter(e)
  BY <1>3, <1>9 DEF Enter, GoTo, socks, Labels
<1>10. CASE MakeList(e)
  <2>1. \A c \in Conns \ {e} : reply'[c] = reply[c]
    BY <1>0, <1>10 DEF MakeList
  <2>2. PICK l \in {"list_reply", "main_reply"} : pc' = [pc EXCEPT ![e] = l]
    BY <1>10 DEF MakeList, GoTo
  <2> QED
    BY <1>3, <1>10, <2>1, <2>2 DEF MakeList, socks, Labels
<1>11. CASE Answer(e)
  <2>1. WriteTo(e, reply[e]) /\ reply[e] \in Replies
    BY <1>0, <1>11 DEF Answer
  <2>2. \/ pc[e] = "reg_reply" /\ pc' = [pc EXCEPT ![e] = "reg_read"]
        \/ pc' = [pc EXCEPT ![e] = "bcast_lock"]
        \/ pc' = [pc EXCEPT ![e] = "main_read"]
    <3>1. \/ pc[e] = "reg_reply" /\ AfterReply[pc[e]] = "reg_read"
          \/ AfterReply[pc[e]] \in {"bcast_lock", "main_read"}
      BY <1>11 DEF Answer, AfterReply
    <3>2. pc' = [pc EXCEPT ![e] = AfterReply[pc[e]]]
      BY <1>11 DEF Answer, GoTo
    <3> QED
      BY <3>1, <3>2
  <2>3. reply[e].kind = "PEER_LIST" => Registered(e)'
    BY <1>0, <2>2 DEF ListInv, Registered
  <2>4. \A c \in Conns : \A i \in 1 .. Len(outbox'[c]) :
          outbox'[c][i].kind = "PEER_LIST" => Registered(c)'
    BY <1>4, <2>1, <2>3
  <2>5. \A c \in Conns : pc'[c] = "reg_reply" => pc[c] = "reg_reply" /\ reply'[c] = reply[c]
    BY <1>0, <1>11, <2>2 DEF Answer
  <2> QED
    BY <2>4, <2>5 DEF ListInv
<1>12. CASE BroadcastBegin(e)
  BY <1>3, <1>12 DEF BroadcastBegin, GoTo, socks, Labels
<1>13. CASE BroadcastNext(e)
  <2>1. pc' = pc /\ reply' = reply /\ client_sockets[cursor] \in Conns
    BY <1>0, <1>13 DEF BroadcastNext, locals
  <2>2. CASE UNCHANGED socks
    BY <1>2, <2>1, <2>2 DEF socks
  <2>3. CASE WriteTo(client_sockets[cursor], NewPeer(username[e]))
    <3>1. NewPeer(username[e]).kind # "PEER_LIST" /\ NewPeer(username[e]) \in Replies
      BY <1>13, ReplyTypes DEF NewPeer, BroadcastNext, TypeInv, Named
    <3> QED
      BY <1>4, <2>1, <2>3, <3>1 DEF ListInv
  <2> QED
    BY <1>13, <2>2, <2>3 DEF BroadcastNext
<1>14. CASE BroadcastEnd(e)
  BY <1>3, <1>14 DEF BroadcastEnd, GoTo, socks, Labels
<1>15. CASE MainRead(e)
  <2>1. PICK l \in {"main_list", "rm_self", "rm_other", "main_reply"} :
          pc' = [pc EXCEPT ![e] = l]
    BY <1>15 DEF MainRead, GoTo
  <2> QED
    BY <1>3, <1>15, <2>1 DEF MainRead, Labels
<1>16. CASE MainEnd(e)
  BY <1>3, <1>16 DEF MainEnd, GoTo, socks, Labels
<1>17. CASE RemoveSelf(e)
  BY <1>3, <1>17 DEF RemoveSelf, GoTo, socks, Labels
<1>18. CASE RemoveOther(e)
  BY <1>3, <1>18 DEF RemoveOther, GoTo, socks, Labels
<1>19. CASE FinalRemove(e)
  BY <1>3, <1>19 DEF FinalRemove, GoTo, socks, Labels
<1>20. CASE Untrack(e)
  <2>1. PICK l \in {"close", "final_rm"} : pc' = [pc EXCEPT ![e] = l]
    <3>1. AfterUntrack[pc[e]] \in {"close", "final_rm"}
      BY <1>20 DEF Untrack, AfterUntrack
    <3> QED
      BY <1>20, <3>1 DEF Untrack, GoTo
  <2> QED
    BY <1>3, <1>20, <2>1 DEF Untrack, socks, Labels
<1>21. CASE Close(e)
  BY <1>3, <1>21 DEF Close, GoTo, Labels
<1> QED
  BY <1>5, <1>6, <1>7, <1>8, <1>9, <1>10, <1>11, <1>12, <1>13, <1>14, <1>15, <1>16, <1>17,
     <1>18, <1>19, <1>20, <1>21 DEF Handler

\* A step of a client takes messages from its outbox and adds none, and takes
\* no command back.
LEMMA ClientRemembers ==
  ASSUME NetInv, [NetNext]_net_vars, ListInv,
         ~ \E c \in Conns : Connect(c) \/ Serve(c)
  PROVE  /\ \A c \in Conns : Registered(c)' = Registered(c)
         /\ \A c \in Conns : SaidRemove(c) => SaidRemove(c)'
         /\ ListInv'
<1> USE DEF NetInv
<1>0. ClientSide
  BY TwoKinds
<1>1. UNCHANGED << pc, reply >> /\ inbox \in [Conns -> Seq(Commands)]
      /\ outbox \in [Conns -> Seq(Replies)]
  BY <1>0 DEF ClientSide, locals, TypeInv, TypeOK
<1>2. \A c \in Conns : SaidRemove(c) => SaidRemove(c)'
  <2>1. CASE UNCHANGED inbox
    BY <1>1, <2>1 DEF SaidRemove
  <2>2. ASSUME NEW c \in Conns, NEW m \in ClientCommands(c),
               inbox' = [inbox EXCEPT ![c] = Append(@, m)]
        PROVE  \A d \in Conns : SaidRemove(d) => SaidRemove(d)'
    <3>1. m \in Commands
      BY ClientCommandTypes
    <3>2. inbox'[c] = Append(inbox[c], m) /\ \A d \in Conns \ {c} : inbox'[d] = inbox[d]
      BY <1>1, <2>2
    <3>3. /\ Len(inbox'[c]) = Len(inbox[c]) + 1 /\ Len(inbox[c]) \in Nat
          /\ \A i \in 1 .. Len(inbox[c]) : inbox'[c][i] = inbox[c][i]
      BY <1>1, <3>1, <3>2
    <3>4. SaidRemove(c) => SaidRemove(c)'
      <4>1. \A i \in 1 .. Len(inbox[c]) : i \in 1 .. Len(inbox'[c])
        BY <3>3
      <4> QED
        BY <1>1, <3>3, <4>1 DEF SaidRemove
    <3>5. \A d \in Conns \ {c} : SaidRemove(d) => SaidRemove(d)'
      BY <1>1, <3>2 DEF SaidRemove
    <3> QED
      BY <3>4, <3>5
  <2> QED
    BY <1>0, <2>1, <2>2 DEF ClientSide
<1>3. ASSUME NEW c \in Conns, \A d \in Conns \ {c} : outbox'[d] = outbox[d],
             \/ outbox'[c] \in {outbox[c], << >>}
             \/ \E k \in 1 .. Len(outbox[c]) :
                  outbox'[c] = SubSeq(outbox[c], k + 1, Len(outbox[c]))
      PROVE  ListInv'
  <2>1. outbox[c] \in Seq(Replies)
    BY <1>1
  <2>2. \A i \in 1 .. Len(outbox'[c]) : \E j \in 1 .. Len(outbox[c]) : outbox'[c][i] = outbox[c][j]
    <3>1. CASE outbox'[c] \in {outbox[c], << >>}
      BY <3>1
    <3>2. ASSUME NEW k \in 1 .. Len(outbox[c]),
                 outbox'[c] = SubSeq(outbox[c], k + 1, Len(outbox[c]))
          PROVE  \A i \in 1 .. Len(outbox'[c]) :
                   \E j \in 1 .. Len(outbox[c]) : outbox'[c][i] = outbox[c][j]
      <4>1. \A i \in k + 1 .. Len(outbox[c]) : outbox[c][i] \in Replies
        BY <2>1
      <4>2. /\ Len(outbox'[c]) = IF k + 1 <= Len(outbox[c]) THEN Len(outbox[c]) - (k + 1) + 1 ELSE 0
            /\ \A i \in 1 .. Len(outbox[c]) - (k + 1) + 1 :
                 outbox'[c][i] = outbox[c][k + 1 + i - 1]
        BY <2>1, <3>2, <4>1, SubSeqProperties
      <4> QED
        BY <2>1, <4>2
    <3> QED
      BY <1>3, <3>1, <3>2
  <2>3. \A d \in Conns : \A i \in 1 .. Len(outbox'[d]) :
          outbox'[d][i].kind = "PEER_LIST" => Registered(d)
    <3>1. \A i \in 1 .. Len(outbox'[c]) : outbox'[c][i].kind = "PEER_LIST" => Registered(c)
      BY <2>2 DEF ListInv
    <3>2. \A d \in Conns \ {c} : \A i \in 1 .. Len(outbox'[d]) :
            outbox'[d][i].kind = "PEER_LIST" => Registered(d)
      BY <1>3 DEF ListInv
    <3> QED
      BY <3>1, <3>2
  <2>4. \A d \in Conns : Registered(d)' = Registered(d)
    BY <1>1 DEF Registered
  <2> QED
    BY <1>1, <2>3, <2>4 DEF ListInv
<1>4. ListInv'
  <2>1. ASSUME UNCHANGED outbox PROVE ListInv'
    BY <1>1, <2>1 DEF ListInv, Registered
  <2>2. ASSUME NEW c \in Conns, Writing(c) PROVE UNCHANGED outbox
    BY <2>2, WritingWrites, ClientCommandTypes, WriteServerKeeps
  <2>3. ASSUME NEW c \in Conns, ReadAnswer(c) \/ Listen(c) PROVE ListInv'
    <3>1. PICK k \in Returned(outbox[c]) : ReadServer(c, k)
      BY <2>3 DEF ReadAnswer, Listen
    <3>2. k \in 1 .. Len(outbox[c])
      BY DEF Returned
    <3>3. /\ outbox'[c] = SubSeq(outbox[c], k + 1, Len(outbox[c]))
          /\ \A d \in Conns \ {c} : outbox'[d] = outbox[d]
      BY <1>1, <3>1 DEF ReadServer
    <3> QED
      BY <1>3, <3>2, <3>3
  <2>4. ASSUME NEW c \in Conns, AtTheMenu(c) \/ ListenerEnds(c) PROVE UNCHANGED outbox
    BY <2>4, MenuKeeps, ListenerEndsKeeps DEF vars, socks
  <2>5. ASSUME NEW c \in Conns, Ending(c) PROVE ListInv'
    <3>1. HangUp(c)
      BY <2>5, EndingEnds DEF EndProcess
    <3>2. /\ outbox'[c] \in {outbox[c], << >>}
          /\ \A d \in Conns \ {c} : outbox'[d] = outbox[d]
      BY <1>1, <3>1 DEF HangUp
    <3> QED
      BY <1>3, <3>2
  <2>6. CASE UNCHANGED net_vars
    BY <2>1, <2>6 DEF net_vars, vars, socks
  <2> QED
    BY <2>1, <2>2, <2>3, <2>4, <2>5, <2>6, NetSteps
<1> QED
  BY <1>1, <1>2, <1>4 DEF Registered

\* A REMOVE that has been written is on its way, or its handler is done.
LEMMA WriteSays ==
  ASSUME NetInv, NEW c \in Conns, WriteServer(c, Command("REMOVE", my_name[c])),
         my_name[c] \in MayName[c]
  PROVE  SaidRemove(c)'
<1>1. pc' = pc /\ inbox \in [Conns -> Seq(Commands)] /\ Session(c)
      /\ sock[c] \in {"open", "closed"}
  BY DEF WriteServer, locals, NetInv, TypeInv, TypeOK, ClientTypes
<1>2. CASE inbox' = [inbox EXCEPT ![c] = Append(@, Command("REMOVE", my_name[c]))]
  <2>1. Command("REMOVE", my_name[c]) \in Commands
    BY ClientCommandTypes DEF ClientCommands
  <2>2. /\ Len(inbox[c]) + 1 \in 1 .. Len(inbox'[c])
        /\ inbox'[c][Len(inbox[c]) + 1] = Command("REMOVE", my_name[c])
    BY <1>1, <1>2, <2>1
  <2> QED
    BY <2>2 DEF SaidRemove, Command
<1>3. CASE pc[c] = "done"
  BY <1>1, <1>3 DEF SaidRemove, AfterRemove
<1>4. CASE sock[c] = "closed"
  BY <1>1, <1>3, <1>4 DEF Session
<1> QED
  BY <1>2, <1>3, <1>4 DEF WriteServer

\* Every step keeps the two invariants.
LEMMA ChatStep ==
  ASSUME NetInv, ListInv, ChatInv, [NetNext]_net_vars
  PROVE  ListInv' /\ ChatInv'
<1> USE DEF NetInv
<1>0. \A c \in Conns : ~ merged'[c] => ~ merged[c] /\ (Serve(c) => OneRead(c))
  BY NotMerged
<1>1. ASSUME NEW c \in Conns, Connect(c)
      PROVE  ListInv' /\ ChatInv'
  <2>1. main[c] = "off" /\ main' = [main EXCEPT ![c] = "ask"] /\ UNCHANGED handler
    BY <1>1 DEF Connect, MainGoes
  <2>2. \E l \in {"track", "done"} : pc' = [pc EXCEPT ![c] = l]
    BY <1>1 DEF Connect, MainThread, Accept, AcceptFails, GoTo
  <2>3. UNCHANGED << outbox, inbox, reply >>
    BY <1>1 DEF Connect, MainThread, Accept, AcceptFails, socks
  <2>4. Session(c) /\ handler[c] = "none" /\ outbox[c] = << >>
    BY <2>1 DEF Session
  <2>5. /\ pc'[c] \in {"track", "done"}
        /\ \A d \in Conns \ {c} : pc'[d] = pc[d] /\ main'[d] = main[d]
        /\ main'[c] = "ask"
    BY <2>1, <2>2 DEF TypeInv, TypeOK, ClientTypes
  <2>6. \A d \in Conns \ {c} : Registered(d)' = Registered(d) /\ SaidRemove(d)' = SaidRemove(d)
                                /\ Chats(d)' = Chats(d)
    BY <2>1, <2>3, <2>5 DEF Registered, SaidRemove, Chats
  <2>7. ListInv'
    BY <2>3, <2>4, <2>5, <2>6 DEF ListInv
  <2>8. ChatInv'
    BY <1>0, <2>1, <2>4, <2>5, <2>6 DEF ChatInv, AtHome, Chats
  <2> QED
    BY <2>7, <2>8
<1>2. ASSUME NEW e \in Conns, Serve(e)
      PROVE  ListInv' /\ ChatInv'
  <2>1. UNCHANGED << main, handler >> /\ Handler(e)
    BY <1>2 DEF Serve, threads
  <2>2. ListInv'
    BY <2>1, ServeAnswers
  <2>3. \A c \in Conns : Chats(c)' = Chats(c) /\ (Chats(c) => Registered(c))
    BY <2>1 DEF Chats, ChatInv, AtHome
  <2>4. \A c \in Conns : Registered(c) =>
          Registered(c)' /\ (SaidRemove(c) /\ ~ merged'[c] => SaidRemove(c)')
    BY <1>0, <1>2, <2>1, ServeRemembers
  <2>5. ChatInv'
    BY <1>0, <2>1, <2>3, <2>4 DEF ChatInv
  <2> QED
    BY <2>2, <2>5
<1>3. ASSUME ~ \E c \in Conns : Connect(c) \/ Serve(c)
      PROVE  ListInv' /\ ChatInv'
  <2>0. /\ \A c \in Conns : Registered(c)' = Registered(c)
        /\ \A c \in Conns : SaidRemove(c) => SaidRemove(c)'
        /\ ListInv'
    BY <1>3, ClientRemembers
  <2>1. ASSUME NEW c \in Conns,
               \A d \in Conns \ {c} : main'[d] = main[d] /\ handler'[d] = handler[d],
               main'[c] \in AtHome \/ handler'[c] # "none" => Registered(c),
               Chats(c)' => Chats(c) \/ SaidRemove(c)'
        PROVE  ChatInv'
    <3>1. \A d \in Conns \ {c} : Chats(d)' = Chats(d)
      BY <2>1 DEF Chats
    <3> QED
      BY <1>0, <2>0, <2>1, <3>1 DEF ChatInv
  <2>2. CASE UNCHANGED << main, handler >>
    BY <1>0, <2>0, <2>2 DEF ChatInv, Chats
  <2>3. ASSUME NEW c \in Conns, Writing(c) PROVE ChatInv'
    <3>0. Session(c) /\ main \in [Conns -> MainLabels] /\ handler \in [Conns -> HandlerLabels]
      BY DEF ClientTypes
    <3>1. CASE EnterName(c)
      <4>1. main[c] = "ask" /\ main' = [main EXCEPT ![c] = "answer"] /\ UNCHANGED handler
        BY <3>1 DEF EnterName, MainGoes
      <4> QED
        BY <2>1, <3>0, <4>1 DEF ChatInv, AtHome, Chats
    <3>2. CASE MainWrites(c)
      <4>1. /\ main[c] \in {"start", "report", "refresh", "leave", "back", "exit"}
            /\ AfterMainCommand[main[c]] \in {"top", "refresh", "chat", "closing"}
            /\ AfterMainCommand[main[c]] = "chat" => main[c] = "leave"
        BY <3>2 DEF MainWrites, AfterMainCommand
      <4>2. main' = [main EXCEPT ![c] = AfterMainCommand[main[c]]] /\ UNCHANGED handler
        BY <3>2 DEF MainWrites, MainGoes
      <4>3. main[c] = "leave" => SaidRemove(c)'
        <5>1. CASE main[c] = "leave"
          <6>1. WriteServer(c, Command("REMOVE", my_name[c]))
            BY <3>2, <5>1 DEF MainWrites, MainCommand
          <6>2. my_name[c] \in MayName[c]
            BY <3>0, <5>1 DEF Session
          <6> QED
            BY <6>1, <6>2, WriteSays
        <5> QED
          BY <5>1
      <4>4. main'[c] = AfterMainCommand[main[c]] /\ \A d \in Conns \ {c} : main'[d] = main[d]
        BY <3>0, <4>2
      <4>5. Registered(c)
        BY <4>1 DEF ChatInv, AtHome
      <4>6. Chats(c)' => Chats(c) \/ SaidRemove(c)'
        BY <4>1, <4>2, <4>3, <4>4 DEF Chats
      <4> QED
        BY <2>1, <4>2, <4>4, <4>5, <4>6
    <3>3. CASE HandlerWrites(c)
      <4>1. /\ handler[c] \in {"leave", "back", "refresh"}
            /\ AfterHandlerCommand[handler[c]] = "chat" => handler[c] = "leave"
        BY <3>3 DEF HandlerWrites, AfterHandlerCommand
      <4>2. handler' = [handler EXCEPT ![c] = AfterHandlerCommand[handler[c]]] /\ UNCHANGED main
        BY <3>3 DEF HandlerWrites, HandlerGoes
      <4>3. handler[c] = "leave" => SaidRemove(c)'
        <5>1. CASE handler[c] = "leave"
          <6>1. WriteServer(c, Command("REMOVE", my_name[c]))
            BY <3>3, <5>1 DEF HandlerWrites, HandlerCommand
          <6>2. my_name[c] \in MayName[c]
            BY <3>0, <5>1 DEF Session
          <6> QED
            BY <6>1, <6>2, WriteSays
        <5> QED
          BY <5>1
      <4>4. /\ handler'[c] = AfterHandlerCommand[handler[c]]
            /\ \A d \in Conns \ {c} : handler'[d] = handler[d]
        BY <3>0, <4>2
      <4>5. Registered(c)
        BY <4>1 DEF ChatInv
      <4>6. Chats(c)' => Chats(c) \/ SaidRemove(c)'
        BY <4>1, <4>2, <4>3, <4>4 DEF Chats
      <4> QED
        BY <2>1, <4>2, <4>4, <4>5, <4>6
    <3>4. CASE ListenerWrites(c)
      BY <2>2, <3>4 DEF ListenerWrites
    <3> QED
      BY <2>3, <3>1, <3>2, <3>3, <3>4 DEF Writing
  <2>4. ASSUME NEW c \in Conns, ReadAnswer(c) PROVE ChatInv'
    <3>0. main[c] = "answer" /\ main \in [Conns -> MainLabels] /\ UNCHANGED handler
      BY <2>4 DEF ReadAnswer, ClientTypes
    <3>1. handler[c] = "none"
      BY <3>0 DEF Session
    <3>2. CASE MainGoes(c, "start") /\ Head(outbox[c]).kind = "PEER_LIST"
      <4>1. PICK k \in Returned(outbox[c]) : TRUE
        BY <2>4 DEF ReadAnswer
      <4>2. outbox[c] \in Seq(Replies) /\ 1 \in 1 .. Len(outbox[c])
        BY <4>1 DEF Returned, TypeInv, TypeOK
      <4>3. outbox[c][1] = Head(outbox[c])
        BY <4>2
      <4>4. Registered(c)
        BY <3>2, <4>2, <4>3 DEF ListInv
      <4> QED
        BY <2>1, <3>0, <3>1, <3>2, <4>4 DEF MainGoes, Chats
    <3>3. CASE MainGoes(c, "ask") \/ MainGoes(c, "closing")
      BY <2>1, <3>0, <3>1, <3>3 DEF MainGoes, Chats, AtHome
    <3> QED
      BY <2>4, <3>2, <3>3 DEF ReadAnswer
  <2>5. ASSUME NEW c \in Conns, AtTheMenu(c) PROVE ChatInv'
    <3>0. main \in [Conns -> MainLabels] /\ handler \in [Conns -> HandlerLabels]
      BY DEF ClientTypes
    <3>1. ASSUME main[c] \in AtHome, NEW l \in {"menu", "top", "exit", "report", "back"},
                 MainGoes(c, l), UNCHANGED handler
          PROVE  ChatInv'
      BY <2>1, <3>0, <3>1 DEF MainGoes, ChatInv, AtHome, Chats
    <3>2. CASE SeeMenu(c) \/ NoCall(c) \/ Exit(c)
      BY <3>1, <3>2 DEF SeeMenu, NoCall, Exit, AtHome
    <3>3. CASE BindAndListen(c) \/ ChatThreadEnds(c)
      BY <2>2, <3>3 DEF BindAndListen, ChatThreadEnds, threads
    <3>4. CASE ChatEnds(c)
      <4>1. CASE main[c] = "chat" /\ (MainGoes(c, "back") \/ MainGoes(c, "top")) /\ UNCHANGED handler
        BY <3>1, <4>1 DEF AtHome
      <4>2. CASE /\ handler[c] = "chat" /\ (HandlerGoes(c, "back") \/ HandlerGoes(c, "none"))
                 /\ UNCHANGED main
        BY <2>1, <3>0, <4>2 DEF HandlerGoes, ChatInv, Chats
      <4> QED
        BY <3>4, <4>1, <4>2 DEF ChatEnds
    <3>5. ASSUME NEW p \in Peers, CallFails(c, p) PROVE ChatInv'
      BY <3>1, <3>5 DEF CallFails, Dial, AtHome
    <3>6. ASSUME NEW p \in Peers, CallAccepted(c, p) PROVE ChatInv'
      <4>1. /\ p.addr \in Conns /\ p.addr # c /\ ears[p.addr] = "open"
            /\ main[c] = "menu" /\ main[p.addr] # "closing"
            /\ main' = [main EXCEPT ![c] = "leave"]
            /\ handler' = [handler EXCEPT ![p.addr] = "leave"]
        BY <3>6 DEF CallAccepted, Dial, MainGoes, HandlerGoes, Peers
      <4>2. main[p.addr] \in AtHome
        BY <3>0, <4>1 DEF Session, MainLabels, AtHome
      <4>3. Registered(c) /\ Registered(p.addr)
        BY <4>1, <4>2 DEF ChatInv, AtHome
      <4>4. \A d \in Conns : Chats(d)' => Chats(d)
        BY <3>0, <4>1 DEF Chats
      <4>5. \A d \in Conns : main'[d] \in AtHome \/ handler'[d] # "none" => Registered(d)
        BY <3>0, <4>1, <4>3 DEF ChatInv
      <4> QED
        BY <1>0, <2>0, <4>4, <4>5 DEF ChatInv
    <3> QED
      BY <2>5, <3>2, <3>3, <3>4, <3>5, <3>6 DEF AtTheMenu
  <2>6. ASSUME NEW c \in Conns, Listen(c) \/ ListenerEnds(c) PROVE ChatInv'
    BY <2>2, <2>6 DEF Listen, ListenerEnds
  <2>7. ASSUME NEW c \in Conns, Ending(c) PROVE ChatInv'
    <3>1. main' = [main EXCEPT ![c] = "gone"] /\ handler' = [handler EXCEPT ![c] = "none"]
      BY <2>7, EndingEnds DEF EndProcess, MainGoes, HandlerGoes
    <3> QED
      BY <2>1, <3>1 DEF ClientTypes, ChatInv, AtHome, Chats
  <2>8. CASE UNCHANGED net_vars
    BY <2>2, <2>8 DEF net_vars, client_vars, threads
  <2> QED
    BY <1>3, <2>0, <2>3, <2>4, <2>5, <2>6, <2>7, <2>8, NetSteps
<1> QED
  BY <1>1, <1>2, <1>3

\* A client that chats is not listed once the server has dealt with everything,
\* whether it calls or is called and however often, unless a read() of its
\* connection has returned more than one message: it has said REMOVE when it goes
\* into the chat, and only such a read() overlooks it.
THEOREM ChattingUnlisted ==
  ASSUME DisjointNames, MaySendAll
  PROVE  NetSpec => []InChatUnlisted
<1>1. PICK own \in [Conns -> Names] : OwnNames(own)
  BY DEF DisjointNames, OwnNames
<1>2. NetSpec => [](NetInv /\ TableInv /\ OwnInv(own))
  BY <1>1, NetOwnInvariant
<1>3. NetInit => ListInv /\ ChatInv
  BY DEF NetInit, Init, ListInv, ChatInv, AtHome, Chats
<1>4. NetInv /\ ListInv /\ ChatInv /\ [NetNext]_net_vars => ListInv' /\ ChatInv'
  BY ChatStep
<1>5. NetInv /\ OwnInv(own) /\ ChatInv => InChatUnlisted
  <2> SUFFICES ASSUME NetInv, OwnInv(own), ChatInv, Quiet, NEW p \in Range(peer_list),
                      Chats(p.addr), ~ merged[p.addr]
               PROVE  FALSE
    BY DEF InChatUnlisted
  <2>1. p.addr \in Conns /\ Joined(p.addr)
    BY <1>1, OwnEntries DEF NetInv
  <2>2. pc[p.addr] \in {"reg_read", "main_read"} /\ inbox[p.addr] = << >>
    BY <2>1 DEF Quiet, ServerRests, Joined
  <2> QED
    BY <2>1, <2>2 DEF ChatInv, SaidRemove, AfterRemove
<1> QED
  BY <1>2, <1>3, <1>4, <1>5, PTL DEF NetSpec

-----------------------------------------------------------------------------
(* The newest list that the server has made for a client.                  *)

\* The handler of c has made a list and not yet written it.
ReplyList(c) == pc[c] \in {"list_reply", "main_reply"} /\ reply[c].kind = "PEER_LIST"

\* The messages from the i-th on that are on their way to c hold no list.
NoListFrom(c, i) == \A j \in i .. Len(outbox[c]) : outbox[c][j].kind # "PEER_LIST"

\* S is the newest list of c: the handler's, or the last one on its way to the
\* client, or the client's own.
Newest(c, S) ==
  \/ ReplyList(c) /\ S = reply[c].peers
  \/ /\ ~ ReplyList(c)
     /\ \E i \in 1 .. Len(outbox[c]) :
          outbox[c][i].kind = "PEER_LIST" /\ S = outbox[c][i].peers /\ NoListFrom(c, i + 1)
  \/ ~ ReplyList(c) /\ NoListFrom(c, 1) /\ S = list[c]

\* An answer that has been written is forgotten.
ReplyInv ==
  \A c \in Conns : pc[c] \notin {"reg_reply", "list_reply", "main_reply"} => reply[c] = Invalid

\* The newest list stays when nothing is written to the client and its handler
\* makes no list and writes none.
LEMMA NewestSame ==
  ASSUME NEW c, NEW S, Newest(c, S), outbox'[c] = outbox[c], list'[c] = list[c],
         ReplyList(c)' = ReplyList(c), ReplyList(c) => reply'[c] = reply[c]
  PROVE  Newest(c, S)'
  BY DEF Newest, NoListFrom

\* Another message does not make another list the newest.
LEMMA NewestNotice ==
  ASSUME NEW c, NEW S, Newest(c, S), outbox[c] \in Seq(Replies), NEW m \in Replies,
         m.kind # "PEER_LIST", outbox'[c] = Append(outbox[c], m), list'[c] = list[c],
         ReplyList(c)' = ReplyList(c), ReplyList(c) => reply'[c] = reply[c]
  PROVE  Newest(c, S)'
<1>1. /\ Len(outbox'[c]) = Len(outbox[c]) + 1 /\ Len(outbox[c]) \in Nat
      /\ \A i \in 1 .. Len(outbox[c]) : outbox'[c][i] = outbox[c][i]
      /\ outbox'[c][Len(outbox[c]) + 1] = m
  OBVIOUS
<1>2. \A i \in 1 .. Len(outbox[c]) + 1 : NoListFrom(c, i) => NoListFrom(c, i)'
  BY <1>1 DEF NoListFrom
<1>3. CASE ReplyList(c)
  BY <1>3 DEF Newest
<1>4. CASE ~ ReplyList(c) /\ NoListFrom(c, 1) /\ S = list[c]
  BY <1>1, <1>2, <1>4 DEF Newest
<1>5. ASSUME ~ ReplyList(c), NEW i \in 1 .. Len(outbox[c]),
             outbox[c][i].kind = "PEER_LIST", S = outbox[c][i].peers, NoListFrom(c, i + 1)
      PROVE  Newest(c, S)'
  <2>1. i + 1 \in 1 .. Len(outbox[c]) + 1 /\ i \in 1 .. Len(outbox'[c])
    BY <1>1
  <2> QED
    BY <1>1, <1>2, <1>5, <2>1 DEF Newest
<1> QED
  BY <1>3, <1>4, <1>5 DEF Newest

\* A list that is written becomes the last one on its way.
LEMMA NewestWritten ==
  ASSUME NEW c, NEW S, Newest(c, S), outbox[c] \in Seq(Replies), reply[c] \in Replies,
         ReplyList(c), ~ ReplyList(c)', outbox'[c] = Append(outbox[c], reply[c])
  PROVE  Newest(c, S)'
<1>1. /\ Len(outbox'[c]) = Len(outbox[c]) + 1 /\ Len(outbox[c]) \in Nat
      /\ outbox'[c][Len(outbox[c]) + 1] = reply[c]
  OBVIOUS
<1>2. S = reply[c].peers /\ reply[c].kind = "PEER_LIST"
  BY DEF Newest, ReplyList
<1>3. PICK n \in 1 .. Len(outbox'[c]) : n = Len(outbox'[c])
  BY <1>1
<1>4. /\ outbox'[c][n].kind = "PEER_LIST" /\ S = outbox'[c][n].peers
      /\ NoListFrom(c, n + 1)'
  BY <1>1, <1>2, <1>3 DEF NoListFrom
<1> QED
  BY <1>4 DEF Newest

\* The client reads the first message, and takes it for its list if it is one.
LEMMA NewestRead ==
  ASSUME NEW c, NEW S, Newest(c, S), outbox[c] \in Seq(Replies), outbox[c] # << >>,
         outbox'[c] = Tail(outbox[c]),
         list'[c] = IF Head(outbox[c]).kind = "PEER_LIST" THEN Head(outbox[c]).peers
                                                         ELSE list[c],
         UNCHANGED << pc, reply >>
  PROVE  Newest(c, S)'
<1>1. /\ Len(outbox'[c]) = Len(outbox[c]) - 1 /\ Len(outbox[c]) \in Nat \ {0}
      /\ \A i \in 1 .. Len(outbox[c]) - 1 : outbox'[c][i] = outbox[c][i + 1]
      /\ Head(outbox[c]) = outbox[c][1]
  OBVIOUS
<1>2. ReplyList(c)' = ReplyList(c) /\ reply' = reply
  BY DEF ReplyList
<1>3. ASSUME NEW i \in Nat \ {0}, NoListFrom(c, i + 1)
      PROVE  NoListFrom(c, i)'
  <2>1. SUFFICES ASSUME NEW j \in i .. Len(outbox'[c])
                 PROVE  outbox'[c][j].kind # "PEER_LIST"
    BY DEF NoListFrom
  <2>2. /\ j \in 1 .. Len(outbox[c]) - 1 /\ j + 1 \in i + 1 .. Len(outbox[c])
    BY <1>1
  <2> QED
    BY <1>1, <1>3, <2>2 DEF NoListFrom
<1>4. ASSUME NoListFrom(c, 1)
      PROVE  NoListFrom(c, 1)' /\ Head(outbox[c]).kind # "PEER_LIST"
  <2>1. 1 \in 1 .. Len(outbox[c])
    BY <1>1
  <2>2. \A j \in 1 .. Len(outbox'[c]) : j + 1 \in 1 .. Len(outbox[c]) /\ j \in 1 .. Len(outbox[c]) - 1
    BY <1>1
  <2> QED
    BY <1>1, <1>4, <2>1, <2>2 DEF NoListFrom
<1>5. CASE ReplyList(c)
  BY <1>2, <1>5 DEF Newest
<1>6. CASE ~ ReplyList(c) /\ NoListFrom(c, 1) /\ S = list[c]
  BY <1>2, <1>4, <1>6 DEF Newest
<1>7. ASSUME ~ ReplyList(c), NEW i \in 1 .. Len(outbox[c]),
             outbox[c][i].kind = "PEER_LIST", S = outbox[c][i].peers, NoListFrom(c, i + 1)
      PROVE  Newest(c, S)'
  <2>1. CASE i = 1
    <3>1. NoListFrom(c, 1)'
      BY <1>3, <1>7, <2>1
    <3>2. list'[c] = S
      BY <1>1, <1>7, <2>1
    <3> QED
      BY <1>2, <1>7, <3>1, <3>2 DEF Newest
  <2>2. CASE i # 1
    <3>1. /\ i - 1 \in 1 .. Len(outbox'[c]) /\ outbox'[c][i - 1] = outbox[c][i]
          /\ NoListFrom(c, i)'
      BY <1>1, <1>3, <1>7, <2>2
    <3>2. i - 1 + 1 = i
      OBVIOUS
    <3> QED
      BY <1>2, <1>7, <3>1, <3>2 DEF Newest
  <2> QED
    BY <2>1, <2>2
<1> QED
  BY <1>5, <1>6, <1>7 DEF Newest

\* What the steps of a handler have in common that write nothing and make no list.
Silent(e) ==
  /\ UNCHANGED outbox
  /\ \A d \in Conns \ {e} : pc'[d] = pc[d] /\ reply'[d] = reply[d]
  /\ \/ pc'[e] = pc[e] /\ reply'[e] = reply[e]
     \/ /\ pc[e] \notin {"reg_reply", "list_reply", "main_reply"}
        /\ \/ pc'[e] \notin {"reg_reply", "list_reply"} /\ reply'[e] = reply[e]
           \/ pc'[e] = "reg_reply"

\* A handler is silent, makes a list, answers or broadcasts.
LEMMA HandlerKinds ==
  ASSUME TypeInv, NEW e \in Conns, Handler(e)
  PROVE  Silent(e) \/ MakeList(e) \/ Answer(e) \/ BroadcastNext(e)
<1>0. pc \in [Conns -> Labels] /\ reply \in [Conns -> Replies]
  BY DEF TypeInv, TypeOK
<1>1. ASSUME NEW l \in Labels, pc' = [pc EXCEPT ![e] = l], UNCHANGED << outbox, reply >>,
             l \notin {"reg_reply", "list_reply"},
             pc[e] \notin {"reg_reply", "list_reply", "main_reply"}
      PROVE  Silent(e)
  BY <1>0, <1>1 DEF Silent
<1>2. CASE Track(e)
  <2>1. CASE GoTo(e, "reg_read")
    BY <1>1, <1>2, <2>1 DEF Track, GoTo, socks, Labels
  <2>2. CASE UNCHANGED << client_sockets, pc >>
    BY <1>2, <2>2 DEF Track, socks, Silent
  <2> QED
    BY <1>2, <2>1, <2>2 DEF Track
<1>3. CASE RegRead(e)
  BY <1>0, <1>3 DEF RegRead, GoTo, Silent
<1>4. CASE RegEnd(e)
  BY <1>1, <1>4 DEF RegEnd, GoTo, socks, Labels
<1>5. CASE CheckName(e)
  BY <1>0, <1>5 DEF CheckName, GoTo, socks, Silent
<1>6. CASE Enter(e)
  BY <1>1, <1>6 DEF Enter, GoTo, socks, Labels
<1>7. CASE BroadcastBegin(e)
  BY <1>1, <1>7 DEF BroadcastBegin, GoTo, socks, Labels
<1>8. CASE BroadcastEnd(e)
  BY <1>1, <1>8 DEF BroadcastEnd, GoTo, socks, Labels
<1>9. CASE MainRead(e)
  <2>1. PICK l \in {"main_list", "rm_self", "rm_other", "main_reply"} :
          pc' = [pc EXCEPT ![e] = l]
    BY <1>9 DEF MainRead, GoTo
  <2> QED
    BY <1>1, <1>9, <2>1 DEF MainRead, Labels
<1>10. CASE MainEnd(e)
  BY <1>1, <1>10 DEF MainEnd, GoTo, socks, Labels
<1>11. CASE RemoveSelf(e)
  BY <1>1, <1>11 DEF RemoveSelf, GoTo, socks, Labels
<1>12. CASE RemoveOther(e)
  BY <1>1, <1>12 DEF RemoveOther, GoTo, socks, Labels
<1>13. CASE FinalRemove(e)
  BY <1>1, <1>13 DEF FinalRemove, GoTo, socks, Labels
<1>14. CASE Untrack(e)
  <2>1. PICK l \in {"close", "final_rm"} : pc' = [pc EXCEPT ![e] = l]
    <3>1. AfterUntrack[pc[e]] \in {"close", "final_rm"}
      BY <1>14 DEF Untrack, AfterUntrack
    <3> QED
      BY <1>14, <3>1 DEF Untrack, GoTo
  <2>2. pc[e] \in {"reg_sock", "rm_sock", "final_sock"}
    BY <1>14 DEF Untrack, AfterUntrack
  <2> QED
    BY <1>1, <1>14, <2>1, <2>2 DEF Untrack, socks, Labels
<1>15. CASE Close(e)
  BY <1>1, <1>15 DEF Close, GoTo, Labels
<1> QED
  BY <1>2, <1>3, <1>4, <1>5, <1>6, <1>7, <1>8, <1>9, <1>10, <1>11, <1>12, <1>13, <1>14,
     <1>15 DEF Handler

\* What the four kinds do to handlers and outboxes, in detail for the last three.
LEMMA MakeListDoes ==
  ASSUME TypeInv, NEW e \in Conns, MakeList(e)
  PROVE  /\ UNCHANGED << outbox, inbox, peer_end, peer_list, username, request >>
         /\ \A d \in Conns \ {e} : pc'[d] = pc[d] /\ reply'[d] = reply[d]
         /\ pc[e] \in {"reg_list", "main_list"} /\ pc'[e] \in {"list_reply", "main_reply"}
         /\ reply'[e] = PeerList(Listing(peer_list, username[e]))
  BY DEF MakeList, GoTo, socks, tables, TypeInv, TypeOK

\* Answer writes the reply to the handler's own client.
LEMMA AnswerDoes ==
  ASSUME TypeInv, NEW e \in Conns, Answer(e)
  PROVE  /\ UNCHANGED << inbox, peer_list, username, request >>
         /\ \A d \in Conns \ {e} : pc'[d] = pc[d] /\ reply'[d] = reply[d]
                                   /\ outbox'[d] = outbox[d]
         /\ pc[e] \in {"reg_reply", "list_reply", "main_reply"}
         /\ pc'[e] \in {"reg_read", "bcast_lock", "main_read"}
         /\ pc[e] # "reg_reply" => pc'[e] # "reg_read"
         /\ reply'[e] = Invalid
         /\ peer_end[e] = "open" => outbox'[e] = Append(outbox[e], reply[e])
<1>0. /\ pc \in [Conns -> Labels] /\ reply \in [Conns -> Replies]
      /\ outbox \in [Conns -> Seq(Replies)]
  BY DEF TypeInv, TypeOK
<1>1. /\ pc[e] \in {"reg_reply", "list_reply", "main_reply"}
      /\ AfterReply[pc[e]] \in {"reg_read", "bcast_lock", "main_read"}
      /\ pc[e] # "reg_reply" => AfterReply[pc[e]] # "reg_read"
  BY DEF Answer, AfterReply
<1>2. pc' = [pc EXCEPT ![e] = AfterReply[pc[e]]] /\ reply' = [reply EXCEPT ![e] = Invalid]
  BY DEF Answer, GoTo
<1>3. /\ \A d \in Conns \ {e} : outbox'[d] = outbox[d]
      /\ peer_end[e] = "open" => outbox'[e] = Append(outbox[e], reply[e])
  BY <1>0 DEF Answer, WriteTo
<1> QED
  BY <1>0, <1>1, <1>2, <1>3 DEF Answer, WriteTo, tables

\* BroadcastNext writes NEW_PEER to another client.
LEMMA BroadcastDoes ==
  ASSUME TypeInv, NEW e \in Conns, BroadcastNext(e)
  PROVE  /\ UNCHANGED << pc, reply, inbox, peer_list, username, request >>
         /\ NewPeer(username[e]) \in Replies /\ NewPeer(username[e]).kind = "NEW_PEER"
         /\ \A d \in Conns : outbox'[d] \in {outbox[d], Append(outbox[d], NewPeer(username[e]))}
         /\ \A d \in Conns : d # e /\ client_sockets[cursor] = d /\ peer_end[d] = "open" =>
              outbox'[d] = Append(outbox[d], NewPeer(username[e]))
<1>0. /\ outbox \in [Conns -> Seq(Replies)] /\ client_sockets \in Seq(Conns)
      /\ cursor \in Nat \ {0}
  BY DEF TypeInv, TypeOK
<1>1. NewPeer(username[e]) \in Replies /\ NewPeer(username[e]).kind = "NEW_PEER"
  BY ReplyTypes DEF NewPeer, BroadcastNext, TypeInv, Named
<1>2. client_sockets[cursor] \in Conns
  BY <1>0 DEF BroadcastNext
<1>3. UNCHANGED << pc, reply, inbox, peer_list, username, request >>
  BY DEF BroadcastNext, WriteTo, tables, locals, socks
<1>4. CASE client_sockets[cursor] = e /\ UNCHANGED socks
  BY <1>1, <1>3, <1>4 DEF socks
<1>5. CASE client_sockets[cursor] # e /\ WriteTo(client_sockets[cursor], NewPeer(username[e]))
  <2> DEFINE d == client_sockets[cursor]
             m == NewPeer(username[e])
  <2>1. \/ outbox' = [outbox EXCEPT ![d] = Append(outbox[d], m)]
        \/ outbox' = outbox /\ peer_end[d] # "open"
    BY <1>5 DEF WriteTo
  <2> HIDE DEF m
  <2> QED
    BY <1>0, <1>1, <1>2, <1>3, <2>1 DEF m
<1> QED
  BY <1>4, <1>5 DEF BroadcastNext

\* The newest list of a client is forgotten for a newer one only.
LEMMA NewestServe ==
  ASSUME TypeInv, ListInv, ReplyInv, NEW e \in Conns, Handler(e), NEW c \in Conns, NEW S,
         Newest(c, S), list' = list, peer_end[c] = "open" \/ pc[c] = "done",
         ~ (e = c /\ MakeList(e))
  PROVE  Newest(c, S)'
<1>0. outbox[c] \in Seq(Replies) /\ reply[c] \in Replies
  BY DEF TypeInv, TypeOK
<1>1. CASE Silent(e)
  <2>1. outbox'[c] = outbox[c] /\ list'[c] = list[c]
    BY <1>1 DEF Silent
  <2>2. ReplyList(c)' = ReplyList(c) /\ (ReplyList(c) => reply'[c] = reply[c])
    <3>1. CASE c # e
      BY <1>1, <3>1 DEF Silent, ReplyList
    <3>2. CASE c = e
      BY <1>1, <3>2 DEF Silent, ReplyList, ReplyInv, Invalid
    <3> QED
      BY <3>1, <3>2
  <2> QED
    BY <2>1, <2>2, NewestSame
<1>2. CASE MakeList(e)
  <2>1. /\ pc'[c] = pc[c] /\ reply'[c] = reply[c]
        /\ outbox'[c] = outbox[c] /\ list'[c] = list[c]
    BY <1>2, MakeListDoes
  <2> QED
    BY <2>1, NewestSame DEF ReplyList
<1>3. CASE Answer(e)
  <2>1. CASE c # e
    <3>1. /\ pc'[c] = pc[c] /\ reply'[c] = reply[c]
          /\ outbox'[c] = outbox[c] /\ list'[c] = list[c]
      BY <1>3, <2>1, AnswerDoes
    <3> QED
      BY <3>1, NewestSame DEF ReplyList
  <2>2. CASE c = e
    <3>1. /\ pc[c] \in {"reg_reply", "list_reply", "main_reply"}
          /\ pc'[c] \in {"reg_read", "bcast_lock", "main_read"}
          /\ peer_end[c] = "open" => outbox'[c] = Append(outbox[c], reply[c])
      BY <1>3, <2>2, AnswerDoes
    <3>2. outbox'[c] = Append(outbox[c], reply[c]) /\ list'[c] = list[c] /\ ~ ReplyList(c)'
      BY <3>1 DEF ReplyList
    <3>3. CASE ReplyList(c)
      BY <1>0, <3>2, <3>3, NewestWritten
    <3>4. CASE ~ ReplyList(c)
      <4>1. reply[c].kind # "PEER_LIST"
        BY <3>1, <3>4 DEF ReplyList, ListInv
      <4>2. ReplyList(c)' = ReplyList(c)
        BY <3>2, <3>4 DEF ReplyList
      <4> QED
        BY <1>0, <3>2, <3>4, <4>1, <4>2, NewestNotice
    <3> QED
      BY <3>3, <3>4
  <2> QED
    BY <2>1, <2>2
<1>4. CASE BroadcastNext(e)
  <2>1. /\ UNCHANGED << pc, reply >> /\ list'[c] = list[c]
        /\ NewPeer(username[e]) \in Replies /\ NewPeer(username[e]).kind # "PEER_LIST"
        /\ outbox'[c] \in {outbox[c], Append(outbox[c], NewPeer(username[e]))}
    BY <1>4, BroadcastDoes
  <2>2. ReplyList(c)' = ReplyList(c) /\ reply'[c] = reply[c]
    BY <2>1 DEF ReplyList
  <2>3. CASE outbox'[c] = outbox[c]
    BY <2>1, <2>2, <2>3, NewestSame
  <2>4. CASE outbox'[c] = Append(outbox[c], NewPeer(username[e]))
    BY <1>0, <2>1, <2>2, <2>4, NewestNotice
  <2> QED
    BY <2>1, <2>3, <2>4
<1> QED
  BY <1>1, <1>2, <1>3, <1>4, HandlerKinds

\* A handler forgets what it has written.
LEMMA ReplyServe ==
  ASSUME TypeInv, ReplyInv, NEW e \in Conns, Handler(e)
  PROVE  ReplyInv'
<1>1. CASE Silent(e)
  BY <1>1 DEF Silent, ReplyInv
<1>2. CASE MakeList(e)
  BY <1>2, MakeListDoes DEF ReplyInv
<1>3. CASE Answer(e)
  BY <1>3, AnswerDoes DEF ReplyInv
<1>4. CASE BroadcastNext(e)
  BY <1>4, BroadcastDoes DEF ReplyInv
<1> QED
  BY <1>1, <1>2, <1>3, <1>4, HandlerKinds

-----------------------------------------------------------------------------
(* What a handler does for its client and for the others.                  *)

\* Handlers behind the answer to the registration and before any removal.
Serving(c) ==
  pc[c] \in {"bcast_lock", "bcast", "main_read", "main_list", "main_reply", "rm_other"}

\* Handlers that will not enter their client any more.
Past(c) == pc[c] \notin {"none", "track", "reg_read", "check", "add_peer", "reg_reply"}

\* A request for the list is on its way, or its answer is being made.
Asked(c) == \E i \in 1 .. Len(inbox[c]) : inbox[c][i].verb = "GET_PEER_LIST"
Coming(c) == pc[c] = "main_list" \/ Asked(c)

\* A notification is on its way, or the client has seen one.
Warned(c) ==
  \/ listener[c] = "notified"
  \/ \E i \in 1 .. Len(outbox[c]) : outbox[c][i].kind = "NEW_PEER"

\* The handler of d has yet to tell c that d is new.
Owes(d, c) ==
  \/ pc[d] \in {"reg_list", "list_reply", "bcast_lock"}
  \/ pc[d] = "bcast" /\ \E i \in cursor .. Len(client_sockets) : client_sockets[i] = c

\* A handler reads, looks and moves for its own client only.
LEMMA HandlerApart ==
  ASSUME TypeInv, NEW e \in Conns, Handler(e), NEW c \in Conns \ {e}
  PROVE  /\ pc'[c] = pc[c] /\ inbox'[c] = inbox[c]
         /\ request'[c] = request[c] /\ username'[c] = username[c]
<1>0. /\ pc \in [Conns -> Labels] /\ inbox \in [Conns -> Seq(Commands)]
      /\ username \in [Conns -> Names \cup {NoName}]
      /\ request \in [Conns -> Commands \cup {EndOfStream}]
  BY DEF TypeInv, TypeOK
<1>1. CASE Track(e) \/ RegEnd(e) \/ CheckName(e) \/ Enter(e) \/ MakeList(e)
  BY <1>0, <1>1 DEF Track, RegEnd, ReadEnd, CheckName, Enter, MakeList, GoTo, socks
<1>2. CASE RegRead(e) \/ MainRead(e)
  <2>1. /\ \E l : pc' = [pc EXCEPT ![e] = l]
        /\ username' = username \/ \E n : username' = [username EXCEPT ![e] = n]
        /\ \E k \in Returned(inbox[e]) :
             /\ request' = [request EXCEPT ![e] = Head(inbox[e])]
             /\ inbox' = [inbox EXCEPT ![e] = SubSeq(@, k + 1, Len(@))]
    BY <1>2 DEF RegRead, MainRead, ReadCommand, GoTo
  <2> QED
    BY <1>0, <2>1
<1>3. CASE Answer(e) \/ BroadcastNext(e)
  BY <1>0, <1>3 DEF Answer, BroadcastNext, WriteTo, GoTo, socks, locals
<1>4. CASE BroadcastBegin(e) \/ BroadcastEnd(e) \/ MainEnd(e)
  BY <1>0, <1>4 DEF BroadcastBegin, BroadcastEnd, MainEnd, ReadEnd, GoTo, socks
<1>5. CASE RemoveSelf(e) \/ RemoveOther(e) \/ FinalRemove(e) \/ Untrack(e) \/ Close(e)
  BY <1>0, <1>5 DEF RemoveSelf, RemoveOther, FinalRemove, Untrack, Close, GoTo, socks
<1> QED
  BY <1>1, <1>2, <1>3, <1>4, <1>5 DEF Handler

\* What a handler may do that serves its client.
LEMMA ServingSteps ==
  ASSUME NEW e \in Conns, Handler(e), Serving(e)
  PROVE  \/ MakeList(e) \/ Answer(e) \/ MainRead(e) \/ MainEnd(e) \/ RemoveOther(e)
         \/ BroadcastBegin(e) \/ BroadcastNext(e) \/ BroadcastEnd(e)
<1>1. ~ (Track(e) \/ RegRead(e) \/ RegEnd(e) \/ CheckName(e) \/ Enter(e))
  BY DEF Track, RegRead, RegEnd, CheckName, Enter, Serving
<1>2. ~ (RemoveSelf(e) \/ FinalRemove(e) \/ Untrack(e) \/ Close(e))
  BY DEF RemoveSelf, FinalRemove, Untrack, AfterUntrack, Close, Serving
<1> QED
  BY <1>1, <1>2 DEF Handler

\* Once it has begun to remove its client it does not serve it again.
LEMMA ServingBefore ==
  ASSUME TypeInv, NEW e \in Conns, Handler(e), NEW c \in Conns, Registered(c), Serving(c)'
  PROVE  Serving(c)
<1>0. pc \in [Conns -> Labels]
  BY DEF TypeInv, TypeOK
<1>1. CASE c # e
  BY <1>1, HandlerApart DEF Serving
<1>2. CASE c = e
  <2> SUFFICES ASSUME ~ Serving(e) PROVE FALSE
    BY <1>2
  <2>1. pc[e] \in {"rm_self", "rm_sock", "final_rm", "final_sock", "close", "done"}
    BY <1>0, <1>2 DEF Registered, Serving, Labels
  <2>2. RemoveSelf(e) \/ FinalRemove(e) \/ Untrack(e) \/ Close(e)
    <3>1. ~ (Track(e) \/ RegRead(e) \/ RegEnd(e) \/ CheckName(e) \/ Enter(e) \/ MakeList(e))
      BY <2>1 DEF Track, RegRead, RegEnd, CheckName, Enter, MakeList
    <3>2. ~ (Answer(e) \/ MainRead(e) \/ MainEnd(e) \/ RemoveOther(e))
      BY <2>1 DEF Answer, AfterReply, MainRead, MainEnd, RemoveOther
    <3>3. ~ (BroadcastBegin(e) \/ BroadcastNext(e) \/ BroadcastEnd(e))
      BY <2>1 DEF BroadcastBegin, BroadcastNext, BroadcastEnd
    <3> QED
      BY <3>1, <3>2, <3>3 DEF Handler
  <2>3. \E l \in {"rm_sock", "final_sock", "close", "final_rm", "done"} :
          pc' = [pc EXCEPT ![e] = l]
    <3>1. Untrack(e) => AfterUntrack[pc[e]] \in {"close", "final_rm"}
      BY DEF Untrack, AfterUntrack
    <3> QED
      BY <2>2, <3>1 DEF RemoveSelf, FinalRemove, Untrack, Close, GoTo
  <2> QED
    BY <1>0, <1>2, <2>3 DEF Serving
<1> QED
  BY <1>1, <1>2

\* Nor does it enter it again.
LEMMA PastServe ==
  ASSUME TypeInv, NEW e \in Conns, Handler(e), NEW c \in Conns, Past(c)
  PROVE  Past(c)'
<1>0. pc \in [Conns -> Labels]
  BY DEF TypeInv, TypeOK
<1>1. CASE c # e
  BY <1>1, HandlerApart DEF Past
<1>2. ASSUME c = e, NEW l, pc' = [pc EXCEPT ![e] = l],
             l \notin {"none", "track", "reg_read", "check", "add_peer", "reg_reply"}
      PROVE  Past(c)'
  BY <1>0, <1>2 DEF Past
<1>3. CASE c = e
  <2>1. ~ (Track(e) \/ RegRead(e) \/ RegEnd(e) \/ CheckName(e) \/ Enter(e))
    BY <1>3 DEF Track, RegRead, RegEnd, CheckName, Enter, Past
  <2>2. CASE MakeList(e)
    BY <1>2, <1>3, <2>2 DEF MakeList, GoTo
  <2>3. CASE Answer(e)
    <3>1. AfterReply[pc[e]] \in {"bcast_lock", "main_read"}
      BY <1>3, <2>3 DEF Answer, AfterReply, Past
    <3> QED
      BY <1>2, <1>3, <2>3, <3>1 DEF Answer, GoTo
  <2>4. CASE BroadcastBegin(e) \/ BroadcastEnd(e)
    BY <1>2, <1>3, <2>4 DEF BroadcastBegin, BroadcastEnd, GoTo
  <2>5. CASE BroadcastNext(e)
    BY <2>5 DEF BroadcastNext, locals, Past
  <2>6. CASE MainRead(e)
    <3>1. \E l \in {"main_list", "rm_self", "rm_other", "main_reply"} : GoTo(e, l)
      BY <2>6 DEF MainRead
    <3> QED
      BY <1>2, <1>3, <3>1 DEF GoTo
  <2>7. CASE MainEnd(e) \/ RemoveSelf(e) \/ RemoveOther(e) \/ FinalRemove(e) \/ Close(e)
    BY <1>2, <1>3, <2>7 DEF MainEnd, RemoveSelf, RemoveOther, FinalRemove, Close, GoTo
  <2>8. CASE Untrack(e)
    <3>1. AfterUntrack[pc[e]] \in {"close", "final_rm"}
      BY <2>8 DEF Untrack, AfterUntrack
    <3> QED
      BY <1>2, <1>3, <2>8, <3>1 DEF Untrack, GoTo
  <2> QED
    BY <2>1, <2>2, <2>3, <2>4, <2>5, <2>6, <2>7, <2>8 DEF Handler
<1> QED
  BY <1>1, <1>3

\* A read() that returns one command takes the first and moves the others up.
LEMMA CommandRead ==
  ASSUME TypeInv, NEW e \in Conns, MainRead(e), OneRead(e)
  PROVE  /\ pc[e] = "main_read" /\ UNCHANGED << peer_list, outbox, reply >>
         /\ request'[e] = inbox[e][1]
         /\ request'[e].verb = "GET_PEER_LIST" => pc'[e] = "main_list"
         /\ request'[e].verb = "PEER_DISCONNECTED" => pc'[e] = "rm_other"
         /\ Len(inbox[e]) \in Nat \ {0} /\ Len(inbox'[e]) = Len(inbox[e]) - 1
         /\ \A i \in 1 .. Len(inbox[e]) - 1 : inbox'[e][i] = inbox[e][i + 1]
<1>0. /\ pc \in [Conns -> Labels]
      /\ request \in [Conns -> Commands \cup {EndOfStream}]
  BY DEF TypeInv, TypeOK
<1>4. /\ Len(inbox[e]) \in Nat \ {0} /\ request'[e] = inbox[e][1]
      /\ Len(inbox'[e]) = Len(inbox[e]) - 1
      /\ \A i \in 1 .. Len(inbox[e]) - 1 : inbox'[e][i] = inbox[e][i + 1]
  BY ReadOne DEF MainRead
<1>5. /\ request'[e].verb = "GET_PEER_LIST" => pc'[e] = "main_list"
      /\ request'[e].verb = "PEER_DISCONNECTED" => pc'[e] = "rm_other"
  BY <1>0 DEF MainRead, GoTo
<1> QED
  BY <1>4, <1>5 DEF MainRead, tables

\* A handler that serves its client takes commands from its inbox by reading only.
LEMMA InboxServed ==
  ASSUME TypeInv, NEW e \in Conns, Handler(e), Serving(e), ~ MainRead(e)
  PROVE  /\ inbox'[e] = inbox[e]
         /\ pc[e] = "main_list" => MakeList(e)
         /\ pc[e] = "rm_other" => RemoveOther(e)
<1>1. CASE MakeList(e) \/ RemoveOther(e)
  BY <1>1 DEF MakeList, RemoveOther, socks
<1>2. CASE Answer(e)
  BY <1>2 DEF Answer, AfterReply, WriteTo
<1>3. CASE MainEnd(e) \/ BroadcastBegin(e) \/ BroadcastEnd(e)
  BY <1>3 DEF MainEnd, BroadcastBegin, BroadcastEnd, socks
<1>4. CASE BroadcastNext(e)
  BY <1>4 DEF BroadcastNext, WriteTo, socks
<1> QED
  BY <1>1, <1>2, <1>3, <1>4, ServingSteps

\* A request for the list is lost in no step but the one that makes it.
LEMMA ComingServe ==
  ASSUME TypeInv, NEW e \in Conns, Handler(e), NEW c \in Conns, c = e => OneRead(e),
         Serving(c), Coming(c), ~ (e = c /\ MakeList(e))
  PROVE  Coming(c)'
<1>1. CASE c # e
  BY <1>1, HandlerApart DEF Coming, Asked
<1>2. CASE c = e /\ ~ MainRead(e)
  BY <1>2, InboxServed DEF Coming, Asked
<1>3. CASE c = e /\ MainRead(e)
  <2>1. PICK i \in 1 .. Len(inbox[c]) : inbox[c][i].verb = "GET_PEER_LIST"
    BY <1>3 DEF Coming, Asked, MainRead
  <2>2. CASE i = 1
    BY <1>3, <2>1, <2>2, CommandRead DEF Coming
  <2>3. CASE i # 1
    <3>1. /\ Len(inbox[c]) \in Nat \ {0} /\ Len(inbox'[c]) = Len(inbox[c]) - 1
          /\ \A j \in 1 .. Len(inbox[c]) - 1 : inbox'[c][j] = inbox[c][j + 1]
      BY <1>3, CommandRead
    <3>2. i - 1 \in 1 .. Len(inbox'[c]) /\ i - 1 \in 1 .. Len(inbox[c]) - 1 /\ i - 1 + 1 = i
      BY <2>3, <3>1
    <3>3. inbox'[c][i - 1].verb = "GET_PEER_LIST"
      BY <2>1, <3>1, <3>2
    <3> QED
      BY <3>2, <3>3 DEF Coming, Asked
  <2> QED
    BY <2>2, <2>3
<1> QED
  BY <1>1, <1>2, <1>3

\* A handler takes nothing back that it has written.
LEMMA OutboxGrows ==
  ASSUME TypeInv, NEW e \in Conns, Handler(e), NEW c \in Conns
  PROVE  \/ outbox'[c] = outbox[c]
         \/ Answer(e) /\ c = e /\ outbox'[c] = Append(outbox[c], reply[c])
         \/ \E n \in Names : outbox'[c] = Append(outbox[c], NewPeer(n))
<1>1. CASE Silent(e)
  BY <1>1 DEF Silent
<1>2. CASE MakeList(e)
  BY <1>2, MakeListDoes
<1>3. CASE Answer(e)
  BY <1>3, AnswerDoes, ServeSeen
<1>4. CASE BroadcastNext(e)
  <2>1. username[e] \in Names
    BY <1>4 DEF BroadcastNext, TypeInv, Named
  <2> QED
    BY <1>4, <2>1, BroadcastDoes
<1> QED
  BY <1>1, <1>2, <1>3, <1>4, HandlerKinds

\* So a notification that is on its way stays there.
LEMMA WarnedServe ==
  ASSUME TypeInv, NEW e \in Conns, Handler(e), NEW c \in Conns, Warned(c),
         listener'[c] = listener[c]
  PROVE  Warned(c)'
<1>1. CASE outbox'[c] = outbox[c] \/ listener[c] = "notified"
  BY <1>1 DEF Warned
<1>2. ASSUME NEW m, outbox'[c] = Append(outbox[c], m), NEW i \in 1 .. Len(outbox[c]),
             outbox[c][i].kind = "NEW_PEER"
      PROVE  Warned(c)'
  <2>1. outbox[c] \in Seq(Replies)
    BY DEF TypeInv, TypeOK
  <2>2. i \in 1 .. Len(outbox'[c]) /\ outbox'[c][i] = outbox[c][i]
    BY <1>2, <2>1
  <2> QED
    BY <1>2, <2>2 DEF Warned
<1> QED
  BY <1>1, <1>2, OutboxGrows DEF Warned

\* Whom a handler has yet to tell it will, unless it has just done so.
LEMMA OwesServe ==
  ASSUME TypeInv, TableInv, BroadcastSound, NEW e \in Conns, Handler(e),
         NEW d \in Conns, NEW c \in Conns, d # c, Owes(d, c), Serving(c), peer_end[c] = "open"
  PROVE  Owes(d, c)' \/ Warned(c)'
<1>0. /\ pc \in [Conns -> Labels] /\ client_sockets \in Seq(Conns) /\ cursor \in Nat \ {0}
      /\ outbox \in [Conns -> Seq(Replies)]
  BY DEF TypeInv, TypeOK
<1>1. CASE pc[d] \in {"reg_list", "list_reply", "bcast_lock"}
  <2>1. CASE e # d
    BY <1>1, <2>1, HandlerApart DEF Owes
  <2>2. CASE e = d /\ pc[d] # "bcast_lock"
    <3>1. MakeList(d) \/ Answer(d)
      <4>1. ~ (Track(d) \/ RegRead(d) \/ RegEnd(d) \/ CheckName(d) \/ Enter(d))
        BY <1>1 DEF Track, RegRead, RegEnd, CheckName, Enter
      <4>2. ~ (RemoveSelf(d) \/ RemoveOther(d) \/ FinalRemove(d) \/ Untrack(d) \/ Close(d))
        BY <1>1 DEF RemoveSelf, RemoveOther, FinalRemove, Untrack, AfterUntrack, Close
      <4>3. ~ (MainRead(d) \/ MainEnd(d) \/ BroadcastBegin(d) \/ BroadcastNext(d)
               \/ BroadcastEnd(d))
        BY <1>1, <2>2 DEF MainRead, MainEnd, BroadcastBegin, BroadcastNext, BroadcastEnd
      <4> QED
        BY <2>2, <4>1, <4>2, <4>3 DEF Handler
    <3>2. pc' = [pc EXCEPT ![d] = "list_reply"] \/ pc' = [pc EXCEPT ![d] = "bcast_lock"]
      BY <1>1, <3>1 DEF MakeList, Answer, AfterReply, GoTo
    <3> QED
      BY <1>0, <3>2 DEF Owes
  <2>3. CASE e = d /\ pc[d] = "bcast_lock"
    <3>1. BroadcastBegin(d)
      BY <2>3, ServingSteps DEF Serving, MakeList, Answer, AfterReply, MainRead, MainEnd,
                                RemoveOther, BroadcastNext, BroadcastEnd
    <3>2. pc'[d] = "bcast" /\ cursor' = 1 /\ client_sockets' = client_sockets
      BY <1>0, <3>1 DEF BroadcastBegin, GoTo, tables
    <3>3. c \in Range(client_sockets)
      BY DEF TableInv, ClientTableSound, Tracked, Serving, Labels
    <3> QED
      BY <1>0, <3>2, <3>3 DEF Owes, Range
  <2> QED
    BY <1>1, <2>1, <2>2, <2>3
<1>2. ASSUME pc[d] = "bcast", NEW i \in cursor .. Len(client_sockets), client_sockets[i] = c
      PROVE  Owes(d, c)' \/ Warned(c)'
  <2>0. client_mutex = d /\ client_mutex # NoConn /\ i \in Nat \ {0}
    BY <1>0, <1>2, ServerConstants DEF BroadcastSound, ServerConstants
  <2>1. CASE e = d
    <3>1. BroadcastNext(d)
      <4>1. ~ BroadcastEnd(d)
        BY <1>0, <1>2 DEF BroadcastEnd
      <4> QED
        BY <1>2, <2>1, <4>1, ServingSteps DEF Serving, MakeList, Answer, AfterReply, MainRead,
                                MainEnd, RemoveOther, BroadcastBegin
    <3>2. pc' = pc /\ cursor' = cursor + 1 /\ client_sockets' = client_sockets
      BY <3>1 DEF BroadcastNext, locals, tables
    <3>3. CASE i = cursor
      <4>1. outbox'[c] = Append(outbox[c], NewPeer(username[d]))
        BY <1>2, <3>1, <3>3, BroadcastDoes
      <4>2. NewPeer(username[d]) \in Replies /\ NewPeer(username[d]).kind = "NEW_PEER"
        BY <3>1, BroadcastDoes
      <4>3. /\ Len(outbox[c]) + 1 \in 1 .. Len(outbox'[c])
            /\ outbox'[c][Len(outbox[c]) + 1] = NewPeer(username[d])
        BY <1>0, <4>1, <4>2
      <4> QED
        BY <4>2, <4>3 DEF Warned
    <3>4. CASE i # cursor
      <4>1. i \in cursor' .. Len(client_sockets')
        BY <1>0, <3>2, <3>4
      <4> QED
        BY <1>2, <3>2, <4>1 DEF Owes
    <3> QED
      BY <3>3, <3>4
  <2>2. CASE e # d
    <3>1. pc[e] # "bcast"
      BY <2>0, <2>2 DEF BroadcastSound
    <3>2. ~ (Track(e) \/ Untrack(e) \/ BroadcastBegin(e) \/ BroadcastNext(e) \/ BroadcastEnd(e))
      BY <2>0, <3>1 DEF Track, Untrack, BroadcastBegin, BroadcastNext, BroadcastEnd
    <3>3. UNCHANGED << client_sockets, cursor >>
      <4>1. CASE RegRead(e) \/ RegEnd(e) \/ CheckName(e) \/ Enter(e) \/ MakeList(e)
        BY <4>1 DEF RegRead, RegEnd, CheckName, Enter, MakeList, tables, lock
      <4>2. CASE Answer(e) \/ MainRead(e) \/ MainEnd(e) \/ RemoveSelf(e) \/ RemoveOther(e)
        BY <4>2 DEF Answer, MainRead, MainEnd, RemoveSelf, RemoveOther, tables, lock
      <4>3. CASE FinalRemove(e) \/ Close(e)
        BY <4>3 DEF FinalRemove, Close, tables, lock
      <4> QED
        BY <3>2, <4>1, <4>2, <4>3 DEF Handler
    <3>4. pc'[d] = "bcast"
      BY <1>2, <2>2, HandlerApart
    <3> QED
      BY <1>2, <3>3, <3>4 DEF Owes
  <2> QED
    BY <2>1, <2>2
<1> QED
  BY <1>1, <1>2 DEF Owes

-----------------------------------------------------------------------------
(* A client's own list against the server's.                               *)

\* A step of a handler lists nobody but its client, and takes some out.
LEMMA RegistryServe ==
  ASSUME TypeInv, NEW own \in [Conns -> Names], OwnNames(own), OwnInv(own),
         NEW e \in Conns, Handler(e)
  PROVE  /\ \A p \in Range(peer_list') :
              \/ p \in Range(peer_list)
              \/ Enter(e) /\ p.addr = e /\ p.username = own[e]
         /\ RemoveOther(e) => \A p \in Range(peer_list') : p.username # request[e].name
<1>0. peer_list \in Seq(Peers)
  BY DEF TypeInv, TypeOK
<1>1. ASSUME NEW n, peer_list' = RemovePeer(peer_list, n)
      PROVE  Range(peer_list') = {p \in Range(peer_list) : p.username # n}
  BY <1>0, <1>1, OwnEntries, RemovePeerUnique
<1>2. CASE Enter(e)
  <2> DEFINE new == [username |-> username[e], addr |-> e]
  <2>1. username[e] = own[e] /\ new \in Peers
    BY <1>2, ServerConstants DEF Enter, TypeInv, Named, OwnInv, Peers, ServerConstants
  <2>2. new.addr = e /\ new.username = own[e]
    BY <2>1
  <2>3. peer_list' \in {peer_list, Append(peer_list, new)}
    BY <1>2 DEF Enter, AddPeer
  <2> HIDE DEF new
  <2>4. \A p \in Range(Append(peer_list, new)) : p \in Range(peer_list) \/ p = new
    BY <1>0, <2>1 DEF Range
  <2>5. ~ RemoveOther(e)
    BY <1>2 DEF Enter, RemoveOther
  <2> QED
    BY <1>2, <2>2, <2>3, <2>4, <2>5
<1>3. CASE RemoveSelf(e) \/ FinalRemove(e)
  <2>1. ~ RemoveOther(e)
    BY <1>3 DEF RemoveSelf, FinalRemove, RemoveOther
  <2> QED
    BY <1>1, <1>3, <2>1 DEF RemoveSelf, FinalRemove
<1>4. CASE RemoveOther(e)
  BY <1>1, <1>4 DEF RemoveOther
<1>6. CASE \/ Track(e) \/ RegRead(e) \/ RegEnd(e) \/ CheckName(e) \/ MakeList(e) \/ Answer(e)
           \/ BroadcastBegin(e) \/ BroadcastNext(e) \/ BroadcastEnd(e) \/ MainRead(e)
           \/ MainEnd(e) \/ Untrack(e) \/ Close(e)
  <2>1. UNCHANGED peer_list
    <3>1. CASE Track(e) \/ RegRead(e) \/ RegEnd(e) \/ CheckName(e) \/ MakeList(e)
      BY <3>1 DEF Track, RegRead, RegEnd, CheckName, MakeList, tables
    <3>2. CASE Answer(e) \/ BroadcastBegin(e) \/ BroadcastNext(e) \/ BroadcastEnd(e)
      BY <3>2 DEF Answer, BroadcastBegin, BroadcastNext, BroadcastEnd, tables
    <3>3. CASE MainRead(e) \/ MainEnd(e) \/ Untrack(e) \/ Close(e)
      BY <3>3 DEF MainRead, MainEnd, Untrack, Close, tables
    <3> QED
      BY <1>6, <3>1, <3>2, <3>3
  <2>2. ~ RemoveOther(e)
    <3>1. CASE Track(e) \/ RegRead(e) \/ RegEnd(e) \/ CheckName(e) \/ MakeList(e)
      BY <3>1 DEF Track, RegRead, RegEnd, CheckName, MakeList, RemoveOther
    <3>2. CASE Answer(e) \/ BroadcastBegin(e) \/ BroadcastNext(e) \/ BroadcastEnd(e)
      BY <3>2 DEF Answer, AfterReply, BroadcastBegin, BroadcastNext, BroadcastEnd, RemoveOther
    <3>3. CASE MainRead(e) \/ MainEnd(e) \/ Untrack(e) \/ Close(e)
      BY <3>3 DEF MainRead, MainEnd, Untrack, AfterUntrack, Close, RemoveOther
    <3> QED
      BY <1>6, <3>1, <3>2, <3>3
  <2> QED
    BY <2>1, <2>2
<1> QED
  BY <1>2, <1>3, <1>4, <1>6 DEF Handler

\* What a handler makes for its client is the registry without that client.
LEMMA ListMade ==
  ASSUME TypeInv, NEW own \in [Conns -> Names], OwnNames(own), OwnInv(own),
         NEW c \in Conns, MakeList(c)
  PROVE  \E S \in SUBSET Range(peer_list) :
           Newest(c, S)' /\ \A p \in Range(peer_list) : p.addr # c => p \in S
<1> DEFINE S == Listing(peer_list, username[c])
<1>1. \A p \in Range(peer_list) : p.addr # c => p.username # username[c]
  <2>1. \A p \in Range(peer_list) : p.addr \in Conns /\ p.username = own[p.addr]
    BY OwnEntries
  <2>2. username[c] \in {NoName, own[c]} /\ \A d \in Conns : own[d] # NoName
    BY ServerConstants DEF OwnInv, ServerConstants
  <2> QED
    BY <2>1, <2>2 DEF OwnNames
<1>2. S \in SUBSET Range(peer_list) /\ \A p \in Range(peer_list) : p.addr # c => p \in S
  BY <1>1 DEF Listing
<1>3. pc'[c] \in {"list_reply", "main_reply"} /\ reply'[c] = PeerList(S)
  BY MakeListDoes
<1> HIDE DEF S
<1>4. PICK T \in SUBSET Range(peer_list) : T = S
  BY <1>2
<1>5. Newest(c, T)'
  BY <1>3, <1>4 DEF Newest, ReplyList, PeerList
<1> QED
  BY <1>2, <1>4, <1>5

\* A client with a menu has every peer of the registry in its newest list, or
\* will be told of it, or has asked for the list, or is about to ask.
FetchInv ==
  \A c \in Conns : main[c] \in AtHome \ {"start"} /\ Serving(c) /\ ~ merged[c] =>
    \A p \in Range(peer_list) :
      \/ p.addr = c \/ Owes(p.addr, c) \/ Warned(c) \/ Coming(c)
      \/ \E S : Newest(c, S) /\ p \in S

\* While a client is served its end of the connection is open.
LEMMA ServedIsOpen ==
  ASSUME NetInv, NEW c \in Conns, main[c] \in AtHome, Serving(c)
  PROVE  peer_end[c] = "open" /\ sock[c] = "open"
  BY DEF NetInv, Session, AtHome, Serving, ClientTypes

\* The server keeps it so.
LEMMA FetchServe ==
  ASSUME NetInv, TableInv, BroadcastSound, ListInv, ChatInv, ReplyInv, FetchInv,
         NEW own \in [Conns -> Names], OwnNames(own), OwnInv(own), NEW e \in Conns, Serve(e),
         [NetNext]_net_vars
  PROVE  FetchInv'
<1> USE DEF NetInv
<1>0. Handler(e) /\ UNCHANGED << main, listener, list >>
  BY DEF Serve, threads, shared
<1> SUFFICES ASSUME NEW c \in Conns, main'[c] \in AtHome \ {"start"}, Serving(c)',
                    ~ merged'[c], NEW p \in Range(peer_list'), p.addr # c
             PROVE  \/ Owes(p.addr, c)' \/ Warned(c)' \/ Coming(c)'
                    \/ \E S : Newest(c, S)' /\ p \in S
  BY DEF FetchInv
<1>1. /\ main[c] \in AtHome \ {"start"} /\ Serving(c)
      /\ ~ merged[c] /\ (c = e => OneRead(e))
  BY <1>0, ServingBefore, NotMerged DEF ChatInv
<1>2. peer_end[c] = "open"
  BY <1>1, ServedIsOpen
<1>3. CASE Enter(e) /\ p.addr = e
  <2>1. pc'[e] = "reg_list"
    BY <1>3 DEF Enter, GoTo, TypeInv, TypeOK
  <2> QED
    BY <1>3, <2>1 DEF Owes
<1>4. CASE p \in Range(peer_list)
  <2>1. p.addr \in Conns
    BY <1>4, OwnEntries
  <2>2. CASE e = c /\ MakeList(c)
    BY <1>4, <2>2, ListMade
  <2>3. CASE ~ (e = c /\ MakeList(c))
    <3>1. CASE Owes(p.addr, c)
      BY <1>0, <1>1, <1>2, <2>1, <3>1, OwesServe
    <3>2. CASE Warned(c)
      BY <1>0, <3>2, WarnedServe
    <3>3. CASE Coming(c)
      BY <1>0, <1>1, <2>3, <3>3, ComingServe
    <3>4. ASSUME NEW S, Newest(c, S), p \in S
          PROVE  Newest(c, S)'
      BY <1>0, <1>2, <2>3, <3>4, NewestServe
    <3> QED
      BY <1>1, <1>4, <3>1, <3>2, <3>3, <3>4 DEF FetchInv
  <2> QED
    BY <2>2, <2>3
<1> QED
  BY <1>0, <1>3, <1>4, RegistryServe

-----------------------------------------------------------------------------
(* The steps of the clients, by what they do to one client.                *)

\* The steps of client c.
ClientSteps(c) ==
  Writing(c) \/ ReadAnswer(c) \/ Listen(c) \/ AtTheMenu(c) \/ ListenerEnds(c) \/ Ending(c)

\* A step that does not concern client c or its connection.
Untouched(c) ==
  /\ main'[c] = main[c] /\ list'[c] = list[c] /\ listener'[c] = listener[c]
  /\ dialed'[c] = dialed[c] /\ outbox'[c] = outbox[c] /\ inbox'[c] = inbox[c]

\* The steps of a client do not concern the others.
LEMMA OthersUntouched ==
  ASSUME NetInv, NEW e \in Conns, ClientSteps(e), NEW c \in Conns \ {e}
  PROVE  Untouched(c)
<1> USE DEF NetInv
<1>0. /\ main \in [Conns -> MainLabels] /\ list \in [Conns -> SUBSET Peers]
      /\ listener \in [Conns -> {"none", "run", "notified", "ended"}]
      /\ dialed \in [Conns -> Names \cup {NoName}]
      /\ inbox \in [Conns -> Seq(Commands)] /\ outbox \in [Conns -> Seq(Replies)]
  BY DEF ClientTypes, TypeInv, TypeOK
<1>1. CASE Writing(e)
  <2>1. PICK m \in Commands : WriteServer(e, m)
    BY <1>1, WritingWrites, ClientCommandTypes
  <2>2. outbox'[c] = outbox[c] /\ inbox'[c] = inbox[c]
    BY <1>0, <2>1, WriteServerKeeps
  <2>3. \/ EnterName(e) /\ MainGoes(e, "answer") /\ UNCHANGED << list, listener, dialed >>
        \/ MainWrites(e) /\ MainGoes(e, AfterMainCommand[main[e]])
           /\ UNCHANGED << list, listener, dialed >>
        \/ HandlerWrites(e) /\ UNCHANGED << main, list, listener, dialed >>
        \/ ListenerWrites(e) /\ listener' = [listener EXCEPT ![e] = "run"]
           /\ UNCHANGED << main, list, dialed >>
    BY <1>1 DEF Writing, EnterName, MainWrites, HandlerWrites, ListenerWrites, shared
  <2> QED
    BY <1>0, <2>2, <2>3 DEF MainGoes, Untouched
<1>2. CASE ReadAnswer(e)
  <2>1. PICK k \in Returned(outbox[e]) :
          /\ ReadServer(e, k)
          /\ list' = list \/ list' = [list EXCEPT ![e] = Entries(e, k)]
          /\ listener' = listener \/ listener' = [listener EXCEPT ![e] = "run"]
          /\ \E l : MainGoes(e, l)
    BY <1>2 DEF ReadAnswer
  <2> QED
    BY <1>0, <1>2, <2>1 DEF ReadAnswer, ReadServer, MainGoes, Untouched
<1>3. CASE Listen(e)
  <2>1. /\ \E k : outbox' = [outbox EXCEPT ![e] = SubSeq(@, k + 1, Len(@))]
        /\ \E l : listener' = [listener EXCEPT ![e] = l]
        /\ \E l : list' = [list EXCEPT ![e] = l]
        /\ UNCHANGED << main, dialed, inbox >>
    BY <1>3 DEF Listen, ReadServer
  <2> QED
    BY <1>0, <2>1 DEF Untouched
<1>4. CASE AtTheMenu(e)
  <2>1. UNCHANGED << outbox, inbox >>
    BY <1>4, MenuKeeps DEF vars, socks
  <2>2. /\ UNCHANGED << list, listener >>
        /\ main' = main \/ \E l : MainGoes(e, l)
        /\ dialed' = dialed \/ \E n : dialed' = [dialed EXCEPT ![e] = n]
    BY <1>4 DEF AtTheMenu, SeeMenu, NoCall, Exit, ChatThreadEnds, ChatEnds, BindAndListen, CallFails,
                CallAccepted, shared, threads
  <2> QED
    BY <1>0, <2>1, <2>2 DEF MainGoes, Untouched
<1>5. CASE ListenerEnds(e)
  <2>1. UNCHANGED << outbox, inbox >>
    BY <1>5, ListenerEndsKeeps DEF vars, socks
  <2> QED
    BY <1>0, <1>5, <2>1 DEF ListenerEnds, Untouched
<1>6. CASE Ending(e)
  <2>1. /\ MainGoes(e, "gone") /\ listener' = [listener EXCEPT ![e] = "ended"] /\ HangUp(e)
        /\ UNCHANGED << list, dialed >>
    BY <1>6, EndingEnds DEF EndProcess, shared
  <2>2. outbox'[c] = outbox[c] /\ inbox' = inbox
    BY <2>1, HangUpKeeps
  <2> QED
    BY <1>0, <2>1, <2>2 DEF MainGoes, Untouched
<1> QED
  BY <1>1, <1>2, <1>3, <1>4, <1>5, <1>6 DEF ClientSteps

\* A connection is opened: nothing else happens.
LEMMA ConnectDoes ==
  ASSUME NetInv, NEW e \in Conns, Connect(e)
  PROVE  /\ pc[e] = "none" /\ pc'[e] \in {"track", "done"} /\ main'[e] = "ask"
         /\ \A c \in Conns \ {e} :
              Untouched(c) /\ pc'[c] = pc[c] /\ main'[c] = main[c] /\ peer_end'[c] = peer_end[c]
         /\ UNCHANGED << list, listener, dialed, outbox, inbox, reply, request, tables, told >>
<1> USE DEF NetInv
<1>0. /\ pc \in [Conns -> Labels] /\ main \in [Conns -> MainLabels]
      /\ peer_end \in [Conns -> {"idle", "open", "closed", "reset"}]
  BY DEF TypeInv, TypeOK, ClientTypes
<1>1. main' = [main EXCEPT ![e] = "ask"] /\ UNCHANGED << list, listener, dialed >>
  BY DEF Connect, MainGoes
<1>2. /\ pc[e] = "none" /\ \E l \in {"track", "done"} : pc' = [pc EXCEPT ![e] = l]
      /\ peer_end' = peer_end \/ peer_end' = [peer_end EXCEPT ![e] = "open"]
      /\ UNCHANGED << outbox, inbox, reply, request, tables, told >>
  BY DEF Connect, MainThread, Accept, AcceptFails, GoTo, socks
<1> QED
  BY <1>0, <1>1, <1>2 DEF Untouched

\* What a client does at its menu.
LEMMA MenuDoes ==
  ASSUME NetInv, NEW c \in Conns, AtTheMenu(c)
  PROVE  /\ outbox'[c] = outbox[c] /\ inbox'[c] = inbox[c]
         /\ list'[c] = list[c] /\ listener'[c] = listener[c]
         /\ \/ main'[c] = main[c]
            \/ /\ main[c] \in {"top", "menu", "chat"}
               /\ main'[c] \in {"top", "menu", "exit", "leave", "back", "report"}
         /\ \/ dialed'[c] = dialed[c]
            \/ /\ main'[c] = "report"
               /\ \E p \in list[c] : dialed'[c] = p.username
<1>0. main \in [Conns -> MainLabels] /\ dialed \in [Conns -> Names \cup {NoName}]
  BY DEF NetInv, ClientTypes
<1>1. UNCHANGED << outbox, inbox >>
  BY MenuKeeps DEF vars, socks
<1>2. UNCHANGED << list, listener >>
  BY DEF AtTheMenu, SeeMenu, NoCall, Exit, ChatThreadEnds, ChatEnds, BindAndListen, CallFails, CallAccepted,
         shared, threads
<1>3. \/ main' = main /\ UNCHANGED dialed
      \/ \E l \in {"top", "menu", "exit", "leave", "back"} :
           main[c] \in {"top", "menu", "chat"} /\ MainGoes(c, l) /\ UNCHANGED dialed
      \/ /\ main[c] = "menu" /\ MainGoes(c, "report")
         /\ \E p \in list[c] : dialed' = [dialed EXCEPT ![c] = p.username]
  <2>1. CASE SeeMenu(c) \/ NoCall(c) \/ Exit(c)
    BY <2>1 DEF SeeMenu, NoCall, Exit
  <2>2. CASE ChatThreadEnds(c) \/ ChatEnds(c) \/ BindAndListen(c)
    BY <2>2 DEF ChatThreadEnds, ChatEnds, BindAndListen, threads
  <2>3. CASE \E p \in Peers : CallFails(c, p) \/ CallAccepted(c, p)
    BY <2>3 DEF CallFails, CallAccepted, Dial, Callable
  <2> QED
    BY <2>1, <2>2, <2>3 DEF AtTheMenu
<1> QED
  BY <1>0, <1>1, <1>2, <1>3 DEF MainGoes

\* What a client does that writes: the command arrives unless the server has
\* closed its end.
LEMMA WritingDoes ==
  ASSUME NetInv, NEW c \in Conns, Writing(c)
  PROVE  /\ outbox'[c] = outbox[c] /\ list'[c] = list[c] /\ dialed'[c] = dialed[c]
         /\ \E m \in Commands :
              /\ inbox'[c] = Append(inbox[c], m) \/ pc[c] = "done"
              /\ \/ /\ main[c] = "ask" /\ main'[c] = "answer"
                    /\ listener'[c] = listener[c]
                 \/ /\ main[c] \in DOMAIN AfterMainCommand /\ m = MainCommand(c)
                    /\ main'[c] = AfterMainCommand[main[c]] /\ listener'[c] = listener[c]
                 \/ main'[c] = main[c] /\ listener'[c] = listener[c]
                 \/ main'[c] = main[c] /\ listener'[c] = "run" /\ m = GetPeerList
<1> USE DEF NetInv
<1>0. /\ main \in [Conns -> MainLabels]
      /\ listener \in [Conns -> {"none", "run", "notified", "ended"}]
      /\ inbox \in [Conns -> Seq(Commands)] /\ sock[c] \in {"open", "closed"} /\ Session(c)
  BY DEF ClientTypes, TypeInv, TypeOK
<1>1. ASSUME NEW m \in Commands, WriteServer(c, m)
      PROVE  outbox'[c] = outbox[c] /\ (inbox'[c] = Append(inbox[c], m) \/ pc[c] = "done")
  <2>1. outbox' = outbox
    BY <1>1 DEF WriteServer
  <2>2. sock[c] = "closed" => pc[c] = "done"
    BY <1>0 DEF Session
  <2>3. inbox' = [inbox EXCEPT ![c] = Append(@, m)] \/ pc[c] = "done"
    BY <1>0, <1>1, <2>2 DEF WriteServer
  <2> QED
    BY <1>0, <2>1, <2>3
<1>2. \A m : Writes(c, m) => m \in Commands
  BY WritesCommand, ClientCommandTypes
<1>3. CASE EnterName(c)
  <2>1. PICK m : Writes(c, m) /\ WriteServer(c, m)
    BY <1>3 DEF EnterName, Writes
  <2>2. /\ main[c] = "ask" /\ main'[c] = "answer"
        /\ UNCHANGED << listener, list, dialed >>
    BY <1>0, <1>3 DEF EnterName, MainGoes
  <2> QED
    BY <1>1, <1>2, <2>1, <2>2
<1>4. CASE MainWrites(c)
  <2> DEFINE m == MainCommand(c)
  <2>1. Writes(c, m) /\ WriteServer(c, m)
    BY <1>4 DEF MainWrites, Writes
  <2>2. main[c] \in DOMAIN AfterMainCommand /\ UNCHANGED << listener, list, dialed >>
    BY <1>4 DEF MainWrites
  <2>3. main'[c] = AfterMainCommand[main[c]]
    BY <1>0, <1>4 DEF MainWrites, MainGoes
  <2> HIDE DEF m
  <2>4. m \in Commands /\ (inbox'[c] = Append(inbox[c], m) \/ pc[c] = "done")
        /\ outbox'[c] = outbox[c]
    BY <1>1, <1>2, <2>1
  <2> QED
    BY <2>2, <2>3, <2>4 DEF m
<1>5. CASE HandlerWrites(c)
  <2>1. Writes(c, HandlerCommand(c)) /\ WriteServer(c, HandlerCommand(c))
    BY <1>5 DEF HandlerWrites, Writes
  <2>2. UNCHANGED << main, listener, list, dialed >>
    BY <1>5 DEF HandlerWrites
  <2> QED
    BY <1>1, <1>2, <2>1, <2>2
<1>6. CASE ListenerWrites(c)
  <2>1. WriteServer(c, GetPeerList) /\ GetPeerList \in Commands
    BY <1>6, CommandTypes DEF ListenerWrites
  <2>2. listener'[c] = "run" /\ UNCHANGED << main, list, dialed >>
    BY <1>0, <1>6 DEF ListenerWrites, shared
  <2> QED
    BY <1>1, <2>1, <2>2
<1> QED
  BY <1>3, <1>4, <1>5, <1>6 DEF Writing

\* What the listener does, unless it reads more than one message.
LEMMA ListenDoes ==
  ASSUME NetInv, NEW c \in Conns, Listen(c), ~ merged'[c]
  PROVE  /\ main'[c] = main[c] /\ dialed'[c] = dialed[c] /\ inbox'[c] = inbox[c]
         /\ outbox[c] # << >> /\ outbox'[c] = Tail(outbox[c])
         /\ list'[c] = IF Head(outbox[c]).kind = "PEER_LIST" THEN Head(outbox[c]).peers
                                                           ELSE list[c]
         /\ listener[c] = "run"
         /\ listener'[c] = IF Head(outbox[c]).kind = "NEW_PEER" THEN "notified" ELSE "run"
<1> USE DEF NetInv
<1>0. /\ outbox \in [Conns -> Seq(Replies)] /\ list \in [Conns -> SUBSET Peers]
      /\ listener \in [Conns -> {"none", "run", "notified", "ended"}]
      /\ merged \in [Conns -> BOOLEAN]
  BY DEF ClientTypes, TypeInv, TypeOK
<1>1. PICK k \in Returned(outbox[c]) :
        /\ merged' = [merged EXCEPT ![c] = @ \/ k > 1]
        /\ outbox' = [outbox EXCEPT ![c] = SubSeq(@, k + 1, Len(@))]
        /\ listener' = [listener EXCEPT ![c] =
                          IF Head(outbox[c]).kind = "NEW_PEER" THEN "notified" ELSE @]
        /\ list' = [list EXCEPT ![c] =
                      IF Head(outbox[c]).kind = "PEER_LIST" THEN Entries(c, k) ELSE @]
  BY DEF Listen, ReadServer
<1>2. k = 1 /\ 1 <= Len(outbox[c]) /\ outbox[c] \in Seq(Replies)
  <2>1. ~ (k > 1)
    <3>1. merged'[c] = (merged[c] \/ k > 1)
      BY <1>0, <1>1, Zenon
    <3> QED
      BY <3>1
  <2> QED
    BY <1>0, <2>1 DEF Returned
<1>3. listener[c] = "run" /\ UNCHANGED << main, dialed, inbox >>
  BY DEF Listen, ReadServer
<1>4. outbox[c] # << >> /\ outbox'[c] = Tail(outbox[c]) /\ Head(outbox[c]) = outbox[c][1]
  BY <1>0, <1>1, <1>2
<1>5. Head(outbox[c]).kind = "PEER_LIST" => Entries(c, 1) = Head(outbox[c]).peers
  <2> DEFINE s == SubSeq(outbox[c], 1, 1)
  <2>1. s \in Seq(Replies) /\ Len(s) = 1 /\ s[1] = outbox[c][1]
    BY <1>2, SubSeqProperties
  <2> HIDE DEF s
  <2>2. Range(s) = {outbox[c][1]}
    BY <2>1 DEF Range
  <2> QED
    BY <1>4, <2>2 DEF Entries, s
<1> QED
  BY <1>0, <1>1, <1>2, <1>3, <1>4, <1>5

\* What a client at home may have done, as long as the server is there to answer.
LEMMA HomeSteps ==
  ASSUME NetInv, NEW c \in Conns, ClientSteps(c), main'[c] \in AtHome, pc[c] # "done"
  PROVE  \/ Writing(c) \/ Listen(c) \/ AtTheMenu(c)
         \/ ReadAnswer(c) /\ main'[c] = "start"
<1>0. main \in [Conns -> MainLabels]
  BY DEF NetInv, ClientTypes
<1>1. ~ ListenerEnds(c)
  BY DEF ListenerEnds, ServerHungUp
<1>2. ~ Ending(c)
  <2>1. Ending(c) => MainGoes(c, "gone")
    BY EndingEnds DEF EndProcess
  <2> QED
    BY <1>0, <2>1 DEF MainGoes, AtHome
<1>3. ReadAnswer(c) => main'[c] \in {"start", "ask", "closing"}
  BY <1>0 DEF ReadAnswer, MainGoes
<1> QED
  BY <1>1, <1>2, <1>3 DEF ClientSteps, AtHome

\* A client at home has a listener, as long as the server is there.
ListenerInv ==
  \A c \in Conns : main[c] \in AtHome => listener[c] \in {"run", "notified"} \/ pc[c] = "done"

\* It is started before the menu and ends after the server.
LEMMA ListenerStep ==
  ASSUME NetInv, ListenerInv, [NetNext]_net_vars
  PROVE  ListenerInv'
<1> USE DEF NetInv
<1>1. ASSUME NEW e \in Conns, Connect(e) PROVE ListenerInv'
  BY <1>1, ConnectDoes DEF ListenerInv, AtHome, Untouched
<1>2. ASSUME NEW e \in Conns, Serve(e) PROVE ListenerInv'
  <2>1. Handler(e) /\ UNCHANGED << main, listener >>
    BY <1>2 DEF Serve, threads
  <2> QED
    BY <2>1, ServeSeen DEF ListenerInv
<1>3. ASSUME NEW e \in Conns, ClientSteps(e), ~ \E c \in Conns : Connect(c) \/ Serve(c),
             [NetNext]_net_vars
      PROVE  ListenerInv'
  <2>0. pc' = pc
    BY <1>3, TwoKinds DEF ClientSide, locals
  <2> SUFFICES ASSUME NEW c \in Conns, main'[c] \in AtHome, pc[c] # "done"
               PROVE  listener'[c] \in {"run", "notified"}
    BY <2>0 DEF ListenerInv
  <2>1. CASE c # e
    <3>1. Untouched(c)
      BY <1>3, <2>1, OthersUntouched
    <3> QED
      BY <3>1 DEF Untouched, ListenerInv
  <2>2. CASE c = e /\ Writing(c)
    <3>1. DOMAIN AfterMainCommand \subseteq AtHome
      BY DEF AfterMainCommand, AtHome
    <3> QED
      BY <2>2, <3>1, WritingDoes DEF ListenerInv, AtHome
  <2>3. CASE c = e /\ Listen(c)
    BY <2>3 DEF Listen, ClientTypes
  <2>4. CASE c = e /\ AtTheMenu(c)
    BY <2>4, MenuDoes DEF ListenerInv, AtHome
  <2>5. CASE c = e /\ ReadAnswer(c) /\ main'[c] = "start"
    <3>1. MainGoes(c, "start") /\ listener' = [listener EXCEPT ![c] = "run"]
      <4>1. main \in [Conns -> MainLabels]
        BY DEF ClientTypes
      <4> QED
        BY <2>5, <4>1 DEF ReadAnswer, MainGoes
    <3> QED
      BY <3>1 DEF ClientTypes
  <2> QED
    BY <1>3, <2>1, <2>2, <2>3, <2>4, <2>5, HomeSteps
<1>4. CASE UNCHANGED net_vars
  BY <1>4 DEF net_vars, client_vars, threads, vars, locals, ListenerInv
<1> QED
  BY <1>1, <1>2, <1>3, <1>4, NetSteps DEF ClientSteps

\* What a client's inbox holds, another command behind it does not change.
LEMMA InboxGrows ==
  ASSUME TypeInv, NEW c \in Conns, NEW m \in Commands, inbox'[c] = Append(inbox[c], m)
  PROVE  /\ Len(inbox[c]) \in Nat /\ Len(inbox'[c]) = Len(inbox[c]) + 1
         /\ \A i \in 1 .. Len(inbox[c]) : i \in 1 .. Len(inbox'[c]) /\ inbox'[c][i] = inbox[c][i]
         /\ Len(inbox[c]) + 1 \in 1 .. Len(inbox'[c]) /\ inbox'[c][Len(inbox[c]) + 1] = m
         /\ Asked(c) => Asked(c)'
         /\ m = GetPeerList => Asked(c)'
<1>1. inbox[c] \in Seq(Commands)
  BY DEF TypeInv, TypeOK
<1>2. /\ Len(inbox[c]) \in Nat /\ Len(inbox'[c]) = Len(inbox[c]) + 1
      /\ \A i \in 1 .. Len(inbox[c]) : inbox'[c][i] = inbox[c][i]
      /\ inbox'[c][Len(inbox[c]) + 1] = m
  BY <1>1
<1>3. /\ \A i \in 1 .. Len(inbox[c]) : i \in 1 .. Len(inbox'[c])
      /\ Len(inbox[c]) + 1 \in 1 .. Len(inbox'[c])
  BY <1>2
<1>4. Asked(c) => Asked(c)'
  BY <1>2, <1>3 DEF Asked
<1>5. m = GetPeerList => Asked(c)'
  BY <1>2, <1>3 DEF Asked, GetPeerList, Command
<1> QED
  BY <1>2, <1>3, <1>4, <1>5

\* A client at home forgets its newest list for a newer one only.
LEMMA NewestClient ==
  ASSUME NetInv, NEW c \in Conns, ClientSteps(c), ~ merged'[c], UNCHANGED << pc, reply >>,
         main'[c] \in AtHome \ {"start"}, pc[c] # "done", NEW S, Newest(c, S)
  PROVE  Newest(c, S)'
<1>0. outbox[c] \in Seq(Replies)
  BY DEF NetInv, TypeInv, TypeOK
<1>1. ReplyList(c)' = ReplyList(c) /\ reply' = reply
  BY DEF ReplyList
<1>2. CASE Writing(c)
  BY <1>1, <1>2, WritingDoes, NewestSame
<1>3. CASE AtTheMenu(c)
  BY <1>1, <1>3, MenuDoes, NewestSame
<1>4. CASE Listen(c)
  <2>1. /\ outbox[c] # << >> /\ outbox'[c] = Tail(outbox[c])
        /\ list'[c] = IF Head(outbox[c]).kind = "PEER_LIST" THEN Head(outbox[c]).peers
                                                           ELSE list[c]
    BY <1>4, ListenDoes
  <2> QED
    BY <1>0, <2>1, NewestRead
<1> QED
  BY <1>2, <1>3, <1>4, HomeSteps

\* A request for the list stays in the inbox.
LEMMA ComingClient ==
  ASSUME NetInv, NEW c \in Conns, ClientSteps(c), ~ merged'[c], UNCHANGED pc,
         main'[c] \in AtHome \ {"start"}, pc[c] # "done", Coming(c)
  PROVE  Coming(c)'
<1> USE DEF NetInv
<1>1. CASE Writing(c)
  <2>1. PICK m \in Commands : inbox'[c] = Append(inbox[c], m)
    BY <1>1, WritingDoes
  <2> QED
    BY <2>1, InboxGrows DEF Coming
<1>2. CASE AtTheMenu(c)
  BY <1>2, MenuDoes DEF Coming, Asked
<1>3. CASE Listen(c)
  BY <1>3, ListenDoes DEF Coming, Asked
<1> QED
  BY <1>1, <1>2, <1>3, HomeSteps

\* A notification leads to a request for the list.
LEMMA WarnedClient ==
  ASSUME NetInv, NEW c \in Conns, ClientSteps(c), ~ merged'[c],
         main'[c] \in AtHome \ {"start"}, pc[c] # "done", Warned(c)
  PROVE  Warned(c)' \/ Asked(c)'
<1> USE DEF NetInv
<1>0. outbox[c] \in Seq(Replies)
  BY DEF TypeInv, TypeOK
<1>1. CASE Writing(c)
  <2>1. PICK m \in Commands :
          /\ inbox'[c] = Append(inbox[c], m) /\ outbox'[c] = outbox[c]
          /\ \/ listener'[c] = listener[c]
             \/ m = GetPeerList
    BY <1>1, WritingDoes DEF AtHome
  <2> QED
    BY <2>1, InboxGrows DEF Warned
<1>2. CASE AtTheMenu(c)
  BY <1>2, MenuDoes DEF Warned
<1>3. CASE Listen(c)
  <2>1. /\ listener[c] = "run" /\ outbox[c] # << >> /\ outbox'[c] = Tail(outbox[c])
        /\ Head(outbox[c]).kind = "NEW_PEER" => listener'[c] = "notified"
    BY <1>3, ListenDoes
  <2>2. PICK i \in 1 .. Len(outbox[c]) : outbox[c][i].kind = "NEW_PEER"
    BY <2>1 DEF Warned
  <2>3. CASE i = 1
    BY <1>0, <2>1, <2>2, <2>3 DEF Warned
  <2>4. CASE i # 1
    <3>1. i - 1 \in 1 .. Len(outbox'[c]) /\ outbox'[c][i - 1] = outbox[c][i]
      BY <1>0, <2>1, <2>4
    <3> QED
      BY <2>2, <3>1 DEF Warned
  <2> QED
    BY <2>3, <2>4
<1> QED
  BY <1>1, <1>2, <1>3, HomeSteps

\* A client that goes to its menu asks for the list first.
LEMMA StartAsks ==
  ASSUME NetInv, NEW c \in Conns, ClientSteps(c), main[c] \notin AtHome \ {"start"},
         main'[c] \in AtHome \ {"start"}, pc[c] # "done"
  PROVE  Asked(c)'
<1> USE DEF NetInv
<1>1. ~ AtTheMenu(c)
  BY MenuDoes DEF AtHome
<1>2. ~ Listen(c)
  BY DEF Listen
<1>3. CASE Writing(c)
  <2>1. PICK m \in Commands :
          /\ inbox'[c] = Append(inbox[c], m)
          /\ main[c] \in DOMAIN AfterMainCommand /\ m = MainCommand(c)
    BY <1>3, WritingDoes DEF AtHome
  <2>2. main[c] = "start"
    BY <2>1 DEF AfterMainCommand, AtHome
  <2> QED
    BY <2>1, <2>2, InboxGrows DEF MainCommand
<1> QED
  BY <1>1, <1>2, <1>3, HomeSteps

\* Every step keeps FetchInv.
LEMMA FetchStep ==
  ASSUME NetInv, TableInv, BroadcastSound, ListInv, ChatInv, ReplyInv, FetchInv,
         NEW own \in [Conns -> Names], OwnNames(own), OwnInv(own), [NetNext]_net_vars
  PROVE  FetchInv'
<1> USE DEF NetInv
<1>1. ASSUME NEW e \in Conns, Serve(e) PROVE FetchInv'
  BY <1>1, FetchServe
<1>2. ASSUME NEW e \in Conns, Connect(e) PROVE FetchInv'
  <2> SUFFICES ASSUME NEW c \in Conns, main'[c] \in AtHome \ {"start"}, Serving(c)',
                      ~ merged'[c], NEW p \in Range(peer_list'), p.addr # c
               PROVE  \/ Owes(p.addr, c)' \/ Warned(c)' \/ Coming(c)'
                      \/ \E S : Newest(c, S)' /\ p \in S
    BY DEF FetchInv
  <2>0. c # e /\ Untouched(c) /\ pc'[c] = pc[c] /\ main'[c] = main[c] /\ reply' = reply
        /\ peer_list' = peer_list /\ client_sockets' = client_sockets /\ cursor' = cursor
    BY <1>2, ConnectDoes DEF AtHome, tables, Connect, MainThread, Accept, AcceptFails, lock
  <2>1. Owes(p.addr, c) => Owes(p.addr, c)'
    <3>1. p.addr \in Conns
      BY <2>0, OwnEntries
    <3>2. pc[p.addr] = "none" \/ pc'[p.addr] = pc[p.addr]
      BY <1>2, <3>1, ConnectDoes
    <3> QED
      BY <2>0, <3>2 DEF Owes
  <2>2. (Warned(c) => Warned(c)') /\ (Coming(c) => Coming(c)')
    BY <2>0 DEF Untouched, Warned, Coming, Asked
  <2>3. \A S : Newest(c, S) => Newest(c, S)'
    <3>1. ReplyList(c)' = ReplyList(c)
      BY <2>0 DEF ReplyList
    <3> QED
      BY <2>0, <3>1, NewestSame DEF Untouched
  <2>4. Serving(c) /\ ~ merged[c]
    BY <2>0, NotMerged DEF Serving
  <2> QED
    BY <2>0, <2>1, <2>2, <2>3, <2>4 DEF FetchInv
<1>3. ASSUME NEW e \in Conns, ClientSteps(e), ~ \E c \in Conns : Connect(c) \/ Serve(c)
      PROVE  FetchInv'
  <2>0. UNCHANGED << pc, reply, peer_list, client_sockets, cursor >>
    BY <1>3, TwoKinds DEF ClientSide, locals, tables, lock
  <2> SUFFICES ASSUME NEW c \in Conns, main'[c] \in AtHome \ {"start"}, Serving(c)',
                      ~ merged'[c], NEW p \in Range(peer_list'), p.addr # c
               PROVE  \/ Owes(p.addr, c)' \/ Warned(c)' \/ Coming(c)'
                      \/ \E S : Newest(c, S)' /\ p \in S
    BY DEF FetchInv
  <2>1. Serving(c) /\ pc[c] # "done" /\ ~ merged[c]
    BY <2>0, NotMerged DEF Serving
  <2>2. Owes(p.addr, c)' = Owes(p.addr, c)
    BY <2>0 DEF Owes
  <2>3. CASE c # e
    <3>1. Untouched(c)
      BY <1>3, <2>3, OthersUntouched
    <3>2. (Warned(c) => Warned(c)') /\ (Coming(c) => Coming(c)')
      BY <2>0, <3>1 DEF Untouched, Warned, Coming, Asked
    <3>3. \A S : Newest(c, S) => Newest(c, S)'
      <4>1. ReplyList(c)' = ReplyList(c) /\ reply' = reply
        BY <2>0 DEF ReplyList
      <4> QED
        BY <3>1, <4>1, NewestSame DEF Untouched
    <3>4. main[c] \in AtHome \ {"start"} /\ p \in Range(peer_list)
      BY <2>0, <3>1 DEF Untouched
    <3> QED
      BY <2>1, <2>2, <3>2, <3>3, <3>4 DEF FetchInv
  <2>4. CASE c = e /\ main[c] \notin AtHome \ {"start"}
    BY <1>3, <2>1, <2>4, StartAsks DEF Coming
  <2>5. CASE c = e /\ main[c] \in AtHome \ {"start"}
    <3>1. ClientSteps(c) /\ UNCHANGED << pc, reply >> /\ p \in Range(peer_list)
      BY <1>3, <2>0, <2>5
    <3>2. Warned(c) => Warned(c)' \/ Coming(c)'
      BY <2>1, <3>1, WarnedClient DEF Coming
    <3>3. Coming(c) => Coming(c)'
      BY <2>1, <3>1, ComingClient
    <3>4. \A S : Newest(c, S) => Newest(c, S)'
      BY <2>1, <3>1, NewestClient
    <3> QED
      BY <2>1, <2>2, <2>5, <3>1, <3>2, <3>3, <3>4 DEF FetchInv
  <2> QED
    BY <2>3, <2>4, <2>5
<1>4. CASE UNCHANGED net_vars
  <2>1. UNCHANGED << merged, main, listener, list, pc, reply, peer_list, client_sockets, cursor,
                     outbox, inbox >>
    BY <1>4 DEF net_vars, client_vars, threads, shared, vars, locals, tables, lock, socks
  <2> QED
    BY <2>1 DEF FetchInv, Serving, Owes, Warned, Coming, Asked, Newest, ReplyList, NoListFrom
<1> QED
  BY <1>1, <1>2, <1>3, <1>4, NetSteps DEF ClientSteps

\* The clients disturb no broadcast.
LEMMA BroadcastInNet ==
  ASSUME NetInv, TableInv, BroadcastSound, [NetNext]_net_vars
  PROVE  BroadcastSound'
<1> USE DEF NetInv
<1>1. CASE \E c \in Conns : Connect(c) \/ Serve(c)
  <2>1. [Next]_vars
    BY <1>1 DEF Connect, Serve, Next
  <2> QED
    BY <2>1, BroadcastStep
<1>2. CASE ~ \E c \in Conns : Connect(c) \/ Serve(c)
  <2>1. UNCHANGED << client_mutex, cursor, client_sockets, pc, username, told >>
    BY <1>2, TwoKinds DEF ClientSide, tables, lock, locals
  <2>2. \A d \in Conns : peer_end'[d] = "open" => peer_end[d] = "open"
    <3>1. CASE UNCHANGED peer_end
      BY <3>1
    <3>2. ASSUME NEW c \in Conns, Writing(c) PROVE UNCHANGED peer_end
      BY <3>2, WritingWrites, ClientCommandTypes, WriteServerKeeps
    <3>3. ASSUME NEW c \in Conns, ReadAnswer(c) \/ Listen(c) PROVE UNCHANGED peer_end
      BY <3>3 DEF ReadAnswer, Listen, ReadServer
    <3>4. ASSUME NEW c \in Conns, AtTheMenu(c) \/ ListenerEnds(c) PROVE UNCHANGED peer_end
      BY <3>4, MenuKeeps, ListenerEndsKeeps DEF vars, socks
    <3>5. ASSUME NEW c \in Conns, Ending(c), NEW d \in Conns, peer_end'[d] = "open"
          PROVE  peer_end[d] = "open"
      <4>1. HangUp(c)
        BY <3>5, EndingEnds DEF EndProcess
      <4>2. /\ \A x \in Conns \ {c} : peer_end'[x] = peer_end[x]
            /\ peer_end'[c] \in {"closed", "reset"} \/ peer_end' = peer_end
        BY <4>1, HangUpKeeps
      <4> QED
        BY <3>5, <4>2
    <3>6. CASE UNCHANGED net_vars
      BY <3>1, <3>6 DEF net_vars, vars, socks
    <3> QED
      BY <1>2, <3>1, <3>2, <3>3, <3>4, <3>5, <3>6, NetSteps
  <2>3. cursor <= Len(client_sockets) + 1 =>
          \A i \in 1 .. cursor - 1 : client_sockets[i] \in Conns
    <3>1. client_sockets \in Seq(Conns) /\ cursor \in Nat \ {0}
      BY DEF TypeInv, TypeOK
    <3> QED
      BY <3>1
  <2>4. \A c \in Conns : client_mutex' = c <=> pc'[c] = "bcast"
    BY <2>1 DEF BroadcastSound
  <2>5. ASSUME NEW c \in Conns, pc'[c] = "bcast"
        PROVE  /\ cursor' <= Len(client_sockets') + 1
               /\ \A i \in 1 .. cursor' - 1 :
                    LET d == client_sockets'[i] IN
                      d # c /\ peer_end'[d] = "open" => username'[c] \in told'[d]
    <3>1. pc[c] = "bcast" /\ cursor <= Len(client_sockets) + 1
      BY <2>1, <2>5 DEF BroadcastSound
    <3>2. \A i \in 1 .. cursor - 1 :
            LET d == client_sockets[i] IN
              d # c /\ peer_end[d] = "open" => username[c] \in told[d]
      BY <3>1 DEF BroadcastSound
    <3> QED
      BY <2>1, <2>2, <2>3, <3>1, <3>2
  <2> QED
    BY <2>4, <2>5 DEF BroadcastSound
<1> QED
  BY <1>1, <1>2

\* An answer is forgotten whoever moves.
LEMMA ReplyStep ==
  ASSUME NetInv, ReplyInv, [NetNext]_net_vars
  PROVE  ReplyInv'
<1> USE DEF NetInv
<1>1. ASSUME NEW e \in Conns, Serve(e) PROVE ReplyInv'
  BY <1>1, ReplyServe DEF Serve
<1>2. ASSUME NEW e \in Conns, Connect(e) PROVE ReplyInv'
  BY <1>2, ConnectDoes DEF ReplyInv
<1>3. CASE ~ \E c \in Conns : Connect(c) \/ Serve(c)
  BY <1>3, TwoKinds DEF ClientSide, locals, ReplyInv
<1> QED
  BY <1>1, <1>2, <1>3

\* What the clients and the server have to keep for the lists to settle.
SettleInv ==
  NetInv /\ TableInv /\ BroadcastSound /\ ListInv /\ ChatInv /\ ReplyInv /\ ListenerInv /\ FetchInv

\* It holds, with what the directory needs.
LEMMA SettleInvariant ==
  ASSUME MaySendAll, NEW own \in [Conns -> Names], OwnNames(own)
  PROVE  NetSpec => [](SettleInv /\ OwnInv(own))
<1>1. NetSpec => [](NetInv /\ TableInv /\ OwnInv(own))
  BY NetOwnInvariant
<1>2. NetInit => BroadcastSound /\ ListInv /\ ChatInv /\ ReplyInv /\ ListenerInv /\ FetchInv
  <2> SUFFICES ASSUME NetInit
               PROVE  BroadcastSound /\ ListInv /\ ChatInv /\ ReplyInv /\ ListenerInv /\ FetchInv
    OBVIOUS
  <2>1. BroadcastSound
    BY ServerConstants DEF NetInit, Init, BroadcastSound, ServerConstants
  <2>2. ListInv /\ ChatInv
    BY DEF NetInit, Init, ListInv, ChatInv, AtHome, Chats
  <2>3. ReplyInv /\ ListenerInv /\ FetchInv
    BY DEF NetInit, Init, ReplyInv, ListenerInv, FetchInv, AtHome
  <2> QED
    BY <2>1, <2>2, <2>3
<1>3. SettleInv /\ OwnInv(own) /\ [NetNext]_net_vars
        => BroadcastSound' /\ ListInv' /\ ChatInv' /\ ReplyInv' /\ ListenerInv' /\ FetchInv'
  BY BroadcastInNet, ChatStep, ReplyStep, ListenerStep, FetchStep DEF SettleInv
<1> QED
  BY <1>1, <1>2, <1>3, PTL DEF NetSpec, SettleInv

\* A client at rest at its menu: nothing is on its way to it or from it, and its
\* own list is the newest.
LEMMA AtRest ==
  ASSUME SettleInv, Quiet, NEW c \in Conns, main[c] = "menu", pc[c] = "main_read"
  PROVE  /\ outbox[c] = << >> /\ inbox[c] = << >>
         /\ ~ Warned(c) /\ ~ Coming(c) /\ \A S : Newest(c, S) => S = list[c]
<1>1. ClientRests(c) /\ inbox[c] = << >>
  BY DEF Quiet, ServerRests
<1>2. outbox[c] = << >> /\ listener[c] = "run"
  BY <1>1 DEF ClientRests, SettleInv, ListenerInv, AtHome
<1>3. ~ Warned(c) /\ ~ Coming(c)
  BY <1>1, <1>2 DEF Warned, Coming, Asked
<1>4. \A S : Newest(c, S) => S = list[c]
  BY <1>2 DEF Newest, ReplyList
<1> QED
  BY <1>1, <1>2, <1>3, <1>4

\* A client at its menu has every listed peer in its own list once nothing is on
\* its way any more, whatever the order of lists, notifications and requests and
\* whatever the reads of other connections return, unless a read() of its own
\* connection has returned more than one message.
THEOREM ListsAgree ==
  ASSUME DisjointNames, MaySendAll
  PROVE  NetSpec => []ListsSettle
<1>1. PICK own \in [Conns -> Names] : OwnNames(own)
  BY DEF DisjointNames, OwnNames
<1>2. NetSpec => [](SettleInv /\ OwnInv(own))
  BY <1>1, SettleInvariant
<1>3. SettleInv /\ OwnInv(own) => ListsSettle
  <2> SUFFICES ASSUME SettleInv, OwnInv(own), Quiet, NEW c \in Conns, main[c] = "menu",
                      pc[c] = "main_read", ~ merged[c], NEW p \in Range(peer_list), p.addr # c
               PROVE  p \in list[c]
    BY DEF ListsSettle
  <2>1. ~ Warned(c) /\ ~ Coming(c) /\ \A S : Newest(c, S) => S = list[c]
    BY AtRest
  <2>2. ~ Owes(p.addr, c)
    <3>1. p.addr \in Conns
      BY <1>1, OwnEntries DEF SettleInv, NetInv
    <3> QED
      BY <3>1 DEF Owes, Quiet, ServerRests
  <2>3. Serving(c) /\ main[c] \in AtHome \ {"start"}
    BY DEF Serving, AtHome
  <2> QED
    BY <2>1, <2>2, <2>3 DEF SettleInv, FetchInv
<1> QED
  BY <1>2, <1>3, PTL

-----------------------------------------------------------------------------
(* A peer that is reported.                                                *)

\* n is the name of a client that will not be entered any more.
Known(own, n) == \E d \in Conns : n = own[d] /\ Past(d)

KnownIn(own, S) == \A p \in S : Known(own, p.username)

\* Every name that a client has been told, is being told or has dialed is known
\* in this sense; and a client dials from its menu only.
KnownInv(own) ==
  \A c \in Conns :
    /\ dialed[c] # NoName =>
         Known(own, dialed[c]) /\ main[c] \notin {"off", "ask", "answer", "start"}
    /\ KnownIn(own, list[c])
    /\ reply[c].kind = "PEER_LIST" => KnownIn(own, reply[c].peers)
    /\ \A i \in 1 .. Len(outbox[c]) :
         outbox[c][i].kind = "PEER_LIST" => KnownIn(own, outbox[c][i].peers)

\* No entry of the registry has the name n.
Unlisted(n) == \A p \in Range(peer_list) : p.username # n

\* A known name stays known, and unlisted once it is unlisted.
LEMMA KnownStays ==
  ASSUME NetInv, NEW own \in [Conns -> Names], OwnNames(own), OwnInv(own), NEW n,
         Known(own, n), [NetNext]_net_vars
  PROVE  Known(own, n)' /\ (Unlisted(n) => Unlisted(n)')
<1> USE DEF NetInv
<1>0. PICK d \in Conns : n = own[d] /\ Past(d)
  BY DEF Known
<1>1. ASSUME NEW e \in Conns, Serve(e) PROVE Past(d)' /\ (Unlisted(n) => Unlisted(n)')
  <2>1. Handler(e)
    BY <1>1 DEF Serve
  <2>2. Past(d)'
    BY <1>0, <2>1, PastServe
  <2>3. Enter(e) => own[e] # n
    <3>1. Enter(e) => e # d
      BY <1>0 DEF Enter, Past
    <3> QED
      BY <1>0, <3>1 DEF OwnNames
  <2>4. \A p \in Range(peer_list') :
          p \in Range(peer_list) \/ (Enter(e) /\ p.username = own[e])
    BY <2>1, RegistryServe
  <2> QED
    BY <2>2, <2>3, <2>4 DEF Unlisted
<1>2. ASSUME NEW e \in Conns, Connect(e) PROVE Past(d)' /\ (Unlisted(n) => Unlisted(n)')
  <2>1. pc[e] = "none" /\ (d # e => pc'[d] = pc[d]) /\ peer_list' = peer_list
    BY <1>2, ConnectDoes DEF tables
  <2> QED
    BY <1>0, <2>1 DEF Past, Unlisted
<1>3. CASE ~ \E c \in Conns : Connect(c) \/ Serve(c)
  <2>1. UNCHANGED << pc, peer_list >>
    BY <1>3, TwoKinds DEF ClientSide, tables, locals
  <2> QED
    BY <1>0, <2>1 DEF Known, Past, Unlisted
<1>4. Past(d)' /\ (Unlisted(n) => Unlisted(n)') =>
        Known(own, n)' /\ (Unlisted(n) => Unlisted(n)')
  BY <1>0 DEF Known
<1> QED
  BY <1>1, <1>2, <1>3, <1>4

\* A read() of a client takes messages out of its outbox and adds none, and the
\* entries it finds are those of lists.
LEMMA ReadTakes ==
  ASSUME TypeInv, NEW c \in Conns, NEW k \in Returned(outbox[c]), ReadServer(c, k)
  PROVE  /\ \A i \in 1 .. Len(outbox'[c]) :
              \E j \in 1 .. Len(outbox[c]) : outbox'[c][i] = outbox[c][j]
         /\ \A p \in Entries(c, k) : \E j \in 1 .. Len(outbox[c]) :
              outbox[c][j].kind = "PEER_LIST" /\ p \in outbox[c][j].peers
<1>0. outbox[c] \in Seq(Replies) /\ k \in 1 .. Len(outbox[c])
  BY DEF TypeInv, TypeOK, Returned
<1>1. outbox'[c] = SubSeq(outbox[c], k + 1, Len(outbox[c]))
  BY DEF ReadServer, TypeInv, TypeOK
<1>2. \A i \in 1 .. Len(outbox'[c]) : \E j \in 1 .. Len(outbox[c]) : outbox'[c][i] = outbox[c][j]
  <2>1. \A i \in k + 1 .. Len(outbox[c]) : outbox[c][i] \in Replies
    BY <1>0
  <2>2. /\ Len(outbox'[c]) = IF k + 1 <= Len(outbox[c]) THEN Len(outbox[c]) - (k + 1) + 1 ELSE 0
        /\ \A i \in 1 .. Len(outbox[c]) - (k + 1) + 1 :
             outbox'[c][i] = outbox[c][k + 1 + i - 1]
    BY <1>0, <1>1, <2>1, SubSeqProperties
  <2>3. ASSUME NEW i \in 1 .. Len(outbox'[c])
        PROVE  k + i \in 1 .. Len(outbox[c]) /\ outbox'[c][i] = outbox[c][k + i]
    <3>1. Len(outbox[c]) \in Nat /\ k \in Nat \ {0} /\ i \in Nat \ {0}
      BY <1>0
    <3>2. i \in 1 .. Len(outbox[c]) - (k + 1) + 1 /\ k + 1 + i - 1 = k + i
      BY <2>2, <2>3, <3>1
    <3> QED
      BY <2>2, <3>1, <3>2
  <2> QED
    BY <2>3
<1>3. ASSUME NEW p \in Entries(c, k)
      PROVE  \E j \in 1 .. Len(outbox[c]) :
               outbox[c][j].kind = "PEER_LIST" /\ p \in outbox[c][j].peers
  <2> DEFINE s == SubSeq(outbox[c], 1, k)
  <2>1. \A i \in 1 .. k : outbox[c][i] \in Replies
    BY <1>0
  <2>2. DOMAIN s = 1 .. k /\ \A i \in 1 .. k : s[i] = outbox[c][i]
    BY <1>0, <2>1, SubSeqProperties
  <2>3. PICK m \in Range(s) : m.kind = "PEER_LIST" /\ p \in m.peers
    BY <1>3 DEF Entries
  <2> HIDE DEF s
  <2>4. PICK i \in 1 .. k : m = outbox[c][i]
    BY <2>2, <2>3 DEF Range
  <2> QED
    BY <1>0, <2>3, <2>4
<1> QED
  BY <1>2, <1>3

\* Every step keeps KnownInv.
LEMMA KnownStep ==
  ASSUME NetInv, ListInv', NEW own \in [Conns -> Names], OwnNames(own), OwnInv(own),
         KnownInv(own), [NetNext]_net_vars
  PROVE  KnownInv(own)'
<1> USE DEF NetInv
<1> DEFINE Home(c) == main'[c] \notin {"off", "ask", "answer", "start"}
           Dialed(c) == dialed'[c] # NoName => Known(own, dialed'[c]) /\ Home(c)
           Made(c) == reply'[c].kind = "PEER_LIST" => KnownIn(own, reply'[c].peers)
           Sent(c) == \A i \in 1 .. Len(outbox'[c]) :
                        outbox'[c][i].kind = "PEER_LIST" => KnownIn(own, outbox'[c][i].peers)
           Good(c) == Dialed(c) /\ KnownIn(own, list'[c]) /\ Made(c) /\ Sent(c)
<1>1. \A n : Known(own, n) => Known(own, n)'
  BY KnownStays
<1>2. SUFFICES \A c \in Conns : Good(c)
  BY <1>1 DEF KnownInv, KnownIn
<1>3. ASSUME NEW c \in Conns, dialed'[c] = dialed[c], main'[c] = main[c]
      PROVE  Dialed(c)
  BY <1>3 DEF KnownInv
<1>4. ASSUME NEW c \in Conns, list'[c] = list[c] PROVE KnownIn(own, list'[c])
  BY <1>4 DEF KnownInv
<1>5. ASSUME NEW c \in Conns, reply'[c] = reply[c] PROVE Made(c)
  BY <1>5 DEF KnownInv
<1>6. ASSUME NEW c \in Conns, \A i \in 1 .. Len(outbox'[c]) :
                                \E j \in 1 .. Len(outbox[c]) : outbox'[c][i] = outbox[c][j]
      PROVE  Sent(c)
  BY <1>6 DEF KnownInv
<1>7. ASSUME NEW c \in Conns, outbox'[c] = outbox[c] PROVE Sent(c)
  BY <1>6, <1>7
<1>8. ASSUME NEW e \in Conns, Serve(e), NEW c \in Conns PROVE Good(c)
  <2>0. Handler(e) /\ UNCHANGED << main, dialed, list >>
    BY <1>8 DEF Serve, threads, shared
  <2>1. Made(c)
    <3>1. CASE Silent(e)
      <4>1. \/ reply'[c] = reply[c]
            \/ c = e /\ pc'[c] = "reg_reply"
        BY <3>1 DEF Silent
      <4>2. pc'[c] = "reg_reply" => reply'[c].kind # "PEER_LIST"
        BY DEF ListInv
      <4> QED
        BY <1>5, <4>1, <4>2
    <3>2. CASE MakeList(e)
      <4>1. CASE c # e
        BY <1>5, <3>2, <4>1, MakeListDoes
      <4>2. CASE c = e
        <5>1. reply'[c].peers = Listing(peer_list, username[c])
          <6>1. reply'[c] = PeerList(Listing(peer_list, username[c]))
            BY <3>2, <4>2, MakeListDoes
          <6>2. \A T : PeerList(T).peers = T
            BY DEF PeerList
          <6> QED
            BY <6>1, <6>2
        <5>2. \A p \in Range(peer_list) : Known(own, p.username)
          <6>1. \A p \in Range(peer_list) :
                  p.addr \in Conns /\ p.username = own[p.addr] /\ Joined(p.addr)
            BY OwnEntries
          <6>2. \A d \in Conns : Joined(d) => Past(d)
            BY DEF Joined, Past
          <6> QED
            BY <6>1, <6>2 DEF Known
        <5> QED
          BY <5>1, <5>2 DEF Listing, KnownIn
      <4> QED
        BY <4>1, <4>2
    <3>3. CASE Answer(e)
      <4>1. CASE c # e
        BY <1>5, <3>3, <4>1, AnswerDoes
      <4>2. CASE c = e
        BY <3>3, <4>2, AnswerDoes DEF Invalid
      <4> QED
        BY <4>1, <4>2
    <3>4. CASE BroadcastNext(e)
      BY <1>5, <3>4, BroadcastDoes
    <3> QED
      BY <2>0, <3>1, <3>2, <3>3, <3>4, HandlerKinds
  <2>2. Sent(c)
    <3>0. outbox[c] \in Seq(Replies) /\ reply[c] \in Replies
      BY DEF TypeInv, TypeOK
    <3>1. CASE outbox'[c] = outbox[c]
      BY <1>7, <3>1
    <3>2. ASSUME NEW m \in Replies, outbox'[c] = Append(outbox[c], m),
                 m.kind = "PEER_LIST" => KnownIn(own, m.peers)
          PROVE  Sent(c)
      <4>1. \A i \in 1 .. Len(outbox'[c]) :
              outbox'[c][i] = m \/ \E j \in 1 .. Len(outbox[c]) : outbox'[c][i] = outbox[c][j]
        BY <3>0, <3>2
      <4> QED
        BY <3>2, <4>1 DEF KnownInv
    <3>3. ASSUME NEW n \in Names, outbox'[c] = Append(outbox[c], NewPeer(n))
          PROVE  Sent(c)
      <4>1. NewPeer(n) \in Replies /\ NewPeer(n).kind # "PEER_LIST"
        BY DEF NewPeer, Replies
      <4> QED
        BY <3>2, <3>3, <4>1
    <3>4. CASE outbox'[c] = Append(outbox[c], reply[c])
      BY <3>0, <3>2, <3>4 DEF KnownInv
    <3> QED
      BY <2>0, <3>1, <3>3, <3>4, OutboxGrows
  <2> QED
    BY <1>3, <1>4, <2>0, <2>1, <2>2
<1>9. ASSUME NEW e \in Conns, Connect(e), NEW c \in Conns PROVE Good(c)
  <2>1. UNCHANGED << list, dialed, outbox, reply >>
    BY <1>9, ConnectDoes
  <2>2. Dialed(c)
    <3>1. CASE c = e
      <4>1. main[c] = "off"
        BY <1>9, <3>1 DEF Connect
      <4> QED
        BY <2>1, <4>1 DEF KnownInv
    <3>2. CASE c # e
      BY <1>3, <1>9, <2>1, <3>2, ConnectDoes
    <3> QED
      BY <3>1, <3>2
  <2> QED
    BY <1>4, <1>5, <1>7, <2>1, <2>2
<1>10. ASSUME NEW e \in Conns, ClientSteps(e), ~ \E c \in Conns : Connect(c) \/ Serve(c),
              NEW c \in Conns
       PROVE  Good(c)
  <2>0. Made(c)
    BY <1>5, <1>10, TwoKinds DEF ClientSide, locals
  <2>1. CASE c # e
    <3>1. Untouched(c)
      BY <1>10, <2>1, OthersUntouched
    <3> QED
      BY <1>3, <1>4, <1>7, <2>0, <3>1 DEF Untouched
  <2>2. CASE c = e /\ Writing(c)
    <3>1. outbox'[c] = outbox[c] /\ list'[c] = list[c] /\ dialed'[c] = dialed[c]
      BY <2>2, WritingDoes
    <3>2. main'[c] = main[c] \/ main[c] = "ask" \/ Home(c)
      <4>1. \A l \in DOMAIN AfterMainCommand :
              AfterMainCommand[l] \in {"top", "refresh", "chat", "closing"}
        BY DEF AfterMainCommand
      <4> QED
        BY <2>2, <4>1, WritingDoes
    <3>3. Dialed(c)
      BY <3>1, <3>2 DEF KnownInv
    <3> QED
      BY <1>4, <1>7, <2>0, <3>1, <3>3
  <2>3. CASE c = e /\ AtTheMenu(c)
    <3>1. /\ outbox'[c] = outbox[c] /\ list'[c] = list[c]
          /\ main'[c] = main[c] \/ Home(c)
          /\ \/ dialed'[c] = dialed[c]
             \/ main'[c] = "report" /\ \E p \in list[c] : dialed'[c] = p.username
      BY <2>3, MenuDoes
    <3>2. Dialed(c)
      BY <3>1 DEF KnownInv, KnownIn
    <3> QED
      BY <1>4, <1>7, <2>0, <3>1, <3>2
  <2>4. CASE c = e /\ (ReadAnswer(c) \/ Listen(c))
    <3>1. PICK k \in Returned(outbox[c]) :
            /\ ReadServer(c, k)
            /\ list' = list \/ \E l \in {list[c], Entries(c, k)} : list' = [list EXCEPT ![c] = l]
      BY <2>4 DEF ReadAnswer, Listen
    <3>2. list'[c] = list[c] \/ list'[c] = Entries(c, k)
      BY <3>1 DEF ClientTypes
    <3>3. Sent(c)
      BY <1>6, <3>1, ReadTakes
    <3>4. KnownIn(own, list'[c])
      <4>1. \A p \in Entries(c, k) : Known(own, p.username)
        BY <3>1, ReadTakes DEF KnownInv, KnownIn
      <4> QED
        BY <1>4, <3>2, <4>1 DEF KnownIn
    <3>5. Dialed(c)
      <4>1. dialed' = dialed /\ (main' = main \/ main[c] = "answer")
        BY <2>4 DEF ReadAnswer, Listen
      <4> QED
        BY <4>1 DEF KnownInv
    <3> QED
      BY <2>0, <3>3, <3>4, <3>5
  <2>5. CASE c = e /\ ListenerEnds(c)
    <3>1. UNCHANGED << main, list, dialed, outbox >>
      BY <2>5, ListenerEndsKeeps DEF ListenerEnds, vars, socks
    <3> QED
      BY <1>3, <1>4, <1>7, <2>0, <3>1
  <2>6. CASE c = e /\ Ending(c)
    <3>1. MainGoes(c, "gone") /\ HangUp(c) /\ UNCHANGED << list, dialed >>
      BY <2>6, EndingEnds DEF EndProcess, shared
    <3>2. outbox'[c] \in {outbox[c], << >>}
      BY <3>1 DEF HangUp, TypeInv, TypeOK
    <3>3. main'[c] = "gone"
      BY <3>1 DEF MainGoes, ClientTypes
    <3>4. Dialed(c)
      BY <3>1, <3>3 DEF KnownInv
    <3>5. Sent(c)
      BY <3>2 DEF KnownInv
    <3> QED
      BY <1>4, <2>0, <3>1, <3>4, <3>5
  <2> QED
    BY <1>10, <2>1, <2>2, <2>3, <2>4, <2>5, <2>6 DEF ClientSteps
<1>11. ASSUME UNCHANGED net_vars, NEW c \in Conns PROVE Good(c)
  <2>1. UNCHANGED << main, list, dialed, reply, outbox >>
    BY <1>11 DEF net_vars, client_vars, threads, shared, vars, locals, socks
  <2> QED
    BY <1>3, <1>4, <1>5, <1>7, <2>1
<1> QED
  BY <1>8, <1>9, <1>10, <1>11, NetSteps DEF ClientSteps

\* The report that n is gone: on its way; in its handler's buffer; on its way
\* with a request for the list behind it.
Reports(m, n) == m.verb = "PEER_DISCONNECTED" /\ m.name = n
ReportSent(c, n) == \E i \in 1 .. Len(inbox[c]) : Reports(inbox[c][i], n)
AtReport(c, n) == pc[c] = "rm_other" /\ request[c].name = n
ReportFirst(c, n) ==
  \E i, j \in 1 .. Len(inbox[c]) :
    i < j /\ Reports(inbox[c][i], n) /\ inbox[c][j].verb = "GET_PEER_LIST"

\* The newest list of c does not have n.
Clean(c, n) == \E S : Newest(c, S) /\ \A p \in S : p.username # n

\* How far the report of n has come: the client is about to ask for the list,
\* or has asked for it behind the report, or its list is made without n.
Dealt(c, n) ==
  \/ main[c] = "refresh" /\ (ReportSent(c, n) \/ AtReport(c, n) \/ Unlisted(n))
  \/ ReportFirst(c, n)
  \/ AtReport(c, n) /\ Asked(c)
  \/ Unlisted(n) /\ (Coming(c) \/ Clean(c, n))

\* A client that has found a peer unreachable has reported it, or is about to.
ReportInv ==
  \A c \in Conns :
    main[c] \in AtHome \ {"report"} /\ Serving(c) /\ ~ merged[c] /\ dialed[c] # NoName =>
    Dealt(c, dialed[c])

\* A read() of the handler that returns one command passes the report on.
LEMMA ReportRead ==
  ASSUME TypeInv, NEW c \in Conns, MainRead(c), OneRead(c), NEW n
  PROVE  /\ ReportSent(c, n) => ReportSent(c, n)' \/ AtReport(c, n)'
         /\ ReportFirst(c, n) => ReportFirst(c, n)' \/ (AtReport(c, n)' /\ Asked(c)')
         /\ ~ AtReport(c, n)
<1>0. /\ pc[c] = "main_read" /\ request'[c] = inbox[c][1]
      /\ request'[c].verb = "PEER_DISCONNECTED" => pc'[c] = "rm_other"
      /\ Len(inbox[c]) \in Nat \ {0} /\ Len(inbox'[c]) = Len(inbox[c]) - 1
      /\ \A i \in 1 .. Len(inbox[c]) - 1 : inbox'[c][i] = inbox[c][i + 1]
  BY CommandRead
<1>1. \A i \in 1 .. Len(inbox[c]) : i # 1 =>
        i - 1 \in 1 .. Len(inbox'[c]) /\ inbox'[c][i - 1] = inbox[c][i]
  <2> TAKE i \in 1 .. Len(inbox[c])
  <2> HAVE i # 1
  <2>1. i - 1 \in 1 .. Len(inbox[c]) - 1 /\ i - 1 + 1 = i
    BY <1>0
  <2> QED
    BY <1>0, <2>1
<1>2. Reports(inbox[c][1], n) => AtReport(c, n)'
  BY <1>0 DEF Reports, AtReport
<1>3. ReportSent(c, n) => ReportSent(c, n)' \/ AtReport(c, n)'
  BY <1>1, <1>2 DEF ReportSent
<1>4. ASSUME NEW i \in 1 .. Len(inbox[c]), NEW j \in 1 .. Len(inbox[c]), i < j,
             Reports(inbox[c][i], n), inbox[c][j].verb = "GET_PEER_LIST"
      PROVE  ReportFirst(c, n)' \/ (AtReport(c, n)' /\ Asked(c)')
  <2>1. j - 1 \in 1 .. Len(inbox'[c]) /\ inbox'[c][j - 1] = inbox[c][j]
    BY <1>1, <1>4
  <2>2. CASE i = 1
    BY <1>2, <1>4, <2>1, <2>2 DEF Asked
  <2>3. CASE i # 1
    <3>1. i - 1 \in 1 .. Len(inbox'[c]) /\ inbox'[c][i - 1] = inbox[c][i] /\ i - 1 < j - 1
      BY <1>1, <1>4, <2>3
    <3> QED
      BY <1>4, <2>1, <3>1 DEF ReportFirst
  <2> QED
    BY <2>2, <2>3
<1>5. ReportFirst(c, n) => ReportFirst(c, n)' \/ (AtReport(c, n)' /\ Asked(c)')
  BY <1>4 DEF ReportFirst
<1> QED
  BY <1>0, <1>3, <1>5 DEF AtReport

\* The server keeps ReportInv.
LEMMA ReportServe ==
  ASSUME NetInv, ListInv, ChatInv, ReplyInv,
         NEW own \in [Conns -> Names], OwnNames(own), OwnInv(own), KnownInv(own), ReportInv,
         NEW e \in Conns, Serve(e), [NetNext]_net_vars
  PROVE  ReportInv'
<1> USE DEF NetInv
<1>0. Handler(e) /\ UNCHANGED << main, dialed, list >>
  BY DEF Serve, threads, shared
<1> SUFFICES ASSUME NEW c \in Conns, main'[c] \in AtHome \ {"report"}, Serving(c)',
                    dialed'[c] # NoName, ~ merged'[c]
             PROVE  Dealt(c, dialed[c])'
  BY <1>0 DEF ReportInv
<1>1. PICK n : n = dialed[c]
  OBVIOUS
<1>2. /\ Serving(c) /\ main[c] \in AtHome \ {"report"} /\ n = dialed'[c] /\ n = dialed[c]
      /\ ~ merged[c] /\ (c = e => OneRead(e))
  BY <1>0, <1>1, ServingBefore, NotMerged DEF ChatInv
<1>3. Dealt(c, n)
  BY <1>0, <1>2 DEF ReportInv
<1>4. Unlisted(n) => Unlisted(n)'
  <2>1. Known(own, n)
    BY <1>0, <1>2 DEF KnownInv
  <2> QED
    BY <2>1, KnownStays
<1>5. ~ (e = c /\ MakeList(e)) => (Clean(c, n) => Clean(c, n)') /\ (Coming(c) => Coming(c)')
  <2>1. peer_end[c] = "open"
    BY <1>2, ServedIsOpen
  <2> QED
    BY <1>0, <1>2, <2>1, NewestServe, ComingServe DEF Clean
<1>6. main'[c] = main[c]
  BY <1>0
<1>7. Dealt(c, n)'
  <2>1. CASE e # c
    <3>1. inbox'[c] = inbox[c] /\ pc'[c] = pc[c] /\ request'[c] = request[c]
      BY <1>0, <2>1, HandlerApart
    <3>2. /\ ReportSent(c, n)' = ReportSent(c, n) /\ AtReport(c, n)' = AtReport(c, n)
          /\ ReportFirst(c, n)' = ReportFirst(c, n) /\ Asked(c)' = Asked(c)
      BY <3>1 DEF ReportSent, AtReport, ReportFirst, Asked
    <3> QED
      BY <1>3, <1>4, <1>5, <1>6, <2>1, <3>2 DEF Dealt
  <2>2. CASE e = c /\ MainRead(c)
    <3>1. ~ MakeList(c)
      BY <2>2 DEF MainRead, MakeList
    <3> QED
      BY <1>3, <1>4, <1>5, <1>6, <1>2, <2>2, <3>1, ReportRead DEF Dealt
  <2>3. CASE e = c /\ ~ MainRead(c)
    <3>0. /\ inbox'[c] = inbox[c]
          /\ pc[c] = "main_list" => MakeList(c)
          /\ pc[c] = "rm_other" => RemoveOther(c)
      BY <1>0, <1>2, <2>3, InboxServed
    <3>1. /\ ReportSent(c, n)' = ReportSent(c, n)
          /\ ReportFirst(c, n)' = ReportFirst(c, n) /\ Asked(c)' = Asked(c)
      BY <3>0 DEF ReportSent, ReportFirst, Asked
    <3>2. AtReport(c, n) => Unlisted(n)' /\ ~ MakeList(c)
      <4>1. AtReport(c, n) => RemoveOther(c) /\ request[c].name = n
        BY <3>0 DEF AtReport
      <4>2. RemoveOther(c) => ~ MakeList(c)
        BY DEF RemoveOther, MakeList
      <4> QED
        BY <1>0, <2>3, <4>1, <4>2, RegistryServe DEF Unlisted
    <3>3. MakeList(c) /\ Unlisted(n) => Clean(c, n)'
      <4> HAVE MakeList(c) /\ Unlisted(n)
      <4>1. PICK S \in SUBSET Range(peer_list) : Newest(c, S)'
        BY ListMade
      <4> QED
        BY <4>1 DEF Unlisted, Clean
    <3>4. CASE MakeList(c)
      BY <1>3, <1>4, <1>6, <3>1, <3>2, <3>3, <3>4 DEF Dealt
    <3>5. CASE ~ MakeList(c)
      BY <1>3, <1>4, <1>5, <1>6, <3>1, <3>2, <3>5 DEF Dealt, Coming
    <3> QED
      BY <3>4, <3>5
  <2> QED
    BY <2>1, <2>2, <2>3
<1> QED
  BY <1>0, <1>1, <1>2, <1>7

\* A command that is written lets every report stand, and adds its own.
LEMMA ReportWritten ==
  ASSUME TypeInv, NEW c \in Conns, NEW m \in Commands, inbox'[c] = Append(inbox[c], m), NEW n
  PROVE  /\ ReportSent(c, n) => ReportSent(c, n)'
         /\ ReportFirst(c, n) => ReportFirst(c, n)'
         /\ Reports(m, n) => ReportSent(c, n)'
         /\ ReportSent(c, n) /\ m = GetPeerList => ReportFirst(c, n)'
<1>0. /\ Len(inbox[c]) \in Nat /\ Len(inbox'[c]) = Len(inbox[c]) + 1
      /\ \A i \in 1 .. Len(inbox[c]) : i \in 1 .. Len(inbox'[c]) /\ inbox'[c][i] = inbox[c][i]
      /\ Len(inbox[c]) + 1 \in 1 .. Len(inbox'[c]) /\ inbox'[c][Len(inbox[c]) + 1] = m
  BY InboxGrows
<1>1. ReportSent(c, n) => ReportSent(c, n)'
  BY <1>0 DEF ReportSent
<1>2. ReportFirst(c, n) => ReportFirst(c, n)'
  BY <1>0 DEF ReportFirst
<1>3. Reports(m, n) => ReportSent(c, n)'
  BY <1>0 DEF ReportSent
<1>4. ASSUME NEW i \in 1 .. Len(inbox[c]), Reports(inbox[c][i], n), m = GetPeerList
      PROVE  ReportFirst(c, n)'
  <2>1. i < Len(inbox[c]) + 1 /\ m.verb = "GET_PEER_LIST"
    BY <1>0, <1>4 DEF GetPeerList, Command
  <2> QED
    BY <1>0, <1>4, <2>1 DEF ReportFirst
<1> QED
  BY <1>1, <1>2, <1>3, <1>4 DEF ReportSent

\* What a step does not touch, it does not change how far a report has come.
LEMMA DealtSame ==
  ASSUME NEW c, Dealt(c, dialed[c]), main'[c] = main[c], pc'[c] = pc[c],
         UNCHANGED << list, dialed, outbox, inbox, reply, request, peer_list >>
  PROVE  Dealt(c, dialed[c])'
<1>1. PICK n : n = dialed[c]
  OBVIOUS
<1>2. ReplyList(c)' = ReplyList(c)
  BY DEF ReplyList
<1>3. Clean(c, n) => Clean(c, n)'
  BY <1>2, NewestSame DEF Clean
<1>4. /\ Asked(c)' = Asked(c) /\ Coming(c)' = Coming(c) /\ Unlisted(n)' = Unlisted(n)
      /\ AtReport(c, n)' = AtReport(c, n)
  BY DEF Asked, Coming, Unlisted, AtReport
<1>5. ReportSent(c, n)' = ReportSent(c, n) /\ ReportFirst(c, n)' = ReportFirst(c, n)
  BY DEF ReportSent, ReportFirst
<1>6. Dealt(c, n)'
  BY <1>1, <1>3, <1>4, <1>5 DEF Dealt
<1> QED
  BY <1>1, <1>6

\* The clients keep ReportInv.
LEMMA ReportClient ==
  ASSUME NetInv, [NetNext]_net_vars, NEW own \in [Conns -> Names], KnownInv(own), ReportInv,
         NEW e \in Conns, ClientSteps(e), UNCHANGED << pc, reply, request, peer_list >>
  PROVE  ReportInv'
<1> USE DEF NetInv
<1> SUFFICES ASSUME NEW c \in Conns, main'[c] \in AtHome \ {"report"}, Serving(c)',
                    dialed'[c] # NoName, ~ merged'[c]
             PROVE  Dealt(c, dialed[c])'
  BY DEF ReportInv
<1>0. Serving(c) /\ pc[c] # "done" /\ ~ merged[c]
  BY NotMerged DEF Serving
<1>1. PICK n : n = dialed'[c]
  OBVIOUS
<1>2. (Unlisted(n) => Unlisted(n)') /\ (AtReport(c, n) => AtReport(c, n)')
  BY DEF Unlisted, AtReport
<1>3. CASE c # e
  <2>1. Untouched(c)
    BY <1>3, OthersUntouched
  <2>2. ReplyList(c)' = ReplyList(c) /\ reply' = reply
    BY DEF ReplyList
  <2>3. Clean(c, n) => Clean(c, n)'
    BY <2>1, <2>2, NewestSame DEF Untouched, Clean
  <2>4. /\ Coming(c)' = Coming(c) /\ Asked(c)' = Asked(c)
        /\ ReportSent(c, n)' = ReportSent(c, n) /\ ReportFirst(c, n)' = ReportFirst(c, n)
    BY <2>1 DEF Untouched, Coming, Asked, ReportSent, ReportFirst
  <2>5. Dealt(c, n) /\ main'[c] = main[c]
    BY <1>0, <1>1, <2>1 DEF Untouched, ReportInv
  <2>6. Dealt(c, n)'
    BY <1>2, <2>3, <2>4, <2>5 DEF Dealt
  <2> QED
    BY <1>1, <2>6
<1>4. CASE c = e
  <2>1. ClientSteps(c)
    BY <1>4
  <2>2. dialed'[c] = dialed[c] /\ main[c] \in AtHome \ {"start"}
    <3>1. CASE Writing(c)
      <4>1. DOMAIN AfterMainCommand \subseteq AtHome
        BY DEF AfterMainCommand, AtHome
      <4> QED
        BY <3>1, <4>1, WritingDoes DEF KnownInv, AtHome
    <3>2. CASE AtTheMenu(c)
      BY <3>2, MenuDoes DEF KnownInv, AtHome
    <3>3. CASE Listen(c)
      BY <3>3, ListenDoes DEF KnownInv
    <3>4. ~ ReadAnswer(c)
      BY DEF ReadAnswer, KnownInv
    <3> QED
      BY <1>0, <2>1, <3>1, <3>2, <3>3, <3>4, HomeSteps
  <2>3. main[c] # "report" => Dealt(c, n)
    BY <1>0, <1>1, <2>2 DEF ReportInv
  <2>4. main'[c] # "start" => (Coming(c) => Coming(c)') /\ (Clean(c, n) => Clean(c, n)')
    <3> HAVE main'[c] # "start"
    <3>1. Coming(c) => Coming(c)'
      BY <1>0, <2>1, ComingClient
    <3>2. \A S : Newest(c, S) => Newest(c, S)'
      BY <1>0, <2>1, NewestClient
    <3> QED
      BY <3>1, <3>2 DEF Clean
  <2>5. CASE Writing(c)
    <3> SUFFICES Dealt(c, n)'
      BY <1>1
    <3>1. PICK m \in Commands :
            /\ inbox'[c] = Append(inbox[c], m)
            /\ \/ /\ main[c] \in DOMAIN AfterMainCommand /\ m = MainCommand(c)
                  /\ main'[c] = AfterMainCommand[main[c]]
               \/ main'[c] = main[c]
      BY <1>0, <2>2, <2>5, WritingDoes DEF AtHome
    <3>2. /\ ReportSent(c, n) => ReportSent(c, n)'
          /\ ReportFirst(c, n) => ReportFirst(c, n)'
          /\ Reports(m, n) => ReportSent(c, n)'
          /\ ReportSent(c, n) /\ m = GetPeerList => ReportFirst(c, n)'
          /\ Asked(c) => Asked(c)'
          /\ m = GetPeerList => Asked(c)'
      BY <3>1, ReportWritten, InboxGrows
    <3>3. main'[c] # "start"
      BY <2>2, <3>1 DEF AfterMainCommand
    <3>4. CASE main'[c] = main[c]
      BY <1>2, <2>3, <2>4, <3>2, <3>3, <3>4 DEF Dealt
    <3>5. CASE main[c] = "report" /\ m = MainCommand(c) /\ main'[c] = AfterMainCommand[main[c]]
      <4>1. main'[c] = "refresh"
        BY <3>5 DEF AfterMainCommand
      <4>2. m = Command("PEER_DISCONNECTED", dialed[c])
        BY <3>5 DEF MainCommand
      <4>3. Reports(m, n)
        BY <1>1, <2>2, <4>2 DEF Reports, Command
      <4> QED
        BY <3>2, <4>1, <4>3 DEF Dealt
    <3>6. CASE main[c] = "refresh" /\ m = MainCommand(c)
      <4>1. m = GetPeerList
        BY <3>6 DEF MainCommand
      <4> QED
        BY <1>2, <2>3, <2>4, <3>2, <3>3, <3>6, <4>1 DEF Dealt, Coming
    <3>7. CASE main[c] \notin {"report", "refresh"}
      BY <1>2, <2>3, <2>4, <3>2, <3>3, <3>7 DEF Dealt
    <3> QED
      BY <3>1, <3>4, <3>5, <3>6, <3>7
  <2>6. CASE AtTheMenu(c) \/ Listen(c)
    <3>1. /\ inbox'[c] = inbox[c]
          /\ \/ main'[c] = main[c]
             \/ /\ main[c] \in {"top", "menu", "chat"}
                /\ main'[c] \in {"top", "menu", "exit", "leave", "back", "report"}
      BY <2>6, MenuDoes, ListenDoes
    <3>2. main'[c] # "start" /\ main[c] # "report"
      BY <2>2, <3>1
    <3>3. /\ ReportSent(c, n)' = ReportSent(c, n) /\ ReportFirst(c, n)' = ReportFirst(c, n)
          /\ Asked(c)' = Asked(c)
      BY <3>1 DEF ReportSent, ReportFirst, Asked
    <3>4. Dealt(c, n)'
      BY <1>2, <2>3, <2>4, <3>1, <3>2, <3>3 DEF Dealt
    <3> QED
      BY <1>1, <3>4
  <2>7. ~ ReadAnswer(c)
    BY <2>2 DEF ReadAnswer, AtHome
  <2> QED
    BY <1>0, <2>1, <2>5, <2>6, <2>7, HomeSteps
<1> QED
  BY <1>3, <1>4

\* Every step keeps ReportInv.
LEMMA ReportStep ==
  ASSUME NetInv, ListInv, ChatInv, ReplyInv,
         NEW own \in [Conns -> Names], OwnNames(own), OwnInv(own), KnownInv(own), ReportInv,
         [NetNext]_net_vars
  PROVE  ReportInv'
<1>1. ASSUME NEW e \in Conns, Connect(e) PROVE ReportInv'
  <2>1. UNCHANGED << list, dialed, outbox, inbox, reply, request, peer_list >>
    BY <1>1, ConnectDoes DEF tables, NetInv
  <2> SUFFICES ASSUME NEW c \in Conns, main'[c] \in AtHome \ {"report"}, Serving(c)',
                      dialed'[c] # NoName, ~ merged'[c]
               PROVE  Dealt(c, dialed[c])'
    BY DEF ReportInv
  <2>2. pc'[c] = pc[c] /\ main'[c] = main[c] /\ ~ merged[c]
    BY <1>1, ConnectDoes, NotMerged DEF AtHome
  <2>3. Dealt(c, dialed[c])
    BY <2>1, <2>2 DEF ReportInv, Serving
  <2> QED
    BY <2>1, <2>2, <2>3, DealtSame
<1>2. ASSUME NEW e \in Conns, ClientSteps(e), ~ \E c \in Conns : Connect(c) \/ Serve(c)
      PROVE  ReportInv'
  <2>1. UNCHANGED << pc, reply, request, peer_list >>
    BY <1>2, TwoKinds DEF ClientSide, locals, tables
  <2> QED
    BY <1>2, <2>1, ReportClient
<1>3. CASE UNCHANGED net_vars
  <2>1. UNCHANGED << merged, main, list, dialed, pc, reply, request, peer_list, outbox, inbox >>
    BY <1>3 DEF net_vars, client_vars, threads, shared, vars, locals, tables, socks
  <2> SUFFICES ASSUME NEW c \in Conns, main[c] \in AtHome \ {"report"}, Serving(c),
                      dialed[c] # NoName, ~ merged[c]
               PROVE  Dealt(c, dialed[c])'
    BY <2>1 DEF ReportInv, Serving
  <2>2. Dealt(c, dialed[c])
    BY DEF ReportInv
  <2> QED
    BY <2>1, <2>2, DealtSame
<1> QED
  BY <1>1, <1>2, <1>3, ReportServe, NetSteps DEF ClientSteps

\* A peer that could not be reached, and was reported, is not in the list of the
\* client that reported it once nothing is on its way any more, whoever else
\* registers or reports meanwhile, unless a read() of its own connection has
\* returned more than one message.
THEOREM ReportedDropped ==
  ASSUME DisjointNames, MaySendAll
  PROVE  NetSpec => []ReportedIsDropped
<1>1. PICK own \in [Conns -> Names] : OwnNames(own)
  BY DEF DisjointNames, OwnNames
<1>2. NetSpec => [](SettleInv /\ OwnInv(own))
  BY <1>1, SettleInvariant
<1>3. NetInit => KnownInv(own) /\ ReportInv
  BY DEF NetInit, Init, KnownInv, KnownIn, ReportInv, Invalid, AtHome
<1>4. (/\ SettleInv /\ OwnInv(own) /\ KnownInv(own) /\ ReportInv
       /\ [NetNext]_net_vars /\ SettleInv')
        => (KnownInv(own)' /\ ReportInv')
  BY <1>1, KnownStep, ReportStep DEF SettleInv
<1>5. SettleInv /\ ReportInv => ReportedIsDropped
  <2> SUFFICES ASSUME SettleInv, ReportInv, Quiet, NEW c \in Conns, main[c] = "menu",
                      pc[c] = "main_read", ~ merged[c], NEW p \in list[c]
               PROVE  p.username # dialed[c]
    BY DEF ReportedIsDropped
  <2>1. inbox[c] = << >> /\ ~ Coming(c) /\ \A S : Newest(c, S) => S = list[c]
    BY AtRest
  <2>2. p.username # NoName
    BY ServerConstants DEF SettleInv, NetInv, ClientTypes, Peers, ServerConstants
  <2>3. dialed[c] # NoName => Dealt(c, dialed[c])
    BY DEF ReportInv, Serving, AtHome
  <2>4. dialed[c] # NoName => Clean(c, dialed[c])
    BY <2>1, <2>3 DEF Dealt, ReportFirst, AtReport
  <2> QED
    BY <2>1, <2>2, <2>4 DEF Clean
<1> QED
  BY <1>2, <1>3, <1>4, <1>5, PTL DEF NetSpec
=============================================================================
