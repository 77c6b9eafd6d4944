--------------------------- MODULE RoutingServer ---------------------------
(***************************************************************************)
(* The routing server, src/server/routing_server.c and server_main.c: one  *)
(* thread accepts connections, one detached thread per connection runs     *)
(* handle_client.  The threads share the registry of discoverable peers    *)
(* (PeerRegistry, under peer_list_mutex) and the table client_sockets of   *)
(* connections that broadcast_message writes to (under client_mutex).      *)
(*                                                                         *)
(* Grain.  A step of a handler is what it does between two points where    *)
(* another thread can be seen: one critical section of peer_list_mutex,    *)
(* one critical section of client_mutex, one read() or one write().  Only  *)
(* broadcast_message does input or output inside a critical section, so    *)
(* client_mutex is a variable and peer_list_mutex is not.                  *)
(*                                                                         *)
(* Sockets.  inbox[c] and outbox[c] are the two directions of connection   *)
(* c.  A read() returns everything that arrived so far up to some point    *)
(* between two messages, and the handler looks at the first command only.  *)
(* A write() waits while the client's buffer is full.  Once the client is  *)
(* gone a first write() succeeds and provokes a reset, a later one fails   *)
(* or raises SIGPIPE, which no code of the server handles or ignores.      *)
(***************************************************************************)
EXTENDS PeerRegistry

CONSTANTS
  Conns,        \* connections; each is opened at most once
  NoConn,       \* not a connection: client_mutex is free
  Names,        \* user names
  MaxClients,   \* MAX_CLIENTS, the length of client_sockets
  ListRoom,     \* entries for which peer_list_str (BUFFER_SIZE bytes) has room
  SockBuf,      \* messages a client's socket holds before write() waits
  MaxRead,      \* messages that one read() may return
  MaxSends,     \* bound: MaxSends[c] commands are sent on connection c
  MaySend,      \* MaySend[c]: the commands the client of c may send
  Readers,      \* the clients that read their server socket, and go on doing so
  Leavers       \* the clients that may close their connection or die

NoName == "-"   \* a username that is still empty, a command without a name

Commands ==
  [verb : {"REGISTER", "REMOVE", "PEER_DISCONNECTED"}, name : Names]
    \cup [verb : {"GET_PEER_LIST", "OTHER"}, name : {NoName}]

\* What handle_client has in buffer: a command, or the end of the stream
\* (bytes_read <= 0).
EndOfStream == [verb |-> "EOF", name |-> NoName]

Peers == [username : Names, addr : Conns]

Replies ==
  [kind : {"USERNAME_TAKEN", "INVALID_COMMAND"}]
    \cup [kind : {"PEER_LIST"}, peers : SUBSET Peers]
    \cup [kind : {"NEW_PEER"}, name : Names]

Taken == [kind |-> "USERNAME_TAKEN"]
Invalid == [kind |-> "INVALID_COMMAND"]
PeerList(peers) == [kind |-> "PEER_LIST", peers |-> peers]
NewPeer(name) == [kind |-> "NEW_PEER", name |-> name]

ASSUME ServerConstants ==
  /\ NoConn \notin Conns
  /\ NoName \notin Names
  /\ MaxClients \in Nat \ {0}
  /\ ListRoom \in Nat
  /\ SockBuf \in Nat \ {0}
  /\ MaxRead \in Nat \ {0}
  /\ MaxSends \in [Conns -> Nat]
  /\ MaySend \in [Conns -> SUBSET Commands]
  /\ Readers \subseteq Conns /\ Leavers \subseteq Conns

VARIABLES
  server,         \* "up"; "killed" by SIGPIPE; "corrupt" after an array overrun
  peer_list,      \* the registry, entries in array order
  client_sockets, \* the table of connected client sockets
  client_mutex,   \* the connection whose handler broadcasts, or NoConn
  cursor,         \* that handler's index i into client_sockets
  pc,             \* where each handler is
  username,       \* each handler's local username, NoName while it is empty
  request,        \* the command in each handler's buffer
  reply,          \* the answer each handler is about to write
  inbox, outbox,  \* the two directions of each connection
  peer_end,       \* the client's end: "idle", "open", "closed" or "reset"
  sends,          \* commands sent so far (for the bound MaxSends)
  told            \* history: the names each client was sent while it was open

tables == << peer_list, client_sockets >>
lock == << client_mutex, cursor >>
locals == << pc, username, request, reply >>
socks == << inbox, outbox, peer_end, sends, told >>
vars == << server, tables, lock, locals, socks >>

Labels == {"none", "track", "reg_read", "check", "add_peer", "reg_list",
           "reg_reply", "list_reply", "bcast_lock", "bcast", "main_read",
           "main_list", "main_reply", "rm_self", "rm_other", "rm_sock",
           "final_rm", "final_sock", "reg_sock", "close", "done"}

TypeOK ==
  /\ server \in {"up", "killed", "corrupt"}
  /\ peer_list \in Seq(Peers)
  /\ client_sockets \in Seq(Conns)
  /\ client_mutex \in Conns \cup {NoConn}
  /\ cursor \in Nat \ {0}
  /\ pc \in [Conns -> Labels]
  /\ username \in [Conns -> Names \cup {NoName}]
  /\ request \in [Conns -> Commands \cup {EndOfStream}]
  /\ reply \in [Conns -> Replies]
  /\ inbox \in [Conns -> Seq(Commands)]
  /\ outbox \in [Conns -> Seq(Replies)]
  /\ peer_end \in [Conns -> {"idle", "open", "closed", "reset"}]
  /\ sends \in [Conns -> Nat]
  /\ told \in [Conns -> SUBSET Names]

Init ==
  /\ server = "up"
  /\ peer_list = EmptyRegistry
  /\ client_sockets = << >>
  /\ client_mutex = NoConn
  /\ cursor = 1
  /\ pc = [c \in Conns |-> "none"]
  /\ username = [c \in Conns |-> NoName]
  /\ request = [c \in Conns |-> EndOfStream]
  /\ reply = [c \in Conns |-> Invalid]
  /\ inbox = [c \in Conns |-> << >>]
  /\ outbox = [c \in Conns |-> << >>]
  /\ peer_end = [c \in Conns |-> "idle"]
  /\ sends = [c \in Conns |-> 0]
  /\ told = [c \in Conns |-> {}]

\* How many of the messages that have arrived one read() may return.
Returned(arrived) == {k \in 1 .. Len(arrived) : k <= MaxRead}

-----------------------------------------------------------------------------
(* The clients, as far as the server can tell.                             *)

\* Once the handler has closed its end (pc = "done") what a client sends is lost.
ClientSend(c) ==
  /\ server = "up"
  /\ peer_end[c] = "open"
  /\ pc[c] # "done"
  /\ sends[c] < MaxSends[c]
  /\ \E m \in MaySend[c] : inbox' = [inbox EXCEPT ![c] = Append(@, m)]
  /\ sends' = [sends EXCEPT ![c] = @ + 1]
  /\ UNCHANGED << server, tables, lock, locals, outbox, peer_end, told >>

\* A client's read() takes some of what has arrived, as server_listener does.
ClientRead(c) ==
  /\ server = "up"
  /\ c \in Readers
  /\ peer_end[c] = "open"
  /\ \E k \in Returned(outbox[c]) :
       outbox' = [outbox EXCEPT ![c] = SubSeq(@, k + 1, Len(@))]
  /\ UNCHANGED << server, tables, lock, locals, inbox, peer_end, sends, told >>

\* close() or the death of the client; with unread replies it resets at once.
ClientClose(c) ==
  /\ server = "up"
  /\ c \in Leavers
  /\ peer_end[c] = "open"
  /\ peer_end' = [peer_end EXCEPT ![c] = IF outbox[c] = << >> THEN "closed" ELSE "reset"]
  /\ outbox' = [outbox EXCEPT ![c] = << >>]
  /\ UNCHANGED << server, tables, lock, locals, inbox, sends, told >>

-----------------------------------------------------------------------------
(* Reading and writing a socket.                                           *)

GoTo(c, label) == pc' = [pc EXCEPT ![c] = label]

NamesIn(m) ==
  CASE m.kind = "PEER_LIST" -> {p.username : p \in m.peers}
    [] m.kind = "NEW_PEER"  -> {m.name}
    [] OTHER                -> {}

\* write(): wait for room, or go unnoticed, or fail; the result is not used.
WriteTo(d, m) ==
  /\ \/ /\ peer_end[d] = "open"
        /\ Len(outbox[d]) < SockBuf
        /\ outbox' = [outbox EXCEPT ![d] = Append(@, m)]
        /\ told' = [told EXCEPT ![d] = @ \cup NamesIn(m)]
        /\ UNCHANGED << server, peer_end >>
     \/ /\ peer_end[d] = "closed"
        /\ peer_end' = [peer_end EXCEPT ![d] = "reset"]
        /\ UNCHANGED << server, outbox, told >>
     \/ /\ peer_end[d] = "reset"
        /\ server' \in {"up", "killed"}
        /\ UNCHANGED << outbox, peer_end, told >>
  /\ UNCHANGED << inbox, sends >>

\* read() of a command: request is the first of the k commands it returns.
ReadCommand(c) ==
  \E k \in Returned(inbox[c]) :
    /\ request' = [request EXCEPT ![c] = Head(inbox[c])]
    /\ inbox' = [inbox EXCEPT ![c] = SubSeq(@, k + 1, Len(@))]

\* read() of the end of the stream or of an error.
\* (The mutant takes only 0, not -1, for the end.)
AtEndMutant(c) == inbox[c] = << >> /\ peer_end[c] = "closed"
AtEnd(c) == inbox[c] = << >> /\ peer_end[c] \in {"closed", "reset"}

ReadEnd(c) ==
  /\ AtEnd(c)
  /\ request' = [request EXCEPT ![c] = EndOfStream]

-----------------------------------------------------------------------------
(* server_main.c: the accept loop.                                         *)

\* A client has connected, accept() returns its socket and a detached thread
\* starts for it.
Accept(c) ==
  /\ server = "up"
  /\ pc[c] = "none"
  /\ peer_end' = [peer_end EXCEPT ![c] = "open"]
  /\ GoTo(c, "track")
  /\ UNCHANGED << server, tables, lock, username, request, reply,
                  inbox, outbox, sends, told >>

\* malloc or pthread_create failed: the connection is closed unserved.
AcceptFails(c) ==
  /\ server = "up"
  /\ pc[c] = "none"
  /\ GoTo(c, "done")
  /\ UNCHANGED << server, tables, lock, username, request, reply, socks >>

-----------------------------------------------------------------------------
(* handle_client: the client table and registration.                       *)

\* client_sockets[client_count++] without a check of MAX_CLIENTS.
Track(c) ==
  /\ server = "up"
  /\ pc[c] = "track"
  /\ client_mutex = NoConn
  /\ IF Len(client_sockets) < MaxClients
     THEN /\ client_sockets' = Append(client_sockets, c)
          /\ GoTo(c, "reg_read")
          /\ UNCHANGED server
     ELSE /\ server' = "corrupt"
          /\ UNCHANGED << client_sockets, pc >>
  /\ UNCHANGED << peer_list, lock, username, request, reply, socks >>

RegRead(c) ==
  /\ server = "up"
  /\ pc[c] = "reg_read"
  /\ ReadCommand(c)
  /\ IF request'[c].verb = "REGISTER"
     THEN /\ username' = [username EXCEPT ![c] = request'[c].name]
          /\ GoTo(c, "check")
          /\ UNCHANGED reply
     ELSE /\ reply' = [reply EXCEPT ![c] = Invalid]
          /\ GoTo(c, "reg_reply")
          /\ UNCHANGED username
  /\ UNCHANGED << server, tables, lock, outbox, peer_end, sends, told >>

RegEnd(c) ==
  /\ server = "up"
  /\ pc[c] = "reg_read"
  /\ ReadEnd(c)
  /\ GoTo(c, "reg_sock")
  /\ UNCHANGED << server, tables, lock, username, reply, socks >>

\* username_exists and add_peer are two critical sections.
CheckName(c) ==
  /\ server = "up"
  /\ pc[c] = "check"
  /\ IF UsernameExists(peer_list, username[c])
     THEN /\ reply' = [reply EXCEPT ![c] = Taken]
          /\ GoTo(c, "reg_reply")
     ELSE /\ GoTo(c, "add_peer")
          /\ UNCHANGED reply
  /\ UNCHANGED << server, tables, lock, username, request, socks >>

Enter(c) ==
  /\ server = "up"
  /\ pc[c] = "add_peer"
  /\ peer_list' = AddPeer(peer_list, [username |-> username[c], addr |-> c])
  /\ GoTo(c, "reg_list")
  /\ UNCHANGED << server, client_sockets, lock, username, request, reply, socks >>

\* The strcat loop, for a new and for a registered client alike: a registry
\* with more entries than peer_list_str has room for overruns it.
MakeList(c) ==
  /\ server = "up"
  /\ pc[c] \in {"reg_list", "main_list"}
  /\ reply' = [reply EXCEPT ![c] = PeerList(Listing(peer_list, username[c]))]
  /\ server' = IF Cardinality(Listing(peer_list, username[c])) > ListRoom
               THEN "corrupt" ELSE server
  /\ GoTo(c, IF pc[c] = "reg_list" THEN "list_reply" ELSE "main_reply")
  /\ UNCHANGED << tables, lock, username, request, socks >>

\* (The mutant forgets to announce the new peer.)
AfterReplyMutant ==
  [reg_reply |-> "reg_read", list_reply |-> "main_read", main_reply |-> "main_read"]
AfterReply ==
  [reg_reply |-> "reg_read", list_reply |-> "bcast_lock", main_reply |-> "main_read"]

\* write() of the prepared reply, which goes out of scope with it.
Answer(c) ==
  /\ server = "up"
  /\ pc[c] \in DOMAIN AfterReply
  /\ WriteTo(c, reply[c])
  /\ reply' = [reply EXCEPT ![c] = Invalid]
  /\ GoTo(c, AfterReply[pc[c]])
  /\ UNCHANGED << tables, lock, username, request >>

-----------------------------------------------------------------------------
(* broadcast_message: client_mutex is held across every write.             *)

\* (The mutant starts in front of the table.)
BroadcastBeginMutant(c) ==
  /\ server = "up"
  /\ pc[c] = "bcast_lock"
  /\ client_mutex = NoConn
  /\ client_mutex' = c
  /\ cursor' = 0
  /\ GoTo(c, "bcast")
  /\ UNCHANGED << server, tables, username, request, reply, socks >>
BroadcastBegin(c) ==
  /\ server = "up"
  /\ pc[c] = "bcast_lock"
  /\ client_mutex = NoConn
  /\ client_mutex' = c
  /\ cursor' = 1
  /\ GoTo(c, "bcast")
  /\ UNCHANGED << server, tables, username, request, reply, socks >>

BroadcastNext(c) ==
  /\ server = "up"
  /\ pc[c] = "bcast"
  /\ cursor <= Len(client_sockets)
  /\ IF client_sockets[cursor] = c
     THEN UNCHANGED << server, socks >>
     ELSE WriteTo(client_sockets[cursor], NewPeer(username[c]))
  /\ cursor' = cursor + 1
  /\ UNCHANGED << tables, client_mutex, locals >>

\* (The mutant returns without unlocking.)
BroadcastEndMutant(c) ==
  /\ server = "up"
  /\ pc[c] = "bcast"
  /\ cursor > Len(client_sockets)
  /\ GoTo(c, "main_read")
  /\ UNCHANGED << server, tables, lock, username, request, reply, socks >>
BroadcastEnd(c) ==
  /\ server = "up"
  /\ pc[c] = "bcast"
  /\ cursor > Len(client_sockets)
  /\ client_mutex' = NoConn
  /\ cursor' = 1
  /\ GoTo(c, "main_read")
  /\ UNCHANGED << server, tables, username, request, reply, socks >>

-----------------------------------------------------------------------------
(* handle_client: the main loop and the clean-up behind it.                *)

MainRead(c) ==
  /\ server = "up"
  /\ pc[c] = "main_read"
  /\ ReadCommand(c)
  /\ LET verb == request'[c].verb IN
     /\ GoTo(c, CASE verb = "GET_PEER_LIST"     -> "main_list"
                  [] verb = "REMOVE"            -> "rm_self"
                  [] verb = "PEER_DISCONNECTED" -> "rm_other"
                  [] OTHER                      -> "main_reply")
     /\ username' = IF verb = "REMOVE"
                    THEN [username EXCEPT ![c] = request'[c].name] ELSE username
  /\ UNCHANGED << server, tables, lock, reply, outbox, peer_end, sends, told >>

\* (The mutant keeps the entry of a client that did not say REMOVE.)
MainEndMutant(c) ==
  /\ server = "up"
  /\ pc[c] = "main_read"
  /\ ReadEnd(c)
  /\ GoTo(c, "final_sock")
  /\ UNCHANGED << server, tables, lock, username, reply, socks >>
MainEnd(c) ==
  /\ server = "up"
  /\ pc[c] = "main_read"
  /\ ReadEnd(c)
  /\ GoTo(c, "final_rm")
  /\ UNCHANGED << server, tables, lock, username, reply, socks >>

RemoveSelf(c) ==
  /\ server = "up"
  /\ pc[c] = "rm_self"
  /\ peer_list' = RemovePeer(peer_list, username[c])
  /\ GoTo(c, "rm_sock")
  /\ UNCHANGED << server, client_sockets, lock, username, request, reply, socks >>

\* PEER_DISCONNECTED: any registered client may have any name removed.
RemoveOther(c) ==
  /\ server = "up"
  /\ pc[c] = "rm_other"
  /\ peer_list' = RemovePeer(peer_list, request[c].name)
  /\ GoTo(c, "main_read")
  /\ UNCHANGED << server, client_sockets, lock, username, request, reply, socks >>

\* After the loop registered is always 1, so remove_peer always runs, after
\* a REMOVE for the second time.
FinalRemove(c) ==
  /\ server = "up"
  /\ pc[c] = "final_rm"
  /\ peer_list' = RemovePeer(peer_list, username[c])
  /\ GoTo(c, "final_sock")
  /\ UNCHANGED << server, client_sockets, lock, username, request, reply, socks >>

AfterUntrack ==
  [reg_sock |-> "close", rm_sock |-> "final_rm", final_sock |-> "close"]

\* remove_client_socket finds the socket at most once.
Forget(table, c) ==
  LET i == SelectInSeq(table, LAMBDA d : d = c)
  IN IF i = 0 THEN table ELSE SwapOut(table, i)

\* (The mutant does not take client_mutex.)
UntrackMutant(c) ==
  /\ server = "up"
  /\ pc[c] \in DOMAIN AfterUntrack
  /\ client_sockets' = Forget(client_sockets, c)
  /\ GoTo(c, AfterUntrack[pc[c]])
  /\ UNCHANGED << server, peer_list, lock, username, request, reply, socks >>
Untrack(c) ==
  /\ server = "up"
  /\ pc[c] \in DOMAIN AfterUntrack
  /\ client_mutex = NoConn
  /\ client_sockets' = Forget(client_sockets, c)
  /\ GoTo(c, AfterUntrack[pc[c]])
  /\ UNCHANGED << server, peer_list, lock, username, request, reply, socks >>

\* close(): commands not yet read are discarded.
Close(c) ==
  /\ server = "up"
  /\ pc[c] = "close"
  /\ GoTo(c, "done")
  /\ inbox' = [inbox EXCEPT ![c] = << >>]
  /\ UNCHANGED << server, tables, lock, username, request, reply,
                  outbox, peer_end, sends, told >>

-----------------------------------------------------------------------------
Client(c) == ClientSend(c) \/ ClientRead(c) \/ ClientClose(c)

MainThread(c) == Accept(c) \/ AcceptFails(c)

Handler(c) ==
  \/ Track(c) \/ RegRead(c) \/ RegEnd(c) \/ CheckName(c) \/ Enter(c)
  \/ MakeList(c) \/ Answer(c)
  \/ BroadcastBegin(c) \/ BroadcastNext(c) \/ BroadcastEnd(c)
  \/ MainRead(c) \/ MainEnd(c) \/ RemoveSelf(c) \/ RemoveOther(c)
  \/ FinalRemove(c) \/ Untrack(c) \/ Close(c)

\* Where the system may rest: the process is gone, or every handler is done
\* or waits for a command.  Anything else that stands still is a deadlock.
Finished ==
  /\ \/ server # "up"
     \/ \A c \in Conns : \/ pc[c] = "done"
                         \/ pc[c] \in {"reg_read", "main_read"} /\ inbox[c] = << >>
  /\ UNCHANGED vars

Next ==
  \/ \E c \in Conns : Client(c) \/ MainThread(c) \/ Handler(c)
  \/ Finished

Spec == Init /\ [][Next]_vars

\* The scheduler runs every thread of the server; clients owe nothing except
\* that a client in Readers goes on reading its socket.
Fairness ==
  \A c \in Conns :
    /\ WF_vars(MainThread(c))
    /\ WF_vars(Handler(c))
    /\ c \in Readers => WF_vars(ClientRead(c))

FairSpec == Spec /\ Fairness

-----------------------------------------------------------------------------
(* Where a handler stands.                                                 *)

\* Handlers between Track and Untrack.
Tracked(c) ==
  \/ pc[c] \in Labels \ {"none", "track", "final_rm", "final_sock", "close", "done"}
  \/ pc[c] \in {"final_rm", "final_sock"} /\ request[c] = EndOfStream

\* Handlers that have entered their client and not yet removed it again.
Joined(c) ==
  \/ pc[c] \in {"reg_list", "list_reply", "bcast_lock", "bcast", "main_read",
                "main_list", "main_reply", "rm_self", "rm_other"}
  \/ pc[c] = "final_rm" /\ request[c] = EndOfStream

\* Handlers in the main loop: the registration is complete and announced.
InMainLoop(c) == pc[c] \in {"main_read", "main_list", "main_reply", "rm_other"}

\* Each client registers and removes one name, its own; any client may report
\* any other as disconnected.
DisjointNames ==
  \E own \in [Conns -> Names] :
    /\ \A c, d \in Conns : own[c] = own[d] => c = d
    /\ \A c \in Conns : \A m \in MaySend[c] :
         m.verb \in {"REGISTER", "REMOVE"} => m.name = own[c]

-----------------------------------------------------------------------------
(* Safety.                                                                 *)

\* The client table is exactly the sockets of the handlers between their
\* Track and their (first) Untrack, each once: swap-removal, the two calls of
\* remove_client_socket on the REMOVE path and the exit during registration
\* never lose a neighbour's socket nor leave a closed one to be written to.
ClientTableSound ==
  /\ \A i, j \in DOMAIN client_sockets :
       client_sockets[i] = client_sockets[j] => i = j
  /\ Range(client_sockets) = {c \in Conns : Tracked(c)}

\* client_mutex belongs to the one broadcasting handler, and while it
\* broadcasts the table does not change under its index: every open client
\* before the index, and no other handler's, has been sent the name.
BroadcastSound ==
  /\ \A c \in Conns : client_mutex = c <=> pc[c] = "bcast"
  /\ \A c \in Conns : pc[c] = "bcast" =>
       /\ cursor <= Len(client_sockets) + 1
       /\ \A i \in 1 .. cursor - 1 :
            LET d == client_sockets[i] IN
              d # c /\ peer_end[d] = "open" => username[c] \in told[d]

\* Two members always get to know of each other: a client in the main loop
\* was sent, in its PEER_LIST or in a broadcast, the name of every listed
\* peer whose registration is complete (its own name excepted), whatever the
\* order of Track, add_peer, the snapshot of the list and the broadcast.
PeersAnnounced ==
  \A c \in Conns : InMainLoop(c) /\ peer_end[c] = "open" =>
    \A p \in Range(peer_list) :
      \/ p.addr = c \/ p.username = username[c]
      \/ ~ InMainLoop(p.addr)
      \/ p.username \in told[c]

\* When no two clients use one name, each entry of the registry belongs to a
\* handler that still serves its client and that will remove exactly this
\* entry: nothing is left in the registry of a connection that is gone.
NoGhostEntries ==
  /\ \A p \in Range(peer_list) : Joined(p.addr) /\ username[p.addr] = p.username
  /\ \A i, j \in DOMAIN peer_list : peer_list[i].addr = peer_list[j].addr => i = j

\* "Username is available": no name is listed twice.  The check and the
\* insertion are two critical sections, so this does not hold.
UniqueUsernames ==
  \A i, j \in DOMAIN peer_list : peer_list[i].username = peer_list[j].username => i = j

\* The server keeps the directory of peers.
Promised == INSTANCE Directory WITH
  listed <- Range(peer_list),
  stage <- [c \in Conns |->
              IF Joined(c) THEN "member"
              ELSE IF pc[c] \in {"rm_sock", "final_rm", "final_sock", "close", "done"}
              THEN "gone" ELSE "new"]

KeepsDirectory == Promised!Spec

-----------------------------------------------------------------------------
(* Liveness, under FairSpec.                                               *)

\* A connection whose client has gone is cleaned up, however it went and
\* whatever its handler was doing, unless SIGPIPE ends the process first.
GoneIsForgotten ==
  \A c \in Conns :
    (pc[c] # "none" /\ peer_end[c] \in {"closed", "reset"})
      ~> (pc[c] = "done" \/ server # "up")

\* "Broadcast to other clients about new peer": a REGISTER that passed the
\* check gets as far as the main loop.
RegistrationCompletes ==
  \A c \in Conns :
    pc[c] = "add_peer" ~> (pc[c] \in {"main_read", "done"} \/ server # "up")
=============================================================================
