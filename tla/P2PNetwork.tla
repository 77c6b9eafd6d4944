---------------------------- MODULE P2PNetwork -----------------------------
(***************************************************************************)
(* The routing server together with the clients that use it: what          *)
(* src/client does with its connection to the server.  The server's steps  *)
(* are those of RoutingServer; in the place of an arbitrary client stands  *)
(* the client program, with its main thread (main), the thread that reads  *)
(* the server's messages (listener) and the thread of a caller it lets in  *)
(* (handler).  They share the descriptor of the server socket (sock), the  *)
(* list of peers and in_chat.                                              *)
(*                                                                         *)
(* A client is named by its connection.  A chat is a phase of the two      *)
(* threads that hold it; what happens inside is the subject of module      *)
(* Conversation.  A call from ringing to its answer is one step.           *)
(*                                                                         *)
(* Grain.  One read() or one write() of a thread, or one thing its user    *)
(* does, with the computation up to the next one.                          *)
(***************************************************************************)
EXTENDS RoutingServer

CONSTANTS
  MayName,      \* MayName[c]: the names that the user of c may enter
  SetupFails,   \* whether malloc, pthread_create, socket, bind or listen may
                \* fail in a client
  MaxCalls      \* bound: calls that the user of c makes

VARIABLES
  main,         \* where the main thread of each client is
  my_name,      \* username_global, NoName while it is empty
  list,         \* the client's copy of the list of peers
  listener,     \* server_listener: "none", "run", "notified" or "ended"
  handler,      \* handle_incoming_peer, "none" when nobody has called
  ears,         \* peer_listener: "deaf", "open" or "failed"
  in_chat,      \* the flag of the same name
  sock,         \* server_sock: "open" or "closed"
  cut,          \* the client's kernel knows that the server hung up
  dialed,       \* selected_username: the peer that could not be reached
  calls,        \* calls made so far (for the bound MaxCalls)
  merged        \* history: a read() of the connection, by the server's handler
                \* or by the client, has returned more than one message

ASSUME NetConstants ==
  /\ MayName \in [Conns -> SUBSET Names]
  /\ SetupFails \in BOOLEAN
  /\ MaxCalls \in [Conns -> Nat]

threads == << main, listener, handler, ears >>
shared == << my_name, list, in_chat, sock >>
client_vars == << threads, shared, cut, dialed, calls, merged >>
net_vars == << vars, client_vars >>

\* "top" is the test of in_chat at the head of the menu loop, "menu" the
\* prompt behind it.
MainLabels == {"off", "ask", "answer", "start", "top", "menu", "report",
               "refresh", "leave", "chat", "back", "exit", "closing", "gone"}
HandlerLabels == {"none", "leave", "chat", "back", "refresh"}

NetTypeOK ==
  /\ TypeOK
  /\ main \in [Conns -> MainLabels]
  /\ my_name \in [Conns -> Names \cup {NoName}]
  /\ list \in [Conns -> SUBSET Peers]
  /\ listener \in [Conns -> {"none", "run", "notified", "ended"}]
  /\ handler \in [Conns -> HandlerLabels]
  /\ ears \in [Conns -> {"deaf", "open", "failed"}]
  /\ in_chat \in [Conns -> BOOLEAN]
  /\ sock \in [Conns -> {"open", "closed"}]
  /\ cut \in [Conns -> BOOLEAN]
  /\ dialed \in [Conns -> Names \cup {NoName}]
  /\ calls \in [Conns -> Nat]
  /\ merged \in [Conns -> BOOLEAN]

NetInit ==
  /\ Init
  /\ main = [c \in Conns |-> "off"]
  /\ my_name = [c \in Conns |-> NoName]
  /\ list = [c \in Conns |-> {}]
  /\ listener = [c \in Conns |-> "none"]
  /\ handler = [c \in Conns |-> "none"]
  /\ ears = [c \in Conns |-> "deaf"]
  /\ in_chat = [c \in Conns |-> FALSE]
  /\ sock = [c \in Conns |-> "open"]
  /\ cut = [c \in Conns |-> FALSE]
  /\ dialed = [c \in Conns |-> NoName]
  /\ calls = [c \in Conns |-> 0]
  /\ merged = [c \in Conns |-> FALSE]

MainGoes(c, label) == main' = [main EXCEPT ![c] = label]
HandlerGoes(c, label) == handler' = [handler EXCEPT ![c] = label]

-----------------------------------------------------------------------------
(* The descriptor of the server socket.                                    *)

Command(verb, name) == [verb |-> verb, name |-> name]
GetPeerList == Command("GET_PEER_LIST", NoName)

\* write(server_sock, ...), whose result is not used: delivered; lost on a
\* connection that the server has closed, which the first loss finds out; or
\* lost because listener has closed the descriptor, whatever its number stands
\* for by now.
WriteServer(c, m) ==
  /\ \/ /\ sock[c] = "open" /\ pc[c] # "done"
        /\ inbox' = [inbox EXCEPT ![c] = Append(@, m)]
        /\ sends' = [sends EXCEPT ![c] = @ + 1]
        /\ UNCHANGED cut
     \/ /\ sock[c] = "open" /\ pc[c] = "done"
        /\ cut' = [cut EXCEPT ![c] = TRUE]
        /\ UNCHANGED << inbox, sends >>
     \/ sock[c] = "closed" /\ UNCHANGED << inbox, sends, cut >>
  /\ UNCHANGED << server, tables, lock, locals, outbox, peer_end, told >>

\* read(), which returns the first k messages.
ReadServer(c, k) ==
  /\ sock[c] = "open"
  /\ k \in Returned(outbox[c])
  /\ merged' = [merged EXCEPT ![c] = @ \/ k > 1]
  /\ outbox' = [outbox EXCEPT ![c] = SubSeq(@, k + 1, Len(@))]
  /\ UNCHANGED << server, tables, lock, locals, inbox, peer_end, sends, told >>

\* update_peer_list takes every line of the buffer that is an entry, whichever
\* message it came in.
Entries(c, k) ==
  UNION {m.peers : m \in {n \in Range(SubSeq(outbox[c], 1, k)) : n.kind = "PEER_LIST"}}

ServerHungUp(c) == sock[c] = "open" /\ outbox[c] = << >> /\ pc[c] = "done"

\* The client's end of the connection goes away: close(), exit() or death.
\* Nobody is left to notice when the server has closed its end before.
HangUp(c) ==
  /\ IF sock[c] = "open" /\ pc[c] # "done"
     THEN /\ peer_end' = [peer_end EXCEPT ![c] =
                            IF outbox[c] = << >> THEN "closed" ELSE "reset"]
          /\ outbox' = [outbox EXCEPT ![c] = << >>]
     ELSE UNCHANGED << peer_end, outbox >>
  /\ UNCHANGED << server, tables, lock, locals, inbox, sends, told >>

EndProcess(c) ==
  /\ MainGoes(c, "gone")
  /\ listener' = [listener EXCEPT ![c] = "ended"]
  /\ HandlerGoes(c, "none")
  /\ ears' = [ears EXCEPT ![c] = "deaf"]
  /\ HangUp(c)

-----------------------------------------------------------------------------
(* main: connecting and registering.                                       *)

\* connect_to_server, and the server's accept() of it.
Connect(c) ==
  /\ main[c] = "off"
  /\ MainThread(c)
  /\ MainGoes(c, "ask")
  /\ UNCHANGED << my_name, list, listener, handler, ears, in_chat, sock, cut,
                  dialed, calls, merged >>

\* (The mutant prepares the command before it reads the name.)
EnterNameMutant(c) ==
  /\ main[c] = "ask"
  /\ \E n \in MayName[c] :
       /\ my_name' = [my_name EXCEPT ![c] = n]
       /\ WriteServer(c, Command("REGISTER", my_name[c]))
  /\ MainGoes(c, "answer")
  /\ UNCHANGED << list, listener, handler, ears, in_chat, sock, dialed, calls, merged >>
EnterName(c) ==
  /\ main[c] = "ask"
  /\ \E n \in MayName[c] :
       /\ my_name' = [my_name EXCEPT ![c] = n]
       /\ WriteServer(c, Command("REGISTER", n))
  /\ MainGoes(c, "answer")
  /\ UNCHANGED << list, listener, handler, ears, in_chat, sock, dialed, calls, merged >>

\* The first message decides: PEER_LIST starts the two listener threads, which
\* ends the program if it fails; so does INVALID_COMMAND; USERNAME_TAKEN and
\* anything unexpected ask for a name.
ReadAnswer(c) ==
  /\ main[c] = "answer"
  /\ \E k \in Returned(outbox[c]) :
       LET answer == Head(outbox[c]) IN
       /\ ReadServer(c, k)
       /\ \/ /\ answer.kind = "PEER_LIST"
             /\ list' = [list EXCEPT ![c] = Entries(c, k)]
             /\ \/ /\ listener' = [listener EXCEPT ![c] = "run"]
                   /\ MainGoes(c, "start")
                \/ /\ SetupFails
                   /\ MainGoes(c, "closing")
                   /\ UNCHANGED listener
          \/ /\ answer.kind \in {"USERNAME_TAKEN", "NEW_PEER"}
             /\ MainGoes(c, "ask")
             /\ UNCHANGED << list, listener >>
          \/ /\ answer.kind = "INVALID_COMMAND"
             /\ MainGoes(c, "closing")
             /\ UNCHANGED << list, listener >>
  /\ UNCHANGED << handler, ears, my_name, in_chat, sock, cut, dialed, calls >>

\* read() returned the end of the stream: exit(1).
NoAnswer(c) ==
  /\ main[c] = "answer"
  /\ ServerHungUp(c)
  /\ EndProcess(c)
  /\ UNCHANGED << shared, cut, dialed, calls, merged >>

\* The port is bound in a thread of its own, at some time after the list of
\* peers has come.  If that fails the thread ends, and the client goes on,
\* listed, without anybody being able to call it.
BindAndListen(c) ==
  /\ ears[c] = "deaf"
  /\ listener[c] # "none" /\ main[c] # "gone"
  /\ \E e \in {"open"} \cup IF SetupFails THEN {"failed"} ELSE {} :
       ears' = [ears EXCEPT ![c] = e]
  /\ UNCHANGED << vars, main, listener, handler, shared, cut, dialed, calls, merged >>

-----------------------------------------------------------------------------
(* main and handle_incoming_peer: commands to the server.                  *)

\* (The mutant goes into a chat without REMOVE.)
MainCommandMutant(c) ==
  CASE main[c] \in {"start", "refresh", "leave"} -> GetPeerList
    [] main[c] = "report" -> Command("PEER_DISCONNECTED", dialed[c])
    [] main[c] = "exit"   -> Command("REMOVE", my_name[c])
    [] main[c] = "back"   -> Command("REGISTER", my_name[c])
MainCommand(c) ==
  CASE main[c] \in {"start", "refresh"} -> GetPeerList
    [] main[c] = "report"               -> Command("PEER_DISCONNECTED", dialed[c])
    [] main[c] \in {"leave", "exit"}    -> Command("REMOVE", my_name[c])
    [] main[c] = "back"                 -> Command("REGISTER", my_name[c])

\* (The mutant does not ask for the list after a report.)
AfterMainCommandMutant ==
  [start |-> "top", report |-> "top", refresh |-> "top", leave |-> "chat",
   back |-> "refresh", exit |-> "closing"]
AfterMainCommand ==
  [start |-> "top", report |-> "refresh", refresh |-> "top", leave |-> "chat",
   back |-> "refresh", exit |-> "closing"]

MainWrites(c) ==
  /\ main[c] \in DOMAIN AfterMainCommand
  /\ WriteServer(c, MainCommand(c))
  /\ MainGoes(c, AfterMainCommand[main[c]])
  /\ in_chat' = [in_chat EXCEPT ![c] = @ \/ main[c] = "leave"]
  /\ UNCHANGED << my_name, list, listener, handler, ears, sock, dialed, calls, merged >>

HandlerCommand(c) ==
  CASE handler[c] = "leave"   -> Command("REMOVE", my_name[c])
    [] handler[c] = "back"    -> Command("REGISTER", my_name[c])
    [] handler[c] = "refresh" -> GetPeerList

AfterHandlerCommand == [leave |-> "chat", back |-> "refresh", refresh |-> "none"]

HandlerWrites(c) ==
  /\ handler[c] \in DOMAIN AfterHandlerCommand
  /\ WriteServer(c, HandlerCommand(c))
  /\ HandlerGoes(c, AfterHandlerCommand[handler[c]])
  /\ in_chat' = [in_chat EXCEPT ![c] = @ \/ handler[c] = "leave"]
  /\ UNCHANGED << main, my_name, list, listener, ears, sock, dialed, calls, merged >>

-----------------------------------------------------------------------------
(* main: the menu.                                                         *)

SeeMenu(c) ==
  /\ main[c] = "top"
  /\ ~ in_chat[c]
  /\ MainGoes(c, "menu")
  /\ UNCHANGED << vars, listener, handler, ears, shared, cut, dialed, calls, merged >>

\* Input that leads back to the top: an unknown name, one's own, a call that
\* is denied or not answered.
NoCall(c) ==
  /\ main[c] = "menu"
  /\ MainGoes(c, "top")
  /\ UNCHANGED << vars, listener, handler, ears, shared, cut, dialed, calls, merged >>

\* The peers that the user of c can try: those of the list but oneself.
Callable(c) == {p \in list[c] : p.username # my_name[c]}

Dial(c, p) ==
  /\ main[c] = "menu"
  /\ p \in Callable(c)
  /\ calls[c] < MaxCalls[c]
  /\ calls' = [calls EXCEPT ![c] = @ + 1]

\* connect() failed: the server will be told.
CallFails(c, p) ==
  /\ Dial(c, p)
  /\ ears[p.addr] # "open"
  /\ MainGoes(c, "report")
  /\ dialed' = [dialed EXCEPT ![c] = p.username]
  /\ UNCHANGED << vars, listener, handler, ears, shared, cut, merged >>

\* CONNECT_REQUEST, the "yes" of the other user, ACCEPT.  Bound: a client has
\* one caller at a time.
CallAccepted(c, p) ==
  LET d == p.addr IN
  /\ Dial(c, p)
  /\ d # c /\ ears[d] = "open" /\ main[d] # "closing" /\ handler[d] = "none"
  /\ MainGoes(c, "leave")
  /\ HandlerGoes(d, "leave")
  /\ UNCHANGED << vars, listener, ears, shared, cut, dialed, merged >>

\* The first of the two chat threads that ends resets in_chat, while the thread
\* that holds the chat still waits to join them.
ChatThreadEnds(c) ==
  /\ main[c] = "chat" \/ handler[c] = "chat"
  /\ in_chat' = [in_chat EXCEPT ![c] = FALSE]
  /\ UNCHANGED << vars, threads, my_name, list, sock, cut, dialed, calls, merged >>

\* Both chat threads have been joined, the connection is closed and in_chat
\* reset; or a chat thread could not be created and the client does not
\* register again.
ChatEnds(c) ==
  /\ \/ /\ main[c] = "chat"
        /\ MainGoes(c, "back") \/ (SetupFails /\ MainGoes(c, "top"))
        /\ UNCHANGED handler
     \/ /\ handler[c] = "chat"
        /\ HandlerGoes(c, "back") \/ (SetupFails /\ HandlerGoes(c, "none"))
        /\ UNCHANGED main
  /\ in_chat' = [in_chat EXCEPT ![c] = FALSE]
  /\ UNCHANGED << vars, listener, ears, my_name, list, sock, cut, dialed, calls, merged >>

-----------------------------------------------------------------------------
(* The end of a client.                                                    *)

Exit(c) ==
  /\ c \in Leavers
  /\ main[c] = "menu"
  /\ MainGoes(c, "exit")
  /\ UNCHANGED << vars, listener, handler, ears, shared, cut, dialed, calls, merged >>

\* The listener threads, if any, are cancelled and joined, the socket is
\* closed, and the return from main or exit() ends whatever still runs.
Leave(c) ==
  /\ main[c] = "closing"
  /\ EndProcess(c)
  /\ UNCHANGED << shared, cut, dialed, calls, merged >>

\* A write() on a connection known to be cut raises SIGPIPE.
Sigpipe(c) ==
  /\ sock[c] = "open" /\ pc[c] = "done" /\ cut[c]
  /\ \/ main[c] \in DOMAIN AfterMainCommand
     \/ handler[c] \in DOMAIN AfterHandlerCommand
     \/ listener[c] = "notified"

Die(c) ==
  /\ main[c] \notin {"off", "gone"}
  /\ c \in Leavers \/ Sigpipe(c)
  /\ EndProcess(c)
  /\ UNCHANGED << shared, cut, dialed, calls, merged >>

-----------------------------------------------------------------------------
(* server_listener.                                                        *)

\* Only the first message of the buffer is looked at.
Listen(c) ==
  /\ listener[c] = "run"
  /\ \E k \in Returned(outbox[c]) :
       LET kind == Head(outbox[c]).kind IN
       /\ ReadServer(c, k)
       /\ listener' = [listener EXCEPT ![c] = IF kind = "NEW_PEER" THEN "notified" ELSE @]
       /\ list' = [list EXCEPT ![c] = IF kind = "PEER_LIST" THEN Entries(c, k) ELSE @]
  /\ UNCHANGED << main, handler, ears, my_name, in_chat, sock, cut, dialed, calls >>

ListenerWrites(c) ==
  /\ listener[c] = "notified"
  /\ WriteServer(c, GetPeerList)
  /\ listener' = [listener EXCEPT ![c] = "run"]
  /\ UNCHANGED << main, handler, ears, shared, dialed, calls, merged >>

\* read() returned the end of the stream.
ListenerEnds(c) ==
  /\ listener[c] = "run"
  /\ ServerHungUp(c)
  /\ HangUp(c)
  /\ sock' = [sock EXCEPT ![c] = "closed"]
  /\ listener' = [listener EXCEPT ![c] = "ended"]
  /\ UNCHANGED << main, handler, ears, my_name, list, in_chat, cut, dialed, calls, merged >>

-----------------------------------------------------------------------------
\* A step of the server.  close() with commands unread resets the connection.
Serve(c) ==
  /\ Handler(c)
  /\ cut' = [cut EXCEPT ![c] = @ \/ (pc[c] = "close" /\ inbox[c] # << >>)]
  /\ merged' = [merged EXCEPT ![c] =
                  @ \/ (pc[c] # "close" /\ Len(inbox[c]) > Len(inbox'[c]) + 1)]
  /\ UNCHANGED << threads, shared, dialed, calls >>

MainActs(c) ==
  \/ ReadAnswer(c) \/ NoAnswer(c) \/ MainWrites(c) \/ SeeMenu(c) \/ Leave(c)

UserActs(c) ==
  \/ EnterName(c) \/ NoCall(c) \/ Exit(c) \/ ChatThreadEnds(c) \/ ChatEnds(c)
  \/ \E p \in Peers : CallFails(c, p) \/ CallAccepted(c, p)

ListenerActs(c) == Listen(c) \/ ListenerWrites(c) \/ ListenerEnds(c)

\* Nothing is on its way and nobody has anything left to do but to wait for a
\* user.
ServerRests ==
  \A c \in Conns : \/ pc[c] \in {"none", "done"}
                   \/ /\ pc[c] \in {"reg_read", "main_read"}
                      /\ inbox[c] = << >> /\ ~ AtEnd(c)

ClientRests(c) ==
  /\ \/ main[c] \in {"off", "ask", "menu", "chat", "gone"}
     \/ main[c] = "top" /\ (in_chat[c] => handler[c] = "chat")
  /\ handler[c] \in {"none", "chat"}
  /\ ears[c] # "deaf" \/ main[c] \in {"off", "ask", "gone"}
  /\ listener[c] = "run" => outbox[c] = << >> /\ pc[c] # "done"
  /\ listener[c] # "notified"

Quiet == ServerRests /\ \A c \in Conns : ClientRests(c)

NetFinished == (server # "up" \/ Quiet) /\ UNCHANGED net_vars

NetNext ==
  \/ /\ server = "up"
     /\ \E c \in Conns :
          \/ Connect(c) \/ Serve(c) \/ MainActs(c) \/ UserActs(c) \/ Die(c)
          \/ ListenerActs(c) \/ HandlerWrites(c) \/ BindAndListen(c)
  \/ NetFinished

NetSpec == NetInit /\ [][NetNext]_net_vars

\* Every thread that waits for no user is scheduled, and a read() that can
\* return does.  Users owe nothing.
NetFairness ==
  \A c \in Conns :
    /\ WF_net_vars(Serve(c))
    /\ WF_net_vars(MainActs(c))
    /\ WF_net_vars(ListenerActs(c))
    /\ WF_net_vars(HandlerWrites(c))
    /\ WF_net_vars(BindAndListen(c))

FairNetSpec == NetSpec /\ NetFairness

-----------------------------------------------------------------------------
(* Safety.  What is said of Quiet states is what remains once everything   *)
(* that was on its way has been dealt with.                                *)

\* The clients do nothing to the server that RoutingServer does not allow for:
\* whatever is checked or proved of the server against arbitrary clients holds
\* in the company of these.
ServerView == [][Next]_vars

Chats(c) == main[c] = "chat" \/ handler[c] = "chat"

\* "Check if the message is a notification about a new peer": a client at its
\* menu has every peer that is listed in its own list, whatever the order of
\* lists, notifications and requests, unless a read() of its connection has
\* returned more than one message: a notification behind a list is overlooked.
ListsSettle ==
  Quiet => \A c \in Conns : main[c] = "menu" /\ pc[c] = "main_read" /\ ~ merged[c] =>
    \A p \in Range(peer_list) :
      p.addr = c \/ p.username = my_name[c] \/ p \in list[c]

\* "Request updated peer list": a peer that a client could not reach, and has
\* reported, does not stay in the client's own list, whoever else registers or
\* reports meanwhile, unless a read() of its connection has returned more than one
\* message.  (The report and the request are written one behind the other, and a
\* server that reads both together looks at the report only: the peer then stays.)
ReportedIsDropped ==
  Quiet => \A c \in Conns : main[c] = "menu" /\ pc[c] = "main_read" /\ ~ merged[c] =>
    \A p \in list[c] : p.username # dialed[c]

\* "Remove from discoverable list": a client that chats is not listed, unless
\* a read() of its connection has returned more than one message: REMOVE behind
\* a request for the list is overlooked.
InChatUnlisted ==
  Quiet => \A p \in Range(peer_list) : ~ (Chats(p.addr) /\ ~ merged[p.addr])

\* A client that has ended, by the menu or by its death, with or without
\* REMOVE, while calling or being called, is not listed.
GoneIsUnlisted ==
  Quiet => \A p \in Range(peer_list) : main[p.addr] # "gone"

\* "Re-register with the server": a discoverable client is listed again when
\* its chats are over.
ComesBack ==
  Quiet => \A c \in Conns : main[c] = "menu" /\ ~ Chats(c) =>
    \E p \in Range(peer_list) : p.addr = c

-----------------------------------------------------------------------------
(* Liveness, under FairNetSpec.                                            *)

\* Left alone by their users, the server and the clients come to rest: each
\* REGISTER is answered, each notification fetched and answered, no broadcast,
\* handler or client waits for another for good.
ComesToRest == []<>(Quiet \/ server # "up")
=============================================================================
