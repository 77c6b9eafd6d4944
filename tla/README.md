# TLA+ models of the P2P chat network

The repository is a small peer-to-peer chat system in C. A *routing server*
keeps a directory of discoverable clients; the clients look each other up there
and then talk to each other directly over TCP. `src/pqc_net` is a second copy of
it whose clients encrypt their chats with keys from Kyber key encapsulation.

This directory holds the models of that code, the TLC configurations that check
them and the TLAPS proofs about them. `PROJECT.json` is the index: which
definition stands for which lines of code, what each run checks, which mistake in
the code each property would notice, the hazards and the findings.

## 1. The system

### Components

| component | code | state | operations |
|---|---|---|---|
| Peer registry | `server/peer_registry.c` | `peer_list[]`, `peer_count`, `peer_list_mutex` | `add_peer`, `remove_peer`, `username_exists` (`get_peer_list` is never called) |
| Connection handlers of the server | `server/routing_server.c` | `client_sockets[]`, `client_count`, `client_mutex`; per thread `username`, `registered`, `buffer` | REGISTER, GET_PEER_LIST, REMOVE, PEER_DISCONNECTED, `broadcast_message`, `remove_client_socket` |
| Accept loop of the server | `server/server_main.c` | listening socket | accept, one detached thread per connection |
| Operator console | `routing_server.c: command_handler` | none | prints the registry |
| Client: registration and menu | `client/main.c` | `server_sock`, `username`, `is_discoverable`, `in_chat` | register, list, connect, refresh, REMOVE, re-register after a chat |
| Client: server listener | `client/client.c: server_listener`, `client/peer_list.c` | client's `peer_list[]`, `peer_count` under its mutex | parse PEER_LIST, show notifications |
| Client: incoming peers | `client/client.c: peer_listener, handle_incoming_peer` | one thread and socket per request | ask the user, ACCEPT or DENY, start a chat |
| Client: chat | `client/chat.c` | `chat_info` shared by two threads, `in_chat` | `send_messages`, `receive_messages` |
| Sockets, terminal | `common/network.c`, `common/utils.c` | none | `safe_print`, `safe_fgets`, connect, listen |
| PQC clients | `pqc_net/client/*` | key pair, shared key, IV per chat | public key and IV exchange, framed encrypted messages |
| PQC primitives | `pqc_net/pq_encryption/*` | none | liboqs and OpenSSL calls |
| PQC server, common | `pqc_net/server/*`, `pqc_net/common/*` | as above | the same code up to white space |
| Kyber demonstration | `pqc_net/kyber_test` | none | one sequential round trip |
| Earlier client and server, test programs | `test/*` | as above, one file each | older protocol; `static_peer` and `test_client` measure ACK times |

### How they interact

* **Client and server** share one TCP connection. Commands go up, replies *and*
  notifications about other clients come down on the same stream without any
  framing. A `read()` may return less or more than one message.
* **Handlers and handlers** share the registry (short critical sections of
  `peer_list_mutex`) and the client table (`client_mutex`, held across the
  blocking writes of a broadcast).
* **Client and client** connect directly at the address from the list. The
  caller sends its name and waits; the callee's user answers.
* **Threads of one client** share `in_chat`, `server_sock`, the list of peers,
  stdin, and per chat one heap object and one socket.

### What is hard, and what makes each component correct

| component | hard behaviour | correct when |
|---|---|---|
| registry | removal by swapping the last entry in; a full array; names checked in one critical section and used in another | a name has one entry at most, removal takes the right one, an entry does not outlive its connection |
| handlers | any interleaving; clients that vanish at any read or write; blocking writes under a mutex; table overrun | the table is the set of open sockets, members learn of each other, a gone client is cleaned up, a registration completes, the process survives |
| client: server connection | a reply and a broadcast in any order or in one read; re-registration after the server closed | the client's list and its place in the server's list are right once everything has arrived; nobody waits for ever |
| client: chats | two threads and one `chat_info`; `close()` while the other thread reads; shared stdin; two callers at once | nothing is left behind, both threads end, `in_chat` covers the chat (one flag for all chats cannot) |
| PQC handshake | nobody encapsulates; the IV that is never read; partial reads of length and body; many ways out | what is taken for a key is one, both sides hold the same AES key, every way out frees what there is, nobody waits for ever |
| peer list text | longer than the read, longer than the table; cut or merged by `read()` | the client's table is what came of the list |
| test programs | message one byte longer than the read | no acknowledgement is made up, and both programs end whatever the acknowledgements answer |

`PROJECT.json` "hazards" lists these at their lines of code, with the properties
that cover them.

## 2. The models

| module | what it is |
|---|---|
| `PeerRegistry` | operators for the functions of `peer_registry.c`, on a sequence |
| `RoutingServer` | the server: accept loop, handlers, client table, broadcast, sockets, against arbitrary clients; extends `PeerRegistry` |
| `Directory` | what the server promises, without threads, locks, sockets or arrays |
| `P2PNetwork` | the server together with the clients of `src/client` in discoverable mode; extends `RoutingServer` |
| `Conversation` | one client process: menu, incoming peers, chats, with stdin, descriptors, memory and `in_chat` |
| `PQHandshake` | caller and callee of `src/pqc_net`: key exchange and encrypted chat |
| `PeerListText` | the text of a peer list from the server's registry to the client's table |
| `AckExchange` | the measurement of `test_client` and `static_peer` |
| `MC...` | instances of these for TLC, one `.cfg` per question |
| `PeerRegistryProofs` | lemmas about the operators of the registry |
| `RoutingServerProofs`, `AnnouncementProofs`, `DirectoryProofs` | the server: types, table and broadcast; who hears of whom; the directory it implements |
| `P2PNetworkProofs` | server and clients together; extends `DirectoryProofs` |
| `ConversationProofs`, `PQHandshakeProofs`, `AckExchangeProofs` | a client's talks; the handshake; the measurement |

`P2PNetwork` composes the clients with the server and has a chat as a phase;
`Conversation` opens that phase up for one client and leaves the server out.
Together they have every line of `src/client` that changes state, except what
"Not modelled" lists.

### RoutingServer

**State.** `peer_list` and `client_sockets` are the two arrays with their
lengths. `client_mutex` says whose broadcast holds the lock and `cursor` is the
index of its loop. `pc`, `username`, `request` and `reply` are what a handler
has on its stack. `inbox` and `outbox` are the two directions of each TCP
connection, `peer_end` the client's side of it. `server` records that the
process was killed by SIGPIPE or wrote past the end of an array; after either
the model stops, since the code promises nothing more. `sends` and `told` are
bookkeeping: the bound on commands, and the names a client was sent.

**Steps.** One step of a handler is one critical section, one `read()` or one
`write()`, with the local computation around it. `peer_list_mutex` is never held
across input or output by a handler, so its critical sections are single steps
and it is no variable. `client_mutex` is held across the writes of a broadcast,
so the broadcast is a step for taking the lock, one for each socket and one for
releasing it.

| actions | code |
|---|---|
| `Accept`, `AcceptFails` | `server_main.c:38-59` |
| `Track` | `routing_server.c:95-98` |
| `RegRead`, `RegEnd` | 103-115, 161-164 |
| `CheckName`, `Enter`, `MakeList`, `Answer` | 117-150 |
| `BroadcastBegin`, `BroadcastNext`, `BroadcastEnd` | 53-64 |
| `MainRead`, `MainEnd` | 169-222 |
| `MakeList`, `Answer` again | 172-195 |
| `RemoveSelf`, `Untrack`, then `FinalRemove`, `Untrack`, `Close` | 196-206 (REMOVE), then 227-237 |
| `RemoveOther` | 207-214 |
| `ClientSend`, `ClientRead`, `ClientClose` | the environment: what a client can do to its socket |

**Sockets.** A `read()` returns any non-empty prefix (of at most `MaxRead`
messages) of what has arrived. A handler looks at the first command only, which
is how the code loses one that shares a read with another. A `write()` waits
while the client's buffer is full. After the client closed, the first write
succeeds and provokes a reset; the next one fails or raises SIGPIPE. Closing with
unread data resets at once. Commands sent before the close can still be read
after it.

**Left out.** The text of messages, addresses (an entry is identified by the
connection that registered it) and logging; a command split over two reads, and
one longer than the handler's buffer; a command without a name, for which
`sscanf` leaves the variable as it was; names longer than `username`; the
operator console, which holds `peer_list_mutex` while it writes to the terminal
(a terminal that stops reading would stop every handler; here it is always
read).

### Directory

`Join`, `Leave`, `GiveUp`, `Report` on a set of entries. `KeepsDirectory` maps
`listed` to the contents of the array and `stage` to a function of `pc`. It
states in one formula that `Enter` and `RemoveSelf`/`FinalRemove` take effect at
one point each, that the second removal after REMOVE does nothing, that no entry
other than one's own is removed except by a report, and that a full directory
drops a join. The code implements it when every client has a name of its own; the
run `names` shows what happens when two want the same.

### P2PNetwork

**State.** For each client: where its main thread, its `server_listener`, its
`handle_incoming_peer` and its `peer_listener` are (`main`, `listener`,
`handler`, `ears`), `username_global` (`my_name`), its copy of the list
(`list`), `in_chat`, whether `server_sock` is still open (`sock`), whether its
kernel has seen that the server hung up (`cut`), and the peer that could not be
reached (`dialed`). The streams are `inbox` and `outbox` of `RoutingServer`.
`merged` is a history variable: a `read()` of this connection, by its handler or
by the client, has returned more than one message, so that one may have been
overlooked. `in_chat` is reset by the first chat thread that ends
(`ChatThreadEnds`), and the owner goes on when both have (`ChatEnds`), so that the
menu can be back before.

| actions | code |
|---|---|
| `Connect`, `EnterName`, `ReadAnswer`, `NoAnswer` | `client/main.c:39-105`, `network.c:22-47` |
| `BindAndListen` | `network.c:49-81` in the thread of `peer_listener`; when it fails, nobody can call this client from then on (`ears` is "failed") and it stays listed |
| `MainWrites` | the commands of the main thread: 108, 123-132, 166-172, 174-193, 236-241 |
| `SeeMenu`, `NoCall`, `CallFails`, `CallAccepted`, `ChatThreadEnds`, `ChatEnds`, `Exit`, `Leave` | 110-262; `chat.c:43-66` |
| `HandlerWrites` | the commands of an incoming chat: `client.c:95-99`, `140-145` |
| `Listen`, `ListenerWrites`, `ListenerEnds` | `client.c:32-63` |
| `Die` | a signal, or SIGPIPE of a write to the closed server connection |
| `Serve` | the server's `Handler` step |

`SetupFails` says whether `pthread_create` for the listeners and chat threads,
`malloc`, `socket`, `bind` or `listen` may fail: the failure of a listener's
thread ends the process (`client/main.c:94-105`), that of `bind` its listener only.

The property `ServerView` says that this module's clients do to the server only
what the arbitrary clients of `RoutingServer` may do. It carries every
result about `RoutingServer`, the proved ones too, over to this composition.

**Left out.** The non-discoverable mode's commands to the server; a second caller
of the same client at the same time; a call between ringing and its answer is
one step; a command written to the descriptor number of `server_sock` after
`server_listener` closed it and another connection got the number (here it is
lost).

### Conversation

**State.** `owner`, `sender`, `receiver` are the threads of each talk: the one
that joins (main, or the handler of an incoming peer) and the two of `chat.c`.
`stdin` is the thread that holds the lock of the standard input and `prompted`
the one whose prompt the user saw last. `number` and `open` are descriptor
numbers and the connections behind them, so that a number that is closed twice
may close another talk's connection. `chat` is the heap object, `blocked` the
connection that a `read()` in progress holds on to, `far` and `mail` the other
end. `cleared` is a history variable: the talk that has reset `in_chat` last. An
answer to a caller is written to what is behind the owner's number by then
(`Answer`), which may be nothing or another talk's connection.

| actions | code |
|---|---|
| `SeeMenu`, `MenuTakes` with `Dial` | `client/main.c:110-173` and `281-327` (the two modes) |
| `Ring`, `TakeRequest`, `QuestionTakes` | `client.c:66-97`, `146-200` |
| `TakeReply`, `StartChat`, `StartThread`, `Join`, `CloseUp`, `GiveUp` | `main.c:328-388` and `180-235`; `client.c:99-145` |
| `Prompt`, `SenderTakes`, `SendMessage`, `SenderCloses`, `SenderEnds` | `chat.c:22-47` |
| `CallRead`, `Receive`, `ReceiverCloses`, `ReceiverEnds` | `chat.c:50-66` |
| `Acquire`, `TypeLine` | `fgets()` and the user |

**Undefined behaviour.** A freed `chat_info` may still hold its number, or
something that is no descriptor, or be the object of another talk; a second
`free()` aborts the process or goes unnoticed. All of these are choices of the
model. `in_chat` is read and written without a lock; it is one word, and a step
sees one of its values.

### PQHandshake

**State.** Two sides; per side the step of the handshake (`owner`, running
through `CallerSteps` or `CalleeSteps`), its two chat threads, its socket, the
stream of words towards it, the set of allocated blocks (`heap`), the length it
read last (`want`), what it took for the length and for the key of the other
(`size`, `peer_key`) and its encryption context.

One step is one `read()`, `write()`, allocation or library call with the error
path behind it; each error path frees the blocks that its lines free. A word
is the least that a `read()` splits off: with four words to a length it is the
byte. The length of a key and that of a message have sizes of their own in the model
(`LengthWords`, `TextLengthWords`). A `read()` returns any part of what is there, of a
length too: the code takes any positive result for the whole. The number found in a part
of a length is any (`Found`), and so is the one found in anything that is no length.
Decapsulating a text with a secret key gives a secret that depends on both
(Kyber's implicit rejection); a text decrypts if it is whole and both contexts are
equal. A length beyond the receive buffer makes `pqcrypto_decrypt` read behind it,
which may end the process.

The PQC clients as committed do not build (`pqcrypto_derive_shared_secret` is
called with more arguments than it has, `pqcrypto_cleanup` is not defined;
`readme.md:29` calls the directory non-functional). The module models the source as
it is written, with the initialisation vector where the calls expect it.

**Left out.** Registration, menu and the commands around a chat (those of
`src/client`); freed memory and second frees (`Conversation` has them); more than
one chat of a client.

### PeerListText

The server's registry, the messages on their `way` to the client (lists, made of it,
and notices) and the table that `update_peer_list` makes of what a `read()`
returns: any number of characters up to `ReadSize`, which may end in a line and go on
into the next message. `taken` counts the characters of the first line that an earlier
`read()` took. What begins with a whole header line replaces the table by all the
entries behind it, those of a second list included; anything else is printed. An
entry is known by its name and port; `Scan` is `sscanf("%s %s %d")` on the part of a
line that has come: nothing before the first digit, a shorter port after it.

### AckExchange

Bytes one way, acknowledgements the other way, counted. The peer acknowledges
every `read()` (`reads` counts them, as a history), which takes at most one byte
less than a message; the client takes whatever has come for the answer to its last
message. A `read()` of the client may end inside an "ACK\n" (`torn`): less than three
characters of one, or what is left of it at the next `read()`, is invalid and ends the
measurement. Either program may be killed at any point; what has come is lost when the
side that left had bytes unread.

### Mutants

A definition `...Mutant` is the definition below it with a plausible mistake. No
specification uses it. `PROJECT.json` "mutants" names, for each property of a
passing run, the one that the property must notice when it takes the original's
place.

## 3. The runs

| run | instance | checks |
|---|---|---|
| `own` | `RoutingServer`: 3 clients with own names, one may close, REMOVE itself or report another; registry for 2 | `NoGhostEntries`, `PeersAnnounced`, `BroadcastSound`, refinement `KeepsDirectory` |
| `live` | `RoutingServer`: 2 clients that want one name, every command, both may go, buffers of one message | `TypeOK`, `ClientTableSound`, `GoneIsForgotten`, `RegistrationCompletes` |
| `start` | `P2PNetwork`: 2 clients start at once, reads of up to two messages | `NetTypeOK`, `ComesToRest` |
| `join` | `P2PNetwork`: one client joins a settled one, may be called by it at any time, may exit or be killed; its threads and its listener may fail; reads of up to two messages | `ListsSettle`, `ReportedIsDropped`, `GoneIsUnlisted`, `InChatUnlisted`, `ServerView`, `ComesToRest` |
| `two` | `Conversation`: one talk by address and one let in, at any time; everything may fail | `TalkTypeOK`, `NothingLeaks`, `FlagLostToOthers` |
| `in` | `Conversation`: one talk that is let in | `PeerGoneEndsTalk`, `CallersAreAnswered`, `QuitWaitsForPeerOnly` |
| `pq` | `PQHandshake`: every split of the key's length, short reads behind it, failures, either side killed at any point; then the chat | `PQTypeOK`, `KeyIsInPlace`, `NothingLeft`, `HandshakeEnds`, `PeerGoneEndsChat` |
| `parse` | `PeerListText`: lists and notices, cut anywhere and merged, with more entries than places | `TableIsWhatCame` |
| `ack_ends` | `AckExchange`: five messages, all ways of reading, kills | `AckTypeOK`, `NoneMadeUp`, `ExchangeEnds` |

What these show.

*Server.* Swap-removal under `client_mutex` never loses or duplicates a socket,
although REMOVE calls `remove_client_socket` twice. A broadcast misses nobody that
was in the table. The order track, enter, list, broadcast makes any two members
learn of each other whatever the interleaving. With names of their own, clients
leave nothing behind. No cycle of waiting exists as long as clients read.

*Clients and server.* Once everything that was sent has been dealt with, a client
that has ended in any way is not listed, and everybody is in the end waiting for a
user only, whatever got lost. A client at its menu has every listed peer in its
list, a peer that it reported is no longer in it, and a client in a chat is not
listed; this although the joining client can be called before its own list has
arrived and while its main thread is still starting, and for as long as no `read()`
of that client's connection has returned two messages (`merged`). The condition is
the client's own: what the reads of all others merge does no harm to it. Without it the
three are false (see below).

*One client.* Two talks may overlap, close each other's descriptors and free each
other's memory; still no connection and no `chat_info` remains when both are over
(`NothingLeaks`), and `in_chat` is lost by a chat to another talk only, never to
itself (`FlagLostToOthers`). A single talk ends when its peer goes; after `/quit` its
owner waits for nothing but the peer.

*Post-quantum client.* The opposite orders of caller and callee fit: the handshake
never stops with both sides in `read()`, whatever is read in parts, fails or dies.
However the reads split length and key, the two together are taken from the beginning
of the other's length and key in this order; a length that came whole is followed by
bytes of the key only. Every way out but one frees what it has.

*Peer list, measurement.* A table that a `read()` makes has the entries that came
whole, as many as there is room for, and at most one more with its port cut. Both test
programs end although acknowledgements and messages fall out of step, and each
acknowledgement stands for a `read()` that the peer has made.

These runs show that the code does not do what a comment or a message in it says
("findings" in `PROJECT.json` quotes the lines):

| run | violated | what happens |
|---|---|---|
| `names` | `UniqueUsernames` | check and insertion are separate critical sections: one name is listed twice |
| `comeback` | `ComesBack` | REMOVE ends the connection to the server: the REGISTER after a chat reaches nobody, and a client that has chatted is never listed again |
| `secrets` | `KeysAgree` | both sides decapsulate the other's *public key*; nobody encapsulates, and the AES keys differ |

### Other disagreements met while modelling

These are behaviours of the models that follow the code; no run is kept for them.

* After REMOVE the handler's second removal is by name too: by then the name may be
  another client's, whose entry goes while it is connected (`own` has clients with
  names of their own, where the second removal finds nothing).
* PEER_DISCONNECTED and the GET_PEER_LIST behind it in one `read()` of the server: the
  request is lost, and the reported peer stays in the client's list.
  `ReportedIsDropped` excludes a client to which it has happened.
* A registry that is full drops the entry, and the client is told it is
  registered and announced to everyone.
* The second broadcast to a client that died kills the server with SIGPIPE; a
  client dies the same way with its second write to the connection REMOVE closed.
* Connection `MAX_CLIENTS + 1` is stored behind the table; a list longer than
  `BUFFER_SIZE` is written behind the string.
* A client that does not read, as `static_peer` after its registration, stops
  every broadcast once its buffers are full, and every registration behind it.
* A list and a notification in one `read()` of the client: the notification is
  overlooked. GET_PEER_LIST and REMOVE in one `read()` of the server: REMOVE is
  overlooked and a client in a chat stays listed. `ListsSettle` and `InChatUnlisted`
  exclude a client to which it has happened.
* A broadcast that arrives before the answer to REGISTER makes the client ask for
  another name; if the user enters one, client and server have different names for
  it from then on.
* A client is announced before its port is bound; a call in between fails and
  removes it from the list, and it is not told. When the port cannot be bound at all,
  the client stays listed although nobody can call it.
* `server_sock` is closed by `server_listener` and still written to; a peer
  connection that got its number receives the command as a line of chat.
* A client in non-discoverable mode sends `REGISTER` with an empty name after an
  incoming chat; the server takes the port for the name.
* `/quit` waits for the peer: `close()` does not wake the thread in `read()`, and
  that call keeps the connection open so that the peer does not see it end.
* `in_chat` is cleared by the first thread of a talk that ends, and not set by the
  menu's wait for an answer: the menu can come back during a chat, and then competes
  for the user's lines. A line meant for one prompt goes to the thread that asked
  first.
* Both chat threads free the `chat_info` and close its number; the second one
  uses freed memory and may close, or write to, another talk's connection.
* The end of one talk resets `in_chat` under another: the menu comes back while that
  chat goes on.
* Two lists in one `read()` of the client are put in one table, a peer twice.
* If a malloc for one key of the pair fails, the other key is never freed.
* A `read()` of the handshake that returns a part of a length passes for the whole; the
  rest is taken for the beginning of the key.
* Both sides send an initialisation vector that nobody reads: its beginning is taken
  for the first length of the chat.
* The last line of a cut list gives a peer with a shorter port.
* A test message is one byte longer than the peer reads at a time: its first part is
  acknowledged, the client goes on, and later acknowledgements answer earlier messages.
  The rest of an acknowledgement that a `read()` has cut is an invalid one.

### Bounds

* `Conns`: 3 in `own`, else 2. The arguments are about a handler, one that
  interferes and one that is affected (a broadcaster, a leaver, the client that is
  moved into the leaver's place). Where every command or a whole client is in play,
  2. Connections are not reused; a client that comes back is another connection
  with the same name.
* `MaxSends`: 1 or 2 commands for each connection in `RoutingServer`'s own runs,
  enough for a REGISTER and a removal; in `P2PNetwork` the program itself bounds
  them and the constant (20) is never reached.
* `MaxPeers` is 2 with three clients (`own`), so that the full array occurs.
  `MaxClients` 3 or 2 and `ListRoom` 2 are as many as the clients of an instance
  can fill; beyond them the model stops (`server = "corrupt"`).
* `SockBuf`: 3 (`own`, `names`) or 9 (`P2PNetwork`), more than any client is sent
  there, so that no behaviour is cut off by a wait; 1 in `live`, so that writes do
  wait.
* `MaxRead`: messages that one `read()` may return; 5 is all there are, 2 in the runs
  of `P2PNetwork`, where one read behind another is what can be overlooked; in
  `comeback` 1, since the violation needs no more.
* `MaxCalls`: one call, of the settled client, in `join` and `comeback`. These
  start in `Settled` states, which `NetInit` reaches when nobody else acts; `start`
  covers the beginning itself.
* `Talks`: each takes place once. Two are enough for one to close the other's
  descriptor and to reuse its number, which needs `Numbers` as many.
* `LengthWords` is 2 in `pq`, the least that can be read in parts, with a `KeyWords` of
  1: a `read()` for the key gets the key, or behind a split length the rest of that, with
  or without the key and the vector. A whole length followed by a part of a key does not
  occur in `pq`; the proof of `KeyIsInPlace` has it, being for any numbers.
  `TextLengthWords` 1 and `IVWords` 1: behind the vector, which is read for a length, a
  length is found in any text there, and with `Lengths` the number found is anything
  from none to more than the buffer holds, so that a split one adds nothing. A message
  has two words, the buffer `KeyWords + 1`. `Room` is for each side how many words may
  wait there before the other stops typing: with 1 for the caller and 0 for the callee
  one side types, and the other's receive thread meets vectors, frames and their parts.
  `Failures` has everything but `keypair_malloc`, for which `NothingLeft` is false (see above).
* `HeaderLength` 2, `HeadLength` 1 and ports of two digits: every kind of line can be cut
  at every place that makes a difference. Two names and five lines on the way are two
  lists behind each other, or a list and notices; `ReadSize` 14 is less than two full
  lists and more than one, and the table has 2 places.
* `NumMessages` 5, a message of 4 bytes and reads of 3; the source has reads one
  byte shorter than messages too.
* No symmetry: the clients of an instance play different parts.

Deadlock is checked in every run. The `...Finished` actions are the only ways to
stand still: the process has ended, or everybody has ended or waits for a user. In
`PQHandshake` a side that is up can always be killed, so there it is the liveness
properties that exclude a standstill.

### Fairness

All liveness assumes that the scheduler runs every thread (`WF` of its steps): a
step that stays enabled is taken, and a `read()` or `write()` that can return does.

* `FairSpec` (`live`): handlers and accept loop. Weak fairness is enough for
  `client_mutex` because a broadcast happens once per connection. Clients owe
  nothing, except that one in `Readers` goes on reading: `server_listener` does
  nothing else but `read()` in a loop.
* `NetFairness` (`start`, `join`): the server's handlers and the clients' threads.
  Users owe nothing; `Quiet` lets everybody wait for a user.
* `TalkFairness` (`in`): the threads; the user goes on typing, whatever the lines
  are; and strong fairness for the lock of stdin, which the menu takes and gives
  back again and again. glibc's lock is not fair in the strict sense, but a thread
  that waits for it is woken at each release. The peers owe nothing.
* `PQFairness` (`pq`): the threads, and users that answer and type.
* `AckFairness` (`ack_ends`): both threads.

Properties of the server hold "unless the process has ended", those of a client
"unless it has ended".

## 4. What is proved

`tlapm` checks the eight `...Proofs` modules from nothing but the named
assumptions of the modules they are about (`ServerConstants`,
`MaxPeersAssumption`, `NetConstants`, `TalkConstants`, `HandshakeConstants`,
`ExchangeConstants`): the constants have their types, the marker values differ
from the real ones, and arrays, keys and messages have at least one place. There
is no bound on the number of clients, talks, commands, names, calls or messages.

| theorem | property | hypotheses |
|---|---|---|
| `TypeCorrect`, `TableCorrect`, `BroadcastCorrect` | `TypeOK`, `ClientTableSound`, `BroadcastSound` | |
| `AnnouncementCorrect` | `PeersAnnounced` | |
| `NoGhosts` | `NoGhostEntries` | `DisjointNames` |
| `ServerKeepsDirectory` | `KeepsDirectory` (refinement of `Directory`) | `DisjointNames` |
| `NetTypeCorrect` | `NetTypeOK` | |
| `ServerSeesClients` | `ServerView` | `MaySendAll`, `Readers = Leavers = Conns`, and `BelowBound` all along |
| `GoneUnlisted` | `GoneIsUnlisted` | `DisjointNames`, `MaySendAll` |
| `ChattingUnlisted` | `InChatUnlisted` | the same two |
| `ListsAgree` | `ListsSettle` | the same two |
| `ReportedDropped` | `ReportedIsDropped` | the same two |
| `TalkCorrect`, `TalksLeaveNothing` | `TalkTypeOK`, `NothingLeaks` | |
| `FlagCorrect` | `FlagLostToOthers` | |
| `HandshakeLeavesNothing` | `NothingLeft` | `"keypair_malloc"` is not among `Failures` |
| `PQTypeCorrect`, `KeyCorrect` | `PQTypeOK`, `KeyIsInPlace` | |
| `AckTypeCorrect`, `AckCorrect` | `AckTypeOK`, `NoneMadeUp` | |

With these every invariant of the passing runs holds for all values of the
constants, and so do the refinement `KeepsDirectory` and the action property
`ServerView`.

### Hypotheses

* `DisjointNames`: clients register and remove names of their own. Without it
  the code is wrong: the run `names` lists one name twice, after which a removal
  may take the other client's entry. What a client reports with
  PEER_DISCONNECTED may be any name.
* `MaySendAll`: what the program of a client can send is among the commands
  that `RoutingServer` lets its clients send. It relates two modules and says
  nothing of the code; `MaySend[c] = ClientCommands(c)` satisfies it together with
  `DisjointNames` when no two clients' users enter one name. `Readers` and
  `Leavers` are of the same kind.
* `BelowBound`: the bound on commands that `RoutingServer` has for TLC is not
  reached. `MaxSends` is any number, so that every finite run of the clients is
  covered.
* `keypair_malloc`: when one of the two allocations of a key pair fails alone, the
  other key is never freed; `NothingLeft` is false then.

### The arguments

* **TypeCorrect.** `TypeOK` is not inductive: `Enter` writes `username[c]` into
  the registry and must know that it is not the empty name. `TypeInv` adds
  `Named`: a handler that has read a REGISTER command, and is not back waiting for
  another, has a name. Lemmas say what `WriteTo`,
  `ReadCommand`, `RemovePeer` and `Forget` do to the types.
* **TableCorrect.** `TableInv` adds `RemoveInBuffer` to `ClientTableSound`: a
  handler on the REMOVE path still has that command in its buffer. Without it
  the invariant cannot tell a `final_rm` behind REMOVE (socket already
  removed) from one behind the end of the stream (still in the table). `SwapOutTable`
  and `SwapOutRange` say that swap-removal from a table without duplicates takes
  exactly one element out and creates no duplicate; `QuietStep` disposes of
  every action that leaves the table alone.
* **BroadcastCorrect.** By induction over steps from `TypeInv` and `TableInv`:
  the table has no duplicates, so the cursor's socket is met once; while
  somebody is at `bcast` the mutex is taken, so neither `Track` nor `Untrack` can
  change the table under the cursor. `OutsideBroadcast` collects what every
  other action leaves as it is.
* **AnnouncementCorrect.** `PeersAnnounced` speaks of pairs in the main loop and
  cannot see why they know each other. `AnnounceInv` follows one of them there:
  `EntriesEntered` (an entry was made by the connection it names, under the name
  its handler still has) and `ListsComplete` (a client whose list is about to be
  written, or has been, knows of each listed peer that has its broadcast behind
  it). At the end of a broadcast `BroadcastSound` gives the other half: whoever
  is in the table has been told, and by `TableInv` that is every member.
* **NoGhosts.** `OwnInv(own)`, for the names `own` whose existence `DisjointNames`
  states: what is on its way to a handler is what its client may send, and a
  handler's name is its client's or empty. Then the removals of a handler take its
  own entry, and each entry's handler is one that has its final removal before it.
* **ServerKeepsDirectory.** Under `OwnInv` every handler step is mapped to `Join`,
  `GiveUp`, `Leave`, `Report` or a stutter. The lemmas on `RemovePeer` of a
  list without two entries of one name (`NoGhostEntries`) turn operations on the
  array into operations on the set; a removal of a name that is not listed, as the
  second one after REMOVE, stutters.
* **NetTypeCorrect.** `NetInv` is `TypeInv`, the types of the clients and
  `Session`, which ties the phase of a client's process to its descriptor, its end
  of the connection and its handler. For example, a report is of a name, because
  `dialed` is set on the way there; a descriptor that is closed has an ended
  handler behind it.
* **ServerSeesClients.** By `Session`, a client that writes, reads or closes
  does so at an open connection, or at one whose handler is done, where the
  write has no effect on the server's state; each is a step of `RoutingServer`'s
  arbitrary client or a stutter. So the results about the server carry over.
* **GoneUnlisted.** When nothing is under way a handler of an ended client is
  `done` by `Session`, and `NoGhostEntries` leaves no entry with such a handler.
* **ChattingUnlisted.** `ListInv`: a PEER_LIST on its way to a client means that
  its handler has registered it. `ChatInv`: so a client has a menu and callers
  only when it is registered, and one in a chat has REMOVE before its handler,
  in its buffer or behind it, unless its handler has read two commands at once
  (`merged`). `MaxRead` is any number: a `read()` that returns more sets `merged` of
  that connection and of no other, and `OneRead` says what the others do.
* **ListsAgree.** `SettleInv` has as its core `FetchInv`: for a client at home
  and each entry of the registry, the entry is in the *newest* list of the client
  (the last one on its way, else the one it has), or the peer's handler still
  `Owes` it a broadcast, or a notification is on its way or read (`Warned`), or a
  request for the list is under way (`Coming`). The server turns the second into the
  third, `server_listener` and the main thread the third into the fourth, the
  server the fourth into the first. `Quiet` leaves the first only. All of it is said
  of clients whose `merged` is not set.
* **ReportedDropped.** `KnownInv`: a name in a list, on its way in one, or dialled
  belongs to a client that has already been entered; with `DisjointNames` and one
  REGISTER per connection such a name is never listed again once it is not.
  `ReportInv` says how far a report has come (`Dealt`): sent, in the
  handler's buffer, carried out with a request for the list behind it, or carried out
  and gone from the newest list.
* **TalkCorrect, TalksLeaveNothing.** `TalkInv` is `TalkTypeOK` with
  `Descriptors` (a number that is open belongs to a talk under way that knows
  it as its own), `Threads` (how far the owner is tells which threads exist and
  what is allocated) and `Held` (who holds stdin wants a line). `TalkTypeOK`
  needs `Descriptors` and a counting argument: the talks under way other than
  the one that dials hold fewer numbers than there are.
* **FlagCorrect.** `FlagInv` on top of `TalkInv`: from the start of its threads until
  one of them is about to close, a talk that finds the flag reset was not the last
  (`cleared`) to do so. Each place that resets it belongs to a talk that has left that
  phase, or leaves it in the same step.
* **HandshakeLeavesNothing.** `MemoryInv` gives for every step of a side the
  blocks it holds; each way out is compared with them.
* **PQTypeCorrect, KeyCorrect.** What a side has in its hands depends on what the
  other's bytes are when they arrive, after short reads of length and key, and with
  vectors and chat frames behind them on the same stream. `StreamInv` is `PQTypes`,
  `Course` (how far a side is, and, in `Placed`, that each word it has taken for length
  or key is the word at that place of the other's length and key) and `Aligned`: the
  k-th word that waits for a side, counted with those it has read, is the k-th that the
  other writes (`Says`): an answer or a request, a length, a key. A split length moves
  the boundary between `size` and `peer_key` and not the places, which is why the two
  are followed together. `KeyIsInPlace` is `Placed` read off for the whole.
* **AckTypeCorrect, AckCorrect.** `AckInv` ties the control to the counts: the client
  that sends has taken an acknowledgement for each message, the one that waits for each
  but the last; of the acknowledgements that are counted, those on their way that are
  not torn and the one about to be written, each has a `read()` of its own, because the
  client counts a read of any number of them once, and only `Acknowledge` adds one,
  behind a `read()` that returned bytes. At least one byte goes with each `read()`.

### Only model-checked

* Liveness: `GoneIsForgotten`, `RegistrationCompletes`, `ComesToRest`,
  `PeerGoneEndsTalk`, `CallersAreAnswered`, `QuitWaitsForPeerOnly`,
  `HandshakeEnds`, `PeerGoneEndsChat`, `ExchangeEnds`. They rest on fairness,
  which the prover does not handle.
* `TableIsWhatCame`: `update_peer_list` is a fold over the lines, and what
  a fold computes for every text takes an induction over data that the provers
  cannot do.
* The properties of the violation runs, which are false.

## 5. Plan

What is left is to say more with the proofs there are.

1. The parts of `PeerListText` that need no induction: the types of what is on its
   way and that the client's table never has more than `MAX_PEERS` entries.
2. Weaker hypotheses: which part of `NoGhostEntries` remains when only some clients
   share a name.
3. Which chats of a client keep their descriptors to themselves when talks do not
   overlap.
4. A leak statement for the handshake that allows `keypair_malloc` and names
   the one block that is lost.


## 6. Not modelled

* The operator console changes nothing; `display_peer_list`, `safe_print` and
  `trim_newline` have no state.
* The non-discoverable mode's commands to the server (its menu and its talks are in
  `Conversation`), and commands written to a descriptor number that has a new owner.
* The end of standard input, at which `safe_fgets` returns an empty line for ever;
  an unreachable or crashed server as its clients see it.
* The insides of liboqs and OpenSSL; the Kyber demonstration, one thread without
  input that keeps nothing.
* The registration, menu and server of `src/pqc_net`, which are those of `src/`.
* `src/test/client.c` and `routingServer.c`, the predecessors of the current
  programs; `get_peer_list.c`, which sends one command and prints the answer;
  the registration of `static_peer` and `test_client`.
