---------------------------- MODULE Conversation ---------------------------
(***************************************************************************)
(* One client process and the people it talks to: the menu of              *)
(* src/client/main.c in both modes, handle_incoming_peer of client.c and   *)
(* the two threads of chat.c.  A conversation (talk) is made by the main   *)
(* thread (Outgoing) or let in by a thread of its own; that thread, the    *)
(* owner, starts a sender and a receiver, joins both and closes up.        *)
(*                                                                         *)
(* Shared by all of these are the flag in_chat, the numbers of the         *)
(* descriptors, and the standard input.  Sender and receiver of one talk   *)
(* share one chat_info (chat), which both of them free.                    *)
(*                                                                         *)
(* Grain.  One call that can wait, or that touches something shared, with  *)
(* the computation up to the next one.                                     *)
(*                                                                         *)
(* Standard input.  fgets() holds the lock of stdin while it waits, so the *)
(* thread that came first gets the next line.  The user does not see who   *)
(* that is and answers the prompt that was printed last.                   *)
(*                                                                         *)
(* Freed memory.  A chat_info begins with its sock.  Once freed it may     *)
(* still hold the number, or something that is no descriptor, or be the    *)
(* chat_info of another talk.  A second free() ends the process or goes    *)
(* unnoticed.                                                              *)
(***************************************************************************)
EXTENDS FiniteSets, Naturals, Functions

CONSTANTS
  Talks,         \* conversations; each takes place at most once
  Outgoing,      \* those that the user of this client asks for
  NoTalk,        \* no conversation
  Discoverable,  \* which of the two menus
  MayFail        \* whether malloc and pthread_create may fail

ASSUME TalkConstants ==
  /\ IsFiniteSet(Talks) /\ Outgoing \subseteq Talks /\ NoTalk \notin Talks
  /\ Discoverable \in BOOLEAN /\ MayFail \in BOOLEAN

Incoming == Talks \ Outgoing
Numbers == 1 .. Cardinality(Talks)      \* descriptor numbers
BadNumber == 0

\* The threads that read standard input: the menu, the question of a handler,
\* the sender of a talk.
Menu == << "menu", NoTalk >>
Question(t) == << "question", t >>
Sender(t) == << "sender", t >>
Nobody == << "nobody", NoTalk >>
Prompts == {Menu} \cup {Question(t) : t \in Incoming} \cup {Sender(t) : t \in Talks}

VARIABLES
  process,     \* "up"; "exited"; "killed" by SIGPIPE; "aborted" by free()
  main,        \* the main thread: "top", "menu", "ip", "port" or "busy"
  owner,       \* the thread of each talk that joins the other two
  sender,      \* send_messages
  receiver,    \* receive_messages
  stdin,       \* the thread that holds standard input, or Nobody
  prompted,    \* the thread that has printed the last prompt
  in_chat,     \* the flag of the same name
  cleared,     \* history: the talk that has reset it last, unless it is set
  chat,        \* the chat_info of each talk: "none", "live" or "freed"
  number,      \* peer_sock, the descriptor the owner of each talk has
  open,        \* the descriptors: the talk whose connection each one is
  blocked,     \* the connection that each receiver waits for in read()
  far,         \* the other end of each connection
  mail         \* whether the other end has sent something not yet read

talk_vars == << process, main, owner, sender, receiver, stdin, prompted, in_chat,
                cleared, chat, number, open, blocked, far, mail >>

TalkTypeOK ==
  /\ process \in {"up", "exited", "killed", "aborted"}
  /\ main \in {"top", "menu", "ip", "port", "busy"}
  /\ owner \in [Talks -> {"none", "request", "question", "reply", "start",
                          "send_thread", "receive_thread", "join", "close", "over"}]
  /\ sender \in [Talks -> {"none", "loop", "prompt", "write", "close", "free", "ended"}]
  /\ receiver \in [Talks -> {"none", "read", "blocked", "close", "free", "ended"}]
  /\ stdin \in Prompts \cup {Nobody}
  /\ prompted \in Prompts
  /\ in_chat \in BOOLEAN /\ cleared \in Talks \cup {NoTalk}
  /\ chat \in [Talks -> {"none", "live", "freed"}]
  /\ number \in [Talks -> Numbers \cup {BadNumber}]
  /\ open \in [Numbers -> Talks \cup {NoTalk}]
  /\ blocked \in [Talks -> Talks \cup {NoTalk}]
  /\ far \in [Talks -> {"idle", "open", "closed", "reset"}]
  /\ mail \in [Talks -> BOOLEAN]
  /\ \A t \in Talks : owner[t] = "join" => sender[t] # "none" /\ receiver[t] # "none"

TalkInit ==
  /\ process = "up"
  /\ main = "top"
  /\ owner = [t \in Talks |-> "none"]
  /\ sender = [t \in Talks |-> "none"]
  /\ receiver = [t \in Talks |-> "none"]
  /\ stdin = Nobody
  /\ prompted = Menu
  /\ in_chat = FALSE /\ cleared = NoTalk
  /\ chat = [t \in Talks |-> "none"]
  /\ number = [t \in Talks |-> BadNumber]
  /\ open = [n \in Numbers |-> NoTalk]
  /\ blocked = [t \in Talks |-> NoTalk]
  /\ far = [t \in Talks |-> "idle"]
  /\ mail = [t \in Talks |-> FALSE]

-----------------------------------------------------------------------------
(* Descriptors, memory, connections.                                       *)

LowestFree == CHOOSE n \in Numbers :
  open[n] = NoTalk /\ \A m \in Numbers : open[m] = NoTalk => n <= m

At(n) == IF n = BadNumber THEN NoTalk ELSE open[n]

CloseNumber(n) == open' = [m \in Numbers |-> IF m = n THEN NoTalk ELSE open[m]]

\* The values that chat->sock may have.
SockOf(t) ==
  IF chat[t] = "live" THEN {number[t]}
  ELSE {number[t], BadNumber} \cup {number[u] : u \in {v \in Talks : chat[v] = "live"}}

Free(t) ==
  /\ chat' = [chat EXCEPT ![t] = "freed"]
  /\ process' \in IF chat[t] = "live" THEN {"up"} ELSE {"up", "aborted"}

\* write() on connection k.  The first one after the other end has closed goes
\* unnoticed, another one fails or raises SIGPIPE.
Write(k, done, failed) ==
  \/ /\ far[k] # "reset"
     /\ far' = [far EXCEPT ![k] = IF @ = "closed" THEN "reset" ELSE @]
     /\ done /\ UNCHANGED process
  \/ /\ far[k] = "reset"
     /\ \/ failed /\ UNCHANGED process
        \/ done /\ process' = "killed"
     /\ UNCHANGED far

SetFlag == in_chat' = TRUE /\ cleared' = NoTalk
ClearFlag(t) == in_chat' = FALSE /\ cleared' = t

OwnerGoes(t, label) == owner' = [owner EXCEPT ![t] = label]
SenderGoes(t, label) == sender' = [sender EXCEPT ![t] = label]
ReceiverGoes(t, label) == receiver' = [receiver EXCEPT ![t] = label]

-----------------------------------------------------------------------------
(* The other ends.                                                         *)

FarSends(t) ==
  /\ far[t] = "open"
  /\ mail' = [mail EXCEPT ![t] = TRUE]
  /\ UNCHANGED << process, main, owner, sender, receiver, stdin, prompted, in_chat,
                  cleared, chat, number, open, blocked, far >>

FarCloses(t) ==
  /\ far[t] = "open"
  /\ far' = [far EXCEPT ![t] = "closed"]
  /\ UNCHANGED << process, main, owner, sender, receiver, stdin, prompted, in_chat,
                  cleared, chat, number, open, blocked, mail >>

-----------------------------------------------------------------------------
(* Standard input.                                                         *)

Waits(x) ==
  \/ x = Menu /\ main \in {"menu", "ip", "port"}
  \/ \E t \in Talks : x = Question(t) /\ owner[t] = "question"
  \/ \E t \in Talks : x = Sender(t) /\ sender[t] = "prompt"

Acquire(x) ==
  /\ stdin = Nobody
  /\ Waits(x)
  /\ stdin' = x
  /\ UNCHANGED << process, main, owner, sender, receiver, prompted, in_chat, cleared,
                  chat, number, open, blocked, far, mail >>

\* What the user may answer: at the menu "name" stands for a peer's name, "c",
\* or an address.
Says(x) ==
  IF x = Menu THEN {"exit", "name", "other"}
  ELSE IF x[1] = "question" THEN {"yes", "no"} ELSE {"text", "/quit"}

\* The prompts the user may have in mind.
Addressed == IF Waits(prompted) THEN {prompted} ELSE {x \in Prompts : Waits(x)}

-----------------------------------------------------------------------------
(* The main thread.                                                        *)

\* "If in chat, wait until chat is over."
SeeMenu ==
  /\ main = "top"
  /\ ~ in_chat
  /\ main' = "menu"
  /\ prompted' = Menu
  /\ UNCHANGED << process, owner, sender, receiver, stdin, in_chat, cleared, chat,
                  number, open, blocked, far, mail >>

\* connect() and CONNECT_REQUEST.
Dial ==
  \E t \in Outgoing :
    /\ owner[t] = "none"
    /\ main' = "busy"
    /\ OwnerGoes(t, "reply")
    /\ number' = [number EXCEPT ![t] = LowestFree]
    /\ open' = [open EXCEPT ![LowestFree] = t]
    /\ far' = [far EXCEPT ![t] = "open"]

\* A line at the menu: exit; a peer to connect to, which in the other mode
\* takes an address and a port more; anything else, or nobody there.
MenuTakes(line) ==
  /\ stdin = Menu
  /\ stdin' = Nobody
  /\ \/ /\ main = "menu" /\ line = "exit"
        /\ process' = "exited"
        /\ UNCHANGED << main, owner, prompted, number, open, far >>
     \/ /\ \/ main = "menu" /\ line = "name" /\ ~ Discoverable /\ main' = "ip"
           \/ main = "ip" /\ main' = "port"
        /\ prompted' = Menu
        /\ UNCHANGED << process, owner, number, open, far >>
     \/ /\ main = (IF Discoverable THEN "menu" ELSE "port") /\ line = "name"
        /\ Dial
        /\ UNCHANGED << process, prompted >>
     \/ /\ \/ main = "port"
           \/ main = "menu" /\ line # "exit"
        /\ main' = "top"
        /\ UNCHANGED << process, owner, prompted, number, open, far >>
  /\ UNCHANGED << sender, receiver, in_chat, cleared, chat, blocked, mail >>

-----------------------------------------------------------------------------
(* The owner of a talk: main or handle_incoming_peer.                      *)

\* The write() of an answer, whose result nobody looks at, to what is behind the
\* owner's number by now: the caller, or nothing, or the connection of another
\* talk if late closes of earlier ones have freed the number.
Answer(t, goes) ==
  LET k == At(number[t]) IN
  \/ k = NoTalk /\ goes /\ UNCHANGED << process, far >>
  \/ k # NoTalk /\ Write(k, goes, goes)

\* The end of a talk that came to nothing: the connection is closed.
\* (The mutant leaves the connection open.)
GiveUpMutant(t) ==
  /\ OwnerGoes(t, "over")
  /\ UNCHANGED open
  /\ main' = IF t \in Outgoing THEN "top" ELSE main
GiveUp(t) ==
  /\ OwnerGoes(t, "over")
  /\ CloseNumber(number[t])
  /\ main' = IF t \in Outgoing THEN "top" ELSE main

\* accept() and a thread for the caller; or no memory, or no thread.
Ring(t) ==
  /\ t \in Incoming /\ owner[t] = "none"
  /\ far' = [far EXCEPT ![t] = "open"]
  /\ \/ /\ OwnerGoes(t, "request")
        /\ number' = [number EXCEPT ![t] = LowestFree]
        /\ open' = [open EXCEPT ![LowestFree] = t]
     \/ /\ MayFail
        /\ OwnerGoes(t, "over")
        /\ UNCHANGED << number, open >>
  /\ UNCHANGED << process, main, sender, receiver, stdin, prompted, in_chat, cleared,
                  chat, blocked, mail >>

\* The request has come: ask the user; or the caller hung up, or sent
\* something else.
TakeRequest(t) ==
  /\ owner[t] = "request"
  /\ \/ /\ OwnerGoes(t, "question")
        /\ prompted' = Question(t)
        /\ UNCHANGED << open, main >>
     \/ /\ GiveUp(t)
        /\ UNCHANGED prompted
  /\ UNCHANGED << process, sender, receiver, stdin, in_chat, cleared, chat, number,
                  blocked, far, mail >>

\* Only "yes" is ACCEPT, every other line is DENY.
\* (The mutant asks again when the line is not "yes".)
QuestionTakesMutant(t, line) ==
  /\ stdin = Question(t)
  /\ stdin' = Nobody
  /\ \/ line = "yes" /\ Answer(t, OwnerGoes(t, "start"))
     \/ line # "yes" /\ UNCHANGED << process, owner, far >>
  /\ UNCHANGED << main, sender, receiver, prompted, in_chat, cleared, chat, number,
                  open, blocked, mail >>
QuestionTakes(t, line) ==
  /\ stdin = Question(t)
  /\ stdin' = Nobody
  /\ \/ /\ line = "yes"
        /\ Answer(t, OwnerGoes(t, "start"))
        /\ UNCHANGED << open, main >>
     \/ /\ line # "yes"
        /\ Answer(t, GiveUp(t))
  /\ UNCHANGED << sender, receiver, prompted, in_chat, cleared, chat, number, blocked,
                  mail >>

\* The caller's side: ACCEPT; or DENY, anything else, the end of the stream.
TakeReply(t) ==
  /\ owner[t] = "reply"
  /\ \/ /\ \E k \in Talks : At(number[t]) = k /\ far[k] = "open"
        /\ OwnerGoes(t, "start") /\ UNCHANGED << open, main >>
     \/ GiveUp(t)
  /\ UNCHANGED << process, sender, receiver, stdin, prompted, in_chat, cleared, chat,
                  number, blocked, far, mail >>

\* in_chat = 1 and malloc, which may fail.
\* (The mutant forgets the flag.)
StartChatMutant(t) ==
  /\ owner[t] = "start"
  /\ chat' = [chat EXCEPT ![t] = "live"]
  /\ OwnerGoes(t, "send_thread")
  /\ UNCHANGED << process, main, sender, receiver, stdin, prompted, in_chat, cleared,
                  number, open, blocked, far, mail >>
StartChat(t) ==
  /\ owner[t] = "start"
  /\ \/ /\ SetFlag
        /\ chat' = [chat EXCEPT ![t] = "live"]
        /\ OwnerGoes(t, "send_thread")
        /\ UNCHANGED << open, main >>
     \/ /\ MayFail
        /\ ClearFlag(t)
        /\ GiveUp(t)
        /\ UNCHANGED chat
  /\ UNCHANGED << process, sender, receiver, stdin, prompted, number, blocked, far,
                  mail >>

\* pthread_create for the sender, then for the receiver.  When it fails the
\* owner closes up at once; a sender that has been started goes on.
\* (The mutant goes on to the joins when the second one fails.)
StartThreadMutant(t) ==
  /\ \/ /\ owner[t] = "send_thread"
        /\ OwnerGoes(t, "receive_thread") /\ SenderGoes(t, "loop")
        /\ UNCHANGED receiver
     \/ /\ owner[t] = "receive_thread"
        /\ OwnerGoes(t, "join")
        /\ ReceiverGoes(t, "read") \/ (MayFail /\ UNCHANGED receiver)
        /\ UNCHANGED sender
  /\ UNCHANGED << process, main, stdin, prompted, in_chat, cleared, chat, number, open,
                  blocked, far, mail >>
StartThread(t) ==
  /\ \/ /\ owner[t] = "send_thread"
        /\ OwnerGoes(t, "receive_thread") /\ SenderGoes(t, "loop")
        /\ UNCHANGED << receiver, chat, process, open, main, in_chat, cleared >>
     \/ /\ owner[t] = "receive_thread"
        /\ OwnerGoes(t, "join") /\ ReceiverGoes(t, "read")
        /\ UNCHANGED << sender, chat, process, open, main, in_chat, cleared >>
     \/ /\ MayFail /\ owner[t] \in {"send_thread", "receive_thread"}
        /\ GiveUp(t)
        /\ Free(t)
        /\ ClearFlag(t)
        /\ UNCHANGED << sender, receiver >>
  /\ UNCHANGED << stdin, prompted, number, blocked, far, mail >>

Join(t) ==
  /\ owner[t] = "join"
  /\ sender[t] = "ended" /\ receiver[t] = "ended"
  /\ OwnerGoes(t, "close")
  /\ UNCHANGED << process, main, sender, receiver, stdin, prompted, in_chat, cleared,
                  chat, number, open, blocked, far, mail >>

CloseUp(t) ==
  /\ owner[t] = "close"
  /\ GiveUp(t)
  /\ ClearFlag(t)
  /\ UNCHANGED << process, sender, receiver, stdin, prompted, chat, number, blocked,
                  far, mail >>

-----------------------------------------------------------------------------
(* send_messages.                                                          *)

Prompt(t) ==
  /\ sender[t] = "loop"
  /\ SenderGoes(t, "prompt")
  /\ prompted' = Sender(t)
  /\ UNCHANGED << process, main, owner, receiver, stdin, in_chat, cleared, chat, number,
                  open, blocked, far, mail >>

\* "/quit" ends the loop, any other line is a message.
SenderTakes(t, line) ==
  /\ stdin = Sender(t)
  /\ stdin' = Nobody
  /\ SenderGoes(t, IF line = "/quit" THEN "close" ELSE "write")
  /\ UNCHANGED << process, main, owner, receiver, prompted, in_chat, cleared, chat,
                  number, open, blocked, far, mail >>

\* (The mutant goes on when a write has failed.)
SendMessageMutant(t) ==
  /\ sender[t] = "write"
  /\ \E n \in SockOf(t) :
       LET k == At(n) IN
       \/ /\ k = NoTalk
          /\ SenderGoes(t, "loop")
          /\ UNCHANGED << process, far >>
       \/ /\ k # NoTalk
          /\ Write(k, SenderGoes(t, "loop"), SenderGoes(t, "loop"))
  /\ UNCHANGED << main, owner, receiver, stdin, prompted, in_chat, cleared, chat,
                  number, open, blocked, mail >>
SendMessage(t) ==
  /\ sender[t] = "write"
  /\ \E n \in SockOf(t) :
       LET k == At(n) IN
       \/ /\ k = NoTalk
          /\ SenderGoes(t, "close")
          /\ UNCHANGED << process, far >>
       \/ /\ k # NoTalk
          /\ Write(k, SenderGoes(t, "loop"), SenderGoes(t, "close"))
  /\ UNCHANGED << main, owner, receiver, stdin, prompted, in_chat, cleared, chat,
                  number, open, blocked, mail >>

SenderCloses(t) ==
  /\ sender[t] = "close"
  /\ \E n \in SockOf(t) : CloseNumber(n)
  /\ SenderGoes(t, "free")
  /\ UNCHANGED << process, main, owner, receiver, stdin, prompted, in_chat, cleared,
                  chat, number, blocked, far, mail >>

SenderEnds(t) ==
  /\ sender[t] = "free"
  /\ Free(t)
  /\ ClearFlag(t)
  /\ SenderGoes(t, "ended")
  /\ UNCHANGED << main, owner, receiver, stdin, prompted, number, open, blocked, far,
                  mail >>

-----------------------------------------------------------------------------
(* receive_messages.                                                       *)

\* The call of read(): from here on the connection is held, whatever becomes
\* of its number.  There may be none behind the number any more.
\* (The mutant takes only 0, not -1, for the end.)
CallReadMutant(t) ==
  /\ receiver[t] = "read"
  /\ \E n \in SockOf(t) :
       /\ blocked' = [blocked EXCEPT ![t] = At(n)]
       /\ ReceiverGoes(t, IF At(n) = NoTalk THEN "read" ELSE "blocked")
  /\ UNCHANGED << process, main, owner, sender, stdin, prompted, in_chat, cleared, chat,
                  number, open, far, mail >>
CallRead(t) ==
  /\ receiver[t] = "read"
  /\ \E n \in SockOf(t) :
       /\ blocked' = [blocked EXCEPT ![t] = At(n)]
       /\ ReceiverGoes(t, IF At(n) = NoTalk THEN "close" ELSE "blocked")
  /\ UNCHANGED << process, main, owner, sender, stdin, prompted, in_chat, cleared, chat,
                  number, open, far, mail >>

\* read() returns: a message; or the end of the stream or a reset.  close() by
\* another thread does not make it return.
Receive(t) ==
  LET k == blocked[t] IN
  /\ receiver[t] = "blocked"
  /\ \/ /\ mail[k]
        /\ mail' = [mail EXCEPT ![k] = FALSE]
        /\ ReceiverGoes(t, "read")
     \/ /\ ~ mail[k] /\ far[k] # "open"
        /\ ReceiverGoes(t, "close")
        /\ UNCHANGED mail
  /\ blocked' = [blocked EXCEPT ![t] = NoTalk]
  /\ UNCHANGED << process, main, owner, sender, stdin, prompted, in_chat, cleared, chat,
                  number, open, far >>

ReceiverCloses(t) ==
  /\ receiver[t] = "close"
  /\ \E n \in SockOf(t) : CloseNumber(n)
  /\ ReceiverGoes(t, "free")
  /\ UNCHANGED << process, main, owner, sender, stdin, prompted, in_chat, cleared, chat,
                  number, blocked, far, mail >>

ReceiverEnds(t) ==
  /\ receiver[t] = "free"
  /\ Free(t)
  /\ ClearFlag(t)
  /\ ReceiverGoes(t, "ended")
  /\ UNCHANGED << main, owner, sender, stdin, prompted, number, open, blocked, far,
                  mail >>

-----------------------------------------------------------------------------
\* The user types a line in answer to a prompt; the thread that holds standard
\* input gets it.
TypeLine ==
  \E meant \in Addressed : \E line \in Says(meant) :
    \/ MenuTakes(line)
    \/ \E t \in Incoming : QuestionTakes(t, line)
    \/ \E t \in Talks : SenderTakes(t, line)

OwnerActs(t) ==
  TakeRequest(t) \/ TakeReply(t) \/ StartChat(t) \/ StartThread(t) \/ Join(t) \/ CloseUp(t)

SenderActs(t) == Prompt(t) \/ SendMessage(t) \/ SenderCloses(t) \/ SenderEnds(t)

ReceiverActs(t) == CallRead(t) \/ Receive(t) \/ ReceiverCloses(t) \/ ReceiverEnds(t)

FarActs(t) == FarSends(t) \/ FarCloses(t)

TalkFinished == process # "up" /\ UNCHANGED talk_vars

TalkNext ==
  \/ /\ process = "up"
     /\ \/ SeeMenu \/ TypeLine
        \/ \E x \in Prompts : Acquire(x)
        \/ \E t \in Talks :
             \/ Ring(t) \/ OwnerActs(t) \/ SenderActs(t) \/ ReceiverActs(t) \/ FarActs(t)
  \/ TalkFinished

TalkSpec == TalkInit /\ [][TalkNext]_talk_vars

\* Every thread runs, the lock of standard input is granted in the end to each
\* that waits for it, and the user goes on typing.  Those at the other ends owe
\* nothing.
TalkFairness ==
  /\ WF_talk_vars(SeeMenu)
  /\ WF_talk_vars(TypeLine)
  /\ \A x \in Prompts : SF_talk_vars(Acquire(x))
  /\ \A t \in Talks :
       /\ WF_talk_vars(OwnerActs(t))
       /\ WF_talk_vars(SenderActs(t))
       /\ WF_talk_vars(ReceiverActs(t))

FairTalkSpec == TalkSpec /\ TalkFairness

-----------------------------------------------------------------------------
(* Safety.                                                                 *)

Alive(t) == sender[t] \notin {"none", "ended"} \/ receiver[t] \notin {"none", "ended"}
Over(t) == owner[t] = "over" /\ ~ Alive(t)

\* Whichever way a talk ends (refused, failed at any of its allocations, left
\* by either side) and however its threads and those of another talk take turns
\* in closing and freeing, nothing of it is left: its connection has no
\* descriptor and its chat_info is not allocated.
NothingLeaks ==
  \A t \in Talks : Over(t) => chat[t] # "live" /\ t \notin Range(open)

\* Both threads of a talk are at work.
Chatting(t) ==
  /\ owner[t] = "join"
  /\ sender[t] \in {"loop", "prompt", "write"} /\ receiver[t] \in {"read", "blocked"}

\* in_chat is set for as long as both threads of a chat are at work, unless the
\* end, or the failure, of some other talk has reset it; none of the places of
\* its own that reset it comes too early.
FlagLostToOthers ==
  \A t \in Talks : Chatting(t) /\ ~ in_chat => cleared \in Talks \ {t}

-----------------------------------------------------------------------------
(* Liveness, under FairTalkSpec.                                           *)

\* When the peer has gone the talk ends, wherever its threads are: the receiver
\* finds out by itself, the sender with the user's next line.
PeerGoneEndsTalk ==
  \A t \in Talks : far[t] \in {"closed", "reset"} ~> (Over(t) \/ process # "up")

\* "Wait for chat to end": when the user has said /quit, the owner's join may
\* have to wait for the other side (close() does not wake a thread in read()),
\* but never for anything else: its receiver is in read() with nothing to take,
\* or the talk gets over.
QuitWaitsForPeerOnly ==
  \A t \in Talks :
    []<>(\/ sender[t] # "ended" \/ Over(t) \/ process # "up"
         \/ receiver[t] = "blocked" /\ far[blocked[t]] = "open" /\ ~ mail[blocked[t]])

\* A caller is answered, although the menu competes for the user's lines.
CallersAreAnswered ==
  \A t \in Talks : owner[t] = "question" ~> (owner[t] # "question" \/ process # "up")
=============================================================================
