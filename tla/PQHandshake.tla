----------------------------- MODULE PQHandshake ----------------------------
(***************************************************************************)
(* Two clients of src/pqc_net that talk to each other: the caller          *)
(* (client/main.c, in both of its modes) and the callee                    *)
(* (handle_incoming_peer of client/client.c) from the connection to the    *)
(* end of the chat, with the calls of pq_encryption.c.                     *)
(*                                                                         *)
(* The connection.  Each direction is a stream of words that no read()     *)
(* splits: the length of a key has LengthWords of them and that of a       *)
(* message TextLengthWords (in the source both are four bytes), a public   *)
(* key KeyWords and an initialisation vector IVWords.  A read() takes what *)
(* is there, up to the number it asks for, or with ShortReads any part of  *)
(* that.                                                                   *)
(*                                                                         *)
(* Keys.  Kyber answers a text that was not encapsulated for a key with a  *)
(* secret that depends on both, and nothing in this program encapsulates.  *)
(* What one side encrypts the other can decrypt if both have the same AES  *)
(* key and initialisation vector.                                          *)
(*                                                                         *)
(* Left out: the commands to the routing server that surround a chat       *)
(* (P2PNetwork has them), and what a thread may find in a chat_info that   *)
(* the other has freed, or do by freeing it again (Conversation has that;  *)
(* here it finds what was there).                                          *)
(***************************************************************************)
EXTENDS Naturals, Sequences, SequencesExt

CONSTANTS
  LengthWords,      \* words of the length that goes ahead of a key
  TextLengthWords,  \* words of the length that goes ahead of a message
  KeyWords,         \* length of a public key
  IVWords,          \* length of an initialisation vector
  ShortReads,       \* whether a read() may return a part of what has come
  Failures,         \* what may fail: "malloc", "keypair_malloc", "crypto", "thread"
  Room              \* bound: words that wait for each side before a message to it blocks

Caller == "caller"
Callee == "callee"
Sides == {Caller, Callee}
Other(s) == IF s = Caller THEN Callee ELSE Caller

ASSUME HandshakeConstants ==
  /\ LengthWords \in Nat \ {0} /\ TextLengthWords \in Nat \ {0}
  /\ KeyWords \in Nat \ {0} /\ IVWords \in Nat \ {0}
  /\ Room \in [Sides -> Nat]
  /\ ShortReads \in BOOLEAN
  /\ Failures \subseteq {"malloc", "keypair_malloc", "crypto", "thread"}

\* The blocks of memory of one handshake.
KeyPair == {"public_key", "secret_key"}
Blocks == KeyPair \cup {"chat", "peer_public_key"}

\* What a side does from the acceptance to the chat, in this order.
\* (The mutants: the caller reads the peer's key before it sends its own; the
\* callee sends its key ahead of the length.)
CallerStepsMutant ==
  << "chat_info", "keypair", "read_length", "read_key", "send_length", "send_key",
     "derive", "send_iv", "send_thread", "receive_thread", "join" >>
CallerSteps ==
  << "chat_info", "keypair", "send_length", "send_key", "read_length", "read_key",
     "derive", "send_iv", "send_thread", "receive_thread", "join" >>
CalleeStepsMutant ==
  << "chat_info", "keypair", "read_length", "read_key", "derive", "send_key",
     "send_length", "send_iv", "send_thread", "receive_thread", "join" >>
CalleeSteps ==
  << "chat_info", "keypair", "read_length", "read_key", "derive", "send_length",
     "send_key", "send_iv", "send_thread", "receive_thread", "join" >>
Steps(s) == IF s = Caller THEN CallerSteps ELSE CalleeSteps

VARIABLES
  up,         \* whether the process of each side runs
  owner,      \* the thread that makes the handshake: its next step
  sender,     \* send_messages: "none", "loop", "text", "end" or "ended"
  receiver,   \* receive_messages: "none", "length" or "text" (in read()), ...
  sock,       \* peer_sock: "none", "open" or "closed"
  stream,     \* the words on their way to each side
  reset,      \* whether a write of this side has met a connection that was closed
  heap,       \* the blocks that are allocated
  in_chat,    \* the flag of the same name
  want,       \* the length that was read last, by each side
  size,       \* the words that the length of the peer's key was read from
  peer_key,   \* what has been read into peer_public_key
  enc_ctx     \* the encryption context in chat_info

pq_vars == << up, owner, sender, receiver, sock, stream, reset, heap, in_chat, want,
              size, peer_key, enc_ctx >>

MessageWords == 2                 \* a message and its tag
BufferWords == KeyWords + 1       \* the buffer of receive_messages
Lengths == 0 .. BufferWords + 1
NoContext == [aes_key |-> << >>, iv |-> << >>]

Word(kind, s, n) == [kind |-> kind, from |-> s, number |-> n]
KeyLength(s) == [i \in 1 .. LengthWords |-> Word("key_length", s, i)]
TextLength(s) == [i \in 1 .. TextLengthWords |-> Word("text_length", s, i)]
PublicKey(s) == [i \in 1 .. KeyWords |-> Word("key", s, i)]
FreshIV(s) == [i \in 1 .. IVWords |-> Word("iv", s, i)]
Encrypt(s) == [i \in 1 .. MessageWords |-> Word("text", s, i)]

\* Whether text is a whole message of the other side, made in the context that
\* s has.
Decrypts(s, text) == text = Encrypt(Other(s)) /\ enc_ctx[s] = enc_ctx[Other(s)]

Decapsulate(s, text) == << Word("secret", s, 1) >> \o text

\* The lengths that s may find in text: in a part of one, with what was in the
\* rest of its variable, or in anything else, any.
Found(s, text) ==
  {n \in Lengths : /\ text = KeyLength(Other(s)) => n = KeyWords
                   /\ text = TextLength(Other(s)) => n = MessageWords}

FromOther(s, text) == \A w \in ToSet(text) : w.from = Other(s)

\* The types.  While a side has not come to the chat, what it has read for the key
\* fits into the memory that it has taken for it.
PQTypeOK ==
  /\ up \in [Sides -> BOOLEAN]
  /\ \A s \in Sides :
       /\ owner[s] \in ToSet(Steps(s))
            \cup {"dial", "reply", "accept", "request", "question", "over"}
       /\ FromOther(s, size[s]) /\ Len(size[s]) <= LengthWords
       /\ FromOther(s, peer_key[s])
       /\ receiver[s] = "none" => Len(peer_key[s]) <= want[s]
       /\ enc_ctx[s] # NoContext =>
            enc_ctx[s] = [aes_key |-> Decapsulate(s, peer_key[s]), iv |-> FreshIV(s)]
       /\ FromOther(s, stream[s])
  /\ sender \in [Sides -> {"none", "loop", "text", "end", "ended"}]
  /\ receiver \in [Sides -> {"none", "length", "text", "end", "ended"}]
  /\ sock \in [Sides -> {"none", "open", "closed"}]
  /\ reset \in [Sides -> BOOLEAN]
  /\ heap \in [Sides -> SUBSET Blocks]
  /\ in_chat \in [Sides -> BOOLEAN]
  /\ want \in [Sides -> Lengths]

PQInit ==
  /\ up = [s \in Sides |-> TRUE]
  /\ owner = [s \in Sides |-> IF s = Caller THEN "dial" ELSE "accept"]
  /\ sender = [s \in Sides |-> "none"]
  /\ receiver = [s \in Sides |-> "none"]
  /\ sock = [s \in Sides |-> "none"]
  /\ stream = [s \in Sides |-> << >>]
  /\ reset = [s \in Sides |-> FALSE]
  /\ heap = [s \in Sides |-> {}]
  /\ in_chat = [s \in Sides |-> FALSE]
  /\ want = [s \in Sides |-> 0]
  /\ size = [s \in Sides |-> << >>]
  /\ peer_key = [s \in Sides |-> << >>]
  /\ enc_ctx = [s \in Sides |-> NoContext]

-----------------------------------------------------------------------------
(* The connection.                                                         *)

\* s has closed its end.  A thread in read() keeps it open.
HasLeft(s) == ~ up[s] \/ (sock[s] = "closed" /\ receiver[s] \notin {"length", "text"})

AtEnd(s) == stream[s] = << >> /\ HasLeft(Other(s))

\* read() of n words by s: what it may get; for none there is no such text.
Gets(s, n) ==
  LET all == IF n < Len(stream[s]) THEN n ELSE Len(stream[s]) IN
  {SubSeq(stream[s], 1, k) : k \in IF ShortReads THEN 1 .. all ELSE {all} \ {0}}

Take(s, text) ==
  stream' = [stream EXCEPT ![s] = SubSeq(@, Len(text) + 1, Len(@))]

\* write() of text by s.  The first one after the other end has closed goes
\* unnoticed, another one fails or raises SIGPIPE.
Write(s, text, done, failed) ==
  LET o == Other(s) IN
  \/ /\ sock[s] = "open" /\ ~ HasLeft(o)
     /\ stream' = [stream EXCEPT ![o] = @ \o text]
     /\ done /\ UNCHANGED << up, reset >>
  \/ /\ sock[s] = "open" /\ HasLeft(o) /\ ~ reset[s]
     /\ reset' = [reset EXCEPT ![s] = TRUE]
     /\ done /\ UNCHANGED << up, stream >>
  \/ /\ sock[s] = "open" /\ HasLeft(o) /\ reset[s]
     /\ \/ failed /\ UNCHANGED up
        \/ done /\ up' = [up EXCEPT ![s] = FALSE]
     /\ UNCHANGED << reset, stream >>
  \/ /\ sock[s] # "open"
     /\ failed /\ UNCHANGED << up, reset, stream >>

-----------------------------------------------------------------------------
(* The handshake.                                                          *)

Goes(s, step) == owner' = [owner EXCEPT ![s] = step]

\* On to the next step, with the memory of s as given.
Proceed(s, blocks) ==
  /\ \E i \in 1 .. Len(Steps(s)) - 1 : owner[s] = Steps(s)[i] /\ Goes(s, Steps(s)[i + 1])
  /\ heap' = [heap EXCEPT ![s] = blocks]
  /\ UNCHANGED << sock, in_chat >>

\* Every way out but exit: close, free what this way out frees, and reset the
\* flag.
GiveUp(s, blocks) ==
  /\ Goes(s, "over")
  /\ sock' = [sock EXCEPT ![s] = "closed"]
  /\ heap' = [heap EXCEPT ![s] = @ \ blocks]
  /\ in_chat' = [in_chat EXCEPT ![s] = FALSE]

\* connect() and CONNECT_REQUEST; or the callee is not there.
Dial ==
  /\ owner[Caller] = "dial"
  /\ IF up[Callee]
     THEN /\ Goes(Caller, "reply")
          /\ sock' = [sock EXCEPT ![Caller] = "open"]
          /\ stream' = [stream EXCEPT ![Callee] = @ \o << Word("request", Caller, 1) >>]
     ELSE Goes(Caller, "over") /\ UNCHANGED << sock, stream >>
  /\ UNCHANGED << up, sender, receiver, reset, heap, in_chat, want, size, peer_key, enc_ctx >>

\* accept() and a thread for the caller; or no thread.
Accept ==
  /\ owner[Callee] = "accept" /\ sock[Caller] # "none"
  /\ \/ /\ Goes(Callee, "request")
        /\ sock' = [sock EXCEPT ![Callee] = "open"]
        /\ UNCHANGED << heap, in_chat >>
     \/ "thread" \in Failures /\ GiveUp(Callee, {})
  /\ UNCHANGED << up, sender, receiver, stream, reset, want, size, peer_key, enc_ctx >>

TakeRequest ==
  /\ owner[Callee] = "request"
  /\ \/ /\ stream[Callee] # << >>
        /\ stream' = [stream EXCEPT ![Callee] = Tail(@)]
        /\ Goes(Callee, "question")
        /\ UNCHANGED << sock, heap, in_chat >>
     \/ AtEnd(Callee) /\ GiveUp(Callee, {}) /\ UNCHANGED stream
  /\ UNCHANGED << up, sender, receiver, reset, want, size, peer_key, enc_ctx >>

\* The user's answer.  Whether it could be written is not looked at.
Answer ==
  /\ owner[Callee] = "question"
  /\ \/ LET yes == Goes(Callee, "chat_info") /\ UNCHANGED << sock, heap, in_chat >>
        IN  Write(Callee, << Word("accept", Callee, 1) >>, yes, yes)
     \/ Write(Callee, << Word("deny", Callee, 1) >>, GiveUp(Callee, {}), GiveUp(Callee, {}))
  /\ UNCHANGED << sender, receiver, want, size, peer_key, enc_ctx >>

TakeReply ==
  /\ owner[Caller] = "reply"
  /\ \/ /\ stream[Caller] # << >>
        /\ IF Head(stream[Caller]).kind = "accept"
           THEN Goes(Caller, "chat_info") /\ UNCHANGED << sock, heap, in_chat >>
           ELSE GiveUp(Caller, {})
        /\ stream' = [stream EXCEPT ![Caller] = Tail(@)]
     \/ AtEnd(Caller) /\ GiveUp(Caller, {}) /\ UNCHANGED stream
  /\ UNCHANGED << up, sender, receiver, reset, want, size, peer_key, enc_ctx >>

\* in_chat = 1 and the chat_info; or no memory.
MakeChat(s) ==
  /\ owner[s] = "chat_info"
  /\ \/ /\ owner' = [owner EXCEPT ![s] = "keypair"]
        /\ heap' = [heap EXCEPT ![s] = @ \cup {"chat"}]
        /\ in_chat' = [in_chat EXCEPT ![s] = TRUE]
        /\ UNCHANGED sock
     \/ "malloc" \in Failures /\ GiveUp(s, {})
  /\ UNCHANGED << up, sender, receiver, stream, reset, want, size, peer_key, enc_ctx >>

\* pqcrypto_generate_keypair.  When it can allocate one of the keys only, it
\* keeps that one.
MakeKeys(s) ==
  /\ owner[s] = "keypair"
  /\ \/ Proceed(s, heap[s] \cup KeyPair)
     \/ "crypto" \in Failures /\ GiveUp(s, {"chat"})
     \/ /\ "keypair_malloc" \in Failures
        /\ Goes(s, "over")
        /\ sock' = [sock EXCEPT ![s] = "closed"]
        /\ in_chat' = [in_chat EXCEPT ![s] = FALSE]
        /\ \E kept \in SUBSET KeyPair \ {KeyPair} : heap' = [heap EXCEPT ![s] = kept]
  /\ UNCHANGED << up, sender, receiver, stream, reset, want, size, peer_key, enc_ctx >>

\* What the failure of a write of the own key frees: the caller has no memory
\* for the peer's key yet.
FreedWithKey(s) == IF s = Caller THEN Blocks \ {"peer_public_key"} ELSE Blocks

SendLength(s) ==
  /\ owner[s] = "send_length"
  /\ Write(s, KeyLength(s), Proceed(s, heap[s]), GiveUp(s, FreedWithKey(s)))
  /\ UNCHANGED << sender, receiver, want, size, peer_key, enc_ctx >>

SendKey(s) ==
  /\ owner[s] = "send_key"
  /\ Write(s, PublicKey(s), Proceed(s, heap[s]), GiveUp(s, FreedWithKey(s)))
  /\ UNCHANGED << sender, receiver, want, size, peer_key, enc_ctx >>

\* One read() for the length of the peer's key, however much of it has come,
\* and memory for that many words.
ReadLength(s) ==
  /\ owner[s] = "read_length"
  /\ \/ \E text \in Gets(s, LengthWords) :
          /\ Take(s, text)
          /\ size' = [size EXCEPT ![s] = text]
          /\ \E n \in Found(s, text) : want' = [want EXCEPT ![s] = n]
          /\ \/ Proceed(s, heap[s] \cup {"peer_public_key"})
             \/ "malloc" \in Failures /\ GiveUp(s, Blocks \ {"peer_public_key"})
     \/ /\ AtEnd(s)
        /\ GiveUp(s, Blocks \ {"peer_public_key"})
        /\ UNCHANGED << stream, want, size >>
  /\ UNCHANGED << up, sender, receiver, reset, peer_key, enc_ctx >>

\* One read() for the key, however much of it has come.  One for no words at all
\* returns at once and counts as the end.
\* (The mutant asks for one word too many.)
ReadKeyMutant(s) ==
  /\ owner[s] = "read_key"
  /\ \/ \E text \in Gets(s, want[s] + 1) :
          /\ Take(s, text)
          /\ peer_key' = [peer_key EXCEPT ![s] = text]
          /\ Proceed(s, heap[s])
     \/ /\ AtEnd(s) \/ want[s] = 0
        /\ GiveUp(s, Blocks)
        /\ UNCHANGED << stream, peer_key >>
  /\ UNCHANGED << up, sender, receiver, reset, want, size, enc_ctx >>
ReadKey(s) ==
  /\ owner[s] = "read_key"
  /\ \/ \E text \in Gets(s, want[s]) :
          /\ Take(s, text)
          /\ peer_key' = [peer_key EXCEPT ![s] = text]
          /\ Proceed(s, heap[s])
     \/ /\ AtEnd(s) \/ want[s] = 0
        /\ GiveUp(s, Blocks)
        /\ UNCHANGED << stream, peer_key >>
  /\ UNCHANGED << up, sender, receiver, reset, want, size, enc_ctx >>

\* pqcrypto_derive_shared_secret: the secret that the own key makes of the
\* peer's key, and an initialisation vector of one's own.
Derive(s) ==
  /\ owner[s] = "derive"
  /\ \/ /\ enc_ctx' = [enc_ctx EXCEPT ![s] =
             [aes_key |-> Decapsulate(s, peer_key[s]), iv |-> FreshIV(s)]]
        /\ Proceed(s, heap[s])
     \/ "crypto" \in Failures /\ GiveUp(s, Blocks) /\ UNCHANGED enc_ctx
  /\ UNCHANGED << up, sender, receiver, stream, reset, want, size, peer_key >>

\* The vector goes to the peer, and the keys are freed.
\* (The mutant frees the own keys only.)
SendIVMutant(s) ==
  /\ owner[s] = "send_iv"
  /\ Write(s, FreshIV(s), Proceed(s, heap[s] \ KeyPair), GiveUp(s, Blocks))
  /\ UNCHANGED << sender, receiver, want, size, peer_key, enc_ctx >>
SendIV(s) ==
  /\ owner[s] = "send_iv"
  /\ Write(s, FreshIV(s), Proceed(s, {"chat"}), GiveUp(s, Blocks))
  /\ UNCHANGED << sender, receiver, want, size, peer_key, enc_ctx >>

\* A thread that starts to read finds the connection, or its end.
Reads(s) == receiver' = [receiver EXCEPT ![s] = IF sock[s] = "open" THEN "length" ELSE "end"]

\* The two threads, or neither, or the sender alone.
StartThread(s) ==
  /\ \/ /\ owner[s] = "send_thread"
        /\ Proceed(s, heap[s])
        /\ sender' = [sender EXCEPT ![s] = "loop"]
        /\ UNCHANGED receiver
     \/ owner[s] = "receive_thread" /\ Proceed(s, heap[s]) /\ Reads(s) /\ UNCHANGED sender
     \/ /\ owner[s] \in {"send_thread", "receive_thread"} /\ "thread" \in Failures
        /\ GiveUp(s, {"chat"})
        /\ UNCHANGED << sender, receiver >>
  /\ UNCHANGED << up, stream, reset, want, size, peer_key, enc_ctx >>

Join(s) ==
  /\ owner[s] = "join" /\ sender[s] = "ended" /\ receiver[s] = "ended"
  /\ GiveUp(s, {})
  /\ UNCHANGED << up, sender, receiver, stream, reset, want, size, peer_key, enc_ctx >>

-----------------------------------------------------------------------------
(* The chat.                                                               *)

SenderGoes(s, label) == sender' = [sender EXCEPT ![s] = label]

\* A line from the user: /quit, or a message that is encrypted and announced by
\* its length.  A failure to encrypt it ends the loop as /quit does.
Type(s) ==
  /\ sender[s] = "loop"
  /\ \/ SenderGoes(s, "end") /\ UNCHANGED << up, reset, stream >>
     \/ /\ HasLeft(Other(s)) \/ sock[s] # "open" \/ Len(stream[Other(s)]) < Room[Other(s)]
        /\ Write(s, TextLength(s), SenderGoes(s, "text"), SenderGoes(s, "end"))
  /\ UNCHANGED << owner, receiver, sock, heap, in_chat, want, size, peer_key, enc_ctx >>

SendText(s) ==
  /\ sender[s] = "text"
  /\ Write(s, Encrypt(s), SenderGoes(s, "loop"), SenderGoes(s, "end"))
  /\ UNCHANGED << owner, receiver, sock, heap, in_chat, want, size, peer_key, enc_ctx >>

\* What both threads do at their end: close, free the chat_info and reset the
\* flag.
CloseChat(s) ==
  /\ sock' = [sock EXCEPT ![s] = "closed"]
  /\ heap' = [heap EXCEPT ![s] = @ \ {"chat"}]
  /\ in_chat' = [in_chat EXCEPT ![s] = FALSE]

SenderEnds(s) ==
  /\ sender[s] = "end" /\ SenderGoes(s, "ended")
  /\ CloseChat(s)
  /\ UNCHANGED << up, owner, receiver, stream, reset, want, size, peer_key, enc_ctx >>

\* What a thread does with a length that it has read from text.
TakesFor(s, text) ==
  \E n \in Found(s, text) :
    /\ want' = [want EXCEPT ![s] = n]
    /\ receiver' = [receiver EXCEPT ![s] = IF n > 0 /\ sock[s] = "open" THEN "text" ELSE "end"]

\* The beginning of the stream is the length of a message, or is taken for one.
\* (The mutant reads on at the end of the stream.)
TakeLengthMutant(s) ==
  /\ receiver[s] = "length"
  /\ \E text \in Gets(s, TextLengthWords) : Take(s, text) /\ TakesFor(s, text)
  /\ UNCHANGED << up, owner, sender, sock, reset, heap, in_chat, size, peer_key, enc_ctx >>
TakeLength(s) ==
  /\ receiver[s] = "length"
  /\ \/ \E text \in Gets(s, TextLengthWords) : Take(s, text) /\ TakesFor(s, text)
     \/ /\ AtEnd(s)
        /\ receiver' = [receiver EXCEPT ![s] = "end"]
        /\ UNCHANGED << stream, want >>
  /\ UNCHANGED << up, owner, sender, sock, reset, heap, in_chat, size, peer_key, enc_ctx >>

\* One read() for the message.  It is shown if it is whole and decrypts; a
\* length beyond the buffer makes pqcrypto_decrypt look for the tag behind it.
\* The next turn of the loop has a length of its own.
TakeText(s) ==
  /\ receiver[s] = "text"
  /\ \/ \E text \in Gets(s, want[s]) :
          /\ Take(s, text)
          /\ IF want[s] = Len(text) /\ Decrypts(s, text)
             THEN Reads(s) ELSE receiver' = [receiver EXCEPT ![s] = "end"]
          /\ up' \in IF want[s] > BufferWords THEN {up, [up EXCEPT ![s] = FALSE]} ELSE {up}
     \/ AtEnd(s) /\ receiver' = [receiver EXCEPT ![s] = "end"] /\ UNCHANGED << up, stream >>
  /\ want' = [want EXCEPT ![s] = 0]
  /\ UNCHANGED << owner, sender, sock, reset, heap, in_chat, size, peer_key, enc_ctx >>

ReceiverEnds(s) ==
  /\ receiver[s] = "end" /\ receiver' = [receiver EXCEPT ![s] = "ended"]
  /\ CloseChat(s)
  /\ UNCHANGED << up, owner, sender, stream, reset, want, size, peer_key, enc_ctx >>

-----------------------------------------------------------------------------
\* A process is killed, at any point.
Vanish(s) ==
  /\ up' = [up EXCEPT ![s] = FALSE]
  /\ UNCHANGED << owner, sender, receiver, sock, stream, reset, heap, in_chat, want,
                  size, peer_key, enc_ctx >>

CallStep == Dial \/ TakeReply
CalledStep == Accept \/ TakeRequest \/ Answer

FirstStep(s) == IF s = Caller THEN CallStep ELSE CalledStep

OwnerStep(s) ==
  \/ MakeChat(s) \/ MakeKeys(s) \/ SendLength(s) \/ SendKey(s) \/ ReadLength(s)
  \/ ReadKey(s) \/ Derive(s) \/ SendIV(s) \/ StartThread(s) \/ Join(s)

SenderStep(s) == Type(s) \/ SendText(s) \/ SenderEnds(s)
ReceiverStep(s) == TakeLength(s) \/ TakeText(s) \/ ReceiverEnds(s)

PQNext ==
  \/ up[Caller] /\ CallStep
  \/ up[Callee] /\ CalledStep
  \/ \E s \in Sides : up[s] /\ (OwnerStep(s) \/ SenderStep(s) \/ ReceiverStep(s) \/ Vanish(s))
  \/ (\A s \in Sides : ~ up[s]) /\ UNCHANGED pq_vars

PQSpec == PQInit /\ [][PQNext]_pq_vars

\* Every thread runs and the users answer and type.  Nobody has to vanish.
PQFairness ==
  /\ \A s \in Sides :
       /\ WF_pq_vars(up[s] /\ (OwnerStep(s) \/ FirstStep(s)))
       /\ WF_pq_vars(up[s] /\ SenderStep(s))
       /\ WF_pq_vars(up[s] /\ ReceiverStep(s))

FairPQSpec == PQSpec /\ PQFairness

-----------------------------------------------------------------------------
(* Properties.                                                             *)

Ended(s) ==
  owner[s] = "over" /\ sender[s] \in {"none", "ended"} /\ receiver[s] \in {"none", "ended"}

\* "Clean up keys": no way out of a handshake, at whichever step and however
\* far the other side has come, leaves memory, the connection or in_chat
\* behind, and no secret key outlives the handshake.
NothingLeft ==
  \A s \in Sides : up[s] =>
    /\ Ended(s) => heap[s] = {} /\ sock[s] # "open" /\ ~ in_chat[s]
    /\ sender[s] # "none" => heap[s] \subseteq {"chat"}

\* What a side takes for the length and for the key is the beginning of what the
\* other sends, in the order of a length and a key, however the reads split it:
\* never the vector or a message in the place of either.  If the length came
\* whole, nothing is taken for the key that is not of the key.
\* (If it did not, the rest of it is taken for the beginning of the key: the code
\* goes on with any part of a length.)
KeyIsInPlace ==
  \A s \in Sides :
    LET sent == KeyLength(Other(s)) \o PublicKey(Other(s))
        taken == size[s] \o peer_key[s]
    IN  /\ IsPrefix(taken, sent) \/ IsPrefix(sent, taken)
        /\ size[s] = KeyLength(Other(s)) => IsPrefix(peer_key[s], PublicKey(Other(s)))

\* "Derive shared secret": two sides that have exchanged keys have the same key.
KeysAgree ==
  (\A s \in Sides : enc_ctx[s] # NoContext) =>
    enc_ctx[Caller].aes_key = enc_ctx[Callee].aes_key

\* The two sides never wait for each other: a handshake that has begun ends, in
\* a chat or without one, whatever fails and whoever vanishes on the way.
HandshakeEnds ==
  \A s \in Sides : owner[s] = "chat_info" ~> (owner[s] \in {"join", "over"} \/ ~ up[s])

\* When one side has left the chat, the other leaves it too.
PeerGoneEndsChat ==
  \A s \in Sides : owner[s] = "join" /\ HasLeft(Other(s)) ~> (Ended(s) \/ ~ up[s])
=============================================================================
