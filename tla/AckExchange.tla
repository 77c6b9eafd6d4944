----------------------------- MODULE AckExchange ----------------------------
(***************************************************************************)
(* The measurement of src/test: test_client.c sends NumMessages messages   *)
(* to static_peer.c and waits after each for an acknowledgement.  The peer *)
(* acknowledges every read(), and a message is one byte longer than it     *)
(* reads at a time.                                                        *)
(*                                                                         *)
(* Both directions of the connection are counted: bytes that the peer has  *)
(* not read, acknowledgements that the client has not read.  A read()      *)
(* returns what is there up to its size, or with ShortReads any part of    *)
(* that, an acknowledgement cut in two included.                           *)
(***************************************************************************)
EXTENDS Integers

CONSTANTS
  NumMessages,  \* NUM_TEST_MESSAGES
  MessageSize,  \* TEST_MESSAGE_SIZE
  ReadSize,     \* BUFFER_SIZE - 1
  ShortReads    \* whether a read() may return a part of what has come

ASSUME ExchangeConstants ==
  /\ NumMessages \in Nat /\ MessageSize \in Nat \ {0} /\ ReadSize \in Nat \ {0}
  /\ ShortReads \in BOOLEAN

VARIABLES
  tester,     \* "send", "wait", "closed", or "killed"
  sent,       \* messages the client has sent
  confirmed,  \* messages it has taken an acknowledgement for
  unread,     \* bytes on their way to the peer
  reads,      \* history: how often a read() of the peer has returned some
  acks,       \* acknowledgements on their way to the client
  torn,       \* 1 if the client has read the first of them in part, or 0
  peer,       \* the peer's thread: "read", "ack", "closed", or "killed"
  reset       \* the sides that have written to a connection closed by the other

ack_vars == << tester, sent, confirmed, unread, reads, acks, torn, peer, reset >>

AckTypeOK ==
  /\ tester \in {"send", "wait", "closed", "killed"}
  /\ sent \in 0 .. NumMessages /\ confirmed \in {sent, sent - 1}
  /\ {unread, reads, acks} \subseteq 0 .. NumMessages * MessageSize
  /\ torn \in 0 .. 1
  /\ peer \in {"read", "ack", "closed", "killed"}
  /\ reset \subseteq {"tester", "peer"}

AckInit ==
  /\ tester = "send" /\ sent = 0 /\ confirmed = 0
  /\ unread = 0 /\ reads = 0 /\ acks = 0 /\ torn = 0
  /\ peer = "read" /\ reset = {}

Part(most, all) ==
  LET m == IF most < all THEN most ELSE all IN IF ShortReads THEN 1 .. m ELSE {m} \ {0}

PeerHasLeft == peer \in {"closed", "killed"}
TesterHasLeft == tester \in {"closed", "killed"}

\* send_single_message up to the read(); after the last message the client
\* closes.  The first write after the other side has left goes unnoticed,
\* another one fails or raises SIGPIPE.
\* (The mutant sends the next message without waiting.)
SendMessageMutant ==
  /\ tester = "send"
  /\ \/ sent = NumMessages /\ tester' = "closed" /\ UNCHANGED << sent, unread, reset >>
     \/ /\ sent < NumMessages
        /\ sent' = sent + 1 /\ unread' = unread + MessageSize
        /\ UNCHANGED << tester, reset >>
  /\ UNCHANGED << confirmed, reads, acks, torn, peer >>
SendMessage ==
  /\ tester = "send"
  /\ \/ sent = NumMessages /\ tester' = "closed" /\ UNCHANGED << sent, unread, reset >>
     \/ /\ sent < NumMessages /\ "tester" \notin reset
        /\ sent' = sent + 1 /\ unread' = unread + MessageSize /\ tester' = "wait"
        /\ reset' = IF PeerHasLeft THEN reset \cup {"tester"} ELSE reset
     \/ /\ sent < NumMessages /\ "tester" \in reset
        /\ tester' \in {"closed", "killed"}
        /\ UNCHANGED << sent, unread, reset >>
  /\ UNCHANGED << confirmed, reads, acks, torn, peer >>

\* Whether a read() of acknowledgements can leave n of them, and cut of the n in
\* part.
CanLeave(n, cut) ==
  IF ShortReads THEN cut <= n /\ n < acks + cut ELSE n = 0 /\ cut = 0

\* The read() for an acknowledgement takes what has come; only how the answer
\* begins is looked at.  What begins in the middle of one is invalid, and so is
\* less than three characters of it.
TakeAnswer ==
  /\ tester = "wait" /\ acks > 0
  /\ \E n \in 0 .. acks, cut \in 0 .. 1 :
       /\ CanLeave(n, cut)
       /\ acks' = n /\ torn' = cut
       /\ \/ torn = 0 /\ tester' = "send" /\ confirmed' = sent
          \/ /\ torn = 1 \/ n = acks
             /\ tester' = "closed" /\ UNCHANGED confirmed
  /\ UNCHANGED << sent, unread, reads, peer, reset >>

\* It fails, or returns nothing, once the other side has left; what had come is
\* lost if that side left with bytes unread.
\* (The mutant takes the end of the stream for an acknowledgement.)
AnswerFailsMutant ==
  /\ tester = "wait" /\ PeerHasLeft /\ (acks = 0 \/ unread > 0)
  /\ tester' = "send" /\ confirmed' = sent
  /\ UNCHANGED << sent, unread, reads, acks, torn, peer, reset >>
AnswerFails ==
  /\ tester = "wait" /\ PeerHasLeft /\ (acks = 0 \/ unread > 0)
  /\ tester' = "closed"
  /\ UNCHANGED << sent, confirmed, unread, reads, acks, torn, peer, reset >>

TakeAck == TakeAnswer \/ AnswerFails

\* (The mutant does not see the end of the stream.)
PeerReadsMutant ==
  /\ peer = "read"
  /\ \E n \in Part(ReadSize, unread) :
       unread' = unread - n /\ reads' = reads + 1
  /\ peer' = "ack"
  /\ UNCHANGED << tester, sent, confirmed, acks, torn, reset >>
PeerReads ==
  /\ peer = "read"
  /\ \/ \E n \in Part(ReadSize, unread) :
          /\ unread' = unread - n /\ reads' = reads + 1
          /\ peer' = "ack"
     \/ /\ TesterHasLeft /\ (unread = 0 \/ acks > 0 \/ "peer" \in reset)
        /\ peer' = "closed"
        /\ UNCHANGED << unread, reads >>
  /\ UNCHANGED << tester, sent, confirmed, acks, torn, reset >>

\* The acknowledgement, written as above.
Acknowledge ==
  /\ peer = "ack"
  /\ IF ~ TesterHasLeft
     THEN peer' = "read" /\ acks' = acks + 1 /\ UNCHANGED reset
     ELSE /\ peer' \in IF "peer" \in reset THEN {"closed", "killed"} ELSE {"read"}
          /\ reset' = reset \cup {"peer"}
          /\ UNCHANGED acks
  /\ UNCHANGED << tester, sent, confirmed, unread, reads, torn >>

\* One of the programs is killed, at any point.
Interrupt ==
  /\ \/ ~ TesterHasLeft /\ tester' = "killed" /\ UNCHANGED peer
     \/ ~ PeerHasLeft /\ peer' = "killed" /\ UNCHANGED tester
  /\ UNCHANGED << sent, confirmed, unread, reads, acks, torn, reset >>

AckFinished == TesterHasLeft /\ PeerHasLeft /\ UNCHANGED ack_vars

AckNext ==
  SendMessage \/ TakeAck \/ PeerReads \/ Acknowledge \/ Interrupt \/ AckFinished

AckSpec == AckInit /\ [][AckNext]_ack_vars

\* Both threads run.
AckFairness == WF_ack_vars(SendMessage \/ TakeAck) /\ WF_ack_vars(PeerReads \/ Acknowledge)

FairAckSpec == AckSpec /\ AckFairness

-----------------------------------------------------------------------------
\* No acknowledgement is made up: each that the client has counted or that is
\* still to come stands for a read() of the peer of its own, and each read() for
\* bytes of the messages that were sent.
NoneMadeUp ==
  /\ confirmed + (acks - torn) + (IF peer = "ack" THEN 1 ELSE 0) <= reads
  /\ reads + unread <= sent * MessageSize

\* However the acknowledgements fall behind, run ahead or are cut, and whichever
\* side is killed, nobody waits in vain: the measurement ends, and so does the peer's
\* thread.
ExchangeEnds == <>(TesterHasLeft /\ PeerHasLeft)
=============================================================================
