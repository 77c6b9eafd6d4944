------------------------- MODULE AckExchangeProofs --------------------------
(***************************************************************************)
(* Proofs about AckExchange, for every number of messages and every size.  *)
(***************************************************************************)
EXTENDS AckExchange, TLAPS

\* The acknowledgements that can still be taken, the one that the peer is about
\* to write included.
Writing == IF peer = "ack" THEN 1 ELSE 0
ToCome == (acks - torn) + Writing

\* None is made up, and the client has taken one for each message but the one it
\* waits for.
AckInv ==
  /\ tester \in {"send", "wait", "closed", "killed"}
  /\ sent \in 0 .. NumMessages /\ confirmed \in Nat
  /\ tester = "send" => confirmed = sent
  /\ confirmed = sent \/ confirmed + 1 = sent
  /\ unread \in Nat /\ reads \in Nat
  /\ reads + unread <= sent * MessageSize
  /\ acks \in Nat /\ torn \in 0 .. 1 /\ torn <= acks
  /\ acks <= reads
  /\ peer = "ack" => acks < reads
  /\ confirmed + ToCome <= reads
  /\ peer \in {"read", "ack", "closed", "killed"}
  /\ reset \subseteq {"tester", "peer"}

\* A read() takes at least one byte and none that is not there.
LEMMA PartSize ==
  ASSUME NEW most \in Nat, NEW all \in Nat, NEW n \in Part(most, all)
  PROVE  n \in 1 .. all
  BY DEF Part

\* The invariant says of every variable what it is declared to be, and that no
\* acknowledgement is made up.
LEMMA AckInvSays == AckInv => AckTypeOK /\ NoneMadeUp
<1> SUFFICES ASSUME AckInv PROVE AckTypeOK /\ NoneMadeUp
  OBVIOUS
<1>1. NumMessages \in Nat /\ MessageSize \in Nat /\ sent \in 0 .. NumMessages
  BY ExchangeConstants DEF ExchangeConstants, AckInv
<1>2. sent * MessageSize <= NumMessages * MessageSize
  BY <1>1
<1>3. sent * MessageSize \in Nat /\ NumMessages * MessageSize \in Nat
  BY <1>1
<1>4. /\ unread <= sent * MessageSize /\ reads <= sent * MessageSize /\ acks <= sent * MessageSize
      /\ unread \in Nat /\ reads \in Nat /\ acks \in Nat
  BY <1>3 DEF AckInv
<1>5. {unread, reads, acks} \subseteq 0 .. NumMessages * MessageSize
  BY <1>2, <1>3, <1>4
<1>6. confirmed \in {sent, sent - 1}
  BY DEF AckInv
<1> QED
  BY <1>5, <1>6 DEF AckInv, AckTypeOK, NoneMadeUp, ToCome, Writing

\* Every read, write and end of either program keeps the counts.
LEMMA AckStep == AckInv /\ [AckNext]_ack_vars => AckInv'
<1> SUFFICES ASSUME AckInv, [AckNext]_ack_vars PROVE AckInv'
  OBVIOUS
<1>0. NumMessages \in Nat /\ MessageSize \in Nat \ {0} /\ ReadSize \in Nat
  BY ExchangeConstants DEF ExchangeConstants
<1>t. /\ sent \in Nat /\ unread \in Nat /\ reads \in Nat /\ acks \in Nat /\ confirmed \in Nat
      /\ torn \in Nat /\ torn <= acks /\ torn <= 1
  BY <1>0 DEF AckInv
<1>m. sent * MessageSize \in Nat
  BY <1>0, <1>t
<1>u. confirmed + ((acks - torn) + Writing) <= reads /\ Writing \in Nat
  BY DEF AckInv, ToCome, Writing
<1>1. CASE SendMessage
  <2>0. /\ UNCHANGED << confirmed, reads, acks, torn, peer >> /\ tester = "send"
        /\ ToCome' = ToCome
    BY <1>1 DEF SendMessage, ToCome, Writing
  <2>1. CASE UNCHANGED << sent, unread, reset >> /\ tester' \in {"closed", "killed"}
    BY <2>0, <2>1 DEF AckInv
  <2>2. CASE /\ sent < NumMessages /\ sent' = sent + 1 /\ unread' = unread + MessageSize
             /\ tester' = "wait" /\ reset' \in {reset, reset \cup {"tester"}}
    <3>1. (sent + 1) * MessageSize = sent * MessageSize + MessageSize
      BY <1>0, <1>t
    <3>2. reads' + unread' <= sent' * MessageSize
      BY <2>0, <2>2, <3>1, <1>t, <1>0 DEF AckInv
    <3>3. sent' \in 0 .. NumMessages /\ confirmed' + 1 = sent' /\ unread' \in Nat
      BY <2>0, <2>2, <1>t, <1>0 DEF AckInv
    <3> QED
      BY <2>0, <2>2, <3>2, <3>3 DEF AckInv
  <2> QED
    BY <1>1, <2>1, <2>2 DEF SendMessage
<1>2. CASE TakeAnswer
  <2>0. UNCHANGED << sent, unread, reads, peer, reset >> /\ tester = "wait" /\ acks > 0
    BY <1>2 DEF TakeAnswer
  <2>1. PICK n \in 0 .. acks, cut \in 0 .. 1 :
          /\ CanLeave(n, cut) /\ acks' = n /\ torn' = cut
          /\ \/ torn = 0 /\ tester' = "send" /\ confirmed' = sent
             \/ tester' = "closed" /\ confirmed' = confirmed
    BY <1>2 DEF TakeAnswer
  <2>2. n \in Nat /\ cut \in Nat /\ cut <= n /\ n < acks + cut
    BY <2>0, <2>1, <1>t DEF CanLeave
  <2>3. n <= reads /\ (peer = "ack" => n < reads)
    BY <2>2, <2>1, <1>t DEF AckInv
  <2>4. ToCome' = (n - cut) + Writing
    BY <2>0, <2>1 DEF ToCome, Writing
  <2>5. CASE torn = 0 /\ tester' = "send" /\ confirmed' = sent
    <3>1. sent + ((n - cut) + Writing) <= reads
      BY <2>2, <2>5, <1>t, <1>u DEF AckInv
    <3> QED
      BY <2>0, <2>1, <2>2, <2>3, <2>4, <2>5, <3>1 DEF AckInv
  <2>6. CASE tester' = "closed" /\ confirmed' = confirmed
    <3>1. confirmed + ((n - cut) + Writing) <= reads
      <4>1. n - cut <= acks - torn
        BY <2>1, <2>2, <2>6, <1>t
      <4> QED
        BY <4>1, <2>2, <1>t, <1>u
    <3> QED
      BY <2>0, <2>1, <2>2, <2>3, <2>4, <2>6, <3>1 DEF AckInv
  <2> QED
    BY <2>1, <2>5, <2>6
<1>3. CASE AnswerFails
  BY <1>3 DEF AnswerFails, AckInv, ToCome, Writing
<1>4. CASE PeerReads
  <2>0. UNCHANGED << tester, sent, confirmed, acks, torn, reset >> /\ peer = "read"
    BY <1>4 DEF PeerReads
  <2>1. CASE \E n \in Part(ReadSize, unread) :
               unread' = unread - n /\ reads' = reads + 1 /\ peer' = "ack"
    <3>1. PICK n \in Part(ReadSize, unread) :
            unread' = unread - n /\ reads' = reads + 1 /\ peer' = "ack"
      BY <2>1
    <3>2. n \in 1 .. unread
      BY <3>1, <1>0, <1>t, PartSize
    <3>3. unread' \in Nat /\ reads' \in Nat
      BY <3>1, <3>2, <1>t
    <3>4. acks' < reads' /\ confirmed' + ToCome' <= reads'
      BY <2>0, <3>1, <1>t DEF AckInv, ToCome, Writing
    <3>5. (reads + 1) + (unread - n) <= sent * MessageSize
      BY <3>2, <1>m, <1>t DEF AckInv
    <3> QED
      BY <2>0, <3>1, <3>3, <3>4, <3>5, <1>t DEF AckInv
  <2>2. CASE peer' = "closed" /\ UNCHANGED << unread, reads >>
    BY <2>0, <2>2 DEF AckInv, ToCome, Writing
  <2> QED
    BY <1>4, <2>1, <2>2 DEF PeerReads
<1>5. CASE Acknowledge
  <2>1. /\ peer = "ack" /\ UNCHANGED << tester, sent, confirmed, unread, reads, torn >>
        /\ peer' \in {"read", "closed", "killed"} /\ acks' \in {acks, acks + 1}
        /\ reset' \in {reset, reset \cup {"peer"}}
    BY <1>5 DEF Acknowledge
  <2>2. acks' \in Nat /\ acks' <= reads /\ torn' <= acks'
    BY <2>1, <1>t DEF AckInv
  <2>3. confirmed' + ToCome' <= reads'
    <3>1. confirmed + ((acks - torn) + 1) <= reads
      BY <2>1, <1>t, <1>u DEF Writing
    <3>2. ToCome' \in {acks - torn, (acks - torn) + 1}
      <4>1. CASE acks' = acks
        BY <2>1, <4>1, <1>t DEF ToCome, Writing
      <4>2. CASE acks' = acks + 1
        BY <2>1, <4>2, <1>t DEF ToCome, Writing
      <4> QED
        BY <2>1, <4>1, <4>2
    <3>3. CASE ToCome' = acks - torn
      BY <2>1, <3>1, <3>3, <1>t
    <3>4. CASE ToCome' = (acks - torn) + 1
      BY <2>1, <3>1, <3>4, <1>t
    <3> QED
      BY <3>2, <3>3, <3>4
  <2> QED
    BY <2>1, <2>2, <2>3 DEF AckInv
<1>6. CASE Interrupt
  <2>1. /\ UNCHANGED << sent, confirmed, unread, reads, acks, torn, reset >>
        /\ tester' \in {tester, "killed"} /\ peer' \in {peer, "killed"}
    BY <1>6 DEF Interrupt
  <2>2. confirmed' + ToCome' <= reads'
    BY <2>1, <1>t DEF AckInv, ToCome, Writing
  <2> QED
    BY <2>1, <2>2 DEF AckInv
<1>7. CASE UNCHANGED ack_vars
  BY <1>7 DEF ack_vars, AckInv, ToCome, Writing
<1> QED
  BY <1>1, <1>2, <1>3, <1>4, <1>5, <1>6, <1>7 DEF AckNext, AckFinished, TakeAck

LEMMA AckStart == AckInit => AckInv
  BY ExchangeConstants DEF ExchangeConstants, AckInit, AckInv, ToCome, Writing

\* Every variable of the measurement keeps its type, whatever the sizes of
\* messages and reads and wherever an acknowledgement is cut.
THEOREM AckTypeCorrect == AckSpec => []AckTypeOK
  BY AckStart, AckStep, AckInvSays, PTL DEF AckSpec

\* No acknowledgement is made up, whatever the sizes of messages and reads:
\* send_single_message returns without an error at most as often as
\* handle_p2p_connection has read some of what was sent to it.
THEOREM AckCorrect == AckSpec => []NoneMadeUp
  BY AckStart, AckStep, AckInvSays, PTL DEF AckSpec
=============================================================================
