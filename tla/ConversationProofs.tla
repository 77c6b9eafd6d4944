------------------------- MODULE ConversationProofs -------------------------
(***************************************************************************)
(* Proofs about Conversation, for every number of talks, both menus, and   *)
(* with or without failures.                                               *)
(***************************************************************************)
EXTENDS Conversation, FiniteSetTheorems, WellFoundedInduction, TLAPS

\* A descriptor belongs to a talk that is under way and knows it: a number that
\* a late close() takes away is never given to two talks at once.
Descriptors ==
  \A n \in Numbers : open[n] # NoTalk =>
    number[open[n]] = n /\ owner[open[n]] \notin {"none", "over"}

\* How far the owner has come tells which of the other two threads exist and
\* whether chat_info is allocated; a thread that has ended has freed it.
Threads ==
  \A t \in Talks :
    /\ owner[t] \in {"none", "request", "question", "reply", "start"} =>
         sender[t] = "none" /\ receiver[t] = "none" /\ chat[t] = "none"
    /\ owner[t] \in {"request", "question"} => t \in Incoming
    /\ owner[t] = "send_thread" => sender[t] = "none" /\ receiver[t] = "none"
    /\ owner[t] = "receive_thread" => sender[t] # "none" /\ receiver[t] = "none"
    /\ owner[t] = "join" => sender[t] # "none" /\ receiver[t] # "none"
    /\ owner[t] = "close" => sender[t] = "ended"
    /\ owner[t] = "over" => chat[t] # "live"
    /\ sender[t] = "ended" \/ receiver[t] = "ended" => chat[t] = "freed"

\* Who holds standard input still wants the line.
Held ==
  \A t \in Talks :
    /\ stdin = Question(t) => owner[t] = "question"
    /\ stdin = Sender(t) => sender[t] = "prompt"

TalkInv == TalkTypeOK /\ Descriptors /\ Threads /\ Held

\* A nonempty set of numbers has a least one.
LEMMA LeastNumber ==
  ASSUME NEW I \in SUBSET Nat, I # {}
  PROVE  \E m \in I : \A j \in I : m <= j
<1>1. PICK m \in I : \A j \in I : << j, m >> \notin OpToRel(<, Nat)
  BY NatLessThanWellFounded, WFMin
<1>2. \A j \in I : ~ (j < m)
  BY <1>1, Zenon DEF OpToRel
<1>3. \A j \in I : m <= j
  BY <1>2
<1> QED
  BY <1>3

\* While a talk has not begun a descriptor is free: as many as there are talks,
\* each of the others holding at most one.
LEMMA FreeNumber ==
  ASSUME TalkInv, NEW t \in Talks, owner[t] = "none"
  PROVE  LowestFree \in Numbers /\ open[LowestFree] = NoTalk
<1> DEFINE F == {n \in Numbers : open[n] = NoTalk}
<1>0. /\ Cardinality(Talks) \in Nat /\ IsFiniteSet(Talks) /\ NoTalk \notin Talks
      /\ open \in [Numbers -> Talks \cup {NoTalk}] /\ Numbers \in SUBSET Nat
  BY TalkConstants, FS_CardinalityType DEF TalkConstants, TalkInv, TalkTypeOK, Numbers
<1>1. F # {}
  <2> SUFFICES ASSUME F = {} PROVE FALSE
    OBVIOUS
  <2>1. \A n \in Numbers : open[n] \in Talks \ {t} /\ number[open[n]] = n
    BY <1>0 DEF TalkInv, Descriptors
  <2>2. open \in [Numbers -> Talks \ {t}] /\ IsInjective(open)
    BY <1>0, <2>1 DEF IsInjective
  <2>3. open \in Injection(Numbers, Talks \ {t})
    BY <2>2 DEF Injection
  <2>4. IsFiniteSet(Talks \ {t}) /\ Cardinality(Talks \ {t}) = Cardinality(Talks) - 1
    BY <1>0, FS_RemoveElement
  <2>5. Cardinality(Numbers) <= Cardinality(Talks \ {t})
    BY <2>3, <2>4, FS_Injection
  <2>6. Cardinality(Numbers) = Cardinality(Talks)
    BY <1>0, FS_Interval DEF Numbers
  <2> QED
    BY <1>0, <2>4, <2>5, <2>6
<1>2. PICK m \in F : \A j \in F : m <= j
  BY <1>0, <1>1, LeastNumber
<1>3. \E n \in Numbers : open[n] = NoTalk /\ \A j \in Numbers : open[j] = NoTalk => n <= j
  BY <1>2
<1> QED
  BY <1>3 DEF LowestFree

\* What chat->sock may hold is a descriptor number or none.
LEMMA SockOfNumber ==
  ASSUME TalkTypeOK, NEW t \in Talks, NEW n \in SockOf(t)
  PROVE  n \in Numbers \cup {BadNumber} /\ At(n) \in Talks \cup {NoTalk}
<1>1. n \in Numbers \cup {BadNumber}
  BY DEF SockOf, TalkTypeOK
<1> QED
  BY <1>1 DEF At, TalkTypeOK

\* However the owner gives a talk up, it gives up its descriptor; chat_info must
\* not be allocated any more, nor standard input held for its question.
LEMMA GivesUp ==
  ASSUME TalkInv, NEW t \in Talks, GiveUp(t), owner[t] # "question", owner[t] # "none",
         UNCHANGED << sender, receiver, stdin, number, blocked, far, mail >>,
         process' \in {"up", "exited", "killed", "aborted"}, prompted' \in Prompts,
         in_chat' \in BOOLEAN, cleared' \in Talks \cup {NoTalk},
         \/ chat' = [chat EXCEPT ![t] = "freed"] /\ owner[t] \in {"send_thread", "receive_thread"}
         \/ chat' = chat /\ chat[t] # "live"
  PROVE  TalkInv'
<1>1. /\ owner' = [owner EXCEPT ![t] = "over"]
      /\ open' = [m \in Numbers |-> IF m = number[t] THEN NoTalk ELSE open[m]]
      /\ main' \in {"top", main}
  BY DEF GiveUp, OwnerGoes, CloseNumber
<1>2. TalkTypeOK'
  BY <1>1 DEF TalkInv, TalkTypeOK
<1>3. Descriptors'
  BY <1>1 DEF TalkInv, TalkTypeOK, Descriptors
<1>4. Threads'
  BY <1>1 DEF TalkInv, TalkTypeOK, Threads
<1>5. Held'
  BY <1>1 DEF TalkInv, TalkTypeOK, Held, Question, Sender
<1> QED
  BY <1>2, <1>3, <1>4, <1>5 DEF TalkInv

\* Every step of an owner, a chat thread, the peer or the user keeps the invariant.
LEMMA TalkStep == TalkInv /\ [TalkNext]_talk_vars => TalkInv'
<1> SUFFICES ASSUME TalkInv, [TalkNext]_talk_vars PROVE TalkInv'
  OBVIOUS
<1>1. ASSUME SeeMenu PROVE TalkInv'
  BY <1>1 DEF SeeMenu, TalkInv, TalkTypeOK, Descriptors, Threads, Held, Menu, Nobody, Question, Sender, OwnerGoes, SenderGoes, ReceiverGoes, Prompts
<1>2. ASSUME NEW line, MenuTakes(line) PROVE TalkInv'
  <2>0. /\ UNCHANGED << sender, receiver, in_chat, cleared, chat, blocked, mail >> /\ stdin' = Nobody
    BY <1>2 DEF MenuTakes
  <2>1. CASE /\ UNCHANGED << owner, number, open, far >> /\ process' \in {process, "exited"}
             /\ main' \in {main, "ip", "port", "top"} /\ prompted' \in {prompted, Menu}
    <3>1. TalkTypeOK'
      BY <2>0, <2>1 DEF TalkInv, TalkTypeOK, Prompts
    <3> QED
      BY <2>0, <2>1, <3>1 DEF TalkInv, Descriptors, Threads, Held, Nobody, Question, Sender
  <2>2. CASE Dial /\ UNCHANGED << process, prompted >>
    <3>1. PICK t \in Outgoing :
            /\ owner[t] = "none" /\ main' = "busy"
            /\ owner' = [owner EXCEPT ![t] = "reply"]
            /\ number' = [number EXCEPT ![t] = LowestFree]
            /\ open' = [open EXCEPT ![LowestFree] = t]
            /\ far' = [far EXCEPT ![t] = "open"]
      BY <2>2 DEF Dial, OwnerGoes
    <3>2. t \in Talks
      BY TalkConstants DEF TalkConstants
    <3>3. LowestFree \in Numbers /\ open[LowestFree] = NoTalk
      BY <3>1, <3>2, FreeNumber
    <3>4. TalkTypeOK'
      BY <2>0, <2>2, <3>1, <3>2, <3>3 DEF TalkInv, TalkTypeOK, Threads
    <3>5. Descriptors'
      BY <3>1, <3>2, <3>3 DEF TalkInv, TalkTypeOK, Descriptors
    <3>6. Threads' /\ Held'
      BY <2>0, <3>1, <3>2 DEF TalkInv, TalkTypeOK, Threads, Held, Nobody, Question, Sender
    <3> QED
      BY <3>4, <3>5, <3>6 DEF TalkInv
  <2> QED
    BY <1>2, <2>1, <2>2 DEF MenuTakes
<1>3. ASSUME NEW t \in Incoming, NEW line, QuestionTakes(t, line) PROVE TalkInv'
  <2>1. TalkTypeOK'
    BY <1>3 DEF TalkInv, QuestionTakes, Answer, TalkTypeOK, Threads, Question, Sender, OwnerGoes, SenderGoes, ReceiverGoes, Write, GiveUp, CloseNumber, Incoming
  <2>2. Descriptors'
    BY <1>3 DEF TalkInv, QuestionTakes, Answer, TalkTypeOK, Descriptors, Question, Sender, OwnerGoes, SenderGoes, ReceiverGoes, Write, GiveUp, CloseNumber, Incoming
  <2>3. Threads'
    BY <1>3 DEF TalkInv, QuestionTakes, Answer, TalkTypeOK, Threads, Held, Question, Sender, OwnerGoes, SenderGoes, ReceiverGoes, Write, GiveUp, CloseNumber, Incoming
  <2>4. Held'
    BY <1>3 DEF TalkInv, QuestionTakes, Answer, TalkTypeOK, Held, Menu, Nobody, Question, Sender, OwnerGoes, SenderGoes, ReceiverGoes, Write, GiveUp, CloseNumber, Incoming
  <2> QED
    BY <2>1, <2>2, <2>3, <2>4 DEF TalkInv
<1>4. ASSUME NEW t \in Talks, NEW line, SenderTakes(t, line) PROVE TalkInv'
  <2>1. TalkTypeOK'
    BY <1>4 DEF TalkInv, SenderTakes, TalkTypeOK, Threads, Question, Sender, OwnerGoes, SenderGoes, ReceiverGoes
  <2>2. Descriptors'
    BY <1>4 DEF TalkInv, SenderTakes, TalkTypeOK, Descriptors, Question, Sender, OwnerGoes, SenderGoes, ReceiverGoes
  <2>3. Threads'
    BY <1>4 DEF TalkInv, SenderTakes, TalkTypeOK, Threads, Held, Question, Sender, OwnerGoes, SenderGoes, ReceiverGoes
  <2>4. Held'
    BY <1>4 DEF TalkInv, SenderTakes, TalkTypeOK, Held, Menu, Nobody, Question, Sender, OwnerGoes, SenderGoes, ReceiverGoes
  <2> QED
    BY <2>1, <2>2, <2>3, <2>4 DEF TalkInv
<1>5. ASSUME NEW x \in Prompts, Acquire(x) PROVE TalkInv'
  <2>1. /\ stdin' = x /\ Waits(x)
        /\ UNCHANGED << process, main, owner, sender, receiver, prompted, in_chat, cleared, chat,
                        number, open, blocked, far, mail >>
    BY <1>5 DEF Acquire
  <2>2. \A t \in Talks : (x = Question(t) => owner[t] = "question")
                         /\ (x = Sender(t) => sender[t] = "prompt")
    BY <2>1 DEF Waits, Menu, Question, Sender
  <2>3. TalkTypeOK'
    BY <2>1 DEF TalkInv, TalkTypeOK
  <2> QED
    BY <2>1, <2>2, <2>3 DEF TalkInv, Descriptors, Threads, Held, Question, Sender
<1>6. ASSUME NEW t \in Talks, Ring(t) PROVE TalkInv'
  <2>1. TalkTypeOK'
    BY <1>6, FreeNumber DEF TalkInv, Ring, TalkTypeOK, Threads, Question, Sender, OwnerGoes, SenderGoes, ReceiverGoes
  <2>2. Descriptors'
    BY <1>6, FreeNumber DEF TalkInv, Ring, TalkTypeOK, Descriptors, Question, Sender, OwnerGoes, SenderGoes, ReceiverGoes
  <2>3. Threads'
    BY <1>6, FreeNumber DEF TalkInv, Ring, TalkTypeOK, Threads, Held, Question, Sender, OwnerGoes, SenderGoes, ReceiverGoes
  <2>4. Held'
    BY <1>6, FreeNumber DEF TalkInv, Ring, TalkTypeOK, Held, Menu, Nobody, Question, Sender, OwnerGoes, SenderGoes, ReceiverGoes
  <2> QED
    BY <2>1, <2>2, <2>3, <2>4 DEF TalkInv
<1>7. ASSUME NEW t \in Talks, TakeRequest(t) PROVE TalkInv'
  <2>0. /\ UNCHANGED << process, sender, receiver, stdin, in_chat, cleared, chat, number, blocked, far, mail >>
        /\ owner[t] = "request"
    BY <1>7 DEF TakeRequest
  <2>1. CASE /\ owner' = [owner EXCEPT ![t] = "question"] /\ prompted' = Question(t)
             /\ UNCHANGED << open, main >>
    <3>1. Question(t) \in Prompts
      BY <2>0 DEF TalkInv, Threads, Prompts
    <3>2. TalkTypeOK'
      BY <2>0, <2>1, <3>1 DEF TalkInv, TalkTypeOK
    <3>3. Descriptors' /\ Threads' /\ Held'
      BY <2>0, <2>1 DEF TalkInv, TalkTypeOK, Descriptors, Threads, Held, Question, Sender
    <3> QED
      BY <3>2, <3>3 DEF TalkInv
  <2>2. CASE GiveUp(t) /\ prompted' = prompted
    <3>1. chat[t] # "live" /\ in_chat \in BOOLEAN /\ cleared \in Talks \cup {NoTalk} /\ prompted \in Prompts
          /\ process \in {"up", "exited", "killed", "aborted"}
      BY <2>0 DEF TalkInv, TalkTypeOK, Threads
    <3> QED
      BY <2>0, <2>2, <3>1, GivesUp
  <2> QED
    BY <1>7, <2>1, <2>2 DEF TakeRequest, OwnerGoes
<1>8. ASSUME NEW t \in Talks, StartChat(t) PROVE TalkInv'
  <2>0. /\ UNCHANGED << process, sender, receiver, stdin, prompted, number, blocked, far, mail >>
        /\ owner[t] = "start" /\ owner \in [Talks -> {"none", "request", "question", "reply", "start",
                          "send_thread", "receive_thread", "join", "close", "over"}]
    BY <1>8 DEF StartChat, TalkInv, TalkTypeOK
  <2>1. CASE /\ SetFlag /\ UNCHANGED << open, main >>
             /\ chat' = [chat EXCEPT ![t] = "live"]
             /\ owner' = [owner EXCEPT ![t] = "send_thread"]
    <3>1. TalkTypeOK'
      BY <2>0, <2>1 DEF TalkInv, TalkTypeOK, SetFlag
    <3>2. Descriptors' /\ Threads' /\ Held'
      BY <2>0, <2>1 DEF TalkInv, TalkTypeOK, Descriptors, Threads, Held, Question, Sender
    <3> QED
      BY <3>1, <3>2 DEF TalkInv
  <2>2. CASE ClearFlag(t) /\ GiveUp(t) /\ chat' = chat
    <3>1. chat[t] # "live" /\ prompted \in Prompts
          /\ process \in {"up", "exited", "killed", "aborted"}
      BY <2>0 DEF TalkInv, TalkTypeOK, Threads
    <3> QED
      BY <2>0, <2>2, <3>1, GivesUp DEF ClearFlag
  <2> QED
    BY <1>8, <2>1, <2>2 DEF StartChat, OwnerGoes
<1>9. ASSUME NEW t \in Talks, TakeReply(t) PROVE TalkInv'
  <2>1. TalkTypeOK'
    BY <1>9 DEF TalkInv, TakeReply, TalkTypeOK, Threads, Question, Sender, OwnerGoes, SenderGoes, ReceiverGoes, GiveUp, CloseNumber
  <2>2. Descriptors'
    BY <1>9 DEF TalkInv, TakeReply, TalkTypeOK, Descriptors, Question, Sender, OwnerGoes, SenderGoes, ReceiverGoes, GiveUp, CloseNumber
  <2>3. Threads'
    BY <1>9 DEF TalkInv, TakeReply, TalkTypeOK, Threads, Held, Question, Sender, OwnerGoes, SenderGoes, ReceiverGoes, GiveUp, CloseNumber
  <2>4. Held'
    BY <1>9 DEF TalkInv, TakeReply, TalkTypeOK, Held, Menu, Nobody, Question, Sender, OwnerGoes, SenderGoes, ReceiverGoes, GiveUp, CloseNumber
  <2> QED
    BY <2>1, <2>2, <2>3, <2>4 DEF TalkInv
<1>10. ASSUME NEW t \in Talks, CloseUp(t) PROVE TalkInv'
  <2>1. TalkTypeOK'
    BY <1>10 DEF TalkInv, CloseUp, SetFlag, ClearFlag, TalkTypeOK, Threads, Question, Sender, OwnerGoes, SenderGoes, ReceiverGoes, GiveUp, CloseNumber
  <2>2. Descriptors'
    BY <1>10 DEF TalkInv, CloseUp, SetFlag, ClearFlag, TalkTypeOK, Descriptors, Question, Sender, OwnerGoes, SenderGoes, ReceiverGoes, GiveUp, CloseNumber
  <2>3. Threads'
    BY <1>10 DEF TalkInv, CloseUp, SetFlag, ClearFlag, TalkTypeOK, Threads, Held, Question, Sender, OwnerGoes, SenderGoes, ReceiverGoes, GiveUp, CloseNumber
  <2>4. Held'
    BY <1>10 DEF TalkInv, CloseUp, SetFlag, ClearFlag, TalkTypeOK, Held, Menu, Nobody, Question, Sender, OwnerGoes, SenderGoes, ReceiverGoes, GiveUp, CloseNumber
  <2> QED
    BY <2>1, <2>2, <2>3, <2>4 DEF TalkInv
<1>11. ASSUME NEW t \in Talks, StartThread(t) PROVE TalkInv'
  <2>0. UNCHANGED << stdin, prompted, number, blocked, far, mail >>
    BY <1>11 DEF StartThread, SetFlag, ClearFlag
  <2>1. CASE /\ owner[t] = "send_thread" /\ owner' = [owner EXCEPT ![t] = "receive_thread"]
             /\ sender' = [sender EXCEPT ![t] = "loop"]
             /\ UNCHANGED << receiver, chat, process, open, main, in_chat, cleared >>
    <3>1. TalkTypeOK'
      BY <2>0, <2>1 DEF TalkInv, TalkTypeOK
    <3>2. Descriptors' /\ Threads' /\ Held'
      BY <2>0, <2>1 DEF TalkInv, TalkTypeOK, Descriptors, Threads, Held, Question, Sender
    <3> QED
      BY <3>1, <3>2 DEF TalkInv
  <2>2. CASE /\ owner[t] = "receive_thread" /\ owner' = [owner EXCEPT ![t] = "join"]
             /\ receiver' = [receiver EXCEPT ![t] = "read"]
             /\ UNCHANGED << sender, chat, process, open, main, in_chat, cleared >>
    <3>1. sender[t] # "none"
      BY <2>2 DEF TalkInv, Threads
    <3>2. TalkTypeOK'
      BY <2>0, <2>2, <3>1 DEF TalkInv, TalkTypeOK
    <3>3. Descriptors' /\ Threads' /\ Held'
      BY <2>0, <2>2, <3>1 DEF TalkInv, TalkTypeOK, Descriptors, Threads, Held, Question, Sender
    <3> QED
      BY <3>2, <3>3 DEF TalkInv
  <2>3. CASE /\ owner[t] \in {"send_thread", "receive_thread"} /\ GiveUp(t) /\ Free(t)
             /\ ClearFlag(t) /\ UNCHANGED << sender, receiver >>
    <3>1. chat' = [chat EXCEPT ![t] = "freed"] /\ process' \in {"up", "aborted"}
      BY <2>3 DEF Free
    <3> QED
      BY <2>0, <2>3, <3>1, GivesUp DEF TalkInv, TalkTypeOK, ClearFlag
  <2> QED
    BY <1>11, <2>1, <2>2, <2>3 DEF StartThread, OwnerGoes, SenderGoes, ReceiverGoes
<1>12. ASSUME NEW t \in Talks, Join(t) PROVE TalkInv'
  BY <1>12 DEF Join, TalkInv, TalkTypeOK, Descriptors, Threads, Held, Menu, Nobody, Question, Sender, OwnerGoes, SenderGoes, ReceiverGoes
<1>13. ASSUME NEW t \in Talks, Prompt(t) PROVE TalkInv'
  BY <1>13 DEF Prompt, TalkInv, TalkTypeOK, Descriptors, Threads, Held, Menu, Nobody, Question, Sender, OwnerGoes, SenderGoes, ReceiverGoes, Prompts
<1>14. ASSUME NEW t \in Talks, SendMessage(t) PROVE TalkInv'
  BY <1>14, SockOfNumber DEF SendMessage, TalkInv, TalkTypeOK, Descriptors, Threads, Held, Menu, Nobody, Question, Sender, OwnerGoes, SenderGoes, ReceiverGoes, Write
<1>15. ASSUME NEW t \in Talks, SenderCloses(t) PROVE TalkInv'
  BY <1>15 DEF SenderCloses, TalkInv, TalkTypeOK, Descriptors, Threads, Held, Menu, Nobody, Question, Sender, OwnerGoes, SenderGoes, ReceiverGoes, CloseNumber
<1>16. ASSUME NEW t \in Talks, SenderEnds(t) PROVE TalkInv'
  <2>1. TalkTypeOK'
    BY <1>16 DEF TalkInv, SenderEnds, SetFlag, ClearFlag, TalkTypeOK, Threads, Question, Sender, OwnerGoes, SenderGoes, ReceiverGoes, Free
  <2>2. Descriptors'
    BY <1>16 DEF TalkInv, SenderEnds, SetFlag, ClearFlag, TalkTypeOK, Descriptors, Question, Sender, OwnerGoes, SenderGoes, ReceiverGoes, Free
  <2>3. Threads'
    BY <1>16 DEF TalkInv, SenderEnds, SetFlag, ClearFlag, TalkTypeOK, Threads, Held, Question, Sender, OwnerGoes, SenderGoes, ReceiverGoes, Free
  <2>4. Held'
    BY <1>16 DEF TalkInv, SenderEnds, SetFlag, ClearFlag, TalkTypeOK, Held, Menu, Nobody, Question, Sender, OwnerGoes, SenderGoes, ReceiverGoes, Free
  <2> QED
    BY <2>1, <2>2, <2>3, <2>4 DEF TalkInv
<1>17. ASSUME NEW t \in Talks, CallRead(t) PROVE TalkInv'
  BY <1>17, SockOfNumber DEF CallRead, TalkInv, TalkTypeOK, Descriptors, Threads, Held, Menu, Nobody, Question, Sender, OwnerGoes, SenderGoes, ReceiverGoes
<1>18. ASSUME NEW t \in Talks, Receive(t) PROVE TalkInv'
  <2>1. /\ UNCHANGED << process, main, owner, sender, stdin, prompted, in_chat, cleared, chat, number,
                        open, far >>
        /\ receiver[t] = "blocked" /\ blocked' = [blocked EXCEPT ![t] = NoTalk]
        /\ mail' = mail \/ mail' = [mail EXCEPT ![blocked[t]] = FALSE]
        /\ receiver' = [receiver EXCEPT ![t] = "read"] \/ receiver' = [receiver EXCEPT ![t] = "close"]
    BY <1>18 DEF Receive, ReceiverGoes
  <2>2. receiver' \in [Talks -> {"none", "read", "blocked", "close", "free", "ended"}]
    BY <2>1 DEF TalkInv, TalkTypeOK
  <2>3. mail' \in [Talks -> BOOLEAN] /\ blocked' \in [Talks -> Talks \cup {NoTalk}]
    BY <2>1 DEF TalkInv, TalkTypeOK
  <2>4. \A u \in Talks : \/ receiver'[u] = receiver[u]
                         \/ receiver[u] = "blocked" /\ receiver'[u] \in {"read", "close"}
    <3>1. \E l \in {"read", "close"} : receiver' = [receiver EXCEPT ![t] = l]
      BY <2>1
    <3>2. /\ receiver[t] = "blocked"
          /\ receiver \in [Talks -> {"none", "read", "blocked", "close", "free", "ended"}]
      BY <2>1 DEF TalkInv, TalkTypeOK
    <3> QED
      BY <3>1, <3>2
  <2>5. TalkTypeOK'
    BY <2>1, <2>2, <2>3, <2>4 DEF TalkInv, TalkTypeOK
  <2>6. Descriptors' /\ Threads' /\ Held'
    BY <2>1, <2>4 DEF TalkInv, Descriptors, Threads, Held, Question, Sender
  <2> QED
    BY <2>5, <2>6 DEF TalkInv
<1>19. ASSUME NEW t \in Talks, ReceiverCloses(t) PROVE TalkInv'
  BY <1>19 DEF ReceiverCloses, TalkInv, TalkTypeOK, Descriptors, Threads, Held, Menu, Nobody, Question, Sender, OwnerGoes, SenderGoes, ReceiverGoes, CloseNumber
<1>20. ASSUME NEW t \in Talks, ReceiverEnds(t) PROVE TalkInv'
  <2>1. TalkTypeOK'
    BY <1>20 DEF TalkInv, ReceiverEnds, SetFlag, ClearFlag, TalkTypeOK, Threads, Question, Sender, OwnerGoes, SenderGoes, ReceiverGoes, Free
  <2>2. Descriptors'
    BY <1>20 DEF TalkInv, ReceiverEnds, SetFlag, ClearFlag, TalkTypeOK, Descriptors, Question, Sender, OwnerGoes, SenderGoes, ReceiverGoes, Free
  <2>3. Threads'
    BY <1>20 DEF TalkInv, ReceiverEnds, SetFlag, ClearFlag, TalkTypeOK, Threads, Held, Question, Sender, OwnerGoes, SenderGoes, ReceiverGoes, Free
  <2>4. Held'
    BY <1>20 DEF TalkInv, ReceiverEnds, SetFlag, ClearFlag, TalkTypeOK, Held, Menu, Nobody, Question, Sender, OwnerGoes, SenderGoes, ReceiverGoes, Free
  <2> QED
    BY <2>1, <2>2, <2>3, <2>4 DEF TalkInv
<1>21. ASSUME NEW t \in Talks, FarSends(t) PROVE TalkInv'
  BY <1>21 DEF FarSends, TalkInv, TalkTypeOK, Descriptors, Threads, Held, Menu, Nobody, Question, Sender, OwnerGoes, SenderGoes, ReceiverGoes
<1>22. ASSUME NEW t \in Talks, FarCloses(t) PROVE TalkInv'
  BY <1>22 DEF FarCloses, TalkInv, TalkTypeOK, Descriptors, Threads, Held, Menu, Nobody, Question, Sender, OwnerGoes, SenderGoes, ReceiverGoes
<1>23. ASSUME UNCHANGED talk_vars PROVE TalkInv'
  BY <1>23 DEF talk_vars, TalkInv, TalkTypeOK, Descriptors, Threads, Held, Menu, Nobody, Question, Sender, OwnerGoes, SenderGoes, ReceiverGoes
<1>0. Incoming \subseteq Talks
  BY DEF Incoming
<1> QED
  BY <1>0, <1>1, <1>2, <1>3, <1>4, <1>5, <1>6, <1>7, <1>8, <1>9, <1>10, <1>11, <1>12, <1>13, <1>14, <1>15, <1>16, <1>17, <1>18, <1>19, <1>20, <1>21, <1>22, <1>23
  DEF TalkNext, TalkFinished, TypeLine, OwnerActs, SenderActs, ReceiverActs, FarActs

\* At the start no talk has begun and every descriptor is free.
LEMMA TalkStart == TalkInit => TalkInv
<1>1. \A t \in Talks : Menu # Question(t) /\ Nobody # Question(t) /\ Nobody # Sender(t)
  BY DEF Menu, Nobody, Question, Sender
<1>2. TalkInit => TalkTypeOK
  <2>1. Menu \in Prompts
    BY DEF Prompts
  <2> SUFFICES ASSUME TalkInit PROVE TalkTypeOK
    OBVIOUS
  <2>2. /\ process = "up" /\ main = "top" /\ stdin = Nobody /\ prompted = Menu /\ in_chat = FALSE /\ cleared = NoTalk
    BY DEF TalkInit
  <2>3. /\ owner = [t \in Talks |-> "none"] /\ sender = [t \in Talks |-> "none"]
        /\ receiver = [t \in Talks |-> "none"] /\ chat = [t \in Talks |-> "none"]
    BY DEF TalkInit
  <2>4. /\ number \in [Talks -> Numbers \cup {BadNumber}]
        /\ open \in [Numbers -> Talks \cup {NoTalk}]
        /\ blocked \in [Talks -> Talks \cup {NoTalk}]
        /\ far \in [Talks -> {"idle", "open", "closed", "reset"}]
        /\ mail \in [Talks -> BOOLEAN]
    BY DEF TalkInit
  <2> QED
    BY <2>1, <2>2, <2>3, <2>4 DEF TalkTypeOK
<1>3. TalkInit => Descriptors /\ Threads
  BY DEF TalkInit, Descriptors, Threads
<1>4. TalkInit => Held
  BY <1>1 DEF TalkInit, Held
<1> QED
  BY <1>2, <1>3, <1>4 DEF TalkInv

\* Every variable keeps its type, whichever talks overlap: in particular a
\* descriptor is free whenever a talk begins, and an owner joins only threads
\* that exist.
THEOREM TalkCorrect == TalkSpec => []TalkTypeOK
<1>1. TalkInv => TalkTypeOK
  BY DEF TalkInv
<1> QED
  BY <1>1, TalkStart, TalkStep, PTL DEF TalkSpec

\* No way out of any talk, next to whatever other talks, leaves its connection
\* open or its chat_info allocated.
THEOREM TalksLeaveNothing == TalkSpec => []NothingLeaks
<1>1. TalkInv => NothingLeaks
  <2> SUFFICES ASSUME TalkInv, NEW t \in Talks, owner[t] = "over"
               PROVE  chat[t] # "live" /\ t \notin Range(open)
    BY DEF NothingLeaks, Over
  <2>1. chat[t] # "live"
    BY DEF TalkInv, Threads
  <2>2. \A n \in Numbers : open[n] # t
    BY TalkConstants DEF TalkInv, Descriptors, TalkConstants
  <2>3. t \notin Range(open)
    BY <2>2 DEF TalkInv, TalkTypeOK, Range
  <2> QED
    BY <2>1, <2>3
<1> QED
  BY <1>1, TalkStart, TalkStep, PTL DEF TalkSpec

-----------------------------------------------------------------------------
(* The flag in_chat, which all talks share.                                *)

\* Set by its owner before the threads are started, the flag of a talk is found
\* reset before one of the places of its own that reset it only if it was
\* another talk that did so.
FlagInv ==
  \A t \in Talks :
    owner[t] \in {"send_thread", "receive_thread", "join"}
      /\ sender[t] \in {"none", "loop", "prompt", "write"}
      /\ receiver[t] \in {"none", "read", "blocked"}
      => in_chat \/ cleared \in Talks \ {t}

\* Every step of any talk keeps what is said of the flag.
LEMMA FlagStep == ASSUME TalkInv, FlagInv, [TalkNext]_talk_vars PROVE FlagInv'
<1>0. Incoming \subseteq Talks /\ NoTalk \notin Talks
  BY TalkConstants DEF TalkConstants, Incoming
<1> USE DEF OwnerGoes, SenderGoes, ReceiverGoes, FlagInv
<1>1. ASSUME SeeMenu PROVE FlagInv'
  BY <1>1 DEF SeeMenu, TalkInv, TalkTypeOK, Threads
<1>2. ASSUME NEW line, MenuTakes(line) PROVE FlagInv'
  BY <1>2 DEF MenuTakes, TalkInv, TalkTypeOK, Threads, Dial
<1>3. ASSUME NEW t \in Incoming, NEW line, QuestionTakes(t, line) PROVE FlagInv'
  BY <1>3 DEF QuestionTakes, Answer, TalkInv, TalkTypeOK, Threads, Write, GiveUp, Incoming
<1>4. ASSUME NEW t \in Talks, NEW line, SenderTakes(t, line) PROVE FlagInv'
  BY <1>4 DEF SenderTakes, TalkInv, TalkTypeOK, Threads, Held
<1>5. ASSUME NEW x \in Prompts, Acquire(x) PROVE FlagInv'
  BY <1>5 DEF Acquire, TalkInv, TalkTypeOK, Threads
<1>6. ASSUME NEW t \in Talks, Ring(t) PROVE FlagInv'
  BY <1>6 DEF Ring, TalkInv, TalkTypeOK, Threads
<1>7. ASSUME NEW t \in Talks, TakeRequest(t) PROVE FlagInv'
  BY <1>7 DEF TakeRequest, TalkInv, TalkTypeOK, Threads, GiveUp
<1>8. ASSUME NEW t \in Talks, TakeReply(t) PROVE FlagInv'
  BY <1>8 DEF TakeReply, TalkInv, TalkTypeOK, Threads, GiveUp
<1>9. ASSUME NEW t \in Talks, StartChat(t) PROVE FlagInv'
  BY <1>9 DEF StartChat, SetFlag, ClearFlag, TalkInv, TalkTypeOK, Threads, GiveUp
<1>10. ASSUME NEW t \in Talks, CloseUp(t) PROVE FlagInv'
  BY <1>10 DEF CloseUp, SetFlag, ClearFlag, TalkInv, TalkTypeOK, Threads, GiveUp
<1>11. ASSUME NEW t \in Talks, StartThread(t) PROVE FlagInv'
  BY <1>11 DEF StartThread, SetFlag, ClearFlag, TalkInv, TalkTypeOK, Threads, GiveUp, Free
<1>12. ASSUME NEW t \in Talks, Join(t) PROVE FlagInv'
  BY <1>12 DEF Join, TalkInv, TalkTypeOK, Threads
<1>13. ASSUME NEW t \in Talks, Prompt(t) PROVE FlagInv'
  BY <1>13 DEF Prompt, TalkInv, TalkTypeOK, Threads
<1>14. ASSUME NEW t \in Talks, SendMessage(t) PROVE FlagInv'
  BY <1>14 DEF SendMessage, TalkInv, TalkTypeOK, Threads, Write
<1>15. ASSUME NEW t \in Talks, SenderCloses(t) PROVE FlagInv'
  BY <1>15 DEF SenderCloses, TalkInv, TalkTypeOK, Threads
<1>16. ASSUME NEW t \in Talks, SenderEnds(t) PROVE FlagInv'
  BY <1>16 DEF SenderEnds, SetFlag, ClearFlag, TalkInv, TalkTypeOK, Threads, Free
<1>17. ASSUME NEW t \in Talks, CallRead(t) PROVE FlagInv'
  BY <1>17 DEF CallRead, TalkInv, TalkTypeOK, Threads
<1>18. ASSUME NEW t \in Talks, Receive(t) PROVE FlagInv'
  BY <1>18 DEF Receive, TalkInv, TalkTypeOK, Threads
<1>19. ASSUME NEW t \in Talks, ReceiverCloses(t) PROVE FlagInv'
  BY <1>19 DEF ReceiverCloses, TalkInv, TalkTypeOK, Threads
<1>20. ASSUME NEW t \in Talks, ReceiverEnds(t) PROVE FlagInv'
  BY <1>20 DEF ReceiverEnds, SetFlag, ClearFlag, TalkInv, TalkTypeOK, Threads, Free
<1>21. ASSUME NEW t \in Talks, FarSends(t) PROVE FlagInv'
  BY <1>21 DEF FarSends, TalkInv, TalkTypeOK, Threads
<1>22. ASSUME NEW t \in Talks, FarCloses(t) PROVE FlagInv'
  BY <1>22 DEF FarCloses, TalkInv, TalkTypeOK, Threads
<1>23. ASSUME UNCHANGED talk_vars PROVE FlagInv'
  BY <1>23 DEF talk_vars
<1> HIDE DEF FlagInv
<1> QED
  BY <1>0, <1>1, <1>2, <1>3, <1>4, <1>5, <1>6, <1>7, <1>8, <1>9, <1>10, <1>11, <1>12, <1>13, <1>14, <1>15, <1>16, <1>17, <1>18, <1>19, <1>20, <1>21, <1>22, <1>23
  DEF TalkNext, TalkFinished, TypeLine, OwnerActs, SenderActs, ReceiverActs, FarActs

\* However many talks overlap: none of the places of a talk that reset in_chat
\* comes before one of its threads has ended, so a chat with both threads at
\* work loses the flag to another talk only.
THEOREM FlagCorrect == TalkSpec => []FlagLostToOthers
<1>1. TalkInit => TalkInv /\ FlagInv
  BY TalkStart DEF TalkInit, FlagInv
<1>2. TalkInv /\ FlagInv /\ [TalkNext]_talk_vars => TalkInv' /\ FlagInv'
  BY TalkStep, FlagStep
<1>3. FlagInv => FlagLostToOthers
  BY DEF FlagInv, FlagLostToOthers, Chatting
<1> QED
  BY <1>1, <1>2, <1>3, PTL DEF TalkSpec
=============================================================================
