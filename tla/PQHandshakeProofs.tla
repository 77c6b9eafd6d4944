------------------------- MODULE PQHandshakeProofs --------------------------
(***************************************************************************)
(* Proofs about PQHandshake, for every number of words of a length, a key  *)
(* and a vector, with or without short reads.                              *)
(***************************************************************************)
EXTENDS PQHandshake, SequenceTheorems, TLAPS

\* The steps from the chat_info to the end of a chat, and where else an owner
\* can be.
HandshakeSteps == {"chat_info", "keypair", "send_length", "send_key", "read_length",
                   "read_key", "derive", "send_iv", "send_thread", "receive_thread", "join"}
OwnerLabels == HandshakeSteps \cup {"dial", "reply", "accept", "request", "question", "over"}

\* The step after each step of a side.
Following(s) ==
  {<< "chat_info", "keypair" >>, << "send_length", "send_key" >>,
   << "read_length", "read_key" >>, << "read_key", "derive" >>,
   << "send_iv", "send_thread" >>, << "send_thread", "receive_thread" >>,
   << "receive_thread", "join" >>}
  \cup IF s = Caller
       THEN {<< "keypair", "send_length" >>, << "send_key", "read_length" >>,
             << "derive", "send_iv" >>}
       ELSE {<< "keypair", "read_length" >>, << "derive", "send_length" >>,
             << "send_key", "send_iv" >>}

\* There are two sides.
LEMMA TwoSides ==
  /\ Caller \in Sides /\ Callee \in Sides /\ Caller # Callee
  /\ Other(Caller) = Callee /\ Other(Callee) = Caller
  /\ \A s \in Sides : Other(s) \in Sides /\ Other(s) # s /\ Other(Other(s)) = s
                      /\ (s = Caller \/ s = Callee)
  BY DEF Sides, Caller, Callee, Other

\* Proceed goes to the following step.
LEMMA ProceedsTo ==
  ASSUME NEW s \in Sides, NEW blocks, Proceed(s, blocks)
  PROVE  /\ \E l : owner' = [owner EXCEPT ![s] = l] /\ << owner[s], l >> \in Following(s)
         /\ heap' = [heap EXCEPT ![s] = blocks]
         /\ UNCHANGED << sock, in_chat >>
<1>1. PICK i \in 1 .. Len(Steps(s)) - 1 :
        owner[s] = Steps(s)[i] /\ owner' = [owner EXCEPT ![s] = Steps(s)[i + 1]]
  BY DEF Proceed, Goes
<1>2. << Steps(s)[i], Steps(s)[i + 1] >> \in Following(s)
  <2>1. CASE s = Caller
    <3>1. Steps(s) = CallerSteps /\ Len(CallerSteps) = 11
      BY <2>1 DEF Steps, CallerSteps
    <3>2. i \in 1 .. 10
      BY <3>1
    <3>3. \A j \in 1 .. 10 : << CallerSteps[j], CallerSteps[j + 1] >> \in Following(Caller)
      BY DEF CallerSteps, Following
    <3> QED
      BY <2>1, <3>1, <3>2, <3>3
  <2>2. CASE s = Callee
    <3>1. Steps(s) = CalleeSteps /\ Len(CalleeSteps) = 11
      BY <2>2, TwoSides DEF Steps, CalleeSteps
    <3>2. i \in 1 .. 10
      BY <3>1
    <3>3. \A j \in 1 .. 10 : << CalleeSteps[j], CalleeSteps[j + 1] >> \in Following(Callee)
      BY TwoSides DEF CalleeSteps, Following
    <3> QED
      BY <2>2, <3>1, <3>2, <3>3
  <2> QED
    BY <2>1, <2>2, TwoSides
<1> QED
  BY <1>1, <1>2 DEF Proceed

-----------------------------------------------------------------------------
(* What a handshake has allocated at each of its steps.                    *)

BeforeChat == {"dial", "reply", "accept", "request", "question", "chat_info"}

\* The steps of a side at which it has no memory for the key of the other.
BeforePeerKey(s) == IF s = Caller THEN {"send_length", "send_key", "read_length"}
                                  ELSE {"read_length"}

\* The variables of a side that its memory depends on.
MemoryShape ==
  /\ owner \in [Sides -> OwnerLabels]
  /\ sender \in [Sides -> {"none", "loop", "text", "end", "ended"}]
  /\ receiver \in [Sides -> {"none", "length", "text", "end", "ended"}]
  /\ sock \in [Sides -> {"none", "open", "closed"}]
  /\ heap \in [Sides -> SUBSET Blocks]
  /\ in_chat \in [Sides -> BOOLEAN]

\* What side s holds, by the step it is at.
Memory(s) ==
  /\ owner[s] \in BeforeChat => heap[s] = {} /\ ~ in_chat[s]
  /\ owner[s] \in {"dial", "accept"} => sock[s] = "none"
  /\ owner[s] \in {"keypair", "send_thread", "receive_thread", "join"} =>
       heap[s] \subseteq {"chat"}
  /\ owner[s] \in BeforePeerKey(s) => "peer_public_key" \notin heap[s]
  /\ owner[s] = "over" => heap[s] = {} /\ sock[s] # "open" /\ ~ in_chat[s]
  /\ sender[s] # "none" => owner[s] \in {"receive_thread", "join", "over"}
  /\ sender[s] = "ended" => "chat" \notin heap[s]
  /\ receiver[s] # "none" => owner[s] \in {"join", "over"}

MemoryInv == MemoryShape /\ \A s \in Sides : Memory(s)

\* A way out that frees all that is held leaves every side as it should be.
LEMMA GivesUp ==
  ASSUME MemoryInv, NEW s \in Sides, NEW blocks, GiveUp(s, blocks),
         heap[s] \subseteq blocks, UNCHANGED << sender, receiver >>
  PROVE  MemoryInv'
<1> USE DEF MemoryInv, MemoryShape, GiveUp, Goes
<1>1. MemoryShape'
  BY DEF OwnerLabels
<1>2. Memory(s)'
  BY DEF Memory, BeforeChat, BeforePeerKey
<1>3. \A t \in Sides \ {s} : Memory(t)'
  BY DEF Memory
<1> QED
  BY <1>1, <1>2, <1>3

\* Going on to the following step with the blocks that belong to that step.
LEMMA GoesOn ==
  ASSUME MemoryInv, NEW s \in Sides, NEW blocks \in SUBSET Blocks, Proceed(s, blocks),
         sender[s] = "none", UNCHANGED << sender, receiver >>,
         owner[s] \notin {"chat_info", "send_thread", "receive_thread"},
         owner[s] = "keypair" => "peer_public_key" \notin blocks,
         owner[s] \in {"send_length", "send_key"} => blocks = heap[s],
         owner[s] = "send_iv" => blocks \subseteq {"chat"}
  PROVE  MemoryInv'
<1> USE DEF MemoryInv, MemoryShape
<1>1. PICK l : owner' = [owner EXCEPT ![s] = l] /\ << owner[s], l >> \in Following(s)
  BY ProceedsTo
<1>2. heap' = [heap EXCEPT ![s] = blocks] /\ UNCHANGED << sock, in_chat >>
  BY ProceedsTo
<1>3. l \in {"keypair", "send_length", "send_key", "read_length", "read_key", "derive",
             "send_iv", "send_thread", "receive_thread", "join"}
  BY <1>1 DEF Following
<1>4. MemoryShape'
  BY <1>1, <1>2, <1>3 DEF OwnerLabels, HandshakeSteps
<1>5. Memory(s)'
  BY <1>1, <1>2, <1>3 DEF Memory, BeforeChat, BeforePeerKey, Following
<1>6. \A t \in Sides \ {s} : Memory(t)'
  BY <1>1, <1>2 DEF Memory
<1> QED
  BY <1>4, <1>5, <1>6

\* Until it has a connection a side goes on with nothing allocated.
LEMMA MeetingStep ==
  ASSUME MemoryInv, CallStep \/ CalledStep
  PROVE  MemoryInv'
<1>1. Caller \in Sides /\ Callee \in Sides
  BY TwoSides
<1>2. ASSUME NEW s \in Sides, owner[s] \in BeforeChat, GiveUp(s, {}),
             UNCHANGED << sender, receiver >>
      PROVE  MemoryInv'
  BY <1>2, GivesUp DEF MemoryInv, Memory
<1>3. ASSUME NEW s \in Sides, owner[s] \in BeforeChat,
             NEW l \in {"reply", "request", "question", "chat_info"}, Goes(s, l),
             UNCHANGED << sender, receiver, heap, in_chat >>,
             \/ UNCHANGED sock
             \/ sock' = [sock EXCEPT ![s] = "open"]
      PROVE  MemoryInv'
  <2> USE DEF MemoryInv, MemoryShape, Goes
  <2>1. MemoryShape'
    BY <1>3 DEF OwnerLabels, HandshakeSteps
  <2>2. Memory(s)'
    BY <1>3 DEF Memory, BeforeChat, BeforePeerKey
  <2>3. \A t \in Sides \ {s} : Memory(t)'
    BY <1>3 DEF Memory
  <2> QED
    BY <2>1, <2>2, <2>3
<1>4. CASE Dial
  <2>1. CASE Goes(Caller, "over") /\ UNCHANGED << sock, stream >>
    <3> USE DEF MemoryInv, MemoryShape, Goes
    <3>1. MemoryShape'
      BY <1>1, <1>4, <2>1 DEF Dial, OwnerLabels
    <3>2. Memory(Caller)'
      BY <1>1, <1>4, <2>1 DEF Dial, Memory, BeforeChat, BeforePeerKey
    <3>3. \A t \in Sides \ {Caller} : Memory(t)'
      BY <1>1, <1>4, <2>1 DEF Dial, Memory
    <3> QED
      BY <3>1, <3>2, <3>3
  <2>2. CASE Goes(Caller, "reply") /\ sock' = [sock EXCEPT ![Caller] = "open"]
    BY <1>1, <1>3, <1>4, <2>2 DEF Dial, BeforeChat
  <2> QED
    BY <1>4, <2>1, <2>2 DEF Dial
<1>5. CASE TakeReply
  BY <1>1, <1>2, <1>3, <1>5 DEF TakeReply, BeforeChat
<1>6. CASE Accept
  BY <1>1, <1>2, <1>3, <1>6 DEF Accept, BeforeChat
<1>7. CASE TakeRequest
  BY <1>1, <1>2, <1>3, <1>7 DEF TakeRequest, BeforeChat
<1>8. CASE Answer
  BY <1>1, <1>2, <1>3, <1>8 DEF Answer, Write, BeforeChat
<1> QED
  BY <1>4, <1>5, <1>6, <1>7, <1>8 DEF CallStep, CalledStep

\* Each step of a handshake holds what belongs to it, and each way out frees it.
LEMMA OwnerKeepsMemory ==
  ASSUME MemoryInv, "keypair_malloc" \notin Failures, NEW s \in Sides, OwnerStep(s)
  PROVE  MemoryInv'
<1> USE DEF MemoryInv, MemoryShape
<1>0. heap[s] \in SUBSET Blocks /\ Memory(s)
  OBVIOUS
<1>1. CASE MakeChat(s)
  <2>1. CASE owner' = [owner EXCEPT ![s] = "keypair"]
    <3>0. /\ heap' = [heap EXCEPT ![s] = heap[s] \cup {"chat"}]
          /\ in_chat' = [in_chat EXCEPT ![s] = TRUE]
          /\ UNCHANGED << sender, receiver, sock >>
          /\ owner[s] = "chat_info"
      BY <1>1, <2>1 DEF MakeChat, GiveUp, Goes
    <3>1. MemoryShape'
      BY <2>1, <3>0 DEF OwnerLabels, HandshakeSteps, Blocks
    <3>2. Memory(s)'
      BY <2>1, <3>0 DEF Memory, BeforeChat, BeforePeerKey
    <3>3. \A t \in Sides \ {s} : Memory(t)'
      BY <2>1, <3>0 DEF Memory
    <3> QED
      BY <3>1, <3>2, <3>3
  <2>2. CASE GiveUp(s, {})
    BY <1>1, <2>2, GivesUp DEF MakeChat, Memory, BeforeChat
  <2> QED
    BY <1>1, <2>1, <2>2 DEF MakeChat
<1>2. CASE MakeKeys(s)
  <2>1. owner[s] = "keypair" /\ UNCHANGED << sender, receiver >> /\ sender[s] = "none"
    BY <1>0, <1>2 DEF MakeKeys, Memory
  <2>2. CASE Proceed(s, heap[s] \cup KeyPair)
    <3>1. heap[s] \cup KeyPair \in SUBSET Blocks /\ "peer_public_key" \notin heap[s] \cup KeyPair
      BY <1>0, <2>1 DEF Memory, Blocks, KeyPair
    <3> QED
      BY <2>1, <2>2, <3>1, GoesOn
  <2>3. CASE GiveUp(s, {"chat"})
    BY <1>0, <2>1, <2>3, GivesUp DEF Memory
  <2> QED
    BY <1>2, <2>2, <2>3 DEF MakeKeys
<1>3. CASE SendLength(s)
  <2>1. owner[s] = "send_length" /\ UNCHANGED << sender, receiver >> /\ sender[s] = "none"
    BY <1>0, <1>3 DEF SendLength, Memory
  <2>2. heap[s] \subseteq FreedWithKey(s)
    BY <1>0, <2>1 DEF FreedWithKey, Memory, BeforePeerKey
  <2>3. Proceed(s, heap[s]) \/ GiveUp(s, FreedWithKey(s))
    BY <1>3 DEF SendLength, Write
  <2> QED
    BY <1>0, <2>1, <2>2, <2>3, GivesUp, GoesOn
<1>4. CASE SendKey(s)
  <2>1. owner[s] = "send_key" /\ UNCHANGED << sender, receiver >> /\ sender[s] = "none"
    BY <1>0, <1>4 DEF SendKey, Memory
  <2>2. heap[s] \subseteq FreedWithKey(s)
    BY <1>0, <2>1 DEF FreedWithKey, Memory, BeforePeerKey
  <2>3. Proceed(s, heap[s]) \/ GiveUp(s, FreedWithKey(s))
    BY <1>4 DEF SendKey, Write
  <2> QED
    BY <1>0, <2>1, <2>2, <2>3, GivesUp, GoesOn
<1>5. CASE ReadLength(s)
  <2>1. owner[s] = "read_length" /\ UNCHANGED << sender, receiver >> /\ sender[s] = "none"
    BY <1>0, <1>5 DEF ReadLength, Memory
  <2>2. heap[s] \subseteq Blocks \ {"peer_public_key"}
    BY <1>0, <2>1 DEF Memory, BeforePeerKey
  <2>3. heap[s] \cup {"peer_public_key"} \in SUBSET Blocks
    BY <1>0 DEF Blocks
  <2>4. \/ Proceed(s, heap[s] \cup {"peer_public_key"})
        \/ GiveUp(s, Blocks \ {"peer_public_key"})
    BY <1>5 DEF ReadLength
  <2> QED
    BY <2>1, <2>2, <2>3, <2>4, GivesUp, GoesOn
<1>6. CASE ReadKey(s)
  <2>1. owner[s] = "read_key" /\ UNCHANGED << sender, receiver >> /\ sender[s] = "none"
    BY <1>0, <1>6 DEF ReadKey, Memory
  <2>2. Proceed(s, heap[s]) \/ GiveUp(s, Blocks)
    BY <1>6 DEF ReadKey
  <2> QED
    BY <1>0, <2>1, <2>2, GivesUp, GoesOn
<1>7. CASE Derive(s)
  <2>1. owner[s] = "derive" /\ UNCHANGED << sender, receiver >> /\ sender[s] = "none"
    BY <1>0, <1>7 DEF Derive, Memory
  <2>2. Proceed(s, heap[s]) \/ GiveUp(s, Blocks)
    BY <1>7 DEF Derive
  <2> QED
    BY <1>0, <2>1, <2>2, GivesUp, GoesOn
<1>8. CASE SendIV(s)
  <2>1. owner[s] = "send_iv" /\ UNCHANGED << sender, receiver >> /\ sender[s] = "none"
    BY <1>0, <1>8 DEF SendIV, Memory
  <2>2. Proceed(s, {"chat"}) \/ GiveUp(s, Blocks)
    BY <1>8 DEF SendIV, Write
  <2>3. {"chat"} \in SUBSET Blocks
    BY DEF Blocks
  <2> QED
    BY <1>0, <2>1, <2>2, <2>3, GivesUp, GoesOn
<1>9. CASE StartThread(s)
  <2>1. CASE Proceed(s, heap[s]) /\ owner[s] \in {"send_thread", "receive_thread"}
    <3>1. PICK l : owner' = [owner EXCEPT ![s] = l] /\ << owner[s], l >> \in Following(s)
      BY <2>1, ProceedsTo
    <3>2. UNCHANGED << heap, sock, in_chat >>
      BY <2>1, ProceedsTo
    <3>3. /\ l \in {"receive_thread", "join"}
          /\ l = "join" <=> owner[s] = "receive_thread"
      BY <2>1, <3>1 DEF Following
    <3>4. /\ sender' = [sender EXCEPT ![s] = "loop"] \/ owner[s] = "receive_thread"
          /\ sender' \in {sender, [sender EXCEPT ![s] = "loop"]}
          /\ sender' = sender \/ owner[s] = "send_thread"
          /\ \/ UNCHANGED receiver
             \/ /\ owner[s] = "receive_thread"
                /\ receiver' \in {[receiver EXCEPT ![s] = "length"],
                                   [receiver EXCEPT ![s] = "end"]}
      <4>1. CASE UNCHANGED receiver /\ owner[s] = "send_thread"
                 /\ sender' = [sender EXCEPT ![s] = "loop"]
        BY <4>1
      <4>2. CASE owner[s] = "receive_thread" /\ UNCHANGED sender /\ Reads(s)
        BY <4>2 DEF Reads
      <4>3. CASE GiveUp(s, {"chat"})
        BY <3>1, <3>3, <4>3 DEF GiveUp, Goes
      <4> QED
        BY <1>9, <4>1, <4>2, <4>3 DEF StartThread
    <3>5. MemoryShape'
      BY <3>1, <3>2, <3>3, <3>4 DEF OwnerLabels, HandshakeSteps
    <3>6. Memory(s)'
      <4>1. owner'[s] = l /\ heap'[s] \subseteq {"chat"} /\ heap'[s] = heap[s]
        BY <1>0, <2>1, <3>1, <3>2 DEF Memory
      <4>2. /\ sender'[s] = "ended" => "chat" \notin heap[s]
            /\ receiver'[s] # "none" => l = "join"
        BY <1>0, <2>1, <3>1, <3>3, <3>4 DEF Memory
      <4> QED
        BY <3>3, <4>1, <4>2 DEF Memory, BeforeChat, BeforePeerKey
    <3>7. \A t \in Sides \ {s} : Memory(t)'
      BY <3>1, <3>2, <3>4 DEF Memory
    <3> QED
      BY <3>5, <3>6, <3>7
  <2>2. CASE GiveUp(s, {"chat"}) /\ UNCHANGED << sender, receiver >>
    <3>1. heap[s] \subseteq {"chat"}
      BY <1>0, <1>9 DEF StartThread, Memory
    <3> QED
      BY <2>2, <3>1, GivesUp
  <2> QED
    BY <1>9, <2>1, <2>2 DEF StartThread
<1>10. CASE Join(s)
  <2>1. heap[s] \subseteq {}
    BY <1>0, <1>10 DEF Join, Memory
  <2> QED
    BY <1>10, <2>1, GivesUp DEF Join
<1> QED
  BY <1>1, <1>2, <1>3, <1>4, <1>5, <1>6, <1>7, <1>8, <1>9, <1>10 DEF OwnerStep

\* The threads of a chat free the chat_info at their ends and nothing else.
LEMMA ChatKeepsMemory ==
  ASSUME MemoryInv, NEW s \in Sides, SenderStep(s) \/ ReceiverStep(s)
  PROVE  MemoryInv'
<1> USE DEF MemoryInv, MemoryShape
<1>1. ASSUME NEW t \in Sides, sender[t] # "none",
             NEW l \in {"loop", "text", "end"}, SenderGoes(t, l),
             UNCHANGED << owner, receiver, sock, heap, in_chat >>
      PROVE  MemoryInv'
  BY <1>1 DEF SenderGoes, Memory
<1>2. ASSUME NEW t \in Sides, CloseChat(t), UNCHANGED owner, MemoryShape',
             \/ UNCHANGED sender /\ receiver[t] # "none"
             \/ sender' = [sender EXCEPT ![t] = "ended"] /\ sender[t] # "none",
             \A u \in Sides : receiver'[u] # "none" => receiver[u] # "none"
      PROVE  \A u \in Sides : Memory(u)'
  <2>1. /\ heap' = [heap EXCEPT ![t] = heap[t] \ {"chat"}]
        /\ sock' = [sock EXCEPT ![t] = "closed"]
        /\ in_chat' = [in_chat EXCEPT ![t] = FALSE]
        /\ UNCHANGED owner
    BY <1>2 DEF CloseChat
  <2>2. owner[t] \notin {"dial", "accept"}
    BY <1>2 DEF Memory
  <2> QED
    BY <1>2, <2>1, <2>2 DEF Memory
<1>3. CASE Type(s)
  BY <1>1, <1>3 DEF Type, Write
<1>4. CASE SendText(s)
  BY <1>1, <1>4 DEF SendText, Write
<1>5. CASE SenderEnds(s)
  BY <1>2, <1>5 DEF SenderEnds, SenderGoes, CloseChat, Blocks
<1>6. CASE TakeLength(s)
  BY <1>6 DEF TakeLength, TakesFor, Memory
<1>7. CASE TakeText(s)
  BY <1>7 DEF TakeText, Reads, Memory
<1>8. CASE ReceiverEnds(s)
  BY <1>2, <1>8 DEF ReceiverEnds, CloseChat, Blocks
<1> QED
  BY <1>3, <1>4, <1>5, <1>6, <1>7, <1>8 DEF SenderStep, ReceiverStep

\* The memory of both sides, if a key pair is never allocated in half.
LEMMA MemoryInvariant ==
  ASSUME "keypair_malloc" \notin Failures
  PROVE  PQSpec => []MemoryInv
<1>1. PQInit => MemoryInv
  <2> SUFFICES ASSUME PQInit PROVE MemoryInv
    OBVIOUS
  <2>1. MemoryShape
    BY TwoSides DEF PQInit, MemoryShape, OwnerLabels, HandshakeSteps
  <2>2. \A s \in Sides : Memory(s)
    BY TwoSides DEF PQInit, Memory, BeforeChat, BeforePeerKey
  <2> QED
    BY <2>1, <2>2 DEF MemoryInv
<1>2. MemoryInv /\ [PQNext]_pq_vars => MemoryInv'
  <2> SUFFICES ASSUME MemoryInv, [PQNext]_pq_vars PROVE MemoryInv'
    OBVIOUS
  <2>1. CASE CallStep \/ CalledStep
    BY <2>1, MeetingStep
  <2>2. ASSUME NEW s \in Sides, OwnerStep(s) PROVE MemoryInv'
    BY <2>2, OwnerKeepsMemory
  <2>3. ASSUME NEW s \in Sides, SenderStep(s) \/ ReceiverStep(s) PROVE MemoryInv'
    BY <2>3, ChatKeepsMemory
  <2>4. ASSUME NEW s \in Sides, Vanish(s) PROVE MemoryInv'
    BY <2>4 DEF Vanish, MemoryInv, MemoryShape, Memory
  <2>5. CASE UNCHANGED pq_vars
    BY <2>5 DEF pq_vars, MemoryInv, MemoryShape, Memory
  <2> QED
    BY <2>1, <2>2, <2>3, <2>4, <2>5 DEF PQNext
<1> QED
  BY <1>1, <1>2, PTL DEF PQSpec

\* No way out of a handshake leaves memory, the connection or in_chat behind,
\* and no secret key outlives it, unless one malloc of pqcrypto_generate_keypair
\* fails after the other: whichever steps fail and whoever vanishes.
THEOREM HandshakeLeavesNothing ==
  ASSUME "keypair_malloc" \notin Failures
  PROVE  PQSpec => []NothingLeft
<1>1. MemoryInv => NothingLeft
  <2> SUFFICES ASSUME MemoryInv, NEW s \in Sides
               PROVE  /\ Ended(s) => heap[s] = {} /\ sock[s] # "open" /\ ~ in_chat[s]
                      /\ sender[s] # "none" => heap[s] \subseteq {"chat"}
    BY DEF NothingLeft
  <2> QED
    BY DEF MemoryInv, Memory, Ended
<1> QED
  BY <1>1, MemoryInvariant, PTL

-----------------------------------------------------------------------------
(* What is on its way to a side that has yet to read the key of the other. *)

\* What a side sends for its key, and how long it is.
Frame(w) == KeyLength(w) \o PublicKey(w)
FrameWords == LengthWords + KeyWords

\* The words that may be on their way to s.
Kinds == {"request", "accept", "deny", "key_length", "text_length", "key", "iv", "text"}
Words == [kind : Kinds, from : Sides, number : Nat]
WordsTo(s) == {w \in Words : w.from = Other(s)}

PQTypes ==
  /\ up \in [Sides -> BOOLEAN]
  /\ owner \in [Sides -> OwnerLabels]
  /\ sender \in [Sides -> {"none", "loop", "text", "end", "ended"}]
  /\ receiver \in [Sides -> {"none", "length", "text", "end", "ended"}]
  /\ sock \in [Sides -> {"none", "open", "closed"}]
  /\ stream \in [Sides -> Seq(Words)]
  /\ \A s \in Sides : stream[s] \in Seq(WordsTo(s))
  /\ reset \in [Sides -> BOOLEAN]
  /\ heap \in [Sides -> SUBSET Blocks]
  /\ in_chat \in [Sides -> BOOLEAN]
  /\ want \in [Sides -> Lengths]
  /\ size \in [Sides -> Seq(Words)] /\ peer_key \in [Sides -> Seq(Words)]
  /\ \A s \in Sides : /\ size[s] \in Seq(WordsTo(s)) /\ Len(size[s]) <= LengthWords
                       /\ peer_key[s] \in Seq(WordsTo(s))
  /\ DOMAIN enc_ctx = Sides

\* The steps of a side until it has read the key of the other, and from there
\* until its threads run.
ToReadKey(s) ==
  IF s = Caller
  THEN {"dial", "reply", "chat_info", "keypair", "send_length", "send_key", "read_length", "read_key"}
  ELSE {"accept", "request", "question", "chat_info", "keypair", "read_length", "read_key"}
Connected == (HandshakeSteps \cup {"reply", "request", "question"}) \ {"receive_thread", "join"}

\* What a side has read for the length and the key of the other is what the other
\* sends for them, word by word.
Placed(s) ==
  LET taken == size[s] \o peer_key[s] IN
  \A j \in 1 .. Len(taken) : j <= FrameWords => taken[j] = Frame(Other(s))[j]

KeyRead(s) ==
  /\ Placed(s)
  /\ size[s] = KeyLength(Other(s)) =>
       (owner[s] = "read_key" => want[s] = KeyWords) /\ Len(peer_key[s]) <= KeyWords
  /\ receiver[s] = "none" => Len(peer_key[s]) <= want[s]

\* How far a side has come, by the step it is at.
Course(s) ==
  /\ owner[s] \in IF s = Caller THEN OwnerLabels \ {"accept", "request", "question"}
                                ELSE OwnerLabels \ {"dial", "reply"}
  /\ owner[s] \in {"dial", "accept"} => sock[s] = "none"
  /\ owner[s] \in Connected => sock[s] = "open"
  /\ sender[s] # "none" => owner[s] \in {"receive_thread", "join", "over"}
  /\ receiver[s] # "none" => owner[s] \in {"join", "over"}
  /\ owner[s] \in ToReadKey(s) => peer_key[s] = << >>
  /\ KeyRead(s)
  /\ enc_ctx[s] # NoContext =>
       /\ enc_ctx[s] = [aes_key |-> Decapsulate(s, peer_key[s]), iv |-> FreshIV(s)]
       /\ owner[s] \notin ToReadKey(s) \cup {"derive"}

\* The k-th word that w writes: an answer or a request, the length of its key,
\* and its key.
Says(w, k, word) == k \in 2 .. FrameWords + 1 => word = Frame(w)[k - 1]

\* How many of these words a side has written, and how many it has read.
BeforeOwnKey(s) ==
  IF s = Caller THEN {"reply", "chat_info", "keypair", "send_length"}
  ELSE {"chat_info", "keypair", "read_length", "read_key", "derive", "send_length"}
Written(s) ==
  CASE owner[s] \in {"dial", "accept", "request", "question"} -> 0
    [] owner[s] \in BeforeOwnKey(s) -> 1
    [] owner[s] = "send_key" -> LengthWords + 1
    [] OTHER -> FrameWords + 1
Consumed(s) ==
  CASE owner[s] \in {"dial", "reply", "accept", "request"} -> 0
    [] owner[s] = "read_key" -> Len(size[s]) + 1
    [] OTHER -> 1

\* A side that still writes.
Writes(s) == owner[s] # "over" \/ sender[s] # "none"

AheadOfKey(s) == up[s] /\ owner[s] \in ToReadKey(s)

\* What is on its way to s, behind what it has read, is what the other side has
\* written, in its order.
Aligned(s) ==
  LET w == Other(s) IN
  AheadOfKey(s) =>
    /\ \A i \in 1 .. Len(stream[s]) : Says(w, i + Consumed(s), stream[s][i])
    /\ Writes(w) => IF Written(w) < FrameWords + 1 THEN Len(stream[s]) + Consumed(s) = Written(w)
                                                 ELSE Len(stream[s]) + Consumed(s) >= FrameWords + 1

StreamInv == PQTypes /\ \A s \in Sides : Course(s) /\ Aligned(s)

\* What a step of the other side leaves alone of a side.
Stays(t) ==
  /\ up'[t] = up[t] /\ owner'[t] = owner[t] /\ sock'[t] = sock[t]
  /\ sender'[t] = sender[t] /\ receiver'[t] = receiver[t]
  /\ want'[t] = want[t] /\ size'[t] = size[t] /\ peer_key'[t] = peer_key[t] /\ enc_ctx'[t] = enc_ctx[t]

\* The lengths are numbers.
LEMMA Sizes ==
  /\ LengthWords \in Nat /\ LengthWords > 0 /\ KeyWords \in Nat /\ KeyWords > 0
  /\ IVWords \in Nat /\ FrameWords \in Nat /\ FrameWords = LengthWords + KeyWords
  BY HandshakeConstants DEF FrameWords

LEMMA TextLengthSize == TextLengthWords \in Nat /\ TextLengthWords > 0
  BY HandshakeConstants

\* What a side has read stays in place while it reads no more.
LEMMA KeyReadSame ==
  ASSUME NEW s \in Sides, KeyRead(s), size'[s] = size[s], peer_key'[s] = peer_key[s],
         want'[s] = want[s] \/ receiver'[s] # "none",
         receiver'[s] = "none" => receiver[s] = "none",
         owner'[s] = "read_key" => owner[s] = "read_key" /\ want'[s] = want[s]
  PROVE  KeyRead(s)'
  BY DEF KeyRead, Placed

\* A stream that is left alone stays aligned, if neither side has gone further
\* in reading or in writing.
LEMMA AlignedSame ==
  ASSUME PQTypes, NEW r \in Sides, Aligned(r), stream'[r] = stream[r], up'[r] => up[r],
         owner'[r] \in ToReadKey(r) => owner[r] \in ToReadKey(r) /\ Consumed(r)' = Consumed(r),
         Writes(Other(r))' => Writes(Other(r)) /\ Written(Other(r))' = Written(Other(r))
  PROVE  Aligned(r)'
  BY DEF Aligned, AheadOfKey

\* What a step has to keep when it is one of side s.
LEMMA SideStep ==
  ASSUME StreamInv, NEW s \in Sides, PQTypes', Course(s)', Aligned(s)', Stays(Other(s)),
         \/ Aligned(Other(s))'
         \/ /\ stream'[Other(s)] = stream[Other(s)]
            /\ Writes(s)' => Writes(s) /\ Written(s)' = Written(s)
  PROVE  StreamInv'
<1>1. /\ Other(s) \in Sides /\ Other(Other(s)) = s
      /\ \A t \in Sides : t = s \/ t = Other(s)
  BY TwoSides
<1>2. Course(Other(s))'
  <2>1. Course(Other(s)) /\ KeyRead(Other(s))
    BY <1>1 DEF StreamInv, Course
  <2>2. KeyRead(Other(s))'
    BY <1>1, <2>1, KeyReadSame DEF Stays
  <2> QED
    BY <2>1, <2>2 DEF Course, Stays
<1>3. Aligned(Other(s))'
  <2>1. CASE stream'[Other(s)] = stream[Other(s)]
             /\ (Writes(s)' => Writes(s) /\ Written(s)' = Written(s))
    <3>1. Consumed(Other(s))' = Consumed(Other(s))
      BY DEF Stays, Consumed
    <3> QED
      BY <1>1, <2>1, <3>1, AlignedSame DEF StreamInv, Stays
  <2> QED
    BY <2>1
<1> QED
  BY <1>1, <1>2, <1>3 DEF StreamInv

\* Reading the first k words.
LEMMA AlignedTaken ==
  ASSUME PQTypes, NEW r \in Sides, Aligned(r), NEW k \in 0 .. Len(stream[r]),
         Len(stream'[r]) = Len(stream[r]) - k,
         \A i \in 1 .. Len(stream[r]) - k : stream'[r][i] = stream[r][i + k],
         up'[r] => up[r], owner[r] \in ToReadKey(r), Consumed(r)' = Consumed(r) + k,
         owner'[Other(r)] = owner[Other(r)], sender'[Other(r)] = sender[Other(r)]
  PROVE  Aligned(r)'
<1> SUFFICES ASSUME AheadOfKey(r) PROVE Aligned(r)'
  BY DEF Aligned, AheadOfKey
<1>0. Len(stream[r]) \in Nat /\ Consumed(r) \in Nat
  BY DEF PQTypes, Consumed
<1>1. \A i \in 1 .. Len(stream'[r]) : Says(Other(r), i + Consumed(r)', stream'[r][i])
  <2> SUFFICES ASSUME NEW i \in 1 .. Len(stream'[r])
               PROVE  Says(Other(r), i + Consumed(r)', stream'[r][i])
    OBVIOUS
  <2>1. i \in 1 .. Len(stream[r]) - k /\ i + k \in 1 .. Len(stream[r])
    BY <1>0
  <2>2. i + Consumed(r)' = (i + k) + Consumed(r)
    <3>1. i \in Nat /\ k \in Nat /\ Consumed(r) \in Nat /\ Consumed(r)' = Consumed(r) + k
      BY <1>0, <2>1
    <3> QED
      BY <3>1
  <2>3. Says(Other(r), (i + k) + Consumed(r), stream[r][i + k])
    BY <2>1 DEF Aligned
  <2> QED
    BY <2>1, <2>2, <2>3
<1>2. /\ Len(stream'[r]) + Consumed(r)' = Len(stream[r]) + Consumed(r)
      /\ Writes(Other(r))' = Writes(Other(r)) /\ Written(Other(r))' = Written(Other(r))
  BY <1>0 DEF Writes, Written
<1> QED
  BY <1>1, <1>2 DEF Aligned

\* Writing the next words of the script, or whatever follows it.
LEMMA AlignedAdded ==
  ASSUME PQTypes, NEW w \in Sides, Aligned(Other(w)), Stays(Other(w)),
         NEW text \in Seq(WordsTo(Other(w))),
         stream'[Other(w)] = stream[Other(w)] \o text, Writes(w),
         Written(w) < FrameWords + 1 =>
           \A j \in 1 .. Len(text) : Says(w, Written(w) + j, text[j]),
         Writes(w)' => IF Written(w)' < FrameWords + 1
                       THEN Written(w)' = Written(w) + Len(text)
                       ELSE Written(w) + Len(text) >= FrameWords + 1
  PROVE  Aligned(Other(w))'
<1> DEFINE r == Other(w)
<1>0. r \in Sides /\ Other(r) = w
  BY TwoSides
<1> HIDE DEF r
<1>1. stream[r] \in Seq(WordsTo(r)) /\ Consumed(r) \in Nat /\ Written(w) \in Nat
      /\ FrameWords \in Nat
  BY <1>0, Sizes DEF PQTypes, Consumed, Written
<1>2. /\ Len(stream'[r]) = Len(stream[r]) + Len(text)
      /\ Len(stream[r]) \in Nat /\ Len(text) \in Nat
      /\ \A i \in 1 .. Len(stream[r]) + Len(text) :
           stream'[r][i] = IF i <= Len(stream[r]) THEN stream[r][i]
                                                  ELSE text[i - Len(stream[r])]
  <2>1. text \in Seq(WordsTo(r)) /\ stream'[r] = stream[r] \o text
    BY DEF r
  <2> QED
    BY <1>1, <2>1, ConcatProperties
<1>3. Consumed(r)' = Consumed(r) /\ AheadOfKey(r)' = AheadOfKey(r)
  BY DEF r, Stays, Consumed, AheadOfKey
<1> SUFFICES ASSUME AheadOfKey(r) PROVE Aligned(r)'
  BY <1>3 DEF Aligned, r
<1>4. /\ \A i \in 1 .. Len(stream[r]) : Says(w, i + Consumed(r), stream[r][i])
      /\ IF Written(w) < FrameWords + 1 THEN Len(stream[r]) + Consumed(r) = Written(w)
                                      ELSE Len(stream[r]) + Consumed(r) >= FrameWords + 1
  BY <1>0 DEF Aligned, r
<1>5. \A i \in 1 .. Len(stream'[r]) : Says(w, i + Consumed(r), stream'[r][i])
  <2> SUFFICES ASSUME NEW i \in 1 .. Len(stream'[r])
               PROVE  Says(w, i + Consumed(r), stream'[r][i])
    OBVIOUS
  <2>1. CASE i <= Len(stream[r])
    BY <1>2, <1>4, <2>1
  <2>2. CASE i > Len(stream[r]) /\ Written(w) < FrameWords + 1
    <3>1. i - Len(stream[r]) \in 1 .. Len(text)
          /\ i + Consumed(r) = Written(w) + (i - Len(stream[r]))
          /\ stream'[r][i] = text[i - Len(stream[r])]
      BY <1>1, <1>2, <1>4, <2>2
    <3> QED
      BY <2>2, <3>1
  <2>3. CASE i > Len(stream[r]) /\ ~ (Written(w) < FrameWords + 1)
    <3>1. i + Consumed(r) > FrameWords + 1
      BY <1>1, <1>2, <1>4, <2>3
    <3>2. i + Consumed(r) \notin 2 .. FrameWords + 1
      BY <1>1, <1>2, <3>1
    <3> QED
      BY <3>2 DEF Says
  <2> QED
    BY <1>2, <2>1, <2>2, <2>3
<1>6. Writes(w)' =>
        IF Written(w)' < FrameWords + 1 THEN Len(stream'[r]) + Consumed(r) = Written(w)'
                                      ELSE Len(stream'[r]) + Consumed(r) >= FrameWords + 1
  BY <1>1, <1>2, <1>4
<1> QED
  BY <1>0, <1>3, <1>5, <1>6 DEF Aligned, r

-----------------------------------------------------------------------------
(* The steps of a handshake keep the streams aligned.                      *)

\* A stream that is set to words for its reader.
LEMMA StreamsTyped ==
  ASSUME PQTypes, NEW t \in Sides, NEW q \in Seq(WordsTo(t)), stream' = [stream EXCEPT ![t] = q]
  PROVE  stream' \in [Sides -> Seq(Words)] /\ \A u \in Sides : stream'[u] \in Seq(WordsTo(u))
<1>1. q \in Seq(Words)
  <2>1. \A i \in 1 .. Len(q) : q[i] \in WordsTo(t)
    OBVIOUS
  <2>2. \A i \in 1 .. Len(q) : q[i] \in Words
    BY <2>1 DEF WordsTo
  <2> QED
    BY <2>2
<1> QED
  BY <1>1 DEF PQTypes

\* What one read() takes: some first words of the stream, which the rest is behind.
LEMMA StreamTaken ==
  ASSUME PQTypes, NEW s \in Sides, NEW n \in Nat, NEW text \in Gets(s, n), Take(s, text)
  PROVE  /\ stream' \in [Sides -> Seq(Words)] /\ \A u \in Sides : stream'[u] \in Seq(WordsTo(u))
         /\ stream'[Other(s)] = stream[Other(s)]
         /\ text \in Seq(Words) /\ text \in Seq(WordsTo(s))
         /\ Len(text) \in 1 .. n /\ Len(text) \in 0 .. Len(stream[s])
         /\ \A i \in 1 .. Len(text) : text[i] = stream[s][i]
         /\ Len(stream'[s]) = Len(stream[s]) - Len(text)
         /\ \A i \in 1 .. Len(stream[s]) - Len(text) : stream'[s][i] = stream[s][i + Len(text)]
<1>0. /\ stream[s] \in Seq(WordsTo(s)) /\ Len(stream[s]) \in Nat
      /\ stream \in [Sides -> Seq(Words)] /\ stream[s] \in Seq(Words) /\ Other(s) \in Sides \ {s}
  BY TwoSides DEF PQTypes
<1>1. PICK k \in 1 .. n : k <= Len(stream[s]) /\ text = SubSeq(stream[s], 1, k)
  BY <1>0 DEF Gets
<1>2. text \in Seq(WordsTo(s)) /\ text \in Seq(Words) /\ Len(text) = k
      /\ \A i \in 1 .. k : text[i] = stream[s][i]
  <2>1. \A i \in 1 .. k : stream[s][i] \in WordsTo(s) /\ stream[s][i] \in Words
    BY <1>0, <1>1
  <2>2. 1 \in Int /\ k \in Int
    BY <1>1
  <2>3. /\ SubSeq(stream[s], 1, k) \in Seq(WordsTo(s)) /\ SubSeq(stream[s], 1, k) \in Seq(Words)
        /\ Len(SubSeq(stream[s], 1, k)) = k
        /\ \A i \in 1 .. k : SubSeq(stream[s], 1, k)[i] = stream[s][i]
    BY <1>1, <2>1, <2>2, SubSeqProperties
  <2> QED
    BY <1>1, <2>3
<1>3. k \in 0 .. Len(stream[s])
  BY <1>0, <1>1
<1>4. stream' = [stream EXCEPT ![s] = SubSeq(stream[s], k + 1, Len(stream[s]))]
  BY <1>2 DEF Take
<1>5. /\ SubSeq(stream[s], k + 1, Len(stream[s])) \in Seq(WordsTo(s))
      /\ Len(SubSeq(stream[s], k + 1, Len(stream[s]))) = Len(stream[s]) - k
      /\ \A i \in 1 .. Len(stream[s]) - k :
           SubSeq(stream[s], k + 1, Len(stream[s]))[i] = stream[s][i + k]
  <2>1. \A i \in k + 1 .. Len(stream[s]) : stream[s][i] \in WordsTo(s)
    BY <1>0, <1>3
  <2>2. k + 1 \in Int /\ Len(stream[s]) \in Int /\ k \in Nat
    BY <1>0, <1>3
  <2>3. /\ SubSeq(stream[s], k + 1, Len(stream[s])) \in Seq(WordsTo(s))
        /\ Len(SubSeq(stream[s], k + 1, Len(stream[s]))) = Len(stream[s]) - k
    BY <1>0, <1>3, <2>1, <2>2, SubSeqProperties
  <2>4. ASSUME NEW i \in 1 .. Len(stream[s]) - k
        PROVE  SubSeq(stream[s], k + 1, Len(stream[s]))[i] = stream[s][i + k]
    <3>1. i + k = k + 1 + i - 1
      BY <2>2
    <3> QED
      BY <1>0, <1>3, <2>1, <2>2, <3>1, SubSeqProperties
  <2> QED
    BY <2>3, <2>4
<1>6. stream'[s] = SubSeq(stream[s], k + 1, Len(stream[s])) /\ stream'[Other(s)] = stream[Other(s)]
  BY <1>0, <1>4
<1>7. stream' \in [Sides -> Seq(Words)] /\ \A u \in Sides : stream'[u] \in Seq(WordsTo(u))
  BY <1>4, <1>5, StreamsTyped
<1> QED
  BY <1>1, <1>2, <1>3, <1>5, <1>6, <1>7

\* What a side sends for its key.
LEMMA FrameParts ==
  ASSUME NEW w \in Sides
  PROVE  /\ Frame(w) \in Seq(Words) /\ Len(Frame(w)) = FrameWords
         /\ KeyLength(w) \in Seq(Words) /\ Len(KeyLength(w)) = LengthWords
         /\ PublicKey(w) \in Seq(Words) /\ Len(PublicKey(w)) = KeyWords
         /\ \A i \in 1 .. LengthWords : Frame(w)[i] = KeyLength(w)[i]
         /\ \A i \in 1 .. KeyWords : Frame(w)[LengthWords + i] = PublicKey(w)[i]
<1>1. \A n \in Nat : Word("key_length", w, n) \in Words /\ Word("key", w, n) \in Words
  BY DEF Word, Words, Kinds
<1>2. KeyLength(w) \in Seq(Words) /\ Len(KeyLength(w)) = LengthWords
  BY <1>1, Sizes DEF KeyLength
<1>3. PublicKey(w) \in Seq(Words) /\ Len(PublicKey(w)) = KeyWords
  BY <1>1, Sizes DEF PublicKey
<1>4. /\ Frame(w) \in Seq(Words) /\ Len(Frame(w)) = LengthWords + KeyWords
      /\ \A i \in 1 .. LengthWords + KeyWords :
           Frame(w)[i] = IF i <= LengthWords THEN KeyLength(w)[i]
                                             ELSE PublicKey(w)[i - LengthWords]
  BY <1>2, <1>3, ConcatProperties DEF Frame
<1>5. ASSUME NEW i \in 1 .. KeyWords PROVE Frame(w)[LengthWords + i] = PublicKey(w)[i]
  <2>1. LengthWords + i \in 1 .. LengthWords + KeyWords /\ ~ (LengthWords + i <= LengthWords)
        /\ (LengthWords + i) - LengthWords = i
    BY Sizes
  <2> QED
    BY <1>4, <2>1
<1>6. ASSUME NEW i \in 1 .. LengthWords PROVE Frame(w)[i] = KeyLength(w)[i]
  <2>1. i \in 1 .. LengthWords + KeyWords /\ i <= LengthWords
    BY Sizes
  <2> QED
    BY <1>4, <2>1
<1> QED
  BY <1>2, <1>3, <1>4, <1>5, <1>6, Sizes

\* The first word of a stream, and what is behind it.
LEMMA StreamTail ==
  ASSUME PQTypes, NEW s \in Sides, stream[s] # << >>, stream' = [stream EXCEPT ![s] = Tail(@)]
  PROVE  /\ stream' \in [Sides -> Seq(Words)] /\ \A u \in Sides : stream'[u] \in Seq(WordsTo(u))
         /\ stream'[s] = Tail(stream[s]) /\ stream'[Other(s)] = stream[Other(s)]
         /\ 1 \in 0 .. Len(stream[s]) /\ Len(stream'[s]) = Len(stream[s]) - 1
         /\ \A i \in 1 .. Len(stream[s]) - 1 : stream'[s][i] = stream[s][i + 1]
<1>1. stream[s] \in Seq(WordsTo(s)) /\ stream \in [Sides -> Seq(Words)]
  BY DEF PQTypes
<1>2. Tail(stream[s]) \in Seq(WordsTo(s))
  BY <1>1, HeadTailProperties
<1>3. /\ 1 \in 0 .. Len(stream[s]) /\ Len(Tail(stream[s])) = Len(stream[s]) - 1
      /\ \A i \in 1 .. Len(stream[s]) - 1 : Tail(stream[s])[i] = stream[s][i + 1]
  BY <1>1, HeadTailProperties
<1>4. stream' = [stream EXCEPT ![s] = Tail(stream[s])]
  OBVIOUS
<1>5. stream'[s] = Tail(stream[s]) /\ stream'[Other(s)] = stream[Other(s)]
  BY <1>1, <1>4, TwoSides
<1> QED
  BY <1>2, <1>3, <1>4, <1>5, StreamsTyped

\* The texts that a side writes.
LEMMA Texts ==
  ASSUME NEW s \in Sides
  PROVE  /\ \A k \in {"request", "accept", "deny"} : << Word(k, s, 1) >> \in Seq(WordsTo(Other(s)))
         /\ KeyLength(s) \in Seq(WordsTo(Other(s))) /\ Len(KeyLength(s)) = LengthWords
         /\ TextLength(s) \in Seq(WordsTo(Other(s)))
         /\ PublicKey(s) \in Seq(WordsTo(Other(s))) /\ Len(PublicKey(s)) = KeyWords
         /\ FreshIV(s) \in Seq(WordsTo(Other(s)))
         /\ Encrypt(s) \in Seq(WordsTo(Other(s)))
         /\ KeyWords \in Nat /\ KeyWords > 0 /\ MessageWords = 2
<1>0. KeyWords \in Nat /\ KeyWords > 0 /\ LengthWords \in Nat /\ IVWords \in Nat
      /\ TextLengthWords \in Nat /\ MessageWords = 2
  BY Sizes, TextLengthSize DEF MessageWords
<1>1. Other(Other(s)) = s
  BY TwoSides
<1>2. ASSUME NEW k \in Kinds, NEW n \in Nat
      PROVE  Word(k, s, n) \in WordsTo(Other(s))
  BY <1>1, <1>2 DEF Word, WordsTo, Words
<1>3. \A k \in {"request", "accept", "deny"} : Word(k, s, 1) \in WordsTo(Other(s))
  BY <1>2 DEF Kinds
<1>4. KeyLength(s) \in Seq(WordsTo(Other(s))) /\ Len(KeyLength(s)) = LengthWords
      /\ TextLength(s) \in Seq(WordsTo(Other(s)))
  <2>1. \A n \in Nat : /\ Word("key_length", s, n) \in WordsTo(Other(s))
                       /\ Word("text_length", s, n) \in WordsTo(Other(s))
    BY <1>2 DEF Kinds
  <2> QED
    BY <1>0, <2>1 DEF KeyLength, TextLength
<1>5. \A n \in Nat : /\ Word("key", s, n) \in WordsTo(Other(s))
                     /\ Word("iv", s, n) \in WordsTo(Other(s))
                     /\ Word("text", s, n) \in WordsTo(Other(s))
  BY <1>2 DEF Kinds
<1>6. PublicKey(s) \in Seq(WordsTo(Other(s))) /\ Len(PublicKey(s)) = KeyWords
  BY <1>0, <1>5 DEF PublicKey
<1>7. FreshIV(s) \in Seq(WordsTo(Other(s)))
  BY <1>0, <1>5 DEF FreshIV
<1>8. Encrypt(s) \in Seq(WordsTo(Other(s)))
  BY <1>0, <1>5 DEF Encrypt
<1> QED
  BY <1>0, <1>3, <1>4, <1>6, <1>7, <1>8

\* A side that is to read a key holds its end of the connection open.
LEMMA NotLeft ==
  ASSUME StreamInv, NEW r \in Sides, AheadOfKey(r)
  PROVE  ~ HasLeft(r)
  BY DEF StreamInv, Course, AheadOfKey, ToReadKey, HasLeft, Connected, HandshakeSteps

\* A side that gives up writes and reads no more.
LEMMA SideOver ==
  ASSUME StreamInv, NEW s \in Sides, PQTypes', Stays(Other(s)),
         owner'[s] = "over", sender'[s] = sender[s], receiver'[s] = receiver[s],
         peer_key'[s] = peer_key[s], enc_ctx'[s] = enc_ctx[s],
         (want'[s] = want[s] /\ size'[s] = size[s]) \/ KeyRead(s)',
         \/ stream'[Other(s)] = stream[Other(s)]
         \/ Aligned(Other(s))'
  PROVE  StreamInv'
<1>1. Course(s)'
  <2>1. Course(s) /\ KeyRead(s)
    BY DEF StreamInv, Course
  <2>2. KeyRead(s)'
    BY <2>1, KeyReadSame
  <2> QED
    BY <2>1, <2>2 DEF Course, OwnerLabels, Connected, HandshakeSteps, ToReadKey
<1>2. Aligned(s)'
  BY DEF Aligned, AheadOfKey, ToReadKey
<1>3. Writes(s)' => Writes(s) /\ Written(s)' = Written(s)
  <2> SUFFICES ASSUME sender[s] # "none" PROVE Writes(s) /\ Written(s)' = Written(s)
    BY DEF Writes
  <2>1. owner[s] \in {"receive_thread", "join", "over"}
    BY DEF StreamInv, Course
  <2> QED
    BY <2>1 DEF Writes, Written, BeforeOwnKey
<1> QED
  BY <1>1, <1>2, <1>3, SideStep

\* A step of the handshake that neither reads nor writes.
LEMMA QuietOwner ==
  ASSUME StreamInv, NEW s \in Sides, NEW l, << owner[s], l >> \in Following(s),
         owner' = [owner EXCEPT ![s] = l], heap' \in [Sides -> SUBSET Blocks],
         in_chat' \in [Sides -> BOOLEAN],
         UNCHANGED << up, sender, receiver, sock, stream, reset, want, size, peer_key >>,
         owner[s] \in {"chat_info", "keypair", "derive"},
         \/ enc_ctx' = enc_ctx
         \/ /\ owner[s] = "derive"
            /\ enc_ctx' = [enc_ctx EXCEPT ![s] =
                 [aes_key |-> Decapsulate(s, peer_key[s]), iv |-> FreshIV(s)]]
  PROVE  StreamInv'
<1> USE DEF StreamInv
<1>0. owner \in [Sides -> OwnerLabels] /\ DOMAIN enc_ctx = Sides /\ Course(s)
      /\ Other(s) \in Sides \ {s}
  BY TwoSides DEF PQTypes
<1>1. /\ l \in {"keypair", "send_length", "read_length", "send_iv"}
      /\ l = "send_iv" => owner[s] = "derive"
      /\ owner[s] = "derive" => l \notin ToReadKey(s)
      /\ owner'[s] = l
  BY <1>0 DEF Following, ToReadKey
<1>2. PQTypes'
  BY <1>0, <1>1 DEF PQTypes, OwnerLabels, HandshakeSteps
<1>3. Course(s)'
  <2>1. enc_ctx'[s] # NoContext =>
          /\ enc_ctx'[s] = [aes_key |-> Decapsulate(s, peer_key'[s]), iv |-> FreshIV(s)]
          /\ l \notin ToReadKey(s) \cup {"derive"}
    <3>1. CASE enc_ctx' = enc_ctx /\ enc_ctx[s] # NoContext
      <4>1. owner[s] \notin ToReadKey(s) \cup {"derive"}
        BY <1>0, <3>1 DEF Course
      <4> QED
        BY <4>1 DEF ToReadKey
    <3>2. CASE enc_ctx' = enc_ctx /\ enc_ctx[s] = NoContext
      BY <3>2
    <3>3. CASE enc_ctx' # enc_ctx
      BY <1>0, <1>1, <3>3
    <3> QED
      BY <3>1, <3>2, <3>3
  <2>2. KeyRead(s)'
    BY <1>0, <1>1, KeyReadSame DEF Course
  <2>3. l \in ToReadKey(s) => owner[s] \in ToReadKey(s)
    BY <1>1 DEF ToReadKey
  <2> QED
    BY <1>0, <1>1, <2>1, <2>2, <2>3 DEF Course, Connected, OwnerLabels, HandshakeSteps
<1>4. Aligned(s)'
  <2>1. l \in ToReadKey(s) => owner[s] \in ToReadKey(s) /\ Consumed(s)' = Consumed(s)
    BY <1>1 DEF ToReadKey, Consumed
  <2>2. Writes(Other(s))' = Writes(Other(s)) /\ Written(Other(s))' = Written(Other(s))
    BY <1>0 DEF Writes, Written
  <2> QED
    BY <1>1, <2>1, <2>2, AlignedSame
<1>5. Stays(Other(s))
  BY <1>0 DEF Stays
<1>6. Writes(s) /\ Written(s)' = Written(s)
  BY <1>1 DEF Writes, Written, BeforeOwnKey, Following
<1> QED
  BY <1>2, <1>3, <1>4, <1>5, <1>6, SideStep

\* A step of the handshake that writes: the other side gets the text behind
\* what it has got, or has no use for it any more.
LEMMA WritingOwner ==
  ASSUME StreamInv, NEW s \in Sides, NEW text \in Seq(WordsTo(Other(s))), NEW l \in OwnerLabels,
         owner' = [owner EXCEPT ![s] = l], owner[s] \in Connected, l \in Connected,
         heap' \in [Sides -> SUBSET Blocks], in_chat' \in [Sides -> BOOLEAN],
         reset' \in [Sides -> BOOLEAN], up' \in [Sides -> BOOLEAN],
         up'[Other(s)] = up[Other(s)], up'[s] => up[s],
         UNCHANGED << sender, receiver, sock, want, size, peer_key, enc_ctx >>,
         \/ stream' = [stream EXCEPT ![Other(s)] = @ \o text]
         \/ stream' = stream /\ HasLeft(Other(s)),
         l \in ToReadKey(s) => owner[s] \in ToReadKey(s) /\ Consumed(s)' = Consumed(s),
         owner[s] \notin ToReadKey(s) \cup {"derive"} => l \notin ToReadKey(s) \cup {"derive"},
         IF s = Caller THEN l \notin {"accept", "request", "question"} ELSE l \notin {"dial", "reply"},
         l # "read_key", enc_ctx[s] # NoContext => l \notin ToReadKey(s) \cup {"derive"},
         Written(s) < FrameWords + 1 =>
           \A j \in 1 .. Len(text) : Says(s, Written(s) + j, text[j]),
         IF Written(s)' < FrameWords + 1 THEN Written(s)' = Written(s) + Len(text)
                                       ELSE Written(s) + Len(text) >= FrameWords + 1
  PROVE  StreamInv'
<1> DEFINE o == Other(s)
<1>0. o \in Sides \ {s} /\ Other(o) = s /\ owner \in [Sides -> OwnerLabels]
      /\ stream \in [Sides -> Seq(Words)] /\ stream[o] \in Seq(WordsTo(o))
  BY TwoSides DEF StreamInv, PQTypes
<1>1. stream[o] \o text \in Seq(WordsTo(o))
  BY <1>0, ConcatProperties
<1>2. stream' \in [Sides -> Seq(Words)] /\ \A u \in Sides : stream'[u] \in Seq(WordsTo(u))
  <2>1. CASE stream' = [stream EXCEPT ![o] = @ \o text]
    <3>1. stream' = [stream EXCEPT ![o] = stream[o] \o text]
      BY <2>1
    <3> QED
      BY <1>0, <1>1, <3>1, StreamsTyped DEF StreamInv
  <2>2. CASE stream' = stream
    BY <2>2 DEF StreamInv, PQTypes
  <2> QED
    BY <2>1, <2>2
<1>3. PQTypes'
  BY <1>2 DEF StreamInv, PQTypes
<1>4. Stays(o)
  BY <1>0 DEF Stays
<1>5. Course(s)'
  <2>1. Course(s) /\ KeyRead(s) /\ owner'[s] = l
    BY <1>0 DEF StreamInv, Course
  <2>2. KeyRead(s)'
    BY <2>1, KeyReadSame
  <2> QED
    BY <1>0, <2>1, <2>2 DEF Course, Connected, HandshakeSteps
<1>6. stream'[s] = stream[s]
  BY <1>0
<1>7. Aligned(s)'
  <2>1. Writes(o)' = Writes(o) /\ Written(o)' = Written(o) /\ owner'[s] = l
    BY <1>0 DEF Writes, Written
  <2> QED
    BY <1>6, <2>1, AlignedSame DEF StreamInv
<1>8. Aligned(o)'
  <2>1. CASE AheadOfKey(o)
    <3>1. stream'[o] = stream[o] \o text
      BY <1>0, <2>1, NotLeft
    <3>2. Writes(s)
      BY DEF Writes, Connected, HandshakeSteps
    <3>3. Aligned(o)
      BY <1>0 DEF StreamInv
    <3> QED
      BY <1>4, <3>1, <3>2, <3>3, AlignedAdded DEF StreamInv
  <2>2. CASE ~ AheadOfKey(o)
    BY <1>4, <2>2 DEF Aligned, AheadOfKey, Stays
  <2> QED
    BY <2>1, <2>2
<1> QED
  BY <1>3, <1>4, <1>5, <1>7, <1>8, SideStep

\* What a write() by a side with an open connection does.
Wrote(s, text) ==
  /\ \/ stream' = [stream EXCEPT ![Other(s)] = @ \o text]
     \/ stream' = stream /\ HasLeft(Other(s))
  /\ reset' \in [Sides -> BOOLEAN] /\ up' \in [Sides -> BOOLEAN]
  /\ up'[Other(s)] = up[Other(s)] /\ (up'[s] => up[s])

\* SendLength, SendKey and SendIV write the words that come next.
LEMMA SendingOwner ==
  ASSUME StreamInv, NEW s \in Sides, SendLength(s) \/ SendKey(s) \/ SendIV(s)
  PROVE  StreamInv'
<1> USE DEF StreamInv
<1>0. /\ owner \in [Sides -> OwnerLabels] /\ heap \in [Sides -> SUBSET Blocks]
      /\ up \in [Sides -> BOOLEAN] /\ reset \in [Sides -> BOOLEAN]
      /\ in_chat \in [Sides -> BOOLEAN] /\ sock \in [Sides -> {"none", "open", "closed"}]
      /\ Other(s) \in Sides \ {s} /\ Course(s)
  BY TwoSides DEF PQTypes
<1>1. /\ owner[s] \in {"send_length", "send_key", "send_iv"} /\ sock[s] = "open"
      /\ UNCHANGED << sender, receiver, want, size, peer_key, enc_ctx >>
  BY <1>0 DEF SendLength, SendKey, SendIV, Course, Connected, HandshakeSteps
<1>2. ASSUME NEW blocks, GiveUp(s, blocks), UNCHANGED stream,
             reset' \in [Sides -> BOOLEAN], up' \in [Sides -> BOOLEAN], up' = up
      PROVE  StreamInv'
  <2>1. PQTypes'
    BY <1>0, <1>1, <1>2 DEF GiveUp, Goes, PQTypes, OwnerLabels
  <2>2. Stays(Other(s)) /\ owner'[s] = "over"
    BY <1>0, <1>1, <1>2 DEF GiveUp, Goes, Stays, PQTypes
  <2> QED
    BY <1>1, <1>2, <2>1, <2>2, SideOver
<1>3. ASSUME NEW text \in Seq(WordsTo(Other(s))), Wrote(s, text), NEW blocks \in SUBSET Blocks,
             Proceed(s, blocks),
             Written(s) < FrameWords + 1 =>
               \A j \in 1 .. Len(text) : Says(s, Written(s) + j, text[j]),
             owner[s] = "send_length" => Len(text) = LengthWords,
             owner[s] = "send_key" => Len(text) = KeyWords
      PROVE  StreamInv'
  <2>1. PICK l : owner' = [owner EXCEPT ![s] = l] /\ << owner[s], l >> \in Following(s)
    BY <1>3, ProceedsTo
  <2>2. heap' = [heap EXCEPT ![s] = blocks] /\ UNCHANGED << sock, in_chat >>
    BY <1>3, ProceedsTo
  <2>3. /\ l \in {"send_key", "read_length", "send_iv", "send_thread"}
        /\ owner[s] = "send_length" => l = "send_key"
        /\ l = "read_length" => s = Caller /\ owner[s] = "send_key"
        /\ owner[s] = "send_key" => l = IF s = Caller THEN "read_length" ELSE "send_iv"
        /\ owner[s] = "send_iv" => l = "send_thread"
    BY <1>1, <2>1, TwoSides DEF Following
  <2>4. owner'[s] = l
    BY <1>0, <2>1
  <2>5. IF Written(s)' < FrameWords + 1 THEN Written(s)' = Written(s) + Len(text)
                                      ELSE Written(s) + Len(text) >= FrameWords + 1
    <3>1. CASE owner[s] = "send_length"
      <4>1. Written(s) = 1 /\ Written(s)' = LengthWords + 1
        BY <2>3, <2>4, <3>1, TwoSides DEF Written, BeforeOwnKey
      <4>2. Len(text) = LengthWords
        BY <1>3, <3>1
      <4> QED
        BY <4>1, <4>2, Sizes
    <3>2. CASE owner[s] = "send_key"
      <4>1. Written(s) = LengthWords + 1 /\ Written(s)' = FrameWords + 1
        BY <2>3, <2>4, <3>2, TwoSides DEF Written, BeforeOwnKey
      <4> QED
        BY <1>3, <3>2, <4>1, Sizes
    <3>3. CASE owner[s] = "send_iv"
      <4>1. Written(s) = FrameWords + 1 /\ Written(s)' = FrameWords + 1
        BY <2>3, <2>4, <3>3, TwoSides DEF Written, BeforeOwnKey
      <4>2. Len(text) \in Nat
        OBVIOUS
      <4> QED
        BY <3>3, <4>1, <4>2, Sizes
    <3> QED
      BY <1>1, <3>1, <3>2, <3>3
  <2>6. l \in ToReadKey(s) => owner[s] \in ToReadKey(s) /\ Consumed(s)' = Consumed(s)
    BY <1>1, <2>3, <2>4, TwoSides DEF ToReadKey, Consumed
  <2>7. /\ owner[s] \notin ToReadKey(s) \cup {"derive"} => l \notin ToReadKey(s) \cup {"derive"}
        /\ enc_ctx[s] # NoContext => l \notin ToReadKey(s) \cup {"derive"}
    BY <1>0, <1>1, <2>3, TwoSides DEF ToReadKey, Course
  <2>8. /\ owner[s] \in Connected /\ l \in Connected /\ l \in OwnerLabels /\ l # "read_key"
        /\ IF s = Caller THEN l \notin {"accept", "request", "question"}
                         ELSE l \notin {"dial", "reply"}
    BY <1>1, <2>3 DEF Connected, HandshakeSteps, OwnerLabels
  <2>9. heap' \in [Sides -> SUBSET Blocks] /\ in_chat' \in [Sides -> BOOLEAN]
    BY <1>0, <2>2
  <2> QED
    BY <1>1, <1>3, <2>1, <2>2, <2>5, <2>6, <2>7, <2>8, <2>9, WritingOwner DEF Wrote
<1>4. CASE SendLength(s)
  <2>1. \/ Wrote(s, KeyLength(s)) /\ Proceed(s, heap[s])
        \/ GiveUp(s, FreedWithKey(s)) /\ UNCHANGED << stream, up, reset >>
        \/ GiveUp(s, FreedWithKey(s)) /\ up' = up /\ UNCHANGED << stream, reset >>
    BY <1>0, <1>1, <1>4 DEF SendLength, Write, Wrote
  <2>2. owner[s] = "send_length" /\ Written(s) = 1 /\ Len(KeyLength(s)) = LengthWords
    BY <1>4, TwoSides, Texts DEF SendLength, Written, BeforeOwnKey
  <2>3. \A j \in 1 .. LengthWords : Says(s, 1 + j, KeyLength(s)[j])
    <3> SUFFICES ASSUME NEW j \in 1 .. LengthWords PROVE KeyLength(s)[j] = Frame(s)[(1 + j) - 1]
      BY DEF Says
    <3>1. (1 + j) - 1 = j
      BY Sizes
    <3> QED
      BY <3>1, FrameParts
  <2>4. \A j \in 1 .. Len(KeyLength(s)) : Says(s, Written(s) + j, KeyLength(s)[j])
    BY <2>2, <2>3
  <2> QED
    BY <1>0, <1>2, <1>3, <2>1, <2>2, <2>4, Texts
<1>5. CASE SendKey(s)
  <2>1. \/ Wrote(s, PublicKey(s)) /\ Proceed(s, heap[s])
        \/ GiveUp(s, FreedWithKey(s)) /\ UNCHANGED << stream, up, reset >>
    BY <1>0, <1>1, <1>5 DEF SendKey, Write, Wrote
  <2>2. owner[s] = "send_key" /\ Written(s) = LengthWords + 1 /\ Len(PublicKey(s)) = KeyWords
    BY <1>5, TwoSides, Texts DEF SendKey, Written, BeforeOwnKey
  <2>3. \A j \in 1 .. KeyWords : Says(s, (LengthWords + 1) + j, PublicKey(s)[j])
    <3> SUFFICES ASSUME NEW j \in 1 .. KeyWords
                 PROVE  PublicKey(s)[j] = Frame(s)[((LengthWords + 1) + j) - 1]
      BY DEF Says
    <3>1. ((LengthWords + 1) + j) - 1 = LengthWords + j
      BY Sizes
    <3> QED
      BY <3>1, FrameParts
  <2>4. \A j \in 1 .. Len(PublicKey(s)) : Says(s, Written(s) + j, PublicKey(s)[j])
    BY <2>2, <2>3
  <2> QED
    BY <1>0, <1>2, <1>3, <2>1, <2>2, <2>4, Texts
<1>6. CASE SendIV(s)
  <2>1. \/ Wrote(s, FreshIV(s)) /\ Proceed(s, {"chat"})
        \/ GiveUp(s, Blocks) /\ UNCHANGED << stream, up, reset >>
    BY <1>0, <1>1, <1>6 DEF SendIV, Write, Wrote
  <2>2. owner[s] = "send_iv" /\ ~ (Written(s) < FrameWords + 1) /\ {"chat"} \in SUBSET Blocks
    <3>1. owner[s] = "send_iv" /\ {"chat"} \in SUBSET Blocks
      BY <1>6 DEF SendIV, Blocks
    <3>2. Written(s) = FrameWords + 1
      BY <3>1, TwoSides DEF Written, BeforeOwnKey
    <3> QED
      BY <3>1, <3>2, Sizes
  <2> QED
    BY <1>0, <1>2, <1>3, <2>1, <2>2, Texts
<1> QED
  BY <1>4, <1>5, <1>6

\* A way out of the handshake, whatever was read before it.
LEMMA OwnerGivesUp ==
  ASSUME StreamInv, NEW s \in Sides,
         owner' = [owner EXCEPT ![s] = "over"], sock' \in [Sides -> {"none", "open", "closed"}],
         sock'[Other(s)] = sock[Other(s)], heap' \in [Sides -> SUBSET Blocks],
         in_chat' \in [Sides -> BOOLEAN], want' \in [Sides -> Lengths],
         want'[Other(s)] = want[Other(s)],
         size' \in [Sides -> Seq(Words)], \A u \in Sides : size'[u] \in Seq(WordsTo(u)),
         \A u \in Sides : Len(size'[u]) <= LengthWords, size'[Other(s)] = size[Other(s)],
         (want'[s] = want[s] /\ size'[s] = size[s]) \/ KeyRead(s)',
         UNCHANGED << up, sender, receiver, reset, peer_key, enc_ctx >>,
         stream' \in [Sides -> Seq(Words)], \A u \in Sides : stream'[u] \in Seq(WordsTo(u)),
         stream'[Other(s)] = stream[Other(s)]
  PROVE  StreamInv'
<1> USE DEF StreamInv
<1>1. owner \in [Sides -> OwnerLabels] /\ Other(s) \in Sides \ {s}
  BY TwoSides DEF PQTypes
<1>2. PQTypes'
  BY <1>1 DEF PQTypes, OwnerLabels
<1>3. Stays(Other(s)) /\ owner'[s] = "over"
  BY <1>1 DEF Stays
<1> QED
  BY <1>2, <1>3, SideOver

\* The steps that allocate, derive and start threads, and the end of a chat.
LEMMA InnerOwner ==
  ASSUME StreamInv, NEW s \in Sides,
         MakeChat(s) \/ MakeKeys(s) \/ Derive(s) \/ StartThread(s) \/ Join(s)
  PROVE  StreamInv'
<1> USE DEF StreamInv
<1>0. /\ owner \in [Sides -> OwnerLabels] /\ heap \in [Sides -> SUBSET Blocks]
      /\ in_chat \in [Sides -> BOOLEAN] /\ sock \in [Sides -> {"none", "open", "closed"}]
      /\ want \in [Sides -> Lengths] /\ stream \in [Sides -> Seq(Words)]
      /\ \A u \in Sides : stream[u] \in Seq(WordsTo(u))
      /\ size \in [Sides -> Seq(Words)]
      /\ \A u \in Sides : size[u] \in Seq(WordsTo(u)) /\ Len(size[u]) <= LengthWords
      /\ Other(s) \in Sides \ {s} /\ Course(s)
  BY TwoSides DEF PQTypes
<1>1. UNCHANGED << up, stream, reset, want, size, peer_key >>
  BY DEF MakeChat, MakeKeys, Derive, StartThread, Join
<1>2. ASSUME NEW blocks, GiveUp(s, blocks), UNCHANGED << sender, receiver, enc_ctx >>
      PROVE  StreamInv'
  <2>1. /\ owner' = [owner EXCEPT ![s] = "over"] /\ sock' = [sock EXCEPT ![s] = "closed"]
        /\ heap' = [heap EXCEPT ![s] = heap[s] \ blocks]
        /\ in_chat' = [in_chat EXCEPT ![s] = FALSE]
    BY <1>2 DEF GiveUp, Goes
  <2> QED
    BY <1>0, <1>1, <1>2, <2>1, OwnerGivesUp
<1>3. CASE MakeChat(s)
  <2>1. CASE GiveUp(s, {})
    BY <1>2, <1>3, <2>1 DEF MakeChat
  <2>2. CASE owner' = [owner EXCEPT ![s] = "keypair"] /\ heap' = [heap EXCEPT ![s] = @ \cup {"chat"}]
             /\ in_chat' = [in_chat EXCEPT ![s] = TRUE] /\ UNCHANGED sock
    <3>1. << owner[s], "keypair" >> \in Following(s) /\ owner[s] = "chat_info"
          /\ UNCHANGED << sender, receiver, enc_ctx >>
      BY <1>3 DEF MakeChat, Following
    <3>2. heap' \in [Sides -> SUBSET Blocks] /\ in_chat' \in [Sides -> BOOLEAN]
      BY <1>0, <2>2 DEF Blocks
    <3> QED
      BY <1>1, <2>2, <3>1, <3>2, QuietOwner
  <2> QED
    BY <1>3, <2>1, <2>2 DEF MakeChat
<1>4. CASE MakeKeys(s)
  <2>0. owner[s] = "keypair" /\ UNCHANGED << sender, receiver, enc_ctx >>
    BY <1>4 DEF MakeKeys
  <2>1. CASE GiveUp(s, {"chat"})
    BY <1>2, <2>0, <2>1
  <2>2. CASE Proceed(s, heap[s] \cup KeyPair)
    <3>1. PICK l : owner' = [owner EXCEPT ![s] = l] /\ << owner[s], l >> \in Following(s)
      BY <2>2, ProceedsTo
    <3>2. heap' = [heap EXCEPT ![s] = heap[s] \cup KeyPair] /\ UNCHANGED << sock, in_chat >>
      BY <2>2, ProceedsTo
    <3>3. heap' \in [Sides -> SUBSET Blocks]
      BY <1>0, <3>2 DEF Blocks
    <3> QED
      BY <1>0, <1>1, <2>0, <3>1, <3>2, <3>3, QuietOwner
  <2>3. ASSUME owner' = [owner EXCEPT ![s] = "over"], sock' = [sock EXCEPT ![s] = "closed"],
               in_chat' = [in_chat EXCEPT ![s] = FALSE],
               NEW kept \in SUBSET KeyPair, heap' = [heap EXCEPT ![s] = kept]
        PROVE  StreamInv'
    <3>1. heap' \in [Sides -> SUBSET Blocks]
      BY <1>0, <2>3 DEF Blocks
    <3> QED
      BY <1>0, <1>1, <2>0, <2>3, <3>1, OwnerGivesUp
  <2> QED
    BY <1>4, <2>1, <2>2, <2>3 DEF MakeKeys, Goes
<1>5. CASE Derive(s)
  <2>0. owner[s] = "derive" /\ UNCHANGED << sender, receiver >>
    BY <1>5 DEF Derive
  <2>1. CASE GiveUp(s, Blocks) /\ UNCHANGED enc_ctx
    BY <1>2, <2>0, <2>1
  <2>2. CASE /\ Proceed(s, heap[s])
             /\ enc_ctx' = [enc_ctx EXCEPT ![s] =
                  [aes_key |-> Decapsulate(s, peer_key[s]), iv |-> FreshIV(s)]]
    <3>1. PICK l : owner' = [owner EXCEPT ![s] = l] /\ << owner[s], l >> \in Following(s)
      BY <2>2, ProceedsTo
    <3>2. heap' = [heap EXCEPT ![s] = heap[s]] /\ UNCHANGED << sock, in_chat >>
      BY <2>2, ProceedsTo
    <3>3. heap' \in [Sides -> SUBSET Blocks]
      BY <1>0, <3>2
    <3> QED
      BY <1>0, <1>1, <2>0, <2>2, <3>1, <3>2, <3>3, QuietOwner
  <2> QED
    BY <1>5, <2>1, <2>2 DEF Derive
<1>6. CASE StartThread(s)
  <2>0. owner[s] \in {"send_thread", "receive_thread"} /\ UNCHANGED enc_ctx
    BY <1>6 DEF StartThread
  <2>1. CASE GiveUp(s, {"chat"}) /\ UNCHANGED << sender, receiver >>
    BY <1>2, <2>0, <2>1
  <2>2. CASE /\ Proceed(s, heap[s])
             /\ \/ /\ owner[s] = "send_thread" /\ sender' = [sender EXCEPT ![s] = "loop"]
                   /\ UNCHANGED receiver
                \/ owner[s] = "receive_thread" /\ Reads(s) /\ UNCHANGED sender
    <3>1. PICK l : owner' = [owner EXCEPT ![s] = l] /\ << owner[s], l >> \in Following(s)
      BY <2>2, ProceedsTo
    <3>2. heap' = [heap EXCEPT ![s] = heap[s]] /\ UNCHANGED << sock, in_chat >>
      BY <2>2, ProceedsTo
    <3>3. /\ l = IF owner[s] = "send_thread" THEN "receive_thread" ELSE "join"
          /\ owner'[s] = l
      BY <1>0, <2>0, <3>1, TwoSides DEF Following
    <3>4. PQTypes'
      <4>1. owner' \in [Sides -> OwnerLabels] /\ heap' \in [Sides -> SUBSET Blocks]
        BY <1>0, <3>1, <3>2, <3>3 DEF OwnerLabels, HandshakeSteps
      <4>2. /\ sender' \in [Sides -> {"none", "loop", "text", "end", "ended"}]
            /\ receiver' \in [Sides -> {"none", "length", "text", "end", "ended"}]
        BY <2>2 DEF PQTypes, Reads
      <4> QED
        BY <1>1, <2>0, <3>2, <4>1, <4>2 DEF PQTypes
    <3>5. Stays(Other(s))
      <4>1. sender'[Other(s)] = sender[Other(s)] /\ receiver'[Other(s)] = receiver[Other(s)]
        BY <1>0, <2>2 DEF PQTypes, Reads
      <4> QED
        BY <1>0, <1>1, <2>0, <3>1, <3>2, <4>1 DEF Stays
    <3>6. Course(s)'
      <4>1. /\ receiver'[s] # "none" => l = "join"
            /\ receiver'[s] = "none" => receiver[s] = "none"
        BY <1>0, <2>2, <3>3 DEF Course, PQTypes, Reads
      <4>2. KeyRead(s)'
        BY <1>0, <1>1, <3>3, <4>1, KeyReadSame DEF Course
      <4> QED
        BY <1>0, <1>1, <2>0, <3>2, <3>3, <4>1, <4>2
           DEF Course, Connected, HandshakeSteps, OwnerLabels, ToReadKey
    <3>7. Aligned(s)'
      BY <3>3 DEF Aligned, AheadOfKey, ToReadKey
    <3>8. Writes(s) /\ Written(s)' = Written(s)
      BY <2>0, <3>3 DEF Writes, Written, BeforeOwnKey
    <3> QED
      BY <1>1, <3>4, <3>5, <3>6, <3>7, <3>8, SideStep
  <2> QED
    BY <1>6, <2>1, <2>2 DEF StartThread
<1>7. CASE Join(s)
  BY <1>2, <1>7 DEF Join
<1> QED
  BY <1>3, <1>4, <1>5, <1>6, <1>7

\* What ReadLength takes is the length of the other side's key, or the beginning of
\* it, and what ReadKey takes is what was sent behind that.
LEMMA ReadingOwner ==
  ASSUME StreamInv, NEW s \in Sides, up[s], ReadLength(s) \/ ReadKey(s)
  PROVE  StreamInv'
<1> USE DEF StreamInv
<1> DEFINE o == Other(s)
<1>0. /\ owner \in [Sides -> OwnerLabels] /\ heap \in [Sides -> SUBSET Blocks]
      /\ in_chat \in [Sides -> BOOLEAN] /\ sock \in [Sides -> {"none", "open", "closed"}]
      /\ want \in [Sides -> Lengths] /\ stream \in [Sides -> Seq(Words)]
      /\ \A u \in Sides : stream[u] \in Seq(WordsTo(u))
      /\ size \in [Sides -> Seq(Words)] /\ peer_key \in [Sides -> Seq(Words)]
      /\ \A u \in Sides : /\ size[u] \in Seq(WordsTo(u)) /\ Len(size[u]) <= LengthWords
                           /\ peer_key[u] \in Seq(WordsTo(u))
      /\ o \in Sides \ {s} /\ Course(s) /\ Aligned(s)
  BY TwoSides DEF PQTypes
<1>1. owner[s] \in {"read_length", "read_key"} /\ UNCHANGED << up, sender, receiver, reset, enc_ctx >>
      /\ AheadOfKey(s)
  BY DEF ReadLength, ReadKey, AheadOfKey, ToReadKey
<1>2. peer_key[s] = << >> /\ KeyRead(s) /\ Placed(s) /\ enc_ctx[s] = NoContext
  BY <1>0, <1>1 DEF Course, KeyRead, AheadOfKey
<1>3. ASSUME NEW blocks, GiveUp(s, blocks), UNCHANGED peer_key,
             want' \in [Sides -> Lengths], want'[o] = want[o],
             size' \in [Sides -> Seq(Words)], \A u \in Sides : size'[u] \in Seq(WordsTo(u)),
             \A u \in Sides : Len(size'[u]) <= LengthWords, size'[o] = size[o],
             (want'[s] = want[s] /\ size'[s] = size[s]) \/ KeyRead(s)',
             stream' \in [Sides -> Seq(Words)], \A u \in Sides : stream'[u] \in Seq(WordsTo(u)),
             stream'[o] = stream[o]
      PROVE  StreamInv'
  <2>1. /\ owner' = [owner EXCEPT ![s] = "over"] /\ sock' = [sock EXCEPT ![s] = "closed"]
        /\ heap' = [heap EXCEPT ![s] = heap[s] \ blocks]
        /\ in_chat' = [in_chat EXCEPT ![s] = FALSE]
    BY <1>3 DEF GiveUp, Goes
  <2> QED
    BY <1>0, <1>1, <1>3, <2>1, OwnerGivesUp
<1>4. CASE ReadLength(s)
  <2>0. owner[s] = "read_length" /\ UNCHANGED peer_key
    BY <1>4 DEF ReadLength
  <2>1. CASE GiveUp(s, Blocks \ {"peer_public_key"}) /\ UNCHANGED << stream, want, size >>
    BY <1>0, <1>3, <2>0, <2>1
  <2>2. ASSUME NEW text \in Gets(s, LengthWords), Take(s, text),
               size' = [size EXCEPT ![s] = text],
               NEW n \in Found(s, text), want' = [want EXCEPT ![s] = n],
               \/ Proceed(s, heap[s] \cup {"peer_public_key"})
               \/ GiveUp(s, Blocks \ {"peer_public_key"})
        PROVE  StreamInv'
    <3>1. /\ stream' \in [Sides -> Seq(Words)] /\ \A u \in Sides : stream'[u] \in Seq(WordsTo(u))
          /\ stream'[o] = stream[o]
          /\ text \in Seq(Words) /\ text \in Seq(WordsTo(s))
          /\ Len(text) \in 1 .. LengthWords /\ Len(text) \in 0 .. Len(stream[s])
          /\ \A i \in 1 .. Len(text) : text[i] = stream[s][i]
          /\ Len(stream'[s]) = Len(stream[s]) - Len(text)
          /\ \A i \in 1 .. Len(stream[s]) - Len(text) : stream'[s][i] = stream[s][i + Len(text)]
      BY <1>0, <2>2, Sizes, StreamTaken
    <3>2. /\ want' \in [Sides -> Lengths] /\ want'[o] = want[o] /\ want'[s] = n /\ n \in Nat
          /\ text = KeyLength(o) => n = KeyWords
      BY <1>0, <2>2, Sizes DEF Found, Lengths, BufferWords
    <3>3. /\ size' \in [Sides -> Seq(Words)] /\ size'[o] = size[o] /\ size'[s] = text
          /\ \A u \in Sides : size'[u] \in Seq(WordsTo(u)) /\ Len(size'[u]) <= LengthWords
          /\ peer_key'[s] = << >>
      BY <1>0, <1>2, <2>0, <2>2, <3>1
    <3>4. \A i \in 1 .. Len(text) : text[i] = Frame(o)[i]
      <4> SUFFICES ASSUME NEW i \in 1 .. Len(text) PROVE text[i] = Frame(o)[i]
        OBVIOUS
      <4>1. Consumed(s) = 1
        BY <2>0 DEF Consumed
      <4>2. i \in 1 .. Len(stream[s]) /\ i + 1 \in 2 .. FrameWords + 1 /\ (i + 1) - 1 = i
        BY <3>1, Sizes
      <4>3. Says(o, i + 1, stream[s][i])
        BY <1>0, <1>1, <4>1, <4>2 DEF Aligned
      <4> QED
        BY <3>1, <4>2, <4>3 DEF Says
    <3>5. KeyRead(s)'
      <4>1. size'[s] \o peer_key'[s] = text
        BY <3>1, <3>3
      <4>2. Len(<< >>) = 0
        OBVIOUS
      <4>3. Placed(s)'
        BY <3>4, <4>1 DEF Placed
      <4> QED
        BY <3>2, <3>3, <4>2, <4>3, Sizes DEF KeyRead
    <3>6. CASE GiveUp(s, Blocks \ {"peer_public_key"})
      BY <1>3, <2>0, <3>1, <3>2, <3>3, <3>5, <3>6
    <3>7. CASE Proceed(s, heap[s] \cup {"peer_public_key"})
      <4>1. PICK l : owner' = [owner EXCEPT ![s] = l] /\ << owner[s], l >> \in Following(s)
        BY <3>7, ProceedsTo
      <4>2. heap' = [heap EXCEPT ![s] = heap[s] \cup {"peer_public_key"}]
            /\ UNCHANGED << sock, in_chat >>
        BY <3>7, ProceedsTo
      <4>3. l = "read_key" /\ owner'[s] = "read_key"
        BY <1>0, <2>0, <4>1 DEF Following
      <4>4. PQTypes'
        <5>1. owner' \in [Sides -> OwnerLabels] /\ heap' \in [Sides -> SUBSET Blocks]
          BY <1>0, <4>1, <4>2, <4>3 DEF OwnerLabels, HandshakeSteps, Blocks
        <5> QED
          BY <1>1, <2>0, <3>1, <3>2, <3>3, <4>2, <5>1 DEF PQTypes
      <4>5. Stays(o)
        BY <1>0, <1>1, <2>0, <3>2, <3>3, <4>1, <4>2 DEF Stays
      <4>6. Course(s)'
        BY <1>0, <1>1, <1>2, <2>0, <3>3, <3>5, <4>2, <4>3
           DEF Course, Connected, HandshakeSteps, OwnerLabels, ToReadKey
      <4>7. Aligned(s)'
        <5>1. Consumed(s)' = Consumed(s) + Len(text) /\ owner[s] \in ToReadKey(s)
          <6>1. Consumed(s) = 1 /\ Consumed(s)' = Len(text) + 1
            BY <2>0, <3>3, <4>3 DEF Consumed
          <6> QED
            BY <2>0, <3>1, <6>1 DEF ToReadKey
        <5>2. owner'[o] = owner[o] /\ sender'[o] = sender[o]
          BY <4>5 DEF Stays
        <5> QED
          BY <1>0, <1>1, <3>1, <5>1, <5>2, AlignedTaken
      <4>8. Writes(s) /\ Written(s)' = Written(s)
        BY <2>0, <4>3 DEF Writes, Written, BeforeOwnKey
      <4> QED
        BY <3>1, <4>4, <4>5, <4>6, <4>7, <4>8, SideStep
    <3> QED
      BY <2>2, <3>6, <3>7
  <2> QED
    BY <1>4, <2>1, <2>2 DEF ReadLength
<1>5. CASE ReadKey(s)
  <2>0. owner[s] = "read_key" /\ UNCHANGED << want, size >> /\ want[s] \in Nat
    BY <1>0, <1>5, Sizes DEF ReadKey, Lengths, BufferWords
  <2>1. CASE GiveUp(s, Blocks) /\ UNCHANGED << stream, peer_key >>
    BY <1>0, <1>3, <2>0, <2>1
  <2>2. ASSUME NEW text \in Gets(s, want[s]), Take(s, text),
               peer_key' = [peer_key EXCEPT ![s] = text], Proceed(s, heap[s])
        PROVE  StreamInv'
    <3>1. /\ stream' \in [Sides -> Seq(Words)] /\ \A u \in Sides : stream'[u] \in Seq(WordsTo(u))
          /\ stream'[o] = stream[o]
          /\ text \in Seq(Words) /\ text \in Seq(WordsTo(s))
          /\ Len(text) \in 1 .. want[s] /\ Len(text) \in 0 .. Len(stream[s])
          /\ \A i \in 1 .. Len(text) : text[i] = stream[s][i]
      <4>1. PQTypes /\ want[s] \in Nat /\ text \in Gets(s, want[s]) /\ Take(s, text)
        BY <2>0, <2>2
      <4> QED
        BY <4>1, StreamTaken
    <3>2. /\ peer_key' \in [Sides -> Seq(Words)] /\ peer_key'[s] = text /\ peer_key'[o] = peer_key[o]
          /\ \A u \in Sides : peer_key'[u] \in Seq(WordsTo(u))
      BY <1>0, <2>2, <3>1
    <3>3. KeyRead(s)'
      <4>1. size[s] \in Seq(Words) /\ Len(size[s]) \in Nat /\ Len(text) \in Nat
        BY <1>0, <3>1
      <4>2. \A j \in 1 .. Len(size[s]) : j <= FrameWords => size[s][j] = Frame(o)[j]
        <5>1. size[s] \o << >> = size[s]
          BY <4>1
        <5> QED
          BY <1>2, <5>1 DEF Placed
      <4>3. /\ Len(size[s] \o text) = Len(size[s]) + Len(text)
            /\ \A j \in 1 .. Len(size[s]) + Len(text) :
                 (size[s] \o text)[j] = IF j <= Len(size[s]) THEN size[s][j]
                                                             ELSE text[j - Len(size[s])]
        BY <3>1, <4>1, ConcatProperties
      <4>4. ASSUME NEW i \in 1 .. Len(text), i + Len(size[s]) <= FrameWords
            PROVE  text[i] = Frame(o)[i + Len(size[s])]
        <5>1. Consumed(s) = Len(size[s]) + 1
          BY <2>0 DEF Consumed
        <5>2. /\ i \in 1 .. Len(stream[s]) /\ i + (Len(size[s]) + 1) \in 2 .. FrameWords + 1
              /\ (i + (Len(size[s]) + 1)) - 1 = i + Len(size[s])
          BY <3>1, <4>1, <4>4, Sizes
        <5>3. Says(o, i + (Len(size[s]) + 1), stream[s][i])
          BY <1>0, <1>1, <5>1, <5>2 DEF Aligned
        <5> QED
          BY <3>1, <5>2, <5>3 DEF Says
      <4>5. ASSUME NEW j \in 1 .. Len(size[s] \o text), j <= FrameWords
            PROVE  (size[s] \o text)[j] = Frame(o)[j]
        <5>1. CASE j <= Len(size[s])
          BY <4>1, <4>2, <4>3, <4>5, <5>1
        <5>2. CASE ~ (j <= Len(size[s]))
          <6>1. j - Len(size[s]) \in 1 .. Len(text) /\ (j - Len(size[s])) + Len(size[s]) = j
            BY <4>1, <4>3, <5>2
          <6> QED
            BY <4>3, <4>4, <4>5, <5>2, <6>1
        <5> QED
          BY <5>1, <5>2
      <4>6. Placed(s)'
        BY <2>0, <3>2, <4>5 DEF Placed
      <4>7. Len(text) <= want[s] /\ (size[s] = KeyLength(o) => want[s] = KeyWords)
        BY <1>2, <2>0, <3>1 DEF KeyRead
      <4> QED
        BY <2>0, <3>2, <4>6, <4>7 DEF KeyRead
    <3>4. PICK l : owner' = [owner EXCEPT ![s] = l] /\ << owner[s], l >> \in Following(s)
      BY <2>2, ProceedsTo
    <3>5. heap' = [heap EXCEPT ![s] = heap[s]] /\ UNCHANGED << sock, in_chat >>
      BY <2>2, ProceedsTo
    <3>6. owner'[s] = "derive" /\ l = "derive"
      BY <1>0, <2>0, <3>4 DEF Following
    <3>7. PQTypes'
      <4>1. owner' \in [Sides -> OwnerLabels] /\ heap' \in [Sides -> SUBSET Blocks]
        BY <1>0, <3>4, <3>5, <3>6 DEF OwnerLabels, HandshakeSteps
      <4> QED
        BY <1>1, <2>0, <3>1, <3>2, <3>5, <4>1 DEF PQTypes
    <3>8. Stays(o)
      BY <1>0, <1>1, <2>0, <3>2, <3>4, <3>5 DEF Stays
    <3>9. Course(s)'
      BY <1>0, <1>1, <1>2, <2>0, <3>3, <3>5, <3>6
         DEF Course, Connected, HandshakeSteps, OwnerLabels, ToReadKey
    <3>10. Aligned(s)'
      BY <3>6 DEF Aligned, AheadOfKey, ToReadKey
    <3>11. Writes(s) /\ Written(s)' = Written(s)
      BY <2>0, <3>6 DEF Writes, Written, BeforeOwnKey
    <3> QED
      BY <3>1, <3>7, <3>8, <3>9, <3>10, <3>11, SideStep
  <2> QED
    BY <1>5, <2>0, <2>1, <2>2 DEF ReadKey
<1> QED
  BY <1>4, <1>5

-----------------------------------------------------------------------------
(* The meeting, the chat, and the theorem.                                 *)

\* Until it has a connection a side says one word and hears one.
LEMMA MeetingAligned ==
  ASSUME StreamInv, (up[Caller] /\ CallStep) \/ (up[Callee] /\ CalledStep)
  PROVE  StreamInv'
<1> USE DEF StreamInv
<1>0. /\ owner \in [Sides -> OwnerLabels] /\ heap \in [Sides -> SUBSET Blocks]
      /\ in_chat \in [Sides -> BOOLEAN] /\ sock \in [Sides -> {"none", "open", "closed"}]
      /\ want \in [Sides -> Lengths] /\ stream \in [Sides -> Seq(Words)]
      /\ up \in [Sides -> BOOLEAN] /\ reset \in [Sides -> BOOLEAN]
      /\ \A u \in Sides : stream[u] \in Seq(WordsTo(u)) /\ Course(u) /\ Aligned(u)
      /\ size \in [Sides -> Seq(Words)]
      /\ \A u \in Sides : size[u] \in Seq(WordsTo(u)) /\ Len(size[u]) <= LengthWords
      /\ Caller \in Sides /\ Callee \in Sides /\ Caller # Callee
      /\ Other(Caller) = Callee /\ Other(Callee) = Caller
  BY TwoSides DEF PQTypes
<1>1. ASSUME NEW s \in Sides, owner' = [owner EXCEPT ![s] = "over"],
             sock' = sock \/ sock' = [sock EXCEPT ![s] = "closed"],
             heap' \in [Sides -> SUBSET Blocks], in_chat' \in [Sides -> BOOLEAN],
             UNCHANGED << up, sender, receiver, reset, want, size, peer_key, enc_ctx >>,
             stream' \in [Sides -> Seq(Words)], \A u \in Sides : stream'[u] \in Seq(WordsTo(u)),
             stream'[Other(s)] = stream[Other(s)]
      PROVE  StreamInv'
  BY <1>0, <1>1, TwoSides, OwnerGivesUp
<1>2. ASSUME NEW s \in Sides, GiveUp(s, {}), UNCHANGED << up, sender, receiver, reset, want,
                                                          size, peer_key, enc_ctx >>,
             stream' \in [Sides -> Seq(Words)], \A u \in Sides : stream'[u] \in Seq(WordsTo(u)),
             stream'[Other(s)] = stream[Other(s)]
      PROVE  StreamInv'
  BY <1>0, <1>1, <1>2 DEF GiveUp, Goes
<1>3. ASSUME NEW s \in Sides, NEW l, owner' = [owner EXCEPT ![s] = l],
             \/ s = Caller /\ owner[s] = "reply" /\ l = "chat_info" /\ UNCHANGED sock
             \/ s = Callee /\ owner[s] = "request" /\ l = "question" /\ UNCHANGED sock,
             UNCHANGED << up, sender, receiver, reset, heap, in_chat, want, size, peer_key, enc_ctx >>,
             stream[s] # << >>, stream' = [stream EXCEPT ![s] = Tail(@)]
      PROVE  StreamInv'
  <2>1. owner'[s] = l /\ l \in OwnerLabels /\ Other(s) \in Sides \ {s}
    BY <1>0, <1>3, TwoSides DEF OwnerLabels, HandshakeSteps
  <2>2. /\ stream' \in [Sides -> Seq(Words)] /\ \A u \in Sides : stream'[u] \in Seq(WordsTo(u))
        /\ stream'[s] = Tail(stream[s]) /\ stream'[Other(s)] = stream[Other(s)]
    BY <1>3, StreamTail
  <2>3. PQTypes'
    BY <1>0, <1>3, <2>1, <2>2 DEF PQTypes
  <2>4. Stays(Other(s))
    BY <1>0, <1>3, <2>1 DEF Stays
  <2>5. Course(s)'
    <3>1. KeyRead(s)'
      BY <1>0, <1>3, <2>1, KeyReadSame DEF Course
    <3> QED
      BY <1>0, <1>3, <2>1, <3>1 DEF Course, Connected, HandshakeSteps, OwnerLabels, ToReadKey
  <2>6. Consumed(s)' = Consumed(s) + 1 /\ owner[s] \in ToReadKey(s)
    BY <1>0, <1>3, <2>1 DEF Consumed, ToReadKey
  <2>7. Aligned(s)'
    <3>1. owner'[Other(s)] = owner[Other(s)] /\ sender'[Other(s)] = sender[Other(s)]
      BY <2>4 DEF Stays
    <3> QED
      BY <1>0, <1>3, <2>6, <3>1, StreamTail, AlignedTaken
  <2>8. Writes(s) /\ Written(s)' = Written(s)
    BY <1>0, <1>3, <2>1 DEF Writes, Written, BeforeOwnKey
  <2> QED
    BY <2>2, <2>3, <2>4, <2>5, <2>7, <2>8, SideStep
<1>4. CASE Dial
  <2>0. owner[Caller] = "dial"
        /\ UNCHANGED << up, sender, receiver, reset, heap, in_chat, want, size, peer_key, enc_ctx >>
    BY <1>4 DEF Dial
  <2>1. CASE owner' = [owner EXCEPT ![Caller] = "over"] /\ UNCHANGED << sock, stream >>
    BY <1>0, <1>1, <2>0, <2>1
  <2>2. CASE /\ owner' = [owner EXCEPT ![Caller] = "reply"]
             /\ sock' = [sock EXCEPT ![Caller] = "open"]
             /\ stream' = [stream EXCEPT ![Callee] = @ \o << Word("request", Caller, 1) >>]
    <3> DEFINE text == << Word("request", Caller, 1) >>
    <3>1. text \in Seq(WordsTo(Callee)) /\ Len(text) = 1
      BY <1>0, Texts
    <3>2. stream[Callee] \o text \in Seq(WordsTo(Callee))
      BY <1>0, <3>1, ConcatProperties
    <3>3. stream' = [stream EXCEPT ![Callee] = stream[Callee] \o text]
      BY <2>2
    <3> HIDE DEF text
    <3>4. stream' \in [Sides -> Seq(Words)] /\ \A u \in Sides : stream'[u] \in Seq(WordsTo(u))
      BY <1>0, <3>2, <3>3, StreamsTyped
    <3>5. stream'[Callee] = stream[Callee] \o text /\ stream'[Caller] = stream[Caller]
          /\ owner'[Caller] = "reply" /\ sock'[Caller] = "open"
      BY <1>0, <2>2, <3>3
    <3>6. PQTypes'
      BY <1>0, <2>0, <2>2, <3>4 DEF PQTypes, OwnerLabels
    <3>7. Stays(Callee)
      BY <1>0, <2>0, <2>2 DEF Stays
    <3>8. Course(Caller)'
      BY <1>0, <2>0, <3>5, KeyReadSame DEF Course, Connected, HandshakeSteps, OwnerLabels, ToReadKey
    <3>9. Aligned(Caller)'
      <4>1. Writes(Callee)' = Writes(Callee) /\ Written(Callee)' = Written(Callee)
        BY <3>7 DEF Writes, Written, Stays
      <4>2. Consumed(Caller)' = Consumed(Caller) /\ owner[Caller] \in ToReadKey(Caller)
        BY <2>0, <3>5 DEF Consumed, ToReadKey
      <4> QED
        BY <1>0, <2>0, <3>5, <4>1, <4>2, AlignedSame
    <3>10. Writes(Caller) /\ Written(Caller) = 0 /\ Written(Caller)' = 1
      BY <1>0, <2>0, <3>5 DEF Writes, Written, BeforeOwnKey
    <3>11. \A j \in 1 .. Len(text) : Says(Caller, Written(Caller) + j, text[j])
      BY <3>1, <3>10 DEF Says
    <3>12. Aligned(Callee)'
      <4>1. Aligned(Other(Caller)) /\ Stays(Other(Caller)) /\ text \in Seq(WordsTo(Other(Caller)))
            /\ stream'[Other(Caller)] = stream[Other(Caller)] \o text
        BY <1>0, <3>1, <3>5, <3>7
      <4>2. IF Written(Caller)' < FrameWords + 1
            THEN Written(Caller)' = Written(Caller) + Len(text)
            ELSE Written(Caller) + Len(text) >= FrameWords + 1
        BY <3>1, <3>10, Sizes
      <4>3. PQTypes /\ Caller \in Sides /\ Aligned(Other(Caller))'= Aligned(Callee)'
        BY <1>0
      <4> QED
        BY <3>10, <3>11, <4>1, <4>2, <4>3, AlignedAdded
    <3> QED
      BY <1>0, <3>6, <3>7, <3>8, <3>9, <3>12, SideStep
  <2> QED
    BY <1>4, <2>1, <2>2 DEF Dial, Goes
<1>5. CASE Accept
  <2>0. owner[Callee] = "accept"
        /\ UNCHANGED << up, sender, receiver, stream, reset, want, size, peer_key, enc_ctx >>
    BY <1>5 DEF Accept
  <2>1. CASE GiveUp(Callee, {})
    BY <1>0, <1>2, <2>0, <2>1
  <2>2. CASE owner' = [owner EXCEPT ![Callee] = "request"]
             /\ sock' = [sock EXCEPT ![Callee] = "open"] /\ UNCHANGED << heap, in_chat >>
    <3>1. owner'[Callee] = "request" /\ sock'[Callee] = "open"
      BY <1>0, <2>2
    <3>2. PQTypes'
      BY <1>0, <2>0, <2>2 DEF PQTypes, OwnerLabels
    <3>3. Stays(Caller)
      BY <1>0, <2>0, <2>2 DEF Stays
    <3>4. Course(Callee)'
      BY <1>0, <2>0, <3>1, KeyReadSame DEF Course, Connected, HandshakeSteps, OwnerLabels, ToReadKey
    <3>5. Aligned(Callee)'
      <4>1. Writes(Caller)' = Writes(Caller) /\ Written(Caller)' = Written(Caller)
        BY <3>3 DEF Writes, Written, Stays
      <4>2. Consumed(Callee)' = Consumed(Callee) /\ owner[Callee] \in ToReadKey(Callee)
        BY <1>0, <2>0, <3>1 DEF Consumed, ToReadKey
      <4>3. PQTypes /\ Aligned(Callee) /\ stream'[Callee] = stream[Callee] /\ up'[Callee] = up[Callee]
        BY <1>0, <2>0
      <4> QED
        BY <1>0, <4>1, <4>2, <4>3, AlignedSame
    <3>6. Writes(Callee) /\ Written(Callee)' = Written(Callee)
      BY <1>0, <2>0, <3>1 DEF Writes, Written, BeforeOwnKey
    <3> QED
      BY <1>0, <2>0, <3>2, <3>3, <3>4, <3>5, <3>6, SideStep
  <2> QED
    BY <1>5, <2>1, <2>2 DEF Accept, Goes
<1>6. CASE TakeRequest
  <2>0. owner[Callee] = "request"
        /\ UNCHANGED << up, sender, receiver, reset, want, size, peer_key, enc_ctx >>
    BY <1>6 DEF TakeRequest
  <2>1. CASE GiveUp(Callee, {}) /\ UNCHANGED stream
    BY <1>0, <1>2, <2>0, <2>1
  <2>2. CASE /\ stream[Callee] # << >> /\ stream' = [stream EXCEPT ![Callee] = Tail(@)]
             /\ owner' = [owner EXCEPT ![Callee] = "question"] /\ UNCHANGED << sock, heap, in_chat >>
    BY <1>0, <1>3, <2>0, <2>2
  <2> QED
    BY <1>6, <2>1, <2>2 DEF TakeRequest, Goes
<1>7. CASE TakeReply
  <2>0. owner[Caller] = "reply"
        /\ UNCHANGED << up, sender, receiver, reset, want, size, peer_key, enc_ctx >>
    BY <1>7 DEF TakeReply
  <2>1. CASE GiveUp(Caller, {}) /\ UNCHANGED stream
    BY <1>0, <1>2, <2>0, <2>1
  <2>2. CASE GiveUp(Caller, {}) /\ stream[Caller] # << >>
             /\ stream' = [stream EXCEPT ![Caller] = Tail(@)]
    <3>1. /\ stream' \in [Sides -> Seq(Words)] /\ \A u \in Sides : stream'[u] \in Seq(WordsTo(u))
          /\ stream'[Other(Caller)] = stream[Other(Caller)]
      BY <1>0, <2>2, StreamTail
    <3> QED
      BY <1>0, <1>2, <2>0, <2>2, <3>1
  <2>3. CASE /\ stream[Caller] # << >> /\ stream' = [stream EXCEPT ![Caller] = Tail(@)]
             /\ owner' = [owner EXCEPT ![Caller] = "chat_info"] /\ UNCHANGED << sock, heap, in_chat >>
    BY <1>0, <1>3, <2>0, <2>3
  <2> QED
    BY <1>7, <2>1, <2>2, <2>3 DEF TakeReply, Goes
<1>8. CASE Answer
  <2>0. owner[Callee] = "question" /\ UNCHANGED << sender, receiver, want, size, peer_key, enc_ctx >>
        /\ sock[Callee] = "open" /\ sender[Callee] = "none"
    <3>1. owner[Callee] = "question" /\ UNCHANGED << sender, receiver, want, size, peer_key, enc_ctx >>
      BY <1>8 DEF Answer
    <3>2. Course(Callee) /\ owner[Callee] \in Connected
      BY <1>0, <3>1 DEF Connected, HandshakeSteps
    <3> QED
      BY <3>1, <3>2 DEF Course
  <2>1. \/ /\ Wrote(Callee, << Word("accept", Callee, 1) >>)
           /\ Goes(Callee, "chat_info") /\ UNCHANGED << sock, heap, in_chat >>
        \/ Wrote(Callee, << Word("deny", Callee, 1) >>) /\ GiveUp(Callee, {})
    BY <1>0, <1>8, <2>0 DEF Answer, Write, Wrote
  <2>2. Written(Callee) = 0 /\ Writes(Callee)
    BY <1>0, <2>0 DEF Written, Writes, BeforeOwnKey
  <2>3. CASE /\ Wrote(Callee, << Word("accept", Callee, 1) >>)
             /\ Goes(Callee, "chat_info") /\ UNCHANGED << sock, heap, in_chat >>
    <3> DEFINE text == << Word("accept", Callee, 1) >>
    <3>1. text \in Seq(WordsTo(Other(Callee))) /\ Len(text) = 1 /\ Wrote(Callee, text)
      BY <1>0, <2>3, Texts
    <3> HIDE DEF text
    <3>2. owner'[Callee] = "chat_info" /\ owner' = [owner EXCEPT ![Callee] = "chat_info"]
      BY <1>0, <2>3 DEF Goes
    <3>3. Written(Callee)' = 1 /\ Consumed(Callee)' = Consumed(Callee)
          /\ owner[Callee] \in ToReadKey(Callee)
      BY <1>0, <2>0, <3>2 DEF Written, BeforeOwnKey, Consumed, ToReadKey
    <3>4. \A j \in 1 .. Len(text) : Says(Callee, 0 + j, text[j])
      BY <3>1 DEF Says
    <3>5. enc_ctx[Callee] = NoContext
      BY <1>0, <3>3 DEF Course
    <3>6. "chat_info" \in OwnerLabels /\ "chat_info" \in Connected /\ owner[Callee] \in Connected
      BY <2>0 DEF OwnerLabels, Connected, HandshakeSteps
    <3>7. IF Written(Callee)' < FrameWords + 1
          THEN Written(Callee)' = Written(Callee) + Len(text)
          ELSE Written(Callee) + Len(text) >= FrameWords + 1
      BY <2>2, <3>1, <3>3, Sizes
    <3> QED
      BY <1>0, <2>0, <2>2, <2>3, <3>1, <3>2, <3>3, <3>4, <3>5, <3>6, <3>7, WritingOwner DEF Wrote
  <2>4. CASE Wrote(Callee, << Word("deny", Callee, 1) >>) /\ GiveUp(Callee, {})
    <3> DEFINE text == << Word("deny", Callee, 1) >>
    <3>1. text \in Seq(WordsTo(Caller)) /\ Len(text) = 1 /\ Wrote(Callee, text)
      BY <1>0, <2>4, Texts
    <3> HIDE DEF text
    <3>2. stream[Caller] \o text \in Seq(WordsTo(Caller))
      BY <1>0, <3>1, ConcatProperties
    <3>3. \/ stream' = [stream EXCEPT ![Caller] = stream[Caller] \o text]
          \/ stream' = stream
      BY <1>0, <3>1 DEF Wrote
    <3>4. stream' \in [Sides -> Seq(Words)] /\ \A u \in Sides : stream'[u] \in Seq(WordsTo(u))
      BY <1>0, <3>2, <3>3, StreamsTyped
    <3>5. /\ owner' = [owner EXCEPT ![Callee] = "over"] /\ owner'[Callee] = "over"
          /\ sock' = [sock EXCEPT ![Callee] = "closed"]
          /\ heap' = [heap EXCEPT ![Callee] = heap[Callee] \ {}]
          /\ in_chat' = [in_chat EXCEPT ![Callee] = FALSE]
      BY <1>0, <2>4 DEF GiveUp, Goes
    <3>6. PQTypes'
      BY <1>0, <2>0, <3>1, <3>4, <3>5 DEF PQTypes, OwnerLabels, Wrote
    <3>7. Stays(Caller)
      BY <1>0, <2>0, <3>1, <3>5 DEF Stays, Wrote
    <3>8. CASE stream' = stream
      BY <1>0, <2>0, <3>5, <3>6, <3>7, <3>8, SideOver
    <3>9. CASE stream' = [stream EXCEPT ![Caller] = stream[Caller] \o text]
      <4>1. stream'[Caller] = stream[Caller] \o text
        BY <1>0, <3>9
      <4>2. ~ Writes(Callee)'
        BY <2>0, <3>5 DEF Writes
      <4>3. \A j \in 1 .. Len(text) : Says(Callee, 0 + j, text[j])
        BY <3>1 DEF Says
      <4>4. Aligned(Other(Callee)) /\ Stays(Other(Callee)) /\ text \in Seq(WordsTo(Other(Callee)))
            /\ stream'[Other(Callee)] = stream[Other(Callee)] \o text
        BY <1>0, <3>1, <3>7, <4>1
      <4>5. Aligned(Caller)'
        BY <1>0, <2>2, <4>2, <4>3, <4>4, AlignedAdded
      <4> QED
        BY <1>0, <2>0, <3>5, <3>6, <3>7, <4>5, SideOver
    <3> QED
      BY <3>3, <3>8, <3>9
  <2> QED
    BY <2>1, <2>3, <2>4
<1> QED
  BY <1>4, <1>5, <1>6, <1>7, <1>8 DEF CallStep, CalledStep

\* The threads of a chat write behind the key and read behind it.
LEMMA ChatAligned ==
  ASSUME StreamInv, NEW s \in Sides, up[s], SenderStep(s) \/ ReceiverStep(s)
  PROVE  StreamInv'
<1> USE DEF StreamInv
<1> DEFINE o == Other(s)
<1>0. /\ owner \in [Sides -> OwnerLabels] /\ heap \in [Sides -> SUBSET Blocks]
      /\ in_chat \in [Sides -> BOOLEAN] /\ sock \in [Sides -> {"none", "open", "closed"}]
      /\ sender \in [Sides -> {"none", "loop", "text", "end", "ended"}]
      /\ receiver \in [Sides -> {"none", "length", "text", "end", "ended"}]
      /\ want \in [Sides -> Lengths] /\ stream \in [Sides -> Seq(Words)]
      /\ up \in [Sides -> BOOLEAN] /\ reset \in [Sides -> BOOLEAN]
      /\ \A u \in Sides : stream[u] \in Seq(WordsTo(u))
      /\ Course(s) /\ Aligned(s) /\ Course(o) /\ Aligned(o) /\ PQTypes
      /\ o \in Sides \ {s} /\ Other(o) = s
  BY TwoSides DEF PQTypes
<1>1. ASSUME owner'[s] = owner[s], owner[s] \in {"receive_thread", "join", "over"},
             sender[s] # "none" <=> sender'[s] # "none",
             receiver[s] # "none" <=> receiver'[s] # "none",
             want' = want \/ receiver[s] # "none",
             size' = size, peer_key' = peer_key, enc_ctx' = enc_ctx
      PROVE  Course(s)' /\ Aligned(s)'
  <2>1. Course(s)'
    <3>1. KeyRead(s)'
      BY <1>0, <1>1, KeyReadSame DEF Course
    <3> QED
      BY <1>0, <1>1, <3>1 DEF Course, Connected, HandshakeSteps, ToReadKey
  <2>2. Aligned(s)'
    BY <1>1 DEF Aligned, AheadOfKey, ToReadKey
  <2> QED
    BY <2>1, <2>2
<1>2. ASSUME NEW text \in Seq(WordsTo(o)), NEW l \in {"loop", "text", "end"}, SenderGoes(s, l),
             sender[s] \in {"loop", "text"},
             \/ stream' = [stream EXCEPT ![o] = stream[o] \o text]
             \/ stream' = stream,
             up' \in [Sides -> BOOLEAN], up'[o] = up[o], reset' \in [Sides -> BOOLEAN],
             UNCHANGED << owner, receiver, sock, heap, in_chat, want, size, peer_key, enc_ctx >>
      PROVE  StreamInv'
  <2>1. sender' = [sender EXCEPT ![s] = l] /\ sender'[s] = l /\ sender'[o] = sender[o]
    BY <1>0, <1>2 DEF SenderGoes
  <2>2. owner[s] \in {"receive_thread", "join", "over"}
    BY <1>0, <1>2 DEF Course
  <2>3. Course(s)' /\ Aligned(s)'
    BY <1>1, <1>2, <2>1, <2>2
  <2>4. stream' \in [Sides -> Seq(Words)] /\ \A u \in Sides : stream'[u] \in Seq(WordsTo(u))
    <3>1. stream[o] \o text \in Seq(WordsTo(o))
      BY <1>0, ConcatProperties
    <3> QED
      BY <1>0, <1>2, <3>1, StreamsTyped
  <2>5. PQTypes'
    BY <1>0, <1>2, <2>1, <2>4 DEF PQTypes
  <2>6. Stays(o)
    BY <1>0, <1>2, <2>1 DEF Stays
  <2>7. Writes(s) /\ Writes(s)' /\ Written(s) = FrameWords + 1 /\ Written(s)' = FrameWords + 1
    BY <1>0, <1>2, <2>1, <2>2 DEF Writes, Written, BeforeOwnKey
  <2>8. CASE stream' = stream
    BY <2>3, <2>5, <2>6, <2>7, <2>8, SideStep
  <2>9. CASE stream' = [stream EXCEPT ![o] = stream[o] \o text]
    <3>1. stream'[o] = stream[o] \o text
      BY <1>0, <2>9
    <3>2. ~ (Written(s) < FrameWords + 1) /\ Len(text) \in Nat
      BY <2>7, Sizes
    <3>3. IF Written(s)' < FrameWords + 1 THEN Written(s)' = Written(s) + Len(text)
                                        ELSE Written(s) + Len(text) >= FrameWords + 1
      BY <2>7, <3>2, Sizes
    <3>4. Aligned(o)'
      BY <1>0, <2>6, <2>7, <3>1, <3>2, <3>3, AlignedAdded
    <3> QED
      BY <2>3, <2>5, <2>6, <3>4, SideStep
  <2> QED
    BY <1>2, <2>8, <2>9
<1>3. ASSUME CloseChat(s), owner' = owner, owner[s] \in {"receive_thread", "join", "over"},
             \/ sender' = [sender EXCEPT ![s] = "ended"] /\ sender[s] = "end" /\ receiver' = receiver
             \/ receiver' = [receiver EXCEPT ![s] = "ended"] /\ receiver[s] = "end" /\ sender' = sender,
             UNCHANGED << up, stream, reset, want, size, peer_key, enc_ctx >>
      PROVE  StreamInv'
  <2>1. /\ sock' = [sock EXCEPT ![s] = "closed"] /\ heap' = [heap EXCEPT ![s] = heap[s] \ {"chat"}]
        /\ in_chat' = [in_chat EXCEPT ![s] = FALSE]
    BY <1>3 DEF CloseChat
  <2>2. PQTypes'
    <3>1. /\ sock' \in [Sides -> {"none", "open", "closed"}]
          /\ heap' \in [Sides -> SUBSET Blocks] /\ in_chat' \in [Sides -> BOOLEAN]
      BY <1>0, <2>1
    <3>2. /\ sender' \in [Sides -> {"none", "loop", "text", "end", "ended"}]
          /\ receiver' \in [Sides -> {"none", "length", "text", "end", "ended"}]
      BY <1>0, <1>3
    <3> QED
      BY <1>0, <1>3, <3>1, <3>2 DEF PQTypes
  <2>3. Stays(o)
    BY <1>0, <1>3, <2>1 DEF Stays
  <2>4. Course(s)' /\ Aligned(s)'
    BY <1>0, <1>1, <1>3
  <2>5. Writes(s)' => Writes(s) /\ Written(s)' = Written(s)
    BY <1>0, <1>3 DEF Writes, Written
  <2> QED
    BY <1>3, <2>2, <2>3, <2>4, <2>5, SideStep
<1>4. ASSUME receiver[s] \in {"length", "text"}, NEW l \in {"length", "text", "end"},
             receiver' = [receiver EXCEPT ![s] = l],
             up' \in [Sides -> BOOLEAN], up'[o] = up[o],
             want' \in [Sides -> Lengths], want'[o] = want[o],
             stream' \in [Sides -> Seq(Words)], \A u \in Sides : stream'[u] \in Seq(WordsTo(u)),
             stream'[o] = stream[o],
             UNCHANGED << owner, sender, sock, reset, heap, in_chat, size, peer_key, enc_ctx >>
      PROVE  StreamInv'
  <2>1. owner[s] \in {"join", "over"}
    BY <1>0, <1>4 DEF Course
  <2>2. PQTypes'
    BY <1>0, <1>4 DEF PQTypes
  <2>3. Stays(o)
    BY <1>0, <1>4 DEF Stays
  <2>4. Course(s)' /\ Aligned(s)'
    BY <1>0, <1>1, <1>4, <2>1
  <2>5. Writes(s)' => Writes(s) /\ Written(s)' = Written(s)
    BY <1>4 DEF Writes, Written
  <2> QED
    BY <1>4, <2>2, <2>3, <2>4, <2>5, SideStep
<1>5. CASE Type(s)
  <2>1. sender[s] = "loop" /\ UNCHANGED << owner, receiver, sock, heap, in_chat, want, size, peer_key, enc_ctx >>
    BY <1>5 DEF Type
  <2>2. CASE SenderGoes(s, "end") /\ UNCHANGED << up, reset, stream >>
    BY <1>0, <1>2, <2>1, <2>2, Texts
  <2>3. CASE Write(s, TextLength(s), SenderGoes(s, "text"), SenderGoes(s, "end"))
    <3>1. TextLength(s) \in Seq(WordsTo(o))
      BY Texts
    <3>2. /\ SenderGoes(s, "text") \/ SenderGoes(s, "end")
          /\ \/ stream' = [stream EXCEPT ![o] = stream[o] \o TextLength(s)]
             \/ stream' = stream
          /\ up' \in [Sides -> BOOLEAN] /\ up'[o] = up[o] /\ reset' \in [Sides -> BOOLEAN]
      BY <1>0, <2>3 DEF Write
    <3> QED
      BY <1>2, <2>1, <3>1, <3>2
  <2> QED
    BY <1>5, <2>2, <2>3 DEF Type
<1>6. CASE SendText(s)
  <2>1. sender[s] = "text" /\ UNCHANGED << owner, receiver, sock, heap, in_chat, want, size, peer_key, enc_ctx >>
    BY <1>6 DEF SendText
  <2>2. Encrypt(s) \in Seq(WordsTo(o))
    BY Texts
  <2>3. /\ SenderGoes(s, "loop") \/ SenderGoes(s, "end")
        /\ \/ stream' = [stream EXCEPT ![o] = stream[o] \o Encrypt(s)]
           \/ stream' = stream
        /\ up' \in [Sides -> BOOLEAN] /\ up'[o] = up[o] /\ reset' \in [Sides -> BOOLEAN]
    BY <1>0, <1>6 DEF SendText, Write
  <2> QED
    BY <1>2, <2>1, <2>2, <2>3
<1>7. CASE SenderEnds(s)
  <2>1. owner[s] \in {"receive_thread", "join", "over"}
    BY <1>0, <1>7 DEF SenderEnds, Course
  <2> QED
    BY <1>3, <1>7, <2>1 DEF SenderEnds, SenderGoes
<1>8. CASE TakeLength(s)
  <2>0. receiver[s] = "length"
        /\ UNCHANGED << up, owner, sender, sock, reset, heap, in_chat, size, peer_key, enc_ctx >>
    BY <1>8 DEF TakeLength
  <2>1. CASE receiver' = [receiver EXCEPT ![s] = "end"] /\ UNCHANGED << stream, want >>
    BY <1>0, <1>4, <2>0, <2>1
  <2>2. ASSUME NEW text \in Gets(s, TextLengthWords), Take(s, text),
               NEW n \in Found(s, text), want' = [want EXCEPT ![s] = n],
               NEW l \in {"text", "end"}, receiver' = [receiver EXCEPT ![s] = l]
        PROVE  StreamInv'
    <3>1. /\ stream' \in [Sides -> Seq(Words)] /\ \A u \in Sides : stream'[u] \in Seq(WordsTo(u))
          /\ stream'[o] = stream[o]
      BY <1>0, <2>2, Sizes, TextLengthSize, StreamTaken
    <3>2. want' \in [Sides -> Lengths] /\ want'[o] = want[o]
      BY <1>0, <2>2 DEF Found
    <3> QED
      BY <1>0, <1>4, <2>0, <2>2, <3>1, <3>2
  <2> QED
    BY <1>8, <2>1, <2>2 DEF TakeLength, TakesFor
<1>9. CASE TakeText(s)
  <2>0. receiver[s] = "text" /\ want' = [want EXCEPT ![s] = 0]
        /\ UNCHANGED << owner, sender, sock, reset, heap, in_chat, size, peer_key, enc_ctx >>
    BY <1>9 DEF TakeText
  <2>1. want' \in [Sides -> Lengths] /\ want'[o] = want[o] /\ want[s] \in Nat
    BY <1>0, <2>0, Sizes DEF Lengths, BufferWords
  <2>2. CASE receiver' = [receiver EXCEPT ![s] = "end"] /\ UNCHANGED << up, stream >>
    BY <1>0, <1>4, <2>0, <2>1, <2>2
  <2>3. ASSUME NEW text \in Gets(s, want[s]), Take(s, text),
               NEW l \in {"length", "end"}, receiver' = [receiver EXCEPT ![s] = l],
               up' = up \/ up' = [up EXCEPT ![s] = FALSE]
        PROVE  StreamInv'
    <3>1. /\ stream' \in [Sides -> Seq(Words)] /\ \A u \in Sides : stream'[u] \in Seq(WordsTo(u))
          /\ stream'[o] = stream[o]
      BY <1>0, <2>1, <2>3, StreamTaken
    <3>2. up' \in [Sides -> BOOLEAN] /\ up'[o] = up[o]
      BY <1>0, <2>3
    <3> QED
      BY <1>0, <1>4, <2>0, <2>1, <2>3, <3>1, <3>2
  <2>4. \/ receiver' = [receiver EXCEPT ![s] = "end"] /\ UNCHANGED << up, stream >>
        \/ \E text \in Gets(s, want[s]) :
             /\ Take(s, text)
             /\ \E l \in {"length", "end"} : receiver' = [receiver EXCEPT ![s] = l]
             /\ up' = up \/ up' = [up EXCEPT ![s] = FALSE]
    BY <1>9 DEF TakeText, Reads
  <2> QED
    BY <2>2, <2>3, <2>4
<1>10. CASE ReceiverEnds(s)
  <2>1. owner[s] \in {"receive_thread", "join", "over"}
    BY <1>0, <1>10 DEF ReceiverEnds, Course
  <2> QED
    BY <1>3, <1>10, <2>1 DEF ReceiverEnds
<1> QED
  BY <1>5, <1>6, <1>7, <1>8, <1>9, <1>10 DEF SenderStep, ReceiverStep

\* Whatever is read, written, fails or vanishes, the streams stay aligned.
LEMMA StreamsAligned == PQSpec => []StreamInv
<1>1. PQInit => StreamInv
  <2> SUFFICES ASSUME PQInit PROVE StreamInv
    OBVIOUS
  <2>0. /\ KeyWords \in Nat /\ 0 \in Lengths /\ FrameWords \in Nat /\ FrameWords > 0
        /\ Len(<< >>) = 0 /\ 0 <= LengthWords
    BY Sizes DEF Lengths, BufferWords
  <2>1. PQTypes
    <3>1. << >> \in Seq(Words) /\ \A s \in Sides : << >> \in Seq(WordsTo(s))
      OBVIOUS
    <3>2. \A s \in Sides : stream[s] = << >> /\ size[s] = << >> /\ peer_key[s] = << >>
      BY DEF PQInit
    <3>3. /\ stream \in [Sides -> Seq(Words)] /\ size \in [Sides -> Seq(Words)]
          /\ peer_key \in [Sides -> Seq(Words)]
      BY <3>1 DEF PQInit
    <3>4. /\ up \in [Sides -> BOOLEAN] /\ owner \in [Sides -> OwnerLabels]
          /\ sender \in [Sides -> {"none", "loop", "text", "end", "ended"}]
          /\ receiver \in [Sides -> {"none", "length", "text", "end", "ended"}]
          /\ sock \in [Sides -> {"none", "open", "closed"}] /\ reset \in [Sides -> BOOLEAN]
          /\ heap \in [Sides -> SUBSET Blocks] /\ in_chat \in [Sides -> BOOLEAN]
          /\ want \in [Sides -> Lengths] /\ DOMAIN enc_ctx = Sides
      BY <2>0 DEF PQInit, OwnerLabels
    <3>5. \A s \in Sides : /\ stream[s] \in Seq(WordsTo(s)) /\ size[s] \in Seq(WordsTo(s))
                           /\ Len(size[s]) <= LengthWords /\ peer_key[s] \in Seq(WordsTo(s))
      BY <2>0, <3>1, <3>2
    <3> QED
      BY <3>3, <3>4, <3>5 DEF PQTypes
  <2>2. ASSUME NEW s \in Sides PROVE Course(s)
    <3>1. size[s] = << >> /\ peer_key[s] = << >> /\ want[s] = 0 /\ owner[s] # "read_key"
      BY TwoSides DEF PQInit
    <3>2. Len(<< >>) = 0 /\ << >> \o << >> = << >>
      OBVIOUS
    <3>3. KeyRead(s)
      BY <3>1, <3>2, Sizes DEF KeyRead, Placed
    <3> QED
      BY <3>1, <3>3, TwoSides DEF PQInit, Course, OwnerLabels, Connected, HandshakeSteps, NoContext
  <2>3. ASSUME NEW s \in Sides PROVE Aligned(s)
    <3>1. Other(s) \in Sides /\ stream[s] = << >> /\ owner[s] \in {"dial", "accept"}
          /\ owner[Other(s)] \in {"dial", "accept"}
      BY TwoSides DEF PQInit
    <3>2. Written(Other(s)) = 0 /\ Consumed(s) = 0 /\ Len(stream[s]) = 0
      BY <3>1 DEF Written, BeforeOwnKey, Consumed
    <3> QED
      BY <2>0, <3>2 DEF Aligned
  <2> QED
    BY <2>1, <2>2, <2>3 DEF StreamInv
<1>2. StreamInv /\ [PQNext]_pq_vars => StreamInv'
  <2> SUFFICES ASSUME StreamInv, [PQNext]_pq_vars PROVE StreamInv'
    OBVIOUS
  <2>1. CASE (up[Caller] /\ CallStep) \/ (up[Callee] /\ CalledStep)
    BY <2>1, MeetingAligned
  <2>2. ASSUME NEW s \in Sides, up[s], OwnerStep(s) PROVE StreamInv'
    BY <2>2, InnerOwner, SendingOwner, ReadingOwner DEF OwnerStep
  <2>3. ASSUME NEW s \in Sides, up[s], SenderStep(s) \/ ReceiverStep(s) PROVE StreamInv'
    BY <2>3, ChatAligned
  <2>4. ASSUME NEW s \in Sides, Vanish(s) PROVE StreamInv'
    <3> USE DEF StreamInv
    <3>0. Other(s) \in Sides \ {s} /\ up' = [up EXCEPT ![s] = FALSE]
          /\ UNCHANGED << owner, sender, receiver, sock, stream, reset, heap, in_chat, want, size,
                          peer_key, enc_ctx >>
      BY <2>4, TwoSides DEF Vanish
    <3>1. PQTypes'
      BY <3>0 DEF PQTypes
    <3>2. Course(s)' /\ Aligned(s)' /\ Stays(Other(s))
      BY <3>0 DEF PQTypes, Course, KeyRead, Placed, Aligned, AheadOfKey, Stays
    <3>3. Writes(s)' => Writes(s) /\ Written(s)' = Written(s)
      BY <3>0 DEF Writes, Written
    <3> QED
      BY <3>0, <3>1, <3>2, <3>3, SideStep
  <2>5. CASE UNCHANGED pq_vars
    <3>1. UNCHANGED << up, owner, sender, receiver, sock, stream, reset, heap, in_chat, want, size,
                       peer_key, enc_ctx >>
      BY <2>5 DEF pq_vars
    <3>2. PQTypes' /\ \A s \in Sides : Course(s)'
      <4>1. PQTypes'
        BY <3>1 DEF StreamInv, PQTypes
      <4>2. ASSUME NEW s \in Sides PROVE Course(s)'
        <5>1. Course(s) /\ KeyRead(s)
          BY DEF StreamInv, Course
        <5>2. KeyRead(s)'
          BY <3>1, <5>1, KeyReadSame
        <5> QED
          BY <3>1, <5>1, <5>2 DEF Course
      <4> QED
        BY <4>1, <4>2
    <3>3. ASSUME NEW s \in Sides PROVE Aligned(s)'
      BY <3>1 DEF StreamInv, Aligned, AheadOfKey, Consumed, Writes, Written
    <3> QED
      BY <3>2, <3>3 DEF StreamInv
  <2> QED
    BY <2>1, <2>2, <2>3, <2>4, <2>5 DEF PQNext
<1> QED
  BY <1>1, <1>2, PTL DEF PQSpec

\* Both sides keep their types, for all lengths of keys, and what a side reads for
\* the key fits into the memory that it has taken for it.
THEOREM PQTypeCorrect == PQSpec => []PQTypeOK
<1>1. StreamInv => PQTypeOK
  <2> SUFFICES ASSUME StreamInv PROVE PQTypeOK
    OBVIOUS
  <2>1. ASSUME NEW s \in Sides
        PROVE  owner[s] \in ToSet(Steps(s))
                 \cup {"dial", "reply", "accept", "request", "question", "over"}
    <3>1. HandshakeSteps \subseteq ToSet(CallerSteps)
      <4>1. DOMAIN CallerSteps = 1 .. 11
        BY DEF CallerSteps
      <4>2. \A l \in HandshakeSteps : \E i \in 1 .. 11 : CallerSteps[i] = l
        BY DEF HandshakeSteps, CallerSteps
      <4> QED
        BY <4>1, <4>2 DEF ToSet
    <3>2. HandshakeSteps \subseteq ToSet(CalleeSteps)
      <4>1. DOMAIN CalleeSteps = 1 .. 11
        BY DEF CalleeSteps
      <4>2. \A l \in HandshakeSteps : \E i \in 1 .. 11 : CalleeSteps[i] = l
        BY DEF HandshakeSteps, CalleeSteps
      <4> QED
        BY <4>1, <4>2 DEF ToSet
    <3> QED
      BY <3>1, <3>2 DEF StreamInv, PQTypes, OwnerLabels, Steps
  <2>2. ASSUME NEW s \in Sides, NEW text \in Seq(WordsTo(s)) PROVE FromOther(s, text)
    <3> SUFFICES ASSUME NEW w \in ToSet(text) PROVE w.from = Other(s)
      BY DEF FromOther
    <3>1. PICK i \in DOMAIN text : w = text[i]
      BY DEF ToSet
    <3>2. w \in WordsTo(s)
      BY <3>1
    <3> QED
      BY <3>2 DEF WordsTo
  <2>3. ASSUME NEW s \in Sides
        PROVE  /\ FromOther(s, size[s]) /\ Len(size[s]) <= LengthWords
               /\ FromOther(s, peer_key[s]) /\ FromOther(s, stream[s])
    BY <2>2 DEF StreamInv, PQTypes
  <2> QED
    BY <2>1, <2>3 DEF StreamInv, PQTypes, Course, KeyRead, PQTypeOK
<1> QED
  BY <1>1, StreamsAligned, PTL

\* A text that agrees with another for as long as it lasts is a beginning of it.
LEMMA Beginning ==
  ASSUME NEW p \in Seq(Words), NEW q \in Seq(Words), Len(p) <= Len(q),
         \A i \in 1 .. Len(p) : p[i] = q[i]
  PROVE  IsPrefix(p, q)
<1>0. Len(p) \in Nat /\ Len(q) \in Nat /\ 1 \in Int
  OBVIOUS
<1>1. \A i \in 1 .. Len(p) : p[i] \in Words /\ q[i] \in Words
  BY <1>0
<1>2. /\ SubSeq(p, 1, Len(p)) \in Seq(Words) /\ Len(SubSeq(p, 1, Len(p))) = Len(p)
      /\ \A i \in 1 .. Len(p) : SubSeq(p, 1, Len(p))[i] = p[i]
  BY <1>0, <1>1, SubSeqProperties
<1>3. /\ SubSeq(q, 1, Len(p)) \in Seq(Words) /\ Len(SubSeq(q, 1, Len(p))) = Len(p)
      /\ \A i \in 1 .. Len(p) : SubSeq(q, 1, Len(p))[i] = q[i]
  BY <1>0, <1>1, SubSeqProperties
<1>4. SubSeq(p, 1, Len(p)) = SubSeq(q, 1, Len(p))
  BY <1>2, <1>3, SeqEqual
<1> QED
  BY <1>4 DEF IsPrefix

\* Of two texts that agree for as long as both last one is a beginning of the other.
LEMMA Comparable ==
  ASSUME NEW p \in Seq(Words), NEW q \in Seq(Words),
         \A i \in 1 .. Len(p) : i <= Len(q) => p[i] = q[i]
  PROVE  IsPrefix(p, q) \/ IsPrefix(q, p)
<1>0. Len(p) \in Nat /\ Len(q) \in Nat
  OBVIOUS
<1>1. CASE Len(p) <= Len(q)
  <2>1. \A i \in 1 .. Len(p) : p[i] = q[i]
    BY <1>0, <1>1
  <2> QED
    BY <1>1, <2>1, Beginning
<1>2. CASE ~ (Len(p) <= Len(q))
  <2>1. Len(q) <= Len(p) /\ \A i \in 1 .. Len(q) : q[i] = p[i]
    BY <1>0, <1>2
  <2> QED
    BY <2>1, Beginning
<1> QED
  BY <1>1, <1>2

\* However the reads split what comes, fail or end early: what a side takes for the
\* length and the key of the other is the beginning of what that one sends for
\* them, and of the key alone if the length came whole; for all lengths.
THEOREM KeyCorrect == PQSpec => []KeyIsInPlace
<1>1. StreamInv => KeyIsInPlace
  <2> SUFFICES ASSUME StreamInv, NEW s \in Sides
               PROVE  LET sent == KeyLength(Other(s)) \o PublicKey(Other(s))
                          taken == size[s] \o peer_key[s]
                      IN  /\ IsPrefix(taken, sent) \/ IsPrefix(sent, taken)
                          /\ size[s] = KeyLength(Other(s)) =>
                               IsPrefix(peer_key[s], PublicKey(Other(s)))
    BY DEF KeyIsInPlace
  <2> DEFINE o == Other(s)
             taken == size[s] \o peer_key[s]
  <2>0. o \in Sides /\ size[s] \in Seq(Words) /\ peer_key[s] \in Seq(Words) /\ KeyRead(s)
    BY TwoSides DEF StreamInv, PQTypes, Course
  <2>1. /\ Frame(o) \in Seq(Words) /\ Len(Frame(o)) = FrameWords
        /\ Len(KeyLength(o)) = LengthWords
        /\ PublicKey(o) \in Seq(Words) /\ Len(PublicKey(o)) = KeyWords
        /\ \A i \in 1 .. KeyWords : Frame(o)[LengthWords + i] = PublicKey(o)[i]
    BY <2>0, FrameParts
  <2>2. /\ taken \in Seq(Words) /\ Len(taken) = Len(size[s]) + Len(peer_key[s])
        /\ \A i \in 1 .. Len(size[s]) + Len(peer_key[s]) :
             taken[i] = IF i <= Len(size[s]) THEN size[s][i] ELSE peer_key[s][i - Len(size[s])]
        /\ Len(size[s]) \in Nat /\ Len(peer_key[s]) \in Nat
    <3>1. size[s] \in Seq(Words) /\ peer_key[s] \in Seq(Words)
      BY <2>0
    <3>2. Len(size[s]) \in Nat /\ Len(peer_key[s]) \in Nat
      BY <3>1
    <3> QED
      BY <3>1, <3>2, ConcatProperties
  <2>3. \A j \in 1 .. Len(taken) : j <= FrameWords => taken[j] = Frame(o)[j]
    BY <2>0 DEF KeyRead, Placed
  <2>4. IsPrefix(taken, Frame(o)) \/ IsPrefix(Frame(o), taken)
    <3>1. \A j \in 1 .. Len(taken) : j <= Len(Frame(o)) => taken[j] = Frame(o)[j]
      BY <2>1, <2>3
    <3> QED
      BY <2>1, <2>2, <3>1, Comparable
  <2>5. ASSUME size[s] = KeyLength(o) PROVE IsPrefix(peer_key[s], PublicKey(o))
    <3>1. Len(peer_key[s]) <= KeyWords /\ Len(size[s]) = LengthWords
      BY <2>0, <2>1, <2>5 DEF KeyRead
    <3>2. ASSUME NEW i \in 1 .. Len(peer_key[s]) PROVE peer_key[s][i] = PublicKey(o)[i]
      <4>1. /\ LengthWords + i \in 1 .. Len(taken) /\ LengthWords + i <= FrameWords
            /\ ~ (LengthWords + i <= LengthWords) /\ (LengthWords + i) - LengthWords = i
            /\ i \in 1 .. KeyWords
        BY <2>2, <3>1, Sizes
      <4>2. taken[LengthWords + i] = Frame(o)[LengthWords + i]
        BY <2>3, <4>1
      <4>3. taken[LengthWords + i] = peer_key[s][i]
        BY <2>2, <3>1, <4>1
      <4> QED
        BY <2>1, <4>1, <4>2, <4>3
    <3> QED
      BY <2>0, <2>1, <3>1, <3>2, Beginning
  <2> QED
    BY <2>4, <2>5 DEF Frame
<1> QED
  BY <1>1, StreamsAligned, PTL
=============================================================================
