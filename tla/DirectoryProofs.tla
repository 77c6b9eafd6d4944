-------------------------- MODULE DirectoryProofs ---------------------------
(***************************************************************************)
(* When no two clients use the same name, RoutingServer leaves no entry    *)
(* behind and implements Directory: proofs for every number of             *)
(* connections, names and table entries, and every mix of commands.        *)
(***************************************************************************)
EXTENDS RoutingServerProofs, FiniteSetTheorems, FunctionTheorems

\* own is a witness of DisjointNames.
OwnNames(own) ==
  /\ \A c, d \in Conns : own[c] = own[d] => c = d
  /\ \A c \in Conns : \A m \in MaySend[c] :
       m.verb \in {"REGISTER", "REMOVE"} => m.name = own[c]

\* What is on its way to a handler its client may send, a handler that has a
\* name has its client's, and NoGhostEntries.
OwnInv(own) ==
  /\ \A c \in Conns : inbox[c] \in Seq(MaySend[c])
  /\ \A c \in Conns : username[c] \in {NoName, own[c]}
  /\ NoGhostEntries

-----------------------------------------------------------------------------
(* The registry's operators on a list without repeated names.              *)

\* remove_peer then takes out the entries with the name, and nothing else.
LEMMA RemovePeerUnique ==
  ASSUME NEW S, NEW list \in Seq(S), NEW name,
         \A i, j \in 1 .. Len(list) : list[i].username = list[j].username => i = j
  PROVE  LET out == RemovePeer(list, name) IN
         /\ out \in Seq(S)
         /\ Range(out) = {p \in Range(list) : p.username # name}
         /\ \A i, j \in 1 .. Len(out) : out[i].username = out[j].username => i = j
<1> DEFINE k == FirstNamed(list, name)
           out == RemovePeer(list, name)
<1>0. Len(list) \in Nat /\ DOMAIN list = 1 .. Len(list)
  OBVIOUS
<1>1. CASE k = 0
  <2>1. out = list /\ \A j \in 1 .. Len(list) : list[j].username # name
    BY <1>1, FirstNamedIndex DEF RemovePeer
  <2> QED
    BY <2>1, <1>0 DEF Range
<1>2. CASE k # 0
  <2>1. k \in 1 .. Len(list) /\ list[k].username = name
    BY <1>2, FirstNamedIndex
  <2>2. out = SwapOut(list, k)
    BY <1>2 DEF RemovePeer
  <2> HIDE DEF k, out
  <2>3. /\ out \in Seq(S) /\ Len(out) = Len(list) - 1
        /\ \A j \in 1 .. Len(list) - 1 : out[j] = IF j = k THEN list[Len(list)] ELSE list[j]
    BY <2>1, <2>2, SwapOutTable
  <2>4. Range(out) = Range(list) \ {list[k]}
    BY <2>1, <2>2, SwapOutRange
  <2>5. \A p \in Range(list) : p = list[k] <=> p.username = name
    BY <2>1, <1>0 DEF Range
  <2>6. \A i, j \in 1 .. Len(out) : out[i].username = out[j].username => i = j
    BY <2>1, <2>3, <1>0
  <2> QED
    BY <2>3, <2>4, <2>5, <2>6 DEF out
<1> QED
  BY <1>1, <1>2

\* The length of a list without repetitions is the number of its elements.
LEMMA DistinctLength ==
  ASSUME NEW S, NEW list \in Seq(S),
         \A i, j \in 1 .. Len(list) : list[i] = list[j] => i = j
  PROVE  Cardinality(Range(list)) = Len(list)
<1>1. list \in [1 .. Len(list) -> Range(list)] /\ DOMAIN list = 1 .. Len(list)
  BY DEF Range
<1>2. list \in Bijection(1 .. Len(list), Range(list))
  BY <1>1 DEF Range, Bijection, Injection, Surjection, IsInjective
<1>3. ExistsBijection(1 .. Len(list), Range(list))
  BY <1>2 DEF ExistsBijection
<1> QED
  BY <1>3, FS_CountingElements

-----------------------------------------------------------------------------
(* What the entries say while every client uses its own name.              *)

\* An entry carries its connection's name, so no name is listed twice.
LEMMA OwnEntries ==
  ASSUME TypeInv, NEW own \in [Conns -> Names], OwnNames(own), OwnInv(own)
  PROVE  /\ \A p \in Range(peer_list) :
              p \in Peers /\ p.addr \in Conns /\ p.username = own[p.addr] /\ Joined(p.addr)
         /\ \A i, j \in 1 .. Len(peer_list) :
              peer_list[i].username = peer_list[j].username => i = j
<1>1. /\ peer_list \in Seq(Peers)
      /\ \A i \in 1 .. Len(peer_list) : peer_list[i] \in Peers
      /\ \A p \in Range(peer_list) : p \in Peers
      /\ \A i \in 1 .. Len(peer_list) : peer_list[i] \in Range(peer_list)
      /\ DOMAIN peer_list = 1 .. Len(peer_list)
  BY DEF TypeInv, TypeOK, Range
<1>2. \A p \in Range(peer_list) :
        p.addr \in Conns /\ p.username \in Names /\ p.username = own[p.addr] /\ Joined(p.addr)
  BY <1>1, ServerConstants DEF OwnInv, NoGhostEntries, Peers, ServerConstants
<1>3. ASSUME NEW i \in 1 .. Len(peer_list), NEW j \in 1 .. Len(peer_list),
             peer_list[i].username = peer_list[j].username
      PROVE  i = j
  <2>1. peer_list[i].addr = peer_list[j].addr
    BY <1>1, <1>2, <1>3 DEF OwnNames
  <2> QED
    BY <2>1, <1>1 DEF OwnInv, NoGhostEntries
<1> QED
  BY <1>1, <1>2, <1>3

\* So a handler that has its name removed removes its own entry.
LEMMA RemoveOwn ==
  ASSUME TypeInv, NEW own \in [Conns -> Names], OwnNames(own), OwnInv(own),
         NEW c \in Conns, username[c] \in Names
  PROVE  Range(RemovePeer(peer_list, username[c])) = {p \in Range(peer_list) : p.addr # c}
<1>1. peer_list \in Seq(Peers)
  BY DEF TypeInv, TypeOK
<1>2. Range(RemovePeer(peer_list, username[c])) =
        {p \in Range(peer_list) : p.username # username[c]}
  BY <1>1, OwnEntries, RemovePeerUnique
<1>3. username[c] = own[c]
  BY ServerConstants DEF OwnInv, ServerConstants
<1>4. \A p \in Range(peer_list) : p.username = own[c] <=> p.addr = c
  BY OwnEntries DEF OwnNames
<1> QED
  BY <1>2, <1>3, <1>4

-----------------------------------------------------------------------------
(* One step of the server is one step of the directory, or none.           *)

Left(c) ==
  ~ Joined(c) /\ pc[c] \in {"rm_sock", "final_rm", "final_sock", "close", "done"}

Stage == [c \in Conns |->
            IF Joined(c) THEN "member" ELSE IF Left(c) THEN "gone" ELSE "new"]

DirectoryVars == << Range(peer_list), Stage >>

\* A handler's step inside one stage, without the registry.
LEMMA StayInStage ==
  ASSUME TypeInv, NEW own \in [Conns -> Names], OwnNames(own), OwnInv(own),
         peer_list' = peer_list,
         \A d \in Conns : Joined(d)' = Joined(d) /\ Left(d)' = Left(d),
         \A d \in Conns : inbox'[d] \in Seq(MaySend[d]),
         \A d \in Conns : username'[d] \in {NoName, own[d]},
         \A d \in Conns : Joined(d) => username'[d] = username[d]
  PROVE  OwnInv(own)' /\ UNCHANGED DirectoryVars
<1>1. UNCHANGED DirectoryVars
  BY DEF DirectoryVars, Stage
<1>2. \A p \in Range(peer_list) : p.addr \in Conns
  BY OwnEntries
<1>3. NoGhostEntries'
  BY <1>2 DEF OwnInv, NoGhostEntries
<1> QED
  BY <1>1, <1>3 DEF OwnInv

\* A step of one handler that takes entries out: those of connections that are
\* no longer members, perhaps others.
LEMMA TakeOut ==
  ASSUME TypeInv, NEW own \in [Conns -> Names], OwnNames(own), OwnInv(own),
         NEW name, peer_list' = RemovePeer(peer_list, name),
         UNCHANGED << inbox, username >>,
         \A p \in Range(peer_list') : Joined(p.addr)'
  PROVE  OwnInv(own)'
<1>1. peer_list \in Seq(Peers)
  BY DEF TypeInv, TypeOK
<1>2. /\ peer_list' \in Seq(Peers)
      /\ Range(peer_list') \subseteq Range(peer_list)
      /\ \A i, j \in 1 .. Len(peer_list') :
           peer_list'[i].username = peer_list'[j].username => i = j
  BY <1>1, OwnEntries, RemovePeerUnique
<1>3. \A p \in Range(peer_list') : Joined(p.addr)' /\ username'[p.addr] = p.username
  BY <1>2 DEF OwnInv, NoGhostEntries
<1>4. ASSUME NEW i \in DOMAIN peer_list', NEW j \in DOMAIN peer_list',
             peer_list'[i].addr = peer_list'[j].addr
      PROVE  i = j
  <2>1. /\ DOMAIN peer_list' = 1 .. Len(peer_list')
        /\ peer_list'[i] \in Range(peer_list') /\ peer_list'[j] \in Range(peer_list')
    BY <1>2, <1>4 DEF Range
  <2>2. peer_list'[i].username = peer_list'[j].username
    BY <2>1, <1>3, <1>4
  <2> QED
    BY <2>1, <2>2, <1>2
<1>5. NoGhostEntries'
  BY <1>3, <1>4 DEF NoGhostEntries
<1> QED
  BY <1>5 DEF OwnInv

\* Directory counts as the registry does.
LEMMA SameCardinality == \A S : Promised!Cardinality(S) = Cardinality(S)
  BY Zenon DEF Promised!Cardinality, Cardinality

\* Enter is Join: the client is not listed yet, and nobody has its name.
LEMMA EnterJoins ==
  ASSUME TypeInv, NEW own \in [Conns -> Names], OwnNames(own), OwnInv(own),
         NEW c \in Conns, Enter(c)
  PROVE  OwnInv(own)' /\ Promised!Join(c, own[c])
<1> DEFINE new == [username |-> username[c], addr |-> c]
<1>t. pc \in [Conns -> Labels] /\ peer_list \in Seq(Peers) /\ Len(peer_list) \in Nat
  BY DEF TypeInv, TypeOK
<1>n. username[c] \in Names /\ username[c] = own[c]
  BY ServerConstants DEF Enter, TypeInv, Named, OwnInv, ServerConstants
<1>0. /\ pc \in [Conns -> Labels] /\ peer_list \in Seq(Peers) /\ Len(peer_list) \in Nat
      /\ username[c] \in Names /\ username[c] = own[c]
  BY <1>t, <1>n
<1>1. /\ UNCHANGED << username, request, inbox >>
      /\ pc[c] = "add_peer" /\ pc' = [pc EXCEPT ![c] = "reg_list"]
      /\ peer_list' = AddPeer(peer_list, new)
  BY DEF Enter, GoTo, socks
<1>2. /\ ~ Joined(c) /\ ~ Left(c) /\ Joined(c)'
      /\ \A d \in Conns \ {c} : Joined(d)' = Joined(d) /\ Left(d)' = Left(d)
  BY <1>0, <1>1 DEF Joined, Left, Labels
<1>3. \A p \in Range(peer_list) : p.addr \in Conns /\ p.addr # c /\ p.username # own[c]
  BY <1>2, OwnEntries DEF OwnNames
<1>4. new.addr = c /\ new.username = username[c]
  OBVIOUS
<1>5. \A i, j \in 1 .. Len(peer_list) : peer_list[i] = peer_list[j] => i = j
  BY OwnEntries
<1>6. Cardinality(Range(peer_list)) = Len(peer_list)
  BY <1>0, <1>5, DistinctLength
<1>7. Range(peer_list') = IF Cardinality(Range(peer_list)) < MaxPeers
                          THEN Range(peer_list) \cup {new} ELSE Range(peer_list)
  <2>1. CASE Len(peer_list) < MaxPeers
    <3>1. peer_list' = Append(peer_list, new)
      BY <1>1, <2>1 DEF AddPeer
    <3>2. Range(peer_list') = Range(peer_list) \cup {new}
      BY <1>0, <3>1, AppendProperties DEF Range
    <3> QED
      BY <2>1, <3>2, <1>6
  <2>2. CASE ~ (Len(peer_list) < MaxPeers)
    BY <1>1, <1>6, <2>2 DEF AddPeer
  <2> QED
    BY <2>1, <2>2
<1> HIDE DEF new
<1>8. \A i, j \in DOMAIN peer_list' : peer_list'[i].addr = peer_list'[j].addr => i = j
  <2>1. CASE peer_list' = peer_list
    BY <2>1 DEF OwnInv, NoGhostEntries
  <2>2. CASE peer_list' = Append(peer_list, new)
    <3>1. /\ DOMAIN peer_list = 1 .. Len(peer_list)
          /\ DOMAIN peer_list' = 1 .. Len(peer_list) + 1
          /\ \A i \in 1 .. Len(peer_list) : peer_list'[i] = peer_list[i]
          /\ peer_list'[Len(peer_list) + 1] = new
      BY <1>0, <2>2
    <3>2. \A i \in 1 .. Len(peer_list) : peer_list[i].addr # c
      BY <1>3, <3>1 DEF Range
    <3> QED
      BY <1>0, <1>4, <3>1, <3>2 DEF OwnInv, NoGhostEntries
  <2> QED
    BY <1>1, <2>1, <2>2 DEF AddPeer
<1>9. \A p \in Range(peer_list') : Joined(p.addr)' /\ username'[p.addr] = p.username
  BY <1>1, <1>2, <1>3, <1>4, <1>7 DEF OwnInv, NoGhostEntries
<1>10. OwnInv(own)'
  BY <1>1, <1>8, <1>9 DEF OwnInv, NoGhostEntries
<1>11. Stage[c] = "new" /\ Stage' = [Stage EXCEPT ![c] = "member"]
  BY <1>2 DEF Stage
<1>12. Promised!Join(c, own[c])
  BY <1>0, <1>3, <1>7, <1>11, SameCardinality DEF Promised!Join, Stage, Left, new
<1> QED
  BY <1>10, <1>12

\* A member whose handler removes its name is not listed any more.
LEMMA RemovalLeaves ==
  ASSUME TypeInv, NEW own \in [Conns -> Names], OwnNames(own), OwnInv(own),
         NEW c \in Conns, username[c] \in Names,
         peer_list' = RemovePeer(peer_list, username[c]),
         UNCHANGED << username, inbox >>,
         Left(c)', ~ Joined(c)',
         \A d \in Conns \ {c} : Joined(d)' = Joined(d) /\ Left(d)' = Left(d)
  PROVE  /\ OwnInv(own)'
         /\ Joined(c) => Promised!Leave(c)
         /\ ~ Joined(c) /\ Left(c) => UNCHANGED DirectoryVars
<1>1. Range(peer_list') = {p \in Range(peer_list) : p.addr # c}
  BY RemoveOwn
<1>2. \A p \in Range(peer_list) : p.addr \in Conns /\ Joined(p.addr)
  BY OwnEntries
<1>3. \A p \in Range(peer_list') : Joined(p.addr)'
  BY <1>1, <1>2
<1>4. OwnInv(own)'
  BY <1>3, TakeOut
<1>5. ASSUME Joined(c) PROVE Promised!Leave(c)
  <2>1. Stage[c] = "member" /\ Stage' = [Stage EXCEPT ![c] = "gone"]
    BY <1>5 DEF Stage
  <2> QED
    BY <1>1, <2>1 DEF Promised!Leave, Stage, Left
<1>6. ASSUME ~ Joined(c), Left(c) PROVE UNCHANGED DirectoryVars
  <2>1. Range(peer_list') = Range(peer_list)
    BY <1>1, <1>2, <1>6
  <2>2. Stage' = Stage
    BY <1>6 DEF Stage
  <2> QED
    BY <2>1, <2>2 DEF DirectoryVars
<1> QED
  BY <1>4, <1>5, <1>6

\* PEER_DISCONNECTED is a member's Report.
LEMMA RemovalReports ==
  ASSUME TypeInv, NEW own \in [Conns -> Names], OwnNames(own), OwnInv(own),
         NEW c \in Conns, RemoveOther(c)
  PROVE  /\ OwnInv(own)'
         /\ UNCHANGED DirectoryVars \/ \E n \in Names : Promised!Report(c, n)
<1> DEFINE name == request[c].name
<1>0. pc \in [Conns -> Labels] /\ peer_list \in Seq(Peers)
  BY DEF TypeInv, TypeOK
<1>1. /\ UNCHANGED << username, request, inbox >>
      /\ pc[c] = "rm_other" /\ pc' = [pc EXCEPT ![c] = "main_read"]
      /\ peer_list' = RemovePeer(peer_list, name)
  BY DEF RemoveOther, GoTo, socks
<1>2. \A d \in Conns : Joined(d)' = Joined(d) /\ Left(d)' = Left(d)
  BY <1>0, <1>1 DEF Joined, Left, Labels
<1> HIDE DEF name
<1>3. Range(peer_list') = {p \in Range(peer_list) : p.username # name}
  BY <1>0, <1>1, OwnEntries, RemovePeerUnique
<1>4. \A p \in Range(peer_list') : Joined(p.addr)'
  BY <1>2, <1>3, OwnEntries
<1>5. OwnInv(own)'
  BY <1>1, <1>4, TakeOut
<1>6. Stage[c] = "member" /\ Stage' = Stage
  BY <1>1, <1>2 DEF Stage, Joined
<1>7. CASE name \in Names
  BY <1>3, <1>5, <1>6, <1>7 DEF Promised!Report, Stage, Left, name
<1>8. CASE name \notin Names
  <2>1. \A p \in Range(peer_list) : p.username \in Names
    BY OwnEntries DEF Peers
  <2>2. Range(peer_list') = Range(peer_list)
    BY <1>3, <1>8, <2>1
  <2> QED
    BY <1>5, <1>6, <2>2 DEF DirectoryVars
<1> QED
  BY <1>7, <1>8

\* A connection that ends before it has registered.
LEMMA Unregistered ==
  ASSUME TypeInv, NEW own \in [Conns -> Names], OwnNames(own), OwnInv(own),
         NEW c \in Conns, UNCHANGED << peer_list, username, inbox >>,
         ~ Joined(c), ~ Left(c), ~ Joined(c)', Left(c)',
         \A d \in Conns \ {c} : Joined(d)' = Joined(d) /\ Left(d)' = Left(d)
  PROVE  OwnInv(own)' /\ Promised!GiveUp(c)
<1>1. \A p \in Range(peer_list) : p.addr \in Conns /\ p.addr # c
  BY OwnEntries
<1>2. OwnInv(own)'
  BY <1>1 DEF OwnInv, NoGhostEntries
<1>3. Stage[c] = "new" /\ Stage' = [Stage EXCEPT ![c] = "gone"]
  BY DEF Stage
<1>4. Promised!GiveUp(c)
  BY <1>3 DEF Promised!GiveUp, Stage, Left
<1> QED
  BY <1>2, <1>4

\* The rest of a sequence behind its first k elements.
LEMMA SuffixType ==
  ASSUME NEW S, NEW s \in Seq(S), NEW k \in 1 .. Len(s)
  PROVE  SubSeq(s, k + 1, Len(s)) \in Seq(S)
  BY SubSeqProperties

\* What a read() leaves behind the client may still send.
LEMMA ReadOwn ==
  ASSUME TypeInv, NEW own \in [Conns -> Names], OwnNames(own), OwnInv(own),
         NEW c \in Conns, ReadCommand(c)
  PROVE  /\ \A d \in Conns : inbox'[d] \in Seq(MaySend[d])
         /\ request'[c].verb \in {"REGISTER", "REMOVE"} => request'[c].name = own[c]
         /\ \A d \in Conns \ {c} : request'[d] = request[d]
         /\ request'[c] # EndOfStream
<1>1. inbox[c] \in Seq(MaySend[c]) /\ \A d \in Conns : inbox[d] \in Seq(MaySend[d])
  BY DEF OwnInv
<1>2. PICK k \in 1 .. Len(inbox[c]) :
        /\ request' = [request EXCEPT ![c] = Head(inbox[c])]
        /\ inbox' = [inbox EXCEPT ![c] = SubSeq(@, k + 1, Len(@))]
  BY DEF ReadCommand, Returned
<1>3. Head(inbox[c]) \in MaySend[c]
  BY <1>1, <1>2
<1>4. SubSeq(inbox[c], k + 1, Len(inbox[c])) \in Seq(MaySend[c])
  BY <1>1, SuffixType
<1>5. inbox \in [Conns -> Seq(Commands)] /\ request \in [Conns -> Commands \cup {EndOfStream}]
  BY DEF TypeInv, TypeOK
<1>6. request'[c] = Head(inbox[c])
  BY <1>2, <1>5
<1>7. request'[c] \in Commands
  BY ReadCommandType DEF TypeInv
<1>8. request'[c] # EndOfStream
  BY <1>7, EndIsNoCommand
<1>9. request'[c].verb \in {"REGISTER", "REMOVE"} => request'[c].name = own[c]
  BY <1>3, <1>6 DEF OwnNames
<1> QED
  BY <1>1, <1>2, <1>4, <1>5, <1>8, <1>9

\* Every step keeps the invariant and is one operation of Directory or none.
LEMMA DirectoryStep ==
  ASSUME TypeInv, RemoveInBuffer,
         NEW own \in [Conns -> Names], OwnNames(own), OwnInv(own), [Next]_vars
  PROVE  OwnInv(own)' /\ [Promised!Next]_DirectoryVars
<1> DEFINE Goal == OwnInv(own)' /\ [Promised!Next]_DirectoryVars
           Still == /\ peer_list' = peer_list
                    /\ \A d \in Conns : Joined(d)' = Joined(d) /\ Left(d)' = Left(d)
                    /\ \A d \in Conns : inbox'[d] \in Seq(MaySend[d])
                    /\ \A d \in Conns : username'[d] \in {NoName, own[d]}
                    /\ \A d \in Conns : Joined(d) => username'[d] = username[d]
<1>0. /\ pc \in [Conns -> Labels] /\ username \in [Conns -> Names \cup {NoName}]
      /\ request \in [Conns -> Commands \cup {EndOfStream}]
      /\ inbox \in [Conns -> Seq(Commands)]
      /\ \A d \in Conns : username[d] \in {NoName, own[d]}
      /\ \A d \in Conns : inbox[d] \in Seq(MaySend[d])
  BY DEF TypeInv, TypeOK, OwnInv
<1>s. Still => Goal
  BY StayInStage
<1>1. ASSUME NEW c \in Conns, ClientSend(c) PROVE Still
  <2>1. UNCHANGED << peer_list, pc, username, request >>
    BY <1>1 DEF ClientSend, tables, locals
  <2>2. PICK m \in MaySend[c] : inbox' = [inbox EXCEPT ![c] = Append(@, m)]
    BY <1>1 DEF ClientSend
  <2>3. Append(inbox[c], m) \in Seq(MaySend[c])
    BY <1>0
  <2>4. \A d \in Conns : inbox'[d] \in Seq(MaySend[d])
    BY <1>0, <2>2, <2>3
  <2> QED
    BY <1>0, <2>1, <2>4 DEF Joined, Left
<1>2. ASSUME NEW c \in Conns, ClientRead(c) PROVE Still
  BY <1>0, <1>2 DEF ClientRead, GoTo, tables, lock, locals, socks, Labels, Joined, Left
<1>3. ASSUME NEW c \in Conns, ClientClose(c) PROVE Still
  BY <1>0, <1>3 DEF ClientClose, GoTo, tables, lock, locals, socks, Labels, Joined, Left
<1>4. ASSUME NEW c \in Conns, Accept(c) PROVE Still
  BY <1>0, <1>4 DEF Accept, GoTo, tables, lock, locals, socks, Labels, Joined, Left
<1>5. ASSUME NEW c \in Conns, Track(c) PROVE Still
  BY <1>0, <1>5 DEF Track, GoTo, tables, lock, locals, socks, Labels, Joined, Left
<1>6. ASSUME NEW c \in Conns, RegEnd(c) PROVE Still
  BY <1>0, <1>6 DEF RegEnd, GoTo, tables, lock, locals, socks, Labels, Joined, Left, ReadEnd
<1>7. ASSUME NEW c \in Conns, CheckName(c) PROVE Still
  BY <1>0, <1>7 DEF CheckName, GoTo, tables, lock, locals, socks, Labels, Joined, Left
<1>8. ASSUME NEW c \in Conns, MakeList(c) PROVE Still
  BY <1>0, <1>8 DEF MakeList, GoTo, tables, lock, locals, socks, Labels, Joined, Left
<1>9. ASSUME NEW c \in Conns, BroadcastBegin(c) PROVE Still
  BY <1>0, <1>9 DEF BroadcastBegin, GoTo, tables, lock, locals, socks, Labels, Joined, Left
<1>10. ASSUME NEW c \in Conns, BroadcastEnd(c) PROVE Still
  BY <1>0, <1>10 DEF BroadcastEnd, GoTo, tables, lock, locals, socks, Labels, Joined, Left
<1>11. ASSUME NEW c \in Conns, MainEnd(c) PROVE Still
  BY <1>0, <1>11 DEF MainEnd, GoTo, tables, lock, locals, socks, Labels, Joined, Left, ReadEnd
<1>12. ASSUME NEW c \in Conns, Close(c) PROVE Still
  <2>1. /\ UNCHANGED << peer_list, username, request >>
        /\ inbox' = [inbox EXCEPT ![c] = << >>]
        /\ pc[c] = "close" /\ pc' = [pc EXCEPT ![c] = "done"]
    BY <1>12 DEF Close, GoTo, tables
  <2>2. << >> \in Seq(MaySend[c])
    OBVIOUS
  <2>3. \A d \in Conns : inbox'[d] \in Seq(MaySend[d])
    BY <1>0, <2>1, <2>2
  <2> QED
    BY <1>0, <2>1, <2>3 DEF Labels, Joined, Left
<1>13. ASSUME NEW c \in Conns, Answer(c) PROVE Still
  <2>1. /\ UNCHANGED << peer_list, username, request, inbox >>
        /\ pc' = [pc EXCEPT ![c] = AfterReply[pc[c]]]
        /\ pc[c] \in {"reg_reply", "list_reply", "main_reply"}
        /\ pc[c] = "reg_reply" => AfterReply[pc[c]] = "reg_read"
        /\ pc[c] = "list_reply" => AfterReply[pc[c]] = "bcast_lock"
        /\ pc[c] = "main_reply" => AfterReply[pc[c]] = "main_read"
    BY <1>13 DEF Answer, WriteTo, AfterReply, GoTo, tables
  <2> QED
    BY <1>0, <2>1 DEF Joined, Left, Labels
<1>14. ASSUME NEW c \in Conns, BroadcastNext(c) PROVE Still
  <2>1. UNCHANGED << peer_list, pc, username, request, inbox >>
    BY <1>14 DEF BroadcastNext, WriteTo, tables, locals, socks
  <2> QED
    BY <1>0, <2>1 DEF Joined, Left
<1>15. ASSUME NEW c \in Conns, RegRead(c) PROVE Still
  <2>1. /\ \A d \in Conns : inbox'[d] \in Seq(MaySend[d])
        /\ request'[c].verb = "REGISTER" => request'[c].name = own[c]
        /\ \A d \in Conns \ {c} : request'[d] = request[d]
    BY <1>15, ReadOwn DEF RegRead
  <2>2. /\ peer_list' = peer_list /\ pc[c] = "reg_read"
        /\ \E l \in {"check", "reg_reply"} : pc' = [pc EXCEPT ![c] = l]
        /\ \/ username' = username
           \/ username' = [username EXCEPT ![c] = own[c]]
    BY <1>15, <2>1 DEF RegRead, GoTo, tables
  <2> QED
    BY <1>0, <2>1, <2>2 DEF Joined, Left, Labels
<1>16. ASSUME NEW c \in Conns, MainRead(c) PROVE Still
  <2>1. /\ \A d \in Conns : inbox'[d] \in Seq(MaySend[d])
        /\ request'[c].verb = "REMOVE" => request'[c].name = own[c]
        /\ \A d \in Conns \ {c} : request'[d] = request[d]
    BY <1>16, ReadOwn DEF MainRead
  <2>2. username[c] = own[c]
    BY <1>0, <1>16, ServerConstants DEF MainRead, TypeInv, Named, ServerConstants
  <2>3. /\ peer_list' = peer_list /\ pc[c] = "main_read"
        /\ \E l \in {"main_list", "rm_self", "rm_other", "main_reply"} : pc' = [pc EXCEPT ![c] = l]
        /\ \/ username' = username
           \/ username' = [username EXCEPT ![c] = own[c]]
    BY <1>16, <2>1 DEF MainRead, GoTo, tables
  <2> QED
    BY <1>0, <2>1, <2>2, <2>3 DEF Joined, Left, Labels
<1>17. ASSUME UNCHANGED vars PROVE Still
  BY <1>0, <1>17 DEF vars, tables, locals, socks, Joined, Left
<1>18. ASSUME NEW c \in Conns, AcceptFails(c) PROVE Goal
  <2>1. /\ UNCHANGED << peer_list, username, inbox, request >>
        /\ pc[c] = "none" /\ pc' = [pc EXCEPT ![c] = "done"]
    BY <1>18 DEF AcceptFails, GoTo, tables, socks
  <2>2. /\ ~ Joined(c) /\ ~ Left(c) /\ ~ Joined(c)' /\ Left(c)'
        /\ \A d \in Conns \ {c} : Joined(d)' = Joined(d) /\ Left(d)' = Left(d)
    BY <1>0, <2>1 DEF Joined, Left, Labels
  <2> QED
    BY <2>1, <2>2, Unregistered DEF Promised!Next
<1>19. ASSUME NEW c \in Conns, Enter(c) PROVE Goal
  <2>1. own[c] \in Names
    OBVIOUS
  <2> QED
    BY <1>19, <2>1, EnterJoins DEF Promised!Next
<1>20. ASSUME NEW c \in Conns, RemoveOther(c) PROVE Goal
  BY <1>20, RemovalReports DEF Promised!Next
<1>21. ASSUME NEW c \in Conns, RemoveSelf(c) PROVE Goal
  <2>1. /\ UNCHANGED << username, inbox, request >> /\ username[c] \in Names
        /\ peer_list' = RemovePeer(peer_list, username[c])
        /\ pc[c] = "rm_self" /\ pc' = [pc EXCEPT ![c] = "rm_sock"]
    BY <1>21 DEF RemoveSelf, GoTo, socks, TypeInv, Named
  <2>2. /\ Joined(c) /\ ~ Joined(c)' /\ Left(c)'
        /\ \A d \in Conns \ {c} : Joined(d)' = Joined(d) /\ Left(d)' = Left(d)
    BY <1>0, <2>1 DEF Joined, Left, Labels
  <2> QED
    BY <2>1, <2>2, RemovalLeaves DEF Promised!Next
<1>22. ASSUME NEW c \in Conns, FinalRemove(c) PROVE Goal
  <2>1. /\ UNCHANGED << username, inbox, request >> /\ username[c] \in Names
        /\ peer_list' = RemovePeer(peer_list, username[c])
        /\ pc[c] = "final_rm" /\ pc' = [pc EXCEPT ![c] = "final_sock"]
    BY <1>22 DEF FinalRemove, GoTo, socks, TypeInv, Named
  <2>2. /\ Joined(c) \/ Left(c)
        /\ ~ Joined(c)' /\ Left(c)'
        /\ \A d \in Conns \ {c} : Joined(d)' = Joined(d) /\ Left(d)' = Left(d)
    BY <1>0, <2>1 DEF Joined, Left, Labels
  <2> QED
    BY <2>1, <2>2, RemovalLeaves DEF Promised!Next
<1>23. ASSUME NEW c \in Conns, Untrack(c) PROVE Goal
  <2>1. /\ UNCHANGED << peer_list, username, inbox, request >>
        /\ pc' = [pc EXCEPT ![c] = AfterUntrack[pc[c]]]
        /\ pc[c] \in {"reg_sock", "rm_sock", "final_sock"}
        /\ pc[c] \in {"reg_sock", "final_sock"} => AfterUntrack[pc[c]] = "close"
        /\ pc[c] = "rm_sock" => AfterUntrack[pc[c]] = "final_rm"
    BY <1>23 DEF Untrack, AfterUntrack, GoTo, socks
  <2>2. CASE pc[c] = "reg_sock"
    <3>1. /\ ~ Joined(c) /\ ~ Left(c) /\ ~ Joined(c)' /\ Left(c)'
          /\ \A d \in Conns \ {c} : Joined(d)' = Joined(d) /\ Left(d)' = Left(d)
      BY <1>0, <2>1, <2>2 DEF Joined, Left, Labels
    <3> QED
      BY <2>1, <3>1, Unregistered DEF Promised!Next
  <2>3. CASE pc[c] # "reg_sock"
    <3>1. pc[c] = "rm_sock" => request[c] # EndOfStream
      BY DEF RemoveInBuffer
    <3>2. Still
      BY <1>0, <2>1, <2>3, <3>1 DEF Joined, Left, Labels
    <3> QED
      BY <3>2, <1>s
  <2> QED
    BY <2>2, <2>3
<1> HIDE DEF Still, Goal
<1>a. ASSUME NEW c \in Conns, Client(c) \/ MainThread(c) PROVE Goal
  BY <1>s, <1>a, <1>1, <1>2, <1>3, <1>4, <1>18 DEF Client, MainThread
<1>b. ASSUME NEW c \in Conns, Handler(c) PROVE Goal
  BY <1>s, <1>b, <1>5, <1>6, <1>7, <1>8, <1>9, <1>10, <1>11, <1>12, <1>13, <1>14, <1>15, <1>16, <1>19, <1>20, <1>21, <1>22, <1>23 DEF Handler
<1>c. Goal
  BY <1>s, <1>a, <1>b, <1>17 DEF Next, Finished
<1> QED
  BY <1>c DEF Goal

-----------------------------------------------------------------------------
\* The inductive invariant of both theorems below.
LEMMA OwnInvariant ==
  ASSUME NEW own \in [Conns -> Names], OwnNames(own)
  PROVE  Spec => [](TypeInv /\ TableInv /\ OwnInv(own))
<1> DEFINE Inv == TypeInv /\ TableInv /\ OwnInv(own)
<1>1. Init => Inv
  <2>1. Init => TypeInv
    BY DEF Init, TypeInv, TypeOK, Named, Labels, EmptyRegistry, Replies, Invalid
  <2>2. Init => TableInv
    BY DEF Init, TableInv, ClientTableSound, RemoveInBuffer, Tracked, Range, Labels
  <2>3. Init => OwnInv(own)
    BY DEF Init, OwnInv, NoGhostEntries, EmptyRegistry, Range
  <2> QED
    BY <2>1, <2>2, <2>3
<1>2. Inv /\ [Next]_vars => Inv'
  BY TypeStep, TableStep, DirectoryStep DEF TableInv
<1> HIDE DEF Inv
<1>3. Spec => []Inv
  BY <1>1, <1>2, PTL DEF Spec
<1> QED
  BY <1>3 DEF Inv

\* When every client uses a name of its own, no entry outlives the handler that
\* will remove it, and no connection is listed twice: whatever the order of
\* registrations, removals, reports and departures.
THEOREM NoGhosts == ASSUME DisjointNames PROVE Spec => []NoGhostEntries
<1>1. PICK own \in [Conns -> Names] : OwnNames(own)
  BY DEF DisjointNames, OwnNames
<1>2. Spec => [](TypeInv /\ TableInv /\ OwnInv(own))
  BY <1>1, OwnInvariant
<1>3. OwnInv(own) => NoGhostEntries
  BY DEF OwnInv
<1> QED
  BY <1>2, <1>3, PTL

\* The routing server implements the directory: each step of its threads is one
\* operation of Directory or changes nothing a client of it could see.
THEOREM ServerKeepsDirectory == ASSUME DisjointNames PROVE Spec => KeepsDirectory
<1>1. PICK own \in [Conns -> Names] : OwnNames(own)
  BY DEF DisjointNames, OwnNames
<1>2. Spec => [](TypeInv /\ TableInv /\ OwnInv(own))
  BY <1>1, OwnInvariant
<1>3. Init => Promised!Init
  BY DEF Init, EmptyRegistry, Range, Joined, Promised!Init
<1>4. TypeInv /\ TableInv /\ OwnInv(own) /\ [Next]_vars =>
        [Promised!Next]_<< Range(peer_list),
                           [c \in Conns |->
                             IF Joined(c) THEN "member"
                             ELSE IF pc[c] \in {"rm_sock", "final_rm", "final_sock", "close", "done"}
                             THEN "gone" ELSE "new"] >>
  <2>1. TypeInv /\ TableInv /\ OwnInv(own) /\ [Next]_vars => [Promised!Next]_DirectoryVars
    BY <1>1, DirectoryStep DEF TableInv
  <2> QED
    BY <2>1 DEF DirectoryVars, Stage, Left
<1> QED
  BY <1>2, <1>3, <1>4, PTL DEF Spec, KeepsDirectory, Promised!Spec
=============================================================================
