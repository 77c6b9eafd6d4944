---------------------------- MODULE PeerListText ----------------------------
(***************************************************************************)
(* The way of the peer lists from the server to the table of a client: the *)
(* text that src/server/routing_server.c makes of them, the read() of      *)
(* server_listener in src/client/client.c and update_peer_list in          *)
(* src/client/peer_list.c, with the sizes that the other modules leave     *)
(* out.                                                                    *)
(*                                                                         *)
(* The text on the way is a sequence of lines.  A list is a header line    *)
(* and a line for each entry: its name, its address and the two blanks     *)
(* (HeadLength characters, none of which is looked at here), the digits of *)
(* its port and the end of the line.  A notice is a line of its own.  A    *)
(* read() cuts the text anywhere, in a line too, and may take the end of   *)
(* one message and the beginning of the next.                              *)
(***************************************************************************)
EXTENDS Naturals, SequencesExt

CONSTANTS
  Names,         \* of the peers, without the client's own
  PortDigits,    \* the ports, each a sequence of digits
  Header,        \* the line "PEER_LIST"
  Notice,        \* the line "New peer connected: ..."
  HeaderLength,  \* characters of the header; 10 in the source
  NoticeLength,  \* characters of a notice
  HeadLength,    \* characters of an entry before its port
  ReadSize,      \* the most a read() of the client returns; 1023 in the source
  MAX_PEERS,     \* places in the table of the client
  MaxLines       \* bound: lines on the way to the client

ASSUME TextConstants ==
  /\ PortDigits \subseteq Seq(0 .. 9) \ {<< >>}
  /\ {HeaderLength, NoticeLength, ReadSize} \subseteq Nat \ {0}
  /\ {HeadLength, MAX_PEERS, MaxLines} \subseteq Nat

VARIABLES
  registry,   \* the entries on the server, in order
  way,        \* the lines on their way to the client
  taken,      \* how many characters of the first of them were read already
  peer_list   \* the table of the client

text_vars == << registry, way, taken, peer_list >>

Entries == [username : Names, port : PortDigits]

LineLength(l) ==
  CASE l = Header -> HeaderLength
    [] l = Notice -> NoticeLength
    [] OTHER      -> HeadLength + Len(l.port) + 1

\* The characters of lines 1 .. k.
Upto(lines, k) == FoldLeft(LAMBDA sum, l : sum + LineLength(l), 0, SubSeq(lines, 1, k))

Smaller(a, b) == IF a < b THEN a ELSE b

\* sscanf("%s %s %d") of the first n characters of line l: three fields if it is
\* an entry with at least one digit; the number is what there is of it.
Scan(l, n) ==
  IF l \in {Header, Notice} \/ n <= HeadLength THEN << >>
  ELSE << [l EXCEPT !.port = SubSeq(@, 1, Smaller(n - HeadLength, Len(@)))] >>

\* update_peer_list for the first n characters of some lines: all that can be
\* scanned, as long as there is room.
\* (The mutant does not look at the room.)
UpdateMutant(lines, n) ==
  FoldLeft(LAMBDA table, k :
             IF n > Upto(lines, k - 1)
             THEN table \o Scan(lines[k], n - Upto(lines, k - 1)) ELSE table,
           << >>, [k \in 1 .. Len(lines) |-> k])
Update(lines, n) ==
  FoldLeft(LAMBDA table, k :
             IF Len(table) < MAX_PEERS /\ n > Upto(lines, k - 1)
             THEN table \o Scan(lines[k], n - Upto(lines, k - 1)) ELSE table,
           << >>, [k \in 1 .. Len(lines) |-> k])

TextInit ==
  /\ registry = << >> /\ way = << >> /\ taken = 0 /\ peer_list = << >>

\* A peer comes or goes; a place that becomes free is filled from the end.
AddPeer(e) ==
  /\ \A k \in 1 .. Len(registry) : registry[k].username # e.username
  /\ registry' = Append(registry, e)
  /\ UNCHANGED << way, taken, peer_list >>

RemovePeer(k) ==
  /\ registry' = Front([registry EXCEPT ![k] = Last(registry)])
  /\ UNCHANGED << way, taken, peer_list >>

\* The server makes a message and writes it behind what is on the way.
Send(message) ==
  /\ Len(way) + Len(message) <= MaxLines
  /\ way' = way \o message
  /\ UNCHANGED << registry, taken, peer_list >>

SendList == Send(<< Header >> \o registry)
SendNotice == Send(<< Notice >>)

\* A read() returns n characters.  What begins with a whole header updates the
\* table with everything behind it; anything else is only printed.
ReadList(n) ==
  LET end == taken + n
      gone == CHOOSE k \in 0 .. Len(way) :
                /\ Upto(way, k) <= end
                /\ k < Len(way) => end < Upto(way, k + 1)
  IN /\ end <= Upto(way, Len(way))
     /\ way' = SubSeq(way, gone + 1, Len(way)) /\ taken' = end - Upto(way, gone)
     /\ peer_list' = IF taken = 0 /\ Head(way) = Header /\ n >= HeaderLength
                     THEN Update(Tail(way), n - HeaderLength) ELSE peer_list
     /\ UNCHANGED registry

TextNext ==
  \/ \E e \in Entries : AddPeer(e)
  \/ \E k \in 1 .. Len(registry) : RemovePeer(k)
  \/ SendList
  \/ SendNotice
  \/ \E n \in 1 .. ReadSize : ReadList(n)

TextSpec == TextInit /\ [][TextNext]_text_vars

-----------------------------------------------------------------------------
IsEntry(l) == l \notin {Header, Notice}

\* Whatever a read() returns, a part of a list or more than one: a table that it
\* changes has, in their order, all the entries that were read whole, as many as
\* there is room for, and after them at most the next one with its port cut.
TableIsWhatCame ==
  [][peer_list' # peer_list =>
       LET whole == SelectSeq(SubSeq(way, 1, Len(way) - Len(way')), IsEntry)
           n == Len(peer_list')
       IN /\ Head(way) = Header /\ taken = 0
          /\ n <= MAX_PEERS
          /\ Smaller(Len(whole), MAX_PEERS) <= n
          /\ \A k \in 1 .. n : k <= Len(whole) => peer_list'[k] = whole[k]
          /\ n > Len(whole) =>
               /\ n = Len(whole) + 1 /\ way' # << >>
               /\ peer_list'[n].username = Head(way').username
               /\ peer_list'[n].port # << >>
               /\ IsPrefix(peer_list'[n].port, Head(way').port)]_text_vars
=============================================================================
