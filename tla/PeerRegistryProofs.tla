------------------------- MODULE PeerRegistryProofs -------------------------
(***************************************************************************)
(* What the operators of PeerRegistry return, for every table.             *)
(***************************************************************************)
EXTENDS PeerRegistry, SequenceTheorems, WellFoundedInduction, TLAPS

\* A nonempty set of indices has a least element, the one Min chooses.
LEMMA MinIndex ==
  ASSUME NEW I \in SUBSET Nat, I # {}
  PROVE  Min(I) \in I /\ \A j \in I : Min(I) <= j
<1>1. PICK m \in I : \A j \in I : << j, m >> \notin OpToRel(<, Nat)
  BY NatLessThanWellFounded, WFMin
<1>2. \A j \in I : ~ (j < m)
  BY <1>1, Zenon DEF OpToRel
<1>3. \A j \in I : m <= j
  BY <1>2
<1> QED
  BY <1>3 DEF Min

\* FirstNamed, remove_peer's search loop: 0 exactly when no entry has the name,
\* otherwise the index of an entry with the name.
LEMMA FirstNamedIndex ==
  ASSUME NEW S, NEW list \in Seq(S), NEW name
  PROVE  LET i == FirstNamed(list, name) IN
         \/ i = 0 /\ \A j \in 1 .. Len(list) : list[j].username # name
         \/ i \in 1 .. Len(list) /\ list[i].username = name
<1> DEFINE I == {i \in 1 .. Len(list) : list[i].username = name}
<1>1. I \in SUBSET Nat
  OBVIOUS
<1>2. FirstNamed(list, name) = IF I # {} THEN Min(I) ELSE 0
  BY Zenon DEF FirstNamed, SelectInSeq
<1>3. I # {} => Min(I) \in I
  BY <1>1, MinIndex
<1> QED
  BY <1>2, <1>3

\* Dropping an element by moving the last one into its place: every other
\* element is still there, and nothing new.
LEMMA SwapOutTable ==
  ASSUME NEW S, NEW table \in Seq(S), NEW i \in 1 .. Len(table)
  PROVE  /\ SwapOut(table, i) \in Seq(S)
         /\ Len(SwapOut(table, i)) = Len(table) - 1
         /\ \A j \in 1 .. Len(table) - 1 :
              SwapOut(table, i)[j] = IF j = i THEN table[Len(table)] ELSE table[j]
<1> DEFINE n == Len(table)
           moved == [table EXCEPT ![i] = table[n]]
<1>1. n \in Nat /\ n > 0 /\ table[n] \in S
  OBVIOUS
<1>2. moved \in Seq(S) /\ Len(moved) = n
  BY <1>1
<1>3. SwapOut(table, i) = SubSeq(moved, 1, n - 1)
  BY <1>2, Zenon DEF SwapOut, Front, Last
<1> QED
  BY <1>1, <1>2, <1>3, SubSeqProperties

\* In a table without repetitions, exactly the element at i disappears.
LEMMA SwapOutRange ==
  ASSUME NEW S, NEW table \in Seq(S), NEW i \in 1 .. Len(table),
         \A j, k \in 1 .. Len(table) : table[j] = table[k] => j = k
  PROVE  /\ Range(SwapOut(table, i)) = Range(table) \ {table[i]}
         /\ \A j, k \in 1 .. Len(SwapOut(table, i)) :
              SwapOut(table, i)[j] = SwapOut(table, i)[k] => j = k
<1> DEFINE n == Len(table)
           out == SwapOut(table, i)
<1>1. out \in Seq(S) /\ Len(out) = n - 1 /\ n \in Nat /\ n > 0
  BY SwapOutTable
<1>2. \A j \in 1 .. n - 1 : out[j] = IF j = i THEN table[n] ELSE table[j]
  BY SwapOutTable
<1>3. DOMAIN out = 1 .. n - 1 /\ DOMAIN table = 1 .. n
  BY <1>1
<1> HIDE DEF out
<1>4. \A j, k \in 1 .. n - 1 : out[j] = out[k] => j = k
  BY <1>1, <1>2
<1>5. \A e \in Range(out) : e \in Range(table) /\ e # table[i]
  <2> TAKE e \in Range(out)
  <2>1. PICK j \in 1 .. n - 1 : e = out[j]
    BY <1>3 DEF Range
  <2> QED
    BY <2>1, <1>1, <1>2, <1>3 DEF Range
<1>6. \A e \in Range(table) \ {table[i]} : e \in Range(out)
  <2> TAKE e \in Range(table) \ {table[i]}
  <2>1. PICK j \in 1 .. n : e = table[j]
    BY <1>3 DEF Range
  <2>2. CASE j = n
    <3>1. i \in 1 .. n - 1 /\ out[i] = e
      BY <2>1, <2>2, <1>1, <1>2
    <3> QED
      BY <3>1, <1>3 DEF Range
  <2>3. CASE j # n
    <3>1. j \in 1 .. n - 1 /\ out[j] = e
      BY <2>1, <2>3, <1>1, <1>2
    <3> QED
      BY <3>1, <1>3 DEF Range
  <2> QED
    BY <2>2, <2>3
<1> QED
  BY <1>1, <1>4, <1>5, <1>6 DEF out

\* The registry keeps its type.
LEMMA RemovePeerType ==
  ASSUME NEW S, NEW list \in Seq(S), NEW name
  PROVE  RemovePeer(list, name) \in Seq(S)
  BY FirstNamedIndex, SwapOutTable DEF RemovePeer

\* So it does when an entry is added.
LEMMA AddPeerType ==
  ASSUME NEW S, NEW list \in Seq(S), NEW peer \in S
  PROVE  AddPeer(list, peer) \in Seq(S)
  BY DEF AddPeer

=============================================================================
