-------------------------- MODULE ReassemblyProofs --------------------------
(***************************************************************************)
(* While packets fit the eight-bit fragment count, and no number is taken  *)
(* again that still names a group, slicing, the path for slices and the    *)
(* reassembler are a path for whole packets: on any lap of the numbers,    *)
(* for every number and size of packets, table size and eviction order.    *)
(***************************************************************************)
EXTENDS Reassembly, SequenceNumbersProofs, FiniteSetTheorems

\* Packets of 256 slices at most.
SizesFit == \A n \in Sizes : n <= CountSpace

\* No packet goes out under a number that still names a group.
NumberIsFree == sent' # sent => local_sequence \notin DOMAIN groups

\* Packet i is the last that went out under number s.
Carries(s, i) ==
    /\ i \in 1 .. Len(sent)
    /\ SequenceOf(i) = s
    /\ \A j \in 1 .. Len(sent) : SequenceOf(j) = s => j <= i

\* A fragment of the packet last sent under its number.
Genuine(f) ==
    \E i \in 1 .. Len(sent) : \E k \in 0 .. sent[i] - 1 :
        /\ Carries(f.packet_seq, i)
        /\ f = [packet_seq |-> SequenceOf(i),
                fragment_id |-> k % CountSpace,
                fragment_count |-> sent[i] % CountSpace,
                chunk |-> <<i, k>>]

\* The group holds slices of packet i, each in its place.
SlicesOf(i, group) ==
    /\ group \in [count : {sent[i]},
                  chunks : [0 .. sent[i] - 1 -> {Empty} \union ({i} \X Nat)]]
    /\ \A k \in 0 .. sent[i] - 1 : group.chunks[k] \in {Empty, <<i, k>>}

\* A group is of the packet last sent under the number it is named for.
GoodTable(table) ==
    \A s \in DOMAIN table : \E i \in 1 .. Len(sent) :
        Carries(s, i) /\ SlicesOf(i, table[s])

Whole(packet) == \E i \in 1 .. Len(sent) : packet = WholePacket(i, sent[i])

Inv ==
    /\ sent \in Seq(Sizes)
    /\ Len(sent) <= MaxSent
    /\ local_sequence = SequenceOf(Len(sent) + 1)
    /\ \A f \in net : Genuine(f)
    /\ GoodTable(groups)
    /\ \A packet \in returned : Whole(packet)

\* One packet only is the last under a number.
LEMMA CarriesOne ==
    ASSUME Len(sent) \in Nat, NEW s, NEW i, NEW j, Carries(s, i), Carries(s, j)
    PROVE  i = j
<1>1. i \in Nat /\ j \in Nat /\ i <= j /\ j <= i
  BY DEF Carries
<1> QED
  BY <1>1

LEMMA SizeType ==
    ASSUME SizesFit, Inv, NEW i \in 1 .. Len(sent)
    PROVE  sent[i] \in Nat \ {0} /\ sent[i] <= CountSpace
<1>1. sent[i] \in Sizes
  BY DEF Inv
<1> QED
  BY <1>1, ReassemblyAssumption DEF SizesFit

\* The packet of a fragment is the one its number stands for.
LEMMA FragmentOf ==
    ASSUME Inv, NEW f \in net
    PROVE  /\ f.chunk[1] \in 1 .. Len(sent)
           /\ Carries(f.packet_seq, f.chunk[1])
           /\ \E k \in 0 .. sent[f.chunk[1]] - 1 :
                 /\ f.chunk = <<f.chunk[1], k>>
                 /\ f.fragment_id = k % CountSpace
                 /\ f.fragment_count = sent[f.chunk[1]] % CountSpace
<1>1. PICK i \in 1 .. Len(sent) : \E k \in 0 .. sent[i] - 1 :
         /\ Carries(f.packet_seq, i)
         /\ f = [packet_seq |-> SequenceOf(i), fragment_id |-> k % CountSpace,
                 fragment_count |-> sent[i] % CountSpace, chunk |-> <<i, k>>]
  BY DEF Inv, Genuine
<1>2. PICK k \in 0 .. sent[i] - 1 :
         /\ Carries(f.packet_seq, i)
         /\ f = [packet_seq |-> SequenceOf(i), fragment_id |-> k % CountSpace,
                 fragment_count |-> sent[i] % CountSpace, chunk |-> <<i, k>>]
  BY <1>1
<1>3. f.chunk = <<i, k>> /\ f.chunk[1] = i /\ f.fragment_id = k % CountSpace
      /\ f.fragment_count = sent[i] % CountSpace
  BY <1>2
<1> QED
  BY <1>2, <1>3

\* A fragment that is not malformed has its true id and count.
LEMMA WellFormedFragment ==
    ASSUME SizesFit, Inv, NEW f \in net, ~Malformed(f)
    PROVE  /\ f.chunk[1] \in 1 .. Len(sent)
           /\ Carries(f.packet_seq, f.chunk[1])
           /\ sent[f.chunk[1]] \in Nat
           /\ f.fragment_count = sent[f.chunk[1]]
           /\ f.fragment_id \in 0 .. sent[f.chunk[1]] - 1
           /\ f.chunk = <<f.chunk[1], f.fragment_id>>
<1> DEFINE i == f.chunk[1]
<1>1. /\ i \in 1 .. Len(sent) /\ Carries(f.packet_seq, i)
      /\ \E k \in 0 .. sent[i] - 1 :
            /\ f.chunk = <<i, k>> /\ f.fragment_id = k % CountSpace
            /\ f.fragment_count = sent[i] % CountSpace
  BY FragmentOf
<1> HIDE DEF i
<1>2. PICK k \in 0 .. sent[i] - 1 :
         /\ f.chunk = <<i, k>> /\ f.fragment_id = k % CountSpace
         /\ f.fragment_count = sent[i] % CountSpace
  BY <1>1
<1>3. sent[i] \in Nat \ {0} /\ sent[i] <= CountSpace
  BY <1>1, SizeType
<1>4. sent[i] % CountSpace # 0
  BY <1>2 DEF Malformed
<1>5. sent[i] < CountSpace /\ sent[i] % CountSpace = sent[i] /\ k % CountSpace = k
  <2>1. CountSpace % CountSpace = 0
    BY ReassemblyAssumption
  <2>2. sent[i] < CountSpace
    BY <1>3, <1>4, <2>1, ReassemblyAssumption
  <2>3. \A n \in Nat : n < CountSpace => n % CountSpace = n
    BY ReassemblyAssumption
  <2>4. k \in Nat /\ k < CountSpace
    BY <1>3, <2>2, ReassemblyAssumption
  <2> QED
    BY <1>3, <2>2, <2>3, <2>4
<1> QED
  BY <1>1, <1>2, <1>3, <1>5 DEF i

\* Finding or making f's group, evicting another if need be, keeps the table good.
LEMMA WithGroupGood ==
    ASSUME SizesFit, Inv, NEW f \in net, ~Malformed(f), NEW table \in WithGroup(f)
    PROVE  /\ GoodTable(table)
           /\ f.packet_seq \in DOMAIN table
           /\ SlicesOf(f.chunk[1], table[f.packet_seq])
<1>1. SlicesOf(f.chunk[1], NewGroup(f))
  BY WellFormedFragment DEF SlicesOf, NewGroup
<1> DEFINE opened(t) == [s \in DOMAIN t \union {f.packet_seq} |->
                           IF s = f.packet_seq THEN NewGroup(f) ELSE t[s]]
<1>2. ASSUME NEW t, GoodTable(t), table = opened(t)
      PROVE  GoodTable(table) /\ f.packet_seq \in DOMAIN table
  BY <1>1, <1>2, WellFormedFragment DEF GoodTable
<1>3. GoodTable(table) /\ f.packet_seq \in DOMAIN table
  <2>1. CASE f.packet_seq \in DOMAIN groups
    BY <2>1 DEF WithGroup, Inv
  <2>2. CASE f.packet_seq \notin DOMAIN groups /\ Cardinality(DOMAIN groups) < MaxGroups
    <3>1. table = opened(groups)
      BY <2>2 DEF WithGroup
    <3> QED
      BY <1>2, <3>1 DEF Inv
  <2>3. CASE f.packet_seq \notin DOMAIN groups /\ ~(Cardinality(DOMAIN groups) < MaxGroups)
    <3>1. PICK s \in Oldest(groups) : table = opened(Restrict(groups, DOMAIN groups \ {s}))
      BY <2>3 DEF WithGroup
    <3>2. GoodTable(Restrict(groups, DOMAIN groups \ {s}))
      BY DEF Restrict, Inv, GoodTable
    <3> QED
      BY <1>2, <3>1, <3>2
  <2> QED
    BY <2>1, <2>2, <2>3
<1>4. PICK i \in 1 .. Len(sent) :
         Carries(f.packet_seq, i) /\ SlicesOf(i, table[f.packet_seq])
  BY <1>3 DEF GoodTable
<1>5. i = f.chunk[1]
  <2>1. Len(sent) \in Nat
    BY DEF Inv
  <2> QED
    BY <1>4, <2>1, WellFormedFragment, CarriesOne
<1> QED
  BY <1>3, <1>4, <1>5

\* Storing f's slice keeps the group good; a good group without an empty slot
\* is the whole packet.
LEMMA FilledGood ==
    ASSUME SizesFit, Inv, NEW f \in net, ~Malformed(f), NEW group,
           SlicesOf(f.chunk[1], group)
    PROVE  SlicesOf(f.chunk[1], Filled(f, group))
<1> DEFINE i == f.chunk[1]
<1>1. f.fragment_id \in 0 .. sent[i] - 1 /\ sent[i] \in Nat /\ f.chunk = <<i, f.fragment_id>>
  BY WellFormedFragment
<1>2. SlicesOf(i, group)
  OBVIOUS
<1> HIDE DEF i
<1>3. f.chunk \in {i} \X Nat
  BY <1>1
<1>4. SlicesOf(i, Filled(f, group))
  BY <1>1, <1>2, <1>3 DEF SlicesOf, Filled
<1> QED
  BY <1>4 DEF i

LEMMA CompleteIsWhole ==
    ASSUME NEW i \in 1 .. Len(sent), NEW group, SlicesOf(i, group), Complete(group)
    PROVE  Whole(group.chunks) /\ group.chunks = WholePacket(i, sent[i])
<1>1. /\ DOMAIN group.chunks = 0 .. sent[i] - 1
      /\ group.chunks = [k \in 0 .. sent[i] - 1 |-> group.chunks[k]]
  BY DEF SlicesOf
<1>2. \A k \in 0 .. sent[i] - 1 : group.chunks[k] = <<i, k>>
  BY <1>1 DEF SlicesOf, Complete
<1>3. group.chunks = WholePacket(i, sent[i])
  BY <1>1, <1>2 DEF WholePacket
<1> QED
  BY <1>3 DEF Whole

\* What comes of an arrival: the table stays good, and what is returned, if
\* anything, is the packet the fragment is of.
LEMMA ReceiveReturns ==
    ASSUME SizesFit, Inv, NEW f \in net, Receive(f)
    PROVE  /\ GoodTable(groups')
           /\ f.chunk[1] \in 1 .. Len(sent)
           /\ \/ UNCHANGED returned
              \/ returned' = returned \union {WholePacket(f.chunk[1], sent[f.chunk[1]])}
<1> DEFINE i == f.chunk[1]
<1>0. i \in 1 .. Len(sent)
  BY FragmentOf
<1>1. CASE UNCHANGED <<groups, returned>>
  BY <1>0, <1>1 DEF Inv
<1>2. CASE ReturnSingle(f)
  <2>1. f.fragment_id = 0 /\ sent[i] = 1 /\ f.chunk = <<i, 0>>
    BY <1>2, WellFormedFragment DEF ReturnSingle
  <2>2. [k \in {0} |-> f.chunk] = WholePacket(i, sent[i])
    <3> HIDE DEF i
    <3> QED
      BY <2>1 DEF WholePacket
  <2> QED
    BY <1>0, <1>2, <2>2 DEF ReturnSingle, Inv
<1>3. CASE Assemble(f)
  <2>1. ~Malformed(f)
    BY <1>3 DEF Assemble
  <2>2. PICK table \in WithGroup(f) :
           \/ groups' = table /\ UNCHANGED returned
           \/ /\ groups' = [table EXCEPT ![f.packet_seq] = Filled(f, table[f.packet_seq])]
              /\ UNCHANGED returned
           \/ /\ Complete(Filled(f, table[f.packet_seq]))
              /\ groups' = Restrict(table, DOMAIN table \ {f.packet_seq})
              /\ returned' = returned \union {Filled(f, table[f.packet_seq]).chunks}
    BY <1>3 DEF Assemble
  <2>3. GoodTable(table) /\ SlicesOf(i, table[f.packet_seq])
    BY <2>1, WithGroupGood
  <2>4. SlicesOf(i, Filled(f, table[f.packet_seq]))
    BY <2>1, <2>3, FilledGood
  <2>5. Carries(f.packet_seq, i)
    BY FragmentOf
  <2>6. Complete(Filled(f, table[f.packet_seq]))
          => Filled(f, table[f.packet_seq]).chunks = WholePacket(i, sent[i])
    BY <1>0, <2>4, CompleteIsWhole
  <2> HIDE DEF i
  <2>7. GoodTable(groups')
    BY <1>0, <2>2, <2>3, <2>4, <2>5 DEF GoodTable, Restrict
  <2>8. \/ UNCHANGED returned
        \/ returned' = returned \union {WholePacket(i, sent[i])}
    BY <2>2, <2>6
  <2> QED
    BY <1>0, <2>7, <2>8 DEF i
<1> QED
  BY <1>1, <1>2, <1>3 DEF Receive

LEMMA ReceiveKeepsInv ==
    ASSUME SizesFit, Inv, NEW f \in net, Receive(f)
    PROVE  Inv'
<1>1. UNCHANGED <<sent, local_sequence, net>>
  BY DEF Receive
<1>2. GoodTable(groups') /\ \A packet \in returned' : Whole(packet)
  BY ReceiveReturns DEF Inv, Whole
<1>3. GoodTable(groups)'
  BY <1>1, <1>2 DEF GoodTable, SlicesOf, Carries
<1>4. \A g \in net' : Genuine(g)'
  BY <1>1 DEF Inv, Genuine, Carries
<1>5. \A packet \in returned' : Whole(packet)'
  BY <1>1, <1>2 DEF Whole
<1> QED
  BY <1>1, <1>3, <1>4, <1>5 DEF Inv

LEMMA SendKeepsInv ==
    ASSUME Inv, NEW n \in Sizes, Send(n), local_sequence \notin DOMAIN groups
    PROVE  Inv'
<1>0. PICK new \in Nat : new = Len(sent) + 1
  BY DEF Inv
<1>1. /\ Len(sent) < MaxSent
      /\ local_sequence = SequenceOf(new)
      /\ sent' = Append(sent, n)
      /\ local_sequence' = NextSeq(local_sequence)
      /\ net' = net \union Fragments(new, local_sequence, n)
      /\ UNCHANGED <<groups, returned>>
      /\ \A f \in net : f.packet_seq # local_sequence
  BY <1>0 DEF Send, Inv
<1>2. /\ sent' \in Seq(Sizes) /\ Len(sent) \in Nat
      /\ Len(sent') = new
      /\ \A i \in 1 .. Len(sent) : sent'[i] = sent[i]
      /\ sent'[new] = n
  BY <1>0, <1>1 DEF Inv
<1>3. /\ new \in Nat \ {0} /\ new \in 1 .. new
      /\ \A i \in 1 .. new : i \in 1 .. Len(sent) \/ i = new
      /\ \A i \in 1 .. Len(sent) : i \in 1 .. new /\ i <= new
  BY <1>0, <1>2
<1>4. local_sequence' = SequenceOf(Len(sent') + 1)
  BY <1>1, <1>2, <1>3, SequenceOfType
<1>5. \A s, i : Carries(s, i) /\ s # local_sequence => Carries(s, i)' /\ i \in 1 .. Len(sent)
  BY <1>1, <1>2, <1>3 DEF Carries
<1>6. ASSUME NEW s, s = local_sequence PROVE Carries(s, new)'
  <2>1. \A j \in 1 .. new : j <= new
    BY <1>3
  <2>2. /\ new \in 1 .. Len(sent') /\ SequenceOf(new) = s
        /\ \A j \in 1 .. Len(sent') : j <= new
    BY <1>1, <1>2, <1>3, <1>6, <2>1
  <2> QED
    BY <2>2 DEF Carries
<1>7. \A f \in net' : Genuine(f)'
  <2>1. ASSUME NEW f \in net PROVE Genuine(f)'
    <3>1. PICK i \in 1 .. Len(sent) : \E k \in 0 .. sent[i] - 1 :
             /\ Carries(f.packet_seq, i)
             /\ f = [packet_seq |-> SequenceOf(i), fragment_id |-> k % CountSpace,
                     fragment_count |-> sent[i] % CountSpace, chunk |-> <<i, k>>]
      BY DEF Inv, Genuine
    <3>2. PICK k \in 0 .. sent[i] - 1 :
             /\ Carries(f.packet_seq, i)
             /\ f = [packet_seq |-> SequenceOf(i), fragment_id |-> k % CountSpace,
                     fragment_count |-> sent[i] % CountSpace, chunk |-> <<i, k>>]
      BY <3>1
    <3>3. Carries(f.packet_seq, i)' /\ sent'[i] = sent[i] /\ i \in 1 .. Len(sent')
      BY <1>1, <1>2, <1>3, <1>5, <3>2
    <3> QED
      BY <3>2, <3>3 DEF Genuine
  <2>2. ASSUME NEW f \in Fragments(new, local_sequence, n) PROVE Genuine(f)'
    <3>1. PICK k \in 0 .. n - 1 :
             f = [packet_seq |-> local_sequence, fragment_id |-> k % CountSpace,
                  fragment_count |-> n % CountSpace, chunk |-> <<new, k>>]
      BY DEF Fragments
    <3>2. f.packet_seq = local_sequence
      BY <3>1
    <3> QED
      BY <1>1, <1>2, <1>3, <1>6, <3>1, <3>2 DEF Genuine
  <2> QED
    BY <1>1, <2>1, <2>2
<1>8. GoodTable(groups)'
  <2> SUFFICES ASSUME NEW s \in DOMAIN groups
               PROVE  \E i \in 1 .. Len(sent') : Carries(s, i)' /\ SlicesOf(i, groups[s])'
    BY <1>1 DEF GoodTable
  <2>1. PICK i \in 1 .. Len(sent) : Carries(s, i) /\ SlicesOf(i, groups[s])
    BY DEF Inv, GoodTable
  <2>2. Carries(s, i)' /\ i \in 1 .. Len(sent') /\ sent'[i] = sent[i]
    BY <1>2, <1>3, <1>5, <2>1
  <2>3. SlicesOf(i, groups[s])'
    BY <1>1, <2>1, <2>2 DEF SlicesOf
  <2> QED
    BY <2>2, <2>3
<1>9. \A packet \in returned' : Whole(packet)'
  BY <1>1, <1>2, <1>3 DEF Inv, Whole
<1>10. Len(sent') <= MaxSent
  BY <1>0, <1>1, <1>2, ReassemblyAssumption
<1> QED
  BY <1>2, <1>4, <1>7, <1>8, <1>9, <1>10 DEF Inv

LEMMA LosingKeepsInv ==
    ASSUME Inv, UNCHANGED <<sent, local_sequence, groups, returned>>, net' \subseteq net
    PROVE  Inv'
<1>1. GoodTable(groups)'
  BY DEF Inv, GoodTable, SlicesOf, Carries
<1>2. \A g \in net' : Genuine(g)'
  BY DEF Inv, Genuine, Carries
<1>3. \A packet \in returned' : Whole(packet)'
  BY DEF Inv, Whole
<1> QED
  BY <1>1, <1>2, <1>3 DEF Inv

LEMMA InvInit == Init => Inv
<1>1. ASSUME Init PROVE local_sequence = SequenceOf(Len(sent) + 1) /\ sent \in Seq(Sizes)
                        /\ Len(sent) <= MaxSent
  BY <1>1, SequenceOfFirst, ReassemblyAssumption DEF Init
<1> QED
  BY <1>1 DEF Init, Inv, GoodTable

LEMMA InvStep ==
    ASSUME SizesFit
    PROVE  Inv /\ [Next]_vars /\ [NumberIsFree]_vars => Inv'
<1> SUFFICES ASSUME Inv, [Next]_vars, [NumberIsFree]_vars PROVE Inv'
  OBVIOUS
<1>1. ASSUME NEW f \in net, Lose(f) PROVE Inv'
  BY <1>1, LosingKeepsInv DEF Lose
<1>2. CASE UNCHANGED vars
  BY <1>2, LosingKeepsInv DEF vars
<1>3. ASSUME NEW n \in Sizes, Send(n) PROVE Inv'
  <2>1. sent' # sent
    <3>1. sent' = Append(sent, n) /\ sent \in Seq(Sizes)
      BY <1>3 DEF Send, Inv
    <3>2. Len(sent') = Len(sent) + 1 /\ Len(sent) \in Nat
      BY <3>1
    <3> QED
      BY <3>2
  <2>2. local_sequence \notin DOMAIN groups
    BY <2>1 DEF NumberIsFree, vars
  <2> QED
    BY <1>3, <2>2, SendKeepsInv
<1> QED
  BY <1>1, <1>2, <1>3, ReceiveKeepsInv DEF Next

\* reassemble() returns nothing but packets that were sent, whole, however
\* fragments are lost, repeated and reordered, whichever groups are evicted and
\* however often the numbers wrap, unless a number is taken again while a
\* partial packet of the lap before still has its group.
THEOREM ReturnsOnlyWholePackets ==
    ASSUME SizesFit
    PROVE  Spec /\ [][NumberIsFree]_vars => []OnlyWholePackets
<1>1. Inv => OnlyWholePackets
  BY DEF Inv, OnlyWholePackets, Whole
<1> QED
  BY <1>1, InvInit, InvStep, PTL DEF Spec

\* Under the same condition fragmentation, the path for fragments and the
\* reassembler implement the path for whole packets on which PeerLink builds.
THEOREM IsDatagramPathHolds ==
    ASSUME SizesFit
    PROVE  Spec /\ [][NumberIsFree]_vars => IsDatagramPath
<1>1. Init => Path!Init
  BY DEF Init, Path!Init
<1>2. Inv /\ [Next]_vars => [Path!Next]_(Path!vars)
  <2> SUFFICES ASSUME Inv, [Next]_vars PROVE [Path!Next]_(Path!vars)
    OBVIOUS
  <2> DEFINE underway == { f.chunk[1] : f \in net }
  <2>1. ASSUME NEW n \in Sizes, Send(n) PROVE Path!Send(n)
    <3> DEFINE new == Len(sent) + 1
    <3>1. /\ sent' = Append(sent, n) /\ UNCHANGED returned
          /\ net' = net \union Fragments(new, local_sequence, n)
          /\ \A f \in net : f.packet_seq # local_sequence
          /\ local_sequence = SequenceOf(new)
      BY <2>1 DEF Send, Inv
    <3>2. \A f \in net : SequenceOf(f.chunk[1]) = f.packet_seq
      BY FragmentOf DEF Carries
    <3>3. \A i \in underway : SequenceOf(i) # SequenceOf(new)
      BY <3>1, <3>2
    <3>4. { f.chunk[1] : f \in Fragments(new, local_sequence, n) } = {new}
      <4>1. n \in Nat \ {0}
        BY ReassemblyAssumption
      <4>2. 0 \in 0 .. n - 1
        BY <4>1
      <4>3. \A f \in Fragments(new, local_sequence, n) : f.chunk[1] = new
        BY DEF Fragments
      <4>4. Fragments(new, local_sequence, n) # {}
        BY <4>2 DEF Fragments
      <4> QED
        BY <4>3, <4>4
    <3>5. underway' = underway \union {new}
      BY <3>1, <3>4
    <3>6. \A i : Path!SequenceOf(i) = SequenceOf(i)
      BY DEF Path!SequenceOf, SequenceOf
    <3> QED
      BY <3>1, <3>3, <3>5, <3>6 DEF Path!Send
  <2>2. ASSUME NEW f \in net, Receive(f)
        PROVE  \/ f.chunk[1] \in underway /\ Path!Deliver(f.chunk[1])
               \/ UNCHANGED Path!vars
    <3>1. UNCHANGED <<sent, net>>
      BY <2>2 DEF Receive
    <3> QED
      BY <2>2, <3>1, ReceiveReturns DEF Path!Deliver, Path!vars, WholePacket
  <2>3. ASSUME NEW f \in net, Lose(f)
        PROVE  \/ f.chunk[1] \in underway /\ Path!Drop(f.chunk[1])
               \/ UNCHANGED Path!vars
    <3>1. net' = net \ {f} /\ UNCHANGED <<sent, returned>>
      BY <2>3 DEF Lose
    <3>2. underway' = underway \/ underway' = underway \ {f.chunk[1]}
      BY <3>1
    <3> QED
      BY <3>1, <3>2 DEF Path!Drop, Path!vars
  <2>4. CASE UNCHANGED vars
    BY <2>4 DEF vars, Path!vars
  <2> QED
    BY <2>1, <2>2, <2>3, <2>4 DEF Next, Path!Next
<1> QED
  BY <1>1, <1>2, InvInit, InvStep, PTL DEF Spec, IsDatagramPath, Path!Spec

----------------------------------------------------------------------------
(* When numbers are free *)

\* The first lap of the sequence space.
FirstLap == MaxSent < SeqSpace

\* On the first lap no number is taken again at all.
THEOREM FreeOnFirstLap ==
    ASSUME FirstLap, SizesFit
    PROVE  Spec => [][NumberIsFree]_vars
<1>1. Inv /\ [Next]_vars => [NumberIsFree]_vars
  <2> SUFFICES ASSUME Inv, Next, sent' # sent, local_sequence \in DOMAIN groups PROVE FALSE
    BY DEF NumberIsFree
  <2>1. PICK n \in Sizes : Send(n)
    BY DEF Next, Receive, Lose
  <2>2. Len(sent) < MaxSent /\ local_sequence = SequenceOf(Len(sent) + 1) /\ Len(sent) \in Nat
    BY <2>1 DEF Send, Inv
  <2>3. PICK i \in 1 .. Len(sent) : SequenceOf(i) = local_sequence
    BY DEF Inv, GoodTable, Carries
  <2>4. /\ i \in Nat \ {0} /\ Len(sent) + 1 \in Nat /\ i < Len(sent) + 1
        /\ (Len(sent) + 1) - i < SeqSpace - 1
    BY <2>2, SeqAssumption, ReassemblyAssumption DEF FirstLap
  <2> QED
    BY <2>2, <2>3, <2>4, NumbersDiffer
<1> QED
  BY <1>1, InvInit, InvStep, PTL DEF Spec

----------------------------------------------------------------------------
(* Type correctness: the table stays bounded *)

GroupType ==
    UNION { [count : {n}, chunks : [0 .. n - 1 -> Chunk \union {Empty}]] :
              n \in 2 .. CountSpace - 1 }

\* A table of so many groups at most, as the code keeps it between two calls.
Table(table, max) ==
    /\ IsFiniteSet(DOMAIN table)
    /\ Cardinality(DOMAIN table) <= max
    /\ DOMAIN table \subseteq SequenceNumber
    /\ \A s \in DOMAIN table : table[s] \in GroupType

TypeInv ==
    /\ sent \in Seq(Sizes)
    /\ local_sequence \in SequenceNumber \ {0}
    /\ net \subseteq [packet_seq : SequenceNumber, fragment_id : Nat,
                      fragment_count : 0 .. CountSpace - 1, chunk : Chunk]
    /\ Table(groups, MaxGroups)
    /\ arrived \subseteq Chunk

LEMMA FragmentsType ==
    ASSUME NEW n \in Sizes, NEW packet \in Nat, NEW seq \in SequenceNumber
    PROVE  Fragments(packet, seq, n) \subseteq
             [packet_seq : SequenceNumber, fragment_id : Nat,
              fragment_count : 0 .. CountSpace - 1, chunk : Chunk]
<1>1. n \in Nat
  BY ReassemblyAssumption
<1>2. \A k \in Nat : k % CountSpace \in 0 .. CountSpace - 1
  BY ReassemblyAssumption
<1>3. n % CountSpace \in 0 .. CountSpace - 1
  BY <1>1, <1>2
<1>4. ASSUME NEW k \in 0 .. n - 1
      PROVE  k % CountSpace \in Nat /\ <<packet, k>> \in Chunk
  BY <1>1, <1>2 DEF Chunk
<1>5. QED BY <1>3, <1>4 DEF Fragments

\* Opening a group in a table that has room for it.
LEMMA OpenedTable ==
    ASSUME TypeInv, NEW f \in net, ~Malformed(f), f.fragment_count # 1,
           NEW table, Table(table, MaxGroups - 1), f.packet_seq \notin DOMAIN table
    PROVE  Table([s \in DOMAIN table \union {f.packet_seq} |->
                    IF s = f.packet_seq THEN NewGroup(f) ELSE table[s]], MaxGroups)
<1> DEFINE opened == [s \in DOMAIN table \union {f.packet_seq} |->
                        IF s = f.packet_seq THEN NewGroup(f) ELSE table[s]]
<1>1. /\ f.packet_seq \in SequenceNumber
      /\ f.fragment_count \in 2 .. CountSpace - 1
  BY DEF TypeInv, Malformed
<1>2. NewGroup(f) \in GroupType
  <2>1. NewGroup(f) \in [count : {f.fragment_count},
                        chunks : [0 .. f.fragment_count - 1 -> Chunk \union {Empty}]]
    BY DEF NewGroup
  <2>2. QED BY <1>1, <2>1 DEF GroupType
<1>3. /\ IsFiniteSet(DOMAIN opened)
      /\ Cardinality(DOMAIN opened) = Cardinality(DOMAIN table) + 1
  BY FS_AddElement DEF Table
<1>4. Cardinality(DOMAIN table) \in Nat
  BY FS_CardinalityType DEF Table
<1>5. Cardinality(DOMAIN opened) <= MaxGroups
  BY <1>3, <1>4, ReassemblyAssumption DEF Table
<1>6. \A s \in DOMAIN opened : opened[s] \in GroupType
  BY <1>2 DEF Table
<1>7. DOMAIN opened \subseteq SequenceNumber
  BY <1>1 DEF Table
<1>8. QED BY <1>3, <1>5, <1>6, <1>7 DEF Table

LEMMA WithGroupType ==
    ASSUME TypeInv, NEW f \in net, ~Malformed(f), f.fragment_count # 1,
           NEW table \in WithGroup(f)
    PROVE  Table(table, MaxGroups) /\ f.packet_seq \in DOMAIN table
<1> DEFINE opened(t) == [s \in DOMAIN t \union {f.packet_seq} |->
                           IF s = f.packet_seq THEN NewGroup(f) ELSE t[s]]
<1>1. CASE f.packet_seq \in DOMAIN groups
  BY <1>1 DEF WithGroup, TypeInv
<1>2. CASE f.packet_seq \notin DOMAIN groups /\ Cardinality(DOMAIN groups) < MaxGroups
  <2>1. table = opened(groups)
    BY <1>2 DEF WithGroup
  <2>2. Cardinality(DOMAIN groups) \in Nat
    BY FS_CardinalityType DEF TypeInv, Table
  <2>3. Table(groups, MaxGroups - 1)
    BY <1>2, <2>2, ReassemblyAssumption DEF TypeInv, Table
  <2>4. QED BY <1>2, <2>1, <2>3, OpenedTable
<1>3. CASE f.packet_seq \notin DOMAIN groups /\ ~(Cardinality(DOMAIN groups) < MaxGroups)
  <2>1. PICK s \in Oldest(groups) : table = opened(Restrict(groups, DOMAIN groups \ {s}))
    BY <1>3 DEF WithGroup
  <2> DEFINE rest == Restrict(groups, DOMAIN groups \ {s})
  <2>2. s \in DOMAIN groups
    BY DEF Oldest
  <2>3. DOMAIN rest = DOMAIN groups \ {s} /\ \A r \in DOMAIN rest : rest[r] = groups[r]
    BY DEF Restrict
  <2>4. /\ IsFiniteSet(DOMAIN rest)
        /\ Cardinality(DOMAIN rest) = Cardinality(DOMAIN groups) - 1
    BY <2>2, <2>3, FS_RemoveElement DEF TypeInv, Table
  <2>5. Cardinality(DOMAIN groups) \in Nat
    BY FS_CardinalityType DEF TypeInv, Table
  <2>6. Cardinality(DOMAIN rest) <= MaxGroups - 1
    BY <2>4, <2>5, ReassemblyAssumption DEF TypeInv, Table
  <2>7. Table(rest, MaxGroups - 1)
    BY <2>3, <2>4, <2>6 DEF TypeInv, Table
  <2>8. f.packet_seq \notin DOMAIN rest
    BY <1>3, <2>3
  <2>9. QED BY <2>1, <2>7, <2>8, OpenedTable
<1>4. QED BY <1>1, <1>2, <1>3

LEMMA FilledType ==
    ASSUME TypeInv, NEW f \in net, NEW group \in GroupType
    PROVE  Filled(f, group) \in GroupType
<1>1. PICK n \in 2 .. CountSpace - 1 :
         group \in [count : {n}, chunks : [0 .. n - 1 -> Chunk \union {Empty}]]
  BY DEF GroupType
<1>2. f.chunk \in Chunk
  BY DEF TypeInv
<1>3. Filled(f, group) \in [count : {n}, chunks : [0 .. n - 1 -> Chunk \union {Empty}]]
  BY <1>1, <1>2 DEF Filled
<1>4. QED BY <1>3 DEF GroupType

LEMMA ReceiveKeepsTable ==
    ASSUME TypeInv, NEW f \in net, Receive(f)
    PROVE  Table(groups', MaxGroups)
<1>1. CASE UNCHANGED groups
  BY <1>1 DEF TypeInv
<1>2. CASE Assemble(f)
  <2>1. ~Malformed(f) /\ f.fragment_count # 1
    BY <1>2 DEF Assemble
  <2>2. PICK table \in WithGroup(f) :
           \/ groups' = table
           \/ groups' = [table EXCEPT ![f.packet_seq] = Filled(f, table[f.packet_seq])]
           \/ groups' = Restrict(table, DOMAIN table \ {f.packet_seq})
    BY <1>2 DEF Assemble
  <2>3. Table(table, MaxGroups) /\ f.packet_seq \in DOMAIN table
    BY <2>1, WithGroupType
  <2>4. Filled(f, table[f.packet_seq]) \in GroupType
    BY <2>3, FilledType DEF Table
  <2>5. CASE groups' = table
    BY <2>3, <2>5
  <2>6. CASE groups' = [table EXCEPT ![f.packet_seq] = Filled(f, table[f.packet_seq])]
    BY <2>3, <2>4, <2>6 DEF Table
  <2>7. CASE groups' = Restrict(table, DOMAIN table \ {f.packet_seq})
    <3>1. /\ DOMAIN groups' = DOMAIN table \ {f.packet_seq}
          /\ \A s \in DOMAIN groups' : groups'[s] = table[s]
      BY <2>7 DEF Restrict
    <3>2. /\ IsFiniteSet(DOMAIN groups')
          /\ Cardinality(DOMAIN groups') = Cardinality(DOMAIN table) - 1
      BY <2>3, <3>1, FS_RemoveElement DEF Table
    <3>3. Cardinality(DOMAIN table) \in Nat
      BY <2>3, FS_CardinalityType DEF Table
    <3>4. Cardinality(DOMAIN groups') <= MaxGroups
      BY <2>3, <3>2, <3>3, ReassemblyAssumption DEF Table
    <3>5. QED BY <2>3, <3>1, <3>2, <3>4 DEF Table
  <2>8. QED BY <2>2, <2>5, <2>6, <2>7
<1>3. QED BY <1>1, <1>2 DEF Receive, ReturnSingle

LEMMA TypeInvInit == Init => TypeInv
<1>1. 1 \in SequenceNumber \ {0}
  BY SeqAssumption DEF SequenceNumber
<1>2. QED BY <1>1, FS_EmptySet, ReassemblyAssumption DEF Init, TypeInv, Table

LEMMA TypeInvStep == TypeInv /\ [Next]_vars => TypeInv'
<1> SUFFICES ASSUME TypeInv, [Next]_vars PROVE TypeInv'
  OBVIOUS
<1>1. ASSUME NEW n \in Sizes, Send(n) PROVE TypeInv'
  <2>1. local_sequence \in SequenceNumber /\ Len(sent) + 1 \in Nat
    BY DEF TypeInv
  <2>2. local_sequence' \in SequenceNumber \ {0}
    BY <1>1, NextSeqType DEF Send, TypeInv
  <2>3. sent' \in Seq(Sizes)
    BY <1>1 DEF Send, TypeInv
  <2>4. QED BY <1>1, <2>1, <2>2, <2>3, FragmentsType DEF Send, TypeInv, Table
<1>2. ASSUME NEW f \in net, Receive(f) PROVE TypeInv'
  BY <1>2, ReceiveKeepsTable DEF Receive, TypeInv
<1>3. ASSUME NEW f \in net, Lose(f) PROVE TypeInv'
  BY <1>3 DEF Lose, TypeInv, Table
<1>4. CASE UNCHANGED vars
  BY <1>4 DEF vars, TypeInv, Table
<1>5. QED BY <1>1, <1>2, <1>3, <1>4 DEF Next

\* The reassembler is well-typed on every lap of the numbers: whatever arrives,
\* it tracks MaxGroups partial packets at most, each with the slots its count
\* asks for (evict_oldest makes room before a group is opened).
THEOREM TypeCorrect == Spec => []TypeOK
<1>1. TypeInv => TypeOK
  <2> SUFFICES ASSUME TypeInv PROVE TypeOK
    OBVIOUS
  <2>1. 0 .. CountSpace - 1 \subseteq Nat
    BY ReassemblyAssumption
  <2>2. net \subseteq Fragment
    BY <2>1 DEF TypeInv, Fragment
  <2>3. \A group \in GroupType :
           /\ group.count \in 2 .. CountSpace - 1
           /\ group.chunks \in [0 .. group.count - 1 -> Chunk \union {Empty}]
    BY DEF GroupType
  <2>4. QED BY <2>2, <2>3 DEF TypeInv, TypeOK, Table
<1>2. QED BY <1>1, TypeInvInit, TypeInvStep, PTL DEF Spec

----------------------------------------------------------------------------
(* Eviction, and what it may cost *)

\* A number of a group names one of the last packets sent, half a cycle of them.
Fresh ==
    \A s \in DOMAIN groups : \E i \in 1 .. Len(sent) :
        SequenceOf(i) = s /\ i + HalfACycle > Len(sent)

\* The later of two groups' packets has the newer number, which Older passes over.
LEMMA OlderIsEarlier ==
    ASSUME Inv, Fresh, NEW a \in DOMAIN groups, NEW b \in DOMAIN groups,
           NEW i, NEW j, Carries(a, i), Carries(b, j)
    PROVE  /\ i \in Nat \ {0} /\ j \in Nat \ {0}
           /\ i = j <=> a = b
           /\ Older(a, b) = IF i <= j THEN a ELSE b
<1>1. PICK i0 \in 1 .. Len(sent) : SequenceOf(i0) = a /\ i0 + HalfACycle > Len(sent)
  BY DEF Fresh
<1>2. PICK j0 \in 1 .. Len(sent) : SequenceOf(j0) = b /\ j0 + HalfACycle > Len(sent)
  BY DEF Fresh
<1>3. /\ HalfACycle \in Nat /\ Len(sent) \in Nat
      /\ i \in 1 .. Len(sent) /\ j \in 1 .. Len(sent) /\ i0 <= i /\ j0 <= j
      /\ SequenceOf(i) = a /\ SequenceOf(j) = b
  BY <1>1, <1>2, SeqAssumption DEF Carries, Inv, HalfACycle, HalfSpace
<1>4. i \in Nat \ {0} /\ j \in Nat \ {0} /\ i - j < HalfACycle /\ j - i < HalfACycle
  BY <1>1, <1>2, <1>3
<1>5. a \in SequenceNumber /\ b \in SequenceNumber
  BY <1>3, <1>4, SequenceOfType
<1>6. i = j <=> a = b
  BY <1>3, CarriesOne
<1>7. CASE i = j
  BY <1>4, <1>6, <1>7 DEF Older
<1>8. CASE i < j
  <2>1. SeqGreater(b, a)
    BY <1>3, <1>4, <1>8, AheadIsGreater
  <2>2. ~SeqGreater(a, b)
    BY <1>4, <1>5, <1>6, <1>8, <2>1, SeqGreaterTotal
  <2> QED
    BY <1>4, <1>6, <1>8, <2>2 DEF Older
<1>9. CASE j < i
  <2>1. SeqGreater(a, b)
    BY <1>3, <1>4, <1>9, AheadIsGreater
  <2> QED
    BY <1>4, <1>6, <1>9, <2>1 DEF Older
<1> QED
  BY <1>4, <1>6, <1>7, <1>8, <1>9

\* evict_oldest finds the oldest, in whichever order the table is passed: what
\* is kept so far was not sent after anything looked at.
LEMMA OldestIsLeast ==
    ASSUME NEW table, IsFiniteSet(DOMAIN table), NEW P \in [DOMAIN table -> Nat],
           \A a, b \in DOMAIN table :
              P[Older(a, b)] <= P[a] /\ P[Older(a, b)] <= P[b],
           NEW s \in Oldest(table)
    PROVE  s \in DOMAIN table /\ \A t \in DOMAIN table : P[s] <= P[t]
<1> DEFINE D == DOMAIN table   n == Cardinality(D)
<1>1. PICK pass \in Bijection(1 .. n, D), kept \in [1 .. n -> D] :
         /\ kept[1] = pass[1]
         /\ \A i \in 2 .. n : kept[i] = Older(kept[i - 1], pass[i])
         /\ kept[n] = s
  BY DEF Oldest
<1>2. n \in Nat
  BY FS_CardinalityType
<1>3. pass \in [1 .. n -> D] /\ \A t \in D : \E i \in 1 .. n : pass[i] = t
  BY DEF Bijection, Surjection, Injection
<1>4. s \in D /\ \A t \in D : P[t] \in Nat
  BY DEF Oldest
<1>5. \A a, b \in D : P[Older(a, b)] <= P[a] /\ P[Older(a, b)] <= P[b]
  OBVIOUS
<1> HIDE DEF D, n
<1>6. \A i \in 1 .. n : \A j \in 1 .. i : P[kept[i]] <= P[pass[j]]
  <2> DEFINE Bad == { i \in 1 .. n : \E j \in 1 .. i : ~(P[kept[i]] <= P[pass[j]]) }
  <2> SUFFICES ASSUME Bad # {} PROVE FALSE
    OBVIOUS
  <2>1. Bad \in SUBSET Nat
    OBVIOUS
  <2>2. PICK i \in Bad : \A k \in Bad : i <= k
    <3> HIDE DEF Bad
    <3> QED
      BY <2>1, LeastElement
  <2>3. PICK j \in 1 .. i : ~(P[kept[i]] <= P[pass[j]])
    OBVIOUS
  <2>4. /\ i \in 1 .. n /\ j \in 1 .. n /\ i \in Nat /\ j \in Nat /\ j <= i
        /\ kept[i] \in D /\ pass[i] \in D /\ pass[j] \in D
    <3>1. i \in 1 .. n
      OBVIOUS
    <3>2. j \in 1 .. n /\ i \in Nat /\ j \in Nat /\ j <= i
      BY <1>2, <2>3, <3>1
    <3> QED
      BY <1>1, <1>3, <3>1, <3>2
  <2>5. CASE i = 1
    <3>1. j = 1
      BY <2>3, <2>4, <2>5
    <3>2. P[kept[1]] \in Nat /\ kept[1] = pass[1]
      BY <1>1, <1>4, <2>4, <2>5
    <3> QED
      BY <2>3, <2>5, <3>1, <3>2
  <2>6. CASE i # 1
    <3>1. i - 1 \in 1 .. n /\ i \in 2 .. n /\ ~(i <= i - 1)
      BY <1>2, <2>4, <2>6
    <3>2. i - 1 \notin Bad
      <4> HIDE DEF Bad
      <4> QED
        BY <2>2, <3>1
    <3>3. \A k \in 1 .. i - 1 : P[kept[i - 1]] <= P[pass[k]]
      BY <3>1, <3>2
    <3> HIDE DEF Bad
    <3>4. kept[i] = Older(kept[i - 1], pass[i]) /\ kept[i - 1] \in D
      BY <1>1, <3>1
    <3>5. P[kept[i]] <= P[kept[i - 1]] /\ P[kept[i]] <= P[pass[i]]
      BY <1>5, <2>4, <3>4
    <3>6. j = i \/ j \in 1 .. i - 1
      BY <2>4
    <3>7. CASE j \in 1 .. i - 1
      <4>1. P[kept[i - 1]] <= P[pass[j]]
        BY <3>3, <3>7
      <4>2. P[kept[i]] \in Nat /\ P[kept[i - 1]] \in Nat /\ P[pass[j]] \in Nat
        BY <1>4, <2>4, <3>4
      <4> QED
        BY <2>3, <3>5, <4>1, <4>2
    <3> QED
      BY <2>3, <3>5, <3>6, <3>7
  <2> QED
    BY <2>5, <2>6
<1>7. ASSUME NEW t \in D PROVE P[s] <= P[t]
  <2>1. PICK i \in 1 .. n : pass[i] = t
    BY <1>3
  <2>2. n \in 1 .. n /\ i \in 1 .. n
    BY <1>2
  <2> QED
    BY <1>1, <1>6, <2>1, <2>2
<1> QED
  BY <1>4, <1>7 DEF D

\* The later packets of which something arrived.
Later(i) == { j \in Touched : j > i }

\* The condition under which packet i is promised.
Promised(i) == sent[i] < CountSpace /\ Cardinality(Later(i)) < MaxGroups - 1

\* The table has a group of packet i, with slice k in it.
Holds(table, i, k) ==
    /\ Carries(SequenceOf(i), i)
    /\ SequenceOf(i) \in DOMAIN table
    /\ table[SequenceOf(i)].chunks[k] # Empty

\* What arrived of a promised packet is in its group, or was returned with it.
Kept ==
    /\ Touched \subseteq 1 .. Len(sent)
    /\ \A s \in DOMAIN groups : \E i \in Touched : Carries(s, i)
    /\ \A s \in DOMAIN groups : ~Complete(groups[s])
    /\ \A i \in 1 .. Len(sent) : Promised(i) =>
         \/ WholePacket(i, sent[i]) \in returned
         \/ \A k \in 0 .. sent[i] - 1 : <<i, k>> \in arrived => Holds(groups, i, k)

\* What is evicted to make room has MaxGroups - 1 later packets in the table.
LEMMA EvictedIsNotPromised ==
    ASSUME Inv, TypeInv, Kept, Fresh, ~(Cardinality(DOMAIN groups) < MaxGroups),
           NEW s \in Oldest(groups), NEW i, Carries(s, i)
    PROVE  ~Promised(i)
<1> DEFINE D == DOMAIN groups
           P == [t \in D |-> CHOOSE j \in Touched : Carries(t, j)]
<1>1. ASSUME NEW t \in D PROVE P[t] \in Touched /\ Carries(t, P[t]) /\ P[t] \in Nat
  <2>1. \E j \in Touched : Carries(t, j)
    BY DEF Kept
  <2>2. P[t] \in Touched /\ Carries(t, P[t])
    BY <2>1
  <2> QED
    BY <2>2 DEF Carries
<1>2. P \in [D -> Nat]
  BY <1>1
<1> HIDE DEF P
<1>3. \A a, b \in D : P[Older(a, b)] <= P[a] /\ P[Older(a, b)] <= P[b]
  <2> SUFFICES ASSUME NEW a \in D, NEW b \in D
               PROVE  P[Older(a, b)] <= P[a] /\ P[Older(a, b)] <= P[b]
    OBVIOUS
  <2>1. Carries(a, P[a]) /\ Carries(b, P[b])
    BY <1>1
  <2>2. /\ P[a] \in Nat /\ P[b] \in Nat
        /\ Older(a, b) = IF P[a] <= P[b] THEN a ELSE b
    BY <2>1, OlderIsEarlier
  <2> QED
    BY <2>2
<1>4. IsFiniteSet(D) /\ Cardinality(D) \in Nat /\ Cardinality(D) >= MaxGroups
  <2>1. IsFiniteSet(D)
    BY DEF TypeInv, Table
  <2> QED
    BY <2>1, FS_CardinalityType, ReassemblyAssumption
<1>5. s \in D /\ \A t \in D : P[s] <= P[t]
  BY <1>2, <1>3, <1>4, OldestIsLeast
<1>6. P[s] = i
  <2>1. Len(sent) \in Nat
    BY DEF Inv
  <2> QED
    BY <1>1, <1>5, <2>1, CarriesOne
<1>7. \A a, b \in D : P[a] = P[b] => a = b
  BY <1>1, OlderIsEarlier
<1> DEFINE rest == [t \in D \ {s} |-> P[t]]
<1>8. rest \in Injection(D \ {s}, Later(i))
  <2>1. ASSUME NEW t \in D \ {s} PROVE P[t] \in Later(i)
    <3>1. P[t] # P[s] /\ P[s] <= P[t] /\ P[t] \in Touched /\ P[t] \in Nat /\ P[s] \in Nat
      BY <1>1, <1>5, <1>7
    <3> QED
      BY <1>6, <3>1 DEF Later
  <2>2. rest \in [D \ {s} -> Later(i)]
    BY <2>1
  <2>3. \A a, b \in DOMAIN rest : rest[a] = rest[b] => a = b
    BY <1>7
  <2> QED
    BY <2>2, <2>3 DEF Injection, IsInjective
<1>9. IsFiniteSet(Later(i))
  <2>1. Later(i) \subseteq 1 .. Len(sent)
    BY DEF Later, Kept
  <2>2. IsFiniteSet(1 .. Len(sent))
    <3>1. Len(sent) \in Nat
      BY DEF Inv
    <3> QED
      BY <3>1, FS_Interval
  <2> QED
    BY <2>1, <2>2, FS_Subset
<1> HIDE DEF rest, D
<1>10. Cardinality(D \ {s}) <= Cardinality(Later(i)) /\ Cardinality(Later(i)) \in Nat
  BY <1>8, <1>9, FS_Injection, FS_CardinalityType
<1>11. Cardinality(D \ {s}) = Cardinality(D) - 1
  BY <1>4, <1>5, FS_RemoveElement
<1> QED
  BY <1>4, <1>10, <1>11, ReassemblyAssumption DEF Promised

\* The set of later packets is finite, and grows with what arrives.
LEMMA LaterGrows ==
    ASSUME Touched' \subseteq 1 .. Len(sent'), Len(sent') \in Nat,
           Touched \subseteq Touched', NEW i \in Nat
    PROVE  /\ IsFiniteSet(Later(i)') /\ Cardinality(Later(i)') \in Nat
           /\ Cardinality(Later(i)) \in Nat
           /\ Cardinality(Later(i)) <= Cardinality(Later(i)')
<1>1. Later(i)' \subseteq 1 .. Len(sent') /\ Later(i) \subseteq Later(i)'
  BY DEF Later
<1>2. IsFiniteSet(1 .. Len(sent'))
  BY FS_Interval
<1>3. IsFiniteSet(Later(i)')
  BY <1>1, <1>2, FS_Subset
<1> HIDE DEF Later
<1> QED
  BY <1>1, <1>3, FS_Subset, FS_CardinalityType

\* The reassembler accepts every fragment of a packet of 255 slices at most.
LEMMA MalformedIsTooLarge ==
    ASSUME SizesFit, Inv, NEW f \in net, Malformed(f)
    PROVE  ~(sent[f.chunk[1]] < CountSpace)
<1> DEFINE i == f.chunk[1]
<1>1. /\ i \in 1 .. Len(sent)
      /\ \E k \in 0 .. sent[i] - 1 :
            /\ f.fragment_id = k % CountSpace
            /\ f.fragment_count = sent[i] % CountSpace
  BY FragmentOf
<1>2. sent[i] \in Nat \ {0}
  BY <1>1, SizeType
<1> HIDE DEF i
<1>3. PICK k \in 0 .. sent[i] - 1 :
         /\ f.fragment_id = k % CountSpace
         /\ f.fragment_count = sent[i] % CountSpace
  BY <1>1
<1>4. ASSUME sent[i] < CountSpace PROVE FALSE
  <2>1. \A n \in Nat : n < CountSpace => n % CountSpace = n
    BY ReassemblyAssumption
  <2>2. k \in Nat /\ k < CountSpace /\ k < sent[i]
    BY <1>2, <1>4, ReassemblyAssumption
  <2>3. sent[i] % CountSpace = sent[i] /\ k % CountSpace = k
    BY <1>2, <1>4, <2>1, <2>2
  <2> QED
    BY <1>2, <1>3, <2>2, <2>3 DEF Malformed
<1> QED
  BY <1>4 DEF i

\* Making room for f's group costs a promised packet nothing.
LEMMA WithGroupKeeps ==
    ASSUME Fresh, SizesFit, Inv, TypeInv, Kept, NEW f \in net, ~Malformed(f),
           f.fragment_count # 1, NEW table \in WithGroup(f)
    PROVE  /\ DOMAIN table \subseteq DOMAIN groups \union {f.packet_seq}
           /\ \A s \in DOMAIN table : ~Complete(table[s])
           /\ \A i \in 1 .. Len(sent), k \in Nat :
                 Promised(i) /\ Holds(groups, i, k) => Holds(table, i, k)
<1> DEFINE opened(t) == [s \in DOMAIN t \union {f.packet_seq} |->
                           IF s = f.packet_seq THEN NewGroup(f) ELSE t[s]]
<1>1. ~Complete(NewGroup(f))
  <2>1. f.fragment_count \in Nat /\ f.fragment_count > 0
    BY DEF TypeInv, Malformed
  <2>2. 0 \in DOMAIN NewGroup(f).chunks /\ NewGroup(f).chunks[0] = Empty
    BY <2>1 DEF NewGroup
  <2> QED
    BY <2>2 DEF Complete
<1>2. CASE f.packet_seq \in DOMAIN groups
  BY <1>2 DEF WithGroup, Kept
<1>3. CASE f.packet_seq \notin DOMAIN groups /\ Cardinality(DOMAIN groups) < MaxGroups
  <2>1. table = opened(groups)
    BY <1>3 DEF WithGroup
  <2> QED
    BY <1>1, <1>3, <2>1 DEF Kept, Holds
<1>4. CASE f.packet_seq \notin DOMAIN groups /\ ~(Cardinality(DOMAIN groups) < MaxGroups)
  <2>1. PICK s \in Oldest(groups) : table = opened(Restrict(groups, DOMAIN groups \ {s}))
    BY <1>4 DEF WithGroup
  <2> DEFINE D == DOMAIN groups   rest == Restrict(groups, D \ {s})
  <2>2. DOMAIN rest = D \ {s} /\ \A r \in D \ {s} : rest[r] = groups[r]
    BY DEF Restrict
  <2>3. \A i : Carries(s, i) => ~Promised(i)
    BY <1>4, EvictedIsNotPromised
  <2>4. \A r \in D \ {s} : r \in DOMAIN table /\ r # f.packet_seq /\ table[r] = groups[r]
    BY <1>4, <2>1, <2>2
  <2>5. DOMAIN table = (D \ {s}) \union {f.packet_seq} /\ table[f.packet_seq] = NewGroup(f)
    BY <2>1, <2>2
  <2> HIDE DEF D, rest
  <2>6. \A r \in DOMAIN table : ~Complete(table[r])
    BY <1>1, <2>4, <2>5 DEF Kept, D
  <2>7. \A i \in 1 .. Len(sent), k \in Nat :
           Promised(i) /\ Holds(groups, i, k) => Holds(table, i, k)
    BY <2>3, <2>4 DEF Holds, D
  <2> QED
    BY <2>5, <2>6, <2>7 DEF D
<1> QED
  BY <1>2, <1>3, <1>4

\* A slice that the group lacks is stored, the slices it has stay; and the last
\* one returns the packet.
LEMMA AssembleKeeps ==
    ASSUME Fresh, SizesFit, Inv, TypeInv, Kept, NEW f \in net, Assemble(f)
    PROVE  /\ DOMAIN groups' \subseteq DOMAIN groups \union {f.packet_seq}
           /\ \A s \in DOMAIN groups' : ~Complete(groups'[s])
           /\ returned \subseteq returned'
           /\ \A i \in 1 .. Len(sent), k \in Nat :
                 Promised(i) /\ (Holds(groups, i, k) \/ f.chunk = <<i, k>>)
                   => Holds(groups', i, k) \/ WholePacket(i, sent[i]) \in returned'
<1> DEFINE p == f.packet_seq   o == f.chunk[1]   b == f.fragment_id
<1>1. ~Malformed(f) /\ f.fragment_count # 1
  BY DEF Assemble
<1>2. PICK table \in WithGroup(f) :
        \/ /\ Rejected(f, table[p]) /\ groups' = table /\ UNCHANGED returned
        \/ /\ ~Complete(Filled(f, table[p]))
           /\ groups' = [table EXCEPT ![p] = Filled(f, table[p])]
           /\ UNCHANGED returned
        \/ /\ Complete(Filled(f, table[p]))
           /\ groups' = Restrict(table, DOMAIN table \ {p})
           /\ returned' = returned \union {Filled(f, table[p]).chunks}
  BY DEF Assemble
<1>3. /\ o \in 1 .. Len(sent) /\ Carries(p, o) /\ f.fragment_count = sent[o]
      /\ b \in 0 .. sent[o] - 1 /\ f.chunk = <<o, b>>
  BY <1>1, WellFormedFragment
<1>4. p \in DOMAIN table /\ SlicesOf(o, table[p])
  BY <1>1, WithGroupGood
<1>5. /\ DOMAIN table \subseteq DOMAIN groups \union {p}
      /\ \A s \in DOMAIN table : ~Complete(table[s])
      /\ \A i \in 1 .. Len(sent), k \in Nat :
            Promised(i) /\ Holds(groups, i, k) => Holds(table, i, k)
  BY <1>1, WithGroupKeeps
<1>6. Complete(Filled(f, table[p])) => Filled(f, table[p]).chunks = WholePacket(o, sent[o])
  <2>1. SlicesOf(o, Filled(f, table[p]))
    BY <1>1, <1>4, FilledGood
  <2> QED
    BY <1>3, <2>1, CompleteIsWhole
<1>7. SequenceOf(o) = p /\ \A i : Carries(p, i) => i = o
  <2>1. Len(sent) \in Nat
    BY DEF Inv
  <2> QED
    BY <1>3, <2>1, CarriesOne DEF Carries
<1>8. /\ table[p].chunks = [k \in 0 .. sent[o] - 1 |-> table[p].chunks[k]]
      /\ f.fragment_count = table[p].count
      /\ Filled(f, table[p]).chunks = [table[p].chunks EXCEPT ![b] = f.chunk]
  <2>1. table[p] \in [count : {sent[o]},
                      chunks : [0 .. sent[o] - 1 -> {Empty} \union ({o} \X Nat)]]
    BY <1>4 DEF SlicesOf
  <2> HIDE DEF p, o, b
  <2> QED
    BY <1>3, <2>1 DEF Filled, b
<1>9. f.chunk # Empty /\ \A i, k : f.chunk = <<i, k>> => i = o /\ k = b
  <2> HIDE DEF o, b
  <2> QED
    BY <1>3 DEF Empty
<1>10. CASE Rejected(f, table[p]) /\ groups' = table /\ UNCHANGED returned
  <2>1. Holds(table, o, b)
    <3>1. table[p].chunks[b] # Empty
      BY <1>8, <1>10 DEF Rejected
    <3> HIDE DEF p, o, b
    <3> QED
      BY <1>3, <1>4, <1>7, <3>1 DEF Holds
  <2> HIDE DEF o, b
  <2> QED
    BY <1>5, <1>9, <1>10, <2>1 DEF p
<1>11. CASE /\ ~Complete(Filled(f, table[p]))
            /\ groups' = [table EXCEPT ![p] = Filled(f, table[p])]
            /\ UNCHANGED returned
  <2> HIDE DEF p, o, b
  <2>1. /\ DOMAIN groups' = DOMAIN table /\ groups'[p] = Filled(f, table[p])
        /\ \A s \in DOMAIN table : s # p => groups'[s] = table[s]
    BY <1>4, <1>11
  <2> DEFINE before == table[p].chunks   after == Filled(f, table[p]).chunks
  <2>2. \A k \in Nat : before[k] # Empty \/ k = b => after[k] # Empty
    <3>1. /\ after = [before EXCEPT ![b] = f.chunk] /\ b \in DOMAIN before
          /\ f.chunk # Empty
      BY <1>3, <1>8, <1>9
    <3>2. before = [k \in DOMAIN before |-> before[k]]
      BY <1>8
    <3> HIDE DEF before, after
    <3> QED
      BY <3>1, <3>2
  <2>3. \A s \in DOMAIN groups' : ~Complete(groups'[s])
    BY <1>5, <1>11, <2>1
  <2>4. \A i, k \in Nat : Holds(table, i, k) => Holds(groups', i, k)
    BY <2>1, <2>2 DEF Holds
  <2>5. Holds(groups', o, b)
    <3>1. b \in Nat /\ groups'[p].chunks[b] # Empty
      BY <1>3, <2>1, <2>2
    <3> QED
      BY <1>3, <1>4, <1>7, <2>1, <3>1 DEF Holds
  <2>6. \A i \in 1 .. Len(sent), k \in Nat :
          Promised(i) /\ (Holds(groups, i, k) \/ f.chunk = <<i, k>>) => Holds(groups', i, k)
    <3>1. 1 .. Len(sent) \subseteq Nat
      BY DEF Inv
    <3> QED
      BY <1>5, <1>9, <2>4, <2>5, <3>1
  <2> QED
    BY <1>5, <1>11, <2>1, <2>3, <2>6 DEF p
<1>12. CASE /\ Complete(Filled(f, table[p]))
            /\ groups' = Restrict(table, DOMAIN table \ {p})
            /\ returned' = returned \union {Filled(f, table[p]).chunks}
  <2> HIDE DEF p, o, b
  <2>1. WholePacket(o, sent[o]) \in returned' /\ returned \subseteq returned'
    BY <1>6, <1>12
  <2>2. /\ DOMAIN groups' = DOMAIN table \ {p}
        /\ \A s \in DOMAIN groups' : groups'[s] = table[s]
    BY <1>12 DEF Restrict
  <2>3. \A i, k : Holds(table, i, k) => Holds(groups', i, k) \/ i = o
    BY <1>7, <2>2 DEF Holds
  <2>4. \A i \in 1 .. Len(sent), k \in Nat :
          Promised(i) /\ (Holds(groups, i, k) \/ f.chunk = <<i, k>>)
            => Holds(groups', i, k) \/ WholePacket(i, sent[i]) \in returned'
    BY <1>5, <1>9, <2>1, <2>3
  <2> QED
    BY <1>5, <2>1, <2>2, <2>4 DEF p
<1> QED
  BY <1>2, <1>10, <1>11, <1>12

LEMMA ReceiveKeepsSlices ==
    ASSUME Fresh, SizesFit, Inv, TypeInv, Kept, NEW f \in net, Receive(f)
    PROVE  Kept'
<1>1. sent' = sent /\ arrived' = arrived \union {f.chunk} /\ Len(sent) \in Nat
  BY DEF Receive, Inv
<1>2. PICK p \in 1 .. Len(sent), b \in Nat :
         /\ p = f.chunk[1] /\ f.chunk = <<p, b>> /\ Carries(f.packet_seq, p)
         /\ ~Malformed(f) => b = f.fragment_id
         /\ Malformed(f) => ~(sent[p] < CountSpace)
  <2>1. f.chunk[1] \in 1 .. Len(sent) /\ Carries(f.packet_seq, f.chunk[1])
    BY FragmentOf
  <2>2. CASE Malformed(f)
    <3>1. PICK k \in 0 .. sent[f.chunk[1]] - 1 : f.chunk = <<f.chunk[1], k>>
      BY FragmentOf
    <3> QED
      BY <2>1, <2>2, <3>1, MalformedIsTooLarge
  <2>3. CASE ~Malformed(f)
    <3>1. f.chunk = <<f.chunk[1], f.fragment_id>> /\ f.fragment_id \in Nat
      BY <2>3, WellFormedFragment
    <3> QED
      BY <2>1, <2>3, <3>1
  <2> QED
    BY <2>2, <2>3
<1>3. Touched' = Touched \union {p}
  BY <1>1, <1>2 DEF Touched
<1>4. Touched' \subseteq 1 .. Len(sent')
  BY <1>1, <1>3 DEF Kept
<1>5. \A i \in 1 .. Len(sent) : Promised(i)' => Promised(i)
  <2> SUFFICES ASSUME NEW i \in 1 .. Len(sent), Promised(i)'
               PROVE  Promised(i)
    OBVIOUS
  <2>1. /\ Cardinality(Later(i)') \in Nat /\ Cardinality(Later(i)) \in Nat
        /\ Cardinality(Later(i)) <= Cardinality(Later(i)')
    BY <1>1, <1>3, <1>4, LaterGrows
  <2> QED
    BY <1>1, <2>1, ReassemblyAssumption DEF Promised
<1>6. /\ DOMAIN groups' \subseteq DOMAIN groups \union {f.packet_seq}
      /\ \A s \in DOMAIN groups' : ~Complete(groups'[s])
      /\ returned \subseteq returned'
      /\ \A i \in 1 .. Len(sent), k \in Nat :
            Promised(i) /\ (Holds(groups, i, k) \/ f.chunk = <<i, k>>)
              => Holds(groups', i, k) \/ WholePacket(i, sent[i]) \in returned'
  <2>1. CASE Malformed(f) /\ UNCHANGED <<groups, returned>>
    BY <1>2, <2>1 DEF Kept, Promised
  <2>2. CASE ReturnSingle(f)
    <3>1. sent[p] = 1 /\ f.chunk = <<p, 0>>
      BY <1>2, <2>2, WellFormedFragment DEF ReturnSingle
    <3>2. WholePacket(p, sent[p]) \in returned'
      BY <2>2, <3>1 DEF ReturnSingle, WholePacket
    <3>3. groups' = groups /\ returned \subseteq returned'
      BY <2>2 DEF ReturnSingle
    <3> QED
      BY <3>1, <3>2, <3>3 DEF Kept
  <2>3. CASE Assemble(f)
    BY <2>3, AssembleKeeps
  <2> QED
    BY <2>1, <2>2, <2>3 DEF Receive
<1>7. \A i \in 1 .. Len(sent) : Promised(i)' =>
         \/ WholePacket(i, sent[i]) \in returned'
         \/ \A k \in 0 .. sent[i] - 1 : <<i, k>> \in arrived' => Holds(groups', i, k)
  <2> SUFFICES ASSUME NEW i \in 1 .. Len(sent), Promised(i)',
                      WholePacket(i, sent[i]) \notin returned',
                      NEW k \in 0 .. sent[i] - 1, <<i, k>> \in arrived'
               PROVE  Holds(groups', i, k)
    OBVIOUS
  <2>1. Promised(i) /\ WholePacket(i, sent[i]) \notin returned /\ k \in Nat
    BY <1>5, <1>6 DEF Inv
  <2>2. <<i, k>> \in arrived => Holds(groups, i, k)
    BY <2>1 DEF Kept
  <2> QED
    BY <1>1, <1>6, <2>1, <2>2
<1>8. \A s \in DOMAIN groups' : \E i \in Touched' : Carries(s, i)
  BY <1>2, <1>3, <1>6 DEF Kept
<1> QED
  BY <1>1, <1>4, <1>6, <1>7, <1>8 DEF Kept, Holds, Carries, WholePacket

LEMMA SendKeepsSlices ==
    ASSUME Inv, Inv', Kept, NEW n \in Sizes, Send(n), local_sequence \notin DOMAIN groups
    PROVE  Kept'
<1>1. /\ sent' = Append(sent, n) /\ UNCHANGED <<groups, arrived, returned>>
      /\ Len(sent) \in Nat /\ Len(sent') = Len(sent) + 1
      /\ \A i \in 1 .. Len(sent) : sent'[i] = sent[i]
      /\ local_sequence = SequenceOf(Len(sent) + 1)
  BY DEF Send, Inv
<1>2. Touched' = Touched /\ \A i : Later(i)' = Later(i)
  BY <1>1 DEF Touched, Later
<1>3. \A i \in 1 .. Len(sent) : Promised(i)' => Promised(i)
  BY <1>1, <1>2 DEF Promised
<1>4. \A k : <<Len(sent) + 1, k>> \notin arrived
  <2> SUFFICES ASSUME NEW k, <<Len(sent) + 1, k>> \in arrived PROVE FALSE
    OBVIOUS
  <2>1. Len(sent) + 1 \in Touched
    BY DEF Touched
  <2> QED
    BY <1>1, <2>1 DEF Kept
<1>5. ASSUME NEW s \in DOMAIN groups, NEW i, Carries(s, i) PROVE Carries(s, i)'
  <2>1. s # SequenceOf(Len(sent) + 1)
    BY <1>1
  <2>2. \A j \in 1 .. Len(sent') : j \in 1 .. Len(sent) \/ j = Len(sent) + 1
    BY <1>1
  <2>3. i \in 1 .. Len(sent')
    BY <1>1, <1>5 DEF Carries
  <2> QED
    BY <1>5, <2>1, <2>2, <2>3 DEF Carries
<1>6. ASSUME NEW i \in 1 .. Len(sent'), Promised(i)'
      PROVE  \/ WholePacket(i, sent'[i]) \in returned'
             \/ \A k \in 0 .. sent'[i] - 1 : <<i, k>> \in arrived' => Holds(groups, i, k)'
  <2>1. CASE i \in 1 .. Len(sent)
    <3>1. \A k : Holds(groups, i, k) => Holds(groups, i, k)'
      BY <1>1, <1>5 DEF Holds
    <3> QED
      BY <1>1, <1>3, <1>6, <2>1, <3>1 DEF Kept
  <2>2. CASE i = Len(sent) + 1
    BY <1>1, <1>4, <2>2
  <2> QED
    BY <1>1, <2>1, <2>2
<1>7. \A s \in DOMAIN groups : \E i \in Touched : Carries(s, i)'
  BY <1>5 DEF Kept
<1> QED
  BY <1>1, <1>2, <1>6, <1>7 DEF Kept, WholePacket

LEMMA KeptReturns ==
    ASSUME SizesFit, Inv, Kept
    PROVE  ArrivedIsReturned
<1> SUFFICES ASSUME NEW i \in 1 .. Len(sent), Promised(i),
                    \A k \in 0 .. sent[i] - 1 : <<i, k>> \in arrived,
                    WholePacket(i, sent[i]) \notin returned
             PROVE  FALSE
  BY DEF ArrivedIsReturned, Promised, Later
<1> DEFINE s == SequenceOf(i)
<1>1. sent[i] \in Nat \ {0}
  BY SizeType
<1>2. \A k \in 0 .. sent[i] - 1 : Holds(groups, i, k)
  BY DEF Kept
<1>3. 0 \in 0 .. sent[i] - 1
  BY <1>1
<1>4. s \in DOMAIN groups /\ Carries(s, i)
  BY <1>2, <1>3 DEF Holds
<1>5. SlicesOf(i, groups[s])
  <2>1. Len(sent) \in Nat
    BY DEF Inv
  <2> QED
    BY <1>4, <2>1, CarriesOne DEF Inv, GoodTable
<1>6. DOMAIN groups[s].chunks = 0 .. sent[i] - 1
  BY <1>5 DEF SlicesOf
<1>7. Complete(groups[s])
  BY <1>2, <1>6 DEF Complete, Holds
<1> QED
  BY <1>4, <1>7 DEF Kept

\* A fresh table has no group under the number that comes next.
LEMMA FreshIsFree ==
    ASSUME Inv, Fresh
    PROVE  local_sequence \notin DOMAIN groups
<1> SUFFICES ASSUME local_sequence \in DOMAIN groups PROVE FALSE
  OBVIOUS
<1>1. PICK i \in 1 .. Len(sent) :
         SequenceOf(i) = local_sequence /\ i + HalfACycle > Len(sent)
  BY DEF Fresh
<1>2. Len(sent) \in Nat /\ local_sequence = SequenceOf(Len(sent) + 1)
  BY DEF Inv
<1>3. /\ i \in Nat \ {0} /\ Len(sent) + 1 \in Nat /\ i < Len(sent) + 1
      /\ (Len(sent) + 1) - i < SeqSpace - 1
  BY <1>1, <1>2, SeqAssumption DEF HalfACycle, HalfSpace
<1> QED
  BY <1>1, <1>2, <1>3, NumbersDiffer

LEMMA KeptStep ==
    ASSUME SizesFit, Fresh, TypeInv, Inv, Kept, [Next]_vars
    PROVE  Inv' /\ Kept'
<1>1. Inv'
  BY FreshIsFree, InvStep DEF NumberIsFree
<1>2. ASSUME NEW f \in net, Lose(f) PROVE Kept'
  BY <1>2 DEF Lose, Kept, Touched, Promised, Later, Holds, Carries
<1>3. ASSUME UNCHANGED vars PROVE Kept'
  BY <1>3 DEF vars, Kept, Touched, Promised, Later, Holds, Carries
<1>4. ASSUME NEW n \in Sizes, Send(n) PROVE Kept'
  BY <1>1, <1>4, FreshIsFree, SendKeepsSlices
<1>5. ASSUME NEW f \in net, Receive(f) PROVE Kept'
  BY <1>5, ReceiveKeepsSlices
<1> QED
  BY <1>1, <1>2, <1>3, <1>4, <1>5 DEF Next

\* A packet all of whose slices arrived has been returned, unless so many later
\* ones were heard of meanwhile that its group may have made room: for any
\* table size, packet sizes, order of arrival and number of laps, as long as no
\* group lingers for half a cycle of packets (fragment.cpp evict_oldest).
THEOREM ArrivedIsReturnedHolds ==
    ASSUME SizesFit
    PROVE  Spec /\ []Fresh => []ArrivedIsReturned
<1> DEFINE IInv == TypeInv /\ Inv /\ Kept
<1>1. Init => IInv
  <2>1. Init => Inv /\ TypeInv
    BY InvInit, TypeInvInit
  <2>2. Init => Kept
    BY DEF Init, Kept, Touched
  <2> QED
    BY <2>1, <2>2
<1>2. IInv /\ Fresh /\ [Next]_vars => IInv'
  BY TypeInvStep, KeptStep
<1>3. IInv => ArrivedIsReturned
  BY KeptReturns
<1> QED
  BY <1>1, <1>2, <1>3, PTL DEF Spec

\* Half a lap, in which no group can be that old.
HalfLap == MaxSent <= HalfACycle

\* Within half a lap every group is fresh, whatever the path does.
THEOREM FreshOnHalfLap ==
    ASSUME HalfLap, SizesFit
    PROVE  Spec => []Fresh
<1>1. Inv => Fresh
  <2> SUFFICES ASSUME Inv, NEW s \in DOMAIN groups
               PROVE  \E i \in 1 .. Len(sent) :
                         SequenceOf(i) = s /\ i + HalfACycle > Len(sent)
    BY DEF Fresh
  <2>1. PICK i \in 1 .. Len(sent) : SequenceOf(i) = s
    BY DEF Inv, GoodTable, Carries
  <2>2. Len(sent) \in Nat /\ Len(sent) <= MaxSent
    BY DEF Inv
  <2>3. i + HalfACycle > Len(sent)
    BY <2>2, SeqAssumption, ReassemblyAssumption DEF HalfLap, HalfACycle, HalfSpace
  <2> QED
    BY <2>1, <2>3
<1>2. FirstLap
  BY SeqAssumption, ReassemblyAssumption DEF FirstLap, HalfLap, HalfACycle, HalfSpace
<1>3. Spec => [][NumberIsFree]_vars
  BY <1>2, FreeOnFirstLap
<1> QED
  BY <1>1, <1>3, InvInit, InvStep, PTL DEF Spec
=============================================================================
