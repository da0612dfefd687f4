--------------------------- MODULE QuicFragProofs ---------------------------
(* Every packet that Merge returns is one that was written, whole and once,  *)
(* for every number of writers, packet length and limit of the connection.   *)
(* First the inductive invariant, what the operators of QuicFrag compute,    *)
(* what a step that leaves one side alone keeps of the invariant, and that   *)
(* sending a frame, losing it, receiving it and putting it in its merge keep *)
(* all of it; then the other steps.                                          *)
EXTENDS QuicFrag, FiniteSetTheorems, TLAPS

USE SMTT(30)

Splits == 1..Len(splits)
Frame(s) == 1..Len(splits[s].parts)
Gone(s, i) == <<s, i>> \notin net \cup arrived
IsMergedSplit(s) == \E m \in 1..Len(merged) : IsMerged(m, s)

Part == [from : Nat, to : Nat]
Data == UNION {[D -> Nat] : D \in SUBSET Nat}
SplitType == [packet : Nat, id : Nat, parts : Seq(Part)]
WriterType == [split : Nat, next : Nat, retry : BOOLEAN]
SendTypes ==
    /\ limit \in Nat /\ maxSize \in Nat /\ splitId \in Nat
    /\ packets \in Seq(Nat \ {0}) /\ splits \in Seq(SplitType)
    /\ writing \in [Writers -> WriterType]
MergeType == [total : Nat, data : Data, count : Nat]
ReceiveTypes ==
    /\ net \subseteq Nat \X Nat /\ arrived \subseteq Nat \X Nat
    /\ hand \in [split : Nat, index : Nat, merge : Nat]
    /\ merges \in Seq(MergeType) /\ merged \in Seq(Data)
Types == SendTypes /\ ReceiveTypes

(* The ids on the wire are those of one split each.                          *)
IdsDiffer ==
    /\ \A s \in Splits : splits[s].id <= splitId
    /\ \A s, t \in Splits : splits[s].id = splits[t].id /\ splits[s].id # 0 => s = t

Written ==
    \A s \in Splits :
        /\ splits[s].packet \in 1..Len(packets)
        /\ splits[s].parts # <<>> => Contiguous(s)
        /\ splits[s].id = 0 /\ splits[s].parts # <<>> => Len(splits[s].parts) = 1

(* Writers send different packets, each in its last split.                   *)
SendingBy(w) ==
    /\ writing[w].split \in Splits /\ writing[w].next \in Frame(writing[w].split)
    /\ \A i \in Frame(writing[w].split) : i >= writing[w].next => Gone(writing[w].split, i)
    /\ \A t \in Splits : t > writing[w].split =>
          splits[t].packet # splits[writing[w].split].packet
    /\ \A v \in Writers \ {w} : writing[v].split # 0 =>
          splits[writing[v].split].packet # splits[writing[w].split].packet
Sending == \A w \in Writers : writing[w].split # 0 => SendingBy(w)

(* The earlier of two splits of a packet was given up before its end.        *)
GivenUp ==
    \A s, t \in Splits : s < t /\ splits[s].packet = splits[t].packet =>
        /\ splits[s].parts # <<>> => \E i \in Frame(s) : Gone(s, i)
        /\ \A w \in Writers : writing[w].split # s

Sent ==
    /\ \A d \in net \cup arrived : d[1] \in Splits /\ d[2] \in Frame(d[1])
    /\ net \cap arrived = {}

(* A merge holds frames of one split, of which it was told the number.       *)
MergeOf(r, s) ==
    /\ s \in Splits /\ splits[s].id # 0
    /\ merges[r] = [total |-> Len(splits[s].parts), data |-> merges[r].data,
                    count |-> Cardinality(DOMAIN merges[r].data)]
    /\ merges[r].data = [i \in DOMAIN merges[r].data |-> s]
    /\ DOMAIN merges[r].data \subseteq Frame(s) /\ DOMAIN merges[r].data # {}
    /\ \A i \in DOMAIN merges[r].data : <<s, i>> \in arrived

Merging ==
    \A id \in DOMAIN mergeMap :
        /\ mergeMap[id] \in 1..Len(merges)
        /\ \E s \in Splits : splits[s].id = id /\ MergeOf(mergeMap[id], s)
        /\ merges[mergeMap[id]].count < merges[mergeMap[id]].total

InHand ==
    hand.split # 0 =>
        /\ hand.split \in Splits /\ hand.index \in Frame(hand.split)
        /\ splits[hand.split].id # 0 /\ <<hand.split, hand.index>> \in arrived
        /\ ~IsMergedSplit(hand.split)
        /\ hand.merge # 0 =>
              /\ hand.merge \in 1..Len(merges) /\ MergeOf(hand.merge, hand.split)
              /\ hand.index \notin DOMAIN merges[hand.merge].data
        /\ splits[hand.split].id \notin swept =>
              IF hand.merge = 0 THEN splits[hand.split].id \notin DOMAIN mergeMap
              ELSE /\ splits[hand.split].id \in DOMAIN mergeMap
                   /\ mergeMap[splits[hand.split].id] = hand.merge

(* Where an arrived frame is, if its merge was not swept.                    *)
Kept ==
    \A d \in arrived : splits[d[1]].id \notin swept =>
        \/ IsMergedSplit(d[1])
        \/ hand.split = d[1] /\ hand.index = d[2]
        \/ /\ splits[d[1]].id \in DOMAIN mergeMap
           /\ d[2] \in DOMAIN merges[mergeMap[splits[d[1]].id]].data

Returned ==
    /\ \A m \in 1..Len(merged) : \E s \in Splits :
          /\ splits[s].parts # <<>> /\ IsMerged(m, s)
          /\ \A i \in Frame(s) : <<s, i>> \in arrived
    /\ \A m, n \in 1..Len(merged) : m # n => merged[m][1] # merged[n][1]

IInv ==
    /\ IdsDiffer /\ Written /\ Sending /\ GivenUp /\ Sent
    /\ Merging /\ InHand /\ Kept /\ Returned
-----------------------------------------------------------------------------
(* The intervals of Split follow each other and none is empty.               *)
LEMMA IntervalsContiguous ==
    ASSUME NEW len \in Nat \ {0}, NEW body \in Nat \ {0}, NEW n \in Nat \ {0},
           (n - 1) * body < len, len <= n * body
    PROVE  /\ Intervals(len, body, n) \in Seq(Part) /\ Len(Intervals(len, body, n)) = n
           /\ Tiles(Intervals(len, body, n), len)
<1> DEFINE I == Intervals(len, body, n)
<1>1. ASSUME NEW i \in 1..n
      PROVE  /\ (i - 1) * body \in Nat /\ i * body \in Nat /\ (i - 1) * body < i * body
             /\ I[i].from = (i - 1) * body
             /\ I[i].to = IF i = n THEN len ELSE i * body
  <2>1. i \in Nat /\ i - 1 \in Nat
    OBVIOUS
  <2>2. i * body = (i - 1) * body + body
    BY <2>1
  <2>3. (i - 1) * body \in Nat
    BY <2>1
  <2> QED
    BY <2>1, <2>2, <2>3 DEF Intervals
<1>2. I \in Seq(Part) /\ Len(I) = n
  <2>1. \A i \in 1..n : I[i] \in Part
    BY <1>1, Zenon DEF Part, Intervals
  <2>2. I = [i \in 1..n |-> I[i]]
    BY Zenon DEF Intervals
  <2> QED
    BY <2>1, <2>2
<1>3. I[1].from = 0 /\ I[n].to = len
  BY <1>1
<1>4. \A i \in 1..n : I[i].from < I[i].to
  BY <1>1, Zenon
<1>5. \A i \in 2..n : I[i].from = I[i - 1].to
  BY <1>1
<1> HIDE DEF I
<1>6. Tiles(I, len)
  BY <1>2, <1>3, <1>4, <1>5, Zenon DEF Tiles
<1> QED
  BY <1>2, <1>6, Zenon DEF I

(* What Split returns for a packet: nothing, or all of it in order.          *)
LEMMA PartsWhole ==
    ASSUME FragConstants, NEW len \in Nat \ {0}, NEW size \in Nat
    PROVE  /\ Parts(len, size) \in Seq(Part)
           /\ IsSingle(len, size) => Len(Parts(len, size)) = 1
           /\ Parts(len, size) # <<>> => Tiles(Parts(len, size), len)
<1>1. CASE IsSingle(len, size)
  <2>1. PICK n \in Nat \ {0} : n = 1
    OBVIOUS
  <2>2. (n - 1) * len < len /\ len <= n * len
    BY <2>1
  <2>3. Parts(len, size) = Intervals(len, len, n)
    BY <1>1, <2>1, Zenon DEF Parts
  <2>4. Intervals(len, len, n) \in Seq(Part) /\ Len(Intervals(len, len, n)) = n
    BY <2>2, IntervalsContiguous, Zenon
  <2>5. Tiles(Intervals(len, len, n), len)
    BY <2>2, IntervalsContiguous, Zenon
  <2> QED
    BY <2>1, <2>3, <2>4, <2>5, Zenon
<1>2. CASE ~IsSingle(len, size) /\ (size <= HeaderSize \/ Frames(len, size - HeaderSize) > MaxFrames)
  BY <1>2 DEF Parts
<1>3. CASE ~IsSingle(len, size) /\ ~(size <= HeaderSize \/ Frames(len, size - HeaderSize) > MaxFrames)
  <2> DEFINE body == size - HeaderSize
             q == len \div body
             r == len % body
             n == Frames(len, body)
  <2>1. body \in Nat \ {0}
    BY <1>3 DEF FragConstants
  <2>2. q \in Nat /\ r \in Nat /\ len = body * q + r /\ r < body
    <3> HIDE DEF body
    <3> QED BY <2>1
  <2>3. n = IF r = 0 THEN q ELSE q + 1
    BY <2>2 DEF Frames
  <2>4. n \in Nat \ {0} /\ (n - 1) * body < len /\ len <= n * body
    <3> HIDE DEF body, q, r, n
    <3>1. (q - 1) * body = body * q - body /\ (q + 1) * body = body * q + body /\ q * body = body * q
      BY <2>1, <2>2
    <3>2. q = 0 => body * q = 0
      BY <2>1
    <3> QED
      BY <2>1, <2>2, <2>3, <3>1, <3>2
  <2>5. Parts(len, size) = Intervals(len, body, n)
    BY <1>3, Zenon DEF Parts
  <2> HIDE DEF body, n
  <2> QED
    BY <2>1, <2>4, <2>5, <1>3, IntervalsContiguous
<1> QED
  BY <1>1, <1>2, <1>3, Zenon
(* The types of the parts of the state.                                      *)
LEMMA TypeFacts ==
    ASSUME Types
    PROVE  /\ Len(splits) \in Nat
           /\ \A s \in Splits : /\ splits[s] \in SplitType /\ splits[s].packet \in Nat
                                /\ splits[s].id \in Nat /\ splits[s].parts \in Seq(Part)
                                /\ Len(splits[s].parts) \in Nat
           /\ \A w \in Writers : writing[w].split \in Nat /\ writing[w].next \in Nat
           /\ hand.split \in Nat /\ hand.index \in Nat /\ hand.merge \in Nat
           /\ Len(merges) \in Nat /\ Len(merged) \in Nat /\ Len(packets) \in Nat
           /\ \A r \in 1..Len(merges) : merges[r] \in MergeType
<1>1. splits \in Seq(SplitType) /\ writing \in [Writers -> WriterType]
  BY Zenon DEF Types, SendTypes
<1>2. Len(splits) \in Nat /\ \A s \in Splits : splits[s] \in SplitType
  BY <1>1 DEF Splits
<1>3. \A e \in SplitType : e.packet \in Nat /\ e.id \in Nat /\ e.parts \in Seq(Part)
  BY Zenon DEF SplitType
<1>4. \A w \in Writers : writing[w] \in WriterType
  BY <1>1, Zenon
<1>5. \A e \in WriterType : e.split \in Nat /\ e.next \in Nat
  BY Zenon DEF WriterType
<1>6. merges \in Seq(MergeType) /\ merged \in Seq(Data)
  BY Zenon DEF Types, ReceiveTypes
<1>7. hand.split \in Nat /\ hand.index \in Nat /\ hand.merge \in Nat
  BY Zenon DEF Types, ReceiveTypes
<1>8. Len(packets) \in Nat
  BY DEF Types, SendTypes
<1> QED
  BY <1>2, <1>3, <1>4, <1>5, <1>6, <1>7, <1>8

(* The steps that split nothing leave what was split as it is.               *)
LEMMA SplitsKept ==
    ASSUME IInv, UNCHANGED <<splitId, packets, splits>>
    PROVE  IdsDiffer' /\ Written' /\ Splits' = Splits /\ \A s : Frame(s)' = Frame(s)
BY Zenon DEF IInv, IdsDiffer, Written, Splits, Frame, Contiguous

(* The steps of the sender and of the network change nothing received.       *)
LEMMA ReceiverKept ==
    ASSUME IInv, UNCHANGED <<splits, receiver>>
    PROVE  Merging' /\ InHand' /\ Kept' /\ Returned'
<1>1. UNCHANGED <<splits, hand, merges, mergeMap, merged, arrived, swept>>
  BY Zenon DEF receiver
<1>2. Merging'
  <2>1. \A r, s : MergeOf(r, s) => MergeOf(r, s)'
    BY <1>1 DEF MergeOf, Splits, Frame
  <2>2. UNCHANGED <<Splits, splits, merges, mergeMap>>
    BY <1>1, Zenon DEF Splits
  <2> QED
    BY <2>1, <2>2, Zenon DEF IInv, Merging
<1>3. InHand'
  BY <1>1, ZenonT(40) DEF IInv, InHand, MergeOf, Splits, Frame, IsMergedSplit, IsMerged
<1>4. Kept'
  BY <1>1, Zenon DEF IInv, Kept, IsMergedSplit, IsMerged
<1>5. Returned'
  BY <1>1 DEF IInv, Returned, IsMerged, Splits, Frame
<1> QED
  BY <1>2, <1>3, <1>4, <1>5, Zenon

(* Receiving takes a datagram from the network and nothing else of the       *)
(* sender's state.                                                           *)
LEMMA SenderKept ==
    ASSUME IInv, UNCHANGED sender, net' \cup arrived' = net \cup arrived
    PROVE  /\ IdsDiffer' /\ Written' /\ Sending' /\ GivenUp'
           /\ Splits' = Splits /\ \A s : Frame(s)' = Frame(s)
<1>1. UNCHANGED <<splitId, packets, splits, writing>>
  BY Zenon DEF sender
<1>2. \A t, i : Gone(t, i)' = Gone(t, i)
  BY Zenon DEF Gone
<1>3. IdsDiffer' /\ Written' /\ Splits' = Splits /\ \A s : Frame(s)' = Frame(s)
  BY <1>1, SplitsKept, Zenon
<1>4. Sending'
  BY <1>1, <1>2, <1>3, Zenon DEF IInv, Sending, SendingBy
<1>5. GivenUp'
  BY <1>1, <1>2, <1>3, Zenon DEF IInv, GivenUp
<1> QED
  BY <1>3, <1>4, <1>5, Zenon

(* The first split that Merge returned a frame of is that of the packet.     *)
LEMMA MergedOnce ==
    ASSUME Types, IInv, NEW m \in 1..Len(merged), NEW s \in Splits,
           splits[s].parts # <<>>, IsMerged(m, s) \/ merged[m][1] = s
    PROVE  /\ IsMerged(m, s) /\ merged[m][1] = s
           /\ \A i \in Frame(s) : <<s, i>> \in arrived
<1>1. PICK t \in Splits : /\ splits[t].parts # <<>> /\ IsMerged(m, t)
                          /\ \A i \in Frame(t) : <<t, i>> \in arrived
  BY Zenon DEF IInv, Returned
<1>2. 1 \in Frame(t) /\ 1 \in Frame(s)
  <2>1. splits[t].parts \in Seq(Part) /\ splits[s].parts \in Seq(Part)
    BY TypeFacts, Zenon
  <2> QED
    BY <1>1, <2>1 DEF Frame
<1>3. merged[m][1] = t
  BY <1>1, <1>2, Zenon DEF IsMerged, Frame
<1>4. IsMerged(m, s) => merged[m][1] = s
  BY <1>2, Zenon DEF IsMerged, Frame
<1> QED
  BY <1>1, <1>3, <1>4, Zenon
-----------------------------------------------------------------------------

(* Send moves a writer past the frame it sends.                              *)
LEMMA SendStep ==
    ASSUME FragConstants, Types, IInv, NEW w \in Writers, Send(w)
    PROVE  Types' /\ IInv'
<1>1. /\ writing[w].split # 0 /\ net' = net \cup {<<writing[w].split, writing[w].next>>}
      /\ writing' = [writing EXCEPT ![w] =
            IF writing[w].next = Len(splits[writing[w].split].parts) THEN Idle
            ELSE [writing[w] EXCEPT !.next = writing[w].next + 1]]
      /\ UNCHANGED <<limit, maxSize, splitId, packets, splits, receiver>>
  BY Zenon DEF Send
<1>2. SendingBy(w)
  BY <1>1, Zenon DEF IInv, Sending
<1>3. PICK s \in Splits : s = writing[w].split
  BY <1>2, Zenon DEF SendingBy
<1>4. PICK n \in Frame(s) : n = writing[w].next
  BY <1>2, <1>3, Zenon DEF SendingBy
<1>5. n \in Nat /\ s \in Nat /\ writing[w] \in WriterType
  BY <1>4, TypeFacts DEF Frame, Types, SendTypes, Splits
<1>6. /\ \A v \in Writers \ {w} : writing'[v] = writing[v]
      /\ writing'[w].split # 0 => writing'[w].split = s /\ writing'[w].next = n + 1
                                 /\ n # Len(splits[s].parts)
      /\ writing' \in [Writers -> WriterType]
  <2>1. writing \in [Writers -> WriterType]
    BY Zenon DEF Types, SendTypes
  <2>2. [writing[w] EXCEPT !.next = n + 1] \in WriterType /\ Idle \in WriterType
    BY <1>4, <1>5 DEF WriterType, Idle
  <2>3. writing'[w] = IF n = Len(splits[s].parts) THEN Idle ELSE [writing[w] EXCEPT !.next = n + 1]
    BY <1>1, <1>3, <1>4, <2>1, Zenon
  <2>4. writing'[w].split # 0 => writing'[w].split = s /\ writing'[w].next = n + 1
                                 /\ n # Len(splits[s].parts)
    BY <1>3, <1>4, <1>5, <2>3 DEF Idle, WriterType
  <2>5. writing'[w] \in WriterType
    BY <2>2, <2>3, Zenon
  <2> QED
    BY <1>1, <2>1, <2>4, <2>5, Zenon
<1>7. Types'
  <2>1. net' \subseteq Nat \X Nat
    BY <1>1, <1>3, <1>4, <1>5 DEF Types, ReceiveTypes
  <2> QED
    BY <1>1, <1>6, <2>1, Zenon DEF Types, SendTypes, ReceiveTypes, receiver
<1>8. \A t, i : Gone(t, i) /\ <<t, i>> # <<s, n>> => Gone(t, i)'
  BY <1>1, <1>3, <1>4, Zenon DEF Gone, receiver
<1>9. Gone(s, n)
  BY <1>2, <1>3, <1>4, <1>5 DEF SendingBy
<1>10. /\ IdsDiffer' /\ Written' /\ Merging' /\ InHand' /\ Kept' /\ Returned'
       /\ Splits' = Splits /\ \A t : Frame(t)' = Frame(t)
  BY <1>1, SplitsKept, ReceiverKept, Zenon
<1>11. Sent'
  <2>1. <<s, n>> \notin arrived /\ arrived' = arrived
    BY <1>1, <1>9, Zenon DEF Gone, receiver
  <2> QED
    BY <1>1, <1>3, <1>4, <1>10, <2>1 DEF IInv, Sent
<1>12. \A v \in Writers \ {w} : writing[v].split # 0 => writing[v].split # s
  BY <1>2, <1>3, Zenon DEF SendingBy
<1>13. Sending'
  <2>1. ASSUME writing'[w].split # 0 PROVE SendingBy(w)'
    <3>1. writing'[w].split = s /\ writing'[w].next = n + 1 /\ n + 1 \in Frame(s)
      <4>1. Len(splits[s].parts) \in Nat
        BY TypeFacts, Zenon
      <4> QED
        BY <1>4, <1>5, <1>6, <2>1, <4>1 DEF Frame
    <3>2. \A i \in Frame(s) : i >= n + 1 => Gone(s, i)'
      BY <1>2, <1>3, <1>4, <1>5, <1>8 DEF SendingBy, Frame
    <3>3. \A v \in Writers \ {w} : writing'[v].split # 0 =>
             splits[writing'[v].split].packet # splits[s].packet
      BY <1>2, <1>3, <1>6, Zenon DEF SendingBy
    <3>4. \A t \in Splits : t > s => splits[t].packet # splits[s].packet
      BY <1>2, <1>3, Zenon DEF SendingBy
    <3>5. splits' = splits
      BY <1>1, Zenon
    <3> QED
      BY <1>10, <3>1, <3>2, <3>3, <3>4, <3>5, Zenon DEF SendingBy
  <2>2. ASSUME NEW v \in Writers \ {w}, writing'[v].split # 0 PROVE SendingBy(v)'
    <3>1. SendingBy(v) /\ writing'[v] = writing[v] /\ splits' = splits
      BY <1>1, <1>6, <2>2, Zenon DEF IInv, Sending
    <3>2. PICK t \in Splits : t = writing[v].split /\ t # s
      BY <1>12, <2>2, <3>1, Zenon DEF SendingBy
    <3>3. \A i \in Frame(t) : i >= writing[v].next => Gone(t, i)'
      BY <1>8, <3>1, <3>2, Zenon DEF SendingBy
    <3>4. \A u \in Writers \ {v} : writing'[u].split # 0 => writing'[u].split = writing[u].split
      BY <1>3, <1>6, Zenon
    <3> QED
      BY <1>10, <3>1, <3>2, <3>3, <3>4, Zenon DEF SendingBy
  <2> QED
    BY <2>1, <2>2, Zenon DEF Sending
<1>14. GivenUp'
  <2>1. \A t : \A v \in Writers : writing'[v].split = t /\ t # 0 => writing[v].split = t
    BY <1>3, <1>6, Zenon
  <2>2. splits' = splits
    BY <1>1
  <2> SUFFICES ASSUME NEW x \in Splits, NEW t \in Splits, x < t, splits[x].packet = splits[t].packet
               PROVE  /\ splits[x].parts # <<>> => \E i \in Frame(x) : Gone(x, i)'
                      /\ \A v \in Writers : writing'[v].split # x
    BY <1>10, <2>2, Zenon DEF GivenUp
  <2>3. /\ splits[x].parts # <<>> => \E i \in Frame(x) : Gone(x, i)
        /\ \A v \in Writers : writing[v].split # x
    BY Zenon DEF IInv, GivenUp
  <2>4. x # s /\ x # 0
    BY <1>3, <2>3 DEF Splits
  <2> QED
    BY <1>8, <2>1, <2>3, <2>4, Zenon
<1> QED
  BY <1>7, <1>10, <1>11, <1>13, <1>14, Zenon DEF IInv

(* A writer that fails leaves its frames behind.                             *)
LEMMA SendFailsStep ==
    ASSUME Types, IInv, NEW w \in Writers, SendFails(w)
    PROVE  Types' /\ IInv'
<1>1. /\ writing' = [writing EXCEPT ![w] = Idle] /\ UNCHANGED <<limit, net, maxSize>>
      /\ UNCHANGED <<splitId, packets, splits, receiver>> /\ arrived' = arrived
  BY Zenon DEF SendFails, wire, receiver
<1>2. Types'
  <2>1. Idle \in WriterType
    BY Zenon DEF Idle, WriterType
  <2>2. writing' \in [Writers -> WriterType]
    BY <1>1, <2>1, Zenon DEF Types, SendTypes
  <2> QED
    BY <1>1, <2>2, Zenon DEF Types, SendTypes, ReceiveTypes, receiver
<1>3. /\ IdsDiffer' /\ Written' /\ Merging' /\ InHand' /\ Kept' /\ Returned'
      /\ Splits' = Splits /\ \A t : Frame(t)' = Frame(t)
  BY <1>1, SplitsKept, ReceiverKept, Zenon
<1>4. \A v \in Writers : writing'[v].split # 0 => v # w /\ writing'[v] = writing[v]
  BY <1>1, Zenon DEF Types, SendTypes, Idle
<1>5. \A t, i : Gone(t, i)' = Gone(t, i)
  BY <1>1, Zenon DEF Gone
<1>6. Sent'
  BY <1>1, <1>3, Zenon DEF IInv, Sent
<1>7. Sending'
  <2> SUFFICES ASSUME NEW v \in Writers, writing'[v].split # 0 PROVE SendingBy(v)'
    BY Zenon DEF Sending
  <2>1. writing'[v] = writing[v] /\ SendingBy(v) /\ splits' = splits /\ packets' = packets
    BY <1>1, <1>4, Zenon DEF IInv, Sending
  <2>2. PICK s \in Splits : s = writing[v].split
    BY <2>1, Zenon DEF SendingBy
  <2>3. /\ writing'[v].next \in Frame(s)
        /\ \A i \in Frame(s) : i >= writing'[v].next => Gone(s, i)'
    BY <1>5, <2>1, <2>2, Zenon DEF SendingBy
  <2>4. /\ \A t \in Splits : t > s => splits[t].packet # splits[s].packet
        /\ \A u \in Writers \ {v} : writing'[u].split # 0 =>
              splits[writing'[u].split].packet # splits[s].packet
    BY <1>4, <2>1, <2>2, Zenon DEF SendingBy
  <2>5. s = writing'[v].split /\ Splits' = Splits /\ Frame(s)' = Frame(s)
    BY <1>3, <2>1, <2>2, Zenon
  <2> QED
    BY <2>1, <2>3, <2>4, <2>5, Zenon DEF SendingBy
<1>8. GivenUp'
  <2>1. splits' = splits
    BY <1>1, Zenon
  <2> SUFFICES ASSUME NEW x \in Splits, NEW t \in Splits, x < t, splits[x].packet = splits[t].packet
               PROVE  /\ splits[x].parts # <<>> => \E i \in Frame(x) : Gone(x, i)
                      /\ \A v \in Writers : writing'[v].split # x
    BY <1>3, <1>5, <2>1, Zenon DEF GivenUp
  <2>2. /\ splits[x].parts # <<>> => \E i \in Frame(x) : Gone(x, i)
        /\ \A v \in Writers : writing[v].split # x
    BY Zenon DEF IInv, GivenUp
  <2>3. x # 0
    BY DEF Splits
  <2> QED
    BY <1>4, <2>2, <2>3, Zenon
<1> QED
  BY <1>2, <1>3, <1>6, <1>7, <1>8, Zenon DEF IInv

(* The network only loses.                                                   *)
LEMMA NetworkStep ==
    ASSUME FragConstants, Types, IInv,
           (\E l \in Limits : Probe(l)) \/ (\E d \in net : Lose(d))
    PROVE  Types' /\ IInv'
<1>1. limit' \in Nat /\ net' \subseteq net /\ UNCHANGED <<sender, receiver>>
  BY Zenon DEF FragConstants, Probe, Lose, Types, SendTypes
<1>2. Types'
  BY <1>1, Zenon DEF Types, SendTypes, ReceiveTypes, sender, receiver
<1>3. UNCHANGED <<splitId, packets, splits, receiver>> /\ writing' = writing /\ arrived' = arrived
  BY <1>1, Zenon DEF sender, receiver
<1>4. /\ IdsDiffer' /\ Written' /\ Merging' /\ InHand' /\ Kept' /\ Returned'
      /\ Splits' = Splits /\ \A t : Frame(t)' = Frame(t)
  BY <1>3, SplitsKept, ReceiverKept, Zenon
<1>5. \A t, i : Gone(t, i) => Gone(t, i)'
  BY <1>1, <1>3, Zenon DEF Gone
<1>6. Sent'
  BY <1>1, <1>3, <1>4, Zenon DEF IInv, Sent
<1>7. Sending'
  BY <1>3, <1>4, <1>5, Zenon DEF IInv, Sending, SendingBy
<1>8. GivenUp'
  BY <1>3, <1>4, <1>5, Zenon DEF IInv, GivenUp
<1> QED
  BY <1>2, <1>4, <1>6, <1>7, <1>8, Zenon DEF IInv
-----------------------------------------------------------------------------

(* A single frame is a packet that was not returned before.                  *)
LEMMA ReceiveSingleStep ==
    ASSUME Types, IInv, NEW d \in net, ReceiveSingle(d)
    PROVE  Types' /\ IInv'
<1>1. /\ hand.split = 0 /\ splits[d[1]].id = 0 /\ net' = net \ {d} /\ arrived' = arrived \cup {d}
      /\ merged' = Append(merged, [i \in {1} |-> d[1]])
      /\ UNCHANGED <<limit, sender, hand, merges, mergeMap, swept>>
  BY Zenon DEF ReceiveSingle
<1>2. PICK s \in Splits : s = d[1] /\ d[2] \in Frame(s) /\ d \notin arrived
  BY Zenon DEF IInv, Sent
<1>3. d \in Nat \X Nat /\ merged \in Seq(Data)
  BY Zenon DEF Types, ReceiveTypes
<1>4. Len(splits[s].parts) = 1 /\ splits[s].parts # <<>> /\ d = <<s, 1>> /\ Frame(s) = {1}
  <2>1. splits[s].parts # <<>>
    BY <1>2 DEF Frame
  <2>2. Len(splits[s].parts) = 1
    BY <1>1, <1>2, <2>1, Zenon DEF IInv, Written
  <2> QED
    BY <1>2, <1>3, <2>1, <2>2 DEF Frame
<1> DEFINE one == [i \in {1} |-> d[1]]
<1>5. one \in Data /\ one = [i \in 1..Len(splits[s].parts) |-> s] /\ one[1] = s
  <2>1. one \in [{1} -> Nat] /\ {1} \in SUBSET Nat
    BY <1>3
  <2>2. one \in Data
    BY <2>1, Zenon DEF Data
  <2> QED
    BY <1>2, <1>4, <2>2
<1> HIDE DEF one
<1>6. PICK new \in Nat : new = Len(merged) + 1
  BY <1>3
<1>7. /\ merged' \in Seq(Data) /\ Len(merged') = new /\ merged'[new] = one
      /\ \A m \in 1..Len(merged) : merged'[m] = merged[m]
      /\ 1..Len(merged') = 1..Len(merged) \cup {new} /\ new \notin 1..Len(merged)
  <2>1. merged' = Append(merged, one)
    BY <1>1, Zenon DEF one
  <2> QED
    BY <1>3, <1>5, <1>6, <2>1
<1>8. Types'
  BY <1>1, <1>3, <1>7, Zenon DEF Types, SendTypes, ReceiveTypes, sender
<1>9. /\ IdsDiffer' /\ Written' /\ Sending' /\ GivenUp'
      /\ Splits' = Splits /\ (\A t : Frame(t)' = Frame(t)) /\ splits' = splits
  <2>1. net' \cup arrived' = net \cup arrived
    BY <1>1, Zenon
  <2> QED
    BY <1>1, <2>1, SenderKept, Zenon DEF sender
<1>10. Sent'
  BY <1>1, <1>2, <1>9, Zenon DEF IInv, Sent
<1>11. Merging'
  <2>1. \A r, t : MergeOf(r, t) => MergeOf(r, t)'
    BY <1>1, <1>9 DEF MergeOf
  <2> QED
    BY <1>1, <1>9, <2>1, Zenon DEF IInv, Merging
<1>12. InHand'
  BY <1>1, Zenon DEF InHand
<1>13. /\ \A t : \A m \in 1..Len(merged) : IsMerged(m, t)' = IsMerged(m, t)
       /\ IsMerged(new, s)'
  BY <1>5, <1>7, <1>9, Zenon DEF IsMerged
<1>14. Kept'
  <2>1. \A t : IsMergedSplit(t) => IsMergedSplit(t)'
    BY <1>7, <1>13, Zenon DEF IsMergedSplit
  <2>2. IsMergedSplit(d[1])'
    BY <1>1, <1>2, <1>7, <1>13, Zenon DEF IsMergedSplit
  <2> QED
    BY <1>1, <1>9, <2>1, <2>2, Zenon DEF IInv, Kept
<1>15. Returned'
  <2>1. ASSUME NEW m \in 1..Len(merged')
        PROVE  \E t \in Splits : /\ splits[t].parts # <<>> /\ IsMerged(m, t)'
                                 /\ \A i \in Frame(t) : <<t, i>> \in arrived'
    <3>1. CASE m = new
      BY <1>1, <1>4, <1>13, <3>1, Zenon
    <3>2. CASE m \in 1..Len(merged)
      BY <1>1, <1>13, <3>2, Zenon DEF IInv, Returned
    <3> QED
      BY <1>7, <3>1, <3>2, Zenon
  <2>2. \A m \in 1..Len(merged) : merged[m][1] # s
    <3> SUFFICES ASSUME NEW m \in 1..Len(merged), merged[m][1] = s PROVE FALSE
      BY Zenon
    <3>1. \A i \in Frame(s) : <<s, i>> \in arrived
      BY <1>4, MergedOnce, Zenon
    <3> QED
      BY <1>2, <1>4, <3>1, Zenon
  <2>3. \A m, n \in 1..Len(merged) : m # n => merged[m][1] # merged[n][1]
    BY Zenon DEF IInv, Returned
  <2>4. \A m, n \in 1..Len(merged') : m # n => merged'[m][1] # merged'[n][1]
    <3>1. merged'[new][1] = s
      BY <1>5, <1>7, Zenon
    <3> QED
      BY <1>7, <2>2, <2>3, <3>1
  <2> QED
    BY <1>9, <2>1, <2>4, Zenon DEF Returned
<1> QED
  BY <1>8, <1>9, <1>10, <1>11, <1>12, <1>14, <1>15, Zenon DEF IInv

(* A frame finds the merge of its own split, which does not have it yet.     *)
LEMMA ReceiveStep ==
    ASSUME Types, IInv, NEW d \in net, Receive(d)
    PROVE  Types' /\ IInv'
<1>1. /\ hand.split = 0 /\ splits[d[1]].id # 0 /\ net' = net \ {d} /\ arrived' = arrived \cup {d}
      /\ UNCHANGED <<limit, sender, merges, merged, swept>>
  BY Zenon DEF Receive
<1>2. PICK s \in Splits : s = d[1] /\ d[2] \in Frame(s) /\ d \notin arrived
  BY DEF IInv, Sent
<1>3. PICK id \in Nat : id = splits[s].id /\ id # 0
  BY <1>1, <1>2, TypeFacts, Zenon
<1>4. id \in DOMAIN mergeMap => mergeMap[id] \in 1..Len(merges) /\ MergeOf(mergeMap[id], s)
  BY <1>3, Zenon DEF IInv, Merging, IdsDiffer
<1>5. Agrees(d)
  <2>1. ASSUME NEW r, MergeOf(r, s) PROVE merges[r].total = Len(splits[s].parts)
    BY <2>1 DEF MergeOf
  <2> QED
    BY <1>2, <1>3, <1>4, <2>1, Zenon DEF Agrees
<1>0. PICK found \in Nat : found = IF id \in DOMAIN mergeMap THEN mergeMap[id] ELSE 0
  BY <1>4, TypeFacts
<1>6. hand' = [split |-> s, index |-> d[2], merge |-> found] /\ mergeMap' = mergeMap
  BY <1>0, <1>2, <1>3, <1>5, Zenon DEF Receive
<1>7. d \in Nat \X Nat /\ s \in Nat
  BY DEF Types, ReceiveTypes, Splits
<1>8. hand'.split = s /\ hand'.index = d[2] /\ hand'.merge = found /\ d = <<s, d[2]>>
  BY <1>2, <1>6, <1>7
<1>9. Types'
  BY <1>1, <1>6, <1>7, Zenon DEF Types, SendTypes, ReceiveTypes, sender
<1>10. /\ IdsDiffer' /\ Written' /\ Sending' /\ GivenUp'
       /\ Splits' = Splits /\ (\A t : Frame(t)' = Frame(t)) /\ splits' = splits
  <2>1. net' \cup arrived' = net \cup arrived
    BY <1>1, Zenon
  <2> QED
    BY <1>1, <2>1, SenderKept, Zenon DEF sender
<1>11. Sent'
  BY <1>1, <1>2, <1>10, Zenon DEF IInv, Sent
<1>12. \A r, t : MergeOf(r, t) => MergeOf(r, t)'
  BY <1>1, <1>10, ZenonT(40) DEF MergeOf
<1>13. Merging'
  BY <1>1, <1>6, <1>10, <1>12, Zenon DEF IInv, Merging
<1>14. \A m, t : IsMerged(m, t)' = IsMerged(m, t) /\ IsMergedSplit(t)' = IsMergedSplit(t)
  BY <1>1, <1>10, Zenon DEF IsMerged, IsMergedSplit
<1>15. InHand'
  <2>1. ~IsMergedSplit(s)
    <3> SUFFICES ASSUME NEW m \in 1..Len(merged), IsMerged(m, s) PROVE FALSE
      BY Zenon DEF IsMergedSplit
    <3>1. splits[s].parts # <<>>
      BY <1>2 DEF Frame
    <3>2. <<s, d[2]>> \in arrived
      BY <1>2, <3>1, MergedOnce, Zenon
    <3> QED
      BY <1>2, <1>8, <3>2, Zenon
  <2>2. found # 0 => /\ id \in DOMAIN mergeMap /\ found = mergeMap[id]
                     /\ d[2] \notin DOMAIN merges[found].data
    BY <1>0, <1>2, <1>4, <1>8 DEF MergeOf
  <2>3. found = 0 => id \notin DOMAIN mergeMap
    BY <1>0, <1>4, TypeFacts
  <2>4. <<s, d[2]>> \in arrived'
    BY <1>1, <1>8, Zenon
  <2>5. ~IsMergedSplit(s)' /\ splits'[s].id = id /\ d[2] \in Frame(s)' /\ s \in Splits'
    BY <1>2, <1>3, <1>10, <1>14, <2>1, Zenon
  <2>6. found # 0 => found \in 1..Len(merges') /\ MergeOf(found, s)'
                     /\ d[2] \notin DOMAIN merges'[found].data
    BY <1>1, <1>4, <1>12, <2>2, Zenon
  <2> QED
    BY <1>3, <1>6, <1>8, <2>2, <2>3, <2>4, <2>5, <2>6, Zenon DEF InHand
<1>16. Kept'
  <2>1. \A x \in arrived : x[1] # hand.split
    BY <1>1 DEF IInv, Sent, Splits
  <2> QED
    BY <1>1, <1>2, <1>6, <1>8, <1>10, <1>14, <2>1, Zenon DEF IInv, Kept
<1>17. Returned'
  BY <1>1, <1>10, <1>14 DEF IInv, Returned
<1> QED
  BY <1>9, <1>10, <1>11, <1>13, <1>15, <1>16, <1>17, Zenon DEF IInv

(* The timer forgets a merge, not what is in it.                             *)
LEMMA SweepStep ==
    ASSUME Types, IInv, NEW id \in DOMAIN mergeMap, Sweep(id)
    PROVE  Types' /\ IInv'
<1>1. /\ mergeMap' = Without(mergeMap, id) /\ swept' = swept \cup {id}
      /\ UNCHANGED <<wire, sender, hand, merges, merged, arrived>>
  BY Zenon DEF Sweep
<1>2. /\ DOMAIN mergeMap' = DOMAIN mergeMap \ {id}
      /\ \A x \in DOMAIN mergeMap' : mergeMap'[x] = mergeMap[x]
  BY <1>1, Zenon DEF Without
<1>3. Types'
  BY <1>1, Zenon DEF Types, SendTypes, ReceiveTypes, sender, wire
<1>4. /\ IdsDiffer' /\ Written' /\ Sending' /\ GivenUp'
      /\ Splits' = Splits /\ (\A t : Frame(t)' = Frame(t)) /\ splits' = splits /\ net' = net
  BY <1>1, SenderKept, Zenon DEF sender, wire
<1>5. Sent'
  BY <1>1, <1>4, Zenon DEF IInv, Sent
<1>6. \A r, t : MergeOf(r, t)' = MergeOf(r, t)
  BY <1>1, <1>4, ZenonT(40) DEF MergeOf
<1>7. Merging'
  BY <1>1, <1>2, <1>4, <1>6, ZenonT(40) DEF IInv, Merging
<1>8. \A m, t : IsMerged(m, t)' = IsMerged(m, t) /\ IsMergedSplit(t)' = IsMergedSplit(t)
  BY <1>1, <1>4, Zenon DEF IsMerged, IsMergedSplit
<1>9. InHand'
  BY <1>1, <1>2, <1>4, <1>6, <1>8, Zenon DEF IInv, InHand
<1>10. Kept'
  BY <1>1, <1>2, <1>4, <1>8, ZenonT(40) DEF IInv, Kept
<1>11. Returned'
  BY <1>1, <1>4, <1>8 DEF IInv, Returned
<1> QED
  BY <1>3, <1>4, <1>5, <1>7, <1>9, <1>10, <1>11, Zenon DEF IInv

-----------------------------------------------------------------------------
(* A frame put in its merge: a merge that is full holds every frame of one   *)
(* split.                                                                    *)

(* What the receiver's own step puts into a merge.                           *)
LEMMA FilledMerge ==
    ASSUME Types, IInv, hand.split # 0
    PROVE  \E D \in SUBSET Frame(hand.split) :
             /\ hand.index \in D /\ IsFiniteSet(D)
             /\ Filled = [total |-> Len(splits[hand.split].parts),
                          data |-> [i \in D |-> hand.split], count |-> Cardinality(D)]
             /\ \A i \in D : <<hand.split, i>> \in arrived
             /\ hand.merge # 0 => DOMAIN merges[hand.merge].data \subseteq D
<1> DEFINE s == hand.split
           C == DOMAIN Found.data
           D == C \cup {hand.index}
<1>1. /\ s \in Splits /\ hand.index \in Frame(s) /\ <<s, hand.index>> \in arrived
      /\ hand.merge # 0 => MergeOf(hand.merge, s) /\ hand.index \notin DOMAIN merges[hand.merge].data
  BY Zenon DEF IInv, InHand
<1>2. /\ C \subseteq Frame(s) /\ hand.index \notin C /\ \A i \in C : <<s, i>> \in arrived
      /\ Found.total = Len(splits[s].parts) /\ Found.data = [i \in C |-> s]
      /\ Found.count = Cardinality(C)
      /\ hand.merge # 0 => DOMAIN merges[hand.merge].data = C
  <2>1. CASE hand.merge # 0
    <3>1. Found = merges[hand.merge]
      BY <2>1, Zenon DEF Found
    <3>2. /\ C \subseteq Frame(s) /\ hand.index \notin C /\ \A i \in C : <<s, i>> \in arrived
          /\ Found.data = [i \in C |-> s]
      BY <1>1, <2>1, <3>1, Zenon DEF MergeOf
    <3>3. Found = [total |-> Len(splits[s].parts), data |-> Found.data, count |-> Cardinality(C)]
      BY <1>1, <2>1, <3>1, Zenon DEF MergeOf
    <3>4. Found.total = Len(splits[s].parts) /\ Found.count = Cardinality(C)
      BY <3>3
    <3> QED
      BY <3>1, <3>2, <3>4, Zenon
  <2>2. CASE hand.merge = 0
    <3>1. /\ Found.data = NoMap /\ Found.count = 0 /\ Found.total = Len(splits[s].parts)
      BY <2>2, Zenon DEF Found
    <3>2. C = {} /\ NoMap = [i \in {} |-> s]
      BY <3>1, Zenon DEF NoMap
    <3> QED
      BY <2>2, <3>1, <3>2, FS_EmptySet, Zenon
  <2> QED
    BY <2>1, <2>2, Zenon
<1>3. IsFiniteSet(C)
  <2>1. PICK n \in Nat : Frame(s) = 1..n
    BY <1>1, TypeFacts, Zenon DEF Frame
  <2>2. IsFiniteSet(1..n)
    BY FS_Interval
  <2> QED
    BY <1>2, <2>1, <2>2, FS_Subset, Zenon
<1>4. IsFiniteSet(D) /\ Cardinality(D) = Cardinality(C) + 1
  BY <1>2, <1>3, FS_AddElement, Zenon
<1>5. With(Found.data, hand.index, s) = [i \in D |-> s]
  BY <1>2, Zenon DEF With
<1>6. Filled = [total |-> Len(splits[s].parts), data |-> [i \in D |-> s], count |-> Cardinality(D)]
  BY <1>2, <1>4, <1>5, Zenon DEF Filled
<1>7. D \in SUBSET Frame(s) /\ hand.index \in D /\ \A i \in D : <<s, i>> \in arrived
  BY <1>1, <1>2, Zenon
<1>8. hand.merge # 0 => DOMAIN merges[hand.merge].data \subseteq D
  BY <1>2, Zenon
<1> HIDE DEF D
<1> QED
  BY <1>4, <1>6, <1>7, <1>8, Zenon

(* The last frame of a split makes its packet.                               *)
LEMMA FillStep ==
    ASSUME Types, IInv, Fill
    PROVE  Types' /\ IInv'
<1>1. hand.split # 0 /\ hand' = Empty /\ UNCHANGED <<wire, sender, arrived, swept>>
  BY Zenon DEF Fill
<1>2. PICK s \in Splits : s = hand.split
  BY <1>1, Zenon DEF IInv, InHand
<1>3. PICK D \in SUBSET Frame(s) :
         /\ hand.index \in D /\ IsFiniteSet(D)
         /\ Filled = [total |-> Len(splits[s].parts), data |-> [i \in D |-> s], count |-> Cardinality(D)]
         /\ \A i \in D : <<s, i>> \in arrived
         /\ hand.merge # 0 => DOMAIN merges[hand.merge].data \subseteq D
  BY <1>1, <1>2, FilledMerge, Zenon
<1>4. PICK id \in Nat : id = splits[s].id
  BY TypeFacts, Zenon
<1>5. /\ id # 0 /\ <<s, hand.index>> \in arrived /\ ~IsMergedSplit(s)
      /\ hand.merge # 0 => hand.merge \in 1..Len(merges) /\ MergeOf(hand.merge, s)
      /\ id \notin swept => IF hand.merge = 0 THEN id \notin DOMAIN mergeMap
                            ELSE id \in DOMAIN mergeMap /\ mergeMap[id] = hand.merge
  BY <1>1, <1>2, <1>4, Zenon DEF IInv, InHand
<1>6. PICK n \in Nat : n = Len(splits[s].parts) /\ Frame(s) = 1..n
  BY TypeFacts, Zenon DEF Frame
<1>7. /\ Cardinality(D) \in Nat /\ Cardinality(D) <= n /\ (Cardinality(D) = n => D = 1..n)
      /\ D # {} /\ n # 0
  <2>1. IsFiniteSet(1..n) /\ Cardinality(1..n) = n
    <3>1. 1 \in Int /\ n \in Int
      OBVIOUS
    <3>2. IsFiniteSet(1..n) /\ Cardinality(1..n) = IF 1 > n THEN 0 ELSE n - 1 + 1
      BY <3>1, FS_Interval, Zenon
    <3> QED
      BY <3>2
  <2>2. Cardinality(D) <= Cardinality(1..n) /\ (Cardinality(1..n) = Cardinality(D) => 1..n = D)
    BY <1>3, <1>6, <2>1, FS_Subset, Zenon
  <2>3. Cardinality(D) \in Nat
    BY <1>3, FS_CardinalityType, Zenon
  <2> QED
    BY <1>3, <1>6, <2>1, <2>2, <2>3
<1>8. PICK r \in Nat : r = IF hand.merge # 0 THEN hand.merge ELSE Len(merges) + 1
  BY TypeFacts
<1> DEFINE full == Cardinality(D) = n
           F == [total |-> n, data |-> [i \in D |-> s], count |-> Cardinality(D)]
<1>9. F \in MergeType /\ F.data \in Data
  <2>1. [i \in D |-> s] \in [D -> Nat] /\ D \in SUBSET Nat
    BY <1>3, <1>6 DEF Splits
  <2>2. [i \in D |-> s] \in Data
    BY <2>1, Zenon DEF Data
  <2> QED
    BY <1>7, <2>2, Zenon DEF MergeType
<1>10. /\ merges' = IF hand.merge # 0 THEN [merges EXCEPT ![hand.merge] = F] ELSE Append(merges, F)
       /\ merged' = IF full THEN Append(merged, F.data) ELSE merged
       /\ mergeMap' = IF full THEN Without(mergeMap, id)
                      ELSE IF hand.merge # 0 THEN mergeMap ELSE With(mergeMap, id, Len(merges) + 1)
  BY <1>2, <1>3, <1>4, <1>6, Zenon DEF Fill
<1>11. /\ merges' \in Seq(MergeType) /\ merges'[r] = F /\ r \in 1..Len(merges')
       /\ \A q \in 1..Len(merges) : q \in 1..Len(merges') /\ (q # r => merges'[q] = merges[q])
  <2>1. merges \in Seq(MergeType)
    BY Zenon DEF Types, ReceiveTypes
  <2> HIDE DEF F
  <2>2. CASE hand.merge # 0
    BY <1>5, <1>8, <1>9, <1>10, <2>1, <2>2
  <2>3. CASE hand.merge = 0
    BY <1>8, <1>9, <1>10, <2>1, <2>3
  <2> QED
    BY <2>2, <2>3, Zenon
<1>12. PICK new \in Nat : new = Len(merged) + 1
  BY TypeFacts
<1>13. /\ merged' \in Seq(Data) /\ \A m \in 1..Len(merged) : merged'[m] = merged[m]
       /\ new \notin 1..Len(merged)
       /\ full => merged'[new] = [i \in D |-> s] /\ 1..Len(merged') = 1..Len(merged) \cup {new}
       /\ ~full => merged' = merged
  <2>1. merged \in Seq(Data)
    BY Zenon DEF Types, ReceiveTypes
  <2>2. F.data = [i \in D |-> s]
    BY Zenon
  <2> HIDE DEF F
  <2> QED
    BY <1>9, <1>10, <1>12, <2>1, <2>2
<1> HIDE DEF F
<1>14. Types'
  <2>1. Empty \in [split : Nat, index : Nat, merge : Nat]
    BY Zenon DEF Empty
  <2> QED
    BY <1>1, <1>11, <1>13, <2>1, Zenon DEF Types, SendTypes, ReceiveTypes, sender, wire
<1>15. /\ IdsDiffer' /\ Written' /\ Sending' /\ GivenUp'
       /\ Splits' = Splits /\ (\A t : Frame(t)' = Frame(t)) /\ splits' = splits /\ net' = net
  BY <1>1, SenderKept, Zenon DEF sender, wire
<1>16. Sent'
  BY <1>1, <1>15, Zenon DEF IInv, Sent
<1>17. MergeOf(r, s)' /\ merges'[r].count = Cardinality(D) /\ merges'[r].total = n /\ DOMAIN merges'[r].data = D
  <2>1. merges'[r].data = [i \in D |-> s] /\ DOMAIN merges'[r].data = D
        /\ merges'[r].count = Cardinality(D) /\ merges'[r].total = n
    BY <1>11 DEF F
  <2>2. merges'[r] = [total |-> n, data |-> merges'[r].data, count |-> Cardinality(DOMAIN merges'[r].data)]
    BY <1>11, <2>1, Zenon DEF F
  <2> QED
    BY <1>1, <1>3, <1>4, <1>5, <1>6, <1>7, <1>15, <2>1, <2>2, Zenon DEF MergeOf
<1>18. ASSUME NEW q \in 1..Len(merges), NEW t \in Splits, MergeOf(q, t), q = r
       PROVE  t = s
  <2>1. hand.merge = r /\ MergeOf(r, s)
    BY <1>5, <1>8, <1>18, TypeFacts
  <2>2. PICK i \in DOMAIN merges[r].data : TRUE
    BY <2>1, Zenon DEF MergeOf
  <2>3. merges[r].data[i] = s /\ merges[r].data[i] = t
    BY <1>18, <2>1, <2>2, Zenon DEF MergeOf
  <2> QED
    BY <2>3, Zenon
<1>19. ASSUME NEW q \in 1..Len(merges), NEW t \in Splits, MergeOf(q, t), q # r
       PROVE  MergeOf(q, t)'
  BY <1>1, <1>11, <1>15, <1>19, Zenon DEF MergeOf
<1>20. ASSUME NEW x \in DOMAIN mergeMap, x # id
       PROVE  /\ x \in DOMAIN mergeMap' /\ mergeMap'[x] = mergeMap[x]
              /\ mergeMap[x] \in 1..Len(merges) /\ mergeMap[x] # r
              /\ merges'[mergeMap[x]] = merges[mergeMap[x]]
  <2>1. PICK t \in Splits : splits[t].id = x /\ MergeOf(mergeMap[x], t) /\ mergeMap[x] \in 1..Len(merges)
    BY Zenon DEF IInv, Merging
  <2>2. mergeMap[x] # r
    BY <1>4, <1>18, <1>20, <2>1, Zenon
  <2>3. x \in DOMAIN mergeMap' /\ mergeMap'[x] = mergeMap[x]
    BY <1>10, <1>20, Zenon DEF With, Without
  <2> QED
    BY <1>11, <2>1, <2>2, <2>3, Zenon
<1>21. /\ \A x \in DOMAIN mergeMap' : x # id => x \in DOMAIN mergeMap
       /\ id \in DOMAIN mergeMap' =>
             /\ ~full
             /\ mergeMap'[id] = r \/ (id \in DOMAIN mergeMap /\ mergeMap'[id] = mergeMap[id])
       /\ ~full /\ id \notin swept => id \in DOMAIN mergeMap' /\ mergeMap'[id] = r
  <2>1. CASE full
    BY <1>10, <2>1, Zenon DEF Without
  <2>2. CASE ~full /\ hand.merge # 0
    BY <1>5, <1>8, <1>10, <2>2, Zenon
  <2>3. CASE ~full /\ hand.merge = 0
    <3>1. mergeMap' = With(mergeMap, id, r)
      BY <1>8, <1>10, <2>3, Zenon
    <3>2. DOMAIN mergeMap' = DOMAIN mergeMap \cup {id} /\ mergeMap'[id] = r
      BY <3>1, Zenon DEF With
    <3>3. \A x \in DOMAIN mergeMap' : x # id => x \in DOMAIN mergeMap
      BY <3>2, Zenon
    <3>4. ~full /\ mergeMap'[id] = r /\ id \in DOMAIN mergeMap'
      BY <2>3, <3>2, Zenon
    <3> QED
      BY <3>3, <3>4, Zenon
  <2> QED
    BY <2>1, <2>2, <2>3, Zenon
<1>22. Merging'
  <2> SUFFICES ASSUME NEW x \in DOMAIN mergeMap'
               PROVE  \E q \in 1..Len(merges'), t \in Splits :
                         /\ q = mergeMap'[x] /\ splits[t].id = x /\ MergeOf(q, t)'
                         /\ merges'[q].count < merges'[q].total
    BY <1>15, Zenon DEF Merging
  <2>1. CASE x = id /\ mergeMap'[x] = r
    <3>1. Cardinality(D) < n
      BY <1>7, <1>21, <2>1
    <3> QED
      BY <1>4, <1>11, <1>17, <2>1, <3>1, Zenon
  <2>2. CASE ~(x = id /\ mergeMap'[x] = r)
    <3>1. x \in DOMAIN mergeMap /\ mergeMap'[x] = mergeMap[x] /\ mergeMap[x] # r
      BY <1>20, <1>21, <2>2, Zenon
    <3>2. PICK q \in 1..Len(merges) : q = mergeMap[x]
      BY <3>1, Zenon DEF IInv, Merging
    <3>3. PICK t \in Splits : splits[t].id = x /\ MergeOf(q, t)
      BY <3>1, <3>2, Zenon DEF IInv, Merging
    <3>4. MergeOf(q, t)'
      BY <1>19, <3>1, <3>2, <3>3, Zenon
    <3>5. merges[q].count < merges[q].total /\ merges'[q] = merges[q] /\ q \in 1..Len(merges')
      BY <1>11, <3>1, <3>2, Zenon DEF IInv, Merging
    <3> QED
      BY <3>1, <3>2, <3>3, <3>4, <3>5, Zenon
  <2> QED
    BY <2>1, <2>2, Zenon
<1>23. InHand'
  BY <1>1, Zenon DEF InHand, Empty
<1>24. /\ \A t : \A m \in 1..Len(merged) : IsMerged(m, t)' = IsMerged(m, t)
       /\ full => IsMerged(new, s)' /\ D = 1..n
  BY <1>6, <1>7, <1>13, <1>15, Zenon DEF IsMerged
<1>25. (\A t : IsMergedSplit(t) => IsMergedSplit(t)') /\ (full => IsMergedSplit(s)')
  <2>1. \A m \in 1..Len(merged) : m \in 1..Len(merged')
    BY <1>13, Zenon
  <2>2. full => new \in 1..Len(merged')
    BY <1>13, Zenon
  <2> QED
    BY <1>24, <2>1, <2>2, Zenon DEF IsMergedSplit
<1>26. Kept'
  <2> SUFFICES ASSUME NEW d \in arrived, splits[d[1]].id \notin swept, ~IsMergedSplit(d[1])'
               PROVE  /\ splits[d[1]].id \in DOMAIN mergeMap'
                      /\ d[2] \in DOMAIN merges'[mergeMap'[splits[d[1]].id]].data
    BY <1>1, <1>15, Zenon DEF Kept
  <2>1. PICK t \in Splits : t = d[1]
    BY Zenon DEF IInv, Sent
  <2>2. \/ hand.split = t /\ hand.index = d[2]
        \/ splits[t].id \in DOMAIN mergeMap /\ d[2] \in DOMAIN merges[mergeMap[splits[t].id]].data
    BY <1>25, <2>1, Zenon DEF IInv, Kept
  <2>3. CASE t = s
    <3>1. ~full /\ id \notin swept
      BY <1>4, <1>25, <2>1, <2>3, Zenon
    <3>2. d[2] \in D
      <4>1. CASE hand.index = d[2]
        BY <1>3, <4>1, Zenon
      <4>2. CASE id \in DOMAIN mergeMap /\ d[2] \in DOMAIN merges[mergeMap[id]].data
        <5>1. hand.merge # 0 /\ mergeMap[id] = hand.merge
          BY <1>5, <3>1, <4>2, Zenon
        <5> QED
          BY <1>3, <4>2, <5>1, Zenon
      <4> QED
        BY <1>4, <2>2, <2>3, <4>1, <4>2, Zenon
    <3> QED
      BY <1>4, <1>17, <1>21, <2>1, <2>3, <3>1, <3>2, Zenon
  <2>4. CASE t # s
    <3>1. splits[t].id # id
      BY <1>4, <1>5, <2>4, Zenon DEF IInv, IdsDiffer
    <3> QED
      BY <1>2, <1>20, <2>1, <2>2, <2>4, <3>1, Zenon
  <2> QED
    BY <2>3, <2>4, Zenon
<1>27. Returned'
  <2>1. CASE ~full
    <3>1. merged' = merged /\ arrived' = arrived
      BY <1>1, <1>13, <2>1, Zenon
    <3> QED
      BY <1>15, <1>24, <3>1, Zenon DEF IInv, Returned
  <2>2. CASE full
    <3>1. ASSUME NEW m \in 1..Len(merged')
          PROVE  \E t \in Splits : /\ splits[t].parts # <<>> /\ IsMerged(m, t)'
                                   /\ \A i \in Frame(t) : <<t, i>> \in arrived
      <4>1. CASE m = new
        <5>1. splits[s].parts # <<>>
          BY <1>6, <1>7
        <5> QED
          BY <1>3, <1>6, <1>24, <2>2, <4>1, <5>1, Zenon
      <4>2. CASE m \in 1..Len(merged)
        BY <1>24, <4>2, Zenon DEF IInv, Returned
      <4> QED
        BY <1>13, <2>2, <4>1, <4>2, Zenon
    <3>2. \A m \in 1..Len(merged) : merged[m][1] # s
      <4>1. splits[s].parts # <<>>
        BY <1>6, <1>7
      <4> QED
        BY <1>5, <4>1, MergedOnce, Zenon DEF IsMergedSplit
    <3>3. merged'[new][1] = s
      <4>1. D = 1..n /\ 1 \in D
        BY <1>7, <1>24, <2>2
      <4>2. merged'[new] = [i \in D |-> s]
        BY <1>13, <2>2, Zenon
      <4> QED
        BY <4>1, <4>2, Zenon
    <3>4. \A m, k \in 1..Len(merged) : m # k => merged[m][1] # merged[k][1]
      BY Zenon DEF IInv, Returned
    <3>5. \A m, k \in 1..Len(merged') : m # k => merged'[m][1] # merged'[k][1]
      BY <1>13, <2>2, <3>2, <3>3, <3>4
    <3> QED
      BY <1>1, <1>15, <3>1, <3>5, Zenon DEF Returned
  <2> QED
    BY <2>1, <2>2, Zenon
<1> QED
  BY <1>14, <1>15, <1>16, <1>22, <1>23, <1>26, <1>27 DEF IInv

-----------------------------------------------------------------------------
PacketsKept ==
    /\ packets' \in Seq(Nat \ {0}) /\ Len(packets) <= Len(packets')
    /\ \A k \in 1..Len(packets) : packets'[k] = packets[k]

(* Packet p is no other writer's, and no split of it will be complete.       *)
OpenTo(w, p) ==
    /\ \A s \in Splits : splits[s].packet = p /\ splits[s].parts # <<>> =>
          \E i \in Frame(s) : Gone(s, i)
    /\ \A v \in Writers \ {w} : writing[v].split # 0 => splits[writing[v].split].packet # p

(* A packet is split, for the first time or again, after its earlier splits  *)
(* were given up.                                                            *)
LEMMA SplitStep ==
    ASSUME FragConstants, Types, IInv,
           NEW w \in Writers, NEW p \in Nat, NEW size \in Nat, NEW retry \in BOOLEAN,
           PacketsKept, p \in 1..Len(packets'), OpenTo(w, p),
           SplitWith(w, p, packets'[p], size, retry, splitId + 1),
           limit' \in Nat, maxSize' \in Nat, UNCHANGED <<net, receiver>>
    PROVE  Types' /\ IInv'
<1> DEFINE parts == Parts(packets'[p], size)
           id == IF IsSingle(packets'[p], size) \/ parts = <<>> THEN 0 ELSE splitId + 1
           e == [packet |-> p, id |-> id, parts |-> parts]
<1>0. PICK new \in Nat : new = Len(splits) + 1
  BY TypeFacts
<1>1. /\ splits' = Append(splits, e)
      /\ splitId' = IF id = 0 THEN splitId ELSE id
      /\ writing' = [writing EXCEPT ![w] = IF parts = <<>> THEN Idle
                                           ELSE [split |-> new, next |-> 1, retry |-> retry]]
  BY <1>0, Zenon DEF SplitWith
<1>2. /\ parts \in Seq(Part) /\ (IsSingle(packets'[p], size) => Len(parts) = 1)
      /\ parts # <<>> => Tiles(parts, packets'[p])
  <2>1. PICK len \in Nat \ {0} : len = packets'[p]
    BY DEF PacketsKept
  <2> QED
    BY <2>1, PartsWhole, Zenon
<1> HIDE DEF parts
<1>3. id \in Nat /\ (id # 0 => id = splitId + 1) /\ (id = 0 /\ parts # <<>> => Len(parts) = 1)
  <2>1. splitId \in Nat
    BY Zenon DEF Types, SendTypes
  <2>2. CASE IsSingle(packets'[p], size) \/ parts = <<>>
    BY <2>2, <1>2, Zenon
  <2>3. CASE ~(IsSingle(packets'[p], size) \/ parts = <<>>)
    BY <2>1, <2>3, <1>2
  <2> QED
    BY <2>2, <2>3, Zenon
<1> HIDE DEF id
<1>4. e \in SplitType /\ e.packet = p /\ e.id = id /\ e.parts = parts
  BY <1>2, <1>3, Zenon DEF SplitType
<1> HIDE DEF e
<1>5. /\ Len(splits) \in Nat /\ new \in Nat /\ Len(splits') = new /\ splits'[new] = e
      /\ \A s \in Splits : splits'[s] = splits[s]
      /\ Splits' = Splits \cup {new} /\ new \notin Splits /\ splits' \in Seq(SplitType)
  <2>1. splits \in Seq(SplitType)
    BY Zenon DEF Types, SendTypes
  <2> QED
    BY <1>0, <1>1, <1>4, <2>1 DEF Splits
<1>6. /\ hand' = hand /\ merges' = merges /\ mergeMap' = mergeMap /\ merged' = merged
      /\ arrived' = arrived /\ swept' = swept /\ net' = net
  BY Zenon DEF receiver
<1>7. Types'
  <2>1. splitId' \in Nat
    BY <1>1, <1>3, Zenon DEF Types, SendTypes
  <2>2. writing' \in [Writers -> WriterType]
    <3>1. Idle \in WriterType /\ [split |-> new, next |-> 1, retry |-> retry] \in WriterType
      BY <1>5, Zenon DEF Idle, WriterType
    <3>2. writing \in [Writers -> WriterType]
      BY Zenon DEF Types, SendTypes
    <3> QED
      BY <1>1, <3>1, <3>2, Zenon
  <2> QED
    BY <2>1, <2>2, <1>5, <1>6, Zenon DEF Types, SendTypes, ReceiveTypes, PacketsKept
<1>8. \A s \in Splits : Frame(s)' = Frame(s) /\ Contiguous(s)' = Contiguous(s)
  <2> SUFFICES ASSUME NEW s \in Splits PROVE Frame(s)' = Frame(s) /\ Contiguous(s)' = Contiguous(s)
    BY Zenon
  <2>1. splits'[s] = splits[s] /\ packets'[splits[s].packet] = packets[splits[s].packet]
    BY <1>5, Zenon DEF IInv, Written, PacketsKept
  <2> QED
    BY <2>1, Zenon DEF Frame, Contiguous
<1>9. IdsDiffer'
  <2>1. \A s \in Splits : splits[s].id \in Nat
    BY TypeFacts, Zenon
  <2>2. splitId \in Nat /\ splitId' \in Nat /\ splitId <= splitId'
    BY <1>1, <1>3 DEF Types, SendTypes
  <2>3. \A s \in Splits : splits[s].id <= splitId /\ splits'[s].id = splits[s].id
    BY <1>5, Zenon DEF IInv, IdsDiffer
  <2>4. splits'[new].id = id /\ id <= splitId'
    BY <1>1, <1>3, <1>4, <1>5, <2>2
  <2>5. id # 0 => \A s \in Splits : splits'[s].id # id
    BY <1>3, <2>1, <2>2, <2>3
  <2>6. \A s \in Splits' : splits'[s].id <= splitId'
    <3>1. \A s \in Splits : splits'[s].id <= splitId'
      BY <2>1, <2>2, <2>3
    <3> QED
      BY <1>5, <2>4, <3>1, Zenon
  <2>7. \A s, t \in Splits' : splits'[s].id = splits'[t].id /\ splits'[s].id # 0 => s = t
    BY <1>5, <2>3, <2>4, <2>5 DEF IInv, IdsDiffer
  <2> QED
    BY <2>6, <2>7, Zenon DEF IdsDiffer
<1>10. Written'
  <2>1. \A s \in Splits : splits'[s].packet \in 1..Len(packets')
    <3>1. \A s \in Splits : splits[s].packet \in 1..Len(packets)
      BY Zenon DEF IInv, Written
    <3>2. Len(packets) \in Nat /\ Len(packets') \in Nat /\ Len(packets) <= Len(packets')
      BY DEF Types, SendTypes, PacketsKept
    <3> QED
      BY <3>1, <3>2, <1>5
  <2>2. splits'[new].packet = p /\ splits'[new].parts = parts /\ splits'[new].id = id
    BY <1>4, <1>5, Zenon
  <2>3. parts # <<>> => Contiguous(new)'
    BY <1>2, <2>2, Zenon DEF Contiguous
  <2>4. \A s \in Splits : /\ splits'[s].parts # <<>> => Contiguous(s)'
                          /\ splits'[s].id = 0 /\ splits'[s].parts # <<>> => Len(splits'[s].parts) = 1
    BY <1>5, <1>8, Zenon DEF IInv, Written
  <2>5. \A s \in Splits' :
           /\ splits'[s].packet \in 1..Len(packets')
           /\ splits'[s].parts # <<>> => Contiguous(s)'
           /\ splits'[s].id = 0 /\ splits'[s].parts # <<>> => Len(splits'[s].parts) = 1
    BY <1>3, <1>5, <2>1, <2>2, <2>3, <2>4, Zenon
  <2> QED
    BY <2>5, Zenon DEF Written
<1>11. Sent'
  BY <1>5, <1>6, <1>8, Zenon DEF IInv, Sent
<1>12. \A v \in Writers \ {w} : writing'[v] = writing[v]
  BY <1>1, Zenon DEF Types, SendTypes
<1>13. writing'[w].split # 0 =>
          /\ parts # <<>> /\ writing'[w].split = new /\ writing'[w].next = 1
  BY <1>1, Zenon DEF Types, SendTypes, Idle
<1>14. splits'[new].packet = p /\ splits'[new].parts = parts
  BY <1>4, <1>5, Zenon
<1>15. ASSUME NEW v \in Writers \ {w}, writing[v].split # 0
       PROVE  /\ writing[v].split \in Splits /\ SendingBy(v)
              /\ splits'[writing[v].split] = splits[writing[v].split]
              /\ splits[writing[v].split].packet # p
  BY <1>5, <1>15, Zenon DEF IInv, Sending, SendingBy, OpenTo
<1>16. Sending'
  <2>1. ASSUME writing'[w].split # 0 PROVE SendingBy(w)'
    <3>1. writing'[w].split \in Splits' /\ writing'[w].next \in Frame(new)'
      BY <1>2, <1>5, <1>13, <1>14, <2>1 DEF Frame
    <3>2. \A i \in Nat : Gone(new, i)'
      BY <1>5, <1>6 DEF IInv, Sent, Gone
    <3>3. \A t \in Splits' : ~(t > new)
      BY <1>0, <1>5 DEF Splits
    <3>4. \A v \in Writers \ {w} : writing'[v].split # 0 =>
             splits'[writing'[v].split].packet # p
      BY <1>12, <1>15
    <3>5. writing'[w].split = new /\ splits'[writing'[w].split].packet = p
      BY <1>13, <1>14, <2>1, Zenon
    <3> QED
      BY <3>1, <3>2, <3>3, <3>4, <3>5 DEF SendingBy, Frame
  <2>2. ASSUME NEW v \in Writers \ {w}, writing'[v].split # 0 PROVE SendingBy(v)'
    <3>1. PICK s \in Splits : s = writing[v].split
      BY <1>12, <1>15, <2>2, Zenon
    <3>2. writing'[v].split = s /\ writing'[v].next = writing[v].next
      BY <1>12, <3>1, Zenon
    <3>3. s \in Splits' /\ Frame(s)' = Frame(s) /\ splits'[s] = splits[s]
      BY <1>5, <1>8, Zenon
    <3>4. \A i : Gone(s, i)' = Gone(s, i)
      BY <1>6, Zenon DEF Gone
    <3>5. SendingBy(v) /\ splits[s].packet # p
      BY <1>12, <1>15, <2>2, <3>1, Zenon
    <3>6. \A t \in Splits' : t > s => splits'[t].packet # splits'[s].packet
      BY <1>5, <1>14, <3>1, <3>3, <3>5, Zenon DEF SendingBy
    <3>7. \A u \in Writers \ {v} : writing'[u].split # 0 =>
             splits'[writing'[u].split].packet # splits'[s].packet
      BY <1>12, <1>13, <1>14, <1>15, <3>1, <3>3, <3>5 DEF SendingBy
    <3>8. /\ writing'[v].next \in Frame(s)'
          /\ \A i \in Frame(s)' : i >= writing'[v].next => Gone(s, i)'
      BY <3>1, <3>2, <3>3, <3>4, <3>5, Zenon DEF SendingBy
    <3> QED
      BY <3>2, <3>3, <3>6, <3>7, <3>8, Zenon DEF SendingBy, Frame
  <2> QED
    BY <2>1, <2>2, Zenon DEF Sending
<1>17. GivenUp'
  <2> SUFFICES ASSUME NEW s \in Splits', NEW t \in Splits', s < t,
                      splits'[s].packet = splits'[t].packet
               PROVE  /\ splits'[s].parts # <<>> => \E i \in Frame(s)' : Gone(s, i)'
                      /\ \A v \in Writers : writing'[v].split # s
    BY Zenon DEF GivenUp
  <2>1. s \in Splits
    BY <1>0, <1>5 DEF Splits
  <2>2. splits'[s] = splits[s] /\ Frame(s)' = Frame(s) /\ \A i : Gone(s, i)' = Gone(s, i)
    BY <1>5, <1>6, <1>8, <2>1, Zenon DEF Gone
  <2>3. writing'[w].split # s
    BY <1>5, <1>13, <2>1 DEF Splits
  <2>4. CASE t \in Splits
    BY <1>5, <1>12, <2>1, <2>2, <2>3, <2>4, Zenon DEF IInv, GivenUp
  <2>5. CASE t = new
    <3>1. splits[s].packet = p
      BY <1>14, <2>2, <2>5, Zenon
    <3>2. \A v \in Writers \ {w} : writing'[v].split # s
      BY <1>12, <1>15, <3>1, <2>1 DEF Splits
    <3>3. splits[s].parts # <<>> => \E i \in Frame(s) : Gone(s, i)
      BY <2>1, <3>1, Zenon DEF OpenTo
    <3> QED
      BY <2>2, <2>3, <3>2, <3>3, Zenon
  <2> QED
    BY <1>5, <2>4, <2>5, Zenon
<1>18. ASSUME NEW r, NEW s \in Splits, MergeOf(r, s) PROVE MergeOf(r, s)'
  BY <1>5, <1>6, <1>8, <1>18, Zenon DEF MergeOf
<1>19. Merging'
  BY <1>5, <1>6, <1>18 DEF IInv, Merging
<1>20. ASSUME NEW s \in Splits PROVE /\ IsMergedSplit(s)' = IsMergedSplit(s)
                                     /\ \A m : IsMerged(m, s)' = IsMerged(m, s)
  BY <1>5, <1>6, <1>20, Zenon DEF IsMergedSplit, IsMerged
<1>21. InHand'
  <2> SUFFICES ASSUME hand.split # 0 PROVE InHand'
    BY <1>6, Zenon DEF InHand
  <2>1. PICK s \in Splits : s = hand.split
    BY Zenon DEF IInv, InHand
  <2>2. splits'[s] = splits[s] /\ Frame(s)' = Frame(s) /\ IsMergedSplit(s)' = IsMergedSplit(s)
    BY <1>5, <1>8, <1>20, Zenon
  <2> QED
    BY <1>5, <1>6, <1>18, <2>1, <2>2, Zenon DEF IInv, InHand
<1>22. Kept'
  BY <1>5, <1>6, <1>20, Zenon DEF IInv, Kept, Sent
<1>23. Returned'
  <2>1. ASSUME NEW m \in 1..Len(merged')
        PROVE  \E s \in Splits' : /\ splits'[s].parts # <<>> /\ IsMerged(m, s)'
                                  /\ \A i \in Frame(s)' : <<s, i>> \in arrived'
    BY <1>5, <1>6, <1>8, <1>20, <2>1 DEF IInv, Returned
  <2> QED
    BY <1>6, <2>1 DEF IInv, Returned
<1> QED
  BY <1>7, <1>9, <1>10, <1>11, <1>16, <1>17, <1>19, <1>21, <1>22, <1>23 DEF IInv

(* Write splits a packet that nobody has split.                              *)
LEMMA WriteStep ==
    ASSUME FragConstants, Types, IInv, NEW w \in Writers, NEW len \in Lengths, Write(w, len)
    PROVE  Types' /\ IInv'
<1>1. PICK p \in Nat : p = Len(packets) + 1
  BY TypeFacts
<1>2. len \in Nat \ {0} /\ packets' = Append(packets, len) /\ packets \in Seq(Nat \ {0})
  BY Zenon DEF FragConstants, Write, Types, SendTypes
<1>3. PacketsKept /\ p \in 1..Len(packets') /\ packets'[p] = len
  BY <1>1, <1>2 DEF PacketsKept
<1>4. \A s \in Splits : splits[s].packet # p
  BY <1>1, TypeFacts DEF IInv, Written
<1>5. OpenTo(w, p)
  BY <1>4, Zenon DEF OpenTo, IInv, Sending, SendingBy
<1>6. maxSize \in Nat /\ limit' \in Nat /\ maxSize' \in Nat /\ UNCHANGED <<net, receiver>>
  BY Zenon DEF Write, Types, SendTypes, wire
<1>7. SplitWith(w, p, packets'[p], maxSize, FALSE, splitId + 1)
  BY <1>1, <1>3, Zenon DEF Write
<1>8. PICK size \in Nat : size = maxSize
  BY <1>6, Zenon
<1> QED
  BY <1>3, <1>5, <1>6, <1>7, <1>8, SplitStep, Zenon

(* A split that is given up has a frame that was never sent.                 *)
LEMMA TooLargeStep ==
    ASSUME FragConstants, Types, IInv, NEW w \in Writers, TooLarge(w)
    PROVE  Types' /\ IInv'
<1>1. writing[w].split # 0 /\ SendingBy(w)
  BY Zenon DEF TooLarge, IInv, Sending
<1>2. PICK s \in Splits : s = writing[w].split
  BY <1>1, Zenon DEF SendingBy
<1>3. PICK p \in Nat : p = splits[s].packet
  BY TypeFacts, Zenon
<1>4. packets' = packets
  BY Zenon DEF TooLarge
<1>5. PacketsKept /\ p \in 1..Len(packets')
  BY <1>3, <1>4 DEF PacketsKept, Types, SendTypes, IInv, Written
<1>6. OpenTo(w, p)
  <2>1. ASSUME NEW t \in Splits, splits[t].packet = p, splits[t].parts # <<>>
        PROVE  \E i \in Frame(t) : Gone(t, i)
    <3>1. CASE t = s
      BY <1>1, <1>2, <3>1 DEF SendingBy, Frame
    <3>2. CASE t < s
      BY <1>3, <2>1, <3>2, Zenon DEF IInv, GivenUp
    <3>3. CASE t > s
      BY <1>1, <1>2, <1>3, <2>1, <3>3, Zenon DEF SendingBy
    <3> QED
      BY <3>1, <3>2, <3>3 DEF Splits
  <2>2. \A v \in Writers \ {w} : writing[v].split # 0 => splits[writing[v].split].packet # p
    BY <1>1, <1>2, <1>3, Zenon DEF SendingBy
  <2> QED
    BY <2>1, <2>2, Zenon DEF OpenTo
<1>7. limit \in Nat /\ limit' \in Nat /\ maxSize' \in Nat /\ UNCHANGED <<net, receiver>>
  BY Zenon DEF TooLarge, Types, SendTypes, wire
<1>8. SplitWith(w, p, packets'[p], limit, TRUE, splitId + 1)
  BY <1>2, <1>3, <1>4, Zenon DEF TooLarge, Resplit
<1>9. PICK size \in Nat : size = limit
  BY <1>7, Zenon
<1> QED
  BY <1>5, <1>6, <1>7, <1>8, <1>9, SplitStep, Zenon
-----------------------------------------------------------------------------

(* The invariant holds at the start.                                         *)
LEMMA Initially == FragConstants /\ Init => Types /\ IInv
<1> SUFFICES ASSUME FragConstants, Init PROVE Types /\ IInv
  BY Zenon
<1>1. Idle \in WriterType
  BY Zenon DEF Idle, WriterType
<1>2. SendTypes
  BY <1>1 DEF Init, SendTypes, FragConstants
<1>3. ReceiveTypes
  BY DEF Init, ReceiveTypes, Empty
<1>4. Len(splits) = 0 /\ Splits = {} /\ Len(merged) = 0 /\ 1..Len(merged) = {} /\ DOMAIN mergeMap = {}
  BY DEF Init, Splits, NoMap
<1>5. \A w \in Writers : writing[w].split = 0
  BY Zenon DEF Init, Idle
<1>6. hand.split = 0
  BY Zenon DEF Init, Empty
<1>7. net = {} /\ arrived = {}
  BY Zenon DEF Init
<1> QED
  BY <1>2, <1>3, <1>4, <1>5, <1>6, <1>7, Zenon
     DEF Types, IInv, IdsDiffer, Written, Sending, GivenUp, Sent, Merging, InHand, Kept, Returned

(* Every step keeps the invariant.                                           *)
LEMMA Inductive == FragConstants /\ Types /\ IInv /\ [Next]_vars => Types' /\ IInv'
<1> SUFFICES ASSUME FragConstants, Types, IInv, [Next]_vars PROVE Types' /\ IInv'
  BY Zenon
<1>1. CASE UNCHANGED vars
  <2>1. UNCHANGED <<wire, sender, receiver>>
    BY <1>1, Zenon DEF vars
  <2>2. Types' /\ Sent'
    BY <2>1, Zenon DEF Types, SendTypes, ReceiveTypes, IInv, Sent, Splits, Frame, wire, sender, receiver
  <2>3. IdsDiffer' /\ Written' /\ Sending' /\ GivenUp'
    BY <2>1, SenderKept, Zenon DEF wire, receiver
  <2>4. Merging' /\ InHand' /\ Kept' /\ Returned'
    BY <2>1, ReceiverKept, Zenon DEF sender
  <2> QED
    BY <2>2, <2>3, <2>4, Zenon DEF IInv
<1>2. ASSUME NEW w \in Writers, NEW len \in Lengths, Write(w, len) PROVE Types' /\ IInv'
  BY <1>2, WriteStep, Zenon
<1>3. ASSUME NEW w \in Writers, Send(w) \/ TooLarge(w) \/ SendFails(w) PROVE Types' /\ IInv'
  BY <1>3, SendStep, TooLargeStep, SendFailsStep, Zenon
<1>4. ASSUME (\E l \in Limits : Probe(l)) \/ (\E d \in net : Lose(d)) PROVE Types' /\ IInv'
  BY <1>4, NetworkStep, Zenon
<1>5. ASSUME NEW d \in net, ReceiveSingle(d) \/ Receive(d) PROVE Types' /\ IInv'
  BY <1>5, ReceiveSingleStep, ReceiveStep, Zenon
<1>6. ASSUME NEW id \in DOMAIN mergeMap, Sweep(id) PROVE Types' /\ IInv'
  BY <1>6, SweepStep, Zenon
<1>7. ASSUME Fill PROVE Types' /\ IInv'
  BY <1>7, FillStep, Zenon
<1> QED
  BY <1>1, <1>2, <1>3, <1>4, <1>5, <1>6, <1>7, Zenon DEF Next

(* The invariant implies the property.                                       *)
LEMMA Implied == Types /\ IInv => PacketsWhole
<1> SUFFICES ASSUME Types, IInv PROVE PacketsWhole
  BY Zenon
<1>1. ASSUME NEW m \in 1..Len(merged)
      PROVE  \E s \in Splits : /\ splits[s].parts # <<>> /\ IsMerged(m, s) /\ Contiguous(s)
                               /\ merged[m][1] = s /\ \A i \in Frame(s) : <<s, i>> \in arrived
  BY MergedOnce, Zenon DEF IInv, Returned, Written
<1>2. ASSUME NEW m \in 1..Len(merged), NEW n \in 1..Len(merged), m # n
      PROVE  splits[merged[m][1]].packet # splits[merged[n][1]].packet
  <2>1. PICK s \in Splits : /\ splits[s].parts # <<>> /\ merged[m][1] = s
                            /\ \A i \in Frame(s) : <<s, i>> \in arrived
    BY <1>1, Zenon
  <2>2. PICK t \in Splits : /\ splits[t].parts # <<>> /\ merged[n][1] = t
                            /\ \A i \in Frame(t) : <<t, i>> \in arrived
    BY <1>1, Zenon
  <2>3. s # t
    BY <1>2, <2>1, <2>2, Zenon DEF IInv, Returned
  <2>4. ASSUME NEW x \in Splits, NEW y \in Splits, x < y, splits[x].packet = splits[y].packet,
               splits[x].parts # <<>>, \A i \in Frame(x) : <<x, i>> \in arrived
        PROVE  FALSE
    BY <2>4, Zenon DEF IInv, GivenUp, Gone
  <2>5. s < t \/ t < s
    BY <2>3 DEF Splits
  <2> QED
    BY <2>1, <2>2, <2>4, <2>5, Zenon
<1>3. ASSUME NEW s \in Splits, splits[s].parts # <<>>, hand.split = 0, splits[s].id \notin swept,
             \A i \in Frame(s) : <<s, i>> \in arrived
      PROVE  IsMergedSplit(s)
  <2> SUFFICES ASSUME ~IsMergedSplit(s) PROVE FALSE
    BY Zenon
  <2>1. ASSUME NEW i \in Frame(s)
        PROVE  splits[s].id \in DOMAIN mergeMap /\ i \in DOMAIN merges[mergeMap[splits[s].id]].data
    <3>1. PICK d \in arrived : d = <<s, i>>
      BY <1>3, Zenon
    <3>2. d[1] = s /\ d[2] = i /\ hand.split # s
      BY <1>3, <3>1 DEF Splits
    <3> QED
      BY <1>3, <3>2, Zenon DEF IInv, Kept
  <2>2. PICK n \in Nat : n = Len(splits[s].parts) /\ n # 0 /\ Frame(s) = 1..n
    <3>1. splits[s].parts \in Seq(Part)
      BY TypeFacts, Zenon
    <3> QED
      BY <1>3, <3>1 DEF Frame
  <2>3. 1 \in Frame(s) /\ splits[s].id \in DOMAIN mergeMap
    <3>1. 1 \in Frame(s)
      BY <2>2
    <3> QED
      BY <2>1, <3>1, Zenon
  <2>4. PICK r : r = mergeMap[splits[s].id]
    BY Zenon
  <2>5. MergeOf(r, s) /\ merges[r].count < merges[r].total
    <3>1. PICK t \in Splits : splits[t].id = splits[s].id /\ MergeOf(r, t)
      BY <2>3, <2>4, Zenon DEF IInv, Merging
    <3>2. splits[t].id # 0
      BY <3>1, Zenon DEF MergeOf
    <3>3. t = s
      BY <3>1, <3>2, Zenon DEF IInv, IdsDiffer
    <3> QED
      BY <2>3, <2>4, <3>1, <3>3, Zenon DEF IInv, Merging
  <2>6. DOMAIN merges[r].data = 1..n
    BY <2>1, <2>2, <2>4, <2>5, ZenonT(40) DEF MergeOf
  <2>7. merges[r].total = n /\ merges[r].count = Cardinality(1..n)
    BY <2>2, <2>5, <2>6 DEF MergeOf
  <2>8. Cardinality(1..n) = n
    <3>1. 1 \in Int /\ n \in Int
      OBVIOUS
    <3>2. Cardinality(1..n) = IF 1 > n THEN 0 ELSE n - 1 + 1
      BY <3>1, FS_Interval, Zenon
    <3> QED
      BY <3>2, <2>2
  <2> QED
    BY <2>5, <2>7, <2>8
<1>4. Intact
  BY <1>1, <1>2, Zenon DEF Intact, Splits
<1>5. Complete
  BY <1>3, Zenon DEF Complete, Splits, Frame, IsMergedSplit
<1> QED
  BY <1>4, <1>5, Zenon DEF PacketsWhole

(* Whatever the writers send, and whatever the network loses or reorders,    *)
(* Merge returns whole packets, each at most once, and every packet that has *)
(* arrived and was not swept (frag.go).                                      *)
THEOREM Reassembly == Spec => []PacketsWhole
<1>1. Init => Types /\ IInv
  BY FragAssumption, Initially, Zenon
<1>2. Types /\ IInv /\ [Next]_vars => (Types /\ IInv)'
  BY FragAssumption, Inductive, Zenon
<1>3. Types /\ IInv => PacketsWhole
  BY Implied, Zenon
<1> QED
  BY <1>1, <1>2, <1>3, PTL DEF Spec
=============================================================================
