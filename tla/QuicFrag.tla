------------------------------ MODULE QuicFrag ------------------------------
(* UDP packets over the datagrams of a QUIC connection                       *)
(* (net/proxy/quic/frag.go).  Writers that share a connection split what is  *)
(* too large for a datagram, datagrams are lost and reordered (QUIC itself   *)
(* drops duplicates), the one receiver of the connection puts the packets    *)
(* together again and a timer throws incomplete ones away.  A packet is a    *)
(* number and a length; byte b of packet p is never looked at, so a payload  *)
(* is an interval of its bytes.                                              *)
EXTENDS Naturals, Sequences, FiniteSets

CONSTANTS
    Writers,      \* goroutines in ConnectionPacketConn.Write
    Lengths,      \* of packets, with the eight bytes of their id
    Limits,       \* what the connection may allow for a datagram
    FirstSize,    \* 1280
    HeaderSize,   \* 1 + 8 + 1 + 1
    MaxFrames,    \* math.MaxUint8
    MaxPackets    \* bound on the packets written

FragConstants ==
    /\ Lengths \subseteq Nat \ {0} /\ Limits \subseteq Nat /\ FirstSize \in Nat
    /\ HeaderSize \in Nat \ {0} /\ MaxFrames \in Nat /\ MaxPackets \in Nat
ASSUME FragAssumption == FragConstants

VARIABLES
    limit,       \* the connection's own limit now
    maxSize,     \* MaxDatagramFrameSize
    splitId,     \* Frag.SplitID
    packets,     \* history: the length of every packet written
    splits,      \* history: every result of Split: packet, id on the wire, parts
    writing,     \* per writer: the split it is sending (0: none), how far, and retry
    net,         \* datagrams under way: <<split, index>>
    hand,        \* the receiver: the datagram (split 0: none) and the merge it found
    merges,      \* every MergeFrag made: Total, Data (as index to split) and Count
    mergeMap,    \* Frag.mergeMap: ids to merges
    merged,      \* history: what Merge returned, as index to split
    arrived,     \* history: the datagrams received
    swept        \* history: the ids whose merge the timer threw away

wire == <<limit, net>>
sender == <<maxSize, splitId, packets, splits, writing>>
receiver == <<hand, merges, mergeMap, merged, arrived, swept>>
vars == <<wire, sender, receiver>>

Idle == [split |-> 0, next |-> 0, retry |-> FALSE]
Empty == [split |-> 0, index |-> 0, merge |-> 0]
NoMap == [i \in {} |-> 0]
Without(f, x) == [y \in DOMAIN f \ {x} |-> f[y]]
With(f, x, v) == [y \in DOMAIN f \cup {x} |-> IF y = x THEN v ELSE f[y]]

Init ==
    /\ limit \in Limits /\ maxSize = FirstSize
    /\ splitId = 0 /\ packets = <<>> /\ splits = <<>>
    /\ writing = [w \in Writers |-> Idle] /\ net = {}
    /\ hand = Empty /\ merges = <<>> /\ mergeMap = NoMap /\ merged = <<>>
    /\ arrived = {} /\ swept = {}
-----------------------------------------------------------------------------
(* Split: one frame of its own type, or intervals of equal size and a last   *)
(* one with the rest; nothing when there is no room or there would be too    *)
(* many.                                                                     *)
IsSingle(len, size) == HeaderSize < size /\ len < size - 1
Frames(len, body) == len \div body + (IF len % body = 0 THEN 0 ELSE 1)
Intervals(len, body, frames) ==
    [i \in 1..frames |-> [from |-> (i - 1) * body, to |-> IF i = frames THEN len ELSE i * body]]
Parts(len, size) ==
    IF IsSingle(len, size) THEN Intervals(len, len, 1)
    ELSE IF size <= HeaderSize \/ Frames(len, size - HeaderSize) > MaxFrames THEN <<>>
    ELSE Intervals(len, size - HeaderSize, Frames(len, size - HeaderSize))

(* NewFragFrameBytesBuffer: the bytes a frame takes; a single one has no id. *)
Size(s, i) ==
    splits[s].parts[i].to - splits[s].parts[i].from + (IF splits[s].id = 0 THEN 1 ELSE HeaderSize)

(* w begins to send packet p of some length in datagrams of a size.          *)
SplitWith(w, p, len, size, retry, taken) ==
    LET parts == Parts(len, size)
        id == IF IsSingle(len, size) \/ parts = <<>> THEN 0 ELSE taken
    IN  /\ splits' = Append(splits, [packet |-> p, id |-> id, parts |-> parts])
        /\ splitId' = IF id = 0 THEN splitId ELSE id
        /\ writing' = [writing EXCEPT ![w] =
              IF parts = <<>> THEN Idle
              ELSE [split |-> Len(splits) + 1, next |-> 1, retry |-> retry]]
ResplitSameId(w, p, size) == SplitWith(w, p, packets[p], size, TRUE, splitId)  \* mutant
Resplit(w, p, size) == SplitWith(w, p, packets[p], size, TRUE, splitId + 1)

Write(w, len) ==
    /\ writing[w].split = 0 /\ Len(packets) < MaxPackets
    /\ packets' = Append(packets, len)
    /\ SplitWith(w, Len(packets) + 1, len, maxSize, FALSE, splitId + 1)
    /\ UNCHANGED <<wire, maxSize, receiver>>

Fits(w) == Size(writing[w].split, writing[w].next) <= limit

(* SendDatagram takes a frame; after the last one write returns.             *)
Send(w) ==
    /\ writing[w].split # 0 /\ Fits(w)
    /\ net' = net \cup {<<writing[w].split, writing[w].next>>}
    /\ writing' = [writing EXCEPT ![w] =
          IF writing[w].next = Len(splits[writing[w].split].parts) THEN Idle
          ELSE [writing[w] EXCEPT !.next = writing[w].next + 1]]
    /\ UNCHANGED <<limit, maxSize, splitId, packets, splits, receiver>>

(* DatagramTooLargeError: the limit is kept, and the packet split anew once. *)
TooLarge(w) ==
    /\ writing[w].split # 0 /\ ~Fits(w) /\ ~writing[w].retry
    /\ maxSize' = limit
    /\ Resplit(w, splits[writing[w].split].packet, limit)
    /\ UNCHANGED <<wire, packets, receiver>>

(* The second time, or for another error, write returns it.                  *)
SendFails(w) ==
    /\ writing[w].split # 0
    /\ writing' = [writing EXCEPT ![w] = Idle]
    /\ UNCHANGED <<wire, maxSize, splitId, packets, splits, receiver>>
-----------------------------------------------------------------------------
(* The path of the connection changes.                                       *)
Probe(l) ==
    /\ limit' = l /\ l # limit
    /\ UNCHANGED <<net, sender, receiver>>

Lose(d) ==
    /\ net' = net \ {d}
    /\ UNCHANGED <<limit, sender, receiver>>
-----------------------------------------------------------------------------
(* Merge of a single frame returns it.                                       *)
ReceiveSingle(d) ==
    /\ hand.split = 0 /\ splits[d[1]].id = 0
    /\ net' = net \ {d} /\ arrived' = arrived \cup {d}
    /\ merged' = Append(merged, [i \in {1} |-> d[1]])
    /\ UNCHANGED <<limit, sender, hand, merges, mergeMap, swept>>

(* Merge of another one looks its id up, and drops the merge when it         *)
(* disagrees about the number of frames.                                     *)
Agrees(d) ==
    LET id == splits[d[1]].id
    IN  id \in DOMAIN mergeMap => merges[mergeMap[id]].total = Len(splits[d[1]].parts)
Receive(d) ==
    /\ hand.split = 0 /\ splits[d[1]].id # 0
    /\ net' = net \ {d} /\ arrived' = arrived \cup {d}
    /\ LET id == splits[d[1]].id
       IN  /\ hand' = IF ~Agrees(d) THEN Empty
                      ELSE [split |-> d[1], index |-> d[2],
                            merge |-> IF id \in DOMAIN mergeMap THEN mergeMap[id] ELSE 0]
           /\ mergeMap' = IF Agrees(d) THEN mergeMap ELSE Without(mergeMap, id)
    /\ UNCHANGED <<limit, sender, merges, merged, swept>>

(* The rest of Merge: a new merge is stored if none was found, the frame is  *)
(* put into its place and counted, and the last one makes the packet.        *)
Found ==
    IF hand.merge # 0 THEN merges[hand.merge]
    ELSE [total |-> Len(splits[hand.split].parts), data |-> NoMap, count |-> 0]
Filled ==
    [total |-> Found.total, data |-> With(Found.data, hand.index, hand.split),
     count |-> Found.count + 1]
Fill ==
    /\ hand.split # 0 /\ hand' = Empty
    /\ LET id == splits[hand.split].id
           full == Filled.count = Filled.total
       IN  /\ merges' = IF hand.merge # 0 THEN [merges EXCEPT ![hand.merge] = Filled]
                        ELSE Append(merges, Filled)
           /\ merged' = IF full THEN Append(merged, Filled.data) ELSE merged
           /\ mergeMap' = IF full THEN Without(mergeMap, id)
                          ELSE IF hand.merge # 0 THEN mergeMap
                          ELSE With(mergeMap, id, Len(merges) + 1)
    /\ UNCHANGED <<wire, sender, arrived, swept>>

(* The timer of NewConnectionPacketConn finds a merge older than 30 seconds. *)
Sweep(id) ==
    /\ mergeMap' = Without(mergeMap, id)
    /\ swept' = swept \cup {id}
    /\ UNCHANGED <<wire, sender, hand, merges, merged, arrived>>

Next ==
    \/ \E w \in Writers : \/ \E len \in Lengths : Write(w, len)
                          \/ Send(w) \/ TooLarge(w) \/ SendFails(w)
    \/ \E l \in Limits : Probe(l)
    \/ \E d \in net : Lose(d) \/ ReceiveSingle(d) \/ Receive(d)
    \/ Fill
    \/ \E id \in DOMAIN mergeMap : Sweep(id)

Spec == Init /\ [][Next]_vars
-----------------------------------------------------------------------------
(* The parts follow each other and make up a packet of length len.           *)
Tiles(parts, len) ==
    /\ parts # <<>> /\ parts[1].from = 0 /\ parts[Len(parts)].to = len
    /\ \A i \in 1..Len(parts) : parts[i].from < parts[i].to
    /\ \A i \in 2..Len(parts) : parts[i].from = parts[i - 1].to
Contiguous(s) == Tiles(splits[s].parts, packets[splits[s].packet])

(* Merge returned all parts of s, each in its place, and no others.          *)
IsMerged(m, s) == merged[m] = [i \in 1..Len(splits[s].parts) |-> s]

(* What Merge returns is one packet as it was written, with all its bytes in *)
(* order, and no packet is returned twice, although a packet may be split    *)
(* twice while its first frames are under way (frag.go:197) and datagrams    *)
(* are lost and overtake each other.                                         *)
Intact ==
    /\ \A m \in 1..Len(merged) :
          \E s \in 1..Len(splits) : IsMerged(m, s) /\ Contiguous(s)
    /\ \A m, n \in 1..Len(merged) :
          m # n => splits[merged[m][1]].packet # splits[merged[n][1]].packet

(* A packet of which every datagram has arrived is returned, unless the      *)
(* timer threw its beginning away (frag.go:140).                             *)
Complete ==
    \A s \in 1..Len(splits) :
        /\ splits[s].parts # <<>> /\ hand.split = 0 /\ splits[s].id \notin swept
        /\ \A i \in 1..Len(splits[s].parts) : <<s, i>> \in arrived
        => \E m \in 1..Len(merged) : IsMerged(m, s)

(* Packets that were split arrive whole and once, and no complete one is     *)
(* kept back (net/proxy/quic/frag.go:33).                                    *)
PacketsWhole == Intact /\ Complete
=============================================================================
