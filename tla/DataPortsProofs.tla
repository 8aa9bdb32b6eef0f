--------------------------- MODULE DataPortsProofs ---------------------------
(***************************************************************************)
(* What the walk over the ports of a device returns, for every list of     *)
(* ports that is sorted and does not overlap, and every write: lemmas for  *)
(* the bus and for the board.                                              *)
(*                                                                         *)
(* The walk is a recursive function; it is shown to exist, and its loop    *)
(* invariant to hold, by induction.                                        *)
(***************************************************************************)
EXTENDS DataPorts, InductionProofs

(* The walk                                                                *)

HitType == [port : PortType, skip : Nat, over : Nat, bytes : Nat]

State == [at : Nat, left : Nat, over : Nat, hits : Seq(HitType)]

(* Ports as mmap_device has them: sorted, and none overlaps the next.      *)
Sorted(ports) ==
  \A i \in 2..Len(ports) :
    ports[i - 1].offset + ports[i - 1].size <= ports[i].offset

(* An iteration leaves a state, one with a hit more if there is one.       *)
LEMMA StepType ==
  ASSUME NEW s \in State, NEW p \in PortType
  PROVE  /\ Step(s, p) \in State
         /\ s.left > 0 /\ s.at \in PortBytes(p) =>
              /\ Consumed(p, s) \in 1..s.left
              /\ s.at - p.offset + Consumed(p, s) <= p.size
              /\ \/ s.at - p.offset + Consumed(p, s) = p.size
                 \/ Consumed(p, s) = s.left
              /\ Hit(p, s, Consumed(p, s)) \in HitType
  <1>1. CASE s.left > 0 /\ s.at \in PortBytes(p)
    <2>1. /\ p.offset \in Nat /\ p.size \in {1, 2, 4}
          /\ s.at \in Nat /\ s.left \in Nat /\ s.over \in Nat
          /\ s.hits \in Seq(HitType)
      BY DEF State, PortType, Width
    <2>2. s.at >= p.offset /\ s.at < p.offset + p.size /\ s.left > 0
      BY <1>1, <2>1 DEF PortBytes
    <2> DEFINE rest == p.offset + p.size - s.at
    <2>0. rest \in 1..p.size
      BY <2>1, <2>2, SMTT(30)
    <2>3. /\ Consumed(p, s) = IF rest < s.left THEN rest ELSE s.left
          /\ s.at - p.offset = p.size - rest
      BY <2>1 DEF Consumed
    <2> HIDE DEF rest
    <2>a. /\ Consumed(p, s) \in 1..s.left
          /\ s.at - p.offset + Consumed(p, s) <= p.size
          /\ \/ s.at - p.offset + Consumed(p, s) = p.size
             \/ Consumed(p, s) = s.left
      BY <2>0, <2>1, <2>2, <2>3
    <2>4. Hit(p, s, Consumed(p, s)) \in HitType
      BY <2>1, <2>2, <2>a DEF Hit, HitType
    <2>5. Append(s.hits, Hit(p, s, Consumed(p, s))) \in Seq(HitType)
      BY <2>1, <2>4
    <2>6. Step(s, p) \in State
      <3>1. /\ p.offset + p.size \in Nat /\ s.left - Consumed(p, s) \in Nat
            /\ s.over + Consumed(p, s) \in Nat
        BY <2>1, <2>a
      <3> QED
        BY <1>1, <2>5, <3>1 DEF Step, State
    <2> QED
      BY <2>4, <2>6, <2>a
  <1>2. CASE ~(s.left > 0 /\ s.at \in PortBytes(p))
    BY <1>2 DEF Step
  <1> QED
    BY <1>1, <1>2

(* The recursive function of Scan exists, so that Scan is the last of the  *)
(* states of the loop.                                                     *)
LEMMA ScanStates ==
  ASSUME NEW ports \in Seq(PortType), NEW offset \in Nat, NEW n \in Nat
  PROVE  \E f \in [0..Len(ports) -> State] :
           /\ f[0] = Begin(offset, n)
           /\ \A i \in 1..Len(ports) : f[i] = Step(f[i - 1], ports[i])
           /\ Scan(ports, offset, n) = f[Len(ports)]
  <1> DEFINE N == Len(ports)
             G == [i \in 1..N |-> [s \in State |-> Step(s, ports[i])]]
  <1>1. N \in Nat /\ Begin(offset, n) \in State
    BY DEF Begin, State
  <1>2. G \in [1..N -> [State -> State]]
    <2>1. ASSUME NEW i \in 1..N, NEW s \in State PROVE Step(s, ports[i]) \in State
      BY StepType
    <2> QED
      BY <2>1
  <1>3. PICK f \in [0..N -> State] :
          f[0] = Begin(offset, n) /\ \A i \in 1..N : f[i] = G[i][f[i - 1]]
    <2> DEFINE a == Begin(offset, n)
    <2>1. N \in Nat /\ a \in State /\ G \in [1..N -> [State -> State]]
      BY <1>1, <1>2
    <2> HIDE DEF G, N, a
    <2>2. \E f \in [0..N -> State] : Iterates(f, N, a, G)
      BY <2>1, Iteration
    <2> QED
      BY <2>2 DEF a, Iterates
  <1>4. ASSUME NEW i \in 1..N PROVE f[i] = Step(f[i - 1], ports[i])
    <2>1. f[i - 1] \in State
      BY <1>1
    <2> QED
      BY <1>3, <2>1
  <1> DEFINE Follows(g) == g = [i \in 0..N |-> IF i = 0 THEN Begin(offset, n)
                                               ELSE Step(g[i - 1], ports[i])]
  <1>5. Follows(f)
    <2>1. f = [i \in 0..N |-> f[i]]
      OBVIOUS
    <2> HIDE DEF G
    <2>2. [i \in 0..N |-> f[i]]
            = [i \in 0..N |-> IF i = 0 THEN Begin(offset, n)
                               ELSE Step(f[i - 1], ports[i])]
      BY <1>3, <1>4
    <2> QED
      BY <2>1, <2>2
  <1> DEFINE after == CHOOSE g : Follows(g)
  <1>6. Follows(after)
    <2> HIDE DEF Follows
    <2> QED
      BY <1>5
  <1>7. /\ Scan(ports, offset, n) = after[N]
        /\ after[0] = Begin(offset, n)
        /\ \A i \in 1..N : after[i] = Step(after[i - 1], ports[i])
    <2>1. Scan(ports, offset, n) = after[N]
      BY DEF Scan
    <2> HIDE DEF after
    <2> QED
      BY <1>1, <1>6, <2>1
  <1>8. after \in [0..N -> State]
    <2> DEFINE T == {i \in 0..N : after[i] \in State}
    <2>1. 0 \in T
      BY <1>1, <1>7
    <2>2. ASSUME NEW i \in 1..N, i - 1 \in T PROVE i \in T
      BY <1>7, <2>2, StepType
    <2>3. 0..N \subseteq T
      <3> HIDE DEF T, N
      <3> QED
        BY <1>1, <2>1, <2>2, Upwards
    <2>4. after = [i \in 0..N |-> after[i]]
      <3> HIDE DEF after
      <3> QED
        BY <1>6
    <2> QED
      BY <2>3, <2>4
  <1> HIDE DEF after
  <1> QED
    BY <1>7, <1>8
-----------------------------------------------------------------------------
(* The loop invariant                                                      *)

Written(offset, n) == offset..(offset + n - 1)

(* The port is written, and all the bytes written before it are in ports.  *)
InReach(ports, offset, n, p) ==
  /\ PortBytes(p) \cap Written(offset, n) # {}
  /\ \A b \in Written(offset, n) :
       b < p.offset => \E j \in 1..Len(ports) : b \in PortBytes(ports[j])

(* A hit among the first k ports: it starts where the walk was, at the     *)
(* first byte of the write or of the port, and ends with one of the two.   *)
GoodHit(ports, offset, n, k, h) ==
  /\ \E i \in 1..k : h.port = ports[i]
  /\ h.skip = offset + h.over - h.port.offset
  /\ h.bytes >= 1 /\ h.skip + h.bytes <= h.port.size /\ h.over + h.bytes <= n
  /\ h.over = 0 \/ h.skip = 0
  /\ h.skip + h.bytes = h.port.size \/ h.over + h.bytes = n

(* The walk has consumed a prefix of the write, which is all in ports.     *)
Prefix(ports, offset, n, k, s) ==
  /\ s.left + s.over = n
  /\ s.left > 0 => s.at = offset + s.over
  /\ s.left > 0 => \A i \in 1..k : s.at \notin PortBytes(ports[i])
  /\ s.left > 0 /\ s.over > 0 =>
       \A i \in (k + 1)..Len(ports) : s.at <= ports[i].offset
  /\ \A b \in Written(offset, s.over) :
       \E i \in 1..k : b \in PortBytes(ports[i])

(* The hits are the ports in reach, in address order.                      *)
HitsMade(ports, offset, n, k, s) ==
  /\ \A i \in 1..Len(s.hits) : GoodHit(ports, offset, n, k, s.hits[i])
  /\ \A i, j \in 1..Len(s.hits) :
       i < j => s.hits[i].port.offset < s.hits[j].port.offset
  /\ \A i \in 1..k :
       (\E j \in 1..Len(s.hits) : s.hits[j].port = ports[i])
         <=> InReach(ports, offset, n, ports[i])

LEMMA PortOf ==
  ASSUME NEW p \in PortType
  PROVE  /\ p.offset \in Nat /\ p.size \in {1, 2, 4}
         /\ p.size \in Nat /\ p.size >= 1
         /\ p.offset + p.size \in Nat /\ p.offset < p.offset + p.size
  <1>1. p.offset \in Nat /\ p.size \in {1, 2, 4}
    BY DEF PortType, Width
  <1> QED
    BY <1>1

LEMMA ByteOf ==
  ASSUME NEW p \in PortType, NEW b
  PROVE  b \in PortBytes(p)
           <=> b \in Nat /\ p.offset <= b /\ b < p.offset + p.size
  <1>1. p.offset \in Nat /\ p.size \in Nat
    BY PortOf
  <1> QED
    BY <1>1 DEF PortBytes

LEMMA WrittenByte ==
  ASSUME NEW offset \in Nat, NEW n \in Nat, NEW b
  PROVE  b \in Written(offset, n)
           <=> b \in Nat /\ offset <= b /\ b < offset + n
  BY DEF Written

(* Of sorted ports, each ends before any later one starts.                 *)
LEMMA SortedPorts ==
  ASSUME NEW ports \in Seq(PortType), Sorted(ports)
  PROVE  \A i, j \in 1..Len(ports) :
           i < j => ports[i].offset + ports[i].size <= ports[j].offset
  <1> DEFINE N == Len(ports)
             T == {k \in 0..N : \A i \in 1..(k - 1) :
                     ports[i].offset + ports[i].size <= ports[k].offset}
  <1>1. N \in Nat /\ 0 \in T
    OBVIOUS
  <1>2. \A i \in 1..N : /\ ports[i].offset \in Nat /\ ports[i].size \in {1, 2, 4}
                          /\ ports[i].offset + ports[i].size \in Nat
                          /\ ports[i].offset < ports[i].offset + ports[i].size
    <2>1. \A i \in 1..N : ports[i] \in PortType
      OBVIOUS
    <2> QED
      BY <2>1, PortOf
  <1>3. ASSUME NEW k \in 1..N, k - 1 \in T PROVE k \in T
    <2>1. ASSUME NEW i \in 1..(k - 1)
          PROVE  ports[i].offset + ports[i].size <= ports[k].offset
      <3>1. k \in 2..N /\ i \in 1..N /\ k - 1 \in 1..N
        OBVIOUS
      <3>2. ports[k - 1].offset + ports[k - 1].size <= ports[k].offset
        BY <3>1 DEF Sorted
      <3>3. CASE i = k - 1
        BY <3>2, <3>3
      <3>4. CASE i # k - 1
        <4>1. ports[i].offset + ports[i].size <= ports[k - 1].offset
          BY <1>3, <3>4
        <4> HIDE DEF T, N
        <4> QED
          BY <4>1, <3>1, <3>2, <1>2, SMTT(30)
      <3> QED
        BY <3>3, <3>4
    <2> QED
      BY <2>1
  <1>4. 0..N \subseteq T
    <2> HIDE DEF T, N
    <2> QED
      BY <1>1, <1>3, Upwards
  <1> QED
    BY <1>4

(* An iteration that hits its port keeps the invariant.                    *)
LEMMA HitStep ==
  ASSUME NEW ports \in Seq(PortType), Sorted(ports),
         NEW offset \in Nat, NEW n \in Nat,
         NEW k \in 1..Len(ports), NEW s \in State,
         Prefix(ports, offset, n, k - 1, s),
         HitsMade(ports, offset, n, k - 1, s),
         s.left > 0, s.at \in PortBytes(ports[k])
  PROVE  /\ Prefix(ports, offset, n, k, Step(s, ports[k]))
         /\ HitsMade(ports, offset, n, k, Step(s, ports[k]))
  <1> DEFINE N == Len(ports)
             p == ports[k]
             bytes == Consumed(p, s)
             hit == Hit(p, s, bytes)
             t == Step(s, p)
  <1>1. /\ p \in PortType
        /\ \A i \in 1..N : /\ ports[i].offset \in Nat /\ ports[i].size \in Nat
                           /\ ports[i].size >= 1
    <2>1. \A i \in 1..N : ports[i] \in PortType
      OBVIOUS
    <2> QED
      BY <2>1, PortOf
  <1>2. \A i, j \in 1..N :
          i < j => ports[i].offset + ports[i].size <= ports[j].offset
    BY SortedPorts
  <1>3. /\ s.at \in Nat /\ s.left \in Nat /\ s.over \in Nat
        /\ s.hits \in Seq(HitType)
    BY DEF State
  <1>4. /\ bytes \in 1..s.left /\ s.at - p.offset + bytes <= p.size
        /\ s.at - p.offset + bytes = p.size \/ bytes = s.left
        /\ hit \in HitType
    BY <1>1, StepType
  <1>5. t = [at |-> p.offset + p.size, left |-> s.left - bytes,
             over |-> s.over + bytes, hits |-> Append(s.hits, hit)]
    BY DEF Step
  <1>6. /\ p.offset \in Nat /\ p.size \in Nat /\ p.size >= 1
        /\ s.at >= p.offset /\ s.at < p.offset + p.size
    BY <1>1, <1>3, SMTT(30) DEF PortBytes
  <1>7. /\ s.left + s.over = n /\ s.at = offset + s.over
        /\ \A i \in 1..(k - 1) : s.at \notin PortBytes(ports[i])
        /\ s.over > 0 => s.at <= p.offset
        /\ \A b \in Written(offset, s.over) :
             \E i \in 1..(k - 1) : b \in PortBytes(ports[i])
    <2>1. k \in ((k - 1) + 1)..N
      OBVIOUS
    <2> HIDE DEF N, p
    <2> QED
      BY <2>1 DEF Prefix, p, N
  <1>e. /\ bytes \in Nat /\ s.at + bytes <= p.offset + p.size
        /\ s.at + bytes = p.offset + p.size \/ bytes = s.left
    <2> HIDE DEF bytes, hit, p
    <2>1. bytes \in Nat
      BY <1>3, <1>4
    <2> QED
      BY <2>1, <1>3, <1>4, <1>6, SMTT(30)
  <1>f. /\ t.at = p.offset + p.size /\ t.left = s.left - bytes
        /\ t.over = s.over + bytes
    BY <1>5
  <1>8. Prefix(ports, offset, n, k, t)
    <2>1. t.left + t.over = n
      BY <1>3, <1>4, <1>5, <1>7, SMTT(30)
    <2>2. t.left > 0 => t.at = offset + t.over
      <3> HIDE DEF bytes, hit, t, p
      <3>1. CASE bytes = s.left
        BY <3>1, <1>3, <1>f
      <3>2. CASE s.at + bytes = p.offset + p.size
        BY <3>2, <1>3, <1>e, <1>f, <1>6, <1>7
      <3> QED
        BY <3>1, <3>2, <1>e
    <2>3. \A i \in 1..k : t.at \notin PortBytes(ports[i])
      <3> HIDE DEF bytes, hit, t
      <3>1. ASSUME NEW i \in 1..k
            PROVE  t.at \notin PortBytes(ports[i])
        <4>1. i \in 1..N
          OBVIOUS
        <4>2. ports[i].offset + ports[i].size <= t.at
          <5>1. CASE i = k
            BY <5>1, <1>f, <1>6
          <5>2. CASE i # k
            <6>1. ports[i].offset + ports[i].size <= p.offset
              BY <5>2, <1>2
            <6> HIDE DEF p
            <6> QED
              BY <4>1, <6>1, <1>1, <1>6, <1>f, SMTT(30)
          <5> QED
            BY <5>1, <5>2
        <4> QED
          BY <4>1, <4>2, <1>1, <1>6, <1>f, SMTT(30) DEF PortBytes
      <3> QED
        BY <3>1
    <2>4. \A i \in (k + 1)..N : t.at <= ports[i].offset
      BY <1>2, <1>5
    <2>5. ASSUME NEW b \in Written(offset, t.over)
          PROVE  \E i \in 1..k : b \in PortBytes(ports[i])
      <3>1. CASE b < offset + s.over
        <4>1. b \in Written(offset, s.over)
          BY <3>1, <1>3 DEF Written
        <4> QED
          BY <4>1, <1>7
      <3>2. CASE b >= offset + s.over
        <4> HIDE DEF bytes, hit, t
        <4>1. b \in PortBytes(p)
          <5> HIDE DEF p
          <5>1. b \in Nat /\ b < offset + (s.over + bytes)
            BY <1>3, <1>4, <1>f DEF Written
          <5>2. s.at <= b /\ b < s.at + bytes
            BY <5>1, <3>2, <1>3, <1>4, <1>7
          <5>3. p.offset <= b /\ b < p.offset + p.size
            BY <5>1, <5>2, <1>3, <1>e, <1>6, SMTT(30)
          <5> QED
            BY <5>1, <5>3, <1>6 DEF PortBytes
        <4> QED
          BY <4>1
      <3> QED
        BY <3>1, <3>2, <1>3 DEF Written
    <2> HIDE DEF t
    <2> QED
      BY <2>1, <2>2, <2>3, <2>4, <2>5 DEF Prefix
  <1>9. GoodHit(ports, offset, n, k, hit)
    <2>1. /\ hit.port = p /\ hit.skip = s.at - p.offset /\ hit.over = s.over
          /\ hit.bytes = bytes
      BY DEF Hit
    <2> HIDE DEF bytes, hit, t
    <2>2. \E i \in 1..k : hit.port = ports[i]
      <3>1. k \in 1..k
        OBVIOUS
      <3> QED
        BY <3>1, <2>1
    <2> HIDE DEF p
    <2>3. hit.skip = offset + hit.over - hit.port.offset
      BY <2>1, <1>3, <1>6, <1>7
    <2>4. hit.bytes >= 1
      BY <2>1, <1>3, <1>4
    <2>5. hit.skip + hit.bytes <= hit.port.size
      BY <2>1, <1>4
    <2>6. hit.over + hit.bytes <= n
      BY <2>1, <1>3, <1>4, <1>7
    <2>7. hit.over = 0 \/ hit.skip = 0
      BY <2>1, <1>3, <1>6, <1>7
    <2>8. hit.skip + hit.bytes = hit.port.size \/ hit.over + hit.bytes = n
      BY <2>1, <1>3, <1>4, <1>7
    <2> QED
      BY <2>2, <2>3, <2>4, <2>5, <2>6, <2>7, <2>8 DEF GoodHit
  <1>10. InReach(ports, offset, n, p)
    <2>1. s.at \in Written(offset, n)
      BY <1>3, <1>7 DEF Written
    <2>2. ASSUME NEW b \in Written(offset, n), b < p.offset
          PROVE  \E j \in 1..N : b \in PortBytes(ports[j])
      <3>1. b \in Written(offset, s.over)
        BY <2>2, <1>3, <1>6, <1>7 DEF Written
      <3> QED
        BY <3>1, <1>7
    <2> QED
      BY <2>1, <2>2 DEF InReach
  <1>11. HitsMade(ports, offset, n, k, t)
    <2> DEFINE L == Len(s.hits)
    <2>1. /\ L \in Nat /\ Len(t.hits) = L + 1 /\ t.hits[L + 1] = hit
          /\ \A i \in 1..L : t.hits[i] = s.hits[i]
      <3> HIDE DEF t, hit, p
      <3> QED
        BY <1>3, <1>4, <1>5
    <2>2. \A i \in 1..L : GoodHit(ports, offset, n, k - 1, s.hits[i])
      BY DEF HitsMade
    <2>3. \A i \in 1..L : \E j \in 1..(k - 1) : s.hits[i].port = ports[j]
      BY <2>2 DEF GoodHit
    <2>4. hit.port = p
      BY DEF Hit
    <2> HIDE DEF t, hit, bytes
    <2>5. ASSUME NEW i \in 1..(L + 1) PROVE GoodHit(ports, offset, n, k, t.hits[i])
      <3>1. CASE i = L + 1
        BY <3>1, <2>1, <1>9
      <3>2. CASE i # L + 1
        <4>1. i \in 1..L /\ t.hits[i] = s.hits[i]
          BY <3>2, <2>1, SMTT(30)
        <4>2. GoodHit(ports, offset, n, k - 1, s.hits[i])
          BY <4>1, <2>2
        <4>3. \E j \in 1..k : s.hits[i].port = ports[j]
          BY <4>1, <2>3
        <4> QED
          BY <4>1, <4>2, <4>3 DEF GoodHit
      <3> QED
        BY <3>1, <3>2
    <2>6. ASSUME NEW i \in 1..(L + 1), NEW j \in 1..(L + 1), i < j
          PROVE  t.hits[i].port.offset < t.hits[j].port.offset
      <3>1. i \in 1..L /\ t.hits[i] = s.hits[i]
        BY <2>1, <2>6
      <3>2. CASE j = L + 1
        <4>1. PICK m \in 1..(k - 1) : s.hits[i].port = ports[m]
          BY <3>1, <2>3
        <4>2. ports[m].offset + ports[m].size <= p.offset
          BY <1>2
        <4>3. ports[m].offset < p.offset
          <5>1. m \in 1..N
            OBVIOUS
          <5> HIDE DEF p, N, L
          <5> QED
            BY <5>1, <4>2, <1>1, <1>6, SMTT(30)
        <4> QED
          BY <4>1, <4>3, <3>1, <3>2, <2>1, <2>4
      <3>3. CASE j # L + 1
        <4>1. j \in 1..L /\ t.hits[j] = s.hits[j]
          BY <3>3, <2>1
        <4> QED
          BY <4>1, <3>1, <2>6 DEF HitsMade
      <3> QED
        BY <3>2, <3>3
    <2>7. ASSUME NEW i \in 1..k
          PROVE  (\E j \in 1..(L + 1) : t.hits[j].port = ports[i])
                   <=> InReach(ports, offset, n, ports[i])
      <3>1. CASE i = k
        BY <3>1, <2>1, <2>4, <1>10
      <3>2. CASE i # k
        <4>1. i \in 1..(k - 1) /\ i \in 1..N
          BY <3>2
        <4>2. hit.port # ports[i]
          <5>1. ports[i].offset + ports[i].size <= p.offset
            BY <4>1, <1>2
          <5>2. ports[i].offset # p.offset
            BY <4>1, <5>1, <1>1
          <5> QED
            BY <5>2, <2>4
        <4>3. (\E j \in 1..L : s.hits[j].port = ports[i])
                <=> InReach(ports, offset, n, ports[i])
          BY <4>1 DEF HitsMade
        <4>4. (\E j \in 1..(L + 1) : t.hits[j].port = ports[i])
                <=> (\E j \in 1..L : s.hits[j].port = ports[i])
          <5>1. \A j \in 1..(L + 1) : j \in 1..L \/ j = L + 1
            BY <2>1
          <5>2. 1..L \subseteq 1..(L + 1)
            BY <2>1
          <5> HIDE DEF L, p
          <5> QED
            BY <5>1, <5>2, <4>2, <2>1
        <4> QED
          BY <4>3, <4>4
      <3> QED
        BY <3>1, <3>2
    <2> HIDE DEF L
    <2> QED
      BY <2>1, <2>5, <2>6, <2>7 DEF HitsMade
  <1> QED
    BY <1>8, <1>11

(* An iteration that misses its port keeps it: the port is not in reach.   *)
LEMMA MissStep ==
  ASSUME NEW ports \in Seq(PortType), Sorted(ports),
         NEW offset \in Nat, NEW n \in Nat,
         NEW k \in 1..Len(ports), NEW s \in State,
         Prefix(ports, offset, n, k - 1, s),
         HitsMade(ports, offset, n, k - 1, s),
         ~(s.left > 0 /\ s.at \in PortBytes(ports[k]))
  PROVE  /\ Prefix(ports, offset, n, k, Step(s, ports[k]))
         /\ HitsMade(ports, offset, n, k, Step(s, ports[k]))
  <1> DEFINE N == Len(ports)
             p == ports[k]
  <1>1. /\ p \in PortType
        /\ \A i \in 1..N : /\ ports[i].offset \in Nat /\ ports[i].size \in Nat
                           /\ ports[i].size >= 1
    <2>1. \A i \in 1..N : ports[i] \in PortType
      OBVIOUS
    <2> QED
      BY <2>1, PortOf
  <1>2. \A i, j \in 1..N :
          i < j => ports[i].offset + ports[i].size <= ports[j].offset
    BY SortedPorts
  <1>3. /\ s.at \in Nat /\ s.left \in Nat /\ s.over \in Nat
        /\ s.left + s.over = n
        /\ s.hits \in Seq(HitType) /\ Len(s.hits) \in Nat
    BY DEF State, Prefix
  <1>4. Step(s, p) = s
    BY DEF Step
  <1>5. \A b \in Written(offset, s.over) :
          \E i \in 1..(k - 1) : b \in PortBytes(ports[i])
    BY DEF Prefix
  <1>6. \A i \in 1..k : i \in 1..(k - 1) \/ i = k
    OBVIOUS
  <1>7. 1..(k - 1) \subseteq 1..k /\ (k + 1)..N \subseteq ((k - 1) + 1)..N
    OBVIOUS
  <1>8. Prefix(ports, offset, n, k, s)
    <2>1. s.left > 0 => \A i \in 1..k : s.at \notin PortBytes(ports[i])
      BY <1>6 DEF Prefix
    <2> QED
      BY <2>1, <1>7 DEF Prefix
  <1>9. ~InReach(ports, offset, n, p)
    <2>1. SUFFICES ASSUME InReach(ports, offset, n, p) PROVE FALSE
      OBVIOUS
    <2>2. PICK b \in Written(offset, n) : b \in PortBytes(p)
      BY <2>1 DEF InReach
    <2>3. /\ b \in Nat /\ offset <= b /\ b < offset + n
          /\ p.offset <= b /\ b < p.offset + p.size
      BY <2>2, <1>1, ByteOf, WrittenByte
    <2>4. b \notin Written(offset, s.over)
      <3>1. SUFFICES ASSUME NEW i \in 1..(k - 1), b \in PortBytes(ports[i])
                     PROVE  FALSE
        BY <1>5
      <3>2. i \in 1..N /\ i < k
        OBVIOUS
      <3>3. ports[i].offset + ports[i].size <= p.offset
        BY <3>2, <1>2
      <3>4. b < ports[i].offset + ports[i].size
        BY <3>1, <3>2, <1>1 DEF PortBytes
      <3>5. p.offset \in Nat
        BY <1>1
      <3> HIDE DEF p, N
      <3> QED
        BY <2>3, <3>2, <3>3, <3>4, <3>5, <1>1
    <2>5. b >= offset + s.over
      BY <2>3, <2>4, <1>3 DEF Written
    <2>6. s.left > 0
      BY <2>3, <2>5, <1>3
    <2>7. s.at = offset + s.over /\ s.at \notin PortBytes(p)
      BY <2>6 DEF Prefix
    <2>8. s.at < p.offset
      <3>1. p.offset \in Nat /\ p.size \in Nat
        BY <1>1
      <3>2. s.at < p.offset \/ s.at >= p.offset + p.size
        <4>1. p \in PortType
          BY <1>1
        <4>2. ~(p.offset <= s.at /\ s.at < p.offset + p.size)
          BY <4>1, <2>7, <1>3, ByteOf
        <4> HIDE DEF p
        <4> QED
          BY <4>2, <3>1, <1>3
      <3> HIDE DEF p
      <3> QED
        BY <3>1, <3>2, <2>3, <2>5, <2>7, <1>3, SMTT(30)
    <2>9. s.at \in Written(offset, n)
      BY <2>6, <2>7, <1>3 DEF Written
    <2>10. PICK j \in 1..N : s.at \in PortBytes(ports[j])
      BY <2>1, <2>8, <2>9 DEF InReach
    <2>11. CASE j < k
      BY <2>11, <2>6, <2>10 DEF Prefix
    <2>12. CASE j = k
      BY <2>12, <2>7, <2>10
    <2>13. CASE j > k
      <3>1. p.offset + p.size <= ports[j].offset
        BY <2>13, <1>2
      <3>2. p.offset \in Nat /\ p.size \in Nat
        BY <1>1
      <3>3. ports[j].offset <= s.at
        BY <2>10, <1>1, <1>3 DEF PortBytes
      <3> HIDE DEF p, N
      <3> QED
        BY <3>1, <3>2, <3>3, <2>8, <1>1, <1>3, SMTT(30)
    <2> QED
      BY <2>11, <2>12, <2>13
  <1>10. HitsMade(ports, offset, n, k, s)
    <2>1. ASSUME NEW i \in 1..Len(s.hits)
          PROVE  GoodHit(ports, offset, n, k, s.hits[i])
      <3>1. GoodHit(ports, offset, n, k - 1, s.hits[i])
        BY DEF HitsMade
      <3> QED
        BY <3>1, <1>7 DEF GoodHit
    <2>2. ASSUME NEW i \in 1..Len(s.hits) PROVE s.hits[i].port # p
      <3>1. PICK m \in 1..(k - 1) : s.hits[i].port = ports[m]
        BY DEF HitsMade, GoodHit
      <3>2. m \in 1..N /\ m < k
        OBVIOUS
      <3>3. ports[m].offset + ports[m].size <= p.offset
        BY <3>2, <1>2
      <3>4. ports[m].offset # p.offset
        BY <3>2, <3>3, <1>1
      <3> QED
        BY <3>1, <3>4
    <2>3. ASSUME NEW i \in 1..k
          PROVE  (\E j \in 1..Len(s.hits) : s.hits[j].port = ports[i])
                   <=> InReach(ports, offset, n, ports[i])
      <3>1. CASE i = k
        BY <3>1, <2>2, <1>9
      <3>2. CASE i \in 1..(k - 1)
        BY <3>2 DEF HitsMade
      <3> QED
        BY <3>1, <3>2, <1>6
    <2> QED
      BY <2>1, <2>3 DEF HitsMade
  <1> QED
    BY <1>4, <1>8, <1>10

(* What the walk over sorted ports returns: it consumes a prefix of the    *)
(* write that lies in ports, and hits the ports in reach.                  *)
LEMMA ScanWalks ==
  ASSUME NEW ports \in Seq(PortType), Sorted(ports),
         NEW offset \in Nat, NEW n \in Nat
  PROVE  /\ Scan(ports, offset, n) \in State
         /\ Prefix(ports, offset, n, Len(ports), Scan(ports, offset, n))
         /\ HitsMade(ports, offset, n, Len(ports), Scan(ports, offset, n))
  <1> DEFINE N == Len(ports)
  <1>1. PICK f \in [0..N -> State] :
          /\ f[0] = Begin(offset, n)
          /\ \A i \in 1..N : f[i] = Step(f[i - 1], ports[i])
          /\ Scan(ports, offset, n) = f[N]
    BY ScanStates
  <1> DEFINE Good(k, s) == /\ Prefix(ports, offset, n, k, s)
                           /\ HitsMade(ports, offset, n, k, s)
             T == {k \in 0..N : Good(k, f[k])}
  <1>2. Good(0, Begin(offset, n))
    <2> DEFINE s == Begin(offset, n)
    <2>1. /\ s.at = offset /\ s.left = n /\ s.over = 0
          /\ s.hits = <<>> /\ Len(s.hits) = 0
      BY DEF Begin
    <2> HIDE DEF s
    <2>2. Prefix(ports, offset, n, 0, s)
      BY <2>1 DEF Prefix, Written
    <2>3. HitsMade(ports, offset, n, 0, s)
      BY <2>1 DEF HitsMade
    <2> QED
      BY <2>2, <2>3 DEF s
  <1>3. 0 \in T
    BY <1>1, <1>2
  <1>4. ASSUME NEW k \in 1..N, k - 1 \in T PROVE k \in T
    <2>1. f[k - 1] \in State /\ Good(k - 1, f[k - 1])
      BY <1>4
    <2>2. Good(k, Step(f[k - 1], ports[k]))
      BY <2>1, HitStep, MissStep
    <2> QED
      BY <2>2, <1>1
  <1>5. 0..N \subseteq T
    <2>1. N \in Nat
      OBVIOUS
    <2> HIDE DEF T, N
    <2> QED
      BY <2>1, <1>3, <1>4, Upwards
  <1>6. N \in T /\ f[N] \in State
    <2>1. N \in 0..N
      OBVIOUS
    <2> HIDE DEF T, N
    <2> QED
      BY <2>1, <1>5
  <1> QED
    BY <1>1, <1>6
-----------------------------------------------------------------------------
(* Memory                                                                  *)

LEMMA BytesType ==
  ASSUME NEW B, NEW M \in Nat, NEW m \in [0..(M - 1) -> B],
         NEW from \in Nat, NEW n \in Nat, from + n <= M
  PROVE  Bytes(m, from, n) \in [1..n -> B]
  <1>1. ASSUME NEW b \in 1..n PROVE from + b - 1 \in 0..(M - 1)
    OBVIOUS
  <1> QED
    BY <1>1 DEF Bytes

LEMMA OverwrittenType ==
  ASSUME NEW B, NEW D, NEW m \in [D -> B],
         NEW from \in Nat, NEW n \in Nat, NEW value \in [1..n -> B]
  PROVE  Overwritten(m, from, value) \in [D -> B]
  BY DEF Overwritten

(* Bytes of the memory apart from the value are what they were.            *)
LEMMA BytesApart ==
  ASSUME NEW M \in Nat, NEW m, DOMAIN m = 0..(M - 1),
         NEW from \in Nat, NEW n \in Nat, NEW value, DOMAIN value = 1..n,
         NEW place \in Nat, NEW size \in Nat, place + size <= M,
         place + size <= from \/ from + n <= place
  PROVE  Bytes(Overwritten(m, from, value), place, size) = Bytes(m, place, size)
  <1>1. ASSUME NEW b \in 1..size
        PROVE  Overwritten(m, from, value)[place + b - 1] = m[place + b - 1]
    <2>1. place + b - 1 \in DOMAIN m
      OBVIOUS
    <2>2. (place + b - 1) - from + 1 \notin DOMAIN value
      OBVIOUS
    <2> QED
      BY <2>1, <2>2 DEF Overwritten
  <1> QED
    BY <1>1 DEF Bytes

(* Those at the place of the value are the value.                          *)
LEMMA BytesWritten ==
  ASSUME NEW B, NEW M \in Nat, NEW m \in [0..(M - 1) -> B],
         NEW from \in Nat, NEW n \in Nat, NEW value \in [1..n -> B],
         from + n <= M
  PROVE  Bytes(Overwritten(m, from, value), from, n) = value
  <1>1. ASSUME NEW b \in 1..n
        PROVE  Overwritten(m, from, value)[from + b - 1] = value[b]
    <2>1. from + b - 1 \in DOMAIN m
      OBVIOUS
    <2>2. (from + b - 1) - from + 1 = b /\ b \in DOMAIN value
      OBVIOUS
    <2> QED
      BY <2>1, <2>2 DEF Overwritten
  <1> QED
    BY <1>1 DEF Bytes

(* Where the bytes of a port are in the write: p is the offset of the port *)
(* and b one of its bytes.                                                 *)
LEMMA HitArithmetic ==
  ASSUME NEW base \in Nat, NEW offset \in Nat, NEW n \in Nat,
         NEW p \in Nat, NEW size \in Nat,
         NEW skip \in Nat, NEW over \in Nat, NEW bytes \in Nat,
         skip = offset + over - p, over + bytes <= n, over = 0 \/ skip = 0,
         skip + bytes = size \/ over + bytes = n, NEW b \in 1..size
  PROVE  /\ b - skip \in 1..bytes =>
              /\ over + b - skip \in 1..n
              /\ (base + offset) + (over + b - skip) - 1 = (base + p) + b - 1
         /\ b - skip \notin 1..bytes => b - skip + over \notin 1..n
         /\ ((base + p) + b - 1) - (base + offset) + 1 = b - skip + over
  <1>1. b - skip \notin 1..bytes => b - skip + over \notin 1..n
    <2>1. CASE b <= skip
      BY <2>1
    <2>2. CASE b > skip
      BY <2>2
    <2> QED
      BY <2>1, <2>2
  <1> QED
    BY <1>1

(* Right after a write, the callback of a hit gets the port as it is and   *)
(* as it was: the bytes that it does not take back were not written.       *)
LEMMA InformedValues ==
  ASSUME NEW M \in Nat, NEW m, DOMAIN m = 0..(M - 1),
         NEW ports \in Seq(PortType), NEW base \in Nat,
         NEW offset \in Nat, NEW n \in Nat, NEW value, DOMAIN value = 1..n,
         base + offset + n <= M,
         NEW hit \in HitType, GoodHit(ports, offset, n, Len(ports), hit),
         base + hit.port.offset + hit.port.size <= M
  PROVE  Informed(Overwritten(m, base + offset, value), base, hit,
                  Bytes(m, base + offset, n))
           = [port |-> hit.port,
              new |-> Bytes(Overwritten(m, base + offset, value),
                            base + hit.port.offset, hit.port.size),
              old |-> Bytes(m, base + hit.port.offset, hit.port.size)]
  <1> DEFINE at == base + offset
             place == base + hit.port.offset
             size == hit.port.size
             after == Overwritten(m, at, value)
             before == Bytes(m, at, n)
  <1>1. /\ hit.port.offset \in Nat /\ size \in Nat
        /\ hit.skip \in Nat /\ hit.over \in Nat /\ hit.bytes \in Nat
    <2>1. /\ hit.port \in PortType
          /\ hit.skip \in Nat /\ hit.over \in Nat /\ hit.bytes \in Nat
      BY DEF HitType
    <2> QED
      BY <2>1, PortOf
  <1>2. /\ hit.skip = offset + hit.over - hit.port.offset
        /\ hit.over + hit.bytes <= n
        /\ hit.over = 0 \/ hit.skip = 0
        /\ hit.skip + hit.bytes = size \/ hit.over + hit.bytes = n
    BY DEF GoodHit
  <1>a. ASSUME NEW b \in 1..size
        PROVE  /\ b - hit.skip \in 1..hit.bytes =>
                    /\ hit.over + b - hit.skip \in 1..n
                    /\ at + (hit.over + b - hit.skip) - 1 = place + b - 1
               /\ b - hit.skip \notin 1..hit.bytes =>
                    b - hit.skip + hit.over \notin 1..n
               /\ (place + b - 1) - at + 1 = b - hit.skip + hit.over
    <2> DEFINE p == hit.port.offset
               skip == hit.skip
               over == hit.over
               bytes == hit.bytes
    <2>1. /\ p \in Nat /\ size \in Nat
          /\ skip \in Nat /\ over \in Nat /\ bytes \in Nat
          /\ skip = offset + over - p /\ over + bytes <= n
          /\ over = 0 \/ skip = 0
          /\ skip + bytes = size \/ over + bytes = n
      BY <1>1, <1>2
    <2> HIDE DEF p, size, skip, over, bytes
    <2>2. /\ b - skip \in 1..bytes =>
               /\ over + b - skip \in 1..n
               /\ (base + offset) + (over + b - skip) - 1 = (base + p) + b - 1
          /\ b - skip \notin 1..bytes => b - skip + over \notin 1..n
          /\ ((base + p) + b - 1) - (base + offset) + 1 = b - skip + over
      BY <2>1, HitArithmetic
    <2> QED
      BY <2>2 DEF p, skip, over, bytes
  <1>b. /\ at \in Nat /\ place \in Nat /\ place + size <= M
    <2>1. at \in Nat
      OBVIOUS
    <2>2. place \in Nat
      <3> DEFINE p == hit.port.offset
      <3>1. p \in Nat
        BY <1>1
      <3> HIDE DEF p
      <3>2. base + p \in Nat
        BY <3>1
      <3> QED
        BY <3>2 DEF p
    <2> QED
      BY <2>1, <2>2
  <1>3. ASSUME NEW b \in 1..size, b - hit.skip \in 1..hit.bytes
        PROVE  before[hit.over + b - hit.skip] = m[place + b - 1]
    <2> HIDE DEF at, place, size
    <2> QED
      BY <1>3, <1>a DEF Bytes
  <1>4. ASSUME NEW b \in 1..size, b - hit.skip \notin 1..hit.bytes
        PROVE  after[place + b - 1] = m[place + b - 1]
    <2> HIDE DEF at, place, size
    <2>1. place + b - 1 \in DOMAIN m
      BY <1>1, <1>b
    <2> QED
      BY <2>1, <1>4, <1>a DEF Overwritten
  <1>5. [b \in 1..size |-> IF b - hit.skip \in 1..hit.bytes
                            THEN before[hit.over + b - hit.skip]
                            ELSE Bytes(after, place, size)[b]]
          = [b \in 1..size |-> m[place + b - 1]]
    <2>1. \A b \in 1..size : Bytes(after, place, size)[b] = after[place + b - 1]
      BY DEF Bytes
    <2> HIDE DEF at, place, size, after, before
    <2> QED
      BY <2>1, <1>3, <1>4
  <1> QED
    BY <1>5 DEF Informed, Bytes
=============================================================================
